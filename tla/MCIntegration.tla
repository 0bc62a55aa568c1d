----------------------------- MODULE MCIntegration -----------------------------
(* A camera listed with this add-on's streams, cut to one of each kind, or with
   none: the add-on leaves them out of a camera it has no address of. *)
EXTENDS Integration

Published == {<<>>, <<"original", "h265", "h264">>}
Sets == {{"original"}, {"h264"}, {"original", "h264"}}
=============================================================================
