----------------------------- MODULE MCStreamMuxer -----------------------------
(* StreamMuxer on a clock of a few ticks that wraps at its sentinel. *)
EXTENDS StreamMuxer

Timestamps == -1 .. 14
================================================================================
