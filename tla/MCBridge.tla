------------------------------ MODULE MCBridge ------------------------------
(* One camera, supported or refused by the vendor library. *)
EXTENDS Bridge

There == {Did}
Either == {{}, Did}
=============================================================================
