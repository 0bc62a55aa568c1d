------------------------------ MODULE MCRestreamer -----------------------------
(* Restreamer with streams that each have two possible sources and may leave. *)
EXTENDS Restreamer

\* Every stream of the camera, or one of them pointed elsewhere and the other gone.
Shrinking == {[n \in Name |-> "old"], [n \in Name |-> IF n = "main" THEN "new" ELSE Absent]}

\* A fresh installation, or one that has been running with all of them.
Before == {Empty, [n \in Name |-> "old"]}
================================================================================
