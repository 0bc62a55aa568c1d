------------------------------ MODULE MCNalUnits -------------------------------
(* NalUnits on every short buffer. *)
EXTENDS NalUnits

CONSTANT MaxLength  \* bound: the longest buffer

ShortBuffers == UNION {[1 .. n -> Byte] : n \in 0 .. MaxLength}
================================================================================
