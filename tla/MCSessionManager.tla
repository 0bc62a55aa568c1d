--------------------------- MODULE MCSessionManager ----------------------------
(* SessionManager on small instances. *)
EXTENDS SessionManager, TLC

Symmetry == Permutations(Reader) \cup Permutations(Stopper)
            \cup Permutations(Instance) \cup Permutations(Session)
            \cup Permutations(Quality)
================================================================================
