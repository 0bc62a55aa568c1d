------------------------------ MODULE StoredAccount ------------------------------
(***************************************************************************)
(* What the account on disk may do, seen from outside: a sign-in replaces   *)
(* it, a renewal gives the same sign-in another token, unlinking removes    *)
(* it, and an account that was removed does not come back by itself.  One    *)
(* that is being restored is the exception: it may be written after it was   *)
(* replaced or removed meanwhile.                                            *)
(***************************************************************************)
EXTENDS Naturals

CONSTANT Absent  \* no account

VARIABLES
  stored,   \* the account on disk
  signins,  \* sign-ins so far
  restored  \* the sign-in that is being restored, or 0

vars == <<stored, signins, restored>>

Init ==
  /\ signins \in {0, 1}
  /\ IF signins = 0 THEN stored = Absent ELSE stored # Absent /\ stored.signin = 1
  /\ restored = 0

SignIn ==
  /\ signins' = signins + 1 /\ stored' # Absent /\ stored'.signin = signins'
  /\ UNCHANGED restored

Renew ==
  /\ stored # Absent /\ stored' # Absent
  /\ stored'.signin = stored.signin /\ stored'.token > stored.token
  /\ UNCHANGED <<signins, restored>>

Forget == stored' = Absent /\ UNCHANGED <<signins, restored>>

Return ==
  /\ restored # 0 /\ stored' # Absent /\ stored'.signin = restored
  /\ restored' \in {restored, 0} /\ UNCHANGED signins

\* A process reads what is stored, and later is done with it.
Read == stored # Absent /\ restored' = stored.signin /\ UNCHANGED <<stored, signins>>

Done == restored' = 0 /\ UNCHANGED <<stored, signins>>

Next == SignIn \/ Renew \/ Forget \/ Return \/ Read \/ Done

Promise == Init /\ [][Next]_vars
================================================================================
