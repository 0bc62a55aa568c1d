------------------------------ MODULE SharedLink -------------------------------
(***************************************************************************)
(* What a camera session promises those who share it, without its lock,    *)
(* its countdown or the vendor's calls: one peer-to-peer link that is      *)
(* opened and closed as a whole, and an audience that loses its picture    *)
(* only in the step in which the link has gone down, all of it at once.    *)
(***************************************************************************)
CONSTANTS Session, Reader

VARIABLES
  link,      \* the state of each session's peer-to-peer link
  audience   \* the readers each session feeds

linkVars == <<link, audience>>

LinkState == {"down", "opening", "dropping", "up", "closing"}

LinkInit ==
  /\ link = [s \in Session |-> "down"]
  /\ audience = [s \in Session |-> {}]

Move(s, from, to) ==
  /\ link[s] = from
  /\ link' = [link EXCEPT ![s] = to]

\* The link is asked for; it comes up, perhaps with the reader that asked
\* already served; or it is given up, with or without something to close.
Open(s) == Move(s, "down", "opening") /\ UNCHANGED audience

Opened(s) ==
  /\ Move(s, "opening", "up")
  /\ \/ UNCHANGED audience
     \/ \E r \in Reader : audience' = [audience EXCEPT ![s] = @ \cup {r}]

GiveUp(s) ==
  /\ Move(s, "opening", "dropping") \/ Move(s, "opening", "down")
  /\ UNCHANGED audience

Dropped(s) == Move(s, "dropping", "down") /\ UNCHANGED audience

Close(s) == Move(s, "up", "closing") /\ UNCHANGED audience

\* Down again: nobody is left listening to a link that was up.
Closed(s) ==
  /\ Move(s, "closing", "down")
  /\ audience' = [audience EXCEPT ![s] = {}]

Join(s, r) ==
  /\ audience' = [audience EXCEPT ![s] = @ \cup {r}]
  /\ UNCHANGED link

Part(s, r) ==
  /\ audience' = [audience EXCEPT ![s] = @ \ {r}]
  /\ UNCHANGED link

LinkNext ==
  \E s \in Session :
    \/ Open(s) \/ Opened(s) \/ GiveUp(s) \/ Dropped(s)
    \/ Close(s) \/ Closed(s)
    \/ \E r \in Reader : Join(s, r) \/ Part(s, r)

LinkSpec == LinkInit /\ [][LinkNext]_linkVars
================================================================================
