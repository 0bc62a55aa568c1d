--------------------------- MODULE CameraSessionLink ---------------------------
(***************************************************************************)
(* CameraSession implements SharedLink.  The link's state is read off the  *)
(* session's handle and off where the task that holds its lock stands; the *)
(* audience is the consumers that have not been closed.                    *)
(***************************************************************************)
EXTENDS CameraSession

ReaderAt(s, states) == \E r \in Reader : on[r] = s /\ reader[r] \in states

StopperAt(s) == \E p \in Stopper : on[p] = s /\ stopper[p] = "stopping"

link == [s \in Session |->
  IF instance[s] # None
  THEN IF ReaderAt(s, {"reconnect"}) \/ StopperAt(s) THEN "closing" ELSE "up"
  ELSE IF ReaderAt(s, {"abort"}) THEN "dropping"
  ELSE IF ReaderAt(s, Opening \ {"create"}) THEN "opening" ELSE "down"]

audience == [s \in Session |->
  {r \in Reader : on[r] = s /\ reader[r] = "reading" /\ ~closed[r]}]

L == INSTANCE SharedLink WITH link <- link, audience <- audience

\* Every step of the session is a step of the shared link or leaves it alone:
\* the link goes up only after being opened, and whoever listens to it when it
\* is closed is told in the very step in which it is gone.
ImplementsSharedLink == L!LinkSpec
================================================================================
