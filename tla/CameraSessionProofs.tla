-------------------------- MODULE CameraSessionProofs --------------------------
(***************************************************************************)
(* What CameraSession guarantees for any number of readers, stoppers,      *)
(* sessions and vendor instances.  Inductive is preserved by every step,   *)
(* one lemma per part; the later sections add what each further property   *)
(* rests on: who holds an instance, which countdowns run, who is told of   *)
(* an end.  Then come the steps of SharedLink, and the manager, whose      *)
(* steps are steps of the sessions.                                        *)
(***************************************************************************)
EXTENDS CameraSessionLink, SessionManager, FiniteSetTheorems, SequenceTheorems, TLAPS

\* Handing the lock on leaves lock and queue well typed.
LEMMA ReleaseType ==
  ASSUME TypeOK, NEW s \in Session, Release(s)
  PROVE  /\ lock' \in [Session -> Task \cup {None}]
         /\ waiters' \in [Session -> Seq(Task)]
<1>1. CASE waiters[s] = <<>>
  BY <1>1 DEF TypeOK, Release
<1>2. CASE waiters[s] # <<>>
  <2>1. waiters[s] \in Seq(Task)
    BY DEF TypeOK
  <2>2. Head(waiters[s]) \in Task /\ Tail(waiters[s]) \in Seq(Task)
    BY <1>2, <2>1, HeadTailProperties
  <2>3. PICK t \in Task, rest \in Seq(Task) : t = Head(waiters[s]) /\ rest = Tail(waiters[s])
    BY <2>2
  <2>4. lock' = [lock EXCEPT ![s] = t] /\ waiters' = [waiters EXCEPT ![s] = rest]
    BY <1>2, <2>3 DEF Release
  <2>5. lock \in [Session -> Task \cup {None}] /\ waiters \in [Session -> Seq(Task)]
    BY DEF TypeOK
  <2>. QED  BY <2>4, <2>5
<1>. QED  BY <1>1, <1>2

\* So does joining the queue for it.
LEMMA QueueType ==
  ASSUME TypeOK, NEW t \in Task, NEW s \in Session, Queue(t, s)
  PROVE  /\ lock' \in [Session -> Task \cup {None}]
         /\ waiters' \in [Session -> Seq(Task)]
<1>1. Append(waiters[s], t) \in Seq(Task)
  BY AppendProperties DEF TypeOK
<1>. QED  BY <1>1 DEF TypeOK, Queue

\* Cancelling a countdown leaves the handle and the stoppers well typed.
LEMMA CancelLingerType ==
  ASSUME TypeOK, NEW s \in Session, CancelLinger(s)
  PROVE  /\ lingerTask' \in [Session -> Stopper \cup {None}]
         /\ stopper' \in [Stopper -> StopperState]
BY DEF TypeOK, CancelLinger, StopperState

\* async_stop past its lock leaves what it assigns well typed.
LEMMA StopBodyType ==
  ASSUME TypeOK, NEW p \in Stopper, NEW s \in Session, StopBody(p, s)
  PROVE  /\ lingerTask' \in [Session -> Stopper \cup {None}]
         /\ stopper' \in [Stopper -> StopperState]
         /\ on' \in [Task -> Session \cup {None}]
<1>1. lingerTask' \in [Session -> Stopper \cup {None}]
  BY DEF TypeOK, StopBody
<1>2. stopper' \in [Stopper -> StopperState]
  BY DEF TypeOK, StopBody, StopperState
<1>3. on' \in [Task -> Session \cup {None}]
  BY DEF TypeOK, StopBody
<1>. QED  BY <1>1, <1>2, <1>3

\* A call of async_stop, whether or not it gets the lock, leaves what it
\* assigns well typed.
LEMMA StopCallType ==
  ASSUME TypeOK, NEW p \in Stopper, NEW s \in Session, StopCall(p, s)
  PROVE  /\ lock' \in [Session -> Task \cup {None}]
         /\ waiters' \in [Session -> Seq(Task)]
         /\ lingerTask' \in [Session -> Stopper \cup {None}]
         /\ stopper' \in [Stopper -> StopperState]
         /\ on' \in [Task -> Session \cup {None}]
<1>1. p \in Task
  BY DEF Task
<1>2. CASE LockFree(s)
  <2>1. StopBody(p, s) /\ (UNCHANGED <<lock, waiters>> \/ Take(p, s))
    BY <1>2 DEF StopCall
  <2>2. lock' \in [Session -> Task \cup {None}] /\ waiters' \in [Session -> Seq(Task)]
    BY <1>1, <2>1 DEF TypeOK, Take
  <2>. QED  BY <2>1, <2>2, StopBodyType
<1>3. CASE ~LockFree(s)
  <2>1. /\ Queue(p, s)
        /\ stopper' = [stopper EXCEPT ![p] = "lock"]
        /\ lingerTask' = [lingerTask EXCEPT ![s] = IF @ = p THEN None ELSE @]
        /\ on' = [on EXCEPT ![p] = s]
    BY <1>3 DEF StopCall
  <2>2. lingerTask' \in [Session -> Stopper \cup {None}]
    BY <2>1 DEF TypeOK
  <2>3. stopper' \in [Stopper -> StopperState]
    BY <2>1 DEF TypeOK, StopperState
  <2>4. on' \in [Task -> Session \cup {None}]
    BY <1>1, <2>1 DEF TypeOK
  <2>. QED  BY <1>1, <2>1, <2>2, <2>3, <2>4, QueueType
<1>. QED  BY <1>2, <1>3

\* Leaving _hold keeps the count a natural number, because a reader that
\* leaves was counted, and the countdown well typed.
LEMMA UnholdType ==
  ASSUME TypeOK, NEW s \in Session, Unhold(s), users[s] # 0
  PROVE  /\ users' \in [Session -> Nat]
         /\ lingerTask' \in [Session -> Stopper \cup {None}]
         /\ stopper' \in [Stopper -> StopperState]
<1>1. users' \in [Session -> Nat]
  BY DEF TypeOK, Unhold
<1>2. CASE users[s] = 1
  <2>1. PICK p \in Stopper :
          /\ lingerTask' = [lingerTask EXCEPT ![s] = p]
          /\ stopper' = [q \in Stopper |->
               IF q = p THEN "sleep"
               ELSE IF q = lingerTask[s] THEN "idle" ELSE stopper[q]]
    BY <1>2 DEF Unhold
  <2>2. lingerTask' \in [Session -> Stopper \cup {None}]
    BY <2>1 DEF TypeOK
  <2>3. stopper' \in [Stopper -> StopperState]
    BY <2>1 DEF TypeOK, StopperState
  <2>. QED  BY <1>1, <2>2, <2>3
<1>3. CASE users[s] # 1
  BY <1>1, <1>3 DEF TypeOK, Unhold
<1>. QED  BY <1>2, <1>3

\* Entering _hold, with or without parameter sets at hand, keeps its types.
LEMMA HoldType ==
  ASSUME TypeOK, NEW r \in Reader, NEW s \in Session, Hold(r, s)
  PROVE  /\ users' \in [Session -> Nat]
         /\ consumers' \in [Session -> SUBSET Reader]
         /\ reader' \in [Reader -> ReaderState]
         /\ closed' \in [Reader -> BOOLEAN]
         /\ ready' \in [Reader -> BOOLEAN]
<1>1. users' \in [Session -> Nat]
  BY DEF TypeOK, Hold
<1>2. CASE parameterSets[s]
  <2>1. Join(r, s)
    BY <1>2 DEF Hold
  <2>2. consumers' \in [Session -> SUBSET Reader]
    BY <2>1 DEF TypeOK, Join
  <2>. QED  BY <1>1, <2>1, <2>2 DEF TypeOK, Join, Goto, ReaderState, Holding
<1>3. CASE ~parameterSets[s]
  BY <1>1, <1>3 DEF TypeOK, Hold, Goto, ReaderState, Holding
<1>. QED  BY <1>2, <1>3

\* _teardown leaves what it resets well typed.
LEMMA TeardownType ==
  ASSUME TypeOK, NEW s \in Session, TeardownEffect(s)
  PROVE  /\ instance' \in [Session -> Instance \cup {None}]
         /\ codec' \in [Session -> BOOLEAN]
         /\ parameterSets' \in [Session -> BOOLEAN]
         /\ ready' \in [Reader -> BOOLEAN]
         /\ closed' \in [Reader -> BOOLEAN]
         /\ consumers' \in [Session -> SUBSET Reader]
BY DEF TypeOK, TeardownEffect

\* The vendor's stop, clean or not, leaves the instances well typed.
LEMMA StopReturnsType ==
  ASSUME TypeOK, NEW i \in Instance, StopReturns(i)
  PROVE  /\ native' \in [Instance -> {"free", "open", "unknown"}]
         /\ feeds' \in [Instance -> Session \cup {None}]
BY DEF TypeOK, StopReturns

\* An exception out of the critical section leaves its variables well typed.
LEMMA RaiseType ==
  ASSUME TypeOK, NEW r \in Reader, on[r] \in Session, Raise(r)
  PROVE  /\ lock' \in [Session -> Task \cup {None}]
         /\ waiters' \in [Session -> Seq(Task)]
         /\ reader' \in [Reader -> ReaderState]
         /\ opening' \in [Reader -> Instance \cup {None}]
         /\ on' \in [Task -> Session \cup {None}]
  BY ReleaseType DEF TypeOK, Raise, Goto, ReaderState

\* The readers inside _hold are finitely many, and not none if one is known.
LEMMA HoldersFinite ==
  ASSUME NEW s \in Session
  PROVE  /\ IsFiniteSet(Holders(s))
         /\ \A r \in Holders(s) : Cardinality(Holders(s)) # 0
BY TaskAssumption, FS_Subset, FS_EmptySet DEF Holders

\* No step takes a variable out of its type.
LEMMA TypeStep ==
  ASSUME Inductive, [Next]_vars
  PROVE  TypeOK'
<1>. USE DEF Inductive
<1>1. ASSUME NEW r \in Reader, NEW s \in Session, Request(r, s)
      PROVE  TypeOK'
  BY <1>1 DEF TypeOK, Request, Goto, ReaderState, Task, sessionVars, nativeVars
<1>2. ASSUME NEW r \in Reader, Subscribe(r)
      PROVE  TypeOK'
  <2>1. on[r] \in Session
    BY <1>2 DEF Subscribe, BusyTaskHasSession
  <2>2. CASE LockFree(on[r])
    <3>1. Take(r, on[r]) /\ EnterEnsure(r, on[r])
      BY <1>2, <2>2 DEF Subscribe
    <3>2. lock' \in [Session -> Task \cup {None}] /\ waiters' \in [Session -> Seq(Task)]
      BY <3>1, <2>1 DEF TypeOK, Take, Task
    <3>3. reader' \in [Reader -> ReaderState]
      BY <3>1 DEF TypeOK, EnterEnsure, Goto, ReaderState, Ensuring, Opening
    <3>. QED  BY <2>1, <3>1, <3>2, <3>3, CancelLingerType DEF TypeOK, EnterEnsure, nativeVars
  <2>3. CASE ~LockFree(on[r])
    <3>1. r \in Task
      BY DEF Task
    <3>. QED  BY <1>2, <2>1, <2>3, <3>1, QueueType DEF TypeOK, Subscribe, Goto, ReaderState, sessionVars, nativeVars
  <2>. QED  BY <2>2, <2>3
<1>3. ASSUME NEW r \in Reader, Granted(r)
      PROVE  TypeOK'
  BY <1>3 DEF TypeOK, Granted, EnterEnsure, CancelLinger, Goto, ReaderState, StopperState, Ensuring, Opening, BusyTaskHasSession, sessionVars, nativeVars
<1>4. ASSUME NEW r \in Reader, StatusConnected(r)
      PROVE  TypeOK'
  BY <1>4, ReleaseType, HoldType DEF TypeOK, StatusConnected, BusyTaskHasSession, nativeVars
<1>5. ASSUME NEW r \in Reader, StatusLost(r)
      PROVE  TypeOK'
  BY <1>5 DEF TypeOK, StatusLost, Goto, ReaderState, Ensuring, sessionVars, nativeVars
<1>6. ASSUME NEW r \in Reader, Reconnect(r)
      PROVE  TypeOK'
  BY <1>6, TeardownType, StopReturnsType DEF TypeOK, Reconnect, Goto, ReaderState, Ensuring, Opening, BusyTaskHasSession, HandlesMatchControl
<1>7. ASSUME NEW r \in Reader, Created(r)
      PROVE  TypeOK'
  BY <1>7 DEF TypeOK, Created, Goto, ReaderState, Ensuring, Opening, sessionVars
<1>8. ASSUME NEW r \in Reader, Started(r) \/ PollConnected(r) \/ PollTimeout(r)
      PROVE  TypeOK'
  BY <1>8 DEF TypeOK, Started, PollConnected, PollTimeout, Goto, ReaderState, Ensuring, Opening, sessionVars, nativeVars
<1>9. ASSUME NEW r \in Reader, Abort(r)
      PROVE  TypeOK'
  <2>1. on[r] \in Session /\ opening[r] \in Instance
    BY <1>9 DEF Abort, BusyTaskHasSession, HandlesMatchControl, Opening, TypeOK
  <2>. QED  BY <1>9, <2>1, RaiseType, StopReturnsType DEF TypeOK, Abort, Raise, sessionVars
<1>10. ASSUME NEW r \in Reader, CallRaises(r)
      PROVE  TypeOK'
  <2>1. on[r] \in Session
    BY <1>10 DEF CallRaises, BusyTaskHasSession
  <2>. QED  BY <1>10, <2>1, RaiseType DEF TypeOK, CallRaises, Raise, sessionVars, nativeVars
<1>11. ASSUME NEW r \in Reader, RegisterVideo(r)
      PROVE  TypeOK'
  BY <1>11 DEF TypeOK, RegisterVideo, Goto, ReaderState, Ensuring, Opening, BusyTaskHasSession, sessionVars
<1>12. ASSUME NEW r \in Reader, RegisterAudio(r)
      PROVE  TypeOK'
  <2>1. on[r] \in Session /\ opening[r] \in Instance
    BY <1>12 DEF RegisterAudio, BusyTaskHasSession, HandlesMatchControl, Opening, TypeOK
  <2>. QED  BY <1>12, <2>1, ReleaseType, HoldType DEF TypeOK, RegisterAudio, nativeVars
<1>13. ASSUME NEW r \in Reader, ParametersReady(r)
      PROVE  TypeOK'
  BY <1>13 DEF TypeOK, ParametersReady, Join, Goto, ReaderState, Holding, BusyTaskHasSession, nativeVars
<1>14. ASSUME NEW r \in Reader, ParametersTimeout(r) \/ Leave(r)
      PROVE  TypeOK'
  <2>1. on[r] \in Session /\ r \in Holders(on[r])
    BY <1>14 DEF ParametersTimeout, Leave, BusyTaskHasSession, Holders, Holding
  <2>2. users[on[r]] # 0
    BY <2>1, HoldersFinite DEF UsersCounted
  <2>3. Unhold(on[r])
    BY <1>14 DEF ParametersTimeout, Leave
  <2>4. /\ users' \in [Session -> Nat]
        /\ lingerTask' \in [Session -> Stopper \cup {None}]
        /\ stopper' \in [Stopper -> StopperState]
    BY <2>1, <2>2, <2>3, UnholdType
  <2>5. CASE ParametersTimeout(r)
    BY <2>1, <2>4, <2>5 DEF TypeOK, ParametersTimeout, Goto, ReaderState, Task, nativeVars
  <2>6. CASE Leave(r)
    <3>1. consumers' \in [Session -> SUBSET Reader]
      BY <2>6 DEF TypeOK, Leave
    <3>. QED  BY <2>1, <2>4, <2>6, <3>1 DEF TypeOK, Leave, Goto, ReaderState, Task, nativeVars
  <2>. QED  BY <1>14, <2>5, <2>6
<1>15. ASSUME NEW i \in Instance, NEW hasSets \in BOOLEAN, OnVideo(i, hasSets)
      PROVE  TypeOK'
  BY <1>15 DEF TypeOK, OnVideo, nativeVars
<1>16. ASSUME NEW i \in Instance, UnknownEnds(i)
      PROVE  TypeOK'
  BY <1>16 DEF TypeOK, UnknownEnds, sessionVars
<1>17. ASSUME NEW p \in Stopper, NEW s \in Session, LingerFires(p, s) \/ OwnerStop(p, s)
      PROVE  TypeOK'
  <2>1. CASE StopCall(p, s)
    BY <1>17, <2>1, StopCallType DEF TypeOK, LingerFires, OwnerStop, nativeVars
  <2>2. CASE ~StopCall(p, s)
    BY <1>17, <2>2 DEF TypeOK, LingerFires, OwnerStop, StopperState, nativeVars
  <2>. QED  BY <2>1, <2>2
<1>18. ASSUME NEW p \in Stopper, StopGranted(p)
      PROVE  TypeOK'
  <2>1. on[p] \in Session
    BY <1>18 DEF StopGranted, BusyTaskHasSession
  <2>. QED  BY <1>18, <2>1, ReleaseType, StopBodyType DEF TypeOK, StopGranted, nativeVars
<1>19. ASSUME NEW p \in Stopper, Stopped(p)
      PROVE  TypeOK'
  <2>1. on[p] \in Session /\ instance[on[p]] \in Instance
    BY <1>19 DEF Stopped, BusyTaskHasSession, HandlesMatchControl, TypeOK
  <2>. QED  BY <1>19, <2>1, ReleaseType, TeardownType, StopReturnsType DEF TypeOK, Stopped, StopperState, Task
<1>20. CASE UNCHANGED vars
  BY <1>20 DEF TypeOK, vars
<1>. HIDE DEF Inductive
<1>21. ASSUME NEW r \in Reader, Proceed(r) \/ Leave(r)
      PROVE  TypeOK'
  BY <1>2, <1>3, <1>4, <1>5, <1>6, <1>7, <1>8, <1>9, <1>10, <1>11, <1>12, <1>13,
     <1>14, <1>21 DEF Proceed
<1>22. ASSUME NEW p \in Stopper, Finish(p)
      PROVE  TypeOK'
  BY <1>17, <1>18, <1>19, <1>22 DEF Finish
<1>23. CASE Run
  BY <1>15, <1>16, <1>21, <1>22, <1>23 DEF Run
<1>24. CASE \E r \in Reader, s \in Session : Request(r, s)
  BY <1>1, <1>24
<1>25. CASE \E p \in Stopper, s \in Session : OwnerStop(p, s)
  BY <1>17, <1>25
<1>. QED
  BY <1>20, <1>23, <1>24, <1>25 DEF Next

\* Handing the lock on: only the released session's lock and queue change, and
\* a queue that is not empty still has a holder in front of it.
LEMMA ReleaseEffect ==
  ASSUME TypeOK, QueueHasHolder, NEW s \in Session, Release(s)
  PROVE  /\ \A s2 \in Session \ {s} : lock'[s2] = lock[s2] /\ waiters'[s2] = waiters[s2]
         /\ QueueHasHolder'
<1>1. CASE waiters[s] = <<>>
  BY <1>1 DEF TypeOK, Release, QueueHasHolder
<1>2. CASE waiters[s] # <<>>
  <2>1. Head(waiters[s]) \in Task
    BY <1>2, HeadTailProperties DEF TypeOK
  <2>2. Head(waiters[s]) # None
    BY <2>1, TaskAssumption DEF Task
  <2>. QED  BY <1>2, <2>2 DEF TypeOK, Release, QueueHasHolder
<1>. QED  BY <1>1, <1>2

\* Joining the queue of a lock that is taken keeps a holder in front of it.
LEMMA QueueEffect ==
  ASSUME TypeOK, QueueHasHolder, NEW t \in Task, NEW s \in Session,
         ~LockFree(s), Queue(t, s)
  PROVE  QueueHasHolder'
<1>1. lock[s] # None
  BY DEF LockFree, QueueHasHolder
<1>. QED  BY <1>1 DEF TypeOK, Queue, QueueHasHolder

\* A task that releases the lock leaves the critical section, so whoever is
\* still inside works on another session.
LEMMA HolderLeaves ==
  ASSUME BusyTaskHasSession, HolderIsInside, TypeOK, QueueHasHolder,
         NEW t \in Task, on[t] \in Session, lock[on[t]] = t, Release(on[t]),
         \A r \in Reader : r # t /\ reader'[r] \in Ensuring
            => reader[r] \in Ensuring /\ on'[r] = on[r],
         \A p \in Stopper : p # t /\ stopper'[p] = "stopping"
            => stopper[p] = "stopping" /\ on'[p] = on[p],
         t \in Reader => reader'[t] \notin Ensuring,
         t \in Stopper => stopper'[t] # "stopping"
  PROVE  HolderIsInside'
<1>1. ASSUME NEW r \in Reader, reader'[r] \in Ensuring
      PROVE  lock'[on'[r]] = r
  <2>1. r # t /\ reader[r] \in Ensuring /\ on'[r] = on[r]
    BY <1>1
  <2>2. lock[on[r]] = r /\ on[r] \in Session
    BY <2>1 DEF HolderIsInside, BusyTaskHasSession, Ensuring, Opening
  <2>. QED  BY <2>1, <2>2, ReleaseEffect
<1>2. ASSUME NEW p \in Stopper, stopper'[p] = "stopping"
      PROVE  lock'[on'[p]] = p
  <2>1. p # t /\ stopper[p] = "stopping" /\ on'[p] = on[p]
    BY <1>2
  <2>2. lock[on[p]] = p /\ on[p] \in Session
    BY <2>1 DEF HolderIsInside, BusyTaskHasSession
  <2>. QED  BY <2>1, <2>2, ReleaseEffect
<1>. QED  BY <1>1, <1>2 DEF HolderIsInside

\* Leaving _hold starts one countdown and cancels another: nobody who waits for
\* the lock or stops the session is touched.
LEMMA UnholdStoppers ==
  ASSUME TypeOK, NEW s \in Session, Unhold(s)
  PROVE  \A p \in Stopper : stopper'[p] \in {"lock", "stopping"} => stopper'[p] = stopper[p]
<1>1. CASE users[s] = 1
  <2>1. PICK p \in Stopper : stopper' = [q \in Stopper |->
               IF q = p THEN "sleep"
               ELSE IF q = lingerTask[s] THEN "idle" ELSE stopper[q]]
    BY <1>1 DEF Unhold
  <2>. QED  BY <2>1
<1>2. CASE users[s] # 1
  BY <1>2 DEF Unhold
<1>. QED  BY <1>1, <1>2

\* No step breaks what the lock protects: busy tasks have a session, whoever
\* is inside holds the lock, and a queue has a holder in front of it.
LEMMA LockStep ==
  ASSUME Inductive, [Next]_vars
  PROVE  BusyTaskHasSession' /\ HolderIsInside' /\ QueueHasHolder'
<1>. USE DEF Inductive, BusyTaskHasSession, HolderIsInside
<1>1. ASSUME NEW r \in Reader, NEW s \in Session, Request(r, s)
      PROVE  BusyTaskHasSession' /\ HolderIsInside' /\ QueueHasHolder'
  BY <1>1, TaskAssumption DEF TypeOK, Request, Goto, Task, Ensuring, Opening, sessionVars, nativeVars, QueueHasHolder
<1>2. ASSUME NEW r \in Reader, Subscribe(r)
      PROVE  BusyTaskHasSession' /\ HolderIsInside' /\ QueueHasHolder'
  <2>1. on[r] \in Session /\ r \in Task
    BY <1>2 DEF Subscribe, Task
  <2>2. CASE LockFree(on[r])
    <3>1. Take(r, on[r]) /\ EnterEnsure(r, on[r])
      BY <1>2, <2>2 DEF Subscribe
    <3>2. BusyTaskHasSession'
      BY <2>1, <3>1 DEF TypeOK, EnterEnsure, CancelLinger, Goto
    <3>3. lock[on[r]] = None
      BY <2>2 DEF LockFree
    <3>4. HolderIsInside'
      BY <2>1, <3>1, <3>3, TaskAssumption DEF TypeOK, EnterEnsure, CancelLinger, Goto, Take, Task
    <3>5. QueueHasHolder'
      BY <2>1, <3>1, TaskAssumption DEF TypeOK, Take, Task, QueueHasHolder
    <3>. QED  BY <3>2, <3>4, <3>5
  <2>3. CASE ~LockFree(on[r])
    <3>1. QueueHasHolder'
      BY <1>2, <2>1, <2>3, QueueEffect DEF Subscribe
    <3>. QED  BY <1>2, <2>1, <2>3, <3>1 DEF TypeOK, Subscribe, Queue, Goto, Ensuring, Opening
  <2>. QED  BY <2>2, <2>3
<1>3. ASSUME NEW r \in Reader, Granted(r)
      PROVE  BusyTaskHasSession' /\ HolderIsInside' /\ QueueHasHolder'
  BY <1>3 DEF TypeOK, Granted, EnterEnsure, CancelLinger, Goto, QueueHasHolder
<1>4. ASSUME NEW r \in Reader, StatusConnected(r) \/ RegisterAudio(r)
      PROVE  BusyTaskHasSession' /\ HolderIsInside' /\ QueueHasHolder'
  <2>1. on[r] \in Session /\ lock[on[r]] = r
    BY <1>4 DEF StatusConnected, RegisterAudio, Ensuring, Opening
  <2>2. Release(on[r]) /\ Hold(r, on[r]) /\ UNCHANGED <<stopper, on>>
    BY <1>4 DEF StatusConnected, RegisterAudio
  <2>3. PICK state \in Holding : reader' = [reader EXCEPT ![r] = state]
    BY <2>2 DEF Hold, Join, Goto, Holding
  <2>4. state \notin Ensuring
    BY <2>3 DEF Holding, Ensuring, Opening
  <2>5. BusyTaskHasSession'
    BY <2>1, <2>2, <2>3 DEF TypeOK
  <2>6. HolderIsInside'
    <3>. HIDE DEF HolderIsInside, BusyTaskHasSession
    <3>. QED  BY <2>1, <2>2, <2>3, <2>4, HolderLeaves, TaskAssumption DEF TypeOK, Task
  <2>. QED  BY <2>1, <2>2, <2>5, <2>6, ReleaseEffect
<1>5. ASSUME NEW r \in Reader, StatusLost(r)
      PROVE  BusyTaskHasSession' /\ HolderIsInside' /\ QueueHasHolder'
  BY <1>5 DEF TypeOK, StatusLost, Goto, Ensuring, Opening, QueueHasHolder
<1>6. ASSUME NEW r \in Reader, Reconnect(r)
      PROVE  BusyTaskHasSession' /\ HolderIsInside' /\ QueueHasHolder'
  BY <1>6 DEF TypeOK, Reconnect, Goto, Ensuring, Opening, QueueHasHolder
<1>7. ASSUME NEW r \in Reader,
             Created(r) \/ Started(r) \/ PollConnected(r) \/ PollTimeout(r) \/ RegisterVideo(r)
      PROVE  BusyTaskHasSession' /\ HolderIsInside' /\ QueueHasHolder'
  BY <1>7 DEF TypeOK, Created, Started, PollConnected, PollTimeout, RegisterVideo, Goto, Ensuring, Opening, QueueHasHolder
<1>8. ASSUME NEW r \in Reader, Abort(r) \/ CallRaises(r)
      PROVE  BusyTaskHasSession' /\ HolderIsInside' /\ QueueHasHolder'
  <2>1. on[r] \in Session /\ lock[on[r]] = r
    BY <1>8 DEF Abort, CallRaises, Ensuring, Opening
  <2>2. /\ Release(on[r]) /\ UNCHANGED stopper
        /\ reader' = [reader EXCEPT ![r] = "idle"]
        /\ on' = [on EXCEPT ![r] = None]
    BY <1>8 DEF Abort, CallRaises, Raise, Goto
  <2>3. BusyTaskHasSession'
    BY <2>1, <2>2, TaskAssumption DEF TypeOK, Task
  <2>4. HolderIsInside'
    <3>. HIDE DEF HolderIsInside, BusyTaskHasSession
    <3>. QED  BY <2>1, <2>2, HolderLeaves, TaskAssumption DEF TypeOK, Ensuring, Opening, Task
  <2>. QED  BY <2>1, <2>2, <2>3, <2>4, ReleaseEffect
<1>9. ASSUME NEW r \in Reader, ParametersReady(r)
      PROVE  BusyTaskHasSession' /\ HolderIsInside' /\ QueueHasHolder'
  BY <1>9 DEF TypeOK, ParametersReady, Join, Goto, Ensuring, Opening, QueueHasHolder
<1>10. ASSUME NEW r \in Reader, ParametersTimeout(r) \/ Leave(r)
      PROVE  BusyTaskHasSession' /\ HolderIsInside' /\ QueueHasHolder'
  <2>1. /\ Unhold(on[r]) /\ UNCHANGED <<lock, waiters>>
        /\ reader' = [reader EXCEPT ![r] = "idle"]
        /\ on' = [on EXCEPT ![r] = None]
    BY <1>10 DEF ParametersTimeout, Leave, Goto
  <2>2. \A p \in Stopper : stopper'[p] \in {"lock", "stopping"} => stopper'[p] = stopper[p]
    BY <1>10, <2>1, UnholdStoppers DEF ParametersTimeout, Leave
  <2>. QED  BY <2>1, <2>2, TaskAssumption DEF TypeOK, Ensuring, Opening, Task, QueueHasHolder
<1>11. ASSUME NEW i \in Instance, NEW hasSets \in BOOLEAN, OnVideo(i, hasSets)
      PROVE  BusyTaskHasSession' /\ HolderIsInside' /\ QueueHasHolder'
  BY <1>11 DEF OnVideo, QueueHasHolder
<1>12. ASSUME NEW i \in Instance, UnknownEnds(i)
      PROVE  BusyTaskHasSession' /\ HolderIsInside' /\ QueueHasHolder'
  BY <1>12 DEF UnknownEnds, QueueHasHolder
<1>13. ASSUME NEW p \in Stopper, NEW s \in Session, LingerFires(p, s) \/ OwnerStop(p, s)
      PROVE  BusyTaskHasSession' /\ HolderIsInside' /\ QueueHasHolder'
  <2>1. stopper[p] \in {"idle", "sleep"} /\ UNCHANGED reader /\ p \in Task
    BY <1>13 DEF LingerFires, OwnerStop, Task
  <2>2. CASE StopCall(p, s) /\ LockFree(s)
    <3>1. /\ StopBody(p, s) /\ lock[s] = None /\ UNCHANGED waiters
          /\ instance[s] # None => lock' = [lock EXCEPT ![s] = p]
          /\ instance[s] = None => UNCHANGED lock
      BY <2>2 DEF StopCall, LockFree, Take
    <3>2. BusyTaskHasSession'
      BY <2>1, <3>1, TaskAssumption DEF TypeOK, StopBody, Task
    <3>3. HolderIsInside'
      <4>1. ASSUME NEW r \in Reader, reader'[r] \in Ensuring
            PROVE  lock'[on'[r]] = r
        BY <2>1, <3>1, <4>1, TaskAssumption DEF TypeOK, StopBody, Task, Ensuring, Opening
      <4>2. ASSUME NEW q \in Stopper, stopper'[q] = "stopping"
            PROVE  lock'[on'[q]] = q
        BY <2>1, <3>1, <4>2, TaskAssumption DEF TypeOK, StopBody, Task
      <4>. QED  BY <4>1, <4>2
    <3>4. QueueHasHolder'
      BY <2>1, <3>1, TaskAssumption DEF TypeOK, QueueHasHolder, Task
    <3>. QED  BY <3>2, <3>3, <3>4
  <2>3. CASE StopCall(p, s) /\ ~LockFree(s)
    <3>1. /\ Queue(p, s) /\ UNCHANGED lock
          /\ stopper' = [stopper EXCEPT ![p] = "lock"]
          /\ on' = [on EXCEPT ![p] = s]
      BY <2>3 DEF StopCall, Queue
    <3>2. BusyTaskHasSession' /\ HolderIsInside'
      BY <2>1, <3>1, TaskAssumption DEF TypeOK, Task
    <3>. QED  BY <2>1, <2>3, <3>1, <3>2, QueueEffect
  <2>4. CASE ~StopCall(p, s)
    BY <1>13, <2>1, <2>4, TaskAssumption DEF TypeOK, LingerFires, OwnerStop, QueueHasHolder
  <2>. QED  BY <2>2, <2>3, <2>4
<1>14. ASSUME NEW p \in Stopper, StopGranted(p)
      PROVE  BusyTaskHasSession' /\ HolderIsInside' /\ QueueHasHolder'
  <2>1. on[p] \in Session /\ lock[on[p]] = p /\ p \in Task
    BY <1>14 DEF StopGranted, Task
  <2>2. /\ StopBody(p, on[p]) /\ UNCHANGED reader
        /\ instance[on[p]] = None => Release(on[p])
        /\ instance[on[p]] # None => UNCHANGED <<lock, waiters>>
    BY <1>14 DEF StopGranted
  <2>3. BusyTaskHasSession'
    BY <2>1, <2>2, TaskAssumption DEF TypeOK, StopBody, Task
  <2>4. HolderIsInside'
    <3>1. CASE instance[on[p]] = None
      <4>. HIDE DEF HolderIsInside, BusyTaskHasSession
      <4>. QED  BY <2>1, <2>2, <3>1, HolderLeaves, TaskAssumption DEF TypeOK, StopBody, Task
    <3>2. CASE instance[on[p]] # None
      BY <2>1, <2>2, <3>2, TaskAssumption DEF TypeOK, StopBody, Task
    <3>. QED  BY <3>1, <3>2
  <2>. QED  BY <2>1, <2>2, <2>3, <2>4, ReleaseEffect DEF QueueHasHolder
<1>15. ASSUME NEW p \in Stopper, Stopped(p)
      PROVE  BusyTaskHasSession' /\ HolderIsInside' /\ QueueHasHolder'
  <2>1. on[p] \in Session /\ lock[on[p]] = p /\ p \in Task
    BY <1>15 DEF Stopped, Task
  <2>2. /\ Release(on[p]) /\ UNCHANGED reader
        /\ stopper' = [stopper EXCEPT ![p] = "idle"]
        /\ on' = [on EXCEPT ![p] = None]
    BY <1>15 DEF Stopped
  <2>3. BusyTaskHasSession'
    BY <2>1, <2>2, TaskAssumption DEF TypeOK, Task
  <2>4. HolderIsInside'
    <3>. HIDE DEF HolderIsInside, BusyTaskHasSession
    <3>. QED  BY <2>1, <2>2, HolderLeaves, TaskAssumption DEF TypeOK, Task
  <2>. QED  BY <2>1, <2>2, <2>3, <2>4, ReleaseEffect
<1>16. CASE UNCHANGED vars
  BY <1>16 DEF vars, QueueHasHolder
<1>. HIDE DEF Inductive, BusyTaskHasSession, HolderIsInside
<1>17. ASSUME NEW r \in Reader, Proceed(r) \/ Leave(r)
      PROVE  BusyTaskHasSession' /\ HolderIsInside' /\ QueueHasHolder'
  BY <1>2, <1>3, <1>4, <1>5, <1>6, <1>7, <1>8, <1>9, <1>10, <1>17 DEF Proceed
<1>18. ASSUME NEW p \in Stopper, Finish(p)
      PROVE  BusyTaskHasSession' /\ HolderIsInside' /\ QueueHasHolder'
  BY <1>13, <1>14, <1>15, <1>18 DEF Finish
<1>19. CASE Run
  BY <1>11, <1>12, <1>17, <1>18, <1>19 DEF Run
<1>20. CASE \E r \in Reader, s \in Session : Request(r, s)
  BY <1>1, <1>20
<1>21. CASE \E p \in Stopper, s \in Session : OwnerStop(p, s)
  BY <1>13, <1>21
<1>. QED
  BY <1>16, <1>19, <1>20, <1>21 DEF Next

\* _users counts the readers inside _hold: the steps that enter or leave it
\* move one reader in or out, and no other step moves any.
LEMMA HoldersSame ==
  ASSUME UsersCounted, UNCHANGED users,
         \A r \in Reader : /\ reader'[r] \in Holding <=> reader[r] \in Holding
                           /\ reader[r] \in Holding => on'[r] = on[r]
  PROVE  UsersCounted'
<1>1. \A s \in Session : Holders(s)' = Holders(s)
  BY DEF Holders
<1>. QED  BY <1>1 DEF UsersCounted

\* A reader that enters _hold is counted once.
LEMMA HoldCounts ==
  ASSUME TypeOK, UsersCounted, NEW r \in Reader, on[r] \in Session,
         reader[r] \notin Holding, Hold(r, on[r]), UNCHANGED on
  PROVE  UsersCounted'
<1>1. PICK state \in Holding : reader' = [reader EXCEPT ![r] = state]
  BY DEF Hold, Join, Goto, Holding
<1>2. Holders(on[r])' = Holders(on[r]) \cup {r} /\ r \notin Holders(on[r])
  BY <1>1 DEF TypeOK, Holders
<1>3. \A s \in Session \ {on[r]} : Holders(s)' = Holders(s)
  BY <1>1 DEF TypeOK, Holders
<1>4. Cardinality(Holders(on[r]))' = Cardinality(Holders(on[r])) + 1
  BY <1>2, HoldersFinite, FS_AddElement
<1>5. users' = [users EXCEPT ![on[r]] = @ + 1]
  BY DEF Hold
<1>. QED  BY <1>3, <1>4, <1>5 DEF UsersCounted, TypeOK

\* A reader that leaves _hold is taken off the count once.
LEMMA UnholdCounts ==
  ASSUME TypeOK, UsersCounted, NEW r \in Reader, NEW s \in Session, on[r] = s,
         reader[r] \in Holding, Unhold(s),
         reader' = [reader EXCEPT ![r] = "idle"], on' = [on EXCEPT ![r] = None]
  PROVE  UsersCounted'
<1>1. Holders(s)' = Holders(s) \ {r} /\ r \in Holders(s)
  <2>1. r \in Holders(s) /\ r \notin Holders(s)'
    BY DEF TypeOK, Holders, Holding
  <2>2. \A q \in Reader \ {r} : reader'[q] = reader[q] /\ on'[q] = on[q]
    BY DEF TypeOK, Task
  <2>. QED  BY <2>1, <2>2 DEF Holders
<1>2. \A s2 \in Session \ {s} : Holders(s2)' = Holders(s2)
  <2>1. \A s2 \in Session \ {s} : r \notin Holders(s2) /\ r \notin Holders(s2)'
    BY DEF TypeOK, Holders, Holding
  <2>2. \A q \in Reader \ {r} : reader'[q] = reader[q] /\ on'[q] = on[q]
    BY DEF TypeOK, Task
  <2>. QED  BY <2>1, <2>2 DEF Holders
<1>3. Cardinality(Holders(s))' = Cardinality(Holders(s)) - 1
  BY <1>1, HoldersFinite, FS_RemoveElement
<1>4. users' = [users EXCEPT ![s] = @ - 1]
  BY DEF Unhold
<1>. QED  BY <1>2, <1>3, <1>4 DEF UsersCounted, TypeOK

\* No step separates _users from the readers it counts.
LEMMA UsersStep ==
  ASSUME Inductive, [Next]_vars
  PROVE  UsersCounted'
<1>. USE DEF Inductive
<1>1. ASSUME NEW r \in Reader, NEW s \in Session, Request(r, s)
      PROVE  UsersCounted'
  BY <1>1, HoldersSame DEF TypeOK, Request, Goto, Task, Holding, sessionVars
<1>2. ASSUME NEW r \in Reader, Subscribe(r) \/ Granted(r)
      PROVE  UsersCounted'
  BY <1>2, HoldersSame DEF TypeOK, Subscribe, Granted, EnterEnsure, Goto, Holding, sessionVars
<1>4. ASSUME NEW r \in Reader, StatusConnected(r) \/ RegisterAudio(r)
      PROVE  UsersCounted'
  <2>1. on[r] \in Session /\ reader[r] \notin Holding
    BY <1>4 DEF StatusConnected, RegisterAudio, BusyTaskHasSession, Holding
  <2>. QED  BY <1>4, <2>1, HoldCounts DEF StatusConnected, RegisterAudio
<1>5. ASSUME NEW r \in Reader,
             StatusLost(r) \/ Created(r) \/ Started(r) \/ PollConnected(r) \/ PollTimeout(r) \/ RegisterVideo(r)
      PROVE  UsersCounted'
  BY <1>5, HoldersSame DEF TypeOK, StatusLost, Created, Started, PollConnected, PollTimeout, RegisterVideo, Goto, Holding, sessionVars
<1>6. ASSUME NEW r \in Reader, Reconnect(r)
      PROVE  UsersCounted'
  BY <1>6, HoldersSame DEF TypeOK, Reconnect, Goto, Holding
<1>8. ASSUME NEW r \in Reader, Abort(r) \/ CallRaises(r)
      PROVE  UsersCounted'
  <2>1. /\ UNCHANGED users /\ reader[r] \notin Holding
        /\ reader' = [reader EXCEPT ![r] = "idle"]
        /\ on' = [on EXCEPT ![r] = None]
    BY <1>8 DEF Abort, CallRaises, Raise, Goto, sessionVars, Holding
  <2>. QED  BY <2>1, HoldersSame DEF TypeOK, Holding, Task
<1>9. ASSUME NEW r \in Reader, ParametersReady(r)
      PROVE  UsersCounted'
  BY <1>9, HoldersSame DEF TypeOK, ParametersReady, Join, Goto, Holding
<1>10. ASSUME NEW r \in Reader, ParametersTimeout(r) \/ Leave(r)
      PROVE  UsersCounted'
  <2>1. on[r] \in Session /\ reader[r] \in Holding
    BY <1>10 DEF ParametersTimeout, Leave, BusyTaskHasSession, Holding
  <2>. QED  BY <1>10, <2>1, UnholdCounts DEF ParametersTimeout, Leave, Goto
<1>11. ASSUME NEW i \in Instance, NEW hasSets \in BOOLEAN, OnVideo(i, hasSets)
      PROVE  UsersCounted'
  BY <1>11, HoldersSame DEF OnVideo
<1>12. ASSUME NEW i \in Instance, UnknownEnds(i)
      PROVE  UsersCounted'
  BY <1>12, HoldersSame DEF UnknownEnds, sessionVars
<1>13. ASSUME NEW p \in Stopper, NEW s \in Session, LingerFires(p, s) \/ OwnerStop(p, s)
      PROVE  UsersCounted'
  <2>1. UNCHANGED <<users, reader>> /\ \A r \in Reader : on'[r] = on[r]
    BY <1>13, TaskAssumption DEF TypeOK, LingerFires, OwnerStop, StopCall, StopBody, Task
  <2>. QED  BY <2>1, HoldersSame
<1>14. ASSUME NEW p \in Stopper, StopGranted(p)
      PROVE  UsersCounted'
  <2>1. UNCHANGED <<users, reader>> /\ \A r \in Reader : on'[r] = on[r]
    BY <1>14, TaskAssumption DEF TypeOK, StopGranted, StopBody, Task
  <2>. QED  BY <2>1, HoldersSame
<1>15. ASSUME NEW p \in Stopper, Stopped(p)
      PROVE  UsersCounted'
  <2>1. UNCHANGED <<users, reader>> /\ \A r \in Reader : on'[r] = on[r]
    BY <1>15, TaskAssumption DEF TypeOK, Stopped, Task
  <2>. QED  BY <2>1, HoldersSame
<1>16. CASE UNCHANGED vars
  BY <1>16, HoldersSame DEF vars
<1>. HIDE DEF Inductive
<1>17. ASSUME NEW r \in Reader, Proceed(r) \/ Leave(r)
      PROVE  UsersCounted'
  BY <1>2, <1>4, <1>5, <1>6, <1>8, <1>9, <1>10, <1>17 DEF Proceed
<1>18. ASSUME NEW p \in Stopper, Finish(p)
      PROVE  UsersCounted'
  BY <1>13, <1>14, <1>15, <1>18 DEF Finish
<1>19. CASE Run
  BY <1>11, <1>12, <1>17, <1>18, <1>19 DEF Run
<1>20. CASE \E r \in Reader, s \in Session : Request(r, s)
  BY <1>1, <1>20
<1>21. CASE \E p \in Stopper, s \in Session : OwnerStop(p, s)
  BY <1>13, <1>21
<1>. QED
  BY <1>16, <1>19, <1>20, <1>21 DEF Next

\* A task inside the critical section may change the handle of its own session:
\* nobody else is inside it, so what the others rely on is another session's.
LEMMA OthersKeepHandles ==
  ASSUME Inductive, NEW t \in Task, on[t] \in Session, lock[on[t]] = t,
         \A s \in Session \ {on[t]} : instance'[s] = instance[s],
         \A r \in Reader \ {t} : /\ reader'[r] = reader[r]
                                 /\ on'[r] = on[r]
                                 /\ opening'[r] = opening[r],
         \A p \in Stopper \ {t} : stopper'[p] = "stopping"
            => stopper[p] = "stopping" /\ on'[p] = on[p],
         t \in Reader =>
           /\ reader'[t] \in {"status", "reconnect"} => instance'[on'[t]] # None
           /\ reader'[t] \in Opening => instance'[on'[t]] = None
           /\ opening'[t] # None <=> reader'[t] \in Opening \ {"create"},
         t \in Stopper => (stopper'[t] = "stopping" => instance'[on'[t]] # None)
  PROVE  HandlesMatchControl'
<1>1. ASSUME NEW r \in Reader, r # t
      PROVE  /\ reader'[r] \in {"status", "reconnect"} => instance'[on'[r]] # None
             /\ reader'[r] \in Opening => instance'[on'[r]] = None
             /\ opening'[r] # None <=> reader'[r] \in Opening \ {"create"}
  <2>1. CASE reader[r] \in Ensuring
    <3>1. on[r] \in Session /\ on[r] # on[t]
      BY <1>1, <2>1 DEF Inductive, BusyTaskHasSession, HolderIsInside, Ensuring, Opening
    <3>. QED  BY <1>1, <3>1 DEF Inductive, HandlesMatchControl
  <2>2. CASE reader[r] \notin Ensuring
    BY <1>1, <2>2 DEF Inductive, HandlesMatchControl, Ensuring
  <2>. QED  BY <2>1, <2>2
<1>2. ASSUME NEW p \in Stopper, p # t, stopper'[p] = "stopping"
      PROVE  instance'[on'[p]] # None
  <2>1. on[p] \in Session /\ on[p] # on[t]
    BY <1>2 DEF Inductive, BusyTaskHasSession, HolderIsInside
  <2>. QED  BY <1>2, <2>1 DEF Inductive, HandlesMatchControl
<1>. QED  BY <1>1, <1>2 DEF HandlesMatchControl

\* No step leaves a task with a handle that does not fit where it stands.
LEMMA HandlesStep ==
  ASSUME Inductive, [Next]_vars
  PROVE  HandlesMatchControl'
<1>. USE DEF Inductive
<1>1. ASSUME NEW r \in Reader, NEW s \in Session, Request(r, s)
      PROVE  HandlesMatchControl'
  BY <1>1, TaskAssumption DEF TypeOK, HandlesMatchControl, Request, Goto, Task, Opening, sessionVars
<1>2. ASSUME NEW r \in Reader, Subscribe(r) \/ Granted(r)
      PROVE  HandlesMatchControl'
  <2>1. CASE EnterEnsure(r, on[r])
    <3>1. \A p \in Stopper : stopper'[p] = "stopping" => stopper[p] = "stopping"
      BY <2>1 DEF TypeOK, EnterEnsure, CancelLinger
    <3>2. reader' = [reader EXCEPT ![r] = IF instance[on[r]] = None THEN "create" ELSE "status"]
      BY <2>1 DEF EnterEnsure, Goto
    <3>3. UNCHANGED <<instance, on, opening>> /\ reader[r] \notin Opening
      BY <1>2, <2>1 DEF EnterEnsure, Subscribe, Granted, Opening
    <3>. QED  BY <3>1, <3>2, <3>3 DEF TypeOK, HandlesMatchControl, Opening
  <2>2. CASE ~EnterEnsure(r, on[r])
    <3>1. reader[r] = "prepare" /\ reader' = [reader EXCEPT ![r] = "lock"] /\ UNCHANGED <<instance, on, opening, stopper>>
      BY <1>2, <2>2 DEF Subscribe, Granted, Goto, sessionVars
    <3>. QED  BY <3>1 DEF TypeOK, HandlesMatchControl, Opening
  <2>. QED  BY <2>1, <2>2
<1>3. ASSUME NEW r \in Reader, StatusConnected(r)
      PROVE  HandlesMatchControl'
  <2>1. PICK state \in Holding : reader' = [reader EXCEPT ![r] = state]
    BY <1>3 DEF StatusConnected, Hold, Join, Goto, Holding
  <2>. QED  BY <1>3, <2>1 DEF TypeOK, HandlesMatchControl, StatusConnected, Opening, Holding
<1>4. ASSUME NEW r \in Reader, RegisterAudio(r)
      PROVE  HandlesMatchControl'
  <2>1. PICK state \in Holding : reader' = [reader EXCEPT ![r] = state]
    BY <1>4 DEF RegisterAudio, Hold, Join, Goto, Holding
  <2>2. r \in Task /\ on[r] \in Session /\ lock[on[r]] = r
    BY <1>4 DEF RegisterAudio, BusyTaskHasSession, HolderIsInside, Ensuring, Opening, Task
  <2>3. /\ UNCHANGED <<on, stopper>>
        /\ opening' = [opening EXCEPT ![r] = None]
        /\ \A s \in Session \ {on[r]} : instance'[s] = instance[s]
    BY <1>4 DEF RegisterAudio, TypeOK
  <2>. QED  BY <2>1, <2>2, <2>3, OthersKeepHandles, TaskAssumption DEF TypeOK, Opening, Holding
<1>5. ASSUME NEW r \in Reader, StatusLost(r)
      PROVE  HandlesMatchControl'
  BY <1>5 DEF TypeOK, HandlesMatchControl, StatusLost, Goto, Opening, sessionVars
<1>6. ASSUME NEW r \in Reader, Reconnect(r)
      PROVE  HandlesMatchControl'
  <2>1. r \in Task /\ on[r] \in Session /\ lock[on[r]] = r
    BY <1>6 DEF Reconnect, BusyTaskHasSession, HolderIsInside, Ensuring, Task
  <2>2. /\ UNCHANGED <<on, stopper, opening>>
        /\ instance' = [instance EXCEPT ![on[r]] = None]
        /\ reader' = [reader EXCEPT ![r] = "create"]
        /\ opening[r] = None
    BY <1>6 DEF Reconnect, TeardownEffect, Goto, HandlesMatchControl, Opening
  <2>. QED  BY <2>1, <2>2, OthersKeepHandles, TaskAssumption DEF TypeOK, Opening
<1>7. ASSUME NEW r \in Reader,
             Created(r) \/ Started(r) \/ PollConnected(r) \/ PollTimeout(r) \/ RegisterVideo(r)
      PROVE  HandlesMatchControl'
  <2>1. CASE Created(r)
    <3>1. PICK i \in Instance : opening' = [opening EXCEPT ![r] = i]
      BY <2>1 DEF Created
    <3>2. i # None
      BY TaskAssumption
    <3>3. reader[r] = "create" /\ reader' = [reader EXCEPT ![r] = "start"] /\ UNCHANGED <<instance, on, stopper>>
      BY <2>1 DEF Created, Goto, sessionVars
    <3>. QED  BY <3>1, <3>2, <3>3 DEF TypeOK, HandlesMatchControl, Opening
  <2>2. CASE ~Created(r)
    <3>1. reader[r] \in Opening \ {"create"} /\ UNCHANGED <<instance, on, opening, stopper>>
      BY <1>7, <2>2 DEF Started, PollConnected, PollTimeout, RegisterVideo, Opening, sessionVars
    <3>2. PICK state \in Opening \ {"create"} : reader' = [reader EXCEPT ![r] = state]
      BY <1>7, <2>2 DEF Started, PollConnected, PollTimeout, RegisterVideo, Goto, Opening
    <3>. QED  BY <3>1, <3>2 DEF TypeOK, HandlesMatchControl, Opening
  <2>. QED  BY <2>1, <2>2
<1>8. ASSUME NEW r \in Reader, Abort(r) \/ CallRaises(r)
      PROVE  HandlesMatchControl'
  <2>1. /\ UNCHANGED <<instance, stopper>>
        /\ reader' = [reader EXCEPT ![r] = "idle"]
        /\ on' = [on EXCEPT ![r] = None]
        /\ opening' = [opening EXCEPT ![r] = None]
    BY <1>8 DEF Abort, CallRaises, Raise, Goto, sessionVars
  <2>. QED  BY <2>1, TaskAssumption DEF TypeOK, HandlesMatchControl, Opening, Task
<1>9. ASSUME NEW r \in Reader, ParametersReady(r)
      PROVE  HandlesMatchControl'
  BY <1>9 DEF TypeOK, HandlesMatchControl, ParametersReady, Join, Goto, Opening
<1>10. ASSUME NEW r \in Reader, ParametersTimeout(r) \/ Leave(r)
      PROVE  HandlesMatchControl'
  <2>1. /\ UNCHANGED <<instance, opening>> /\ reader[r] \in {"params", "reading"}
        /\ reader' = [reader EXCEPT ![r] = "idle"]
        /\ on' = [on EXCEPT ![r] = None]
    BY <1>10 DEF ParametersTimeout, Leave, Goto
  <2>2. on[r] \in Session
    BY <2>1 DEF BusyTaskHasSession
  <2>3. \A p \in Stopper : stopper'[p] = "stopping" => stopper[p] = "stopping"
    BY <1>10, <2>2, UnholdStoppers DEF ParametersTimeout, Leave
  <2>. QED  BY <2>1, <2>3, TaskAssumption DEF TypeOK, HandlesMatchControl, Opening, Task
<1>11. ASSUME NEW i \in Instance, NEW hasSets \in BOOLEAN, OnVideo(i, hasSets)
      PROVE  HandlesMatchControl'
  BY <1>11 DEF OnVideo, HandlesMatchControl
<1>12. ASSUME NEW i \in Instance, UnknownEnds(i)
      PROVE  HandlesMatchControl'
  BY <1>12 DEF UnknownEnds, HandlesMatchControl, sessionVars
<1>13. ASSUME NEW p \in Stopper, NEW s \in Session, LingerFires(p, s) \/ OwnerStop(p, s)
      PROVE  HandlesMatchControl'
  <2>1. /\ UNCHANGED <<instance, reader, opening>>
        /\ \A t \in Task \ {p} : on'[t] = on[t]
    BY <1>13 DEF TypeOK, LingerFires, OwnerStop, StopCall, StopBody
  <2>2. \A q \in Stopper \ {p} : stopper'[q] = "stopping" => stopper[q] = "stopping"
    BY <1>13 DEF TypeOK, LingerFires, OwnerStop, StopCall, StopBody
  <2>3. stopper'[p] = "stopping" => instance[s] # None /\ on'[p] = s
    <3>1. CASE StopCall(p, s) /\ LockFree(s)
      BY <3>1 DEF TypeOK, StopCall, StopBody, Task
    <3>2. CASE ~(StopCall(p, s) /\ LockFree(s))
      BY <1>13, <3>2 DEF TypeOK, LingerFires, OwnerStop, StopCall
    <3>. QED  BY <3>1, <3>2
  <2>. QED  BY <2>1, <2>2, <2>3, TaskAssumption DEF HandlesMatchControl, Task
<1>14. ASSUME NEW p \in Stopper, StopGranted(p)
      PROVE  HandlesMatchControl'
  <2>1. /\ UNCHANGED <<instance, reader, opening>>
        /\ \A t \in Task \ {p} : on'[t] = on[t]
    BY <1>14 DEF TypeOK, StopGranted, StopBody
  <2>2. \A q \in Stopper \ {p} : stopper'[q] = "stopping" => stopper[q] = "stopping"
    BY <1>14 DEF TypeOK, StopGranted, StopBody
  <2>3. stopper'[p] = "stopping" => instance[on[p]] # None /\ on'[p] = on[p]
    BY <1>14 DEF TypeOK, StopGranted, StopBody, Task
  <2>. QED  BY <2>1, <2>2, <2>3, TaskAssumption DEF HandlesMatchControl, Task
<1>15. ASSUME NEW p \in Stopper, Stopped(p)
      PROVE  HandlesMatchControl'
  <2>1. p \in Task /\ on[p] \in Session /\ lock[on[p]] = p
    BY <1>15 DEF Stopped, BusyTaskHasSession, HolderIsInside, Task
  <2>2. /\ UNCHANGED <<reader, opening>>
        /\ instance' = [instance EXCEPT ![on[p]] = None]
        /\ stopper' = [stopper EXCEPT ![p] = "idle"]
        /\ on' = [on EXCEPT ![p] = None]
    BY <1>15 DEF Stopped, TeardownEffect
  <2>. QED  BY <2>1, <2>2, OthersKeepHandles, TaskAssumption DEF TypeOK, Task
<1>16. CASE UNCHANGED vars
  BY <1>16 DEF vars, HandlesMatchControl
<1>. HIDE DEF Inductive
<1>17. ASSUME NEW r \in Reader, Proceed(r) \/ Leave(r)
      PROVE  HandlesMatchControl'
  BY <1>2, <1>3, <1>4, <1>5, <1>6, <1>7, <1>8, <1>9, <1>10, <1>17 DEF Proceed
<1>18. ASSUME NEW p \in Stopper, Finish(p)
      PROVE  HandlesMatchControl'
  BY <1>13, <1>14, <1>15, <1>18 DEF Finish
<1>19. CASE Run
  BY <1>11, <1>12, <1>17, <1>18, <1>19 DEF Run
<1>20. CASE \E r \in Reader, s \in Session : Request(r, s)
  BY <1>1, <1>20
<1>21. CASE \E p \in Stopper, s \in Session : OwnerStop(p, s)
  BY <1>13, <1>21
<1>. QED
  BY <1>16, <1>19, <1>20, <1>21 DEF Next

\* Dropping one handle, with its countdown gone: the others name other tasks.
LEMMA HandleDropped ==
  ASSUME Inductive, NEW s \in Session, NEW p \in Stopper \cup {None},
         lingerTask' = [lingerTask EXCEPT ![s] = None],
         \A q \in Stopper : q # p /\ q # lingerTask[s] => stopper'[q] = stopper[q],
         \A s2 \in Session \ {s} : p # None => lingerTask[s2] # p
  PROVE  CountdownHasOneSession' /\ HandleNamesCountdown'
<1>. USE DEF Inductive
<1>1. CountdownHasOneSession'
  BY DEF TypeOK, CountdownHasOneSession
<1>2. ASSUME NEW s2 \in Session, lingerTask'[s2] # None
      PROVE  stopper'[lingerTask'[s2]] = "sleep"
  <2>1. s2 # s /\ lingerTask'[s2] = lingerTask[s2] /\ lingerTask[s2] \in Stopper
    BY <1>2 DEF TypeOK
  <2>2. lingerTask[s2] # p /\ lingerTask[s2] # lingerTask[s]
    BY <1>2, <2>1 DEF CountdownHasOneSession
  <2>. QED  BY <1>2, <2>1, <2>2 DEF HandleNamesCountdown
<1>. QED  BY <1>1, <1>2 DEF HandleNamesCountdown

\* Leaving _hold names a fresh countdown and cancels the one it replaces.
LEMMA UnholdCountdown ==
  ASSUME Inductive, NEW s \in Session, Unhold(s)
  PROVE  CountdownHasOneSession' /\ HandleNamesCountdown'
<1>. USE DEF Inductive
<1>1. CASE users[s] = 1
  <2>1. PICK p \in Stopper :
          /\ stopper[p] = "idle"
          /\ lingerTask' = [lingerTask EXCEPT ![s] = p]
          /\ stopper' = [q \in Stopper |->
               IF q = p THEN "sleep"
               ELSE IF q = lingerTask[s] THEN "idle" ELSE stopper[q]]
    BY <1>1 DEF Unhold
  <2>2. \A s2 \in Session : lingerTask[s2] # p
    BY <2>1, TaskAssumption DEF HandleNamesCountdown
  <2>3. CountdownHasOneSession'
    BY <2>1, <2>2 DEF TypeOK, CountdownHasOneSession
  <2>4. ASSUME NEW s2 \in Session, lingerTask'[s2] # None
        PROVE  stopper'[lingerTask'[s2]] = "sleep"
    <3>1. CASE s2 = s
      BY <2>1, <3>1 DEF TypeOK
    <3>2. CASE s2 # s
      <4>1. lingerTask'[s2] = lingerTask[s2] /\ lingerTask[s2] \in Stopper
        BY <2>1, <2>4, <3>2 DEF TypeOK
      <4>2. lingerTask[s2] # p /\ lingerTask[s2] # lingerTask[s]
        BY <2>2, <2>4, <3>2, <4>1 DEF CountdownHasOneSession
      <4>. QED  BY <2>1, <2>4, <4>1, <4>2 DEF HandleNamesCountdown
    <3>. QED  BY <3>1, <3>2
  <2>. QED  BY <2>3, <2>4 DEF HandleNamesCountdown
<1>2. CASE users[s] # 1
  BY <1>2 DEF Unhold, CountdownHasOneSession, HandleNamesCountdown
<1>. QED  BY <1>1, <1>2

\* No step gives two sessions one countdown, or keeps a handle on anything else.
LEMMA CountdownStep ==
  ASSUME Inductive, [Next]_vars
  PROVE  CountdownHasOneSession' /\ HandleNamesCountdown'
<1>0. ASSUME UNCHANGED <<lingerTask, stopper>>
      PROVE  CountdownHasOneSession' /\ HandleNamesCountdown'
  BY <1>0 DEF Inductive, CountdownHasOneSession, HandleNamesCountdown
<1>1. ASSUME NEW r \in Reader, NEW s \in Session, Request(r, s)
      PROVE  CountdownHasOneSession' /\ HandleNamesCountdown'
  BY <1>0, <1>1 DEF Request, sessionVars
<1>2. ASSUME NEW r \in Reader, Subscribe(r) \/ Granted(r)
      PROVE  CountdownHasOneSession' /\ HandleNamesCountdown'
  <2>1. CASE EnterEnsure(r, on[r])
    <3>1. on[r] \in Session
      BY <1>2 DEF Subscribe, Granted, Inductive, BusyTaskHasSession
    <3>2. /\ lingerTask' = [lingerTask EXCEPT ![on[r]] = None]
          /\ \A q \in Stopper : q # lingerTask[on[r]] => stopper'[q] = stopper[q]
      BY <2>1 DEF EnterEnsure, CancelLinger
    <3>. QED  BY <3>1, <3>2, HandleDropped
  <2>2. CASE ~EnterEnsure(r, on[r])
    BY <1>0, <1>2, <2>2 DEF Subscribe, Granted, sessionVars
  <2>. QED  BY <2>1, <2>2
<1>3. ASSUME NEW r \in Reader,
             StatusConnected(r) \/ RegisterAudio(r) \/ ParametersReady(r) \/ Reconnect(r)
      PROVE  CountdownHasOneSession' /\ HandleNamesCountdown'
  BY <1>0, <1>3 DEF StatusConnected, RegisterAudio, ParametersReady, Reconnect
<1>4. ASSUME NEW r \in Reader,
             \/ StatusLost(r) \/ Created(r) \/ Started(r) \/ PollConnected(r)
             \/ PollTimeout(r) \/ RegisterVideo(r) \/ Abort(r) \/ CallRaises(r)
      PROVE  CountdownHasOneSession' /\ HandleNamesCountdown'
  BY <1>0, <1>4 DEF StatusLost, Created, Started, PollConnected, PollTimeout, RegisterVideo, Abort, CallRaises, Raise, sessionVars
<1>10. ASSUME NEW r \in Reader, ParametersTimeout(r) \/ Leave(r)
      PROVE  CountdownHasOneSession' /\ HandleNamesCountdown'
  <2>1. on[r] \in Session /\ Unhold(on[r])
    BY <1>10 DEF ParametersTimeout, Leave, Inductive, BusyTaskHasSession
  <2>. QED  BY <2>1, UnholdCountdown
<1>11. ASSUME NEW i \in Instance, NEW hasSets \in BOOLEAN, OnVideo(i, hasSets)
      PROVE  CountdownHasOneSession' /\ HandleNamesCountdown'
  BY <1>0, <1>11 DEF OnVideo
<1>12. ASSUME NEW i \in Instance, UnknownEnds(i)
      PROVE  CountdownHasOneSession' /\ HandleNamesCountdown'
  BY <1>0, <1>12 DEF UnknownEnds, sessionVars
<1>13. ASSUME NEW p \in Stopper, NEW s \in Session, LingerFires(p, s) \/ OwnerStop(p, s)
      PROVE  CountdownHasOneSession' /\ HandleNamesCountdown'
  <2>1. \A s2 \in Session \ {s} : lingerTask[s2] # p
    BY <1>13, TaskAssumption DEF LingerFires, OwnerStop, Inductive, HandleNamesCountdown, CountdownHasOneSession
  <2>2. CASE OwnerStop(p, s) /\ ~LockFree(s)
    <3>1. /\ lingerTask[s] # p
          /\ lingerTask' = [lingerTask EXCEPT ![s] = IF @ = p THEN None ELSE @]
          /\ stopper' = [stopper EXCEPT ![p] = "lock"]
      BY <2>2, TaskAssumption DEF OwnerStop, StopCall, Inductive, HandleNamesCountdown
    <3>2. lingerTask' = lingerTask
      BY <3>1 DEF Inductive, TypeOK
    <3>. QED  BY <2>1, <3>1, <3>2 DEF Inductive, TypeOK, CountdownHasOneSession, HandleNamesCountdown
  <2>3. CASE ~(OwnerStop(p, s) /\ ~LockFree(s))
    <3>1. /\ lingerTask' = [lingerTask EXCEPT ![s] = None]
          /\ \A q \in Stopper : q # p /\ q # lingerTask[s] => stopper'[q] = stopper[q]
      <4>1. CASE StopCall(p, s) /\ LockFree(s)
        BY <4>1 DEF Inductive, TypeOK, StopCall, StopBody
      <4>2. CASE LingerFires(p, s) /\ ~(StopCall(p, s) /\ LockFree(s))
        BY <4>2 DEF Inductive, TypeOK, LingerFires, StopCall
      <4>3. CASE OwnerStop(p, s) /\ ~(StopCall(p, s) /\ LockFree(s))
        BY <2>3, <4>3 DEF OwnerStop, StopCall
      <4>. QED  BY <1>13, <4>1, <4>2, <4>3
    <3>. QED  BY <2>1, <3>1, HandleDropped
  <2>. QED  BY <2>2, <2>3
<1>14. ASSUME NEW p \in Stopper, StopGranted(p)
      PROVE  CountdownHasOneSession' /\ HandleNamesCountdown'
  <2>1. on[p] \in Session /\ \A s2 \in Session : lingerTask[s2] # p
    BY <1>14, TaskAssumption DEF StopGranted, Inductive, BusyTaskHasSession, HandleNamesCountdown
  <2>2. /\ lingerTask' = [lingerTask EXCEPT ![on[p]] = None]
        /\ \A q \in Stopper : q # p /\ q # lingerTask[on[p]] => stopper'[q] = stopper[q]
    BY <1>14 DEF StopGranted, StopBody
  <2>. QED  BY <2>1, <2>2, HandleDropped
<1>15. ASSUME NEW p \in Stopper, Stopped(p)
      PROVE  CountdownHasOneSession' /\ HandleNamesCountdown'
  <2>1. \A s \in Session : lingerTask[s] # p
    BY <1>15, TaskAssumption DEF Stopped, Inductive, HandleNamesCountdown
  <2>. QED  BY <1>15, <2>1 DEF Stopped, Inductive, TypeOK, CountdownHasOneSession, HandleNamesCountdown
<1>16. CASE UNCHANGED vars
  BY <1>0, <1>16 DEF vars
<1>17. ASSUME NEW r \in Reader, Proceed(r) \/ Leave(r)
      PROVE  CountdownHasOneSession' /\ HandleNamesCountdown'
  BY <1>2, <1>3, <1>4, <1>10, <1>17 DEF Proceed
<1>18. ASSUME NEW p \in Stopper, Finish(p)
      PROVE  CountdownHasOneSession' /\ HandleNamesCountdown'
  BY <1>13, <1>14, <1>15, <1>18 DEF Finish
<1>19. CASE Run
  BY <1>11, <1>12, <1>17, <1>18, <1>19 DEF Run
<1>20. CASE \E r \in Reader, s \in Session : Request(r, s)
  BY <1>1, <1>20
<1>21. CASE \E p \in Stopper, s \in Session : OwnerStop(p, s)
  BY <1>13, <1>21
<1>. QED
  BY <1>16, <1>19, <1>20, <1>21 DEF Next

\* No step leaves a running session without a user and unwatched.
LEMMA WatchedStep ==
  ASSUME Inductive, [Next]_vars
  PROVE  IdleSessionIsWatched'
<1>. USE DEF Inductive
\* Only one session is touched, and it is watched or has no instance or a user.
<1>0. ASSUME NEW s \in Session,
             \A s2 \in Session \ {s} :
               /\ instance'[s2] = instance[s2] /\ users'[s2] = users[s2]
               /\ lingerTask'[s2] = lingerTask[s2] /\ lock'[s2] = lock[s2],
             instance'[s] # None /\ users'[s] = 0 => lingerTask'[s] # None \/ lock'[s] # None
      PROVE  IdleSessionIsWatched'
  BY <1>0 DEF IdleSessionIsWatched
<1>1. ASSUME NEW r \in Reader, NEW s \in Session, Request(r, s)
      PROVE  IdleSessionIsWatched'
  BY <1>1 DEF Request, sessionVars, IdleSessionIsWatched
<1>2. ASSUME NEW r \in Reader, Subscribe(r) \/ Granted(r)
      PROVE  IdleSessionIsWatched'
  <2>1. on[r] \in Session /\ r # None /\ r \in Task
    BY <1>2, TaskAssumption DEF Subscribe, Granted, BusyTaskHasSession, Task
  <2>2. CASE EnterEnsure(r, on[r])
    <3>1. /\ lingerTask' = [lingerTask EXCEPT ![on[r]] = None]
          /\ UNCHANGED <<instance, users>>
      BY <2>2 DEF EnterEnsure, CancelLinger
    <3>2. /\ \A s \in Session \ {on[r]} : lock'[s] = lock[s]
          /\ lock'[on[r]] # None
      <4>1. CASE Granted(r)
        BY <2>1, <4>1 DEF Granted
      <4>2. CASE Subscribe(r) /\ LockFree(on[r])
        BY <2>1, <4>2 DEF TypeOK, Subscribe, Take
      <4>3. CASE Subscribe(r) /\ ~LockFree(on[r])
        BY <2>1, <4>3 DEF Subscribe, Queue, LockFree, QueueHasHolder
      <4>. QED  BY <1>2, <4>1, <4>2, <4>3
    <3>. QED  BY <1>0, <2>1, <3>1, <3>2 DEF TypeOK
  <2>3. CASE ~EnterEnsure(r, on[r])
    BY <1>2, <2>3 DEF Subscribe, Granted, Queue, sessionVars, IdleSessionIsWatched
  <2>. QED  BY <2>2, <2>3
<1>3. ASSUME NEW r \in Reader, StatusConnected(r) \/ RegisterAudio(r)
      PROVE  IdleSessionIsWatched'
  <2>1. on[r] \in Session /\ Release(on[r])
    BY <1>3 DEF StatusConnected, RegisterAudio, BusyTaskHasSession
  <2>2. /\ users' = [users EXCEPT ![on[r]] = @ + 1] /\ UNCHANGED lingerTask
        /\ \A s \in Session \ {on[r]} : instance'[s] = instance[s]
    BY <1>3, <2>1 DEF TypeOK, StatusConnected, RegisterAudio, Hold
  <2>3. users'[on[r]] # 0
    BY <2>1, <2>2 DEF TypeOK
  <2>. QED  BY <1>0, <2>1, <2>2, <2>3, ReleaseEffect DEF TypeOK
<1>4. ASSUME NEW r \in Reader,
             \/ StatusLost(r) \/ Created(r) \/ Started(r) \/ PollConnected(r)
             \/ PollTimeout(r) \/ RegisterVideo(r) \/ ParametersReady(r)
      PROVE  IdleSessionIsWatched'
  <2>1. UNCHANGED <<instance, users, lingerTask, lock>>
    BY <1>4 DEF StatusLost, Created, Started, PollConnected, PollTimeout, RegisterVideo, ParametersReady, sessionVars
  <2>. QED  BY <2>1 DEF IdleSessionIsWatched
<1>6. ASSUME NEW r \in Reader, Reconnect(r)
      PROVE  IdleSessionIsWatched'
  <2>1. on[r] \in Session
    BY <1>6 DEF Reconnect, BusyTaskHasSession
  <2>2. UNCHANGED <<users, lingerTask, lock>> /\ instance' = [instance EXCEPT ![on[r]] = None]
    BY <1>6 DEF Reconnect, TeardownEffect
  <2>. QED  BY <1>0, <2>1, <2>2 DEF TypeOK
<1>8. ASSUME NEW r \in Reader, Abort(r) \/ CallRaises(r)
      PROVE  IdleSessionIsWatched'
  <2>1. on[r] \in Session /\ Release(on[r]) /\ instance[on[r]] = None
    BY <1>8 DEF Abort, CallRaises, Raise, BusyTaskHasSession, HandlesMatchControl, Opening
  <2>2. UNCHANGED <<instance, users, lingerTask>>
    BY <1>8 DEF Abort, CallRaises, Raise, sessionVars
  <2>. QED  BY <1>0, <2>1, <2>2, ReleaseEffect
<1>10. ASSUME NEW r \in Reader, ParametersTimeout(r) \/ Leave(r)
      PROVE  IdleSessionIsWatched'
  <2>1. on[r] \in Session /\ Unhold(on[r]) /\ UNCHANGED <<instance, lock>> /\ r \in Holders(on[r])
    BY <1>10 DEF ParametersTimeout, Leave, BusyTaskHasSession, Holders, Holding
  <2>2. users' = [users EXCEPT ![on[r]] = @ - 1] /\ users[on[r]] # 0
    BY <2>1, HoldersFinite DEF Unhold, UsersCounted
  <2>3. CASE users[on[r]] = 1
    <3>1. PICK p \in Stopper : lingerTask' = [lingerTask EXCEPT ![on[r]] = p]
      BY <2>1, <2>3 DEF Unhold
    <3>. QED  BY <1>0, <2>1, <2>2, <3>1, TaskAssumption DEF TypeOK
  <2>4. CASE users[on[r]] # 1
    BY <1>0, <2>1, <2>2, <2>4 DEF TypeOK, Unhold
  <2>. QED  BY <2>3, <2>4
<1>11. ASSUME NEW i \in Instance, NEW hasSets \in BOOLEAN, OnVideo(i, hasSets)
      PROVE  IdleSessionIsWatched'
  BY <1>11 DEF OnVideo, IdleSessionIsWatched
<1>12. ASSUME NEW i \in Instance, UnknownEnds(i)
      PROVE  IdleSessionIsWatched'
  BY <1>12 DEF UnknownEnds, sessionVars, IdleSessionIsWatched
<1>13. ASSUME NEW p \in Stopper, NEW s \in Session, LingerFires(p, s) \/ OwnerStop(p, s)
      PROVE  IdleSessionIsWatched'
  <2>1. /\ UNCHANGED <<instance, users>> /\ p # None
        /\ \A s2 \in Session \ {s} : lingerTask'[s2] = lingerTask[s2] /\ lock'[s2] = lock[s2]
    BY <1>13, TaskAssumption DEF TypeOK, LingerFires, OwnerStop, StopCall, StopBody, Take, Queue
  <2>2. instance[s] # None /\ users[s] = 0 => lock'[s] # None
    BY <1>13, <2>1 DEF TypeOK, LingerFires, OwnerStop, StopCall, Take, Queue, LockFree, QueueHasHolder
  <2>. QED  BY <1>0, <2>1, <2>2
<1>14. ASSUME NEW p \in Stopper, StopGranted(p)
      PROVE  IdleSessionIsWatched'
  <2>1. on[p] \in Session /\ lock[on[p]] = p /\ p # None
    BY <1>14, TaskAssumption DEF StopGranted, BusyTaskHasSession
  <2>2. /\ UNCHANGED <<instance, users>>
        /\ lingerTask' = [lingerTask EXCEPT ![on[p]] = None]
        /\ instance[on[p]] = None => Release(on[p])
        /\ instance[on[p]] # None => UNCHANGED lock
    BY <1>14 DEF StopGranted, StopBody
  <2>. QED  BY <1>0, <2>1, <2>2, ReleaseEffect DEF TypeOK
<1>15. ASSUME NEW p \in Stopper, Stopped(p)
      PROVE  IdleSessionIsWatched'
  <2>1. on[p] \in Session /\ Release(on[p])
    BY <1>15 DEF Stopped, BusyTaskHasSession
  <2>2. UNCHANGED <<users, lingerTask>> /\ instance' = [instance EXCEPT ![on[p]] = None]
    BY <1>15 DEF Stopped, TeardownEffect
  <2>. QED  BY <1>0, <2>1, <2>2, ReleaseEffect DEF TypeOK
<1>16. CASE UNCHANGED vars
  BY <1>16 DEF vars, IdleSessionIsWatched
<1>. HIDE DEF Inductive
<1>17. ASSUME NEW r \in Reader, Proceed(r) \/ Leave(r)
      PROVE  IdleSessionIsWatched'
  BY <1>2, <1>3, <1>4, <1>6, <1>8, <1>10, <1>17 DEF Proceed
<1>18. ASSUME NEW p \in Stopper, Finish(p)
      PROVE  IdleSessionIsWatched'
  BY <1>13, <1>14, <1>15, <1>18 DEF Finish
<1>19. CASE Run
  BY <1>11, <1>12, <1>17, <1>18, <1>19 DEF Run
<1>20. CASE \E r \in Reader, s \in Session : Request(r, s)
  BY <1>1, <1>20
<1>21. CASE \E p \in Stopper, s \in Session : OwnerStop(p, s)
  BY <1>13, <1>21
<1>. QED
  BY <1>16, <1>19, <1>20, <1>21 DEF Next

\* The invariant holds initially.
LEMMA InductiveInit == Init => Inductive
<1>. SUFFICES ASSUME Init PROVE Inductive
  OBVIOUS
<1>. USE DEF Init
<1>1. TypeOK
  BY DEF TypeOK, ReaderState, StopperState
<1>2. UsersCounted
  <2>1. \A s \in Session : Holders(s) = {}
    BY DEF Holders, Holding
  <2>. QED  BY <2>1, FS_EmptySet DEF UsersCounted
<1>3. BusyTaskHasSession /\ HolderIsInside /\ QueueHasHolder
  BY DEF BusyTaskHasSession, HolderIsInside, QueueHasHolder, Ensuring, Opening
<1>4. HandlesMatchControl
  BY DEF HandlesMatchControl, Opening
<1>5. CountdownHasOneSession /\ HandleNamesCountdown /\ IdleSessionIsWatched
  BY DEF CountdownHasOneSession, HandleNamesCountdown, IdleSessionIsWatched
<1>. QED  BY <1>1, <1>2, <1>3, <1>4, <1>5 DEF Inductive

\* Every step preserves the invariant.
LEMMA InductiveStep == Inductive /\ [Next]_vars => Inductive'
BY TypeStep, UsersStep, LockStep, HandlesStep, CountdownStep, WatchedStep DEF Inductive

\* The inductive invariant holds in every reachable state.
THEOREM InductiveHolds == Spec => []Inductive
BY InductiveInit, InductiveStep, PTL DEF Spec

\* Every variable keeps its type however many readers, stoppers, sessions and
\* vendor instances there are, and whichever vendor calls raise: in particular
\* _users never goes below zero.
THEOREM TypeCorrect == Spec => []TypeOK
<1>1. Inductive => TypeOK
  BY DEF Inductive
<1>. QED  BY <1>1, InductiveHolds, PTL

\* _linger_task only ever names a task asleep in its countdown, so the cancel in
\* _async_ensure_started, in _hold's finally and in async_stop can never cut a
\* teardown short.
THEOREM CountdownHandle == Spec => []HandleNamesCountdown
<1>1. Inductive => HandleNamesCountdown
  BY DEF Inductive
<1>. QED  BY <1>1, InductiveHolds, PTL

\* A session that runs without a user has a countdown or a task in its critical
\* section: whatever order requests, reconnects, countdowns and stops come in,
\* and whichever vendor calls raise, none is left running unwatched.
THEOREM IdleWatched == Spec => []IdleSessionIsWatched
<1>1. Inductive => IdleSessionIsWatched
  BY DEF Inductive
<1>. QED  BY <1>1, InductiveHolds, PTL

\* _users is the number of readers inside _hold: no path out of it, error,
\* timeout or disconnect, forgets its decrement or repeats it.
THEOREM UsersAreHolders == Spec => []UsersCounted
<1>1. Inductive => UsersCounted
  BY DEF Inductive
<1>. QED  BY <1>1, InductiveHolds, PTL

--------------------------------------------------------------------------------
(* What owns the vendor's instances *)

\* An instance that is owned is open, and has one owner: the session whose handle
\* it is or the reader that is opening it.
OwnedOnce ==
  /\ \A s \in Session : instance[s] # None => native[instance[s]] = "open"
  /\ \A r \in Reader : opening[r] # None => native[opening[r]] = "open"
  /\ \A s1, s2 \in Session :
       instance[s1] # None /\ instance[s1] = instance[s2] => s1 = s2
  /\ \A r1, r2 \in Reader :
       opening[r1] # None /\ opening[r1] = opening[r2] => r1 = r2
  /\ \A s \in Session, r \in Reader : instance[s] # None => instance[s] # opening[r]

\* What a step may do to the instances and their owners.
Keeps ==
  /\ UNCHANGED <<instance, opening>>
  /\ \A i \in Instance : native'[i] = "open" <=> native[i] = "open"

Closes(s) ==
  /\ StopReturns(instance[s])
  /\ instance' = [instance EXCEPT ![s] = None]
  /\ UNCHANGED opening

GivesUp(r) ==
  /\ opening' = [opening EXCEPT ![r] = None]
  /\ \/ opening[r] # None /\ StopReturns(opening[r])
     \/ UNCHANGED native /\ (opening[r] # None => Unguarded(r) /\ reader'[r] = "idle")
  /\ UNCHANGED instance

Makes(r) ==
  /\ opening[r] = None /\ UNCHANGED instance
  /\ \E i \in Instance :
       /\ native[i] = "free" /\ native' = [native EXCEPT ![i] = "open"]
       /\ opening' = [opening EXCEPT ![r] = i]

HandsOver(r, s) ==
  /\ opening[r] # None /\ instance[s] = None /\ UNCHANGED native
  /\ instance' = [instance EXCEPT ![s] = opening[r]]
  /\ opening' = [opening EXCEPT ![r] = None]

\* Every step does one of these.
LEMMA OwnerMoves ==
  ASSUME Inductive, [Next]_vars
  PROVE  \/ Keeps
         \/ \E s \in Session : instance[s] # None /\ Closes(s)
         \/ \E r \in Reader : GivesUp(r) \/ Makes(r)
         \/ \E r \in Reader, s \in Session : HandsOver(r, s)
<1>. DEFINE Goal ==
       \/ Keeps
       \/ \E s \in Session : instance[s] # None /\ Closes(s)
       \/ \E r \in Reader : GivesUp(r) \/ Makes(r)
       \/ \E r \in Reader, s \in Session : HandsOver(r, s)
<1>0. ASSUME UNCHANGED <<native, instance, opening>>
      PROVE  Goal
  BY <1>0 DEF Keeps
<1>1. ASSUME NEW r \in Reader, NEW s \in Session, Request(r, s)
      PROVE  Goal
  BY <1>0, <1>1 DEF Request, sessionVars, nativeVars
<1>2. ASSUME NEW r \in Reader, Subscribe(r) \/ Granted(r)
      PROVE  Goal
  BY <1>0, <1>2 DEF Subscribe, Granted, EnterEnsure, sessionVars, nativeVars
<1>3. ASSUME NEW r \in Reader,
             \/ StatusConnected(r) \/ StatusLost(r) \/ Started(r) \/ PollConnected(r)
             \/ PollTimeout(r) \/ RegisterVideo(r) \/ ParametersReady(r)
             \/ ParametersTimeout(r) \/ Leave(r)
      PROVE  Goal
  BY <1>0, <1>3 DEF StatusConnected, StatusLost, Started, PollConnected, PollTimeout, RegisterVideo, ParametersReady, ParametersTimeout, Leave, sessionVars, nativeVars
<1>4. ASSUME NEW r \in Reader, Reconnect(r)
      PROVE  Goal
  <2>1. on[r] \in Session /\ instance[on[r]] # None
    BY <1>4 DEF Reconnect, Inductive, BusyTaskHasSession, HandlesMatchControl
  <2>. QED  BY <1>4, <2>1 DEF Reconnect, TeardownEffect, Closes
<1>5. ASSUME NEW r \in Reader, Created(r)
      PROVE  Goal
  <2>1. opening[r] = None
    BY <1>5 DEF Created, Inductive, HandlesMatchControl
  <2>. QED  BY <1>5, <2>1 DEF Created, Makes, sessionVars
<1>6. ASSUME NEW r \in Reader, Abort(r)
      PROVE  Goal
  <2>1. opening[r] # None
    BY <1>6 DEF Abort, Inductive, HandlesMatchControl, Opening
  <2>. QED  BY <1>6, <2>1 DEF Abort, Raise, GivesUp, sessionVars
<1>7. ASSUME NEW r \in Reader, CallRaises(r)
      PROVE  Goal
  <2>1. /\ opening' = [opening EXCEPT ![r] = None] /\ UNCHANGED <<instance, native>>
        /\ reader' = [reader EXCEPT ![r] = "idle"]
        /\ reader[r] = "create" \/ Unguarded(r)
    BY <1>7 DEF CallRaises, Raise, Goto, Unguarded, sessionVars, nativeVars
  <2>2. reader[r] = "create" => opening[r] = None
    BY DEF Inductive, HandlesMatchControl
  <2>3. reader'[r] = "idle"
    BY <2>1 DEF Inductive, TypeOK
  <2>. QED  BY <2>1, <2>2, <2>3 DEF GivesUp
<1>8. ASSUME NEW r \in Reader, RegisterAudio(r)
      PROVE  Goal
  <2>1. on[r] \in Session /\ opening[r] # None /\ instance[on[r]] = None
    BY <1>8 DEF RegisterAudio, Inductive, BusyTaskHasSession, HandlesMatchControl, Opening
  <2>. QED  BY <1>8, <2>1 DEF RegisterAudio, HandsOver, nativeVars
<1>9. ASSUME NEW i \in Instance, NEW hasSets \in BOOLEAN, OnVideo(i, hasSets)
      PROVE  Goal
  BY <1>0, <1>9 DEF OnVideo, nativeVars
<1>10. ASSUME NEW i \in Instance, UnknownEnds(i)
      PROVE  Goal
  BY <1>10 DEF UnknownEnds, Keeps, sessionVars, Inductive, TypeOK
<1>11. ASSUME NEW p \in Stopper, NEW s \in Session, LingerFires(p, s) \/ OwnerStop(p, s)
      PROVE  Goal
  BY <1>0, <1>11 DEF LingerFires, OwnerStop, nativeVars
<1>12. ASSUME NEW p \in Stopper, StopGranted(p)
      PROVE  Goal
  BY <1>0, <1>12 DEF StopGranted, nativeVars
<1>13. ASSUME NEW p \in Stopper, Stopped(p)
      PROVE  Goal
  <2>1. on[p] \in Session /\ instance[on[p]] # None
    BY <1>13 DEF Stopped, Inductive, BusyTaskHasSession, HandlesMatchControl
  <2>. QED  BY <1>13, <2>1 DEF Stopped, TeardownEffect, Closes
<1>14. ASSUME UNCHANGED vars
       PROVE  Goal
  BY <1>0, <1>14 DEF vars
<1>. HIDE DEF Goal
<1>15. ASSUME NEW r \in Reader, Proceed(r) \/ Leave(r)
      PROVE  Goal
  BY <1>2, <1>3, <1>4, <1>5, <1>6, <1>7, <1>8, <1>15 DEF Proceed
<1>16. ASSUME NEW p \in Stopper, Finish(p)
      PROVE  Goal
  BY <1>11, <1>12, <1>13, <1>16 DEF Finish
<1>17. ASSUME Run
       PROVE  Goal
  BY <1>9, <1>10, <1>15, <1>16, <1>17 DEF Run
<1>18. ASSUME \/ \E r \in Reader, s \in Session : Request(r, s)
              \/ \E p \in Stopper, s \in Session : OwnerStop(p, s)
       PROVE  Goal
  BY <1>1, <1>11, <1>18
<1>19. Goal
  BY <1>14, <1>17, <1>18 DEF Next
<1>. QED  BY <1>19 DEF Goal

\* An instance is stopped by its only owner, made while nobody owns it, and handed
\* over by the reader that opened it to a session that has none.
LEMMA OwnedStep ==
  ASSUME Inductive, OwnedOnce, [Next]_vars
  PROVE  OwnedOnce'
<1>. USE DEF OwnedOnce
<1>0. TypeOK
  BY DEF Inductive
<1>1. CASE Keeps
  BY <1>0, <1>1 DEF Keeps, TypeOK
<1>2. ASSUME NEW s \in Session, instance[s] # None, Closes(s)
      PROVE  OwnedOnce'
  <2>1. instance[s] \in Instance
    BY <1>0, <1>2 DEF TypeOK
  <2>2. \A i \in Instance : i # instance[s] => native'[i] = native[i]
    BY <1>0, <1>2, <2>1 DEF TypeOK, Closes, StopReturns
  <2>3. /\ instance'[s] = None /\ \A s2 \in Session \ {s} : instance'[s2] = instance[s2]
        /\ UNCHANGED opening
    BY <1>0, <1>2 DEF TypeOK, Closes
  <2>4. \A s2 \in Session : instance'[s2] # None =>
          s2 # s /\ instance'[s2] = instance[s2] /\ instance[s2] \in Instance
            /\ instance[s2] # instance[s]
    BY <1>0, <1>2, <2>3 DEF TypeOK
  <2>5. \A r \in Reader : opening'[r] # None =>
          opening'[r] = opening[r] /\ opening[r] \in Instance /\ opening[r] # instance[s]
    BY <1>0, <1>2, <2>3 DEF TypeOK
  <2>6. /\ \A s2 \in Session : instance'[s2] # None => native'[instance'[s2]] = "open"
        /\ \A r \in Reader : opening'[r] # None => native'[opening'[r]] = "open"
    BY <2>2, <2>4, <2>5
  <2>7. \A s1, s2 \in Session :
          instance'[s1] # None /\ instance'[s1] = instance'[s2] => s1 = s2
    BY <2>4
  <2>. QED  BY <2>3, <2>4, <2>6, <2>7
<1>3. ASSUME NEW r \in Reader, GivesUp(r)
      PROVE  OwnedOnce'
  <2>1. \A i \in Instance : i # opening[r] => native'[i] = native[i]
    BY <1>0, <1>3 DEF TypeOK, GivesUp, StopReturns
  <2>2. /\ opening'[r] = None /\ \A q \in Reader \ {r} : opening'[q] = opening[q]
        /\ UNCHANGED instance
    BY <1>0, <1>3 DEF TypeOK, GivesUp
  <2>3. \A q \in Reader : opening'[q] # None =>
          q # r /\ opening'[q] = opening[q] /\ opening[q] \in Instance
            /\ opening[q] # opening[r]
    BY <1>0, <2>2 DEF TypeOK
  <2>4. \A s \in Session : instance[s] # None =>
          instance[s] \in Instance /\ instance[s] # opening[r]
    BY <1>0 DEF TypeOK
  <2>5. /\ \A s \in Session : instance'[s] # None => native'[instance'[s]] = "open"
        /\ \A q \in Reader : opening'[q] # None => native'[opening'[q]] = "open"
    BY <2>1, <2>2, <2>3, <2>4
  <2>6. \A r1, r2 \in Reader :
          opening'[r1] # None /\ opening'[r1] = opening'[r2] => r1 = r2
    BY <2>3
  <2>7. \A s \in Session, q \in Reader : instance'[s] # None => instance'[s] # opening'[q]
    BY <2>2
  <2>. QED  BY <2>2, <2>5, <2>6, <2>7
<1>4. ASSUME NEW r \in Reader, Makes(r)
      PROVE  OwnedOnce'
  <2>1. PICK i \in Instance :
          /\ native[i] = "free" /\ native' = [native EXCEPT ![i] = "open"]
          /\ opening' = [opening EXCEPT ![r] = i]
    BY <1>4 DEF Makes
  <2>2. /\ UNCHANGED instance /\ opening'[r] = i
        /\ \A q \in Reader \ {r} : opening'[q] = opening[q]
        /\ native'[i] = "open" /\ \A j \in Instance \ {i} : native'[j] = native[j]
    BY <1>0, <1>4, <2>1 DEF TypeOK, Makes
  <2>3. /\ \A s \in Session : instance[s] # i
        /\ \A q \in Reader : opening[q] # i
    BY <2>1, TaskAssumption
  <2>4. /\ \A s \in Session : instance[s] # None => instance[s] \in Instance \ {i}
        /\ \A q \in Reader \ {r} : opening[q] # None => opening[q] \in Instance \ {i}
    BY <1>0, <2>3 DEF TypeOK
  <2>5. /\ \A s \in Session : instance'[s] # None => native'[instance'[s]] = "open"
        /\ \A q \in Reader : opening'[q] # None => native'[opening'[q]] = "open"
    BY <2>2, <2>4
  <2>6. \A r1, r2 \in Reader :
          opening'[r1] # None /\ opening'[r1] = opening'[r2] => r1 = r2
    BY <2>2, <2>3
  <2>7. \A s \in Session, q \in Reader : instance'[s] # None => instance'[s] # opening'[q]
    BY <2>2, <2>3
  <2>. QED  BY <2>2, <2>5, <2>6, <2>7
<1>5. ASSUME NEW r \in Reader, NEW s \in Session, HandsOver(r, s)
      PROVE  OwnedOnce'
  <2>1. /\ opening[r] # None /\ UNCHANGED native
        /\ instance'[s] = opening[r]
        /\ \A s2 \in Session \ {s} : instance'[s2] = instance[s2]
        /\ opening'[r] = None /\ \A q \in Reader \ {r} : opening'[q] = opening[q]
    BY <1>0, <1>5 DEF TypeOK, HandsOver
  <2>. QED  BY <2>1
<1>. HIDE DEF OwnedOnce
<1>. QED  BY <1>1, <1>2, <1>3, <1>4, <1>5, OwnerMoves

\* No two sessions ever have one vendor instance, and none is opened for a session
\* that still has one: neither a reconnect nor a stop that raised leaves a handle
\* behind that somebody else could be given.
THEOREM OneOwner == Spec => []InstanceHasOneOwner
<1>1. Init => OwnedOnce
  BY DEF Init, OwnedOnce
<1>2. Inductive /\ OwnedOnce /\ [Next]_vars => OwnedOnce'
  BY OwnedStep
<1>3. ASSUME Inductive, OwnedOnce
      PROVE  InstanceHasOneOwner
  BY <1>3 DEF Inductive, HandlesMatchControl, OwnedOnce, InstanceHasOneOwner
<1>. QED  BY <1>1, <1>2, <1>3, InductiveHolds, PTL DEF Spec

\* A step that leaves an open instance without a reference is the end of the
\* request that was opening it.
LEMMA LostStep ==
  ASSUME Inductive, [Next]_vars, NEW i \in Instance, native'[i] = "open",
         native[i] = "open" => Referenced(i)
  PROVE  \/ Referenced(i)'
         \/ \E r \in Reader : opening[r] = i /\ Unguarded(r) /\ reader'[r] = "idle"
<1>. DEFINE Raised == \E r \in Reader : opening[r] = i /\ Unguarded(r) /\ reader'[r] = "idle"
<1>0. TypeOK /\ i # None
  BY TaskAssumption DEF Inductive
<1>1. CASE Keeps
  BY <1>1 DEF Keeps, Referenced
<1>2. ASSUME NEW s \in Session, instance[s] # None, Closes(s)
      PROVE  Referenced(i)'
  <2>1. instance[s] \in Instance
    BY <1>0, <1>2 DEF TypeOK
  <2>2. i # instance[s] /\ native'[i] = native[i]
    BY <1>0, <1>2, <2>1 DEF TypeOK, Closes, StopReturns
  <2>3. UNCHANGED opening /\ \A s2 \in Session \ {s} : instance'[s2] = instance[s2]
    BY <1>0, <1>2 DEF TypeOK, Closes
  <2>. QED  BY <2>2, <2>3 DEF Referenced
<1>3. ASSUME NEW r \in Reader, GivesUp(r)
      PROVE  Referenced(i)' \/ Raised
  <2>1. UNCHANGED instance /\ \A q \in Reader \ {r} : opening'[q] = opening[q]
    BY <1>0, <1>3 DEF TypeOK, GivesUp
  <2>2. CASE opening[r] # None /\ StopReturns(opening[r])
    <3>1. opening[r] \in Instance
      BY <1>0, <2>2 DEF TypeOK
    <3>2. i # opening[r] /\ native'[i] = native[i]
      BY <1>0, <2>2, <3>1 DEF TypeOK, StopReturns
    <3>. QED  BY <2>1, <3>2 DEF Referenced
  <2>3. CASE UNCHANGED native /\ (opening[r] # None => Unguarded(r) /\ reader'[r] = "idle")
    BY <1>0, <2>1, <2>3 DEF Referenced
  <2>. QED  BY <1>3, <2>2, <2>3 DEF GivesUp
<1>4. ASSUME NEW r \in Reader, Makes(r)
      PROVE  Referenced(i)' \/ Raised
  <2>1. PICK j \in Instance :
          /\ native[j] = "free" /\ native' = [native EXCEPT ![j] = "open"]
          /\ opening' = [opening EXCEPT ![r] = j]
    BY <1>4 DEF Makes
  <2>2. CASE i = j
    <3>1. opening'[r] = i
      BY <1>0, <2>1, <2>2 DEF TypeOK
    <3>. QED  BY <3>1 DEF Referenced
  <2>3. CASE i # j
    <3>1. native[i] = "open" /\ UNCHANGED instance
          /\ \A q \in Reader \ {r} : opening'[q] = opening[q]
      BY <1>0, <1>4, <2>1, <2>3 DEF TypeOK, Makes
    <3>2. opening[r] # i
      BY <1>4, <1>0 DEF Makes
    <3>. QED  BY <3>1, <3>2 DEF Referenced
  <2>. QED  BY <2>2, <2>3
<1>5. ASSUME NEW r \in Reader, NEW s \in Session, HandsOver(r, s)
      PROVE  Referenced(i)'
  <2>1. /\ UNCHANGED native /\ instance'[s] = opening[r]
        /\ \A s2 \in Session \ {s} : instance'[s2] = instance[s2]
        /\ \A q \in Reader \ {r} : opening'[q] = opening[q]
    BY <1>0, <1>5 DEF TypeOK, HandsOver
  <2>2. instance[s] # i
    BY <1>0, <1>5 DEF HandsOver
  <2>. QED  BY <2>1, <2>2 DEF Referenced
<1>. QED  BY <1>1, <1>2, <1>3, <1>4, <1>5, OwnerMoves

\* Whichever vendor calls raise, an open instance loses its last reference only in
\* the step in which the request that was opening it ends with the error of a call
\* that is not guarded.
THEOREM NothingElseLoses == Spec => LostOnlyByRaising
<1>1. Inductive /\ [Next]_vars =>
        [\A i \in Instance :
           native'[i] = "open" /\ (native[i] = "open" => Referenced(i)) =>
             \/ Referenced(i)'
             \/ \E r \in Reader : opening[r] = i /\ Unguarded(r) /\ reader'[r] = "idle"]_vars
  BY LostStep
<1>. QED  BY <1>1, InductiveHolds, PTL DEF Spec, LostOnlyByRaising

--------------------------------------------------------------------------------
(* The countdowns *)

\* What a step may do to the countdowns: nobody goes to sleep, or one task does
\* as a session's handle comes to name it; whoever the handle named before wakes.
NobodySleeps ==
  /\ UNCHANGED lingerTask
  /\ \A q \in Stopper : stopper'[q] = "sleep" => stopper[q] = "sleep"

Relieved(s) ==
  /\ lingerTask' = [lingerTask EXCEPT ![s] = None]
  /\ \A q \in Stopper :
       stopper'[q] = "sleep" => stopper[q] = "sleep" /\ q # lingerTask[s]

Replaced(s, p) ==
  /\ lingerTask' = [lingerTask EXCEPT ![s] = p]
  /\ \A q \in Stopper \ {p} :
       stopper'[q] = "sleep" => stopper[q] = "sleep" /\ q # lingerTask[s]

\* Every step does one of these.
LEMMA CountdownMoves ==
  ASSUME Inductive, [Next]_vars
  PROVE  \/ NobodySleeps
         \/ \E s \in Session : Relieved(s)
         \/ \E s \in Session, p \in Stopper : Replaced(s, p)
<1>. DEFINE Goal ==
       \/ NobodySleeps
       \/ \E s \in Session : Relieved(s)
       \/ \E s \in Session, p \in Stopper : Replaced(s, p)
<1>0. ASSUME UNCHANGED <<lingerTask, stopper>>
      PROVE  Goal
  BY <1>0 DEF NobodySleeps
<1>1. ASSUME NEW r \in Reader, NEW s \in Session, Request(r, s)
      PROVE  Goal
  BY <1>0, <1>1 DEF Request, sessionVars
<1>2. ASSUME NEW r \in Reader, Subscribe(r) \/ Granted(r)
      PROVE  Goal
  <2>1. on[r] \in Session
    BY <1>2 DEF Subscribe, Granted, Inductive, BusyTaskHasSession
  <2>2. CASE EnterEnsure(r, on[r])
    BY <2>1, <2>2 DEF EnterEnsure, CancelLinger, Relieved
  <2>3. CASE ~EnterEnsure(r, on[r])
    BY <1>0, <1>2, <2>3 DEF Subscribe, Granted, sessionVars
  <2>. QED  BY <2>2, <2>3
<1>3. ASSUME NEW r \in Reader,
             \/ StatusConnected(r) \/ RegisterAudio(r) \/ ParametersReady(r)
             \/ Reconnect(r) \/ StatusLost(r) \/ Created(r) \/ Started(r)
             \/ PollConnected(r) \/ PollTimeout(r) \/ RegisterVideo(r)
             \/ Abort(r) \/ CallRaises(r)
      PROVE  Goal
  BY <1>0, <1>3 DEF StatusConnected, RegisterAudio, ParametersReady, Reconnect, StatusLost, Created, Started, PollConnected, PollTimeout, RegisterVideo, Abort, CallRaises, Raise, sessionVars
<1>4. ASSUME NEW r \in Reader, ParametersTimeout(r) \/ Leave(r)
      PROVE  Goal
  <2>1. on[r] \in Session /\ Unhold(on[r])
    BY <1>4 DEF ParametersTimeout, Leave, Inductive, BusyTaskHasSession
  <2>2. CASE users[on[r]] = 1
    <3>1. PICK p \in Stopper :
            /\ lingerTask' = [lingerTask EXCEPT ![on[r]] = p]
            /\ stopper' = [q \in Stopper |->
                 IF q = p THEN "sleep"
                 ELSE IF q = lingerTask[on[r]] THEN "idle" ELSE stopper[q]]
      BY <2>1, <2>2 DEF Unhold
    <3>2. Replaced(on[r], p)
      BY <3>1 DEF Replaced
    <3>. QED  BY <2>1, <3>2
  <2>3. CASE users[on[r]] # 1
    BY <1>0, <2>1, <2>3 DEF Unhold
  <2>. QED  BY <2>2, <2>3
<1>5. ASSUME NEW i \in Instance, NEW hasSets \in BOOLEAN,
             OnVideo(i, hasSets) \/ UnknownEnds(i)
      PROVE  Goal
  BY <1>0, <1>5 DEF OnVideo, UnknownEnds, sessionVars
<1>6. ASSUME NEW p \in Stopper, NEW s \in Session, StopBody(p, s)
      PROVE  Relieved(s)
  BY <1>6 DEF StopBody, Relieved
<1>7. ASSUME NEW p \in Stopper, NEW s \in Session, LingerFires(p, s) \/ OwnerStop(p, s)
      PROVE  Goal
  <2>1. CASE StopBody(p, s)
    BY <1>6, <2>1
  <2>2. CASE LingerFires(p, s) /\ ~StopBody(p, s)
    <3>1. /\ lingerTask[s] = p /\ lingerTask' = [lingerTask EXCEPT ![s] = None]
          /\ \/ stopper' = [stopper EXCEPT ![p] = "lock"]
             \/ stopper' = [stopper EXCEPT ![p] = "idle"]
      BY <2>2 DEF LingerFires, StopCall, Inductive, TypeOK
    <3>2. Relieved(s)
      BY <3>1 DEF Relieved, Inductive, TypeOK
    <3>. QED  BY <3>2
  <2>3. CASE OwnerStop(p, s) /\ ~StopBody(p, s)
    <3>1. /\ stopper' = [stopper EXCEPT ![p] = "lock"] /\ lingerTask[s] # p
          /\ lingerTask' = [lingerTask EXCEPT ![s] = IF @ = p THEN None ELSE @]
      BY <2>3, TaskAssumption DEF OwnerStop, StopCall, Inductive, HandleNamesCountdown
    <3>2. NobodySleeps
      BY <3>1 DEF NobodySleeps, Inductive, TypeOK
    <3>. QED  BY <3>2
  <2>. QED  BY <1>7, <2>1, <2>2, <2>3
<1>8. ASSUME NEW p \in Stopper, StopGranted(p)
      PROVE  Goal
  BY <1>6, <1>8 DEF StopGranted, Inductive, BusyTaskHasSession
<1>9. ASSUME NEW p \in Stopper, Stopped(p)
      PROVE  Goal
  BY <1>9 DEF Stopped, NobodySleeps, Inductive, TypeOK
<1>10. ASSUME UNCHANGED vars
       PROVE  Goal
  BY <1>0, <1>10 DEF vars
<1>. HIDE DEF Goal
<1>11. ASSUME NEW r \in Reader, Proceed(r) \/ Leave(r)
       PROVE  Goal
  BY <1>2, <1>3, <1>4, <1>11 DEF Proceed
<1>12. ASSUME NEW p \in Stopper, Finish(p)
       PROVE  Goal
  BY <1>7, <1>8, <1>9, <1>12 DEF Finish
<1>13. ASSUME Run
       PROVE  Goal
  BY <1>5, <1>11, <1>12, <1>13 DEF Run
<1>14. ASSUME \/ \E r \in Reader, s \in Session : Request(r, s)
              \/ \E p \in Stopper, s \in Session : OwnerStop(p, s)
       PROVE  Goal
  BY <1>1, <1>7, <1>14
<1>15. Goal
  BY <1>10, <1>13, <1>14 DEF Next
<1>. QED  BY <1>15 DEF Goal

\* A handle that is dropped or replaced names nobody else's countdown, so every
\* other countdown keeps the session that holds it.
LEMMA StrayStep ==
  ASSUME Inductive, NoStrayCountdown, [Next]_vars
  PROVE  NoStrayCountdown'
<1>. USE DEF NoStrayCountdown
<1>0. TypeOK /\ CountdownHasOneSession
  BY DEF Inductive
<1>1. CASE NobodySleeps
  BY <1>1 DEF NobodySleeps
<1>2. ASSUME NEW s \in Session, NEW p \in Stopper \cup {None},
             (Relieved(s) /\ p = None) \/ Replaced(s, p),
             NEW q \in Stopper, stopper'[q] = "sleep"
      PROVE  \E s2 \in Session : lingerTask'[s2] = q
  <2>1. /\ lingerTask'[s] = p
        /\ \A s2 \in Session \ {s} : lingerTask'[s2] = lingerTask[s2]
    BY <1>0, <1>2 DEF TypeOK, Relieved, Replaced
  <2>2. CASE q = p
    BY <2>1, <2>2
  <2>3. CASE q # p
    <3>1. stopper[q] = "sleep" /\ q # lingerTask[s]
      BY <1>2, <2>3 DEF Relieved, Replaced
    <3>2. PICK s2 \in Session : lingerTask[s2] = q
      BY <3>1
    <3>. QED  BY <2>1, <3>1, <3>2
  <2>. QED  BY <2>2, <2>3
<1>3. CASE \E s \in Session : Relieved(s)
  BY <1>2, <1>3
<1>4. CASE \E s \in Session, p \in Stopper : Replaced(s, p)
  BY <1>2, <1>4
<1>. HIDE DEF NoStrayCountdown
<1>. QED  BY <1>1, <1>3, <1>4, CountdownMoves

\* Every countdown that runs is the one a session's _linger_task names, so the
\* next reader can cancel it: none goes on that would close a session it no longer
\* belongs to.
THEOREM NoCountdownStrays == Spec => []NoStrayCountdown
<1>1. Init => NoStrayCountdown
  BY DEF Init, NoStrayCountdown
<1>2. Inductive /\ NoStrayCountdown /\ [Next]_vars => NoStrayCountdown'
  BY StrayStep
<1>. QED  BY <1>1, <1>2, InductiveHolds, PTL DEF Spec

--------------------------------------------------------------------------------
(* The readers *)

\* A reader that reads has just been given its consumer, or was reading before and
\* is still fed, or has been told.
Served(q) ==
  \/ q \in consumers'[on'[q]]
  \/ /\ reader[q] = "reading" /\ on'[q] = on[q]
     /\ closed[q] => closed'[q]
     /\ q \in consumers[on[q]] => q \in consumers'[on[q]] \/ closed'[q]

\* subscribe() serves the reader it is called for and takes no other's consumer.
LEMMA JoinServes ==
  ASSUME TypeOK, NEW r \in Reader, NEW s \in Session, Join(r, s), UNCHANGED on, on[r] = s,
         NEW q \in Reader, reader'[q] = "reading"
  PROVE  Served(q)
<1>1. /\ consumers'[s] = consumers[s] \cup {r}
      /\ \A s2 \in Session \ {s} : consumers'[s2] = consumers[s2]
      /\ \A q2 \in Reader \ {r} : reader'[q2] = reader[q2] /\ closed'[q2] = closed[q2]
  BY DEF TypeOK, Join, Goto
<1>2. CASE q = r
  BY <1>1, <1>2 DEF Served
<1>3. CASE q # r
  <2>1. q \in consumers[on[q]] => q \in consumers'[on[q]]
    <3>1. CASE on[q] \in Session
      BY <1>1, <3>1
    <3>2. CASE on[q] \notin Session
      BY <3>2 DEF TypeOK, Join
    <3>. QED  BY <3>1, <3>2
  <2>. QED  BY <1>1, <1>3, <2>1 DEF Served
<1>. QED  BY <1>2, <1>3

\* Entering _hold serves the reader or leaves it waiting.
LEMMA HoldServes ==
  ASSUME TypeOK, NEW r \in Reader, NEW s \in Session, Hold(r, s), UNCHANGED on, on[r] = s,
         NEW q \in Reader, reader'[q] = "reading"
  PROVE  Served(q)
<1>1. CASE parameterSets[s]
  BY <1>1, JoinServes DEF Hold
<1>2. CASE ~parameterSets[s]
  BY <1>2 DEF TypeOK, Hold, Goto, Served
<1>. QED  BY <1>1, <1>2

\* _teardown tells every reader it takes the consumer of.
LEMMA TeardownTells ==
  ASSUME TypeOK, NEW s \in Session, TeardownEffect(s),
         NEW q \in Reader, reader[q] = "reading", on'[q] = on[q], on[q] \in Session
  PROVE  Served(q)
<1>1. /\ \A s2 \in Session \ {s} : consumers'[s2] = consumers[s2]
      /\ closed'[q] = (closed[q] \/ q \in consumers[s])
  BY DEF TypeOK, TeardownEffect
<1>. QED  BY <1>1 DEF Served

\* No step leaves a reader waiting on a queue that nobody fills or closes.
LEMMA ServedStep ==
  ASSUME Inductive, [Next]_vars, NEW q \in Reader, reader'[q] = "reading"
  PROVE  Served(q)
<1>0. ASSUME UNCHANGED <<consumers, closed>>, reader[q] = "reading", on'[q] = on[q]
      PROVE  Served(q)
  BY <1>0 DEF Served
<1>a. TypeOK /\ q \in Task
  BY DEF Inductive, Task
<1>b. reader[q] = "reading" => on[q] \in Session
  BY DEF Inductive, BusyTaskHasSession
<1>1. ASSUME NEW r \in Reader, NEW s \in Session, Request(r, s)
      PROVE  Served(q)
  BY <1>0, <1>1, <1>a DEF TypeOK, Request, Goto, sessionVars
<1>2. ASSUME NEW r \in Reader, Subscribe(r) \/ Granted(r)
      PROVE  Served(q)
  BY <1>0, <1>2, <1>a DEF TypeOK, Subscribe, Granted, EnterEnsure, Goto, sessionVars
<1>3. ASSUME NEW r \in Reader,
             \/ StatusLost(r) \/ Created(r) \/ Started(r) \/ PollConnected(r)
             \/ PollTimeout(r) \/ RegisterVideo(r) \/ Abort(r) \/ CallRaises(r)
      PROVE  Served(q)
  <2>1. CASE Abort(r) \/ CallRaises(r)
    BY <1>0, <1>a, <2>1 DEF TypeOK, Abort, CallRaises, Raise, Goto, sessionVars
  <2>2. CASE ~(Abort(r) \/ CallRaises(r))
    BY <1>0, <1>3, <1>a, <2>2 DEF TypeOK, StatusLost, Created, Started, PollConnected, PollTimeout, RegisterVideo, Goto, sessionVars
  <2>. QED  BY <2>1, <2>2
<1>4. ASSUME NEW r \in Reader, StatusConnected(r) \/ RegisterAudio(r) \/ ParametersReady(r)
      PROVE  Served(q)
  <2>1. on[r] \in Session /\ UNCHANGED on
    BY <1>4 DEF StatusConnected, RegisterAudio, ParametersReady, Inductive, BusyTaskHasSession
  <2>. QED  BY <1>4, <1>a, <2>1, HoldServes, JoinServes DEF StatusConnected, RegisterAudio, ParametersReady
<1>5. ASSUME NEW r \in Reader, Reconnect(r)
      PROVE  Served(q)
  <2>1. on[r] \in Session /\ TeardownEffect(on[r]) /\ UNCHANGED on /\ reader[q] = "reading"
    BY <1>5, <1>a DEF Reconnect, Goto, TypeOK, Inductive, BusyTaskHasSession
  <2>. QED  BY <1>a, <1>b, <2>1, TeardownTells
<1>6. ASSUME NEW r \in Reader, ParametersTimeout(r) \/ Leave(r)
      PROVE  Served(q)
  <2>1. /\ q # r /\ reader[q] = "reading" /\ on'[q] = on[q] /\ closed'[q] = closed[q]
    BY <1>6, <1>a DEF TypeOK, ParametersTimeout, Leave, Goto
  <2>2. CASE ParametersTimeout(r)
    BY <1>0, <2>1, <2>2 DEF ParametersTimeout, Served
  <2>3. CASE Leave(r)
    <3>1. /\ on[q] \in Session /\ consumers \in [Session -> SUBSET Reader]
          /\ consumers' = [consumers EXCEPT ![on[r]] = @ \ {r}]
      BY <1>a, <1>b, <2>1, <2>3 DEF TypeOK, Leave
    <3>2. q \in consumers[on[q]] => q \in consumers'[on[q]]
      BY <2>1, <3>1
    <3>. QED  BY <2>1, <3>2 DEF Served
  <2>. QED  BY <1>6, <2>2, <2>3
<1>7. ASSUME NEW i \in Instance, NEW hasSets \in BOOLEAN,
             OnVideo(i, hasSets) \/ UnknownEnds(i)
      PROVE  Served(q)
  BY <1>0, <1>7 DEF OnVideo, UnknownEnds, sessionVars
<1>8. ASSUME NEW p \in Stopper,
             StopGranted(p) \/ \E s \in Session : LingerFires(p, s) \/ OwnerStop(p, s)
      PROVE  Served(q)
  <2>1. q # p
    BY TaskAssumption
  <2>. QED  BY <1>0, <1>8, <1>a, <2>1 DEF TypeOK, LingerFires, OwnerStop, StopGranted, StopCall, StopBody
<1>9. ASSUME NEW p \in Stopper, Stopped(p)
      PROVE  Served(q)
  <2>1. q # p
    BY TaskAssumption
  <2>2. on[p] \in Session /\ TeardownEffect(on[p]) /\ reader[q] = "reading" /\ on'[q] = on[q]
    BY <1>9, <1>a, <2>1 DEF Stopped, TypeOK, Inductive, BusyTaskHasSession
  <2>. QED  BY <1>a, <1>b, <2>2, TeardownTells
<1>10. ASSUME UNCHANGED vars
       PROVE  Served(q)
  BY <1>0, <1>10 DEF vars, sessionVars
<1>11. ASSUME NEW r \in Reader, Proceed(r) \/ Leave(r)
       PROVE  Served(q)
  BY <1>2, <1>3, <1>4, <1>5, <1>6, <1>11 DEF Proceed
<1>12. ASSUME NEW p \in Stopper, Finish(p)
       PROVE  Served(q)
  BY <1>8, <1>9, <1>12 DEF Finish
<1>13. ASSUME Run
       PROVE  Served(q)
  BY <1>7, <1>11, <1>12, <1>13 DEF Run
<1>14. ASSUME \/ \E r \in Reader, s \in Session : Request(r, s)
              \/ \E p \in Stopper, s \in Session : OwnerStop(p, s)
       PROVE  Served(q)
  BY <1>1, <1>8, <1>14
<1>. QED  BY <1>10, <1>13, <1>14 DEF Next

\* A reader that waits on its queue is one the fan-out knows, or was told.
ReaderIsListed ==
  \A r \in Reader : reader[r] = "reading" => r \in consumers[on[r]] \/ closed[r]

LEMMA ListedOrTold == Spec => []ReaderIsListed
<1>1. Init => ReaderIsListed
  BY DEF Init, ReaderIsListed
<1>2. Inductive /\ ReaderIsListed /\ [Next]_vars => ReaderIsListed'
  BY ServedStep DEF ReaderIsListed, Served
<1>. QED  BY <1>1, <1>2, InductiveHolds, PTL DEF Spec

\* What FedUntilTold asks of a step, for one reader.
StaysFed(q) ==
  Fed(q) => \/ Fed(q)'
            \/ reader'[q] = "idle"
            \/ reader'[q] = "reading" /\ closed'[q]

GetsFed(q) ==
  reader[q] # "reading" /\ reader'[q] = "reading" =>
    \/ Fed(q)'
    \/ reader[q] = "params" /\ instance[on[q]] = None

\* A session that has an instance, or is just given one, feeds whoever joins it,
\* and the others as before.
LEMMA JoinFeeds ==
  ASSUME TypeOK, NEW r \in Reader, NEW s \in Session, Join(r, s), UNCHANGED on, on[r] = s,
         reader[r] # "reading",
         \A s2 \in Session : instance[s2] # None => instance'[s2] # None,
         instance'[s] # None \/ (reader[r] = "params" /\ instance[s] = None),
         NEW q \in Reader, reader[q] = "reading" => on[q] \in Session
  PROVE  StaysFed(q) /\ GetsFed(q)
<1>1. /\ consumers'[s] = consumers[s] \cup {r}
      /\ \A s2 \in Session \ {s} : consumers'[s2] = consumers[s2]
      /\ reader'[r] = "reading" /\ \A q2 \in Reader \ {r} : reader'[q2] = reader[q2]
  BY DEF TypeOK, Join, Goto
<1>2. CASE q = r
  BY <1>1, <1>2 DEF StaysFed, GetsFed, Fed
<1>3. CASE q # r
  <2>1. reader'[q] = reader[q] /\ on'[q] = on[q]
    BY <1>1, <1>3
  <2>2. ASSUME Fed(q)
        PROVE  Fed(q)'
    BY <1>1, <2>1, <2>2 DEF Fed
  <2>. QED  BY <2>1, <2>2 DEF StaysFed, GetsFed
<1>. QED  BY <1>2, <1>3

LEMMA HoldFeeds ==
  ASSUME TypeOK, NEW r \in Reader, NEW s \in Session, Hold(r, s), UNCHANGED on, on[r] = s,
         reader[r] # "reading",
         \A s2 \in Session : instance[s2] # None => instance'[s2] # None,
         instance'[s] # None,
         NEW q \in Reader, reader[q] = "reading" => on[q] \in Session
  PROVE  StaysFed(q) /\ GetsFed(q)
<1>1. CASE parameterSets[s]
  BY <1>1, JoinFeeds DEF Hold
<1>2. CASE ~parameterSets[s]
  <2>1. UNCHANGED consumers /\ reader' = [reader EXCEPT ![r] = "params"]
    BY <1>2 DEF Hold, Goto
  <2>2. /\ reader'[r] = "params"
        /\ \A q2 \in Reader \ {r} : reader'[q2] = reader[q2]
    BY <2>1 DEF TypeOK
  <2>. QED  BY <2>1, <2>2 DEF StaysFed, GetsFed, Fed
<1>. QED  BY <1>1, <1>2

\* _teardown tells those it takes the instance from, and leaves the others alone.
LEMMA TeardownFeeds ==
  ASSUME TypeOK, NEW s \in Session, TeardownEffect(s),
         NEW q \in Reader, reader[q] = "reading" => on[q] \in Session,
         reader'[q] = "reading" <=> reader[q] = "reading",
         on'[q] = on[q]
  PROVE  StaysFed(q) /\ GetsFed(q)
<1>1. /\ \A s2 \in Session \ {s} : consumers'[s2] = consumers[s2] /\ instance'[s2] = instance[s2]
      /\ q \in consumers[s] => closed'[q]
  BY DEF TypeOK, TeardownEffect
<1>. QED  BY <1>1 DEF StaysFed, GetsFed, Fed

LEMMA FedStep ==
  ASSUME Inductive, [Next]_vars, NEW q \in Reader
  PROVE  StaysFed(q) /\ GetsFed(q)
<1>. DEFINE Goal == StaysFed(q) /\ GetsFed(q)
<1>0. ASSUME UNCHANGED <<consumers, instance>>,
             \/ reader'[q] = reader[q] /\ on'[q] = on[q]
             \/ reader[q] # "reading" /\ reader'[q] # "reading"
      PROVE  Goal
  BY <1>0 DEF StaysFed, GetsFed, Fed
<1>a. TypeOK /\ q \in Task
  BY DEF Inductive, Task
<1>b. \A r \in Reader : reader[r] # "idle" => on[r] \in Session
  BY DEF Inductive, BusyTaskHasSession
<1>1. ASSUME NEW r \in Reader, NEW s \in Session, Request(r, s)
      PROVE  Goal
  <2>1. CASE q = r
    BY <1>0, <1>1, <1>a, <2>1 DEF TypeOK, Request, Goto, sessionVars
  <2>2. CASE q # r
    BY <1>0, <1>1, <1>a, <2>2 DEF TypeOK, Request, Goto, sessionVars
  <2>. QED  BY <2>1, <2>2
<1>2. ASSUME NEW r \in Reader, Subscribe(r) \/ Granted(r)
      PROVE  Goal
  <2>1. CASE q = r
    BY <1>0, <1>2, <1>a, <2>1 DEF TypeOK, Subscribe, Granted, EnterEnsure, Goto, sessionVars
  <2>2. CASE q # r
    BY <1>0, <1>2, <1>a, <2>2 DEF TypeOK, Subscribe, Granted, EnterEnsure, Goto, sessionVars
  <2>. QED  BY <2>1, <2>2
<1>3. ASSUME NEW r \in Reader,
             \/ StatusLost(r) \/ Created(r) \/ Started(r) \/ PollConnected(r)
             \/ PollTimeout(r) \/ RegisterVideo(r) \/ Abort(r) \/ CallRaises(r)
      PROVE  Goal
  <2>1. CASE Abort(r) \/ CallRaises(r)
    <3>1. /\ UNCHANGED <<consumers, instance>> /\ reader[r] # "reading"
          /\ reader' = [reader EXCEPT ![r] = "idle"] /\ on' = [on EXCEPT ![r] = None]
      BY <2>1 DEF Abort, CallRaises, Raise, Goto, sessionVars
    <3>. QED  BY <1>0, <1>a, <3>1 DEF TypeOK
  <2>2. CASE ~(Abort(r) \/ CallRaises(r))
    <3>1. /\ UNCHANGED <<consumers, instance, on>> /\ reader[r] # "reading"
          /\ \E state \in ReaderState \ {"reading"} : reader' = [reader EXCEPT ![r] = state]
      BY <1>3, <2>2 DEF StatusLost, Created, Started, PollConnected, PollTimeout, RegisterVideo, Goto, sessionVars, ReaderState, Ensuring, Opening
    <3>. QED  BY <1>0, <1>a, <3>1 DEF TypeOK
  <2>. QED  BY <2>1, <2>2
<1>4. ASSUME NEW r \in Reader, StatusConnected(r)
      PROVE  Goal
  <2>1. /\ on[r] \in Session /\ UNCHANGED <<on, instance>> /\ instance[on[r]] # None
        /\ reader[r] # "reading" /\ Hold(r, on[r])
    BY <1>4 DEF StatusConnected, Inductive, BusyTaskHasSession, HandlesMatchControl
  <2>. QED  BY <1>a, <1>b, <2>1, HoldFeeds
<1>5. ASSUME NEW r \in Reader, RegisterAudio(r)
      PROVE  Goal
  <2>1. /\ on[r] \in Session /\ UNCHANGED on /\ opening[r] # None
        /\ instance' = [instance EXCEPT ![on[r]] = opening[r]]
        /\ reader[r] # "reading" /\ Hold(r, on[r])
    BY <1>5 DEF RegisterAudio, Inductive, BusyTaskHasSession, HandlesMatchControl, Opening
  <2>2. /\ instance'[on[r]] # None
        /\ \A s \in Session : instance[s] # None => instance'[s] # None
    BY <1>a, <2>1 DEF TypeOK
  <2>. QED  BY <1>a, <1>b, <2>1, <2>2, HoldFeeds
<1>6. ASSUME NEW r \in Reader, ParametersReady(r)
      PROVE  Goal
  <2>1. /\ on[r] \in Session /\ UNCHANGED <<on, instance>>
        /\ reader[r] = "params" /\ Join(r, on[r])
    BY <1>6 DEF ParametersReady, Inductive, BusyTaskHasSession
  <2>. QED  BY <1>a, <1>b, <2>1, JoinFeeds
<1>7. ASSUME NEW r \in Reader, Reconnect(r)
      PROVE  Goal
  <2>1. /\ on[r] \in Session /\ TeardownEffect(on[r]) /\ UNCHANGED on
        /\ reader'[q] = "reading" <=> reader[q] = "reading"
    BY <1>7, <1>a DEF Reconnect, Goto, TypeOK, Inductive, BusyTaskHasSession
  <2>. QED  BY <1>a, <1>b, <2>1, TeardownFeeds
<1>8. ASSUME NEW r \in Reader, ParametersTimeout(r) \/ Leave(r)
      PROVE  Goal
  <2>1. /\ UNCHANGED instance /\ reader'[r] = "idle"
        /\ \A q2 \in Reader \ {r} : reader'[q2] = reader[q2] /\ on'[q2] = on[q2]
    BY <1>8, <1>a DEF TypeOK, ParametersTimeout, Leave, Goto, Task
  <2>2. ASSUME q # r, Fed(q)
        PROVE  Fed(q)'
    <3>1. consumers' = consumers \/ consumers' = [consumers EXCEPT ![on[r]] = @ \ {r}]
      BY <1>8 DEF ParametersTimeout, Leave
    <3>2. on[q] \in Session /\ consumers \in [Session -> SUBSET Reader]
      BY <1>a, <1>b, <2>2 DEF TypeOK, Fed
    <3>3. q \in consumers'[on[q]]
      BY <2>2, <3>1, <3>2 DEF Fed
    <3>. QED  BY <2>1, <2>2, <3>3 DEF Fed
  <2>. QED  BY <2>1, <2>2 DEF StaysFed, GetsFed
<1>9. ASSUME NEW i \in Instance, NEW hasSets \in BOOLEAN,
             OnVideo(i, hasSets) \/ UnknownEnds(i)
      PROVE  Goal
  BY <1>0, <1>9 DEF OnVideo, UnknownEnds, sessionVars
<1>10. ASSUME NEW p \in Stopper,
              StopGranted(p) \/ \E s \in Session : LingerFires(p, s) \/ OwnerStop(p, s)
       PROVE  Goal
  <2>1. q # p
    BY TaskAssumption
  <2>. QED  BY <1>0, <1>10, <1>a, <2>1 DEF TypeOK, LingerFires, OwnerStop, StopGranted, StopCall, StopBody
<1>11. ASSUME NEW p \in Stopper, Stopped(p)
       PROVE  Goal
  <2>1. q # p
    BY TaskAssumption
  <2>2. /\ on[p] \in Session /\ TeardownEffect(on[p])
        /\ UNCHANGED reader /\ on'[q] = on[q]
    BY <1>11, <1>a, <2>1 DEF Stopped, TypeOK, Inductive, BusyTaskHasSession
  <2>. QED  BY <1>a, <1>b, <2>2, TeardownFeeds
<1>12. ASSUME UNCHANGED vars
       PROVE  Goal
  BY <1>0, <1>12 DEF vars, sessionVars
<1>. HIDE DEF Goal
<1>13. ASSUME NEW r \in Reader, Proceed(r) \/ Leave(r)
       PROVE  Goal
  BY <1>2, <1>3, <1>4, <1>5, <1>6, <1>7, <1>8, <1>13 DEF Proceed
<1>14. ASSUME NEW p \in Stopper, Finish(p)
       PROVE  Goal
  BY <1>10, <1>11, <1>14 DEF Finish
<1>15. ASSUME Run
       PROVE  Goal
  BY <1>9, <1>13, <1>14, <1>15 DEF Run
<1>16. ASSUME \/ \E r \in Reader, s \in Session : Request(r, s)
              \/ \E p \in Stopper, s \in Session : OwnerStop(p, s)
       PROVE  Goal
  BY <1>1, <1>10, <1>16
<1>17. Goal
  BY <1>12, <1>15, <1>16 DEF Next
<1>. QED  BY <1>17 DEF Goal

\* A reader of a running session goes on being fed until it leaves or is told, and
\* is fed from the start unless a teardown woke it: no reconnect, stop or departure
\* of another leaves it waiting on a queue that has been forgotten.
THEOREM NobodyForgotten == Spec => FedUntilTold
<1>1. Inductive /\ [Next]_vars => [\A r \in Reader : StaysFed(r) /\ GetsFed(r)]_vars
  BY FedStep
<1>2. ASSUME [\A r \in Reader : StaysFed(r) /\ GetsFed(r)]_vars
      PROVE  [\A r \in Reader :
                /\ Fed(r) => \/ Fed(r)'
                             \/ reader'[r] = "idle"
                             \/ reader'[r] = "reading" /\ closed'[r]
                /\ reader[r] # "reading" /\ reader'[r] = "reading" =>
                     \/ Fed(r)'
                     \/ reader[r] = "params" /\ instance[on[r]] = None]_vars
  BY <1>2 DEF StaysFed, GetsFed
<1>. QED  BY <1>1, <1>2, InductiveHolds, PTL DEF Spec, FedUntilTold

--------------------------------------------------------------------------------
(* The shared link *)

\* What the link of a session is, read off the one task inside its critical section.
LinkAt(state) ==
  CASE state = "reconnect" -> "closing"
    [] state = "status" -> "up"
    [] state = "abort" -> "dropping"
    [] state = "create" -> "down"
    [] OTHER -> "opening"

ReaderInside(r, s) == on[r] = s /\ reader[r] \in Ensuring
StopperInside(p, s) == on[p] = s /\ stopper[p] = "stopping"

LinkFact ==
  \A s \in Session :
    /\ \A r \in Reader : ReaderInside(r, s) => link[s] = LinkAt(reader[r])
    /\ \A p \in Stopper : StopperInside(p, s) => link[s] = "closing"
    /\ (\A r \in Reader : ~ReaderInside(r, s)) /\ (\A p \in Stopper : ~StopperInside(p, s))
         => link[s] = IF instance[s] # None THEN "up" ELSE "down"

\* The lock admits one task, so where it stands decides.
LEMMA LinkIsHolders == Inductive => LinkFact
<1>. SUFFICES ASSUME Inductive, NEW s \in Session
              PROVE  /\ \A r \in Reader : ReaderInside(r, s) => link[s] = LinkAt(reader[r])
                     /\ \A p \in Stopper : StopperInside(p, s) => link[s] = "closing"
                     /\ (\A r \in Reader : ~ReaderInside(r, s))
                          /\ (\A p \in Stopper : ~StopperInside(p, s))
                          => link[s] = IF instance[s] # None THEN "up" ELSE "down"
  BY DEF LinkFact
<1>. USE DEF ReaderInside, StopperInside
<1>0. link[s] =
        IF instance[s] # None
        THEN IF ReaderAt(s, {"reconnect"}) \/ StopperAt(s) THEN "closing" ELSE "up"
        ELSE IF ReaderAt(s, {"abort"}) THEN "dropping"
        ELSE IF ReaderAt(s, Opening \ {"create"}) THEN "opening" ELSE "down"
  BY DEF link
<1>1. ASSUME NEW r \in Reader, ReaderInside(r, s)
      PROVE  link[s] = LinkAt(reader[r])
  <2>1. lock[s] = r
    BY <1>1 DEF Inductive, HolderIsInside
  <2>2. ASSUME NEW states, states \subseteq Ensuring
        PROVE  ReaderAt(s, states) <=> reader[r] \in states
    BY <1>1, <2>1, <2>2 DEF ReaderAt, Inductive, HolderIsInside
  <2>3. ~StopperAt(s)
    BY <2>1, TaskAssumption DEF StopperAt, Inductive, HolderIsInside
  <2>4. /\ ReaderAt(s, {"reconnect"}) <=> reader[r] = "reconnect"
        /\ ReaderAt(s, {"abort"}) <=> reader[r] = "abort"
        /\ ReaderAt(s, Opening \ {"create"}) <=> reader[r] \in Opening \ {"create"}
    BY <2>2 DEF Ensuring, Opening
  <2>5. CASE reader[r] \in {"status", "reconnect"}
    <3>1. instance[s] # None
      BY <1>1, <2>5 DEF Inductive, HandlesMatchControl
    <3>. QED  BY <1>0, <2>3, <2>4, <2>5, <3>1 DEF LinkAt
  <2>6. CASE reader[r] \in Opening
    <3>1. instance[s] = None
      BY <1>1, <2>6 DEF Inductive, HandlesMatchControl
    <3>. QED  BY <1>0, <2>4, <2>6, <3>1 DEF LinkAt, Opening
  <2>. QED  BY <1>1, <2>5, <2>6 DEF Ensuring
<1>2. ASSUME NEW p \in Stopper, StopperInside(p, s)
      PROVE  link[s] = "closing"
  <2>1. instance[s] # None /\ StopperAt(s)
    BY <1>2 DEF StopperAt, Inductive, HandlesMatchControl
  <2>. QED  BY <1>0, <2>1
<1>3. ASSUME \A r \in Reader : ~ReaderInside(r, s), \A p \in Stopper : ~StopperInside(p, s)
      PROVE  link[s] = IF instance[s] # None THEN "up" ELSE "down"
  <2>1. /\ ~ReaderAt(s, {"reconnect"}) /\ ~ReaderAt(s, {"abort"})
        /\ ~ReaderAt(s, Opening \ {"create"}) /\ ~StopperAt(s)
    BY <1>3 DEF ReaderAt, StopperAt, Ensuring, Opening
  <2>. QED  BY <1>0, <2>1
<1>. QED  BY <1>1, <1>2, <1>3

LEMMA LinkIsHoldersNext == Inductive' => LinkFact'
BY LinkIsHolders, PTL

\* What a step does to the links of the sessions it is not about: nothing, if nobody
\* enters, leaves or moves inside their critical section.
Apart(s) ==
  \A s2 \in Session \ {s} :
    /\ instance'[s2] = instance[s2]
    /\ \A r \in Reader, x \in Ensuring :
         (on'[r] = s2 /\ reader'[r] = x) <=> (on[r] = s2 /\ reader[r] = x)
    /\ \A p \in Stopper :
         (on'[p] = s2 /\ stopper'[p] = "stopping") <=> (on[p] = s2 /\ stopper[p] = "stopping")

LEMMA LinkElsewhere ==
  ASSUME NEW s, Apart(s), NEW s2 \in Session \ {s}
  PROVE  link'[s2] = link[s2]
<1>1. \A states \in SUBSET Ensuring : ReaderAt(s2, states)' <=> ReaderAt(s2, states)
  BY DEF Apart, ReaderAt
<1>2. StopperAt(s2)' <=> StopperAt(s2)
  BY DEF Apart, StopperAt
<1>3. /\ ReaderAt(s2, {"reconnect"})' <=> ReaderAt(s2, {"reconnect"})
      /\ ReaderAt(s2, {"abort"})' <=> ReaderAt(s2, {"abort"})
      /\ ReaderAt(s2, Opening \ {"create"})' <=> ReaderAt(s2, Opening \ {"create"})
  BY <1>1 DEF Ensuring, Opening
<1>. QED  BY <1>2, <1>3 DEF Apart, link

LEMMA LinkMoved ==
  ASSUME NEW s \in Session, Apart(s)
  PROVE  link' = [link EXCEPT ![s] = link'[s]]
<1>1. link = [x \in Session |-> link[x]] /\ link' = [x \in Session |-> link'[x]]
  BY DEF link
<1>2. \A x \in Session \ {s} : link'[x] = link[x]
  BY LinkElsewhere
<1>. QED  BY <1>1, <1>2

LEMMA LinkKept ==
  ASSUME NEW s, Apart(s), s \in Session => link'[s] = link[s]
  PROVE  link' = link
<1>1. \A x \in Session : link'[x] = link[x]
  BY LinkElsewhere
<1>. QED  BY <1>1 DEF link

\* A reader that moves inside the critical section of its session, enters it or
\* leaves it, touches no other.
LEMMA ReaderApart ==
  ASSUME TypeOK, NEW r \in Reader, on[r] \in Session,
         NEW x, reader' = [reader EXCEPT ![r] = x],
         UNCHANGED on \/ on' = [on EXCEPT ![r] = None],
         \A p \in Stopper : stopper'[p] = "stopping" <=> stopper[p] = "stopping",
         \A s2 \in Session \ {on[r]} : instance'[s2] = instance[s2]
  PROVE  Apart(on[r])
BY TaskAssumption DEF TypeOK, Task, Apart

\* Cancelling a countdown never cancels a teardown.
LEMMA CancelKeepsStopping ==
  ASSUME Inductive, NEW s \in Session, CancelLinger(s)
  PROVE  \A p \in Stopper : stopper'[p] = "stopping" <=> stopper[p] = "stopping"
BY TaskAssumption DEF Inductive, TypeOK, HandleNamesCountdown, CancelLinger

LEMMA UnholdKeepsStopping ==
  ASSUME Inductive, NEW s \in Session, Unhold(s)
  PROVE  \A p \in Stopper : stopper'[p] = "stopping" <=> stopper[p] = "stopping"
<1>0. TypeOK /\ HandleNamesCountdown
  BY DEF Inductive
<1>1. CASE users[s] = 1
  <2>1. PICK p \in Stopper :
          /\ stopper[p] = "idle"
          /\ stopper' = [q \in Stopper |->
               IF q = p THEN "sleep"
               ELSE IF q = lingerTask[s] THEN "idle" ELSE stopper[q]]
    BY <1>1 DEF Unhold
  <2>2. lingerTask[s] = None \/ stopper[lingerTask[s]] = "sleep"
    BY <1>0 DEF HandleNamesCountdown
  <2>. QED  BY <2>1, <2>2, TaskAssumption
<1>2. CASE users[s] # 1
  BY <1>2 DEF Unhold
<1>. QED  BY <1>1, <1>2

--------------------------------------------------------------------------------
(* The audience *)

\* Every consumer in a session's set is that of a reader that reads from it.
ConsumersRead ==
  \A s \in Session : \A r \in consumers[s] : reader[r] = "reading" /\ on[r] = s

\* Nobody begins or stops reading, or is told.
Undisturbed ==
  \A r \in Reader :
    /\ reader'[r] = "reading" <=> reader[r] = "reading"
    /\ reader[r] = "reading" => on'[r] = on[r] /\ closed'[r] = closed[r]

LEMMA AudienceKept ==
  ASSUME Undisturbed
  PROVE  audience' = audience
<1>1. \A s \in Session :
        {r \in Reader : on'[r] = s /\ reader'[r] = "reading" /\ ~closed'[r]} =
        {r \in Reader : on[r] = s /\ reader[r] = "reading" /\ ~closed[r]}
  BY DEF Undisturbed
<1>. QED  BY <1>1 DEF audience

LEMMA AudienceJoined ==
  ASSUME TypeOK, NEW r \in Reader, on[r] \in Session, reader[r] # "reading",
         Join(r, on[r]), UNCHANGED on
  PROVE  audience' = [audience EXCEPT ![on[r]] = @ \cup {r}]
<1>1. /\ reader'[r] = "reading" /\ ~closed'[r]
      /\ \A q \in Reader \ {r} : reader'[q] = reader[q] /\ closed'[q] = closed[q]
  BY DEF TypeOK, Join, Goto
<1>2. \A s \in Session :
        {q \in Reader : on'[q] = s /\ reader'[q] = "reading" /\ ~closed'[q]} =
        {q \in Reader : on[q] = s /\ reader[q] = "reading" /\ ~closed[q]}
          \cup IF s = on[r] THEN {r} ELSE {}
  BY <1>1
<1>. QED  BY <1>2 DEF audience

LEMMA AudienceParted ==
  ASSUME TypeOK, NEW r \in Reader, on[r] \in Session,
         reader' = [reader EXCEPT ![r] = "idle"], on' = [on EXCEPT ![r] = None],
         closed' = [closed EXCEPT ![r] = FALSE]
  PROVE  audience' = [audience EXCEPT ![on[r]] = @ \ {r}]
<1>1. /\ reader'[r] # "reading"
      /\ \A q \in Reader \ {r} :
           reader'[q] = reader[q] /\ closed'[q] = closed[q] /\ on'[q] = on[q]
  BY DEF TypeOK, Task
<1>2. \A s \in Session :
        {q \in Reader : on'[q] = s /\ reader'[q] = "reading" /\ ~closed'[q]} =
        {q \in Reader : on[q] = s /\ reader[q] = "reading" /\ ~closed[q]}
          \ IF s = on[r] THEN {r} ELSE {}
  BY <1>1
<1>. QED  BY <1>2 DEF audience

\* A teardown tells the whole audience of its session, and no other.
LEMMA AudienceClosed ==
  ASSUME TypeOK, ConsumersRead, ReaderIsListed, NEW s \in Session, TeardownEffect(s),
         \A r \in Reader :
           /\ reader'[r] = "reading" <=> reader[r] = "reading"
           /\ reader[r] = "reading" => on'[r] = on[r]
  PROVE  audience' = [audience EXCEPT ![s] = {}]
<1>1. \A r \in Reader : closed'[r] = (closed[r] \/ r \in consumers[s])
  BY DEF TeardownEffect
<1>2. \A r \in Reader : reader[r] = "reading" /\ on[r] = s => closed'[r]
  BY <1>1 DEF ReaderIsListed
<1>3. \A r \in Reader : reader[r] = "reading" /\ on[r] # s => (closed'[r] <=> closed[r])
  BY <1>1 DEF ConsumersRead
<1>4. {q \in Reader : on'[q] = s /\ reader'[q] = "reading" /\ ~closed'[q]} = {}
  BY <1>2
<1>5. \A s2 \in Session \ {s} :
        {q \in Reader : on'[q] = s2 /\ reader'[q] = "reading" /\ ~closed'[q]} =
        {q \in Reader : on[q] = s2 /\ reader[q] = "reading" /\ ~closed[q]}
  BY <1>3
<1>6. audience'[s] = {} /\ \A s2 \in Session \ {s} : audience'[s2] = audience[s2]
  BY <1>4, <1>5 DEF audience
<1>7. /\ audience = [x \in Session |-> audience[x]]
      /\ audience' = [x \in Session |-> audience'[x]]
  BY DEF audience
<1>. QED  BY <1>6, <1>7

\* Nobody is disturbed by a reader that does not read, nor by a stopper.
LEMMA ReaderUndisturbed ==
  ASSUME TypeOK, NEW r \in Reader, reader[r] # "reading", NEW x, x # "reading",
         reader' = [reader EXCEPT ![r] = x], UNCHANGED closed,
         NEW y, on' = [on EXCEPT ![r] = y]
  PROVE  audience' = audience
<1>1. Undisturbed
  BY DEF TypeOK, Task, Undisturbed
<1>. QED  BY <1>1, AudienceKept

LEMMA StopperUndisturbed ==
  ASSUME TypeOK, NEW p \in Stopper, UNCHANGED <<reader, closed>>,
         NEW y, on' = [on EXCEPT ![p] = y]
  PROVE  audience' = audience
<1>1. Undisturbed
  BY TaskAssumption DEF TypeOK, Task, Undisturbed
<1>. QED  BY <1>1, AudienceKept

\* Who is fed is reading: consumers only shrink, or grow by a reader that joins.
LEMMA ConsumersReadKept ==
  ASSUME ConsumersRead,
         \A s \in Session : consumers'[s] \subseteq consumers[s],
         \A q \in Reader : reader[q] = "reading" => reader'[q] = "reading" /\ on'[q] = on[q],
         TypeOK
  PROVE  ConsumersRead'
BY DEF ConsumersRead, TypeOK

LEMMA ConsumersReadJoined ==
  ASSUME TypeOK, ConsumersRead, NEW r \in Reader, on[r] \in Session, UNCHANGED on,
         reader[r] # "reading", Join(r, on[r])
  PROVE  ConsumersRead'
<1>. SUFFICES ASSUME NEW s \in Session, NEW q \in consumers'[s]
              PROVE  reader'[q] = "reading" /\ on'[q] = s
  BY DEF ConsumersRead
<1>1. /\ reader' = [reader EXCEPT ![r] = "reading"]
      /\ consumers' = [consumers EXCEPT ![on[r]] = @ \cup {r}]
  BY DEF Join, Goto
<1>2. CASE q = r /\ s = on[r]
  BY <1>1, <1>2 DEF TypeOK
<1>3. CASE ~(q = r /\ s = on[r])
  <2>1. q \in consumers[s]
    BY <1>1, <1>3 DEF TypeOK
  <2>2. q \in Reader /\ reader[q] = "reading" /\ on[q] = s
    BY <2>1 DEF ConsumersRead, TypeOK
  <2>. QED  BY <1>1, <2>2
<1>. QED  BY <1>2, <1>3

LEMMA ConsumersReadStep ==
  ASSUME Inductive, ConsumersRead, [Next]_vars
  PROVE  ConsumersRead'
<1>0. TypeOK /\ Reader \subseteq Task
  BY DEF Inductive, Task
<1>1. ASSUME NEW r \in Reader, StatusConnected(r) \/ RegisterAudio(r) \/ ParametersReady(r)
      PROVE  ConsumersRead'
  <2>1. on[r] \in Session /\ UNCHANGED on /\ reader[r] # "reading"
    BY <1>1 DEF StatusConnected, RegisterAudio, ParametersReady, Inductive, BusyTaskHasSession
  <2>2. CASE Join(r, on[r])
    BY <1>0, <2>1, <2>2, ConsumersReadJoined
  <2>3. CASE Goto(r, "params") /\ UNCHANGED consumers
    BY <1>0, <2>1, <2>3, ConsumersReadKept DEF Goto, TypeOK
  <2>. QED  BY <1>1, <2>2, <2>3 DEF StatusConnected, RegisterAudio, ParametersReady, Hold
<1>2. ASSUME NEW r \in Reader, Leave(r)
      PROVE  ConsumersRead'
  <2>. SUFFICES ASSUME NEW s \in Session, NEW q \in consumers'[s]
                PROVE  reader'[q] = "reading" /\ on'[q] = s
    BY DEF ConsumersRead
  <2>1. /\ reader' = [reader EXCEPT ![r] = "idle"]
        /\ on' = [on EXCEPT ![r] = None]
        /\ consumers' = [consumers EXCEPT ![on[r]] = @ \ {r}]
    BY <1>2 DEF Leave, Goto
  <2>2. q \in consumers[s] /\ ~(q = r /\ s = on[r])
    BY <1>0, <2>1 DEF TypeOK
  <2>3. q \in Reader /\ reader[q] = "reading" /\ on[q] = s
    BY <1>0, <2>2 DEF ConsumersRead, TypeOK
  <2>. QED  BY <1>0, <2>1, <2>2, <2>3 DEF TypeOK
<1>3. ASSUME NEW r \in Reader,
             \/ \E s \in Session : Request(r, s)
             \/ ParametersTimeout(r) \/ Abort(r) \/ CallRaises(r)
      PROVE  ConsumersRead'
  <2>1. /\ UNCHANGED consumers /\ reader' = [reader EXCEPT ![r] = reader'[r]]
        /\ \E y : on' = [on EXCEPT ![r] = y]
        /\ reader[r] # "reading"
    BY <1>0, <1>3 DEF TypeOK, Request, ParametersTimeout, Abort, CallRaises, Raise, Goto, sessionVars
  <2>. QED  BY <1>0, <2>1, ConsumersReadKept DEF TypeOK
<1>4. ASSUME NEW r \in Reader,
             \/ Subscribe(r) \/ Granted(r) \/ StatusLost(r) \/ Created(r) \/ Started(r)
             \/ PollConnected(r) \/ PollTimeout(r) \/ RegisterVideo(r)
      PROVE  ConsumersRead'
  <2>1. /\ UNCHANGED <<consumers, on>> /\ reader' = [reader EXCEPT ![r] = reader'[r]]
        /\ reader[r] # "reading"
    BY <1>0, <1>4 DEF TypeOK, Subscribe, Granted, EnterEnsure, StatusLost, Created, Started, PollConnected, PollTimeout, RegisterVideo, Goto, sessionVars
  <2>. QED  BY <1>0, <2>1, ConsumersReadKept DEF TypeOK
<1>5. ASSUME NEW r \in Reader, Reconnect(r)
      PROVE  ConsumersRead'
  <2>1. /\ \A s \in Session : consumers'[s] \subseteq consumers[s]
        /\ UNCHANGED on /\ reader' = [reader EXCEPT ![r] = "create"] /\ reader[r] # "reading"
    BY <1>0, <1>5 DEF Reconnect, TeardownEffect, Goto, TypeOK
  <2>. QED  BY <1>0, <2>1, ConsumersReadKept DEF TypeOK
<1>6. ASSUME NEW i \in Instance, NEW hasSets \in BOOLEAN,
             OnVideo(i, hasSets) \/ UnknownEnds(i)
      PROVE  ConsumersRead'
  BY <1>0, <1>6, ConsumersReadKept DEF OnVideo, UnknownEnds, sessionVars
<1>7. ASSUME NEW p \in Stopper,
             \/ \E s \in Session : LingerFires(p, s) \/ OwnerStop(p, s)
             \/ StopGranted(p) \/ Stopped(p)
      PROVE  ConsumersRead'
  <2>1. /\ \A s \in Session : consumers'[s] \subseteq consumers[s]
        /\ UNCHANGED reader
    BY <1>0, <1>7 DEF LingerFires, OwnerStop, StopGranted, Stopped, TeardownEffect, TypeOK
  <2>2. UNCHANGED on \/ \E y : on' = [on EXCEPT ![p] = y]
    BY <1>7 DEF LingerFires, OwnerStop, StopGranted, Stopped, StopCall, StopBody
  <2>3. \A q \in Reader : on'[q] = on[q]
    BY <1>0, <2>2, TaskAssumption DEF TypeOK, Task
  <2>. QED  BY <1>0, <2>1, <2>3, ConsumersReadKept
<1>8. ASSUME UNCHANGED vars
      PROVE  ConsumersRead'
  BY <1>8 DEF ConsumersRead, vars
<1>. DEFINE Goal == ConsumersRead'
<1>. HIDE DEF Goal
<1>11. ASSUME NEW r \in Reader, Proceed(r) \/ Leave(r)
       PROVE  Goal
  BY <1>1, <1>2, <1>3, <1>4, <1>5, <1>11 DEF Proceed, Goal
<1>12. ASSUME NEW p \in Stopper, Finish(p)
       PROVE  Goal
  BY <1>7, <1>12 DEF Finish, Goal
<1>13. ASSUME Run
       PROVE  Goal
  BY <1>6, <1>11, <1>12, <1>13 DEF Run, Goal
<1>14. Goal
  BY <1>3, <1>7, <1>8, <1>13 DEF Next, Goal
<1>. QED  BY <1>14 DEF Goal

--------------------------------------------------------------------------------
(* The refinement *)

\* A reader that stands inside the critical section is what the link is read off.
LEMMA LinkInside ==
  ASSUME Inductive, NEW r \in Reader, reader[r] \in Ensuring
  PROVE  on[r] \in Session /\ link[on[r]] = LinkAt(reader[r])
<1>1. on[r] \in Session
  BY DEF Inductive, BusyTaskHasSession, Ensuring, Opening
<1>. QED  BY <1>1, LinkIsHolders DEF LinkFact, ReaderInside

\* It moves on to another place there: the link moves accordingly, and no other.
LEMMA MovesInside ==
  ASSUME Inductive, Inductive', NEW r \in Reader, reader[r] \in Ensuring,
         NEW x \in Ensuring, reader' = [reader EXCEPT ![r] = x],
         UNCHANGED <<on, stopper>>,
         \A s \in Session \ {on[r]} : instance'[s] = instance[s]
  PROVE  L!Move(on[r], LinkAt(reader[r]), LinkAt(x))
<1>1. on[r] \in Session /\ link[on[r]] = LinkAt(reader[r])
  BY LinkInside
<1>2. reader'[r] = x
  BY DEF Inductive, TypeOK
<1>3. link'[on[r]] = LinkAt(x)
  BY <1>1, <1>2, LinkIsHoldersNext DEF LinkFact, ReaderInside
<1>4. Apart(on[r])
  BY <1>1, ReaderApart DEF Inductive
<1>. QED  BY <1>1, <1>3, <1>4, LinkMoved DEF L!Move

\* It leaves the critical section, and nobody stands there: the handle decides.
LEMMA LeavesInside ==
  ASSUME Inductive, Inductive', NEW r \in Reader, reader[r] \in Ensuring,
         NEW x, x \notin Ensuring, reader' = [reader EXCEPT ![r] = x],
         UNCHANGED on \/ on' = [on EXCEPT ![r] = None],
         UNCHANGED stopper,
         \A s \in Session \ {on[r]} : instance'[s] = instance[s]
  PROVE  L!Move(on[r], LinkAt(reader[r]), IF instance'[on[r]] # None THEN "up" ELSE "down")
<1>1. on[r] \in Session /\ link[on[r]] = LinkAt(reader[r])
  BY LinkInside
<1>2. lock[on[r]] = r
  BY DEF Inductive, HolderIsInside
<1>3. \A q \in Reader : ~(on'[q] = on[r] /\ reader'[q] \in Ensuring)
  <2>. SUFFICES ASSUME NEW q \in Reader, on'[q] = on[r], reader'[q] \in Ensuring
                PROVE  FALSE
    OBVIOUS
  <2>1. q # r
    BY DEF Inductive, TypeOK
  <2>2. reader[q] \in Ensuring /\ on[q] = on[r]
    BY <2>1 DEF Inductive, TypeOK, Task
  <2>. QED  BY <1>2, <2>1, <2>2 DEF Inductive, HolderIsInside
<1>4. \A p \in Stopper : ~(on'[p] = on[r] /\ stopper'[p] = "stopping")
  <2>. SUFFICES ASSUME NEW p \in Stopper, on'[p] = on[r], stopper'[p] = "stopping"
                PROVE  FALSE
    OBVIOUS
  <2>1. p # r
    BY TaskAssumption
  <2>2. stopper[p] = "stopping" /\ on[p] = on[r]
    BY <2>1 DEF Inductive, TypeOK, Task
  <2>. QED  BY <1>2, <2>1, <2>2 DEF Inductive, HolderIsInside
<1>5. link'[on[r]] = IF instance'[on[r]] # None THEN "up" ELSE "down"
  BY <1>1, <1>3, <1>4, LinkIsHoldersNext DEF LinkFact, ReaderInside, StopperInside
<1>6. Apart(on[r])
  BY <1>1, ReaderApart DEF Inductive
<1>. QED  BY <1>1, <1>5, <1>6, LinkMoved DEF L!Move

\* The lock is free, or its holder has not run yet: nobody stands inside.
LEMMA NobodyInside ==
  ASSUME Inductive, NEW s \in Session,
         \/ lock[s] = None
         \/ lock[s] \in Reader /\ reader[lock[s]] \notin Ensuring
         \/ lock[s] \in Stopper /\ stopper[lock[s]] # "stopping"
  PROVE  link[s] = IF instance[s] # None THEN "up" ELSE "down"
<1>1. \A r \in Reader : ~ReaderInside(r, s)
  BY TaskAssumption DEF Inductive, HolderIsInside, ReaderInside
<1>2. \A p \in Stopper : ~StopperInside(p, s)
  BY TaskAssumption DEF Inductive, HolderIsInside, StopperInside
<1>. QED  BY <1>1, <1>2, LinkIsHolders DEF LinkFact

LinkStep == [L!LinkNext]_(L!linkVars)

LEMMA LinkOf ==
  ASSUME NEW s \in Session,
         \/ L!Open(s) \/ L!Opened(s) \/ L!GiveUp(s) \/ L!Dropped(s) \/ L!Close(s) \/ L!Closed(s)
         \/ \E r \in Reader : L!Join(s, r) \/ L!Part(s, r)
  PROVE  LinkStep
BY DEF LinkStep, L!LinkNext

LEMMA LinkSame ==
  ASSUME UNCHANGED <<link, audience>>
  PROVE  LinkStep
BY DEF LinkStep, L!linkVars

\* A reader asks for the session, or comes into its critical section.
LEMMA LinkEntered ==
  ASSUME Inductive, Inductive', NEW r \in Reader,
         Subscribe(r) \/ Granted(r) \/ \E s \in Session : Request(r, s)
  PROVE  LinkStep
<1>0. TypeOK /\ r \in Task
  BY DEF Inductive, Task
<1>1. audience' = audience
  <2>1. /\ reader[r] # "reading" /\ UNCHANGED closed
        /\ \E x : x # "reading" /\ reader' = [reader EXCEPT ![r] = x]
        /\ \E y : on' = [on EXCEPT ![r] = y]
    BY <1>0 DEF Subscribe, Granted, Request, EnterEnsure, Goto, TypeOK
  <2>. QED  BY <1>0, <2>1, ReaderUndisturbed
<1>2. CASE \E s \in Session : Request(r, s)
  <2>1. PICK s \in Session :
          /\ UNCHANGED <<instance, stopper>>
          /\ reader[r] = "idle" /\ reader' = [reader EXCEPT ![r] = "prepare"]
          /\ on' = [on EXCEPT ![r] = s]
    BY <1>2 DEF Request, Goto, sessionVars
  <2>2. Apart(None)
    BY <1>0, <2>1, TaskAssumption DEF TypeOK, Task, Apart, Ensuring, Opening
  <2>. QED  BY <1>1, <2>2, LinkKept, LinkSame, TaskAssumption
<1>3. CASE Subscribe(r) \/ Granted(r)
  <2>1. /\ on[r] \in Session /\ UNCHANGED <<on, instance>>
        /\ on'[r] = on[r]
    BY <1>3 DEF Inductive, BusyTaskHasSession, Subscribe, Granted, EnterEnsure, sessionVars
  <2>2. \A p \in Stopper : stopper'[p] = "stopping" <=> stopper[p] = "stopping"
    BY <1>3, <2>1, CancelKeepsStopping DEF Subscribe, Granted, EnterEnsure
  <2>3. CASE EnterEnsure(r, on[r]) /\ (lock[on[r]] = None \/ lock[on[r]] = r)
    <3>1. link[on[r]] = IF instance[on[r]] # None THEN "up" ELSE "down"
      BY <1>3, <2>1, <2>3, NobodyInside DEF Subscribe, Granted, Ensuring, Opening
    <3>2. reader' = [reader EXCEPT ![r] = IF instance[on[r]] = None THEN "create" ELSE "status"]
      BY <2>3 DEF EnterEnsure, Goto
    <3>3. link'[on[r]] = link[on[r]]
      <4>1. reader'[r] = IF instance[on[r]] = None THEN "create" ELSE "status"
        BY <1>0, <3>2 DEF TypeOK
      <4>2. link'[on[r]] = LinkAt(reader'[r])
        BY <2>1, <4>1, LinkIsHoldersNext DEF LinkFact, ReaderInside, Ensuring, Opening
      <4>. QED  BY <3>1, <4>1, <4>2 DEF LinkAt
    <3>4. Apart(on[r])
      BY <1>0, <2>1, <2>2, <3>2, ReaderApart
    <3>. QED  BY <1>1, <3>3, <3>4, LinkKept, LinkSame
  <2>4. CASE UNCHANGED stopper /\ Goto(r, "lock") /\ reader[r] = "prepare"
    <3>1. Apart(None)
      BY <1>0, <2>1, <2>4 DEF Goto, TypeOK, Apart, Ensuring, Opening
    <3>. QED  BY <1>1, <3>1, LinkKept, LinkSame, TaskAssumption
  <2>. QED  BY <1>3, <2>3, <2>4 DEF Subscribe, Granted, LockFree
<1>. QED  BY <1>2, <1>3

\* The reader opens the session, or gives it up.
LEMMA LinkOpening ==
  ASSUME Inductive, Inductive', NEW r \in Reader,
         \/ StatusLost(r) \/ Created(r) \/ Started(r) \/ PollConnected(r)
         \/ PollTimeout(r) \/ RegisterVideo(r)
  PROVE  LinkStep
<1>. DEFINE x == reader'[r]
<1>0. TypeOK /\ on[r] \in Session
  BY DEF Inductive, BusyTaskHasSession, StatusLost, Created, Started, PollConnected, PollTimeout, RegisterVideo
<1>1. /\ reader' = [reader EXCEPT ![r] = x]
      /\ UNCHANGED <<on, stopper, instance, closed>>
      /\ x \in Ensuring /\ x # "reading" /\ reader[r] \in Ensuring /\ reader[r] # "reading"
  BY <1>0 DEF TypeOK, StatusLost, Created, Started, PollConnected, PollTimeout, RegisterVideo, Goto, sessionVars, Ensuring, Opening
<1>. HIDE DEF x
<1>2. L!Move(on[r], LinkAt(reader[r]), LinkAt(x))
  BY <1>1, MovesInside
<1>3. audience' = audience
  <2>1. on' = [on EXCEPT ![r] = on[r]]
    BY <1>0, <1>1 DEF TypeOK
  <2>. QED  BY <1>0, <1>1, <2>1, ReaderUndisturbed
<1>4. CASE StatusLost(r)
  <2>1. reader[r] = "status" /\ x = "reconnect"
    BY <1>0, <1>4 DEF StatusLost, Goto, TypeOK, x
  <2>. QED  BY <1>0, <1>2, <1>3, <2>1, LinkOf DEF LinkAt, L!Close
<1>5. CASE Created(r)
  <2>1. reader[r] = "create" /\ x = "start"
    BY <1>0, <1>5 DEF Created, Goto, TypeOK, x
  <2>. QED  BY <1>0, <1>2, <1>3, <2>1, LinkOf DEF LinkAt, L!Open
<1>6. CASE PollTimeout(r)
  <2>1. reader[r] = "poll" /\ x = "abort"
    BY <1>0, <1>6 DEF PollTimeout, Goto, TypeOK, x
  <2>. QED  BY <1>0, <1>2, <1>3, <2>1, LinkOf DEF LinkAt, L!GiveUp
<1>7. CASE Started(r) \/ PollConnected(r) \/ RegisterVideo(r)
  <2>1. LinkAt(reader[r]) = "opening" /\ LinkAt(x) = "opening"
    BY <1>0, <1>7 DEF Started, PollConnected, RegisterVideo, Goto, TypeOK, x, LinkAt
  <2>2. link' = link
    BY <1>2, <2>1 DEF L!Move, link
  <2>. QED  BY <1>3, <2>2, LinkSame
<1>. QED  BY <1>4, <1>5, <1>6, <1>7

\* The exception that leaves the critical section leaves the link down.
LEMMA LinkRaised ==
  ASSUME Inductive, Inductive', NEW r \in Reader, Abort(r) \/ CallRaises(r)
  PROVE  LinkStep
<1>0. TypeOK /\ on[r] \in Session
  BY DEF Inductive, BusyTaskHasSession, Abort, CallRaises
<1>1. /\ reader' = [reader EXCEPT ![r] = "idle"] /\ on' = [on EXCEPT ![r] = None]
      /\ UNCHANGED <<stopper, instance, closed>>
      /\ reader[r] \in {"create", "start", "poll", "abort", "registerVideo", "registerAudio"}
  BY DEF Abort, CallRaises, Raise, Goto, sessionVars
<1>2. instance'[on[r]] = None /\ reader[r] \in Ensuring /\ "idle" \notin Ensuring
  BY <1>1 DEF Inductive, HandlesMatchControl, Ensuring, Opening
<1>3. L!Move(on[r], LinkAt(reader[r]), "down")
  BY <1>1, <1>2, LeavesInside
<1>4. audience' = audience
  BY <1>0, <1>1, ReaderUndisturbed
<1>5. CASE reader[r] = "abort"
  BY <1>0, <1>3, <1>4, <1>5, LinkOf DEF LinkAt, L!Dropped
<1>6. CASE reader[r] = "create"
  <2>1. link' = link
    BY <1>3, <1>6 DEF LinkAt, L!Move, link
  <2>. QED  BY <1>4, <2>1, LinkSame
<1>7. CASE reader[r] \in {"start", "poll", "registerVideo", "registerAudio"}
  BY <1>0, <1>3, <1>4, <1>7, LinkOf DEF LinkAt, L!GiveUp
<1>. QED  BY <1>1, <1>5, <1>6, <1>7

\* The reader is let in: it joins the audience, or waits for the parameter sets.
LEMMA LinkHeld ==
  ASSUME Inductive, Inductive', NEW r \in Reader,
         StatusConnected(r) \/ RegisterAudio(r) \/ ParametersReady(r)
  PROVE  LinkStep
<1>0. TypeOK /\ on[r] \in Session
  BY DEF Inductive, BusyTaskHasSession, StatusConnected, RegisterAudio, ParametersReady
<1>1. /\ UNCHANGED <<on, stopper>> /\ reader[r] \in {"status", "registerAudio", "params"}
      /\ \A s \in Session \ {on[r]} : instance'[s] = instance[s]
  BY <1>0 DEF TypeOK, StatusConnected, RegisterAudio, ParametersReady
<1>2. CASE Join(r, on[r])
  <2>1. audience' = [audience EXCEPT ![on[r]] = @ \cup {r}]
    BY <1>0, <1>1, <1>2, AudienceJoined
  <2>2. reader' = [reader EXCEPT ![r] = "reading"] /\ "reading" \notin Ensuring
    BY <1>2 DEF Join, Goto, Ensuring, Opening
  <2>3. CASE reader[r] = "params"
    <3>1. /\ \A s \in Session : instance'[s] = instance[s]
          /\ reader' = [reader EXCEPT ![r] = "reading"]
      BY <2>2, <2>3 DEF ParametersReady, StatusConnected, RegisterAudio
    <3>2. Apart(None)
      BY <1>0, <1>1, <2>3, <3>1 DEF TypeOK, Apart, Ensuring, Opening
    <3>3. link' = link
      BY <3>2, LinkKept, TaskAssumption
    <3>. QED  BY <1>0, <2>1, <3>3, LinkOf DEF L!Join
  <2>4. CASE reader[r] = "status"
    <3>1. /\ instance'[on[r]] # None /\ reader[r] \in Ensuring
      BY <2>4 DEF StatusConnected, ParametersReady, RegisterAudio, Inductive, HandlesMatchControl, Ensuring
    <3>2. L!Move(on[r], LinkAt(reader[r]), "up")
      BY <1>1, <2>2, <3>1, LeavesInside
    <3>3. link' = link
      BY <2>4, <3>2 DEF LinkAt, L!Move, link
    <3>. QED  BY <1>0, <2>1, <3>3, LinkOf DEF L!Join
  <2>5. CASE reader[r] = "registerAudio"
    <3>1. /\ instance'[on[r]] # None /\ reader[r] \in Ensuring
      BY <1>0, <2>5 DEF StatusConnected, ParametersReady, RegisterAudio, Inductive, HandlesMatchControl, TypeOK, Ensuring, Opening
    <3>2. L!Move(on[r], LinkAt(reader[r]), "up")
      BY <1>1, <2>2, <3>1, LeavesInside
    <3>. QED  BY <1>0, <2>1, <2>5, <3>2, LinkOf DEF LinkAt, L!Opened
  <2>. QED  BY <1>1, <2>3, <2>4, <2>5
<1>3. CASE Goto(r, "params") /\ UNCHANGED closed /\ reader[r] # "params"
  <2>1. reader' = [reader EXCEPT ![r] = "params"] /\ "params" \notin Ensuring
    BY <1>3 DEF Goto, Ensuring, Opening
  <2>2. on' = [on EXCEPT ![r] = on[r]]
    BY <1>0, <1>1 DEF TypeOK
  <2>3. audience' = audience
    BY <1>0, <1>1, <1>3, <2>1, <2>2, ReaderUndisturbed
  <2>4. CASE reader[r] = "status"
    <3>1. /\ instance'[on[r]] # None /\ reader[r] \in Ensuring
      BY <2>4 DEF StatusConnected, ParametersReady, RegisterAudio, Inductive, HandlesMatchControl, Ensuring
    <3>2. L!Move(on[r], LinkAt(reader[r]), "up")
      BY <1>1, <2>1, <3>1, LeavesInside
    <3>3. link' = link
      BY <2>4, <3>2 DEF LinkAt, L!Move, link
    <3>. QED  BY <2>3, <3>3, LinkSame
  <2>5. CASE reader[r] = "registerAudio"
    <3>1. /\ instance'[on[r]] # None /\ reader[r] \in Ensuring
      BY <1>0, <2>5 DEF StatusConnected, ParametersReady, RegisterAudio, Inductive, HandlesMatchControl, TypeOK, Ensuring, Opening
    <3>2. L!Move(on[r], LinkAt(reader[r]), "up")
      BY <1>1, <2>1, <3>1, LeavesInside
    <3>. QED  BY <1>0, <2>3, <2>5, <3>2, LinkOf DEF LinkAt, L!Opened
  <2>. QED  BY <1>1, <1>3, <2>4, <2>5
<1>. QED  BY <1>2, <1>3 DEF StatusConnected, RegisterAudio, ParametersReady, Hold

\* A reader that gives up waiting, or has read enough, parts from the audience.
LEMMA LinkParted ==
  ASSUME Inductive, NEW r \in Reader, ParametersTimeout(r) \/ Leave(r)
  PROVE  LinkStep
<1>0. TypeOK /\ on[r] \in Session
  BY DEF Inductive, BusyTaskHasSession, ParametersTimeout, Leave
<1>1. /\ reader' = [reader EXCEPT ![r] = "idle"] /\ on' = [on EXCEPT ![r] = None]
      /\ UNCHANGED instance /\ Unhold(on[r])
      /\ reader[r] \notin Ensuring
  BY DEF ParametersTimeout, Leave, Goto, Ensuring, Opening
<1>2. \A p \in Stopper : stopper'[p] = "stopping" <=> stopper[p] = "stopping"
  BY <1>0, <1>1, UnholdKeepsStopping
<1>3. Apart(None)
  BY <1>0, <1>1, <1>2, TaskAssumption DEF TypeOK, Task, Apart, Ensuring, Opening
<1>4. link' = link
  BY <1>3, LinkKept, TaskAssumption
<1>5. CASE ParametersTimeout(r)
  <2>1. reader[r] # "reading" /\ UNCHANGED closed
    BY <1>5 DEF ParametersTimeout
  <2>. QED  BY <1>0, <1>1, <1>4, <2>1, ReaderUndisturbed, LinkSame
<1>6. CASE Leave(r)
  <2>1. closed' = [closed EXCEPT ![r] = FALSE]
    BY <1>6 DEF Leave
  <2>2. audience' = [audience EXCEPT ![on[r]] = @ \ {r}]
    BY <1>0, <1>1, <2>1, AudienceParted
  <2>. QED  BY <1>0, <1>4, <2>2, LinkOf DEF L!Part
<1>. QED  BY <1>5, <1>6

\* The lost session is closed under the readers it fed, before it is opened again.
LEMMA LinkReconnected ==
  ASSUME Inductive, Inductive', ConsumersRead, ReaderIsListed,
         NEW r \in Reader, Reconnect(r)
  PROVE  LinkStep
<1>0. TypeOK /\ on[r] \in Session
  BY DEF Inductive, BusyTaskHasSession, Reconnect
<1>1. /\ reader[r] = "reconnect" /\ reader' = [reader EXCEPT ![r] = "create"]
      /\ UNCHANGED <<on, stopper>> /\ TeardownEffect(on[r])
      /\ reader[r] \in Ensuring /\ "create" \in Ensuring
  BY DEF Reconnect, Goto, Ensuring, Opening
<1>2. \A s \in Session \ {on[r]} : instance'[s] = instance[s]
  BY <1>0, <1>1 DEF TeardownEffect, TypeOK
<1>3. L!Move(on[r], "closing", "down")
  BY <1>1, <1>2, MovesInside DEF LinkAt
<1>4. audience' = [audience EXCEPT ![on[r]] = {}]
  BY <1>0, <1>1, AudienceClosed DEF TypeOK
<1>. QED  BY <1>0, <1>3, <1>4, LinkOf DEF L!Closed

\* What the vendor does of itself is nothing to the link.
LEMMA LinkUnmoved ==
  ASSUME TypeOK, UNCHANGED <<instance, reader, stopper, on, closed>>
  PROVE  LinkStep
<1>1. Apart(None) /\ Undisturbed
  BY DEF Apart, Undisturbed
<1>. QED  BY <1>1, LinkKept, AudienceKept, LinkSame, TaskAssumption

\* A stopper that is let in has cancelled nobody's teardown.
LEMMA StopKeepsOthers ==
  ASSUME Inductive, NEW p \in Stopper, NEW s \in Session, StopBody(p, s)
  PROVE  \A q \in Stopper \ {p} : stopper'[q] = "stopping" <=> stopper[q] = "stopping"
<1>1. lingerTask[s] = None \/ stopper[lingerTask[s]] = "sleep"
  BY DEF Inductive, HandleNamesCountdown
<1>. QED  BY <1>1, TaskAssumption DEF StopBody

\* A stopper that is let in begins to close the link, or finds it down.
LEMMA LinkStopping ==
  ASSUME Inductive, Inductive', NEW p \in Stopper,
         StopGranted(p) \/ \E s \in Session : LingerFires(p, s) \/ OwnerStop(p, s)
  PROVE  LinkStep
<1>0. TypeOK /\ p \in Task /\ p \notin Reader
  BY TaskAssumption DEF Inductive, Task
<1>1. UNCHANGED <<instance, reader, closed>> /\ stopper[p] # "stopping"
  BY DEF StopGranted, LingerFires, OwnerStop
<1>2. ASSUME NEW s \in Session, StopBody(p, s), lock[s] = None \/ lock[s] = p
      PROVE  LinkStep
  <2>1. \A q \in Stopper \ {p} : stopper'[q] = "stopping" <=> stopper[q] = "stopping"
    BY <1>2, StopKeepsOthers
  <2>2. /\ stopper'[p] = (IF instance[s] = None THEN "idle" ELSE "stopping")
        /\ on' = [on EXCEPT ![p] = IF instance[s] = None THEN None ELSE s]
    BY <1>2 DEF StopBody
  <2>3. audience' = audience
    BY <1>0, <1>1, <2>2, StopperUndisturbed
  <2>4. CASE instance[s] = None
    <3>1. Apart(None)
      BY <1>0, <1>1, <2>1, <2>2, <2>4 DEF TypeOK, Apart
    <3>. QED  BY <2>3, <3>1, LinkKept, LinkSame, TaskAssumption
  <2>5. CASE instance[s] # None
    <3>1. link[s] = "up"
      BY <1>1, <1>2, <2>5, NobodyInside
    <3>2. on'[p] = s /\ stopper'[p] = "stopping"
      BY <1>0, <2>2, <2>5 DEF TypeOK
    <3>3. link'[s] = "closing"
      BY <3>2, LinkIsHoldersNext DEF LinkFact, StopperInside
    <3>4. Apart(s)
      BY <1>0, <1>1, <2>1, <2>2, <2>5 DEF TypeOK, Apart
    <3>5. L!Close(s)
      BY <2>3, <3>1, <3>3, <3>4, LinkMoved DEF L!Close, L!Move
    <3>. QED  BY <3>5, LinkOf
  <2>. QED  BY <2>4, <2>5
<1>3. ASSUME NEW x, x # "stopping", stopper' = [stopper EXCEPT ![p] = x],
             NEW y, on' = [on EXCEPT ![p] = y]
      PROVE  LinkStep
  <2>1. Apart(None)
    BY <1>0, <1>1, <1>3 DEF TypeOK, Apart
  <2>2. audience' = audience
    BY <1>0, <1>1, <1>3, StopperUndisturbed
  <2>. QED  BY <2>1, <2>2, LinkKept, LinkSame, TaskAssumption
<1>4. CASE StopGranted(p)
  <2>1. on[p] \in Session /\ StopBody(p, on[p]) /\ lock[on[p]] = p
    BY <1>4 DEF StopGranted, Inductive, BusyTaskHasSession
  <2>. QED  BY <1>2, <2>1
<1>5. ASSUME NEW s \in Session, StopCall(p, s)
      PROVE  LinkStep
  BY <1>2, <1>3, <1>5 DEF StopCall, LockFree
<1>6. ASSUME NEW s \in Session, LingerFires(p, s), ~StopCall(p, s)
      PROVE  LinkStep
  <2>1. stopper' = [stopper EXCEPT ![p] = "idle"] /\ on' = [on EXCEPT ![p] = on[p]]
    BY <1>0, <1>6 DEF LingerFires, TypeOK
  <2>. QED  BY <1>3, <2>1
<1>. QED  BY <1>4, <1>5, <1>6 DEF OwnerStop

\* The teardown has come to its end.
LEMMA LinkStopped ==
  ASSUME Inductive, Inductive', ConsumersRead, ReaderIsListed,
         NEW p \in Stopper, Stopped(p)
  PROVE  LinkStep
<1>0. TypeOK /\ on[p] \in Session /\ p \in Task /\ p \notin Reader
  BY TaskAssumption DEF Inductive, BusyTaskHasSession, Stopped, Task
<1>1. /\ stopper[p] = "stopping" /\ stopper' = [stopper EXCEPT ![p] = "idle"]
      /\ on' = [on EXCEPT ![p] = None] /\ UNCHANGED reader /\ TeardownEffect(on[p])
  BY DEF Stopped
<1>2. /\ \A s \in Session \ {on[p]} : instance'[s] = instance[s]
      /\ instance'[on[p]] = None
  BY <1>0, <1>1 DEF TeardownEffect, TypeOK
<1>3. link[on[p]] = "closing" /\ lock[on[p]] = p
  BY <1>0, <1>1, LinkIsHolders DEF LinkFact, StopperInside, Inductive, HolderIsInside
<1>4. \A r \in Reader : on'[r] = on[r]
  BY <1>0, <1>1 DEF TypeOK, Task
<1>5. link'[on[p]] = "down"
  <2>1. \A r \in Reader : ~(on'[r] = on[p] /\ reader'[r] \in Ensuring)
    BY <1>0, <1>1, <1>3, <1>4 DEF Inductive, HolderIsInside
  <2>2. \A q \in Stopper : ~(on'[q] = on[p] /\ stopper'[q] = "stopping")
    BY <1>0, <1>1, <1>3, TaskAssumption DEF Inductive, HolderIsInside, TypeOK, Task
  <2>. QED  BY <1>0, <1>2, <2>1, <2>2, LinkIsHoldersNext DEF LinkFact, ReaderInside, StopperInside
<1>6. Apart(on[p])
  BY <1>0, <1>1, <1>2, <1>4 DEF TypeOK, Task, Apart
<1>7. audience' = [audience EXCEPT ![on[p]] = {}]
  BY <1>0, <1>1, <1>4, AudienceClosed
<1>8. L!Closed(on[p])
  BY <1>0, <1>3, <1>5, <1>6, <1>7, LinkMoved DEF L!Closed, L!Move
<1>. QED  BY <1>0, <1>8, LinkOf

LEMMA LinkStepOfNext ==
  ASSUME Inductive, Inductive', ConsumersRead, ReaderIsListed, [Next]_vars
  PROVE  LinkStep
<1>1. ASSUME NEW r \in Reader, \E s \in Session : Request(r, s)
      PROVE  LinkStep
  BY <1>1, LinkEntered
<1>2. ASSUME NEW r \in Reader, Proceed(r) \/ Leave(r)
      PROVE  LinkStep
  BY <1>2, LinkEntered, LinkOpening, LinkRaised, LinkHeld, LinkParted, LinkReconnected DEF Proceed
<1>3. ASSUME NEW p \in Stopper, Finish(p) \/ \E s \in Session : OwnerStop(p, s)
      PROVE  LinkStep
  BY <1>3, LinkStopping, LinkStopped DEF Finish
<1>4. ASSUME NEW i \in Instance, NEW hasSets \in BOOLEAN,
             OnVideo(i, hasSets) \/ UnknownEnds(i)
      PROVE  LinkStep
  BY <1>4, LinkUnmoved DEF Inductive, OnVideo, UnknownEnds, sessionVars
<1>5. ASSUME UNCHANGED vars
      PROVE  LinkStep
  BY <1>5, LinkUnmoved DEF Inductive, vars
<1>6. ASSUME Run
      PROVE  LinkStep
  BY <1>2, <1>3, <1>4, <1>6 DEF Run
<1>. QED  BY <1>1, <1>3, <1>5, <1>6 DEF Next

LEMMA LinkInitOfInit == Init => L!LinkInit
<1>. SUFFICES ASSUME Init
              PROVE  L!LinkInit
  OBVIOUS
<1>1. /\ \A r \in Reader : reader[r] = "idle"
      /\ \A p \in Stopper : stopper[p] = "idle"
      /\ \A s \in Session : instance[s] = None
  BY DEF Init
<1>2. \A s \in Session : link[s] = "down"
  BY <1>1 DEF link, ReaderAt, Opening
<1>3. \A s \in Session : audience[s] = {}
  BY <1>1 DEF audience
<1>. QED  BY <1>2, <1>3 DEF link, audience, L!LinkInit

\* The session with its lock, its countdown and the vendor's calls implements the
\* shared link: it is opened and closed as a whole, and its audience loses the
\* picture only in the step in which the link has gone down.
THEOREM SessionImplementsLink == Spec => ImplementsSharedLink
<1>1. Init => ConsumersRead
  BY DEF Init, ConsumersRead
<1>2. Spec => []ConsumersRead
  BY <1>1, ConsumersReadStep, InductiveHolds, PTL DEF Spec
<1>3. LinkStep => [L!LinkNext]_(L!linkVars)
  BY DEF LinkStep
<1>. QED  BY <1>2, <1>3, LinkInitOfInit, LinkStepOfNext, InductiveHolds, ListedOrTold, PTL
          DEF Spec, ImplementsSharedLink, L!LinkSpec

--------------------------------------------------------------------------------
(* The session manager *)

Settings == [default : Quality, override : Quality \cup {None}]

ManagerType ==
  /\ table \in Session \cup {None}
  /\ built \in [Session -> Settings \cup {None}]
  /\ default \in Quality
  /\ override \in Quality \cup {None}
  /\ official \in BOOLEAN
  /\ pruned \in BOOLEAN

ManagerInductive == ManagerType /\ TableFollowsSettings

\* A write of the camera's settings empties its entry, and an entry is filled only
\* from the settings of that moment.
LEMMA ManagerStep == ManagerInductive /\ [ManagerNext]_allVars => ManagerInductive'
<1>. SUFFICES ASSUME ManagerInductive, [ManagerNext]_allVars
              PROVE  ManagerInductive'
  OBVIOUS
<1>. USE DEF ManagerInductive, ManagerType, TableFollowsSettings
<1>1. ASSUME NEW s \in Session, SessionFor(s)
      PROVE  ManagerInductive'
  <2>1. CASE table = None
    <3>1. /\ table' = s /\ official /\ built' = [built EXCEPT ![s] = Stored]
          /\ pruned' = FALSE
          /\ UNCHANGED <<default, override, official>>
      BY <1>1, <2>1 DEF SessionFor
    <3>2. Stored \in Settings /\ Stored.override = override
      BY DEF Stored, Settings
    <3>. QED  BY <3>1, <3>2
  <2>2. CASE table # None
    BY <1>1, <2>2 DEF SessionFor
  <2>. QED  BY <2>1, <2>2
<1>2. ASSUME NEW p \in Stopper, NEW value \in Quality \cup {None}, NEW isOfficial \in BOOLEAN,
             SetCameraSettings(p, value, isOfficial)
      PROVE  ManagerInductive'
  BY <1>2 DEF SetCameraSettings, StopOne
<1>3. ASSUME NEW value \in Quality, SetDefaults(value)
      PROVE  ManagerInductive'
  BY <1>3 DEF SetDefaults
<1>4. ASSUME NEW p \in Stopper, Drop(p)
      PROVE  ManagerInductive'
  BY <1>4 DEF Drop, StopOne
<1>5. ASSUME NEW isOfficial \in BOOLEAN, Prune(isOfficial)
      PROVE  ManagerInductive'
  BY <1>5 DEF Prune
<1>6. CASE UNCHANGED managerVars
  BY <1>6 DEF managerVars
<1>. QED  BY <1>1, <1>2, <1>3, <1>4, <1>5, <1>6 DEF ManagerNext, Ask, Peek, allVars

\* To its sessions the manager is a caller that asks, and that stops them at will.
LEMMA ManagerStepIsStep ==
  ASSUME OwnerMayStop, ManagerInductive, [ManagerNext]_allVars
  PROVE  [Next]_vars
<1>. USE DEF Next
<1>1. ASSUME NEW p \in Stopper, StopOne(p)
      PROVE  [Next]_vars
  BY <1>1 DEF StopOne, ManagerInductive, ManagerType
<1>2. CASE \E r \in Reader, s \in Session : Ask(r, s)
  BY <1>2 DEF Ask
<1>3. CASE \/ \E s \in Session : Peek(s)
           \/ \E value \in Quality : SetDefaults(value)
           \/ \E isOfficial \in BOOLEAN : Prune(isOfficial)
           \/ UNCHANGED allVars
  BY <1>3 DEF Peek, SetDefaults, Prune, allVars, vars
<1>4. CASE \/ \E p \in Stopper, value \in Quality \cup {None}, isOfficial \in BOOLEAN :
                SetCameraSettings(p, value, isOfficial)
           \/ \E p \in Stopper : Drop(p)
  BY <1>1, <1>4 DEF SetCameraSettings, Drop
<1>5. CASE Run
  BY <1>5
<1>. QED  BY <1>2, <1>3, <1>4, <1>5 DEF ManagerNext

LEMMA ManagerHolds == ManagerSpec => []ManagerInductive
<1>1. ManagerInit => ManagerInductive
  BY DEF ManagerInit, Init, ManagerInductive, ManagerType, TableFollowsSettings
<1>. QED  BY <1>1, ManagerStep, PTL DEF ManagerSpec

\* The session in the table is on the official path and was built from the override
\* that holds now, whatever the handlers, the readers and the drops between them do,
\* unless a refresh pruned the override since the session was built.
THEOREM TableAlwaysFollows == ManagerSpec => []TableFollowsSettings
BY ManagerHolds, PTL DEF ManagerInductive

\* Under the manager a camera's sessions behave as they do under an owner that may
\* stop them at any moment, so everything proved of them holds of the bridge's.
THEOREM ManagerRunsSessions ==
  ASSUME OwnerMayStop
  PROVE  ManagerSpec => Spec
<1>1. ManagerInit => Init
  BY DEF ManagerInit
<1>2. ManagerInductive /\ [ManagerNext]_allVars => [Next]_vars
  BY ManagerStepIsStep
<1>. QED  BY <1>1, <1>2, ManagerHolds, PTL DEF ManagerSpec, Spec

\* A write of the settings, a camera that is gone and an unlink drop sessions whose
\* readers still hold them: they lose no vendor instance either.
THEOREM ManagerLosesNothing ==
  ASSUME OwnerMayStop
  PROVE  ManagerSpec => LostOnlyByRaising
BY ManagerRunsSessions, NothingElseLoses, PTL
================================================================================
