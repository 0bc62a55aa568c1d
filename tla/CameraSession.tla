----------------------------- MODULE CameraSession -----------------------------
(***************************************************************************)
(* The lifetime of bridge/streaming.py's CameraSession: one peer-to-peer   *)
(* session per camera, shared by every reader, opened by the first one in  *)
(* and closed twenty seconds after the last one left.                      *)
(*                                                                         *)
(* The bridge is one asyncio loop, so a step here is what the loop runs    *)
(* between two awaits: a task's control state names the await it is        *)
(* suspended at, and everything up to the next await is one action.  An    *)
(* uncontended `async with self._lock` does not suspend and is therefore   *)
(* part of the action that reaches it; a contended one queues, first in    *)
(* first out, and the lock is handed straight to the oldest waiter.        *)
(*                                                                         *)
(* Session is a set because a camera may have several session objects over *)
(* its life (SessionManager drops one and builds another).  A vendor       *)
(* instance is free (never created, or stopped), open, or in an unknown    *)
(* state because its stop raised.                                          *)
(***************************************************************************)
EXTENDS Naturals, Sequences, FiniteSets

CONSTANTS
  Reader,        \* requests that subscribe: one _stream handler each
  Stopper,       \* tasks that run async_stop: countdowns, and callers of it
  Session,       \* CameraSession objects
  Instance,      \* vendor camera instances that may exist at once
  None,
  Faults,        \* the vendor calls that may raise
  OwnerMayStop   \* whether the owner calls async_stop besides the countdown

Calls == {"create", "start", "status", "register", "stop"}

ASSUME TaskAssumption ==
  /\ IsFiniteSet(Reader)
  /\ Reader \cap Stopper = {}
  /\ None \notin Reader \cup Stopper \cup Session \cup Instance
ASSUME FaultAssumption == Faults \subseteq Calls /\ OwnerMayStop \in BOOLEAN

VARIABLES
  lock,           \* who holds _lock, or was handed it and has not run yet
  waiters,        \* tasks queued for _lock, oldest first
  instance,       \* _instance
  users,          \* _users
  lingerTask,     \* _linger_task
  parameterSets,  \* whether _parameter_sets.units is non-empty
  codec,          \* whether _codec has been detected
  consumers,      \* _consumers, each named by the reader it serves
  reader,         \* where each reader is suspended
  stopper,        \* where each stopper is suspended
  on,             \* the session a task works on
  opening,        \* the local `instance` of _async_ensure_started
  ready,          \* whether the event a waiting reader holds has been set
  closed,         \* Consumer.closed of the consumer a reader was given
  native,         \* the state of each vendor instance
  feeds           \* the session whose callbacks a vendor instance calls

sessionVars == <<instance, users, lingerTask, parameterSets, codec, consumers>>
nativeVars == <<native, feeds>>
vars == <<lock, waiters, instance, users, lingerTask, parameterSets, codec,
          consumers, reader, stopper, on, opening, ready, closed, native,
          feeds>>

Task == Reader \cup Stopper

\* Where a reader can hold the lock: the body of _async_ensure_started.
Opening == {"create", "start", "poll", "abort", "registerVideo",
            "registerAudio"}
Ensuring == {"status", "reconnect"} \cup Opening
\* Where a reader is inside _hold.
Holding == {"params", "reading"}
ReaderState == {"idle", "prepare", "lock"} \cup Ensuring \cup Holding
StopperState == {"idle", "sleep", "lock", "stopping"}

Init ==
  /\ lock = [s \in Session |-> None]
  /\ waiters = [s \in Session |-> <<>>]
  /\ instance = [s \in Session |-> None]
  /\ users = [s \in Session |-> 0]
  /\ lingerTask = [s \in Session |-> None]
  /\ parameterSets = [s \in Session |-> FALSE]
  /\ codec = [s \in Session |-> FALSE]
  /\ consumers = [s \in Session |-> {}]
  /\ reader = [r \in Reader |-> "idle"]
  /\ stopper = [p \in Stopper |-> "idle"]
  /\ on = [t \in Task |-> None]
  /\ opening = [r \in Reader |-> None]
  /\ ready = [r \in Reader |-> FALSE]
  /\ closed = [r \in Reader |-> FALSE]
  /\ native = [i \in Instance |-> "free"]
  /\ feeds = [i \in Instance |-> None]
--------------------------------------------------------------------------------
(* The lock *)

LockFree(s) == lock[s] = None /\ waiters[s] = <<>>

Take(t, s) ==
  /\ lock' = [lock EXCEPT ![s] = t]
  /\ UNCHANGED waiters

Queue(t, s) ==
  /\ waiters' = [waiters EXCEPT ![s] = Append(@, t)]
  /\ UNCHANGED lock

\* Mutations: what Release and the definitions below would be with a plausible
\* slip in the code; each is named after the definition it stands in for.
ReleaseForgetsWaiters(s) == lock' = [lock EXCEPT ![s] = None] /\ UNCHANGED waiters

\* Leaving `async with self._lock` hands the lock to the oldest waiter.
Release(s) ==
  IF waiters[s] = <<>>
  THEN lock' = [lock EXCEPT ![s] = None] /\ UNCHANGED waiters
  ELSE /\ lock' = [lock EXCEPT ![s] = Head(waiters[s])]
       /\ waiters' = [waiters EXCEPT ![s] = Tail(@)]
--------------------------------------------------------------------------------
(* Pieces of a step *)

Goto(r, state) == reader' = [reader EXCEPT ![r] = state]

\* `if self._linger_task is not None: cancel; = None`.  A cancelled countdown
\* returns at its sleep; HandleNamesCountdown is why nothing else is cancelled.
CancelLinger(s) ==
  /\ lingerTask' = [lingerTask EXCEPT ![s] = None]
  /\ stopper' = [p \in Stopper |-> IF p = lingerTask[s] THEN "idle"
                                   ELSE stopper[p]]

\* The vendor's stop returned, or raised and left the instance unknown.
StopReturns(i) ==
  \/ /\ native' = [native EXCEPT ![i] = "free"]
     /\ feeds' = [feeds EXCEPT ![i] = None]
  \/ /\ "stop" \in Faults
     /\ native' = [native EXCEPT ![i] = "unknown"]
     /\ UNCHANGED feeds

TeardownLeavesConsumers(s) ==
  /\ instance' = [instance EXCEPT ![s] = None]
  /\ codec' = [codec EXCEPT ![s] = FALSE]
  /\ parameterSets' = [parameterSets EXCEPT ![s] = FALSE]
  /\ ready' = [r \in Reader |-> ready[r] \/ (on[r] = s /\ reader[r] = "params")]
  /\ consumers' = [consumers EXCEPT ![s] = {}]
  /\ UNCHANGED closed

\* What _teardown does once the stop came back, whether or not it raised: the
\* waiters' event is set and replaced, every consumer is closed and forgotten.
TeardownEffect(s) ==
  /\ instance' = [instance EXCEPT ![s] = None]
  /\ codec' = [codec EXCEPT ![s] = FALSE]
  /\ parameterSets' = [parameterSets EXCEPT ![s] = FALSE]
  /\ ready' = [r \in Reader |-> ready[r] \/ (on[r] = s /\ reader[r] = "params")]
  /\ closed' = [r \in Reader |-> closed[r] \/ r \in consumers[s]]
  /\ consumers' = [consumers EXCEPT ![s] = {}]

\* subscribe() registers a consumer and hands it out.
Join(r, s) ==
  /\ consumers' = [consumers EXCEPT ![s] = @ \cup {r}]
  /\ closed' = [closed EXCEPT ![r] = FALSE]
  /\ ready' = [ready EXCEPT ![r] = FALSE]
  /\ Goto(r, "reading")

\* _hold after _async_ensure_started returned, then subscribe() up to its wait
\* for the parameter sets: no await separates any of it.
Hold(r, s) ==
  /\ users' = [users EXCEPT ![s] = @ + 1]
  /\ IF parameterSets[s]
     THEN Join(r, s)
     ELSE Goto(r, "params") /\ UNCHANGED <<consumers, closed, ready>>

\* The last user is looked for before it is taken off the count.
UnholdChecksFirst(s) ==
  /\ users' = [users EXCEPT ![s] = @ - 1]
  /\ IF users[s] = 0
     THEN \E p \in Stopper :
            /\ stopper[p] = "idle"
            /\ lingerTask' = [lingerTask EXCEPT ![s] = p]
            /\ stopper' = [stopper EXCEPT ![p] = "sleep"]
     ELSE UNCHANGED <<lingerTask, stopper>>

\* The countdown in the handle is overwritten, not cancelled.
UnholdOverwrites(s) ==
  /\ users' = [users EXCEPT ![s] = @ - 1]
  /\ IF users[s] = 1
     THEN \E p \in Stopper :
            /\ stopper[p] = "idle"
            /\ lingerTask' = [lingerTask EXCEPT ![s] = p]
            /\ stopper' = [stopper EXCEPT ![p] = "sleep"]
     ELSE UNCHANGED <<lingerTask, stopper>>

\* The finally of _hold.  The last user out replaces the countdown.
Unhold(s) ==
  /\ users' = [users EXCEPT ![s] = @ - 1]
  /\ IF users[s] = 1
     THEN \E p \in Stopper :
            /\ stopper[p] = "idle"
            /\ lingerTask' = [lingerTask EXCEPT ![s] = p]
            /\ stopper' = [q \in Stopper |->
                 IF q = p THEN "sleep"
                 ELSE IF q = lingerTask[s] THEN "idle" ELSE stopper[q]]
     ELSE UNCHANGED <<lingerTask, stopper>>
--------------------------------------------------------------------------------
(* Readers: _async_ensure_started *)

\* A request resolved its session and is preparing its response.
Request(r, s) ==
  /\ reader[r] = "idle"
  /\ on' = [on EXCEPT ![r] = s]
  /\ Goto(r, "prepare")
  /\ UNCHANGED <<lock, waiters, sessionVars, stopper, opening, ready, closed,
                 nativeVars>>

\* The critical section up to its first await.
EnterEnsure(r, s) ==
  /\ CancelLinger(s)
  /\ Goto(r, IF instance[s] = None THEN "create" ELSE "status")
  /\ UNCHANGED <<instance, users, parameterSets, codec, consumers, on, opening,
                 ready, closed, nativeVars>>

Subscribe(r) ==
  /\ reader[r] = "prepare"
  /\ \/ LockFree(on[r]) /\ Take(r, on[r]) /\ EnterEnsure(r, on[r])
     \/ /\ ~LockFree(on[r])
        /\ Queue(r, on[r])
        /\ Goto(r, "lock")
        /\ UNCHANGED <<sessionVars, stopper, on, opening, ready, closed,
                       nativeVars>>

Granted(r) ==
  /\ reader[r] = "lock"
  /\ lock[on[r]] = r
  /\ EnterEnsure(r, on[r])
  /\ UNCHANGED <<lock, waiters>>

\* The link is up: the running session is reused.
StatusConnected(r) ==
  /\ reader[r] = "status"
  /\ Release(on[r])
  /\ Hold(r, on[r])
  /\ UNCHANGED <<instance, lingerTask, parameterSets, codec, stopper, on,
                 opening, nativeVars>>

StatusLostReopens(r) ==
  /\ reader[r] = "status"
  /\ Goto(r, "create")
  /\ UNCHANGED <<lock, waiters, sessionVars, stopper, on, opening, ready,
                 closed, nativeVars>>

\* The link is down, or its status could not be read: _teardown, then reopen.
StatusLost(r) ==
  /\ reader[r] = "status"
  /\ Goto(r, "reconnect")
  /\ UNCHANGED <<lock, waiters, sessionVars, stopper, on, opening, ready,
                 closed, nativeVars>>

Reconnect(r) ==
  /\ reader[r] = "reconnect"
  /\ StopReturns(instance[on[r]])
  /\ TeardownEffect(on[r])
  /\ Goto(r, "create")
  /\ UNCHANGED <<lock, waiters, users, lingerTask, stopper, on, opening>>

Created(r) ==
  /\ reader[r] = "create"
  /\ \E i \in Instance :
       /\ native[i] = "free"
       /\ native' = [native EXCEPT ![i] = "open"]
       /\ opening' = [opening EXCEPT ![r] = i]
  /\ Goto(r, "start")
  /\ UNCHANGED <<lock, waiters, sessionVars, stopper, on, ready, closed, feeds>>

\* start_async returned; the poll of get_status_async begins.
Started(r) ==
  /\ reader[r] = "start"
  /\ Goto(r, "poll")
  /\ UNCHANGED <<lock, waiters, sessionVars, stopper, on, opening, ready,
                 closed, nativeVars>>

PollConnected(r) ==
  /\ reader[r] = "poll"
  /\ Goto(r, "registerVideo")
  /\ UNCHANGED <<lock, waiters, sessionVars, stopper, on, opening, ready,
                 closed, nativeVars>>

PollTimeout(r) ==
  /\ reader[r] = "poll"
  /\ Goto(r, "abort")
  /\ UNCHANGED <<lock, waiters, sessionVars, stopper, on, opening, ready,
                 closed, nativeVars>>

\* The failed request is taken off the count it was never put on.
RaiseDecrements(r) ==
  /\ Release(on[r])
  /\ Goto(r, "idle")
  /\ opening' = [opening EXCEPT ![r] = None]
  /\ on' = [on EXCEPT ![r] = None]
  /\ users' = [users EXCEPT ![on[r]] = @ - 1]
  /\ UNCHANGED <<instance, lingerTask, parameterSets, codec, consumers, stopper,
                 ready, closed>>

\* An exception leaves the critical section and the request.
Raise(r) ==
  /\ Release(on[r])
  /\ Goto(r, "idle")
  /\ opening' = [opening EXCEPT ![r] = None]
  /\ on' = [on EXCEPT ![r] = None]
  /\ UNCHANGED <<sessionVars, stopper, ready, closed>>

AbortKeepsInstance(r) ==
  /\ reader[r] = "abort"
  /\ Raise(r)
  /\ UNCHANGED nativeVars

\* The instance that did not connect is stopped, then StreamError.
Abort(r) ==
  /\ reader[r] = "abort"
  /\ StopReturns(opening[r])
  /\ Raise(r)

\* Each call that opens a session may raise; none of them is caught.
CallRaises(r) ==
  /\ \/ reader[r] = "create" /\ "create" \in Faults
     \/ reader[r] = "start" /\ "start" \in Faults
     \/ reader[r] = "poll" /\ "status" \in Faults
     \/ reader[r] \in {"registerVideo", "registerAudio"} /\ "register" \in Faults
  /\ Raise(r)
  /\ UNCHANGED nativeVars

\* From here the vendor calls _on_video.
RegisterVideo(r) ==
  /\ reader[r] = "registerVideo"
  /\ feeds' = [feeds EXCEPT ![opening[r]] = on[r]]
  /\ Goto(r, "registerAudio")
  /\ UNCHANGED <<lock, waiters, sessionVars, stopper, on, opening, ready,
                 closed, native>>

\* With audio off there is no second await: the same step taken at once.
RegisterAudio(r) ==
  /\ reader[r] = "registerAudio"
  /\ instance' = [instance EXCEPT ![on[r]] = opening[r]]
  /\ opening' = [opening EXCEPT ![r] = None]
  /\ Release(on[r])
  /\ Hold(r, on[r])
  /\ UNCHANGED <<lingerTask, parameterSets, codec, stopper, on, nativeVars>>
--------------------------------------------------------------------------------
(* Readers: subscribe *)

ParametersReady(r) ==
  /\ reader[r] = "params"
  /\ ready[r]
  /\ Join(r, on[r])
  /\ UNCHANGED <<lock, waiters, instance, users, lingerTask, parameterSets,
                 codec, stopper, on, opening, nativeVars>>

ParametersNeverTimeOut(r) == FALSE

\* CameraOffError; wait_for may time out on an event that was just set.
ParametersTimeout(r) ==
  /\ reader[r] = "params"
  /\ Unhold(on[r])
  /\ Goto(r, "idle")
  /\ ready' = [ready EXCEPT ![r] = FALSE]
  /\ on' = [on EXCEPT ![r] = None]
  /\ UNCHANGED <<lock, waiters, instance, parameterSets, codec, consumers,
                 opening, closed, nativeVars>>

\* _pump returned: the consumer was closed, or the client went away.
Leave(r) ==
  /\ reader[r] = "reading"
  /\ consumers' = [consumers EXCEPT ![on[r]] = @ \ {r}]
  /\ Unhold(on[r])
  /\ Goto(r, "idle")
  /\ closed' = [closed EXCEPT ![r] = FALSE]
  /\ on' = [on EXCEPT ![r] = None]
  /\ UNCHANGED <<lock, waiters, instance, parameterSets, codec, opening, ready,
                 nativeVars>>

\* _on_video: a payload the codec is detected from, which may carry the
\* parameter sets.  An instance whose stop raised may go on calling.
OnVideo(i, hasSets) ==
  /\ native[i] # "free"
  /\ feeds[i] # None
  /\ codec' = [codec EXCEPT ![feeds[i]] = TRUE]
  /\ parameterSets' = [parameterSets EXCEPT ![feeds[i]] = @ \/ hasSets]
  /\ ready' = [r \in Reader |->
       ready[r] \/ (hasSets /\ on[r] = feeds[i] /\ reader[r] = "params")]
  /\ UNCHANGED <<lock, waiters, instance, users, lingerTask, consumers, reader,
                 stopper, on, opening, closed, nativeVars>>
\* An instance whose stop raised may still end by itself.
UnknownEnds(i) ==
  /\ native[i] = "unknown"
  /\ native' = [native EXCEPT ![i] = "free"]
  /\ feeds' = [feeds EXCEPT ![i] = None]
  /\ UNCHANGED <<lock, waiters, sessionVars, reader, stopper, on, opening, ready,
                 closed>>
--------------------------------------------------------------------------------
(* Stoppers *)

\* async_stop past its lock: nothing running means nothing to wait for.
StopBody(p, s) ==
  /\ lingerTask' = [lingerTask EXCEPT ![s] = None]
  /\ stopper' = [q \in Stopper |->
       IF q = p THEN IF instance[s] = None THEN "idle" ELSE "stopping"
       ELSE IF q = lingerTask[s] THEN "idle" ELSE stopper[q]]
  /\ on' = [on EXCEPT ![p] = IF instance[s] = None THEN None ELSE s]

\* The countdown keeps its own handle while it waits for the lock.
StopCallKeepsHandle(p, s) ==
  \/ /\ LockFree(s)
     /\ StopBody(p, s)
     /\ IF instance[s] = None THEN UNCHANGED <<lock, waiters>> ELSE Take(p, s)
  \/ /\ ~LockFree(s)
     /\ Queue(p, s)
     /\ stopper' = [stopper EXCEPT ![p] = "lock"]
     /\ on' = [on EXCEPT ![p] = s]
     /\ UNCHANGED lingerTask

StopCall(p, s) ==
  \/ /\ LockFree(s)
     /\ StopBody(p, s)
     /\ IF instance[s] = None THEN UNCHANGED <<lock, waiters>> ELSE Take(p, s)
  \/ /\ ~LockFree(s)
     /\ Queue(p, s)
     /\ stopper' = [stopper EXCEPT ![p] = "lock"]
     /\ lingerTask' = [lingerTask EXCEPT ![s] = IF @ = p THEN None ELSE @]
     /\ on' = [on EXCEPT ![p] = s]

\* The check of the last user the wrong way round.
LingerFiresInverted(p, s) ==
  /\ lingerTask[s] = p
  /\ stopper[p] = "sleep"
  /\ \/ users[s] # 0 /\ StopCall(p, s)
     \/ /\ users[s] = 0
        /\ lingerTask' = [lingerTask EXCEPT ![s] = None]
        /\ stopper' = [stopper EXCEPT ![p] = "idle"]
        /\ UNCHANGED <<lock, waiters, on>>
  /\ UNCHANGED <<instance, users, parameterSets, codec, consumers, reader,
                 opening, ready, closed, nativeVars>>

\* The countdown ran out: it drops its own handle, then stops the session if
\* nobody uses it at this moment.
LingerFires(p, s) ==
  /\ lingerTask[s] = p
  /\ stopper[p] = "sleep"
  /\ \/ users[s] = 0 /\ StopCall(p, s)
     \/ /\ users[s] # 0
        /\ lingerTask' = [lingerTask EXCEPT ![s] = None]
        /\ stopper' = [stopper EXCEPT ![p] = "idle"]
        /\ UNCHANGED <<lock, waiters, on>>
  /\ UNCHANGED <<instance, users, parameterSets, codec, consumers, reader,
                 opening, ready, closed, nativeVars>>

OwnerStop(p, s) ==
  /\ stopper[p] = "idle"
  /\ StopCall(p, s)
  /\ UNCHANGED <<instance, users, parameterSets, codec, consumers, reader,
                 opening, ready, closed, nativeVars>>

StopGranted(p) ==
  /\ stopper[p] = "lock"
  /\ lock[on[p]] = p
  /\ StopBody(p, on[p])
  /\ IF instance[on[p]] = None THEN Release(on[p]) ELSE UNCHANGED <<lock, waiters>>
  /\ UNCHANGED <<instance, users, parameterSets, codec, consumers, reader,
                 opening, ready, closed, nativeVars>>

Stopped(p) ==
  /\ stopper[p] = "stopping"
  /\ StopReturns(instance[on[p]])
  /\ TeardownEffect(on[p])
  /\ Release(on[p])
  /\ stopper' = [stopper EXCEPT ![p] = "idle"]
  /\ on' = [on EXCEPT ![p] = None]
  /\ UNCHANGED <<users, lingerTask, reader, opening>>
--------------------------------------------------------------------------------
\* What a reader does of itself once it has asked.
Proceed(r) ==
  \/ Subscribe(r) \/ Granted(r) \/ StatusConnected(r) \/ StatusLost(r)
  \/ Reconnect(r) \/ Created(r) \/ Started(r) \/ PollConnected(r)
  \/ PollTimeout(r) \/ Abort(r) \/ CallRaises(r) \/ RegisterVideo(r)
  \/ RegisterAudio(r) \/ ParametersReady(r) \/ ParametersTimeout(r)

\* What a stopper does of itself.
Finish(p) ==
  \/ \E s \in Session : LingerFires(p, s)
  \/ StopGranted(p)
  \/ Stopped(p)

\* The steps a session takes whoever chooses it: SessionManager reuses them.
Run ==
  \/ \E r \in Reader : Proceed(r) \/ Leave(r)
  \/ \E p \in Stopper : Finish(p)
  \/ \E i \in Instance, hasSets \in BOOLEAN : OnVideo(i, hasSets)
  \/ \E i \in Instance : UnknownEnds(i)

Next ==
  \/ Run
  \/ \E r \in Reader, s \in Session : Request(r, s)
  \/ OwnerMayStop /\ \E p \in Stopper, s \in Session : OwnerStop(p, s)

\* The loop runs every task that is ready, a closed consumer ends its reader's
\* pump, and every vendor call returns.  Nothing makes a client ask or leave,
\* a camera send, or the owner stop a session.
Fairness ==
  /\ \A r \in Reader : WF_vars(Proceed(r)) /\ WF_vars(closed[r] /\ Leave(r))
  /\ \A p \in Stopper : WF_vars(Finish(p))

Spec == Init /\ [][Next]_vars
FairSpec == Spec /\ Fairness
--------------------------------------------------------------------------------
(* Properties *)

\* The value of every variable stays in its set.
TypeOK ==
  /\ lock \in [Session -> Task \cup {None}]
  /\ waiters \in [Session -> Seq(Task)]
  /\ instance \in [Session -> Instance \cup {None}]
  /\ users \in [Session -> Nat]
  /\ lingerTask \in [Session -> Stopper \cup {None}]
  /\ parameterSets \in [Session -> BOOLEAN]
  /\ codec \in [Session -> BOOLEAN]
  /\ consumers \in [Session -> SUBSET Reader]
  /\ reader \in [Reader -> ReaderState]
  /\ stopper \in [Stopper -> StopperState]
  /\ on \in [Task -> Session \cup {None}]
  /\ opening \in [Reader -> Instance \cup {None}]
  /\ ready \in [Reader -> BOOLEAN]
  /\ closed \in [Reader -> BOOLEAN]
  /\ native \in [Instance -> {"free", "open", "unknown"}]
  /\ feeds \in [Instance -> Session \cup {None}]

\* Somebody can still stop the instance: it is the _instance of a session or a
\* reader is opening it.
Referenced(i) ==
  \/ \E s \in Session : instance[s] = i
  \/ \E r \in Reader : opening[r] = i

\* The reader is between the creation of its instance and handing it over: the
\* four calls that nothing catches.
Unguarded(r) == reader[r] \in {"start", "poll", "registerVideo", "registerAudio"}

\* An instance is referenced from the step it is created in, and while it is open
\* its last reference goes only with the request that was opening it, at one of the
\* calls _async_ensure_started does not guard (streaming.py:218-249).  Reconnects,
\* timeouts, stops, drops and countdowns, with calls that raise, never lose one.
LostOnlyByRaising ==
  [][\A i \in Instance :
       native'[i] = "open" /\ (native[i] = "open" => Referenced(i)) =>
         \/ Referenced(i)'
         \/ \E r \in Reader : opening[r] = i /\ Unguarded(r) /\ reader'[r] = "idle"]_vars

\* No vendor instance outlives the last reference to it.  The module's docstring
\* promises it: "Sessions ... stop after the last one leaves, so an idle camera
\* costs neither bandwidth nor a held-open connection".
NoLostInstance == \A i \in Instance : native[i] = "open" => Referenced(i)

\* No two sessions share a vendor instance, and none is opened while its
\* session still has one: _teardown and RegisterAudio never overwrite a handle.
InstanceHasOneOwner ==
  /\ \A s1, s2 \in Session :
       instance[s1] # None /\ instance[s1] = instance[s2] => s1 = s2
  /\ \A r \in Reader : opening[r] # None => instance[on[r]] = None

\* The running session nobody uses always has somebody who will end it: a
\* countdown, or a task that holds the lock and decides its fate.  This is what
\* the last-user check, the cancels and the dropped handle are arranged for.
IdleSessionIsWatched ==
  \A s \in Session : instance[s] # None /\ users[s] = 0 =>
    lingerTask[s] # None \/ lock[s] # None

\* _linger_task names a countdown and nothing else, in particular never a
\* teardown in progress, so cancelling it is always safe.
HandleNamesCountdown ==
  \A s \in Session : lingerTask[s] # None => stopper[lingerTask[s]] = "sleep"

\* A countdown nobody holds a handle to cannot exist: it could not be
\* cancelled by the reader that comes back.
NoStrayCountdown ==
  \A p \in Stopper : stopper[p] = "sleep" => \E s \in Session : lingerTask[s] = p

\* Frames reach the reader: it waits on its queue, the fan-out knows the queue,
\* and an instance is there to fill it.
Fed(r) == reader[r] = "reading" /\ r \in consumers[on[r]] /\ instance[on[r]] # None

\* A reader that is given a consumer is fed from that step on, and goes on being
\* fed until it leaves or is told that the session ended: no reconnect, stop or
\* departure of another forgets it.  The one reader the code gives a consumer that
\* nothing feeds is the one a teardown woke from its wait for the parameter sets
\* (streaming.py:307, CodecKnownAtHandout); it is exempt until somebody reopens
\* the session.
FedUntilTold ==
  [][\A r \in Reader :
       /\ Fed(r) => \/ Fed(r)'
                    \/ reader'[r] = "idle"
                    \/ reader'[r] = "reading" /\ closed'[r]
       /\ reader[r] # "reading" /\ reader'[r] = "reading" =>
            \/ Fed(r)'
            \/ reader[r] = "params" /\ instance[on[r]] = None]_vars

\* The readers inside _hold, which _users counts.
Holders(s) == {r \in Reader : reader[r] \in Holding /\ on[r] = s}

UsersCounted == \A s \in Session : users[s] = Cardinality(Holders(s))

BusyTaskHasSession ==
  /\ \A r \in Reader : reader[r] # "idle" => on[r] \in Session
  /\ \A p \in Stopper : stopper[p] \in {"lock", "stopping"} => on[p] \in Session

\* Only the holder of the lock is inside the critical section.
HolderIsInside ==
  /\ \A r \in Reader : reader[r] \in Ensuring => lock[on[r]] = r
  /\ \A p \in Stopper : stopper[p] = "stopping" => lock[on[p]] = p

QueueHasHolder == \A s \in Session : waiters[s] # <<>> => lock[s] # None

\* The session's handle and the opener's local agree with where they stand.
HandlesMatchControl ==
  /\ \A r \in Reader : reader[r] \in {"status", "reconnect"} => instance[on[r]] # None
  /\ \A p \in Stopper : stopper[p] = "stopping" => instance[on[p]] # None
  /\ \A r \in Reader : reader[r] \in Opening => instance[on[r]] = None
  /\ \A r \in Reader : opening[r] # None <=> reader[r] \in Opening \ {"create"}

CountdownHasOneSession ==
  \A s1, s2 \in Session :
    lingerTask[s1] # None /\ lingerTask[s1] = lingerTask[s2] => s1 = s2

\* What every step preserves.  Each part but the first excludes a state from
\* which one of the others could be lost in a step.
Inductive ==
  /\ TypeOK
  /\ UsersCounted
  /\ BusyTaskHasSession
  /\ HolderIsInside
  /\ QueueHasHolder
  /\ HandlesMatchControl
  /\ CountdownHasOneSession
  /\ HandleNamesCountdown
  /\ IdleSessionIsWatched

\* A session that runs without a user is stopped or used again.
IdleSessionEnds ==
  \A s \in Session :
    (instance[s] # None /\ users[s] = 0) ~> (instance[s] = None \/ users[s] # 0)

\* Every request gets a consumer or an error, however many tasks want the lock.
RequestIsAnswered ==
  \A r \in Reader : reader[r] = "prepare" ~> reader[r] \in {"reading", "idle"}

\* "Grace period before tearing down a session whose last user left": the
\* countdown ends only a session that has no user.  Stated for runs in which
\* nobody but the countdown stops a session.
CountdownEndsIdleOnly ==
  \A p \in Stopper : stopper[p] = "stopping" => users[on[p]] = 0

\* "The video encoding, known by the time a consumer is handed out."
CodecKnownAtHandout ==
  [][\A r \in Reader : reader[r] # "reading" /\ reader'[r] = "reading"
       => codec'[on'[r]]]_vars
================================================================================
