-------------------------------- MODULE Stills ---------------------------------
(***************************************************************************)
(* bridge/stills.py: the ffmpeg decoders behind previews and snapshots.    *)
(* The table holds at most one source for what a viewer asks for; keys are  *)
(* independent, so one is modelled.  Sources are numbered in the order they *)
(* were made.  Everything runs on one event loop: a step is what happens    *)
(* between two awaits.                                                      *)
(***************************************************************************)
EXTENDS Integers

CONSTANTS
  Viewer,       \* those who ask for pictures
  Snapshots,    \* whether they may be snapshot requests, may be preview sockets:
                \* the two never share a source, their keys differ
  Idle,         \* _IDLE_SECONDS, in ticks
  FirstFrame,   \* _FIRST_FRAME_TIMEOUT, in ticks
  MaxAge,       \* _MAX_AGE_SECONDS, in ticks
  MaxSources,   \* bound: sources ever made
  MaxPictures,  \* bound: pictures one source decodes
  MayStop       \* whether the add-on may be stopped

ASSUME StillsAssumption ==
  /\ Snapshots \subseteq BOOLEAN /\ MayStop \in BOOLEAN
  /\ {Idle, FirstFrame, MaxAge, MaxSources, MaxPictures} \subseteq Nat

Source == 1 .. MaxSources

None == 0
NoFrame == -1

VARIABLES
  phase,    \* "running", "stopping" in Bridge.async_stop, "stopped" with the API
  made,     \* how many sources were made
  seated,   \* the source in the table, or None
  process,  \* each source's ffmpeg
  reading,  \* whether its _read_frames task runs
  retired,  \* _retired
  stop,     \* where its async_stop stands
  seq,      \* _seq
  frame,    \* the age of _frame, or NoFrame
  idle,     \* idle_for, while it is seated
  viewer    \* where each viewer's call stands

source == <<process, reading, retired, stop, seq, frame, idle>>
vars == <<phase, made, seated, source, viewer>>

\* got is the last picture received; after, the number the next must exceed.
\* ready says whether the event the viewer waits on has been set.
ViewerState ==
  [snapshot : BOOLEAN, at : {"idle", "opening", "awaiting"}, source : Source \cup {None},
   ready : BOOLEAN, waited : Nat, patience : {MaxAge, FirstFrame},
   after : 0 .. MaxPictures,
   got : [source : Source \cup {None}, seq : 0 .. MaxPictures]]

NewViewer(kind) ==
  [snapshot |-> kind, at |-> "idle", source |-> None, ready |-> FALSE, waited |-> 0,
   patience |-> FirstFrame, after |-> 0, got |-> [source |-> None, seq |-> 0]]

Init ==
  /\ phase = "running" /\ made = 0 /\ seated = None
  /\ process = [s \in Source |-> "none"]
  /\ reading = [s \in Source |-> FALSE]
  /\ retired = [s \in Source |-> FALSE]
  /\ stop = [s \in Source |-> "no"]
  /\ seq = [s \in Source |-> 0]
  /\ frame = [s \in Source |-> NoFrame]
  /\ idle = [s \in Source |-> 0]
  /\ \E kind \in Snapshots : viewer = [v \in Viewer |-> NewViewer(kind)]
--------------------------------------------------------------------------------
\* self._ready.set(): everyone waiting on the source is woken.
Woken(s) ==
  [v \in Viewer |->
     IF viewer[v].at = "awaiting" /\ viewer[v].source = s
     THEN [viewer[v] EXCEPT !.ready = TRUE]
     ELSE viewer[v]]

\* Mutation: a call that failed waits for the same source again.
RefusedWaitsAgain(v) ==
  [viewer[v] EXCEPT !.at = "awaiting", !.ready = FALSE, !.waited = 0]

\* The call is over, with no picture.  A preview socket closes on an error, and
\* the next one starts from zero.
Refused(v) == NewViewer(viewer[v].snapshot)

\* A preview names the picture it got in its next call, a snapshot starts over.
Answered(v, s) ==
  IF viewer[v].snapshot
  THEN Refused(v)
  ELSE [Refused(v) EXCEPT !.after = seq[s], !.got = [source |-> s, seq |-> seq[s]]]

\* Mutation: the picture a viewer already has is new enough.
NewerOrSame(v, s) == frame[s] \in 0 .. MaxAge /\ seq[s] >= viewer[v].after

Newer(v, s) == frame[s] \in 0 .. MaxAge /\ seq[s] > viewer[v].after

\* _Source.async_frame up to its await.
AsyncFrame(v, s) ==
  IF Newer(v, s)
  THEN Answered(v, s)
  ELSE [viewer[v] EXCEPT
          !.at = "awaiting", !.source = s, !.ready = FALSE, !.waited = 0,
          !.patience = IF frame[s] # NoFrame THEN MaxAge ELSE FirstFrame]

Asking(v) == viewer[v].at = "idle"

\* A source is in the table: the viewer shares it.
Share(v) ==
  /\ Asking(v) /\ seated # None
  /\ idle' = [idle EXCEPT ![seated] = 0]
  /\ viewer' = [viewer EXCEPT ![v] = AsyncFrame(v, seated)]
  /\ UNCHANGED <<phase, made, seated, process, reading, retired, stop, seq, frame>>

\* Mutation: the source is put in the table once its decoder runs.
OpenSeatsLater(v) ==
  /\ Asking(v) /\ seated = None /\ made < MaxSources
  /\ made' = made + 1
  /\ process' = [process EXCEPT ![made + 1] = "starting"]
  /\ viewer' = [viewer EXCEPT ![v].at = "opening", ![v].source = made + 1]
  /\ UNCHANGED <<phase, seated, reading, retired, stop, seq, frame, idle>>

\* None is: the viewer makes one, seats it and starts its decoder.
Open(v) ==
  /\ Asking(v) /\ seated = None /\ made < MaxSources
  /\ made' = made + 1
  /\ seated' = made + 1
  /\ process' = [process EXCEPT ![made + 1] = "starting"]
  /\ viewer' = [viewer EXCEPT ![v].at = "opening", ![v].source = made + 1]
  /\ UNCHANGED <<phase, reading, retired, stop, seq, frame, idle>>

\* Mutation: a decoder that was retired while it started is kept.
StartedForgetsRetirement(s) ==
  /\ process' = [process EXCEPT ![s] = "alive"]
  /\ reading' = [reading EXCEPT ![s] = TRUE]

\* The tail of async_start: a source retired meanwhile ends what it spawned.
Started(s) ==
  IF retired[s]
  THEN process' = [process EXCEPT ![s] = "dead"] /\ UNCHANGED reading
  ELSE /\ process' = [process EXCEPT ![s] = "alive"]
       /\ reading' = [reading EXCEPT ![s] = TRUE]

\* The decoder has been spawned; its opener goes on, unless the source has left
\* the table.
Opened(v) ==
  LET s == viewer[v].source IN
  /\ viewer[v].at = "opening"
  /\ Started(s)
  /\ IF seated = s
     THEN /\ idle' = [idle EXCEPT ![s] = 0]
          /\ viewer' = [viewer EXCEPT ![v] = AsyncFrame(v, s)]
     ELSE /\ viewer' = [viewer EXCEPT ![v] = Refused(v)]
          /\ UNCHANGED idle
  /\ UNCHANGED <<phase, made, seated, retired, stop, seq, frame>>

\* create_subprocess_exec raised, or its caller was cancelled; asyncio ends what
\* it may have spawned.  The source is unseated and those who joined are told.
OpenFails(v) ==
  LET s == viewer[v].source IN
  /\ viewer[v].at = "opening"
  /\ process' = [process EXCEPT ![s] = "dead"]
  /\ seated' = IF seated = s THEN None ELSE seated
  /\ frame' = [frame EXCEPT ![s] = NoFrame]
  /\ viewer' = [Woken(s) EXCEPT ![v] = Refused(v)]
  /\ UNCHANGED <<phase, made, reading, retired, stop, seq, idle>>

\* The wait ends with what is held by then.
Wake(v) ==
  LET s == viewer[v].source IN
  /\ viewer[v].at = "awaiting" /\ viewer[v].ready
  /\ viewer' = [viewer EXCEPT ![v] = IF frame[s] # NoFrame THEN Answered(v, s) ELSE Refused(v)]
  /\ UNCHANGED <<phase, made, seated, source>>

\* wait_for gives up, or the viewer goes away and its task is cancelled.
GiveUp(v) ==
  /\ viewer[v].at = "awaiting"
  /\ viewer[v].waited >= viewer[v].patience \/ ~viewer[v].snapshot
  /\ viewer' = [viewer EXCEPT ![v] = Refused(v)]
  /\ UNCHANGED <<phase, made, seated, source>>
--------------------------------------------------------------------------------
\* _read_frames found a whole picture.
Picture(s) ==
  /\ reading[s] /\ process[s] = "alive" /\ seq[s] < MaxPictures
  /\ seq' = [seq EXCEPT ![s] = @ + 1]
  /\ frame' = [frame EXCEPT ![s] = 0]
  /\ viewer' = Woken(s)
  /\ UNCHANGED <<phase, made, seated, process, reading, retired, stop, idle>>

\* ffmpeg exits by itself: the stream or the camera went away.
Exit(s) ==
  /\ process[s] = "alive"
  /\ process' = [process EXCEPT ![s] = "dead"]
  /\ UNCHANGED <<phase, made, seated, reading, retired, stop, seq, frame, idle, viewer>>

\* _read_frames reads the end of ffmpeg's output.
ReaderEnds(s) ==
  /\ reading[s] /\ process[s] = "dead"
  /\ reading' = [reading EXCEPT ![s] = FALSE]
  /\ frame' = [frame EXCEPT ![s] = NoFrame]
  /\ viewer' = Woken(s)
  /\ UNCHANGED <<phase, made, seated, process, retired, stop, seq, idle>>

Retire(s) ==
  /\ seated = s
  /\ seated' = None
  /\ stop' = [stop EXCEPT ![s] = "scheduled"]
  /\ idle' = [idle EXCEPT ![s] = 0]
  /\ UNCHANGED <<made, process, reading, retired, seq, frame, viewer>>

\* _reap: nobody asked for longer than Idle.
Reap(s) == seated = s /\ idle[s] > Idle /\ Retire(s) /\ UNCHANGED phase

\* drop: the camera has left the account or is no longer published.
Drop(s) == phase = "running" /\ Retire(s) /\ UNCHANGED phase

\* Mutation: whoever waits on the source is not told.
StopBeginsQuietly(s) ==
  /\ stop[s] = "scheduled"
  /\ retired' = [retired EXCEPT ![s] = TRUE]
  /\ reading' = [reading EXCEPT ![s] = FALSE]
  /\ stop' = [stop EXCEPT ![s] = IF process[s] = "alive" THEN "terminating" ELSE "done"]
  /\ UNCHANGED <<phase, made, seated, process, seq, frame, idle, viewer>>

\* async_stop up to the wait for the terminated process, if it has one.
StopBegins(s) ==
  /\ stop[s] = "scheduled"
  /\ retired' = [retired EXCEPT ![s] = TRUE]
  /\ frame' = [frame EXCEPT ![s] = NoFrame]
  /\ viewer' = Woken(s)
  /\ reading' = [reading EXCEPT ![s] = FALSE]
  /\ stop' = [stop EXCEPT ![s] = IF process[s] = "alive" THEN "terminating" ELSE "done"]
  /\ UNCHANGED <<phase, made, seated, process, seq, idle>>

\* Mutation: a process that ignores the polite signal is waited for, not killed.
StopEndsGently(s) ==
  /\ stop[s] = "terminating" /\ process[s] = "dead"
  /\ stop' = [stop EXCEPT ![s] = "done"]
  /\ UNCHANGED <<phase, made, seated, process, reading, retired, seq, frame, idle, viewer>>

\* The process has ended, or is killed for not ending.
StopEnds(s) ==
  /\ stop[s] = "terminating"
  /\ process' = [process EXCEPT ![s] = "dead"]
  /\ stop' = [stop EXCEPT ![s] = "done"]
  /\ UNCHANGED <<phase, made, seated, reading, retired, seq, frame, idle, viewer>>

\* async_shutdown: everything in the table is retired.
Shutdown ==
  /\ MayStop /\ phase = "running"
  /\ phase' = "stopping"
  /\ IF seated = None
     THEN UNCHANGED <<made, seated, source, viewer>>
     ELSE Retire(seated)

\* The teardowns have been waited for; the other parts stop, the API last, which
\* ends or cancels every request.
Stopped ==
  /\ phase = "stopping"
  /\ \A s \in Source : stop[s] \in {"no", "done"}
  /\ \A v \in Viewer : viewer[v].at = "idle"
  /\ phase' = "stopped"
  /\ UNCHANGED <<made, seated, source, viewer>>

Later(t, bound) == IF t < bound THEN t + 1 ELSE t

Tick ==
  /\ phase # "stopped"
  /\ idle' = [s \in Source |-> IF s = seated THEN Later(idle[s], Idle + 1) ELSE idle[s]]
  /\ frame' = [s \in Source |->
       IF frame[s] = NoFrame THEN NoFrame ELSE Later(frame[s], MaxAge + 1)]
  /\ viewer' = [v \in Viewer |->
       IF viewer[v].at = "awaiting"
       THEN [viewer[v] EXCEPT !.waited = Later(@, viewer[v].patience)]
       ELSE viewer[v]]
  /\ UNCHANGED <<phase, made, seated, process, reading, retired, stop, seq>>

Up == phase # "stopped"

Ask(v) == Up /\ (Share(v) \/ Open(v))
Go(v) == Up /\ (Opened(v) \/ OpenFails(v) \/ Wake(v) \/ GiveUp(v))
Decode(s) == Up /\ (Picture(s) \/ Exit(s))
Clean(s) == Up /\ (ReaderEnds(s) \/ Reap(s) \/ StopBegins(s) \/ StopEnds(s))

Next ==
  \/ Tick \/ Shutdown \/ Stopped
  \/ \E v \in Viewer : Ask(v) \/ Go(v)
  \/ \E s \in Source : Decode(s) \/ Clean(s) \/ Drop(s)

Spec == Init /\ [][Next]_vars

\* While the add-on runs, its loop runs what is ready, time passes, and a spawn
\* returns.
Fairness ==
  /\ WF_vars(Tick)
  /\ \A v \in Viewer : WF_vars(Go(v))
  /\ \A s \in Source : WF_vars(Clean(s))

FairSpec == Spec /\ Fairness
--------------------------------------------------------------------------------
\* Every variable keeps its type, and a call waits on a source that was made.
TypeOK ==
  /\ phase \in {"running", "stopping", "stopped"}
  /\ made \in 0 .. MaxSources
  /\ seated \in 0 .. made
  /\ process \in [Source -> {"none", "starting", "alive", "dead"}]
  /\ reading \in [Source -> BOOLEAN] /\ retired \in [Source -> BOOLEAN]
  /\ stop \in [Source -> {"no", "scheduled", "terminating", "done"}]
  /\ seq \in [Source -> 0 .. MaxPictures] /\ frame \in [Source -> NoFrame .. MaxAge + 1]
  /\ idle \in [Source -> 0 .. Idle + 1]
  /\ viewer \in [Viewer -> ViewerState]
  /\ \A v \in Viewer : viewer[v].at # "idle" => viewer[v].source \in 1 .. made

\* Every decoder has somebody to end it: the table, or a stop under way.  So no
\* two are seated for one key, and none outlives its source.
NoOrphan ==
  \A s \in Source :
    /\ process[s] = "alive" => seated = s \/ stop[s] \in {"scheduled", "terminating"}
    /\ process[s] = "starting" => seated = s \/ stop[s] = "scheduled" \/ retired[s]

\* Nobody waits on a source that was stopped without having been woken.
StoppedIsToldAtOnce ==
  \A v \in Viewer :
    viewer[v].at = "awaiting" /\ retired[viewer[v].source] => viewer[v].ready

\* A preview is never given the same picture twice, or an older one, across
\* every source it is served from.
PicturesMoveOn ==
  [][\A v \in Viewer :
       LET old == viewer[v].got
           new == viewer'[v].got
       IN  (Share(v) \/ Wake(v)) /\ viewer'[v].at = "idle" /\ viewer'[v].after > 0 =>
             \/ new.source > old.source
             \/ new.source = old.source /\ new.seq > old.seq]_vars

\* A request answers or fails in the end.
ViewerIsAnswered == \A v \in Viewer : viewer[v].at # "idle" ~> viewer[v].at = "idle"

\* While the add-on runs, and once nobody asks any more, no decoder is left running.
UnwatchedDecodersEnd ==
  [](phase = "running") /\ <>[][\A v \in Viewer : ~Ask(v)]_vars
    => <>[](\A s \in Source : process[s] # "alive")

\* The reaper stops "sources nobody is watching".
ReapsUnwatchedOnly ==
  [][\A s \in Source : Reap(s) =>
       \A v \in Viewer : ~(viewer[v].at = "awaiting" /\ viewer[v].source = s)]_vars

\* Nobody is made to "wait out the timeout for frames that can never arrive".
NobodyJoinsTheDead ==
  [][\A v \in Viewer :
       viewer[v].at = "idle" /\ viewer'[v].at = "awaiting" =>
         LET s == viewer'[v].source IN reading[s] \/ process[s] = "starting"]_vars

\* The add-on exits with none of its decoders running.
NothingRunsAtExit ==
  phase = "stopped" => \A s \in Source : process[s] \notin {"starting", "alive"}
================================================================================
