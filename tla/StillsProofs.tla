----------------------------- MODULE StillsProofs ------------------------------
(***************************************************************************)
(* What Stills guarantees for any number of viewers, sources and pictures  *)
(* and whatever the timeouts are.  DecodersOwned is preserved by every     *)
(* step and gives the two invariants the runs check; CallsMoveOn adds what *)
(* the next picture of a preview rests on.                                 *)
(***************************************************************************)
EXTENDS Stills, TLAPS

\* Waking a source's waiters touches nothing of a call but its event.
LEMMA WokenFields ==
  ASSUME TypeOK, NEW s, NEW v \in Viewer
  PROVE  LET call == Woken(s)[v] IN
         /\ call \in ViewerState
         /\ call.at = viewer[v].at /\ call.source = viewer[v].source
         /\ call.after = viewer[v].after /\ call.got = viewer[v].got
         /\ call.ready = (viewer[v].ready \/ (viewer[v].at = "awaiting" /\ viewer[v].source = s))
<1>1. viewer[v] \in ViewerState
  BY DEF TypeOK
<1>. QED  BY <1>1 DEF Woken, ViewerState

LEMMA WokenCalls ==
  ASSUME TypeOK, NEW s
  PROVE  Woken(s) \in [Viewer -> ViewerState]
<1>1. Woken(s) = [v \in Viewer |-> Woken(s)[v]]
  BY DEF Woken
<1>2. \A v \in Viewer : Woken(s)[v] \in ViewerState
  BY WokenFields
<1>. QED  BY <1>1, <1>2

\* A call that ends with no picture starts over.
LEMMA RefusedFields ==
  ASSUME TypeOK, NEW v \in Viewer
  PROVE  LET call == Refused(v) IN
         /\ call \in ViewerState
         /\ call.at = "idle" /\ call.after = 0
         /\ call.got.source = None /\ call.got.seq = 0
<1>1. viewer[v] \in ViewerState
  BY DEF TypeOK
<1>2. 0 \in 0 .. MaxPictures /\ 0 \in Nat
  BY StillsAssumption
<1>. QED  BY <1>1, <1>2 DEF Refused, NewViewer, ViewerState

\* One that ends with a picture names it in the next, unless it is a snapshot's.
LEMMA AnsweredFields ==
  ASSUME TypeOK, NEW v \in Viewer, NEW s \in Source
  PROVE  LET call == Answered(v, s) IN
         /\ call \in ViewerState
         /\ call.at = "idle" /\ call.after = call.got.seq
         /\ \/ call.got.source = None /\ call.got.seq = 0
            \/ call.got.source = s /\ call.got.seq = seq[s]
<1>1. CASE viewer[v].snapshot
  BY <1>1, RefusedFields DEF Answered
<1>2. CASE ~viewer[v].snapshot
  <2>. DEFINE picture == [source |-> s, seq |-> seq[s]]
  <2>1. /\ seq[s] \in 0 .. MaxPictures
        /\ picture \in [source : Source \cup {None}, seq : 0 .. MaxPictures]
        /\ picture.source = s /\ picture.seq = seq[s]
    BY DEF TypeOK
  <2>2. PICK call \in ViewerState : call = Refused(v) /\ call.at = "idle"
    BY RefusedFields
  <2>3. Answered(v, s) = [call EXCEPT !.after = seq[s], !.got = picture]
    BY <1>2, <2>2 DEF Answered
  <2>. HIDE DEF picture
  <2>. QED  BY <2>1, <2>2, <2>3 DEF ViewerState
<1>. QED  BY <1>1, <1>2

\* async_frame returns what is held, if it is newer, or begins to wait.
LEMMA AsyncFrameFields ==
  ASSUME TypeOK, NEW v \in Viewer, NEW s \in Source
  PROVE  LET call == AsyncFrame(v, s) IN
         /\ call \in ViewerState
         /\ \/ Newer(v, s) /\ call = Answered(v, s)
            \/ /\ call.at = "awaiting" /\ call.source = s /\ ~call.ready
               /\ call.after = viewer[v].after /\ call.got = viewer[v].got
<1>1. CASE Newer(v, s)
  BY <1>1, AnsweredFields DEF AsyncFrame
<1>2. CASE ~Newer(v, s)
  <2>1. viewer[v] \in ViewerState /\ 0 \in Nat
    BY DEF TypeOK
  <2>. QED  BY <1>2, <2>1 DEF AsyncFrame, ViewerState
<1>. QED  BY <1>1, <1>2

--------------------------------------------------------------------------------
(* Types *)

SourceTypes ==
  /\ phase \in {"running", "stopping", "stopped"}
  /\ made \in 0 .. MaxSources
  /\ seated \in 0 .. made
  /\ process \in [Source -> {"none", "starting", "alive", "dead"}]
  /\ reading \in [Source -> BOOLEAN] /\ retired \in [Source -> BOOLEAN]
  /\ stop \in [Source -> {"no", "scheduled", "terminating", "done"}]
  /\ seq \in [Source -> 0 .. MaxPictures] /\ frame \in [Source -> NoFrame .. MaxAge + 1]
  /\ idle \in [Source -> 0 .. Idle + 1]

CallTypes ==
  /\ viewer \in [Viewer -> ViewerState]
  /\ \A v \in Viewer : viewer[v].at # "idle" => viewer[v].source \in 1 .. made

LEMMA Types == TypeOK <=> SourceTypes /\ CallTypes
BY DEF TypeOK, SourceTypes, CallTypes

\* The calls after a step that ends one, wakes some, or makes one wait on a source.
LEMMA CallReplaced ==
  ASSUME CallTypes, made' \in Nat, made \in Nat, made <= made',
         NEW calls \in [Viewer -> ViewerState],
         \A w \in Viewer : calls[w].at = viewer[w].at /\ calls[w].source = viewer[w].source,
         NEW v \in Viewer, NEW call \in ViewerState,
         call.at # "idle" => call.source \in 1 .. made',
         viewer' = [calls EXCEPT ![v] = call]
  PROVE  CallTypes'
<1>1. viewer' \in [Viewer -> ViewerState]
  OBVIOUS
<1>2. ASSUME NEW w \in Viewer, viewer'[w].at # "idle"
      PROVE  viewer'[w].source \in 1 .. made'
  BY <1>2 DEF CallTypes
<1>. QED  BY <1>1, <1>2 DEF CallTypes

LEMMA CallSet ==
  ASSUME TypeOK, made' \in Nat, made <= made',
         NEW v \in Viewer, NEW call \in ViewerState,
         call.at # "idle" => call.source \in 1 .. made',
         viewer' = [viewer EXCEPT ![v] = call]
  PROVE  CallTypes'
<1>. made \in Nat /\ CallTypes /\ viewer \in [Viewer -> ViewerState]
  BY StillsAssumption DEF TypeOK, CallTypes
<1>. QED  BY CallReplaced

LEMMA CallsKept ==
  ASSUME CallTypes, made' = made,
         viewer' \in [Viewer -> ViewerState],
         \A w \in Viewer : viewer'[w].at = viewer[w].at /\ viewer'[w].source = viewer[w].source
  PROVE  CallTypes'
BY DEF CallTypes

LEMMA WokenKept ==
  ASSUME TypeOK, NEW s, viewer' = Woken(s), made' = made
  PROVE  CallTypes'
<1>1. viewer' \in [Viewer -> ViewerState]
  BY WokenCalls
<1>. QED  BY <1>1, WokenFields, CallsKept DEF TypeOK, CallTypes

LEMMA TypeStep == TypeOK /\ [Next]_vars => TypeOK'
<1>. SUFFICES ASSUME TypeOK, [Next]_vars
              PROVE  TypeOK'
  OBVIOUS
<1>0. /\ SourceTypes /\ CallTypes /\ made \in Nat /\ MaxSources \in Nat
      /\ Idle \in Nat /\ MaxAge \in Nat /\ MaxPictures \in Nat
  BY Types, StillsAssumption DEF TypeOK
<1>a. /\ viewer \in [Viewer -> ViewerState]
      /\ \A v \in Viewer : viewer[v].at # "idle" => viewer[v].source \in 1 .. made
      /\ 1 .. made \subseteq Source
  BY <1>0 DEF CallTypes, SourceTypes, Source
<1>1. ASSUME NEW v \in Viewer, Share(v)
      PROVE  SourceTypes' /\ CallTypes'
  <2>1. seated \in 1 .. made /\ seated \in Source
    BY <1>0, <1>1, <1>a DEF Share, SourceTypes, None
  <2>2. SourceTypes'
    BY <1>0, <1>1, <2>1 DEF Share, SourceTypes
  <2>3. /\ AsyncFrame(v, seated) \in ViewerState
        /\ AsyncFrame(v, seated).at # "idle" => AsyncFrame(v, seated).source = seated
    BY <2>1, AsyncFrameFields, AnsweredFields
  <2>4. made' = made /\ viewer' = [viewer EXCEPT ![v] = AsyncFrame(v, seated)]
    BY <1>1 DEF Share
  <2>5. CallTypes'
    <3>1. PICK call \in ViewerState : call = AsyncFrame(v, seated)
      BY <2>3
    <3>2. call.at # "idle" => call.source \in 1 .. made'
      BY <2>1, <2>3, <2>4, <3>1
    <3>3. made' \in Nat /\ made <= made'
      BY <1>0, <2>4
    <3>. QED  BY <2>4, <3>1, <3>2, <3>3, CallSet
  <2>. QED  BY <2>2, <2>5
<1>2. ASSUME NEW v \in Viewer, Open(v)
      PROVE  SourceTypes' /\ CallTypes'
  <2>1. made + 1 \in Source /\ made' = made + 1
    BY <1>0, <1>2 DEF Open, Source
  <2>2. SourceTypes'
    <3>1. made' \in 0 .. MaxSources /\ seated' \in 0 .. made'
      BY <1>0, <1>2, <2>1 DEF Open, Source
    <3>2. process' \in [Source -> {"none", "starting", "alive", "dead"}]
      BY <1>0, <1>2, <2>1 DEF Open, SourceTypes
    <3>3. UNCHANGED <<phase, reading, retired, stop, seq, frame, idle>>
      BY <1>2 DEF Open
    <3>. QED  BY <1>0, <3>1, <3>2, <3>3, Zenon DEF SourceTypes
  <2>. DEFINE call == [viewer[v] EXCEPT !.at = "opening", !.source = made + 1]
  <2>3. call \in ViewerState /\ call.source = made + 1
    BY <1>a, <2>1 DEF ViewerState
  <2>4. viewer' = [viewer EXCEPT ![v] = call]
    BY <1>2, <1>a DEF Open
  <2>. HIDE DEF call
  <2>5. made' \in Nat /\ made <= made' /\ call.source \in 1 .. made'
    BY <1>0, <2>1, <2>3
  <2>6. CallTypes'
    BY <2>3, <2>4, <2>5, CallSet
  <2>. QED  BY <2>2, <2>6
<1>3. ASSUME NEW v \in Viewer, Opened(v)
      PROVE  SourceTypes' /\ CallTypes'
  <2>. DEFINE s == viewer[v].source
  <2>1. s \in 1 .. made /\ s \in Source
    BY <1>3, <1>a DEF Opened
  <2>. HIDE DEF s
  <2>2. SourceTypes'
    <3>1. /\ UNCHANGED <<phase, made, seated, retired, stop, seq, frame>>
          /\ process' \in [Source -> {"none", "starting", "alive", "dead"}]
          /\ reading' \in [Source -> BOOLEAN]
          /\ idle' \in [Source -> 0 .. Idle + 1]
      <4>1. /\ Started(s) /\ UNCHANGED <<phase, made, seated, retired, stop, seq, frame>>
            /\ UNCHANGED idle \/ idle' = [idle EXCEPT ![s] = 0]
        BY <1>3 DEF Opened, s
      <4>2. 0 \in 0 .. Idle + 1
        BY <1>0
      <4>. QED  BY <1>0, <2>1, <4>1, <4>2 DEF Started, SourceTypes
    <3>. QED  BY <1>0, <3>1 DEF SourceTypes
  <2>3. /\ AsyncFrame(v, s) \in ViewerState
        /\ AsyncFrame(v, s).at # "idle" => AsyncFrame(v, s).source = s
        /\ Refused(v) \in ViewerState /\ Refused(v).at = "idle"
    BY <2>1, AsyncFrameFields, AnsweredFields, RefusedFields
  <2>4. /\ made' = made
        /\ \/ viewer' = [viewer EXCEPT ![v] = AsyncFrame(v, s)]
           \/ viewer' = [viewer EXCEPT ![v] = Refused(v)]
    BY <1>3 DEF Opened, s
  <2>. QED  BY <1>0, <1>a, <2>1, <2>2, <2>3, <2>4, CallSet
<1>4. ASSUME NEW v \in Viewer, OpenFails(v)
      PROVE  SourceTypes' /\ CallTypes'
  <2>. DEFINE s == viewer[v].source
  <2>1. s \in 1 .. made /\ s \in Source
    BY <1>4, <1>a DEF OpenFails
  <2>. HIDE DEF s
  <2>2. SourceTypes'
    BY <1>0, <1>4, <2>1 DEF OpenFails, SourceTypes, s, None, NoFrame
  <2>3. /\ Woken(s) \in [Viewer -> ViewerState]
        /\ \A w \in Viewer : Woken(s)[w].at = viewer[w].at /\ Woken(s)[w].source = viewer[w].source
    BY WokenFields, WokenCalls
  <2>4. Refused(v) \in ViewerState /\ Refused(v).at = "idle"
    BY RefusedFields
  <2>5. made' = made /\ viewer' = [Woken(s) EXCEPT ![v] = Refused(v)]
    BY <1>4 DEF OpenFails, s
  <2>6. made' \in Nat /\ made <= made'
    BY <1>0, <2>5
  <2>7. CallTypes'
    BY <1>0, <2>3, <2>4, <2>5, <2>6, CallReplaced
  <2>. QED  BY <2>2, <2>7
<1>5. ASSUME NEW v \in Viewer, Wake(v) \/ GiveUp(v)
      PROVE  SourceTypes' /\ CallTypes'
  <2>. DEFINE s == viewer[v].source
  <2>1. s \in Source
    BY <1>5, <1>a DEF Wake, GiveUp
  <2>. HIDE DEF s
  <2>2. SourceTypes'
    BY <1>0, <1>5 DEF Wake, GiveUp, SourceTypes, source
  <2>3. /\ Refused(v) \in ViewerState /\ Refused(v).at = "idle"
        /\ Answered(v, s) \in ViewerState /\ Answered(v, s).at = "idle"
    BY <2>1, RefusedFields, AnsweredFields
  <2>4. /\ made' = made
        /\ \/ viewer' = [viewer EXCEPT ![v] = Answered(v, s)]
           \/ viewer' = [viewer EXCEPT ![v] = Refused(v)]
    BY <1>5 DEF Wake, GiveUp, s
  <2>. QED  BY <1>0, <1>a, <2>2, <2>3, <2>4, CallSet
<1>6. ASSUME NEW s \in Source, Picture(s) \/ ReaderEnds(s) \/ StopBegins(s)
      PROVE  SourceTypes' /\ CallTypes'
  <2>1. CASE Picture(s)
    <3>1. seq[s] + 1 \in 0 .. MaxPictures /\ 0 \in NoFrame .. MaxAge + 1
      BY <1>0, <2>1 DEF Picture, SourceTypes, NoFrame
    <3>. QED  BY <1>0, <2>1, <3>1, WokenKept DEF Picture, SourceTypes
  <2>2. CASE ReaderEnds(s) \/ StopBegins(s)
    <3>1. NoFrame \in NoFrame .. MaxAge + 1
      BY <1>0 DEF NoFrame
    <3>2. viewer' = Woken(s) /\ made' = made
      BY <2>2 DEF ReaderEnds, StopBegins
    <3>3. CASE ReaderEnds(s)
      <4>1. SourceTypes'
        BY <1>0, <3>1, <3>3 DEF ReaderEnds, SourceTypes
      <4>. QED  BY <3>2, <4>1, WokenKept
    <3>4. CASE StopBegins(s)
      <4>1. /\ UNCHANGED <<phase, made, seated, process, seq, idle>>
            /\ retired' \in [Source -> BOOLEAN] /\ reading' \in [Source -> BOOLEAN]
            /\ frame' \in [Source -> NoFrame .. MaxAge + 1]
        BY <1>0, <3>1, <3>4 DEF StopBegins, SourceTypes
      <4>2. stop' \in [Source -> {"no", "scheduled", "terminating", "done"}]
        BY <1>0, <3>4 DEF StopBegins, SourceTypes
      <4>3. SourceTypes'
        BY <1>0, <4>1, <4>2 DEF SourceTypes
      <4>. QED  BY <3>2, <4>3, WokenKept
    <3>. QED  BY <2>2, <3>3, <3>4
  <2>. QED  BY <1>6, <2>1, <2>2
<1>7. ASSUME NEW s \in Source, Exit(s) \/ StopEnds(s) \/ (Retire(s) /\ phase' \in {phase, "stopping"})
      PROVE  SourceTypes' /\ CallTypes'
  <2>1. SourceTypes'
    BY <1>0, <1>7 DEF Exit, StopEnds, Retire, SourceTypes, None
  <2>. QED  BY <1>0, <1>7, <1>a, <2>1, CallsKept DEF Exit, StopEnds, Retire
<1>8. ASSUME Shutdown
      PROVE  SourceTypes' /\ CallTypes'
  <2>1. CASE seated = None
    BY <1>0, <1>8, <1>a, <2>1, CallsKept DEF Shutdown, SourceTypes, source
  <2>2. CASE seated # None
    <3>1. seated \in Source
      BY <1>0, <2>2 DEF SourceTypes, Source, None
    <3>. QED  BY <1>7, <1>8, <2>2, <3>1 DEF Shutdown
  <2>. QED  BY <2>1, <2>2
<1>9. ASSUME Stopped \/ UNCHANGED vars
      PROVE  SourceTypes' /\ CallTypes'
  BY <1>0, <1>9, <1>a, CallsKept DEF Stopped, SourceTypes, source, vars
<1>10. ASSUME Tick
       PROVE  SourceTypes' /\ CallTypes'
  <2>1. SourceTypes'
    BY <1>0, <1>10 DEF Tick, Later, SourceTypes, NoFrame
  <2>2. viewer' \in [Viewer -> ViewerState]
    BY <1>0, <1>10, <1>a, StillsAssumption DEF Tick, Later, ViewerState
  <2>3. \A w \in Viewer : viewer'[w].at = viewer[w].at /\ viewer'[w].source = viewer[w].source
    BY <1>10, <1>a DEF Tick, ViewerState
  <2>. QED  BY <1>0, <1>10, <2>1, <2>2, <2>3, CallsKept DEF Tick
<1>11. SourceTypes' /\ CallTypes'
  BY <1>1, <1>2, <1>3, <1>4, <1>5, <1>6, <1>7, <1>8, <1>9, <1>10
     DEF Next, Ask, Go, Decode, Clean, Reap, Drop
<1>. QED  BY <1>11 DEF TypeOK, SourceTypes, CallTypes

--------------------------------------------------------------------------------
(* Who ends a decoder *)

\* Sources are numbered in the order they were made, and the last is the seated one.
MadeInOrder ==
  /\ seated \in {None, made}
  /\ \A s \in Source : s > made =>
       process[s] = "none" /\ ~reading[s] /\ ~retired[s] /\ stop[s] = "no"

\* The seated source has not been stopped, and a stop that waits has a process.
StopsMatch ==
  \A s \in Source :
    /\ seated = s => stop[s] = "no"
    /\ retired[s] => stop[s] \in {"terminating", "done"}
    /\ stop[s] = "terminating" => process[s] \in {"alive", "dead"}

\* A viewer inside create_subprocess_exec is the only opener of its source.
OpenersOwn ==
  /\ \A v \in Viewer : viewer[v].at = "opening" => process[viewer[v].source] = "starting"
  /\ \A v, w \in Viewer :
       /\ viewer[v].at = "opening" /\ viewer[w].at = "opening"
       /\ viewer[v].source = viewer[w].source
       => v = w

DecodersOwned ==
  /\ TypeOK
  /\ MadeInOrder
  /\ StopsMatch
  /\ OpenersOwn
  /\ NoOrphan
  /\ StoppedIsToldAtOnce

\* What the lemmas below read off the types.
LEMMA Sources ==
  ASSUME TypeOK
  PROVE  /\ made \in Nat /\ 1 .. made \subseteq Source /\ MaxSources \in Nat
         /\ seated # None => seated \in Source
         /\ \A v \in Viewer : viewer[v].at # "idle" =>
              viewer[v].source \in Source /\ viewer[v].source <= made
         /\ process \in [Source -> {"none", "starting", "alive", "dead"}]
         /\ reading \in [Source -> BOOLEAN] /\ retired \in [Source -> BOOLEAN]
         /\ stop \in [Source -> {"no", "scheduled", "terminating", "done"}]
BY StillsAssumption DEF TypeOK, Source, None

\* A source that leaves the table is stopped; one that starts after it was retired
\* ends itself; and no source is seated over another.
LEMMA OwnersStep ==
  ASSUME DecodersOwned, [Next]_vars
  PROVE  (MadeInOrder /\ StopsMatch /\ NoOrphan)'
<1>. DEFINE Goal == (MadeInOrder /\ StopsMatch /\ NoOrphan)'
<1>. USE DEF MadeInOrder, StopsMatch, NoOrphan
<1>0. TypeOK /\ MadeInOrder /\ StopsMatch /\ NoOrphan
  BY DEF DecodersOwned
<1>a. /\ made \in Nat /\ 1 .. made \subseteq Source /\ MaxSources \in Nat
      /\ seated # None => seated \in Source
      /\ process \in [Source -> {"none", "starting", "alive", "dead"}]
      /\ reading \in [Source -> BOOLEAN] /\ retired \in [Source -> BOOLEAN]
      /\ stop \in [Source -> {"no", "scheduled", "terminating", "done"}]
  BY <1>0, Sources
<1>1. ASSUME UNCHANGED <<made, seated, process, reading, retired, stop>>
      PROVE  Goal
  BY <1>0, <1>1
<1>2. ASSUME NEW v \in Viewer, Share(v) \/ Wake(v) \/ GiveUp(v)
      PROVE  Goal
  BY <1>1, <1>2 DEF Share, Wake, GiveUp, source
<1>3. ASSUME NEW v \in Viewer, Open(v)
      PROVE  Goal
  <2>1. made + 1 \in Source /\ made + 1 # None
    BY <1>3, <1>a DEF Open, Source, None
  <2>2. /\ seated = None /\ made' = made + 1 /\ seated' = made + 1
        /\ process' = [process EXCEPT ![made + 1] = "starting"]
        /\ UNCHANGED <<reading, retired, stop>>
    BY <1>3 DEF Open
  <2>3. \A s \in Source : s > made + 1 => s > made
    BY <1>a DEF Source
  <2>4. stop[made + 1] = "no" /\ ~retired[made + 1]
    BY <1>0, <1>a, <2>1
  <2>5. \A s \in Source : s # seated
    BY <2>2 DEF Source, None
  <2>. QED  BY <1>0, <1>a, <2>1, <2>2, <2>3, <2>4, <2>5
<1>4. ASSUME NEW v \in Viewer, Opened(v)
      PROVE  Goal
  <2>. DEFINE s == viewer[v].source
  <2>1. s \in Source /\ s <= made /\ process[s] = "starting"
    BY <1>0, <1>4, Sources DEF Opened, DecodersOwned, OpenersOwn
  <2>2. Started(s) /\ UNCHANGED <<made, seated, retired, stop>>
    BY <1>4 DEF Opened
  <2>. HIDE DEF s
  <2>3. ~(s > made)
    BY <1>a, <2>1 DEF Source
  <2>. QED  BY <1>0, <1>a, <2>1, <2>2, <2>3 DEF Started
<1>5. ASSUME NEW v \in Viewer, OpenFails(v)
      PROVE  Goal
  <2>. DEFINE s == viewer[v].source
  <2>1. s \in Source /\ s <= made /\ process[s] = "starting"
    BY <1>0, <1>5, Sources DEF OpenFails, DecodersOwned, OpenersOwn
  <2>2. /\ process' = [process EXCEPT ![s] = "dead"]
        /\ seated' = IF seated = s THEN None ELSE seated
        /\ UNCHANGED <<made, reading, retired, stop>>
    BY <1>5 DEF OpenFails
  <2>. HIDE DEF s
  <2>3. ~(s > made) /\ \A x \in Source : x # None
    BY <1>a, <2>1 DEF Source, None
  <2>. QED  BY <1>0, <1>a, <2>1, <2>2, <2>3
<1>6. ASSUME NEW s \in Source, Picture(s)
      PROVE  Goal
  BY <1>1, <1>6 DEF Picture
<1>7. ASSUME NEW s \in Source, Exit(s) \/ ReaderEnds(s)
      PROVE  Goal
  BY <1>0, <1>7, <1>a DEF Exit, ReaderEnds
<1>8. ASSUME NEW s \in Source, Retire(s)
      PROVE  Goal
  <2>1. ~(s > made) /\ \A x \in Source : x # None
    BY <1>0, <1>8, <1>a DEF Retire, Source, None
  <2>. QED  BY <1>0, <1>8, <1>a, <2>1 DEF Retire
<1>9. ASSUME NEW s \in Source, StopBegins(s) \/ StopEnds(s)
      PROVE  Goal
  <2>1. ~(s > made)
    BY <1>0, <1>9 DEF StopBegins, StopEnds
  <2>2. seated # s
    BY <1>0, <1>9 DEF StopBegins, StopEnds
  <2>3. CASE StopBegins(s)
    BY <1>0, <1>a, <2>1, <2>2, <2>3 DEF StopBegins
  <2>4. CASE StopEnds(s)
    BY <1>0, <1>a, <2>1, <2>2, <2>4 DEF StopEnds
  <2>. QED  BY <1>9, <2>3, <2>4
<1>10. ASSUME Shutdown
       PROVE  Goal
  BY <1>1, <1>8, <1>10, <1>a DEF Shutdown, source
<1>11. ASSUME Stopped \/ Tick \/ UNCHANGED vars
       PROVE  Goal
  BY <1>1, <1>11 DEF Stopped, Tick, vars, source
<1>. HIDE DEF Goal
<1>12. Goal
  BY <1>2, <1>3, <1>4, <1>5, <1>6, <1>7, <1>8, <1>9, <1>10, <1>11
     DEF Next, Ask, Go, Decode, Clean, Reap, Drop
<1>. QED  BY <1>12 DEF Goal

--------------------------------------------------------------------------------
(* What a step does to a call *)

\* It goes on as it was, and is woken only for a newer picture or for none at all;
\* a source that is retired wakes it.
Stays(v) ==
  /\ viewer'[v].at = viewer[v].at /\ viewer'[v].source = viewer[v].source
  /\ viewer'[v].after = viewer[v].after /\ viewer'[v].got = viewer[v].got
  /\ viewer[v].ready => viewer'[v].ready
  /\ viewer[v].at = "awaiting" =>
       LET s == viewer[v].source IN
       /\ viewer'[v].ready => viewer[v].ready \/ seq'[s] > seq[s] \/ frame'[s] = NoFrame
       /\ retired'[s] => retired[s] \/ viewer'[v].ready

\* It ends, with the picture of a source or with none.
Ends(v) ==
  /\ viewer'[v].at = "idle" /\ viewer'[v].after = viewer'[v].got.seq
  /\ \/ viewer'[v].got.source = None /\ viewer'[v].got.seq = 0
     \/ \E s \in 1 .. made :
          viewer'[v].got.source = s /\ viewer'[v].got.seq = seq[s] /\ UNCHANGED seq

\* It begins to wait on the seated source, which nobody has retired.
Waits(v) ==
  /\ viewer'[v].at = "awaiting" /\ viewer'[v].source = seated /\ ~viewer'[v].ready
  /\ viewer'[v].after = viewer[v].after /\ viewer'[v].got = viewer[v].got
  /\ seated \in Source /\ UNCHANGED <<retired, seated>>

\* It opens a source, and no other call moves.
Opens(v) ==
  /\ viewer'[v].at = "opening" /\ viewer'[v].source = made + 1 /\ made' = made + 1
  /\ viewer'[v].after = viewer[v].after /\ viewer'[v].got = viewer[v].got
  /\ \A w \in Viewer \ {v} : viewer'[w] = viewer[w]

Moves(v) == Stays(v) \/ Ends(v) \/ Waits(v) \/ Opens(v)

LEMMA StaysSame ==
  ASSUME TypeOK, NEW v \in Viewer, viewer'[v] = viewer[v], UNCHANGED retired
  PROVE  Stays(v)
BY DEF Stays

LEMMA StaysWoken ==
  ASSUME TypeOK, NEW s \in Source, NEW v \in Viewer, viewer'[v] = Woken(s)[v],
         seq'[s] > seq[s] \/ frame'[s] = NoFrame,
         retired' = retired \/ retired' = [retired EXCEPT ![s] = TRUE]
  PROVE  Stays(v)
<1>1. /\ viewer'[v].at = viewer[v].at /\ viewer'[v].source = viewer[v].source
      /\ viewer'[v].after = viewer[v].after /\ viewer'[v].got = viewer[v].got
      /\ viewer'[v].ready = (viewer[v].ready \/ (viewer[v].at = "awaiting" /\ viewer[v].source = s))
  BY WokenFields
<1>2. retired \in [Source -> BOOLEAN]
  BY DEF TypeOK
<1>3. viewer[v].at = "awaiting" => viewer[v].source \in Source
  BY Sources
<1>. QED  BY <1>1, <1>2, <1>3 DEF Stays

\* async_frame answers, or leaves the call waiting on the source it was made for.
LEMMA AsyncFrameMoves ==
  ASSUME TypeOK, seated \in Source, UNCHANGED <<seq, retired, seated>>,
         NEW v \in Viewer, viewer'[v] = AsyncFrame(v, seated)
  PROVE  Ends(v) \/ Waits(v)
<1>1. seated \in 1 .. made
  BY DEF TypeOK, Source
<1>2. CASE Newer(v, seated) /\ viewer'[v] = Answered(v, seated)
  BY <1>1, <1>2, AnsweredFields DEF Ends
<1>3. CASE /\ viewer'[v].at = "awaiting" /\ viewer'[v].source = seated /\ ~viewer'[v].ready
           /\ viewer'[v].after = viewer[v].after /\ viewer'[v].got = viewer[v].got
  BY <1>3 DEF Waits
<1>. QED  BY <1>2, <1>3, AsyncFrameFields

LEMMA CallMoves ==
  ASSUME DecodersOwned, [Next]_vars, NEW w \in Viewer
  PROVE  Moves(w)
<1>0. /\ TypeOK /\ viewer \in [Viewer -> ViewerState] /\ made \in Nat
  BY Sources DEF DecodersOwned, TypeOK
<1>1. ASSUME NEW v \in Viewer, Share(v)
      PROVE  Moves(w)
  <2>1. /\ seated \in Source /\ UNCHANGED <<seq, retired, seated>>
        /\ viewer' = [viewer EXCEPT ![v] = AsyncFrame(v, seated)]
    BY <1>0, <1>1, Sources DEF Share
  <2>. QED  BY <1>0, <2>1, AsyncFrameMoves, StaysSame DEF Moves
<1>2. ASSUME NEW v \in Viewer, Open(v)
      PROVE  Moves(w)
  <2>. DEFINE call == [viewer[v] EXCEPT !.at = "opening", !.source = made + 1]
  <2>1. viewer' = [viewer EXCEPT ![v] = call] /\ UNCHANGED retired /\ made' = made + 1
    BY <1>0, <1>2 DEF Open
  <2>2. /\ call.at = "opening" /\ call.source = made + 1
        /\ call.after = viewer[v].after /\ call.got = viewer[v].got
    BY <1>0 DEF ViewerState
  <2>. HIDE DEF call
  <2>3. Opens(v)
    BY <1>0, <2>1, <2>2 DEF Opens
  <2>. QED  BY <1>0, <2>1, <2>3, StaysSame DEF Moves
<1>3. ASSUME NEW v \in Viewer, Opened(v)
      PROVE  Moves(w)
  <2>1. /\ UNCHANGED <<seq, retired, seated>>
        /\ \/ /\ seated = viewer[v].source
              /\ viewer' = [viewer EXCEPT ![v] = AsyncFrame(v, viewer[v].source)]
           \/ viewer' = [viewer EXCEPT ![v] = Refused(v)]
    BY <1>3 DEF Opened
  <2>2. CASE viewer' = [viewer EXCEPT ![v] = Refused(v)]
    BY <1>0, <2>1, <2>2, RefusedFields, StaysSame DEF Moves, Ends
  <2>3. CASE /\ seated = viewer[v].source
             /\ viewer' = [viewer EXCEPT ![v] = AsyncFrame(v, seated)]
    <3>1. seated \in Source
      BY <1>0, <1>3, <2>3, Sources DEF Opened
    <3>. QED  BY <1>0, <2>1, <2>3, <3>1, AsyncFrameMoves, StaysSame DEF Moves
  <2>. QED  BY <2>1, <2>2, <2>3
<1>4. ASSUME NEW v \in Viewer, OpenFails(v)
      PROVE  Moves(w)
  <2>1. PICK s \in Source : s = viewer[v].source
    BY <1>0, <1>4, Sources DEF OpenFails
  <2>2. /\ frame' = [frame EXCEPT ![s] = NoFrame] /\ UNCHANGED retired
        /\ viewer' = [Woken(s) EXCEPT ![v] = Refused(v)]
    BY <1>4, <2>1 DEF OpenFails
  <2>3. frame'[s] = NoFrame
    BY <1>0, <2>2 DEF TypeOK
  <2>4. Woken(s) \in [Viewer -> ViewerState]
    BY <1>0, WokenCalls
  <2>5. CASE w = v
    BY <1>0, <2>2, <2>4, <2>5, RefusedFields DEF Moves, Ends
  <2>6. CASE w # v
    <3>1. viewer'[w] = Woken(s)[w]
      BY <2>2, <2>4, <2>6
    <3>. QED  BY <1>0, <2>2, <2>3, <3>1, StaysWoken DEF Moves
  <2>. QED  BY <2>5, <2>6
<1>5. ASSUME NEW v \in Viewer, Wake(v) \/ GiveUp(v)
      PROVE  Moves(w)
  <2>1. PICK s \in 1 .. made : s = viewer[v].source
    BY <1>0, <1>5 DEF Wake, GiveUp, TypeOK
  <2>2. /\ UNCHANGED <<seq, retired>>
        /\ \/ viewer' = [viewer EXCEPT ![v] = Answered(v, s)]
           \/ viewer' = [viewer EXCEPT ![v] = Refused(v)]
    BY <1>5, <2>1 DEF Wake, GiveUp, source
  <2>3. s \in Source
    BY <1>0, <2>1, Sources
  <2>4. CASE w = v
    BY <1>0, <2>2, <2>3, <2>4, AnsweredFields, RefusedFields DEF Moves, Ends
  <2>5. CASE w # v
    BY <1>0, <2>2, <2>5, StaysSame DEF Moves
  <2>. QED  BY <2>4, <2>5
<1>6. ASSUME NEW s \in Source, Picture(s) \/ ReaderEnds(s) \/ StopBegins(s)
      PROVE  Moves(w)
  <2>1. /\ viewer' = Woken(s)
        /\ retired' = retired \/ retired' = [retired EXCEPT ![s] = TRUE]
    BY <1>6 DEF Picture, ReaderEnds, StopBegins
  <2>2. seq'[s] > seq[s] \/ frame'[s] = NoFrame
    BY <1>0, <1>6, StillsAssumption DEF Picture, ReaderEnds, StopBegins, TypeOK
  <2>. QED  BY <1>0, <2>1, <2>2, StaysWoken DEF Moves
<1>7. ASSUME UNCHANGED <<viewer, retired>>
      PROVE  Moves(w)
  BY <1>0, <1>7, StaysSame DEF Moves
<1>8. ASSUME NEW s \in Source, Exit(s) \/ StopEnds(s) \/ Retire(s)
      PROVE  Moves(w)
  BY <1>7, <1>8 DEF Exit, StopEnds, Retire
<1>9. ASSUME Shutdown \/ Stopped \/ UNCHANGED vars
      PROVE  Moves(w)
  BY <1>7, <1>9 DEF Shutdown, Stopped, Retire, vars, source
<1>10. ASSUME Tick
       PROVE  Moves(w)
  <2>1. /\ viewer'[w].at = viewer[w].at /\ viewer'[w].source = viewer[w].source
        /\ viewer'[w].after = viewer[w].after /\ viewer'[w].got = viewer[w].got
        /\ viewer'[w].ready = viewer[w].ready
    BY <1>0, <1>10 DEF Tick, ViewerState
  <2>. QED  BY <1>10, <2>1 DEF Tick, Moves, Stays
<1>11. Moves(w)
  BY <1>1, <1>2, <1>3, <1>4, <1>5, <1>6, <1>8, <1>9, <1>10
     DEF Next, Ask, Go, Decode, Clean, Reap, Drop
<1>. QED  BY <1>11

--------------------------------------------------------------------------------
(* The decoders *)

\* What the openers wait on stays a spawn of their own.
LEMMA StartingStays ==
  ASSUME DecodersOwned, [Next]_vars, NEW v \in Viewer,
         viewer[v].at = "opening", viewer'[v].at = "opening",
         viewer'[v].source = viewer[v].source
  PROVE  process'[viewer[v].source] = "starting"
<1>. DEFINE Goal == process'[viewer[v].source] = "starting"
<1>0. /\ TypeOK /\ viewer[v].source \in Source /\ viewer[v].source <= made
      /\ process[viewer[v].source] = "starting" /\ made \in Nat
      /\ process \in [Source -> {"none", "starting", "alive", "dead"}]
      /\ viewer \in [Viewer -> ViewerState]
  BY Sources DEF DecodersOwned, OpenersOwn, TypeOK
<1>1. ASSUME UNCHANGED process
      PROVE  Goal
  BY <1>0, <1>1
<1>2. ASSUME NEW w \in Viewer, Open(w)
      PROVE  Goal
  <2>1. viewer[v].source # made + 1
    BY <1>0 DEF Source
  <2>. QED  BY <1>0, <1>2, <2>1 DEF Open
<1>3. ASSUME NEW w \in Viewer, Opened(w) \/ OpenFails(w)
      PROVE  Goal
  <2>1. w # v
    <3>1. SUFFICES ASSUME w = v
                   PROVE  FALSE
      OBVIOUS
    <3>2. viewer[v].source = seated \/ viewer[v].source # seated
      OBVIOUS
    <3>3. CASE OpenFails(v)
      <4>1. Woken(viewer[v].source) \in [Viewer -> ViewerState]
        BY <1>0, WokenCalls
      <4>. QED  BY <1>0, <3>3, <4>1, RefusedFields DEF OpenFails
    <3>4. CASE Opened(v)
      BY <1>0, <3>4, RefusedFields, AsyncFrameFields, AnsweredFields DEF Opened
    <3>. QED  BY <1>3, <3>1, <3>3, <3>4
  <2>2. viewer[w].source # viewer[v].source
    BY <1>3, <2>1 DEF Opened, OpenFails, DecodersOwned, OpenersOwn
  <2>. QED  BY <1>0, <1>3, <2>2 DEF Opened, OpenFails, Started
<1>4. ASSUME NEW s \in Source, Exit(s) \/ StopEnds(s)
      PROVE  Goal
  <2>1. process[s] # "starting"
    BY <1>4 DEF Exit, StopEnds, DecodersOwned, StopsMatch
  <2>. QED  BY <1>0, <1>4, <2>1 DEF Exit, StopEnds
<1>5. ASSUME \/ \E w \in Viewer : Share(w) \/ Wake(w) \/ GiveUp(w)
             \/ \E s \in Source : Picture(s) \/ ReaderEnds(s) \/ StopBegins(s) \/ Retire(s)
             \/ Shutdown \/ Stopped \/ Tick \/ UNCHANGED vars
      PROVE  Goal
  BY <1>1, <1>5 DEF Share, Wake, GiveUp, Picture, ReaderEnds, StopBegins, Retire, Shutdown, Stopped, Tick, vars, source
<1>. HIDE DEF Goal
<1>6. Goal
  BY <1>2, <1>3, <1>4, <1>5 DEF Next, Ask, Go, Decode, Clean, Reap, Drop
<1>. QED  BY <1>6 DEF Goal

\* The decoder of a call that opens is being started in this step.
LEMMA OpensStarts ==
  ASSUME DecodersOwned, [Next]_vars, NEW v \in Viewer, viewer'[v].at = "opening"
  PROVE  \/ /\ viewer[v].at = "opening" /\ viewer'[v].source = viewer[v].source
            /\ ~Opens(v)
         \/ Opens(v) /\ process'[made + 1] = "starting"
<1>0. /\ TypeOK /\ process \in [Source -> {"none", "starting", "alive", "dead"}]
      /\ viewer \in [Viewer -> ViewerState] /\ made \in Nat
  BY Sources DEF DecodersOwned, TypeOK
<1>1. CASE Opens(v)
  <2>1. \E w \in Viewer : Open(w)
    BY <1>0, <1>1 DEF Opens, Next, Ask, Go, Decode, Clean, Reap, Drop, Share, Opened, OpenFails, Wake, GiveUp, Picture, Exit, ReaderEnds, StopBegins, StopEnds, Retire, Shutdown, Stopped, Tick, vars, source
  <2>2. made + 1 \in Source
    BY <1>0, <2>1, StillsAssumption DEF Open, Source
  <2>. QED  BY <1>0, <1>1, <2>1, <2>2 DEF Open
<1>2. CASE ~Opens(v)
  BY <1>2, CallMoves DEF Moves, Stays, Ends, Waits
<1>. QED  BY <1>1, <1>2

LEMMA OpenersStep ==
  ASSUME DecodersOwned, [Next]_vars
  PROVE  OpenersOwn'
<1>0. TypeOK /\ OpenersOwn /\ made \in Nat
  BY Sources DEF DecodersOwned
<1>1. ASSUME NEW v \in Viewer, viewer'[v].at = "opening"
      PROVE  process'[viewer'[v].source] = "starting"
  BY <1>1, OpensStarts, StartingStays DEF Opens
<1>2. ASSUME NEW v \in Viewer, NEW w \in Viewer,
             viewer'[v].at = "opening", viewer'[w].at = "opening",
             viewer'[v].source = viewer'[w].source
      PROVE  v = w
  <2>1. ASSUME NEW x \in Viewer, NEW y \in Viewer, x # y, Opens(x), viewer'[y].at = "opening"
        PROVE  viewer'[x].source # viewer'[y].source
    <3>1. viewer'[y] = viewer[y] /\ viewer'[x].source = made + 1
      BY <2>1 DEF Opens
    <3>2. viewer[y].source <= made /\ viewer[y].source \in Nat
      BY <1>0, <2>1, <3>1, Sources DEF Source
    <3>. QED  BY <1>0, <3>1, <3>2
  <2>. QED  BY <1>0, <1>2, <2>1, OpensStarts DEF OpenersOwn
<1>. QED  BY <1>1, <1>2 DEF OpenersOwn

\* Whoever waits on a source when it is retired is woken; nobody begins to after.
LEMMA ToldStep ==
  ASSUME DecodersOwned, [Next]_vars
  PROVE  StoppedIsToldAtOnce'
<1>. SUFFICES ASSUME NEW v \in Viewer, viewer'[v].at = "awaiting", retired'[viewer'[v].source]
              PROVE  viewer'[v].ready
  BY DEF StoppedIsToldAtOnce
<1>1. CASE Stays(v)
  BY <1>1 DEF Stays, DecodersOwned, StoppedIsToldAtOnce
<1>2. CASE Waits(v)
  BY <1>2 DEF Waits, DecodersOwned, StopsMatch
<1>. QED  BY <1>1, <1>2, CallMoves DEF Moves, Ends, Opens

LEMMA DecodersOwnedHolds == Spec => []DecodersOwned
<1>1. Init => DecodersOwned
  <2>. SUFFICES ASSUME Init
                PROVE  DecodersOwned
    OBVIOUS
  <2>1. PICK kind \in BOOLEAN : viewer = [v \in Viewer |-> NewViewer(kind)]
    BY StillsAssumption DEF Init
  <2>2. \A v \in Viewer : viewer[v] \in ViewerState /\ viewer[v].at = "idle"
    <3>1. /\ 0 \in 0 .. MaxPictures /\ 0 \in Nat
          /\ [source |-> None, seq |-> 0] \in [source : Source \cup {None}, seq : 0 .. MaxPictures]
      BY StillsAssumption
    <3>2. NewViewer(kind) \in ViewerState /\ NewViewer(kind).at = "idle"
      BY <3>1 DEF NewViewer, ViewerState
    <3>. QED  BY <2>1, <3>2
  <2>3. viewer \in [Viewer -> ViewerState]
    BY <2>1, <2>2
  <2>4. TypeOK
    BY <2>2, <2>3, StillsAssumption DEF Init, TypeOK, NoFrame, None
  <2>. QED  BY <2>2, <2>4 DEF Init, DecodersOwned, MadeInOrder, StopsMatch, OpenersOwn, NoOrphan, StoppedIsToldAtOnce, None, Source
<1>2. DecodersOwned /\ [Next]_vars => DecodersOwned'
  BY TypeStep, OwnersStep, OpenersStep, ToldStep DEF DecodersOwned
<1>. QED  BY <1>1, <1>2, PTL DEF Spec

\* Every decoder has somebody to end it, however many viewers open, share, give up
\* and come back: the table, a stop under way, or its own start.
THEOREM NoDecoderOrphaned == Spec => []NoOrphan
BY DecodersOwnedHolds, PTL DEF DecodersOwned

\* A source that is stopped has woken everyone who waited on it in that same step,
\* and nobody begins to wait on it afterwards.
THEOREM StoppedAlwaysTold == Spec => []StoppedIsToldAtOnce
BY DecodersOwnedHolds, PTL DEF DecodersOwned

\* Every variable keeps its type, for any number of viewers and sources and whatever
\* the timeouts: a source's number is never one that was not made, and a request that
\* waits names the source it waits for.
THEOREM StillsTyped == Spec => []TypeOK
BY DecodersOwnedHolds, PTL DEF DecodersOwned

--------------------------------------------------------------------------------
(* The pictures of a preview *)

\* What a call names is a picture of a source made by then, no newer than what that
\* source decoded; and once it is woken with a picture of the same source held, that
\* is a newer one.
CallMovesOn(call) ==
  /\ call.after = call.got.seq
  /\ call.got.source <= made
  /\ call.got.source # None => call.got.seq <= seq[call.got.source]
  /\ call.at # "idle" => call.got.source <= call.source
  /\ call.at = "awaiting" /\ call.ready /\ call.source = call.got.source
       /\ frame[call.source] # NoFrame
       => seq[call.source] > call.got.seq

CallsMoveOn == \A v \in Viewer : CallMovesOn(viewer[v])

\* Pictures are only added, and a source that holds none is given none but a new one.
LEMMA SourcesMoveOn ==
  ASSUME TypeOK, [Next]_vars, NEW s \in Source
  PROVE  /\ made' >= made /\ seq'[s] >= seq[s]
         /\ frame'[s] # NoFrame => frame[s] # NoFrame \/ seq'[s] > seq[s]
<1>. DEFINE Goal == /\ made' >= made /\ seq'[s] >= seq[s]
                    /\ frame'[s] # NoFrame => frame[s] # NoFrame \/ seq'[s] > seq[s]
<1>0. /\ made \in Nat /\ MaxPictures \in Nat
      /\ seq \in [Source -> 0 .. MaxPictures] /\ seq[s] \in Nat
      /\ frame \in [Source -> NoFrame .. MaxAge + 1]
  BY StillsAssumption DEF TypeOK
<1>1. ASSUME made' = made \/ made' = made + 1, UNCHANGED seq,
             frame'[s] # NoFrame => frame[s] # NoFrame
      PROVE  Goal
  BY <1>0, <1>1
<1>2. ASSUME NEW v \in Viewer,
             Share(v) \/ Open(v) \/ Opened(v) \/ OpenFails(v) \/ Wake(v) \/ GiveUp(v)
      PROVE  Goal
  BY <1>0, <1>1, <1>2 DEF Share, Open, Opened, OpenFails, Wake, GiveUp, source
<1>3. ASSUME NEW x \in Source, Picture(x)
      PROVE  Goal
  BY <1>0, <1>3 DEF Picture
<1>4. ASSUME NEW x \in Source,
             Exit(x) \/ ReaderEnds(x) \/ StopBegins(x) \/ StopEnds(x) \/ Retire(x)
      PROVE  Goal
  BY <1>0, <1>1, <1>4 DEF Exit, ReaderEnds, StopBegins, StopEnds, Retire
<1>5. ASSUME Shutdown \/ Stopped \/ Tick \/ UNCHANGED vars
      PROVE  Goal
  BY <1>0, <1>1, <1>5 DEF Shutdown, Stopped, Tick, Retire, vars, source
<1>. HIDE DEF Goal
<1>6. Goal
  BY <1>2, <1>3, <1>4, <1>5 DEF Next, Ask, Go, Decode, Clean, Reap, Drop
<1>. QED  BY <1>6 DEF Goal

LEMMA CallsMoveOnStep ==
  ASSUME DecodersOwned, CallsMoveOn, [Next]_vars
  PROVE  CallsMoveOn'
<1>. SUFFICES ASSUME NEW v \in Viewer
              PROVE  CallMovesOn(viewer[v])'
  BY DEF CallsMoveOn
<1>0. /\ TypeOK /\ TypeOK' /\ CallMovesOn(viewer[v]) /\ made \in Nat /\ made' \in Nat
      /\ viewer[v].got.source \in Source \cup {None} /\ viewer[v].got.seq \in Nat
      /\ viewer[v].at # "idle" => viewer[v].source \in Source
      /\ \A s \in Source : seq[s] \in Nat /\ seq'[s] \in Nat
  <2>1. TypeOK /\ TypeOK' /\ viewer[v] \in ViewerState
    BY TypeStep DEF DecodersOwned, TypeOK
  <2>. QED  BY <2>1, Sources, StillsAssumption DEF CallsMoveOn, ViewerState, TypeOK
<1>1. /\ made' >= made
      /\ \A s \in Source :
           /\ seq'[s] >= seq[s]
           /\ frame'[s] # NoFrame => frame[s] # NoFrame \/ seq'[s] > seq[s]
  <2>1. \A s \in Source : made' >= made
    BY <1>0, SourcesMoveOn
  <2>2. Source = {} => made' = made
    BY <1>0, StillsAssumption DEF Source, TypeOK
  <2>. QED  BY <1>0, <2>1, <2>2, SourcesMoveOn
<1>2. CASE Stays(v)
  <2>1. viewer'[v].got.source <= made'
    BY <1>0, <1>1, <1>2 DEF Stays, CallMovesOn, Source, None
  <2>2. viewer'[v].got.source # None => viewer'[v].got.seq <= seq'[viewer'[v].got.source]
    BY <1>0, <1>1, <1>2 DEF Stays, CallMovesOn
  <2>3. viewer'[v].at # "idle" => viewer'[v].got.source <= viewer'[v].source
    BY <1>0, <1>2 DEF Stays, CallMovesOn
  <2>4. ASSUME viewer'[v].at = "awaiting", viewer'[v].ready,
               viewer'[v].source = viewer'[v].got.source, frame'[viewer'[v].source] # NoFrame
        PROVE  seq'[viewer'[v].source] > viewer'[v].got.seq
    <3>1. PICK s \in Source : /\ s = viewer[v].source /\ s = viewer[v].got.source
                              /\ viewer'[v].source = s /\ viewer'[v].got = viewer[v].got
                              /\ viewer[v].at = "awaiting"
      BY <1>0, <1>2, <2>4 DEF Stays
    <3>2. s # None /\ viewer[v].got.seq <= seq[s] /\ frame'[s] # NoFrame
      BY <1>0, <2>4, <3>1 DEF CallMovesOn, Source, None
    <3>3. CASE seq'[s] > seq[s]
      BY <1>0, <3>1, <3>2, <3>3
    <3>4. CASE ~(seq'[s] > seq[s])
      <4>1. viewer[v].ready /\ frame[s] # NoFrame
        BY <1>1, <1>2, <2>4, <3>1, <3>2, <3>4 DEF Stays
      <4>2. seq[s] > viewer[v].got.seq
        BY <1>0, <3>1, <4>1 DEF CallMovesOn
      <4>. QED  BY <1>0, <1>1, <3>1, <4>2
    <3>. QED  BY <3>3, <3>4
  <2>. QED  BY <1>0, <1>2, <2>1, <2>2, <2>3, <2>4 DEF Stays, CallMovesOn
<1>3. CASE Ends(v)
  <2>1. CASE viewer'[v].got.source = None /\ viewer'[v].got.seq = 0
    BY <1>0, <1>3, <2>1 DEF Ends, CallMovesOn, None
  <2>2. ASSUME NEW s \in 1 .. made, viewer'[v].got.source = s, viewer'[v].got.seq = seq[s],
               UNCHANGED seq
        PROVE  CallMovesOn(viewer[v])'
    <3>1. s \in Source /\ s <= made'
      BY <1>0, <1>1, Sources
    <3>. QED  BY <1>0, <1>3, <2>2, <3>1 DEF Ends, CallMovesOn
  <2>. QED  BY <1>3, <2>1, <2>2 DEF Ends
<1>4. CASE Waits(v)
  <2>1. seated = made
    BY <1>4 DEF Waits, DecodersOwned, MadeInOrder, Source, None
  <2>. QED  BY <1>0, <1>1, <1>4, <2>1 DEF Waits, CallMovesOn, Source, None
<1>5. CASE Opens(v)
  BY <1>0, <1>1, <1>5 DEF Opens, CallMovesOn, Source, None
<1>. QED  BY <1>2, <1>3, <1>4, <1>5, CallMoves DEF Moves

\* A preview that is answered gets a newer picture than its last, or one of a later
\* source: through decoders that end, sources that are reaped and calls that give up
\* it never goes back and never sees the same picture twice.
THEOREM PicturesAlwaysMoveOn == Spec => PicturesMoveOn
<1>. DEFINE Moved == \A v \in Viewer :
       LET old == viewer[v].got
           new == viewer'[v].got
       IN  (Share(v) \/ Wake(v)) /\ viewer'[v].at = "idle" /\ viewer'[v].after > 0 =>
             \/ new.source > old.source
             \/ new.source = old.source /\ new.seq > old.seq
<1>1. Init => CallsMoveOn
  <2>. SUFFICES ASSUME Init, NEW v \in Viewer
                PROVE  CallMovesOn(viewer[v])
    BY DEF CallsMoveOn
  <2>1. PICK kind : viewer[v] = NewViewer(kind)
    BY DEF Init
  <2>. QED  BY <2>1 DEF Init, NewViewer, CallMovesOn, None
<1>2. Spec => []CallsMoveOn
  BY <1>1, CallsMoveOnStep, DecodersOwnedHolds, PTL DEF Spec
<1>3. ASSUME DecodersOwned, CallsMoveOn
      PROVE  Moved
  <2>. SUFFICES ASSUME NEW v \in Viewer, Share(v) \/ Wake(v),
                       viewer'[v].at = "idle", viewer'[v].after > 0
                PROVE  \/ viewer'[v].got.source > viewer[v].got.source
                       \/ /\ viewer'[v].got.source = viewer[v].got.source
                          /\ viewer'[v].got.seq > viewer[v].got.seq
    OBVIOUS
  <2>0. /\ TypeOK /\ CallMovesOn(viewer[v]) /\ made \in Nat
        /\ viewer \in [Viewer -> ViewerState]
        /\ viewer[v].got.source \in Source \cup {None}
    <3>1. TypeOK /\ viewer[v] \in ViewerState /\ viewer \in [Viewer -> ViewerState]
      BY <1>3 DEF DecodersOwned, TypeOK
    <3>. QED  BY <1>3, <3>1, Sources DEF CallsMoveOn, ViewerState
  <2>1. ASSUME NEW s \in Source, viewer'[v] = Answered(v, s), s >= viewer[v].got.source,
               s = viewer[v].got.source => seq[s] > viewer[v].got.seq
        PROVE  \/ viewer'[v].got.source > viewer[v].got.source
               \/ /\ viewer'[v].got.source = viewer[v].got.source
                  /\ viewer'[v].got.seq > viewer[v].got.seq
    <3>1. viewer'[v].got.source = s /\ viewer'[v].got.seq = seq[s]
      BY <2>0, <2>1, AnsweredFields
    <3>. QED  BY <2>0, <2>1, <3>1 DEF Source, None
  <2>2. CASE Share(v)
    <3>1. seated \in Source /\ seated = made /\ viewer'[v] = AsyncFrame(v, seated)
      BY <1>3, <2>0, <2>2, Sources DEF Share, DecodersOwned, MadeInOrder
    <3>2. Newer(v, seated) /\ viewer'[v] = Answered(v, seated)
      BY <2>0, <3>1, AsyncFrameFields
    <3>. QED  BY <2>0, <2>1, <3>1, <3>2 DEF Newer, CallMovesOn
  <2>3. CASE Wake(v)
    <3>1. PICK s \in Source : s = viewer[v].source
      BY <2>0, <2>3, Sources DEF Wake
    <3>2. viewer'[v] = IF frame[s] # NoFrame THEN Answered(v, s) ELSE Refused(v)
      BY <2>0, <2>3, <3>1 DEF Wake
    <3>3. frame[s] # NoFrame /\ viewer'[v] = Answered(v, s)
      BY <2>0, <3>2, RefusedFields
    <3>4. s >= viewer[v].got.source /\ (s = viewer[v].got.source => seq[s] > viewer[v].got.seq)
      BY <2>0, <2>3, <3>1, <3>3 DEF Wake, CallMovesOn, Source, None
    <3>. QED  BY <2>1, <3>1, <3>3, <3>4
  <2>. QED  BY <2>2, <2>3
<1>4. DecodersOwned /\ CallsMoveOn => [Moved]_vars
  BY <1>3
<1>. QED  BY <1>2, <1>4, DecodersOwnedHolds, PTL DEF PicturesMoveOn
================================================================================
