------------------------------ MODULE StreamMuxer ------------------------------
(***************************************************************************)
(* The clock of bridge/mux.py's StreamMuxer: how _stamp turns the camera's *)
(* device timestamps, which start anywhere, repeat, go back and restart,   *)
(* into the timestamps of one container with up to two tracks.  There is   *)
(* one muxer per reader; packets themselves are left out.                  *)
(***************************************************************************)
EXTENDS Integers

CONSTANTS
  Timestamp,      \* the device timestamps a unit may carry
  Sentinel,       \* _SENTINEL_TS: the device did not know the time
  Discontinuity,  \* _DISCONTINUITY_MS
  MaxStamp,       \* _MAX_TS_MS
  Track,          \* the tracks of the container
  Horizon         \* bound: nothing is written past this output time

Kind == {"video", "audio"}

ASSUME MuxerAssumption ==
  /\ Timestamp \subseteq Int
  /\ Sentinel \in Int /\ Horizon \in Int
  /\ Discontinuity \in Nat \ {0} /\ MaxStamp \in Nat \ {0}
  /\ Track \subseteq Kind

VARIABLES
  anchored,    \* whether _offset and _last_input are set; both are, or neither
  offset,      \* _offset
  lastInput,   \* _last_input
  lastOutput,  \* _last_output, with -1 for a track that has none yet
  written      \* the track and stamp of the unit just written, if it was

vars == <<anchored, offset, lastInput, lastOutput, written>>

Nothing == [kind |-> "none", stamp |-> -1]

Init ==
  /\ anchored = FALSE
  /\ offset = 0
  /\ lastInput = 0
  /\ lastOutput = [k \in Kind |-> -1]
  /\ written = Nothing

\* max(self._last_output.values(), default=0)
Furthest ==
  LET v == lastOutput["video"]
      a == lastOutput["audio"]
  IN  IF v < 0 /\ a < 0 THEN 0 ELSE IF v < a THEN a ELSE v

Refused(ts) == ts = Sentinel \/ ts < 0

\* Mutation: only a clock that went back is taken for restarted.
RestartedBackwards(ts) == lastInput - ts > Discontinuity

\* The device clock restarted: a jump too long to be a gap in delivery.
Restarted(ts) ==
  ts - lastInput > Discontinuity \/ lastInput - ts > Discontinuity

Rebased(ts) ==
  IF ~anchored THEN ts
  ELSE IF Restarted(ts) THEN ts - (Furthest + 1)
  ELSE offset

\* Mutation: a repeated stamp is let through.
AdvancedUnlessEqual(stamp, kind) ==
  IF stamp < lastOutput[kind] THEN lastOutput[kind] + 1 ELSE stamp

\* A stamp that would not move its track forward becomes the next one that does.
Advanced(stamp, kind) ==
  IF stamp <= lastOutput[kind] THEN lastOutput[kind] + 1 ELSE stamp

\* Mutation: a refused timestamp is remembered all the same.
DropRemembers(ts) ==
  /\ Refused(ts)
  /\ lastInput' = ts
  /\ written' = Nothing
  /\ UNCHANGED <<anchored, offset, lastOutput>>

Drop(ts) ==
  /\ Refused(ts)
  /\ written' = Nothing
  /\ UNCHANGED <<anchored, offset, lastInput, lastOutput>>

Anchor(ts) ==
  /\ ~Refused(ts)
  /\ offset' = Rebased(ts)
  /\ lastInput' = ts
  /\ anchored' = TRUE

\* The rebased stamp is unusable: the clock has moved, the track has not.
Misfit(ts) ==
  /\ Anchor(ts)
  /\ ts - Rebased(ts) < 0 \/ ts - Rebased(ts) >= MaxStamp
  /\ written' = Nothing
  /\ UNCHANGED lastOutput

\* Mutation: a stamp before the container's start is written as it is.
EmitNegative(ts, kind) ==
  /\ Anchor(ts)
  /\ ts - Rebased(ts) < MaxStamp
  /\ written' = [kind |-> kind, stamp |-> ts - Rebased(ts)]
  /\ lastOutput' = [lastOutput EXCEPT ![kind] = written'.stamp]

Emit(ts, kind) ==
  /\ Anchor(ts)
  /\ ts - Rebased(ts) >= 0 /\ ts - Rebased(ts) < MaxStamp
  /\ written' = [kind |-> kind, stamp |-> Advanced(ts - Rebased(ts), kind)]
  /\ lastOutput' = [lastOutput EXCEPT ![kind] = written'.stamp]

Next ==
  \E ts \in Timestamp :
    \/ Drop(ts)
    \/ Misfit(ts)
    \/ Furthest < Horizon /\ \E kind \in Track : Emit(ts, kind)

Spec == Init /\ [][Next]_vars
--------------------------------------------------------------------------------
\* Every variable keeps its type: a container's time never starts before zero.
TypeOK ==
  /\ anchored \in BOOLEAN
  /\ offset \in Int
  /\ lastInput \in Int
  /\ lastOutput \in [Kind -> Nat \cup {-1}]
  /\ written \in [kind : Kind, stamp : Nat] \cup {Nothing}

\* What is written moves its track strictly forward, whatever the device clock
\* does: "a single repeat is enough to make the muxer reject the packet".
TracksAdvance ==
  [][written' # Nothing =>
       /\ written'.stamp > lastOutput[written'.kind]
       /\ lastOutput'[written'.kind] = written'.stamp]_vars

\* Nothing is written further past what both tracks have reached than a gap in
\* delivery may be long, so a clock that jumps never puts an empty hour into
\* the container.
NoLeap == [][\A k \in Kind : lastOutput'[k] <= Furthest + Discontinuity]_vars

\* Why: the device's present, rebased, is no later than the furthest output,
\* except where stamps stop fitting.
PresentIsReached ==
  anchored => \/ lastInput - offset <= Furthest
              \/ Furthest >= MaxStamp - Discontinuity

MuxerInductive == TypeOK /\ PresentIsReached
================================================================================
