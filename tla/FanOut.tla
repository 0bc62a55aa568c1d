-------------------------------- MODULE FanOut ---------------------------------
(***************************************************************************)
(* How one camera session's units reach its readers: CameraSession._fan_out *)
(* puts each unit into every consumer's bounded queue, and ApiServer._pump  *)
(* takes them out, hands them to the reader's muxer and writes them to the  *)
(* response.  A unit carries its frame number; payloads are left out.  The  *)
(* session is open throughout, except for the teardowns.                    *)
(***************************************************************************)
EXTENDS Naturals, Sequences

CONSTANTS
  Reader,     \* requests for the stream
  Capacity,   \* _CONSUMER_QUEUE_SIZE
  MaxFrames,  \* bound: video units the camera sends
  MaxSounds,  \* bound: audio units the camera sends
  MaxJoins    \* bound: how often one reader comes (back)

ASSUME FanOutAssumption ==
  /\ Capacity \in Nat \ {0}
  /\ MaxFrames \in Nat /\ MaxSounds \in Nat /\ MaxJoins \in Nat

VARIABLES
  frames,      \* video units sent so far
  sounds,      \* audio units sent so far
  described,   \* _codec and _parameter_sets are known; they become so together
  audioKnown,  \* _audio_codec is not None
  consumer,    \* each reader's Consumer
  pump         \* where each reader's _pump stands, and its muxer's tracks

vars == <<frames, sounds, described, audioKnown, consumer, pump>>

Kind == {"key", "delta", "audio"}

\* n numbers the frame, or the frame before a sound; prepended says whether the
\* parameter sets are in front; described, whether the session knew any.
Unit == [kind : Kind, n : 0 .. MaxFrames, prepended : BOOLEAN, described : BOOLEAN]

NoUnit == [kind |-> "audio", n |-> 0, prepended |-> FALSE, described |-> FALSE]

IsVideo(u) == u.kind # "audio"

Consumer ==
  [subscribed : BOOLEAN, queue : Seq(Unit), closed : BOOLEAN,
   resyncing : BOOLEAN, needsParameters : BOOLEAN]

NoConsumer ==
  [subscribed |-> FALSE, queue |-> <<>>, closed |-> FALSE,
   resyncing |-> FALSE, needsParameters |-> TRUE]

\* hand is the unit asyncio.wait returned; last, the last video unit the muxer
\* was given, 0 before the first; primed, whether parameter sets came with it or
\* with the frames it follows on from.
Pump ==
  [at : {"out", "waiting", "holding", "writing"}, hasAudio : BOOLEAN,
   hand : Unit, last : 0 .. MaxFrames, primed : BOOLEAN, joins : 0 .. MaxJoins]

NoPump ==
  [at |-> "out", hasAudio |-> FALSE, hand |-> NoUnit, last |-> 0,
   primed |-> FALSE, joins |-> 0]

Init ==
  /\ frames = 0 /\ sounds = 0
  /\ described = FALSE /\ audioKnown = FALSE
  /\ consumer = [r \in Reader |-> NoConsumer]
  /\ pump = [r \in Reader |-> NoPump]
--------------------------------------------------------------------------------
\* QueueFull: what is queued is the middle of a group nobody will see the start of.
Overflow(c) == [c EXCEPT !.resyncing = TRUE, !.queue = <<>>]

\* Mutation: only joining readers are given the parameter sets.
ResumedUnprimed(c) == [c EXCEPT !.resyncing = FALSE]

Resumed(c) ==
  IF c.resyncing
  THEN [c EXCEPT !.resyncing = FALSE, !.needsParameters = TRUE]
  ELSE c

\* The body of the loop in _fan_out.  known is the session's knowledge once the
\* handler has read the unit.
Offer(c, u, known) ==
  LET d    == Resumed(c)
      sets == IsVideo(u) /\ d.needsParameters /\ known
      e    == IF sets THEN [d EXCEPT !.needsParameters = FALSE] ELSE d
  IN  IF Len(e.queue) = Capacity
      THEN Overflow(e)
      ELSE [e EXCEPT !.queue = Append(@, [u EXCEPT !.prepended = sets])]

\* Mutation: a reader that fell behind is sent whatever comes next.
SkippedNever(c, u, known) == FALSE

\* Until the codec is known no unit is seen to start a group.
Skipped(c, u, known) == c.resyncing /\ ~(u.kind = "key" /\ known)

FanOut(u, known) ==
  consumer' =
    [r \in Reader |->
       IF consumer[r].subscribed /\ ~Skipped(consumer[r], u, known)
       THEN Offer(consumer[r], u, known)
       ELSE consumer[r]]

\* _on_video.  A unit may carry parameter sets, from which the codec is read.
OnVideo(kind, carries) ==
  /\ frames < MaxFrames
  /\ frames' = frames + 1
  /\ described' = (described \/ carries)
  /\ FanOut([kind |-> kind, n |-> frames + 1, prepended |-> FALSE,
             described |-> described'], described')
  /\ UNCHANGED <<sounds, audioKnown, pump>>

\* _on_audio, with a codec that can be published; any other changes nothing.
OnAudio ==
  /\ sounds < MaxSounds
  /\ sounds' = sounds + 1
  /\ audioKnown' = TRUE
  /\ FanOut([kind |-> "audio", n |-> frames, prepended |-> FALSE,
             described |-> described], described)
  /\ UNCHANGED <<frames, described, pump>>

\* Mutation: the end of the session is a sentinel, lost on a full queue.
TeardownBySentinel ==
  /\ \E r \in Reader : consumer[r].subscribed
  /\ described' = FALSE /\ audioKnown' = FALSE
  /\ consumer' = [r \in Reader |->
       IF consumer[r].subscribed /\ Len(consumer[r].queue) < Capacity
       THEN [consumer[r] EXCEPT !.closed = TRUE, !.subscribed = FALSE]
       ELSE [consumer[r] EXCEPT !.subscribed = FALSE]]
  /\ UNCHANGED <<frames, sounds, pump>>

\* Mutation: the session forgets its consumers and does not close them.
TeardownForgets ==
  /\ \E r \in Reader : consumer[r].subscribed
  /\ described' = FALSE /\ audioKnown' = FALSE
  /\ UNCHANGED <<frames, sounds, consumer, pump>>

\* _teardown: what was learnt from the stream goes, and every consumer is closed.
Teardown ==
  /\ \E r \in Reader : consumer[r].subscribed
  /\ described' = FALSE /\ audioKnown' = FALSE
  /\ consumer' = [r \in Reader |->
       IF consumer[r].subscribed
       THEN [consumer[r] EXCEPT !.closed = TRUE, !.subscribed = FALSE]
       ELSE consumer[r]]
  /\ UNCHANGED <<frames, sounds, pump>>
--------------------------------------------------------------------------------
\* subscribe hands out a consumer once the parameter sets are known, and _stream
\* fixes the container's tracks at that moment.
Join(r) ==
  /\ pump[r].at = "out" /\ pump[r].joins < MaxJoins
  /\ described
  /\ consumer' = [consumer EXCEPT ![r] = [NoConsumer EXCEPT !.subscribed = TRUE]]
  /\ pump' = [pump EXCEPT ![r] = [NoPump EXCEPT
       !.at = "waiting", !.hasAudio = audioKnown, !.joins = pump[r].joins + 1]]
  /\ UNCHANGED <<frames, sounds, described, audioKnown>>

\* queue.get() came first.  A closed consumer's queue is not read any more: both
\* tasks are then done and the closing one wins.
Fetch(r) ==
  /\ pump[r].at = "waiting" /\ ~consumer[r].closed /\ consumer[r].queue # <<>>
  /\ pump' = [pump EXCEPT ![r].at = "holding", ![r].hand = Head(consumer[r].queue)]
  /\ consumer' = [consumer EXCEPT ![r].queue = Tail(@)]
  /\ UNCHANGED <<frames, sounds, described, audioKnown>>

\* The response ends: the consumer is discarded and its reader is gone.
Ended(r) ==
  /\ pump' = [pump EXCEPT ![r] = [NoPump EXCEPT !.joins = pump[r].joins]]
  /\ consumer' = [consumer EXCEPT ![r] = NoConsumer]
  /\ UNCHANGED <<frames, sounds, described, audioKnown>>

\* closed was seen: at once, or together with a unit, which is then dropped.
End(r) ==
  /\ pump[r].at \in {"waiting", "holding"} /\ consumer[r].closed
  /\ Ended(r)

\* A sound has come for a container that was built without an audio track.
LateAudio(r) ==
  pump[r].at = "holding" /\ ~IsVideo(pump[r].hand) /\ ~pump[r].hasAudio

EndLate(r) == LateAudio(r) /\ Ended(r)

\* muxer.write raises on a malformed unit, or the client disconnects.
Break(r) ==
  /\ pump[r].at \in {"holding", "writing"}
  /\ ~LateAudio(r)
  /\ Ended(r)

\* muxer.write, and the response waits for its client.
Write(r) ==
  LET u == pump[r].hand IN
  /\ pump[r].at = "holding" /\ ~LateAudio(r)
  /\ pump' = [pump EXCEPT
       ![r].at = "writing",
       ![r].last = IF IsVideo(u) THEN u.n ELSE @,
       ![r].primed = IF IsVideo(u) THEN u.prepended \/ (@ /\ u.n = pump[r].last + 1)
                                   ELSE @]
  /\ UNCHANGED <<frames, sounds, described, audioKnown, consumer>>

Written(r) ==
  /\ pump[r].at = "writing"
  /\ pump' = [pump EXCEPT ![r].at = "waiting", ![r].hand = NoUnit]
  /\ UNCHANGED <<frames, sounds, described, audioKnown, consumer>>

Serve(r) == Fetch(r) \/ End(r) \/ EndLate(r) \/ Write(r) \/ Written(r)

Camera == OnAudio \/ \E kind \in {"key", "delta"}, carries \in BOOLEAN : OnVideo(kind, carries)

Next == Camera \/ Teardown \/ \E r \in Reader : Join(r) \/ Serve(r) \/ Break(r)

Spec == Init /\ [][Next]_vars

\* The loop runs every pump that can run, and a client reads or is given up.
FairSpec == Spec /\ \A r \in Reader : WF_vars(Serve(r))
--------------------------------------------------------------------------------
\* The types, and the queues' bound.
TypeOK ==
  /\ frames \in 0 .. MaxFrames /\ sounds \in 0 .. MaxSounds
  /\ described \in BOOLEAN /\ audioKnown \in BOOLEAN
  /\ consumer \in [Reader -> Consumer] /\ pump \in [Reader -> Pump]
  /\ \A r \in Reader : Len(consumer[r].queue) <= Capacity

\* A frame follows the one before it, or starts a group: a muxer is never given
\* the rest of a group whose middle was lost.
NoTornGroup ==
  [][\A r \in Reader :
       pump'[r].last # pump[r].last /\ pump[r].last # 0 /\ pump'[r].last # 0 =>
         pump'[r].last = pump[r].last + 1 \/ pump[r].hand.kind = "key"]_vars

\* A frame sent while the session knew parameter sets reaches a decoder that has
\* them, after every join and after every gap.
DecoderHasParameters ==
  \A r \in Reader :
    pump[r].at = "writing" /\ IsVideo(pump[r].hand) /\ pump[r].hand.described
      => pump[r].primed

\* A response that ends because its container has no audio track ends only if
\* coming back gives it one.
LateAudioIsCured ==
  \A r \in Reader : LateAudio(r) => audioKnown \/ consumer[r].closed

\* A reader of a session that ended is gone in the end, its queue full or not.
ClosedReaderLeaves ==
  \A r \in Reader : (pump[r].at # "out" /\ ~consumer[r].subscribed) ~> pump[r].at = "out"
================================================================================
