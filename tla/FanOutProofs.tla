----------------------------- MODULE FanOutProofs ------------------------------
(***************************************************************************)
(* What FanOut guarantees for any number of readers, frames and sounds and *)
(* any capacity of the queues.  Everything rests on one fact: from the     *)
(* muxer through the hand of the pump to the end of the queue the frames    *)
(* follow one another, and what they lack in front is on its way.          *)
(***************************************************************************)
EXTENDS FanOut, SequenceTheorems, TLAPS

\* What a unit adds to the number of the frame before it.
Step(u) == IF IsVideo(u) THEN 1 ELSE 0

\* The last frame the muxer has been given once the hand is written, and whether a
\* decoder has the parameter sets for it.
HoldsVideo(p) == p.at = "holding" /\ IsVideo(p.hand)

Front(p) == IF HoldsVideo(p) THEN p.hand.n ELSE p.last

FrontPrimed(p) ==
  IF HoldsVideo(p)
  THEN p.hand.prepended \/ (p.primed /\ p.hand.n = p.last + 1)
  ELSE p.primed

\* The muxer has been given no frame and is not about to be.
Untouched(p) == p.last = 0 /\ ~HoldsVideo(p)

\* No frame is missing in a queue, nor after it.
InOrder(q, n) ==
  /\ \A i \in 1 .. Len(q) - 1 : q[i + 1].n = q[i].n + Step(q[i + 1])
  /\ q # <<>> => q[Len(q)].n = n

\* Parameter sets are in front of a frame and of every other frame queued.
SetsComeFirst(c) ==
  LET q == c.queue IN
  /\ \A i \in 1 .. Len(q) : q[i].prepended => IsVideo(q[i])
  /\ \A i, j \in 1 .. Len(q) : i < j /\ q[j].prepended => ~IsVideo(q[i])
  /\ c.needsParameters => \A i \in 1 .. Len(q) : ~IsVideo(q[i])

\* Where no sets are on their way, the queue goes on from what the muxer has.
FollowsOn(c, p, n) ==
  LET q == c.queue IN
  ~c.resyncing /\ ~c.needsParameters /\ (\A i \in 1 .. Len(q) : ~q[i].prepended) =>
    /\ FrontPrimed(p)
    /\ IF q = <<>> THEN n = Front(p) ELSE q[1].n = Front(p) + Step(q[1])

\* Only the first frames of all may be those of a group already begun.
FirstGroup(c, p) ==
  /\ ~c.resyncing /\ c.needsParameters => Untouched(p)
  /\ \A i \in 1 .. Len(c.queue) :
       c.queue[i].prepended /\ c.queue[i].kind # "key" => Untouched(p)

QueueSound(c, p, n, known) ==
  /\ c.resyncing => c.queue = <<>>
  /\ InOrder(c.queue, n)
  /\ SetsComeFirst(c)
  /\ FollowsOn(c, p, n)
  /\ FirstGroup(c, p)
  /\ known \/ \A i \in 1 .. Len(c.queue) : IsVideo(c.queue[i])

HandSound(p) ==
  /\ HoldsVideo(p) => FrontPrimed(p)
  /\ HoldsVideo(p) /\ p.hand.prepended /\ p.hand.kind # "key" => p.last = 0
  /\ p.at = "writing" /\ IsVideo(p.hand) => p.primed

\* A consumer of the session and the pump that empties it.
Served(c, p) ==
  /\ c.subscribed =>
       /\ described /\ ~c.closed /\ p.at # "out"
       /\ QueueSound(c, p, frames, audioKnown)
       /\ p.at = "holding" /\ ~IsVideo(p.hand) => audioKnown
  /\ p.at = "out" => p.last = 0
  /\ p.at # "out" => c.subscribed \/ c.closed
  /\ HandSound(p)

ReadersServed == \A r \in Reader : Served(consumer[r], pump[r])

--------------------------------------------------------------------------------
(* The queue *)

\* What the loop of _fan_out does to a consumer that is not skipped.
Offered(c, u, known, d) ==
  LET needs == c.needsParameters \/ c.resyncing
      sets == IsVideo(u) /\ needs /\ known
  IN  /\ d \in Consumer
      /\ d.subscribed = c.subscribed /\ d.closed = c.closed
      /\ (d.needsParameters <=> (needs /\ ~sets))
      /\ \/ Len(c.queue) = Capacity /\ d.resyncing /\ d.queue = <<>>
         \/ /\ Len(c.queue) # Capacity /\ ~d.resyncing
            /\ \E w \in Unit :
                 /\ w.kind = u.kind /\ w.n = u.n /\ (w.prepended <=> sets)
                 /\ d.queue = Append(c.queue, w)

LEMMA OfferEffect ==
  ASSUME NEW c \in Consumer, NEW u \in Unit, NEW known \in BOOLEAN
  PROVE  Offered(c, u, known, Offer(c, u, known))
<1>. DEFINE needs == c.needsParameters \/ c.resyncing
            sets == IsVideo(u) /\ needs /\ known
            w == [u EXCEPT !.prepended = sets]
<1>. c.queue \in Seq(Unit) /\ <<>> \in Seq(Unit)
  BY DEF Consumer
<1>1. PICK d \in Consumer :
        /\ d = Resumed(c) /\ d.subscribed = c.subscribed /\ d.closed = c.closed
        /\ ~d.resyncing /\ (d.needsParameters <=> needs) /\ d.queue = c.queue
  <2>1. CASE c.resyncing
    <3>. DEFINE d == [c EXCEPT !.resyncing = FALSE, !.needsParameters = TRUE]
    <3>1. /\ d \in Consumer /\ d.subscribed = c.subscribed /\ d.closed = c.closed
          /\ ~d.resyncing /\ d.needsParameters /\ d.queue = c.queue
      BY DEF Consumer
    <3>. QED  BY <2>1, <3>1 DEF Resumed
  <2>2. CASE ~c.resyncing
    BY <2>2 DEF Resumed, Consumer
  <2>. QED  BY <2>1, <2>2
<1>2. sets = (IsVideo(u) /\ d.needsParameters /\ known)
  BY <1>1
<1>3. PICK e \in Consumer :
        /\ e = IF sets THEN [d EXCEPT !.needsParameters = FALSE] ELSE d
        /\ e.subscribed = d.subscribed /\ e.closed = d.closed /\ ~e.resyncing
        /\ (e.needsParameters <=> (d.needsParameters /\ ~sets)) /\ e.queue = d.queue
  <2>1. CASE sets
    <3>. DEFINE e == [d EXCEPT !.needsParameters = FALSE]
    <3>1. /\ e \in Consumer /\ e.subscribed = d.subscribed /\ e.closed = d.closed
          /\ ~e.resyncing /\ ~e.needsParameters /\ e.queue = d.queue
      BY <1>1 DEF Consumer
    <3>. HIDE DEF sets
    <3>. QED  BY <2>1, <3>1
  <2>2. CASE ~sets
    BY <1>1, <2>2 DEF Consumer
  <2>. QED  BY <2>1, <2>2
<1>4. Offer(c, u, known) =
        IF Len(e.queue) = Capacity THEN Overflow(e)
        ELSE [e EXCEPT !.queue = Append(e.queue, w)]
  BY <1>1, <1>2, <1>3 DEF Offer
<1>5. sets \in BOOLEAN
  BY DEF IsVideo
<1>. HIDE DEF sets
<1>6. w \in Unit /\ w.kind = u.kind /\ w.n = u.n /\ (w.prepended <=> sets)
  BY <1>5 DEF Unit
<1>. HIDE DEF w
<1>7. CASE Len(e.queue) = Capacity
  <2>1. /\ Overflow(e) \in Consumer /\ Overflow(e).resyncing /\ Overflow(e).queue = <<>>
        /\ Overflow(e).subscribed = e.subscribed /\ Overflow(e).closed = e.closed
        /\ Overflow(e).needsParameters = e.needsParameters
    <3>1. Overflow(e) = [[e EXCEPT !.resyncing = TRUE] EXCEPT !.queue = <<>>]
      BY DEF Overflow
    <3>. QED  BY <3>1 DEF Consumer
  <2>. QED  BY <1>1, <1>3, <1>4, <1>7, <2>1 DEF Offered, sets
<1>8. CASE Len(e.queue) # Capacity
  <2>. DEFINE f == [e EXCEPT !.queue = Append(e.queue, w)]
  <2>1. Append(e.queue, w) \in Seq(Unit)
    BY <1>6 DEF Consumer
  <2>2. /\ f \in Consumer /\ ~f.resyncing /\ f.queue = Append(e.queue, w)
        /\ f.subscribed = e.subscribed /\ f.closed = e.closed
        /\ f.needsParameters = e.needsParameters
    BY <1>3, <2>1 DEF Consumer
  <2>3. Offer(c, u, known) = f
    BY <1>4, <1>8
  <2>. HIDE DEF f
  <2>4. (f.needsParameters <=> (needs /\ ~sets))
    BY <1>1, <1>3, <2>2
  <2>. QED  BY <1>1, <1>3, <1>6, <1>8, <2>2, <2>3, <2>4 DEF Offered, sets
<1>. QED  BY <1>7, <1>8

\* A queue that was emptied promises nothing until a group starts.
LEMMA EmptiedIsSound ==
  ASSUME NEW c, c.resyncing, c.queue = <<>>, NEW p, NEW n, NEW heard
  PROVE  QueueSound(c, p, n, heard)
BY DEF QueueSound, InOrder, SetsComeFirst, FollowsOn, FirstGroup

\* The unit that joins the queue follows the one before it, brings the sets if they
\* are still owed, and after a gap it is the start of a group.
LEMMA OfferKeepsSound ==
  ASSUME NEW c \in Consumer, NEW u \in Unit, NEW p \in Pump, NEW n \in Nat, NEW heard,
         NEW heardNow, heard => heardNow, IsVideo(u) \/ heardNow,
         u.n = n + Step(u), QueueSound(c, p, n, heard), ~Skipped(c, u, TRUE)
  PROVE  QueueSound(Offer(c, u, TRUE), p, u.n, heardNow)
<1>. DEFINE d == Offer(c, u, TRUE)
            needs == c.needsParameters \/ c.resyncing
            sets == IsVideo(u) /\ needs
<1>1. /\ d \in Consumer /\ (d.needsParameters <=> (needs /\ ~sets))
      /\ \/ Len(c.queue) = Capacity /\ d.resyncing /\ d.queue = <<>>
         \/ /\ ~d.resyncing
            /\ \E w \in Unit :
                 /\ w.kind = u.kind /\ w.n = u.n /\ (w.prepended <=> sets)
                 /\ d.queue = Append(c.queue, w)
  <2>1. Offered(c, u, TRUE, d)
    BY OfferEffect
  <2>. HIDE DEF d
  <2>. QED  BY <2>1 DEF Offered
<1>. HIDE DEF d
<1>2. ASSUME d.resyncing, d.queue = <<>>
      PROVE  QueueSound(d, p, u.n, heardNow)
  BY <1>2, EmptiedIsSound
<1>3. ASSUME ~d.resyncing, NEW w \in Unit, w.kind = u.kind, w.n = u.n, w.prepended <=> sets,
             d.queue = Append(c.queue, w)
      PROVE  QueueSound(d, p, u.n, heardNow)
  <2>. DEFINE q == c.queue
  <2>0. q \in Seq(Unit) /\ Len(q) \in Nat
    BY DEF Consumer
  <2>. HIDE DEF q
  <2>1. /\ Len(d.queue) = Len(q) + 1 /\ d.queue # <<>> /\ d.queue[Len(q) + 1] = w
        /\ \A i \in 1 .. Len(q) : d.queue[i] = q[i]
    BY <1>3, <2>0, AppendProperties DEF q
  <2>2. IsVideo(w) <=> IsVideo(u)
    BY <1>3 DEF IsVideo
  <2>3. c.resyncing => q = <<>> /\ sets /\ u.kind = "key"
    BY DEF QueueSound, Skipped, IsVideo, q
  <2>4. InOrder(d.queue, u.n)
    <3>1. ASSUME NEW i \in 1 .. Len(d.queue) - 1
          PROVE  d.queue[i + 1].n = d.queue[i].n + Step(d.queue[i + 1])
      <4>1. CASE i < Len(q)
        <5>1. i \in 1 .. Len(q) - 1 /\ i \in 1 .. Len(q) /\ i + 1 \in 1 .. Len(q)
          BY <2>0, <2>1, <4>1
        <5>. QED  BY <2>1, <5>1 DEF QueueSound, InOrder, q
      <4>2. CASE i = Len(q)
        <5>1. q # <<>> /\ i \in 1 .. Len(q)
          BY <2>0, <2>1, <4>2
        <5>2. q[i].n = n
          BY <4>2, <5>1 DEF QueueSound, InOrder, q
        <5>. QED  BY <1>3, <2>1, <2>2, <4>2, <5>1, <5>2 DEF Step
      <4>. QED  BY <2>0, <2>1, <4>1, <4>2
    <3>. QED  BY <1>3, <2>1, <3>1 DEF InOrder
  <2>5. SetsComeFirst(d)
    <3>1. \A i \in 1 .. Len(d.queue) : i \in 1 .. Len(q) \/ i = Len(q) + 1
      BY <2>0, <2>1
    <3>2. \A i \in 1 .. Len(d.queue) : d.queue[i].prepended => IsVideo(d.queue[i])
      BY <1>3, <2>1, <2>2, <3>1 DEF QueueSound, SetsComeFirst, q
    <3>3. needs => \A i \in 1 .. Len(q) : ~IsVideo(q[i])
      BY <2>0, <2>3 DEF QueueSound, SetsComeFirst, q
    <3>4. ASSUME NEW i \in 1 .. Len(d.queue), NEW j \in 1 .. Len(d.queue), i < j,
                 d.queue[j].prepended
          PROVE  ~IsVideo(d.queue[i])
      <4>1. i \in 1 .. Len(q)
        BY <2>0, <2>1, <3>4
      <4>2. CASE j \in 1 .. Len(q)
        BY <2>1, <3>4, <4>1, <4>2 DEF QueueSound, SetsComeFirst, q
      <4>3. CASE j = Len(q) + 1
        BY <1>3, <2>1, <3>3, <3>4, <4>1, <4>3
      <4>. QED  BY <3>1, <4>2, <4>3
    <3>5. d.needsParameters => \A i \in 1 .. Len(d.queue) : ~IsVideo(d.queue[i])
      BY <1>1, <2>1, <2>2, <3>1, <3>3
    <3>. QED  BY <3>2, <3>4, <3>5 DEF SetsComeFirst
  <2>6. FollowsOn(d, p, u.n)
    <3>1. SUFFICES ASSUME ~d.needsParameters, \A i \in 1 .. Len(d.queue) : ~d.queue[i].prepended
                   PROVE  FrontPrimed(p) /\ d.queue[1].n = Front(p) + Step(d.queue[1])
      BY <2>1 DEF FollowsOn
    <3>2. ~sets /\ ~needs
      <4>1. Len(q) + 1 \in 1 .. Len(d.queue)
        BY <2>0, <2>1
      <4>. QED  BY <1>1, <1>3, <2>1, <3>1, <4>1
    <3>3. \A i \in 1 .. Len(q) : ~q[i].prepended
      BY <2>0, <2>1, <3>1
    <3>4. FrontPrimed(p) /\ IF q = <<>> THEN n = Front(p) ELSE q[1].n = Front(p) + Step(q[1])
      BY <3>2, <3>3 DEF QueueSound, FollowsOn, q
    <3>5. CASE q = <<>>
      BY <1>3, <2>0, <2>1, <2>2, <3>4, <3>5 DEF Step
    <3>6. CASE q # <<>>
      <4>1. 1 \in 1 .. Len(q)
        BY <2>0, <3>6
      <4>. QED  BY <2>1, <3>4, <3>6, <4>1
    <3>. QED  BY <3>5, <3>6
  <2>7. FirstGroup(d, p)
    <3>1. d.needsParameters => Untouched(p)
      BY <1>1, <2>3 DEF QueueSound, FirstGroup
    <3>2. ASSUME NEW i \in 1 .. Len(d.queue), d.queue[i].prepended, d.queue[i].kind # "key"
          PROVE  Untouched(p)
      <4>1. CASE i \in 1 .. Len(q)
        BY <2>1, <3>2, <4>1 DEF QueueSound, FirstGroup, q
      <4>2. CASE i = Len(q) + 1
        BY <1>3, <2>1, <2>3, <3>2, <4>2 DEF QueueSound, FirstGroup
      <4>. QED  BY <2>0, <2>1, <4>1, <4>2
    <3>. QED  BY <3>1, <3>2 DEF FirstGroup
  <2>8. heardNow \/ \A i \in 1 .. Len(d.queue) : IsVideo(d.queue[i])
    BY <2>0, <2>1, <2>2 DEF QueueSound, q
  <2>. QED  BY <1>3, <2>4, <2>5, <2>6, <2>7, <2>8 DEF QueueSound
<1>4. QueueSound(d, p, u.n, heardNow)
  BY <1>1, <1>2, <1>3
<1>. QED  BY <1>4 DEF d

\* The muxer stands where it stood: the queue goes on from it as before.
LEMMA SamePosition ==
  ASSUME NEW c, NEW p, NEW p2, NEW n, NEW heard, QueueSound(c, p, n, heard),
         FrontPrimed(p) => FrontPrimed(p2), Front(p2) = Front(p), Untouched(p) => Untouched(p2)
  PROVE  QueueSound(c, p2, n, heard)
BY DEF QueueSound, FollowsOn, FirstGroup

\* The unit the pump takes goes on from what the muxer has, or brings the sets.
LEMMA FetchKeepsSound ==
  ASSUME NEW c \in Consumer, NEW p \in Pump, NEW n \in Nat, NEW heard,
         p.at = "waiting", c.queue # <<>>, QueueSound(c, p, n, heard),
         NEW d, d.queue = Tail(c.queue), d.resyncing = c.resyncing,
         d.needsParameters = c.needsParameters,
         NEW g, g.at = "holding", g.hand = Head(c.queue), g.last = p.last, g.primed = p.primed
  PROVE  /\ QueueSound(d, g, n, heard) /\ HandSound(g)
         /\ IsVideo(g.hand) \/ heard
<1>. DEFINE q == c.queue
<1>0. /\ q \in Seq(Unit) /\ Len(q) \in Nat \ {0} /\ 1 \in 1 .. Len(q) /\ Head(q) = q[1]
      /\ q[1] \in Unit /\ ~c.resyncing
  <2>1. q \in Seq(Unit) /\ Len(q) \in Nat /\ Len(q) # 0
    BY DEF Consumer
  <2>2. Head(q) = q[1] /\ 1 \in 1 .. Len(q) /\ q[1] \in Unit
    BY <2>1
  <2>. QED  BY <2>1, <2>2 DEF QueueSound
<1>1. /\ Len(d.queue) = Len(q) - 1
      /\ \A i \in 1 .. Len(d.queue) : d.queue[i] = q[i + 1]
      /\ (d.queue = <<>> <=> Len(q) = 1)
  <2>. HIDE DEF q
  <2>1. /\ q # <<>> /\ d.queue = Tail(q) /\ q \in Seq(Unit)
    BY <1>0 DEF q
  <2>2. /\ d.queue \in Seq(Unit) /\ Len(d.queue) = Len(q) - 1
        /\ \A i \in 1 .. Len(d.queue) : d.queue[i] = q[i + 1]
    <3>1. /\ Tail(q) \in Seq(Unit) /\ Len(Tail(q)) = Len(q) - 1
          /\ \A i \in 1 .. Len(Tail(q)) : Tail(q)[i] = q[i + 1]
      BY <2>1, HeadTailProperties, Zenon
    <3>. QED  BY <2>1, <3>1, Zenon
  <2>3. (d.queue = <<>>) <=> (Len(d.queue) = 0)
    BY <2>2, EmptySeq
  <2>. QED  BY <1>0, <2>2, <2>3
<1>. HIDE DEF q
<1>2. \A i \in 1 .. Len(d.queue) : i + 1 \in 1 .. Len(q) /\ 1 < i + 1
  BY <1>0, <1>1
<1>3. g.hand = q[1] /\ Front(p) = p.last /\ (FrontPrimed(p) <=> p.primed)
  BY <1>0 DEF Front, FrontPrimed, HoldsVideo, q
<1>4. InOrder(d.queue, n)
  <2>1. ASSUME NEW i \in 1 .. Len(d.queue) - 1
        PROVE  d.queue[i + 1].n = d.queue[i].n + Step(d.queue[i + 1])
    <3>1. i \in 1 .. Len(d.queue) /\ i + 1 \in 1 .. Len(d.queue) /\ i + 1 \in 1 .. Len(q) - 1
      BY <1>0, <1>1
    <3>. QED  BY <1>1, <3>1 DEF QueueSound, InOrder, q
  <2>2. d.queue # <<>> => d.queue[Len(d.queue)].n = n
    <3>1. d.queue # <<>> => Len(d.queue) \in 1 .. Len(d.queue) /\ Len(d.queue) + 1 = Len(q)
      BY <1>0, <1>1
    <3>. QED  BY <1>0, <1>1, <3>1 DEF QueueSound, InOrder, q
  <2>. QED  BY <2>1, <2>2 DEF InOrder
<1>5. SetsComeFirst(d)
  <2>1. /\ \A i \in 1 .. Len(q) : q[i].prepended => IsVideo(q[i])
        /\ \A i, j \in 1 .. Len(q) : i < j /\ q[j].prepended => ~IsVideo(q[i])
        /\ c.needsParameters => \A i \in 1 .. Len(q) : ~IsVideo(q[i])
    BY DEF QueueSound, SetsComeFirst, q
  <2>2. \A i, j \in 1 .. Len(d.queue) : i < j => i + 1 < j + 1
    BY <1>0, <1>1
  <2>. QED  BY <1>1, <1>2, <2>1, <2>2 DEF SetsComeFirst
\* What the queue promised before, of its head.
<1>6. /\ c.needsParameters => ~IsVideo(q[1])
      /\ q[1].prepended => IsVideo(q[1])
      /\ \A i \in 1 .. Len(d.queue) : d.queue[i].prepended => ~IsVideo(q[1])
  BY <1>0, <1>1, <1>2 DEF QueueSound, SetsComeFirst, q
<1>7. ASSUME ~c.needsParameters, ~q[1].prepended,
             \A i \in 1 .. Len(d.queue) : ~d.queue[i].prepended
      PROVE  p.primed /\ q[1].n = p.last + Step(q[1])
  <2>1. \A i \in 1 .. Len(q) : i = 1 \/ (i - 1 \in 1 .. Len(d.queue) /\ i - 1 + 1 = i)
    BY <1>0, <1>1
  <2>2. \A i \in 1 .. Len(q) : ~q[i].prepended
    BY <1>1, <1>7, <2>1
  <2>3. q # <<>>
    BY <1>0
  <2>. QED  BY <1>0, <1>3, <1>7, <2>2, <2>3 DEF QueueSound, FollowsOn, q
<1>8. HoldsVideo(g) => FrontPrimed(g)
  BY <1>3, <1>6, <1>7 DEF HoldsVideo, FrontPrimed, Step
<1>9. FollowsOn(d, g, n)
  <2>. SUFFICES ASSUME ~c.needsParameters, \A i \in 1 .. Len(d.queue) : ~d.queue[i].prepended
                PROVE  /\ FrontPrimed(g)
                       /\ IF d.queue = <<>> THEN n = Front(g)
                          ELSE d.queue[1].n = Front(g) + Step(d.queue[1])
    BY DEF FollowsOn
  <2>1. FrontPrimed(g) /\ Front(g) = q[1].n
    <3>1. CASE IsVideo(q[1])
      BY <1>3, <1>8, <3>1 DEF HoldsVideo, Front
    <3>2. CASE ~IsVideo(q[1])
      <4>1. p.primed /\ q[1].n = p.last + 0
        BY <1>6, <1>7, <3>2 DEF Step
      <4>2. p.last \in Nat
        BY FanOutAssumption DEF Pump
      <4>. QED  BY <1>3, <3>2, <4>1, <4>2 DEF HoldsVideo, Front, FrontPrimed
    <3>. QED  BY <3>1, <3>2
  <2>2. CASE Len(q) = 1
    <3>1. q # <<>> /\ q[Len(q)].n = n
      BY <1>0 DEF QueueSound, InOrder, q
    <3>. QED  BY <1>1, <2>1, <2>2, <3>1
  <2>3. CASE Len(q) # 1
    <3>1. 1 \in 1 .. Len(q) - 1 /\ 1 \in 1 .. Len(d.queue)
      BY <1>0, <1>1, <2>3
    <3>2. q[1 + 1].n = q[1].n + Step(q[1 + 1])
      BY <3>1 DEF QueueSound, InOrder, q
    <3>. QED  BY <1>1, <2>1, <2>3, <3>1, <3>2
  <2>. QED  BY <2>2, <2>3
<1>10. FirstGroup(d, g)
  <2>1. ASSUME Untouched(p), ~IsVideo(q[1])
        PROVE  Untouched(g)
    BY <1>3, <2>1 DEF Untouched, HoldsVideo
  <2>2. c.needsParameters => Untouched(g)
    BY <1>0, <1>6, <2>1 DEF QueueSound, FirstGroup
  <2>3. ASSUME NEW i \in 1 .. Len(d.queue), d.queue[i].prepended, d.queue[i].kind # "key"
        PROVE  Untouched(g)
    BY <1>1, <1>2, <1>6, <2>1, <2>3 DEF QueueSound, FirstGroup, q
  <2>. QED  BY <2>2, <2>3 DEF FirstGroup
<1>11. HandSound(g)
  <2>1. g.hand.prepended /\ g.hand.kind # "key" => g.last = 0
    BY <1>0, <1>3 DEF QueueSound, FirstGroup, Untouched, q
  <2>. QED  BY <1>8, <2>1 DEF HandSound
<1>12. heard \/ \A i \in 1 .. Len(q) : IsVideo(q[i])
  BY DEF QueueSound, q
<1>13. heard \/ \A i \in 1 .. Len(d.queue) : IsVideo(d.queue[i])
  BY <1>1, <1>2, <1>12
<1>. QED  BY <1>0, <1>3, <1>4, <1>5, <1>9, <1>10, <1>11, <1>12, <1>13 DEF QueueSound

\* What the muxer has been given is where the hand was.
LEMMA WriteKeepsSound ==
  ASSUME NEW p \in Pump, p.at = "holding", HandSound(p),
         NEW g, g.at = "writing", g.hand = p.hand,
         g.last = (IF IsVideo(p.hand) THEN p.hand.n ELSE p.last),
         g.primed = (IF IsVideo(p.hand)
                     THEN p.hand.prepended \/ (p.primed /\ p.hand.n = p.last + 1) ELSE p.primed),
         NEW c, NEW n, NEW heard
  PROVE  /\ HandSound(g)
         /\ QueueSound(c, p, n, heard) => QueueSound(c, g, n, heard)
<1>1. ~HoldsVideo(g) /\ Front(g) = Front(p)
  BY DEF HoldsVideo, Front
<1>2. FrontPrimed(p) => FrontPrimed(g)
  BY <1>1 DEF HoldsVideo, FrontPrimed
<1>3. Untouched(p) => Untouched(g)
  BY <1>1 DEF Untouched, HoldsVideo
<1>4. HandSound(g)
  BY <1>1 DEF HandSound, HoldsVideo, FrontPrimed
<1>. QED  BY <1>1, <1>2, <1>3, <1>4, SamePosition

LEMMA WrittenKeepsSound ==
  ASSUME NEW p \in Pump, p.at = "writing",
         NEW g, g.at = "waiting", g.last = p.last, g.primed = p.primed,
         NEW c, NEW n, NEW heard
  PROVE  /\ HandSound(g)
         /\ QueueSound(c, p, n, heard) => QueueSound(c, g, n, heard)
<1>1. ~HoldsVideo(p) /\ ~HoldsVideo(g)
  BY DEF HoldsVideo
<1>. QED  BY <1>1, SamePosition DEF HandSound, Front, FrontPrimed, Untouched

--------------------------------------------------------------------------------
(* The steps *)

Types ==
  /\ frames \in 0 .. MaxFrames /\ sounds \in 0 .. MaxSounds
  /\ described \in BOOLEAN /\ audioKnown \in BOOLEAN
  /\ consumer \in [Reader -> Consumer] /\ pump \in [Reader -> Pump]

LEMMA Fresh ==
  /\ NoUnit \in Unit
  /\ NoConsumer \in Consumer /\ NoConsumer.queue = <<>> /\ ~NoConsumer.subscribed
  /\ NoPump \in Pump /\ NoPump.at = "out" /\ NoPump.last = 0
<1>1. 0 \in 0 .. MaxFrames /\ 0 \in 0 .. MaxJoins
  BY FanOutAssumption
<1>2. NoUnit \in Unit
  BY <1>1 DEF NoUnit, Unit, Kind
<1>3. <<>> \in Seq(Unit)
  OBVIOUS
<1>4. NoConsumer \in Consumer /\ NoConsumer.queue = <<>> /\ ~NoConsumer.subscribed
  BY <1>3 DEF NoConsumer, Consumer
<1>. QED  BY <1>1, <1>2, <1>4 DEF NoPump, Pump

\* The unit the handler of the vendor's callback hands to the loop.
Sent(u) == u \in Unit /\ u.n = frames + Step(u) /\ frames' = u.n /\ (IsVideo(u) \/ audioKnown')

\* Every consumer is offered the unit, or passes over it while it waits for a group.
LEMMA FanOutKeepsSound ==
  ASSUME Types, ReadersServed, NEW u, Sent(u),
         FanOut(u, described'), UNCHANGED pump,
         described => described', described' \in BOOLEAN, audioKnown => audioKnown',
         NEW r \in Reader
  PROVE  /\ consumer'[r] \in Consumer
         /\ Len(consumer[r].queue) <= Capacity => Len(consumer'[r].queue) <= Capacity
         /\ Served(consumer[r], pump[r])'
<1>. DEFINE c == consumer[r]
            d == consumer'[r]
            p == pump[r]
<1>0. /\ c \in Consumer /\ p \in Pump /\ frames \in Nat /\ u \in Unit /\ Capacity \in Nat
      /\ Served(c, p) /\ Len(c.queue) \in Nat
  BY FanOutAssumption DEF Types, ReadersServed, Sent, Consumer
<1>1. d = IF c.subscribed /\ ~Skipped(c, u, described') THEN Offer(c, u, described') ELSE c
  BY DEF FanOut
<1>2. p' = p
  OBVIOUS
<1>3. CASE ~c.subscribed
  <2>1. d = c
    BY <1>1, <1>3
  <2>2. Served(c, p)'
    BY <1>0, <1>2, <1>3, <2>1 DEF Served
  <2>. QED  BY <1>0, <2>1, <2>2
<1>4. CASE c.subscribed /\ Skipped(c, u, described')
  <2>1. d = c /\ c.resyncing /\ c.queue = <<>>
    BY <1>0, <1>1, <1>4 DEF Skipped, Served, QueueSound
  <2>2. QueueSound(d, p, frames', audioKnown')
    BY <2>1, EmptiedIsSound
  <2>3. Served(c, p)'
    BY <1>0, <1>2, <1>4, <2>1, <2>2 DEF Served
  <2>. QED  BY <1>0, <2>1, <2>3
<1>5. CASE c.subscribed /\ ~Skipped(c, u, described')
  <2>1. described' = TRUE
    BY <1>0, <1>5 DEF Served
  <2>2. d = Offer(c, u, TRUE) /\ ~Skipped(c, u, TRUE)
    BY <1>1, <1>5, <2>1
  <2>3. Offered(c, u, TRUE, d)
    BY <1>0, <2>2, OfferEffect
  <2>4. QueueSound(d, p, frames', audioKnown')
    <3>1. /\ QueueSound(c, p, frames, audioKnown)
          /\ u.n = frames + Step(u) /\ frames' = u.n /\ (IsVideo(u) \/ audioKnown')
      BY <1>0, <1>5 DEF Served, Sent
    <3>. HIDE DEF c, d, p
    <3>2. QueueSound(Offer(c, u, TRUE), p, u.n, audioKnown')
      BY <1>0, <2>2, <3>1, OfferKeepsSound
    <3>. QED  BY <2>2, <3>1, <3>2
  <2>5. /\ d \in Consumer /\ d.subscribed = c.subscribed /\ d.closed = c.closed
        /\ Len(c.queue) <= Capacity => Len(d.queue) <= Capacity
    BY <1>0, <2>3, AppendProperties DEF Offered, Consumer
  <2>6. Served(c, p)'
    BY <1>0, <1>2, <1>5, <2>1, <2>4, <2>5 DEF Served
  <2>. QED  BY <2>5, <2>6
<1>. QED  BY <1>3, <1>4, <1>5

--------------------------------------------------------------------------------
(* The invariant *)

FanOutSound == TypeOK /\ ReadersServed

LEMMA FanOutInit ==
  Init => FanOutSound
<1>. SUFFICES ASSUME Init
              PROVE  FanOutSound
  OBVIOUS
<1>1. TypeOK
  <2>1. 0 \in 0 .. MaxFrames /\ 0 \in 0 .. MaxSounds /\ Len(<<>>) <= Capacity
    BY FanOutAssumption
  <2>. QED  BY <2>1, Fresh DEF Init, TypeOK
<1>2. ASSUME NEW r \in Reader
      PROVE  Served(consumer[r], pump[r])
  BY <1>2, Fresh DEF Init, Served, HandSound, HoldsVideo
<1>. QED  BY <1>1, <1>2 DEF FanOutSound, ReadersServed

\* A step of one reader is seen by that reader alone.
LEMMA OneReader ==
  ASSUME FanOutSound, NEW r \in Reader, NEW c \in Consumer, NEW p \in Pump,
         consumer' = [consumer EXCEPT ![r] = c], pump' = [pump EXCEPT ![r] = p],
         UNCHANGED <<frames, sounds, described, audioKnown>>,
         Len(c.queue) <= Capacity, Served(c, p)
  PROVE  FanOutSound'
<1>1. /\ consumer' \in [Reader -> Consumer] /\ pump' \in [Reader -> Pump]
      /\ consumer'[r] = c /\ pump'[r] = p
      /\ \A s \in Reader \ {r} : consumer'[s] = consumer[s] /\ pump'[s] = pump[s]
  BY DEF FanOutSound, TypeOK
<1>2. TypeOK'
  BY <1>1 DEF FanOutSound, TypeOK
<1>3. ASSUME NEW s \in Reader
      PROVE  Served(consumer[s], pump[s])'
  <2>1. PICK k, g : k = consumer'[s] /\ g = pump'[s] /\ Served(k, g)
    BY <1>1 DEF FanOutSound, ReadersServed
  <2>. QED  BY <2>1 DEF Served
<1>. QED  BY <1>2, <1>3 DEF FanOutSound, ReadersServed

LEMMA CameraKeepsSound ==
  FanOutSound /\ Camera => FanOutSound'
<1>. SUFFICES ASSUME FanOutSound, Camera
              PROVE  FanOutSound'
  OBVIOUS
<1>0. Types /\ ReadersServed /\ MaxFrames \in Nat /\ MaxSounds \in Nat
  BY FanOutAssumption DEF FanOutSound, TypeOK, Types
<1>1. ASSUME NEW u, Sent(u), FanOut(u, described'), UNCHANGED pump,
             described => described', described' \in BOOLEAN,
             audioKnown => audioKnown', audioKnown' \in BOOLEAN,
             frames' \in 0 .. MaxFrames, sounds' \in 0 .. MaxSounds
      PROVE  FanOutSound'
  <2>1. \A r \in Reader : /\ consumer'[r] \in Consumer
                          /\ Len(consumer'[r].queue) <= Capacity
                          /\ Served(consumer[r], pump[r])'
    BY <1>0, <1>1, FanOutKeepsSound DEF FanOutSound, TypeOK
  <2>2. consumer' \in [Reader -> Consumer]
    BY <1>1, <2>1 DEF FanOut
  <2>. QED  BY <1>1, <2>1, <2>2 DEF FanOutSound, TypeOK, ReadersServed
<1>2. ASSUME OnAudio
      PROVE  FanOutSound'
  <2>. DEFINE u == [kind |-> "audio", n |-> frames, prepended |-> FALSE, described |-> described]
  <2>1. /\ u \in Unit /\ ~IsVideo(u) /\ u.n = frames
    BY <1>0 DEF Unit, Kind, IsVideo, Types
  <2>2. FanOut(u, described') /\ UNCHANGED <<frames, described, pump>> /\ audioKnown' = TRUE
    BY <1>2 DEF OnAudio
  <2>3. sounds' \in 0 .. MaxSounds
    BY <1>0, <1>2 DEF OnAudio, Types
  <2>. HIDE DEF u
  <2>4. Sent(u)
    BY <1>0, <2>1, <2>2 DEF Sent, Step, Types
  <2>. QED  BY <1>0, <1>1, <2>2, <2>3, <2>4 DEF Types
<1>3. ASSUME NEW kind \in {"key", "delta"}, NEW carries \in BOOLEAN, OnVideo(kind, carries)
      PROVE  FanOutSound'
  <2>. DEFINE u == [kind |-> kind, n |-> frames + 1, prepended |-> FALSE,
                    described |-> described']
  <2>1. /\ frames' = frames + 1 /\ frames' \in 0 .. MaxFrames
        /\ described' = (described \/ carries) /\ described' \in BOOLEAN
        /\ FanOut(u, described') /\ UNCHANGED <<sounds, audioKnown, pump>>
    BY <1>0, <1>3 DEF OnVideo, Types
  <2>2. u \in Unit /\ IsVideo(u) /\ u.n = frames + 1
    BY <1>0, <2>1 DEF Unit, Kind, IsVideo
  <2>. HIDE DEF u
  <2>3. Sent(u)
    BY <2>1, <2>2 DEF Sent, Step
  <2>. QED  BY <1>0, <1>1, <2>1, <2>3 DEF Types
<1>. QED  BY <1>2, <1>3 DEF Camera

LEMMA TeardownKeepsSound ==
  FanOutSound /\ Teardown => FanOutSound'
<1>. SUFFICES ASSUME FanOutSound, Teardown
              PROVE  FanOutSound'
  OBVIOUS
<1>1. ASSUME NEW r \in Reader
      PROVE  /\ consumer'[r] \in Consumer /\ consumer'[r].queue = consumer[r].queue
             /\ Served(consumer[r], pump[r])'
  <2>1. consumer[r] \in Consumer /\ Served(consumer[r], pump[r]) /\ pump'[r] = pump[r]
    BY DEF FanOutSound, TypeOK, ReadersServed, Teardown
  <2>2. CASE consumer[r].subscribed
    <3>1. consumer'[r] = [consumer[r] EXCEPT !.closed = TRUE, !.subscribed = FALSE]
      BY <2>2 DEF Teardown
    <3>2. /\ consumer'[r] \in Consumer /\ consumer'[r].queue = consumer[r].queue
          /\ ~consumer'[r].subscribed /\ consumer'[r].closed
      BY <2>1, <3>1 DEF Consumer
    <3>. QED  BY <2>1, <3>2 DEF Served
  <2>3. CASE ~consumer[r].subscribed
    <3>1. consumer'[r] = consumer[r]
      BY <2>3 DEF Teardown
    <3>. QED  BY <2>1, <2>3, <3>1 DEF Served
  <2>. QED  BY <2>2, <2>3
<1>2. consumer' \in [Reader -> Consumer]
  BY <1>1 DEF Teardown
<1>3. TypeOK'
  BY <1>1, <1>2 DEF FanOutSound, TypeOK, Teardown
<1>. QED  BY <1>1, <1>3 DEF FanOutSound, ReadersServed

LEMMA JoinKeepsSound ==
  ASSUME FanOutSound, NEW r \in Reader, Join(r)
  PROVE  FanOutSound'
<1>. DEFINE c == [NoConsumer EXCEPT !.subscribed = TRUE]
            p == [NoPump EXCEPT !.at = "waiting", !.hasAudio = audioKnown,
                                !.joins = pump[r].joins + 1]
<1>1. pump[r].joins + 1 \in 0 .. MaxJoins /\ audioKnown \in BOOLEAN /\ Capacity \in Nat
  <2>1. pump[r] \in Pump /\ pump[r].joins < MaxJoins /\ MaxJoins \in Nat
    BY FanOutAssumption DEF FanOutSound, TypeOK, Join
  <2>. QED  BY <2>1, FanOutAssumption DEF Pump, FanOutSound, TypeOK
<1>2. /\ c \in Consumer /\ c.subscribed /\ ~c.closed /\ ~c.resyncing /\ c.needsParameters
      /\ c.queue = <<>>
  BY Fresh DEF NoConsumer, Consumer
<1>3. p \in Pump /\ p.at = "waiting" /\ p.last = 0
  BY <1>1, Fresh DEF NoPump, Pump
<1>4. /\ consumer' = [consumer EXCEPT ![r] = c] /\ pump' = [pump EXCEPT ![r] = p]
      /\ described /\ UNCHANGED <<frames, sounds, described, audioKnown>>
  BY DEF Join
<1>. HIDE DEF c, p
<1>5. ~HoldsVideo(p) /\ Untouched(p)
  BY <1>3 DEF HoldsVideo, Untouched
<1>6. QueueSound(c, p, frames, audioKnown)
  BY <1>2, <1>5 DEF QueueSound, InOrder, SetsComeFirst, FollowsOn, FirstGroup
<1>7. Served(c, p)
  BY <1>2, <1>3, <1>4, <1>5, <1>6 DEF Served, HandSound
<1>8. Len(c.queue) <= Capacity
  BY <1>1, <1>2
<1>. QED  BY <1>2, <1>3, <1>4, <1>7, <1>8, OneReader

LEMMA FetchKeepsAllSound ==
  ASSUME FanOutSound, NEW r \in Reader, Fetch(r)
  PROVE  FanOutSound'
<1>. DEFINE c == consumer[r]
            p == pump[r]
            d == [c EXCEPT !.queue = Tail(c.queue)]
            g == [p EXCEPT !.at = "holding", !.hand = Head(c.queue)]
<1>1. /\ c \in Consumer /\ p \in Pump /\ Served(c, p) /\ Len(c.queue) <= Capacity
      /\ frames \in Nat /\ Capacity \in Nat
      /\ p.at = "waiting" /\ ~c.closed /\ c.queue # <<>>
  BY FanOutAssumption DEF FanOutSound, TypeOK, ReadersServed, Fetch
<1>2. /\ consumer' = [consumer EXCEPT ![r] = d] /\ pump' = [pump EXCEPT ![r] = g]
      /\ UNCHANGED <<frames, sounds, described, audioKnown>>
  BY DEF Fetch, FanOutSound, TypeOK
<1>. HIDE DEF c, p
<1>3. /\ Tail(c.queue) \in Seq(Unit) /\ Len(Tail(c.queue)) = Len(c.queue) - 1
      /\ Head(c.queue) \in Unit /\ Len(c.queue) \in Nat
  BY <1>1 DEF Consumer
<1>4. /\ d \in Consumer /\ d.queue = Tail(c.queue) /\ d.resyncing = c.resyncing
      /\ d.needsParameters = c.needsParameters /\ d.subscribed = c.subscribed
      /\ d.closed = c.closed
  BY <1>1, <1>3 DEF Consumer
<1>5. /\ g \in Pump /\ g.at = "holding" /\ g.hand = Head(c.queue) /\ g.last = p.last
      /\ g.primed = p.primed
  BY <1>1, <1>3 DEF Pump
<1>. HIDE DEF d, g
<1>6. c.subscribed /\ QueueSound(c, p, frames, audioKnown) /\ described
  BY <1>1 DEF Served
<1>7. /\ QueueSound(d, g, frames, audioKnown) /\ HandSound(g)
      /\ IsVideo(g.hand) \/ audioKnown
  BY <1>1, <1>4, <1>5, <1>6, FetchKeepsSound
<1>8. Served(d, g)
  BY <1>1, <1>4, <1>5, <1>6, <1>7 DEF Served
<1>9. Len(d.queue) <= Capacity
  BY <1>1, <1>3, <1>4
<1>. QED  BY <1>2, <1>4, <1>5, <1>8, <1>9, OneReader

LEMMA EndedKeepsSound ==
  ASSUME FanOutSound, NEW r \in Reader, Ended(r)
  PROVE  FanOutSound'
<1>. DEFINE p == [NoPump EXCEPT !.joins = pump[r].joins]
<1>1. p \in Pump /\ p.at = "out" /\ p.last = 0
  <2>1. pump[r].joins \in 0 .. MaxJoins
    BY DEF FanOutSound, TypeOK, Pump
  <2>. QED  BY <2>1, Fresh DEF NoPump, Pump
<1>2. /\ consumer' = [consumer EXCEPT ![r] = NoConsumer] /\ pump' = [pump EXCEPT ![r] = p]
      /\ UNCHANGED <<frames, sounds, described, audioKnown>>
  BY DEF Ended
<1>. HIDE DEF p
<1>3. Served(NoConsumer, p)
  BY <1>1, Fresh DEF Served, HandSound, HoldsVideo
<1>4. Len(NoConsumer.queue) <= Capacity
  BY FanOutAssumption, Fresh
<1>. QED  BY <1>1, <1>2, <1>3, <1>4, Fresh, OneReader

\* What Write does to the pump.
LEMMA WriteEffect ==
  ASSUME FanOutSound, NEW r \in Reader, Write(r)
  PROVE  \E g \in Pump :
           /\ pump' = [pump EXCEPT ![r] = g] /\ UNCHANGED <<frames, sounds, described, audioKnown>>
           /\ consumer' = [consumer EXCEPT ![r] = consumer[r]]
           /\ g.at = "writing" /\ g.hand = pump[r].hand
           /\ g.last = (IF IsVideo(pump[r].hand) THEN pump[r].hand.n ELSE pump[r].last)
           /\ g.primed = (IF IsVideo(pump[r].hand)
                          THEN \/ pump[r].hand.prepended
                               \/ pump[r].primed /\ pump[r].hand.n = pump[r].last + 1
                          ELSE pump[r].primed)
<1>. DEFINE p == pump[r]
            newLast == IF IsVideo(p.hand) THEN p.hand.n ELSE p.last
            newPrimed == IF IsVideo(p.hand)
                         THEN p.hand.prepended \/ (p.primed /\ p.hand.n = p.last + 1)
                         ELSE p.primed
            g == [p EXCEPT !.at = "writing", !.last = newLast, !.primed = newPrimed]
<1>1. p \in Pump
  BY DEF FanOutSound, TypeOK
<1>2. pump' = [pump EXCEPT ![r] = g]
  BY DEF Write, FanOutSound, TypeOK
<1>. HIDE DEF p
<1>3. newLast \in 0 .. MaxFrames
  BY <1>1 DEF Pump, Unit
<1>4. newPrimed \in BOOLEAN
  BY <1>1 DEF Pump, Unit
<1>. HIDE DEF newLast, newPrimed
<1>5. /\ g \in Pump /\ g.at = "writing" /\ g.hand = p.hand /\ g.last = newLast
      /\ g.primed = newPrimed
  BY <1>1, <1>3, <1>4 DEF Pump
<1>6. consumer' = [consumer EXCEPT ![r] = consumer[r]]
  BY DEF Write, FanOutSound, TypeOK
<1>7. UNCHANGED <<frames, sounds, described, audioKnown>>
  BY DEF Write
<1>. HIDE DEF g
<1>. QED  BY <1>2, <1>5, <1>6, <1>7 DEF newLast, newPrimed, p

LEMMA WriteKeepsAllSound ==
  ASSUME FanOutSound, NEW r \in Reader, Write(r)
  PROVE  FanOutSound'
<1>. DEFINE c == consumer[r]
            p == pump[r]
<1>1. /\ c \in Consumer /\ p \in Pump /\ Served(c, p) /\ Len(c.queue) <= Capacity
      /\ p.at = "holding"
  BY DEF FanOutSound, TypeOK, ReadersServed, Write
<1>2. PICK g \in Pump :
        /\ pump' = [pump EXCEPT ![r] = g] /\ UNCHANGED <<frames, sounds, described, audioKnown>>
        /\ consumer' = [consumer EXCEPT ![r] = c]
        /\ g.at = "writing" /\ g.hand = p.hand
        /\ g.last = (IF IsVideo(p.hand) THEN p.hand.n ELSE p.last)
        /\ g.primed = (IF IsVideo(p.hand)
                       THEN p.hand.prepended \/ (p.primed /\ p.hand.n = p.last + 1)
                       ELSE p.primed)
  BY WriteEffect
<1>. HIDE DEF c, p
<1>3. /\ HandSound(g)
      /\ QueueSound(c, p, frames, audioKnown) => QueueSound(c, g, frames, audioKnown)
  BY <1>1, <1>2, WriteKeepsSound DEF Served
<1>4. Served(c, g)
  BY <1>1, <1>2, <1>3 DEF Served
<1>. QED  BY <1>1, <1>2, <1>4, OneReader

LEMMA WrittenKeepsAllSound ==
  ASSUME FanOutSound, NEW r \in Reader, Written(r)
  PROVE  FanOutSound'
<1>. DEFINE c == consumer[r]
            p == pump[r]
            g == [p EXCEPT !.at = "waiting", !.hand = NoUnit]
<1>1. /\ c \in Consumer /\ p \in Pump /\ Served(c, p) /\ Len(c.queue) <= Capacity
      /\ p.at = "writing"
  BY DEF FanOutSound, TypeOK, ReadersServed, Written
<1>2. /\ pump' = [pump EXCEPT ![r] = g] /\ UNCHANGED <<frames, sounds, described, audioKnown>>
      /\ consumer' = [consumer EXCEPT ![r] = c]
  BY DEF Written, FanOutSound, TypeOK
<1>. HIDE DEF c, p
<1>3. g \in Pump /\ g.at = "waiting" /\ g.last = p.last /\ g.primed = p.primed
  BY <1>1, Fresh DEF Pump
<1>. HIDE DEF g
<1>4. /\ HandSound(g)
      /\ QueueSound(c, p, frames, audioKnown) => QueueSound(c, g, frames, audioKnown)
  BY <1>1, <1>3, WrittenKeepsSound
<1>5. Served(c, g)
  BY <1>1, <1>3, <1>4 DEF Served
<1>. QED  BY <1>1, <1>2, <1>3, <1>5, OneReader

LEMMA FanOutStep ==
  FanOutSound /\ [Next]_vars => FanOutSound'
<1>. SUFFICES ASSUME FanOutSound, [Next]_vars
              PROVE  FanOutSound'
  OBVIOUS
<1>1. CASE UNCHANGED vars
  <2>1. TypeOK'
    BY <1>1 DEF FanOutSound, TypeOK, vars
  <2>2. ReadersServed'
    BY <1>1 DEF FanOutSound, ReadersServed, Served, vars
  <2>. QED  BY <2>1, <2>2 DEF FanOutSound
<1>2. CASE Camera
  BY <1>2, CameraKeepsSound
<1>3. CASE Teardown
  BY <1>3, TeardownKeepsSound
<1>4. ASSUME NEW r \in Reader, Join(r) \/ Serve(r) \/ Break(r)
      PROVE  FanOutSound'
  <2>1. CASE End(r) \/ EndLate(r) \/ Break(r)
    BY <2>1, EndedKeepsSound DEF End, EndLate, Break
  <2>. QED  BY <1>4, <2>1, JoinKeepsSound, FetchKeepsAllSound, WriteKeepsAllSound,
               WrittenKeepsAllSound DEF Serve
<1>. QED  BY <1>1, <1>2, <1>3, <1>4 DEF Next

LEMMA FanOutAlwaysSound ==
  Spec => []FanOutSound
BY FanOutInit, FanOutStep, PTL DEF Spec

--------------------------------------------------------------------------------
(* What follows *)

\* Queues, consumers and pumps keep their types, and no queue of _fan_out ever holds
\* more than _CONSUMER_QUEUE_SIZE units.
THEOREM FanOutTyped ==
  Spec => []TypeOK
<1>1. FanOutSound => TypeOK
  BY DEF FanOutSound
<1>. QED  BY <1>1, FanOutAlwaysSound, PTL

\* A frame the muxer of _pump is given, sent while the session knew the camera's
\* parameter sets, finds a decoder that has them: whenever the reader came, however
\* often its queue overflowed.
THEOREM DecoderIsPrimed ==
  Spec => []DecoderHasParameters
<1>1. FanOutSound => DecoderHasParameters
  BY DEF FanOutSound, ReadersServed, Served, HandSound, DecoderHasParameters
<1>. QED  BY <1>1, FanOutAlwaysSound, PTL

\* _pump ends a response for want of an audio track only if the session it was made
\* for knows the audio's codec, or is over: the next request is given the track.
THEOREM LateAudioAlwaysCured ==
  Spec => []LateAudioIsCured
<1>1. FanOutSound => LateAudioIsCured
  BY DEF FanOutSound, ReadersServed, Served, LateAudio, LateAudioIsCured
<1>. QED  BY <1>1, FanOutAlwaysSound, PTL

\* Only Write gives the muxer a frame, and the hand goes on from what it has been
\* given or starts a group.
LEMMA NoGroupTorn ==
  ASSUME FanOutSound, [Next]_vars, NEW r \in Reader,
         pump'[r].last # pump[r].last, pump[r].last # 0, pump'[r].last # 0
  PROVE  pump'[r].last = pump[r].last + 1 \/ pump[r].hand.kind = "key"
<1>. DEFINE Goal == pump'[r].last = pump[r].last + 1 \/ pump[r].hand.kind = "key"
<1>0. pump \in [Reader -> Pump]
  BY DEF FanOutSound, TypeOK
<1>1. ASSUME Write(r)
      PROVE  Goal
  <2>1. PICK g \in Pump :
          /\ pump' = [pump EXCEPT ![r] = g]
          /\ g.last = (IF IsVideo(pump[r].hand) THEN pump[r].hand.n ELSE pump[r].last)
    BY <1>1, WriteEffect
  <2>2. pump'[r].last = IF IsVideo(pump[r].hand) THEN pump[r].hand.n ELSE pump[r].last
    BY <1>0, <2>1
  <2>3. HoldsVideo(pump[r]) /\ pump'[r].last = pump[r].hand.n
    BY <1>1, <2>2 DEF HoldsVideo, Write
  <2>4. HandSound(pump[r])
    BY DEF FanOutSound, ReadersServed, Served
  <2>. QED  BY <2>3, <2>4 DEF HandSound, FrontPrimed
<1>. HIDE DEF Goal
<1>2. ASSUME NEW s \in Reader, Ended(s)
      PROVE  Goal
  <2>1. s = r => pump'[r].last = 0
    BY <1>0, <1>2 DEF Ended, NoPump
  <2>2. s # r => pump'[r] = pump[r]
    BY <1>0, <1>2 DEF Ended
  <2>. QED  BY <2>1, <2>2
<1>3. ASSUME NEW s \in Reader, Join(s)
      PROVE  Goal
  <2>1. s = r => pump'[r].last = 0
    BY <1>0, <1>3 DEF Join, NoPump
  <2>2. s # r => pump'[r] = pump[r]
    BY <1>0, <1>3 DEF Join
  <2>. QED  BY <2>1, <2>2
<1>4. ASSUME NEW s \in Reader, Fetch(s) \/ Written(s) \/ (Write(s) /\ s # r)
      PROVE  Goal
  <2>1. CASE Fetch(s)
    <3>1. pump' = [pump EXCEPT ![s] = [@ EXCEPT !.at = "holding", !.hand = Head(consumer[s].queue)]]
      BY <1>0, <2>1 DEF Fetch
    <3>. QED  BY <1>0, <3>1 DEF Pump, Goal
  <2>2. CASE Written(s)
    <3>1. pump' = [pump EXCEPT ![s] = [@ EXCEPT !.at = "waiting", !.hand = NoUnit]]
      BY <1>0, <2>2 DEF Written
    <3>. QED  BY <1>0, <3>1 DEF Pump, Goal
  <2>3. CASE Write(s) /\ s # r
    BY <1>0, <2>3 DEF Write, Goal
  <2>. QED  BY <1>4, <2>1, <2>2, <2>3
<1>5. ASSUME UNCHANGED pump
      PROVE  Goal
  BY <1>5
<1>6. ASSUME NEW s \in Reader, Join(s) \/ Serve(s) \/ Break(s)
      PROVE  Goal
  <2>1. CASE End(s) \/ EndLate(s) \/ Break(s)
    BY <1>2, <2>1 DEF End, EndLate, Break
  <2>. QED  BY <1>1, <1>3, <1>4, <1>6, <2>1 DEF Serve
<1>7. CASE Camera \/ Teardown \/ UNCHANGED vars
  <2>1. UNCHANGED pump
    BY <1>7 DEF Camera, Teardown, OnAudio, OnVideo, vars
  <2>. QED  BY <1>5, <2>1 DEF Goal
<1>8. Goal
  BY <1>5, <1>6, <1>7 DEF Next, Goal
<1>. QED  BY <1>8 DEF Goal

\* What _fan_out queues and _pump writes is never the rest of a group whose middle
\* was lost: each frame follows the one written before it or is a key frame.
THEOREM GroupsStayWhole ==
  Spec => NoTornGroup
<1>. DEFINE Follows ==
       \A r \in Reader :
         pump'[r].last # pump[r].last /\ pump[r].last # 0 /\ pump'[r].last # 0 =>
           pump'[r].last = pump[r].last + 1 \/ pump[r].hand.kind = "key"
<1>1. FanOutSound /\ [Next]_vars => Follows
  BY NoGroupTorn
<1>2. NoTornGroup <=> [][Follows]_vars
  BY DEF NoTornGroup
<1>. HIDE DEF Follows
<1>3. Spec => [][Follows]_vars
  BY <1>1, FanOutAlwaysSound, PTL DEF Spec
<1>. QED  BY <1>2, <1>3
================================================================================
