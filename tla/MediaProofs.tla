------------------------------ MODULE MediaProofs ------------------------------
(***************************************************************************)
(* What holds of the two pieces of code that look at the media itself, for *)
(* every input: the container's clock of StreamMuxer, whatever stamps the  *)
(* device sends, and the scan of NalUnits, whatever the buffer holds.      *)
(***************************************************************************)
EXTENDS StreamMuxer, NalUnits, TLAPS

--------------------------------------------------------------------------------
(* The clock of the container: timestamps, their width, the sentinel and the *)
(* discontinuity are arbitrary integers.                                     *)

\* The furthest output is a natural number no track is past.
LEMMA FurthestBounds ==
  ASSUME TypeOK
  PROVE  Furthest \in Nat /\ \A k \in Kind : lastOutput[k] <= Furthest
BY DEF TypeOK, Furthest, Kind

\* A unit is written at its rebased stamp or right behind its track's last one.
LEMMA EmitValue ==
  ASSUME TypeOK, NEW ts \in Timestamp, NEW kind \in Track, Emit(ts, kind)
  PROVE  /\ kind \in Kind
         /\ written'.kind = kind
         /\ written'.stamp \in Nat
         /\ written'.stamp > lastOutput[kind]
         /\ \/ written'.stamp = ts - offset'
            \/ written'.stamp = lastOutput[kind] + 1
         /\ written'.stamp >= ts - offset'
         /\ lastOutput' = [lastOutput EXCEPT ![kind] = written'.stamp]
<1>1. ts \in Int /\ kind \in Kind
  BY MuxerAssumption
<1>2. Furthest \in Nat
  BY FurthestBounds
<1>3. offset' = Rebased(ts) /\ Rebased(ts) \in Int
  BY <1>1, <1>2 DEF TypeOK, Emit, Anchor, Rebased
<1>4. written' = [kind |-> kind, stamp |-> Advanced(ts - Rebased(ts), kind)]
  BY DEF Emit
<1>5. lastOutput[kind] \in Nat \cup {-1}
  BY <1>1 DEF TypeOK
<1>6. ts - Rebased(ts) >= 0
  BY DEF Emit
<1>. QED  BY <1>1, <1>3, <1>4, <1>5, <1>6 DEF Emit, Advanced

\* An anchored clock that did not restart moved by no more than a gap.
LEMMA AnchorGap ==
  ASSUME TypeOK, NEW ts \in Timestamp, Anchor(ts)
  PROVE  \/ ~anchored /\ ts - offset' = 0
         \/ anchored /\ ts - offset' = Furthest + 1
         \/ /\ anchored /\ offset' = offset
            /\ ts - lastInput <= Discontinuity
BY MuxerAssumption, FurthestBounds DEF TypeOK, Anchor, Rebased, Restarted

\* Every step keeps the types.
LEMMA TypeStep ==
  ASSUME TypeOK, [Next]_vars
  PROVE  TypeOK'
<1>1. ASSUME NEW ts \in Timestamp, Drop(ts)
      PROVE  TypeOK'
  BY <1>1 DEF TypeOK, Drop
<1>2. ASSUME NEW ts \in Timestamp, Anchor(ts)
      PROVE  anchored' \in BOOLEAN /\ offset' \in Int /\ lastInput' \in Int
  BY <1>2, MuxerAssumption, FurthestBounds DEF TypeOK, Anchor, Rebased
<1>3. ASSUME NEW ts \in Timestamp, Misfit(ts)
      PROVE  TypeOK'
  BY <1>2, <1>3 DEF TypeOK, Misfit
<1>4. ASSUME NEW ts \in Timestamp, NEW kind \in Track, Emit(ts, kind)
      PROVE  TypeOK'
  <2>1. anchored' \in BOOLEAN /\ offset' \in Int /\ lastInput' \in Int
    BY <1>2, <1>4 DEF Emit
  <2>2. kind \in Kind /\ written'.stamp \in Nat /\ lastOutput' = [lastOutput EXCEPT ![kind] = written'.stamp]
    BY <1>4, EmitValue
  <2>3. lastOutput' \in [Kind -> Nat \cup {-1}]
    BY <2>2 DEF TypeOK
  <2>4. written' = [kind |-> kind, stamp |-> written'.stamp]
    BY <1>4 DEF Emit
  <2>5. written' \in [kind : Kind, stamp : Nat]
    BY <2>2, <2>4
  <2>. QED  BY <2>1, <2>3, <2>5 DEF TypeOK
<1>5. CASE UNCHANGED vars
  BY <1>5 DEF TypeOK, vars
<1>. QED  BY <1>1, <1>3, <1>4, <1>5 DEF Next

\* No step leaves the rebased present ahead of everything written, except near
\* the end of the container's time.
LEMMA PresentStep ==
  ASSUME MuxerInductive, [Next]_vars
  PROVE  PresentIsReached'
<1>. USE DEF MuxerInductive
<1>1. Furthest \in Nat
  BY FurthestBounds
<1>2. ASSUME NEW ts \in Timestamp, Drop(ts)
      PROVE  PresentIsReached'
  BY <1>2 DEF Drop, PresentIsReached, Furthest
<1>3. ASSUME NEW ts \in Timestamp, Misfit(ts)
      PROVE  PresentIsReached'
  <2>1. Anchor(ts) /\ Furthest' = Furthest
    BY <1>3 DEF Misfit, Furthest
  <2>2. lastInput' = ts /\ ts \in Int /\ offset' \in Int /\ anchored'
    BY <2>1, <1>1, MuxerAssumption DEF Anchor, Rebased, TypeOK
  <2>3. ts - offset' < 0 \/ ts - offset' >= MaxStamp
    BY <1>3, <2>1 DEF Misfit, Anchor
  <2>4. \/ ~anchored /\ ts - offset' = 0
        \/ anchored /\ ts - offset' = Furthest + 1
        \/ anchored /\ offset' = offset /\ ts - lastInput <= Discontinuity
    BY <2>1, AnchorGap
  <2>5. /\ lastInput \in Int /\ offset \in Int /\ anchored \in BOOLEAN
        /\ MaxStamp \in Nat /\ Discontinuity \in Nat /\ Discontinuity >= 1
    BY MuxerAssumption DEF TypeOK
  <2>6. ts - offset' <= Furthest \/ Furthest >= MaxStamp - Discontinuity
    <3>1. CASE ts - offset' = 0
      BY <1>1, <3>1
    <3>2. CASE anchored /\ ts - offset' = Furthest + 1
      <4>1. Furthest + 1 >= MaxStamp
        BY <1>1, <2>3, <3>2
      <4>. QED  BY <1>1, <2>5, <4>1
    <3>3. CASE anchored /\ offset' = offset /\ ts - lastInput <= Discontinuity
      BY <1>1, <2>2, <2>3, <2>5, <3>3 DEF PresentIsReached
    <3>. QED  BY <2>4, <3>1, <3>2, <3>3
  <2>. QED  BY <2>1, <2>2, <2>6 DEF PresentIsReached
<1>4. ASSUME NEW ts \in Timestamp, NEW kind \in Track, Emit(ts, kind)
      PROVE  PresentIsReached'
  <2>1. Anchor(ts)
    BY <1>4 DEF Emit
  <2>2. lastInput' = ts /\ ts \in Int /\ offset' \in Int
    BY <2>1, <1>1, MuxerAssumption DEF Anchor, Rebased, TypeOK
  <2>3. TypeOK'
    BY <1>4, TypeStep DEF Next
  <2>4. kind \in Kind /\ lastOutput'[kind] >= ts - offset'
    BY <1>4, EmitValue DEF TypeOK
  <2>5. lastOutput'[kind] <= Furthest'
    BY <2>3, <2>4, FurthestBounds DEF TypeOK, Furthest, Kind
  <2>6. lastOutput'[kind] \in Int /\ Furthest' \in Int
    BY <2>3, <2>4 DEF TypeOK, Furthest, Kind
  <2>7. ts - offset' \in Int
    BY <2>2
  <2>8. ts - offset' <= Furthest'
    BY <2>4, <2>5, <2>6, <2>7
  <2>. QED  BY <2>2, <2>8 DEF PresentIsReached
<1>5. CASE UNCHANGED vars
  BY <1>5 DEF vars, PresentIsReached, Furthest
<1>. QED  BY <1>2, <1>3, <1>4, <1>5 DEF Next

\* The step that writes writes forward, and no further than a gap past the
\* furthest output.
LEMMA WriteStep ==
  ASSUME MuxerInductive, NEW ts \in Timestamp, NEW kind \in Track, Emit(ts, kind)
  PROVE  /\ written'.stamp > lastOutput[written'.kind]
         /\ lastOutput'[written'.kind] = written'.stamp
         /\ \A k \in Kind : lastOutput'[k] <= Furthest + Discontinuity
<1>. USE DEF MuxerInductive
<1>1. /\ Furthest \in Nat /\ Discontinuity \in Nat \ {0} /\ ts \in Int
      /\ MaxStamp \in Nat
      /\ \A k \in Kind : lastOutput[k] \in Int /\ lastOutput[k] <= Furthest
  BY FurthestBounds, MuxerAssumption DEF TypeOK
<1>2. Anchor(ts) /\ ts - offset' < MaxStamp
  BY DEF Emit, Anchor
<1>3. /\ kind \in Kind /\ written'.kind = kind
      /\ written'.stamp \in Nat /\ written'.stamp > lastOutput[kind]
      /\ written'.stamp = ts - offset' \/ written'.stamp = lastOutput[kind] + 1
      /\ lastOutput' = [lastOutput EXCEPT ![kind] = written'.stamp]
  BY EmitValue
<1>4. ts - offset' <= Furthest + Discontinuity
  <2>1. offset' \in Int
    BY <1>1, <1>2 DEF Anchor, Rebased, TypeOK
  <2>2. CASE anchored /\ offset' = offset /\ ts - lastInput <= Discontinuity
    BY <1>1, <1>2, <2>1, <2>2 DEF PresentIsReached, TypeOK
  <2>3. \/ ts - offset' = 0
        \/ ts - offset' = Furthest + 1
        \/ anchored /\ offset' = offset /\ ts - lastInput <= Discontinuity
    BY <1>2, AnchorGap
  <2>4. CASE ts - offset' = 0
    BY <1>1, <2>4
  <2>5. CASE ts - offset' = Furthest + 1
    BY <1>1, <2>5
  <2>. QED  BY <2>2, <2>3, <2>4, <2>5
<1>5. written'.stamp <= Furthest + Discontinuity
  BY <1>1, <1>3, <1>4
<1>. QED  BY <1>1, <1>3, <1>5 DEF TypeOK

\* The muxer starts inside its inductive invariant.
LEMMA MuxerInit == Init => MuxerInductive
<1>. SUFFICES ASSUME Init PROVE MuxerInductive
  OBVIOUS
<1>1. TypeOK
  <2>1. lastOutput \in [Kind -> Nat \cup {-1}]
    BY DEF Init
  <2>2. anchored \in BOOLEAN
    BY Zenon DEF Init
  <2>3. offset \in Int /\ lastInput \in Int
    BY DEF Init
  <2>. QED  BY <2>1, <2>2, <2>3 DEF Init, TypeOK
<1>2. PresentIsReached
  BY DEF Init, PresentIsReached
<1>. QED  BY <1>1, <1>2 DEF MuxerInductive

\* The inductive invariant survives every step.
LEMMA MuxerStep == MuxerInductive /\ [Next]_vars => MuxerInductive'
BY TypeStep, PresentStep DEF MuxerInductive

\* The inductive invariant holds at all times.
THEOREM MuxerInductiveHolds == Spec => []MuxerInductive
BY MuxerInit, MuxerStep, PTL DEF Spec

\* The container's time is made of natural numbers, whatever the device sends.
THEOREM MuxerTypeCorrect == Spec => []TypeOK
<1>1. MuxerInductive => TypeOK
  BY DEF MuxerInductive
<1>. QED  BY <1>1, MuxerInductiveHolds, PTL

\* Each track of the container moves strictly forward on every clock: repeats,
\* steps back, restarts and wraps included.
THEOREM TracksAlwaysAdvance == Spec => TracksAdvance
<1>1. MuxerInductive /\ [Next]_vars =>
        [written' # Nothing =>
           /\ written'.stamp > lastOutput[written'.kind]
           /\ lastOutput'[written'.kind] = written'.stamp]_vars
  BY WriteStep DEF Next, Drop, Misfit
<1>. QED  BY <1>1, MuxerInductiveHolds, PTL DEF Spec, TracksAdvance

\* No clock, however it jumps, makes the container leap: a write lands at most a
\* gap in delivery past the furthest point both tracks have reached.
THEOREM NeverLeaps == Spec => NoLeap
<1>1. MuxerInductive /\ [Next]_vars =>
        [\A k \in Kind : lastOutput'[k] <= Furthest + Discontinuity]_vars
  <2>1. ASSUME MuxerInductive, UNCHANGED lastOutput
        PROVE  \A k \in Kind : lastOutput'[k] <= Furthest + Discontinuity
    BY <2>1, FurthestBounds, MuxerAssumption DEF MuxerInductive, TypeOK
  <2>. QED  BY <2>1, WriteStep DEF Next, Drop, Misfit
<1>. QED  BY <1>1, MuxerInductiveHolds, PTL DEF Spec, NoLeap

\* After every unit the device's present, rebased, has been reached by the output,
\* or the stamps are about to stop fitting: a restart is always noticed from where
\* the container really is.
THEOREM PresentAlwaysReached == Spec => []PresentIsReached
<1>1. MuxerInductive => PresentIsReached
  BY DEF MuxerInductive
<1>. QED  BY <1>1, MuxerInductiveHolds, PTL

--------------------------------------------------------------------------------
(* The scan.  It keeps two things true: what it has found is what Annex B finds *)
(* to the left of index, and index stands inside no start code.  The second is  *)
(* what makes it safe to look for the four-byte form only where the scan stands. *)

Passed == starts = {c \in StartCodes : c.at < index}

Aligned == \A c \in StartCodes : c.at < index => c.at + c.size <= index

Found == ScanTypeOK /\ Passed /\ Aligned

\* A start code is one of two forms, at a place of the buffer.
LEMMA StartCodeForms ==
  ASSUME data \in Seq(Byte)
  PROVE  \A c : c \in StartCodes <=>
           \/ \E i \in Nat : /\ c = [at |-> i, size |-> 3]
                             /\ Prefix(i) /\ (i = 0 \/ At(i - 1) # 0)
           \/ \E i \in Nat : /\ c = [at |-> i, size |-> 4]
                             /\ Prefix(i + 1) /\ At(i) = 0
  <1>1. end \in Nat
    BY DEF end
  <1>2. \A i \in Nat : Prefix(i) => i \in 0 .. end
    BY <1>1 DEF Prefix
  <1>3. \A i \in Nat : Prefix(i + 1) => i \in 0 .. end
    BY <1>1 DEF Prefix
  <1> QED
    BY <1>1, <1>2, <1>3 DEF StartCodes

\* A start code where the scan stands is the one the scan sees there.
LEMMA SeenWhereItStands ==
  ASSUME ScanTypeOK, Aligned,
         NEW c \in StartCodes, c.at = index
  PROVE  Scanning /\ (c.size = 3 => Three(index)) /\ (c.size = 4 => Four(index))
  <1> end \in Nat
    BY DEF ScanTypeOK, end
  <1>1. CASE \E i \in Nat : c = [at |-> i, size |-> 3] /\ Prefix(i)
    BY <1>1 DEF Prefix, Scanning, ScanTypeOK
  <1>2. CASE \E i \in Nat : c = [at |-> i, size |-> 4] /\ Prefix(i + 1) /\ At(i) = 0
    BY <1>2 DEF Prefix, Three, Four, Scanning, ScanTypeOK, At
  <1> QED
    BY <1>1, <1>2, StartCodeForms DEF ScanTypeOK

\* Two start codes do not overlap.
LEMMA CodesApart ==
  ASSUME ScanTypeOK,
         NEW c \in StartCodes, NEW d \in StartCodes, c.at < d.at
  PROVE  c.at + c.size <= d.at
  <1> end \in Nat
    BY DEF ScanTypeOK, end
  <1> DEFINE Form(x, i) ==
        \/ x = [at |-> i, size |-> 3] /\ Prefix(i) /\ (i = 0 \/ At(i - 1) # 0)
        \/ x = [at |-> i, size |-> 4] /\ Prefix(i + 1) /\ At(i) = 0
  <1>1. PICK i \in Nat : Form(c, i)
    BY StartCodeForms DEF ScanTypeOK
  <1>2. PICK j \in Nat : Form(d, j)
    BY StartCodeForms DEF ScanTypeOK
  <1>3. i < j
    BY <1>1, <1>2
  <1>4. CASE c.size = 3
    <2>1. Prefix(i) /\ c = [at |-> i, size |-> 3]
      BY <1>1, <1>4
    <2>2. j # i + 1 /\ j # i + 2
      BY <1>2, <2>1 DEF Prefix, Three, At
    <2> QED
      BY <1>2, <1>3, <2>1, <2>2
  <1>5. CASE c.size = 4
    <2>1. Prefix(i + 1) /\ At(i) = 0 /\ c = [at |-> i, size |-> 4]
      BY <1>1, <1>5
    <2>2. j # i + 1 /\ j # i + 2 /\ j # i + 3
      BY <1>2, <2>1 DEF Prefix, Three, At
    <2> QED
      BY <1>2, <1>3, <2>1, <2>2
  <1> QED
    BY <1>1, <1>4, <1>5

\* What is seen where the scan stands is a start code there.
LEMMA StandsOnThree ==
  ASSUME ScanTypeOK, Aligned, Scanning, Three(index)
  PROVE  [at |-> index, size |-> 3] \in StartCodes
  <1> end \in Nat
    BY DEF ScanTypeOK, end
  <1>1. Prefix(index)
    BY DEF Prefix, Scanning
  <1>2. CASE index > 0 /\ At(index - 1) = 0
    <2> DEFINE d == [at |-> index - 1, size |-> 4]
    <2>1. d \in StartCodes
      <3>1. index - 1 \in Nat /\ (index - 1) + 1 = index
        BY <1>2 DEF ScanTypeOK
      <3> QED
        BY <1>1, <1>2, <3>1, StartCodeForms DEF ScanTypeOK
    <2>2. d.at < index /\ ~(d.at + d.size <= index)
      BY <1>2 DEF ScanTypeOK
    <2> QED
      BY <2>1, <2>2 DEF Aligned
  <1>3. CASE index = 0 \/ At(index - 1) # 0
    BY <1>1, <1>3, StartCodeForms DEF ScanTypeOK
  <1> QED
    BY <1>2, <1>3 DEF ScanTypeOK

\* So is a four-byte code where the scan stands on one.
LEMMA StandsOnFour ==
  ASSUME ScanTypeOK, Scanning, Four(index)
  PROVE  [at |-> index, size |-> 4] \in StartCodes
  <1> end \in Nat
    BY DEF ScanTypeOK, end
  <1>1. Prefix(index + 1) /\ At(index) = 0
    BY DEF Prefix, Four, Three, ScanTypeOK, At
  <1> QED
    BY <1>1, StartCodeForms DEF ScanTypeOK

\* A code found where the scan stands, and skipped, keeps both facts.
LEMMA Advance ==
  ASSUME Found, UNCHANGED data,
         NEW c \in StartCodes, c.at = index,
         starts' = starts \cup {c},
         index' = index + c.size
  PROVE  Passed' /\ Aligned'
  <1>1. StartCodes' = StartCodes
    BY DEF StartCodes, Prefix, Three, At, end
  <1>2. StartCodes \subseteq [at : Nat, size : {3, 4}]
    <2> end \in Nat
      BY DEF Found, ScanTypeOK, end
    <2> QED
      BY DEF StartCodes
  <1>3. \A d \in StartCodes : d.at < index + c.size <=> d.at < index \/ d = c
    <2> TAKE d \in StartCodes
    <2>1. d.at > c.at => c.at + c.size <= d.at
      BY CodesApart DEF Found
    <2>2. d.at = c.at => d = c
      <3>1. CASE c.size = d.size
        BY <1>2, <3>1
      <3>2. CASE c.size # d.size /\ d.at = c.at
        <4>1. Three(index) /\ Four(index)
          BY <1>2, <3>2, SeenWhereItStands DEF Found
        <4> QED
          BY <4>1 DEF Three, Four
      <3> QED
        BY <3>1, <3>2
    <2> QED
      BY <1>2, <2>1, <2>2 DEF Found, ScanTypeOK
  <1>4. Passed'
    BY <1>1, <1>3 DEF Found, Passed
  <1>5. Aligned'
    <2> SUFFICES ASSUME NEW d \in StartCodes, d.at < index + c.size
                 PROVE  d.at + d.size <= index + c.size
      BY <1>1 DEF Aligned
    <2>1. CASE d = c
      BY <2>1, <1>2
    <2>2. CASE d.at < index
      BY <2>2, <1>2 DEF Found, Aligned, ScanTypeOK
    <2> QED
      BY <1>3, <2>1, <2>2
  <1> QED
    BY <1>4, <1>5

\* Nothing lies to the left of the first byte.
LEMMA FoundInit == ScanInit => Found
  <1> SUFFICES ASSUME ScanInit PROVE Found
    OBVIOUS
  <1>1. ScanTypeOK
    BY NalAssumption DEF ScanInit, ScanTypeOK
  <1>2. \A c \in StartCodes : c.at \in Nat
    BY <1>1 DEF StartCodes, ScanTypeOK, end
  <1> QED
    BY <1>1, <1>2 DEF ScanInit, Found, Passed, Aligned

\* Each iteration finds the code it stands on, or stands on none.
LEMMA FoundStep == Found /\ [ScanNext]_scanVars => Found'
  <1> SUFFICES ASSUME Found, [ScanNext]_scanVars PROVE Found'
    OBVIOUS
  <1> USE DEF Found
  <1>1. ScanTypeOK'
    BY DEF ScanTypeOK, ScanNext, FoundThree, FoundFour, MoveOn, scanVars
  <1>2. CASE FoundThree
    <2>1. [at |-> index, size |-> 3] \in StartCodes
      BY <1>2, StandsOnThree DEF FoundThree
    <2> QED
      BY <1>1, <1>2, <2>1, Advance DEF FoundThree
  <1>3. CASE FoundFour
    <2>1. [at |-> index, size |-> 4] \in StartCodes
      BY <1>3, StandsOnFour DEF FoundFour
    <2> QED
      BY <1>1, <1>3, <2>1, Advance DEF FoundFour
  <1>4. CASE MoveOn
    <2>1. StartCodes' = StartCodes
      BY <1>4 DEF MoveOn, StartCodes, Prefix, Three, At, end
    <2>2. \A c \in StartCodes : c.at \in Nat /\ c.size \in {3, 4}
      BY DEF StartCodes, ScanTypeOK, end
    <2>3. \A c \in StartCodes : c.at # index
      BY <1>4, <2>2, SeenWhereItStands DEF MoveOn
    <2>4. \A c \in StartCodes : c.at < index + 1 <=> c.at < index
      BY <2>2, <2>3 DEF ScanTypeOK
    <2>5. Passed'
      BY <1>4, <2>1, <2>4 DEF MoveOn, Passed
    <2>6. Aligned'
      BY <1>4, <2>1, <2>2, <2>4 DEF MoveOn, Aligned, ScanTypeOK
    <2> QED
      BY <1>1, <2>5, <2>6
  <1>5. CASE UNCHANGED scanVars
    BY <1>5 DEF scanVars, ScanTypeOK, Passed, Aligned, StartCodes, Prefix, Three, At, end
  <1> QED
    BY <1>2, <1>3, <1>4, <1>5 DEF ScanNext

\* When the scan is over no start code is to the right of it.
LEMMA FoundAll == Found => FindsStartCodes
  <1> SUFFICES ASSUME Found, ~Scanning PROVE starts = StartCodes
    BY DEF FindsStartCodes
  <1> end \in Nat
    BY DEF Found, ScanTypeOK, end
  <1>1. ASSUME NEW c \in StartCodes PROVE c.at < index
    <2>1. c.at \in Nat /\ c.at + 2 < end
      BY DEF StartCodes, Prefix
    <2> QED
      BY <2>1 DEF Scanning, Found, ScanTypeOK
  <1> QED
    BY <1>1 DEF Found, Passed

\* The invariant holds of every scan.
THEOREM ScanInductive == ScanSpec => []Found
  <1>1. ScanInit => Found
    BY FoundInit
  <1>2. Found /\ [ScanNext]_scanVars => Found'
    BY FoundStep
  <1> QED
    BY <1>1, <1>2, PTL DEF ScanSpec

\* Whatever the buffer, every variable keeps its type.
THEOREM ScanTypeCorrect == ScanSpec => []ScanTypeOK
  <1>1. Found => ScanTypeOK
    BY DEF Found
  <1> QED
    BY <1>1, ScanInductive, PTL

\* Whatever the buffer, iter_nal_units cuts it at Annex B's start codes: every one
\* of either length, and nowhere else.
THEOREM EveryStartCodeIsFound == ScanSpec => []FindsStartCodes
  BY FoundAll, ScanInductive, PTL

\* A code found by the scan, and what a unit that follows it looks like.
LEMMA UnitFollowsCode ==
  ASSUME ScanTypeOK, NEW u \in Units
  PROVE  \E s \in starts :
           /\ s.at \in Nat /\ s.size \in {3, 4}
           /\ u.from = s.at + s.size /\ Ends(s, u.to)
           /\ u.from \in Nat /\ u.to \in Nat
           /\ u.from < u.to /\ u.to <= end
  <1>1. end \in Nat
    BY DEF ScanTypeOK, end
  <1>2. PICK s \in starts : u.from = s.at + s.size /\ Ends(s, u.to)
    BY DEF Units
  <1>3. u.from \in 0 .. end /\ u.to \in 0 .. end /\ u.from < u.to
    BY DEF Units
  <1>4. s.at \in Nat /\ s.size \in {3, 4}
    BY DEF ScanTypeOK
  <1> QED
    BY <1>1, <1>2, <1>3, <1>4

\* No prefix begins inside a unit: the code it belongs to would have ended it.
LEMMA NoPrefixInside ==
  ASSUME ScanTypeOK, starts = StartCodes,
         NEW u \in Units, NEW i \in u.from .. u.to - 1
  PROVE  ~Prefix(i)
  <1> end \in Nat
    BY DEF ScanTypeOK, end
  <1>1. PICK s \in starts :
          /\ s.at \in Nat /\ s.size \in {3, 4}
          /\ u.from = s.at + s.size /\ Ends(s, u.to)
          /\ u.from \in Nat /\ u.to \in Nat
    BY UnitFollowsCode
  <1>2. i \in Nat /\ i > s.at + 2 /\ i < u.to
    BY <1>1
  <1> SUFFICES ASSUME Prefix(i) PROVE FALSE
    OBVIOUS
  <1>3. CASE At(i - 1) # 0
    <2>1. [at |-> i, size |-> 3] \in starts
      BY <1>2, <1>3, StartCodeForms DEF ScanTypeOK
    <2> QED
      BY <1>1, <1>2, <2>1 DEF Ends
  <1>4. CASE At(i - 1) = 0
    <2>1. i - 1 \in Nat /\ Prefix((i - 1) + 1)
      <3>1. i - 1 \in Nat /\ (i - 1) + 1 = i
        BY <1>1, <1>2
      <3> QED
        BY <3>1
    <2>2. [at |-> i - 1, size |-> 4] \in starts
      BY <1>4, <2>1, StartCodeForms DEF ScanTypeOK
    <2> QED
      BY <1>1, <1>2, <2>1, <2>2 DEF Ends
  <1> QED
    BY <1>3, <1>4

\* Where a unit ends before the buffer does, a start code begins.
LEMMA EndsAtCode ==
  ASSUME ScanTypeOK, starts = StartCodes, NEW u \in Units, u.to < end
  PROVE  Prefix(u.to) \/ (At(u.to) = 0 /\ Prefix(u.to + 1))
  <1> end \in Nat
    BY DEF ScanTypeOK, end
  <1>1. PICK s \in starts : Ends(s, u.to) /\ u.to \in Nat
    BY UnitFollowsCode
  <1>2. PICK t \in StartCodes : t.at = u.to
    BY <1>1 DEF Ends
  <1>3. CASE \E i \in Nat : t = [at |-> i, size |-> 3] /\ Prefix(i)
    BY <1>2, <1>3
  <1>4. CASE \E i \in Nat : t = [at |-> i, size |-> 4] /\ Prefix(i + 1) /\ At(i) = 0
    BY <1>2, <1>4
  <1> QED
    BY <1>3, <1>4, StartCodeForms DEF ScanTypeOK

\* No position begins both a three- and a four-byte code.
LEMMA OneCodePerPlace ==
  ASSUME ScanTypeOK, NEW c \in StartCodes, NEW d \in StartCodes, c.at = d.at
  PROVE  c.size = d.size
  <1> end \in Nat
    BY DEF ScanTypeOK, end
  <1>1. ASSUME NEW i \in Nat, Prefix(i), Prefix(i + 1)
        PROVE  FALSE
    BY <1>1 DEF Prefix, Three
  <1> QED
    BY <1>1, StartCodeForms DEF ScanTypeOK

\* Two units share no position.
LEMMA UnitsApart ==
  ASSUME ScanTypeOK, starts = StartCodes, NEW u \in Units, NEW v \in Units, u # v
  PROVE  u.to <= v.from \/ v.to <= u.from
  <1> end \in Nat
    BY DEF ScanTypeOK, end
  <1>1. PICK s \in starts :
          /\ s.at \in Nat /\ s.size \in {3, 4} /\ u.from = s.at + s.size
          /\ Ends(s, u.to) /\ u.to \in Nat /\ u.to <= end
    BY UnitFollowsCode
  <1>2. PICK t \in starts :
          /\ t.at \in Nat /\ t.size \in {3, 4} /\ v.from = t.at + t.size
          /\ Ends(t, v.to) /\ v.to \in Nat /\ v.to <= end
    BY UnitFollowsCode
  <1>3. CASE s.at < t.at
    BY <1>1, <1>2, <1>3 DEF Ends
  <1>4. CASE t.at < s.at
    BY <1>1, <1>2, <1>4 DEF Ends
  <1>5. CASE s.at = t.at
    <2>1. u.from = v.from
      BY <1>1, <1>2, <1>5, OneCodePerPlace
    <2>2. u.to = v.to
      BY <1>1, <1>2, <1>5 DEF Ends
    <2>3. u = v
      BY <2>1, <2>2 DEF Units
    <2> QED
      BY <2>3
  <1> QED
    BY <1>1, <1>2, <1>3, <1>4, <1>5

\* Whatever the buffer, the units iter_nal_units yields have no start code inside,
\* end where one begins or with the buffer, and share no byte.
THEOREM UnitsAlwaysWhole == ScanSpec => []UnitsAreWhole
  <1>1. ASSUME Found PROVE UnitsAreWhole
    <2> SUFFICES ASSUME ~Scanning PROVE UnitsAreWhole
      BY DEF UnitsAreWhole
    <2>1. ScanTypeOK /\ starts = StartCodes
      BY <1>1, FoundAll DEF Found, FindsStartCodes
    <2> QED
      BY <2>1, NoPrefixInside, EndsAtCode, UnitsApart DEF UnitsAreWhole
  <1> QED
    BY <1>1, ScanInductive, PTL
================================================================================
