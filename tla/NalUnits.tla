-------------------------------- MODULE NalUnits --------------------------------
(***************************************************************************)
(* bridge/nal.py: iter_nal_units, which cuts an Annex-B buffer at its start *)
(* codes.  A scan for three and four byte codes from left to right, against *)
(* what H.264's Annex B says a start code is.  Positions count from zero,   *)
(* as in the code.                                                          *)
(***************************************************************************)
EXTENDS Naturals, Sequences

CONSTANTS
  Byte,    \* the values of a byte; 0 and 1 are the ones a start code is made of
  Inputs   \* the buffers that may come

ASSUME NalAssumption ==
  /\ {0, 1} \subseteq Byte
  /\ Inputs \subseteq Seq(Byte)

VARIABLES
  data,    \* the buffer
  index,   \* where the scan stands
  starts   \* the codes it has found, each where it begins and its size

scanVars == <<data, index, starts>>

end == Len(data)

At(i) == data[i + 1]

ScanInit ==
  /\ data \in Inputs
  /\ index = 0
  /\ starts = {}

\* Mutation: one byte too few.
ScanningShort == index + 3 < end

Scanning == index + 2 < end

Three(i) == At(i) = 0 /\ At(i + 1) = 0 /\ At(i + 2) = 1

Four(i) == i + 3 < end /\ At(i) = 0 /\ At(i + 1) = 0 /\ At(i + 2) = 0 /\ At(i + 3) = 1

\* Mutation: the three-byte code is taken for a longer one.
FoundThreeSkips ==
  /\ Scanning /\ Three(index)
  /\ starts' = starts \cup {[at |-> index, size |-> 3]}
  /\ index' = index + 4
  /\ UNCHANGED data

FoundThree ==
  /\ Scanning /\ Three(index)
  /\ starts' = starts \cup {[at |-> index, size |-> 3]}
  /\ index' = index + 3
  /\ UNCHANGED data

FoundFour ==
  /\ Scanning /\ Four(index)
  /\ starts' = starts \cup {[at |-> index, size |-> 4]}
  /\ index' = index + 4
  /\ UNCHANGED data

MoveOn ==
  /\ Scanning /\ ~Three(index) /\ ~Four(index)
  /\ index' = index + 1
  /\ UNCHANGED <<data, starts>>

ScanNext == FoundThree \/ FoundFour \/ MoveOn

ScanSpec == ScanInit /\ [][ScanNext]_scanVars

\* Where the unit after a code ends: at the next code, or with the buffer.
Ends(s, e) ==
  /\ e \in {end} \cup {t.at : t \in starts}
  /\ s.at < e
  /\ \A t \in starts : s.at < t.at => e <= t.at

\* The units the scan yields, each the positions from its first byte up to the
\* one it ends before; the empty ones are skipped.
Units ==
  {u \in [from : 0 .. end, to : 0 .. end] :
     u.from < u.to /\ \E s \in starts : u.from = s.at + s.size /\ Ends(s, u.to)}
--------------------------------------------------------------------------------
\* What Annex B says: a prefix is 00 00 01, and a zero byte before it is its own.
Prefix(i) == i + 2 < end /\ Three(i)

StartCodes ==
  {[at |-> i, size |-> 3] : i \in {j \in 0 .. end : Prefix(j) /\ (j = 0 \/ At(j - 1) # 0)}}
  \cup
  {[at |-> i, size |-> 4] : i \in {j \in 0 .. end : Prefix(j + 1) /\ At(j) = 0}}

\* Every variable keeps its type.
ScanTypeOK ==
  /\ data \in Seq(Byte)
  /\ index \in Nat
  /\ starts \subseteq [at : Nat, size : {3, 4}]

\* When the scan is over it has found Annex B's start codes, all of them and no
\* others: "three- and four-byte start codes, including a mix of both".
FindsStartCodes == ~Scanning => starts = StartCodes

\* No unit has a start code inside, each ends where a start code begins or with the
\* buffer, and no byte belongs to two units.
UnitsAreWhole ==
  ~Scanning =>
    \A u \in Units :
      /\ \A i \in u.from .. u.to - 1 : ~Prefix(i)
      /\ u.to < end => Prefix(u.to) \/ (At(u.to) = 0 /\ Prefix(u.to + 1))
      /\ \A v \in Units : u # v => u.to <= v.from \/ v.to <= u.from
================================================================================
