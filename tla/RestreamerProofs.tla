---------------------------- MODULE RestreamerProofs ----------------------------
(***************************************************************************)
(* What Restreamer guarantees for any number of refreshes, streams, files  *)
(* left from earlier, processes and failures.  That one go2rtc lives needs *)
(* only that the supervisor watches the process it spawned last; that it   *)
(* serves its file needs also that whoever ends it still has it in hand,   *)
(* and that somebody is still to bring what it does not serve up to date.  *)
(***************************************************************************)
EXTENDS Restreamer, FiniteSetTheorems, TLAPS

\* Until a stop ...
Running == stopping = "no"

\* ... only the process that was spawned last may live, and only while the supervisor
\* has it;
OnlyTheLast ==
  /\ supervisor # "none"
  /\ \A p \in Process : Living(p) => p = spawned /\ supervisor \in {"spawning", "watching"}

\* _process names the process that lives from the moment its spawn has returned, and
\* nothing while none is watched;
InHand ==
  /\ supervisor # "watching" => handle = None
  /\ \A p \in Process :
       /\ process[p] = "up" => supervisor = "watching"
       /\ Living(p) /\ supervisor = "watching" => handle = p

\* whoever waits for a process to end takes the handle away while there is still no
\* other, for the supervisor sleeps before it spawns again.
VictimsEnd ==
  \A c \in Caller :
    caller[c].at = "terminating" =>
      \/ supervisor = "watching" /\ spawned = caller[c].victim
      \/ ~Living(caller[c].victim) /\ supervisor = "sleeping" /\ delay > 0

ProcessSound == TypeOK /\ (Running => OnlyTheLast /\ InHand /\ VictimsEnd)

Ending == \E c \in Caller : caller[c].at = "terminating"

\* A delivery that has still to bring this stream to what the file says.
Delivers(c, n) ==
  /\ caller[c].at = "delivering" /\ n \notin caller[c].done
  /\ caller[c].target[n] = file[n] /\ caller[c].previous[n] # file[n]

\* What the bridge holds is what the file says, or it has not applied anything yet; and
\* a stream of the file that go2rtc does not serve is being seen to, by the end of
\* go2rtc or by a delivery.
FileServed ==
  /\ streams \in {file, Empty}
  /\ \A p \in Up, n \in Name \ late :
       file[n] # Absent => running[p][n] = file[n] \/ Ending \/ \E c \in Caller : Delivers(c, n)

TableSound == ProcessSound /\ (Running => FileServed)


--------------------------------------------------------------------------------
(* Types *)

LEMMA Assumed ==
  /\ RestartDelay \in Nat \ {0} /\ MaxProcesses \in Nat \ {0}
  /\ Attempts \in Nat /\ MaxApplies \in Nat
  /\ Tables \subseteq Table /\ Earlier \subseteq Table /\ Empty \in Table
BY RestreamerAssumption DEF Table, Empty

\* The four things an async_apply may be doing.
Readying == [NoCall EXCEPT !.at = "readying", !.left = Attempts]

Terminating(p) == [NoCall EXCEPT !.at = "terminating", !.victim = p]

Delivering(table, explicit) ==
  [NoCall EXCEPT !.at = "delivering", !.previous = streams, !.target = table,
                 !.explicit = explicit]

LEMMA NoCallTyped == NoCall \in Call
<1>1. Empty \in Table /\ {} \in SUBSET Name /\ 0 \in 0 .. Attempts
  BY Assumed
<1>. QED  BY <1>1 DEF NoCall, Call

LEMMA ReadyingTyped == Readying \in Call /\ Readying.at = "readying"
<1>1. Attempts \in 0 .. Attempts
  BY Assumed
<1>. QED  BY <1>1, NoCallTyped DEF Readying, Call

LEMMA TerminatingTyped ==
  ASSUME NEW p \in Process
  PROVE  Terminating(p) \in Call /\ Terminating(p).at = "terminating" /\ Terminating(p).victim = p
BY NoCallTyped DEF Terminating, Call

LEMMA DeliveringTyped ==
  ASSUME streams \in Table, NEW table \in Table, NEW explicit \in BOOLEAN
  PROVE  LET r == Delivering(table, explicit) IN
         /\ r \in Call /\ r.at = "delivering"
         /\ r.previous = streams /\ r.target = table /\ r.done = {}
<1>1. NoCall.done = {}
  BY DEF NoCall
<1>. QED  BY <1>1, NoCallTyped DEF Delivering, Call

\* A restart ends what is in hand or goes straight to the wait for go2rtc.
LEMMA RestartEffect ==
  ASSUME TypeOK, NEW c \in Caller, Restart(c)
  PROVE  \E r \in Call :
           /\ caller' = [caller EXCEPT ![c] = r]
           /\ \/ /\ handle \in Process /\ Living(handle)
                 /\ signalled' = signalled \cup {handle} /\ supervisor' = supervisor
                 /\ r.at = "terminating" /\ r.victim = handle
              \/ /\ ~(handle \in Process /\ Living(handle)) /\ UNCHANGED signalled
                 /\ supervisor' = (IF supervisor = "none" THEN "spawn" ELSE supervisor)
                 /\ r.at = "readying"
<1>1. CASE handle # None /\ Living(handle)
  <2>1. handle \in Process
    BY <1>1 DEF TypeOK
  <2>2. caller' = [caller EXCEPT ![c] = Terminating(handle)]
    BY <1>1 DEF Restart, Terminating
  <2>3. signalled' = signalled \cup {handle} /\ supervisor' = supervisor
    BY <1>1 DEF Restart
  <2>. QED  BY <1>1, <2>1, <2>2, <2>3, TerminatingTyped
<1>2. CASE ~(handle # None /\ Living(handle))
  <2>1. UNCHANGED signalled /\ Start(c)
    BY <1>2 DEF Restart
  <2>2. ~(handle \in Process /\ Living(handle))
    BY <1>2 DEF None, Process
  <2>. QED  BY <2>1, <2>2, ReadyingTyped DEF Start, Readying
<1>. QED  BY <1>1, <1>2

\* What a call of go2rtc's API makes of the tables.
LEMMA SetRunningTyped ==
  ASSUME running \in [Process -> Table], NEW n \in Name, NEW src \in Src \cup {Absent},
         SetRunning(n, src)
  PROVE  /\ running' \in [Process -> Table]
         /\ \A p \in Process, m \in Name :
              running'[p][m] = IF p \in Up /\ m = n THEN src ELSE running[p][m]
<1>1. \A p \in Process : [running[p] EXCEPT ![n] = src] \in Table
  BY DEF Table
<1>2. \A p \in Process, m \in Name :
        [running[p] EXCEPT ![n] = src][m] = IF m = n THEN src ELSE running[p][m]
  BY DEF Table
<1>. QED  BY <1>1, <1>2 DEF SetRunning

\* A call to bring one stream up to date: it sets what go2rtc runs of that stream, and
\* counts it as done only if that is what it should be.
LEMMA DeliverEffect ==
  ASSUME TypeOK, NEW c \in Caller, Deliver(c)
  PROVE  \E n \in Name, src \in Src \cup {Absent}, r \in Call :
           /\ caller[c].at = "delivering" /\ n \notin caller[c].done
           /\ caller[c].previous[n] # caller[c].target[n]
           /\ SetRunning(n, src) /\ saved' \in Table
           /\ late' = IF caller[c].target[n] = file[n] THEN late \ {n} ELSE late \cup {n}
           /\ caller' = [caller EXCEPT ![c] = r]
           /\ r.at = "delivering" /\ r.previous = caller[c].previous
           /\ r.target = caller[c].target
           /\ \/ r.done = caller[c].done
              \/ r.done = caller[c].done \cup {n} /\ src = caller[c].target[n]
<1>. DEFINE now == caller[c]
<1>1. /\ now \in Call /\ now.target \in Table /\ saved \in Table
      /\ Absent \in Src \cup {Absent} /\ caller \in [Caller -> Call]
  BY DEF TypeOK, Call
<1>2. \A n \in Name : now.target[n] \in Src \cup {Absent}
  BY <1>1 DEF Table
<1>3. \A n \in Name, src \in Src \cup {Absent} : [saved EXCEPT ![n] = src] \in Table
  BY <1>1 DEF Table
<1>4. \A n \in Pending(c) : n \in Name /\ n \notin now.done /\ now.previous[n] # now.target[n]
  BY DEF Pending
<1>5. now.at = "delivering"
  BY DEF Deliver
<1>6. PICK n \in Name :
        /\ Delete(c, n) \/ Put(c, n) \/ Patch(c, n)
        /\ late' = IF now.target[n] = file[n] THEN late \ {n} ELSE late \cup {n}
  BY DEF Deliver
<1>. DEFINE done == [now EXCEPT !.done = now.done \cup {n}]
            deleted == [now EXCEPT !.deleted = now.deleted \cup {n}]
<1>7. /\ done \in Call /\ done.at = now.at /\ done.previous = now.previous
      /\ done.target = now.target /\ done.done = now.done \cup {n}
  BY <1>1 DEF Call
<1>8. /\ deleted \in Call /\ deleted.at = now.at /\ deleted.previous = now.previous
      /\ deleted.target = now.target /\ deleted.done = now.done
  BY <1>1 DEF Call
<1>9. n \notin now.done /\ now.previous[n] # now.target[n]
  BY <1>4, <1>6 DEF Delete, Put, Patch
<1>10. CASE Delete(c, n)
  <2>1. SetRunning(n, Absent) /\ saved' = [saved EXCEPT ![n] = Absent] /\ saved' \in Table
    BY <1>1, <1>3, <1>10 DEF Delete
  <2>2. CASE now.target[n] = Absent
    <3>1. caller' = [caller EXCEPT ![c] = done]
      BY <1>10, <2>2 DEF Delete
    <3>. HIDE DEF done
    <3>. QED  BY <1>1, <1>6, <1>5, <1>7, <1>9, <2>1, <2>2, <3>1
  <2>3. CASE now.target[n] # Absent
    <3>1. caller' = [caller EXCEPT ![c] = deleted]
      BY <1>10, <2>3 DEF Delete
    <3>. HIDE DEF deleted
    <3>. QED  BY <1>1, <1>6, <1>5, <1>8, <1>9, <2>1, <3>1
  <2>. QED  BY <2>2, <2>3
<1>11. CASE Put(c, n) \/ Patch(c, n)
  <2>1. /\ SetRunning(n, now.target[n]) /\ caller' = [caller EXCEPT ![c] = done]
        /\ saved' = [saved EXCEPT ![n] = now.target[n]] \/ saved' = saved
    BY <1>11 DEF Put, Patch
  <2>2. saved' \in Table /\ now.target[n] \in Src \cup {Absent}
    BY <1>1, <1>2, <1>3, <2>1
  <2>. HIDE DEF done, deleted
  <2>. QED  BY <1>6, <1>5, <1>7, <1>9, <2>1, <2>2
<1>. QED  BY <1>6, <1>10, <1>11


\* An apply writes the file whatever comes of it; then it restarts or delivers.
LEMMA ApplyEffect ==
  ASSUME TypeOK, NEW c \in Caller, NEW table \in Tables, NEW explicit \in BOOLEAN,
         Apply(c, table, explicit)
  PROVE  /\ caller[c].at = "idle" /\ table \in Table /\ streams' = table /\ file' = table
         /\ applies' \in 0 .. MaxApplies
         /\ UNCHANGED <<delay, handle, spawned, process, running, late, saved, stopping, ending>>
         /\ \/ handle = None /\ Restart(c)
            \/ /\ handle # None /\ UNCHANGED <<supervisor, signalled>>
               /\ caller' = [caller EXCEPT ![c] = Delivering(table, explicit)]
<1>1. applies' \in 0 .. MaxApplies
  BY Assumed DEF Apply, TypeOK
<1>. QED  BY <1>1, Assumed DEF Apply, Delivering

LEMMA TypeStep ==
  ASSUME TypeOK, [Next]_vars
  PROVE  TypeOK'
<1>0. /\ streams \in Table /\ file \in Table /\ saved \in Table
      /\ spawned \in Process \cup {None} /\ handle \in Process \cup {None}
      /\ process \in [Process -> {"none", "booting", "up", "dead"}]
      /\ running \in [Process -> Table] /\ caller \in [Caller -> Call]
      /\ delay \in 0 .. RestartDelay /\ signalled \subseteq Process
      /\ supervisor \in {"none", "spawn", "spawning", "watching", "sleeping"}
  BY DEF TypeOK
<1>1. CASE Tick
  <2>1. \A n \in Nat : \A m \in 0 .. n : Down(m) \in 0 .. n
    BY DEF Down
  <2>2. delay' \in 0 .. RestartDelay
    BY <1>0, <1>1, <2>1, Assumed DEF Tick
  <2>3. \A c \in Caller : [caller[c] EXCEPT !.left = Down(@)] \in Call
    BY <1>0, <2>1, Assumed DEF Call
  <2>4. caller' \in [Caller -> Call]
    BY <1>1, <2>3 DEF Tick
  <2>. QED  BY <1>1, <2>2, <2>4 DEF Tick, go2rtc, TypeOK
<1>2. CASE Supervise
  <2>1. CASE Spawn
    <3>1. spawned + 1 \in Process
      BY <1>0, <2>1, Assumed DEF Spawn, Process, None
    <3>2. process' \in [Process -> {"none", "booting", "up", "dead"}]
      BY <1>0, <2>1, <3>1 DEF Spawn
    <3>. QED  BY <2>1, <3>1, <3>2 DEF Spawn, TypeOK, Process, None
  <2>2. CASE Spawned
    BY <2>2 DEF Spawned, go2rtc, TypeOK
  <2>3. CASE Exited
    <3>1. RestartDelay \in 0 .. RestartDelay
      BY Assumed
    <3>. QED  BY <2>3, <3>1 DEF Exited, go2rtc, TypeOK
  <2>4. CASE Respawn
    BY <2>4 DEF Respawn, go2rtc, TypeOK
  <2>. QED  BY <1>2, <2>1, <2>2, <2>3, <2>4 DEF Supervise
<1>3. CASE Stop
  <2>1. 0 \in 0 .. RestartDelay
    BY Assumed
  <2>2. signalled' \subseteq Process /\ ending' \in Process \cup {None}
    BY <1>0, <1>3 DEF Stop, TypeOK, None
  <2>. QED  BY <1>3, <2>1, <2>2 DEF Stop, TypeOK
<1>4. CASE StopEnds
  BY <1>4 DEF StopEnds, go2rtc, TypeOK
<1>5. ASSUME NEW c \in Caller, Continue(c)
      PROVE  TypeOK'
  <2>1. CASE Deliver(c)
    <3>1. PICK n \in Name, src \in Src \cup {Absent}, r \in Call :
            /\ SetRunning(n, src) /\ saved' \in Table
            /\ caller' = [caller EXCEPT ![c] = r]
      BY <2>1, DeliverEffect
    <3>2. running' \in [Process -> Table] /\ caller' \in [Caller -> Call]
      BY <1>0, <3>1, SetRunningTyped
    <3>. QED  BY <2>1, <3>1, <3>2 DEF Deliver, TypeOK
  <2>2. CASE DeliverFails(c)
    <3>1. PICK r \in Call :
            /\ caller' = [caller EXCEPT ![c] = r]
            /\ \/ signalled' = signalled \cup {handle} /\ handle \in Process /\ supervisor' = supervisor
               \/ /\ UNCHANGED signalled
                  /\ supervisor' = (IF supervisor = "none" THEN "spawn" ELSE supervisor)
      BY <2>2, RestartEffect DEF DeliverFails
    <3>. QED  BY <1>0, <2>2, <3>1 DEF DeliverFails, TypeOK
  <2>3. CASE Delivered(c) \/ Ready(c)
    <3>1. caller' \in [Caller -> Call]
      BY <1>0, <2>3, NoCallTyped DEF Delivered, Ready
    <3>. QED  BY <2>3, <3>1 DEF Delivered, Ready, go2rtc, TypeOK
  <2>4. CASE Terminated(c)
    <3>1. caller' \in [Caller -> Call]
      BY <1>0, <2>4, ReadyingTyped DEF Terminated, Start, Readying
    <3>. QED  BY <2>4, <3>1 DEF Terminated, Start, go2rtc, TypeOK
  <2>. QED  BY <1>5, <2>1, <2>2, <2>3, <2>4 DEF Continue
<1>6. ASSUME NEW c \in Caller, NEW table \in Tables, NEW explicit \in BOOLEAN,
             Apply(c, table, explicit)
      PROVE  TypeOK'
  <2>1. /\ table \in Table /\ streams' = table /\ file' = table
        /\ applies' \in 0 .. MaxApplies
        /\ UNCHANGED <<delay, handle, spawned, process, running, late, saved, stopping, ending>>
    BY <1>6, ApplyEffect
  <2>2. /\ caller' \in [Caller -> Call] /\ signalled' \subseteq Process
        /\ supervisor' \in {"none", "spawn", "spawning", "watching", "sleeping"}
        /\ supervisor' \in {"spawning", "watching"} => spawned # None
    <3>1. CASE handle = None /\ Restart(c)
      BY <1>0, <3>1, RestartEffect DEF TypeOK
    <3>2. CASE /\ UNCHANGED <<supervisor, signalled>>
               /\ caller' = [caller EXCEPT ![c] = Delivering(table, explicit)]
      BY <1>0, <2>1, <3>2, DeliveringTyped DEF TypeOK
    <3>. QED  BY <1>6, <3>1, <3>2, ApplyEffect
  <2>. QED  BY <2>1, <2>2 DEF TypeOK
<1>7. ASSUME NEW p \in Process, Boot(p)
      PROVE  TypeOK'
  <2>1. [n \in Name |-> IF file[n] # Absent THEN file[n] ELSE saved[n]] \in Table
    BY <1>0 DEF Table
  <2>2. running' \in [Process -> Table]
    BY <1>0, <1>7, <2>1 DEF Boot
  <2>3. process' \in [Process -> {"none", "booting", "up", "dead"}]
    BY <1>0, <1>7 DEF Boot
  <2>. QED  BY <1>7, <2>2, <2>3 DEF Boot, TypeOK
<1>8. ASSUME NEW p \in Process, Die(p)
      PROVE  TypeOK'
  BY <1>8 DEF Die, TypeOK
<1>9. CASE UNCHANGED vars
  BY <1>9 DEF vars, go2rtc, TypeOK
<1>. QED  BY <1>1, <1>2, <1>3, <1>4, <1>5, <1>6, <1>7, <1>8, <1>9 DEF Next


--------------------------------------------------------------------------------
(* One process *)

\* Calls that go on without a process to end disturb nothing.
LEMMA CallsStep ==
  ASSUME TypeOK, OnlyTheLast, InHand, VictimsEnd, NEW c \in Caller, NEW r \in Call,
         caller' = [caller EXCEPT ![c] = r],
         r.at = "terminating" => Living(handle) /\ r.victim = handle /\ handle \in Process,
         UNCHANGED <<supervisor, delay, handle, spawned, process>>
  PROVE  OnlyTheLast' /\ InHand' /\ VictimsEnd'
<1>1. \A p \in Process : Living(p)' <=> Living(p)
  BY DEF Living
<1>2. OnlyTheLast' /\ InHand'
  BY <1>1 DEF OnlyTheLast, InHand
<1>3. ASSUME NEW d \in Caller, caller'[d].at = "terminating"
      PROVE  \/ supervisor' = "watching" /\ spawned' = caller'[d].victim
             \/ ~Living(caller'[d].victim) /\ supervisor' = "sleeping" /\ delay' > 0
  <2>1. caller'[c] = r /\ (d # c => caller'[d] = caller[d])
    BY DEF TypeOK
  <2>2. CASE d = c
    <3>1. handle = spawned /\ handle \in Process /\ handle # None /\ r.victim = handle
      BY <1>3, <2>1, <2>2 DEF OnlyTheLast, Process, None
    <3>2. supervisor = "watching"
      BY <3>1 DEF InHand
    <3>. QED  BY <2>1, <2>2, <3>1, <3>2
  <2>3. CASE d # c
    BY <1>3, <2>1, <2>3 DEF VictimsEnd
  <2>. QED  BY <2>2, <2>3
<1>4. VictimsEnd'
  BY <1>3 DEF VictimsEnd, Living
<1>. QED  BY <1>2, <1>4

LEMMA ProcessStep ==
  ASSUME ProcessSound, [Next]_vars
  PROVE  ProcessSound'
<1>. SUFFICES ASSUME Running' PROVE OnlyTheLast' /\ InHand' /\ VictimsEnd'
  BY TypeStep DEF ProcessSound
<1>0. TypeOK
  BY DEF ProcessSound
<1>a. /\ process \in [Process -> {"none", "booting", "up", "dead"}]
      /\ spawned \in Process \cup {None} /\ handle \in Process \cup {None}
      /\ caller \in [Caller -> Call] /\ delay \in Nat
  BY <1>0, Assumed DEF TypeOK
<1>b. Running => OnlyTheLast /\ InHand /\ VictimsEnd
  BY DEF ProcessSound
<1>1. CASE Tick
  <2>1. Running /\ UNCHANGED <<supervisor, handle, spawned, process>>
    BY <1>1 DEF Tick, go2rtc, Running
  <2>2. OnlyTheLast' /\ InHand'
    BY <1>b, <2>1 DEF OnlyTheLast, InHand, Living
  <2>3. ASSUME NEW c \in Caller, caller'[c].at = "terminating"
        PROVE  supervisor' = "watching" /\ spawned' = caller'[c].victim
    <3>1. caller'[c] = [caller[c] EXCEPT !.left = Down(@)] /\ caller[c] \in Call
      BY <1>a, <1>1 DEF Tick
    <3>2. caller[c].at = "terminating" /\ caller'[c].victim = caller[c].victim
      BY <2>3, <3>1 DEF Call
    <3>3. Living(caller[c].victim)
      BY <1>1, <3>2 DEF Tick, Prompt
    <3>. QED  BY <1>b, <2>1, <3>2, <3>3 DEF VictimsEnd
  <2>. QED  BY <2>2, <2>3 DEF VictimsEnd
<1>2. CASE Supervise
  <2>1. Running /\ OnlyTheLast /\ InHand /\ VictimsEnd /\ UNCHANGED caller
    BY <1>b, <1>2 DEF Supervise, Spawn, Spawned, Exited, Respawn, Running, go2rtc
  <2>2. CASE Spawn
    <3>1. spawned' = spawned + 1 /\ spawned' \in Process /\ supervisor' = "spawning"
      BY <1>a, <2>2, Assumed DEF Spawn, Process, None
    <3>2. \A p \in Process : ~Living(p)
      BY <2>1, <2>2 DEF Spawn, OnlyTheLast
    <3>3. \A p \in Process : process'[p] = IF p = spawned' THEN "booting" ELSE process[p]
      BY <1>a, <2>2, <3>1 DEF Spawn
    <3>4. OnlyTheLast'
      BY <3>1, <3>2, <3>3 DEF OnlyTheLast, Living
    <3>5. InHand'
      BY <2>1, <2>2, <3>1, <3>2, <3>3 DEF InHand, Spawn, Living
    <3>6. VictimsEnd'
      BY <2>1, <2>2 DEF VictimsEnd, Spawn
    <3>. QED  BY <3>4, <3>5, <3>6
  <2>3. CASE Spawned
    <3>1. /\ supervisor = "spawning" /\ supervisor' = "watching" /\ handle' = spawned
          /\ UNCHANGED <<spawned, process>>
      BY <2>3 DEF Spawned, go2rtc
    <3>2. OnlyTheLast' /\ InHand'
      BY <2>1, <3>1 DEF OnlyTheLast, InHand, Living
    <3>3. VictimsEnd'
      BY <2>1, <3>1 DEF VictimsEnd
    <3>. QED  BY <3>2, <3>3
  <2>4. CASE Exited
    <3>1. /\ supervisor = "watching" /\ ~Living(spawned) /\ supervisor' = "sleeping"
          /\ delay' > 0 /\ handle' = None /\ UNCHANGED <<spawned, process>>
      BY <2>4, Assumed DEF Exited, go2rtc
    <3>2. \A p \in Process : ~Living(p) /\ ~Living(p)'
      BY <2>1, <3>1 DEF OnlyTheLast, Living
    <3>3. OnlyTheLast' /\ InHand'
      BY <3>1, <3>2 DEF OnlyTheLast, InHand, Living
    <3>4. VictimsEnd'
      BY <2>1, <3>1 DEF VictimsEnd, Living
    <3>. QED  BY <3>3, <3>4
  <2>5. CASE Respawn
    <3>1. /\ supervisor = "sleeping" /\ delay = 0 /\ supervisor' = "spawn"
          /\ UNCHANGED <<handle, spawned, process>>
      BY <2>5 DEF Respawn, go2rtc
    <3>2. OnlyTheLast' /\ InHand'
      BY <2>1, <3>1 DEF OnlyTheLast, InHand, Living
    <3>3. VictimsEnd'
      BY <2>1, <3>1 DEF VictimsEnd
    <3>. QED  BY <3>2, <3>3
  <2>. QED  BY <1>2, <2>2, <2>3, <2>4, <2>5 DEF Supervise
<1>3. CASE Stop \/ StopEnds
  BY <1>3 DEF Stop, StopEnds, Running
<1>4. ASSUME NEW c \in Caller, Continue(c)
      PROVE  OnlyTheLast' /\ InHand' /\ VictimsEnd'
  <2>1. Running /\ OnlyTheLast /\ InHand /\ VictimsEnd
    BY <1>b, <1>4
       DEF Continue, Deliver, DeliverFails, Delivered, Terminated, Ready, Running
  <2>2. CASE Deliver(c)
    <3>1. \E r \in Call : caller' = [caller EXCEPT ![c] = r] /\ r.at = "delivering"
      BY <1>0, <2>2, DeliverEffect
    <3>2. UNCHANGED <<supervisor, delay, handle, spawned, process>>
      BY <2>2 DEF Deliver
    <3>. QED  BY <1>0, <2>1, <3>1, <3>2, CallsStep
  <2>3. CASE DeliverFails(c)
    <3>1. \E r \in Call :
            /\ caller' = [caller EXCEPT ![c] = r] /\ UNCHANGED supervisor
            /\ r.at = "terminating" => Living(handle) /\ r.victim = handle /\ handle \in Process
      BY <1>0, <2>1, <2>3, RestartEffect DEF DeliverFails, OnlyTheLast
    <3>2. UNCHANGED <<delay, handle, spawned, process>>
      BY <2>3 DEF DeliverFails
    <3>. QED  BY <1>0, <2>1, <3>1, <3>2, CallsStep
  <2>4. CASE Delivered(c) \/ Ready(c)
    <3>1. caller' = [caller EXCEPT ![c] = NoCall] /\ NoCall.at # "terminating"
      BY <2>4 DEF Delivered, Ready, NoCall
    <3>2. UNCHANGED <<supervisor, delay, handle, spawned, process>>
      BY <2>4 DEF Delivered, Ready, go2rtc
    <3>. QED  BY <1>0, <2>1, <3>1, <3>2, NoCallTyped, CallsStep
  <2>5. CASE Terminated(c)
    <3>1. /\ caller[c].at = "terminating" /\ ~Living(caller[c].victim) /\ handle' = None
          /\ UNCHANGED <<supervisor, delay, spawned, process>>
      BY <2>1, <2>5 DEF Terminated, Start, OnlyTheLast, go2rtc
    <3>2. caller' = [caller EXCEPT ![c] = Readying]
      BY <2>5 DEF Terminated, Start, Readying
    <3>3. \A p \in Process : ~Living(p)
      BY <2>1, <3>1 DEF VictimsEnd, OnlyTheLast
    <3>4. OnlyTheLast' /\ InHand'
      BY <2>1, <3>1, <3>3 DEF OnlyTheLast, InHand, Living
    <3>5. VictimsEnd'
      BY <1>a, <2>1, <3>1, <3>2, ReadyingTyped DEF VictimsEnd, Living
    <3>. QED  BY <3>4, <3>5
  <2>. QED  BY <1>4, <2>2, <2>3, <2>4, <2>5 DEF Continue
<1>5. ASSUME NEW c \in Caller, NEW table \in Tables, NEW explicit \in BOOLEAN,
             Apply(c, table, explicit)
      PROVE  OnlyTheLast' /\ InHand' /\ VictimsEnd'
  <2>1. /\ UNCHANGED <<delay, handle, spawned, process, stopping>>
        /\ \/ Restart(c)
           \/ /\ UNCHANGED supervisor
              /\ caller' = [caller EXCEPT ![c] = Delivering(table, explicit)]
    BY <1>0, <1>5, ApplyEffect
  <2>2. OnlyTheLast /\ InHand /\ VictimsEnd
    BY <1>b, <2>1 DEF Running
  <2>3. \E r \in Call :
          /\ caller' = [caller EXCEPT ![c] = r] /\ UNCHANGED supervisor
          /\ r.at = "terminating" => Living(handle) /\ r.victim = handle /\ handle \in Process
    <3>1. CASE Restart(c)
      BY <1>0, <2>2, <3>1, RestartEffect DEF OnlyTheLast
    <3>2. CASE /\ UNCHANGED supervisor
               /\ caller' = [caller EXCEPT ![c] = Delivering(table, explicit)]
      BY <1>0, <3>2, DeliveringTyped, Assumed DEF TypeOK
    <3>. QED  BY <2>1, <3>1, <3>2
  <2>. QED  BY <1>0, <2>1, <2>2, <2>3, CallsStep
<1>6. ASSUME NEW p \in Process, Boot(p)
      PROVE  OnlyTheLast' /\ InHand' /\ VictimsEnd'
  <2>1. /\ OnlyTheLast /\ InHand /\ VictimsEnd
        /\ UNCHANGED <<supervisor, delay, handle, spawned, caller>>
    BY <1>b, <1>6 DEF Boot, Running
  <2>2. p = spawned /\ supervisor = "watching"
    BY <1>6, <2>1 DEF Boot, OnlyTheLast, Living
  <2>3. \A q \in Process : q # p => process'[q] = process[q]
    BY <1>a, <1>6 DEF Boot
  <2>4. OnlyTheLast' /\ InHand'
    BY <1>6, <2>1, <2>2, <2>3 DEF OnlyTheLast, InHand, Living, Boot
  <2>5. VictimsEnd'
    BY <2>1, <2>2 DEF VictimsEnd
  <2>. QED  BY <2>4, <2>5
<1>7. ASSUME NEW p \in Process, Die(p)
      PROVE  OnlyTheLast' /\ InHand' /\ VictimsEnd'
  <2>1. /\ OnlyTheLast /\ InHand /\ VictimsEnd
        /\ UNCHANGED <<supervisor, delay, handle, spawned, caller>>
        /\ process' = [process EXCEPT ![p] = "dead"]
    BY <1>b, <1>7 DEF Die, Running
  <2>2. \A q : Living(q)' /\ q \in Process => Living(q)
    BY <1>a, <2>1 DEF Living
  <2>3. \A q \in Process : process'[q] = "up" => process[q] = "up"
    BY <1>a, <2>1
  <2>4. OnlyTheLast' /\ InHand'
    BY <2>1, <2>2, <2>3 DEF OnlyTheLast, InHand
  <2>5. \A c \in Caller : caller[c].at = "terminating" => caller[c].victim \in Process \cup {None}
    BY <1>a DEF Call
  <2>6. VictimsEnd'
    BY <1>a, <2>1, <2>2, <2>5 DEF VictimsEnd, Living, None, Process
  <2>. QED  BY <2>4, <2>6
<1>8. CASE UNCHANGED vars
  BY <1>b, <1>8 DEF vars, go2rtc, Running, OnlyTheLast, InHand, VictimsEnd, Living
<1>. QED  BY <1>1, <1>2, <1>3, <1>4, <1>5, <1>6, <1>7, <1>8 DEF Next


LEMMA ProcessInit ==
  ASSUME Init
  PROVE  ProcessSound
<1>1. caller = [c \in Caller |-> Readying]
  BY DEF Init, Readying
<1>2. caller \in [Caller -> Call] /\ \A c \in Caller : caller[c].at = "readying"
  BY <1>1, ReadyingTyped
<1>3. 0 \in 0 .. RestartDelay /\ 0 \in 0 .. MaxApplies
  BY Assumed
<1>4. TypeOK
  BY <1>2, <1>3, Assumed DEF Init, TypeOK
<1>5. OnlyTheLast /\ InHand /\ VictimsEnd
  BY <1>2 DEF Init, OnlyTheLast, InHand, VictimsEnd, Living
<1>. QED  BY <1>4, <1>5 DEF ProcessSound

LEMMA ProcessHolds == Spec => []ProcessSound
BY ProcessInit, ProcessStep, PTL DEF Spec

\* Whatever refreshes, refusals, ends and stops there are, every variable keeps its
\* type: in particular nobody waits for the end of a process that was never spawned.
THEOREM RestreamerTyped == Spec => []TypeOK
<1>1. ProcessSound => TypeOK
  BY DEF ProcessSound
<1>. QED  BY <1>1, ProcessHolds, PTL

\* However many refreshes restart go2rtc and however it ends itself, no two processes
\* of it live at once before a stop: _supervise spawns only when the last has ended.
THEOREM OneProcessLives == Spec => []OneGo2rtc
<1>1. ASSUME ProcessSound
      PROVE  OneGo2rtc
  <2>. SUFFICES ASSUME Running
                PROVE  Cardinality({p \in Process : Living(p)}) <= 1
    BY DEF OneGo2rtc, Running
  <2>1. {p \in Process : Living(p)} \subseteq {spawned}
    BY <1>1 DEF ProcessSound, OnlyTheLast
  <2>2. IsFiniteSet({spawned}) /\ Cardinality({spawned}) = 1
    BY FS_Singleton
  <2>. QED  BY <2>1, <2>2, FS_Subset
<1>. QED  BY <1>1, ProcessHolds, PTL

--------------------------------------------------------------------------------
(* The table *)

LEMMA TableInit ==
  ASSUME Init
  PROVE  FileServed
BY DEF Init, FileServed, Up

\* Nobody is up while no process is in hand.
LEMMA NobodyUp ==
  ASSUME TypeOK, OnlyTheLast, InHand, ~(handle \in Process /\ Living(handle))
  PROVE  Up = {}
BY DEF OnlyTheLast, InHand, Up, Living

\* Steps that change no table and bring nothing up, and after which whoever had still
\* to bring a stream up to date has, or go2rtc is being ended.
LEMMA ServedStays ==
  ASSUME FileServed, UNCHANGED <<streams, file, running, late>>, Up' \subseteq Up,
         Ending => Ending',
         \A c \in Caller, n \in Name : Delivers(c, n) => Delivers(c, n)' \/ Ending'
  PROVE  FileServed'
BY DEF FileServed

LEMMA NothingServed ==
  ASSUME FileServed, UNCHANGED <<streams, file>>, Up' = {}
  PROVE  FileServed'
BY DEF FileServed

\* The same for a step of one caller.
LEMMA CallerStays ==
  ASSUME FileServed, UNCHANGED <<streams, file, running, late>>, Up' \subseteq Up,
         caller \in [Caller -> Call], NEW c \in Caller, NEW r \in Call,
         caller' = [caller EXCEPT ![c] = r],
         \/ r.at = "terminating"
         \/ caller[c].at # "terminating" /\ \A n \in Name : ~Delivers(c, n)
  PROVE  FileServed'
<1>1. \A d \in Caller : caller'[d] = IF d = c THEN r ELSE caller[d]
  OBVIOUS
<1>2. Ending => Ending'
  BY <1>1 DEF Ending
<1>3. ASSUME NEW d \in Caller, NEW n \in Name, Delivers(d, n)
      PROVE  Delivers(d, n)' \/ Ending'
  <2>1. CASE d = c
    BY <1>1, <1>3, <2>1 DEF Ending
  <2>2. CASE d # c
    BY <1>1, <1>3, <2>2 DEF Delivers
  <2>. QED  BY <2>1, <2>2
<1>. QED  BY <1>2, <1>3, ServedStays

\* A call of a delivery settles the stream it is about, if only by calling it late.
LEMMA DeliverServes ==
  ASSUME TypeOK, FileServed, NEW c \in Caller, Deliver(c)
  PROVE  FileServed'
<1>1. PICK n \in Name, src \in Src \cup {Absent}, r \in Call :
        /\ caller[c].at = "delivering" /\ n \notin caller[c].done
        /\ caller[c].previous[n] # caller[c].target[n]
        /\ SetRunning(n, src)
        /\ late' = IF caller[c].target[n] = file[n] THEN late \ {n} ELSE late \cup {n}
        /\ caller' = [caller EXCEPT ![c] = r]
        /\ r.at = "delivering" /\ r.previous = caller[c].previous
        /\ r.target = caller[c].target
        /\ \/ r.done = caller[c].done
           \/ r.done = caller[c].done \cup {n} /\ src = caller[c].target[n]
  BY DeliverEffect
<1>2. UNCHANGED <<streams, file, process>> /\ Up' = Up
  BY DEF Deliver, Up, Delete, Put, Patch
<1>3. \A p \in Process, m \in Name :
        running'[p][m] = IF p \in Up /\ m = n THEN src ELSE running[p][m]
  BY <1>1, SetRunningTyped DEF TypeOK
<1>4. \A d \in Caller : caller'[d] = IF d = c THEN r ELSE caller[d]
  BY <1>1 DEF TypeOK
<1>5. Ending => Ending'
  BY <1>1, <1>4 DEF Ending
<1>6. \A d \in Caller, m \in Name : Delivers(d, m) /\ (d # c \/ m # n) => Delivers(d, m)'
  BY <1>1, <1>2, <1>4 DEF Delivers
<1>7. ASSUME NEW p \in Up', NEW m \in Name \ late', file'[m] # Absent
      PROVE  running'[p][m] = file'[m] \/ Ending' \/ \E d \in Caller : Delivers(d, m)'
  <2>1. p \in Up /\ p \in Process /\ file'[m] = file[m]
    BY <1>2, <1>7 DEF Up
  <2>2. CASE m = n
    <3>1. caller[c].target[n] = file[n]
      BY <1>1, <2>2
    <3>2. CASE r.done = caller[c].done
      BY <1>1, <1>2, <1>4, <2>2, <3>1, <3>2 DEF Delivers
    <3>3. CASE src = caller[c].target[n]
      BY <1>3, <2>1, <2>2, <3>1, <3>3
    <3>. QED  BY <1>1, <3>2, <3>3
  <2>3. CASE m # n
    <3>1. m \notin late
      BY <1>1, <1>7, <2>3
    <3>2. running[p][m] = file[m] \/ Ending \/ \E d \in Caller : Delivers(d, m)
      BY <1>7, <2>1, <3>1 DEF FileServed
    <3>. QED  BY <1>3, <1>5, <1>6, <2>1, <2>3, <3>2
  <2>. QED  BY <2>2, <2>3
<1>. QED  BY <1>2, <1>7 DEF FileServed

\* An apply goes on to deliver every stream whose place in the file it changed.
LEMMA ApplyServes ==
  ASSUME TypeOK, OnlyTheLast, InHand, FileServed,
         NEW c \in Caller, NEW table \in Tables, NEW explicit \in BOOLEAN,
         Apply(c, table, explicit)
  PROVE  FileServed'
<1>1. /\ caller[c].at = "idle" /\ table \in Table /\ streams' = table /\ file' = table
      /\ UNCHANGED <<process, running, late>> /\ Up' = Up
  BY ApplyEffect DEF Up
<1>2. CASE handle = None /\ Restart(c)
  <2>1. ~(handle \in Process /\ Living(handle))
    BY <1>2 DEF None, Process
  <2>2. Up' = {}
    BY <1>1, <2>1, NobodyUp
  <2>. QED  BY <1>1, <2>2 DEF FileServed
<1>3. CASE caller' = [caller EXCEPT ![c] = Delivering(table, explicit)]
  <2>1. /\ caller'[c].at = "delivering" /\ caller'[c].done = {}
        /\ caller'[c].previous = streams /\ caller'[c].target = table
    BY <1>1, <1>3, DeliveringTyped DEF TypeOK
  <2>2. \A d \in Caller \ {c} : caller'[d] = caller[d]
    BY <1>3 DEF TypeOK
  <2>3. Ending => Ending'
    BY <1>1, <2>2 DEF Ending
  <2>4. ASSUME NEW p \in Up', NEW n \in Name \ late', table[n] # Absent
        PROVE  running'[p][n] = table[n] \/ Ending' \/ \E d \in Caller : Delivers(d, n)'
    <3>1. CASE streams[n] # table[n]
      <4>1. Delivers(c, n)'
        BY <1>1, <2>1, <3>1 DEF Delivers
      <4>. QED  BY <4>1
    <3>2. CASE streams[n] = table[n]
      <4>1. file[n] = table[n]
        BY <2>4, <3>2 DEF FileServed, Empty
      <4>2. running[p][n] = file[n] \/ Ending \/ \E d \in Caller : Delivers(d, n)
        BY <1>1, <2>4, <4>1 DEF FileServed
      <4>3. \A d \in Caller : Delivers(d, n) => Delivers(d, n)'
        BY <1>1, <2>2, <4>1 DEF Delivers
      <4>. QED  BY <1>1, <2>3, <4>1, <4>2, <4>3
    <3>. QED  BY <3>1, <3>2
  <2>. QED  BY <1>1, <2>4 DEF FileServed
<1>. QED  BY <1>2, <1>3, ApplyEffect

\* go2rtc comes up with the file as it is, over what it wrote itself.
LEMMA BootServes ==
  ASSUME TypeOK, OnlyTheLast, InHand, FileServed, NEW p \in Process, Boot(p)
  PROVE  FileServed'
<1>1. UNCHANGED <<streams, file, caller>> /\ process[p] = "booting"
  BY DEF Boot
<1>2. CASE \E q \in Process \ {p} : Living(q)
  <2>1. UNCHANGED <<running, late>> /\ process' = [process EXCEPT ![p] = "dead"]
    BY <1>2 DEF Boot
  <2>2. Up' \subseteq Up
    BY <2>1 DEF Up, TypeOK
  <2>. QED  BY <1>1, <2>1, <2>2, ServedStays DEF Ending, Delivers
<1>3. CASE ~\E q \in Process \ {p} : Living(q)
  <2>1. /\ process' = [process EXCEPT ![p] = "up"]
        /\ running' = [running EXCEPT ![p] =
             [n \in Name |-> IF file[n] # Absent THEN file[n] ELSE saved[n]]]
    BY <1>3 DEF Boot
  <2>2. Up' \subseteq {p}
    BY <1>1, <1>3, <2>1 DEF Up, Living, TypeOK
  <2>3. \A n \in Name : file[n] # Absent => running'[p][n] = file[n]
    BY <2>1 DEF TypeOK
  <2>. QED  BY <1>1, <2>2, <2>3 DEF FileServed
<1>. QED  BY <1>2, <1>3

LEMMA TableStep ==
  ASSUME TableSound, [Next]_vars
  PROVE  TableSound'
<1>. SUFFICES ASSUME Running' PROVE FileServed'
  BY ProcessStep DEF TableSound
<1>0. TypeOK /\ ProcessSound
  BY DEF TableSound, ProcessSound
<1>a. /\ caller \in [Caller -> Call]
      /\ process \in [Process -> {"none", "booting", "up", "dead"}]
  BY <1>0 DEF TypeOK
<1>b. Running => OnlyTheLast /\ InHand /\ VictimsEnd /\ FileServed
  BY DEF TableSound, ProcessSound
<1>1. CASE Tick
  <2>1. Running /\ UNCHANGED <<streams, file, running, late, process>>
    BY <1>1 DEF Tick, go2rtc, Running
  <2>2. \A c \in Caller : caller'[c] = [caller[c] EXCEPT !.left = Down(@)] /\ caller[c] \in Call
    BY <1>a, <1>1 DEF Tick
  <2>3. \A c \in Caller :
          /\ caller'[c].at = caller[c].at /\ caller'[c].target = caller[c].target
          /\ caller'[c].previous = caller[c].previous /\ caller'[c].done = caller[c].done
    BY <2>2 DEF Call
  <2>4. Up' \subseteq Up
    BY <2>1 DEF Up
  <2>. QED  BY <1>b, <2>1, <2>3, <2>4, ServedStays DEF Ending, Delivers
<1>2. CASE Supervise
  <2>1. Running /\ UNCHANGED <<streams, file, running, late, caller>>
    BY <1>2 DEF Supervise, Spawn, Spawned, Exited, Respawn, Running, go2rtc
  <2>2. Up' \subseteq Up
    BY <1>a, <1>2 DEF Supervise, Spawn, Spawned, Exited, Respawn, go2rtc, Up
  <2>. QED  BY <1>b, <2>1, <2>2, ServedStays DEF Ending, Delivers
<1>3. CASE Stop \/ StopEnds
  BY <1>3 DEF Stop, StopEnds, Running
<1>4. ASSUME NEW c \in Caller, Continue(c)
      PROVE  FileServed'
  <2>1. Running /\ OnlyTheLast /\ InHand /\ VictimsEnd /\ FileServed
    BY <1>b, <1>4
       DEF Continue, Deliver, DeliverFails, Delivered, Terminated, Ready, Running
  <2>2. CASE Deliver(c)
    BY <1>0, <2>1, <2>2, DeliverServes
  <2>3. CASE DeliverFails(c)
    <3>1. UNCHANGED <<streams, file, running, late, process>> /\ Restart(c)
      BY <2>3 DEF DeliverFails
    <3>2. Up' = Up
      BY <3>1 DEF Up
    <3>3. PICK r \in Call :
            /\ caller' = [caller EXCEPT ![c] = r]
            /\ r.at = "terminating" \/ ~(handle \in Process /\ Living(handle))
      BY <1>0, <3>1, RestartEffect
    <3>4. CASE r.at = "terminating"
      BY <1>a, <2>1, <3>1, <3>2, <3>3, <3>4, CallerStays
    <3>5. CASE ~(handle \in Process /\ Living(handle))
      BY <1>0, <2>1, <3>1, <3>2, <3>5, NobodyUp, NothingServed
    <3>. QED  BY <3>3, <3>4, <3>5
  <2>4. CASE Delivered(c)
    <3>1. /\ caller[c].at = "delivering" /\ Pending(c) = {}
          /\ caller' = [caller EXCEPT ![c] = NoCall]
          /\ UNCHANGED <<streams, file, running, late, process>>
      BY <2>4 DEF Delivered, go2rtc
    <3>2. \A n \in Name : n \in caller[c].done \/ caller[c].previous[n] = caller[c].target[n]
      BY <3>1 DEF Pending
    <3>3. (\A n \in Name : ~Delivers(c, n)) /\ Up' = Up
      BY <3>1, <3>2 DEF Delivers, Up
    <3>. QED  BY <1>a, <2>1, <3>1, <3>3, NoCallTyped, CallerStays
  <2>5. CASE Terminated(c)
    <3>1. /\ caller[c].at = "terminating" /\ ~Living(caller[c].victim)
          /\ UNCHANGED <<streams, file, process>>
      BY <2>5 DEF Terminated, go2rtc
    <3>2. Up' = {}
      BY <2>1, <3>1 DEF VictimsEnd, OnlyTheLast, Up, Living
    <3>. QED  BY <2>1, <3>1, <3>2, NothingServed
  <2>6. CASE Ready(c)
    <3>1. /\ caller[c].at = "readying" /\ caller' = [caller EXCEPT ![c] = NoCall]
          /\ UNCHANGED <<streams, file, running, late, process>>
      BY <2>6 DEF Ready, go2rtc
    <3>2. (\A n \in Name : ~Delivers(c, n)) /\ Up' = Up
      BY <3>1 DEF Delivers, Up
    <3>. QED  BY <1>a, <2>1, <3>1, <3>2, NoCallTyped, CallerStays
  <2>. QED  BY <1>4, <2>2, <2>3, <2>4, <2>5, <2>6 DEF Continue
<1>5. ASSUME NEW c \in Caller, NEW table \in Tables, NEW explicit \in BOOLEAN,
             Apply(c, table, explicit)
      PROVE  FileServed'
  <2>1. OnlyTheLast /\ InHand /\ FileServed
    BY <1>b, <1>5 DEF Apply, Running
  <2>. QED  BY <1>0, <1>5, <2>1, ApplyServes
<1>6. ASSUME NEW p \in Process, Boot(p)
      PROVE  FileServed'
  <2>1. OnlyTheLast /\ InHand /\ FileServed
    BY <1>b, <1>6 DEF Boot, Running
  <2>. QED  BY <1>0, <1>6, <2>1, BootServes
<1>7. ASSUME NEW p \in Process, Die(p)
      PROVE  FileServed'
  <2>1. Running /\ UNCHANGED <<streams, file, running, late, caller>>
    BY <1>7 DEF Die, Running
  <2>2. Up' \subseteq Up
    BY <1>a, <1>7 DEF Die, Up
  <2>. QED  BY <1>b, <2>1, <2>2, ServedStays DEF Ending, Delivers
<1>8. CASE UNCHANGED vars
  <2>1. Running /\ UNCHANGED <<streams, file, running, late, caller, process>>
    BY <1>8 DEF vars, go2rtc, Running
  <2>2. Up' \subseteq Up
    BY <2>1 DEF Up
  <2>. QED  BY <1>b, <2>1, <2>2, ServedStays DEF Ending, Delivers
<1>. QED  BY <1>1, <1>2, <1>3, <1>4, <1>5, <1>6, <1>7, <1>8 DEF Next

\* However many refreshes deliver at once, whichever cameras leave, whatever an earlier
\* run left on disk, whichever calls are refused and however often go2rtc ends: when no
\* apply is under way, go2rtc serves every stream the file names as the file has it,
\* unless the last call about it came from a delivery a newer table had overtaken.
THEOREM FileServes == Spec => []FileIsServed
<1>1. Init => TableSound
  BY ProcessInit, TableInit DEF TableSound
<1>2. TableSound /\ [Next]_vars => TableSound'
  BY TableStep
<1>3. TableSound => FileIsServed
  BY DEF TableSound, FileIsServed, Quiet, FileServed, Running, Ending, Delivers
<1>. QED  BY <1>1, <1>2, <1>3, PTL DEF Spec
================================================================================
