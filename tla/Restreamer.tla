------------------------------ MODULE Restreamer -------------------------------
(***************************************************************************)
(* bridge/restream.py: the go2rtc process, its supervisor, the stream table *)
(* written for it and the refreshes that bring it up to date.  go2rtc is    *)
(* modelled from what the code knows of it: it reads two files when it      *)
(* boots, the later winning, and its API changes what it runs; PUT and      *)
(* DELETE also write the first file.                                        *)
(***************************************************************************)
EXTENDS Naturals, FiniteSets

CONSTANTS
  Caller,        \* refreshes: the loop and the settings writes
  Name,          \* stream names
  Src,           \* what a stream may be pointed at
  Tables,        \* the stream tables a refresh may come up with
  Earlier,       \* the tables an earlier run of the add-on may have left on disk
  RestartDelay,  \* _RESTART_DELAY_SECONDS, in ticks
  Attempts,      \* _STARTUP_READY_ATTEMPTS, one a tick
  MaxProcesses,  \* bound: go2rtc processes ever spawned; one is left whatever ends
  MaxApplies,    \* bound: applies that change something
  Refusals,      \* whether go2rtc may refuse a call it could answer
  MayStop        \* whether the add-on may be stopped

Absent == "absent"

ASSUME RestreamerAssumption ==
  /\ Absent \notin Src
  /\ Tables \cup Earlier \subseteq [Name -> Src \cup {Absent}]
  /\ {Attempts, MaxApplies} \subseteq Nat /\ {RestartDelay, MaxProcesses} \subseteq Nat \ {0}
  /\ Refusals \in BOOLEAN /\ MayStop \in BOOLEAN

None == 0
Process == 1 .. MaxProcesses
Table == [Name -> Src \cup {Absent}]
Empty == [n \in Name |-> Absent]

VARIABLES
  streams,     \* _streams
  file,        \* the streams of _CONFIG_PATH
  saved,       \* the streams go2rtc has written to _STATE_PATH
  supervisor,  \* where _supervise stands
  delay,       \* how long it still sleeps
  spawned,     \* the process it spawned last, or None
  handle,      \* _process
  process,     \* the life of each process
  signalled,   \* the processes that were told to end
  running,     \* the table each process serves
  late,        \* history: the names whose last call since go2rtc booted came from
               \* a delivery that a newer table had overtaken
  caller,      \* where each async_apply stands
  applies,     \* applies so far
  stopping,    \* where async_stop stands
  ending       \* the process it waits for

go2rtc == <<spawned, process, signalled, running, late, saved>>
vars == <<streams, file, supervisor, delay, handle, go2rtc, caller, applies, stopping, ending>>

Call == [at : {"idle", "delivering", "terminating", "readying"},
         previous : Table, target : Table, done : SUBSET Name, deleted : SUBSET Name,
         explicit : BOOLEAN, victim : Process \cup {None}, left : 0 .. Attempts]

NoCall == [at |-> "idle", previous |-> Empty, target |-> Empty, done |-> {},
           deleted |-> {}, explicit |-> FALSE, victim |-> None, left |-> 0]

\* The bridge has called async_start, and serves nobody before that returns.
Init ==
  /\ streams = Empty /\ file \in Earlier /\ saved = Empty
  /\ supervisor = "spawn" /\ delay = 0
  /\ spawned = None /\ handle = None
  /\ process = [p \in Process |-> "none"]
  /\ signalled = {}
  /\ running = [p \in Process |-> Empty] /\ late = {}
  /\ caller = [c \in Caller |-> [NoCall EXCEPT !.at = "readying", !.left = Attempts]]
  /\ applies = 0
  /\ stopping = "no" /\ ending = None

Living(p) == process[p] \in {"booting", "up"}
Up == {p \in Process : process[p] = "up"}
--------------------------------------------------------------------------------
\* async_start up to its wait: a supervisor runs.
Start(c) ==
  /\ supervisor' = IF supervisor = "none" THEN "spawn" ELSE supervisor
  /\ caller' = [caller EXCEPT ![c] = [NoCall EXCEPT !.at = "readying", !.left = Attempts]]

\* async_restart: the process in hand, if it still runs, is ended first.
Restart(c) ==
  IF handle # None /\ Living(handle)
  THEN /\ signalled' = signalled \cup {handle}
       /\ caller' = [caller EXCEPT ![c] = [NoCall EXCEPT !.at = "terminating", !.victim = handle]]
       /\ UNCHANGED supervisor
  ELSE Start(c) /\ UNCHANGED signalled

\* async_apply up to its first await: the file is rewritten, always.  A table
\* that is already there costs nothing while a process is in hand.
Apply(c, table, explicit) ==
  /\ caller[c].at = "idle" /\ applies < MaxApplies
  /\ table # streams \/ handle = None
  /\ applies' = applies + 1
  /\ streams' = table
  /\ file' = table
  /\ IF handle = None
     THEN Restart(c)
     ELSE /\ caller' = [caller EXCEPT ![c] =
               [NoCall EXCEPT !.at = "delivering", !.previous = streams,
                              !.target = table, !.explicit = explicit]]
          /\ UNCHANGED <<supervisor, signalled>>
  /\ UNCHANGED <<delay, handle, spawned, process, running, late, saved, stopping, ending>>

\* The names the delivery still has to bring up to date, removals first.
Pending(c) ==
  LET changed == {n \in Name \ caller[c].done : caller[c].previous[n] # caller[c].target[n]}
      gone    == {n \in changed : caller[c].target[n] = Absent}
  IN  IF gone # {} THEN gone ELSE changed

SetRunning(n, src) ==
  running' = [p \in Process |-> IF p \in Up THEN [running[p] EXCEPT ![n] = src] ELSE running[p]]

\* DELETE, alone for a stream that is gone and before the PUT of one replaced.
Delete(c, n) ==
  LET gone == caller[c].target[n] = Absent IN
  /\ n \in Pending(c) /\ n \notin caller[c].deleted
  /\ gone \/ caller[c].explicit
  /\ Up # {}
  /\ SetRunning(n, Absent)
  /\ saved' = [saved EXCEPT ![n] = Absent]
  /\ caller' = IF gone THEN [caller EXCEPT ![c].done = @ \cup {n}]
               ELSE [caller EXCEPT ![c].deleted = @ \cup {n}]

\* PUT, after a DELETE or where PATCH was refused.
Put(c, n) ==
  /\ n \in Pending(c) /\ caller[c].target[n] # Absent
  /\ n \in caller[c].deleted \/ (~caller[c].explicit /\ (Refusals \/ \E p \in Up : running[p][n] = Absent))
  /\ Up # {}
  /\ SetRunning(n, caller[c].target[n])
  /\ saved' = [saved EXCEPT ![n] = caller[c].target[n]]
  /\ caller' = [caller EXCEPT ![c].done = @ \cup {n}]

\* PATCH, which changes memory only and only a stream that is there.
Patch(c, n) ==
  /\ n \in Pending(c) /\ caller[c].target[n] # Absent /\ ~caller[c].explicit
  /\ \E p \in Up : running[p][n] # Absent
  /\ SetRunning(n, caller[c].target[n])
  /\ caller' = [caller EXCEPT ![c].done = @ \cup {n}]
  /\ UNCHANGED saved

Deliver(c) ==
  /\ caller[c].at = "delivering"
  /\ \E n \in Name :
       /\ Delete(c, n) \/ Put(c, n) \/ Patch(c, n)
       /\ late' = IF caller[c].target[n] = file[n] THEN late \ {n} ELSE late \cup {n}
  /\ UNCHANGED <<streams, file, supervisor, delay, handle, spawned, process, signalled, applies, stopping, ending>>

\* Mutation: a delivery that failed is left as it is.
DeliverFailsQuietly(c) ==
  /\ caller[c].at = "delivering" /\ Pending(c) # {}
  /\ Refusals \/ Up = {}
  /\ caller' = [caller EXCEPT ![c] = NoCall]
  /\ UNCHANGED <<streams, file, supervisor, delay, handle, go2rtc, applies, stopping, ending>>

\* A call failed: the delivery is abandoned and go2rtc restarted.
DeliverFails(c) ==
  /\ caller[c].at = "delivering" /\ Pending(c) # {}
  /\ Refusals \/ Up = {}
  /\ Restart(c)
  /\ UNCHANGED <<streams, file, delay, handle, spawned, process, running, late, saved, applies, stopping, ending>>

Delivered(c) ==
  /\ caller[c].at = "delivering" /\ Pending(c) = {}
  /\ caller' = [caller EXCEPT ![c] = NoCall]
  /\ UNCHANGED <<streams, file, supervisor, delay, handle, go2rtc, applies, stopping, ending>>

\* _async_terminate has seen its process end.
Terminated(c) ==
  /\ caller[c].at = "terminating" /\ ~Living(caller[c].victim)
  /\ handle' = None
  /\ Start(c)
  /\ UNCHANGED <<streams, file, delay, go2rtc, applies, stopping, ending>>

\* async_start sees go2rtc answer, or has asked often enough.
Ready(c) ==
  /\ caller[c].at = "readying"
  /\ Up # {} \/ caller[c].left = 0
  /\ caller' = [caller EXCEPT ![c] = NoCall]
  /\ UNCHANGED <<streams, file, supervisor, delay, handle, go2rtc, applies, stopping, ending>>
--------------------------------------------------------------------------------
\* _supervise: go2rtc is executed ...
Spawn ==
  /\ supervisor = "spawn" /\ (spawned = None \/ spawned < MaxProcesses)
  /\ supervisor' = "spawning"
  /\ spawned' = spawned + 1
  /\ process' = [process EXCEPT ![spawned + 1] = "booting"]
  /\ UNCHANGED <<streams, file, delay, handle, signalled, running, late, saved, caller, applies, stopping, ending>>

\* ... and the handle to it comes back.
Spawned ==
  /\ supervisor = "spawning"
  /\ supervisor' = "watching"
  /\ handle' = spawned
  /\ UNCHANGED <<streams, file, delay, go2rtc, caller, applies, stopping, ending>>

\* Mutation: the end of its output is taken for the end of the process.
ExitedOnSignal ==
  /\ supervisor = "watching" /\ (~Living(spawned) \/ spawned \in signalled)
  /\ supervisor' = "sleeping" /\ delay' = RestartDelay
  /\ handle' = None
  /\ UNCHANGED <<streams, file, go2rtc, caller, applies, stopping, ending>>

\* Mutation: a supervisor whose process has ended is done.
ExitedForGood ==
  /\ supervisor = "watching" /\ ~Living(spawned)
  /\ supervisor' = "done" /\ delay' = 0
  /\ handle' = None
  /\ UNCHANGED <<streams, file, go2rtc, caller, applies, stopping, ending>>

\* The process has ended: it is forgotten, and the next one waits.
Exited ==
  /\ supervisor = "watching" /\ ~Living(spawned)
  /\ supervisor' = "sleeping" /\ delay' = RestartDelay
  /\ handle' = None
  /\ UNCHANGED <<streams, file, go2rtc, caller, applies, stopping, ending>>

Respawn ==
  /\ supervisor = "sleeping" /\ delay = 0
  /\ supervisor' = "spawn"
  /\ UNCHANGED <<streams, file, delay, handle, go2rtc, caller, applies, stopping, ending>>

\* go2rtc reads its files and answers; with its ports taken it ends instead.  It
\* takes longer to get there than its spawn takes to return.
Boot(p) ==
  /\ process[p] = "booting" /\ ~(supervisor = "spawning" /\ p = spawned)
  /\ IF \E q \in Process \ {p} : Living(q)
     THEN process' = [process EXCEPT ![p] = "dead"] /\ UNCHANGED <<running, late>>
     ELSE /\ process' = [process EXCEPT ![p] = "up"]
          /\ late' = {}
          /\ running' = [running EXCEPT ![p] =
               [n \in Name |-> IF file[n] # Absent THEN file[n] ELSE saved[n]]]
  /\ UNCHANGED <<streams, file, supervisor, delay, handle, spawned, signalled, saved, caller, applies, stopping, ending>>

\* Bound: the processes that applies may yet end.
Restarts == MaxApplies - applies + Cardinality({c \in Caller : caller[c].at = "delivering"})

\* It ends, because it was told to, or by itself if enough stay that one is left.
Die(p) ==
  /\ Living(p) /\ (p \in signalled \/ p + Restarts < MaxProcesses)
  /\ process' = [process EXCEPT ![p] = "dead"]
  /\ UNCHANGED <<streams, file, supervisor, delay, handle, spawned, signalled, running, late, saved, caller, applies, stopping, ending>>

\* Mutation: only the supervisor is cancelled; the process is waited for.
StopOnlyWaits ==
  /\ MayStop /\ stopping = "no"
  /\ supervisor' = "none" /\ delay' = 0
  /\ IF handle # None /\ Living(handle)
     THEN stopping' = "terminating" /\ ending' = handle
     ELSE stopping' = "stopped" /\ UNCHANGED ending
  /\ UNCHANGED <<streams, file, handle, go2rtc, caller, applies>>

\* async_stop: the supervisor is cancelled wherever it stands, and the process in
\* hand ended.
Stop ==
  /\ MayStop /\ stopping = "no"
  /\ supervisor' = "none" /\ delay' = 0
  /\ IF handle # None /\ Living(handle)
     THEN /\ stopping' = "terminating" /\ ending' = handle
          /\ signalled' = signalled \cup {handle}
     ELSE stopping' = "stopped" /\ UNCHANGED <<signalled, ending>>
  /\ UNCHANGED <<streams, file, handle, spawned, process, running, late, saved, caller, applies>>

StopEnds ==
  /\ stopping = "terminating" /\ ~Living(ending)
  /\ stopping' = "stopped" /\ handle' = None
  /\ UNCHANGED <<streams, file, supervisor, delay, go2rtc, caller, applies, ending>>

Down(n) == IF n > 0 THEN n - 1 ELSE 0

\* A tick is seconds long.  Nobody waits that long to learn that a process has
\* ended, and go2rtc boots "in a fraction of a second".
Prompt ==
  \/ \E c \in Caller : caller[c].at = "terminating" /\ ~Living(caller[c].victim)
  \/ stopping = "terminating" /\ ~Living(ending)
  \/ supervisor = "watching" /\ ~Living(spawned)
  \/ supervisor = "spawn" /\ (spawned = None \/ spawned < MaxProcesses)
  \/ \E p \in Process : process[p] = "booting"

Tick ==
  /\ ~Prompt
  /\ delay' = Down(delay)
  /\ caller' = [c \in Caller |-> [caller[c] EXCEPT !.left = Down(@)]]
  /\ UNCHANGED <<streams, file, supervisor, handle, go2rtc, applies, stopping, ending>>

Continue(c) == Deliver(c) \/ DeliverFails(c) \/ Delivered(c) \/ Terminated(c) \/ Ready(c)
Supervise == Spawn \/ Spawned \/ Exited \/ Respawn
End(p) == p \in signalled /\ Die(p)

Next ==
  \/ Tick \/ Supervise \/ Stop \/ StopEnds
  \/ \E c \in Caller : Continue(c) \/ \E t \in Tables, e \in BOOLEAN : Apply(c, t, e)
  \/ \E p \in Process : Boot(p) \/ Die(p)

Spec == Init /\ [][Next]_vars

\* The loop runs what is ready, time passes, go2rtc boots, and ends when told to.
FairSpec ==
  /\ Spec
  /\ WF_vars(Tick) /\ WF_vars(Supervise) /\ WF_vars(StopEnds)
  /\ \A c \in Caller : WF_vars(Continue(c))
  /\ \A p \in Process : WF_vars(Boot(p)) /\ WF_vars(End(p))
--------------------------------------------------------------------------------
\* Every variable keeps its type, and a watching supervisor has spawned something.
TypeOK ==
  /\ {streams, file, saved} \subseteq Table
  /\ supervisor \in {"none", "spawn", "spawning", "watching", "sleeping"}
  /\ delay \in 0 .. RestartDelay
  /\ {spawned, handle} \subseteq Process \cup {None}
  /\ supervisor \in {"spawning", "watching"} => spawned # None
  /\ process \in [Process -> {"none", "booting", "up", "dead"}]
  /\ signalled \subseteq Process /\ late \subseteq Name
  /\ running \in [Process -> Table]
  /\ caller \in [Caller -> Call]
  /\ applies \in 0 .. MaxApplies
  /\ stopping \in {"no", "terminating", "stopped"}
  /\ ending \in Process \cup {None}

\* Until the add-on stops, two go2rtc processes never live at once: they would
\* fight over the ports.
OneGo2rtc == stopping = "no" => Cardinality({p \in Process : Living(p)}) <= 1

\* With no apply under way, go2rtc serves each stream the file names as the file
\* has it, so that a restart changes nothing for it, though other refreshes were under
\* way at once, calls failed, cameras left or an earlier run left a file behind.  The
\* exception is a stream an overtaken delivery reached last: no lock keeps async_apply
\* from starting a second delivery.
Quiet == stopping = "no" /\ \A c \in Caller : caller[c].at = "idle"
FileIsServed ==
  Quiet => \A p \in Up, n \in Name \ late : file[n] # Absent => running[p][n] = file[n]

\* However go2rtc ends and refuses and however refreshes overlap, it ends up serving
\* each stream of the last table as that table has it, for as long as the add-on runs;
\* with the same exception.
Served ==
  /\ Up # {}
  /\ \A p \in Up, n \in Name \ late : streams[n] # Absent => running[p][n] = streams[n]
Converges == <>[](applies > 0 /\ stopping = "no" => Served)

\* A stop ends the process it found and returns, whatever restarts it overtakes.
StopEndsIt ==
  stopping = "terminating" ~> stopping = "stopped" /\ ending \notin {p \in Process : Living(p)}

--------------------------------------------------------------------------------
(* What comments of the code say besides, and the code does not keep. *)

\* "Make the running configuration match `cameras`": with no apply under way go2rtc is
\* never left "in a state no file describes".
QuietRunsFile == Quiet => \A p \in Up : running[p] = file

\* "a cancellation landing mid-spawn cannot leave a process running that nothing
\* holds a handle to"
NoOrphan ==
  \A p \in Process :
    Living(p) => p = handle \/ p \in signalled \/ (supervisor = "spawning" /\ p = spawned)

\* Once async_stop has returned, nothing starts go2rtc again.
StopIsFinal == stopping = "stopped" => supervisor = "none"

\* "The start contract is 'go2rtc is up'": a restart returns once it is.
RestartReturnsUp ==
  [][\A c \in Caller :
       caller[c].at = "readying" /\ caller'[c].at = "idle" => Up # {}]_vars
================================================================================
