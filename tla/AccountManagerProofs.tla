-------------------------- MODULE AccountManagerProofs --------------------------
(***************************************************************************)
(* What AccountManager guarantees for any number of requests, clients,     *)
(* sign-ins, renewals, loops, restarts and failures: one loop renews, what *)
(* is saved is whole, and the file keeps the promise of StoredAccount.     *)
(* All three rest on one invariant, which says what the question a loop has *)
(* on its way, and a restore under way, may still rely on when they end.    *)
(***************************************************************************)
EXTENDS AccountManager, TLAPS

\* What a session is made of, on disk, in memory and in a renewal's question.
Account == [signin : Nat, of : Nat, token : Nat, profile : BOOLEAN]

LoopState == [at : {"none", "sleeping", "locking", "asking"}, asked : Account,
              able : BOOLEAN, cancelled : BOOLEAN]

AccountTypes ==
  /\ file \in Account /\ creds \in Account
  /\ loop \in [LoopTask -> LoopState]
  /\ refresh \in 0 .. MaxLoops
  /\ setup \in [at : {"loading", "initialising", "profiling", "done"},
                client : Nat, loaded : Account]
  /\ signins \in Nat /\ restored \in Nat /\ overtaken \in BOOLEAN

\* A device id and a token of one sign-in.
OwnDevice(c) == c.signin = c.of /\ (c # Absent => c.signin # 0)

\* Nothing but its end comes between a question of the loop and what it asked about.
AsksForTheHeld == \A i \in Live : loop[i].at = "asking" => creds \in {Absent, loop[i].asked}

\* What is being restored is what is on disk, until a request changes that.
RestoresTheFile ==
  /\ setup.at = "loading" => ~overtaken
  /\ setup.at \in {"initialising", "profiling"} =>
       /\ setup.loaded # Absent /\ OwnDevice(setup.loaded)
       /\ restored = setup.loaded.signin
       /\ ~overtaken => file = setup.loaded

\* What is held is what is on disk, or what was restored in spite of a request.
HeldIsStored ==
  creds # Absent =>
    \/ creds = file
    \/ overtaken /\ restored # 0 /\ creds.signin = restored

AccountSound ==
  /\ AccountTypes /\ OneRefresher
  /\ OwnDevice(file) /\ OwnDevice(creds)
  /\ AsksForTheHeld /\ RestoresTheFile /\ HeldIsStored

\* What the invariant is about.
core == <<file, creds, signins, refresh, loop, setup, restored, overtaken>>

--------------------------------------------------------------------------------
(* The loops *)

LEMMA AbsentIsAccount ==
  Absent \in Account /\ OwnDevice(Absent) /\ Absent.signin = 0
BY DEF Absent, Account, OwnDevice

LEMMA CancelledLoops ==
  ASSUME AccountTypes, NEW j \in 0 .. MaxLoops
  PROVE  /\ Cancelled(loop, j) \in [LoopTask -> LoopState]
         /\ j \in LoopTask => Cancelled(loop, j)[j].cancelled
         /\ \A i \in LoopTask \ {j} : Cancelled(loop, j)[i] = loop[i]
<1>1. CASE j = 0
  BY <1>1 DEF Cancelled, AccountTypes, LoopTask
<1>2. CASE j # 0
  <2>1. Cancelled(loop, j) = [loop EXCEPT ![j].cancelled = TRUE] /\ j \in LoopTask
    BY <1>2, AccountAssumption DEF Cancelled, LoopTask
  <2>. DEFINE l == [loop[j] EXCEPT !.cancelled = TRUE]
  <2>2. Cancelled(loop, j) = [loop EXCEPT ![j] = l]
    BY <2>1
  <2>3. loop[j] \in LoopState
    BY <2>1 DEF AccountTypes
  <2>4. l \in LoopState /\ l.cancelled
    BY <2>3 DEF LoopState
  <2>. HIDE DEF l
  <2>. QED  BY <2>1, <2>2, <2>4 DEF AccountTypes
<1>. QED  BY <1>1, <1>2

\* The loop before is cancelled, and the new one has asked nothing yet.
LEMMA StartedAlone ==
  ASSUME AccountTypes, OneRefresher, StartLoop
  PROVE  /\ loop' \in [LoopTask -> LoopState]
         /\ refresh' \in 0 .. MaxLoops
         /\ \A i \in LoopTask :
              loop'[i].at # "none" /\ ~loop'[i].cancelled =>
                i = refresh' /\ loop'[i].at = "sleeping"
<1>. DEFINE new == [NoLoop EXCEPT !.at = "sleeping"]
<1>1. PICK i \in LoopTask :
        refresh' = i /\ loop' = [Cancelled(loop, refresh) EXCEPT ![i] = new]
  BY DEF StartLoop, Unstarted
<1>2. /\ new \in LoopState
      /\ new.at = "sleeping"
  BY AbsentIsAccount DEF NoLoop, LoopState
<1>. HIDE DEF new
<1>3. refresh \in 0 .. MaxLoops /\ MaxLoops \in Nat
  BY AccountAssumption DEF AccountTypes
<1>4. /\ Cancelled(loop, refresh) \in [LoopTask -> LoopState]
      /\ refresh \in LoopTask => Cancelled(loop, refresh)[refresh].cancelled
      /\ \A j \in LoopTask \ {refresh} : Cancelled(loop, refresh)[j] = loop[j]
  BY <1>3, CancelledLoops
<1>5. \A j \in LoopTask \ {i} : loop'[j].at # "none" => loop'[j].cancelled
  BY <1>1, <1>4 DEF OneRefresher, Live, Running
<1>. QED  BY <1>1, <1>2, <1>3, <1>4, <1>5 DEF LoopTask

\* Nothing happens to the account; the loops that run are loops that ran, and what
\* they ask about is what they asked about before, or what is held.
LEMMA LoopsKeepSound ==
  ASSUME AccountSound, UNCHANGED <<file, creds, signins, setup, restored, overtaken>>,
         loop' \in [LoopTask -> LoopState],
         refresh' \in 0 .. MaxLoops,
         \A i \in LoopTask : loop'[i].at # "none" /\ ~loop'[i].cancelled =>
           /\ i \in Live /\ i = refresh'
           /\ loop'[i].at = "asking" => loop'[i] = loop[i] \/ loop'[i].asked = creds
  PROVE  AccountSound'
<1>1. AccountTypes'
  BY DEF AccountSound, AccountTypes
<1>2. OneRefresher'
  BY DEF OneRefresher, Live, Running
<1>3. AsksForTheHeld'
  BY DEF AccountSound, AsksForTheHeld, Live, Running
<1>4. OwnDevice(file)' /\ OwnDevice(creds)' /\ RestoresTheFile' /\ HeldIsStored'
  BY DEF AccountSound, OwnDevice, RestoresTheFile, HeldIsStored
<1>. QED  BY <1>1, <1>2, <1>3, <1>4 DEF AccountSound

\* What a step of a loop that does not renew leaves of it.
LEMMA LoopStepKeepsSound ==
  ASSUME AccountSound, NEW i \in LoopTask,
         LoopWakes(i) \/ LoopLocks(i) \/ LoopFails(i) \/ LoopEnds(i)
  PROVE  AccountSound' /\ UNCHANGED <<file, signins, restored>>
<1>0. AccountTypes /\ OneRefresher
  BY DEF AccountSound
<1>1. UNCHANGED <<file, creds, signins, refresh, setup, restored, overtaken>>
  BY DEF LoopWakes, LoopLocks, LoopFails, LoopEnds, disk, memory
<1>2. PICK l \in LoopState :
        /\ loop' = [loop EXCEPT ![i] = l]
        /\ l.at # "none" /\ ~l.cancelled =>
             /\ loop[i].at # "none" /\ ~loop[i].cancelled
             /\ l.at = "asking" => l.asked = creds
  <2>0. loop \in [LoopTask -> LoopState] /\ creds \in Account /\ NoLoop \in LoopState
    BY <1>0, AbsentIsAccount DEF AccountTypes, NoLoop, LoopState
  <2>. DEFINE Goal == \E l \in LoopState :
                /\ loop' = [loop EXCEPT ![i] = l]
                /\ l.at # "none" /\ ~l.cancelled =>
                     /\ loop[i].at # "none" /\ ~loop[i].cancelled
                     /\ l.at = "asking" => l.asked = creds
  <2>1. ASSUME LoopWakes(i)
        PROVE  Goal
    <3>. DEFINE l == [loop[i] EXCEPT !.at = "locking"]
    <3>1. loop' = [loop EXCEPT ![i] = l] /\ loop[i].at = "sleeping" /\ ~loop[i].cancelled
      BY <2>0, <2>1 DEF LoopWakes, Running
    <3>2. l \in LoopState /\ l.at = "locking"
      BY <2>0 DEF LoopState
    <3>. QED  BY <3>1, <3>2
  <2>2. ASSUME LoopLocks(i)
        PROVE  Goal
    <3>1. CASE client = 0 \/ creds = Absent
      <4>. DEFINE l == [loop[i] EXCEPT !.at = "sleeping"]
      <4>1. loop' = [loop EXCEPT ![i] = l] /\ loop[i].at = "locking" /\ ~loop[i].cancelled
        BY <2>0, <2>2, <3>1 DEF LoopLocks, Running
      <4>2. l \in LoopState /\ l.at = "sleeping"
        BY <2>0 DEF LoopState
      <4>. QED  BY <4>1, <4>2
    <3>2. CASE ~(client = 0 \/ creds = Absent)
      <4>. DEFINE l == [loop[i] EXCEPT !.at = "asking", !.asked = creds, !.able = Alive(client)]
      <4>0. Alive(client) \in BOOLEAN
        BY DEF Alive
      <4>1. loop' = [loop EXCEPT ![i] = l] /\ loop[i].at = "locking" /\ ~loop[i].cancelled
        BY <2>0, <2>2, <3>2 DEF LoopLocks, Running
      <4>2. l \in LoopState /\ l.asked = creds
        BY <2>0, <4>0 DEF LoopState
      <4>. QED  BY <4>1, <4>2
    <3>. QED  BY <3>1, <3>2
  <2>3. ASSUME LoopFails(i)
        PROVE  Goal
    <3>. DEFINE l == [NoLoop EXCEPT !.at = "sleeping"]
    <3>1. loop' = [loop EXCEPT ![i] = l] /\ loop[i].at = "asking" /\ ~loop[i].cancelled
      BY <2>3 DEF LoopFails, Running
    <3>2. l \in LoopState /\ l.at = "sleeping"
      BY <2>0 DEF NoLoop, LoopState
    <3>. QED  BY <3>1, <3>2
  <2>4. ASSUME LoopEnds(i)
        PROVE  Goal
    <3>1. loop' = [loop EXCEPT ![i] = NoLoop] /\ NoLoop.at = "none"
      BY <2>4 DEF LoopEnds, NoLoop
    <3>. QED  BY <2>0, <3>1
  <2>. QED  BY <2>1, <2>2, <2>3, <2>4
<1>3. loop' \in [LoopTask -> LoopState] /\ loop \in [LoopTask -> LoopState]
  BY <1>0, <1>2 DEF AccountTypes
<1>4. ASSUME NEW j \in LoopTask, loop'[j].at # "none", ~loop'[j].cancelled
      PROVE  /\ j \in Live /\ j = refresh'
             /\ loop'[j].at = "asking" => loop'[j] = loop[j] \/ loop'[j].asked = creds
  BY <1>0, <1>1, <1>2, <1>3, <1>4 DEF Live, Running, OneRefresher
<1>5. refresh' \in 0 .. MaxLoops
  BY <1>0, <1>1 DEF AccountTypes
<1>6. AccountSound'
  BY <1>1, <1>3, <1>4, <1>5, LoopsKeepSound
<1>. QED  BY <1>1, <1>6

--------------------------------------------------------------------------------
(* What happens to the account *)

StoredStep == [Stored!Next]_(Stored!vars)

\* The requests and steps that leave the account and the loops alone.
LEMMA QuietKeepsSound ==
  ASSUME AccountSound, UNCHANGED core
  PROVE  AccountSound' /\ StoredStep
<1>1. AccountTypes'
  BY DEF AccountSound, AccountTypes, core
<1>2. OneRefresher'
  BY DEF AccountSound, OneRefresher, Live, Running, core
<1>3. AsksForTheHeld'
  BY DEF AccountSound, AsksForTheHeld, Live, Running, core
<1>4. OwnDevice(file)' /\ OwnDevice(creds)' /\ RestoresTheFile' /\ HeldIsStored'
  BY DEF AccountSound, OwnDevice, RestoresTheFile, HeldIsStored, core
<1>5. StoredStep
  BY DEF StoredStep, Stored!vars, core
<1>. QED  BY <1>1, <1>2, <1>3, <1>4, <1>5 DEF AccountSound

\* The file goes, and what was held with it.
LEMMA ForgottenIsSound ==
  ASSUME AccountSound, file' = Absent, creds' = Absent, Overtakes,
         UNCHANGED <<signins, refresh, loop, setup, restored>>
  PROVE  AccountSound' /\ StoredStep
<1>1. AccountTypes'
  BY AbsentIsAccount DEF AccountSound, AccountTypes, Overtakes
<1>2. OneRefresher'
  BY DEF AccountSound, OneRefresher, Live, Running
<1>3. AsksForTheHeld' /\ HeldIsStored'
  BY DEF AsksForTheHeld, HeldIsStored
<1>4. OwnDevice(file)' /\ OwnDevice(creds)'
  BY AbsentIsAccount DEF OwnDevice
<1>5. RestoresTheFile'
  BY DEF AccountSound, AccountTypes, RestoresTheFile, OwnDevice, Overtakes
<1>6. StoredStep
  BY DEF StoredStep, Stored!Next, Stored!Forget
<1>. QED  BY <1>1, <1>2, <1>3, <1>4, <1>5, <1>6 DEF AccountSound

\* The step of a request changes the account in one of three ways, or not at all.
LEMMA RequestMoves ==
  ASSUME AccountSound, NEW h \in Handler,
         BeginLink(h) \/ CompleteLink(h) \/ Unlink(h) \/ Resume(h)
  PROVE  \/ UNCHANGED core
         \/ /\ file' = Absent /\ creds' = Absent /\ Overtakes
            /\ UNCHANGED <<signins, refresh, loop, setup, restored>>
         \/ /\ refresh' = 0 /\ loop' = Cancelled(loop, refresh)
            /\ UNCHANGED <<file, creds, signins, setup, restored, overtaken>>
         \/ Exchanged(h)
<1>. DEFINE Gone == /\ file' = Absent /\ creds' = Absent /\ Overtakes
                    /\ UNCHANGED <<signins, refresh, loop, setup, restored>>
<1>1. ASSUME BeginLink(h) \/ CompleteLink(h) \/ BeginDiscarded(h) \/ LinkBegun(h)
               \/ ExchangeFails(h) \/ Discarded(h)
      PROVE  UNCHANGED core
  BY <1>1 DEF BeginLink, CompleteLink, BeginDiscarded, LinkBegun, ExchangeFails, Discarded,
     core, disk, memory, loops
<1>2. ASSUME TearDown(h)
      PROVE  \/ UNCHANGED <<file, creds, overtaken>>
             \/ file' = Absent /\ creds' = Absent /\ Overtakes
  BY <1>2 DEF TearDown, Forget
<1>3. ASSUME AfterLoop(h)
      PROVE  \/ UNCHANGED <<file, creds, overtaken>>
             \/ file' = Absent /\ creds' = Absent /\ Overtakes
  BY <1>2, <1>3 DEF AfterLoop
<1>4. ASSUME Unlink(h), refresh # 0
      PROVE  /\ refresh' = 0 /\ loop' = Cancelled(loop, refresh)
             /\ UNCHANGED <<file, creds, signins, setup, restored, overtaken>>
  BY <1>4 DEF Unlink
<1>5. ASSUME Unlink(h), refresh = 0
      PROVE  UNCHANGED core \/ Gone
  <2>1. UNCHANGED <<signins, refresh, loop, setup, restored>> /\ AfterLoop(h)
    BY <1>5 DEF Unlink, Cancelled
  <2>. QED  BY <1>3, <2>1 DEF core
<1>6. ASSUME LoopGone(h)
      PROVE  UNCHANGED core \/ Gone
  BY <1>3, <1>6 DEF LoopGone, core
<1>7. ASSUME UnlinkDiscarded(h) \/ Unlinked(h)
      PROVE  UNCHANGED core \/ Gone
  BY <1>7 DEF UnlinkDiscarded, Unlinked, Forget, core
<1>. QED  BY <1>1, <1>4, <1>5, <1>6, <1>7 DEF Resume

\* A sign-in replaces the account and starts a loop that has asked nothing yet.
LEMMA ExchangedIsSound ==
  ASSUME AccountSound, NEW h \in Handler, Exchanged(h)
  PROVE  AccountSound' /\ StoredStep
<1>0. AccountTypes /\ OneRefresher /\ StartLoop /\ Overtakes /\ signins' = signins + 1
      /\ UNCHANGED <<setup, restored>> /\ creds' = file'
  BY DEF AccountSound, Exchanged
<1>1. PICK p \in BOOLEAN :
        file' = [signin |-> signins', of |-> signins', token |-> 0, profile |-> p]
  BY DEF Exchanged
<1>2. signins' \in Nat \ {0}
  BY <1>0 DEF AccountTypes
<1>3. /\ file' \in Account /\ file'.signin = signins' /\ file'.of = signins' /\ file' # Absent
  <2>1. file' \in Account /\ file'.signin = signins' /\ file'.of = signins'
    BY <1>1, <1>2 DEF Account
  <2>. QED  BY <1>2, <2>1, AbsentIsAccount
<1>4. /\ loop' \in [LoopTask -> LoopState] /\ refresh' \in 0 .. MaxLoops
      /\ \A i \in LoopTask :
           loop'[i].at # "none" /\ ~loop'[i].cancelled =>
             i = refresh' /\ loop'[i].at = "sleeping"
  BY <1>0, StartedAlone
<1>5. AccountTypes'
  BY <1>0, <1>2, <1>3, <1>4 DEF AccountTypes, Overtakes
<1>6. OneRefresher' /\ AsksForTheHeld'
  BY <1>4 DEF OneRefresher, AsksForTheHeld, Live, Running
<1>7. OwnDevice(file)' /\ OwnDevice(creds)' /\ HeldIsStored'
  BY <1>0, <1>2, <1>3 DEF OwnDevice, HeldIsStored
<1>8. RestoresTheFile'
  BY <1>0 DEF AccountSound, AccountTypes, RestoresTheFile, OwnDevice, Overtakes
<1>9. StoredStep
  BY <1>0, <1>3 DEF StoredStep, Stored!Next, Stored!SignIn
<1>. QED  BY <1>5, <1>6, <1>7, <1>8, <1>9 DEF AccountSound

\* Who is still there to be answered asked about what is held, so that the token and
\* the device id are of one sign-in.
LEMMA RenewedIsSound ==
  ASSUME AccountSound, NEW i \in LoopTask, LoopRenews(i)
  PROVE  AccountSound' /\ StoredStep
<1>0. /\ AccountTypes /\ OneRefresher /\ loop[i].at = "asking" /\ ~loop[i].cancelled
      /\ i \in Live
  BY DEF AccountSound, LoopRenews, Running, Live
<1>1. CASE creds = Absent
  <2>. DEFINE l == [NoLoop EXCEPT !.at = "sleeping"]
  <2>1. l \in LoopState /\ l.at = "sleeping"
    BY AbsentIsAccount DEF NoLoop, LoopState
  <2>2. loop' = [loop EXCEPT ![i] = l]
        /\ UNCHANGED <<file, creds, signins, refresh, setup, restored, overtaken>>
    BY <1>1 DEF LoopRenews
  <2>. HIDE DEF l
  <2>3. /\ loop' \in [LoopTask -> LoopState] /\ refresh' \in 0 .. MaxLoops
        /\ \A j \in LoopTask : loop'[j].at # "none" /\ ~loop'[j].cancelled =>
             /\ j \in Live /\ j = refresh'
             /\ loop'[j].at = "asking" => loop'[j] = loop[j] \/ loop'[j].asked = creds
    BY <1>0, <2>1, <2>2 DEF AccountTypes, OneRefresher, Live, Running
  <2>4. AccountSound'
    BY <2>2, <2>3, LoopsKeepSound
  <2>. QED  BY <2>2, <2>4 DEF StoredStep, Stored!vars
<1>2. CASE creds # Absent
  <2>. DEFINE l == [NoLoop EXCEPT !.at = "sleeping"]
  <2>1. l \in LoopState /\ l.at = "sleeping"
    BY AbsentIsAccount DEF NoLoop, LoopState
  <2>2. /\ loop' = [loop EXCEPT ![i] = l]
        /\ file' = Renewal(i) /\ creds' = file' /\ Overtakes
        /\ UNCHANGED <<signins, refresh, setup, restored>>
    BY <1>2 DEF LoopRenews
  <2>. HIDE DEF l
  <2>3. creds = loop[i].asked /\ creds \in Account /\ OwnDevice(creds) /\ creds.signin # 0
    BY <1>0, <1>2 DEF AccountSound, AsksForTheHeld, AccountTypes, OwnDevice
  <2>4. file' = [creds EXCEPT !.of = creds.of, !.token = creds.token + 1]
    BY <2>2, <2>3 DEF Renewal
  <2>5. /\ file' \in Account /\ file'.signin = creds.signin /\ file'.of = creds.of
        /\ file'.token = creds.token + 1 /\ file'.token > creds.token
    <3>1. PICK c \in Account : c = creds
      BY <2>3
    <3>2. c.token \in Nat /\ c.token + 1 \in Nat /\ c.token + 1 > c.token
      BY DEF Account
    <3>. DEFINE w == [c EXCEPT !.of = c.of, !.token = c.token + 1]
    <3>3. w \in Account /\ w.signin = c.signin /\ w.of = c.of /\ w.token = c.token + 1
      BY <3>2 DEF Account
    <3>4. file' = w
      BY <2>4, <3>1
    <3>. QED  BY <3>1, <3>2, <3>3, <3>4
  <2>6. file' # Absent
    BY <2>3, <2>5, AbsentIsAccount
  <2>7. /\ loop' \in [LoopTask -> LoopState]
        /\ \A j \in LoopTask : loop'[j].at # "none" /\ ~loop'[j].cancelled =>
             j \in Live /\ (j # i => loop'[j] = loop[j])
        /\ loop'[i].at = "sleeping"
    BY <1>0, <2>1, <2>2 DEF AccountTypes, Live, Running
  <2>8. AccountTypes'
    BY <1>0, <2>2, <2>5, <2>7 DEF AccountTypes, Overtakes
  <2>9. OneRefresher' /\ AsksForTheHeld'
    BY <1>0, <2>2, <2>7 DEF OneRefresher, AsksForTheHeld, Live, Running
  <2>10. OwnDevice(file)' /\ OwnDevice(creds)' /\ HeldIsStored'
    BY <2>2, <2>3, <2>5 DEF OwnDevice, HeldIsStored
  <2>11. RestoresTheFile'
    BY <1>0, <2>2 DEF AccountSound, AccountTypes, RestoresTheFile, OwnDevice, Overtakes
  <2>12. CASE creds = file
    <3>1. Stored!Renew
      BY <1>2, <2>2, <2>5, <2>6, <2>12 DEF Stored!Renew
    <3>. QED  BY <2>8, <2>9, <2>10, <2>11, <3>1 DEF AccountSound, StoredStep, Stored!Next
  <2>13. CASE creds # file
    <3>1. restored # 0 /\ creds.signin = restored
      BY <1>2, <2>13 DEF AccountSound, HeldIsStored
    <3>2. Stored!Return
      BY <2>2, <2>5, <2>6, <3>1 DEF Stored!Return
    <3>. QED  BY <2>8, <2>9, <2>10, <2>11, <3>2 DEF AccountSound, StoredStep, Stored!Next
  <2>. QED  BY <2>12, <2>13
<1>. QED  BY <1>1, <1>2

--------------------------------------------------------------------------------
(* The restore *)

\* What was loaded becomes what is held: the file says the same, or the account
\* changed meanwhile and the restore writes in spite of it.
LEMMA AdoptedIsSound ==
  ASSUME AccountSound, NEW c \in Account, Adopt(c), OwnDevice(c), c # Absent,
         restored = c.signin, overtaken \/ file' = c,
         file' \in Account, OwnDevice(file)', UNCHANGED <<signins, overtaken>>
  PROVE  AccountSound' /\ restored' \in {restored, 0}
<1>0. /\ AccountTypes /\ OneRefresher /\ StartLoop /\ creds' = c
      /\ Setup("done", 0, Absent) /\ restored' = (IF overtaken THEN restored ELSE 0)
  BY DEF AccountSound, Adopt, SetupEnds
<1>1. /\ loop' \in [LoopTask -> LoopState] /\ refresh' \in 0 .. MaxLoops
      /\ \A i \in LoopTask :
           loop'[i].at # "none" /\ ~loop'[i].cancelled =>
             i = refresh' /\ loop'[i].at = "sleeping"
  BY <1>0, StartedAlone
<1>2. /\ setup' \in [at : {"loading", "initialising", "profiling", "done"},
                     client : Nat, loaded : Account]
      /\ setup'.at = "done"
  BY <1>0, AbsentIsAccount DEF Setup
<1>3. AccountTypes'
  BY <1>0, <1>1, <1>2 DEF AccountTypes
<1>4. OneRefresher' /\ AsksForTheHeld'
  BY <1>1 DEF OneRefresher, AsksForTheHeld, Live, Running
<1>5. OwnDevice(creds)'
  BY <1>0 DEF OwnDevice
<1>6. RestoresTheFile'
  BY <1>2 DEF RestoresTheFile
<1>7. HeldIsStored'
  BY <1>0 DEF HeldIsStored, OwnDevice
<1>. QED  BY <1>0, <1>3, <1>4, <1>5, <1>6, <1>7 DEF AccountSound

\* The restore gives up, or there was nothing to restore.
LEMMA SetupEndedIsSound ==
  ASSUME AccountSound, SetupEnds, UNCHANGED <<file, creds, signins, refresh, loop, overtaken>>
  PROVE  AccountSound' /\ StoredStep
<1>1. /\ setup' \in [at : {"loading", "initialising", "profiling", "done"},
                     client : Nat, loaded : Account]
      /\ setup'.at = "done" /\ restored' = (IF overtaken THEN restored ELSE 0)
  BY AbsentIsAccount DEF SetupEnds, Setup
<1>2. AccountTypes'
  BY <1>1 DEF AccountSound, AccountTypes
<1>3. OneRefresher' /\ AsksForTheHeld'
  BY DEF AccountSound, OneRefresher, AsksForTheHeld, Live, Running
<1>4. OwnDevice(file)' /\ OwnDevice(creds)' /\ RestoresTheFile' /\ HeldIsStored'
  BY <1>1 DEF AccountSound, OwnDevice, RestoresTheFile, HeldIsStored
<1>5. StoredStep
  BY <1>1 DEF StoredStep, Stored!Next, Stored!Done, Stored!vars
<1>. QED  BY <1>2, <1>3, <1>4, <1>5 DEF AccountSound

LEMMA LoadIsSound ==
  ASSUME AccountSound, Load
  PROVE  AccountSound' /\ StoredStep
<1>0. AccountTypes /\ setup.at = "loading" /\ ~overtaken /\ overtaken' = overtaken
      /\ UNCHANGED <<file, creds, signins, refresh, loop>>
  BY DEF AccountSound, AccountTypes, RestoresTheFile, Load, disk, memory, loops
<1>1. CASE file = Absent
  BY <1>0, <1>1, SetupEndedIsSound DEF Load
<1>2. CASE file # Absent
  <2>1. PICK c \in Client : Setup("initialising", c, file) /\ restored' = file.signin
    BY <1>2 DEF Load
  <2>2. /\ setup' \in [at : {"loading", "initialising", "profiling", "done"},
                       client : Nat, loaded : Account]
        /\ setup'.at = "initialising" /\ setup'.loaded = file
    BY <1>0, <2>1 DEF Setup, AccountTypes, Client
  <2>3. AccountTypes'
    BY <1>0, <2>1, <2>2 DEF AccountTypes, Account
  <2>4. OneRefresher' /\ AsksForTheHeld'
    BY <1>0 DEF AccountSound, OneRefresher, AsksForTheHeld, Live, Running
  <2>5. OwnDevice(file)' /\ OwnDevice(creds)' /\ RestoresTheFile' /\ HeldIsStored'
    BY <1>0, <1>2, <2>1, <2>2 DEF AccountSound, OwnDevice, RestoresTheFile, HeldIsStored
  <2>6. StoredStep
    BY <1>0, <1>2, <2>1 DEF StoredStep, Stored!Next, Stored!Read
  <2>. QED  BY <2>3, <2>4, <2>5, <2>6 DEF AccountSound
<1>. QED  BY <1>1, <1>2

LEMMA LoadedIsSound ==
  ASSUME AccountSound, Loaded
  PROVE  AccountSound' /\ StoredStep
<1>0. /\ AccountTypes /\ setup.at = "initialising" /\ UNCHANGED <<file, signins, overtaken>>
      /\ setup.loaded \in Account /\ setup.loaded # Absent /\ OwnDevice(setup.loaded)
      /\ restored = setup.loaded.signin /\ (overtaken \/ file' = setup.loaded)
      /\ file' \in Account /\ OwnDevice(file)'
  BY DEF AccountSound, AccountTypes, RestoresTheFile, Loaded, disk, OwnDevice
<1>1. ASSUME Adopt(setup.loaded)
      PROVE  AccountSound' /\ StoredStep
  <2>1. AccountSound' /\ restored' \in {restored, 0}
    BY <1>0, <1>1, AdoptedIsSound
  <2>. QED  BY <1>0, <2>1 DEF StoredStep, Stored!Next, Stored!Done, Stored!vars
<1>2. ASSUME Setup("profiling", setup.client, setup.loaded), UNCHANGED <<memory, loops, restored>>
      PROVE  AccountSound' /\ StoredStep
  <2>1. UNCHANGED <<file, creds, signins, refresh, loop, overtaken, restored>>
    BY <1>0, <1>2 DEF memory, loops
  <2>2. /\ setup' \in [at : {"loading", "initialising", "profiling", "done"},
                       client : Nat, loaded : Account]
        /\ setup'.at = "profiling" /\ setup'.loaded = setup.loaded
    BY <1>0, <1>2 DEF Setup, AccountTypes
  <2>3. AccountTypes'
    BY <1>0, <2>1, <2>2 DEF AccountTypes
  <2>4. OneRefresher' /\ AsksForTheHeld'
    BY <2>1 DEF AccountSound, OneRefresher, AsksForTheHeld, Live, Running
  <2>5. OwnDevice(file)' /\ OwnDevice(creds)' /\ HeldIsStored'
    BY <2>1 DEF AccountSound, OwnDevice, HeldIsStored
  <2>6. RestoresTheFile'
    BY <1>0, <2>1, <2>2 DEF RestoresTheFile, OwnDevice
  <2>7. StoredStep
    BY <2>1 DEF StoredStep, Stored!vars
  <2>. QED  BY <2>3, <2>4, <2>5, <2>6, <2>7 DEF AccountSound
<1>3. ASSUME SetupEnds, UNCHANGED <<memory, life, loops>>
      PROVE  AccountSound' /\ StoredStep
  BY <1>0, <1>3, SetupEndedIsSound DEF memory, loops
<1>. QED  BY <1>1, <1>2, <1>3 DEF Loaded

\* Saving what was loaded with its profile may bring an account back that changed
\* meanwhile; nothing else does.
LEMMA ProfiledIsSound ==
  ASSUME AccountSound, Profiled
  PROVE  AccountSound' /\ StoredStep
<1>0. /\ AccountTypes /\ setup.at = "profiling" /\ UNCHANGED <<signins, overtaken>>
      /\ setup.loaded \in Account /\ setup.loaded # Absent /\ OwnDevice(setup.loaded)
      /\ restored = setup.loaded.signin /\ (overtaken \/ file = setup.loaded)
  BY DEF AccountSound, AccountTypes, RestoresTheFile, Profiled
<1>1. ASSUME Adopt(setup.loaded), UNCHANGED file
      PROVE  AccountSound' /\ StoredStep
  <2>1. file' \in Account /\ OwnDevice(file)' /\ (overtaken \/ file' = setup.loaded)
    BY <1>0, <1>1 DEF AccountSound, AccountTypes, OwnDevice
  <2>2. AccountSound' /\ restored' \in {restored, 0}
    BY <1>0, <1>1, <2>1, AdoptedIsSound
  <2>. QED  BY <1>0, <1>1, <2>2 DEF StoredStep, Stored!Next, Stored!Done, Stored!vars
<1>2. ASSUME NEW whole, whole = [setup.loaded EXCEPT !.profile = TRUE],
             file' = whole, Adopt(whole)
      PROVE  AccountSound' /\ StoredStep
  <2>1. PICK c \in Account : c = setup.loaded
    BY <1>0
  <2>2. /\ whole \in Account /\ whole.signin = c.signin /\ whole.of = c.of
        /\ whole.signin # 0
    <3>1. whole = [c EXCEPT !.profile = TRUE] /\ c.signin # 0
      BY <1>0, <1>2, <2>1 DEF OwnDevice
    <3>. QED  BY <3>1 DEF Account
  <2>3. OwnDevice(whole) /\ whole # Absent /\ restored = whole.signin
    BY <1>0, <2>1, <2>2, AbsentIsAccount DEF OwnDevice
  <2>4. OwnDevice(file)' /\ file' \in Account
    BY <1>2, <2>2, <2>3 DEF OwnDevice
  <2>5. AccountSound' /\ restored' \in {restored, 0}
    BY <1>0, <1>2, <2>2, <2>3, <2>4, AdoptedIsSound
  <2>6. Stored!Return
    BY <1>0, <1>2, <2>2, <2>3, <2>5 DEF Stored!Return
  <2>. QED  BY <2>5, <2>6 DEF StoredStep, Stored!Next
<1>. QED  BY <1>1, <1>2 DEF Profiled

LEMMA RestartedIsSound ==
  ASSUME AccountSound, Restart
  PROVE  AccountSound' /\ StoredStep
<1>0. /\ AccountTypes /\ creds' = Absent /\ refresh' = 0 /\ loop' = [i \in LoopTask |-> NoLoop]
      /\ setup' = Fresh /\ overtaken' = FALSE /\ restored' = 0 /\ UNCHANGED <<file, signins>>
  BY DEF AccountSound, Restart, disk
<1>1. /\ Fresh \in [at : {"loading", "initialising", "profiling", "done"},
                    client : Nat, loaded : Account]
      /\ Fresh.at = "loading" /\ NoLoop \in LoopState /\ NoLoop.at = "none"
  BY AbsentIsAccount DEF Fresh, NoLoop, LoopState
<1>2. 0 \in 0 .. MaxLoops
  BY AccountAssumption
<1>3. AccountTypes'
  BY <1>0, <1>1, <1>2, AbsentIsAccount DEF AccountTypes
<1>4. OneRefresher' /\ AsksForTheHeld'
  BY <1>0, <1>1 DEF OneRefresher, AsksForTheHeld, Live, Running
<1>5. OwnDevice(file)' /\ OwnDevice(creds)' /\ RestoresTheFile' /\ HeldIsStored'
  BY <1>0, <1>1, AbsentIsAccount DEF AccountSound, OwnDevice, RestoresTheFile, HeldIsStored
<1>6. StoredStep
  BY <1>0 DEF StoredStep, Stored!Next, Stored!Done
<1>. QED  BY <1>3, <1>4, <1>5, <1>6 DEF AccountSound

--------------------------------------------------------------------------------
(* The invariant, and what follows *)

LEMMA AccountInit ==
  Init => AccountSound /\ Stored!Init
<1>. SUFFICES ASSUME Init
              PROVE  AccountSound /\ Stored!Init
  OBVIOUS
<1>1. /\ file \in Account /\ OwnDevice(file) /\ signins \in {0, 1}
      /\ IF signins = 0 THEN file = Absent ELSE file # Absent /\ file.signin = 1
  <2>1. CASE file = Absent /\ signins = 0
    BY <2>1, AbsentIsAccount
  <2>2. ASSUME NEW p \in BOOLEAN, signins = 1,
               file = [signin |-> 1, of |-> 1, token |-> 0, profile |-> p]
        PROVE  /\ file \in Account /\ OwnDevice(file) /\ signins \in {0, 1}
               /\ IF signins = 0 THEN file = Absent ELSE file # Absent /\ file.signin = 1
    <3>1. file \in Account /\ file.signin = 1 /\ file.of = 1
      BY <2>2 DEF Account
    <3>. QED  BY <2>2, <3>1, AbsentIsAccount DEF OwnDevice
  <2>. QED  BY <2>1, <2>2 DEF Init
<1>2. /\ Fresh \in [at : {"loading", "initialising", "profiling", "done"},
                    client : Nat, loaded : Account]
      /\ Fresh.at = "loading" /\ NoLoop \in LoopState /\ NoLoop.at = "none"
  BY AbsentIsAccount DEF Fresh, NoLoop, LoopState
<1>3. 0 \in 0 .. MaxLoops
  BY AccountAssumption
<1>4. AccountTypes
  <2>1. /\ creds = Absent /\ refresh = 0 /\ loop = [i \in LoopTask |-> NoLoop]
        /\ setup = Fresh /\ overtaken = FALSE /\ restored = 0
    BY DEF Init
  <2>2. signins \in Nat
    BY <1>1
  <2>. QED  BY <1>1, <1>2, <1>3, <2>1, <2>2, AbsentIsAccount DEF AccountTypes
<1>5. OneRefresher /\ AsksForTheHeld
  BY <1>2 DEF Init, OneRefresher, AsksForTheHeld, Live, Running
<1>6. OwnDevice(creds) /\ RestoresTheFile /\ HeldIsStored
  BY <1>2, AbsentIsAccount DEF Init, RestoresTheFile, HeldIsStored
<1>7. Stored!Init
  BY <1>1 DEF Init, Stored!Init
<1>. QED  BY <1>1, <1>4, <1>5, <1>6, <1>7 DEF AccountSound

LEMMA AccountStep ==
  AccountSound /\ [Next]_vars => AccountSound' /\ StoredStep
<1>. SUFFICES ASSUME AccountSound, [Next]_vars
              PROVE  AccountSound' /\ StoredStep
  OBVIOUS
<1>1. CASE UNCHANGED vars
  <2>1. UNCHANGED core
    BY <1>1 DEF vars, core, disk, memory, loops
  <2>. QED  BY <2>1, QuietKeepsSound
<1>2. ASSUME NEW i \in LoopTask, LoopStep(i)
      PROVE  AccountSound' /\ StoredStep
  <2>1. CASE LoopRenews(i)
    BY <2>1, RenewedIsSound
  <2>2. CASE LoopWakes(i) \/ LoopLocks(i) \/ LoopFails(i) \/ LoopEnds(i)
    <3>1. AccountSound' /\ UNCHANGED <<file, signins, restored>>
      BY <2>2, LoopStepKeepsSound
    <3>. QED  BY <3>1 DEF StoredStep, Stored!vars
  <2>. QED  BY <1>2, <2>1, <2>2 DEF LoopStep
<1>3. ASSUME NEW h \in Handler, BeginLink(h) \/ CompleteLink(h) \/ Unlink(h) \/ Resume(h)
      PROVE  AccountSound' /\ StoredStep
  <2>1. ASSUME refresh' = 0, loop' = Cancelled(loop, refresh),
               UNCHANGED <<file, creds, signins, setup, restored, overtaken>>
        PROVE  AccountSound' /\ StoredStep
    <3>1. AccountTypes /\ OneRefresher /\ refresh \in 0 .. MaxLoops /\ MaxLoops \in Nat
      BY AccountAssumption DEF AccountSound, AccountTypes
    <3>2. /\ loop' \in [LoopTask -> LoopState] /\ refresh' \in 0 .. MaxLoops
          /\ \A i \in LoopTask : loop'[i].at # "none" => loop'[i].cancelled
      BY <2>1, <3>1, CancelledLoops DEF OneRefresher, Live, Running
    <3>3. AccountSound'
      BY <2>1, <3>2, LoopsKeepSound
    <3>. QED  BY <2>1, <3>3 DEF StoredStep, Stored!vars
  <2>. QED  BY <1>3, <2>1, RequestMoves, QuietKeepsSound, ForgottenIsSound, ExchangedIsSound
<1>4. CASE SetupStep
  BY <1>4, LoadIsSound, LoadedIsSound, ProfiledIsSound DEF SetupStep
<1>5. CASE Due
  <2>1. UNCHANGED core
    BY <1>5 DEF Due, core, disk, memory
  <2>. QED  BY <2>1, QuietKeepsSound
<1>6. CASE Restart
  BY <1>6, RestartedIsSound
<1>. QED  BY <1>1, <1>2, <1>3, <1>4, <1>5, <1>6 DEF Next

LEMMA AccountAlwaysSound ==
  Spec => []AccountSound
BY AccountInit, AccountStep, PTL DEF Spec

\* Of the loops _start_refresh_loop ever started at most one is left that is not being
\* cancelled, and it is the one _refresh_task names: unlinking can always end it.
THEOREM OneLoopRenews ==
  Spec => []OneRefresher
<1>1. AccountSound => OneRefresher
  BY DEF AccountSound
<1>. QED  BY <1>1, AccountAlwaysSound, PTL

\* CredentialStore never holds a token beside the device id of another sign-in, and
\* holds what _credentials holds unless the account changed under async_setup.
THEOREM SavedWhole ==
  Spec => []CredentialsAreWhole
<1>1. AccountSound => CredentialsAreWhole
  BY DEF AccountSound, CredentialsAreWhole, OwnDevice, HeldIsStored
<1>. QED  BY <1>1, AccountAlwaysSound, PTL

\* Every step of sign-ins, renewals, unlinks, restores and restarts is a step of the
\* stored account or leaves it: what was removed or replaced comes back only from a
\* restore that was under way, and a renewal never turns the token back.
THEOREM AccountImplementsStored ==
  Spec => ImplementsStoredAccount
<1>1. AccountSound /\ [Next]_vars => StoredStep
  BY AccountStep
<1>2. Init => Stored!Init
  BY AccountInit
<1>3. Spec => [][Stored!Next]_(Stored!vars)
  BY <1>1, AccountAlwaysSound, PTL DEF Spec, StoredStep
<1>. QED  BY <1>2, <1>3, PTL DEF Spec, ImplementsStoredAccount, Stored!Promise
================================================================================
