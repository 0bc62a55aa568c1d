----------------------------- MODULE AccountManager -----------------------------
(***************************************************************************)
(* bridge/account.py and bridge/store.py: signing in with a pending client, *)
(* restoring the stored session, the loop that renews the token, unlinking, *)
(* and the process starting anew from the file.  Handlers interleave with    *)
(* each other, with the restore and with the loop at every await; only the   *)
(* renewal takes a lock.                                                     *)
(***************************************************************************)
EXTENDS Naturals, FiniteSets

CONSTANTS
  Handler,      \* requests served at once
  MaxClients,   \* bound: vendor clients ever made
  MaxSignins,   \* bound: codes exchanged
  MaxTokens,    \* bound: renewals of one sign-in
  MaxLoops,     \* bound: renewal loops ever started
  MaxRestarts,  \* bound: the process starts anew
  MaxFailures   \* bound: calls to Xiaomi that fail

ASSUME AccountAssumption ==
  {MaxClients, MaxSignins, MaxTokens, MaxLoops, MaxRestarts, MaxFailures} \subseteq Nat

Absent == [signin |-> 0, of |-> 0, token |-> 0, profile |-> FALSE]
Client == 1 .. MaxClients
LoopTask == 1 .. MaxLoops

\* A session on disk or in memory: the sign-in its device id is from, the one its
\* token is from, how often that was renewed, and whether the profile is there.
Credentials == [signin : 1 .. MaxSignins, of : 1 .. MaxSignins, token : 0 .. MaxTokens,
                profile : BOOLEAN]

VARIABLES
  file,      \* the credential file
  creds,     \* _credentials
  client,    \* _client, or 0
  pending,   \* _pending_client, or 0; _pending_uuid is set and cleared with it
  life,      \* what became of each client
  refresh,   \* _refresh_task, or 0
  loop,      \* each renewal loop: where it stands, the credentials it asked with, and
             \* whether it asked a client that could answer
  lock,      \* the loop that holds _lock, or 0
  due,       \* whether the token in _credentials is due
  handler,   \* where each request stands
  setup,     \* where async_setup stands, with its client and what it loaded
  signins,   \* codes exchanged so far
  restored,  \* the sign-in async_setup read, as long as it may still be written
  overtaken, \* whether the account changed while it was being restored
  restarts, failures

disk == <<file, signins>>
memory == <<creds, client, pending>>
loops == <<refresh, loop, lock, due>>
bounds == <<restarts, failures>>
vars == <<disk, memory, life, loops, handler, setup, restored, overtaken, bounds>>

NoLoop == [at |-> "none", asked |-> Absent, able |-> FALSE, cancelled |-> FALSE]
Idle == [at |-> "idle", client |-> 0, task |-> 0, then |-> "answer"]
Fresh == [at |-> "loading", client |-> 0, loaded |-> Absent]

Init ==
  /\ \/ file = Absent /\ signins = 0
     \/ signins = 1 /\ \E p \in BOOLEAN :
          file = [signin |-> 1, of |-> 1, token |-> 0, profile |-> p]
  /\ restored = 0
  /\ creds = Absent /\ client = 0 /\ pending = 0
  /\ life = [c \in Client |-> "none"]
  /\ refresh = 0 /\ loop = [i \in LoopTask |-> NoLoop] /\ lock = 0 /\ due = FALSE
  /\ handler = [h \in Handler |-> Idle] /\ setup = Fresh /\ overtaken = FALSE
  /\ restarts = 0 /\ failures = 0
--------------------------------------------------------------------------------
Unmade == {c \in Client : life[c] = "none"}

\* A task that has ended and that nobody waits for any more is a place to start one.
Unstarted == {i \in LoopTask : loop[i].at = "none" /\ \A h \in Handler : handler[h].task # i}

\* Places left: some are spoken for by what is under way.
Room == Cardinality({h \in Handler : handler[h].then = "begin"})
        + (IF setup.at = "loading" THEN 1 ELSE 0) < Cardinality(Unmade)
Codes == signins + Cardinality({h \in Handler : handler[h].at = "exchanging"}) < MaxSignins

\* The account changes in memory and on disk, perhaps under the restore.
Overtakes == overtaken' = (overtaken \/ setup.at \in {"initialising", "profiling"})

\* A client that takes the next place.
Make(c) == c \in Unmade /\ \A d \in Unmade : c <= d

Fails == failures < MaxFailures /\ failures' = failures + 1 /\ UNCHANGED restarts

Cancelled(f, i) == IF i = 0 THEN f ELSE [f EXCEPT ![i].cancelled = TRUE]

\* Mutation: the loop before goes on beside the new one.
StartLoopBeside ==
  \E i \in Unstarted :
    /\ \A j \in Unstarted : i <= j
    /\ refresh' = i
    /\ loop' = [loop EXCEPT ![i] = [NoLoop EXCEPT !.at = "sleeping"]]
    /\ UNCHANGED lock

\* _start_refresh_loop: the one before is cancelled, not waited for.
StartLoop ==
  \E i \in Unstarted :
    /\ \A j \in Unstarted : i <= j
    /\ refresh' = i
    /\ loop' = [Cancelled(loop, refresh) EXCEPT ![i] = [NoLoop EXCEPT !.at = "sleeping"]]
    /\ UNCHANGED lock
--------------------------------------------------------------------------------
(* The renewal loop. *)

Running(i) == ~loop[i].cancelled

\* A client whose deinit ran answers nothing any more.
Alive(c) == c # 0 /\ life[c] # "down"

\* The sleep is over, or a failure is retried; the lock is asked for.
LoopWakes(i) ==
  /\ loop[i].at = "sleeping" /\ Running(i)
  /\ due \/ creds = Absent
  /\ loop' = [loop EXCEPT ![i].at = "locking"]
  /\ UNCHANGED <<disk, memory, life, refresh, lock, due, handler, setup, restored,
                 overtaken, bounds>>

\* Behind the lock: without a session it raises and retries; else it asks.
LoopLocks(i) ==
  /\ loop[i].at = "locking" /\ Running(i) /\ lock = 0
  /\ IF client = 0 \/ creds = Absent
     THEN loop' = [loop EXCEPT ![i].at = "sleeping"] /\ UNCHANGED lock
     ELSE loop' = [loop EXCEPT ![i].at = "asking", ![i].asked = creds,
                                     ![i].able = Alive(client)]
          /\ lock' = i
  /\ UNCHANGED <<disk, memory, life, refresh, due, handler, setup, restored, overtaken,
                 bounds>>

\* Mutation: the session held by then is not looked at again.
LoopRenewsUnasked(i) ==
  /\ loop[i].at = "asking" /\ Running(i) /\ loop[i].able
  /\ loop[i].asked.token < MaxTokens
  /\ file' = [loop[i].asked EXCEPT !.token = @ + 1] /\ creds' = file'
  /\ due' = FALSE /\ Overtakes
  /\ loop' = [loop EXCEPT ![i] = [NoLoop EXCEPT !.at = "sleeping"]]
  /\ lock' = 0
  /\ UNCHANGED <<signins, client, pending, life, refresh, handler, setup, restored,
                 bounds>>

\* What is saved: the device id and the profile of the session held by then.
Renewal(i) == [creds EXCEPT !.of = loop[i].asked.of, !.token = loop[i].asked.token + 1]

LoopRenews(i) ==
  /\ loop[i].at = "asking" /\ Running(i) /\ loop[i].able
  /\ loop[i].asked.token < MaxTokens
  /\ IF creds = Absent
     THEN UNCHANGED <<file, creds, due, overtaken>>
     ELSE file' = Renewal(i) /\ creds' = file' /\ due' = FALSE /\ Overtakes
  /\ loop' = [loop EXCEPT ![i] = [NoLoop EXCEPT !.at = "sleeping"]]
  /\ lock' = 0
  /\ UNCHANGED <<signins, client, pending, life, refresh, handler, setup, restored,
                 bounds>>

\* The call fails, always if the client was torn down before it.
Refused(i) == Fails \/ (~(loop[i].able /\ Alive(client)) /\ UNCHANGED bounds)

\* Mutation: a failure ends the loop.
LoopFailsForGood(i) ==
  /\ loop[i].at = "asking" /\ Running(i) /\ Refused(i)
  /\ loop' = [loop EXCEPT ![i] = NoLoop]
  /\ lock' = 0
  /\ UNCHANGED <<disk, memory, life, refresh, due, handler, setup, restored, overtaken>>

LoopFails(i) ==
  /\ loop[i].at = "asking" /\ Running(i) /\ Refused(i)
  /\ loop' = [loop EXCEPT ![i] = [NoLoop EXCEPT !.at = "sleeping"]]
  /\ lock' = 0
  /\ UNCHANGED <<disk, memory, life, refresh, due, handler, setup, restored, overtaken>>

\* CancelledError arrives at the await it stands at; the lock is given back.
LoopEnds(i) ==
  /\ loop[i].cancelled
  /\ loop' = [loop EXCEPT ![i] = NoLoop]
  /\ lock' = IF lock = i THEN 0 ELSE lock
  /\ UNCHANGED <<disk, memory, life, refresh, due, handler, setup, restored, overtaken,
                 bounds>>

\* The margin before the token's expiry is reached.
Due ==
  /\ creds # Absent /\ ~due /\ creds.token < MaxTokens
  /\ due' = TRUE
  /\ UNCHANGED <<disk, memory, life, refresh, loop, lock, handler, setup, restored,
                 overtaken, bounds>>
--------------------------------------------------------------------------------
(* Requests. *)

At(h, where) == handler[h].at = where
Enter(h, r) == handler' = [handler EXCEPT ![h] = r]
Answer(h) == Enter(h, Idle)

\* A client made for the authorization page; its init is awaited.
Begin(h) ==
  \E c \in Client :
    /\ Make(c)
    /\ life' = [life EXCEPT ![c] = "made"]
    /\ Enter(h, [Idle EXCEPT !.at = "initialising", !.client = c])

\* What is left of unlinking once nothing is pending: the client, then the file.
Forget(h) == file' = Absent /\ creds' = Absent /\ due' = FALSE /\ Answer(h)

TearDown(h) ==
  /\ UNCHANGED pending
  /\ IF client # 0
     THEN /\ life' = [life EXCEPT ![client] = "down"]
          /\ Enter(h, [Idle EXCEPT !.at = "tearing", !.client = client])
          /\ UNCHANGED <<file, creds, due, overtaken>>
     ELSE Forget(h) /\ Overtakes /\ UNCHANGED life

\* _async_discard_pending: the pending client is torn down before it is let go.
Discard(h, then) ==
  /\ life' = [life EXCEPT ![pending] = "down"]
  /\ Enter(h, [Idle EXCEPT !.at = "discarding", !.then = then])

\* POST /api/link/begin
BeginLink(h) ==
  /\ At(h, "idle") /\ Room
  /\ IF pending # 0 THEN Discard(h, "begin") ELSE Begin(h)
  /\ UNCHANGED <<disk, memory, loops, setup, restored, overtaken, bounds>>

BeginDiscarded(h) ==
  /\ At(h, "discarding") /\ handler[h].then = "begin"
  /\ pending' = 0 /\ Begin(h)
  /\ UNCHANGED <<disk, creds, client, loops, setup, restored, overtaken, bounds>>

\* The client is up, or its init failed; what was pending by now is replaced.
LinkBegun(h) ==
  /\ At(h, "initialising")
  /\ \/ /\ pending' = handler[h].client
        /\ life' = [life EXCEPT ![handler[h].client] = "live"]
        /\ UNCHANGED bounds
     \/ Fails /\ UNCHANGED <<pending, life>>
  /\ Answer(h)
  /\ UNCHANGED <<disk, creds, client, loops, setup, restored, overtaken>>

\* POST /api/link/complete: refused when nothing is pending.
CompleteLink(h) ==
  /\ At(h, "idle") /\ pending # 0 /\ Codes
  /\ Enter(h, [Idle EXCEPT !.at = "exchanging", !.client = pending])
  /\ UNCHANGED <<disk, memory, life, loops, setup, restored, overtaken, bounds>>

\* The code is exchanged: saved, promoted and kept fresh in one step, whatever
\* became of the client and of the account meanwhile.
Exchanged(h) ==
  /\ At(h, "exchanging")
  /\ signins' = signins + 1
  /\ \E p \in BOOLEAN :
       file' = [signin |-> signins', of |-> signins', token |-> 0, profile |-> p]
  /\ creds' = file' /\ client' = handler[h].client /\ pending' = 0
  /\ StartLoop /\ due' = FALSE
  /\ Overtakes
  /\ Answer(h)
  /\ UNCHANGED <<life, setup, restored, bounds>>

ExchangeFails(h) ==
  /\ At(h, "exchanging") /\ Fails
  /\ IF pending # 0 THEN Discard(h, "answer") ELSE Answer(h) /\ UNCHANGED life
  /\ UNCHANGED <<disk, memory, loops, setup, restored, overtaken>>

Discarded(h) ==
  /\ At(h, "discarding") /\ handler[h].then = "answer"
  /\ pending' = 0 /\ Answer(h)
  /\ UNCHANGED <<disk, creds, client, life, loops, setup, restored, overtaken, bounds>>

\* POST /api/unlink: the loop is cancelled and waited for, what is pending is
\* discarded, the client torn down, then the file goes.
AfterLoop(h) ==
  IF pending # 0
  THEN Discard(h, "unlink") /\ UNCHANGED <<file, creds, pending, due, overtaken>>
  ELSE TearDown(h)

Unlink(h) ==
  /\ At(h, "idle")
  /\ refresh' = 0 /\ loop' = Cancelled(loop, refresh) /\ UNCHANGED lock
  /\ IF refresh # 0
     THEN /\ Enter(h, [Idle EXCEPT !.at = "cancelling", !.task = refresh])
          /\ UNCHANGED <<file, creds, pending, life, due, overtaken>>
     ELSE AfterLoop(h)
  /\ UNCHANGED <<signins, client, setup, restored, bounds>>

LoopGone(h) ==
  /\ At(h, "cancelling") /\ loop[handler[h].task].at = "none"
  /\ AfterLoop(h)
  /\ UNCHANGED <<signins, client, refresh, loop, lock, setup, restored, bounds>>

UnlinkDiscarded(h) ==
  /\ At(h, "discarding") /\ handler[h].then = "unlink"
  /\ pending' = 0
  /\ IF client # 0
     THEN /\ life' = [life EXCEPT ![client] = "down"]
          /\ Enter(h, [Idle EXCEPT !.at = "tearing", !.client = client])
          /\ UNCHANGED <<file, creds, due, overtaken>>
     ELSE Forget(h) /\ Overtakes /\ UNCHANGED life
  /\ UNCHANGED <<signins, client, refresh, loop, lock, setup, restored, bounds>>

Unlinked(h) ==
  /\ At(h, "tearing")
  /\ client' = 0 /\ Forget(h) /\ Overtakes
  /\ UNCHANGED <<signins, pending, life, refresh, loop, lock, setup, restored, bounds>>
--------------------------------------------------------------------------------
(* The restore, and a process that starts anew. *)

Setup(at, c, loaded) == setup' = [at |-> at, client |-> c, loaded |-> loaded]
SetupEnds ==
  /\ Setup("done", 0, Absent)
  /\ restored' = IF overtaken THEN restored ELSE 0

\* async_setup reads the file; an absent or unreadable one is "not linked".
Load ==
  /\ setup.at = "loading"
  /\ overtaken' = FALSE
  /\ IF file = Absent THEN SetupEnds /\ UNCHANGED life
     ELSE \E c \in Client :
            /\ Make(c) /\ life' = [life EXCEPT ![c] = "made"]
            /\ Setup("initialising", c, file) /\ restored' = file.signin
  /\ UNCHANGED <<disk, memory, loops, handler, bounds>>

Adopt(loaded) ==
  /\ client' = setup.client /\ creds' = loaded /\ UNCHANGED pending
  /\ StartLoop /\ due' \in {FALSE, loaded.token < MaxTokens}
  /\ SetupEnds

Loaded ==
  /\ setup.at = "initialising"
  /\ \/ /\ life' = [life EXCEPT ![setup.client] = "live"]
        /\ IF setup.loaded.profile
           THEN Adopt(setup.loaded)
           ELSE /\ Setup("profiling", setup.client, setup.loaded)
                /\ UNCHANGED <<memory, loops, restored>>
        /\ UNCHANGED bounds
     \/ Fails /\ SetupEnds /\ UNCHANGED <<memory, life, loops>>
  /\ UNCHANGED <<disk, handler, overtaken>>

\* The profile an older file lacks is fetched and what was loaded saved again.
Profiled ==
  /\ setup.at = "profiling"
  /\ \/ LET whole == [setup.loaded EXCEPT !.profile = TRUE] IN
          file' = whole /\ Adopt(whole) /\ UNCHANGED bounds
     \/ Fails /\ Adopt(setup.loaded) /\ UNCHANGED file
  /\ UNCHANGED <<signins, life, handler, overtaken>>

\* The process ends anywhere and starts from the file; saving is one rename.
Restart ==
  /\ restarts < MaxRestarts /\ restarts' = restarts + 1 /\ UNCHANGED failures
  /\ creds' = Absent /\ client' = 0 /\ pending' = 0
  /\ life' = [c \in Client |-> "none"]
  /\ refresh' = 0 /\ lock' = 0 /\ due' = FALSE
  /\ loop' = [i \in LoopTask |-> NoLoop]
  /\ handler' = [h \in Handler |-> Idle] /\ setup' = Fresh /\ overtaken' = FALSE
  /\ restored' = 0
  /\ UNCHANGED disk

LoopStep(i) == LoopWakes(i) \/ LoopLocks(i) \/ LoopRenews(i) \/ LoopFails(i) \/ LoopEnds(i)

Resume(h) ==
  \/ BeginDiscarded(h) \/ LinkBegun(h) \/ Exchanged(h) \/ ExchangeFails(h) \/ Discarded(h)
  \/ LoopGone(h) \/ UnlinkDiscarded(h) \/ Unlinked(h)

SetupStep == Load \/ Loaded \/ Profiled

Next ==
  \/ \E i \in LoopTask : LoopStep(i)
  \/ \E h \in Handler : BeginLink(h) \/ CompleteLink(h) \/ Unlink(h) \/ Resume(h)
  \/ SetupStep \/ Due \/ Restart

Spec == Init /\ [][Next]_vars

\* Every await comes back, and calls that fail for ever are left out by
\* MaxFailures.
FairSpec ==
  /\ Spec
  /\ \A i \in LoopTask : WF_vars(LoopStep(i))
  /\ \A h \in Handler : WF_vars(Resume(h))
  /\ WF_vars(SetupStep)
--------------------------------------------------------------------------------
Live == {i \in LoopTask : loop[i].at # "none" /\ Running(i)}

\* One loop renews the token: every loop that was not cancelled is the one
\* _refresh_task names, so a second sign-in, a restore and an unlink that meet
\* leave no loop behind that nobody can cancel.
OneRefresher == \A i \in Live : i = refresh

\* A token is saved with the device id of its own sign-in, although the id is
\* read after the answer: no sign-in can come in between without cancelling the
\* loop.  And what is on disk is what is in memory, unless a request changed the
\* account while it was being restored.
CredentialsAreWhole ==
  /\ \A c \in {file, creds} : c.signin = c.of
  /\ creds # Absent /\ ~overtaken => creds = file

\* What is on disk keeps the promise of StoredAccount: no renewal brings an
\* account back that was unlinked, or one that was replaced.
Stored == INSTANCE StoredAccount WITH
  Absent <- Absent, stored <- file, signins <- signins, restored <- restored

ImplementsStoredAccount == Stored!Promise

\* A token that is due is renewed, whatever fails on the way and whoever replaces the
\* loop that was at it.  The exception is a client that was torn down: on its way to be
\* let go by an unlinking, or promoted although it was.
DueIsRenewed == (due /\ Alive(client)) ~> (~due \/ ~Alive(client))

\* "The pending client already holds a live session -- promote it": what becomes the
\* client is one that nobody has torn down.  The code does not keep this.
PromotesLive == [][client' \in {client, 0} \/ life'[client'] = "live"]_vars
================================================================================
