--------------------------------- MODULE Bridge ---------------------------------
(***************************************************************************)
(* bridge/__main__.py and what one refresh runs through: the binding of     *)
(* registry and session table to the account's client, the camera list     *)
(* (cameras.py), the settings (settings.py, paths.py), the compatibility    *)
(* accounts (go2rtc_xiaomi.py), and the handlers of api.py that end in a     *)
(* refresh.  Nothing locks a refresh: handlers and the background loop      *)
(* interleave at every await.  A registry and a session table are built      *)
(* and dropped together, so one number, a build, names both.                *)
(***************************************************************************)
EXTENDS Naturals, FiniteSets

CONSTANTS
  Handler,      \* requests served at once
  Did,          \* cameras that may be on the account
  Supported,    \* which of them may be the ones whose model the vendor library accepts
  Reachable,    \* those a compatibility account knows an address of
  Accounts,     \* the cameras the account may start with
  MaxClients,   \* bound: clients the account ever comes by
  MaxBuilds,    \* bound: registries ever built
  MaxChanges,   \* bound: writes, sign-ins and changes on the account
  MaxFailures   \* bound: calls over the network that fail

Loop == "loop"
Task == Handler \cup {Loop}
None == "none"

ASSUME BridgeAssumption ==
  /\ Loop \notin Handler
  /\ Supported \cup Accounts \subseteq SUBSET Did /\ Reachable \subseteq Did
  /\ {MaxClients, MaxBuilds, MaxChanges, MaxFailures} \subseteq Nat

VideoPath == {"official", "compat"}
Override == VideoPath \cup {"other", None}
Quality == {"standard", "high"}
Source == VideoPath \cup {"unreachable"}
Nothing == [d \in Did |-> None]

VARIABLES
  client,     \* the account's client as the binding sees it; 0 when there is none
  freed,      \* the clients that were torn down
  signins,    \* clients so far
  bound,      \* _bound_client
  current,    \* the build _registry and _sessions belong to; 0 when they are None
  built,      \* builds so far
  owner,      \* the client a build was made for
  cameras,    \* _cameras of each build
  open,       \* the cameras with a session in each build's table
  override,   \* what each camera says for itself: a path, something else, or nothing
  quality,    \* the default transcode quality
  cloud,      \* the cameras on the account
  full,       \* the supported cameras
  malformed,  \* whether the account has a device whose model has no class
  users,      \* whether go2rtc holds a compatibility account
  ready,      \* _ready: what the bridge last heard of that
  signing,    \* _signing_in
  published,  \* the streams last handed to the restreamer
  grade,      \* the transcode quality they were built with
  task,       \* where every task stands
  told,       \* cameras each who asks was told of that nothing has taken away since
  missing,    \* those of them the last answer left out
  changes, failures

account == <<client, freed, signins>>
binding == <<bound, current, built, owner>>
settings == <<override, quality>>
outside == <<cloud, full, malformed, users>>
compat == <<ready, signing>>
table == <<published, grade>>
answers == <<told, missing>>
bounds == <<changes, failures>>
vars == <<account, binding, cameras, open, settings, outside, compat, table, task,
          answers, bounds>>

Build == 1 .. MaxBuilds

Job == [at : {"idle", "starting", "closing", "clearing", "ready", "devices", "cameras",
              "power", "pruning", "urls", "reloading", "unlinking", "signing", "noting"},
        listing : BOOLEAN,           \* a camera list request, not a refresh
        build : 0 .. MaxBuilds,      \* the build it works on
        wanted : 0 .. MaxClients,    \* the client the binding is to follow
        asked : SUBSET Did,          \* the account when its call was sent
        all : SUBSET Did,            \* the devices it was told of
        supported : SUBSET Did,      \* described as supported
        offered : SUBSET Did,        \* described as publishable
        todo : SUBSET Did,           \* sessions still to be stopped
        resolved : [Did -> VideoPath \cup {None}],  \* the settings it resolved
        grade : Quality,             \* the transcode quality among them
        steady : SUBSET Did]         \* on the account ever since it began

NoJob == [at |-> "idle", listing |-> FALSE, build |-> 0, wanted |-> 0, asked |-> {},
          all |-> {}, supported |-> {}, offered |-> {}, todo |-> {},
          resolved |-> Nothing, grade |-> "standard", steady |-> {}]

\* The API serves before the account is restored; go2rtc has been asked once.
Init ==
  /\ client = 0 /\ freed = {} /\ signins = 0
  /\ bound = 0 /\ current = 0 /\ built = 0 /\ owner = [b \in Build |-> 0]
  /\ cameras = [b \in Build |-> {}]
  /\ open = [b \in Build |-> {}]
  /\ full \in Supported
  /\ override \in {o \in [Did -> {None, "other", "compat"}] :
                     \A d \in Did : o[d] = None <=> d \in full}
  /\ quality = "standard"
  /\ cloud \in Accounts /\ malformed = FALSE
  /\ users \in BOOLEAN /\ ready = users /\ signing = FALSE
  /\ published = Nothing /\ grade = quality
  /\ task = [t \in Task |-> IF t = Loop THEN [NoJob EXCEPT !.at = "starting"] ELSE NoJob]
  /\ told = [h \in Handler |-> {}] /\ missing = {}
  /\ changes = 0 /\ failures = 0
--------------------------------------------------------------------------------
(* Settings and paths. *)

\* paths.path_for: what the camera says for itself wins; nothing is chosen for
\* a camera the vendor library refuses.
PathFor(accepted, said) ==
  IF said \in VideoPath THEN said ELSE IF accepted THEN "official" ELSE None

SetOverride(d, said) == override' = [override EXCEPT ![d] = said] /\ UNCHANGED quality

SetDefaults(q) == quality' = q /\ UNCHANGED override

\* settings.prune, as a value: the overrides left.
Kept(known) == [d \in Did |-> IF d \in known THEN override[d] ELSE None]

\* settings.resolve over the publishable cameras, as described by a refresh.
Resolved(r, kept) ==
  [d \in Did |-> IF d \in r.offered THEN PathFor(d \in r.supported, kept[d]) ELSE None]

\* restream.source_for: compatibility mode needs an address.
Sources(resolved, urls) ==
  [d \in Did |-> IF resolved[d] = "compat" /\ d \notin urls THEN "unreachable"
                                                            ELSE resolved[d]]
--------------------------------------------------------------------------------
(* Steps of a job. *)

Enter(t, r) == task' = [task EXCEPT ![t] = r]
End(t) == Enter(t, NoJob)
At(t, where) == task[t].at = where

\* What is left of what was told when some cameras are taken away.
Without(gone) == [h \in Handler |-> told[h] \ gone]

Change == changes < MaxChanges /\ changes' = changes + 1 /\ UNCHANGED failures
Fails == failures < MaxFailures /\ failures' = failures + 1 /\ UNCHANGED changes
Answers == UNCHANGED bounds

\* CameraRegistry.async_refresh up to its first await.
Listing(r, b) == [r EXCEPT !.at = "ready", !.build = b, !.wanted = 0]

\* The rest of the binding once nothing is open any more, and the registry's
\* refresh behind it; with no client the restreamer is handed an empty table.
Rebind(t, r) ==
  /\ bound' = r.wanted
  /\ IF r.wanted = 0
     THEN /\ current' = 0 /\ published' = Nothing /\ grade' = quality
          /\ Enter(t, [r EXCEPT !.at = "clearing", !.build = 0])
          /\ UNCHANGED <<built, owner>>
     ELSE /\ built < MaxBuilds /\ built' = built + 1 /\ current' = built'
          /\ owner' = [owner EXCEPT ![built'] = r.wanted]
          /\ Enter(t, Listing(r, built'))
          /\ UNCHANGED table

\* Mutation: one account for another is no change.
ChangedAtAll(now) == (now = 0) # (bound = 0)

Changed(now) == now # bound

\* Bridge.async_refresh up to its first await, with the client it finds.
Refresh(t, now) ==
  LET r == [NoJob EXCEPT !.wanted = now, !.build = current, !.steady = cloud] IN
  IF Changed(now)
  THEN IF current # 0 /\ open[current] # {}
       THEN /\ Enter(t, [r EXCEPT !.at = "closing", !.todo = open[current]])
            /\ UNCHANGED <<binding, table>>
       ELSE Rebind(t, r)
  ELSE /\ IF current = 0 THEN End(t) ELSE Enter(t, Listing(r, current))
       /\ UNCHANGED <<binding, table>>

\* SessionManager.async_shutdown: one session after another.
CloseOne(t, d) ==
  /\ At(t, "closing") /\ d \in task[t].todo
  /\ open' = [open EXCEPT ![task[t].build] = @ \ {d}]
  /\ Enter(t, [task[t] EXCEPT !.todo = @ \ {d}])
  /\ UNCHANGED <<account, binding, cameras, settings, outside, compat, table, answers, bounds>>

Closed(t) ==
  /\ At(t, "closing") /\ task[t].todo = {}
  /\ Rebind(t, task[t])
  /\ UNCHANGED <<account, cameras, open, settings, outside, compat, answers, bounds>>

Cleared(t) ==
  /\ At(t, "clearing")
  /\ IF current = 0 THEN End(t) ELSE Enter(t, Listing(task[t], current))
  /\ UNCHANGED <<account, binding, cameras, open, settings, outside, compat, table,
                 answers, bounds>>

\* refresh_compat_ready; a call that fails reads as "not ready".
ReadyRead(t) ==
  /\ At(t, "ready")
  /\ \/ ready' = users /\ Answers
     \/ ready' = FALSE /\ Fails
  /\ Enter(t, [task[t] EXCEPT !.at = "devices", !.asked = cloud])
  /\ UNCHANGED <<account, binding, cameras, open, settings, outside, signing, table, answers>>

\* A call on a client that was torn down fails.
Alive(t) == owner[task[t].build] \notin freed

\* What the cloud answers: the account as it was when asked, or as it is.
Answer(t) == {task[t].asked, cloud}

DevicesRead(t) ==
  /\ At(t, "devices") /\ Alive(t)
  /\ \E answer \in Answer(t) :
       /\ told' = Without(Did \ answer)
       /\ Enter(t, [task[t] EXCEPT !.at = "cameras", !.all = answer, !.asked = cloud])
  /\ UNCHANGED <<account, binding, cameras, open, settings, outside, compat, table, missing,
                 bounds>>

\* CameraRegistry._path_for, given what _cameras holds.
RegistryPath(supported, d) == PathFor(d \in supported, override[d])

\* The descriptions: what _cameras holds, and the refused cameras of the list
\* this call was given.
Described(r, supported) ==
  LET known == supported \cup r.all IN
  [r EXCEPT !.supported = supported,
            !.offered = {d \in known : RegistryPath(supported, d) # None}]

\* The restreamer is handed the new table; Restreamer has what it does with it.
Publish(t, resolved, urls, built_with) ==
  published' = Sources(resolved, urls) /\ grade' = built_with /\ End(t)

\* Mutation: only the cameras that can be streamed.
KnownPublishable(r) == r.offered

\* The cameras of the list, which keep their overrides.
Known(r) == r.supported \cup r.all

\* The overrides of cameras that are gone go, and what is left is resolved in
\* the same step; addresses are fetched only when some camera needs one.
Settle(t, r, still) ==
  LET kept == Kept(Known(r))
      resolved == Resolved(r, kept) IN
  /\ override' = kept /\ UNCHANGED quality
  /\ IF \E d \in Did : resolved[d] = "compat"
     THEN /\ Enter(t, [NoJob EXCEPT !.at = "urls", !.resolved = resolved,
                                    !.grade = quality])
          /\ UNCHANGED table
     ELSE Publish(t, resolved, {}, quality)
  /\ told' = [h \in Handler |-> still[h] \ {d \in Did : kept[d] # override[d]}]
  /\ UNCHANGED missing

\* The descriptions are made.  A list request answers; a refresh first stops
\* the sessions of cameras no longer offered, in the table _sessions is now.
Deliver(t, r, still) ==
  LET gone == IF current = 0 THEN {} ELSE open[current] \ r.offered IN
  IF r.listing
  THEN /\ IF r.build = current
          THEN missing' = still[t] \ r.offered /\ told' = [still EXCEPT ![t] = r.offered]
          ELSE told' = still /\ UNCHANGED missing
       /\ End(t) /\ UNCHANGED <<settings, table>>
  ELSE /\ IF gone = {} THEN Settle(t, r, still)
          ELSE /\ Enter(t, [r EXCEPT !.at = "pruning", !.build = current, !.todo = gone])
               /\ told' = still /\ UNCHANGED <<settings, table, missing>>

\* The power switches are read for cameras with a path, if there is one.
Describe(t, supported, still) ==
  LET r == task[t] IN
  IF \E d \in r.all : RegistryPath(supported, d) # None
  THEN /\ Enter(t, [r EXCEPT !.at = "power", !.asked = {}])
       /\ told' = still
       /\ UNCHANGED <<settings, table, missing>>
  ELSE Deliver(t, Described(r, supported), still)

\* Mutation: an odd device costs the list whether or not there is one to keep.
CamerasReadAlways(t) ==
  LET b == task[t].build IN
  /\ At(t, "cameras") /\ Alive(t)
  /\ IF malformed
     THEN UNCHANGED cameras /\ Describe(t, cameras[b], told)
     ELSE \E answer \in Answer(t) :
            /\ cameras' = [cameras EXCEPT ![b] = answer \cap full]
            /\ Describe(t, cameras'[b], Without(full \ answer))
  /\ UNCHANGED <<account, binding, open, outside, compat, bounds>>

\* get_cameras fails over an odd device, and the cameras of the refresh before
\* are kept, if there are any.
CamerasRead(t) ==
  LET b == task[t].build IN
  /\ At(t, "cameras") /\ Alive(t)
  /\ IF malformed
     THEN /\ UNCHANGED cameras
          /\ IF cameras[b] = {} THEN End(t) /\ UNCHANGED <<settings, table, answers>>
                                ELSE Describe(t, cameras[b], told)
     ELSE \E answer \in Answer(t) :
            /\ cameras' = [cameras EXCEPT ![b] = answer \cap full]
            /\ Describe(t, cameras'[b], Without(full \ answer))
  /\ UNCHANGED <<account, binding, open, outside, compat, bounds>>

\* get_devices or get_cameras fails: an error, or a client that was torn down.
CallFails(t) ==
  /\ At(t, "devices") \/ At(t, "cameras")
  /\ IF Alive(t) THEN Fails ELSE Answers
  /\ End(t)
  /\ UNCHANGED <<account, binding, cameras, open, settings, outside, compat, table, answers>>

\* A failure only leaves the switches unknown.
PowerRead(t) ==
  /\ At(t, "power")
  /\ Deliver(t, Described(task[t], cameras[task[t].build]), told)
  /\ UNCHANGED <<account, binding, cameras, open, outside, compat, bounds>>

\* SessionManager.async_prune: one session after another.
PruneOne(t, d) ==
  /\ At(t, "pruning") /\ d \in task[t].todo
  /\ open' = [open EXCEPT ![task[t].build] = @ \ {d}]
  /\ Enter(t, [task[t] EXCEPT !.todo = @ \ {d}])
  /\ UNCHANGED <<account, binding, cameras, settings, outside, compat, table, answers, bounds>>

Pruned(t) ==
  /\ At(t, "pruning") /\ task[t].todo = {}
  /\ Settle(t, task[t], told)
  /\ UNCHANGED <<account, binding, cameras, open, outside, compat, bounds>>

\* all_device_urls; a failure goes on without addresses.
UrlsRead(t) ==
  /\ At(t, "urls")
  /\ LET r == task[t] IN
     \/ Publish(t, r.resolved, IF users THEN Reachable ELSE {}, r.grade) /\ Answers
     \/ Publish(t, r.resolved, {}, r.grade) /\ Fails
  /\ UNCHANGED <<account, binding, cameras, open, settings, outside, compat, answers>>
--------------------------------------------------------------------------------
(* The jobs. *)

\* async_start: the stored session is restored, or there is none or it fails.
Start ==
  /\ At(Loop, "starting")
  /\ \/ /\ signins < MaxClients /\ signins' = signins + 1 /\ client' = signins'
        /\ UNCHANGED freed
        /\ Refresh(Loop, client')
     \/ End(Loop) /\ UNCHANGED <<account, binding, table>>
  /\ UNCHANGED <<cameras, open, settings, outside, compat, answers, bounds>>

\* The background loop, and POST /api/cameras/refresh.
Wake(t) ==
  /\ At(t, "idle")
  /\ Refresh(t, client)
  /\ UNCHANGED <<account, cameras, open, settings, outside, compat, answers, bounds>>

\* GET /api/cameras; without an account it answers 503 at once.
List(h) ==
  /\ At(h, "idle") /\ current # 0
  /\ Enter(h, [Listing(NoJob, current) EXCEPT !.listing = TRUE])
  /\ UNCHANGED <<account, binding, cameras, open, settings, outside, compat, table,
                 answers, bounds>>

\* PUT /api/cameras/{did}/settings: the camera's session is dropped, and what
\* anybody was told stays true only while the camera has a path.
WriteCamera(h, d, said) ==
  /\ At(h, "idle") /\ said # override[d] /\ Change
  /\ SetOverride(d, said)
  /\ told' = IF said \notin VideoPath THEN Without({d}) ELSE told
  /\ IF current # 0 /\ d \in open[current]
     THEN /\ open' = [open EXCEPT ![current] = @ \ {d}]
          /\ Enter(h, [NoJob EXCEPT !.at = "reloading"])
          /\ UNCHANGED <<binding, table>>
     ELSE Refresh(h, client) /\ UNCHANGED open
  /\ UNCHANGED <<account, cameras, outside, compat, missing>>

Reloaded(h) ==
  /\ At(h, "reloading")
  /\ Refresh(h, client)
  /\ UNCHANGED <<account, cameras, open, settings, outside, compat, answers, bounds>>

\* PUT /api/settings
WriteDefaults(h, q) ==
  /\ At(h, "idle") /\ q # quality /\ Change
  /\ SetDefaults(q)
  /\ Refresh(h, client)
  /\ UNCHANGED <<account, cameras, open, outside, compat, answers>>

\* POST /api/link/complete, once the code is exchanged: a new client, whether
\* or not there was one.
LinkComplete(h) ==
  /\ At(h, "idle") /\ signins < MaxClients /\ Change
  /\ signins' = signins + 1 /\ client' = signins' /\ UNCHANGED freed
  /\ Refresh(h, client')
  /\ UNCHANGED <<cameras, open, settings, outside, compat, answers>>

\* POST /api/unlink: the account tears its client down before the refresh.
Unlink(h) ==
  /\ At(h, "idle") /\ client # 0 /\ Change
  /\ freed' = freed \cup {client}
  /\ Enter(h, [NoJob EXCEPT !.at = "unlinking"])
  /\ UNCHANGED <<client, signins, binding, cameras, open, settings, outside, compat, table,
                 answers>>

Unlinked(h) ==
  /\ At(h, "unlinking")
  /\ client' = 0 /\ UNCHANGED <<freed, signins>>
  /\ Refresh(h, client')
  /\ UNCHANGED <<cameras, open, settings, outside, compat, answers, bounds>>

\* POST /api/compat/signin: one at a time; then the flag, then a refresh.
CompatSignin(h) ==
  /\ At(h, "idle") /\ ~signing /\ Change
  /\ signing' = TRUE /\ UNCHANGED ready
  /\ Enter(h, [NoJob EXCEPT !.at = "signing"])
  /\ UNCHANGED <<account, binding, cameras, open, settings, outside, table, answers>>

SignedIn(h) ==
  /\ At(h, "signing")
  /\ signing' = FALSE /\ UNCHANGED ready
  /\ \/ users' = TRUE /\ Enter(h, [NoJob EXCEPT !.at = "noting"])
     \/ UNCHANGED users /\ End(h)
  /\ UNCHANGED <<account, binding, cameras, open, settings, cloud, full, malformed, table,
                 answers, bounds>>

Noted(h) ==
  /\ At(h, "noting")
  /\ \/ ready' = users /\ Answers
     \/ ready' = FALSE /\ Fails
  /\ Refresh(h, client)
  /\ UNCHANGED <<account, cameras, open, settings, outside, signing, answers>>

\* GET /api/stream: a session for a camera the registry knows as supported and
\* whose path is the official one; every other request is refused.
Stream(d) ==
  /\ current # 0 /\ d \in cameras[current] /\ d \notin open[current]
  /\ PathFor(TRUE, override[d]) = "official"
  /\ open' = [open EXCEPT ![current] = @ \cup {d}]
  /\ UNCHANGED <<account, binding, cameras, settings, outside, compat, table, task, answers,
                 bounds>>

\* A camera joins the account or leaves it, or a device with an odd model does.
AccountChanges ==
  /\ Change
  /\ \/ \E d \in Did :
          /\ cloud' = IF d \in cloud THEN cloud \ {d} ELSE cloud \cup {d}
          /\ told' = Without(Did \ cloud')
          /\ task' = [t \in Task |-> [task[t] EXCEPT !.steady = @ \cap cloud']]
          /\ UNCHANGED malformed
     \/ malformed' = ~malformed /\ UNCHANGED <<cloud, told, task>>
  /\ UNCHANGED <<account, binding, cameras, open, settings, full, users, compat, table,
                 missing>>

Step(t) ==
  \/ \E d \in Did : CloseOne(t, d) \/ PruneOne(t, d)
  \/ Closed(t) \/ Cleared(t) \/ ReadyRead(t) \/ DevicesRead(t) \/ CamerasRead(t)
  \/ CallFails(t) \/ PowerRead(t) \/ Pruned(t) \/ UrlsRead(t)

Request(h) ==
  \/ Wake(h) \/ List(h) \/ LinkComplete(h) \/ Unlink(h) \/ CompatSignin(h)
  \/ \E d \in Did, said \in Override : WriteCamera(h, d, said)
  \/ \E q \in Quality : WriteDefaults(h, q)

Resume(h) == Reloaded(h) \/ Unlinked(h) \/ SignedIn(h) \/ Noted(h)

Next ==
  \/ Start \/ Wake(Loop)
  \/ \E t \in Task : Step(t)
  \/ \E h \in Handler : Request(h) \/ Resume(h)
  \/ \E d \in Did : Stream(d)
  \/ AccountChanges

Spec == Init /\ [][Next]_vars

\* Every await comes back and the loop wakes again; a network that fails for
\* ever is left out by MaxFailures.
FairSpec ==
  /\ Spec
  /\ WF_vars(Start) /\ WF_vars(Wake(Loop))
  /\ \A t \in Task : WF_vars(Step(t))
  /\ \A h \in Handler : WF_vars(Resume(h))
--------------------------------------------------------------------------------
\* What the streams come to when nothing interferes.
Wanted ==
  Sources([d \in Did |-> IF d \in cloud THEN PathFor(d \in full, override[d]) ELSE None],
          IF users THEN Reachable ELSE {})

\* An override goes only with its camera: one of a camera that has been on the
\* account ever since the refresh began outlives that refresh, whatever failed
\* in it and whether or not the camera can be streamed (settings.prune,
\* CameraRegistry.async_refresh).
OverridesOutlive ==
  [][changes' = changes =>
       \A d \in Did : override[d] # None /\ override'[d] = None =>
         \A t \in Task : task'[t] # task[t] => d \notin task[t].steady]_vars

\* Home Assistant deletes what the camera list leaves out.  A camera it was told
\* of is left out only after the cloud answered without it, or after its path
\* was taken away: never because a call failed or the account has an odd device.
NothingVanishes == missing = {}

\* Whatever order refreshes end in, the loop brings the streams, the binding and
\* the sign-in flag to what account, settings and go2rtc have become.
Settles ==
  /\ <>[](current # 0 /\ ~malformed => published = Wanted /\ grade = quality)
  /\ <>[](bound = client)
  /\ <>[](current # 0 => ready = users)

\* "Anything still holding" a camera instance "has to be torn down before" the client
\* it came from is: no session is open on a client that was torn down
\* (Bridge._async_sync_session_binding).
SessionsEndBeforeTheirClient == \A b \in Build : owner[b] \in freed => open[b] = {}

\* With no account and no job under way nothing is published (Bridge.async_refresh
\* applies an empty table when nothing is bound).
NothingPublishedUnlinked ==
  client = 0 /\ (\A t \in Task : At(t, "idle")) => published = Nothing
================================================================================
