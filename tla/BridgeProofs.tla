------------------------------ MODULE BridgeProofs -------------------------------
(***************************************************************************)
(* What Bridge guarantees for any number of requests, cameras, clients,    *)
(* builds, changes and failures: nobody who lists cameras loses one for     *)
(* another reason than the account or a setting, and no override goes with *)
(* its camera still there.  Jobs interleave at every await, so the          *)
(* invariant says what each of them may still rely on: the answers it       *)
(* holds, and the registry it was begun with.                               *)
(***************************************************************************)
EXTENDS Bridge, TLAPS

\* A camera that says for itself how it is streamed.
Chosen(d) == override[d] \in VideoPath

WorldTypes ==
  /\ client \in 0 .. MaxClients /\ signins \in 0 .. MaxClients
  /\ built \in 0 .. MaxBuilds /\ current \in 0 .. built
  /\ cameras \in [Build -> SUBSET Did] /\ open \in [Build -> SUBSET Did]
  /\ override \in [Did -> Override] /\ quality \in Quality
  /\ cloud \subseteq Did /\ full \subseteq Did
  /\ told \in [Handler -> SUBSET Did] /\ changes \in Nat

\* A registry holds supported cameras only, and none before it is built.
RegistriesSound ==
  \A b \in Build : cameras[b] \subseteq full /\ (b > built => cameras[b] = {})

\* A camera somebody was told of has a path: its own, or that of a supported
\* camera, which the registry holds once it has read any.
ListedTo(h) ==
  \A d \in told[h] :
    Chosen(d) \/ (d \in full /\ (current = 0 \/ cameras[current] = {} \/ d \in cameras[current]))

\* What a refresh or a list request may rely on: cameras that stay are in every
\* answer it was given, and cameras somebody was told of are in the list he gets.
JobSound(t, r) ==
  /\ r.steady \subseteq cloud
  /\ r.at = "devices" => r.steady \subseteq r.asked
  /\ r.at \in {"cameras", "power", "pruning"} => r.steady \subseteq r.all
  /\ r.at \in {"ready", "devices", "cameras", "power"} => r.build \in 1 .. built
  /\ r.listing => t \in Handler /\ r.at \in {"ready", "devices", "cameras", "power"}
  /\ r.listing /\ r.at \in {"cameras", "power"} => told[t] \subseteq r.all
  /\ r.listing /\ r.at = "power" /\ r.build = current =>
       \A d \in told[t] : Chosen(d) \/ d \in cameras[r.build]

BridgeSound ==
  /\ WorldTypes /\ task \in [Task -> Job]
  /\ RegistriesSound /\ NothingVanishes
  /\ \A h \in Handler : ListedTo(h)
  /\ \A t \in Task : JobSound(t, task[t])

--------------------------------------------------------------------------------
(* What the others' steps leave of what a job relies on *)

\* What somebody was told of only becomes less, and goes when its path goes.
Shrinks(h) ==
  /\ told'[h] \subseteq told[h]
  /\ \A d \in told'[h] : override'[d] = override[d] \/ override'[d] \in VideoPath
  /\ \A d \in told'[h], b \in Build :
       d \in full => cameras'[b] = cameras[b] \/ d \in cameras'[b]

\* The binding stays, goes, or moves on to a registry that holds nothing yet.
BindingMoves ==
  /\ built' \in 0 .. MaxBuilds /\ built <= built'
  /\ current' \in {current, 0} \cup (built + 1 .. built')

LEMMA ListedKept ==
  ASSUME BridgeSound, RegistriesSound', BindingMoves, UNCHANGED full,
         \A b \in Build : b > built => cameras'[b] = {},
         NEW h \in Handler, Shrinks(h)
  PROVE  ListedTo(h)'
<1>. SUFFICES ASSUME NEW d \in told'[h], override'[d] \notin VideoPath
              PROVE  d \in full /\ (current' = 0 \/ cameras'[current'] = {}
                                      \/ d \in cameras'[current'])
  BY DEF ListedTo, Chosen
<1>1. /\ d \in full
      /\ current = 0 \/ cameras[current] = {} \/ d \in cameras[current]
  BY DEF Shrinks, BridgeSound, ListedTo, Chosen
<1>2. CASE current' \in built + 1 .. built'
  <2>1. current' \in Build /\ current' > built
    BY <1>2, BridgeAssumption DEF BindingMoves, BridgeSound, WorldTypes, Build
  <2>. QED  BY <1>1, <2>1
<1>3. CASE current' = current /\ current # 0
  <2>1. current \in Build
    BY <1>3, BridgeAssumption DEF BridgeSound, WorldTypes, Build
  <2>. QED  BY <1>1, <1>3, <2>1 DEF Shrinks
<1>. QED  BY <1>1, <1>2, <1>3 DEF BindingMoves

LEMMA JobKept ==
  ASSUME BridgeSound, BindingMoves, UNCHANGED <<cloud, full>>,
         NEW t \in Task, t \in Handler => Shrinks(t), NEW r \in Job, JobSound(t, r)
  PROVE  JobSound(t, r)'
<1>1. built \in Nat /\ built' \in Nat /\ built <= built'
  BY BridgeAssumption DEF BridgeSound, WorldTypes, BindingMoves
<1>2. r.at \in {"ready", "devices", "cameras", "power"} => r.build \in 1 .. built'
  BY <1>1 DEF JobSound
<1>3. r.listing /\ r.at \in {"cameras", "power"} => told'[t] \subseteq r.all
  BY DEF JobSound, Shrinks
<1>4. ASSUME r.listing, r.at = "power", r.build = current', NEW d \in told'[t]
      PROVE  override'[d] \in VideoPath \/ d \in cameras'[r.build]
  <2>1. t \in Handler /\ r.build \in 1 .. built
    BY <1>4 DEF JobSound
  <2>2. current' = current /\ r.build \in Build
    BY <1>1, <1>4, <2>1, BridgeAssumption DEF BindingMoves, BridgeSound, WorldTypes, Build
  <2>3. d \in told[t] /\ (override'[d] \in VideoPath \/ ~Chosen(d))
    BY <1>4, <2>1 DEF Shrinks, Chosen
  <2>4. CASE ~Chosen(d)
    <3>1. d \in cameras[r.build] /\ d \in full
      BY <1>4, <2>1, <2>2, <2>3, <2>4 DEF JobSound, BridgeSound, ListedTo
    <3>. QED  BY <1>4, <2>1, <2>2, <3>1 DEF Shrinks
  <2>. QED  BY <2>3, <2>4
<1>. QED  BY <1>2, <1>3, <1>4 DEF JobSound, Chosen

\* The step of one job.
LEMMA OneJob ==
  ASSUME BridgeSound, WorldTypes', RegistriesSound', BindingMoves, NothingVanishes',
         UNCHANGED <<cloud, full>>, \A b \in Build : b > built => cameras'[b] = {},
         NEW t \in Task, NEW r \in Job, task' = [task EXCEPT ![t] = r], JobSound(t, r)',
         \A h \in Handler \ {t} : Shrinks(h),
         t \in Handler => ListedTo(t)'
  PROVE  BridgeSound'
<1>1. task \in [Task -> Job] /\ task' \in [Task -> Job]
  BY DEF BridgeSound
<1>2. ASSUME NEW h \in Handler
      PROVE  ListedTo(h)'
  BY <1>2, ListedKept
<1>3. ASSUME NEW s \in Task
      PROVE  JobSound(s, task[s])'
  <2>1. CASE s = t
    BY <1>1, <2>1 DEF JobSound
  <2>2. CASE s # t
    <3>1. PICK g \in Job : g = task[s]
      BY <1>1
    <3>2. JobSound(s, g) /\ g = task'[s]
      BY <2>2, <3>1 DEF BridgeSound
    <3>3. JobSound(s, g)'
      BY <2>2, <3>2, JobKept
    <3>. QED  BY <3>2, <3>3
  <2>. QED  BY <2>1, <2>2
<1>. QED  BY <1>1, <1>2, <1>3 DEF BridgeSound

\* A step that answers nobody.
LEMMA ShrinkStep ==
  ASSUME BridgeSound, WorldTypes', RegistriesSound', BindingMoves,
         UNCHANGED <<cloud, full, missing>>, \A b \in Build : b > built => cameras'[b] = {},
         \A h \in Handler : Shrinks(h),
         NEW t \in Task, NEW r \in Job, task' = [task EXCEPT ![t] = r], JobSound(t, r)'
  PROVE  BridgeSound'
<1>1. NothingVanishes'
  BY DEF BridgeSound, NothingVanishes
<1>2. \A h \in Handler : ListedTo(h)'
  BY ListedKept
<1>. QED  BY <1>1, <1>2, OneJob

\* A step that reads no answer and writes no setting.
LEMMA PlainStep ==
  ASSUME BridgeSound, BindingMoves, UNCHANGED <<cameras, override, cloud, full, answers>>,
         client' \in 0 .. MaxClients, signins' \in 0 .. MaxClients,
         open' \in [Build -> SUBSET Did], quality' \in Quality, changes' \in Nat,
         NEW t \in Task, NEW r \in Job, task' = [task EXCEPT ![t] = r], JobSound(t, r)'
  PROVE  BridgeSound'
<1>1. built \in Nat /\ built' \in Nat /\ built <= built' /\ current' \in 0 .. built'
  BY BridgeAssumption DEF BridgeSound, WorldTypes, BindingMoves
<1>2. WorldTypes'
  BY <1>1 DEF BridgeSound, WorldTypes, BindingMoves, answers
<1>3. RegistriesSound' /\ \A b \in Build : b > built => cameras'[b] = {}
  BY <1>1 DEF BridgeSound, RegistriesSound, Build
<1>4. \A h \in Handler : Shrinks(h)
  BY DEF Shrinks, answers
<1>. QED  BY <1>2, <1>3, <1>4, ShrinkStep DEF answers

--------------------------------------------------------------------------------
(* Jobs that begin *)

LEMMA NoJobTyped ==
  /\ NoJob \in Job /\ NoJob.at = "idle" /\ ~NoJob.listing /\ NoJob.steady = {}
  /\ Nothing \in [Did -> VideoPath \cup {None}]
<1>1. Nothing \in [Did -> VideoPath \cup {None}]
  BY DEF Nothing
<1>2. 0 \in 0 .. MaxBuilds /\ 0 \in 0 .. MaxClients
  BY BridgeAssumption
<1>. QED  BY <1>1, <1>2 DEF NoJob, Job, Quality

\* A job that waits for something, or has everything still to read.
Begun(r) ==
  /\ r \in Job /\ ~r.listing /\ r.steady \subseteq cloud
  /\ r.at \notin {"devices", "cameras", "power", "pruning"}
  /\ r.at = "ready" => r.build \in 1 .. built'

LEMMA IdleBegun ==
  ASSUME NEW where \in {"idle", "reloading", "unlinking", "signing", "noting"}
  PROVE  Begun([NoJob EXCEPT !.at = where])
BY NoJobTyped DEF Begun, Job

LEMMA BegunIsSound ==
  ASSUME NEW t, NEW r, Begun(r), UNCHANGED cloud
  PROVE  JobSound(t, r)'
BY DEF Begun, JobSound

LEMMA ListingEffect ==
  ASSUME NEW r \in Job, NEW b \in 0 .. MaxBuilds
  PROVE  /\ Listing(r, b) \in Job /\ Listing(r, b).at = "ready" /\ Listing(r, b).build = b
         /\ Listing(r, b).listing = r.listing /\ Listing(r, b).steady = r.steady
<1>1. 0 \in 0 .. MaxClients
  BY BridgeAssumption
<1>. QED  BY <1>1 DEF Listing, Job

LEMMA RebindEffect ==
  ASSUME BridgeSound, NEW t \in Task, NEW r \in Job, ~r.listing, r.steady \subseteq cloud,
         Rebind(t, r)
  PROVE  BindingMoves /\ \E g : Begun(g) /\ task' = [task EXCEPT ![t] = g]
<1>0. /\ built \in 0 .. MaxBuilds /\ MaxBuilds \in Nat /\ 0 \in 0 .. MaxBuilds
      /\ current \in 0 .. built
  BY BridgeAssumption DEF BridgeSound, WorldTypes
<1>1. CASE r.wanted = 0
  <2>. DEFINE g == [r EXCEPT !.at = "clearing", !.build = 0]
  <2>1. Begun(g)
    BY <1>0 DEF Begun, Job
  <2>2. task' = [task EXCEPT ![t] = g] /\ current' = 0 /\ built' = built
    BY <1>1 DEF Rebind, Enter
  <2>3. BindingMoves
    BY <1>0, <2>2 DEF BindingMoves
  <2>. HIDE DEF g
  <2>. QED  BY <2>1, <2>2, <2>3
<1>2. CASE r.wanted # 0
  <2>1. /\ built' = built + 1 /\ current' = built' /\ built' \in 0 .. MaxBuilds
        /\ task' = [task EXCEPT ![t] = Listing(r, built')]
    BY <1>0, <1>2 DEF Rebind, Enter
  <2>2. Begun(Listing(r, built'))
    BY <1>0, <2>1, ListingEffect DEF Begun
  <2>3. BindingMoves
    BY <1>0, <2>1 DEF BindingMoves
  <2>. QED  BY <2>1, <2>2, <2>3
<1>. QED  BY <1>1, <1>2

LEMMA RefreshEffect ==
  ASSUME BridgeSound, NEW t \in Task, NEW now \in 0 .. MaxClients, Refresh(t, now)
  PROVE  BindingMoves /\ \E g : Begun(g) /\ task' = [task EXCEPT ![t] = g]
<1>. DEFINE r == [NoJob EXCEPT !.wanted = now, !.build = current, !.steady = cloud]
<1>0. /\ built \in 0 .. MaxBuilds /\ MaxBuilds \in Nat /\ current \in 0 .. built
      /\ current \in 0 .. MaxBuilds /\ cloud \subseteq Did
      /\ open \in [Build -> SUBSET Did]
  BY BridgeAssumption DEF BridgeSound, WorldTypes
<1>1. r \in Job /\ ~r.listing /\ r.steady = cloud
  BY <1>0, NoJobTyped DEF Job
<1>2. CASE Changed(now) /\ current # 0 /\ open[current] # {}
  <2>. DEFINE g == [r EXCEPT !.at = "closing", !.todo = open[current]]
  <2>1. open[current] \subseteq Did
    BY <1>0, <1>2 DEF Build
  <2>2. task' = [task EXCEPT ![t] = g] /\ UNCHANGED binding
    BY <1>2 DEF Refresh, Enter
  <2>. HIDE DEF r
  <2>3. Begun(g)
    BY <1>1, <2>1 DEF Begun, Job
  <2>4. BindingMoves
    BY <1>0, <2>2 DEF BindingMoves, binding
  <2>. HIDE DEF g
  <2>. QED  BY <2>2, <2>3, <2>4
<1>3. CASE Changed(now) /\ ~(current # 0 /\ open[current] # {})
  <2>1. Rebind(t, r)
    BY <1>3 DEF Refresh
  <2>. HIDE DEF r
  <2>. QED  BY <1>1, <2>1, RebindEffect
<1>4. CASE ~Changed(now)
  <2>1. /\ UNCHANGED binding
        /\ IF current = 0 THEN End(t) ELSE Enter(t, Listing(r, current))
    BY <1>4 DEF Refresh
  <2>. HIDE DEF r
  <2>2. BindingMoves
    BY <1>0, <2>1 DEF BindingMoves, binding
  <2>3. CASE current = 0
    BY <2>1, <2>2, <2>3, NoJobTyped DEF End, Enter, Begun
  <2>4. CASE current # 0
    <3>1. Begun(Listing(r, current))
      <4>1. current \in 1 .. built'
        BY <1>0, <2>1, <2>4 DEF binding
      <4>2. /\ Listing(r, current) \in Job /\ Listing(r, current).at = "ready"
            /\ Listing(r, current).build = current
            /\ ~Listing(r, current).listing /\ Listing(r, current).steady = cloud
        BY <1>0, <1>1, ListingEffect
      <4>. QED  BY <4>1, <4>2 DEF Begun
    <3>. QED  BY <2>1, <2>2, <2>4, <3>1 DEF Enter
  <2>. QED  BY <2>3, <2>4
<1>. QED  BY <1>2, <1>3, <1>4

\* A step that begins something, or ends it.
LEMMA BegunStep ==
  ASSUME BridgeSound, BindingMoves, UNCHANGED <<cameras, override, cloud, full, answers>>,
         client' \in 0 .. MaxClients, signins' \in 0 .. MaxClients,
         open' \in [Build -> SUBSET Did], quality' \in Quality, changes' \in Nat,
         NEW t \in Task, NEW r, Begun(r), task' = [task EXCEPT ![t] = r]
  PROVE  BridgeSound'
<1>1. r \in Job
  BY DEF Begun
<1>2. JobSound(t, r)'
  BY BegunIsSound
<1>. QED  BY <1>1, <1>2, PlainStep

--------------------------------------------------------------------------------
(* Requests, and the steps that wait for something else than an answer *)

WorldStays ==
  /\ client' \in 0 .. MaxClients /\ signins' \in 0 .. MaxClients
  /\ open' \in [Build -> SUBSET Did] /\ quality' \in Quality /\ changes' \in Nat

LEMMA RefreshStep ==
  ASSUME BridgeSound, NEW t \in Task, NEW now \in 0 .. MaxClients, Refresh(t, now),
         UNCHANGED <<cameras, override, cloud, full, answers>>, WorldStays
  PROVE  BridgeSound'
BY RefreshEffect, BegunStep DEF WorldStays

LEMMA IdleStep ==
  ASSUME BridgeSound, NEW t \in Task, UNCHANGED <<binding, cameras, override, cloud, full, answers>>,
         WorldStays, NEW where \in {"idle", "reloading", "unlinking", "signing", "noting"},
         task' = [task EXCEPT ![t] = [NoJob EXCEPT !.at = where]]
  PROVE  BridgeSound'
<1>1. BindingMoves
  BY BridgeAssumption DEF BridgeSound, WorldTypes, BindingMoves, binding
<1>. QED  BY <1>1, IdleBegun, BegunStep DEF WorldStays

LEMMA EndStep ==
  ASSUME BridgeSound, NEW t \in Task, UNCHANGED <<binding, cameras, override, cloud, full, answers>>,
         WorldStays, End(t)
  PROVE  BridgeSound'
<1>1. BindingMoves
  BY BridgeAssumption DEF BridgeSound, WorldTypes, BindingMoves, binding
<1>2. Begun(NoJob)
  BY NoJobTyped DEF Begun
<1>. QED  BY <1>1, <1>2, BegunStep DEF WorldStays, End, Enter

LEMMA WorldNow ==
  ASSUME BridgeSound
  PROVE  /\ client \in 0 .. MaxClients /\ signins \in 0 .. MaxClients
         /\ open \in [Build -> SUBSET Did] /\ quality \in Quality /\ changes \in Nat
         /\ current \in 0 .. MaxBuilds /\ built \in 0 .. MaxBuilds
         /\ MaxBuilds \in Nat /\ MaxClients \in Nat /\ 0 \in 0 .. MaxClients
BY BridgeAssumption DEF BridgeSound, WorldTypes

LEMMA StartSound ==
  ASSUME BridgeSound, Start
  PROVE  BridgeSound'
<1>1. Loop \in Task
  BY DEF Task
<1>2. CASE signins < MaxClients /\ signins' = signins + 1 /\ client' = signins' /\ Refresh(Loop, client')
  <2>1. UNCHANGED <<cameras, override, cloud, full, answers>> /\ UNCHANGED <<open, quality, changes>>
    BY DEF Start, settings, outside, bounds
  <2>2. WorldStays /\ client' \in 0 .. MaxClients
    BY <1>2, <2>1, WorldNow DEF WorldStays
  <2>. QED  BY <1>1, <1>2, <2>1, <2>2, RefreshStep
<1>3. CASE End(Loop) /\ UNCHANGED <<account, binding, table>>
  <2>1. UNCHANGED <<binding, cameras, override, cloud, full, answers>> /\ WorldStays
    BY <1>3, WorldNow DEF Start, settings, outside, bounds, account, WorldStays
  <2>. QED  BY <1>1, <1>3, <2>1, EndStep
<1>. QED  BY <1>2, <1>3 DEF Start

LEMMA WakeSound ==
  ASSUME BridgeSound, NEW t \in Task, Wake(t)
  PROVE  BridgeSound'
<1>1. /\ UNCHANGED <<cameras, override, cloud, full, answers>> /\ WorldStays
      /\ client \in 0 .. MaxClients /\ Refresh(t, client)
  BY WorldNow DEF Wake, account, settings, outside, bounds, WorldStays
<1>. QED  BY <1>1, RefreshStep

LEMMA ListSound ==
  ASSUME BridgeSound, NEW h \in Handler, List(h)
  PROVE  BridgeSound'
<1>1. PICK g \in Job :
        /\ task' = [task EXCEPT ![h] = g] /\ g.at = "ready" /\ g.build = current /\ g.steady = {}
  <2>. DEFINE r == Listing(NoJob, current)
  <2>1. r \in Job /\ r.at = "ready" /\ r.build = current /\ r.steady = {}
    BY WorldNow, NoJobTyped, ListingEffect
  <2>2. task' = [task EXCEPT ![h] = [r EXCEPT !.listing = TRUE]]
    BY DEF List, Enter
  <2>. HIDE DEF r
  <2>. DEFINE g == [r EXCEPT !.listing = TRUE]
  <2>3. g \in Job /\ g.at = "ready" /\ g.build = current /\ g.steady = {}
    BY <2>1 DEF Job
  <2>. QED  BY <2>2, <2>3
<1>2. /\ UNCHANGED <<cameras, override, cloud, full, answers>> /\ WorldStays
      /\ UNCHANGED <<built, current>> /\ h \in Task
  BY WorldNow DEF List, account, binding, settings, outside, bounds, WorldStays, Task
<1>3. BindingMoves
  BY <1>2, WorldNow DEF BindingMoves
<1>4. g.build \in 1 .. built'
  BY <1>1, <1>2, WorldNow DEF List, BridgeSound, WorldTypes
<1>5. JobSound(h, g)'
  BY <1>1, <1>4 DEF JobSound
<1>. QED  BY <1>1, <1>2, <1>3, <1>5, PlainStep DEF WorldStays

LEMMA SettingRequestSound ==
  ASSUME BridgeSound, NEW h \in Handler,
         \/ \E q \in Quality : WriteDefaults(h, q)
         \/ LinkComplete(h) \/ Unlink(h) \/ CompatSignin(h)
         \/ Reloaded(h) \/ Unlinked(h) \/ SignedIn(h) \/ Noted(h)
  PROVE  BridgeSound'
<1>0. h \in Task
  BY DEF Task
<1>1. ASSUME NEW q \in Quality, WriteDefaults(h, q)
      PROVE  BridgeSound'
  <2>1. /\ UNCHANGED <<cameras, override, cloud, full, answers>> /\ WorldStays
        /\ client \in 0 .. MaxClients /\ Refresh(h, client)
    BY <1>1, WorldNow DEF WriteDefaults, SetDefaults, Change, account, outside, WorldStays
  <2>. QED  BY <1>0, <2>1, RefreshStep
<1>2. ASSUME LinkComplete(h)
      PROVE  BridgeSound'
  <2>1. /\ UNCHANGED <<cameras, override, cloud, full, answers>> /\ WorldStays
        /\ client' \in 0 .. MaxClients /\ Refresh(h, client')
    BY <1>2, WorldNow DEF LinkComplete, Change, settings, outside, WorldStays
  <2>. QED  BY <1>0, <2>1, RefreshStep
<1>3. ASSUME Unlink(h)
      PROVE  BridgeSound'
  <2>1. /\ UNCHANGED <<binding, cameras, override, cloud, full, answers>> /\ WorldStays
        /\ task' = [task EXCEPT ![h] = [NoJob EXCEPT !.at = "unlinking"]]
    BY <1>3, WorldNow DEF Unlink, Enter, Change, settings, outside, WorldStays
  <2>. QED  BY <1>0, <2>1, IdleStep
<1>4. ASSUME CompatSignin(h)
      PROVE  BridgeSound'
  <2>1. /\ UNCHANGED <<binding, cameras, override, cloud, full, answers>> /\ WorldStays
        /\ task' = [task EXCEPT ![h] = [NoJob EXCEPT !.at = "signing"]]
    BY <1>4, WorldNow DEF CompatSignin, Enter, Change, account, settings, outside, WorldStays
  <2>. QED  BY <1>0, <2>1, IdleStep
<1>5. ASSUME Reloaded(h)
      PROVE  BridgeSound'
  <2>1. /\ UNCHANGED <<cameras, override, cloud, full, answers>> /\ WorldStays
        /\ client \in 0 .. MaxClients /\ Refresh(h, client)
    BY <1>5, WorldNow DEF Reloaded, account, settings, outside, bounds, WorldStays
  <2>. QED  BY <1>0, <2>1, RefreshStep
<1>6. ASSUME Unlinked(h)
      PROVE  BridgeSound'
  <2>1. /\ UNCHANGED <<cameras, override, cloud, full, answers>> /\ WorldStays
        /\ client' \in 0 .. MaxClients /\ Refresh(h, client')
    BY <1>6, WorldNow DEF Unlinked, settings, outside, bounds, WorldStays
  <2>. QED  BY <1>0, <2>1, RefreshStep
<1>7. ASSUME SignedIn(h)
      PROVE  BridgeSound'
  <2>1. UNCHANGED <<binding, cameras, override, cloud, full, answers>> /\ WorldStays
    BY <1>7, WorldNow DEF SignedIn, account, settings, bounds, WorldStays
  <2>2. CASE task' = [task EXCEPT ![h] = [NoJob EXCEPT !.at = "noting"]]
    BY <1>0, <2>1, <2>2, IdleStep
  <2>3. CASE End(h)
    BY <1>0, <2>1, <2>3, EndStep
  <2>. QED  BY <1>7, <2>2, <2>3 DEF SignedIn, Enter
<1>8. ASSUME Noted(h)
      PROVE  BridgeSound'
  <2>1. /\ UNCHANGED <<cameras, override, cloud, full, answers>> /\ WorldStays
        /\ client \in 0 .. MaxClients /\ Refresh(h, client)
    BY <1>8, WorldNow DEF Noted, Answers, Fails, account, settings, outside, bounds, WorldStays
  <2>. QED  BY <1>0, <2>1, RefreshStep
<1>. QED  BY <1>1, <1>2, <1>3, <1>4, <1>5, <1>6, <1>7, <1>8

\* A camera that loses its path by a setting is not one anybody was told of any more.
LEMMA WriteCameraSound ==
  ASSUME BridgeSound, NEW h \in Handler, NEW d \in Did, NEW said \in Override,
         WriteCamera(h, d, said)
  PROVE  BridgeSound'
<1>0. /\ h \in Task /\ WorldTypes /\ RegistriesSound /\ told \in [Handler -> SUBSET Did]
      /\ override \in [Did -> Override]
  BY DEF Task, BridgeSound, WorldTypes
<1>1. /\ override' = [override EXCEPT ![d] = said] /\ changes' = changes + 1
      /\ told' = (IF said \notin VideoPath THEN Without({d}) ELSE told)
      /\ UNCHANGED <<client, signins, quality, cameras, cloud, full, missing>>
  BY DEF WriteCamera, SetOverride, Change, account, outside
<1>2. \A g \in Handler : Shrinks(g)
  BY <1>0, <1>1 DEF Shrinks, Without
<1>3. told' \in [Handler -> SUBSET Did] /\ override' \in [Did -> Override]
  BY <1>0, <1>1 DEF Without
<1>4. open' \in [Build -> SUBSET Did]
  <2>1. \/ open' = [open EXCEPT ![current] = @ \ {d}] \/ open' = open
    BY DEF WriteCamera
  <2>. QED  BY <1>0, <2>1 DEF WorldTypes
<1>5. BindingMoves /\ \E g : Begun(g) /\ task' = [task EXCEPT ![h] = g]
  <2>1. CASE Refresh(h, client)
    BY <1>0, <2>1, WorldNow, RefreshEffect
  <2>2. CASE Enter(h, [NoJob EXCEPT !.at = "reloading"]) /\ UNCHANGED <<binding, table>>
    <3>1. BindingMoves
      BY <2>2, WorldNow DEF BindingMoves, binding
    <3>. QED  BY <2>2, <3>1, IdleBegun DEF Enter
  <2>. QED  BY <2>1, <2>2 DEF WriteCamera
<1>6. PICK g \in Job : task' = [task EXCEPT ![h] = g] /\ JobSound(h, g)'
  BY <1>1, <1>5, BegunIsSound DEF Begun
<1>7. current' \in 0 .. built' /\ built' \in 0 .. MaxBuilds /\ built <= built'
  BY <1>0, <1>5, WorldNow DEF BindingMoves, WorldTypes
<1>8. WorldTypes'
  <2>1. changes' \in Nat
    BY <1>1, WorldNow
  <2>. QED  BY <1>0, <1>1, <1>3, <1>4, <1>7, <2>1, Zenon DEF WorldTypes
<1>9. RegistriesSound' /\ \A b \in Build : b > built => cameras'[b] = {}
  <2>1. cameras' = cameras /\ full' = full
    BY <1>1
  <2>2. built \in Nat /\ built' \in Nat /\ built <= built'
    BY <1>7, WorldNow
  <2>3. \A b \in Build : b \in Nat /\ cameras[b] \subseteq full /\ (b > built => cameras[b] = {})
    BY <1>0 DEF RegistriesSound, Build
  <2>. QED  BY <2>1, <2>2, <2>3 DEF RegistriesSound
<1>. QED  BY <1>0, <1>1, <1>2, <1>5, <1>6, <1>8, <1>9, ShrinkStep

--------------------------------------------------------------------------------
(* The steps of a job *)

\* Only what it still has to stop has changed.
LEMMA StoppedOneSound ==
  ASSUME BridgeSound, NEW t \in Task, NEW d \in Did, CloseOne(t, d) \/ PruneOne(t, d)
  PROVE  BridgeSound'
<1>1. PICK r \in Job : r = task[t] /\ JobSound(t, r)
  BY DEF BridgeSound
<1>2. PICK g \in Job :
        /\ task' = [task EXCEPT ![t] = g]
        /\ g.at = r.at /\ g.listing = r.listing /\ g.build = r.build /\ g.steady = r.steady
        /\ g.asked = r.asked /\ g.all = r.all
  <2>. DEFINE g == [r EXCEPT !.todo = r.todo \ {d}]
  <2>1. task' = [task EXCEPT ![t] = g]
    BY <1>1 DEF CloseOne, PruneOne, Enter
  <2>2. /\ g \in Job /\ g.at = r.at /\ g.listing = r.listing /\ g.build = r.build
        /\ g.steady = r.steady /\ g.asked = r.asked /\ g.all = r.all
    BY DEF Job
  <2>. HIDE DEF g
  <2>. QED  BY <2>1, <2>2
<1>3. /\ UNCHANGED <<cameras, override, cloud, full, answers, built, current, told>>
      /\ UNCHANGED <<client, signins, quality, changes>>
      /\ open' = [open EXCEPT ![task[t].build] = @ \ {d}]
  BY DEF CloseOne, PruneOne, account, binding, settings, outside, answers, bounds
<1>4. open' \in [Build -> SUBSET Did]
  BY <1>3, WorldNow
<1>5. JobSound(t, g)'
  BY <1>1, <1>2, <1>3 DEF JobSound, Chosen
<1>6. BindingMoves
  BY <1>3, WorldNow DEF BindingMoves
<1>. QED  BY <1>2, <1>3, <1>4, <1>5, <1>6, WorldNow, PlainStep

LEMMA ReadyReadSound ==
  ASSUME BridgeSound, NEW t \in Task, ReadyRead(t)
  PROVE  BridgeSound'
<1>1. PICK r \in Job : r = task[t] /\ JobSound(t, r) /\ r.at = "ready"
  BY DEF BridgeSound, ReadyRead, At
<1>2. cloud \subseteq Did
  BY DEF BridgeSound, WorldTypes
<1>3. PICK g \in Job :
        /\ task' = [task EXCEPT ![t] = g]
        /\ g.at = "devices" /\ g.listing = r.listing /\ g.build = r.build
        /\ g.steady = r.steady /\ g.asked = cloud
  <2>. DEFINE g == [r EXCEPT !.at = "devices", !.asked = cloud]
  <2>1. task' = [task EXCEPT ![t] = g]
    BY <1>1 DEF ReadyRead, Enter
  <2>2. /\ g \in Job /\ g.at = "devices" /\ g.listing = r.listing /\ g.build = r.build
        /\ g.steady = r.steady /\ g.asked = cloud
    BY <1>2 DEF Job
  <2>. HIDE DEF g
  <2>. QED  BY <2>1, <2>2
<1>4. /\ UNCHANGED <<cameras, override, cloud, full, answers, built, current>>
      /\ UNCHANGED <<client, signins, open, quality>> /\ changes' = changes
  BY DEF ReadyRead, Answers, Fails, account, binding, settings, outside, bounds
<1>5. JobSound(t, g)'
  BY <1>1, <1>3, <1>4 DEF JobSound
<1>6. BindingMoves
  BY <1>4, WorldNow DEF BindingMoves
<1>. QED  BY <1>3, <1>4, <1>5, <1>6, WorldNow, PlainStep

\* What ends a job, or begins the next part of one.
LEMMA PartEndsSound ==
  ASSUME BridgeSound, NEW t \in Task, Closed(t) \/ Cleared(t) \/ CallFails(t) \/ UrlsRead(t)
  PROVE  BridgeSound'
<1>1. PICK r \in Job : r = task[t] /\ JobSound(t, r)
  BY DEF BridgeSound
<1>2. ASSUME Closed(t)
      PROVE  BridgeSound'
  <2>1. ~r.listing /\ r.steady \subseteq cloud /\ Rebind(t, r)
    BY <1>1, <1>2 DEF Closed, At, JobSound
  <2>2. UNCHANGED <<cameras, override, cloud, full, answers>> /\ WorldStays
    BY <1>2, WorldNow DEF Closed, account, settings, outside, bounds, WorldStays
  <2>3. BindingMoves /\ \E g : Begun(g) /\ task' = [task EXCEPT ![t] = g]
    BY <2>1, RebindEffect
  <2>. QED  BY <2>2, <2>3, BegunStep DEF WorldStays
<1>3. ASSUME Cleared(t)
      PROVE  BridgeSound'
  <2>1. ~r.listing /\ r.steady \subseteq cloud
    BY <1>1, <1>3 DEF Cleared, At, JobSound
  <2>2. UNCHANGED <<binding, cameras, override, cloud, full, answers>> /\ WorldStays
    BY <1>3, WorldNow DEF Cleared, account, settings, outside, bounds, WorldStays
  <2>3. CASE current = 0
    BY <1>3, <2>2, <2>3, EndStep DEF Cleared
  <2>4. CASE current # 0
    <3>1. /\ current \in 0 .. MaxBuilds /\ current \in 1 .. built /\ UNCHANGED <<built, current>>
          /\ task' = [task EXCEPT ![t] = Listing(r, current)]
      BY <1>1, <1>3, <2>2, <2>4, WorldNow DEF Cleared, Enter, binding, BridgeSound, WorldTypes
    <3>2. PICK g : g = Listing(r, current)
      OBVIOUS
    <3>3. Begun(g)
      BY <2>1, <3>1, <3>2, ListingEffect DEF Begun
    <3>4. BindingMoves
      BY <3>1, WorldNow DEF BindingMoves
    <3>. QED  BY <2>2, <3>1, <3>2, <3>3, <3>4, BegunStep DEF WorldStays
  <2>. QED  BY <2>3, <2>4
<1>4. ASSUME CallFails(t) \/ UrlsRead(t)
      PROVE  BridgeSound'
  <2>1. /\ UNCHANGED <<binding, cameras, override, cloud, full, answers>> /\ WorldStays
        /\ End(t)
    BY <1>4, WorldNow DEF CallFails, UrlsRead, Publish, Answers, Fails, account, settings,
       outside, bounds, WorldStays
  <2>. QED  BY <2>1, EndStep
<1>. QED  BY <1>2, <1>3, <1>4

\* The answer has every camera that stayed, and nobody was told of one it lacks.
LEMMA DevicesReadSound ==
  ASSUME BridgeSound, NEW t \in Task, DevicesRead(t)
  PROVE  BridgeSound'
<1>1. PICK r \in Job : r = task[t] /\ JobSound(t, r) /\ r.at = "devices"
  BY DEF BridgeSound, DevicesRead, At
<1>2. PICK answer \in {r.asked, cloud} :
        /\ told' = Without(Did \ answer)
        /\ task' = [task EXCEPT ![t] = [r EXCEPT !.at = "cameras", !.all = answer, !.asked = cloud]]
  BY <1>1 DEF DevicesRead, Answer, Enter
<1>3. /\ cloud \subseteq Did /\ answer \subseteq Did /\ told \in [Handler -> SUBSET Did]
      /\ r.steady \subseteq answer
  BY <1>1, <1>2 DEF BridgeSound, WorldTypes, Job, JobSound
<1>4. PICK g \in Job :
        /\ task' = [task EXCEPT ![t] = g]
        /\ g.at = "cameras" /\ g.listing = r.listing /\ g.build = r.build
        /\ g.steady = r.steady /\ g.all = answer
  <2>. DEFINE g == [r EXCEPT !.at = "cameras", !.all = answer, !.asked = cloud]
  <2>1. /\ g \in Job /\ g.at = "cameras" /\ g.listing = r.listing /\ g.build = r.build
        /\ g.steady = r.steady /\ g.all = answer
    BY <1>3 DEF Job
  <2>. HIDE DEF g
  <2>2. task' = [task EXCEPT ![t] = g]
    BY <1>2 DEF g
  <2>. QED  BY <2>1, <2>2
<1>5. /\ UNCHANGED <<cameras, override, cloud, full, missing, built, current>>
      /\ UNCHANGED <<client, signins, open, quality, changes>>
  BY DEF DevicesRead, account, binding, settings, outside, bounds
<1>6. /\ told' \in [Handler -> SUBSET Did]
      /\ \A h \in Handler : told'[h] \subseteq answer /\ Shrinks(h)
  BY <1>2, <1>3, <1>5 DEF Without, Shrinks
<1>7. JobSound(t, g)'
  BY <1>1, <1>3, <1>4, <1>5, <1>6 DEF JobSound
<1>8. WorldTypes'
  BY <1>5, <1>6 DEF BridgeSound, WorldTypes
<1>9. /\ BindingMoves /\ RegistriesSound'
      /\ \A b \in Build : b > built => cameras'[b] = {}
  BY <1>5, WorldNow DEF BindingMoves, BridgeSound, RegistriesSound
<1>. QED  BY <1>4, <1>5, <1>6, <1>7, <1>8, <1>9, ShrinkStep

--------------------------------------------------------------------------------
(* The answers *)

\* An override goes only with a camera no answer had, and is nobody's path then.
LEMMA SettleEffect ==
  ASSUME WorldTypes, NEW t \in Task, NEW r \in Job, NEW still \in [Handler -> SUBSET Did],
         Settle(t, r, still)
  PROVE  /\ \E g \in Job : /\ task' = [task EXCEPT ![t] = g]
                           /\ ~g.listing /\ g.at \in {"idle", "urls"} /\ g.steady = {}
         /\ override' \in [Did -> Override] /\ UNCHANGED <<quality, missing>>
         /\ \A d \in Did : override'[d] = override[d] \/ d \notin r.all
         /\ told' \in [Handler -> SUBSET Did]
         /\ \A h \in Handler : told'[h] \subseteq still[h]
         /\ \A h \in Handler : \A d \in told'[h] : override'[d] = override[d]
<1>. DEFINE kept == Kept(Known(r))
            resolved == Resolved(r, kept)
<1>1. kept \in [Did -> Override] /\ \A d \in Did : kept[d] = override[d] \/ d \notin r.all
  BY DEF Kept, Known, WorldTypes, Override
<1>2. resolved \in [Did -> VideoPath \cup {None}]
  BY DEF Resolved, PathFor, VideoPath
<1>3. /\ override' = kept /\ UNCHANGED <<quality, missing>>
      /\ told' = [h \in Handler |-> still[h] \ {d \in Did : kept[d] # override[d]}]
      /\ \/ task' = [task EXCEPT ![t] = [NoJob EXCEPT !.at = "urls", !.resolved = resolved,
                                                      !.grade = quality]]
         \/ task' = [task EXCEPT ![t] = NoJob]
  BY DEF Settle, Publish, Enter, End
<1>. HIDE DEF kept, resolved
<1>4. \E g \in Job : /\ task' = [task EXCEPT ![t] = g]
                     /\ ~g.listing /\ g.at \in {"idle", "urls"} /\ g.steady = {}
  <2>. DEFINE g == [NoJob EXCEPT !.at = "urls", !.resolved = resolved, !.grade = quality]
  <2>1. quality \in Quality
    BY DEF WorldTypes
  <2>2. g \in Job /\ ~g.listing /\ g.at = "urls" /\ g.steady = {}
    BY <1>2, <2>1, NoJobTyped DEF Job
  <2>3. CASE task' = [task EXCEPT ![t] = g]
    <3>. HIDE DEF g
    <3>. QED  BY <2>2, <2>3
  <2>4. CASE task' = [task EXCEPT ![t] = NoJob]
    BY <2>4, NoJobTyped
  <2>. QED  BY <1>3, <2>3, <2>4
<1>5. /\ told' \in [Handler -> SUBSET Did]
      /\ \A h \in Handler : told'[h] \subseteq still[h]
      /\ \A h \in Handler : \A d \in told'[h] : override'[d] = override[d]
  BY <1>3
<1>. QED  BY <1>1, <1>3, <1>4, <1>5

\* What is left of what was told once a job has read its answers: of the supported
\* cameras, those the registry then holds.
Heard(still, b, supported) ==
  /\ still \in [Handler -> SUBSET Did]
  /\ cameras' = [cameras EXCEPT ![b] = supported]
  /\ \A h \in Handler :
       /\ still[h] \subseteq told[h]
       /\ \A d \in still[h] : d \in full => supported = cameras[b] \/ d \in supported

\* What goes with the cameras of a job goes only for those that did not stay.
SteadyKept(t) ==
  /\ \A d \in Did : override'[d] = override[d] \/ d \notin task[t].steady
  /\ \E g : task' = [task EXCEPT ![t] = g]

LEMMA HeardKeepsWorld ==
  ASSUME BridgeSound, NEW b \in 1 .. built, NEW supported, supported \subseteq full, NEW still,
         Heard(still, b, supported),
         UNCHANGED <<client, signins, built, current, open, cloud, full, changes>>,
         override' \in [Did -> Override], quality' \in Quality, told' \in [Handler -> SUBSET Did],
         NEW h \in Handler, told'[h] \subseteq still[h],
         \A d \in told'[h] : override'[d] = override[d]
  PROVE  Shrinks(h)
<1>1. cameras \in [Build -> SUBSET Did] /\ b \in Build
  BY WorldNow DEF BridgeSound, WorldTypes, Build
<1>. QED  BY <1>1 DEF Heard, Shrinks

LEMMA HeardIsTyped ==
  ASSUME BridgeSound, NEW b \in 1 .. built, NEW supported, supported \subseteq full, NEW still,
         Heard(still, b, supported),
         UNCHANGED <<client, signins, built, current, open, cloud, full, changes>>,
         override' \in [Did -> Override], quality' \in Quality, told' \in [Handler -> SUBSET Did]
  PROVE  /\ WorldTypes' /\ RegistriesSound' /\ BindingMoves
         /\ \A c \in Build : c > built => cameras'[c] = {}
         /\ b \in Build /\ cameras'[b] = supported
<1>1. cameras \in [Build -> SUBSET Did] /\ b \in Build /\ full \subseteq Did /\ built \in Nat
  BY WorldNow DEF BridgeSound, WorldTypes, Build
<1>2. cameras' \in [Build -> SUBSET Did]
  BY <1>1 DEF Heard
<1>3. WorldTypes'
  BY <1>2 DEF BridgeSound, WorldTypes
<1>4. RegistriesSound' /\ \A c \in Build : c > built => cameras'[c] = {}
  BY <1>1 DEF BridgeSound, RegistriesSound, Heard, Build
<1>5. BindingMoves
  BY WorldNow DEF BindingMoves
<1>. QED  BY <1>1, <1>3, <1>4, <1>5 DEF Heard

\* The list has every camera that who asked was told of, and nobody loses another.
LEMMA DeliverSound ==
  ASSUME BridgeSound, NEW t \in Task, NEW r \in Job, r = task[t], r.at \in {"cameras", "power"},
         NEW supported, supported \subseteq full, NEW still, Heard(still, r.build, supported),
         r.listing /\ r.build = current => \A d \in still[t] : Chosen(d) \/ d \in supported,
         UNCHANGED <<client, signins, built, current, open, cloud, full, changes>>,
         Deliver(t, Described(r, supported), still)
  PROVE  BridgeSound' /\ SteadyKept(t)
<1>. DEFINE s == Described(r, supported)
<1>0. /\ JobSound(t, r) /\ WorldTypes /\ r.build \in 1 .. built /\ full \subseteq Did
      /\ r.all \subseteq Did /\ r.steady \subseteq r.all
  BY DEF BridgeSound, JobSound, WorldTypes, Job
<1>1. /\ s \in Job /\ s.listing = r.listing /\ s.build = r.build /\ s.all = r.all
      /\ s.steady = r.steady /\ s.supported = supported
      /\ s.offered = {d \in supported \cup r.all : RegistryPath(supported, d) # None}
  BY <1>0 DEF Described, Job
<1>2. Deliver(t, s, still)
  OBVIOUS
<1>. HIDE DEF s
<1>3. /\ s.offered \subseteq Did
      /\ \A d \in s.offered : Chosen(d) \/ d \in supported
      /\ \A d \in supported \cup r.all : Chosen(d) \/ d \in supported => d \in s.offered
  BY <1>0, <1>1 DEF RegistryPath, PathFor, Chosen, VideoPath, None
<1>4. CASE r.listing
  <2>1. /\ task' = [task EXCEPT ![t] = NoJob] /\ UNCHANGED <<override, quality>>
        /\ IF r.build = current
           THEN missing' = still[t] \ s.offered /\ told' = [still EXCEPT ![t] = s.offered]
           ELSE told' = still /\ UNCHANGED missing
    BY <1>1, <1>2, <1>4 DEF Deliver, End, Enter, settings
  <2>2. t \in Handler /\ told[t] \subseteq r.all
    BY <1>0, <1>4 DEF JobSound
  <2>3. told' \in [Handler -> SUBSET Did] /\ \A h \in Handler \ {t} : told'[h] = still[h]
    BY <1>3, <2>1, <2>2 DEF Heard
  <2>4. /\ WorldTypes' /\ RegistriesSound' /\ BindingMoves
        /\ \A c \in Build : c > built => cameras'[c] = {}
        /\ cameras'[r.build] = supported
    BY <1>0, <2>1, <2>3, HeardIsTyped, WorldNow DEF WorldTypes
  <2>5. \A h \in Handler \ {t} : Shrinks(h)
    BY <1>0, <2>1, <2>3, HeardKeepsWorld DEF WorldTypes
  <2>6. ListedTo(t)' /\ NothingVanishes'
    <3>1. CASE r.build = current
      <4>1. told'[t] = s.offered /\ missing' = still[t] \ s.offered
        BY <1>3, <2>1, <2>2, <3>1 DEF Heard
      <4>2. still[t] \subseteq s.offered
        BY <1>3, <1>4, <2>2, <3>1 DEF Heard
      <4>3. ListedTo(t)'
        BY <1>3, <2>1, <2>4, <3>1, <4>1 DEF ListedTo, Chosen
      <4>. QED  BY <4>1, <4>2, <4>3 DEF NothingVanishes
    <3>2. CASE r.build # current
      <4>1. told' = still /\ UNCHANGED missing
        BY <2>1, <3>2
      <4>2. Shrinks(t)
        BY <1>0, <2>1, <2>2, <2>3, <4>1, HeardKeepsWorld DEF WorldTypes
      <4>. QED  BY <2>2, <2>4, <4>1, <4>2, ListedKept DEF BridgeSound, NothingVanishes
    <3>. QED  BY <3>1, <3>2
  <2>7. JobSound(t, NoJob)'
    BY NoJobTyped DEF JobSound
  <2>8. BridgeSound'
    BY <2>1, <2>4, <2>5, <2>6, <2>7, NoJobTyped, OneJob
  <2>. QED  BY <2>1, <2>8 DEF SteadyKept
<1>5. CASE ~r.listing
  <2>1. PICK g \in Job :
          /\ task' = [task EXCEPT ![t] = g] /\ ~g.listing
          /\ \/ g.at \in {"idle", "urls"} /\ g.steady = {}
             \/ g.at = "pruning" /\ g.steady = r.steady /\ g.all = r.all
          /\ override' \in [Did -> Override] /\ UNCHANGED <<quality, missing>>
          /\ \A d \in Did : override'[d] = override[d] \/ d \notin r.all
          /\ told' \in [Handler -> SUBSET Did]
          /\ \A h \in Handler : told'[h] \subseteq still[h]
          /\ \A h \in Handler : \A d \in told'[h] : override'[d] = override[d]
    <3>. DEFINE gone == IF current = 0 THEN {} ELSE open[current] \ s.offered
    <3>1. CASE gone = {}
      <4>1. Settle(t, s, still)
        BY <1>1, <1>2, <1>5, <3>1 DEF Deliver
      <4>. QED  BY <1>0, <1>1, <4>1, SettleEffect DEF Heard
    <3>2. CASE gone # {}
      <4>. DEFINE g == [s EXCEPT !.at = "pruning", !.build = current, !.todo = gone]
      <4>1. /\ task' = [task EXCEPT ![t] = g] /\ told' = still
            /\ UNCHANGED <<override, quality, missing>>
        BY <1>1, <1>2, <1>5, <3>2 DEF Deliver, Enter, settings
      <4>2. gone \subseteq Did /\ current \in 0 .. MaxBuilds
        BY <1>0, WorldNow DEF WorldTypes, Build
      <4>. HIDE DEF gone
      <4>3. g \in Job /\ ~g.listing /\ g.at = "pruning" /\ g.steady = r.steady /\ g.all = r.all
        BY <1>1, <1>5, <4>2 DEF Job
      <4>. HIDE DEF g
      <4>. QED  BY <1>0, <4>1, <4>3 DEF Heard, WorldTypes
    <3>. QED  BY <3>1, <3>2
  <2>2. /\ WorldTypes' /\ RegistriesSound' /\ BindingMoves
        /\ \A c \in Build : c > built => cameras'[c] = {}
    BY <1>0, <2>1, HeardIsTyped, WorldNow
  <2>3. \A h \in Handler : Shrinks(h)
    BY <1>0, <2>1, HeardKeepsWorld, WorldNow
  <2>4. JobSound(t, g)'
    BY <1>0, <2>1 DEF JobSound
  <2>5. BridgeSound'
    BY <2>1, <2>2, <2>3, <2>4, ShrinkStep
  <2>. QED  BY <1>0, <2>1, <2>5 DEF SteadyKept
<1>. QED  BY <1>4, <1>5

\* The switches are read before the list is delivered, or there is nothing to read.
LEMMA DescribeSound ==
  ASSUME BridgeSound, NEW t \in Task, NEW r \in Job, r = task[t], r.at \in {"cameras", "power"},
         NEW supported, supported \subseteq full, NEW still, Heard(still, r.build, supported),
         r.listing /\ r.build = current => \A d \in still[t] : Chosen(d) \/ d \in supported,
         UNCHANGED <<client, signins, built, current, open, cloud, full, changes>>,
         Describe(t, supported, still)
  PROVE  BridgeSound' /\ SteadyKept(t)
<1>1. CASE Deliver(t, Described(r, supported), still)
  BY <1>1, DeliverSound
<1>2. CASE /\ Enter(t, [r EXCEPT !.at = "power", !.asked = {}])
           /\ told' = still /\ UNCHANGED <<settings, table, missing>>
  <2>1. JobSound(t, r) /\ WorldTypes /\ r.build \in 1 .. built /\ r.steady \subseteq r.all
    BY DEF BridgeSound, JobSound
  <2>2. PICK g \in Job :
          /\ task' = [task EXCEPT ![t] = g]
          /\ g.at = "power" /\ g.listing = r.listing /\ g.build = r.build
          /\ g.steady = r.steady /\ g.all = r.all
    <3>. DEFINE g == [r EXCEPT !.at = "power", !.asked = {}]
    <3>1. task' = [task EXCEPT ![t] = g]
      BY <1>2 DEF Enter
    <3>2. /\ g \in Job /\ g.at = "power" /\ g.listing = r.listing /\ g.build = r.build
          /\ g.steady = r.steady /\ g.all = r.all
      BY DEF Job
    <3>. HIDE DEF g
    <3>. QED  BY <3>1, <3>2
  <2>3. UNCHANGED <<override, quality, missing>> /\ told' \in [Handler -> SUBSET Did]
    BY <1>2 DEF settings, Heard
  <2>4. /\ WorldTypes' /\ RegistriesSound' /\ BindingMoves
        /\ \A c \in Build : c > built => cameras'[c] = {}
        /\ cameras'[r.build] = supported
    BY <2>1, <2>3, HeardIsTyped, WorldNow DEF WorldTypes
  <2>5. \A h \in Handler : Shrinks(h)
    BY <1>2, <2>1, <2>3, HeardKeepsWorld, WorldNow DEF WorldTypes
  <2>6. r.listing => t \in Handler /\ told'[t] \subseteq r.all
    BY <2>1, <2>5 DEF JobSound, Shrinks
  <2>7. r.listing /\ r.build = current' =>
          \A d \in told'[t] : override'[d] \in VideoPath \/ d \in cameras'[r.build]
    BY <1>2, <2>3, <2>4 DEF Chosen
  <2>8. JobSound(t, g)'
    BY <2>1, <2>2, <2>6, <2>7 DEF JobSound, Chosen
  <2>9. BridgeSound'
    BY <2>2, <2>3, <2>4, <2>5, <2>8, ShrinkStep
  <2>. QED  BY <2>2, <2>3, <2>9 DEF SteadyKept
<1>. QED  BY <1>1, <1>2 DEF Describe

LEMMA CamerasReadSound ==
  ASSUME BridgeSound, NEW t \in Task, CamerasRead(t)
  PROVE  BridgeSound' /\ SteadyKept(t)
<1>1. PICK r \in Job : r = task[t] /\ JobSound(t, r) /\ r.at = "cameras"
  BY DEF BridgeSound, CamerasRead, At
<1>. DEFINE b == r.build
<1>2. /\ b \in 1 .. built /\ b \in Build /\ cameras \in [Build -> SUBSET Did]
      /\ cameras[b] \subseteq full /\ told \in [Handler -> SUBSET Did]
  BY <1>1, WorldNow DEF JobSound, BridgeSound, WorldTypes, RegistriesSound, Build
<1>3. /\ UNCHANGED <<client, signins, built, current, open, cloud, full, changes>>
      /\ UNCHANGED <<binding, account, bounds>>
  BY DEF CamerasRead, account, binding, outside, bounds
<1>4. \A h \in Handler : ListedTo(h)
  BY DEF BridgeSound
<1>5. CASE malformed /\ cameras[b] = {}
  <2>1. /\ End(t) /\ UNCHANGED <<cameras, settings, answers>>
    BY <1>1, <1>5 DEF CamerasRead
  <2>2. UNCHANGED <<override, quality>> /\ WorldStays
    BY <1>3, <2>1, WorldNow DEF settings, WorldStays
  <2>3. BridgeSound'
    BY <1>3, <2>1, <2>2, EndStep
  <2>. QED  BY <2>1, <2>2, <2>3 DEF SteadyKept, End, Enter
<1>6. CASE malformed /\ cameras[b] # {}
  <2>1. UNCHANGED cameras /\ Describe(t, cameras[b], told)
    BY <1>1, <1>6 DEF CamerasRead
  <2>2. Heard(told, b, cameras[b])
    BY <1>2, <2>1 DEF Heard
  <2>3. r.listing /\ b = current => \A d \in told[t] : Chosen(d) \/ d \in cameras[b]
    BY <1>1, <1>2, <1>4, <1>6 DEF ListedTo, JobSound
  <2>. QED  BY <1>1, <1>2, <1>3, <2>1, <2>2, <2>3, DescribeSound
<1>7. CASE ~malformed
  <2>1. PICK answer \in Answer(t) :
          /\ cameras' = [cameras EXCEPT ![b] = answer \cap full]
          /\ Describe(t, cameras'[b], Without(full \ answer))
    BY <1>1, <1>7 DEF CamerasRead
  <2>2. PICK supported : supported = answer \cap full
    OBVIOUS
  <2>3. PICK still : still = Without(full \ answer)
    OBVIOUS
  <2>4. cameras' = [cameras EXCEPT ![b] = supported] /\ Describe(t, supported, still)
    BY <1>2, <2>1, <2>2, <2>3
  <2>5. Heard(still, b, supported)
    BY <1>2, <2>2, <2>3, <2>4 DEF Heard, Without
  <2>6. r.listing /\ b = current => \A d \in still[t] : Chosen(d) \/ d \in supported
    BY <1>1, <1>4, <2>2, <2>3 DEF ListedTo, JobSound, Without
  <2>. QED  BY <1>1, <1>2, <1>3, <2>2, <2>4, <2>5, <2>6, DescribeSound
<1>. QED  BY <1>5, <1>6, <1>7

LEMMA PowerReadSound ==
  ASSUME BridgeSound, NEW t \in Task, PowerRead(t)
  PROVE  BridgeSound' /\ SteadyKept(t)
<1>1. PICK r \in Job : r = task[t] /\ JobSound(t, r) /\ r.at = "power"
  BY DEF BridgeSound, PowerRead, At
<1>2. /\ r.build \in 1 .. built /\ r.build \in Build /\ cameras \in [Build -> SUBSET Did]
      /\ cameras[r.build] \subseteq full /\ told \in [Handler -> SUBSET Did]
  BY <1>1, WorldNow DEF JobSound, BridgeSound, WorldTypes, RegistriesSound, Build
<1>3. /\ UNCHANGED <<client, signins, built, current, open, cloud, full, changes, cameras>>
      /\ Deliver(t, Described(r, cameras[r.build]), told)
  BY <1>1 DEF PowerRead, account, binding, outside, bounds
<1>4. Heard(told, r.build, cameras[r.build])
  BY <1>2, <1>3 DEF Heard
<1>5. r.listing /\ r.build = current =>
        \A d \in told[t] : Chosen(d) \/ d \in cameras[r.build]
  BY <1>1 DEF JobSound
<1>. QED  BY <1>1, <1>2, <1>3, <1>4, <1>5, DeliverSound

LEMMA PrunedSound ==
  ASSUME BridgeSound, NEW t \in Task, Pruned(t)
  PROVE  BridgeSound' /\ SteadyKept(t)
<1>1. PICK r \in Job : r = task[t] /\ JobSound(t, r) /\ r.at = "pruning"
  BY DEF BridgeSound, Pruned, At
<1>2. /\ r.steady \subseteq r.all /\ told \in [Handler -> SUBSET Did] /\ WorldTypes
      /\ Settle(t, r, told)
      /\ UNCHANGED <<client, signins, built, current, open, cloud, full, changes, cameras>>
  BY <1>1 DEF Pruned, JobSound, BridgeSound, WorldTypes, account, binding, outside, bounds
<1>3. PICK g \in Job :
        /\ task' = [task EXCEPT ![t] = g] /\ ~g.listing /\ g.at \in {"idle", "urls"}
        /\ g.steady = {}
        /\ override' \in [Did -> Override] /\ UNCHANGED <<quality, missing>>
        /\ \A d \in Did : override'[d] = override[d] \/ d \notin r.all
        /\ told' \in [Handler -> SUBSET Did]
        /\ \A h \in Handler : told'[h] \subseteq told[h]
        /\ \A h \in Handler : \A d \in told'[h] : override'[d] = override[d]
  BY <1>2, SettleEffect
<1>4. \A h \in Handler : Shrinks(h)
  BY <1>2, <1>3 DEF Shrinks
<1>5. WorldTypes'
  BY <1>2, <1>3 DEF WorldTypes
<1>6. /\ RegistriesSound' /\ BindingMoves
      /\ \A c \in Build : c > built => cameras'[c] = {}
  BY <1>2, WorldNow DEF RegistriesSound, BindingMoves, BridgeSound
<1>7. JobSound(t, g)'
  BY <1>3 DEF JobSound
<1>8. BridgeSound'
  BY <1>2, <1>3, <1>4, <1>5, <1>6, <1>7, ShrinkStep
<1>. QED  BY <1>1, <1>2, <1>3, <1>8 DEF SteadyKept

--------------------------------------------------------------------------------
(* The rest of the steps *)

LEMMA StreamSound ==
  ASSUME BridgeSound, NEW d \in Did, Stream(d)
  PROVE  BridgeSound'
<1>1. /\ UNCHANGED <<cameras, override, quality, cloud, full, told, missing, built, current>>
      /\ UNCHANGED <<client, signins, changes, task>>
      /\ open' = [open EXCEPT ![current] = @ \cup {d}]
  BY DEF Stream, account, binding, settings, outside, answers, bounds
<1>2. open' \in [Build -> SUBSET Did]
  BY <1>1, WorldNow
<1>3. WorldTypes' /\ task' \in [Task -> Job] /\ RegistriesSound' /\ NothingVanishes'
  BY <1>1, <1>2 DEF BridgeSound, WorldTypes, RegistriesSound, NothingVanishes
<1>4. \A h \in Handler : ListedTo(h)'
  BY <1>1 DEF BridgeSound, ListedTo, Chosen
<1>5. \A t \in Task : JobSound(t, task[t])'
  BY <1>1 DEF BridgeSound, JobSound, Chosen
<1>. QED  BY <1>3, <1>4, <1>5 DEF BridgeSound

\* A camera that leaves the account is none that stayed, nor one anybody was told of.
LEMMA AccountChangesSound ==
  ASSUME BridgeSound, AccountChanges
  PROVE  BridgeSound'
<1>1. /\ UNCHANGED <<cameras, override, quality, full, missing, built, current>>
      /\ UNCHANGED <<client, signins, open>> /\ changes' = changes + 1
  BY DEF AccountChanges, Change, account, binding, settings
<1>2. CASE UNCHANGED <<cloud, told, task>>
  <2>1. WorldTypes' /\ task' \in [Task -> Job] /\ RegistriesSound' /\ NothingVanishes'
    BY <1>1, <1>2 DEF BridgeSound, WorldTypes, RegistriesSound, NothingVanishes
  <2>2. \A h \in Handler : ListedTo(h)'
    BY <1>1, <1>2 DEF BridgeSound, ListedTo, Chosen
  <2>3. \A t \in Task : JobSound(t, task[t])'
    BY <1>1, <1>2 DEF BridgeSound, JobSound, Chosen
  <2>. QED  BY <2>1, <2>2, <2>3 DEF BridgeSound
<1>3. ASSUME NEW d \in Did, cloud' = (IF d \in cloud THEN cloud \ {d} ELSE cloud \cup {d}),
             told' = Without(Did \ cloud'),
             task' = [t \in Task |-> [task[t] EXCEPT !.steady = @ \cap cloud']]
      PROVE  BridgeSound'
  <2>1. cloud' \subseteq Did /\ told \in [Handler -> SUBSET Did]
    BY <1>3 DEF BridgeSound, WorldTypes
  <2>2. /\ told' \in [Handler -> SUBSET Did]
        /\ \A h \in Handler : told'[h] \subseteq told[h]
    BY <1>3, <2>1 DEF Without
  <2>3. ASSUME NEW t \in Task
        PROVE  task'[t] \in Job /\ JobSound(t, task[t])'
    <3>1. PICK r \in Job : r = task[t] /\ JobSound(t, r)
      BY DEF BridgeSound
    <3>2. PICK g \in Job :
            /\ g = task'[t] /\ g.at = r.at /\ g.listing = r.listing /\ g.build = r.build
            /\ g.asked = r.asked /\ g.all = r.all /\ g.steady = r.steady \cap cloud'
      <4>. DEFINE g == [r EXCEPT !.steady = r.steady \cap cloud']
      <4>1. g = task'[t]
        BY <1>3, <3>1
      <4>2. /\ g \in Job /\ g.at = r.at /\ g.listing = r.listing /\ g.build = r.build
            /\ g.asked = r.asked /\ g.all = r.all /\ g.steady = r.steady \cap cloud'
        BY DEF Job
      <4>. HIDE DEF g
      <4>. QED  BY <4>1, <4>2
    <3>3. JobSound(t, g)'
      BY <1>1, <2>2, <3>1, <3>2 DEF JobSound, Chosen
    <3>. QED  BY <3>2, <3>3
  <2>4. task' \in [Task -> Job]
    BY <1>3, <2>3
  <2>5. changes' \in Nat
    BY <1>1, WorldNow
  <2>6. WorldTypes' /\ RegistriesSound' /\ NothingVanishes'
    BY <1>1, <2>1, <2>2, <2>5 DEF BridgeSound, WorldTypes, RegistriesSound, NothingVanishes
  <2>7. \A h \in Handler : ListedTo(h)'
    BY <1>1, <2>2 DEF BridgeSound, ListedTo, Chosen
  <2>. QED  BY <2>3, <2>4, <2>6, <2>7 DEF BridgeSound
<1>. QED  BY <1>2, <1>3 DEF AccountChanges

LEMMA BridgeInit ==
  Init => BridgeSound
<1>. SUFFICES ASSUME Init
              PROVE  BridgeSound
  OBVIOUS
<1>1. /\ 0 \in 0 .. MaxBuilds /\ 0 \in 0 .. MaxClients /\ 0 \in 0 .. 0
      /\ full \subseteq Did /\ cloud \subseteq Did
  BY BridgeAssumption DEF Init
<1>2. override \in [Did -> Override]
  BY DEF Init, Override, VideoPath
<1>3. WorldTypes
  BY <1>1, <1>2 DEF Init, WorldTypes, Quality
<1>4. ASSUME NEW t \in Task
      PROVE  task[t] \in Job /\ JobSound(t, task[t])
  <2>. DEFINE g == [NoJob EXCEPT !.at = "starting"]
  <2>1. g \in Job /\ g.at = "starting" /\ ~g.listing /\ g.steady = {}
    BY NoJobTyped DEF Job
  <2>2. task[t] = g \/ task[t] = NoJob
    BY DEF Init
  <2>. HIDE DEF g
  <2>. QED  BY <2>1, <2>2, NoJobTyped DEF JobSound
<1>5. task \in [Task -> Job]
  BY <1>4 DEF Init
<1>6. RegistriesSound /\ NothingVanishes /\ \A h \in Handler : ListedTo(h)
  BY DEF Init, RegistriesSound, NothingVanishes, ListedTo
<1>. QED  BY <1>3, <1>4, <1>5, <1>6 DEF BridgeSound

\* The steps that change an override and are no request to change it.
Reads(t) == CamerasRead(t) \/ PowerRead(t) \/ Pruned(t)

LEMMA BridgeStep ==
  BridgeSound /\ [Next]_vars => BridgeSound'
<1>. SUFFICES ASSUME BridgeSound, [Next]_vars
              PROVE  BridgeSound'
  OBVIOUS
<1>1. CASE UNCHANGED vars
  <2>1. /\ UNCHANGED <<cameras, override, quality, cloud, full, told, missing, built, current>>
        /\ UNCHANGED <<client, signins, open, changes, task>>
    BY <1>1 DEF vars, account, binding, settings, outside, answers, bounds
  <2>2. WorldTypes' /\ task' \in [Task -> Job] /\ RegistriesSound' /\ NothingVanishes'
    BY <2>1 DEF BridgeSound, WorldTypes, RegistriesSound, NothingVanishes
  <2>3. \A h \in Handler : ListedTo(h)'
    BY <2>1 DEF BridgeSound, ListedTo, Chosen
  <2>4. \A t \in Task : JobSound(t, task[t])'
    BY <2>1 DEF BridgeSound, JobSound, Chosen
  <2>. QED  BY <2>2, <2>3, <2>4 DEF BridgeSound
<1>2. CASE Start \/ Wake(Loop)
  BY <1>2, StartSound, WakeSound DEF Task
<1>3. ASSUME NEW t \in Task, Step(t)
      PROVE  BridgeSound'
  BY <1>3, StoppedOneSound, PartEndsSound, ReadyReadSound, DevicesReadSound, CamerasReadSound,
     PowerReadSound, PrunedSound DEF Step
<1>4. ASSUME NEW h \in Handler, Request(h)
      PROVE  BridgeSound'
  BY <1>4, WakeSound, ListSound, SettingRequestSound, WriteCameraSound DEF Request, Task
<1>5. ASSUME NEW h \in Handler, Resume(h)
      PROVE  BridgeSound'
  BY <1>5, SettingRequestSound DEF Resume
<1>6. ASSUME NEW d \in Did, Stream(d)
      PROVE  BridgeSound'
  BY <1>6, StreamSound
<1>7. CASE AccountChanges
  BY <1>7, AccountChangesSound
<1>. QED  BY <1>1, <1>2, <1>3, <1>4, <1>5, <1>6, <1>7 DEF Next

LEMMA BridgeAlwaysSound ==
  Spec => []BridgeSound
BY BridgeInit, BridgeStep, PTL DEF Spec

--------------------------------------------------------------------------------
(* What follows *)

\* GET /api/cameras never leaves out a camera that who asks was told of before, unless
\* Xiaomi answered without it since or a setting took its path: not while the account
\* is bound anew, not over a refresh that failed, not over an odd device.
THEOREM NobodyVanishes ==
  Spec => []NothingVanishes
<1>1. BridgeSound => NothingVanishes
  BY DEF BridgeSound
<1>. QED  BY <1>1, BridgeAlwaysSound, PTL

\* A step that is no request changes an override only while it ends a refresh.
LEMMA OnlyReadsPrune ==
  ASSUME BridgeSound, [Next]_vars, changes' = changes
  PROVE  override' = override \/ \E t \in Task : Reads(t)
<1>. DEFINE Goal == override' = override \/ \E t \in Task : Reads(t)
<1>0. changes \in Nat /\ changes' # changes + 1
  BY WorldNow
<1>1. ASSUME Start \/ AccountChanges \/ UNCHANGED vars
      PROVE  Goal
  BY <1>1 DEF Start, AccountChanges, vars, settings
<1>2. ASSUME NEW t \in Task, Wake(t)
      PROVE  Goal
  BY <1>2 DEF Wake, settings
<1>3. ASSUME NEW t \in Task, Step(t)
      PROVE  Goal
  <2>1. CASE Reads(t)
    BY <2>1
  <2>2. CASE ~Reads(t)
    <3>1. UNCHANGED settings
      BY <1>3, <2>2 DEF Step, Reads, CloseOne, PruneOne, Closed, Cleared, ReadyRead, DevicesRead,
         CallFails, UrlsRead
    <3>. QED  BY <3>1 DEF settings
  <2>. QED  BY <2>1, <2>2
<1>4. ASSUME NEW h \in Handler, Request(h)
      PROVE  Goal
  <2>1. ASSUME NEW d \in Did, NEW said \in Override, WriteCamera(h, d, said)
        PROVE  Goal
    BY <1>0, <2>1 DEF WriteCamera, Change
  <2>2. ASSUME NEW q \in Quality, WriteDefaults(h, q)
        PROVE  Goal
    BY <2>2 DEF WriteDefaults, SetDefaults
  <2>3. CASE Wake(h) \/ List(h) \/ LinkComplete(h) \/ Unlink(h) \/ CompatSignin(h)
    BY <2>3 DEF Wake, List, LinkComplete, Unlink, CompatSignin, settings
  <2>. HIDE DEF Goal
  <2>. QED  BY <1>4, <2>1, <2>2, <2>3 DEF Request
<1>5. ASSUME NEW h \in Handler, Resume(h)
      PROVE  Goal
  BY <1>5 DEF Resume, Reloaded, Unlinked, SignedIn, Noted, settings
<1>6. ASSUME NEW d \in Did, Stream(d)
      PROVE  Goal
  BY <1>6 DEF Stream, settings
<1>. HIDE DEF Goal
<1>7. Goal
  BY <1>1, <1>2, <1>3, <1>4, <1>5, <1>6 DEF Next, Task
<1>. QED  BY <1>7 DEF Goal

\* CameraRegistry.async_refresh prunes no override of a camera that has been on the
\* account since that refresh began: every answer the refresh worked on had it.
THEOREM OverridesStay ==
  Spec => OverridesOutlive
<1>. DEFINE Outlive ==
       changes' = changes =>
         \A d \in Did : override[d] # None /\ override'[d] = None =>
           \A t \in Task : task'[t] # task[t] => d \notin task[t].steady
<1>1. ASSUME BridgeSound, [Next]_vars
      PROVE  Outlive
  <2>. SUFFICES ASSUME changes' = changes, NEW d \in Did, override'[d] # override[d],
                       NEW t \in Task, task'[t] # task[t]
                PROVE  d \notin task[t].steady
    OBVIOUS
  <2>1. PICK s \in Task : Reads(s)
    BY <1>1, OnlyReadsPrune
  <2>2. SteadyKept(s)
    BY <1>1, <2>1, CamerasReadSound, PowerReadSound, PrunedSound DEF Reads
  <2>3. s = t
    BY <1>1, <2>2 DEF SteadyKept, BridgeSound
  <2>. QED  BY <2>2, <2>3 DEF SteadyKept
<1>2. OverridesOutlive <=> [][Outlive]_vars
  BY DEF OverridesOutlive
<1>. HIDE DEF Outlive
<1>3. BridgeSound /\ [Next]_vars => Outlive
  BY <1>1
<1>4. Spec => [][Outlive]_vars
  BY <1>3, BridgeAlwaysSound, PTL DEF Spec
<1>. QED  BY <1>2, <1>4
================================================================================
