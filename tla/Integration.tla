------------------------------- MODULE Integration -------------------------------
(***************************************************************************)
(* custom_components/xiaomi_camera, one config entry: its set-up, reload     *)
(* and migration (__init__.py), the polls (coordinator.py), the entities     *)
(* that are created (camera.py, switch.py) and deleted (selection.py), whose *)
(* identity they carry (streams.py), and the forms that write the options    *)
(* (config_flow.py).  Home Assistant's registries outlive every restart.     *)
(***************************************************************************)
EXTENDS Naturals, FiniteSets, Sequences, SequencesExt

CONSTANTS
  Did,         \* cameras that may be on the account
  Lists,       \* the stream lists the add-on may give for a camera, in order
  Ticks,       \* the sets of streams a user may tick for a camera
  Asking,      \* _UNLINKED_POLLS_BEFORE_ASKING
  MaxChanges   \* bound: saved forms, restarts and changes of what the bridge says

Root == "original"
Key == {Root, "h265", "h264"} \cup UNION ({ToSet(l) : l \in Lists} \cup Ticks)
Bare == "bare"
Power == "power"
None == "none"

ASSUME IntegrationAssumption ==
  /\ {Bare, Power, None} \cap Key = {}
  /\ Lists \subseteq Seq(Key)
  /\ Asking \in Nat \ {0, 1} /\ MaxChanges \in Nat

Nobody == [d \in {} |-> <<>>]
Cameras == UNION {[S -> Lists] : S \in SUBSET Did}  \* what the add-on lists

Answers ==
  [says : {"down", "unlinked"}, cameras : {Nobody}] \cup [says : {"cameras"}, cameras : Cameras]

Options == [auto : BOOLEAN,              \* new cameras join on their own
            excluded : SUBSET Did,
            listed : BOOLEAN,            \* whether the next field is stored at all
            cameras : SUBSET Did,
            primary : Key \cup {None},   \* version 1: stream_codec
            streams : [Did -> SUBSET Key]]

Unset == [auto |-> TRUE, excluded |-> {}, listed |-> FALSE, cameras |-> {},
          primary |-> Root, streams |-> [d \in Did |-> {}]]

VARIABLES
  version, options,  \* the config entry
  phase,             \* where it stands: none, off, setup, failed, or forwarding and
                     \* then adding, the two waits before it is loaded
  bridge,            \* what the add-on says when asked, and the cameras it lists
  data,              \* the coordinator's cameras
  polls,             \* _unlinked_polls, which counts no further than Asking
  repair, outdated,  \* the two issues
  reload,            \* the update listener's task is pending
  unheard,           \* history: a form was saved under this set-up while it had no
                     \* update listener
  live,              \* the entities of this set-up: (did, stream key or Power)
  registry,          \* the identities in the entity registry
  form,              \* the options form: whether open, and the cameras it shows
  changes,
  made,              \* history: identities an earlier version had, and those created or
                     \* ticked again under these options
  second,            \* history: those version 2 gave the root beside its primary stream,
                     \* <<did, "h265">>, which now names another stream
  shown              \* history: the pictures each bare identity was bound to

entry == <<version, options>>
issues == <<repair, outdated>>
entities == <<live, registry, made, second, shown>>
vars == <<entry, phase, bridge, data, polls, issues, reload, unheard, entities, form, changes>>
--------------------------------------------------------------------------------
(* streams.py and selection.py. *)

Selected(o, there) ==
  IF o.auto THEN there \ o.excluded
  ELSE IF o.listed THEN there \cap o.cameras ELSE there

SelectedStreams(o, d, list) ==
  IF o.streams[d] # {} THEN o.streams[d] \cap ToSet(list)
  ELSE IF o.primary \in ToSet(list) THEN {o.primary}
  ELSE IF list = <<>> THEN {} ELSE {Head(list)}

UniqueId(d, k, primary) == <<d, IF k = primary THEN Bare ELSE k>>

\* Mutation: only the streams this poll lists are kept.
WantedWhileThere(o, cams) ==
  UNION {{UniqueId(d, k, o.primary) : k \in SelectedStreams(o, d, cams[d])} : d \in DOMAIN cams}

WantedUniqueIds(o, cams) ==
  UNION {{UniqueId(d, k, o.primary) :
            k \in IF o.streams[d] = {} THEN {o.primary} ELSE o.streams[d]} : d \in DOMAIN cams}

\* migrate_options; what no stream_codec meant is H.264.
FromV1(o) ==
  LET primary == IF o.primary = None THEN "h264" ELSE o.primary
  IN  [o EXCEPT !.primary = primary,
                !.streams = [d \in Did |-> IF d \in o.cameras THEN {primary} ELSE {}]]

\* Mutation: the rename is forgotten.
FromV2AsIs(o) == o

\* migrate_v2_options: version 2 called the root "h265".
FromV2(o) ==
  LET New(k) == IF k = "h265" THEN Root ELSE k
  IN  [o EXCEPT !.primary = New(o.primary),
                !.streams = [d \in Did |-> {New(k) : k \in o.streams[d]}]]

Migrated ==
  IF version = 1 THEN FromV2(FromV1(options))
  ELSE IF version = 2 THEN FromV2(options) ELSE options
--------------------------------------------------------------------------------
\* Identities that an entry of an earlier version has, and what its bare ones show.
Before(v, o) ==
  LET primary == IF o.primary = None THEN "h264" ELSE o.primary
      keys(d) == IF v = 1 \/ o.streams[d] = {} THEN {primary} ELSE o.streams[d]
  IN  UNION {{UniqueId(d, k, primary) : k \in keys(d) \cup {Power}} : d \in Selected(o, Did)}

ShownBefore(o) ==
  LET primary == IF o.primary = None THEN "h264" ELSE o.primary
  IN  IF primary = "h265" THEN Root ELSE primary

Chosen == {[Unset EXCEPT !.auto = a, !.excluded = Did \ c, !.listed = TRUE, !.cameras = c] :
             a \in BOOLEAN, c \in SUBSET Did}

Init ==
  /\ \/ version = 3 /\ phase = "none" /\ options = Unset
     \/ /\ version = 1 /\ phase = "off"
        /\ \E o \in Chosen \cup {Unset}, p \in {None, "h264", Root} :
             options = [o EXCEPT !.primary = p]
     \/ /\ version = 2 /\ phase = "off"
        /\ \E o \in Chosen \cup {Unset}, p \in {"h264", "h265"}, ks \in SUBSET {"h264", "h265"} :
             options = [o EXCEPT !.primary = p,
                                 !.streams = [d \in Did |-> IF d \in o.cameras THEN ks ELSE {}]]
  /\ registry = IF phase = "none" THEN {} ELSE Before(version, options)
  /\ shown = [d \in Did |-> IF <<d, Bare>> \in registry THEN {ShownBefore(options)} ELSE {}]
  /\ bridge = [says |-> "down", cameras |-> Nobody]
  /\ data = Nobody /\ polls = 0 /\ repair = FALSE /\ outdated = FALSE
  /\ reload = FALSE /\ unheard = FALSE
  /\ live = {} /\ made = registry /\ second = {u \in registry : u[2] = "h265"}
  /\ form = [open |-> FALSE, seen |-> Nobody]
  /\ changes = 0
--------------------------------------------------------------------------------
(* Entities: camera._add_new and switch._add_new on the cameras cams. *)

Entities(o, cams) ==
  UNION {{<<d, k>> : k \in SelectedStreams(o, d, cams[d]) \cup {Power}} :
           d \in Selected(o, DOMAIN cams)}

Ids(es) == {UniqueId(e[1], e[2], options.primary) : e \in es}

\* known is what has been added since the set-up began, and only grows.
AddNew(cams, known) ==
  LET new == Entities(options, cams)
  IN  /\ live' = known \cup new
      /\ registry' = registry \cup Ids(new \ known)
      /\ made' = made \cup Ids(new \ known) /\ second' = second \ Ids(new \ known)
      /\ shown' = [d \in Did |-> shown[d] \cup
                     ({options.primary} \cap {e[2] : e \in {x \in new \ known : x[1] = d}})]

\* What the set-up leaves in the registry: async_remove_unselected takes away whole
\* devices, async_remove_unselected_entities streams of those that stay.
Kept(cams) ==
  {u \in registry : /\ u[1] \in Selected(options, DOMAIN cams)
                    /\ u[2] = Power \/ u \in WantedUniqueIds(options, cams)}

\* coordinator: a list of cameras none of which has streams is an old add-on's.
Outdated(cams) == DOMAIN cams # {} /\ \A d \in DOMAIN cams : cams[d] = <<>>

Listed == bridge.says = "cameras"
--------------------------------------------------------------------------------
(* The entry. *)

\* async_setup_entry up to its await of the platforms: the first list, and the
\* deletions by it.
SetUp ==
  /\ phase = "setup" /\ Listed
  /\ LET cams == bridge.cameras
     IN  /\ registry' = Kept(cams) /\ made' = {u \in made : u[1] \in DOMAIN cams}
         /\ data' = cams /\ outdated' = Outdated(cams)
  /\ phase' = "forwarding" /\ unheard' = FALSE
  /\ UNCHANGED <<entry, bridge, polls, repair, reload, live, second, shown, form, changes>>

\* The bridge is down, or its account not linked: ConfigEntryNotReady, which Home
\* Assistant retries with a new coordinator.
SetUpFails ==
  /\ phase = "setup" /\ ~Listed
  /\ repair' = (repair \/ (bridge.says = "unlinked" /\ Asking <= 1))
  /\ UNCHANGED <<entry, phase, bridge, data, polls, outdated, reload, unheard, entities, form,
                 changes>>

\* The health call takes its whole timeout.  That is no BridgeError: the set-up ends
\* in an error, which is not retried.
SetUpErrors ==
  /\ phase = "setup"
  /\ phase' = "failed"
  /\ UNCHANGED <<entry, bridge, data, polls, issues, reload, unheard, entities, form, changes>>

\* The platforms add their first entities and listen to the coordinator ...
Platforms ==
  /\ phase = "forwarding"
  /\ AddNew(data, {})
  /\ phase' = "adding"
  /\ UNCHANGED <<entry, bridge, data, polls, issues, reload, unheard, form, changes>>

\* ... and once both have, the update listener is there.
SetUpEnds ==
  /\ phase = "adding"
  /\ phase' = "loaded"
  /\ UNCHANGED <<entry, bridge, data, polls, issues, reload, unheard, entities, form, changes>>

Unloaded ==
  /\ phase' = "setup" /\ live' = {} /\ data' = Nobody /\ polls' = 0 /\ reload' = FALSE
  /\ UNCHANGED <<bridge, registry, second, shown>>

Reload ==
  /\ reload /\ phase = "loaded"
  /\ Unloaded
  /\ UNCHANGED <<entry, issues, unheard, form, changes, made>>

\* Home Assistant starts: the entry is migrated and then set up.
Start ==
  /\ phase = "off" \/ (phase # "none" /\ changes < MaxChanges)
  /\ changes' = IF phase = "off" THEN changes ELSE changes + 1
  /\ version' = 3 /\ options' = Migrated
  /\ Unloaded
  /\ repair' = FALSE /\ outdated' = FALSE /\ form' = [open |-> FALSE, seen |-> Nobody]
  /\ UNCHANGED <<made, unheard>>
--------------------------------------------------------------------------------
(* Polls: coordinator._async_update_data, once there is somebody to listen. *)

Polling == phase \in {"adding", "loaded"}

\* Mutation: the platforms do not listen to the coordinator.
PolledForStateOnly ==
  /\ Polling /\ Listed
  /\ polls' = 0 /\ repair' = (repair /\ polls = 0)
  /\ outdated' = Outdated(bridge.cameras) /\ data' = bridge.cameras
  /\ UNCHANGED <<entry, phase, bridge, reload, unheard, entities, form, changes>>

Polled ==
  /\ Polling /\ Listed
  /\ polls' = 0 /\ repair' = (repair /\ polls = 0)
  /\ outdated' = Outdated(bridge.cameras) /\ data' = bridge.cameras
  /\ AddNew(bridge.cameras, live)
  /\ UNCHANGED <<entry, phase, bridge, reload, unheard, form, changes>>

\* Home Assistant calls the listeners at the first of several failures.
PollFails ==
  /\ Polling /\ ~Listed
  /\ IF bridge.says = "unlinked"
     THEN /\ polls' = IF polls < Asking THEN polls + 1 ELSE polls
          /\ repair' = (repair \/ polls + 1 >= Asking)
     ELSE UNCHANGED <<polls, repair>>
  /\ AddNew(data, live) \/ UNCHANGED entities
  /\ UNCHANGED <<entry, phase, bridge, data, outdated, reload, unheard, form, changes>>
--------------------------------------------------------------------------------
(* Forms. *)

Offering(cams) == {d \in DOMAIN cams : cams[d] # <<>>}

OptionsFrom(seen, chosen, auto, keys, primary) ==
  [auto |-> auto, excluded |-> DOMAIN seen \ chosen, listed |-> TRUE, cameras |-> chosen,
   primary |-> primary,
   streams |-> [d \in Did |-> IF d \in DOMAIN keys THEN keys[d] ELSE {}]]

\* A form that was filled in: at least one stream of every ticked camera that
\* lists some.
Filled(seen, primary) ==
  {OptionsFrom(seen, f.chosen, f.auto, f.keys, primary) :
     f \in UNION {[chosen : {c}, auto : BOOLEAN,
                   keys : {ks \in [c \cap Offering(seen) -> Ticks] :
                             \A d \in DOMAIN ks : ks[d] # {} /\ ks[d] \subseteq ToSet(seen[d])}] :
                    c \in SUBSET DOMAIN seen}}

\* The config flow.  Its list of cameras may fail to come, or be empty.
Create ==
  /\ phase = "none" /\ bridge.says # "down"
  /\ \/ options' = Unset
     \/ Listed /\ DOMAIN bridge.cameras # {} /\ options' \in Filled(bridge.cameras, Root)
  /\ phase' = "setup"
  /\ UNCHANGED <<version, bridge, data, polls, issues, reload, unheard, entities, form, changes>>

\* The options flow; without runtime_data, or cameras, it aborts.
OpenForm ==
  /\ phase \in {"forwarding", "adding", "loaded"} /\ ~form.open /\ DOMAIN data # {} /\ changes < MaxChanges
  /\ form' = [open |-> TRUE, seen |-> data]
  /\ UNCHANGED <<entry, phase, bridge, data, polls, issues, reload, unheard, entities, changes>>

\* Which stream is primary is carried over.  The listener that reloads the entry
\* is there while it is loaded.
Save ==
  /\ form.open /\ changes < MaxChanges
  /\ options' \in Filled(form.seen, options.primary)
  /\ made' = {u \in made : /\ u[1] \in options'.cameras
                           /\ \/ u[2] \in {Power} \cup options'.streams[u[1]]
                              \/ u[2] = Bare /\ options.primary \in options'.streams[u[1]]}
  /\ reload' = (reload \/ (phase = "loaded" /\ options' # options))
  /\ unheard' = (unheard \/ (phase \in {"forwarding", "adding"} /\ options' # options))
  /\ form' = [open |-> FALSE, seen |-> Nobody] /\ changes' = changes + 1
  /\ UNCHANGED <<version, phase, bridge, data, polls, issues, live, registry, second, shown>>

\* The add-on and the account.
BridgeChanges ==
  /\ changes < MaxChanges /\ changes' = changes + 1
  /\ bridge' \in Answers \ {bridge}
  /\ UNCHANGED <<entry, phase, data, polls, issues, reload, unheard, entities, form>>

Progress == SetUp \/ Platforms \/ SetUpEnds
Set == Progress \/ SetUpFails \/ SetUpErrors
Poll == Polled \/ PollFails

Next == Set \/ Poll \/ Reload \/ Start \/ Create \/ OpenForm \/ Save \/ BridgeChanges

Spec == Init /\ [][Next]_vars

FairSpec == Spec /\ WF_vars(phase = "off" /\ Start) /\ WF_vars(Progress) /\ WF_vars(Poll)
                 /\ WF_vars(Reload)
--------------------------------------------------------------------------------
(* Properties. *)

\* The two decisions agree, over any series of polls, set-ups, migrations and forms:
\* an identity that an earlier version had or that was created, and that no form has
\* dropped since, is in the registry unless a set-up found its camera gone from the
\* account.  Streams that are not listed for a while cost no entity
\* ("selected_streams" creates by what is there, "wanted_unique_ids" deletes by what
\* was chosen).  The exception is the second root of version 2: its migration renames
\* the stream, and with it the identity of an entity that is not the primary one.
WhatIsMadeIsKept == made \subseteq registry \cup second

\* "the entity's identity and behaviour survive the rename": a set-up after it deletes
\* no root of version 2 whose camera is there.  The code does not keep this.
RootSurvivesRename ==
  [][\A u \in second \cap registry :
       phase = "setup" /\ u[1] \in DOMAIN bridge.cameras => u \in registry']_vars

\* The bare identity, which HomeKit and automations are bound to, shows one picture
\* for good: through both migrations, every form and every re-creation.
BareKeepsPicture == \A d \in Did : Cardinality(shown[d]) <= 1

\* What is there is what was asked for: with the bridge answering, the entry is
\* loaded, every selected stream of a listed camera has its entity, and nothing
\* that was turned down is in the registry.
NothingTurnedDown ==
  \A u \in registry :
    /\ u[1] \in Selected(options, Did)
    /\ u[2] = Power \/ u \in WantedUniqueIds(options, [d \in Did |-> <<>>])

Current ==
  Listed => /\ phase = "loaded"
            /\ Entities(options, bridge.cameras) \subseteq live
            /\ NothingTurnedDown

\* However forms, restarts, migrations and failing polls fall together, once they
\* stop the entities become what the options and the bridge say, and stay so.  Two
\* things stand in the way until the next reload or restart: a set-up that ended in an
\* error, and a form that was saved while the set-up had no update listener yet.
Settles == <>[](phase \notin {"none", "failed"} /\ ~unheard => Current)

\* "a deselected camera disappears instead of lingering as permanently unavailable":
\* a loaded entry that is not about to be reloaded has nothing that was turned down.
\* The code does not keep this.
DeselectedDisappears == phase = "loaded" /\ ~reload => NothingTurnedDown

\* Settles without its two exceptions, neither of which the code intends.
SettlesAlways == <>[](phase # "none" => Current)

\* The repair "withdraws itself once the add-on reports a session": after a poll that
\* found one, the user is not asked to sign in.
RepairIsWithdrawn == (phase = "loaded" /\ polls = 0) => ~repair

\* The other repair is "raised when the add-on is too old to declare streams"; this
\* add-on declares them, and leaves them out only of a camera it has no address of.
OutdatedMeansOld == ~outdated

\* A form says nothing of what it did not show: a camera or a camera's streams that
\* were missing when it was opened stay as they were chosen.
UnofferedIsUntouched ==
  [][(form.open /\ ~form'.open /\ phase' = phase) =>
       /\ \A d \in Did \ DOMAIN form.seen :
            options'.auto = options.auto =>
              (d \in Selected(options', Did) <=> d \in Selected(options, Did))
       /\ \A d \in options'.cameras \ Offering(form.seen) :
            options'.streams[d] = options.streams[d]]_vars
================================================================================
