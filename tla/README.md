# Verification of the Xiaomi camera bridge

TLA+ models of `addon/rootfs/app/bridge`, the add-on that turns Xiaomi cameras
into RTSP and WebSocket streams, and of `custom_components/xiaomi_camera`, which
brings them into Home Assistant: checked with TLC on small instances, and every safety
property and refinement of them proved with TLAPS for every size. Paths below are relative to `src/`;
`coordinator.py`, `streams.py`, `selection.py`, `camera.py`, `switch.py` and
`config_flow.py` are in `custom_components/xiaomi_camera/`, any other bare file name is in
`addon/rootfs/app/bridge/`.

## 1. The system

One asyncio process (`bridge/__main__.py`) holds a Xiaomi account, one
peer-to-peer session per camera through the vendor SDK (`miot`, not part of the
repository), a go2rtc child process that publishes RTSP, ffmpeg children that
decode stills, and an HTTP/WebSocket API for the add-on's page, for go2rtc and for
the Home Assistant integration (`custom_components/xiaomi_camera`).

| Component | State it keeps | Operations | Interacts with | What is hard | What makes it correct |
|---|---|---|---|---|---|
| Camera session (`streaming.CameraSession`) | `_instance`, `_users`, `_lock`, `_linger_task`, parameter sets, codec, consumers | `subscribe`, `async_stop`, the countdown, the SDK's callbacks | SDK, API handlers, manager | every operation suspends at vendor calls; a last user leaving, a reconnect and a stop interleave | an instance is lost only by a raising call, idle sessions end, a reader is fed until it is told |
| Session manager (`streaming.SessionManager`) | `_sessions` | `session_for`, `async_reload`, `async_prune`, `async_shutdown` | settings, sessions, bridge | the entry leaves the table before its session has stopped | one session per camera, built from current settings |
| Fan-out and pump (`streaming._fan_out`, `framing.Consumer`, `api._pump`) | each consumer's queue and flags, each pump's muxer | deliver a unit, fall behind, resume, close | session, muxer, HTTP response | bounded queues, joins mid-stream, audio that appears late | no torn group, parameter sets before frames, closed readers leave |
| Muxer clock (`mux.StreamMuxer`) | `_offset`, `_last_input`, `_last_output` | `_stamp` | pump | device clocks restart, repeat, go back and wrap | each track strictly forward, no leap |
| NAL units (`nal`) | none | `iter_nal_units`, `detect_codec` | session, fan-out | the ends of a buffer, codes side by side | exactly Annex B's start codes, whole units |
| Stills (`stills`) | the table of sources, each source's ffmpeg, picture and event | preview and snapshot requests, read loop, reaper, shutdown | go2rtc, API | spawn and retirement in either order, two timeouts on one request | no orphaned decoder, every viewer answered, unwatched decoders end |
| Restreamer (`restream`, `go2rtc_api`) | `_streams`, the configuration file, go2rtc and its state file, the supervisor | `async_apply`, delivery, `async_start/restart/stop`, `_supervise` | go2rtc over HTTP and signals, bridge | a delivery fails halfway, go2rtc ends by itself, stop meets spawn | go2rtc serves each stream as the file has it; it converges; one process; stop ends it |
| Bridge (`__main__`) | bound client, registry, manager | start, refresh, binding, refresh loop, stop | all of the above | refreshes have no lock and suspend at every step | streams, binding and flags become what account and settings say; no camera or override is lost on the way |
| Camera registry (`cameras`) | devices, cameras, power states | `async_refresh`, `path_for`, power | SDK, settings, readiness | stores in pieces between awaits | no camera leaves the list because a call failed |
| Settings (`settings`) | defaults, overrides, a file | `resolve`, `set_defaults`, `set_override`, `prune` | API, bridge, manager | written while others hold older snapshots | a write is not undone by a refresh |
| Account and tokens (`account`, `store`) | client, pending client, credentials file, refresh task | begin, complete, restore, refresh, unlink | SDK, bridge | awaits between reading and storing the client | one loop renews; a token goes with its own sign-in; an unlinked account does not come back |
| Compatibility sign-in (`go2rtc_xiaomi`) | `_ready`, `_signing_in` | `sign_in`, `refresh_compat_ready`, `all_device_urls` | go2rtc | a transient failure is cached | readiness recovers |
| API, login and page guard (`api`, `webauth`) | open sockets, login failures | handlers, `_login_penalty` | all | handlers interleave at every await; the failure table is bounded | a delay for every guess |
| Integration (`coordinator`, `camera`, `switch`, `streams`, `selection`) | last data, known entities, the two registries, options | poll, create, remove, migrate, reload | API | polls see partial data; the set-up suspends with the form open; identities must never move | what is created is what is kept |
| Client and forms (`api`, `config_flow`) | a form open over an older list | find, link, choose, save | integration, add-on | what was shown is stale when it is saved | a form changes what it showed |
| Add-on page (`web/src`) | stores, a card's preview | play, stop, reconnect | API | reconnect timer, socket and user race | only the current socket moves the card |
| Configuration, discovery, redaction | none that changes | pure or once at start | | nothing ordered | unit tests suffice |

A session is opened by its first reader, under a lock; readers are fed by the
SDK's callback, which runs in the same loop. The last reader out starts a
twenty-second countdown; the countdown, a settings write, a prune or a shutdown
stops the session under the same lock. A settings write also refreshes: the bridge
resolves every camera and has the restreamer bring go2rtc's table up to date. Stills
are decoded from go2rtc's streams, one ffmpeg per camera and shape of picture. Home
Assistant polls the camera list, creates an entity for each stream a user chose, and
at each set-up deletes the devices and entities nobody wants any more.

## 2. Modules

All of them share one convention: **an action is what the event loop runs between
two awaits**. A task is a value of `reader`, `stopper`, `viewer`, `caller`, `task`,
`handler` or `loop` that names the await it is suspended at, with the locals that
survive it. Definitions introduced by "Mutation:" (`UnholdOverwrites`, `ScanningShort`,
...) are plausible slips of the definition that follows; each was put in its place to
confirm that a property notices. They are no part of the model. The `MC*` modules give
symmetry sets and the inputs TLC enumerates, and nothing else.

### 2.1 Camera sessions: CameraSession, SharedLink, CameraSessionLink, SessionManager

**CameraSession** has the attributes of one session object per element of `Session`.
`EnterEnsure` is the critical section of `_async_ensure_started` up to its first
await; `StatusConnected` to `RegisterAudio` are its further pieces; `Hold` runs from
its return to the next await, `Unhold` is `_hold`'s `finally`. `asyncio.Lock` is
external, with its hand-over to the oldest waiter. `Reader` tasks are requests that
subscribe, `Stopper` tasks countdowns and callers of `async_stop`. `Faults` names
the vendor calls that may raise; an instance whose stop raised is `unknown`, may go on
calling and may end by itself. Two abstractions: `codec` and `parameterSets` are
booleans, and a vendor call takes any time.

**SharedLink** is the abstract promise: a link opened and closed as a whole, with an
audience that loses its picture only in the step in which the link goes down, all of
it at once. **CameraSessionLink** maps CameraSession onto it; the run `camera_session`
uses this module, so that safety, liveness and refinement are checked in one search.

**SessionManager** extends CameraSession with the table, the settings each session
was built from, and the handlers that write them, for one camera (the manager shares
nothing between cameras). `Ask` is a stream request, `StopOne` is `_async_stop_one`
under `async_reload`, `async_prune` and `async_shutdown`. `Prune` is `settings.prune` at the
end of a refresh, which deletes an override and drops no session; `pruned` remembers that
the session in the table was built before that.

### 2.2 Fan-out, muxer, NAL units: FanOut, StreamMuxer, NalUnits

**FanOut** is `_fan_out` into each consumer's queue and `_pump` out of it. A unit
carries its frame number, whether parameter sets are in front of it and whether the
session knew any. `Serve` is the pump's loop, one queue item or one write a step.

**StreamMuxer** is the clock alone: `_stamp` (`Anchor`, `Rebased`, `Advanced`) and
the two reasons to drop a unit. **NalUnits** is the scan of `iter_nal_units`, one loop
iteration a step, against a definition of start codes that does not scan.

### 2.3 Stills

The sources that were ever made for one key, and the viewers on it: preview sockets,
which ask again with the number of the picture they have, or snapshot requests, which
start over (`snapshot`); the two never share a key. `Share` and `Open` are a request
finding a source or making one, `Opened`, `OpenFails`, `Wake` and `GiveUp` how it goes
on; `Picture`, `Exit` and `ReaderEnds` belong to a decoder, `Reap`, `StopBegins`,
`StopEnds` to its end, `Shutdown` and `Stopped` to `Bridge.async_stop`. Time is a tick
that ages pictures, idleness and patience.

### 2.4 Restreamer

The whole table, the configuration file, go2rtc's state file, its processes, the
supervisor and the callers of `async_apply`. go2rtc is external: it boots from the
state file and the configuration file, the later winning; `PUT` and `DELETE` change what
it runs and its state file, `PATCH` what it runs; it may refuse, crash, and takes time
to boot and to end. Nothing keeps two callers from delivering at once: `late` remembers the
streams whose last call since go2rtc booted came from a delivery that a newer table had
overtaken.

### 2.5 Bridge

`Bridge.async_refresh` with everything it runs through, and the handlers that end in
one. A registry and a session table are built and dropped together, so a *build* is
both: `current` is the pair `_registry` and `_sessions` name, `owner` the client a build
was made for, `cameras` and `open` its cameras and sessions. A `task` is a handler or the
background loop, standing at one of the awaits of a refresh: closing the sessions of
the old client (`CloseOne`, `Closed`), handing go2rtc an empty table (`Cleared`), the
compatibility flag (`ReadyRead`), the two calls of the camera list (`DevicesRead`,
`CamerasRead`), the power switches (`PowerRead`), the sessions of cameras that left
(`PruneOne`, `Pruned`), the addresses (`UrlsRead`). Whatever runs without an await, from
a call's return to the next one, is one step: `Refresh`, `Rebind`, `Describe`, `Deliver`,
`Settle`, `Publish`. The cloud may answer with the account of any moment of its call
(`Answer`); a call may fail, and fails on a client that was torn down (`Alive`).

Each neighbour is reduced to what a refresh sees of it: a session is a camera's number in
`open`, the restreamer is the table it was last handed (`published`), the account is the
client and whether it was torn down, a sign-in is one step. `told` and `missing` record
what each of those who ask for the list was answered, for each on its own: of two list
requests under way at once the older may answer last, so what it leaves out says nothing
about what the other was told. CameraSession, Restreamer and AccountManager have the
inside of these; the events Bridge brings about are the inputs they take from anywhere
(`OwnerStop`, `Apply`, `BeginLink`, ...).

### 2.6 AccountManager and StoredAccount

**AccountManager** is `account.py` over `store.py`: link, complete and unlink requests, the
restore (`Load`, `Loaded`, `Profiled`), the renewal loops (`LoopWakes` to `LoopEnds`) and a
process that ends at any step and starts from the file (`Restart`). Credentials say of
which sign-in their device id is and of which their token (`signin`, `of`), because the code
reads the id when it saves. A cancelled loop goes on until its `CancelledError` arrives.
Only the renewal takes the lock. A call with a client that was torn down fails (`able`,
`Alive`, `Refused`), and a client that was torn down can become the current one. **StoredAccount** is the abstract promise about the disk:
a sign-in replaces it, a renewal gives the same sign-in a newer token, unlinking removes it,
and it does not come back. Its exception, an account that is being restored, is the code's.

### 2.7 Settings, paths, readiness

They have no module of their own. `PathFor`, `Resolved`, `Kept`, `SetOverride` and
`SetDefaults` in Bridge are `paths.path_for` and `SettingsStore`; SessionManager has the
part a session keeps. `ready` and `signing` in Bridge are the two flags of `go2rtc_xiaomi`.

### 2.8 Integration

One config entry of `custom_components/xiaomi_camera` and Home Assistant's registries,
which outlive every restart. `Selected`, `SelectedStreams`, `UniqueId`, `WantedUniqueIds`,
`FromV1` and `FromV2` are `selection.py` and `streams.py` as functions. `async_setup_entry` is cut
at its awaits: `SetUp` runs from the first list to the deletions, `Platforms` adds the first
entities, `SetUpEnds` registers the update listener; a form may be saved and a poll arrive in
between. `SetUpFails` is the set-up Home Assistant retries, `SetUpErrors` the one it does not: a
health call that takes its whole timeout raises what nobody turns into "not ready". `Polled` and
`PollFails` (the coordinator, its two repairs and the platforms' listeners), `Reload`, `Start`
(with the migrations), `Create` and `OpenForm`, `Save` (the two flows) are the other steps. The
bridge is its answers: down, not linked, or a list of cameras each with a list of streams. The
entry begins as a new one, or as one of version 1 or 2 with the entities such a version had.

Two records are kept besides. `second` has the identities `<did>_h265` that version 2 gave a
root that was not primary; its migration renames that stream, and the next set-up deletes the
entity. `unheard` says that a form was saved while the set-up had no update listener. Two things
are merged: the first entities of the two platforms are one step, and a user's own reload is a
restart.

### 2.9 Proofs

`CameraSessionProofs` (with the link and the manager), `FanOutProofs`, `MediaProofs` (the
muxer's clock and the NAL scan), `StillsProofs`, `RestreamerProofs`, `BridgeProofs`,
`AccountManagerProofs` and `IntegrationProofs` hold the theorems (section 4). That
`MediaProofs` extends two modules at once is why NalUnits names its specification `ScanSpec`.

## 3. Runs

| Run | What it asks | Bounds, and why they are enough |
|---|---|---|
| `camera_session` | `InstanceHasOneOwner`, `IdleSessionIsWatched`, `HandleNamesCountdown`, `NoStrayCountdown`, `FedUntilTold`, `LostOnlyByRaising` in every order of requests, lost links, countdowns and stops; the session implements `SharedLink`; `IdleSessionEnds`, `RequestIsAnswered` under `FairSpec` | two readers (one inside or leaving, one at the lock), three stoppers (a countdown, its successor, an owner's stop), two instances (old and new); every vendor call may raise |
| `session_manager` | `TableFollowsSettings`: the table's session is on the official path and built from the camera's current override, unless that override was pruned since | one reader, two stoppers, two session objects, two qualities: an old session on its way out beside a new one |
| `two_sessions_one_camera` | (violated) `OneLiveSession` | see section 6 |
| `stream_muxer` | `PresentIsReached`, `TracksAdvance`, `NoLeap` | a clock of sixteen values with a sentinel at its end; a discontinuity of 3, stamps up to 12 and a horizon of 10 leave room for several restarts and for overflow of the stamp |
| `fan_out` | `NoTornGroup`, `DecoderHasParameters`, `LateAudioIsCured`, `ClosedReaderLeaves` | queues of two, five frames, one sound, two readers that come twice: enough to fill a queue, lose a group, resume and be closed while full |
| `stills` | `NoOrphan`, `StoppedIsToldAtOnce`, `PicturesMoveOn`; `ViewerIsAnswered`, `UnwatchedDecodersEnd` under `FairSpec`; a shutdown at any time | two previews or two snapshot requests, two sources of one picture: a source replaced while it is spawned, stopped or watched; idle 1 < patience 2 ticks, as 15 s < 20 s |
| `restreamer` | `OneGo2rtc`, `FileIsServed`; `Converges`, `StopEndsIt` under `FairSpec` | two refreshers that deliver at once, over tables that point a stream elsewhere and lose the other and files of an earlier run; two applies, so that one overtakes the other; three processes, of which any may end by itself that the applies do not need; refusals and a stop at any time. Three tables and an earlier file with a stream less pass as well (870,000 states) |
| `nal_units` | `FindsStartCodes`, `UnitsAreWhole` | every buffer up to eight bytes of 0, 1 and another value: two codes of either length with a byte in between |
| `bridge` | `NothingVanishes`, `OverridesOutlive`; `Settles` under `FairSpec` | one camera, which the vendor library accepts or refuses, and which joins and leaves; one request beside the loop, two clients (an account and its replacement), three builds, two changes, one failing call. Cameras meet in a refresh only where it fails for all of them, so one shows the order of events; two cameras (2.7 million states) and two requests (2.3 million) pass the safety properties as well |
| `sessions_outlive_their_client` | (violated) `SessionsEndBeforeTheirClient` | see section 6 |
| `account` | `OneRefresher`, `CredentialsAreWhole`; the disk implements `StoredAccount`; `DueIsRenewed`, while the client is not torn down, under `FairSpec` | two requests beside the restore and the loops, two clients, two sign-ins (an account and its replacement), one renewal of each, three loops (one cancelled, one replaced, one new), one restart, one failure. Three clients pass as well (1.9 million states) |
| `integration` | `WhatIsMadeIsKept`, `BareKeepsPicture`; `Settles` under `FairSpec` | two cameras, listed with this add-on's streams or none; three changes (a saved form, a restart, another answer of the bridge, in any mix), three unlinked polls before asking. One camera with five changes passes, and two cameras in a list that is full at the start |

`TypeOK` of CameraSession and StreamMuxer is checked in these runs; that of FanOut, Stills,
Restreamer and NalUnits (`ScanTypeOK`) is proved, as are the types of the manager, the account
and the bridge (`ManagerType`, `AccountTypes`, `WorldTypes`) with their invariants. Symmetry is used only in runs without liveness.
`CHECK_DEADLOCK FALSE` is set where the model ends: a bounded number of frames, processes or
sources is used up, the scan is over, the add-on has stopped, or an entry's user, bridge
and bounds have nothing left to do.

### Fairness

- CameraSession: weak fairness for everything a task does of itself, since the loop
  runs what is ready and vendor calls return, and for a closed reader's leaving. None for
  a client asking or leaving, the camera sending, or an owner's stop. `asyncio.Lock`
  hands over first come, first served, which is why weak fairness is enough.
- FanOut: weak fairness for each pump; none for the camera, for joins or teardowns.
- Stills: weak fairness for time, calls and clean-up while the add-on runs; none for
  asking, for pictures or for ffmpeg's exit.
- Restreamer: weak fairness for time, the supervisor, the callers, a booting go2rtc
  and the end of one that was signalled; none for crashes, which are bounded.
- Bridge: weak fairness for the start, for the loop's waking (it sleeps and wakes for as
  long as the add-on runs) and for each task's next step, since every await comes back; none
  for requests, streams or changes of the account. Failing calls are bounded.
- AccountManager: weak fairness for each loop's steps, for requests that are under way and
  for the restore; none for new requests, for the passing of time towards a token's end, or
  for restarts. A restart loses what was under way, which `DueIsRenewed` allows for.
- Integration: weak fairness for Home Assistant's start, for the steps of a set-up that can
  succeed (`Progress`; it is retried), for polls (the coordinator's interval) and for a pending reload; none for the
  user, for restarts or for what the bridge says.

## 4. Proofs

| Theorem | States | Rests on |
|---|---|---|
| `CameraSessionProofs!TypeCorrect` | `Spec => []TypeOK`; `users` never below zero | `Inductive` |
| `CountdownHandle`, `IdleWatched` | `[]HandleNamesCountdown`, `[]IdleSessionIsWatched` | `Inductive` |
| `UsersAreHolders` | `_users` is the number of readers inside `_hold` | `Inductive` |
| `NothingElseLoses` | `LostOnlyByRaising`, whichever calls raise | `Inductive`, `OwnerMoves`, `LostStep` |
| `OneOwner` | `[]InstanceHasOneOwner` | `Inductive`, `OwnedOnce` |
| `NoCountdownStrays` | `[]NoStrayCountdown` | `Inductive`, `CountdownMoves` |
| `NobodyForgotten` | `FedUntilTold` | `Inductive`, `ListedOrTold`, `FedStep` |
| `SessionImplementsLink` | `ImplementsSharedLink`: the refinement of SharedLink | `Inductive`, `ConsumersRead`, `LinkStepOfNext` |
| `TableAlwaysFollows` | `ManagerSpec => []TableFollowsSettings` | `ManagerInductive` |
| `ManagerRunsSessions`, `ManagerLosesNothing` | `ManagerSpec => Spec`, so what holds of sessions holds under the manager; `LostOnlyByRaising` there | `ManagerInductive`, `NothingElseLoses` |
| `FanOutProofs!FanOutTyped`, `DecoderIsPrimed`, `LateAudioAlwaysCured`, `GroupsStayWhole` | `[]TypeOK`, `[]DecoderHasParameters`, `[]LateAudioIsCured`, `NoTornGroup` | `FanOutSound` |
| `MediaProofs!MuxerTypeCorrect`, `TracksAlwaysAdvance`, `NeverLeaps`, `PresentAlwaysReached` | `[]TypeOK`, `TracksAdvance`, `NoLeap`, `[]PresentIsReached` | `MuxerInductive` |
| `ScanTypeCorrect`, `EveryStartCodeIsFound`, `UnitsAlwaysWhole` | `[]ScanTypeOK`, `[]FindsStartCodes`, `[]UnitsAreWhole` | `Found` |
| `StillsProofs!StillsTyped`, `NoDecoderOrphaned`, `StoppedAlwaysTold` | `[]TypeOK`, `[]NoOrphan`, `[]StoppedIsToldAtOnce` | `DecodersOwned` |
| `PicturesAlwaysMoveOn` | `PicturesMoveOn` | `DecodersOwned`, `CallsMoveOn` |
| `RestreamerProofs!RestreamerTyped`, `OneProcessLives` | `[]TypeOK`, `[]OneGo2rtc` | `ProcessSound` |
| `FileServes` | `[]FileIsServed`, for any number of refreshes at once, any tables and earlier files | `ProcessSound`, `FileServed` |
| `BridgeProofs!NobodyVanishes`, `OverridesStay` | `[]NothingVanishes`, `OverridesOutlive` | `BridgeSound` |
| `AccountManagerProofs!OneLoopRenews`, `SavedWhole` | `[]OneRefresher`, `[]CredentialsAreWhole` | `AccountSound` |
| `AccountImplementsStored` | `ImplementsStoredAccount`: the refinement of StoredAccount | `AccountSound` |
| `IntegrationProofs!EntryIsOptions` | the stored options are options of some version, and only an entry that is off is of an earlier one | `EntryStep` |
| `BareIsOnePicture` | `[]BareKeepsPicture` | `EntryOK`, `PictureStays` |
| `MadeIsKept` | `[]WhatIsMadeIsKept`, if every list that has streams has those that can be primary | `EntryOK`, `MadeStays` |

**Camera session.** None of the invariants is inductive alone. `IdleSessionIsWatched`
needs that a handle names a sleeping countdown, which needs that no two sessions share
one; that a user count of zero means nobody is inside (`UsersCounted`), or a request in
its critical section would not be seen; and that only the lock's holder is in the
critical section (`HolderIsInside`), whose hand-over needs that a queue has a holder.
`Inductive` is the conjunction. One lemma per conjunct (`TypeStep`, `LockStep`,
`UsersStep`, `HandlesStep`, `CountdownStep`, `WatchedStep`) shows it preserved, action by
action. That an instance is lost only by a raising call, and that a reader is fed until it is
told, are properties of steps: an invariant would have to exempt for good what one step did,
where these say which step it was. The later parts each add one view of a step: what it does to the instances and
their owners (`OwnerMoves`: nothing, one closed, one given up, one made, or one handed over), to
the sleeping countdowns (`CountdownMoves`), and to a reader's place among the consumers.
`OwnedOnce` has to count the instance a reader is opening as owned, or a reconnect could be
given what another session still opens. `TaskAssumption` asks for finitely many
readers, told apart from the stoppers and from `None`; nothing bounds their number, the
sessions' or the instances'.

**Link and manager.** `LinkStepOfNext` takes each step of a session to one of the link's or to a
stutter. The link's audience is the readers whose consumer has not been closed; it loses its picture all
at once because whoever reads has a consumer the session knows, or was told before
(`ReaderIsListed`), and every consumer it knows is such a reader's (`ConsumersRead`). The manager's step is a step of CameraSession whose owner
may stop it (`ManagerStepIsStep`), so nothing is proved of sessions twice; `TableFollowsSettings`
alone is inductive, with the types: a session that is built clears `pruned`, and only a prune
takes the override away from under one.

**Fan-out.** No property of one frame is inductive: whether a decoder has parameter sets for it
depends on everything queued before. `Served` says it of the way as a whole, from the frame the
muxer was given last, over the unit in the pump's hand, to the end of the queue: frames follow
one another (`InOrder`), sets are in front of the first frame or of none (`SetsComeFirst`), and
where none are on their way the queue goes on from what the muxer has (`FollowsOn`). An overflow
empties the queue and asks for sets, so it breaks the chain and the obligation together.
`FirstGroup` is the exception the code makes: a reader may start inside a group, once.

**Muxer.** `NoLeap` is not a matter of the clamp alone: a unit is written at its own time,
rebased, and only if the device's present, rebased, has been reached by the output
(`PresentIsReached`) does the discontinuity bound the step. That is the strengthening.
`MuxerAssumption` asks for integers and a positive discontinuity, nothing more.

**NAL units.** `Found` says that the codes found are exactly Annex B's codes before
`index` (`Passed`) and that the scan never stands inside one (`Aligned`); without the
second, a step past a code could skip the start of another. Nothing is assumed of the
bytes but that 0 and 1 are among them.

A unit ends where a code begins, so that no code is inside it follows from there being one code
to a place (`OneCodePerPlace`).

**Stills.** A decoder has an owner at any moment (`NoOrphan`) because sources are made in order
and only the last is seated, because a stop that waits has a process to wait for, and because
the viewer inside `create_subprocess_exec` is the only opener of its source, so its process is
still starting (`MadeInOrder`, `StopsMatch`, `OpenersOwn`). `StoppedIsToldAtOnce` is preserved together with
these. `PicturesMoveOn` needs besides that a call that woke holds a picture of its source newer
than the one it named (`CallMovesOn`); its `after` counts from zero for another source.

**Restreamer.** That one process lives (`OnlyTheLast`) needs only the supervisor: it spawns when
what it spawned last has ended. That go2rtc serves its file needs that whoever ends a process
still has it in hand: `_async_terminate` sets `_process` to `None` after its await, and if the
supervisor had spawned in between, a running go2rtc would have no handle and the next apply would
take it to be down. `VictimsEnd` says why it has not: the supervisor sleeps first
(`RestartDelay > 0`), and nobody waits that long to learn of an end. `FileServed` follows every
delivery at once: a stream of the file that go2rtc does not serve as the file has it is being seen
to, by a delivery that has still to reach it (`Delivers`) or by the end of go2rtc (`Ending`), unless
an overtaken delivery called about it last. A new table turns the deliveries under way into
overtaken ones and is itself one that has everything it changed still to do; a delivery that fails
ends go2rtc, which then boots from the file. Nothing is assumed of the number of refreshes, of the
tables or of what an earlier run left: what go2rtc serves beyond the file is what `FileIsServed`
does not speak of (section 6).

**Bridge.** Jobs interleave at every await and each works on what it read before it, so
`BridgeSound` says of each job what it may still rely on (`JobSound`): the build it was begun for
exists; a camera that was on the account since (`steady`) is in every answer it holds; and while it
describes the list for somebody, all that this requester was told of is in what it read, or
already in its registry. Others' steps can only take away from the latter (`Shrinks`) and bind only
to registries that are new and empty (`BindingMoves`). This proof found that what was told has to be
kept for each requester (2.5): with one record for all, TLC violates `NothingVanishes` as soon as
two requests overlap.

**Account.** A loop asks over an await and saves what comes back. That it does not write over a
newer account rests on `AsksForTheHeld`: while the question is under way the credentials are
still those it asked with, or gone: a sign-in and a restore replace the loop in the step in which
they set the credentials, and an unlinking leaves none.
`RestoresTheFile` is the same for the restore, up to the moment a request overtakes it; from there on
only `HeldIsStored`'s exception is left, which is the one of `StoredAccount`.

**Integration.** For any set of cameras, any lists and any sets of streams to tick, and no
bound on what happens (`MaxChanges` is any number). A bare identity keeps its picture because
all it was ever bound to is what the options, read by their version, make primary (`Picture`):
the migrations preserve that reading, a form carries it over, and only the platforms bind.
`MadeStays` is the agreement of the two decisions: every identity that was made, and is not a
second root of version 2, is one the options, once migrated, ask for (`Asked`), which `NewAsked` shows of what is created from any
poll's list and `AskedKept` of what a set-up deletes. It needs that a suffix is never the
primary stream's key, or a form that ticks that stream would seem to keep a different
identity. The condition on the lists (`ListsPrimary`) is what this add-on does; with a list
that has streams but not the primary one, `selected_streams` (streams.py:85) creates the first
that there is under an identity that is not wanted, and the next set-up deletes it.

## 5. What is only model-checked

Every safety invariant, action property and refinement that a passing run checks is a theorem.
What is left to TLC is liveness: `IdleSessionEnds` and `RequestIsAnswered` (CameraSession),
`ClosedReaderLeaves` (FanOut), `ViewerIsAnswered` and `UnwatchedDecodersEnd` (Stills), `Converges`
and `StopEndsIt` (Restreamer), `DueIsRenewed` (AccountManager), `Settles` (Bridge, Integration):
liveness under fairness, and `ENABLED`, are out of the proof system's reach. So is induction over
data; no property here needs it, since nothing that is proved about is recursive.

Conditions the theorems carry beyond the assumptions of the modules: `MadeIsKept` (lists that have
a primary stream, which is what this add-on sends), and `ManagerRunsSessions` and
`ManagerLosesNothing` (`OwnerMayStop`, which says that CameraSession has an owner at all). The
properties of section 6 are false of the code, and their counterexamples come from TLC.

## 6. Where code and comments disagree

Two are runs of their own, expected to be violated:

- `two_sessions_one_camera`: `_async_stop_one` (streaming.py:647) takes the entry out
  of the table before it awaits the stop. A request in between builds a second session,
  and both are live. `api.py:770-773` says waiting "closes the window entirely".
- `sessions_outlive_their_client`: `_unlink` (api.py:629) has the account tear its client
  down and only then refreshes, which is what shuts the sessions down: meanwhile they hold
  instances of a client that is gone. `__main__.py:313-314` says that "anything still
  holding one has to be torn down before it calls into freed memory".

The others have no configuration of their own; the property stays in its module and
fails with the constants named here (otherwise those of the passing run).

| Property (module) | Constants | What happens | What is said |
|---|---|---|---|
| `CountdownEndsIdleOnly` (CameraSession) | `Faults = {}`, `OwnerMayStop = FALSE` | the countdown sees no user, drops its handle and queues for the lock that a returning reader holds; the reader is counted and waits for its parameter sets, and the countdown then stops its session | streaming.py:81-83: a client reconnecting within the grace period "reuses the live session" |
| `NoLostInstance` (CameraSession) | `Faults = {"start"}` | `start_async` raises after the instance was created; nothing refers to it any more and nothing stops it. The same holds of the status and register calls; `LostOnlyByRaising` says it happens in no other way | streaming.py:4-6: sessions "stop after the last one leaves, so an idle camera costs neither bandwidth nor a held-open connection" |
| `CodecKnownAtHandout` (CameraSession, as a property) | `Faults = {}` | a teardown clears the codec and sets the event a new reader waits on (streaming.py:307), so it is handed a consumer nothing feeds, with no codec known; the code then takes H.265 (streaming.py:179). `FedUntilTold` exempts this reader | streaming.py:171: "known by the time a consumer is handed out" |
| `EndedSessionClosesReaders` (SessionManager) | two readers | a reader woken by the teardown registers after the consumers were closed; its session is no longer in the table and nobody closes it | framing.py:51-54: "Set when the session ends" |
| `TableFollowsPrunes` (SessionManager) | those of `session_manager` | a camera joins and gets a session while a refresh is under way; `settings.prune`, called with the older list (`__main__.py:242`), deletes its override and leaves the session, built from it, in the table. `TableFollowsSettings` exempts it | api.py:745-746: "Dropping the cached session is what forces that decision to be remade" |
| `OpensWithCurrentSettings` (SessionManager, as a property) | two readers | the defaults change; a session object in the table that is not running keeps those it was built from and opens with them | streaming.py:577-584: settings are "read once, at that moment" when a session opens |
| `ReapsUnwatchedOnly` (Stills, as a property) | `Viewer = {v1, v2}`, `Snapshots = {TRUE}`, `FirstFrame = 3`, `MaxPictures = 1`, `MayStop = FALSE` | `idle_for` counts from the start of the last request (stills.py:377); 15 s are idle, and a first picture may take 20 s: the reaper retires a source that is awaited | stills.py:674: "Stop sources nobody is watching" |
| `NobodyJoinsTheDead` (Stills, as a property) | `Snapshots = {TRUE}`, `MaxPictures = 1` | a source whose ffmpeg exited stays in the table until reaped; a new request joins it and waits | stills.py:610-612: later callers "would wait out the timeout for frames that can never arrive" |
| `NothingRunsAtExit` (Stills) | `MayStop = TRUE` | previews are shut down first and the API last; a request in between opens a decoder nobody ends | stills.py:652-654: "on the way out" the processes are protected "from being orphaned" |
| `RestartReturnsUp` (Restreamer, as a property) | `Name = {"main"}`, `RestartDelay = Attempts = 2`, `MayStop = FALSE`, under `Spec` | the readiness wait after a restart lasts 20 x 0.25 s and the supervisor sleeps 5 s before it spawns (restream.py:796): `async_restart` returns with nothing running, and logs an error | restream.py:793: a restart returns once "go2rtc is up" |
| `QuietRunsFile` (Restreamer), two callers | tables that lose no stream | two refreshes deliver at once; the older one goes on after its await (restream.py:714) with calls the newer table no longer wants, and they land last. `FileIsServed` exempts those streams | restream.py:653: "Make the running configuration match"; 746-748: never "in a state no file describes" |
| `QuietRunsFile`, a table that loses a stream | `Caller = {c1}`, `Earlier = {Empty}` | `PUT` wrote the stream to go2rtc's own file; the delivery of its removal fails, and the restart, which is to put that right, boots from both files and the stream is back. `FileIsServed` speaks of the file's streams only | go2rtc_api.py:10-11: the restart "is always correct" |
| `QuietRunsFile`, a file left from an earlier run | `Caller = {c1}`, `Earlier` with more streams than the first table | go2rtc boots from the old file; the first apply takes it to run nothing and delivers what to add, so a camera that has left stays published | restream.py:653, as above |
| `NoOrphan` (Restreamer) | `Refusals = FALSE` | a stop cancels the supervisor while its spawn is under way: the shielded spawn goes on, and its handle is assigned to nobody | restream.py:820-823: a cancellation "cannot leave a process running that nothing holds a handle to" |
| `StopIsFinal` (Restreamer) | those of `restreamer` | an apply after the restreamer stopped, from a request the API still serves, starts the supervisor again | `__main__.py:419-420`: go2rtc is "not left orphaned holding the RTSP port" |
| `NothingPublishedUnlinked` (Bridge) | those of `bridge` | a refresh that is under way when the account is unlinked publishes its table after the unlinking's empty one; the loop's next refresh returns early without a registry and never takes it back | nothing in words; `__main__.py:332-334` applies an empty table when there is no client |
| `PromotesLive` (AccountManager, as a property) | those of `account`, under `Spec` | `async_complete_link` promotes the client it read before its await (account.py:156); a second sign-in or an unlinking has discarded it meanwhile (account.py:300-307), so every renewal with it fails and the loop retries for ever. `DueIsRenewed` exempts a client that was torn down | account.py:153-154: "The pending client already holds a live session" |
| `RootSurvivesRename` (Integration, as a property) | those of `integration`, under `Spec` | the root of a version 2 entry whose primary stream is h264 is the entity `<did>_h265`; the migration renames the stream, `<did>_original` is wanted, and the next set-up deletes the entity with its history and pairings (selection.py:80-82). `WhatIsMadeIsKept` exempts it | streams.py:149-150: "the entity's identity and behaviour survive the rename" |
| `DeselectedDisappears` (Integration) | those of `integration`, under `Spec` | the form opens as soon as `runtime_data` is set, and the update listener is added after the await of the platforms (`__init__.py:95-96`): a form saved in between reloads nothing, and what it turned down keeps its entities | `__init__.py:83-85`: "a deselected camera disappears instead of lingering as permanently unavailable" |
| `SettlesAlways` (Integration, as a property) | `Did = {"hall"}` | a health call takes its whole timeout; `_get_json` catches `aiohttp.ClientError` only (api.py:138-151), the `TimeoutError` leaves `async_setup_entry`, and Home Assistant does not retry the entry; or a form is saved as above. `Settles` exempts both | nothing in words; `__init__.py:72-77` turns an add-on that does not answer into "not ready" |
| `RepairIsWithdrawn` (Integration) | `Did = {"hall"}`, `MaxChanges = 4`, under `Spec` | the sign-in repair is raised, the entry is reloaded, and the new coordinator, which counted no failure, does not withdraw it when a poll succeeds (coordinator.py:66) | coordinator.py:94-95: it "withdraws itself once the add-on reports a session" |
| `OutdatedMeansOld` (Integration) | those of `integration`, under `Spec` | the add-on lists no streams of a camera it has no address of (api.py:418-421); if all are such, it is called outdated | coordinator.py:26: "raised when the add-on is too old to declare streams" |
| `UnofferedIsUntouched` (Integration, as a property) | those of `integration`, under `Spec` | a form opened while a camera, or a camera's streams, is missing replaces every choice when it is saved: the exclusion or the streams chosen before are gone (config_flow.py:474, 663-678) | streams.py:107-109: a stream missing from a poll "must not authorise deleting its entity" |

The passing runs hold in spite of these, each property saying in its comment what it exempts;
`Converges` and `OneGo2rtc` speak of the time before a stop.

Some behaviours contradict no comment, but a reader of the code will want to know them.

- account.py:116: two sign-ins that begin at once leave one client initialised that nothing
  refers to, and linking over an account leaves the old client as it is.
- account.py:192-206: an unlinking during the restore is undone by it, because the profile is
  saved and the client assigned after the awaits. This is the exception of `StoredAccount`.
- settings.py:225: an override written for a camera that joined the account while a refresh was
  under way is deleted with it, since the list the refresh prunes by is older. That is why
  `OverridesOutlive` speaks of cameras that were there when the refresh began; what it does to
  a session is `TableFollowsPrunes`, above.
- `__main__.py:327`: two refreshes in the binding at once both build; a request served
  from the manager that lost opens a session that is in no table. No property covers
  it: what ends such a session is its own countdown.
- coordinator.py:56: polls that fail for another reason neither count nor reset the count,
  and set-ups against an account that is not linked never get to five, each being a first poll.

## 7. What is left out of the models

- Payloads, wording, logging, statistics and metrics, except where a flag stands for them.
- Cancellation of a request's task by aiohttp (a client that disconnects leaves at
  the next write in the model), and KeyboardInterrupt.
- In Restreamer: what a stream's source string says, a go2rtc that ignores signals past
  its timeout, and a full disk. In Stills: two keys at once, which share nothing but the
  reaper's loop. In FanOut: what a muxer does with a unit it drops (StreamMuxer's part).
- In StreamMuxer: stamps near 2^62, which a container reaches after a hundred million years.
- In Bridge: what the restreamer and the sessions do with what they are handed (their own
  modules), the stop (in Stills and Restreamer, each with its own part), and the steps of a
  compatibility sign-in. In AccountManager: the bytes of the file, and a save that fails.
- In Integration: discovery and the supervisor's part of the config flow, the second unfinished
  flow Home Assistant refuses, and what entities show of a camera.
- The components listed as not modelled in PROJECT.json, with reasons.

## 8. Plan

In this order, the most important first:

1. **JpegSplitter** (stills.py:419-455) and **CodecDetection** (nal.py:98-154): functions over
   short byte strings against a definition, for every way to cut them.
2. **LoginPenalty** (api.py:981-1038): concurrent attempts and eviction; **PreviewCard**
   (CameraCard.svelte): sockets, timer and user.
3. Proofs about what the bridge composes: that the steps a refresh takes are among the inputs
   CameraSession and AccountManager allow, as `ManagerRunsSessions` shows for the manager.

Modules that will be proved about use no RECURSIVE operator, declare their assumptions
on constants by name and have one action per operation, as those above.
