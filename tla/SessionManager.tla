---------------------------- MODULE SessionManager -----------------------------
(***************************************************************************)
(* bridge/streaming.py's SessionManager over the sessions of one camera,   *)
(* with the settings its resolver reads and the handlers of bridge/api.py  *)
(* that write them.  Cameras share nothing in the manager, so one camera   *)
(* stands for each.  The lifetime of a session is CameraSession's; here    *)
(* the owner's stop is a drop: the entry leaves the table first, then the  *)
(* session is stopped, and whoever asks in between builds another one.     *)
(***************************************************************************)
EXTENDS CameraSession

CONSTANT Quality  \* the picture settings a session is opened with

ASSUME ManagerAssumption == None \notin Quality

VARIABLES
  table,     \* the camera's entry in _sessions
  built,     \* the settings each session object was resolved from
  default,   \* Defaults.quality
  override,  \* CameraOverride.quality
  official,  \* whether the camera resolves onto the official path
  pruned     \* history: whether settings.prune took the override the session in
             \* the table was built from; nothing reads it

managerVars == <<table, built, default, override, official, pruned>>
allVars == <<vars, managerVars>>

ManagerInit ==
  /\ Init
  /\ table = None
  /\ built = [s \in Session |-> None]
  /\ default \in Quality
  /\ override = None
  /\ official = TRUE
  /\ pruned = FALSE

Stored == [default |-> default, override |-> override]

\* settings.resolve for the one field a session keeps.
Resolved(settings) ==
  IF settings.override = None THEN settings.default ELSE settings.override

\* A session object nothing refers to: a new one, as far as anybody can tell.
Unused(s) ==
  /\ s # table
  /\ lock[s] = None /\ instance[s] = None /\ lingerTask[s] = None
  /\ ~codec[s] /\ ~parameterSets[s]
  /\ \A t \in Task : on[t] # s
  /\ \A i \in Instance : feeds[i] # s

\* session_for: the entry, or a session built from the settings of this moment.
SessionFor(s) ==
  /\ IF table = None THEN Unused(s) /\ official ELSE s = table
  /\ table' = s
  /\ built' = IF table = None THEN [built EXCEPT ![s] = Stored] ELSE built
  /\ pruned' = (pruned /\ table # None)
  /\ UNCHANGED <<default, override, official>>

\* _stream and every other reader that goes on to subscribe.
Ask(r, s) == SessionFor(s) /\ Request(r, s)

\* _keyframe_interval asks for the session and only reads its statistics.
Peek(s) == table = None /\ SessionFor(s) /\ UNCHANGED vars

\* _async_stop_one: popped, then stopped; nothing there, nothing done.
StopOne(p) ==
  /\ table' = None
  /\ pruned' = FALSE
  /\ UNCHANGED built
  /\ IF table = None THEN UNCHANGED vars ELSE OwnerStop(p, table)

\* Mutation: the session outlives the settings it was opened with.
SetCameraSettingsKeeps(p, value, isOfficial) ==
  /\ <<value, isOfficial>> # <<override, official>>
  /\ override' = value
  /\ official' = isOfficial
  /\ UNCHANGED <<default, table, built, pruned, vars>>

\* _set_camera_settings: the override is written and the session dropped with
\* no await in between.
SetCameraSettings(p, value, isOfficial) ==
  /\ <<value, isOfficial>> # <<override, official>>
  /\ override' = value
  /\ official' = isOfficial
  /\ UNCHANGED default
  /\ StopOne(p)

\* _set_defaults: written, and the stream table refreshed; no session is told.
SetDefaults(value) ==
  /\ value # default
  /\ default' = value
  /\ UNCHANGED <<table, built, override, official, pruned, vars>>

\* settings.prune at the end of a refresh: the camera's whole override goes, the
\* path it may have chosen with it, and no session is told.  It happens to a camera
\* that is missing from the list the refresh read before its awaits: one that has
\* left, or one that joined, and was given a session, since.
Prune(isOfficial) ==
  /\ <<None, isOfficial>> # <<override, official>>
  /\ override' = None
  /\ official' = isOfficial
  /\ pruned' = (table # None)
  /\ UNCHANGED <<default, table, built, vars>>

\* async_prune of a camera that is gone, async_shutdown on unlink or exit.
Drop(p) ==
  /\ table # None
  /\ StopOne(p)
  /\ UNCHANGED <<default, override, official>>

ManagerNext ==
  \/ Run /\ UNCHANGED managerVars
  \/ \E r \in Reader, s \in Session : Ask(r, s)
  \/ \E s \in Session : Peek(s)
  \/ \E p \in Stopper, value \in Quality \cup {None}, isOfficial \in BOOLEAN :
       SetCameraSettings(p, value, isOfficial)
  \/ \E value \in Quality : SetDefaults(value)
  \/ \E isOfficial \in BOOLEAN : Prune(isOfficial)
  \/ \E p \in Stopper : Drop(p)

ManagerSpec == ManagerInit /\ [][ManagerNext]_allVars
--------------------------------------------------------------------------------
\* "Dropping the cached session is what forces that decision to be remade": the
\* session in the table is on the official path and was built from the override
\* that holds now, so no reader that arrives after a write gets the old picture.
\* Exempt is the session whose camera's override settings.prune deleted under it,
\* until the entry leaves the table: TableFollowsPrunes says it of that one too,
\* and is false of the code.
TableFollowsSettings ==
  table # None => pruned \/ (official /\ built[table].override = override)

\* The same without the exemption.
TableFollowsPrunes ==
  table # None => official /\ built[table].override = override

Live(s) == instance[s] # None \/ \E r \in Reader : on[r] = s /\ opening[r] # None

\* "Waiting for async_reload to return closes the window entirely": never two
\* peer-to-peer sessions for the same physical camera.
OneLiveSession == \A s1, s2 \in Session : Live(s1) /\ Live(s2) => s1 = s2

\* "Picture size and audio are negotiated when a peer-to-peer session opens ...
\* each camera's settings are read once, at that moment, via `resolver`": a reader
\* that finds nothing running is given a session built from the current settings.
OpensWithCurrentSettings ==
  [][\A r \in Reader :
       LET s == on'[r]
       IN  reader[r] = "idle" /\ reader'[r] = "prepare" /\ instance[s] = None
             /\ lock[s] = None => Resolved(built'[s]) = Resolved(Stored)]_allVars

\* "Set when the session ends, so the reader stops waiting on the queue": once
\* a session is over and out of the table, none of its readers waits unclosed.
EndedSessionClosesReaders ==
  \A r \in Reader :
    reader[r] = "reading" /\ instance[on[r]] = None /\ lock[on[r]] = None
      => closed[r]
================================================================================
