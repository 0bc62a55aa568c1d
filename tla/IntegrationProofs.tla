--------------------------- MODULE IntegrationProofs ---------------------------
(***************************************************************************)
(* What the integration keeps for any number of cameras, any lists the     *)
(* add-on gives and any sets of streams a user may tick, however long it   *)
(* runs.                                                                   *)
(***************************************************************************)
EXTENDS Integration, FiniteSetTheorems, TLAPS

\* The picture a bare identity shows, by the options or by an earlier version.
Picture == IF version = 3 THEN options.primary ELSE ShownBefore(options)

\* What the entry, the coordinator and an open form hold.
EntryOK ==
  /\ version \in 1..3 /\ options \in Options
  /\ bridge \in Answers /\ data \in Cameras
  /\ form \in [open : BOOLEAN, seen : Cameras]
  /\ version # 3 => phase = "off" /\ ~form.open
  /\ version = 2 => options.primary # None

\* Before there is an entry nothing was shown; later only one picture is.
PictureStays ==
  /\ shown \in [Did -> SUBSET (Key \cup {None})]
  /\ \A d \in Did : shown[d] \subseteq {Picture}
  /\ phase = "none" => version = 3 /\ \A d \in Did : shown[d] = {}

\* The lists are of this account's cameras.
LEMMA CamerasListed ==
  /\ Nobody \in Cameras
  /\ \A c \in Cameras : DOMAIN c \subseteq Did /\ \A d \in DOMAIN c : c[d] \in Lists
BY DEF Nobody, Cameras

\* What the bridge says, it says of a list of cameras.
LEMMA AnswersCameras ==
  ASSUME NEW b \in Answers
  PROVE  b.cameras \in Cameras
BY CamerasListed DEF Answers

\* An entry's options are as they are stored, whatever version wrote them.
LEMMA MigratedOK ==
  ASSUME EntryOK
  PROVE  Migrated \in Options /\ Migrated.primary = Picture
<1>1. Root \in Key /\ "h264" \in Key /\ None \notin Key
  BY IntegrationAssumption DEF Key
<1>2. options \in Options /\ version \in 1..3
  BY DEF EntryOK
<1>3. ASSUME NEW o \in Options
      PROVE  FromV2(o) \in Options
  <2>. DEFINE New(k) == IF k = "h265" THEN Root ELSE k
              Renamed == [d \in Did |-> {New(k) : k \in o.streams[d]}]
  <2>1. o.streams \in [Did -> SUBSET Key] /\ o.primary \in Key \cup {None}
    BY DEF Options
  <2>2. \A k \in Key : New(k) \in Key
    BY <1>1
  <2>3. \A d \in Did : {New(k) : k \in o.streams[d]} \subseteq Key
    BY <2>1, <2>2
  <2>4. Renamed \in [Did -> SUBSET Key]
    BY <2>3
  <2>5. New(o.primary) \in Key \cup {None}
    BY <2>1, <2>2, <1>1
  <2>6. FromV2(o) = [o EXCEPT !.primary = New(o.primary), !.streams = Renamed]
    BY DEF FromV2
  <2>. HIDE DEF New, Renamed
  <2>. QED  BY <2>4, <2>5, <2>6 DEF Options
<1>4. \A o \in Options : FromV1(o) \in Options
  BY <1>1 DEF FromV1, Options
<1>5. \A o \in Options : FromV2(o).primary = IF o.primary = "h265" THEN Root ELSE o.primary
  BY DEF FromV2, Options
<1>6. \A o \in Options : FromV1(o).primary = IF o.primary = None THEN "h264" ELSE o.primary
  BY DEF FromV1, Options
<1>7. CASE version = 1
  BY <1>2, <1>3, <1>4, <1>5, <1>6, <1>7 DEF Migrated, Picture, ShownBefore
<1>8. CASE version = 2
  BY <1>2, <1>3, <1>5, <1>8 DEF Migrated, Picture, ShownBefore, EntryOK
<1>9. CASE version = 3
  BY <1>2, <1>9 DEF Migrated, Picture
<1>. QED  BY <1>2, <1>7, <1>8, <1>9

\* A form that was filled in is options again, with the primary it was given.
LEMMA FilledOK ==
  ASSUME NEW seen \in Cameras, NEW primary \in Key \cup {None}, NEW o \in Filled(seen, primary)
  PROVE  /\ o \in Options /\ o.primary = primary
         /\ o.listed /\ o.excluded = DOMAIN seen \ o.cameras
<1>. DEFINE Ticked(c) == {ks \in [c \cap Offering(seen) -> Ticks] :
                             \A d \in DOMAIN ks : ks[d] # {} /\ ks[d] \subseteq ToSet(seen[d])}
             Form(c) == [chosen : {c}, auto : BOOLEAN, keys : Ticked(c)]
<1>1. PICK f \in UNION {Form(c) : c \in SUBSET DOMAIN seen} :
         o = OptionsFrom(seen, f.chosen, f.auto, f.keys, primary)
  BY DEF Filled
<1>2. PICK c \in SUBSET DOMAIN seen : f \in Form(c)
  BY <1>1
<1>3. f.keys \in [c \cap Offering(seen) -> Ticks] /\ f.chosen = c /\ f.auto \in BOOLEAN
  BY <1>2
<1>4. \A t \in Ticks : t \subseteq Key
  BY DEF Key
<1>5. DOMAIN seen \subseteq Did
  BY CamerasListed
<1>6. \A d \in DOMAIN f.keys : f.keys[d] \subseteq Key
  BY <1>3, <1>4
<1>. QED  BY <1>1, <1>2, <1>3, <1>5, <1>6 DEF OptionsFrom, Options

\* The options of a new entry.
LEMMA UnsetOK == Unset \in Options /\ Unset.primary = Root
BY DEF Unset, Options, Key

\* What an entry of an earlier version may hold.
LEMMA ChosenOK ==
  \A o \in Chosen \cup {Unset} : o \in Options /\ o.streams = [d \in Did |-> {}]
<1>1. Unset \in Options /\ Unset.streams = [d \in Did |-> {}]
  BY UnsetOK DEF Unset
<1>. DEFINE Listing(a, c) ==
           [Unset EXCEPT !.auto = a, !.excluded = Did \ c, !.listed = TRUE, !.cameras = c]
<1>2. ASSUME NEW a \in BOOLEAN, NEW c \in SUBSET Did
      PROVE  Listing(a, c) \in Options /\ Listing(a, c).streams = [d \in Did |-> {}]
  BY <1>1 DEF Options
<1>3. Chosen = {Listing(a, c) : a \in BOOLEAN, c \in SUBSET Did}
  BY DEF Chosen
<1>. HIDE DEF Listing
<1>4. ASSUME NEW o \in Chosen
      PROVE  o \in Options /\ o.streams = [d \in Did |-> {}]
  <2>1. PICK a \in BOOLEAN, c \in SUBSET Did : o = Listing(a, c)
    BY <1>3
  <2>. QED  BY <1>2, <2>1, Zenon
<1>. QED  BY <1>1, <1>4

\* The three beginnings: a new entry, or one that an earlier version wrote.
FromOne ==
  \E o \in Chosen \cup {Unset}, p \in {None, "h264", Root} : options = [o EXCEPT !.primary = p]

TwoStreams(o, ks) == [d \in Did |-> IF d \in o.cameras THEN ks ELSE {}]

FromTwo ==
  \E o \in Chosen \cup {Unset}, p \in {"h264", "h265"}, ks \in SUBSET {"h264", "h265"} :
    options = [[o EXCEPT !.primary = p] EXCEPT !.streams = TwoStreams(o, ks)]

LEMMA InitRest ==
  ASSUME Init
  PROVE  /\ \/ version = 3 /\ phase = "none" /\ options = Unset
            \/ version = 1 /\ phase = "off" /\ FromOne
            \/ version = 2 /\ phase = "off" /\ FromTwo
         /\ registry = IF phase = "none" THEN {} ELSE Before(version, options)
         /\ shown = [d \in Did |-> IF <<d, Bare>> \in registry THEN {ShownBefore(options)} ELSE {}]
         /\ bridge = [says |-> "down", cameras |-> Nobody] /\ data = Nobody
         /\ made = registry /\ second = {u \in registry : u[2] = "h265"}
         /\ form = [open |-> FALSE, seen |-> Nobody]
BY Zenon DEF Init, FromOne, FromTwo, TwoStreams

LEMMA EntryInit == Init => EntryOK
<1>. SUFFICES ASSUME Init
              PROVE  EntryOK
  OBVIOUS
<1>1. {"h264", "h265", Root} \subseteq Key /\ None \notin {"h264", "h265", Root}
  BY DEF Key, Root, None
<1>2. bridge \in Answers /\ data \in Cameras /\ form \in [open : BOOLEAN, seen : Cameras]
  <2>1. bridge = [says |-> "down", cameras |-> Nobody] /\ data = Nobody /\ form = [open |-> FALSE, seen |-> Nobody]
    BY InitRest, Zenon
  <2>. QED  BY <2>1, CamerasListed DEF Answers
<1>3. CASE version = 3 /\ phase = "none" /\ options = Unset
  BY <1>2, <1>3, UnsetOK DEF EntryOK
<1>4. CASE version = 1 /\ phase = "off" /\ FromOne
  <2>1. PICK o \in Chosen \cup {Unset}, p \in {None, "h264", Root} :
          options = [o EXCEPT !.primary = p]
    BY <1>4 DEF FromOne
  <2>2. options \in Options
    BY <1>1, <2>1, ChosenOK DEF Options
  <2>. QED  BY <1>2, <1>4, <2>2, InitRest DEF EntryOK
<1>5. CASE version = 2 /\ phase = "off" /\ FromTwo
  <2>1. PICK o \in Chosen \cup {Unset}, p \in {"h264", "h265"}, ks \in SUBSET {"h264", "h265"} :
          options = [[o EXCEPT !.primary = p] EXCEPT !.streams = TwoStreams(o, ks)]
    BY <1>5 DEF FromTwo
  <2>2. TwoStreams(o, ks) \in [Did -> SUBSET Key]
    BY <1>1 DEF TwoStreams
  <2>3. [o EXCEPT !.primary = p] \in Options
    BY <1>1, <2>1, ChosenOK DEF Options
  <2>4. options \in Options /\ options.primary = p
    BY <1>1, <2>1, <2>2, <2>3 DEF Options
  <2>. QED  BY <1>1, <1>2, <1>5, <2>4, InitRest DEF EntryOK
<1>. QED  BY <1>3, <1>4, <1>5, InitRest

LEMMA EntryStep ==
  ASSUME EntryOK, [Next]_vars
  PROVE  EntryOK'
<1>. USE DEF entry, issues, entities
<1>1. CASE Set
  BY <1>1, AnswersCameras
     DEF EntryOK, Set, Progress, SetUp, SetUpFails, SetUpErrors, Platforms, SetUpEnds
<1>2. CASE Poll
  BY <1>2, AnswersCameras DEF EntryOK, Poll, Polled, PollFails, Polling
<1>3. CASE Reload
  BY <1>3, CamerasListed DEF EntryOK, Reload, Unloaded
<1>4. CASE Start
  BY <1>4, CamerasListed, MigratedOK DEF EntryOK, Start, Unloaded
<1>5. CASE Create
  <2>1. bridge.cameras \in Cameras /\ Root \in Key
    BY AnswersCameras DEF EntryOK, Key
  <2>2. options' \in Options
    BY <1>5, <2>1, UnsetOK, FilledOK DEF Create
  <2>. QED  BY <1>5, <2>2 DEF EntryOK, Create
<1>6. CASE OpenForm
  BY <1>6 DEF EntryOK, OpenForm
<1>7. CASE Save
  <2>1. form.seen \in Cameras /\ options.primary \in Key \cup {None}
    BY DEF EntryOK, Options
  <2>2. options' \in Options /\ options'.primary = options.primary
    BY <1>7, <2>1, FilledOK DEF Save
  <2>. QED  BY <1>7, <2>2, CamerasListed DEF EntryOK, Save
<1>8. CASE BridgeChanges
  BY <1>8 DEF EntryOK, BridgeChanges
<1>9. CASE UNCHANGED vars
  BY <1>9 DEF EntryOK, vars
<1>. QED  BY <1>1, <1>2, <1>3, <1>4, <1>5, <1>6, <1>7, <1>8, <1>9 DEF Next

\* The entry, whatever the bridge answers and the user saves, is options of some
\* version, and only one that is off is of an earlier one.
THEOREM EntryIsOptions == Spec => []EntryOK
<1>1. Init => EntryOK
  BY EntryInit
<1>2. EntryOK /\ [Next]_vars => EntryOK'
  BY EntryStep
<1>. QED  BY <1>1, <1>2, PTL DEF Spec
--------------------------------------------------------------------------------
(* One picture. *)

LEMMA PictureInit == Init => PictureStays
<1>. SUFFICES ASSUME Init
              PROVE  PictureStays
  OBVIOUS
<1>1. options \in Options
  BY EntryInit DEF EntryOK
<1>2. ShownBefore(options) \in Key \cup {None}
  BY <1>1 DEF ShownBefore, Options, Key
<1>3. shown \in [Did -> SUBSET (Key \cup {None})]
  <2>1. shown = [d \in Did |-> IF <<d, Bare>> \in registry THEN {ShownBefore(options)} ELSE {}]
    BY InitRest, Zenon
  <2>. QED  BY <1>2, <2>1
<1>4. CASE phase = "none"
  BY <1>3, <1>4, InitRest DEF PictureStays
<1>5. CASE phase # "none"
  <2>1. version # 3
    BY <1>5, InitRest
  <2>. QED  BY <1>3, <1>5, <2>1, InitRest DEF PictureStays, Picture
<1>. QED  BY <1>4, <1>5

\* Entities show on the bare identity what is primary under these options.
LEMMA AddNewShows ==
  ASSUME PictureStays, options \in Options, version = 3, phase # "none", phase' # "none", UNCHANGED entry,
         NEW cams, NEW known, AddNew(cams, known)
  PROVE  PictureStays'
<1>1. Picture' = Picture /\ Picture = options.primary /\ options.primary \in Key \cup {None}
  BY DEF Picture, entry, Options
<1>2. PICK f : shown' = [d \in Did |-> shown[d] \cup ({options.primary} \cap f[d])]
  <2>. DEFINE new == Entities(options, cams) \ known
              g == [d \in Did |-> {e[2] : e \in {x \in new : x[1] = d}}]
  <2>1. shown' = [d \in Did |-> shown[d] \cup ({options.primary} \cap g[d])]
    BY DEF AddNew
  <2>. HIDE DEF g
  <2>. QED  BY <2>1
<1>. QED  BY <1>1, <1>2 DEF PictureStays

LEMMA PictureStep ==
  ASSUME EntryOK, PictureStays, [Next]_vars
  PROVE  PictureStays'
<1>. USE DEF entry, issues, entities
<1>0. options \in Options
  BY DEF EntryOK
<1>1. CASE Platforms
  <2>1. version = 3 /\ phase # "none" /\ phase' # "none" /\ UNCHANGED entry
    BY <1>1 DEF Platforms, EntryOK
  <2>. QED  BY <1>0, <1>1, <2>1, AddNewShows DEF Platforms
<1>2. CASE SetUp \/ SetUpFails \/ SetUpErrors \/ SetUpEnds
  BY <1>2 DEF SetUp, SetUpFails, SetUpErrors, SetUpEnds, PictureStays, Picture
<1>3. CASE Polled
  <2>1. version = 3 /\ phase # "none" /\ phase' # "none" /\ UNCHANGED entry
    BY <1>3 DEF Polled, Polling, EntryOK
  <2>. QED  BY <1>0, <1>3, <2>1, AddNewShows DEF Polled
<1>4. CASE PollFails
  <2>1. version = 3 /\ phase # "none" /\ phase' # "none" /\ UNCHANGED entry
    BY <1>4 DEF PollFails, Polling, EntryOK
  <2>2. CASE AddNew(data, live)
    BY <1>0, <2>1, <2>2, AddNewShows
  <2>3. CASE UNCHANGED entities
    BY <2>1, <2>3 DEF PictureStays, Picture
  <2>. QED  BY <1>4, <2>2, <2>3 DEF PollFails
<1>5. CASE Reload
  BY <1>5 DEF Reload, Unloaded, PictureStays, Picture
<1>6. CASE Start
  <2>1. Picture' = Picture
    BY <1>6, MigratedOK DEF Start, Picture
  <2>. QED  BY <1>6, <2>1 DEF Start, Unloaded, PictureStays
<1>7. CASE Create
  BY <1>7 DEF Create, PictureStays
<1>8. CASE OpenForm
  BY <1>8 DEF OpenForm, PictureStays, Picture
<1>9. CASE Save
  <2>1. version = 3 /\ form.seen \in Cameras /\ options.primary \in Key \cup {None}
    BY <1>9 DEF EntryOK, Options, Save
  <2>2. options'.primary = options.primary
    BY <1>9, <2>1, FilledOK DEF Save
  <2>. QED  BY <1>9, <2>1, <2>2 DEF Save, PictureStays, Picture
<1>10. CASE BridgeChanges
  BY <1>10 DEF BridgeChanges, PictureStays, Picture
<1>11. CASE UNCHANGED vars
  BY <1>11 DEF vars, PictureStays, Picture
<1>. QED  BY <1>1, <1>2, <1>3, <1>4, <1>5, <1>6, <1>7, <1>8, <1>9, <1>10, <1>11 DEF Next, Set, Progress, Poll

\* For any number of cameras and any lists of streams, what a bare identity shows is
\* one picture for good.
THEOREM BareIsOnePicture == Spec => []BareKeepsPicture
<1>1. Init => EntryOK /\ PictureStays
  BY EntryInit, PictureInit
<1>2. EntryOK /\ PictureStays /\ [Next]_vars => (EntryOK /\ PictureStays)'
  BY EntryStep, PictureStep
<1>3. PictureStays => BareKeepsPicture
  <2>. SUFFICES ASSUME PictureStays, NEW d \in Did
                PROVE  Cardinality(shown[d]) <= 1
    BY DEF BareKeepsPicture
  <2>1. shown[d] \in SUBSET {Picture}
    BY DEF PictureStays
  <2>2. IsFiniteSet({Picture}) /\ Cardinality({Picture}) = 1
    BY FS_Singleton
  <2>. QED  BY <2>1, <2>2, FS_Subset
<1>. QED  BY <1>1, <1>2, <1>3, PTL DEF Spec
--------------------------------------------------------------------------------
(* What is made is kept, if every list that has streams has those that can be *)
(* primary: the add-on lists them by one rule for all cameras.                *)

ListsPrimary == \A l \in Lists : l = <<>> \/ {Root, "h264"} \subseteq ToSet(l)

Everyone == [d \in Did |-> <<>>]

\* These options ask for the identity u, and go on doing so when they are migrated.
Asked(u) ==
  /\ u[1] \in Selected(Migrated, Did) /\ u[2] # Migrated.primary
  /\ u[2] = Power \/ u \in WantedUniqueIds(Migrated, Everyone)

MadeStays ==
  /\ Picture \in {Root, "h264"}
  /\ phase = "none" => version = 3 /\ made = {}
  /\ \A u \in made : u \in second \/ (u \in registry /\ Asked(u))

\* A wanted identity is a pair of a camera and what these options make of one of its
\* streams.
LEMMA WantedPair ==
  ASSUME NEW o, NEW cams, NEW u
  PROVE  u \in WantedUniqueIds(o, cams) <=>
           \E d \in DOMAIN cams : \E k \in IF o.streams[d] = {} THEN {o.primary} ELSE o.streams[d] :
             u = UniqueId(d, k, o.primary)
BY DEF WantedUniqueIds

\* The suffixes of identities are not streams.
LEMMA SuffixesApart ==
  /\ Bare \notin Key /\ Power \notin Key /\ Bare # Power
  /\ {Root, "h264", "h265"} \subseteq Key
<1>1. {Root, "h264", "h265"} \subseteq Key
  BY DEF Key
<1>2. Bare \notin Key /\ Power \notin Key
  BY IntegrationAssumption
<1>3. Bare # Power
  BY DEF Bare, Power
<1>. QED  BY <1>1, <1>2, <1>3

\* What the platforms create, the set-up keeps.
LEMMA NewAsked ==
  ASSUME ListsPrimary, EntryOK, version = 3, options.primary \in {Root, "h264"},
         NEW cams \in Cameras, NEW u \in Ids(Entities(options, cams))
  PROVE  Asked(u)
<1>1. PICK e \in Entities(options, cams) : u = UniqueId(e[1], e[2], options.primary)
  BY DEF Ids
<1>2. PICK d \in Selected(options, DOMAIN cams) :
        \E k \in SelectedStreams(options, d, cams[d]) \cup {Power} : e = <<d, k>>
  BY <1>1 DEF Entities
<1>3. PICK k \in SelectedStreams(options, d, cams[d]) \cup {Power} : u = UniqueId(d, k, options.primary)
  BY <1>1, <1>2
<1>4. Migrated = options /\ options.primary \in Key
  BY SuffixesApart DEF Migrated
<1>5. DOMAIN cams \subseteq Did /\ d \in DOMAIN cams /\ cams[d] \in Lists
  BY <1>2, CamerasListed DEF Selected
<1>6. d \in Selected(options, Did) /\ d \in Did
  BY <1>2, <1>5 DEF Selected
<1>7. u[1] = d /\ u[2] # options.primary
  BY <1>3, <1>4, SuffixesApart DEF UniqueId
<1>8. CASE k = Power
  BY <1>3, <1>4, <1>6, <1>7, <1>8, SuffixesApart DEF Asked, UniqueId
<1>9. CASE k \in SelectedStreams(options, d, cams[d])
  <2>1. k \in IF options.streams[d] = {} THEN {options.primary} ELSE options.streams[d]
    <3>1. CASE options.streams[d] # {}
      BY <1>9, <3>1 DEF SelectedStreams
    <3>2. CASE options.streams[d] = {} /\ options.primary \in ToSet(cams[d])
      BY <1>9, <3>2 DEF SelectedStreams
    <3>3. CASE options.streams[d] = {} /\ options.primary \notin ToSet(cams[d])
      BY <1>5, <1>9, <3>3 DEF SelectedStreams, ListsPrimary
    <3>. QED  BY <3>1, <3>2, <3>3
  <2>2. d \in DOMAIN Everyone
    BY <1>6 DEF Everyone
  <2>3. u \in WantedUniqueIds(options, Everyone)
    BY <1>3, <2>1, <2>2, WantedPair
  <2>. QED  BY <1>4, <1>6, <1>7, <2>3 DEF Asked
<1>. QED  BY <1>3, <1>8, <1>9

\* A set-up that finds the camera keeps an identity that is asked for.
LEMMA AskedKept ==
  ASSUME version = 3, NEW cams \in Cameras, NEW u \in registry, Asked(u), u[1] \in DOMAIN cams
  PROVE  u \in Kept(cams)
<1>1. Migrated = options
  BY DEF Migrated
<1>2. u[1] \in Selected(options, DOMAIN cams)
  BY <1>1 DEF Asked, Selected
<1>3. ASSUME u \in WantedUniqueIds(options, Everyone)
      PROVE  u \in WantedUniqueIds(options, cams)
  <2>1. PICK d \in DOMAIN Everyone :
          \E k \in IF options.streams[d] = {} THEN {options.primary} ELSE options.streams[d] :
            u = UniqueId(d, k, options.primary)
    BY <1>3, WantedPair
  <2>2. u[1] = d
    BY <2>1 DEF UniqueId
  <2>. QED  BY <2>1, <2>2, WantedPair
<1>. QED  BY <1>1, <1>2, <1>3 DEF Asked, Kept

\* The platforms' step takes nothing away and asks for what it creates.
LEMMA AddNewMade ==
  ASSUME ListsPrimary, EntryOK, MadeStays, version = 3, phase # "none", phase' # "none", UNCHANGED entry,
         NEW cams \in Cameras, NEW known, AddNew(cams, known)
  PROVE  MadeStays'
<1>1. Picture = options.primary /\ Picture' = Picture /\ Migrated' = Migrated
  BY DEF Picture, Migrated, entry
<1>2. \A u : Asked(u)' <=> Asked(u)
  BY <1>1 DEF Asked
<1>3. PICK new : /\ registry' = registry \cup Ids(new) /\ made' = made \cup Ids(new)
                 /\ second' = second \ Ids(new)
                 /\ new \subseteq Entities(options, cams)
  <2>. DEFINE n == Entities(options, cams) \ known
  <2>1. registry' = registry \cup Ids(n) /\ made' = made \cup Ids(n) /\ second' = second \ Ids(n)
    BY DEF AddNew
  <2>2. n \subseteq Entities(options, cams)
    OBVIOUS
  <2>. HIDE DEF n
  <2>. QED  BY <2>1, <2>2
<1>4. Ids(new) \subseteq Ids(Entities(options, cams))
  BY <1>3 DEF Ids
<1>5. \A u \in Ids(Entities(options, cams)) : Asked(u)
  BY <1>1, NewAsked DEF MadeStays
<1>. QED  BY <1>1, <1>2, <1>3, <1>4, <1>5 DEF MadeStays

\* The second migration renames, and touches nothing else.
Renamed(k) == IF k = "h265" THEN Root ELSE k

LEMMA TwoRenamed ==
  ASSUME NEW o, "primary" \in DOMAIN o, "streams" \in DOMAIN o
  PROVE  /\ FromV2(o).primary = Renamed(o.primary)
         /\ \A d \in Did : FromV2(o).streams[d] = {Renamed(k) : k \in o.streams[d]}
         /\ Selected(FromV2(o), Did) = Selected(o, Did)
<1>1. /\ FromV2(o).auto = o.auto /\ FromV2(o).excluded = o.excluded
      /\ FromV2(o).listed = o.listed /\ FromV2(o).cameras = o.cameras
  BY DEF FromV2
<1>2. Selected(FromV2(o), Did) = Selected(o, Did)
  BY <1>1 DEF Selected
<1>. QED  BY <1>2 DEF FromV2, Renamed

\* What the migrations make of an earlier version's choices.
LEMMA OneMigrated ==
  ASSUME version = 1, options \in Options, NEW primary \in {Root, "h264"},
         primary = IF options.primary = None THEN "h264" ELSE options.primary
  PROVE  /\ Migrated.primary = primary
         /\ Selected(Migrated, Did) = Selected(options, Did)
         /\ \A d \in Did : Migrated.streams[d] \in {{}, {primary}}
<1>1. PICK f \in [Did -> {{}, {primary}}] :
        FromV1(options) = [[options EXCEPT !.primary = primary] EXCEPT !.streams = f]
  <2>. DEFINE g == [d \in Did |-> IF d \in options.cameras THEN {primary} ELSE {}]
  <2>1. FromV1(options) = [[options EXCEPT !.primary = primary] EXCEPT !.streams = g]
    BY DEF FromV1
  <2>2. g \in [Did -> {{}, {primary}}]
    OBVIOUS
  <2>. HIDE DEF g
  <2>. QED  BY <2>1, <2>2
<1>. DEFINE o == FromV1(options)
<1>2. /\ o.primary = primary /\ o.streams = f
      /\ o.auto = options.auto /\ o.excluded = options.excluded
      /\ o.listed = options.listed /\ o.cameras = options.cameras
      /\ DOMAIN o = DOMAIN options
  BY <1>1 DEF Options
<1>3. "primary" \in DOMAIN o /\ "streams" \in DOMAIN o
  BY <1>2 DEF Options
<1>4. primary # "h265"
  BY DEF Root
<1>5. Migrated = FromV2(o)
  BY DEF Migrated
<1>6. Selected(o, Did) = Selected(options, Did)
  BY <1>2 DEF Selected
<1>. HIDE DEF o
<1>7. /\ Migrated.primary = Renamed(primary)
      /\ Selected(Migrated, Did) = Selected(options, Did)
      /\ \A d \in Did : Migrated.streams[d] = {Renamed(k) : k \in f[d]}
  BY <1>2, <1>3, <1>5, <1>6, TwoRenamed
<1>8. \A d \in Did : f[d] \in {{}, {primary}}
  OBVIOUS
<1>. QED  BY <1>4, <1>7, <1>8 DEF Renamed

LEMMA TwoMigrated ==
  ASSUME version = 2, options \in Options
  PROVE  /\ Migrated.primary = Renamed(options.primary)
         /\ Selected(Migrated, Did) = Selected(options, Did)
         /\ \A d \in Did : Migrated.streams[d] = {Renamed(k) : k \in options.streams[d]}
<1>1. Migrated = FromV2(options)
  BY DEF Migrated
<1>2. "primary" \in DOMAIN options /\ "streams" \in DOMAIN options
  BY DEF Options
<1>. QED  BY <1>1, <1>2, TwoRenamed

\* What an earlier version left is asked for once it is migrated.
LEMMA MadeInit == Init => MadeStays
<1>. SUFFICES ASSUME Init
              PROVE  MadeStays
  OBVIOUS
<1>1. EntryOK /\ Root \notin {"h264", "h265"} /\ None \notin {Root, "h264", "h265"}
  BY EntryInit DEF Root, None
<1>2. /\ registry = IF phase = "none" THEN {} ELSE Before(version, options)
      /\ made = registry /\ second = {u \in registry : u[2] = "h265"}
  BY InitRest, Zenon
<1>3. CASE version = 3 /\ phase = "none" /\ options = Unset
  BY <1>2, <1>3, UnsetOK DEF MadeStays, Picture
<1>4. CASE version = 1 /\ phase = "off" /\ FromOne
  <2>1. PICK o \in Chosen \cup {Unset}, p \in {None, "h264", Root} :
          options = [o EXCEPT !.primary = p]
    BY <1>4 DEF FromOne
  <2>2. options \in Options /\ options.primary = p
    BY <1>1, <2>1, ChosenOK DEF EntryOK, Options
  <2>. DEFINE primary == IF options.primary = None THEN "h264" ELSE options.primary
  <2>3. primary \in {Root, "h264"} /\ Picture = primary
    BY <1>1, <1>4, <2>2 DEF Picture, ShownBefore
  <2>4. /\ Migrated.primary = primary
        /\ Selected(Migrated, Did) = Selected(options, Did)
        /\ \A d \in Did : Migrated.streams[d] \in {{}, {primary}}
    BY <1>4, <2>2, <2>3, OneMigrated
  <2>5. ASSUME NEW u \in Before(version, options), u[2] # "h265"
        PROVE  Asked(u)
    <3>1. PICK d \in Selected(options, Did) : \E k \in {primary, Power} : u = UniqueId(d, k, primary)
      BY <1>4, <2>5 DEF Before
    <3>2. d \in Did /\ d \in DOMAIN Everyone
      BY <3>1 DEF Selected, Everyone
    <3>3. CASE u = UniqueId(d, Power, primary)
      BY <2>3, <2>4, <3>1, <3>3, SuffixesApart DEF UniqueId, Asked
    <3>4. CASE u = UniqueId(d, primary, primary)
      <4>1. u \in WantedUniqueIds(Migrated, Everyone)
        BY <2>4, <3>2, <3>4, WantedPair
      <4>. QED  BY <2>3, <2>4, <3>1, <3>4, <4>1, SuffixesApart DEF UniqueId, Asked
    <3>. QED  BY <3>1, <3>3, <3>4
  <2>. QED  BY <1>2, <1>4, <2>3, <2>5 DEF MadeStays
<1>5. CASE version = 2 /\ phase = "off" /\ FromTwo
  <2>1. PICK o \in Chosen \cup {Unset}, p \in {"h264", "h265"}, ks \in SUBSET {"h264", "h265"} :
          options = [[o EXCEPT !.primary = p] EXCEPT !.streams = TwoStreams(o, ks)]
    BY <1>5 DEF FromTwo
  <2>2. o \in Options /\ options.primary = p
    BY <2>1, ChosenOK DEF Options
  <2>3. \A d \in Did : options.streams[d] \subseteq {"h264", "h265"}
    BY <2>1, <2>2 DEF Options, TwoStreams
  <2>4. Picture = Renamed(p) /\ Renamed(p) \in {Root, "h264"}
    BY <1>1, <1>5, <2>2 DEF Picture, ShownBefore, Renamed
  <2>5. /\ Migrated.primary = Renamed(p)
        /\ Selected(Migrated, Did) = Selected(options, Did)
        /\ \A d \in Did : Migrated.streams[d] = {Renamed(k) : k \in options.streams[d]}
    BY <1>1, <1>5, <2>2, TwoMigrated DEF EntryOK
  <2>6. ASSUME NEW u \in Before(version, options), u[2] # "h265"
        PROVE  Asked(u)
    <3>1. PICK d \in Selected(options, Did) :
            \E k \in (IF options.streams[d] = {} THEN {p} ELSE options.streams[d]) \cup {Power} :
              u = UniqueId(d, k, p)
      BY <1>1, <1>5, <2>2, <2>6 DEF Before
    <3>2. d \in Did /\ d \in DOMAIN Everyone
      BY <3>1 DEF Selected, Everyone
    <3>3. CASE u = UniqueId(d, Power, p)
      BY <2>4, <2>5, <3>1, <3>3, SuffixesApart DEF UniqueId, Asked
    <3>4. ASSUME NEW k \in IF options.streams[d] = {} THEN {p} ELSE options.streams[d],
                 u = UniqueId(d, k, p)
          PROVE  Asked(u)
      <4>1. Renamed(k) \in IF Migrated.streams[d] = {} THEN {Renamed(p)} ELSE Migrated.streams[d]
        BY <2>5, <3>2, <3>4
      <4>2. k \in {"h264", "h265"} /\ (k = p \/ k # "h265")
        BY <2>3, <2>6, <3>2, <3>4 DEF UniqueId
      <4>3. u = UniqueId(d, Renamed(k), Renamed(p)) /\ u[1] = d /\ u[2] # Renamed(p)
        BY <1>1, <2>4, <3>4, <4>2, SuffixesApart DEF UniqueId, Renamed
      <4>4. u \in WantedUniqueIds(Migrated, Everyone)
        BY <2>5, <3>2, <4>1, <4>3, WantedPair
      <4>. QED  BY <2>5, <3>1, <4>3, <4>4 DEF Asked
    <3>. QED  BY <3>1, <3>3, <3>4
  <2>. QED  BY <1>2, <1>5, <2>4, <2>6 DEF MadeStays
<1>. QED  BY <1>3, <1>4, <1>5, InitRest, Zenon

LEMMA MadeStep ==
  ASSUME ListsPrimary, EntryOK, MadeStays, [Next]_vars
  PROVE  MadeStays'
<1>. USE DEF entry, issues, entities
<1>0. data \in Cameras /\ bridge.cameras \in Cameras /\ form.seen \in Cameras
  BY AnswersCameras DEF EntryOK
<1>1. ASSUME UNCHANGED <<version, options, made, second, registry>>, phase' = "none" => phase = "none"
      PROVE  MadeStays'
  BY <1>1 DEF MadeStays, Picture, Asked, Migrated
<1>2. CASE SetUp
  <2>. DEFINE cams == bridge.cameras
  <2>1. /\ version = 3 /\ phase # "none" /\ phase' # "none" /\ UNCHANGED <<entry, second>>
        /\ registry' = Kept(cams) /\ made' = {u \in made : u[1] \in DOMAIN cams}
    BY <1>2 DEF SetUp, EntryOK
  <2>2. \A u \in made' : u \in second \/ (u \in Kept(cams) /\ Asked(u))
    BY <1>0, <2>1, AskedKept DEF MadeStays
  <2>. HIDE DEF cams
  <2>. QED  BY <2>1, <2>2 DEF MadeStays, Picture, Asked, Migrated
<1>3. CASE SetUpFails \/ SetUpErrors \/ SetUpEnds
  BY <1>1, <1>3 DEF SetUpFails, SetUpErrors, SetUpEnds
<1>4. ASSUME NEW cams \in Cameras, NEW known, AddNew(cams, known),
             phase \in {"forwarding", "adding", "loaded"}, phase' # "none", UNCHANGED entry
      PROVE  MadeStays'
  <2>1. version = 3 /\ phase # "none"
    BY <1>4 DEF EntryOK
  <2>. QED  BY <1>4, <2>1, AddNewMade
<1>4a. CASE Platforms
  BY <1>0, <1>4, <1>4a DEF Platforms
<1>5. CASE Polled
  BY <1>0, <1>4, <1>5 DEF Polled, Polling
<1>6. CASE PollFails
  BY <1>0, <1>1, <1>4, <1>6 DEF PollFails, Polling
<1>7. CASE Reload
  BY <1>1, <1>7 DEF Reload, Unloaded
<1>8. CASE Start
  <2>1. Picture' = Picture /\ Migrated' = Migrated
    BY <1>8, MigratedOK DEF Start, Picture, Migrated
  <2>. QED  BY <1>8, <2>1 DEF Start, Unloaded, MadeStays, Asked
<1>9. CASE Create
  <2>1. options'.primary = Root
    BY <1>0, <1>9, UnsetOK, FilledOK, SuffixesApart DEF Create
  <2>. QED  BY <1>9, <2>1 DEF Create, MadeStays, Picture
<1>10. CASE OpenForm
  BY <1>1, <1>10 DEF OpenForm
<1>11. CASE Save
  <2>1. version = 3 /\ options.primary \in Key \cup {None}
    BY <1>11 DEF EntryOK, Options, Save
  <2>2. /\ options'.primary = options.primary /\ options'.listed
        /\ options'.excluded = DOMAIN form.seen \ options'.cameras
    BY <1>0, <1>11, <2>1, FilledOK DEF Save
  <2>3. Migrated = options /\ Migrated' = options' /\ Picture' = Picture
    BY <1>11, <2>1, <2>2 DEF Save, Migrated, Picture
  <2>4. ASSUME NEW u \in made'
        PROVE  u \in second' \/ (u \in registry' /\ Asked(u)')
    <3>0. SUFFICES ASSUME u \notin second PROVE u \in registry' /\ Asked(u)'
      BY <1>11 DEF Save
    <3>1. /\ u \in made /\ u[1] \in options'.cameras
          /\ \/ u[2] \in {Power} \cup options'.streams[u[1]]
             \/ u[2] = Bare /\ options.primary \in options'.streams[u[1]]
      BY <1>11, <2>4 DEF Save
    <3>2. u \in registry' /\ Asked(u)
      BY <1>11, <3>0, <3>1 DEF MadeStays, Save
    <3>3. u[1] \in Selected(options', Did) /\ u[2] # options'.primary
      BY <2>2, <2>3, <3>1, <3>2 DEF Asked, Selected
    <3>4. ASSUME u[2] # Power
          PROVE  u \in WantedUniqueIds(options', Everyone)
      <4>1. u \in WantedUniqueIds(options, Everyone)
        BY <2>3, <3>2, <3>4 DEF Asked
      <4>2. u = <<u[1], u[2]>> /\ u[1] \in DOMAIN Everyone
        BY <4>1, WantedPair DEF UniqueId
      <4>3. CASE u[2] \in options'.streams[u[1]]
        <5>1. u = UniqueId(u[1], u[2], options'.primary)
          BY <3>3, <4>2 DEF UniqueId
        <5>. QED  BY <4>2, <4>3, <5>1, WantedPair
      <4>4. CASE u[2] = Bare /\ options.primary \in options'.streams[u[1]]
        <5>1. u = UniqueId(u[1], options'.primary, options'.primary)
          BY <4>2, <4>4 DEF UniqueId
        <5>. QED  BY <2>2, <4>2, <4>4, <5>1, WantedPair
      <4>. QED  BY <3>1, <3>4, <4>3, <4>4
    <3>. QED  BY <2>3, <3>2, <3>3, <3>4 DEF Asked, Everyone
  <2>. QED  BY <1>11, <2>3, <2>4 DEF Save, MadeStays
<1>12. CASE BridgeChanges
  BY <1>1, <1>12 DEF BridgeChanges
<1>13. CASE UNCHANGED vars
  BY <1>1, <1>13 DEF vars
<1>. QED  BY <1>2, <1>3, <1>4a, <1>5, <1>6, <1>7, <1>8, <1>9, <1>10, <1>11, <1>12, <1>13 DEF Next, Set, Progress, Poll

\* However set-ups, polls, migrations and forms fall together, for any cameras and any
\* lists that have a stream which can be primary, no identity is deleted that an earlier
\* version had or that was created, and that was not turned down since, unless its
\* camera has gone or it is version 2's second root.
THEOREM MadeIsKept == ListsPrimary => (Spec => []WhatIsMadeIsKept)
<1>1. Init => EntryOK /\ MadeStays
  BY EntryInit, MadeInit
<1>2. ASSUME ListsPrimary, EntryOK, MadeStays, [Next]_vars
      PROVE  (EntryOK /\ MadeStays)'
  BY <1>2, EntryStep, MadeStep
<1>3. MadeStays => WhatIsMadeIsKept
  BY DEF MadeStays, WhatIsMadeIsKept
<1>. SUFFICES ASSUME ListsPrimary
              PROVE  Spec => []WhatIsMadeIsKept
  OBVIOUS
<1>4. EntryOK /\ MadeStays /\ [Next]_vars => (EntryOK /\ MadeStays)'
  BY <1>2
<1>. QED  BY <1>1, <1>3, <1>4, PTL DEF Spec
================================================================================
