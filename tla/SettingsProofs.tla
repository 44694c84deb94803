--------------------------- MODULE SettingsProofs ---------------------------
(***************************************************************************)
(* Proofs about Settings, for any set of boards and any bounds: the types, *)
(* and what holds whenever the device serves requests.                     *)
(*                                                                         *)
(* While a config is being written the file is the old one or empty.  The  *)
(* invariants therefore speak of the step the main thread is on its way to *)
(* and of the config the file will have by then; opening, truncating and   *)
(* closing the file change neither, unless the file system fails.          *)
(***************************************************************************)
EXTENDS Settings, SequenceTheorems, TLAPS

Writing == pc \in {"write", "close"}
Target == IF Writing THEN Head(goto) ELSE pc
Coming == IF Writing THEN cfg ELSE Loaded
Sound == ioFaults = 0
Importing == pc \in {"sync_reset", "sync_mode"}

(***************************************************************************)
(* Shapes: the returns of the running calls, the request being served, the *)
(* user's wishes, and threads that are never more than the requests.       *)
(***************************************************************************)
Steps == {"off", "platform", "firstboot", "sync", "sync_reset", "sync_mode", "finish", "reboot",
          "debug", "hostname", "serve", "written", "write", "close"}

Wishes == [mode : Modes \cup {None}, debug : BOOLEAN \cup {None},
           reset : BOOLEAN \cup {None}, camera : Cameras \cup {None}]

Asked == [kind : Kinds, set : Fields]

ReqOK ==
  /\ req \in Served
  /\ req.kind \notin {"settings", "debug"} => req.set.debug = None
  /\ req.kind # "settings" => ~req.host
  /\ req.kind \in {"platform_set", "platform_refresh"} => req.set = NoField

ShapeInv ==
  /\ pc \in Steps
  /\ Writing => \E s \in {"firstboot", "finish", "reboot", "debug", "hostname", "written"} : goto = <<s>>
  /\ pc \in {"sync", "sync_reset", "sync_mode"} => goto = <<>> \/ goto = <<"finish">>
  /\ pc \notin {"write", "close", "sync", "sync_reset", "sync_mode"} => goto = <<>>
  /\ Target = "written" => ReqOK /\ camera < requests
  /\ wanted \in Wishes
  /\ camera <= requests

(***************************************************************************)
(* The platform: only an X20 takes itself for one, and main has the one    *)
(* that the config names.  A config whose first-boot gate is open names no *)
(* other platform than the board's, so that the first-boot tasks, which    *)
(* write the board's, do not change it.                                    *)
(***************************************************************************)
BoardInv ==
  /\ board = "x20" /\ pc \notin {"off", "platform"} => platform = "x20"
  /\ board # "x20" => /\ platform # "x20" /\ Loaded.platform # "x20"
                      /\ cfg.platform # "x20" /\ early.platform # "x20"

Gated(c) == c.firstboot = None => c.platform = None \/ c.platform = board

GateInv ==
  /\ Gated(Loaded)
  /\ Gated(Coming)
  /\ Target \in {"reboot", "debug", "hostname", "serve", "written"} => Coming.firstboot = FALSE
  /\ pc \in {"sync", "sync_reset", "sync_mode"} /\ goto = <<>> => Loaded.firstboot = FALSE
  /\ pc \in {"sync", "sync_reset", "sync_mode"} /\ goto # <<>> => platform = board
  /\ Importing => cfg.firstboot = Loaded.firstboot /\ cfg.platform = Loaded.platform
  /\ Target = "finish" => platform = board

AgreeInv ==
  /\ Target = "firstboot" => platform # None
  /\ Target \in {"firstboot", "sync", "sync_reset", "sync_mode", "finish", "reboot", "debug", "hostname", "serve"}
       => platform = Coming.platform
  /\ pc = "written" => wrote /\ Loaded = cfg
  /\ Target = "written" /\ req.kind \notin {"platform_set", "platform_refresh"} => platform = Coming.platform

(***************************************************************************)
(* The debug flag.                                                         *)
(***************************************************************************)
DebugInv ==
  /\ Target \in {"hostname", "serve"} => gDebug = (Coming.debug = TRUE)
  /\ Target \in {"hostname", "serve", "written"} => (marker => gDebug)
  /\ Target = "written" => IF req.set.debug = None THEN gDebug = (Coming.debug = TRUE)
                                                   ELSE Coming.debug = req.set.debug

(***************************************************************************)
(* The role.                                                               *)
(***************************************************************************)
Follows(c) == c.sethost = TRUE /\ c.mode # None => hostname = c.mode

HostInv ==
  /\ Target = "serve" => Follows(Coming)
  /\ Target = "written" /\ ~req.host => Follows(Coming)

UnchangedInv == Importing /\ ~wrote => cfg = Loaded

AirInv ==
  board = "x20" /\ Target \in {"finish", "reboot", "debug", "hostname", "serve", "written"}
    => Coming.mode = "air"

(***************************************************************************)
(* What the user asked for.                                                *)
(***************************************************************************)
Durable == {"mode", "reset", "camera"}
KeptIn(w, c) ==
  \A f \in Durable : w[f] # None => c[f] = IF f = "mode" /\ board = "x20" THEN "air" ELSE w[f]

KeptInv ==
  /\ ~Importing /\ Target # "written" => KeptIn(wanted, Coming)
  /\ Target = "written" => KeptIn(Granted, Coming)
  /\ Importing => \A f \in Durable : wanted[f] # None =>
                    cfg[f] = wanted[f] \/ (f = "mode" /\ board = "x20")

\* Outside of the windows that Exposed names the file itself has it.
OnDisk == ~Exposed /\ pc # "written" => KeptIn(wanted, Loaded)

SoundInv == GateInv /\ AgreeInv /\ DebugInv /\ HostInv /\ UnchangedInv /\ AirInv

-----------------------------------------------------------------------------
(* Data.                                                                   *)

LEMMA RequestShape == Requests \subseteq Asked
<1> DEFINE S == { [NoField EXCEPT !.debug = TRUE, !.reset = FALSE], [NoField EXCEPT !.debug = FALSE],
        [NoField EXCEPT !.mode = "ground", !.camera = "legacy"],
        [NoField EXCEPT !.mode = "record"], [NoField EXCEPT !.mode = "unset"],
        [NoField EXCEPT !.mode = "bogus"] }
<1>1. NoField \in Fields
  BY DEF NoField, Fields
<1>2. S \subseteq Fields
  BY <1>1 DEF NoField, Fields
<1>3. \A d \in BOOLEAN : [NoField EXCEPT !.debug = d] \in Fields
  BY <1>1 DEF NoField, Fields
<1>4. [NoField EXCEPT !.camera = "csi"] \in Fields
  BY <1>1 DEF NoField, Fields
<1> HIDE DEF S
<1>5. Requests = { [kind |-> "settings", set |-> s] : s \in S }
  \cup { [kind |-> "debug", set |-> [NoField EXCEPT !.debug = d]] : d \in BOOLEAN }
  \cup { [kind |-> "camera", set |-> [NoField EXCEPT !.camera = "csi"]] }
  \cup { [kind |-> k, set |-> NoField] : k \in {"platform_set", "platform_refresh"} }
  BY DEF Requests, S
<1> QED
  BY <1>1, <1>2, <1>3, <1>4, <1>5 DEF Asked, Kinds

LEMMA ShortSeq ==
  ASSUME NEW S, NEW a \in S, NEW b \in S
  PROVE  <<a>> \in Seq(S) /\ <<a, b>> \in Seq(S)
OBVIOUS

LEMMA Bounds ==
  /\ MaxRequests \in Nat /\ MaxCards \in Nat /\ MaxCuts \in Nat /\ MaxIoFaults \in Nat
BY SettingsAssumption

LEMMA CardShape == Cards \cup {NoCard} \subseteq Card
<1>1. NoCard \in Card
  BY DEF NoCard, Card
<1>2. \A c \in {"legacy", None, "csi"}, r \in {None, "bogus", "air", "ground"}, d \in {None, FALSE, TRUE} :
        Json(c, r, d) \in JsonFile
  BY DEF Json, JsonFile, Cameras, Modes
<1>3. \A c \in {"legacy", None, "csi"}, r \in {None, "bogus", "air", "ground"}, d \in {None, FALSE, TRUE} :
        <<Json(c, r, d)>> \in Seq(JsonFile)
  BY <1>2, ShortSeq
<1>4. <<Json("csi", "air", TRUE), Json("legacy", "ground", None)>> \in Seq(JsonFile)
  BY <1>2, ShortSeq
<1> QED
  BY <1>1, <1>3, <1>4 DEF Cards, NoCard, Card

LEMMA EmptyShape == Empty \in Config
BY DEF Empty, Config, Platforms, Modes, Cameras

LEMMA LoadedShape == TypeOK => Loaded \in Config
BY EmptyShape DEF TypeOK, Loaded

LEMMA InitTypes == Init => TypeOK /\ ShapeInv /\ BoardInv
<1> SUFFICES ASSUME Init PROVE TypeOK /\ ShapeInv /\ BoardInv
  OBVIOUS
<1>1. \A d \in {None, TRUE} : Old(board, d) \in Config
  BY SettingsAssumption DEF Old, Init, Config, Empty, Platforms, Modes, Cameras
<1>2. [Empty EXCEPT !.sethost = TRUE] \in Config
  BY DEF Config, Empty, Platforms, Modes, Cameras
<1>3. config \in Config \cup {None} /\ marker \in BOOLEAN
  BY <1>1, <1>2 DEF Init
<1>4. card \in Card
  BY CardShape DEF Init
<1>5. TypeOK
  <2>1. /\ board \in Boards /\ hostname = None /\ cfg = Empty /\ early = Empty /\ goto = <<>>
        /\ wrote = FALSE /\ platform = None /\ gDebug = None /\ camera = 0 /\ reboot = "no"
        /\ requests = 0 /\ cards = 0 /\ cuts = 0 /\ ioFaults = 0 /\ lost = FALSE
    BY DEF Init
  <2>2. /\ camera \in 0..MaxRequests /\ requests \in 0..MaxRequests /\ cards \in 0..MaxCards
        /\ cuts \in 0..MaxCuts /\ ioFaults \in 0..MaxIoFaults
    BY <2>1, Bounds
  <2> QED
    BY <2>1, <2>2, <1>3, <1>4, EmptyShape, Zenon DEF TypeOK
<1>6. ShapeInv
  BY SettingsAssumption DEF Init, ShapeInv, Steps, Writing, Target, Wishes
<1>7. BoardInv
  BY SettingsAssumption DEF Init, BoardInv, Loaded, Empty, Old
<1> QED
  BY <1>5, <1>6, <1>7

\* d is the config c with changes of the fields F only.
ConfigFields == {"firstboot", "platform", "debug", "reset", "sethost", "mode", "camera"}
Edit(c, d, F) == d \in Config /\ \A f \in ConfigFields \ F : d[f] = c[f]

LEMMA EditPlatform ==
  ASSUME NEW c \in Config, NEW p \in Platforms \cup {None}
  PROVE  /\ Edit(c, [c EXCEPT !.platform = p], {"platform"})
         /\ [c EXCEPT !.platform = p].platform = p
         /\ Edit(c, [c EXCEPT !.platform = p, !.firstboot = FALSE], {"platform", "firstboot"})
         /\ [c EXCEPT !.platform = p, !.firstboot = FALSE].platform = p
         /\ [c EXCEPT !.platform = p, !.firstboot = FALSE].firstboot = FALSE
BY DEF Config, Edit, ConfigFields

LEMMA EditMode ==
  ASSUME NEW c \in Config, NEW m \in Modes \cup {None}
  PROVE  Edit(c, [c EXCEPT !.mode = m], {"mode"}) /\ [c EXCEPT !.mode = m].mode = m
BY DEF Config, Modes, Edit, ConfigFields

LEMMA EditCamera ==
  ASSUME NEW c \in Config, NEW m \in Cameras \cup {None}
  PROVE  Edit(c, [c EXCEPT !.camera = m], {"camera"}) /\ [c EXCEPT !.camera = m].camera = m
BY DEF Config, Edit, ConfigFields

LEMMA EditDebug ==
  ASSUME NEW c \in Config, NEW b \in BOOLEAN \cup {None}
  PROVE  Edit(c, [c EXCEPT !.debug = b], {"debug"}) /\ [c EXCEPT !.debug = b].debug = b
BY DEF Config, Edit, ConfigFields

LEMMA EditReset ==
  ASSUME NEW c \in Config
  PROVE  Edit(c, [c EXCEPT !.reset = TRUE], {"reset"}) /\ [c EXCEPT !.reset = TRUE].reset = TRUE
BY DEF Config, Edit, ConfigFields

LEMMA EditAir ==
  ASSUME NEW c \in Config
  PROVE  Edit(c, [c EXCEPT !.mode = "air"], {"mode"}) /\ [c EXCEPT !.mode = "air"].mode = "air"
BY EditMode DEF Modes

LEMMA Normal ==
  /\ \A m \in Modes \cup {"bogus", "record", "unset", None} : NormalMode(m) \in Modes \cup {None}
  /\ \A c \in Cameras \cup {"legacy", None} : NormalCamera(c) \in Cameras \cup {None}
  /\ MarkerMode \in Modes \cup {None}
BY DEF NormalMode, NormalCamera, MarkerMode, Modes, Cameras

-----------------------------------------------------------------------------
(* What the operations that edit the config do, field by field.            *)

NoFault == ioFaults' = ioFaults

LEMMA InitPlatformEffect ==
  ASSUME TypeOK, ShapeInv, InitPlatform
  PROVE  /\ pc = "platform" /\ platform' \in Platforms /\ early' \in Config /\ wrote' \in BOOLEAN
         /\ board = "x20" => platform' = "x20"
         /\ platform' = board \/ platform' = Loaded.platform
         /\ \/ /\ pc' = "firstboot" /\ UNCHANGED <<cfg, goto, early>>
               /\ NoFault => platform' = Loaded.platform
            \/ /\ pc' = "write" /\ goto' = <<"firstboot">> /\ early' = Empty
               /\ Edit(Loaded, cfg', {"platform"}) /\ cfg'.platform = platform'
<1>1. pc = "platform" /\ goto = <<>>
  BY DEF InitPlatform, ShapeInv
<1>2. PICK ok \in BOOLEAN :
       LET cached == IF ok THEN Loaded.platform ELSE None
           use == cached \notin {None, "unknown", "legacy"} /\ board # "x20"
           found == IF use THEN cached ELSE board
       IN /\ IF ok THEN UNCHANGED count ELSE Fault
          /\ platform' = found
          /\ IF ok /\ ~use
             THEN CallWrite([Loaded EXCEPT !.platform = found], "firstboot")
             ELSE pc' = "firstboot" /\ UNCHANGED mem
  BY DEF InitPlatform
<1> DEFINE cached == IF ok THEN Loaded.platform ELSE None
           use == cached \notin {None, "unknown", "legacy"} /\ board # "x20"
           found == IF use THEN cached ELSE board
<1>3. Loaded \in Config /\ Loaded.platform \in Platforms \cup {None} /\ board \in Platforms
  BY LoadedShape, SettingsAssumption DEF TypeOK, Config, Platforms
<1>4. platform' = found /\ found \in Platforms /\ (board = "x20" => found = "x20")
      /\ (found = board \/ found = Loaded.platform)
  BY <1>2, <1>3
<1>5. CASE ok /\ ~use
  <2>1. CallWrite([Loaded EXCEPT !.platform = found], "firstboot")
    BY <1>2, <1>5
  <2> HIDE DEF found
  <2>2. pc' = "write" /\ goto' = <<"firstboot">> /\ early' = Empty /\ cfg' = [Loaded EXCEPT !.platform = found]
        /\ wrote' = FALSE
    BY <2>1, <1>1 DEF CallWrite, Local
  <2> QED
    BY <2>2, <1>1, <1>3, <1>4, EditPlatform, EmptyShape
<1>6. CASE ~(ok /\ ~use)
  <2>1. pc' = "firstboot" /\ UNCHANGED <<cfg, goto, early, wrote>>
    BY <1>2, <1>6 DEF mem
  <2>2. CASE ok
    BY <2>1, <2>2, <1>1, <1>4, <1>6 DEF TypeOK
  <2>3. CASE ~ok
    <3>1. Fault
      BY <1>2, <2>3
    <3>2. ~NoFault
      BY <3>1 DEF Fault, NoFault, TypeOK
    <3> QED
      BY <3>2, <2>1, <1>1, <1>4 DEF TypeOK
  <2> QED
    BY <2>2, <2>3
<1> QED
  BY <1>5, <1>6

LEMMA FinishFirstBootEffect ==
  ASSUME TypeOK, ShapeInv, FinishFirstBoot
  PROVE  /\ pc = "finish" /\ pc' = "write" /\ goto' = <<"reboot">> /\ early' = Empty
         /\ cfg'.platform = board /\ cfg'.firstboot = FALSE
         /\ \/ Edit(early, cfg', {"platform", "firstboot"}) /\ ~NoFault
            \/ Edit(Loaded, cfg', {"platform", "firstboot"})
<1>1. pc = "finish" /\ goto = <<>>
  BY DEF FinishFirstBoot, ShapeInv
<1>2. PICK reloaded \in BOOLEAN :
        /\ IF reloaded THEN UNCHANGED count ELSE Fault
        /\ CallWrite([(IF reloaded THEN Loaded ELSE early) EXCEPT !.platform = board, !.firstboot = FALSE], "reboot")
  BY DEF FinishFirstBoot
<1> DEFINE base == IF reloaded THEN Loaded ELSE early
<1>3. base \in Config /\ board \in Platforms
  BY LoadedShape, SettingsAssumption DEF TypeOK, Platforms
<1>4. ~reloaded => ~NoFault
  BY <1>2 DEF Fault, NoFault, TypeOK
<1>5. base = Loaded \/ (base = early /\ ~NoFault)
  BY <1>4
<1> HIDE DEF base
<1>6. pc' = "write" /\ goto' = <<"reboot">> /\ early' = Empty
      /\ cfg' = [base EXCEPT !.platform = board, !.firstboot = FALSE]
  BY <1>1, <1>2 DEF CallWrite, Local, base
<1> QED
  BY <1>1, <1>3, <1>5, <1>6, EditPlatform

LEMMA CardEdits ==
  ASSUME card \in Card
  PROVE  /\ card.json # <<>> => [card EXCEPT !.json = Tail(@)] \in Card /\ Head(card.json) \in JsonFile
         /\ [card EXCEPT !.reset = FALSE] \in Card
         /\ [card EXCEPT !.record = FALSE, !.air = FALSE, !.ground = FALSE] \in Card
         /\ [card EXCEPT !.debug = FALSE] \in Card
<1>1. \A q \in Seq(JsonFile) : [card EXCEPT !.json = q] \in Card
  BY DEF Card
<1>2. card.json \in Seq(JsonFile)
  BY DEF Card
<1>3. card.json # <<>> => Tail(card.json) \in Seq(JsonFile) /\ Head(card.json) \in JsonFile
  BY <1>2
<1>4. card.json # <<>> => [card EXCEPT !.json = Tail(@)] \in Card
  BY <1>1, <1>3
<1>5. [card EXCEPT !.reset = FALSE] \in Card
  BY DEF Card
<1>6. [card EXCEPT !.record = FALSE, !.air = FALSE, !.ground = FALSE] \in Card
  BY DEF Card
<1>7. [card EXCEPT !.debug = FALSE] \in Card
  BY DEF Card
<1> QED
  BY <1>3, <1>4, <1>5, <1>6, <1>7

\* The edit of the import, of a config and of the user's wishes.
ImportOf(c, k, b, m) ==
  [c EXCEPT !.camera = Orelse(k, @), !.debug = Orelse(b, @), !.mode = Orelse(m, @)]

Imported(k, b, m) ==
  k \in Cameras \cup {None} /\ b \in BOOLEAN \cup {None} /\ m \in Modes \cup {None}

LEMMA ImportConfig ==
  ASSUME NEW c \in Config, NEW k, NEW b, NEW m, Imported(k, b, m)
  PROVE  /\ Edit(c, ImportOf(c, k, b, m), {"camera", "debug", "mode"})
         /\ ImportOf(c, k, b, m).mode = IF m = None THEN c.mode ELSE m
         /\ ImportOf(c, k, b, m).camera = IF k = None THEN c.camera ELSE k
         /\ k = None /\ b = None /\ m = None => ImportOf(c, k, b, m) = c
<1>1. /\ Orelse(k, c.camera) \in Cameras \cup {None} /\ Orelse(b, c.debug) \in BOOLEAN \cup {None}
      /\ Orelse(m, c.mode) \in Modes \cup {None}
  BY DEF Config, Orelse, Imported
<1>2. ImportOf(c, k, b, m) = [c EXCEPT !.camera = Orelse(k, c.camera), !.debug = Orelse(b, c.debug),
                                       !.mode = Orelse(m, c.mode)]
  BY DEF ImportOf, Config
<1>3. Edit(c, ImportOf(c, k, b, m), {"camera", "debug", "mode"})
  BY <1>1, <1>2 DEF Config, Edit, ConfigFields
<1>4. /\ ImportOf(c, k, b, m).mode = Orelse(m, c.mode) /\ ImportOf(c, k, b, m).camera = Orelse(k, c.camera)
  BY <1>2 DEF Config
<1>5. k = None /\ b = None /\ m = None => ImportOf(c, k, b, m) = c
  BY <1>2 DEF Config, Orelse, Imported
<1> QED
  BY <1>3, <1>4, <1>5 DEF Orelse

LEMMA ImportWishes ==
  ASSUME NEW c \in Wishes, NEW k, NEW b, NEW m, Imported(k, b, m)
  PROVE  /\ ImportOf(c, k, b, m) \in Wishes /\ ImportOf(c, k, b, m).reset = c.reset
         /\ ImportOf(c, k, b, m).mode = IF m = None THEN c.mode ELSE m
         /\ ImportOf(c, k, b, m).camera = IF k = None THEN c.camera ELSE k
<1>1. /\ Orelse(k, c.camera) \in Cameras \cup {None} /\ Orelse(b, c.debug) \in BOOLEAN \cup {None}
      /\ Orelse(m, c.mode) \in Modes \cup {None}
  BY DEF Wishes, Orelse, Imported
<1>2. ImportOf(c, k, b, m) = [c EXCEPT !.camera = Orelse(k, c.camera), !.debug = Orelse(b, c.debug),
                                       !.mode = Orelse(m, c.mode)]
  BY DEF ImportOf, Wishes
<1>3. ImportOf(c, k, b, m) \in Wishes /\ ImportOf(c, k, b, m).reset = c.reset
  BY <1>1, <1>2 DEF Wishes
<1>4. /\ ImportOf(c, k, b, m).mode = Orelse(m, c.mode) /\ ImportOf(c, k, b, m).camera = Orelse(k, c.camera)
  BY <1>2 DEF Wishes
<1> QED
  BY <1>3, <1>4 DEF Orelse

LEMMA SyncJsonEffect ==
  ASSUME TypeOK, ShapeInv, SyncJson
  PROVE  /\ pc = "sync" /\ pc' = "sync_reset"
         /\ Edit(Loaded, cfg', {"camera", "debug", "mode"})
         /\ wanted' \in Wishes /\ wanted'.reset = wanted.reset
         /\ card' \in Card /\ wrote' \in BOOLEAN
         /\ ~wrote' => cfg' = Loaded /\ wanted'.mode = wanted.mode /\ wanted'.camera = wanted.camera
         /\ \A f \in {"camera", "mode"} :
              \/ cfg'[f] = Loaded[f] /\ wanted'[f] = wanted[f]
              \/ cfg'[f] = wanted'[f]
<1>1. pc = "sync" /\ pc' = "sync_reset" /\ card \in Card /\ Loaded \in Config /\ wanted \in Wishes
  BY LoadedShape DEF SyncJson, TypeOK, ShapeInv
<1>2. CASE card.json = <<>>
  <2>1. cfg' = Loaded /\ wrote' = FALSE /\ UNCHANGED <<card, wanted>>
    BY <1>2 DEF SyncJson
  <2> QED
    BY <2>1, <1>1 DEF Edit
<1>3. CASE card.json # <<>>
  <2>1. PICK k, b, m :
          /\ Imported(k, b, m)
          /\ cfg' = ImportOf(Loaded, k, b, m) /\ wanted' = ImportOf(wanted, k, b, m)
          /\ wrote' = ([camera |-> k, debug |-> b, mode |-> m] # [camera |-> None, debug |-> None, mode |-> None])
    <3> DEFINE j == Head(card.json)
    <3>1. /\ cfg' = ImportOf(Loaded, NormalCamera(j.camera), j.debug, NormalMode(j.role))
          /\ wanted' = ImportOf(wanted, NormalCamera(j.camera), j.debug, NormalMode(j.role))
          /\ wrote' = ([camera |-> NormalCamera(j.camera), debug |-> j.debug, mode |-> NormalMode(j.role)]
                         # [camera |-> None, debug |-> None, mode |-> None])
      BY <1>3 DEF SyncJson, ImportOf
    <3>2. j \in JsonFile
      BY <1>1, <1>3, CardEdits
    <3>3. Imported(NormalCamera(j.camera), j.debug, NormalMode(j.role))
      BY <3>2, Normal DEF JsonFile, Imported
    <3> HIDE DEF j
    <3> QED
      BY <3>1, <3>3, Zenon
  <2>2. Remove([card EXCEPT !.json = Tail(@)])
    BY <1>3 DEF SyncJson
  <2>3. card' \in Card
    BY <1>1, <1>3, <2>2, CardEdits DEF Remove
  <2>4. wrote' \in BOOLEAN /\ (~wrote' => k = None /\ b = None /\ m = None)
    BY <2>1
  <2>5. /\ Edit(Loaded, cfg', {"camera", "debug", "mode"})
        /\ cfg'.mode = IF m = None THEN Loaded.mode ELSE m
        /\ cfg'.camera = IF k = None THEN Loaded.camera ELSE k
        /\ ~wrote' => cfg' = Loaded
    BY <1>1, <2>1, <2>4, ImportConfig
  <2>6. /\ wanted' \in Wishes /\ wanted'.reset = wanted.reset
        /\ wanted'.mode = IF m = None THEN wanted.mode ELSE m
        /\ wanted'.camera = IF k = None THEN wanted.camera ELSE k
    BY <1>1, <2>1, ImportWishes
  <2> QED
    BY <1>1, <2>3, <2>4, <2>5, <2>6
<1> QED
  BY <1>2, <1>3

LEMMA SyncResetEffect ==
  ASSUME TypeOK, ShapeInv, SyncReset
  PROVE  /\ pc = "sync_reset" /\ pc' = "sync_mode" /\ card' \in Card /\ wanted' \in Wishes
         /\ \A f \in {"camera", "mode"} : wanted'[f] = wanted[f]
         /\ \/ UNCHANGED <<cfg, wrote, wanted>>
            \/ wrote' = TRUE /\ Edit(cfg, cfg', {"reset"}) /\ cfg'.reset = wanted'.reset
<1>1. pc = "sync_reset" /\ pc' = "sync_mode" /\ card \in Card /\ cfg \in Config /\ wanted \in Wishes
  BY DEF SyncReset, TypeOK, ShapeInv
<1>2. CASE card.reset
  <2>1. /\ cfg' = [cfg EXCEPT !.reset = TRUE] /\ wrote' = TRUE
        /\ wanted' = [wanted EXCEPT !["reset"] = TRUE]
        /\ Remove([card EXCEPT !.reset = FALSE])
    BY <1>2 DEF SyncReset, Wish
  <2>2. card' \in Card
    BY <1>1, <2>1, CardEdits DEF Remove
  <2>3. wanted' \in Wishes /\ wanted'.camera = wanted.camera /\ wanted'.mode = wanted.mode /\ wanted'.reset = TRUE
    BY <1>1, <2>1 DEF Wishes
  <2> QED
    BY <1>1, <2>1, <2>2, <2>3, EditReset
<1>3. CASE ~card.reset
  <2>1. UNCHANGED <<cfg, wrote, card, wanted>>
    BY <1>3 DEF SyncReset
  <2> QED
    BY <1>1, <2>1
<1> QED
  BY <1>2, <1>3

LEMMA SyncModeEffect ==
  ASSUME TypeOK, ShapeInv, SyncMode
  PROVE  /\ pc = "sync_mode" /\ wrote' = FALSE /\ card' \in Card /\ wanted' \in Wishes
         /\ \A f \in {"camera", "reset"} : wanted'[f] = wanted[f]
         /\ \/ /\ pc' = "write" /\ goto' = <<SyncReturn>> /\ Edit(cfg, cfg', {"mode"})
               /\ X20 => cfg'.mode = "air"
               /\ ~X20 => \/ cfg'.mode = cfg.mode /\ wanted'.mode = wanted.mode
                          \/ cfg'.mode = wanted'.mode
            \/ /\ pc' = SyncReturn /\ goto' = <<>> /\ cfg' = Empty /\ ~wrote /\ wanted' = wanted
               /\ X20 => cfg.mode = "air"
<1> DEFINE asked == [cfg EXCEPT !.mode = Orelse(MarkerMode, @)]
           final == ForceX20(asked)
<1>1. pc = "sync_mode" /\ card \in Card /\ cfg \in Config /\ wanted \in Wishes
  BY DEF SyncMode, TypeOK, ShapeInv
<1>2. wrote' = FALSE /\ card' \in Card
  <2>1. wrote' = FALSE /\ Remove([card EXCEPT !.record = FALSE, !.air = FALSE, !.ground = FALSE])
    BY DEF SyncMode
  <2> QED
    BY <1>1, <2>1, CardEdits DEF Remove
<1>3. /\ Edit(cfg, asked, {"mode"})
      /\ asked.mode = IF MarkerMode = None THEN cfg.mode ELSE MarkerMode
      /\ MarkerMode = None => asked = cfg
  BY <1>1, Normal DEF Orelse, Config, Edit, ConfigFields, Modes
<1>4. /\ Edit(cfg, final, {"mode"}) /\ (X20 => final.mode = "air") /\ (~X20 => final = asked)
  <2> HIDE DEF asked
  <2>1. CASE X20
    <3>1. final = [asked EXCEPT !.mode = "air"]
      BY <2>1 DEF ForceX20
    <3> QED
      BY <2>1, <3>1, <1>3, EditAir DEF Edit
  <2>2. CASE ~X20
    BY <2>2, <1>3 DEF ForceX20
  <2> QED
    BY <2>1, <2>2
<1>5. /\ wanted' \in Wishes /\ \A f \in {"camera", "reset"} : wanted'[f] = wanted[f]
      /\ MarkerMode # None => wanted'.mode = MarkerMode
      /\ MarkerMode = None => wanted' = wanted
  <2>1. wanted' = IF MarkerMode = None THEN wanted ELSE [wanted EXCEPT !["mode"] = MarkerMode]
    BY DEF SyncMode, Wish
  <2> QED
    BY <2>1, <1>1, Normal DEF Wishes
<1>6. IF wrote \/ MarkerMode # None \/ final # asked
        THEN pc' = "write" /\ cfg' = final /\ goto' = <<SyncReturn>>
        ELSE pc' = SyncReturn /\ cfg' = Empty /\ goto' = <<>>
  BY DEF SyncMode
<1> HIDE DEF asked, final
<1> QED
  BY <1>1, <1>2, <1>3, <1>4, <1>5, <1>6

LEMMA InitDebugEffect ==
  ASSUME TypeOK, ShapeInv, InitDebug
  PROVE  /\ pc = "debug" /\ card' \in Card /\ wanted' \in Wishes /\ early' = Empty
         /\ \A f \in Durable : wanted'[f] = wanted[f]
         /\ \/ /\ pc' = "write" /\ goto' = <<"hostname">> /\ gDebug' = TRUE
               /\ Edit(Loaded, cfg', {"debug"}) /\ cfg'.debug = TRUE
            \/ /\ pc' = "hostname" /\ goto' = <<>> /\ cfg' = Empty
               /\ NoFault => gDebug' = (Loaded.debug = TRUE) /\ ~marker
<1>1. pc = "debug" /\ goto = <<>> /\ card \in Card /\ Loaded \in Config /\ wanted \in Wishes
  BY LoadedShape DEF InitDebug, TypeOK, ShapeInv
<1> DEFINE seen == card.debug \/ marker
<1>2. PICK first, second \in BOOLEAN :
        /\ gDebug' = (seen \/ (first /\ Loaded.debug = TRUE))
        /\ IF first /\ second THEN Remove([card EXCEPT !.debug = FALSE])
                              ELSE Fault /\ card' = [card EXCEPT !.debug = FALSE]
        /\ wanted' = IF card.debug THEN [wanted EXCEPT !["debug"] = TRUE] ELSE wanted
        /\ IF seen /\ second THEN CallWrite([Loaded EXCEPT !.debug = TRUE], "hostname")
                             ELSE Done("hostname")
  BY DEF InitDebug, Wish
<1>3. wanted' \in Wishes /\ \A f \in Durable : wanted'[f] = wanted[f]
  BY <1>1, <1>2 DEF Wishes, Durable
<1>4. card' \in Card
  BY <1>1, <1>2, CardEdits DEF Remove
<1>5. CASE seen /\ second
  <2>1. CallWrite([Loaded EXCEPT !.debug = TRUE], "hostname") /\ gDebug' = TRUE
    BY <1>2, <1>5
  <2>2. pc' = "write" /\ goto' = <<"hostname">> /\ early' = Empty /\ cfg' = [Loaded EXCEPT !.debug = TRUE]
    BY <1>1, <2>1 DEF CallWrite, Local
  <2> QED
    BY <1>1, <1>3, <1>4, <2>1, <2>2, EditDebug
<1>6. CASE ~(seen /\ second)
  <2>1. pc' = "hostname" /\ goto' = <<>> /\ cfg' = Empty /\ early' = Empty
    BY <1>2, <1>6 DEF Done, Local
  <2>2. ~(first /\ second) => ~NoFault
    BY <1>2 DEF Fault, NoFault, TypeOK
  <2>3. first /\ second => gDebug' = (Loaded.debug = TRUE) /\ ~marker
    BY <1>2, <1>6
  <2> QED
    BY <1>1, <1>3, <1>4, <2>1, <2>2, <2>3
<1> QED
  BY <1>5, <1>6

LEMMA EditedEffect ==
  ASSUME Loaded \in Config, NEW r \in Asked
  PROVE  LET s == r.set
             d == Edited(r)
         IN /\ Edit(Loaded, d, {"debug", "reset", "camera", "mode"})
            /\ d.debug = Orelse(s.debug, Loaded.debug)
            /\ d.reset = Orelse(s.reset, Loaded.reset)
            /\ d.camera = Orelse(NormalCamera(s.camera), Loaded.camera)
            /\ d.mode = IF X20 THEN "air"
                        ELSE IF s.mode = "unset" THEN None ELSE Orelse(NormalMode(s.mode), Loaded.mode)
<1> DEFINE s == r.set
           mode == IF s.mode = "unset" THEN None ELSE Orelse(NormalMode(s.mode), Loaded.mode)
           d == [Loaded EXCEPT !.debug = Orelse(s.debug, @), !.reset = Orelse(s.reset, @),
                               !.camera = Orelse(NormalCamera(s.camera), @), !.mode = mode]
<1>1. s \in Fields
  BY DEF Asked
<1>2. mode \in Modes \cup {None}
  BY <1>1, Normal DEF Fields, Orelse, Config, Modes
<1>3. Orelse(NormalCamera(s.camera), Loaded.camera) \in Cameras \cup {None}
  BY <1>1, Normal DEF Fields, Orelse, Config, Cameras
<1>4. Orelse(s.debug, Loaded.debug) \in BOOLEAN \cup {None} /\ Orelse(s.reset, Loaded.reset) \in BOOLEAN \cup {None}
  BY <1>1 DEF Fields, Orelse, Config
<1> HIDE DEF s, mode
<1>5. d = [Loaded EXCEPT !.debug = Orelse(s.debug, Loaded.debug), !.reset = Orelse(s.reset, Loaded.reset),
                         !.camera = Orelse(NormalCamera(s.camera), Loaded.camera), !.mode = mode]
  BY DEF Config
<1>6. /\ Edit(Loaded, d, {"debug", "reset", "camera", "mode"})
      /\ d.debug = Orelse(s.debug, Loaded.debug)
      /\ d.reset = Orelse(s.reset, Loaded.reset)
      /\ d.camera = Orelse(NormalCamera(s.camera), Loaded.camera)
      /\ d.mode = mode
  <2>1. PICK b \in BOOLEAN \cup {None}, e \in BOOLEAN \cup {None}, k \in Cameras \cup {None}, m \in Modes \cup {None} :
          /\ b = Orelse(s.debug, Loaded.debug) /\ e = Orelse(s.reset, Loaded.reset)
          /\ k = Orelse(NormalCamera(s.camera), Loaded.camera) /\ m = mode
    BY <1>2, <1>3, <1>4
  <2>2. d = [Loaded EXCEPT !.debug = b, !.reset = e, !.camera = k, !.mode = m]
    BY <1>5, <2>1
  <2>3. /\ Edit(Loaded, d, {"debug", "reset", "camera", "mode"})
        /\ d.debug = b /\ d.reset = e /\ d.camera = k /\ d.mode = m
    BY <2>2 DEF Config, Edit, ConfigFields
  <2> QED
    BY <2>1, <2>3
<1> HIDE DEF d
<1>7. Edited(r) = IF X20 THEN [d EXCEPT !.mode = "air"] ELSE d
  BY DEF Edited, ForceX20, d, mode, s
<1>8. CASE X20
  BY <1>6, <1>7, <1>8, EditAir DEF Edit, ConfigFields, s
<1>9. CASE ~X20
  BY <1>6, <1>7, <1>9 DEF s, mode
<1> QED
  BY <1>8, <1>9

Platformed(k) == k \in {"platform_set", "platform_refresh"}

\* What the handlers of the requests make of the config.
Editing(r, c, d) ==
  /\ Edit(c, d, {"platform", "debug", "reset", "camera", "mode"})
  /\ IF Platformed(r.kind) THEN d.platform = board \/ d.platform = "other" ELSE d.platform = c.platform
  /\ d.debug = IF r.set.debug = None THEN c.debug ELSE r.set.debug
  /\ d.reset = IF r.set.reset = None THEN c.reset ELSE r.set.reset
  /\ d.camera = IF NormalCamera(r.set.camera) = None THEN c.camera ELSE NormalCamera(r.set.camera)
  /\ X20 => d.mode = "air" \/ d.mode = c.mode
  /\ ~X20 => d.mode = IF r.set.mode = "unset" THEN None
                      ELSE IF NormalMode(r.set.mode) = None THEN c.mode ELSE NormalMode(r.set.mode)
  /\ ~r.host => d.mode = c.mode

LEMMA NormalNone ==
  /\ NormalMode(None) = None /\ NormalMode("bogus") = None
  /\ NormalCamera(None) = None /\ NormalCamera("csi") = "csi"
BY SettingsAssumption DEF NormalMode, NormalCamera, Modes

\* What a request of each kind carries.
LEMMA RequestKinds ==
  ASSUME NEW r \in Requests
  PROVE  /\ r \in Asked
         /\ r.kind # "settings" => r.set.mode = None /\ r.set.reset = None
         /\ r.kind # "settings" /\ r.kind # "debug" => r.set.debug = None
         /\ r.kind = "debug" => r.set.debug \in BOOLEAN /\ r.set.camera = None
         /\ r.kind = "camera" => r.set.camera = "csi"
         /\ Platformed(r.kind) => r.set = NoField /\ r.set.camera = None
<1>1. r \in Asked
  BY RequestShape
<1>2. \/ r.kind = "settings"
      \/ \E d \in BOOLEAN : r.kind = "debug" /\ r.set = [NoField EXCEPT !.debug = d]
      \/ r.kind = "camera" /\ r.set = [NoField EXCEPT !.camera = "csi"]
      \/ Platformed(r.kind) /\ r.set = NoField
  BY DEF Requests, Platformed
<1>3. CASE r.kind = "settings"
  BY <1>1, <1>3 DEF Platformed
<1>4. CASE \E d \in BOOLEAN : r.kind = "debug" /\ r.set = [NoField EXCEPT !.debug = d]
  <2>1. PICK d \in BOOLEAN : r.kind = "debug" /\ r.set = [NoField EXCEPT !.debug = d]
    BY <1>4
  <2>2. r.set.debug = d /\ r.set.mode = None /\ r.set.reset = None /\ r.set.camera = None
    BY <2>1 DEF NoField
  <2> QED
    BY <1>1, <2>1, <2>2 DEF Platformed
<1>5. CASE r.kind = "camera" /\ r.set = [NoField EXCEPT !.camera = "csi"]
  BY <1>1, <1>5 DEF NoField, Platformed
<1>6. CASE Platformed(r.kind) /\ r.set = NoField
  BY <1>1, <1>6 DEF NoField, Platformed
<1> QED
  BY <1>2, <1>3, <1>4, <1>5, <1>6

LEMMA ServeEffect ==
  ASSUME TypeOK, ShapeInv, Serve
  PROVE  /\ pc = "serve" /\ requests' = requests + 1
         /\ \/ UNCHANGED <<pc, cfg, goto, early, wrote, req>>
            \/ /\ pc' = "write" /\ goto' = <<"written">> /\ UNCHANGED <<early, wrote>>
               /\ ReqOK' /\ Editing(req', Loaded, cfg')
<1>1. pc = "serve" /\ requests' = requests + 1 /\ Loaded \in Config /\ board \in Platforms
  BY LoadedShape, SettingsAssumption DEF Serve, TypeOK, Platforms
<1>2. PICK r \in Requests :
       \/ UNCHANGED <<pc, mem>>
       \/ /\ UNCHANGED <<ioFaults, early, wrote>>
          /\ IF r.kind = "settings" /\ r.set.mode = "bogus" /\ ~HostnameRelated(r)
             THEN UNCHANGED <<pc, cfg, goto, req>>
             ELSE /\ pc' = "write" /\ goto' = <<"written">>
                  /\ req' = [kind |-> r.kind, set |-> r.set,
                             host |-> r.kind = "settings" /\ HostnameRelated(r)]
                  /\ cfg' = CASE r.kind = "settings" -> Edited(r)
                              [] r.kind = "debug" -> [Loaded EXCEPT !.debug = r.set.debug]
                              [] r.kind = "camera" ->
                                   [Loaded EXCEPT !.camera = NormalCamera(r.set.camera)]
                              [] r.kind = "platform_set" -> [Loaded EXCEPT !.platform = "other"]
                              [] r.kind = "platform_refresh" -> [Loaded EXCEPT !.platform = board]
  BY Zenon DEF Serve
<1>3. CASE UNCHANGED <<pc, cfg, goto, early, wrote, req>>
  BY <1>1, <1>3
<1>4. CASE /\ UNCHANGED <<early, wrote>>
           /\ pc' = "write" /\ goto' = <<"written">>
           /\ req' = [kind |-> r.kind, set |-> r.set,
                      host |-> r.kind = "settings" /\ HostnameRelated(r)]
           /\ cfg' = CASE r.kind = "settings" -> Edited(r)
                       [] r.kind = "debug" -> [Loaded EXCEPT !.debug = r.set.debug]
                       [] r.kind = "camera" ->
                            [Loaded EXCEPT !.camera = NormalCamera(r.set.camera)]
                       [] r.kind = "platform_set" -> [Loaded EXCEPT !.platform = "other"]
                       [] r.kind = "platform_refresh" -> [Loaded EXCEPT !.platform = board]
  <2>1. r \in Asked /\ NoField.debug = None
    BY RequestKinds DEF NoField
  <2>2. req'.kind = r.kind /\ req'.set = r.set /\ req' \in Served
    BY <1>4, <2>1 DEF Asked, Served
  <2>3. req'.host <=> r.kind = "settings" /\ HostnameRelated(r)
    BY <1>4
  <2>4. ReqOK'
    BY <2>1, <2>2, <2>3, RequestKinds DEF ReqOK, Platformed
  <2>5. /\ r.kind = "settings" => cfg' = Edited(r)
        /\ r.kind = "debug" => cfg' = [Loaded EXCEPT !.debug = r.set.debug]
        /\ r.kind = "camera" => cfg' = [Loaded EXCEPT !.camera = NormalCamera(r.set.camera)]
        /\ Platformed(r.kind) => cfg' = [Loaded EXCEPT !.platform = "other"] \/ cfg' = [Loaded EXCEPT !.platform = board]
    BY <1>4 DEF Platformed
  <2>6. r.kind \in Kinds
    BY <2>1 DEF Asked
  <2>7. CASE r.kind = "settings"
    <3>1. req'.host \/ (r.set.mode \in {None, "bogus"} /\ (X20 => Loaded.mode = "air"))
      <4>1. r.set.mode \in {None, "ground", "record", "unset", "bogus"}
        BY <2>1 DEF Asked, Fields
      <4> QED
        BY <4>1, <2>3, <2>7 DEF HostnameRelated
    <3>2. /\ Edit(Loaded, cfg', {"debug", "reset", "camera", "mode"})
          /\ cfg'.debug = Orelse(r.set.debug, Loaded.debug)
          /\ cfg'.reset = Orelse(r.set.reset, Loaded.reset)
          /\ cfg'.camera = Orelse(NormalCamera(r.set.camera), Loaded.camera)
          /\ cfg'.mode = IF X20 THEN "air"
                         ELSE IF r.set.mode = "unset" THEN None ELSE Orelse(NormalMode(r.set.mode), Loaded.mode)
      BY <1>1, <2>1, <2>5, <2>7, EditedEffect
    <3>3. ~req'.host => cfg'.mode = Loaded.mode
      BY <3>1, <3>2, NormalNone, SettingsAssumption DEF Orelse
    <3>4. ~Platformed(r.kind)
      BY <2>7 DEF Platformed
    <3>5. Edit(Loaded, cfg', {"platform", "debug", "reset", "camera", "mode"}) /\ cfg'.platform = Loaded.platform
      BY <3>2 DEF Edit, ConfigFields
    <3> QED
      BY <1>3, <1>4, <1>1, <2>2, <2>4, <3>2, <3>3, <3>4, <3>5 DEF Editing, Orelse
  <2>8. CASE r.kind = "debug"
    <3>1. r.set.debug \in BOOLEAN \cup {None} /\ r.set.debug # None
      BY <2>8, RequestKinds, SettingsAssumption
    <3>2. Edit(Loaded, cfg', {"debug"}) /\ cfg'.debug = r.set.debug
      <4>1. cfg' = [Loaded EXCEPT !.debug = r.set.debug]
        BY <2>5, <2>8
      <4>2. PICK b \in BOOLEAN \cup {None} : b = r.set.debug
        BY <3>1
      <4> QED
        BY <1>1, <4>1, <4>2, EditDebug
    <3>3. r.set.mode = None /\ r.set.reset = None /\ r.set.camera = None /\ ~Platformed(r.kind)
      BY <2>8, RequestKinds DEF Platformed
    <3>4. Editing(req', Loaded, cfg')
      <4>1. Edit(Loaded, cfg', {"platform", "debug", "reset", "camera", "mode"})
            /\ cfg'.platform = Loaded.platform /\ cfg'.reset = Loaded.reset
            /\ cfg'.camera = Loaded.camera /\ cfg'.mode = Loaded.mode
        BY <3>2 DEF Edit, ConfigFields
      <4> QED
        BY <4>1, <2>2, <3>1, <3>2, <3>3, NormalNone, SettingsAssumption DEF Editing
    <3> QED
      BY <1>4, <1>1, <2>4, <3>4
  <2>9. CASE r.kind = "camera"
    <3>1. NormalCamera(r.set.camera) = "csi" /\ "csi" \in Cameras \cup {None} /\ "csi" # None
      BY <2>9, RequestKinds, NormalNone, SettingsAssumption DEF Cameras
    <3>2. Edit(Loaded, cfg', {"camera"}) /\ cfg'.camera = "csi"
      <4>1. cfg' = [Loaded EXCEPT !.camera = "csi"]
        BY <2>5, <2>9, <3>1
      <4> QED
        BY <1>1, <4>1, <3>1, EditCamera
    <3>3. r.set.mode = None /\ r.set.reset = None /\ r.set.debug = None /\ ~Platformed(r.kind)
      BY <2>9, RequestKinds DEF Platformed
    <3>4. Editing(req', Loaded, cfg')
      <4>1. Edit(Loaded, cfg', {"platform", "debug", "reset", "camera", "mode"})
            /\ cfg'.platform = Loaded.platform /\ cfg'.reset = Loaded.reset
            /\ cfg'.debug = Loaded.debug /\ cfg'.mode = Loaded.mode
        BY <3>2 DEF Edit, ConfigFields
      <4> QED
        BY <4>1, <2>2, <3>1, <3>2, <3>3, NormalNone, SettingsAssumption DEF Editing
    <3> QED
      BY <1>4, <1>1, <2>4, <3>4
  <2>10. CASE Platformed(r.kind)
    <3>1. Edit(Loaded, cfg', {"platform"}) /\ (cfg'.platform = "other" \/ cfg'.platform = board)
      <4>1. "other" \in Platforms \cup {None} /\ board \in Platforms \cup {None}
        BY <1>1 DEF Platforms
      <4>2. \A p \in Platforms \cup {None} :
              Edit(Loaded, [Loaded EXCEPT !.platform = p], {"platform"}) /\ [Loaded EXCEPT !.platform = p].platform = p
        BY <1>1, EditPlatform
      <4> QED
        BY <1>1, <2>5, <2>10, <4>1, <4>2 
    <3>2. r.kind # "settings" /\ r.kind # "debug"
      BY <2>10 DEF Platformed
    <3>3. r.set.mode = None /\ r.set.reset = None /\ r.set.debug = None /\ r.set.camera = None
      BY <2>10, <3>2, RequestKinds
    <3>4. Editing(req', Loaded, cfg')
      <4>1. Edit(Loaded, cfg', {"platform", "debug", "reset", "camera", "mode"})
            /\ cfg'.camera = Loaded.camera /\ cfg'.reset = Loaded.reset
            /\ cfg'.debug = Loaded.debug /\ cfg'.mode = Loaded.mode
        BY <3>1 DEF Edit, ConfigFields
      <4> QED
        BY <4>1, <2>2, <3>1, <3>3, <2>10, NormalNone, SettingsAssumption DEF Editing
    <3> QED
      BY <1>4, <1>1, <2>4, <3>4
  <2> QED
    BY <2>6, <2>7, <2>8, <2>9, <2>10 DEF Kinds, Platformed
<1> QED
  BY <1>1, <1>2, <1>3, <1>4 DEF mem

LEMMA PlatformWrittenEffect ==
  ASSUME TypeOK, ShapeInv, PlatformWritten
  PROVE  /\ pc = "written" /\ Platformed(req.kind)
         /\ \/ /\ pc' = "write" /\ goto' = <<"written">> /\ UNCHANGED <<platform, early, wrote, req>>
               /\ board = "x20" /\ Edit(cfg, cfg', {"platform"}) /\ cfg'.platform = "x20"
            \/ /\ pc' = "serve" /\ goto' = <<>> /\ cfg' = Empty /\ early' = Empty /\ wrote' = FALSE
               /\ platform' = cfg.platform /\ (board = "x20" => cfg.platform = "x20")
<1>1. pc = "written" /\ Platformed(req.kind) /\ cfg \in Config /\ "x20" \in Platforms
  BY DEF PlatformWritten, Platformed, TypeOK, Platforms
<1>2. CASE board = "x20" /\ cfg.platform # "x20"
  <2>1. /\ pc' = "write" /\ goto' = <<"written">> /\ UNCHANGED <<platform, early, wrote, req>>
        /\ cfg' = [cfg EXCEPT !.platform = "x20"]
    BY <1>2 DEF PlatformWritten
  <2> QED
    BY <1>1, <1>2, <2>1, EditPlatform
<1>3. CASE ~(board = "x20" /\ cfg.platform # "x20")
  BY <1>1, <1>3 DEF PlatformWritten, Done, Local
<1> QED
  BY <1>2, <1>3

-----------------------------------------------------------------------------
(* Types.                                                                  *)

DataOK ==
  /\ board \in Boards /\ config \in Config \cup {None}
  /\ cfg \in Config /\ early \in Config /\ card \in Card

FlagsOK ==
  /\ marker \in BOOLEAN /\ hostname \in Modes \cup {None} /\ wrote \in BOOLEAN
  /\ platform \in Platforms \cup {None} /\ gDebug \in BOOLEAN \cup {None}
  /\ reboot \in {"no", "needed", "asked"}

CountOK ==
  /\ requests \in 0..MaxRequests /\ cards \in 0..MaxCards
  /\ cuts \in 0..MaxCuts /\ ioFaults \in 0..MaxIoFaults

LEMMA DataStep == TypeOK /\ ShapeInv /\ [Next]_vars => DataOK'
<1> SUFFICES ASSUME TypeOK, ShapeInv, [Next]_vars PROVE DataOK'
  OBVIOUS
<1> USE LoadedShape, EmptyShape
<1>1. CASE PowerOn
  BY <1>1 DEF PowerOn, Fault, Calm, DataOK, TypeOK, disk, mem, cache, count
<1>2. CASE InitPlatform
  <2>1. UNCHANGED <<board, config, card>>
    BY <1>2 DEF InitPlatform, disk, mem, cache, count
  <2> QED
    BY <1>2, <2>1, InitPlatformEffect DEF Edit, DataOK, TypeOK
<1>3. CASE FirstBoot
  BY <1>3 DEF FirstBoot, Done, Local, Fault, Calm, DataOK, TypeOK, disk, mem, cache, count
<1>4. CASE FinishFirstBoot
  <2>1. UNCHANGED <<board, config, card>>
    BY <1>4 DEF FinishFirstBoot, disk, mem, cache, count
  <2> QED
    BY <1>4, <2>1, FinishFirstBootEffect DEF Edit, DataOK, TypeOK
<1>5. CASE FirstBootReboot
  BY <1>5 DEF FirstBootReboot, Done, Local, Fault, Calm, DataOK, TypeOK, disk, mem, cache, count
<1>6. CASE SyncFails
  BY <1>6 DEF SyncFails, SyncReturn, Fault, Calm, DataOK, TypeOK, disk, mem, cache, count
<1>7. CASE SyncJson
  <2>1. UNCHANGED <<board, config, early>>
    BY <1>7 DEF SyncJson, disk, mem, cache, count
  <2> QED
    BY <1>7, <2>1, SyncJsonEffect DEF Edit, DataOK, TypeOK
<1>8. CASE SyncReset
  <2>1. UNCHANGED <<board, config, early>>
    BY <1>8 DEF SyncReset, disk, mem, cache, count
  <2> QED
    BY <1>8, <2>1, SyncResetEffect DEF Edit, DataOK, TypeOK
<1>9. CASE SyncMode
  <2>1. UNCHANGED <<board, config, early>>
    BY <1>9 DEF SyncMode, disk, mem, cache, count
  <2> QED
    BY <1>9, <2>1, SyncModeEffect DEF Edit, DataOK, TypeOK
<1>10. CASE InitDebug
  <2>1. UNCHANGED <<board, config>>
    BY <1>10 DEF InitDebug, disk, mem, cache, count
  <2> QED
    BY <1>10, <2>1, InitDebugEffect DEF Edit, DataOK, TypeOK
<1>11. CASE ApplyHostname
  BY <1>11 DEF ApplyHostname, Done, Local, Fault, Calm, DataOK, TypeOK, disk, mem, cache, count
<1>12. CASE WriteFailed
  BY <1>12 DEF WriteFailed, Done, Local, Fault, Calm, DataOK, TypeOK, disk, mem, cache, count
<1>13. CASE SettingsWritten
  BY <1>13 DEF SettingsWritten, MarkDebug, Done, Local, Fault, Calm, DataOK, TypeOK, disk, mem, cache, count
<1>14. CASE CameraWritten
  BY <1>14 DEF CameraWritten, Done, Local, Fault, Calm, DataOK, TypeOK, disk, mem, cache, count
<1>15. CASE PlatformWritten
  <2>1. UNCHANGED <<board, config, card>>
    BY <1>15 DEF PlatformWritten, disk, mem, cache, count
  <2> QED
    BY <1>15, <2>1, PlatformWrittenEffect DEF Edit, DataOK, TypeOK
<1>16. CASE OpenFails
  BY <1>16 DEF OpenFails, Return, Fault, Calm, DataOK, TypeOK, disk, mem, cache, count
<1>17. CASE Truncate
  BY <1>17 DEF Truncate, Fault, Calm, DataOK, TypeOK, disk, mem, cache, count
<1>18. CASE Close
  BY <1>18 DEF Close, Return, Fault, Calm, DataOK, TypeOK, disk, mem, cache, count
<1>19. CASE Serve
  <2>1. UNCHANGED <<board, config, card>>
    BY <1>19 DEF Serve, disk, mem, cache, count
  <2> QED
    BY <1>19, <2>1, ServeEffect DEF Editing, Edit, DataOK, TypeOK
<1>20. CASE CameraThread
  BY <1>20 DEF CameraThread, Fault, Calm, DataOK, TypeOK, disk, mem, cache, count
<1>21. CASE PowerCut
  BY <1>21 DEF PowerCut, Calm, Off, Done, Local, Fault, Calm, DataOK, TypeOK, disk, mem, cache, count
<1>22. CASE Shutdown
  BY <1>22 DEF Shutdown, Off, Done, Local, Fault, Calm, DataOK, TypeOK, disk, mem, cache, count
<1>23. CASE EditCard
  <2>1. UNCHANGED <<board, config>> /\ cfg' = Empty /\ early' = Empty /\ card' \in Cards
    BY <1>23 DEF EditCard, disk, mem, cache, count, Off, Done, Local
  <2> QED
    BY <1>23, <2>1, CardShape DEF DataOK, TypeOK
<1>24. CASE UNCHANGED vars
  BY <1>24 DEF vars, disk, mem, cache, count, DataOK, TypeOK
<1> QED
  BY <1>1, <1>2, <1>3, <1>4, <1>5, <1>6, <1>7, <1>8, <1>9, <1>10, <1>11, <1>12, <1>13, <1>14, <1>15, <1>16, <1>17, <1>18, <1>19, <1>20, <1>21, <1>22, <1>23, <1>24 DEF Next, Main, Boot, Answer

LEMMA FlagsStep == TypeOK /\ ShapeInv /\ [Next]_vars => FlagsOK'
<1> SUFFICES ASSUME TypeOK, ShapeInv, [Next]_vars PROVE FlagsOK'
  OBVIOUS
<1> USE LoadedShape
<1>1. CASE PowerOn
  BY <1>1 DEF PowerOn, Fault, Calm, FlagsOK, TypeOK, disk, mem, cache, count
<1>2. CASE InitPlatform
  <2>1. UNCHANGED <<marker, hostname, gDebug, reboot>>
    BY <1>2 DEF InitPlatform, disk, mem, cache, count
  <2> QED
    BY <1>2, <2>1, InitPlatformEffect DEF FlagsOK, TypeOK
<1>3. CASE FirstBoot
  BY <1>3 DEF FirstBoot, Done, Local, Fault, Calm, FlagsOK, TypeOK, disk, mem, cache, count
<1>4. CASE FinishFirstBoot
  BY <1>4 DEF FinishFirstBoot, CallWrite, Local, Fault, Calm, FlagsOK, TypeOK, disk, mem, cache, count
<1>5. CASE FirstBootReboot
  BY <1>5 DEF FirstBootReboot, Done, Local, Fault, Calm, FlagsOK, TypeOK, disk, mem, cache, count
<1>6. CASE SyncFails
  BY <1>6 DEF SyncFails, SyncReturn, Fault, Calm, FlagsOK, TypeOK, disk, mem, cache, count
<1>7. CASE SyncJson
  BY <1>7 DEF SyncJson, Remove, Orelse, Fault, Calm, FlagsOK, TypeOK, disk, mem, cache, count
<1>8. CASE SyncReset
  BY <1>8 DEF SyncReset, Remove, Wish, Fault, Calm, FlagsOK, TypeOK, disk, mem, cache, count
<1>9. CASE SyncMode
  BY <1>9 DEF SyncMode, SyncReturn, Remove, Wish, Orelse, ForceX20, Fault, Calm, FlagsOK, TypeOK, disk, mem, cache, count
<1>10. CASE InitDebug
  BY <1>10 DEF InitDebug, Remove, Wish, CallWrite, Done, Local, Fault, Calm, FlagsOK, TypeOK, disk, mem, cache, count
<1>11. CASE ApplyHostname
  <2>1. UNCHANGED <<marker, platform, gDebug, reboot>> /\ wrote' = FALSE
        /\ (hostname' = hostname \/ hostname' = Loaded.mode)
    BY <1>11 DEF ApplyHostname, Done, Local, cache
  <2>2. Loaded.mode \in Modes \cup {None}
    BY DEF Config
  <2> QED
    BY <2>1, <2>2 DEF FlagsOK, TypeOK
<1>12. CASE WriteFailed
  BY <1>12 DEF WriteFailed, Done, Local, Fault, Calm, FlagsOK, TypeOK, disk, mem, cache, count
<1>13. CASE SettingsWritten
  <2>1. UNCHANGED <<hostname, platform, reboot>> /\ wrote' \in BOOLEAN
    BY <1>13 DEF SettingsWritten, Done, Local, mem, TypeOK
  <2>2. req.set.debug \in BOOLEAN \cup {None}
    BY <1>13 DEF SettingsWritten, ShapeInv, ReqOK, Target, Writing, Served, Fields
  <2>3. UNCHANGED <<marker, gDebug>> \/ (req.set.debug # None /\ gDebug' = req.set.debug
          /\ (marker' = req.set.debug \/ marker' = marker))
    BY <1>13 DEF SettingsWritten, MarkDebug
  <2>4. marker' \in BOOLEAN /\ gDebug' \in BOOLEAN \cup {None}
    BY <2>2, <2>3, Zenon DEF TypeOK
  <2> QED
    BY <2>1, <2>4 DEF FlagsOK, TypeOK
<1>14. CASE CameraWritten
  BY <1>14 DEF CameraWritten, Done, Local, Fault, Calm, FlagsOK, TypeOK, disk, mem, cache, count
<1>15. CASE PlatformWritten
  <2>1. UNCHANGED <<marker, hostname, gDebug, reboot>>
    BY <1>15 DEF PlatformWritten, disk
  <2>2. cfg.platform \in Platforms \cup {None}
    BY DEF TypeOK, Config
  <2> QED
    BY <1>15, <2>1, <2>2, PlatformWrittenEffect DEF FlagsOK, TypeOK
<1>16. CASE OpenFails
  BY <1>16 DEF OpenFails, Return, Fault, Calm, FlagsOK, TypeOK, disk, mem, cache, count
<1>17. CASE Truncate
  BY <1>17 DEF Truncate, Fault, Calm, FlagsOK, TypeOK, disk, mem, cache, count
<1>18. CASE Close
  BY <1>18 DEF Close, Return, Fault, Calm, FlagsOK, TypeOK, disk, mem, cache, count
<1>19. CASE Serve
  BY <1>19 DEF Serve, Fault, Calm, FlagsOK, TypeOK, disk, mem, cache, count
<1>20. CASE CameraThread
  BY <1>20 DEF CameraThread, Fault, Calm, FlagsOK, TypeOK, disk, mem, cache, count
<1>21. CASE PowerCut
  BY <1>21 DEF PowerCut, Calm, Off, Done, Local, Fault, Calm, FlagsOK, TypeOK, disk, mem, cache, count
<1>22. CASE Shutdown
  BY <1>22 DEF Shutdown, Off, Done, Local, Fault, Calm, FlagsOK, TypeOK, disk, mem, cache, count
<1>23. CASE EditCard
  BY <1>23 DEF EditCard, Calm, Off, Done, Local, Fault, Calm, FlagsOK, TypeOK, disk, mem, cache, count
<1>24. CASE UNCHANGED vars
  BY <1>24 DEF vars, disk, mem, cache, count, FlagsOK, TypeOK
<1> QED
  BY <1>1, <1>2, <1>3, <1>4, <1>5, <1>6, <1>7, <1>8, <1>9, <1>10, <1>11, <1>12, <1>13, <1>14, <1>15, <1>16, <1>17, <1>18, <1>19, <1>20, <1>21, <1>22, <1>23, <1>24 DEF Next, Main, Boot, Answer

LEMMA CountStep == TypeOK /\ ShapeInv /\ [Next]_vars => CountOK'
<1> SUFFICES ASSUME TypeOK, ShapeInv, [Next]_vars PROVE CountOK'
  OBVIOUS
<1> USE Bounds
<1>1. CASE PowerOn
  BY <1>1 DEF PowerOn, Fault, Calm, CountOK, TypeOK, disk, mem, cache, count
<1>2. CASE InitPlatform
  BY <1>2 DEF InitPlatform, CallWrite, Fault, Calm, CountOK, TypeOK, disk, mem, cache, count
<1>3. CASE FirstBoot
  BY <1>3 DEF FirstBoot, Done, Local, Fault, Calm, CountOK, TypeOK, disk, mem, cache, count
<1>4. CASE FinishFirstBoot
  BY <1>4 DEF FinishFirstBoot, CallWrite, Local, Fault, Calm, CountOK, TypeOK, disk, mem, cache, count
<1>5. CASE FirstBootReboot
  BY <1>5 DEF FirstBootReboot, Done, Local, Fault, Calm, CountOK, TypeOK, disk, mem, cache, count
<1>6. CASE SyncFails
  BY <1>6 DEF SyncFails, SyncReturn, Fault, Calm, CountOK, TypeOK, disk, mem, cache, count
<1>7. CASE SyncJson
  BY <1>7 DEF SyncJson, Remove, Orelse, Fault, Calm, CountOK, TypeOK, disk, mem, cache, count
<1>8. CASE SyncReset
  BY <1>8 DEF SyncReset, Remove, Wish, Fault, Calm, CountOK, TypeOK, disk, mem, cache, count
<1>9. CASE SyncMode
  BY <1>9 DEF SyncMode, SyncReturn, Remove, Wish, Orelse, ForceX20, Fault, Calm, CountOK, TypeOK, disk, mem, cache, count
<1>10. CASE InitDebug
  BY <1>10 DEF InitDebug, Remove, Wish, CallWrite, Done, Local, Fault, Calm, CountOK, TypeOK, disk, mem, cache, count
<1>11. CASE ApplyHostname
  BY <1>11 DEF ApplyHostname, Done, Local, Fault, Calm, CountOK, TypeOK, disk, mem, cache, count
<1>12. CASE WriteFailed
  BY <1>12 DEF WriteFailed, Done, Local, Fault, Calm, CountOK, TypeOK, disk, mem, cache, count
<1>13. CASE SettingsWritten
  BY <1>13 DEF SettingsWritten, MarkDebug, Done, Local, Fault, Calm, CountOK, TypeOK, disk, mem, cache, count
<1>14. CASE CameraWritten
  BY <1>14 DEF CameraWritten, Done, Local, Fault, Calm, CountOK, TypeOK, disk, mem, cache, count
<1>15. CASE PlatformWritten
  BY <1>15 DEF PlatformWritten, Done, Local, Fault, Calm, CountOK, TypeOK, disk, mem, cache, count
<1>16. CASE OpenFails
  BY <1>16 DEF OpenFails, Return, Fault, Calm, CountOK, TypeOK, disk, mem, cache, count
<1>17. CASE Truncate
  BY <1>17 DEF Truncate, Fault, Calm, CountOK, TypeOK, disk, mem, cache, count
<1>18. CASE Close
  BY <1>18 DEF Close, Return, Fault, Calm, CountOK, TypeOK, disk, mem, cache, count
<1>19. CASE Serve
  BY <1>19 DEF Serve, Fault, Calm, CountOK, TypeOK, disk, mem, cache, count
<1>20. CASE CameraThread
  BY <1>20 DEF CameraThread, Fault, Calm, CountOK, TypeOK, disk, mem, cache, count
<1>21. CASE PowerCut
  BY <1>21 DEF PowerCut, Calm, Off, Done, Local, Fault, Calm, CountOK, TypeOK, disk, mem, cache, count
<1>22. CASE Shutdown
  BY <1>22 DEF Shutdown, Off, Done, Local, Fault, Calm, CountOK, TypeOK, disk, mem, cache, count
<1>23. CASE EditCard
  BY <1>23 DEF EditCard, Calm, Off, Done, Local, Fault, Calm, CountOK, TypeOK, disk, mem, cache, count
<1>24. CASE UNCHANGED vars
  BY <1>24 DEF vars, disk, mem, cache, count, CountOK, TypeOK
<1> QED
  BY <1>1, <1>2, <1>3, <1>4, <1>5, <1>6, <1>7, <1>8, <1>9, <1>10, <1>11, <1>12, <1>13, <1>14, <1>15, <1>16, <1>17, <1>18, <1>19, <1>20, <1>21, <1>22, <1>23, <1>24 DEF Next, Main, Boot, Answer

LEMMA SyncReturns ==
  ASSUME ShapeInv, pc \in {"sync", "sync_reset", "sync_mode"}
  PROVE  \/ goto = <<>> /\ SyncReturn = "debug"
         \/ goto # <<>> /\ SyncReturn = "finish"
BY DEF ShapeInv, SyncReturn

\* The wishes w once the request r is granted.
Grant(r, w) ==
  [mode |-> IF r.set.mode = "unset" THEN None ELSE Orelse(NormalMode(r.set.mode), w.mode),
   debug |-> Orelse(r.set.debug, w.debug), reset |-> Orelse(r.set.reset, w.reset),
   camera |-> Orelse(NormalCamera(r.set.camera), w.camera)]

LEMMA GrantShape ==
  ASSUME NEW r \in Served, NEW w \in Wishes
  PROVE  /\ Grant(r, w) \in Wishes
         /\ Grant(r, w).mode = IF r.set.mode = "unset" THEN None
                               ELSE IF NormalMode(r.set.mode) = None THEN w.mode ELSE NormalMode(r.set.mode)
         /\ Grant(r, w).reset = IF r.set.reset = None THEN w.reset ELSE r.set.reset
         /\ Grant(r, w).camera = IF NormalCamera(r.set.camera) = None THEN w.camera
                                 ELSE NormalCamera(r.set.camera)
<1>1. /\ r.set.mode \in {None, "ground", "record", "unset", "bogus"} /\ r.set.debug \in BOOLEAN \cup {None}
      /\ r.set.reset \in BOOLEAN \cup {None} /\ r.set.camera \in {None, "legacy", "csi"}
  BY DEF Served, Fields
<1>2. NormalMode(r.set.mode) \in Modes \cup {None} /\ NormalCamera(r.set.camera) \in Cameras \cup {None}
  BY <1>1, Normal DEF Modes, Cameras
<1> QED
  BY <1>1, <1>2 DEF Grant, Orelse, Wishes

LEMMA GrantedIsGrant == Granted = Grant(req, wanted)
BY DEF Granted, Grant

LEMMA ShapeStep == TypeOK /\ ShapeInv /\ [Next]_vars => ShapeInv'
<1> SUFFICES ASSUME TypeOK, ShapeInv, [Next]_vars PROVE ShapeInv'
  OBVIOUS
<1> USE DEF ShapeInv, Target, Writing, Steps
<1>0. camera \in Nat /\ requests \in Nat
  BY Bounds DEF TypeOK
<1>1. CASE PowerOn
  BY <1>0, <1>1 DEF PowerOn, Fault, disk, mem, cache, count, ReqOK
<1>2. CASE InitPlatform
  <2>1. UNCHANGED <<camera, wanted, requests>>
    BY <1>2 DEF InitPlatform, Remove, Fault, mem, count
  <2> QED
    BY <1>0, <1>2, <2>1, InitPlatformEffect DEF ReqOK
<1>3. CASE FirstBoot
  BY <1>0, <1>3 DEF FirstBoot, Done, Local, Fault, disk, mem, cache, count, ReqOK
<1>4. CASE FinishFirstBoot
  <2>1. UNCHANGED <<camera, wanted, requests>>
    BY <1>4 DEF FinishFirstBoot, Fault, count
  <2>2. pc' = "write" /\ goto' = <<"reboot">>
    BY <1>4, FinishFirstBootEffect
  <2> QED
    BY <2>1, <2>2
<1>5. CASE FirstBootReboot
  BY <1>0, <1>5 DEF FirstBootReboot, Done, Local, Fault, disk, mem, cache, count, ReqOK
<1>6. CASE SyncFails
  BY <1>0, <1>6 DEF SyncFails, SyncReturn, Fault, disk, mem, cache, count, ReqOK
<1>7. CASE SyncJson
  <2>1. UNCHANGED <<goto, camera, requests, req>>
    BY <1>7 DEF SyncJson, Remove, Fault, mem, count
  <2> QED
    BY <1>0, <1>7, <2>1, SyncJsonEffect DEF ReqOK
<1>8. CASE SyncReset
  <2>1. UNCHANGED <<goto, camera, requests, req>>
    BY <1>8 DEF SyncReset, Remove, Fault, mem, count
  <2> QED
    BY <1>0, <1>8, <2>1, SyncResetEffect DEF ReqOK
<1>9. CASE SyncMode
  <2>1. UNCHANGED <<camera, requests, req>>
    BY <1>9 DEF SyncMode, Remove, Fault, count
  <2>2. /\ wanted' \in Wishes
        /\ \/ pc' = "write" /\ goto' = <<SyncReturn>>
           \/ pc' = SyncReturn /\ goto' = <<>>
    BY <1>9, SyncModeEffect
  <2>3. SyncReturn = "debug" \/ SyncReturn = "finish"
    BY <1>9, SyncReturns DEF SyncMode
  <2> QED
    BY <2>1, <2>2, <2>3
<1>10. CASE InitDebug
  <2>1. UNCHANGED <<camera, requests>>
    BY <1>10 DEF InitDebug, Remove, Fault, count
  <2>2. /\ wanted' \in Wishes
        /\ \/ pc' = "write" /\ goto' = <<"hostname">>
           \/ pc' = "hostname" /\ goto' = <<>>
    BY <1>10, InitDebugEffect
  <2> QED
    BY <2>1, <2>2
<1>11. CASE ApplyHostname
  BY <1>0, <1>11 DEF ApplyHostname, Done, Local, Fault, disk, mem, cache, count, ReqOK
<1>12. CASE WriteFailed
  BY <1>0, <1>12 DEF WriteFailed, Done, Local, Fault, disk, mem, cache, count, ReqOK
<1>13. CASE SettingsWritten
  <2>1. UNCHANGED <<camera, requests>>
    BY <1>13 DEF SettingsWritten, MarkDebug, Fault, count
  <2>2. wanted' = Granted /\ pc' \in {"hostname", "serve"} /\ goto' = <<>>
    BY <1>13 DEF SettingsWritten, Done, Local, mem
  <2>3. wanted' \in Wishes
    BY <1>13, <2>2, GrantShape, GrantedIsGrant DEF SettingsWritten, ReqOK
  <2> QED
    BY <2>1, <2>2, <2>3
<1>14. CASE CameraWritten
  <2>1. requests' = requests /\ camera' = camera + 1 /\ camera + 1 <= requests
    BY <1>0, <1>14 DEF CameraWritten, count
  <2>2. wanted' = Granted /\ pc' = "serve" /\ goto' = <<>>
    BY <1>14 DEF CameraWritten, Done, Local
  <2>3. wanted' \in Wishes
    BY <1>14, <2>2, GrantShape, GrantedIsGrant DEF CameraWritten, ReqOK
  <2> QED
    BY <2>1, <2>2, <2>3
<1>15. CASE PlatformWritten
  <2>1. UNCHANGED <<camera, requests, wanted>>
    BY <1>15 DEF PlatformWritten, Remove, Fault, mem, count
  <2> QED
    BY <1>0, <1>15, <2>1, PlatformWrittenEffect DEF ReqOK
<1>16. CASE OpenFails
  <2>1. PICK s \in {"firstboot", "finish", "reboot", "debug", "hostname", "written"} : goto = <<s>>
    BY <1>16 DEF OpenFails
  <2>2. pc' = s /\ goto' = <<>> /\ UNCHANGED <<camera, requests, wanted, req>>
    BY <1>16, <2>1 DEF OpenFails, Return, Fault
  <2>3. s = "written" => ReqOK' /\ camera < requests
    BY <1>16, <2>1, <2>2 DEF OpenFails, ReqOK
  <2> QED
    BY <2>2, <2>3
<1>17. CASE Truncate
  BY <1>0, <1>17 DEF Truncate, Fault, disk, mem, cache, count, ReqOK
<1>18. CASE Close
  <2>1. PICK s \in {"firstboot", "finish", "reboot", "debug", "hostname", "written"} : goto = <<s>>
    BY <1>18 DEF Close
  <2>2. pc' = s /\ goto' = <<>> /\ UNCHANGED <<camera, requests, wanted, req>>
    BY <1>18, <2>1 DEF Close, Return, Fault, count
  <2>3. s = "written" => ReqOK' /\ camera < requests
    BY <1>18, <2>1, <2>2 DEF Close, ReqOK
  <2> QED
    BY <2>2, <2>3
<1>19. CASE Serve
  <2>1. UNCHANGED <<camera, wanted>>
    BY <1>19 DEF Serve, Remove, Fault, mem, count
  <2> QED
    BY <1>0, <1>19, <2>1, ServeEffect DEF ReqOK
<1>20. CASE CameraThread
  BY <1>0, <1>20 DEF CameraThread, Fault, disk, mem, cache, count, ReqOK
<1>21. CASE PowerCut
  <2>1. pc' = "off" /\ goto' = <<>> /\ camera' = 0 /\ requests' = requests
        /\ (wanted' = wanted \/ (pc = "written" /\ wanted' = Granted))
    BY <1>21 DEF PowerCut, Off, Done, Local
  <2>2. wanted' \in Wishes
    BY <2>1, GrantShape, GrantedIsGrant DEF ReqOK
  <2> QED
    BY <1>0, <2>1, <2>2
<1>22. CASE Shutdown
  BY <1>0, <1>22 DEF Shutdown, Off, Done, Local, Fault, disk, mem, cache, count, ReqOK
<1>23. CASE EditCard
  BY <1>0, <1>23 DEF EditCard, Off, Done, Local, Fault, disk, mem, cache, count, ReqOK
<1>24. CASE UNCHANGED vars
  BY <1>24 DEF vars, mem, cache, count, ReqOK
<1> QED
  BY <1>1, <1>2, <1>3, <1>4, <1>5, <1>6, <1>7, <1>8, <1>9, <1>10, <1>11, <1>12, <1>13, <1>14, <1>15, <1>16, <1>17, <1>18, <1>19, <1>20, <1>21, <1>22, <1>23, <1>24 DEF Next, Main, Boot, Answer

\* Where the process is ended decides whether anything gets lost.
LEMMA LossStep ==
  ASSUME [Next]_vars
  PROVE  lost' = lost \/ ((PowerCut \/ Shutdown) /\ lost' = (lost \/ Exposed))
BY Zenon DEF Next, Main, Boot, Answer, vars, PowerOn, InitPlatform, FirstBoot, FinishFirstBoot, FirstBootReboot,
             SyncFails, SyncJson, SyncReset, SyncMode, InitDebug, ApplyHostname, WriteFailed, SettingsWritten,
             CameraWritten, PlatformWritten, OpenFails, Truncate, Close, Serve, CameraThread, PowerCut, Shutdown,
             EditCard

LEMMA TypeStep == TypeOK /\ ShapeInv /\ [Next]_vars => TypeOK' /\ ShapeInv'
<1> SUFFICES ASSUME TypeOK, ShapeInv, [Next]_vars PROVE TypeOK' /\ ShapeInv'
  OBVIOUS
<1>1. DataOK' /\ FlagsOK' /\ CountOK' /\ ShapeInv'
  BY DataStep, FlagsStep, CountStep, ShapeStep
<1>2. goto' \in {<<>>} \cup { <<s>> : s \in {"finish", "debug", "firstboot", "reboot", "hostname", "written"} }
  BY <1>1 DEF ShapeInv, Writing
<1>3. camera' \in 0..MaxRequests
  <2>1. camera' \in Nat
    <3>1. camera \in Nat
      BY Bounds DEF TypeOK
    <3>2. CASE CameraThread
      BY <3>1, <3>2 DEF CameraThread
    <3>3. CASE CameraWritten
      BY <3>1, <3>3 DEF CameraWritten
    <3>4. CASE PowerCut \/ Shutdown \/ EditCard
      BY <3>4 DEF PowerCut, Shutdown, EditCard, Off
    <3>5. CASE UNCHANGED camera
      BY <3>1, <3>5
    <3> QED
      BY <3>2, <3>3, <3>4, <3>5, Zenon
      DEF Next, Main, Boot, Answer, vars, PowerOn, InitPlatform, FirstBoot, FinishFirstBoot, FirstBootReboot,
          SyncFails, SyncJson, SyncReset, SyncMode, InitDebug, ApplyHostname, WriteFailed, SettingsWritten,
          PlatformWritten, OpenFails, Truncate, Close, Serve
  <2> QED
    BY <1>1, <2>1, Bounds DEF ShapeInv, CountOK
<1>4. lost' \in BOOLEAN
  <2>1. lost \in BOOLEAN
    BY DEF TypeOK
  <2>2. CASE lost' = lost
    BY <2>1, <2>2
  <2>3. CASE lost' = (lost \/ Exposed)
    BY <2>3
  <2> QED
    BY <2>2, <2>3, LossStep
<1> QED
  BY <1>1, <1>2, <1>3, <1>4, Zenon DEF TypeOK, DataOK, FlagsOK, CountOK

-----------------------------------------------------------------------------
(* The file, and the board.                                                *)

\* The file changes only while it is written.
LEMMA FileStep ==
  ASSUME TypeOK, [Next]_vars
  PROVE  /\ board' = board
         /\ \/ Loaded' = Loaded
            \/ pc = "write" /\ Loaded' = Empty
            \/ pc = "close" /\ Loaded' = cfg
<1>1. board' = board
  BY DEF Next, Main, Boot, Answer, vars, PowerOn, InitPlatform, FirstBoot, FinishFirstBoot, FirstBootReboot,
             SyncFails, SyncJson, SyncReset, SyncMode, InitDebug, ApplyHostname, WriteFailed, SettingsWritten,
             CameraWritten, PlatformWritten, OpenFails, Truncate, Close, Serve, CameraThread, PowerCut, Shutdown,
             EditCard
<1>2. config' = config \/ (pc = "write" /\ config' = Empty) \/ (pc = "close" /\ config' = cfg)
  BY DEF Next, Main, Boot, Answer, vars, disk, PowerOn, InitPlatform, FirstBoot, FinishFirstBoot, FirstBootReboot,
             SyncFails, SyncJson, SyncReset, SyncMode, InitDebug, ApplyHostname, WriteFailed, SettingsWritten,
             CameraWritten, PlatformWritten, OpenFails, Truncate, Close, Serve, CameraThread, PowerCut, Shutdown,
             EditCard
<1> QED
  BY <1>1, <1>2, EmptyShape, AbsenceAssumption DEF Loaded, TypeOK

LEMMA BoardStep == TypeOK /\ ShapeInv /\ BoardInv /\ [Next]_vars => BoardInv'
<1> SUFFICES ASSUME TypeOK, ShapeInv, BoardInv, [Next]_vars PROVE BoardInv'
  OBVIOUS
<1>1. board' = board /\ (board # "x20" => Loaded'.platform # "x20")
  BY FileStep, SettingsAssumption DEF BoardInv, Empty
<1>2. CASE PowerOn
  BY <1>1, <1>2, SettingsAssumption DEF BoardInv, Empty, PowerOn, disk, mem, cache, count
<1>3. CASE InitPlatform
  <2> QED
    BY <1>1, <1>3, InitPlatformEffect, SettingsAssumption DEF BoardInv, Edit, ConfigFields, Editing, Empty
<1>4. CASE FirstBoot
  BY <1>1, <1>4, SettingsAssumption DEF BoardInv, Empty, FirstBoot, Done, Local, disk, mem, cache, count
<1>5. CASE FinishFirstBoot
  <2>1. UNCHANGED <<platform>>
    BY <1>5 DEF FinishFirstBoot, mem, cache
  <2> QED
    BY <1>1, <1>5, <2>1, FinishFirstBootEffect, SettingsAssumption DEF BoardInv, Edit, ConfigFields, Editing, Empty
<1>6. CASE FirstBootReboot
  BY <1>1, <1>6, SettingsAssumption DEF BoardInv, Empty, FirstBootReboot, Done, Local, disk, mem, cache, count
<1>7. CASE SyncFails
  BY <1>1, <1>7, SettingsAssumption DEF BoardInv, Empty, SyncFails, SyncReturn, disk, mem, cache, count
<1>8. CASE SyncJson
  <2>1. UNCHANGED <<platform, early>>
    BY <1>8 DEF SyncJson, mem, cache
  <2> QED
    BY <1>1, <1>8, <2>1, SyncJsonEffect, SettingsAssumption DEF BoardInv, Edit, ConfigFields, Editing, Empty
<1>9. CASE SyncReset
  <2>1. UNCHANGED <<platform, early>>
    BY <1>9 DEF SyncReset, mem, cache
  <2> QED
    BY <1>1, <1>9, <2>1, SyncResetEffect, SettingsAssumption DEF BoardInv, Edit, ConfigFields, Editing, Empty
<1>10. CASE SyncMode
  <2>1. UNCHANGED <<platform, early>>
    BY <1>10 DEF SyncMode, mem, cache
  <2> QED
    BY <1>1, <1>10, <2>1, SyncModeEffect, SettingsAssumption DEF BoardInv, Edit, ConfigFields, Editing, Empty
<1>11. CASE InitDebug
  <2>1. UNCHANGED platform
    BY <1>11 DEF InitDebug
  <2>2. pc = "debug" /\ early' = Empty /\ (cfg'.platform = Loaded.platform \/ cfg' = Empty)
    BY <1>11, InitDebugEffect DEF Edit, ConfigFields
  <2> QED
    BY <1>1, <2>1, <2>2, SettingsAssumption DEF BoardInv, Empty
<1>12. CASE ApplyHostname
  BY <1>1, <1>12, SettingsAssumption DEF BoardInv, Empty, ApplyHostname, Done, Local, disk, mem, cache, count
<1>13. CASE WriteFailed
  BY <1>1, <1>13, SettingsAssumption DEF BoardInv, Empty, WriteFailed, Done, Local, disk, mem, cache, count
<1>14. CASE SettingsWritten
  <2>1. UNCHANGED platform /\ pc = "written"
    BY <1>14 DEF SettingsWritten
  <2>2. UNCHANGED <<cfg, early>> \/ (cfg' = Empty /\ early' = Empty)
    BY <1>14 DEF SettingsWritten, mem, Done, Local
  <2> QED
    BY <1>1, <2>1, <2>2, SettingsAssumption DEF BoardInv, Empty
<1>15. CASE CameraWritten
  BY <1>1, <1>15, SettingsAssumption DEF BoardInv, Empty, CameraWritten, Done, Local, disk, mem, cache, count
<1>16. CASE PlatformWritten
  <2>1. pc = "written"
    BY <1>16 DEF PlatformWritten
  <2>2. \/ UNCHANGED <<platform, early>> /\ board = "x20"
        \/ cfg' = Empty /\ early' = Empty /\ platform' = cfg.platform /\ (board = "x20" => cfg.platform = "x20")
    BY <1>16, PlatformWrittenEffect
  <2> QED
    BY <1>1, <2>1, <2>2, SettingsAssumption DEF BoardInv, Empty
<1>17. CASE OpenFails
  BY <1>1, <1>17, SettingsAssumption DEF BoardInv, Empty, OpenFails, Return, disk, mem, cache, count
<1>18. CASE Truncate
  BY <1>1, <1>18, SettingsAssumption DEF BoardInv, Empty, Truncate, disk, mem, cache, count
<1>19. CASE Close
  BY <1>1, <1>19, SettingsAssumption DEF BoardInv, Empty, Close, Return, disk, mem, cache, count
<1>20. CASE Serve
  <2>1. UNCHANGED <<platform, early>>
    BY <1>20 DEF Serve, mem, cache
  <2> QED
    BY <1>1, <1>20, <2>1, ServeEffect, SettingsAssumption DEF BoardInv, Edit, ConfigFields, Editing, Empty
<1>21. CASE CameraThread
  BY <1>1, <1>21, SettingsAssumption DEF BoardInv, Empty, CameraThread, disk, mem, cache, count
<1>22. CASE PowerCut
  BY <1>1, <1>22, SettingsAssumption DEF BoardInv, Empty, PowerCut, Off, Done, Local, disk, mem, cache, count
<1>23. CASE Shutdown
  BY <1>1, <1>23, SettingsAssumption DEF BoardInv, Empty, Shutdown, Off, Done, Local, disk, mem, cache, count
<1>24. CASE EditCard
  BY <1>1, <1>24, SettingsAssumption DEF BoardInv, Empty, EditCard, Off, Done, Local, disk, mem, cache, count
<1>25. CASE UNCHANGED vars
  BY <1>1, <1>25 DEF vars, mem, cache, BoardInv
<1> QED
  BY <1>2, <1>3, <1>4, <1>5, <1>6, <1>7, <1>8, <1>9, <1>10, <1>11, <1>12, <1>13, <1>14, <1>15, <1>16, <1>17, <1>18, <1>19, <1>20, <1>21, <1>22, <1>23, <1>24, <1>25 DEF Next, Main, Boot, Answer

-----------------------------------------------------------------------------
(* One step of a file system that does not fail.                           *)

LEMMA SoundStep ==
  ASSUME TypeOK, ShapeInv, BoardInv, SoundInv, Next, NoFault
  PROVE  SoundInv' /\ (KeptInv /\ OnDisk /\ ~lost' => KeptInv')
<1>0. /\ GateInv /\ AgreeInv /\ DebugInv /\ HostInv /\ UnchangedInv /\ AirInv
      /\ board' = board /\ ~Fault /\ Loaded \in Config /\ cfg \in Config
  BY FileStep, LoadedShape DEF SoundInv, Fault, NoFault, TypeOK
<1>1. CASE PowerOn
  <2>1. /\ pc = "off" /\ pc' = "platform" /\ Target' = "platform"
        /\ Target = "off" /\ Coming = Loaded /\ Loaded' = Loaded /\ Coming' = Loaded
    BY <1>1 DEF PowerOn, Target, Coming, Writing, Loaded, disk, mem, cache
  <2>2. GateInv'
    BY <1>0, <2>1, SettingsAssumption DEF GateInv, Importing, Gated, Edit, ConfigFields
  <2>3. AgreeInv'
    BY <1>0, <2>1, SettingsAssumption DEF AgreeInv, Importing, Edit, ConfigFields
  <2>4. DebugInv'
    BY <1>0, <2>1, SettingsAssumption DEF DebugInv, Importing, Edit, ConfigFields
  <2>5. HostInv'
    BY <1>0, <2>1, SettingsAssumption DEF HostInv, Importing, Follows, Edit, ConfigFields
  <2>6. UnchangedInv'
    BY <1>0, <2>1, SettingsAssumption DEF UnchangedInv, Importing, Edit, ConfigFields
  <2>7. AirInv'
    BY <1>0, <2>1, SettingsAssumption DEF AirInv, Importing, Edit, ConfigFields
  <2>8. ASSUME KeptInv, OnDisk, ~lost' PROVE KeptInv'
    <3>1. wanted' = wanted
      BY <1>1 DEF PowerOn
    <3> QED
      BY <2>8, <1>0, <2>1, <3>1 DEF KeptInv, KeptIn, Importing, Durable, Edit, ConfigFields
  <2> QED
    BY <2>2, <2>3, <2>4, <2>5, <2>6, <2>7, <2>8 DEF SoundInv
<1>2. CASE InitPlatform
  <2>1. /\ pc = "platform" /\ pc' \in {"firstboot", "write"} /\ Target' = "firstboot" /\ Loaded' = Loaded
        /\ Edit(Loaded, Coming', {"platform"}) /\ Coming'.platform = platform' /\ platform' # None
        /\ platform' = board \/ platform' = Loaded.platform
    <3>1. UNCHANGED config /\ platform' \in Platforms /\ pc = "platform"
      BY <1>2, InitPlatformEffect DEF InitPlatform, disk
    <3>2. CASE pc' = "firstboot" /\ platform' = Loaded.platform
      BY <1>0, <1>2, <3>1, <3>2, SettingsAssumption DEF Target, Coming, Writing, Loaded, Edit, Platforms
    <3>3. CASE /\ pc' = "write" /\ goto' = <<"firstboot">> /\ (platform' = board \/ platform' = Loaded.platform)
               /\ Edit(Loaded, cfg', {"platform"}) /\ cfg'.platform = platform'
      <4>1. Target' = "firstboot" /\ Coming' = cfg'
        BY <3>3 DEF Target, Coming, Writing
      <4> QED
        BY <3>1, <3>3, <4>1, SettingsAssumption DEF Loaded, Platforms
    <3> QED
      BY <1>2, <3>2, <3>3, InitPlatformEffect
  <2>2. GateInv'
    BY <1>0, <2>1, SettingsAssumption DEF GateInv, Importing, Gated, Edit, ConfigFields
  <2>3. AgreeInv'
    BY <1>0, <2>1, SettingsAssumption DEF AgreeInv, Importing, Edit, ConfigFields
  <2>4. DebugInv'
    BY <1>0, <2>1, SettingsAssumption DEF DebugInv, Importing, Edit, ConfigFields
  <2>5. HostInv'
    BY <1>0, <2>1, SettingsAssumption DEF HostInv, Importing, Follows, Edit, ConfigFields
  <2>6. UnchangedInv'
    BY <1>0, <2>1, SettingsAssumption DEF UnchangedInv, Importing, Edit, ConfigFields
  <2>7. AirInv'
    BY <1>0, <2>1, SettingsAssumption DEF AirInv, Importing, Edit, ConfigFields
  <2>8. ASSUME KeptInv, OnDisk, ~lost' PROVE KeptInv'
    <3>1. wanted' = wanted /\ Target \in {"platform", "finish"} /\ Coming = Loaded
      BY <1>2, <2>1 DEF InitPlatform, Target, Coming, Writing
    <3>2. \A f \in Durable : Coming'[f] = Loaded[f]
      BY <2>1 DEF Edit, ConfigFields, Durable
    <3>3. Target' # "written" /\ ~Importing' /\ ~Importing
      BY <2>1 DEF Importing
    <3> QED
      BY <2>8, <2>8, <1>0, <2>1, <3>1, <3>2, <3>3 DEF KeptInv, KeptIn
  <2> QED
    BY <2>2, <2>3, <2>4, <2>5, <2>6, <2>7, <2>8 DEF SoundInv
<1>3. CASE FirstBoot
  <2>1. /\ pc = "firstboot" /\ pc' = "sync" /\ Target = "firstboot" /\ Target' = "sync"
        /\ Loaded' = Loaded /\ Coming = Loaded /\ Coming' = Loaded /\ platform' = platform
        /\ (goto' = <<>> /\ Loaded.firstboot = FALSE) \/ (goto' # <<>> /\ Loaded.firstboot = None)
    BY <1>3, <1>0 DEF FirstBoot, Done, Local, Target, Coming, Writing, Loaded, disk, mem, cache
  <2>2. GateInv'
    BY <1>0, <2>1, SettingsAssumption DEF GateInv, AgreeInv, Importing, Gated
  <2>3. AgreeInv'
    BY <1>0, <2>1, SettingsAssumption DEF AgreeInv, Importing, Edit, ConfigFields
  <2>4. DebugInv'
    BY <1>0, <2>1, SettingsAssumption DEF DebugInv, Importing, Edit, ConfigFields
  <2>5. HostInv'
    BY <1>0, <2>1, SettingsAssumption DEF HostInv, Importing, Follows, Edit, ConfigFields
  <2>6. UnchangedInv'
    BY <1>0, <2>1, SettingsAssumption DEF UnchangedInv, Importing, Edit, ConfigFields
  <2>7. AirInv'
    BY <1>0, <2>1, SettingsAssumption DEF AirInv, Importing, Edit, ConfigFields
  <2>8. ASSUME KeptInv, OnDisk, ~lost' PROVE KeptInv'
    <3>1. wanted' = wanted
      BY <1>3 DEF FirstBoot
    <3> QED
      BY <2>8, <1>0, <2>1, <3>1 DEF KeptInv, KeptIn, Importing, Durable, Edit, ConfigFields
  <2> QED
    BY <2>2, <2>3, <2>4, <2>5, <2>6, <2>7, <2>8 DEF SoundInv
<1>4. CASE FinishFirstBoot
  <2>1. /\ pc = "finish" /\ pc' = "write" /\ Target = "finish" /\ Target' = "reboot"
        /\ Loaded' = Loaded /\ Coming = Loaded /\ platform' = platform
        /\ Coming'.platform = board /\ Coming'.firstboot = FALSE
        /\ Edit(Loaded, Coming', {"platform", "firstboot"})
    <3>1. UNCHANGED <<config, platform>> /\ Coming = Loaded /\ Target = "finish"
      BY <1>4 DEF FinishFirstBoot, Target, Coming, Writing, disk, cache
    <3>2. /\ pc = "finish" /\ pc' = "write" /\ goto' = <<"reboot">>
          /\ cfg'.platform = board /\ cfg'.firstboot = FALSE /\ Edit(Loaded, cfg', {"platform", "firstboot"})
      BY <1>4, FinishFirstBootEffect
    <3>3. Target' = "reboot" /\ Coming' = cfg'
      BY <3>2 DEF Target, Coming, Writing
    <3> QED
      BY <3>1, <3>2, <3>3 DEF Loaded
  <2>2. GateInv'
    BY <1>0, <2>1, SettingsAssumption DEF GateInv, Importing, Gated, Edit, ConfigFields
  <2>3. AgreeInv'
    BY <1>0, <2>1, SettingsAssumption DEF AgreeInv, GateInv, Importing
  <2>4. DebugInv'
    BY <1>0, <2>1, SettingsAssumption DEF DebugInv, Importing, Edit, ConfigFields
  <2>5. HostInv'
    BY <1>0, <2>1, SettingsAssumption DEF HostInv, Importing, Follows, Edit, ConfigFields
  <2>6. UnchangedInv'
    BY <1>0, <2>1, SettingsAssumption DEF UnchangedInv, Importing, Edit, ConfigFields
  <2>7. AirInv'
    BY <1>0, <2>1, SettingsAssumption DEF AirInv, Importing, Edit, ConfigFields
  <2>8. ASSUME KeptInv, OnDisk, ~lost' PROVE KeptInv'
    <3>1. wanted' = wanted /\ Target \in {"platform", "finish"} /\ Coming = Loaded
      BY <1>4, <2>1 DEF FinishFirstBoot, Target, Coming, Writing
    <3>2. \A f \in Durable : Coming'[f] = Loaded[f]
      BY <2>1 DEF Edit, ConfigFields, Durable
    <3>3. Target' # "written" /\ ~Importing' /\ ~Importing
      BY <2>1 DEF Importing
    <3> QED
      BY <2>8, <2>8, <1>0, <2>1, <3>1, <3>2, <3>3 DEF KeptInv, KeptIn
  <2> QED
    BY <2>2, <2>3, <2>4, <2>5, <2>6, <2>7, <2>8 DEF SoundInv
<1>5. CASE FirstBootReboot
  <2>1. /\ pc = "reboot" /\ pc' = "sync" /\ Target = "reboot" /\ Target' = "sync" /\ goto' = <<>>
        /\ Loaded' = Loaded /\ Coming = Loaded /\ Coming' = Loaded /\ platform' = platform
    BY <1>5 DEF FirstBootReboot, Done, Local, Target, Coming, Writing, Loaded, disk, mem, cache
  <2>2. GateInv'
    BY <1>0, <2>1, SettingsAssumption DEF GateInv, Importing, Gated, Edit, ConfigFields
  <2>3. AgreeInv'
    BY <1>0, <2>1, SettingsAssumption DEF AgreeInv, Importing, Edit, ConfigFields
  <2>4. DebugInv'
    BY <1>0, <2>1, SettingsAssumption DEF DebugInv, Importing, Edit, ConfigFields
  <2>5. HostInv'
    BY <1>0, <2>1, SettingsAssumption DEF HostInv, Importing, Follows, Edit, ConfigFields
  <2>6. UnchangedInv'
    BY <1>0, <2>1, SettingsAssumption DEF UnchangedInv, Importing, Edit, ConfigFields
  <2>7. AirInv'
    BY <1>0, <2>1, SettingsAssumption DEF AirInv, Importing, Edit, ConfigFields
  <2>8. ASSUME KeptInv, OnDisk, ~lost' PROVE KeptInv'
    <3>1. wanted' = wanted
      BY <1>5 DEF FirstBootReboot
    <3> QED
      BY <2>8, <1>0, <2>1, <3>1 DEF KeptInv, KeptIn, Importing, Durable, Edit, ConfigFields
  <2> QED
    BY <2>2, <2>3, <2>4, <2>5, <2>6, <2>7, <2>8 DEF SoundInv
<1>6. CASE SyncFails
  BY <1>6, <1>0 DEF SyncFails
<1>7. CASE SyncJson
  <2>1. /\ pc = "sync" /\ pc' = "sync_reset" /\ Target = "sync" /\ Target' = "sync_reset"
        /\ Loaded' = Loaded /\ Coming = Loaded /\ Coming' = Loaded /\ UNCHANGED <<platform, goto>>
        /\ cfg'.firstboot = Loaded.firstboot /\ cfg'.platform = Loaded.platform /\ (~wrote' => cfg' = Loaded)
    BY <1>7, SyncJsonEffect DEF SyncJson, Target, Coming, Writing, Loaded, cache, Edit, ConfigFields
  <2>2. GateInv'
    BY <1>0, <2>1, SettingsAssumption DEF GateInv, Importing, Gated, Edit, ConfigFields
  <2>3. AgreeInv'
    BY <1>0, <2>1, SettingsAssumption DEF AgreeInv, Importing, Edit, ConfigFields
  <2>4. DebugInv'
    BY <1>0, <2>1, SettingsAssumption DEF DebugInv, Importing, Edit, ConfigFields
  <2>5. HostInv'
    BY <1>0, <2>1, SettingsAssumption DEF HostInv, Importing, Follows, Edit, ConfigFields
  <2>6. UnchangedInv'
    BY <1>0, <2>1, SettingsAssumption DEF UnchangedInv, Importing, Edit, ConfigFields
  <2>7. AirInv'
    BY <1>0, <2>1, SettingsAssumption DEF AirInv, Importing, Edit, ConfigFields
  <2>8. ASSUME KeptInv, OnDisk, ~lost' PROVE KeptInv'
    <3>1. Target = "sync" /\ pc = "sync" /\ pc' = "sync_reset" /\ cfg'.reset = Loaded.reset /\ wanted'.reset = wanted.reset
          /\ \A f \in {"camera", "mode"} : (cfg'[f] = Loaded[f] /\ wanted'[f] = wanted[f]) \/ cfg'[f] = wanted'[f]
      BY <1>7, <2>1, SyncJsonEffect DEF Edit, ConfigFields
    <3> QED
      BY <2>8, <1>0, <2>1, <3>1 DEF KeptInv, KeptIn, Importing, Durable
  <2> QED
    BY <2>2, <2>3, <2>4, <2>5, <2>6, <2>7, <2>8 DEF SoundInv
<1>8. CASE SyncReset
  <2>1. /\ pc = "sync_reset" /\ pc' = "sync_mode" /\ Target = "sync_reset" /\ Target' = "sync_mode"
        /\ Loaded' = Loaded /\ Coming = Loaded /\ Coming' = Loaded /\ UNCHANGED <<platform, goto>>
        /\ cfg'.firstboot = cfg.firstboot /\ cfg'.platform = cfg.platform /\ (~wrote' => ~wrote /\ cfg' = cfg)
    <3>1. UNCHANGED <<config, platform, goto>>
      BY <1>8 DEF SyncReset, cache
    <3>2. pc = "sync_reset" /\ pc' = "sync_mode" /\ cfg'.firstboot = cfg.firstboot /\ cfg'.platform = cfg.platform
      BY <1>8, SyncResetEffect DEF Edit, ConfigFields
    <3>3. wrote' \/ UNCHANGED <<cfg, wrote>>
      BY <1>8, SyncResetEffect
    <3> QED
      BY <3>1, <3>2, <3>3 DEF Target, Coming, Writing, Loaded
  <2>2. GateInv'
    BY <1>0, <2>1, SettingsAssumption DEF GateInv, Importing, Gated, Edit, ConfigFields
  <2>3. AgreeInv'
    BY <1>0, <2>1, SettingsAssumption DEF AgreeInv, Importing, Edit, ConfigFields
  <2>4. DebugInv'
    BY <1>0, <2>1, SettingsAssumption DEF DebugInv, Importing, Edit, ConfigFields
  <2>5. HostInv'
    BY <1>0, <2>1, SettingsAssumption DEF HostInv, Importing, Follows, Edit, ConfigFields
  <2>6. UnchangedInv'
    BY <1>0, <2>1, SettingsAssumption DEF UnchangedInv, Importing, Edit, ConfigFields
  <2>7. AirInv'
    BY <1>0, <2>1, SettingsAssumption DEF AirInv, Importing, Edit, ConfigFields
  <2>8. ASSUME KeptInv, OnDisk, ~lost' PROVE KeptInv'
    <3>1. /\ \A f \in {"camera", "mode"} : wanted'[f] = wanted[f] /\ cfg'[f] = cfg[f]
          /\ (wanted'.reset = wanted.reset /\ cfg'.reset = cfg.reset) \/ cfg'.reset = wanted'.reset
      BY <1>8, SyncResetEffect DEF Edit, ConfigFields
    <3> QED
      BY <2>8, <1>0, <2>1, <3>1 DEF KeptInv, KeptIn, Importing, Durable
  <2> QED
    BY <2>2, <2>3, <2>4, <2>5, <2>6, <2>7, <2>8 DEF SoundInv
<1>9. CASE SyncMode
  <2>1. /\ pc = "sync_mode" /\ pc' \in {"write", "debug", "finish"} /\ Target = "sync_mode"
        /\ Loaded' = Loaded /\ Coming = Loaded /\ UNCHANGED platform
        /\ (goto = <<>> /\ Target' = "debug") \/ (goto # <<>> /\ Target' = "finish")
        /\ Edit(cfg, Coming', {"mode"}) /\ (X20 => Coming'.mode = "air")
    <3>1. pc = "sync_mode" /\ UNCHANGED <<config, platform>> /\ ShapeInv
      BY <1>9 DEF SyncMode, cache
    <3>2. \/ goto = <<>> /\ SyncReturn = "debug"
          \/ goto # <<>> /\ SyncReturn = "finish"
      BY <3>1, SyncReturns
    <3>3. CASE /\ pc' = "write" /\ goto' = <<SyncReturn>> /\ Edit(cfg, cfg', {"mode"})
               /\ X20 => cfg'.mode = "air"
      <4>1. Target' = SyncReturn /\ Coming' = cfg'
        BY <3>3 DEF Target, Coming, Writing
      <4> QED
        BY <3>1, <3>2, <3>3, <4>1 DEF Target, Coming, Writing, Loaded
    <3>4. CASE pc' = SyncReturn /\ ~wrote /\ (X20 => cfg.mode = "air")
      <4>1. cfg = Loaded
        BY <1>0, <3>1, <3>4 DEF UnchangedInv, Importing
      <4>2. Target' = SyncReturn /\ Coming' = Loaded' /\ Loaded' = Loaded
        BY <3>1, <3>2, <3>4 DEF Target, Coming, Writing, Loaded
      <4> QED
        BY <1>0, <3>1, <3>2, <3>4, <4>1, <4>2 DEF Target, Coming, Writing, Edit
    <3> QED
      BY <1>9, <3>3, <3>4, SyncModeEffect
  <2>2. GateInv'
    BY <1>0, <2>1, SettingsAssumption DEF GateInv, Importing, Gated, Edit, ConfigFields
  <2>3. AgreeInv'
    BY <1>0, <2>1, SettingsAssumption DEF AgreeInv, GateInv, Importing, Edit, ConfigFields
  <2>4. DebugInv'
    BY <1>0, <2>1, SettingsAssumption DEF DebugInv, Importing, Edit, ConfigFields
  <2>5. HostInv'
    BY <1>0, <2>1, SettingsAssumption DEF HostInv, Importing, Follows, Edit, ConfigFields
  <2>6. UnchangedInv'
    BY <1>0, <2>1, SettingsAssumption DEF UnchangedInv, Importing, Edit, ConfigFields
  <2>7. AirInv'
    BY <1>0, <2>1, SettingsAssumption DEF AirInv, BoardInv, X20
  <2>8. ASSUME KeptInv, OnDisk, ~lost' PROVE KeptInv'
    <3>1. /\ \A f \in {"camera", "reset"} : wanted'[f] = wanted[f]
          /\ ~X20 => (Coming'.mode = cfg.mode /\ wanted'.mode = wanted.mode) \/ Coming'.mode = wanted'.mode
      <4>1. CASE pc' = "write"
        BY <1>9, <4>1, SyncModeEffect, SyncReturns DEF Coming, Writing
      <4>2. CASE pc' # "write"
        <5>1. cfg = Loaded /\ wanted' = wanted
          BY <1>0, <1>9, <2>1, <4>2, SyncModeEffect DEF UnchangedInv, Importing
        <5> QED
          BY <2>1, <4>2, <5>1 DEF Coming, Writing
      <4> QED
        BY <4>1, <4>2
    <3>2. \A f \in {"camera", "reset"} : Coming'[f] = cfg[f]
      BY <2>1 DEF Edit, ConfigFields
    <3>3. X20 <=> board = "x20"
      BY <2>1 DEF BoardInv, X20
    <3> QED
      BY <2>8, <1>0, <2>1, <3>1, <3>2, <3>3 DEF KeptInv, KeptIn, Importing, Durable
  <2> QED
    BY <2>2, <2>3, <2>4, <2>5, <2>6, <2>7, <2>8 DEF SoundInv
<1>10. CASE InitDebug
  <2>1. /\ pc = "debug" /\ pc' \in {"write", "hostname"} /\ Target = "debug" /\ Target' = "hostname"
        /\ Loaded' = Loaded /\ Coming = Loaded /\ UNCHANGED <<platform, marker>>
        /\ Edit(Loaded, Coming', {"debug"}) /\ gDebug' = (Coming'.debug = TRUE) /\ (marker => gDebug')
    <3>1. pc = "debug" /\ UNCHANGED <<config, platform, marker>>
      BY <1>10 DEF InitDebug
    <3>2. CASE /\ pc' = "write" /\ goto' = <<"hostname">> /\ gDebug' = TRUE
               /\ Edit(Loaded, cfg', {"debug"}) /\ cfg'.debug = TRUE
      <4>1. Target' = "hostname" /\ Coming' = cfg'
        BY <3>2 DEF Target, Coming, Writing
      <4> QED
        BY <3>1, <3>2, <4>1 DEF Target, Coming, Writing, Loaded
    <3>3. CASE pc' = "hostname" /\ gDebug' = (Loaded.debug = TRUE) /\ ~marker
      <4>1. Target' = "hostname" /\ Coming' = Loaded /\ Loaded' = Loaded
        BY <3>1, <3>3 DEF Target, Coming, Writing, Loaded
      <4>2. Edit(Loaded, Coming', {"debug"})
        BY <1>0, <4>1 DEF Edit
      <4>3. Target = "debug" /\ Coming = Loaded
        BY <3>1 DEF Target, Coming, Writing
      <4> QED
        BY <3>1, <3>3, <4>1, <4>2, <4>3
    <3> QED
      BY <1>10, <3>2, <3>3, InitDebugEffect
  <2>2. GateInv'
    BY <1>0, <2>1, SettingsAssumption DEF GateInv, Importing, Gated, Edit, ConfigFields
  <2>3. AgreeInv'
    BY <1>0, <2>1, SettingsAssumption DEF AgreeInv, Importing, Edit, ConfigFields
  <2>4. DebugInv'
    BY <1>0, <2>1, SettingsAssumption DEF DebugInv, Importing, Edit, ConfigFields
  <2>5. HostInv'
    BY <1>0, <2>1, SettingsAssumption DEF HostInv, Importing, Follows, Edit, ConfigFields
  <2>6. UnchangedInv'
    BY <1>0, <2>1, SettingsAssumption DEF UnchangedInv, Importing, Edit, ConfigFields
  <2>7. AirInv'
    BY <1>0, <2>1, SettingsAssumption DEF AirInv, Importing, Edit, ConfigFields
  <2>8. ASSUME KeptInv, OnDisk, ~lost' PROVE KeptInv'
    <3>1. \A f \in Durable : wanted'[f] = wanted[f]
      BY <1>10, InitDebugEffect
    <3>2. \A f \in Durable : Coming'[f] = Loaded[f]
      BY <2>1 DEF Edit, ConfigFields, Durable
    <3> QED
      BY <2>8, <1>0, <2>1, <3>1, <3>2 DEF KeptInv, KeptIn, Importing
  <2> QED
    BY <2>2, <2>3, <2>4, <2>5, <2>6, <2>7, <2>8 DEF SoundInv
<1>11. CASE ApplyHostname
  <2>1. /\ pc = "hostname" /\ pc' = "serve" /\ Target = "hostname" /\ Target' = "serve"
        /\ Loaded' = Loaded /\ Coming = Loaded /\ Coming' = Loaded /\ UNCHANGED <<platform, marker, gDebug>>
        /\ Loaded.sethost = TRUE /\ Loaded.mode # None => hostname' = Loaded.mode
    BY <1>11, <1>0 DEF ApplyHostname, Done, Local, Target, Coming, Writing, Loaded, disk, mem, cache
  <2>2. GateInv'
    BY <1>0, <2>1, SettingsAssumption DEF GateInv, Importing, Gated, Edit, ConfigFields
  <2>3. AgreeInv'
    BY <1>0, <2>1, SettingsAssumption DEF AgreeInv, Importing, Edit, ConfigFields
  <2>4. DebugInv'
    BY <1>0, <2>1, SettingsAssumption DEF DebugInv, Importing, Edit, ConfigFields
  <2>5. HostInv'
    BY <1>0, <2>1, SettingsAssumption DEF HostInv, Importing, Follows, Edit, ConfigFields
  <2>6. UnchangedInv'
    BY <1>0, <2>1, SettingsAssumption DEF UnchangedInv, Importing, Edit, ConfigFields
  <2>7. AirInv'
    BY <1>0, <2>1, SettingsAssumption DEF AirInv, Importing, Edit, ConfigFields
  <2>8. ASSUME KeptInv, OnDisk, ~lost' PROVE KeptInv'
    <3>1. wanted' = wanted
      BY <1>11 DEF ApplyHostname
    <3> QED
      BY <2>8, <1>0, <2>1, <3>1 DEF KeptInv, KeptIn, Importing, Durable, Edit, ConfigFields
  <2> QED
    BY <2>2, <2>3, <2>4, <2>5, <2>6, <2>7, <2>8 DEF SoundInv
<1>12. CASE WriteFailed
  BY <1>12, <1>0 DEF WriteFailed, AgreeInv
<1>13. CASE SettingsWritten
  <2>1. /\ pc = "written" /\ Target = "written" /\ UNCHANGED <<platform, hostname>> /\ req.kind \notin {"platform_set", "platform_refresh"}
        /\ Loaded' = Loaded /\ Coming = Loaded /\ Coming' = Loaded
        /\ (pc' = "hostname" /\ Target' = "hostname" /\ req.host) \/ (pc' = "serve" /\ Target' = "serve" /\ ~req.host)
    BY <1>13 DEF SettingsWritten, Done, Local, Target, Coming, Writing, Loaded, disk, mem, cache
  <2>2. GateInv'
    BY <1>0, <2>1, SettingsAssumption DEF GateInv, Importing, Gated, Edit, ConfigFields
  <2>3. AgreeInv'
    BY <1>0, <2>1, SettingsAssumption DEF AgreeInv, Importing, Edit, ConfigFields
  <2>4. DebugInv'
    <3>1. IF req.set.debug = None THEN UNCHANGED <<marker, gDebug>>
          ELSE gDebug' = req.set.debug /\ marker' = req.set.debug
      BY <1>0, <1>13 DEF SettingsWritten, MarkDebug
    <3>2. req.set.debug \in BOOLEAN \cup {None}
      BY <2>1 DEF ShapeInv, ReqOK, Served, Fields
    <3>3. CASE req.set.debug = None
      BY <1>0, <2>1, <3>1, <3>3 DEF DebugInv
    <3>4. CASE req.set.debug # None
      <4>1. Coming'.debug = req.set.debug
        BY <1>0, <2>1, <3>4 DEF DebugInv
      <4>2. gDebug' = (Coming'.debug = TRUE) /\ (marker' => gDebug')
        BY <3>1, <3>2, <3>4, <4>1
      <4> QED
        BY <2>1, <4>2 DEF DebugInv
    <3> QED
      BY <3>3, <3>4
  <2>5. HostInv'
    BY <1>0, <2>1, SettingsAssumption DEF HostInv, Importing, Follows, Edit, ConfigFields
  <2>6. UnchangedInv'
    BY <1>0, <2>1, SettingsAssumption DEF UnchangedInv, Importing, Edit, ConfigFields
  <2>7. AirInv'
    BY <1>0, <2>1, SettingsAssumption DEF AirInv, Importing, Edit, ConfigFields
  <2>8. ASSUME KeptInv, OnDisk, ~lost' PROVE KeptInv'
    <3>1. wanted' = Granted
      BY <1>13 DEF SettingsWritten
    <3> QED
      BY <2>8, <1>0, <2>1, <3>1 DEF KeptInv, KeptIn, Importing
  <2> QED
    BY <2>2, <2>3, <2>4, <2>5, <2>6, <2>7, <2>8 DEF SoundInv
<1>14. CASE CameraWritten
  <2>1. /\ pc = "written" /\ pc' = "serve" /\ Target = "written" /\ Target' = "serve" /\ UNCHANGED <<platform, hostname, marker, gDebug>>
        /\ Loaded' = Loaded /\ Coming = Loaded /\ Coming' = Loaded
        /\ req.kind = "camera" /\ req.set.debug = None /\ ~req.host
    BY <1>14 DEF CameraWritten, Done, Local, Target, Coming, Writing, Loaded, disk, mem, cache, ShapeInv, ReqOK
  <2>2. GateInv'
    BY <1>0, <2>1, SettingsAssumption DEF GateInv, Importing, Gated, Edit, ConfigFields
  <2>3. AgreeInv'
    BY <1>0, <2>1, SettingsAssumption DEF AgreeInv, Importing, Edit, ConfigFields
  <2>4. DebugInv'
    BY <1>0, <2>1, SettingsAssumption DEF DebugInv, Importing, Edit, ConfigFields
  <2>5. HostInv'
    BY <1>0, <2>1, SettingsAssumption DEF HostInv, Importing, Follows, Edit, ConfigFields
  <2>6. UnchangedInv'
    BY <1>0, <2>1, SettingsAssumption DEF UnchangedInv, Importing, Edit, ConfigFields
  <2>7. AirInv'
    BY <1>0, <2>1, SettingsAssumption DEF AirInv, Importing, Edit, ConfigFields
  <2>8. ASSUME KeptInv, OnDisk, ~lost' PROVE KeptInv'
    <3>1. wanted' = Granted
      BY <1>14 DEF CameraWritten
    <3> QED
      BY <2>8, <1>0, <2>1, <3>1 DEF KeptInv, KeptIn, Importing
  <2> QED
    BY <2>2, <2>3, <2>4, <2>5, <2>6, <2>7, <2>8 DEF SoundInv
<1>15. CASE PlatformWritten
  <2>1. /\ pc = "written" /\ Target = "written" /\ Loaded' = Loaded /\ Coming = Loaded
        /\ UNCHANGED <<gDebug, marker, hostname>> /\ req.set.debug = None /\ ~req.host
        /\ \/ /\ pc' = "serve" /\ Target' = "serve" /\ Coming' = Loaded /\ platform' = Loaded.platform
           \/ /\ pc' = "write" /\ Target' = "written" /\ UNCHANGED <<req, platform>> /\ Platformed(req.kind)
              /\ Edit(Loaded, Coming', {"platform"})
    <3>1. pc = "written" /\ UNCHANGED <<config, gDebug, marker, hostname>> /\ Loaded = cfg /\ Platformed(req.kind)
      BY <1>0, <1>15 DEF PlatformWritten, disk, AgreeInv, Platformed
    <3>2. Target = "written" /\ Loaded' = Loaded /\ Coming = Loaded
      BY <3>1 DEF Target, Coming, Writing, Loaded
    <3>3. req.set.debug = None /\ ~req.host
      BY <3>1, <3>2 DEF ShapeInv, ReqOK, Platformed
    <3>4. CASE pc' = "serve" /\ platform' = cfg.platform
      <4>1. Target' = "serve" /\ Coming' = Loaded
        BY <3>2, <3>4 DEF Target, Coming, Writing
      <4> QED
        BY <3>1, <3>2, <3>3, <3>4, <4>1
    <3>5. CASE pc' = "write" /\ goto' = <<"written">> /\ UNCHANGED <<platform, req>> /\ Edit(cfg, cfg', {"platform"})
      <4>1. Target' = "written" /\ Coming' = cfg'
        BY <3>5 DEF Target, Coming, Writing
      <4> QED
        BY <3>1, <3>2, <3>3, <3>5, <4>1
    <3> QED
      BY <1>15, <3>4, <3>5, PlatformWrittenEffect
  <2>2. GateInv'
    BY <1>0, <2>1, SettingsAssumption DEF GateInv, Importing, Gated, Edit, ConfigFields
  <2>3. AgreeInv'
    BY <1>0, <2>1, SettingsAssumption DEF AgreeInv, Importing, Platformed
  <2>4. DebugInv'
    BY <1>0, <2>1, SettingsAssumption DEF DebugInv, Importing, Edit, ConfigFields
  <2>5. HostInv'
    BY <1>0, <2>1, SettingsAssumption DEF HostInv, Importing, Follows, Edit, ConfigFields
  <2>6. UnchangedInv'
    BY <1>0, <2>1, SettingsAssumption DEF UnchangedInv, Importing, Edit, ConfigFields
  <2>7. AirInv'
    BY <1>0, <2>1, SettingsAssumption DEF AirInv, Importing, Edit, ConfigFields
  <2>8. ASSUME KeptInv, OnDisk, ~lost' PROVE KeptInv'
    <3>1. wanted' = wanted
      BY <1>15 DEF PlatformWritten
    <3>2. req.set = NoField /\ req \in Served /\ wanted \in Wishes
      BY <1>15, <2>1 DEF PlatformWritten, ShapeInv, ReqOK
    <3>3. \A f \in Durable : Granted[f] = wanted[f]
      BY <3>2, GrantShape, GrantedIsGrant, NormalNone, SettingsAssumption DEF NoField, Durable
    <3>4. CASE pc' = "serve" /\ Target' = "serve" /\ Coming' = Loaded
      BY <2>8, <1>0, <2>1, <3>1, <3>3, <3>4 DEF KeptInv, KeptIn, Importing
    <3>5. CASE pc' = "write" /\ Target' = "written" /\ req' = req /\ Edit(Loaded, Coming', {"platform"})
      <4>1. Granted' = Granted
        BY <3>1, <3>5 DEF Granted
      <4>2. \A f \in Durable : Coming'[f] = Loaded[f]
        BY <3>5 DEF Edit, ConfigFields, Durable
      <4> QED
        BY <2>8, <1>0, <2>1, <3>5, <4>1, <4>2 DEF KeptInv, KeptIn, Importing
    <3> QED
      BY <2>1, <3>4, <3>5
  <2> QED
    BY <2>2, <2>3, <2>4, <2>5, <2>6, <2>7, <2>8 DEF SoundInv
<1>16. CASE OpenFails
  BY <1>16, <1>0 DEF OpenFails
<1>17. CASE Truncate
  <2>1. /\ Target' = Target /\ Coming' = Coming /\ pc' = "close" /\ Loaded' = Empty
        /\ UNCHANGED <<platform, gDebug, marker, hostname, req, cfg>>
    BY <1>17, EmptyShape, AbsenceAssumption DEF Truncate, Target, Coming, Writing, Loaded, mem, cache
  <2>2. GateInv'
    BY <1>0, <2>1, SettingsAssumption DEF GateInv, Importing, Gated, Empty, Edit, ConfigFields
  <2>3. AgreeInv'
    BY <1>0, <2>1, SettingsAssumption DEF AgreeInv, Importing, Edit, ConfigFields
  <2>4. DebugInv'
    BY <1>0, <2>1, SettingsAssumption DEF DebugInv, Importing, Edit, ConfigFields
  <2>5. HostInv'
    BY <1>0, <2>1, SettingsAssumption DEF HostInv, Importing, Follows, Edit, ConfigFields
  <2>6. UnchangedInv'
    BY <1>0, <2>1, SettingsAssumption DEF UnchangedInv, Importing, Edit, ConfigFields
  <2>7. AirInv'
    BY <1>0, <2>1, SettingsAssumption DEF AirInv, Importing, Edit, ConfigFields
  <2>8. ASSUME KeptInv, OnDisk, ~lost' PROVE KeptInv'
    <3>1. wanted' = wanted /\ pc = "write"
      BY <1>17 DEF Truncate
    <3>2. Granted' = Granted
      BY <2>1, <3>1 DEF Granted
    <3> QED
      BY <2>8, <1>0, <2>1, <3>1, <3>2 DEF KeptInv, KeptIn, Importing
  <2> QED
    BY <2>2, <2>3, <2>4, <2>5, <2>6, <2>7, <2>8 DEF SoundInv
<1>18. CASE Close
  <2>1. /\ Target' = Target /\ Coming' = Coming /\ Loaded' = cfg /\ Coming = cfg /\ wrote' = TRUE
        /\ pc' \in {"firstboot", "finish", "reboot", "debug", "hostname", "written"}
        /\ UNCHANGED <<platform, gDebug, marker, hostname, req, cfg>>
    <3>1. PICK t \in {"firstboot", "finish", "reboot", "debug", "hostname", "written"} : goto = <<t>>
      BY <1>18 DEF Close, ShapeInv, Writing
    <3>2. pc = "close" /\ pc' = t /\ config' = cfg /\ wrote' = TRUE /\ UNCHANGED <<platform, gDebug, marker, hostname, req, cfg>>
      BY <1>0, <1>18, <3>1 DEF Close, Return, cache
    <3>3. Loaded' = cfg
      BY <1>0, <3>2, AbsenceAssumption DEF Loaded
    <3> QED
      BY <3>1, <3>2, <3>3 DEF Target, Coming, Writing
  <2>2. GateInv'
    BY <1>0, <2>1, SettingsAssumption DEF GateInv, Importing, Gated, Edit, ConfigFields
  <2>3. AgreeInv'
    BY <1>0, <2>1, SettingsAssumption DEF AgreeInv, Importing, Edit, ConfigFields
  <2>4. DebugInv'
    BY <1>0, <2>1, SettingsAssumption DEF DebugInv, Importing, Edit, ConfigFields
  <2>5. HostInv'
    BY <1>0, <2>1, SettingsAssumption DEF HostInv, Importing, Follows, Edit, ConfigFields
  <2>6. UnchangedInv'
    BY <1>0, <2>1, SettingsAssumption DEF UnchangedInv, Importing, Edit, ConfigFields
  <2>7. AirInv'
    BY <1>0, <2>1, SettingsAssumption DEF AirInv, Importing, Edit, ConfigFields
  <2>8. ASSUME KeptInv, OnDisk, ~lost' PROVE KeptInv'
    <3>1. wanted' = wanted /\ pc = "close"
      BY <1>18 DEF Close
    <3>2. Granted' = Granted
      BY <2>1, <3>1 DEF Granted
    <3> QED
      BY <2>8, <1>0, <2>1, <3>1, <3>2 DEF KeptInv, KeptIn, Importing
  <2> QED
    BY <2>2, <2>3, <2>4, <2>5, <2>6, <2>7, <2>8 DEF SoundInv
<1>19. CASE Serve
  <2>1. /\ pc = "serve" /\ Target = "serve" /\ Loaded' = Loaded /\ Coming = Loaded
        /\ UNCHANGED <<platform, gDebug, marker, hostname>>
        /\ \/ /\ pc' = "serve" /\ Target' = "serve" /\ Coming' = Loaded
           \/ /\ pc' = "write" /\ Target' = "written" /\ Editing(req', Loaded, Coming')
    <3>1. pc = "serve" /\ UNCHANGED <<config, platform, gDebug, marker, hostname>>
      BY <1>19 DEF Serve, disk, cache
    <3>2. CASE UNCHANGED pc
      BY <3>1, <3>2 DEF Target, Coming, Writing, Loaded
    <3>3. CASE pc' = "write" /\ goto' = <<"written">> /\ Editing(req', Loaded, cfg')
      <4>1. Target' = "written" /\ Coming' = cfg'
        BY <3>3 DEF Target, Coming, Writing
      <4> QED
        BY <3>1, <3>3, <4>1 DEF Target, Coming, Writing, Loaded
    <3> QED
      BY <1>19, <3>2, <3>3, ServeEffect
  <2>2. GateInv'
    <3>1. CASE pc' = "serve" /\ Target' = "serve" /\ Coming' = Loaded
      BY <1>0, <2>1, <3>1 DEF GateInv, Gated, Importing
    <3>2. CASE pc' = "write" /\ Target' = "written" /\ Editing(req', Loaded, Coming')
      BY <1>0, <2>1, <3>2, SettingsAssumption DEF GateInv, Gated, Importing, Editing, Edit, ConfigFields, Platformed
    <3> QED
      BY <2>1, <3>1, <3>2
  <2>3. AgreeInv'
    <3>1. CASE pc' = "serve" /\ Target' = "serve" /\ Coming' = Loaded
      BY <1>0, <2>1, <3>1 DEF AgreeInv, Importing
    <3>2. CASE pc' = "write" /\ Target' = "written" /\ Editing(req', Loaded, Coming')
      BY <1>0, <2>1, <3>2, SettingsAssumption DEF AgreeInv, Importing, Editing, Edit, ConfigFields, Platformed
    <3> QED
      BY <2>1, <3>1, <3>2
  <2>4. DebugInv'
    <3>1. CASE pc' = "serve" /\ Target' = "serve" /\ Coming' = Loaded
      BY <1>0, <2>1, <3>1 DEF DebugInv, Importing
    <3>2. CASE pc' = "write" /\ Target' = "written" /\ Editing(req', Loaded, Coming')
      BY <1>0, <2>1, <3>2, SettingsAssumption DEF DebugInv, Importing, Editing, Edit, ConfigFields, Platformed
    <3> QED
      BY <2>1, <3>1, <3>2
  <2>5. HostInv'
    <3>1. CASE pc' = "serve" /\ Target' = "serve" /\ Coming' = Loaded
      BY <1>0, <2>1, <3>1 DEF HostInv, Follows, Importing
    <3>2. CASE pc' = "write" /\ Target' = "written" /\ Editing(req', Loaded, Coming')
      BY <1>0, <2>1, <3>2, SettingsAssumption DEF HostInv, Follows, Importing, Editing, Edit, ConfigFields, Platformed
    <3> QED
      BY <2>1, <3>1, <3>2
  <2>6. UnchangedInv'
    BY <1>0, <2>1, SettingsAssumption DEF UnchangedInv, Importing, Edit, ConfigFields
  <2>7. AirInv'
    <3>1. CASE pc' = "serve" /\ Target' = "serve" /\ Coming' = Loaded
      BY <1>0, <2>1, <3>1 DEF AirInv, BoardInv, X20, Importing
    <3>2. CASE pc' = "write" /\ Target' = "written" /\ Editing(req', Loaded, Coming')
      BY <1>0, <2>1, <3>2, SettingsAssumption DEF AirInv, BoardInv, X20, Importing, Editing, Edit, ConfigFields, Platformed
    <3> QED
      BY <2>1, <3>1, <3>2
  <2>8. ASSUME KeptInv, OnDisk, ~lost' PROVE KeptInv'
    <3>1. wanted' = wanted
      BY <1>19 DEF Serve
    <3>2. CASE pc' = "serve" /\ Target' = "serve" /\ Coming' = Loaded
      BY <2>8, <1>0, <2>1, <3>1, <3>2 DEF KeptInv, KeptIn, Importing
    <3>3. CASE pc' = "write" /\ Target' = "written" /\ Editing(req', Loaded, Coming')
      <4>1. req' \in Served
        BY <1>19, <3>3, ServeEffect DEF ReqOK
      <4>2. Granted' = Grant(req', wanted) /\ wanted \in Wishes
        BY <3>1 DEF Granted, Grant, ShapeInv
      <4>3. KeptIn(wanted, Loaded) /\ (X20 <=> board = "x20")
        BY <2>8, <1>0, <2>1 DEF KeptInv, Importing, BoardInv, X20
      <4>4. KeptIn(Granted', Coming')
        <5> DEFINE r == req'
                   g == Grant(r, wanted)
        <5>1. /\ g.mode = IF r.set.mode = "unset" THEN None
                          ELSE IF NormalMode(r.set.mode) = None THEN wanted.mode ELSE NormalMode(r.set.mode)
              /\ g.reset = IF r.set.reset = None THEN wanted.reset ELSE r.set.reset
              /\ g.camera = IF NormalCamera(r.set.camera) = None THEN wanted.camera
                            ELSE NormalCamera(r.set.camera)
          BY <4>1, <4>2, GrantShape
        <5>2. /\ Coming'.reset = IF r.set.reset = None THEN Loaded.reset ELSE r.set.reset
              /\ Coming'.camera = IF NormalCamera(r.set.camera) = None THEN Loaded.camera
                                  ELSE NormalCamera(r.set.camera)
              /\ X20 => Coming'.mode = "air" \/ Coming'.mode = Loaded.mode
              /\ ~X20 => Coming'.mode = IF r.set.mode = "unset" THEN None
                          ELSE IF NormalMode(r.set.mode) = None THEN Loaded.mode ELSE NormalMode(r.set.mode)
          BY <3>3 DEF Editing
        <5>3. board = "x20" => Loaded.mode = "air"
          BY <1>0, <2>1 DEF AirInv
        <5> HIDE DEF r, g
        <5>4. KeptIn(g, Coming')
          BY <4>3, <5>1, <5>2, <5>3 DEF KeptIn, Durable
        <5> QED
          BY <4>2, <5>4 DEF g, r
      <4> QED
        BY <2>8, <1>0, <3>3, <4>4 DEF KeptInv, KeptIn, Importing
    <3> QED
      BY <2>1, <3>2, <3>3
  <2> QED
    BY <2>2, <2>3, <2>4, <2>5, <2>6, <2>7, <2>8 DEF SoundInv
<1>20. CASE CameraThread
  <2>1. /\ Target' = Target /\ Coming' = Coming /\ pc' = pc /\ Loaded' = Loaded /\ UNCHANGED <<goto, wrote>>
        /\ UNCHANGED <<platform, gDebug, marker, hostname, req, cfg>>
    BY <1>20 DEF CameraThread, Target, Coming, Writing, Loaded, disk, mem, cache
  <2>2. GateInv'
    BY <1>0, <2>1, SettingsAssumption DEF GateInv, Importing, Gated, Edit, ConfigFields
  <2>3. AgreeInv'
    BY <1>0, <2>1, SettingsAssumption DEF AgreeInv, Importing, Edit, ConfigFields
  <2>4. DebugInv'
    BY <1>0, <2>1, SettingsAssumption DEF DebugInv, Importing, Edit, ConfigFields
  <2>5. HostInv'
    BY <1>0, <2>1, SettingsAssumption DEF HostInv, Importing, Follows, Edit, ConfigFields
  <2>6. UnchangedInv'
    BY <1>0, <2>1, SettingsAssumption DEF UnchangedInv, Importing, Edit, ConfigFields
  <2>7. AirInv'
    BY <1>0, <2>1, SettingsAssumption DEF AirInv, Importing, Edit, ConfigFields
  <2>8. ASSUME KeptInv, OnDisk, ~lost' PROVE KeptInv'
    <3>1. wanted' = wanted /\ pc' = pc /\ cfg' = cfg
      BY <1>20 DEF CameraThread, mem
    <3>2. Granted' = Granted
      BY <2>1, <3>1 DEF Granted
    <3> QED
      BY <2>8, <1>0, <2>1, <3>1, <3>2 DEF KeptInv, KeptIn, Importing
  <2> QED
    BY <2>2, <2>3, <2>4, <2>5, <2>6, <2>7, <2>8 DEF SoundInv
<1>21. CASE PowerCut \/ Shutdown \/ EditCard
  <2>1. /\ Target' = "off" /\ pc' = "off" /\ Loaded' = Loaded /\ Coming' = Loaded
    BY <1>21 DEF PowerCut, Shutdown, EditCard, Off, Done, Local, Target, Coming, Writing, Loaded, disk, mem, cache
  <2>2. GateInv'
    BY <1>0, <2>1, SettingsAssumption DEF GateInv, Importing, Gated, Edit, ConfigFields
  <2>3. AgreeInv'
    BY <1>0, <2>1, SettingsAssumption DEF AgreeInv, Importing, Edit, ConfigFields
  <2>4. DebugInv'
    BY <1>0, <2>1, SettingsAssumption DEF DebugInv, Importing, Edit, ConfigFields
  <2>5. HostInv'
    BY <1>0, <2>1, SettingsAssumption DEF HostInv, Importing, Follows, Edit, ConfigFields
  <2>6. UnchangedInv'
    BY <1>0, <2>1, SettingsAssumption DEF UnchangedInv, Importing, Edit, ConfigFields
  <2>7. AirInv'
    BY <1>0, <2>1, SettingsAssumption DEF AirInv, Importing, Edit, ConfigFields
  <2>8. ASSUME KeptInv, OnDisk, ~lost' PROVE KeptInv'
    <3>1. KeptIn(wanted', Loaded)
      <4>1. CASE pc = "written"
        <5>1. Target = "written" /\ Coming = Loaded
          BY <4>1 DEF Target, Coming, Writing
        <5>2. req # None
          BY <5>1, NoRequestAssumption DEF ShapeInv, ReqOK
        <5>3. wanted' = Granted
          BY <1>21, <4>1, <5>2 DEF PowerCut, Shutdown, EditCard
        <5> QED
          BY <2>8, <5>1, <5>3 DEF KeptInv
      <4>2. CASE pc # "written"
        <5>1. wanted' = wanted
          BY <1>21, <4>2 DEF PowerCut, Shutdown, EditCard
        <5>2. ~Exposed
          BY <1>21, <2>8 DEF PowerCut, Shutdown, EditCard, Exposed
        <5> QED
          BY <2>8, <4>2, <5>1, <5>2 DEF OnDisk
      <4> QED
        BY <4>1, <4>2
    <3>2. KeptIn(wanted, Loaded)'
      BY <1>0, <2>1, <3>1 DEF KeptIn
    <3> QED
      BY <2>1, <3>2 DEF KeptInv, Importing
  <2> QED
    BY <2>2, <2>3, <2>4, <2>5, <2>6, <2>7, <2>8 DEF SoundInv
<1> QED
  BY <1>1, <1>2, <1>3, <1>4, <1>5, <1>6, <1>7, <1>8, <1>9, <1>10, <1>11, <1>12, <1>13, <1>14, <1>15, <1>16, <1>17, <1>18, <1>19, <1>20, <1>21 DEF Next, Main, Boot, Answer

\* The file has what the user asked for unless it is being brought there.
LEMMA DiskStep ==
  ASSUME TypeOK, ShapeInv, SoundInv, Next, NoFault, KeptInv, KeptInv', OnDisk
  PROVE  OnDisk'
<1> SUFFICES ASSUME ~Exposed', pc' # "written" PROVE KeptIn(wanted, Loaded)'
  BY DEF OnDisk
<1>0. board' = board /\ (Loaded' = Loaded \/ pc \in {"write", "close"})
  BY FileStep
<1>1. CASE pc' \notin {"write", "close", "sync_reset", "sync_mode"}
  <2>1. ~Importing' /\ Target' # "written" /\ Coming' = Loaded'
    BY <1>1 DEF Importing, Target, Coming, Writing
  <2> QED
    BY <2>1 DEF KeptInv
<1>2. ASSUME UNCHANGED wanted, ~Exposed, pc \notin {"written", "write", "close"}
      PROVE  KeptIn(wanted, Loaded)'
  BY <1>0, <1>2 DEF OnDisk, KeptIn
<1>3. CASE InitPlatform \/ FinishFirstBoot \/ Serve
  BY <1>2, <1>3 DEF InitPlatform, FinishFirstBoot, Serve, Exposed
<1>4. CASE InitDebug
  <2>1. pc = "debug" /\ ~Exposed /\ KeptIn(wanted, Loaded) /\ Loaded' = Loaded
    BY <1>0, <1>4 DEF InitDebug, Exposed, OnDisk
  <2>2. \A f \in Durable : wanted'[f] = wanted[f]
    BY <1>4 DEF InitDebug, Wish, Durable, ShapeInv, Wishes
  <2> QED
    BY <1>0, <2>1, <2>2 DEF KeptIn
<1>5. CASE PlatformWritten
  <2>1. pc = "written" /\ Target = "written" /\ Coming = Loaded /\ wanted' = wanted /\ Loaded' = Loaded
    BY <1>0, <1>5 DEF PlatformWritten, Target, Coming, Writing
  <2>2. req.set = NoField /\ req \in Served /\ wanted \in Wishes
    BY <1>5, <2>1 DEF PlatformWritten, ShapeInv, ReqOK
  <2>3. \A f \in Durable : Granted[f] = wanted[f]
    BY <2>2, GrantShape, GrantedIsGrant, NormalNone, SettingsAssumption DEF NoField, Durable
  <2> QED
    BY <1>0, <2>1, <2>3 DEF KeptInv, KeptIn
<1>6. CASE SyncJson
  <2>1. pc = "sync" /\ pc' = "sync_reset"
    BY <1>6 DEF SyncJson
  <2>2. ~wrote'
    BY <2>1 DEF Exposed
  <2>3. KeptIn(wanted, Loaded) /\ Loaded' = Loaded
    BY <1>0, <2>1 DEF OnDisk, Exposed
  <2>4. \A f \in Durable : wanted'[f] = wanted[f]
    BY <1>6, <2>2, SyncJsonEffect DEF Durable
  <2> QED
    BY <1>0, <2>3, <2>4 DEF KeptIn
<1>7. CASE SyncReset
  <2>1. pc = "sync_reset" /\ pc' = "sync_mode" /\ ~wrote'
    BY <1>7 DEF SyncReset, Exposed
  <2>2. ~wrote /\ wanted' = wanted
    BY <1>7, <2>1 DEF SyncReset
  <2> QED
    BY <1>2, <2>1, <2>2 DEF Exposed
<1>8. CASE SyncMode
  <2>1. pc = "sync_mode" /\ (SyncReturn = "debug" \/ SyncReturn = "finish")
    BY <1>8, SyncReturns DEF SyncMode
  <2>2. pc' = "write" => goto' = <<SyncReturn>>
    BY <1>8, <2>1, SyncModeEffect
  <2>3. pc' # "write"
    BY <2>1, <2>2 DEF Exposed
  <2>4. pc' = SyncReturn
    BY <1>8, <2>3, SyncModeEffect
  <2> QED
    BY <1>1, <2>1, <2>4
<1>9. CASE Truncate
  BY <1>9 DEF Truncate, Exposed
<1>10. CASE CameraThread
  <2>1. UNCHANGED <<pc, goto, wrote, wanted>> /\ Loaded' = Loaded
    BY <1>10 DEF CameraThread, mem, disk, Loaded
  <2>2. ~Exposed /\ pc # "written"
    BY <2>1 DEF Exposed
  <2> QED
    BY <1>0, <2>1, <2>2 DEF OnDisk, KeptIn
<1>11. CASE PowerOn \/ FirstBoot \/ FirstBootReboot \/ ApplyHostname \/ WriteFailed \/ SettingsWritten
            \/ CameraWritten \/ PowerCut \/ Shutdown \/ EditCard
  <2>1. pc' \in {"platform", "sync", "hostname", "serve", "off"}
    BY <1>11 DEF PowerOn, FirstBoot, FirstBootReboot, ApplyHostname, WriteFailed, SettingsWritten,
                 CameraWritten, PowerCut, Shutdown, EditCard, Off, Done
  <2> QED
    BY <1>1, <2>1
<1>12. CASE SyncFails \/ OpenFails
  BY <1>12 DEF SyncFails, OpenFails, Fault, NoFault, TypeOK
<1>13. CASE Close
  <2>1. PICK s \in {"firstboot", "finish", "reboot", "debug", "hostname", "written"} : goto = <<s>>
    BY <1>13 DEF Close, ShapeInv, Writing
  <2>2. pc' = s
    BY <1>13, <2>1 DEF Close, Return
  <2> QED
    BY <1>1, <2>2
<1> QED
  BY <1>3, <1>4, <1>5, <1>6, <1>7, <1>8, <1>9, <1>10, <1>11, <1>12, <1>13 DEF Next, Main, Boot, Answer

LEMMA CounterStep ==
  ASSUME TypeOK, [Next]_vars
  PROVE  ioFaults' = ioFaults \/ ioFaults' = ioFaults + 1
<1>1. CASE PowerOn
  BY <1>1 DEF PowerOn, Fault, count
<1>2. CASE InitPlatform
  BY <1>2 DEF InitPlatform, Fault, count
<1>3. CASE FirstBoot
  BY <1>3 DEF FirstBoot, Fault, count
<1>4. CASE FinishFirstBoot
  BY <1>4 DEF FinishFirstBoot, Fault, count
<1>5. CASE FirstBootReboot
  BY <1>5 DEF FirstBootReboot, Fault, count
<1>6. CASE SyncFails
  BY <1>6 DEF SyncFails, Fault, count
<1>7. CASE SyncJson
  BY <1>7 DEF SyncJson, Remove, Fault, count
<1>8. CASE SyncReset
  BY <1>8 DEF SyncReset, Remove, Fault, count
<1>9. CASE SyncMode
  BY <1>9 DEF SyncMode, Remove, Fault, count
<1>10. CASE InitDebug
  BY <1>10 DEF InitDebug, Remove, Fault, count
<1>11. CASE ApplyHostname
  BY <1>11 DEF ApplyHostname, Fault, count
<1>12. CASE WriteFailed
  BY <1>12 DEF WriteFailed, Fault, count
<1>13. CASE SettingsWritten
  BY <1>13 DEF SettingsWritten, MarkDebug, Fault, count
<1>14. CASE CameraWritten
  BY <1>14 DEF CameraWritten, Fault, count
<1>15. CASE PlatformWritten
  BY <1>15 DEF PlatformWritten, Fault, count
<1>16. CASE OpenFails
  BY <1>16 DEF OpenFails, Fault, count
<1>17. CASE Truncate
  BY <1>17 DEF Truncate, Fault, count
<1>18. CASE Close
  BY <1>18 DEF Close, Fault, count
<1>19. CASE Serve
  BY <1>19 DEF Serve, Fault, count
<1>20. CASE CameraThread
  BY <1>20 DEF CameraThread, Fault, count
<1>21. CASE PowerCut
  BY <1>21 DEF PowerCut, Fault, count
<1>22. CASE Shutdown
  BY <1>22 DEF Shutdown, Fault, count
<1>23. CASE EditCard
  BY <1>23 DEF EditCard, Fault, count
<1>24. CASE UNCHANGED vars
  BY <1>24 DEF vars, count
<1> QED
  BY <1>1, <1>2, <1>3, <1>4, <1>5, <1>6, <1>7, <1>8, <1>9, <1>10, <1>11, <1>12, <1>13, <1>14, <1>15, <1>16, <1>17, <1>18, <1>19, <1>20, <1>21, <1>22, <1>23, <1>24 DEF Next, Main, Boot, Answer

(***************************************************************************)
(* The inductive invariant, and the theorems.                              *)
(***************************************************************************)
SettingsInv ==
  /\ TypeOK /\ ShapeInv /\ BoardInv
  /\ Sound => SoundInv
  /\ Sound /\ ~lost => KeptInv /\ OnDisk

LEMMA SettingsInit == Init => SettingsInv
<1> SUFFICES ASSUME Init PROVE SettingsInv
  OBVIOUS
<1>1. TypeOK /\ ShapeInv /\ BoardInv
  BY InitTypes
<1>2. pc = "off" /\ Target = "off" /\ Coming = Loaded
  BY DEF Init, Target, Coming, Writing
<1>3. wanted = [mode |-> None, debug |-> None, reset |-> None, camera |-> None]
  BY DEF Init
<1>4. Gated(Loaded)
  BY SettingsAssumption DEF Init, Gated, Loaded, Empty, Old
<1>5. SoundInv
  BY <1>2, <1>4 DEF SoundInv, GateInv, AgreeInv, DebugInv, HostInv, UnchangedInv, AirInv, Importing
<1>6. KeptInv /\ OnDisk
  BY <1>2, <1>3 DEF KeptInv, OnDisk, KeptIn, Durable, Importing
<1> QED
  BY <1>1, <1>5, <1>6 DEF SettingsInv

LEMMA SettingsStep == SettingsInv /\ [Next]_vars => SettingsInv'
<1> SUFFICES ASSUME SettingsInv, [Next]_vars PROVE SettingsInv'
  OBVIOUS
<1>1. TypeOK' /\ ShapeInv' /\ BoardInv'
  BY TypeStep, BoardStep DEF SettingsInv
<1>2. TypeOK /\ ShapeInv /\ BoardInv /\ ioFaults \in Nat
  BY Bounds DEF SettingsInv, TypeOK
<1>3. ASSUME Sound' PROVE Sound /\ NoFault /\ SoundInv
  BY <1>2, <1>3, CounterStep DEF Sound, NoFault, SettingsInv
<1>4. ASSUME Sound', ~lost' PROVE KeptInv /\ OnDisk
  <2>1. ~lost
    BY <1>4, LossStep
  <2> QED
    BY <1>3, <1>4, <2>1 DEF SettingsInv
<1>5. CASE Next
  <2>1. Sound' => SoundInv'
    BY <1>2, <1>3, <1>5, SoundStep
  <2>2. ASSUME Sound', ~lost' PROVE KeptInv' /\ OnDisk'
    <3>1. KeptInv'
      BY <1>2, <1>3, <1>4, <1>5, <2>2, SoundStep
    <3> QED
      BY <1>1, <1>2, <1>3, <1>4, <1>5, <2>1, <2>2, <3>1, DiskStep
  <2> QED
    BY <1>1, <2>1, <2>2 DEF SettingsInv
<1>6. CASE UNCHANGED vars
  <2>1. /\ UNCHANGED <<board, config, marker, hostname, pc, cfg, early, goto, wrote, req, platform, gDebug, wanted>>
    BY <1>6 DEF vars, disk, mem, cache
  <2>2. Target' = Target /\ Coming' = Coming /\ Loaded' = Loaded /\ Granted' = Granted
    BY <2>1 DEF Target, Coming, Writing, Loaded, Granted
  <2>3. Sound' => SoundInv'
    BY <1>3, <2>1, <2>2 DEF SoundInv, GateInv, Gated, AgreeInv, DebugInv, HostInv, Follows, UnchangedInv, AirInv, Importing
  <2>4. Sound' /\ ~lost' => KeptInv' /\ OnDisk'
    BY <1>4, <2>1, <2>2 DEF KeptInv, OnDisk, Exposed, KeptIn, Importing
  <2> QED
    BY <1>1, <2>3, <2>4 DEF SettingsInv
<1> QED
  BY <1>5, <1>6

\* However boots, requests, power cuts and failing writes follow each
\* other, the config, the markers, the caches and what is under way fit together:
\* what the four safety properties need of every state in between.
THEOREM SettingsInvariant == Spec => []SettingsInv
BY SettingsInit, SettingsStep, PTL DEF Spec

\* Every variable has its type in every state: among others, no number of a
\* camera that OpenHD does not know gets into a config.
THEOREM TypeCorrect == Spec => []TypeOK
<1>1. SettingsInv => TypeOK
  BY DEF SettingsInv
<1> QED
  BY <1>1, SettingsInvariant, PTL

LEMMA ServingIs ==
  ASSUME SettingsInv, Serving, ioFaults = 0
  PROVE  SoundInv /\ Target = "serve" /\ Coming = Loaded /\ ~Importing
BY DEF SettingsInv, Serving, Sound, Target, Coming, Writing, Importing

\* Whenever the device serves requests, what the user asked for last is what
\* the config says, as long as the file system holds and nothing has ended the
\* process where Exposed says, between the removal of a file on the card and
\* the write of its wish, or while the config is truncated
\* (sync_settings_from_files, run_firstboot_tasks, the handlers).
THEOREM AskedStaysKept == Spec => []AskedIsKept
<1>1. SettingsInv => AskedIsKept
  <2> SUFFICES ASSUME SettingsInv, Serving, ~lost, ioFaults = 0, NEW f \in {"mode", "reset", "camera"}
               PROVE  Kept(f)
    BY DEF AskedIsKept
  <2>1. KeptIn(wanted, Loaded)
    BY ServingIs DEF SettingsInv, KeptInv, Sound
  <2>2. ASSUME wanted[f] # None
        PROVE  Loaded[f] = IF f = "mode" /\ board = "x20" THEN "air" ELSE wanted[f]
    BY <2>1, <2>2 DEF KeptIn, Durable
  <2>3. config = None => Loaded[f] = None
    BY DEF Loaded, Empty
  <2> QED
    BY <2>2, <2>3, SettingsAssumption DEF Kept, Loaded
<1> QED
  BY <1>1, SettingsInvariant, PTL

\* Whenever the device serves requests, the cached flags and OpenHD's marker
\* agree with the config, also after power cuts (init_debug_info,
\* handle_debug_update, init_platform_info, handle_platform_update).
THEOREM CachesStayTrue == Spec => []CachesAgree
<1>1. SettingsInv => CachesAgree
  BY ServingIs DEF CachesAgree, SoundInv, DebugInv, AgreeInv
<1> QED
  BY <1>1, SettingsInvariant, PTL

\* A device that sets its host name has the name of its role whenever it
\* serves requests (apply_hostname_if_enabled and its callers).
THEOREM HostnameIsRole == Spec => []HostnameFollowsRole
<1>1. SettingsInv => HostnameFollowsRole
  BY ServingIs DEF HostnameFollowsRole, SoundInv, HostInv, Follows
<1> QED
  BY <1>1, SettingsInvariant, PTL

\* An X20 is an air unit whenever it serves requests
\* (the tests for is_x20_platform).
THEOREM X20StaysAir == Spec => []X20IsAir
<1>1. SettingsInv => X20IsAir
  BY ServingIs DEF X20IsAir, SoundInv, AirInv
<1> QED
  BY <1>1, SettingsInvariant, PTL
=============================================================================
