------------------------------ MODULE Settings ------------------------------
(***************************************************************************)
(* The settings of a device and everything that reads or writes them: the  *)
(* config file of sysutil_config.cpp, the marker files a user puts on the  *)
(* boot partition (sysutil_settings.cpp), the first-boot tasks             *)
(* (sysutil_firstboot.cpp), the debug flag with its marker for OpenHD      *)
(* (sysutil_debug.cpp), the host name (sysutil_hostname.cpp) and the       *)
(* cached platform (sysutil_platform.cpp).  main() runs the boot phases in *)
(* the order of openhd_sys_utils.cpp and then serves requests; the camera  *)
(* setup runs in a detached thread; power can go at any step.  main()      *)
(* installs its signal handlers only when all phases of the boot are over: *)
(* until then a reboot, also one that the first-boot tasks asked for       *)
(* themselves, kills it at any step.                                       *)
(*                                                                         *)
(* A config is a record of optional fields, None when absent.  Fields that *)
(* are carried through unchanged by every operation are left out.  A write *)
(* truncates the file and fills it when the stream is closed (a config is  *)
(* smaller than the stream's buffer), so a reader or a power cut between   *)
(* the two finds a file without fields, which loads as Loaded.             *)
(***************************************************************************)
EXTENDS Naturals, Sequences, FiniteSets

CONSTANTS
  None,          \* an absent field, and nothing in general
  Boards,        \* the boards considered, a subset of {"pi5", "x20"}
  MaxRequests,   \* bound: requests that change something, over all boots
  MaxCards,      \* bound: times the user takes the card out and edits it
  MaxCuts,       \* bound: power cuts, and reboots that hit a truncated config
  MaxIoFaults,   \* bound: failing loads and writes of the config file
  MaxMishaps     \* bound: the three above together

ASSUME SettingsAssumption ==
  /\ Boards \subseteq {"pi5", "x20"}
  /\ {MaxRequests, MaxCards, MaxCuts, MaxIoFaults, MaxMishaps} \subseteq Nat
  /\ None \notin BOOLEAN
  /\ None \notin {"air", "ground", "record", "bogus", "unset", "usb", "csi", "legacy",
                  "pi5", "x20", "unknown", "other"}

VARIABLES
  board,      \* the board the software runs on
  config,     \* the config file: None when missing, else its fields
  card,       \* the files of the boot partition that carry a user's wishes
  marker,     \* OpenHD's debug marker exists
  hostname,   \* the role in /etc/hostname, None before it was ever set
  pc,         \* the next step of the main thread, "off" without power
  cfg,        \* the config the running operation has loaded and edited
  early,      \* the config the first-boot tasks loaded before the import
  goto,       \* stack of the steps the running calls return to
  wrote,      \* result of the last write_sysutil_config()
  req,        \* the request being served
  platform,   \* g_platform_info
  gDebug,     \* g_debug_enabled
  camera,     \* detached camera threads that have not applied their config
  reboot,     \* "no", "needed" by the first-boot tasks, or "asked"
  wanted,     \* history: per field, what the user asked for last
  lost,       \* history: the process was ended where that loses something
  requests, cards, cuts, ioFaults   \* counters of the bounds

disk  == <<config, card, marker, hostname>>
mem   == <<cfg, early, goto, wrote, req>>
cache == <<platform, gDebug>>
count == <<requests, cards, cuts, ioFaults>>
vars  == <<board, lost, disk, pc, mem, cache, camera, reboot, wanted, count>>

-----------------------------------------------------------------------------
(* Data.  The type of the camera is "usb" (10), "csi", or "legacy" for the *)
(* number 1 that ImageWriter writes for USB.                               *)

Modes == {"air", "ground"}
Cameras == {"usb", "csi"}
Platforms == {"pi5", "x20", "legacy", "unknown", "other"}

Config == [firstboot : {None, FALSE}, platform : Platforms \cup {None},
           debug : BOOLEAN \cup {None}, reset : BOOLEAN \cup {None},
           sethost : {None, TRUE}, mode : Modes \cup {None},
           camera : Cameras \cup {None}]

ASSUME AbsenceAssumption == None \notin Config

Empty == [firstboot |-> None, platform |-> None, debug |-> None, reset |-> None,
          sethost |-> None, mode |-> None, camera |-> None]

\* load_sysutil_config: a missing file and one without fields give the same
\* fields; the callers that tell the two apart treat them alike.
Loaded == IF config = None THEN Empty ELSE config

\* A slip: the number for USB is taken as ImageWriter writes it.
KeepCamera(c) == c

\* normalize_camera_type, normalize_run_mode
NormalCamera(c) == IF c = "legacy" THEN "usb" ELSE c
NormalMode(m) == CASE m = "record" -> "air" [] m \in Modes -> m [] OTHER -> None

\* What may be on the card: settings.json in up to two places, and marker files.
JsonFile == [camera : Cameras \cup {"legacy", None}, role : Modes \cup {"bogus", None}, debug : BOOLEAN \cup {None}]
Card == [json : Seq(JsonFile), reset : BOOLEAN, record : BOOLEAN, air : BOOLEAN, ground : BOOLEAN, debug : BOOLEAN]
NoCard == [json |-> <<>>, reset |-> FALSE, record |-> FALSE, air |-> FALSE,
           ground |-> FALSE, debug |-> FALSE]
Json(c, r, d) == [camera |-> c, role |-> r, debug |-> d]
Cards == {
  [NoCard EXCEPT !.json = <<Json("legacy", None, None)>>, !.air = TRUE, !.ground = TRUE],
  [NoCard EXCEPT !.json = <<Json(None, "bogus", FALSE)>>, !.record = TRUE, !.ground = TRUE],
  [NoCard EXCEPT !.json = <<Json("csi", "air", TRUE), Json("legacy", "ground", None)>>],
  [NoCard EXCEPT !.json = <<Json(None, "ground", None)>>,
                 !.reset = TRUE, !.air = TRUE, !.debug = TRUE]}

\* sysutil.settings.update, sysutil.debug.update, sysutil.camera.setup.request
\* and sysutil.platform.update, with the fields they may carry.
NoField == [debug |-> None, mode |-> None, camera |-> None, reset |-> None]
Requests ==
  { [kind |-> "settings", set |-> s] : s \in
      { [NoField EXCEPT !.debug = TRUE, !.reset = FALSE], [NoField EXCEPT !.debug = FALSE],
        [NoField EXCEPT !.mode = "ground", !.camera = "legacy"],
        [NoField EXCEPT !.mode = "record"], [NoField EXCEPT !.mode = "unset"],
        [NoField EXCEPT !.mode = "bogus"] } }
  \cup { [kind |-> "debug", set |-> [NoField EXCEPT !.debug = d]] : d \in BOOLEAN }
  \cup { [kind |-> "camera", set |-> [NoField EXCEPT !.camera = "csi"]] }
  \cup { [kind |-> k, set |-> NoField] : k \in {"platform_set", "platform_refresh"} }

\* A request while it is served; "host" says that the host name may change.
Kinds == {"settings", "debug", "camera", "platform_set", "platform_refresh"}
Fields == [mode : {None, "ground", "record", "unset", "bogus"}, debug : BOOLEAN \cup {None},
           reset : BOOLEAN \cup {None}, camera : {None, "legacy", "csi"}]
Served == [kind : Kinds, set : Fields, host : BOOLEAN]

ASSUME NoRequestAssumption == None \notin Served

X20 == platform = "x20"
Orelse(v, w) == IF v = None THEN w ELSE v
Wish(f, v) == [wanted EXCEPT ![f] = v]

-----------------------------------------------------------------------------
(* The file system, and calls.                                             *)

Return(s) == pc' = Head(s) /\ goto' = Tail(s)

\* Leave the operation for step s and forget its local variables.
Local(c, e) == cfg' = c /\ early' = e /\ wrote' = FALSE /\ req' = None
Done(s) == pc' = s /\ goto' = <<>> /\ Local(Empty, Empty)

\* Call write_sysutil_config(c) and go on with step s.
CallWrite(c, s) == pc' = "write" /\ goto' = <<s>> \o goto /\ Local(c, Empty)

Calm == cards + cuts + ioFaults < MaxMishaps
Fault == Calm /\ ioFaults < MaxIoFaults /\ ioFaults' = ioFaults + 1
         /\ UNCHANGED <<requests, cards, cuts>>

\* remove_file_if_exists: the result is ignored, the file may stay.
Remove(rest) == \/ card' = rest /\ UNCHANGED count
                \/ rest # card /\ Fault /\ UNCHANGED card

\* write_sysutil_config: the stream opens and truncates the file ...
OpenFails ==
  /\ pc = "write" /\ Fault
  /\ wrote' = FALSE /\ Return(goto)
  /\ UNCHANGED <<board, lost, disk, cfg, early, req, cache, camera, reboot, wanted>>

Truncate ==
  /\ pc = "write"
  /\ config' = Empty /\ pc' = "close"
  /\ UNCHANGED <<board, lost, card, marker, hostname, mem, cache, camera, reboot, wanted, count>>

\* ... and its destructor writes the fields, after the result was taken.
Close ==
  /\ pc = "close"
  /\ \/ config' = cfg /\ UNCHANGED count
     \/ Fault /\ UNCHANGED config
  /\ wrote' = TRUE /\ Return(goto)
  /\ UNCHANGED <<board, lost, card, marker, hostname, cfg, early, req, cache, camera, reboot, wanted>>

-----------------------------------------------------------------------------
(* Boot.                                                                   *)

PowerOn ==
  /\ pc = "off"
  /\ pc' = "platform"
  /\ UNCHANGED <<board, lost, disk, mem, cache, camera, reboot, wanted, count>>

\* init_platform_info: the cached platform, unless it is missing, unknown or
\* the number that older releases gave to the Pi 5.  The X20 build always
\* writes its own.
InitPlatform ==
  /\ pc = "platform"
  /\ \E ok \in BOOLEAN :
       LET cached == IF ok THEN Loaded.platform ELSE None
           use == cached \notin {None, "unknown", "legacy"} /\ board # "x20"
           found == IF use THEN cached ELSE board
       IN /\ IF ok THEN UNCHANGED count ELSE Fault
          /\ platform' = found
          /\ IF ok /\ ~use
             THEN CallWrite([Loaded EXCEPT !.platform = found], "firstboot")
             ELSE pc' = "firstboot" /\ UNCHANGED mem
  /\ UNCHANGED <<board, lost, disk, gDebug, camera, reboot, wanted>>

\* run_firstboot_tasks, up to its call of sync_settings_from_files.
FirstBoot ==
  /\ pc = "firstboot"
  /\ \/ /\ Fault /\ Done("sync") /\ UNCHANGED reboot
     \/ /\ UNCHANGED count /\ Loaded.firstboot = FALSE
        /\ Done("sync") /\ UNCHANGED reboot
     \/ /\ UNCHANGED count /\ Loaded.firstboot = None
        /\ pc' = "sync" /\ goto' = <<"finish">>
        /\ Local(Empty, Loaded)
        /\ \E resized \in BOOLEAN : reboot' = IF resized THEN "needed" ELSE reboot
  /\ UNCHANGED <<board, lost, disk, cache, camera, wanted>>

\* Slips: the tasks write back what they loaded before the import; the gate
\* stays open.
FinishWithEarly ==
  /\ pc = "finish"
  /\ UNCHANGED count
  /\ \E applied \in BOOLEAN :
       /\ applied => Loaded.camera # None
       /\ reboot' = IF applied THEN "needed" ELSE reboot
  /\ CallWrite([early EXCEPT !.platform = board, !.firstboot = FALSE], "reboot")
  /\ UNCHANGED <<board, lost, disk, cache, camera, wanted>>

FinishOpen ==
  /\ pc = "finish"
  /\ UNCHANGED count
  /\ \E applied \in BOOLEAN :
       /\ applied => Loaded.camera # None
       /\ reboot' = IF applied THEN "needed" ELSE reboot
  /\ CallWrite([Loaded EXCEPT !.platform = board], "reboot")
  /\ UNCHANGED <<board, lost, disk, cache, camera, wanted>>

\* ... from there to the write: the settings are loaded again, because the
\* call has changed them; if that fails, those from before the call are kept.
FinishFirstBoot ==
  /\ pc = "finish"
  /\ \E reloaded, applied \in BOOLEAN :
       /\ IF reloaded THEN UNCHANGED count ELSE Fault
       /\ applied => Loaded.camera # None
       /\ reboot' = IF applied THEN "needed" ELSE reboot
       /\ CallWrite([(IF reloaded THEN Loaded ELSE early)
                       EXCEPT !.platform = board, !.firstboot = FALSE], "reboot")
  /\ UNCHANGED <<board, lost, disk, cache, camera, wanted>>

\* The result of the write is ignored; main() goes on while the system stops.
FirstBootReboot ==
  /\ pc = "reboot"
  /\ reboot' = IF reboot = "needed" THEN "asked" ELSE reboot
  /\ Done("sync")
  /\ UNCHANGED <<board, lost, disk, cache, camera, wanted, count>>

-----------------------------------------------------------------------------
(* sync_settings_from_files, called by the first-boot tasks and by main(). *)

SyncReturn == IF goto = <<>> THEN "debug" ELSE Head(goto)

\* A config that cannot be loaded ends the function before it starts.
SyncFails ==
  /\ pc = "sync" /\ Fault
  /\ pc' = SyncReturn /\ goto' = <<>>
  /\ UNCHANGED <<board, lost, disk, cfg, early, wrote, req, cache, camera, reboot, wanted>>

\* Load the config; import a settings.json and remove it.
SyncJson ==
  /\ pc = "sync" /\ pc' = "sync_reset"
  /\ IF card.json = <<>>
     THEN cfg' = Loaded /\ wrote' = FALSE /\ UNCHANGED <<card, wanted, count>>
     ELSE LET j == Head(card.json)
              got == [camera |-> NormalCamera(j.camera), debug |-> j.debug,
                      mode |-> NormalMode(j.role)]
              Import(c) == [c EXCEPT !.camera = Orelse(got.camera, @), !.debug = Orelse(got.debug, @),
                                     !.mode = Orelse(got.mode, @)]
          IN /\ cfg' = Import(Loaded) /\ wanted' = Import(wanted)
             /\ wrote' = (got # [camera |-> None, debug |-> None, mode |-> None])
             /\ Remove([card EXCEPT !.json = Tail(@)])
  /\ UNCHANGED <<board, lost, config, marker, hostname, early, goto, req, cache, camera, reboot>>

\* Import reset.txt and remove it.  Until the write, "wrote" is the flag
\* the function calls changed.
SyncReset ==
  /\ pc = "sync_reset" /\ pc' = "sync_mode"
  /\ IF card.reset
     THEN /\ cfg' = [cfg EXCEPT !.reset = TRUE] /\ wrote' = TRUE
          /\ wanted' = Wish("reset", TRUE) /\ Remove([card EXCEPT !.reset = FALSE])
     ELSE UNCHANGED <<cfg, wrote, card, wanted, count>>
  /\ UNCHANGED <<board, lost, config, marker, hostname, early, goto, req, cache, camera, reboot>>

\* record.txt, air.txt and ground.txt choose the run mode, in this order.
MarkerMode == CASE card.record -> "air"
                [] ~card.record /\ card.air /\ ~card.ground -> "air"
                [] ~card.record /\ card.ground -> "ground"
                [] OTHER -> None

ForceX20(c) == IF X20 THEN [c EXCEPT !.mode = "air"] ELSE c

\* Import and remove them, force the mode of an X20, write what has changed.
SyncMode ==
  /\ pc = "sync_mode"
  /\ LET asked == [cfg EXCEPT !.mode = Orelse(MarkerMode, @)]
         final == ForceX20(asked)
     IN IF wrote \/ MarkerMode # None \/ final # asked
        THEN pc' = "write" /\ cfg' = final /\ goto' = <<SyncReturn>>
        ELSE pc' = SyncReturn /\ cfg' = Empty /\ goto' = <<>>
  /\ wrote' = FALSE
  /\ Remove([card EXCEPT !.record = FALSE, !.air = FALSE, !.ground = FALSE])
  /\ wanted' = IF MarkerMode = None THEN wanted ELSE Wish("mode", MarkerMode)
  /\ UNCHANGED <<board, lost, config, marker, hostname, early, req, cache, camera, reboot>>

-----------------------------------------------------------------------------
(* The last phases of the boot.                                            *)

\* init_debug_info: a legacy debug.txt is consumed and OpenHD's marker is
\* respected; either turns debugging on, also in the config, which is loaded
\* once more for that.
InitDebug ==
  /\ pc = "debug"
  /\ LET seen == card.debug \/ marker
     IN \E first, second \in BOOLEAN :
          /\ gDebug' = (seen \/ (first /\ Loaded.debug = TRUE))
          /\ IF first /\ second THEN Remove([card EXCEPT !.debug = FALSE])
                                ELSE Fault /\ card' = [card EXCEPT !.debug = FALSE]
          /\ wanted' = IF card.debug THEN Wish("debug", TRUE) ELSE wanted
          /\ IF seen /\ second THEN CallWrite([Loaded EXCEPT !.debug = TRUE], "hostname")
                               ELSE Done("hostname")
  /\ UNCHANGED <<board, lost, config, marker, hostname, platform, camera, reboot>>

\* apply_hostname_if_enabled, from main() and from a settings update.  It
\* loads the config again, and is done when that names no role.
ApplyHostname ==
  /\ pc = "hostname"
  /\ \/ Fault /\ UNCHANGED hostname
     \/ /\ UNCHANGED count
        /\ hostname' = IF Loaded.sethost = TRUE /\ Loaded.mode # None
                       THEN Loaded.mode ELSE hostname
  /\ Done("serve")
  /\ UNCHANGED <<board, lost, config, card, marker, cache, camera, reboot, wanted>>

-----------------------------------------------------------------------------
(* Requests.                                                               *)

\* A slip: an update may make an X20 a ground unit.
EditedAnyMode(r) ==
  LET s == r.set
      mode == IF s.mode = "unset" THEN None
              ELSE Orelse(NormalMode(s.mode), Loaded.mode)
  IN [Loaded EXCEPT !.debug = Orelse(s.debug, @), !.reset = Orelse(s.reset, @),
                    !.camera = Orelse(NormalCamera(s.camera), @), !.mode = mode]

\* handle_settings_update: the config with the fields of the request.
Edited(r) ==
  LET s == r.set
      mode == IF s.mode = "unset" THEN None
              ELSE Orelse(NormalMode(s.mode), Loaded.mode)
  IN ForceX20([Loaded EXCEPT !.debug = Orelse(s.debug, @), !.reset = Orelse(s.reset, @),
                             !.camera = Orelse(NormalCamera(s.camera), @), !.mode = mode])

\* A slip: only the plain modes are taken to change the name.
HostnamePlain(r) == r.set.mode \in {"air", "ground", "unset"} \/ (X20 /\ Loaded.mode # "air")

HostnameRelated(r) ==
  r.set.mode \in {"air", "ground", "record", "unset"} \/ (X20 /\ Loaded.mode # "air")

\* Load the config, edit it and write it.  A load that fails, and a request
\* that changes nothing, end the handler here.
Serve ==
  /\ pc = "serve" /\ requests < MaxRequests
  /\ requests' = requests + 1
  /\ \E r \in Requests :
       \/ /\ Calm /\ ioFaults < MaxIoFaults /\ ioFaults' = ioFaults + 1
          /\ UNCHANGED <<pc, mem>>
       \/ /\ UNCHANGED <<ioFaults, early, wrote>>
          /\ IF r.kind = "settings" /\ r.set.mode = "bogus" /\ ~HostnameRelated(r)
             THEN UNCHANGED <<pc, cfg, goto, req>>
             ELSE /\ pc' = "write" /\ goto' = <<"written">>
                  /\ req' = [kind |-> r.kind, set |-> r.set,
                             host |-> r.kind = "settings" /\ HostnameRelated(r)]
                  /\ cfg' = CASE r.kind = "settings" -> Edited(r)
                              [] r.kind = "debug" -> [Loaded EXCEPT !.debug = r.set.debug]
                              [] r.kind = "camera" ->
                                   [Loaded EXCEPT !.camera = NormalCamera(r.set.camera)]
                              [] r.kind = "platform_set" -> [Loaded EXCEPT !.platform = "other"]
                              [] r.kind = "platform_refresh" -> [Loaded EXCEPT !.platform = board]
  /\ UNCHANGED <<board, lost, disk, cache, camera, reboot, wanted, cards, cuts>>

\* What the user has been told is done: the fields that the request named.
Granted ==
  LET s == req.set
      mode == IF s.mode = "unset" THEN None ELSE Orelse(NormalMode(s.mode), wanted.mode)
  IN [mode |-> mode, debug |-> Orelse(s.debug, wanted.debug),
      reset |-> Orelse(s.reset, wanted.reset),
      camera |-> Orelse(NormalCamera(s.camera), wanted.camera)]

\* A slip: the marker is updated and the cached flag is not.
MarkOnly ==
  IF req.set.debug = None THEN UNCHANGED <<marker, gDebug, count>>
  ELSE marker' = req.set.debug /\ UNCHANGED <<gDebug, count>>

\* apply_openhd_debug_marker, and the assignment of handle_debug_update.
MarkDebug ==
  IF req.set.debug = None THEN UNCHANGED <<marker, gDebug, count>>
  ELSE /\ gDebug' = req.set.debug
       /\ \/ marker' = req.set.debug /\ UNCHANGED count
          \/ marker # req.set.debug /\ Fault /\ UNCHANGED marker

\* The rest of the handlers, for a write that failed and for one that did not.
WriteFailed ==
  /\ pc = "written" /\ ~wrote
  /\ Done("serve")
  /\ UNCHANGED <<board, lost, disk, cache, camera, reboot, wanted, count>>

SettingsWritten ==
  /\ pc = "written" /\ wrote /\ req.kind \in {"settings", "debug"}
  /\ wanted' = Granted
  /\ MarkDebug
  /\ IF req.host THEN pc' = "hostname" /\ UNCHANGED mem ELSE Done("serve")
  /\ UNCHANGED <<board, lost, config, card, hostname, platform, camera, reboot>>

\* handle_camera_setup_request leaves the work to a detached thread.
CameraWritten ==
  /\ pc = "written" /\ wrote /\ req.kind = "camera"
  /\ wanted' = Granted
  /\ camera' = camera + 1
  /\ Done("serve")
  /\ UNCHANGED <<board, lost, disk, cache, reboot, count>>

\* handle_platform_update: the X20 build writes its own platform over it.
PlatformWritten ==
  /\ pc = "written" /\ wrote /\ req.kind \in {"platform_set", "platform_refresh"}
  /\ IF board = "x20" /\ cfg.platform # "x20"
     THEN /\ pc' = "write" /\ goto' = <<"written">> /\ UNCHANGED <<platform, early, wrote, req>>
          /\ cfg' = [cfg EXCEPT !.platform = "x20"]
     ELSE platform' = cfg.platform /\ Done("serve")
  /\ UNCHANGED <<board, lost, disk, gDebug, camera, reboot, wanted, count>>

\* The camera thread loads the config, possibly while main() is writing it.
\* Without a camera there, or when its files cannot be written, it gives up.
CameraThread ==
  /\ camera > 0 /\ pc # "off"
  /\ camera' = camera - 1
  /\ \/ UNCHANGED reboot
     \/ Loaded.camera # None /\ reboot' = "asked"
  /\ UNCHANGED <<board, lost, disk, pc, mem, cache, wanted, count>>

-----------------------------------------------------------------------------
(* Power.                                                                  *)

Off == /\ Done("off")
       /\ platform' = None /\ gDebug' = None /\ camera' = 0 /\ reboot' = "no"

\* The file of a wish is gone and the config with the wish is not written, or
\* the config is truncated and not written.
Exposed ==
  \/ pc = "close"
  \/ pc \in {"sync_reset", "sync_mode"} /\ wrote
  \/ pc = "write" /\ goto \in {<<"finish">>, <<"debug">>}

\* Power fails, or somebody else's reboot kills main() while it boots, between
\* any two steps.  A request counts once its config is written.
PowerCut ==
  /\ pc # "off" /\ Calm /\ cuts < MaxCuts
  /\ cuts' = cuts + 1 /\ Off
  /\ lost' = (lost \/ Exposed)
  /\ wanted' = IF pc = "written" THEN Granted ELSE wanted
  /\ UNCHANGED <<board, disk, requests, cards, ioFaults>>

\* The reboot that the device asked for: while main() boots it kills it at any
\* step, and once main() serves, the handler of the signal lets it finish the
\* request.
Shutdown ==
  /\ reboot = "asked" /\ pc # "off" /\ req = None
  /\ Off
  /\ lost' = (lost \/ Exposed)
  /\ IF pc = "close"
     THEN Calm /\ cuts < MaxCuts /\ cuts' = cuts + 1 /\ UNCHANGED <<requests, cards, ioFaults>>
     ELSE UNCHANGED count
  /\ UNCHANGED <<board, disk, wanted>>

\* The user stops the device, edits the card and puts it back.
EditCard ==
  /\ pc = "serve" /\ Calm /\ cards < MaxCards
  /\ cards' = cards + 1 /\ Off
  /\ card' \in Cards
  /\ UNCHANGED <<board, lost, config, marker, hostname, wanted, requests, cuts, ioFaults>>

-----------------------------------------------------------------------------
\* A fresh image, one whose config only asks for a host name, and a device
\* updated from an older release, with debugging on or off; that release let an
\* X20 be a ground unit.
Old(b, d) == [Empty EXCEPT !.firstboot = FALSE, !.sethost = TRUE, !.debug = d,
                !.platform = IF b = "pi5" THEN "legacy" ELSE "x20", !.mode = "ground"]

Init ==
  /\ board \in Boards
  /\ \/ config \in {None, [Empty EXCEPT !.sethost = TRUE]} /\ marker = FALSE
     \/ \E d \in {None, TRUE} : config = Old(board, d) /\ marker = (d = TRUE)
  /\ card \in Cards \cup {NoCard}
  /\ hostname = None /\ pc = "off"
  /\ cfg = Empty /\ early = Empty /\ goto = <<>> /\ wrote = FALSE /\ req = None
  /\ platform = None /\ gDebug = None /\ camera = 0 /\ reboot = "no"
  /\ wanted = [mode |-> None, debug |-> None, reset |-> None, camera |-> None]
  /\ lost = FALSE
  /\ requests = 0 /\ cards = 0 /\ cuts = 0 /\ ioFaults = 0

Boot == PowerOn \/ InitPlatform \/ FirstBoot \/ FinishFirstBoot \/ FirstBootReboot
        \/ SyncFails \/ SyncJson \/ SyncReset \/ SyncMode \/ InitDebug \/ ApplyHostname
Answer == WriteFailed \/ SettingsWritten \/ CameraWritten \/ PlatformWritten
Main == Boot \/ Answer \/ OpenFails \/ Truncate \/ Close

Next == Main \/ Serve \/ CameraThread \/ PowerCut \/ Shutdown \/ EditCard

Spec == Init /\ [][Next]_vars

\* The main thread and a reboot under way go on; threads get their turn.
FairSpec == Spec /\ WF_vars(Main) /\ WF_vars(Shutdown) /\ WF_vars(CameraThread)

-----------------------------------------------------------------------------
(* Properties.                                                             *)

\* Type correctness; "legacy", a camera number that OpenHD does not know,
\* never gets into a config, from a settings.json or from a request
\* (normalize_camera_type).
TypeOK ==
  /\ board \in Boards /\ config \in Config \cup {None}
  /\ cfg \in Config /\ early \in Config
  /\ card \in Card
  /\ marker \in BOOLEAN /\ hostname \in Modes \cup {None} /\ wrote \in BOOLEAN
  /\ goto \in {<<>>} \cup { <<s>> : s \in {"finish", "debug", "firstboot", "reboot", "hostname", "written"} }
  /\ platform \in Platforms \cup {None} /\ gDebug \in BOOLEAN \cup {None}
  /\ camera \in 0..MaxRequests /\ reboot \in {"no", "needed", "asked"}
  /\ lost \in BOOLEAN /\ requests \in 0..MaxRequests /\ cards \in 0..MaxCards
  /\ cuts \in 0..MaxCuts /\ ioFaults \in 0..MaxIoFaults

Serving == pc = "serve"
Kept(f) == wanted[f] # None =>
             config # None /\ config[f] = IF f = "mode" /\ board = "x20" THEN "air" ELSE wanted[f]

\* What the user asked for last, by a file on the card or by a request whose
\* config was written, is what the config says once the device serves requests,
\* through first boots, reboots, power cuts and the other requests, as long as
\* the file system does not fail: no operation writes back a config it loaded
\* before another one changed it (run_firstboot_tasks loads it again after the
\* import), and only a process that ends where Exposed says, by a power cut or
\* by its own reboot, loses anything.
AskedIsKept ==
  Serving /\ ~lost /\ ioFaults = 0 => \A f \in {"mode", "reset", "camera"} : Kept(f)

\* The flags a process caches and the config agree whenever it serves
\* requests, also after power cuts, and OpenHD is told to debug only when
\* sysutils says so (init_debug_info, handle_debug_update,
\* apply_openhd_debug_marker, init_platform_info, handle_platform_update).
CachesAgree ==
  Serving /\ ioFaults = 0 => /\ gDebug = (Loaded.debug = TRUE)
                             /\ marker => gDebug
                             /\ platform = Loaded.platform

\* A device that sets its host name has the name of the role it is
\* configured for whenever it serves requests: the name is set after the
\* config is written, at boot and by every update that changes the role.
HostnameFollowsRole ==
  Serving /\ ioFaults = 0 /\ Loaded.sethost = TRUE /\ Loaded.mode # None
    => hostname = Loaded.mode

\* An X20 is an air unit, whatever the card, a request or an older config says
\* (the tests for is_x20_platform in both handlers).
X20IsAir == Serving /\ ioFaults = 0 /\ board = "x20" => Loaded.mode = "air"

\* The device comes up and stays up: the first-boot tasks reboot it, but not
\* for ever, whatever gets lost on the way (run_firstboot_tasks).
BootSettles == <>[]Serving

\* What the comment in sysutil_settings.h promises, without a condition: the
\* files on the card are consumed and persisted.  The end of the process between
\* the removal of a file and the write of the config, which the device's own
\* reboot can bring about, loses them.
MarkersArePersisted == Serving => \A f \in {"mode", "reset", "camera"} : Kept(f)

\* The same for the debug flag of a settings.json: OpenHD's own marker, left
\* from an earlier boot, turns it back on (init_debug_info).
DebugIsPersisted == Serving => Kept("debug")
=============================================================================
