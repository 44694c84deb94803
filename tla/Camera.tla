--------------------------------- MODULE Camera --------------------------------
(***************************************************************************)
(* The camera setup of openhd_sys_utils (sysutil_camera.cpp): from the     *)
(* camera in the config to the overlay lines of the boot file, config.txt  *)
(* of a Raspberry Pi or extlinux.conf of a Radxa board, and to the tuning  *)
(* file of the sensor.  It runs in main at the first boot and in a thread  *)
(* of its own for each setup request (sysutil_settings.cpp), two of which  *)
(* may be under way.  When they run is in module Device.                   *)
(*                                                                         *)
(* A line of a boot file is the kind of the line: an overlay is a record   *)
(* of its sensor and, on a Raspberry Pi, its port.                         *)
(***************************************************************************)
EXTENDS Unit, Sequences, SequencesExt

CONSTANTS
  BootFiles, \* the boot files that a board of each kind may come with
  Ids,       \* the cameras that users choose, for each kind of board
  Camera2,   \* the second cameras, of a Raspberry Pi 5, and their ports, for each kind
  Threads,   \* bound: the setup requests; thread 0 is main
  NoCamera   \* no camera configured

\* kProfiles, of each kind of entry one, and is_configuration_only_camera.
Profiles ==
  ( 20 :> [link |-> TRUE, sensor |-> "none", cma |-> FALSE, rock |-> "none"]
 @@ 33 :> [link |-> TRUE, sensor |-> "imx477", cma |-> FALSE, rock |-> "none"]
 @@ 42 :> [link |-> TRUE, sensor |-> "imx477", cma |-> TRUE, rock |-> "none"]
 @@ 31 :> [link |-> TRUE, sensor |-> "imx219", cma |-> FALSE, rock |-> "none"]
 @@ 82 :> [link |-> FALSE, sensor |-> "none", cma |-> FALSE, rock |-> "v2"]
 @@ 85 :> [link |-> FALSE, sensor |-> "none", cma |-> FALSE, rock |-> "imx415"] )
ConfigurationOnly == {3, 10}

Cams == {"cam0", "cam1"}
Sensors == {"none"} \cup UNION {{Profiles[i].sensor, Profiles[i].rock} : i \in DOMAIN Profiles}
Kinds == {"own", "gpio-key", "auto1", "auto0", "marker", "vc4", "overlay", "append"}
Lines == [kind : Kinds, sensor : Sensors, port : Cams \cup {"none"}]
Line(kind) == [kind |-> kind, sensor |-> "none", port |-> "none"]
Overlay(sensor, port) == [kind |-> "overlay", sensor |-> sensor, port |-> port]

ASSUME CameraAssumption ==
  /\ \A b \in Boards : BootFiles[b] \subseteq Seq(Lines)
  \* A unit comes without a camera set up, and extlinux.conf has its own lines.
  /\ \A b \in Boards : \A file \in BootFiles[b] : \A i \in DOMAIN file :
       /\ file[i].kind # "overlay"
       /\ b \in {"rk3566", "cm5", "rock5"} => file[i].kind \in {"own", "append"}
  /\ \A b \in Boards : Ids[b] \subseteq DOMAIN Profiles \cup ConfigurationOnly
  /\ \A b \in Boards :
       Camera2[b] \subseteq [id : (DOMAIN Profiles \ {33, 42}) \cup {NoCamera},
                            port : Cams \cup {"none"}, port2 : Cams \cup {"none"}]
  /\ Threads \in Nat /\ NoCamera \notin DOMAIN Profiles \cup ConfigurationOnly

NoSecond == [id |-> NoCamera, port |-> "none", port2 |-> "none"]
VARIABLES
  original, \* the boot file it came with
  bootFile, \* the boot file
  tuning,   \* imx477.json and imx477_old.json: what each of them holds
  camera,   \* camera_type of the config
  second,   \* camera2_type, camera_port and camera2_port of the config
  threads,  \* the threads that apply the config: where they are, what they read
  torn,     \* history: a file was left half-written, or was not copied
  raced     \* history: two threads were applying the config at once

unit == <<original, second>>
cvars == <<unit, bootFile, tuning, camera, threads, torn, raced>>

-----------------------------------------------------------------------------
(* What is written for which camera.                                       *)

Profile(id) == IF id \in DOMAIN Profiles THEN {id} ELSE {}
PortOf(p, default) == IF p = "none" THEN default ELSE p

\* camera_port and camera2_port of apply_camera_config_if_needed; only a Pi 5
\* has two cameras, and another Pi has its camera on CAM1.
Ports ==
  LET primary == IF board = "rpi5" THEN PortOf(second.port, "cam1") ELSE "cam1"
      secondary == PortOf(second.port2, "cam0")
  IN  [primary |-> primary,
       secondary |-> IF primary # secondary THEN secondary
                     ELSE IF primary = "cam0" THEN "cam1" ELSE "cam0"]

Primary(id) == Profile(id)
Secondary == IF board = "rpi5" THEN Profile(second.id) ELSE {}

\* Cameras with a profile of this board, the first in front.
Chosen(id) ==
  IF is_rockchip_platform THEN {i \in Primary(id) : Profiles[i].rock # "none"}
  ELSE IF ~is_rpi_platform \/ (Primary(id) # {} /\ ~Profiles[id].link) THEN {}
  ELSE {i \in Primary(id) \cup Secondary : Primary(id) # {} \/ Profiles[i].link}

Overlays(id) ==
  IF is_rockchip_platform THEN <<Overlay(Profiles[id].rock, "none")>>
  ELSE (IF \E i \in Primary(id) : Profiles[i].sensor # "none"
        THEN <<Overlay(Profiles[id].sensor, Ports.primary)>> ELSE <<>>)
       \o (IF \E i \in Secondary : Profiles[i].sensor # "none"
           THEN <<Overlay(Profiles[second.id].sensor, Ports.secondary)>> ELSE <<>>)

UpToMarker(file) ==
  IF \E i \in DOMAIN file : file[i].kind = "marker"
  THEN SubSeq(file, 1, SelectInSeq(file, LAMBDA l : l.kind = "marker"))
  ELSE file

\* The lines of some kinds, in their order.
OfKinds(file, kinds) ==
  FoldLeft(LAMBDA kept, l : IF l.kind \in kinds THEN Append(kept, l) ELSE kept, <<>>, file)

\* What update_boot_config keeps and what it adds.
Kept(overlays) == Kinds \ ({"gpio-key"} \cup IF overlays = <<>> THEN {} ELSE {"auto0", "auto1"})
Added(overlays) == <<Line("vc4")>> \o (IF overlays = <<>> THEN <<>> ELSE <<Line("auto0")>> \o overlays)

\* A slip: the lines of the former camera are kept.
AppendToConfig(file, overlays) == OfKinds(file, Kept(overlays)) \o Added(overlays)

\* update_boot_config, what it makes of config.txt.
ConfigWith(file, overlays) == OfKinds(UpToMarker(file), Kept(overlays)) \o Added(overlays)

\* update_extlinux, what it makes of extlinux.conf.
ExtlinuxWith(file, overlays) ==
  LET rest == OfKinds(file, Kinds \ {"overlay"})
      at   == SelectInSeq(rest, LAMBDA l : l.kind = "append")
  IN  IF at = 0 THEN rest \o overlays
      ELSE SubSeq(rest, 1, at - 1) \o overlays \o SubSeq(rest, at, Len(rest))

FileWith(file, id) ==
  IF is_rockchip_platform THEN ExtlinuxWith(file, Overlays(id)) ELSE ConfigWith(file, Overlays(id))

-----------------------------------------------------------------------------
(* apply_camera_config_if_needed, run by thread t.                         *)

NoThread == [at |-> "none", id |-> NoCamera, file |-> <<>>]
Positions == {"none", "load", "backup", "install", "clear", "restore", "discard", "read", "open",
              "write", "applied", "refused"}
Applying(t) == threads[t].at \notin {"none", "applied", "refused"}
At(t, place) == threads[t].at = place
To(t, place) == threads' = [threads EXCEPT ![t].at = place]

\* A request or the first boot starts to apply the config.
StartApplying(t) ==
  /\ At(t, "none")
  /\ threads' = [threads EXCEPT ![t].at = "load"]
  /\ raced' = (raced \/ \E u \in 0..Threads : Applying(u))
  /\ UNCHANGED <<unit, bootFile, tuning, camera, torn>>

\* The config is loaded and the profiles are looked up; without one nothing is
\* written.  The tuning files are those of a Pi, for cameras 42 and 33, which are
\* only modelled as the first camera.
Load(t) ==
  /\ At(t, "load") /\ Unfailing
  /\ LET chosen == Chosen(camera)
         tunes  == ~is_rockchip_platform /\ chosen # {}
         place  == CASE tunes /\ 42 \in chosen /\ tuning.backup = "none" -> "backup"
                     [] tunes /\ 33 \in chosen /\ tuning.backup # "none" -> "clear"
                     [] chosen # {} -> "read"
                     [] chosen = {} /\ camera \in ConfigurationOnly -> "applied"
                     [] OTHER -> "refused"
     IN  threads' = [threads EXCEPT ![t] = [at |-> place, id |-> camera, file |-> <<>>]]
  /\ UNCHANGED <<unit, bootFile, tuning, camera, torn, raced>>

\* copy_file_if_exists, onto a file that holds was: whole, cut short or not at
\* all, which nobody looks at.
Copied(from, was) == IF from = "none" THEN {was} ELSE {from, "torn", was}
Copies(from, c) ==
  IF c = from \/ from = "none" THEN Unfailing /\ UNCHANGED torn ELSE Fault /\ torn' = TRUE

\* apply_rpi_tuning_in, for one of the four directories.
Backup(t) ==
  /\ At(t, "backup") /\ To(t, "install")
  /\ \E c \in Copied(tuning.current, tuning.backup) :
       tuning' = [tuning EXCEPT !.backup = c] /\ Copies(tuning.current, c)
  /\ UNCHANGED <<unit, bootFile, camera, raced>>

Install(t) ==
  /\ At(t, "install") /\ To(t, "read")
  /\ \E c \in Copied("custom", tuning.current) :
       tuning' = [tuning EXCEPT !.current = c] /\ Copies("custom", c)
  /\ UNCHANGED <<unit, bootFile, camera, raced>>

\* A slip: the backup goes first.
RemoveBoth(t) ==
  /\ At(t, "clear") /\ To(t, "restore") /\ Unfailing
  /\ tuning' = [tuning EXCEPT !.backup = "none", !.current = "none"]
  /\ UNCHANGED <<unit, bootFile, camera, torn, raced>>

Clear(t) ==
  /\ At(t, "clear") /\ To(t, "restore") /\ Unfailing
  /\ tuning' = [tuning EXCEPT !.current = "none"]
  /\ UNCHANGED <<unit, bootFile, camera, torn, raced>>

Restore(t) ==
  /\ At(t, "restore") /\ To(t, "discard")
  /\ \E c \in Copied(tuning.backup, tuning.current) :
       tuning' = [tuning EXCEPT !.current = c] /\ Copies(tuning.backup, c)
  /\ UNCHANGED <<unit, bootFile, camera, raced>>

Discard(t) ==
  /\ At(t, "discard") /\ To(t, "read") /\ Unfailing
  /\ tuning' = [tuning EXCEPT !.backup = "none"]
  /\ UNCHANGED <<unit, bootFile, camera, torn, raced>>

\* What is left of a file beyond the text written over its beginning.  Of the
\* lengths of lines nothing is known, and a line cut in two is none.
Tails(file) == {<<>>} \cup {SubSeq(file, k, Len(file)) : k \in 2..Len(file)}

\* update_boot_config and update_extlinux: read, truncate, write.  A stream
\* writes from the start of the file, whatever another one wrote since it was
\* opened.
Read(t) ==
  /\ At(t, "read")
  /\ \/ threads' = [threads EXCEPT ![t].at = "open", ![t].file = bootFile] /\ Unfailing
     \/ To(t, "refused") /\ Fault
  /\ UNCHANGED <<unit, bootFile, tuning, camera, torn, raced>>

Open(t) ==
  /\ At(t, "open")
  /\ \/ To(t, "write") /\ bootFile' = <<>> /\ Unfailing
     \/ threads' = [threads EXCEPT ![t].at = "refused", ![t].file = <<>>] /\ UNCHANGED bootFile /\ Fault
  /\ UNCHANGED <<unit, tuning, camera, torn, raced>>

Write(t) ==
  /\ At(t, "write") /\ Unfailing
  /\ \E rest \in Tails(bootFile) : bootFile' = FileWith(threads[t].file, threads[t].id) \o rest
  /\ threads' = [threads EXCEPT ![t].at = "applied", ![t].file = <<>>]
  /\ UNCHANGED <<unit, tuning, camera, torn, raced>>

ApplyStep(t) ==
  Load(t) \/ Backup(t) \/ Install(t) \/ Clear(t) \/ Restore(t) \/ Discard(t) \/ Read(t) \/ Open(t) \/ Write(t)

\* Power goes, or the process is killed: what was being written is cut short.
\* What becomes of the config is for Device to say.
Stop ==
  /\ threads' = [t \in 0..Threads |-> NoThread]
  /\ LET at == {threads[t].at : t \in 0..Threads}
     IN  /\ \E c \in {tuning.current} \cup (IF {"install", "restore"} \cap at # {} THEN {"torn"} ELSE {}),
               b \in {tuning.backup} \cup (IF "backup" \in at THEN {"torn"} ELSE {}) :
              /\ tuning' = [current |-> c, backup |-> b]
              /\ torn' = (torn \/ "write" \in at \/ tuning' # tuning)
  /\ UNCHANGED <<original, bootFile, raced>>

CameraInit ==
  /\ bootFile \in BootFiles[board] /\ original = bootFile
  /\ second \in Camera2[board] \cup {NoSecond}
  /\ tuning = [current |-> "stock", backup |-> "none"]
  /\ camera \in Ids[board] \cup {NoCamera}
  /\ threads = [t \in 0..Threads |-> NoThread]
  /\ torn = FALSE /\ raced = FALSE

CameraTypeOK ==
  /\ original \in BootFiles[board]
  /\ bootFile \in Seq(Lines)
  /\ second \in Camera2[board] \cup {NoSecond}
  /\ tuning \in [current : {"stock", "custom", "torn", "none"}, backup : {"stock", "custom", "torn", "none"}]
  /\ camera \in Ids[board] \cup {NoCamera}
  /\ threads \in [0..Threads -> [at : Positions, id : Ids[board] \cup {NoCamera}, file : Seq(Lines)]]
  /\ torn \in BOOLEAN /\ raced \in BOOLEAN

-----------------------------------------------------------------------------
Writing == \E t \in 0..Threads : At(t, "write")
Own(file) == OfKinds(UpToMarker(file), {"own", "append", "marker"})
OverlaysIn(file) == {i \in DOMAIN file : file[i].kind = "overlay"}

\* Whatever cameras were set up one after the other, the boot file still has
\* all that its owner wrote above the marker, in the same order, and no two
\* cameras on one port: of the former camera nothing is left.  A config.txt
\* without the marker keeps former cameras, and a cut may leave anything - but
\* never a camera of the user's together with the camera detection of the
\* firmware, which the comment of update_boot_config rules out.  Two setups that
\* were under way at once leave anything, that too.
BootFileIsSound ==
  /\ ~raced /\ OverlaysIn(bootFile) # {} => \A i \in DOMAIN bootFile : bootFile[i].kind # "auto1"
  /\ (~Writing /\ ~torn /\ ~raced) =>
       /\ Own(bootFile) = Own(original)
       /\ (is_rockchip_platform \/ \E i \in DOMAIN original : original[i].kind = "marker") =>
            \A i, j \in OverlaysIn(bootFile) : i # j => bootFile[i].port # bootFile[j].port

\* The tuning that came with the unit is in one of the two files at every step
\* of every switch between cameras, so that a cut between two steps loses
\* nothing; only a copy that fails or is cut short and two setups at once do.
StockTuningIsKept ==
  (~torn /\ ~raced) => "stock" \in {tuning.current, tuning.backup}

=============================================================================
