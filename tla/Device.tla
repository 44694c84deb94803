--------------------------------- MODULE Device ---------------------------------
(***************************************************************************)
(* A unit from power-on to power-off: main of openhd_sys_utils starts the  *)
(* early screen, runs the first boot, which grows a partition, mounts what *)
(* it knows and applies the camera (sysutil_firstboot.cpp), mounts again,  *)
(* starts services and video, and serves requests.  Beside it are the      *)
(* threads that apply cameras, the update worker, which makes and removes  *)
(* the hold file that the resize also uses, OpenHD and systemd.  Any of    *)
(* them may ask for a reboot, which ends whatever the others are doing;    *)
(* the power may go and the process be started anew at any step.  The      *)
(* parts are those of modules Partition, Camera, Video, LinkControl and    *)
(* Serial.                                                                 *)
(***************************************************************************)
EXTENDS Partition, Camera, Video, LinkControl, Serial

CONSTANTS
  Units,       \* the units: a layout and a board of each, and what its user uses
  FirstGates,  \* what the config may say of the first boot, as a unit comes
  MaxMishaps,  \* bound: power cuts and restarts
  MaxRequests, \* bound: requests to grow a partition or to set up a camera
  MaxStrays    \* bound: pipelines that nobody waits for

Uses == {"partitions", "camera", "video", "link", "serial"}

ASSUME DeviceAssumption ==
  /\ MaxMishaps \in Nat /\ MaxRequests \in Nat /\ MaxStrays \in Nat
  /\ FirstGates \subseteq Gates
  /\ Units \subseteq [layout : Layouts, board : Boards, uses : SUBSET Uses]

VARIABLES
  uses,     \* what the user of this unit uses
  phase,    \* where main is
  needs,    \* needs_reboot of run_firstboot_tasks
  reboot,   \* a reboot was asked for
  worker,   \* the update worker
  stolen,   \* history: it removed the hold file of the resize under way
  mishaps, requests

config == <<board, gate, role, uses>>
main == <<phase, needs, reboot>>
others == <<worker, stolen, mishaps, requests>>
vars == <<config, faults, pvars, cvars, vvars, lvars, svars, main, others>>

Phases == {"off", "early", "gate", "resize", "known", "camera", "close", "ready", "serial", "services", "video", "serve"}

MainAt(place) == phase = place /\ call = "none"
Goes(next) == phase' = next /\ UNCHANGED <<needs, reboot>>

-----------------------------------------------------------------------------
(* The first boot and the way to the requests.                             *)

\* The kernel, the image and systemd: what fstab lists is mounted - an entry that
\* cannot be mounted stops the boot, as it does not say nofail - and the services
\* that are enabled are started.
PowerOn ==
  /\ phase = "off" /\ Goes("early")
  /\ \A i \in DOMAIN fstab : parts[fstab[i]].fs # "none"
  /\ mounts' = [d \in MountPoints |->
                  CASE d = "/boot"  -> SetToSeq(boot)
                    [] d = "/Video" -> fstab
                    [] OTHER        -> <<>>]
  /\ active' = enabled
  /\ UNCHANGED <<config, faults, disk, alias, hold, job, cvars, lvars, svars, others,
                 override, disabled, enabled, pipeline, call, wanted, spoiled>>

EarlyScreen ==
  /\ MainAt("early") /\ Goes("gate")
  /\ start_openhd_glide_early_if_needed
  /\ UNCHANGED <<config, pvars, cvars, lvars, svars, others>>

\* run_firstboot_tasks: whether it runs at all, and resize_partition_firstboot.
run_firstboot_tasks ==
  /\ MainAt("gate") /\ needs' = FALSE
  /\ \/ /\ gate = "open" /\ phase' = "resize" /\ stolen' = FALSE /\ Begin("firstboot")
     \/ /\ phase' = IF gate = "open" THEN "known" ELSE "ready"
        /\ gate = "open" => find_resize_candidate = None
        /\ UNCHANGED <<pvars, faults, stolen>>
  /\ UNCHANGED <<config, cvars, vvars, lvars, svars, reboot, worker, mishaps, requests>>

Ended == step \in {"done", "failed"}
\* A slip: the next resize starts with the candidate of this one.
JobLeft == step' = "idle" /\ UNCHANGED <<target, by, disk, mounts, alias, hold, faults>>
JobEnds == step' = "idle" /\ target' = None /\ UNCHANGED <<by, disk, mounts, alias, hold, faults>>

FirstResizeEnds ==
  /\ phase = "resize" /\ Ended /\ phase' = "known"
  /\ needs' = (step = "done") /\ JobEnds
  /\ UNCHANGED <<config, cvars, vvars, lvars, svars, reboot, others>>

\* mount_known_partitions, then the settings are imported, then the camera.
FirstMounts ==
  /\ phase = "known" /\ Goes("camera")
  /\ mount_known_partitions /\ StartApplying(0)
  /\ UNCHANGED <<config, vvars, lvars, svars, others>>

FirstCameraEnds ==
  /\ phase = "camera" /\ threads[0].at \in {"applied", "refused"}
  /\ phase' = "close" /\ needs' = (needs \/ At(0, "applied"))
  /\ threads' = [threads EXCEPT ![0] = NoThread]
  /\ UNCHANGED <<config, faults, pvars, unit, bootFile, tuning, camera, torn, raced, vvars, lvars, svars, reboot, others>>

\* The config is written, or not, which makes no difference to the reboot.
CloseGate ==
  /\ phase = "close" /\ phase' = "ready"
  /\ \/ gate' = "closed" /\ Unfailing
     \/ gate' = gate /\ Fault
  /\ reboot' = (reboot \/ needs) /\ needs' = FALSE
  /\ UNCHANGED <<board, role, uses, pvars, cvars, vvars, lvars, svars, others>>

\* main mounts again and starts the update worker.
GetReady ==
  /\ phase = "ready" /\ Goes("serial") /\ worker' = "idle"
  /\ mount_known_partitions
  /\ UNCHANGED <<config, cvars, vvars, lvars, svars, stolen, mishaps, requests>>

LinkSerial ==
  /\ phase = "serial" /\ Goes("services")
  /\ link_serial_ports
  /\ UNCHANGED <<config, faults, pvars, cvars, vvars, lvars, others>>

StartServices ==
  /\ phase = "services" /\ Goes("video")
  /\ start_openhd_services_if_needed
  /\ UNCHANGED <<config, pvars, cvars, lvars, svars, others>>

start_ground_video_if_needed ==
  /\ phase = "video" /\ Goes("serve")
  /\ \/ StartOperation("start")
     \/ ~HasVideo /\ UNCHANGED <<vvars, faults>>
  /\ UNCHANGED <<config, pvars, cvars, lvars, svars, others>>

-----------------------------------------------------------------------------
(* Requests, one at a time.                                                *)

Serving == phase = "serve" /\ step = "idle" /\ call = "none" /\ awaited = 0
Request == requests < MaxRequests /\ requests' = requests + 1

\* A slip: a resize is possible at any boot.
ResizeAnytime == Serving /\ Request
ResizeAllowed == Serving /\ gate # "closed" /\ Request

\* handle_partition_resize_request: what it refuses, or is not to do, changes
\* nothing but the status; a config that cannot be read does not refuse.
handle_partition_resize_request ==
  /\ "partitions" \in uses /\ ResizeAllowed
  /\ stolen' = FALSE /\ Begin("request")
  /\ UNCHANGED <<config, cvars, vvars, lvars, svars, main, worker, mishaps>>

ResizeAnswered ==
  /\ phase = "serve" /\ Ended /\ JobEnds
  /\ reboot' = (reboot \/ step = "done")
  /\ UNCHANGED <<config, cvars, vvars, lvars, svars, phase, needs, others>>

PartitionsRequested ==
  /\ Serving /\ build_partitions_response
  /\ UNCHANGED <<config, cvars, vvars, lvars, svars, main, others>>

\* handle_camera_setup_request: answered at once, applied by a thread.
handle_camera_setup_request(id, t) ==
  /\ "camera" \in uses /\ Serving /\ gate # "unreadable" /\ Request
  /\ At(t, "none") /\ \A u \in 1..(t - 1) : ~At(u, "none")
  /\ \/ /\ camera' = id
        /\ threads' = [threads EXCEPT ![t].at = "load"]
        /\ raced' = (raced \/ \E u \in 0..Threads : Applying(u))
        /\ Unfailing
     \/ UNCHANGED <<camera, threads, raced>> /\ Fault
  /\ UNCHANGED <<config, pvars, unit, bootFile, tuning, torn, vvars, lvars, svars, main, worker, stolen, mishaps>>

\* The thread is through, and has the unit rebooted half a second later.
CameraThreadEnds(t) ==
  /\ t # 0 /\ threads[t].at \in {"applied", "refused"}
  /\ reboot' = (reboot \/ At(t, "applied"))
  /\ threads' = [threads EXCEPT ![t] = NoThread]
  /\ UNCHANGED <<config, faults, pvars, unit, bootFile, tuning, camera, torn, raced, vvars, lvars, svars, phase, needs, others>>

handle_video_request(action) ==
  /\ "video" \in uses /\ Serving /\ strays < MaxStrays
  /\ StartOperation(action)
  /\ UNCHANGED <<config, pvars, cvars, lvars, svars, main, others>>

\* A settings request changes the role; module Settings has the rest of it.
RoleChanges ==
  /\ "video" \in uses /\ Serving /\ gate # "unreadable" /\ board # "x20"
  /\ role' \in {"air", "ground"}
  /\ UNCHANGED <<board, gate, uses, faults, pvars, cvars, vvars, lvars, svars, main, others>>

LinkRequested(r) ==
  /\ "link" \in uses /\ Serving /\ handle_link_control_request(r)
  /\ UNCHANGED <<config, faults, pvars, cvars, vvars, svars, main, others>>

-----------------------------------------------------------------------------
(* What is under way, in main and beside it.                               *)

CameraStep(t) == ApplyStep(t) /\ UNCHANGED <<config, pvars, vvars, lvars, svars, main, others>>
ResizeOn == ResizeStep /\ UNCHANGED <<config, cvars, vvars, lvars, svars, main, others>>
VideoOn == VideoStep /\ UNCHANGED <<config, pvars, cvars, lvars, svars, main, others>>
LinkOn ==
  /\ phase = "serve" /\ (Answered \/ Unanswered)
  /\ UNCHANGED <<config, faults, pvars, cvars, vvars, svars, main, others>>

OpenHdOn ==
  /\ "link" \in uses /\ phase # "off" /\ (OpenHdTakes \/ OpenHdRestarts)
  /\ UNCHANGED <<config, faults, pvars, cvars, vvars, svars, main, others>>

UserAndScreen ==
  /\ "video" \in uses
  /\ (phase # "off" /\ RendererEnds) \/ MarkerChanges
  /\ UNCHANGED <<config, pvars, cvars, lvars, svars, main, others>>

Plugging ==
  /\ "serial" \in uses /\ AdapterChanges
  /\ UNCHANGED <<config, faults, pvars, cvars, vvars, lvars, main, others>>

\* run_update makes the hold file at its start and removes it at its end,
\* after which it may have the unit rebooted.
WorkerStarts ==
  /\ "partitions" \in uses /\ worker = "idle" /\ worker' = "run" /\ hold' = TRUE
  /\ UNCHANGED <<config, faults, disk, mounts, alias, job, cvars, vvars, lvars, svars, main, stolen, mishaps, requests>>

WorkerEnds ==
  /\ worker = "run" /\ worker' = "idle" /\ hold' = FALSE
  /\ stolen' = (stolen \/ Busy)
  /\ reboot' \in {reboot, TRUE}
  /\ UNCHANGED <<config, faults, disk, mounts, alias, job, cvars, vvars, lvars, svars, phase, needs, mishaps, requests>>

Recorded ==
  /\ "partitions" \in uses /\ phase = "serve" /\ mounts["/Video"] # <<>>
  /\ parts' = [parts EXCEPT ![Last(mounts["/Video"])].content = "video"]
  /\ UNCHANGED <<config, faults, boot, view, fstab, mounts, alias, hold, job, cvars, vvars, lvars, svars, main, others>>

-----------------------------------------------------------------------------
(* The end of it all.                                                      *)

\* The process ends: mkfs may be cut short.
ProcessEnds ==
  /\ step' = "idle" /\ target' = None /\ by' = by
  /\ parts' \in {parts} \cup (IF step \in {"format", "label"} /\ ~Mounted(target)
                              THEN {[parts EXCEPT ![target] = NoFileSystem]} ELSE {})
  /\ MainEnds /\ LinkEnds /\ Stop
  /\ worker' = "off" /\ needs' = FALSE /\ stolen' = FALSE
  /\ UNCHANGED <<boot, view, fstab, alias, enabled, board, uses, faults>>

PowerOff ==
  /\ phase # "off" /\ phase' = "off"
  /\ ProcessEnds /\ hold' = FALSE /\ reboot' = FALSE
  /\ mounts' = [d \in MountPoints |-> <<>>]
  /\ active' = {} /\ openhd' = FALSE /\ inbox' = <<>>
  /\ DevGone

ConfigKept == UNCHANGED <<gate, role, disabled, camera, second>>
Mishap == mishaps < MaxMishaps /\ mishaps' = mishaps + 1

\* The reboot somebody asked for, whatever else is under way.
Reboot == reboot /\ PowerOff /\ ConfigKept /\ UNCHANGED <<mishaps, requests>>

\* The power goes; a config that was being written is left without fields.
PowerCut ==
  /\ Mishap /\ PowerOff
  /\ \/ ConfigKept
     \/ /\ phase \in {"close", "serve"}
        /\ gate' = "open" /\ role' = "none" /\ disabled' = FALSE
        /\ camera' = NoCamera /\ second' = NoSecond
  /\ UNCHANGED requests

\* The process is started anew; the mounts, the services and the hold file are
\* still there.
Restart ==
  /\ Mishap /\ phase # "off" /\ phase' = "early"
  /\ ProcessEnds /\ ConfigKept
  /\ UNCHANGED <<hold, reboot, mounts, active, openhd, inbox, svars, requests>>

Init ==
  /\ \E u \in Units :
       /\ parts = u.layout.parts /\ boot = u.layout.boot
       /\ board = u.board /\ uses = u.uses
  /\ gate \in FirstGates
  /\ role \in IF "video" \in uses THEN Roles ELSE {"air"}
  /\ faults = 0
  /\ view \in Views
  /\ mounts = [d \in MountPoints |-> <<>>] /\ fstab = <<>> /\ alias \in Stages /\ hold = FALSE
  /\ step = "idle" /\ target = None /\ by = "firstboot"
  /\ CameraInit /\ VideoInit /\ LinkInit /\ SerialInit
  /\ IF "camera" \in uses THEN second \in Camera2[board] ELSE camera = NoCamera /\ second = NoSecond
  /\ "serial" \notin uses => occupied = {}
  /\ "video" \notin uses => ~disabled /\ enabled = {"openhd"}
  /\ "partitions" \notin uses => view = CHOOSE v \in Views : TRUE
  /\ phase = "off" /\ needs = FALSE /\ reboot = FALSE
  /\ worker = "off" /\ stolen = FALSE /\ mishaps = 0 /\ requests = 0

MainStep ==
  \/ PowerOn \/ EarlyScreen \/ run_firstboot_tasks \/ FirstResizeEnds \/ FirstMounts
  \/ FirstCameraEnds \/ CloseGate \/ GetReady \/ LinkSerial \/ StartServices
  \/ start_ground_video_if_needed

Requests ==
  \/ handle_partition_resize_request \/ ResizeAnswered \/ PartitionsRequested
  \/ \E t \in 1..Threads, id \in Ids[board] : handle_camera_setup_request(id, t)
  \/ \E action \in Actions : handle_video_request(action)
  \/ RoleChanges
  \/ \E r \in LinkRequests : LinkRequested(r)

Next ==
  \/ MainStep \/ Requests
  \/ ResizeOn \/ VideoOn \/ LinkOn
  \/ \E t \in 0..Threads : CameraStep(t) \/ CameraThreadEnds(t)
  \/ WorkerStarts \/ WorkerEnds \/ Recorded \/ OpenHdOn \/ UserAndScreen \/ Plugging
  \/ Reboot \/ PowerCut \/ Restart

Spec == Init /\ [][Next]_vars

-----------------------------------------------------------------------------
TypeOK ==
  /\ board \in Boards /\ gate \in Gates /\ role \in Roles /\ faults \in 0..MaxFaults /\ uses \subseteq Uses
  /\ parts \in Seq(PartitionRecord) /\ boot \subseteq Parts /\ view \in Views
  /\ mounts \in [MountPoints -> Seq(Parts)] /\ fstab \in Seq(Parts)
  /\ alias \in {"absent", "empty", "full", "link"} /\ hold \in BOOLEAN
  /\ step \in Steps /\ target \in Parts \cup {None} /\ by \in Callers
  /\ step = "idle" <=> target = None
  /\ CameraTypeOK /\ VideoTypeOK /\ LinkTypeOK /\ SerialTypeOK
  /\ phase \in Phases /\ needs \in BOOLEAN /\ reboot \in BOOLEAN
  /\ worker \in {"off", "idle", "run"} /\ stolen \in BOOLEAN
  /\ mishaps \in 0..MaxMishaps /\ requests \in 0..MaxRequests

\* A step that takes a partition its content, be it the user's, recordings or the
\* marker.
Loses(p) == parts[p].content # "none" /\ parts'[p].content = "none"

Uncovered(d) == Size[d] - MapThenSumSet(LAMBDA q : parts[q].size, OnDisk(d))

\* Nothing loses its content, through any sequence of boots, cuts, failed
\* commands and requests, but an unmounted FAT32 or unformatted partition, and
\* that only before the first boot is recorded as done and on a disk with 1 GiB
\* that is not in use - so no recordings on a partition that has been grown.
\* This is for systems whose lsblk does not give START: see FormatsOnlyGrowable.
FormatsOnlyUnused ==
  [][\A p \in Parts : Loses(p) =>
       /\ parts[p].fs # "ext4" /\ ~Mounted(p) /\ gate # "closed"
       /\ Uncovered(parts[p].disk) >= MinResize]_vars

\* The blocks of a disk behind partition p that no partition covers.
HasRoom(p) ==
  \A b \in (parts[p].start + parts[p].size)..(parts[p].start + parts[p].size + MinResize - 1) :
    /\ b < Size[parts[p].disk]
    /\ \A q \in OnDisk(parts[p].disk) : ~(parts[q].start <= b /\ b < parts[q].start + parts[q].size)

\* partitioning_current.md: a FAT32 or unformatted partition with at least 1 GiB
\* free space after it is formatted.  Not so where lsblk gives START, in sectors.
FormatsOnlyGrowable == [][\A p \in Parts : Loses(p) => HasRoom(p)]_vars

\* Disks without gaps where lsblk does not tell, and lsblk never counts in sectors.
NoGapsIn(ps) ==
  \A p \in DOMAIN ps :
    LET rest == {q \in DOMAIN ps : ps[q].disk = ps[p].disk} \ {p}
    IN  (\A q \in rest : ps[q].start <= ps[p].start) => ps[p].start = MapThenSumSet(LAMBDA q : ps[q].size, rest)

Tight ==
  /\ Views \subseteq {"none", "bytes"}
  /\ "none" \in Views => \A l \in Layouts : NoGapsIn(l.parts)

\* Whatever is mounted on /Video, or will be at the next boot because of fstab,
\* is a recordings partition with a file system, also when a boot was cut, a
\* command failed or the first boot is run again: an entry that could not be
\* mounted would stop the unit from booting.  For units that are Tight.
VideoIsRecordings ==
  \A p \in Range(fstab) \cup Range(mounts["/Video"]) :
    parts[p].fs = "fat" /\ parts[p].label = "recordings"

\* OpenHD is told to wait for as long as a partition is worked on, except when
\* an update run that overlaps with a resize on request has removed the file:
\* at the first boot, before the worker is started, nothing takes it away.
HoldWhileFormatting ==
  Busy => hold \/ (by = "request" /\ stolen)

=============================================================================
