------------------------------- MODULE Partition -------------------------------
(***************************************************************************)
(* The partitions of openhd_sys_utils (sysutil_part.cpp): which one can be *)
(* grown, the commands that turn it into the recordings partition, the     *)
(* mounts of /Video and /Config, and the report of the layout.  When these *)
(* run, and what comes between them, is in module Device.                  *)
(*                                                                         *)
(* Partitions are numbered as lsblk lists them.  Sizes are in units of     *)
(* half a GiB.  lsblk is external and so are mkfs, parted, mount: mkfs     *)
(* refuses a mounted partition, parted one that another one follows.       *)
(***************************************************************************)
EXTENDS Unit, Sequences, SequencesExt

CONSTANTS
  Size,      \* the size of each disk
  Layouts,   \* the layouts a unit may come with: partitions of the disks
  Views,     \* how lsblk may give START: in "bytes", in "sectors" or not at all, "none"
  Stages,    \* the directories that /config may be at first
  None       \* no partition

FileSystems == {"fat", "ext4", "none"}
Labels == {"recordings", "openhd", "none"}
Contents == {"user", "marker", "video", "none"}
MountPoints == {"/Video", "/Config", "/boot"}
Steps == {"idle", "format", "grow", "label", "type", "fstab", "mount", "done", "failed"}
Callers == {"firstboot", "request"}

PartitionRecord ==
  [disk : DOMAIN Size, start : Nat, size : Nat \ {0}, fs : FileSystems, label : Labels, content : Contents]

ASSUME PartitionAssumption ==
  /\ \A d \in DOMAIN Size : Size[d] \in Nat
  /\ \A l \in Layouts : l.parts \in Seq(PartitionRecord) /\ l.boot \subseteq DOMAIN l.parts
  /\ \A l \in Layouts : \A p \in DOMAIN l.parts :
       /\ l.parts[p].start + l.parts[p].size <= Size[l.parts[p].disk]
       /\ l.parts[p].label = "recordings" => l.parts[p].fs = "fat"
       /\ \A q \in DOMAIN l.parts : p # q /\ l.parts[p].disk = l.parts[q].disk =>
            \/ l.parts[p].start + l.parts[p].size <= l.parts[q].start
            \/ l.parts[q].start + l.parts[q].size <= l.parts[p].start
  /\ Views \subseteq {"bytes", "sectors", "none"}
  /\ Stages \subseteq {"absent", "empty", "full", "link"}
  /\ None \notin Nat

VARIABLES
  parts,   \* the partitions: where they are, what is on them
  boot,    \* those that the image itself mounts at each boot, on /boot
  view,    \* how lsblk gives START
  mounts,  \* /proc/mounts: for each directory the partitions on it, the last on top
  fstab,   \* the partitions that /etc/fstab mounts on /Video, line by line
  alias,   \* /config and /conf
  hold,    \* /run/openhd/hold.pid is there
  step,    \* the next command of resize_fat32_partition, or how it ended
  target,  \* its candidate
  by       \* who called it

disk == <<parts, boot, view, fstab>>
job == <<step, target, by>>
pvars == <<disk, mounts, alias, hold, job>>

Parts == DOMAIN parts
MinResize == 2

-----------------------------------------------------------------------------
(* What can be grown.                                                      *)

OnDisk(d) == {p \in Parts : parts[p].disk = d}
IsFat32(p) == parts[p].fs = "fat"
IsUnformatted(p) == parts[p].fs = "none"

\* Without START the partitions are taken in the order of their names and as if
\* they followed one another; sectors are nothing next to bytes.
SizeBefore(p) ==
  MapThenSumSet(LAMBDA q : parts[q].size, {q \in OnDisk(parts[p].disk) : q < p})
Order(p) == IF view = "none" THEN SizeBefore(p) ELSE parts[p].start
StartBytes(p) == IF view = "sectors" THEN 0 ELSE Order(p)
EndBytes(p) == StartBytes(p) + parts[p].size

Later(p) == {q \in OnDisk(parts[p].disk) : Order(p) < Order(q)}
NextOf(p) == CHOOSE q \in Later(p) : \A r \in Later(p) : Order(q) <= Order(r)

\* free_after of find_resize_candidate.
FreeAfter(p) ==
  IF Later(p) # {} THEN StartBytes(NextOf(p)) - EndBytes(p)
  ELSE IF Size[parts[p].disk] > EndBytes(p) THEN Size[parts[p].disk] - EndBytes(p) ELSE 0

\* A slip: the last partition needs no free space behind it.
ResizableFull == {p \in Parts : IsFat32(p) \/ (Later(p) = {} /\ IsUnformatted(p))}

Resizable ==
  {p \in Parts : /\ IsFat32(p) \/ (Later(p) = {} /\ IsUnformatted(p))
                 /\ FreeAfter(p) >= MinResize}

\* The one with the largest start over all disks, the first of them on a tie.
find_resize_candidate ==
  IF Resizable = {} THEN None
  ELSE CHOOSE p \in Resizable : \A q \in Resizable : Order(q) < Order(p) \/ (Order(q) = Order(p) /\ p <= q)

-----------------------------------------------------------------------------
(* Mounts.                                                                 *)

Mounted(p) == \E d \in MountPoints : p \in Range(mounts[d])

\* mount_partition when the command works: once per partition and directory,
\* and only with a file system.
MountedOn(m, p, dir) ==
  IF p \in Range(m[dir]) \/ parts[p].fs = "none" THEN m ELSE [m EXCEPT ![dir] = Append(@, p)]

\* The mounts of some partitions, each on its directory, in the order of lsblk.
RowTable(dir, rows) ==
  FoldLeft(LAMBDA m, p : IF p \in rows THEN MountedOn(m, p, dir[p]) ELSE m, mounts, [p \in Parts |-> p])

\* A mount that could work may fail.
MountRows(dir, rows) ==
  \E failed \in {{}} \cup {{p} : p \in rows} :
    /\ mounts' = RowTable(dir, rows \ failed)
    /\ IF failed = {} THEN Unfailing ELSE Fault

\* ensure_config_aliases: an empty directory gives way to the link, nothing else.
ensure_config_aliases ==
  alias' = IF mounts'["/Config"] # <<>> /\ alias \in {"absent", "empty"} THEN "link" ELSE alias

\* mount_known_partitions, by label.
mount_known_partitions ==
  /\ MountRows([p \in Parts |-> IF parts[p].label = "recordings" THEN "/Video" ELSE "/Config"],
               {p \in Parts : parts[p].label \in {"recordings", "openhd"}})
  /\ ensure_config_aliases
  /\ UNCHANGED <<disk, hold, job>>

-----------------------------------------------------------------------------
(* resize_fat32_partition, a command a step.                               *)

Busy == step \notin {"idle", "done", "failed"}
NoFileSystem == [parts[target] EXCEPT !.fs = "none", !.label = "none", !.content = "none"]
EmptyFat(label) == [parts[target] EXCEPT !.fs = "fat", !.label = label, !.content = "none"]

Go(s) == step' = s /\ UNCHANGED <<target, by>>

\* A slip: the hold file is left to the update worker.
BeginUnheld(caller) ==
  /\ step = "idle" /\ find_resize_candidate # None
  /\ target' = find_resize_candidate /\ by' = caller /\ step' = "format"
  /\ UNCHANGED <<disk, mounts, alias, hold, faults>>

\* The candidate is found and the hold file is made.
Begin(caller) ==
  /\ step = "idle" /\ find_resize_candidate # None
  /\ target' = find_resize_candidate /\ by' = caller /\ step' = "format"
  /\ hold' = TRUE
  /\ UNCHANGED <<disk, mounts, alias, faults>>

\* A command that fails: in the middle, or without having done anything.
Fails(states) ==
  /\ Fault /\ Go("failed")
  /\ \E s \in states : parts' = [parts EXCEPT ![target] = s]

\* mkfs.fat, then mkfs.vfat with the label: both take what was there.  A mounted
\* partition is refused; nothing mounts it before the second.
Mkfs(label, next) ==
  /\ ~Mounted(target)
  /\ \/ /\ Unfailing /\ Go(next)
        /\ parts' = [parts EXCEPT ![target] = EmptyFat(label)]
     \/ Fails({parts[target], NoFileSystem})
  /\ UNCHANGED <<boot, view, fstab, mounts, alias, hold>>

Refused ==
  /\ step = "format" /\ Mounted(target) /\ Unfailing /\ Go("failed")
  /\ UNCHANGED <<disk, mounts, alias, hold>>

Format == step = "format" /\ Mkfs("none", "grow")
Label == step = "label" /\ Mkfs("recordings", "type")

\* parted resizepart 100%.
Grow ==
  /\ step = "grow"
  /\ \/ /\ \A q \in OnDisk(parts[target].disk) : parts[q].start <= parts[target].start
        /\ parts' = [parts EXCEPT ![target].size = Size[parts[target].disk] - parts[target].start]
        /\ Unfailing /\ Go("label")
     \/ /\ \E q \in OnDisk(parts[target].disk) : parts[q].start > parts[target].start
        /\ Unfailing /\ Go("failed") /\ UNCHANGED parts
     \/ Fails({parts[target]})
  /\ UNCHANGED <<boot, view, fstab, mounts, alias, hold>>

\* run_fdisk_type_fat32: no property depends on the type.
Type ==
  /\ step = "type"
  /\ \/ Unfailing /\ Go("fstab")
     \/ Fault /\ Go("failed")
  /\ UNCHANGED <<disk, mounts, alias, hold>>

\* ensure_fstab_entry.
Fstab ==
  /\ step = "fstab"
  /\ \/ /\ fstab' = IF target \in Range(fstab) THEN fstab ELSE Append(fstab, target)
        /\ Unfailing /\ Go("mount")
     \/ target \notin Range(fstab) /\ Fault /\ Go("failed") /\ UNCHANGED fstab
  /\ UNCHANGED <<parts, boot, view, mounts, alias, hold>>

\* The mount, the marker file and the end; Device asks for the reboot.
MountVideo ==
  /\ step = "mount"
  /\ \/ /\ mounts' = MountedOn(mounts, target, "/Video")
        /\ parts' = [parts EXCEPT ![target].content = "marker"]
        /\ Unfailing /\ Go("done")
     \/ /\ Fault /\ Go("failed")
        /\ UNCHANGED <<mounts, parts>>
  /\ UNCHANGED <<boot, view, fstab, alias, hold>>

\* build_partitions_response: the free segments of a disk and what may be grown;
\* on its way it mounts recordings that are not mounted, as far as lsblk tells.
PreviousEnd(p) ==
  LET before == {q \in OnDisk(parts[p].disk) : Order(q) < Order(p)}
  IN  IF before = {} THEN 0
      ELSE EndBytes(CHOOSE q \in before : \A r \in before : Order(r) <= Order(q))
Segment(start, end) == [start |-> start, size |-> end - start]
FreeSegments(d) ==
  LET last == {p \in OnDisk(d) : Later(p) = {}}
      cursor == IF last = {} THEN 0 ELSE EndBytes(CHOOSE p \in last : TRUE)
  IN  {Segment(PreviousEnd(p), StartBytes(p)) : p \in {q \in OnDisk(d) : StartBytes(q) > PreviousEnd(q)}}
      \cup (IF Size[d] > cursor THEN {Segment(cursor, Size[d])} ELSE {})

build_partitions_response ==
  /\ MountRows([p \in Parts |-> "/Video"],
               {p \in Parts : parts[p].label = "recordings" /\ (view = "none" \/ ~Mounted(p))})
  /\ UNCHANGED <<disk, alias, hold, job>>

ResizeStep == Refused \/ Format \/ Grow \/ Label \/ Type \/ Fstab \/ MountVideo

=============================================================================
