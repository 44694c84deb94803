# OpenHD-SysUtils: a TLA+ verification project

`openhd_sys_utils` is the root daemon next to OpenHD on an air or ground unit. It imports what a user put on the boot
partition, runs the first-boot tasks, applies updates, shows the state on LEDs, detects Wi-Fi cards, starts and stops
services, and answers requests of OpenHD on a Unix socket. This directory holds models of its parts in TLA+, the
configurations that check them with TLC and proofs that TLAPS checks.

Paths like `sysutil_update.cpp:868` are below `src/src/`.

## 1. Inventory

| component | source | state | operations | hard behaviour |
|---|---|---|---|---|
| request server | `openhd_sys_utils.cpp` | `clientBuffers`, descriptors, `gStopRequested` | poll, accept, read, cut into lines, answer, close, stop | pieces of lines, hang-up together with data, reused descriptors, full answers |
| update worker | `sysutil_update.cpp` | `g_update_requested`, `g_updating`, `g_last_failure`, `/run/openhd/hold.pid`, masks, payload files | poll, find, extract, four stages, clean up, reboot | its own thread, beside the booting main thread, the user and restarts of the daemon |
| status and LEDs | `sysutil_status.cpp`, `sysutil_led.cpp` | `g_status`, `g_current_pattern`, `g_pattern_id` | set status, choose and show a pattern | three threads that set the status (main, the update worker, a camera setup) and one that shows it, the snapshot without a lock |
| config file | `sysutil_config.cpp` | the config | load, truncating write | power cuts, full disk, readers in between |
| settings, camera requests | `sysutil_settings.cpp` | marker files, `settings.json` | import at boot, update request, detached camera thread | files consumed before the config is written; several writers of one file |
| first boot, debug flag, host name, platform | `sysutil_firstboot.cpp`, `sysutil_debug.cpp`, `sysutil_hostname.cpp`, `sysutil_platform.cpp` | flags in the config, caches, `/etc/hostname`, OpenHD's marker | boot tasks, update requests | order of the boot phases, caches against the file, reboot loop |
| Wi-Fi and Artosyn | `sysutil_wifi.cpp`, retry in `openhd_sys_utils.cpp` | `g_wifi_cards`, two override files, `last_attempt`, the daemon and the bridge | refresh, set, clear, restart, retry | processes that come up late, timeouts, a throttle, cards coming and going |
| RF link control | `sysutil_wifi.cpp:2008` | a connection to OpenHD's socket | one exchange, awaited for 900 ms | late answers, answers to older requests, OpenHD restarting |
| partitions | `sysutil_part.cpp` | partitions, mounts, `/etc/fstab`, the hold file shared with the update worker | mount at boot, report, format and grow | six commands any of which fails or is cut by a reboot or a power cut; run again at the next boot |
| camera setup | `sysutil_camera.cpp` | `config.txt` or `extlinux.conf`, the tuning files of the sensor | apply the camera in the config | several threads at once, truncating writes, a file edited again by every setup, reboots in between |
| video | `sysutil_video.cpp` | `g_video_pid`, the services that systemd has enabled and runs, a marker file | start early, start, restart, stop, by role and board | the child process and its children, what systemd starts at boot by itself, users changing the marker |
| serial links | `sysutil_serial.cpp` | `/dev/Flight`, `/dev/Tracker`, `/dev/OpenHD`, `/dev/Sbus` | made at each start | links of an earlier start, adapters coming and going, a port with two names |
| protocol, platform table and its generator, packaging | `sysutil_protocol.cpp`, `tools/`, `systemd/`, `init.d/` | none | text, tables, build | none that a model reaches |

How they interact. `main` runs the boot phases in one order (LEDs, status, platform, first boot, mounts, settings import,
update worker, Wi-Fi, serial, debug, host name, services, video) and then serves requests; all of that is one thread.
The update worker, the LED thread and each camera setup are threads of their own. They share the status snapshot, the
config file, the OpenHD services, and `hold.pid`, which tells OpenHD to wait. Any of main, the worker and the camera threads may have the unit rebooted, which
ends whatever the others are doing. Around the process there are
the user (files on the boot partition, cards), OpenHD (requests), `systemd` (`Restart=always`), reboots and power cuts.

The hazards in `PROJECT.json` list the places where this is hard to get right; each names the properties that watch it or says why
there is none.

## 2. Modules

| module | models | composed of |
|---|---|---|
| `UpdateWorker` | the update thread, the main thread that posts requests and starts services while booting, the user, the clock, restarts | |
| `UpdatePromise` | what the update service promises whoever copies a payload: an abstract specification | implemented by `UpdateWorker` (`INSTANCE` in it, `PromiseKept`) |
| `UpdateWorkerProofs` | the proofs about `UpdateWorker` | extends `UpdateWorker`, `TLAPS` |
| `StatusLed` | `update_status()` in the three threads that call it, the choice of the pattern, the LED thread, the lights | |
| `Settings` | the config file with all that reads and writes it, from power-on to serving, over reboots | config, import, first boot, debug, host name, platform, camera thread |
| `Server` | the poll loop and the life of a connection | |
| `Wifi` | refresh, overrides, Artosyn runtime, retry, with cards and processes around them | |
| `Unit` | the board, what the config says of it, commands that fail: what the next five share | |
| `Partition` | `lsblk` and what can be grown, the commands of the resize, `fstab`, mounts | extends `Unit` |
| `Camera` | a boot file and tuning files under `apply_camera_config_if_needed`, in main and in threads | extends `Unit` |
| `Video` | systemd's services and the pipeline process | extends `Unit` |
| `LinkControl` | a request to OpenHD and its answer | |
| `Serial` | the links of the serial roles | extends `Unit` |
| `Device` | a unit from power-on to power-off: main's boot order and requests, worker, threads, reboots, cuts and restarts around these parts | extends the five |
| `SettingsProofs`, `StatusLedProofs`, `WifiProofs`, `ServerProofs` | the proofs about the module of that name | extend it, `TLAPS` |
| `PartsProofs` | proofs about the parts of `Device` that work on sequences: camera and serial links | extends `Device`, `InductionFacts`, `TLAPS` |
| `DeviceProofs` | proofs about the rest of `Device`: hold file, link control, video, partitions, types | extends `PartsProofs` |
| `InductionFacts` | induction over the naturals as a fact about sets, for the proofs about recursive functions and folds | extends `TLAPS` |
| `MC...` | instances for TLC | |

One action is one step that another thread, a process, the user, the clock, a crash or a power cut can come between.
What the code does under one lock, or in one thread on data nobody else reads meanwhile, is one action. `map` in `PROJECT.json`
gives the lines of each definition; names follow the source where they can.

**UpdateWorker.** `wpc` walks through `update_worker()` and `run_update()`: `poll`, `begin`, `hold`, `stop`, `mask`,
`choose`, `extract`, the stages `apt`, `deb`, `bin`, `stm`, `decide`, `cleanup`, `sweep`, `unmask`, `reboot`; the early returns are
`leaveFlag`, `leaveHold`, `leaveMark`. A payload is a set of files, each of a kind (the stage that handles it, or none), and a stage gets through
all or some of its files. `content` is what the user sees on the disk, `temp` what a zip was extracted into. `age` and `failAge` are the ages of a zip and of the last
failure, saturated where the code stops telling them apart. History variables (`taken`, `handled`, `rest`, `rebooting`, `raced`)
are read by properties only. Left out: the names of temporary directories, the log. `find_update_source()` is one step.

**StatusLed.** Each thread is somewhere in `update_status()`: between the fields of `g_status`, before the choice of the pattern, before the
mutex. A field holds the message that wrote it last, so a mixed snapshot is seen. Frequencies are left out; the heap corruption that
racing assignments of strings may cause is undefined and cannot be enumerated. The X21 LED controller and the search for LEDs in `/sys` are left out.

**Settings.** A config is a record of the fields some operation does more to than copy. A write is `Truncate` and `Close`;
a cut between leaves a file that loads without fields. The boot phases are called in main's order; the import is called
both by the first boot (nested) and by main, so the calls have a stack, `goto`. The camera setup thread loads the config at any later step.
`wanted` remembers what the user asked for last.
The signal handlers are installed only when the boot is over (`openhd_sys_utils.cpp:423`), so the reboot that the first-boot tasks ask for kills main between any two steps
of it (`Shutdown`), as a power cut does (`PowerCut`). `Exposed` names the steps at which that loses a wish: its file is gone and the config not yet written, or the config is truncated. `lost` remembers that it happened.

**Server.** A byte knows its client, line and position, so that properties can follow it through `wire`, `buffers` and `line` to `handled`.
Handlers are abstract: a line asks for an answer or does not. Not modelled: how the socket is made, the options, framing after an answer that `sendAll` gave up on half-way.
`handleClientData` reads until nothing is left without a look at the stop flag, so a client that never ceases to write holds the server for as long as it likes. The scripts of the runs are finite and have no such client;
`StopEnds` says so itself, by the premise `WritersCease`.

**Wifi.** `pc` walks through `refresh_wifi_info_impl`, `ensure_artosyn_runtime_running` and `restart_artosyn_runtime`; each wait with a
deadline may see what it waits for or time out. `daemons` and `tunnels` are processes outside: they come up when they like, hold the port or the interface
until they end, and a killed one that holds it lets go later. The process started from one binary stands for all started from it. `age` is the time since
`last_attempt` in seconds, up to the four of the throttle; a wait that runs out lets its seconds pass (`Elapse`), rounded down, and `TimePasses` adds any more. `watch` is a history that any one start of a daemon may be picked for: its clock and
the starts made the same way since. It is kept over attempts, because an attempt starts its second way seconds after it has set `last_attempt`. A write of an override file succeeds, fails, or is cut unnoticed.
The power that is shown is not the one in the file: `build_wifi_card` (`:1638`) puts the milliwatts that `wifi_cards.json` has for the level in the place of those that were set, and a FIXED profile (`:1356`) clears all that was set.
`Profiles` has one profile of each of these kinds, and each refresh may find another (`ShownTx`). Left out: the numbers, the bus number, the tunnel's address.

**Partition.** A disk is a sequence of partitions with start and size in units of half a GiB, a file system, a label and a content. Each command of
`resize_fat32_partition` is an action (`Begin`, `Format`, `Grow`, `Label`, `Type`, `Fstab`, `MountVideo`) that may fail, `mkfs` also half-way. `view` is what `lsblk`
gives of START: nothing on older systems, sectors on newer ones; the code takes it for bytes. `fstab` and `mounts` hold partitions, so that a mount of the wrong one is seen.
The functions that resize by UUID are called from nowhere and are left out, as is the list of recorded files.

**Camera.** A boot file is a sequence of kinds of lines. `Load`, `Backup`, `Install`, `Clear`, `Restore`, `Discard`, `Read`, `Open` and `Write` are the steps of one thread; each copy may
fail with nothing written or be cut short (`Copied`). Two threads have a stream each: `Open` truncates the file, and `Write` writes from the start of the file, over whatever the other one wrote meanwhile, so that of a longer text any tail may be left
(`Tails`). `raced` remembers that two setups overlapped, and the properties leave those out: the runs do reach a boot file with a camera next to `camera_auto_detect=1`. Only the first camera has a tuning in the model (`CameraAssumption`). `kProfiles` has one entry of each kind, and the four tuning directories are treated alike, so one stands for them.

**Video.** `call` is what main still has to do of an operation. The child's shell is its pipeline on a Raspberry Pi 5, where `sh -c` has a single command to
become; on older boards it is a shell with two children, which a signal leaves behind as `strays`. A disable that fails is noticed by nobody and is remembered in `spoiled`.

**LinkControl.** Requests are numbered; `inbox` and `answers` are what is on its way to and from OpenHD, which is external.

**Serial.** Names and the ports they stand for are kept apart, so that `serial0` and `ttyAMA0` are one port.

**Device.** `phase` is where main is; `MainAt` says that nothing of the former step is still under way. The boot follows `main` and `run_firstboot_tasks`. A `Reboot` is possible once anybody
asked for it; `PowerCut` also loses a config that is being written; `Restart` is systemd's, which ends the pipelines with the process and keeps mounts, services, `/dev` and `/run`.
Each unit has a user of one of its parts, and the actions that only this part takes notice of happen only there: parts meet in the hold file, in reboots, in the config and in main, and these are in all units.

## 3. Runs

| run | bounds | what it shows |
|---|---|---|
| `update_worker` | 1 zip inside 1 directory; a .deb, a binary and a file no stage handles; 3 changes by the user, 1 restart | type; applied only with flag, hold file and mask (`ApplyIsProtected`), and with OpenHD stopped unless the booting main thread raced (`QuietApply`); nothing left between runs but after the early returns and restarts (`NothingLeftBehind`); no reboot with the payload still there (`NoRebootLoop`); no file the run took on removed that was not worked through (`RemovesOnlyWhatItApplied`; a file that is copied into the directory during the run is removed unread, which no document excludes); the backoff (`NoRetryStorm`); `PromiseKept` |
| `update_worker_live` | 2 zips, 1 directory, cleanup may fail; 2 changes, 1 restart | `PayloadGetsRun`, `RequestGetsRun` |
| `status_led` | 3 threads, 7 messages, 3 updates | an update that meets no other is shown untorn (`SerialStatusIsShown`); whatever arrives meanwhile, a counted pattern is lit at most its count of times for one status, and the LEDs rest dark only after the full count for the status that was taken up last (`CountedPatternIsShownOut`); every pattern or a later one is taken up (`PatternIsTakenUp`) |
| `status_led_race` | 3 updates | **violation** of `LedFollowsStatus`, see findings |
| `settings` | 2 boards; 2 requests, 1 edited card, 1 cut, 1 I/O fault, 2 mishaps together; the device's own reboot at any step of a boot | what was asked is kept unless the process ends where `Exposed` says; caches, marker and config agree; the host name follows the role; an X20 is air; the device stops rebooting |
| `settings_own_reboot`, `settings_debug` | no mishap at all | **violations**, see findings |
| `server` | 2 clients with 2 lines, lines up to 5 bytes with `MaxLine` 2, pieces of 4 or 9 bytes, 1 early hang-up, 1 lost answer | lines arrive whole and on their own connection, trimmed lines reach into no other, answers in order and at most once, all that was written is handled, a signal ends the server once clients cease to write |
| `wifi` | a high-speed Artosyn card that comes and goes, 2 bridge binaries, refreshes and restarts | `RestartIsFresh`; within four seconds after any start of the daemon it is started the same way at most once more, over the attempts too (`StartsAreThrottled`) |
| `wifi_overrides` | two Wi-Fi cards, three override types, three changes of power, three kinds of profile | type; what was asked is shown, as far as the profile leaves the power to users (`AskedIsShown`); `NewCardIsFound` |
| `device` | 4 card layouts, 6 boards; 2 cuts or restarts, 2 resize or camera requests, 1 failing command (a copy, a read or an open of the camera setup counts as one), 2 camera threads, 2 link requests, 3 serial adapters | type; only unused partitions lose their content (`FormatsOnlyUnused`); `/Video` and `fstab` are recordings partitions (`VideoIsRecordings`); the hold while a partition is worked on (`HoldWhileFormatting`); `BootFileIsSound` and `StockTuningIsKept` over any sequence of cameras set up one after the other; `OneRenderer`, `OnePipeline`; `LinkAnswersAreTrue`; `RolesFollowPorts` |
| `device_start` | the layouts, with START in sectors; no cut, no fault | **violation** of `FormatsOnlyGrowable`, see findings |

Why the bounds are enough to be of interest: one restart or cut may fall between any two steps; three changes by the user allow a payload to be
copied, replaced during a run and copied again; two overlapping updates are what a race of the LED needs, and a third one lets a show be cut short and asked for again; a line of five bytes with
a `MaxLine` of two is longer than the buffer that is trimmed; two bridges are one that `pkill` finds and one it does not; two cuts or restarts let one fall into
a resize and the next into the boot that runs the first-boot tasks again; two camera requests make a sequence of three setups, and are what it takes for two threads to edit one file; the cameras are ones with and without an overlay, with a tuning, and of another kind of board; the layouts are a shipped card, one that was grown before with a stick of recordings, one
whose partitions are not named in the order of the disk, and a full one. The layouts have no gaps, which is where a missing START could be guessed right. For larger instances nothing is claimed by TLC;
the theorems of section 5 hold for any values of the constants that their assumptions admit.

Deadlock is checked for all but two models: `Server` ends after a signal, and in `Settings` nothing is left to happen when the requests
and mishaps are used up; their configurations say so.

### Findings

- `LedFollowsStatus` (`sysutil_led.cpp:551`): the pattern is chosen before the mutex is taken and the snapshot has no lock. Two threads that set the status
  together can leave the LEDs on the pattern of the older status, for good.
- `MarkersArePersisted` (`sysutil_settings.cpp:263`): the import removes each file as it reads it and writes the config at the end.
  A process that ends in between loses what the files asked for, and the device ends it itself: the first-boot tasks start a reboot, main goes on with the boot, and its signal handlers are not yet installed.
- `FormatsOnlyGrowable` (`sysutil_part.cpp:200`): `lsblk -b` gives sizes in bytes and START in sectors, and the code adds them up. The last FAT32 partition is formatted whenever the *rest of the disk* has
  1 GiB, while `misc/partitioning_current.md` promises 1 GiB free space *after it*. The run formats a full recordings partition at a first boot. Where `lsblk` gives no START, `FormatsOnlyUnused` holds.
- `DebugIsPersisted` (`sysutil_debug.cpp:121`): `"debug": false` in `settings.json` is undone later in the same boot by OpenHD's own marker.

`Wifi` also reaches states that no comment of the repository speaks about, listed under hazards: a restart within four seconds of a start stops the daemon, is
throttled and leaves the cards shown as running; a bridge started as `openhd_artosyn_tuntap` survives a restart; a restart
without an Artosyn card starts the daemon. `Video` reaches strays of a stopped pipeline on older Raspberry Pis, and a stop that is refused because the unit became an air unit meanwhile. `Device` reaches
an update run that removes the hold file of a resize on request, which `HoldWhileFormatting` allows for (`stolen`): at a first boot it cannot happen.

## 4. Fairness

- Update worker: weak fairness of the worker (it wakes at least every `kUpdatePollSeconds`), of the booting main thread and of the clock. Nothing is assumed of the user.
- LED thread and setting threads: weak fairness, as they are threads that never wait for one another but for a mutex held for a few assignments.
- Settings: weak fairness of main, of a reboot that was asked for and of the detached thread. Cuts and requests are never forced.
- Server: weak fairness of the loop only. `poll` has a timeout of 500 ms, so the stop flag is looked at after each round; a round ends when its clients have nothing left to read, which is why `StopEnds` supposes that
  they cease to write.
- Wifi: weak fairness of the work under way, since each wait has a deadline, and strong fairness of `Retry`: between two rounds of
  requests main looks at the clock, so requests do not keep the retry away for ever. Cards, daemons and bridges have no fairness.

## 5. Proofs

Every safety invariant and every safety action property that a passing run checks is also proved, for all values of the
constants. None of these properties is inductive, so each module has an invariant that adds what its steps rely on; there is a lemma for each
kind of step, and under it a step for each conjunct that the action can disturb.

What is assumed of the constants is named in the module that declares them, and TLC evaluates it on each run: `SourcesAssumption`,
`FilesAssumption`, `BoundsAssumption` (`UpdateWorker`), `MessagesAssumption`, `UpdatesAssumption` (`StatusLed`), `SettingsAssumption`, `AbsenceAssumption`
(`Settings`: `None` is no value of a field and no config), `ServerAssumption`, `WifiAssumption`, `UnitAssumption`, `PartitionAssumption` (partitions lie on their disk, do
not overlap, and only a FAT32 one is called recordings), `CameraAssumption` (a unit comes without an overlay, an `extlinux.conf` has only its own lines and append
lines, cameras are those of the catalogue), `SerialAssumption` (names are scanned once, an alias is a name of the scan and no port, the ports of a board and the adapters are scanned),
`LinkAssumption`, `DeviceAssumption`. Bounds of the model are any natural numbers.

**`UpdateWorkerProofs`** proves

- `TypeCorrect`: `Spec => []TypeOK`;
- `ApplyProtected`, `ApplyIsQuiet`, `RunsTidyUp`, `RebootsOnce`: the four safety invariants;
- `BackoffHolds`, `NoPayloadIsLost`: the two action properties;
- `WorkerKeepsPromise`: `Spec` implements `UpdatePromise` under the refinement mapping.

`IInv` adds to the types what each step relies on: `FlagInv` and `HoldInv` say at which steps the flag is set and the hold file
there, `MaskInv` where the services are masked, `StatusInv` which status an early return has published, `QuietInv` that only the main thread can have started a
service after the stop, `RestInv` that a failure is noted no earlier than it is published, `SourceInv` that a run has a source of
the kind its step handles, `TakenInv` that the files taken on are where the stages look and that a stage passed with `ok` has worked through its own, `SweepInv` that the cleanup still has to remove
whatever is left of them. `Invariance` puts them together. The
refinement maps the worker's steps to `Start`, `TakeCustody`, `Work`, `Commit`, `Discard`, `Complete`, `GiveUp`, `Restart`, the user's to `Owner`, and all others to stutters.

**`StatusLedProofs`** proves `TypeCorrect`, `SerialStatusShown` (`[]SerialStatusIsShown`) and `CountedShownOut` (`[]CountedPatternIsShownOut`), for any number of threads, messages and updates. `CountInv`: the updates
that were begun are the ids given plus the threads under way, so an id never comes twice and no id the LED thread has taken up is ever given to another status. `ShowInv`: the shows made and those that remain, less the one under way, add up to the count, and a counted pattern is
left with all lights off. That a status may be superseded before its pattern was shown, or in the middle of it, is what the code does; of such a status the property says only that it is not shown too often. `SerialInv`: while no two updates overlapped, at most one thread is busy and it has left its mark in each field it has passed (`Progress`); the property alone says nothing of an update half-way.

**`SettingsProofs`** proves `TypeCorrect`, `AskedStaysKept` (`[]AskedIsKept`), `CachesStayTrue` (`[]CachesAgree`), `HostnameIsRole` (`[]HostnameFollowsRole`) and `X20StaysAir` (`[]X20IsAir`). All of these speak of
a unit that serves, and a config that is being written is empty for a while; the invariant therefore speaks of the step that main is on its way to (`Target`) and of the config that the file will have by then (`Coming`). `BoardInv` and
`GateInv` keep a config with an open first-boot gate from naming a platform other than the board's, without which the first-boot tasks would change it under the cache. `KeptInv` says for each step of the import which of the user's wishes are
in the config, in the file or in the request under way, and `OnDisk` that outside of `Exposed` the file alone has all of them, which is what a process that ends there leaves to the next boot.
Without a premise on the ends of the process `AskedIsKept` is false, as the run `settings_own_reboot` shows; its premise is that none fell into `Exposed`.

**`WifiProofs`** proves `TypeCorrect`, `RestartsFresh` (`[]RestartIsFresh`), `StartsThrottled` (`[]StartsAreThrottled`) and `AskedShown` (`[]AskedIsShown`). `SinceInv` relates the start that is watched to `last_attempt`: once the daemon was started again, the watched start is no younger.
`ThrottleInv` adds that while the watched way is still ahead in the list of ways, its start was in an earlier attempt, so that a third start would need an attempt within the throttle;
`RestartInv` says at each step after a kill which processes from before the restart are dead; `FreshInv` says that only a refused change leaves the snapshot behind the files, and that a refresh makes up for it.

**`ServerProofs`** proves `TypeCorrect`, `LinesWhole` (`[]LinesArriveWhole`) and `AnswersOrdered` (`[]AnswersInOrder`), for any clients, lines, sizes of pieces and limits. A client's bytes are one stream whose lines end at known places
(`Ends`); `WireInv` and `BufferInv` say that the stream falls at any time into the lines handled, what the trimming dropped of a line that is too long, the buffer, the socket and what is unsent. That a trimmed buffer holds no line end, which is
what keeps trimming within one line, is part of the invariant, as is that each descriptor belongs to one client (`ConnInv`). What `Bytes` makes of a script is proved along its recursion.

**`PartsProofs`** proves `CameraTypes`, `TuningIsKept` (`[]StockTuningIsKept`), `BootFileStaysSound` (`[]BootFileIsSound`), `SerialStaysInv` and `RolesDoFollowPorts` (`[]RolesFollowPorts`). First come facts on the folds that
the code's loops over lines and names are modelled by (`OfKindsIn`, `OfKindsTwice`, `MarkerSplits`, `FoundPrefixes`, `MaxIsIn`), each by induction over prefixes. `TuningInv` gives for each step of a thread where the stock tuning is, and `OneApplies` that
without `raced` one thread applies at a time, `DetectionInv` that the file it writes to is then still empty, so that nothing is left behind its text (`WritesAll`), and that no file has a camera together with the firmware's detection. `FileInv` relates what a thread has read and what is in the file to the original file: its owner's lines are those of the original at every step but that between the truncation and the
writing. For the links, the discovery yields every port that is there under exactly one name, in the order of preference, and so the roles follow.

**`DeviceProofs`** proves of `Device`

- `HoldIsKept`: `Spec => []HoldWhileFormatting`. `HoldInv` adds that a first-boot resize is under way only while main is in `resize`, and that up to there the update worker, which would remove the file, is off;
- `LinkIsTrue`: `Spec => []LinkAnswersAreTrue`. `LinkInv` adds that all requests but the awaited one, the last, have been answered; that a request OpenHD has yet to take is neither applied nor answered,
  in its queue only once, and overdue if main no longer awaits it; and that an answer on its way says what became of the request it is for;
- `RendererIsOne` and `PipelineIsOne`: `Spec => []OneRenderer` and `Spec => []OnePipeline`. `VideoInv` adds that also the *enabled* services are not both renderers (a boot starts them), that from the second half of a start on the other
  renderer is neither active nor enabled unless the marker changed or a disable failed, and that a pipeline is forked on a Raspberry Pi 5 only when the last one is reaped;
- `RecordingsAreMounted`: `Tight => (Spec => []VideoIsRecordings)`. The danger is a partition that is listed in `fstab` and formatted once more: between the two commands it has no label, and a cut there leaves an entry that stops the boot.
  `RecordingsInv` adds that every partition in `fstab` has been grown to the end of its disk, and that the one under work is entered only when it has been grown and labelled; `GrownIsDone` shows that such a partition is no candidate again. That needs the
  code to know where partitions are: where `lsblk` gives START right, from START; where it gives none, because in the order of the disk the sizes before a partition on a disk without gaps add up to its start (`NoGaps`). `Tight` says just that of the
  layouts. It is not an assumption about every unit: with START in sectors the same formatting does happen, see `FormatsOnlyGrowable`. The layouts of the runs have no gaps (`CardsHaveNoGaps`);
- `OnlyUnusedIsFormatted`: `Views \subseteq {"none"} => (Spec => FormatsOnlyUnused)`, for any layouts, with gaps too. `JobInv` says that a partition under work is unmounted and, from the first `mkfs` to the label, empty; `UnusedInv` that before the first `mkfs` it is not `ext4` and its disk has 1 GiB which no
  partition covers, which `FreeByName` gets from the code's sums in the order of names: whatever order the partitions have on the disk, the last in that order has all the others before it;
- `DeviceTypes`: `Spec => []TypeOK`, from the types that the invariants above have and the rest (`ConfigOK`, `MainOK`, `LinkBounds`, `VideoTypesStep`).

The sums over sets of partitions (`SumsExist`, `SumsAgree`), the folds and the recursive `Bytes` need induction, which the library offers only for operators as parameters. `InductionFacts` states it for sets, `LeastNatural` and `SetInduction`, from the well-foundedness of `<`;
the set of the numbers for which the fact holds takes the place of the operator.

Only model-checked: the liveness properties `PayloadGetsRun`, `RequestGetsRun` (update worker), `PatternIsTakenUp` (LEDs), `BootSettles` (settings), `WrittenIsHandled`, `StopEnds` (server) and `NewCardIsFound` (Wi-Fi), as fairness and ENABLED are out of the
prover's reach; and the properties that are violated.

## 6. Not modelled

- The protocol's string search and the JSON texts, the text of scripts and unit files, the tables of platforms: the models take fields as read and tables as one entry of each kind.
- `tools/gen_platforms.cpp`, which makes a header at build time, packaging, and the former scripts.
- The status messages of resize, camera and video (the status itself is in `StatusLed`), the list of recorded files, the getty of tty1, systems without `systemctl`.
- The resize by UUID, which nothing calls.
- A `blkid` or `lsblk` that fails: a partition of which neither tells the file system counts as unformatted (`sysutil_part.cpp:208`, `654`), so `FormatsOnlyUnused` supposes that they tell the truth.
- A role link or a removal that fails in `sysutil_serial.cpp` (164, 191), as the daemon is root; an answer that `sendAll` sent in part, which counts as not sent.
- A tuning for the second camera (`sysutil_camera.cpp:229`), for which the four steps would run once more.
- Undefined behaviour with no enumerable outcome (racing strings, overflow of a number in a request).
- The options `-c` and `-p`, which are other processes.

What `Device` assumes of the world around it: `mkfs` refuses a mounted partition and `parted` one that another follows; an `fstab` entry that cannot be mounted stops the boot (`After=local-fs.target`, no `nofail`);
systemd ends all processes of the service at a restart (no `KillMode` in the unit); `sh -c` with a single command becomes that command.

## 7. Plan

Done, in order of importance: `UpdateWorker` with its promise and proofs, `StatusLed`, `Settings`, `Server`, `Wifi`, and `Device` with its parts.

The safety properties of all of them are proved.

Next:

1. An abstract channel for `Server` (a FIFO of lines per client) and an abstract account of a resize (a disk whose partition is either as it was or a recordings partition), with the detailed modules shown to implement them.
2. `Settings` and `Device` share the config and the gate of the first boot; a common module for the config would let one instance have both.
3. The status messages of resize, camera and video, to relate what a client is shown with what was done.
