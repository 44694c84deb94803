---------------------------- MODULE UpdateWorker ----------------------------
(***************************************************************************)
(* The update worker of openhd_sys_utils (src/src/sysutil_update.cpp): a   *)
(* detached thread that polls a list of places for an update payload, and  *)
(* a main thread that posts requests to it and, while booting, starts the  *)
(* OpenHD services the worker stops.                                       *)
(*                                                                         *)
(* One action is one step another thread, the user, the clock, a restart   *)
(* of the daemon or a reboot can come between.  Waking up is allowed at    *)
(* any time: the condition variable times out every kUpdatePollSeconds, is *)
(* notified by a request, and may wake spuriously.                         *)
(***************************************************************************)
EXTENDS Integers, FiniteSets

CONSTANTS
  NumZips,          \* how many places hold an update.zip
  NumDirs,          \* how many places are update directories
  Home,             \* the directory a zip lies in, or NoSource
  Files,            \* the files a payload is made of
  Kind,             \* what a file is to the worker
  StableSeconds,    \* kStableSeconds, in ticks of the clock
  BackoffSeconds,   \* kFailureBackoffSeconds, in ticks of the clock
  HasSystemctl,     \* command_exists("systemctl")
  CleanupCanFail,   \* TRUE: the update directory may be unwritable
  MaxArrivals,      \* bound: times the user touches a source
  MaxRestarts       \* bound: daemon restarts and reboots

(***************************************************************************)
(* Sources are numbered in the order find_update_source() tries them: all  *)
(* the zips first, then the directories.                                   *)
(***************************************************************************)
NoSource == 0
Zips     == 1 .. NumZips
Dirs     == (NumZips + 1) .. (NumZips + NumDirs)
Sources  == Zips \cup Dirs

(***************************************************************************)
(* "other" is a file that makes a directory a payload but that no stage    *)
(* applies (an empty binaries/, a .bin whose name is not known); "ignored" *)
(* is a file that does not even make a payload (stm_ports.json).           *)
(***************************************************************************)
Stages == {"apt", "deb", "bin", "stm"}
Kinds  == Stages \cup {"other", "ignored"}

ASSUME SourcesAssumption ==
  /\ NumZips \in Nat
  /\ NumDirs \in Nat
  /\ Home \in [Zips -> Dirs \cup {NoSource}]

ASSUME FilesAssumption ==
  /\ Kind \in [Files -> Kinds]
  /\ Files \cap Sources = {}

ASSUME BoundsAssumption ==
  /\ StableSeconds \in Nat
  /\ BackoffSeconds \in Nat \ {0}
  /\ HasSystemctl \in BOOLEAN
  /\ CleanupCanFail \in BOOLEAN
  /\ MaxArrivals \in Nat
  /\ MaxRestarts \in Nat

VARIABLES
  mpc,           \* where the main thread is: still booting, or serving
  wpc,           \* where the update worker is
  requested,     \* g_update_requested
  claimed,       \* the local `requested` of update_worker()
  updating,      \* g_updating
  failAge,       \* time since g_last_failure; BackoffSeconds: long ago, or never
  hold,          \* /run/openhd/hold.pid exists
  running,       \* an OpenHD service runs
  masked,        \* the OpenHD services are masked
  content,       \* the files in each source; a zip exists iff not empty
  age,           \* time since the last modification of each zip
  source,        \* the UpdateSource of the run
  temp,          \* the content of the run's extraction directory
  ok,            \* the `ok` of apply_update_payload()
  changed,       \* its `changed`, later reboot_required
  togo,          \* directory entries the cleanup still has to remove
  lastStatus,    \* the last step the worker published with set_status()
  arrivals,      \* how often the user touched a source
  restarts,      \* how often the daemon restarted or the machine rebooted
  (*************************************************************************)
  (* History variables: no action's guard reads them.                      *)
  (*************************************************************************)
  taken,         \* files the run took on and the user left alone since
  handled,       \* files a stage of this run worked through
  rest,          \* time since a failure was published; as failAge
  rebooting,     \* the worker gave the reboot command
  raced          \* the main thread started services in the middle of a run

userVars    == <<content, age, taken, arrivals>>
runVars     == <<source, temp, handled, ok, changed>>
serviceVars == <<running, masked>>
requestVars == <<requested, claimed>>
failVars    == <<failAge, rest>>
historyVars == <<restarts, rebooting, raced>>
worldVars   == <<mpc, requestVars, failVars, userVars, togo, historyVars>>

vars == <<worldVars, wpc, updating, hold, serviceVars, runVars, lastStatus>>

Idle     == {"wait", "poll"}
Applying == {"apt", "deb", "bin", "stm", "decide", "cleanup", "sweep"}
Leaving  == {"leaveFlag", "leaveHold", "leaveMark"}
Control  ==
  {"wait", "poll", "begin", "hold", "stop", "mask", "choose", "extract",
   "leaveFlag", "leaveHold", "leaveMark", "apt", "deb", "bin", "stm", "decide",
   "cleanup", "sweep", "unmask", "reboot", "unmaskAgain", "unhold", "unflag"}

Statuses == {"started", "preparing", "noUpdate", "extractFailed", "applying",
             "applyFailed", "complete", "reboot"}

FlagsTyped ==
  /\ requested \in BOOLEAN /\ claimed \in BOOLEAN /\ updating \in BOOLEAN
  /\ hold \in BOOLEAN /\ running \in BOOLEAN /\ masked \in BOOLEAN
  /\ ok \in BOOLEAN /\ changed \in BOOLEAN
  /\ rebooting \in BOOLEAN /\ raced \in BOOLEAN

DataTyped ==
  /\ mpc \in {"boot", "serve"}
  /\ wpc \in Control
  /\ failAge \in 0 .. BackoffSeconds /\ rest \in 0 .. BackoffSeconds
  /\ content \in [Sources -> SUBSET Files]
  /\ age \in [Zips -> 0 .. StableSeconds]
  /\ source \in Sources \cup {NoSource}
  /\ temp \in SUBSET Files
  /\ togo \in SUBSET (Files \cup Zips)
  /\ lastStatus \in Statuses
  /\ arrivals \in 0 .. MaxArrivals /\ restarts \in 0 .. MaxRestarts
  /\ taken \in SUBSET Files /\ handled \in SUBSET Files

TypeOK == FlagsTyped /\ DataTyped

Init ==
  /\ mpc = "boot" /\ wpc = "wait"
  /\ requested = FALSE /\ claimed = FALSE /\ updating = FALSE
  /\ failAge = BackoffSeconds /\ rest = BackoffSeconds
  /\ hold = FALSE /\ running = FALSE /\ masked = FALSE
  /\ content = [s \in Sources |-> {}]
  /\ age = [z \in Zips |-> StableSeconds]
  /\ source = NoSource /\ temp = {}
  /\ ok = TRUE /\ changed = FALSE /\ togo = {}
  /\ lastStatus = "started"
  /\ arrivals = 0 /\ restarts = 0
  /\ taken = {} /\ handled = {}
  /\ rebooting = FALSE /\ raced = FALSE

Goto(from, to) == wpc = from /\ wpc' = to

-----------------------------------------------------------------------------
(***************************************************************************)
(* Finding a payload.                                                      *)
(***************************************************************************)

\* A zip counts once nobody has written to it for StableSeconds, a directory
\* as soon as it holds anything that looks like a payload.
Candidate(s) ==
  IF s \in Zips THEN content[s] # {} /\ age[s] >= StableSeconds
                ELSE \E f \in content[s] : Kind[f] # "ignored"

\* What find_update_source() returns: the first candidate.
IsFound(s) ==
  \/ /\ s \in Sources
     /\ Candidate(s)
     /\ \A t \in Sources : Candidate(t) => s <= t
  \/ /\ s = NoSource
     /\ \A t \in Sources : ~Candidate(t)

-----------------------------------------------------------------------------
(***************************************************************************)
(* The worker's loop, update_worker().                                     *)
(***************************************************************************)

\* wait_for() returned; the request flag is taken and cleared.
Wake ==
  /\ Goto("wait", "poll")
  /\ ~updating
  /\ claimed' = requested
  /\ requested' = FALSE
  /\ UNCHANGED <<mpc, updating, failVars, hold, serviceVars, userVars, runVars,
                 togo, lastStatus, historyVars>>

BackedOff == failAge >= BackoffSeconds

\* Slip: the worker looks for a payload only when it was asked to.
PollOnRequest ==
  /\ wpc = "poll"
  /\ wpc' = IF claimed /\ BackedOff THEN "begin" ELSE "wait"
  /\ claimed' = FALSE
  /\ UNCHANGED <<mpc, requested, updating, failVars, hold, serviceVars,
                 userVars, runVars, togo, lastStatus, historyVars>>

\* A run starts for a request or a payload, unless the last failure is recent.
Poll ==
  /\ wpc = "poll"
  /\ \E s \in Sources \cup {NoSource} :
       /\ IsFound(s)
       /\ wpc' = IF (claimed \/ s # NoSource) /\ BackedOff THEN "begin" ELSE "wait"
  /\ claimed' = FALSE
  /\ UNCHANGED <<mpc, requested, updating, failVars, hold, serviceVars,
                 userVars, runVars, togo, lastStatus, historyVars>>

-----------------------------------------------------------------------------
(***************************************************************************)
(* One run, run_update().                                                  *)
(***************************************************************************)

Begin ==
  /\ Goto("begin", "hold")
  /\ updating' = TRUE
  /\ lastStatus' = "preparing"
  /\ raced' = FALSE
  /\ UNCHANGED <<mpc, requestVars, failVars, hold, serviceVars, userVars,
                 runVars, togo, restarts, rebooting>>

EnsureHoldFile ==
  /\ Goto("hold", "stop")
  /\ hold' = TRUE
  /\ UNCHANGED <<worldVars, updating, serviceVars, runVars, lastStatus>>

\* Slip: masked services are taken to be stopped.
StopUnlessMasked ==
  /\ Goto("stop", "mask")
  /\ running' = (running /\ (masked \/ ~HasSystemctl))
  /\ UNCHANGED <<worldVars, updating, hold, masked, runVars, lastStatus>>

StopServices ==
  /\ Goto("stop", "mask")
  /\ running' = (running /\ ~HasSystemctl)
  /\ UNCHANGED <<worldVars, updating, hold, masked, runVars, lastStatus>>

\* Slip: the services are masked only when a request asked for the run.
MaskForRequest ==
  /\ Goto("mask", "choose")
  /\ masked' = (masked \/ (HasSystemctl /\ requested))
  /\ UNCHANGED <<worldVars, updating, hold, running, runVars, lastStatus>>

\* systemctl mask keeps a unit from being started and leaves a running one alone.
MaskServices ==
  /\ Goto("mask", "choose")
  /\ masked' = (masked \/ HasSystemctl)
  /\ UNCHANGED <<worldVars, updating, hold, running, runVars, lastStatus>>

\* The source is looked up again: what Poll saw may be gone.
ChooseNone ==
  /\ Goto("choose", "leaveFlag")
  /\ IsFound(NoSource)
  /\ lastStatus' = "noUpdate"
  /\ UNCHANGED <<worldVars, updating, hold, serviceVars, runVars>>

ChooseZip ==
  /\ Goto("choose", "extract")
  /\ \E z \in Zips : IsFound(z) /\ source' = z
  /\ UNCHANGED <<worldVars, updating, hold, serviceVars, temp, handled, ok,
                 changed, lastStatus>>

\* apply_update_payload() begins on `files`.
TakeOn(files) ==
  /\ taken' = files
  /\ handled' = {}
  /\ ok' = TRUE
  /\ changed' = FALSE
  /\ lastStatus' = "applying"

ChooseDir ==
  /\ Goto("choose", "apt")
  /\ \E d \in Dirs : IsFound(d) /\ source' = d /\ TakeOn(content[d])
  /\ temp' = {}
  /\ UNCHANGED <<mpc, requestVars, updating, failVars, hold, serviceVars,
                 content, age, arrivals, togo, historyVars>>

ExtractZip ==
  /\ Goto("extract", "apt")
  /\ content[source] # {}
  /\ temp' = content[source]
  /\ TakeOn(content[source])
  /\ UNCHANGED <<mpc, requestVars, updating, failVars, hold, serviceVars,
                 content, age, arrivals, source, togo, historyVars>>

\* unzip is missing or fails: the zip is gone, truncated or being rewritten.
ExtractFails ==
  /\ Goto("extract", "leaveFlag")
  /\ lastStatus' = "extractFailed"
  /\ rest' = 0
  /\ UNCHANGED <<mpc, requestVars, updating, failAge, hold, serviceVars,
                 userVars, runVars, togo, historyVars>>

\* The two early returns of run_update(): they clear the flag first, then the
\* hold file, then, when the extraction failed, note the failure.
LeaveFlag ==
  /\ Goto("leaveFlag", "leaveHold")
  /\ updating' = FALSE
  /\ UNCHANGED <<worldVars, hold, serviceVars, runVars, lastStatus>>

LeaveHold ==
  /\ wpc = "leaveHold"
  /\ wpc' = IF lastStatus = "extractFailed" THEN "leaveMark" ELSE "wait"
  /\ hold' = FALSE
  /\ UNCHANGED <<worldVars, updating, serviceVars, runVars, lastStatus>>

\* Slip: this early return does not note the failure.
LeaveMarkForgets ==
  /\ Goto("leaveMark", "wait")
  /\ UNCHANGED <<worldVars, updating, hold, serviceVars, runVars, lastStatus>>

LeaveMark ==
  /\ Goto("leaveMark", "wait")
  /\ failAge' = 0
  /\ UNCHANGED <<mpc, requestVars, updating, rest, hold, serviceVars, userVars,
                 runVars, togo, lastStatus, historyVars>>

-----------------------------------------------------------------------------
(***************************************************************************)
(* Applying the payload, apply_update_payload(): packages from apt, .deb   *)
(* files, binaries and STM firmware, each stage on whatever its files are  *)
(* when it starts.  A stage works through its files and gives up at the    *)
(* first that fails; the next stage runs all the same.                     *)
(***************************************************************************)
NextStage == [apt |-> "deb", deb |-> "bin", bin |-> "stm", stm |-> "decide"]

BaseFiles == IF source \in Zips THEN temp ELSE content[source]

FilesOf(stage) == {f \in BaseFiles : Kind[f] = stage}

\* apt and deb count as a change when the whole stage went through, binaries
\* and firmware with the first file.
StageChanged(stage, done) ==
  IF stage \in {"apt", "deb"} THEN done # {} /\ done = FilesOf(stage)
                              ELSE done # {}

\* Slip: a stage that goes through hides the failure of an earlier one.
StageOkOfLast(stage, done) == done = FilesOf(stage)

StageOk(stage, done) == ok /\ done = FilesOf(stage)

ApplyStage(stage) ==
  /\ Goto(stage, NextStage[stage])
  /\ \E done \in SUBSET FilesOf(stage) :
       /\ handled' = handled \cup done
       /\ ok' = StageOk(stage, done)
       /\ changed' = (changed \/ StageChanged(stage, done))
  /\ UNCHANGED <<worldVars, updating, hold, serviceVars, source, temp,
                 lastStatus>>

Succeed ==
  /\ Goto("decide", "cleanup")
  /\ ok
  /\ lastStatus' = "complete"
  /\ UNCHANGED <<worldVars, updating, hold, serviceVars, runVars>>

\* Slip: a failed run is cleaned up after like any other.
FailCleansUp ==
  /\ Goto("decide", "cleanup")
  /\ ~ok
  /\ lastStatus' = "applyFailed"
  /\ failAge' = 0
  /\ rest' = 0
  /\ UNCHANGED <<mpc, requestVars, updating, hold, serviceVars, userVars,
                 runVars, togo, historyVars>>

\* A failed run keeps its source, and its failure delays the next one.
Fail ==
  /\ Goto("decide", "unmaskAgain")
  /\ ~ok
  /\ lastStatus' = "applyFailed"
  /\ failAge' = 0
  /\ rest' = 0
  /\ UNCHANGED <<mpc, requestVars, updating, hold, serviceVars, userVars,
                 runVars, togo, historyVars>>

-----------------------------------------------------------------------------
(***************************************************************************)
(* cleanup_update_source(): an applied zip is removed; of an applied       *)
(* directory every entry is, whatever it is, an update.zip included.       *)
(***************************************************************************)
Entries(d) == content[d] \cup {z \in Zips : Home[z] = d /\ content[z] # {}}

RemovalOutcomes == IF CleanupCanFail THEN BOOLEAN ELSE {TRUE}

CleanupZip ==
  /\ Goto("cleanup", "unmask")
  /\ source \in Zips
  /\ \E removed \in RemovalOutcomes :
       content' = [content EXCEPT ![source] = IF removed THEN {} ELSE @]
  /\ temp' = {}
  /\ UNCHANGED <<mpc, requestVars, updating, failVars, hold, serviceVars, age,
                 taken, arrivals, source, handled, ok, changed, togo,
                 lastStatus, historyVars>>

\* Slip: only the files a stage worked through are removed.
CleanupHandled ==
  /\ Goto("cleanup", "sweep")
  /\ source \in Dirs
  /\ togo' = handled \cap content[source]
  /\ UNCHANGED <<mpc, requestVars, updating, failVars, hold, serviceVars,
                 userVars, runVars, lastStatus, historyVars>>

CleanupDir ==
  /\ Goto("cleanup", "sweep")
  /\ source \in Dirs
  /\ togo' = Entries(source)
  /\ UNCHANGED <<mpc, requestVars, updating, failVars, hold, serviceVars,
                 userVars, runVars, lastStatus, historyVars>>

\* remove_all() of one entry.  A failure sets the error code that ends the loop.
Sweep ==
  /\ wpc = "sweep"
  /\ \E e \in togo, removed \in RemovalOutcomes :
       /\ content' = IF ~removed THEN content
                     ELSE IF e \in Zips THEN [content EXCEPT ![e] = {}]
                     ELSE [content EXCEPT ![source] = @ \ {e}]
       /\ togo' = IF removed THEN togo \ {e} ELSE {}
  /\ UNCHANGED <<mpc, wpc, requestVars, updating, failVars, hold, serviceVars,
                 age, taken, arrivals, runVars, lastStatus, historyVars>>

SweepDone ==
  /\ Goto("sweep", "unmask")
  /\ togo = {}
  /\ UNCHANGED <<worldVars, updating, hold, serviceVars, runVars, lastStatus>>

UnmaskAfterSuccess ==
  /\ wpc = "unmask"
  /\ wpc' = IF changed THEN "reboot" ELSE "unmaskAgain"
  /\ masked' = (masked /\ ~HasSystemctl)
  /\ UNCHANGED <<worldVars, updating, hold, running, runVars, lastStatus>>

\* The reboot command returns; the machine goes down some time later.
RebootAfterUpdate ==
  /\ Goto("reboot", "unmaskAgain")
  /\ lastStatus' = "reboot"
  /\ rebooting' = TRUE
  /\ UNCHANGED <<mpc, requestVars, updating, failVars, hold, serviceVars,
                 userVars, runVars, togo, restarts, raced>>

\* Slip: a run that failed is not followed by an unmask.
UnmaskSkipped ==
  /\ Goto("unmaskAgain", "unhold")
  /\ UNCHANGED <<worldVars, updating, hold, serviceVars, runVars, lastStatus>>

UnmaskServices ==
  /\ Goto("unmaskAgain", "unhold")
  /\ masked' = (masked /\ ~HasSystemctl)
  /\ UNCHANGED <<worldVars, updating, hold, running, runVars, lastStatus>>

RemoveHoldFile ==
  /\ Goto("unhold", "unflag")
  /\ hold' = FALSE
  /\ UNCHANGED <<worldVars, updating, serviceVars, runVars, lastStatus>>

\* Slip: the end of a run also clears the request.
EndRunAnswersRequest ==
  /\ Goto("unflag", "wait")
  /\ updating' = FALSE
  /\ requested' = FALSE
  /\ UNCHANGED <<mpc, claimed, failVars, hold, serviceVars, userVars, runVars,
                 togo, lastStatus, historyVars>>

EndRun ==
  /\ Goto("unflag", "wait")
  /\ updating' = FALSE
  /\ UNCHANGED <<worldVars, hold, serviceVars, runVars, lastStatus>>

-----------------------------------------------------------------------------
(***************************************************************************)
(* The main thread.                                                        *)
(***************************************************************************)

\* start_openhd_services_if_needed(), after init_update_worker(): it starts
\* the services, or fails to, or stops them when the config disables them.
StartServices ==
  /\ mpc = "boot"
  /\ mpc' = "serve"
  /\ \E up \in BOOLEAN :
       /\ running' = up
       /\ up => running \/ (HasSystemctl /\ ~masked)
       /\ HasSystemctl \/ up = running
       /\ raced' = (raced \/ (up /\ wpc \notin Idle))
  /\ UNCHANGED <<wpc, requestVars, updating, failVars, hold, masked, userVars,
                 runVars, togo, lastStatus, restarts, rebooting>>

\* handle_update_request(): accepted whatever the worker is doing.
HandleUpdateRequest ==
  /\ mpc = "serve"
  /\ requested' = TRUE
  /\ UNCHANGED <<mpc, wpc, claimed, updating, failVars, hold, serviceVars,
                 userVars, runVars, togo, lastStatus, historyVars>>

-----------------------------------------------------------------------------
(***************************************************************************)
(* The user, who copies payloads onto the boot partition at any time; the  *)
(* clock; restarts of the daemon (systemd's Restart=always) and reboots.   *)
(***************************************************************************)

\* The user's change of `files` in s: the run no longer has these copies.
Touch(s, files) ==
  /\ arrivals < MaxArrivals
  /\ arrivals' = arrivals + 1
  /\ taken' = IF s = source THEN taken \ files ELSE taken
  /\ UNCHANGED <<mpc, wpc, requestVars, updating, failVars, hold, serviceVars,
                 runVars, togo, lastStatus, historyVars>>

\* An update.zip is written, or written on, or deleted.
WriteZip(z, files) ==
  /\ Touch(z, Files)
  /\ content' = [content EXCEPT ![z] = files]
  /\ age' = [age EXCEPT ![z] = 0]

CopyFile(d, f) ==
  /\ Touch(d, {f})
  /\ content' = [content EXCEPT ![d] = @ \cup {f}]
  /\ UNCHANGED age

DeleteFile(d, f) ==
  /\ f \in content[d]
  /\ Touch(d, {f})
  /\ content' = [content EXCEPT ![d] = @ \ {f}]
  /\ UNCHANGED age

\* Slip: an age is counted past its limit.
OlderPast(t, limit) == IF t <= limit THEN t + 1 ELSE t

Older(t, limit) == IF t < limit THEN t + 1 ELSE t

Tick ==
  /\ \/ failAge < BackoffSeconds
     \/ rest < BackoffSeconds
     \/ \E z \in Zips : age[z] < StableSeconds
  /\ failAge' = Older(failAge, BackoffSeconds)
  /\ rest' = Older(rest, BackoffSeconds)
  /\ age' = [z \in Zips |-> Older(age[z], StableSeconds)]
  /\ UNCHANGED <<mpc, wpc, requestVars, updating, hold, serviceVars, content,
                 taken, arrivals, runVars, togo, lastStatus, historyVars>>

\* The process is gone and started again: its memory is as at first.
ForgetMemory ==
  /\ restarts < MaxRestarts
  /\ restarts' = restarts + 1
  /\ mpc' = "boot" /\ wpc' = "wait"
  /\ requested' = FALSE /\ claimed' = FALSE /\ updating' = FALSE
  /\ failAge' = BackoffSeconds /\ rest' = BackoffSeconds
  /\ source' = NoSource /\ temp' = {}
  /\ ok' = TRUE /\ changed' = FALSE /\ togo' = {}
  /\ lastStatus' = "started"
  /\ taken' = {} /\ handled' = {} /\ raced' = FALSE
  /\ UNCHANGED <<masked, content, age, arrivals>>

\* hold.pid is in /run, the masks in /etc: both outlive the process.
DaemonRestart ==
  /\ ForgetMemory
  /\ UNCHANGED <<hold, running, rebooting>>

\* /run is empty after a reboot, and no service runs yet.
Reboot ==
  /\ ForgetMemory
  /\ hold' = FALSE
  /\ running' = FALSE
  /\ rebooting' = FALSE

-----------------------------------------------------------------------------
WorkerStep ==
  \/ Wake \/ Poll \/ Begin \/ EnsureHoldFile \/ StopServices \/ MaskServices
  \/ ChooseNone \/ ChooseZip \/ ChooseDir \/ ExtractZip \/ ExtractFails
  \/ LeaveFlag \/ LeaveHold \/ LeaveMark
  \/ \E stage \in Stages : ApplyStage(stage)
  \/ Succeed \/ Fail \/ CleanupZip \/ CleanupDir \/ Sweep \/ SweepDone
  \/ UnmaskAfterSuccess \/ RebootAfterUpdate \/ UnmaskServices
  \/ RemoveHoldFile \/ EndRun

MainStep == StartServices \/ HandleUpdateRequest

UserStep ==
  \/ \E z \in Zips, files \in SUBSET Files : WriteZip(z, files)
  \/ \E d \in Dirs, f \in Files : CopyFile(d, f) \/ DeleteFile(d, f)

Next == WorkerStep \/ MainStep \/ UserStep \/ Tick \/ DaemonRestart \/ Reboot

Spec == Init /\ [][Next]_vars

\* The worker's shell commands end, the main thread boots, time passes.  Users
\* need not copy anything, ask for anything or restart anything.
Fairness == WF_vars(WorkerStep) /\ WF_vars(StartServices) /\ WF_vars(Tick)

FairSpec == Spec /\ Fairness

-----------------------------------------------------------------------------
(***************************************************************************)
(* Safety.                                                                 *)
(***************************************************************************)

\* While a payload is applied and cleaned up the update is flagged, the hold
\* file is there and no OpenHD service can be started, whatever restarts,
\* requests and copies came before.
ApplyIsProtected ==
  wpc \in Applying => updating /\ hold /\ (HasSystemctl => masked)

\* Packages and binaries are replaced under a running OpenHD only when the
\* main thread, booting, started it between the worker's stop and its mask.
QuietApply ==
  (wpc \in Applying /\ HasSystemctl /\ running) => raced

\* Between runs nothing of a run is left, except that the two early returns
\* of run_update() leave the services masked, and a restart that interrupts
\* a run leaves its masks and its hold file.
NothingLeftBehind ==
  wpc \in Idle =>
    /\ ~updating
    /\ hold => lastStatus = "started"
    /\ masked => lastStatus \in {"started", "noUpdate", "extractFailed"}

\* What a run took on and applied is gone when the reboot it asks for comes:
\* the machine does not reboot again and again for one payload.
NoRebootLoop ==
  (wpc \in {"unmask", "reboot"} /\ ~CleanupCanFail) => taken \cap content[source] = {}

\* A source changes under the worker's hands only in the cleanup of a run in
\* which every stage succeeded, and a file the run took on only after a stage
\* worked through it: a failed, interrupted or empty run loses no payload.
RemovalIsEarned ==
  \A s \in Sources :
    (content'[s] # content[s] /\ arrivals' = arrivals) =>
      /\ ok /\ lastStatus = "complete"
      /\ s = source \/ (s \in Zips /\ Home[s] = source)
      /\ \A f \in taken \cap (content[source] \ content'[source]) :
           Kind[f] \in Stages => f \in handled

RemovesOnlyWhatItApplied == [][RemovalIsEarned]_vars

\* No run begins sooner than kFailureBackoffSeconds after the daemon last
\* reported a failure, whichever way the run failed.
NoRetryStorm ==
  [][wpc = "poll" /\ wpc' = "begin" => rest = BackoffSeconds]_vars

-----------------------------------------------------------------------------
(***************************************************************************)
(* The worker keeps the promise of UpdatePromise.  A run is over for the   *)
(* payload, if not for the services, once it is cleaned up or given up.    *)
(***************************************************************************)
Custody == {"cleanup", "sweep", "unmask"}
Working == Stages \cup {"hold", "stop", "mask", "choose", "extract", "decide"}

PromisePhase ==
  IF wpc \in Custody THEN "committed"
  ELSE IF wpc \in Working THEN "working"
  ELSE IF lastStatus = "started" THEN "fresh" ELSE "idle"

Promise == INSTANCE UpdatePromise WITH
  Useful  <- {f \in Files : Kind[f] \in Stages},
  MayKeep <- CleanupCanFail,
  store   <- content,
  touches <- arrivals,
  phase   <- PromisePhase,
  from    <- source,
  custody <- IF wpc \in Applying \cup {"unmask"} THEN taken ELSE {},
  worked  <- handled

\* The worker implements the abstract update service: every step of its
\* threads, its user and its restarts is a step of the promise or none.
PromiseKept == Promise!PromiseSpec

(***************************************************************************)
(* Liveness, under Fairness.                                               *)
(***************************************************************************)
\* As long as there is a payload, a new run begins sooner or later, whatever
\* became of the earlier ones.
PayloadGetsRun ==
  (\E s \in Sources : Candidate(s)) ~>
    (wpc = "begin" \/ \A s \in Sources : ~Candidate(s))

\* An accepted request leads to a run that begins after it.  It is forgotten
\* only by a restart, or when a failure is too recent as it is taken up.
RequestGetsRun == requested ~> (wpc = "begin" \/ ~BackedOff \/ mpc = "boot")
=============================================================================
