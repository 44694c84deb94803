---------------------------- MODULE DeviceProofs ----------------------------
(***************************************************************************)
(* Proofs about Device, for any units, layouts, cards, boards and bounds:  *)
(* what the hold file promises across the first boot, the requests and the *)
(* update worker, what a client of the link control is told, which         *)
(* renderers run, what is mounted on /Video, and what is ever formatted.   *)
(***************************************************************************)
EXTENDS PartsProofs, FiniteSetTheorems

(***************************************************************************)
(* The hold file.  Before main is through with the first boot there is no  *)
(* update worker that could remove it.                                     *)
(***************************************************************************)
Booting == {"off", "early", "gate", "resize", "known", "camera", "close", "ready"}

HoldInv ==
  /\ by \in Callers
  /\ Busy => hold \/ (by = "request" /\ stolen)
  /\ Busy /\ by = "firstboot" => phase = "resize"
  /\ phase \in Booting => worker = "off"

(***************************************************************************)
(* Link control.  Requests that OpenHD has yet to take are neither applied *)
(* nor answered, and those among them that main no longer awaits are       *)
(* overdue.                                                                *)
(***************************************************************************)
LinkShape ==
  /\ asked \in Seq(LinkRequests) /\ told \in Seq(BOOLEAN) /\ inbox \in Seq(Nat)
  /\ awaited \in Nat /\ answers \subseteq [to : Nat, ok : BOOLEAN]

\* All requests but the awaited one, which is the last, have been answered.
AwaitedIsLast ==
  /\ awaited = 0 => Len(told) = Len(asked)
  /\ awaited # 0 => awaited = Len(asked) /\ Len(told) = awaited - 1

Sent == {n \in DOMAIN asked : PassedOn(asked[n])}

InboxInv ==
  /\ \A i \in DOMAIN inbox :
       /\ inbox[i] \in Sent \ applied
       /\ \A a \in answers : a.to # inbox[i]
       /\ inbox[i] \in DOMAIN told => inbox[i] \in overdue
  /\ \A i, j \in DOMAIN inbox : inbox[i] = inbox[j] => i = j

AppliedInv ==
  /\ applied \subseteq Sent
  /\ \A a \in answers : a.to \in DOMAIN asked /\ (a.ok <=> a.to \in applied)

ToldInv ==
  \A n \in DOMAIN told :
    /\ told[n] => n \in applied
    /\ ~told[n] => n \notin applied \/ n \in overdue

LinkInv == LinkShape /\ AwaitedIsLast /\ InboxInv /\ AppliedInv /\ ToldInv

(***************************************************************************)
(* Video.                                                                  *)
(***************************************************************************)
Others == Renderers \ {Renderer}

\* No boot and no start can bring up both renderers: from the second half of a
\* start on, the one that is not wanted is neither active nor enabled.
RendererInv ==
  /\ spoiled \in BOOLEAN
  /\ ~spoiled => ~(Renderers \subseteq active) /\ ~(Renderers \subseteq enabled)
  /\ ~spoiled /\ call \in {"early", "control"} /\ wanted # "stop" => Others \cap (active \cup enabled) = {}
  /\ ~spoiled /\ call # "none" /\ wanted = "early" => should_use_openhd_glide
  /\ call # "none" /\ wanted = "early" => board \in {"cm5", "rk3566"}
  /\ call = "early" => wanted = "early"
  /\ board \notin {"cm5", "rk3566"} => "glide" \notin active \cup enabled

X20Inv ==
  board = "x20" =>
    active \subseteq {"openhd"} /\ enabled \subseteq {"openhd"} /\ child = "none" /\ call = "none"

\* On a Raspberry Pi 5 nothing is left behind, and a fork comes after the end.
PipelineInv ==
  board = "rpi5" =>
    /\ strays = 0
    /\ call \in {"none", "end", "wait", "fork"}
    /\ call = "fork" => child = "none" /\ wanted # "stop"
    /\ wanted = "stop" /\ call = "none" => child \notin {"runs", "told"}

VideoInv == RendererInv /\ X20Inv /\ PipelineInv

(***************************************************************************)
(* The hold file: proofs.                                                  *)
(***************************************************************************)
LEMMA HoldInit == Init => HoldInv
  BY DEF Init, HoldInv, Callers, Busy, Booting

\* What a step of the resize may change of it.
LEMMA ResizeStepHolds ==
  ASSUME ResizeStep PROVE Busy /\ UNCHANGED <<hold, by>>
  BY DEF ResizeStep, Refused, Format, Grow, Label, Type, Fstab, MountVideo, Mkfs, Fails, Go, Busy

LEMMA HoldMain == HoldInv /\ MainStep => HoldInv'
<1> SUFFICES ASSUME HoldInv, MainStep PROVE HoldInv'
  OBVIOUS
<1>1. CASE PowerOn
  BY <1>1 DEF PowerOn, Goes, others, job, HoldInv, Busy, Booting
<1>2. CASE EarlyScreen
  BY <1>2 DEF EarlyScreen, MainAt, Goes, others, pvars, job, HoldInv, Busy, Booting
<1>3. CASE run_firstboot_tasks
  BY <1>3 DEF run_firstboot_tasks, MainAt, Begin, pvars, job, HoldInv, Busy, Booting, Callers
<1>4. CASE FirstResizeEnds
  BY <1>4 DEF FirstResizeEnds, Ended, JobEnds, others, HoldInv, Busy, Booting
<1>5. CASE FirstMounts
  BY <1>5 DEF FirstMounts, Goes, mount_known_partitions, others, job, HoldInv, Busy, Booting
<1>6. CASE FirstCameraEnds
  BY <1>6 DEF FirstCameraEnds, others, pvars, job, HoldInv, Busy, Booting
<1>7. CASE CloseGate
  BY <1>7 DEF CloseGate, others, pvars, job, HoldInv, Busy, Booting
<1>8. CASE GetReady
  BY <1>8 DEF GetReady, Goes, mount_known_partitions, job, HoldInv, Busy, Booting
<1>9. CASE LinkSerial
  BY <1>9 DEF LinkSerial, MainAt, Goes, others, pvars, job, HoldInv, Busy, Booting
<1>10. CASE StartServices
  BY <1>10 DEF StartServices, MainAt, Goes, others, pvars, job, HoldInv, Busy, Booting
<1>11. CASE start_ground_video_if_needed
  BY <1>11 DEF start_ground_video_if_needed, MainAt, Goes, others, pvars, job, HoldInv, Busy, Booting
<1> QED
  BY <1>1, <1>2, <1>3, <1>4, <1>5, <1>6, <1>7, <1>8, <1>9, <1>10, <1>11 DEF MainStep

LEMMA HoldRequests == HoldInv /\ Requests => HoldInv'
<1> SUFFICES ASSUME HoldInv, Requests PROVE HoldInv'
  OBVIOUS
<1>1. CASE handle_partition_resize_request
  BY <1>1 DEF handle_partition_resize_request, ResizeAllowed, Serving, Begin, main, HoldInv, Busy, Booting, Callers
<1>2. CASE ResizeAnswered
  BY <1>2 DEF ResizeAnswered, Ended, JobEnds, others, HoldInv, Busy, Booting
<1>3. CASE PartitionsRequested
  BY <1>3 DEF PartitionsRequested, build_partitions_response, main, others, job, HoldInv, Busy, Booting
<1>4. CASE \E t \in 1..Threads, id \in Ids[board] : handle_camera_setup_request(id, t)
  BY <1>4 DEF handle_camera_setup_request, main, pvars, job, HoldInv, Busy, Booting
<1>5. CASE \E action \in Actions : handle_video_request(action)
  BY <1>5 DEF handle_video_request, main, others, pvars, job, HoldInv, Busy, Booting
<1>6. CASE RoleChanges
  BY <1>6 DEF RoleChanges, main, others, pvars, job, HoldInv, Busy, Booting
<1>7. CASE \E r \in LinkRequests : LinkRequested(r)
  BY <1>7 DEF LinkRequested, main, others, pvars, job, HoldInv, Busy, Booting
<1> QED
  BY <1>1, <1>2, <1>3, <1>4, <1>5, <1>6, <1>7 DEF Requests

LEMMA HoldStep == HoldInv /\ [Next]_vars => HoldInv'
<1> SUFFICES ASSUME HoldInv, [Next]_vars PROVE HoldInv'
  OBVIOUS
<1>1. CASE MainStep
  BY <1>1, HoldMain
<1>2. CASE Requests
  BY <1>2, HoldRequests
<1>3. CASE ResizeOn
  BY <1>3, ResizeStepHolds DEF ResizeOn, main, others, HoldInv, Busy
<1>4. CASE VideoOn \/ LinkOn \/ OpenHdOn \/ UserAndScreen \/ Plugging
  BY <1>4 DEF VideoOn, LinkOn, OpenHdOn, UserAndScreen, Plugging, main, others, pvars, job, HoldInv, Busy
<1>5. CASE \E t \in 0..Threads : CameraStep(t) \/ CameraThreadEnds(t)
  BY <1>5 DEF CameraStep, CameraThreadEnds, main, others, pvars, job, HoldInv, Busy
<1>6. CASE WorkerStarts
  BY <1>6 DEF WorkerStarts, main, job, HoldInv, Busy, Booting
<1>7. CASE WorkerEnds
  BY <1>7 DEF WorkerEnds, job, HoldInv, Busy, Booting, Callers
<1>8. CASE Recorded
  BY <1>8 DEF Recorded, main, others, job, HoldInv, Busy
<1>9. CASE Reboot \/ PowerCut \/ Restart
  BY <1>9 DEF Reboot, PowerCut, Restart, PowerOff, ProcessEnds, HoldInv, Busy, Booting
<1>10. CASE UNCHANGED vars
  BY <1>10 DEF vars, main, others, pvars, job, HoldInv, Busy
<1> QED
  BY <1>1, <1>2, <1>3, <1>4, <1>5, <1>6, <1>7, <1>8, <1>9, <1>10 DEF Next

\* OpenHD is told to wait for as long as a partition is worked on, except when an
\* update run has ended during a resize on request: however boots, cuts, restarts
\* and requests follow one another.
THEOREM HoldIsKept == Spec => []HoldWhileFormatting
<1>1. HoldInv => HoldWhileFormatting
  BY DEF HoldInv, HoldWhileFormatting
<1> QED
  BY <1>1, HoldInit, HoldStep, PTL DEF Spec

(***************************************************************************)
(* Link control: proofs.                                                   *)
(***************************************************************************)
LEMMA AppendFacts ==
  ASSUME NEW S, NEW s \in Seq(S), NEW e \in S
  PROVE  /\ Append(s, e) \in Seq(S) /\ Len(Append(s, e)) = Len(s) + 1
         /\ DOMAIN Append(s, e) = DOMAIN s \cup {Len(s) + 1}
         /\ Append(s, e)[Len(s) + 1] = e
         /\ \A i \in DOMAIN s : Append(s, e)[i] = s[i]
  OBVIOUS

LEMMA LinkStarts == LinkInit => LinkInv
  BY DEF LinkInit, LinkInv, LinkShape, AwaitedIsLast, InboxInv, AppliedInv, ToldInv, Sent

LEMMA LinkRequest ==
  ASSUME LinkInv, NEW r \in LinkRequests, handle_link_control_request(r)
  PROVE  LinkInv'
<1> USE DEF LinkInv
<1> DEFINE n == Len(asked')
<1>1. n = Len(asked) + 1 /\ n \in Nat \ {0} /\ asked' = Append(asked, r) /\ Len(told) = Len(asked)
  BY DEF handle_link_control_request, LinkShape, AwaitedIsLast
<1>2. \A m \in DOMAIN asked : m \in DOMAIN asked' /\ asked'[m] = asked[m]
  BY <1>1 DEF LinkShape
<1>3. n \in DOMAIN asked' /\ asked'[n] = r /\ n \notin DOMAIN asked /\ n \notin DOMAIN told
  BY <1>1 DEF LinkShape
<1>4. Sent \subseteq Sent' /\ (PassedOn(r) => n \in Sent')
  BY <1>2, <1>3 DEF Sent
<1>5. n \notin applied /\ \A a \in answers : a.to # n
  BY <1>3 DEF AppliedInv, Sent
<1>6. \A i \in DOMAIN inbox : inbox[i] # n
  BY <1>3 DEF InboxInv, Sent
<1>7. AppliedInv'
  BY <1>2, <1>4 DEF AppliedInv, handle_link_control_request
<1>8. CASE PassedOn(r) /\ openhd
  <2>1. /\ awaited' = n /\ inbox' = Append(inbox, n)
        /\ UNCHANGED <<told, answers, applied, overdue>>
    BY <1>8 DEF handle_link_control_request
  <2>2. LinkShape'
    BY <2>1, <1>1 DEF LinkShape
  <2>3. AwaitedIsLast' /\ ToldInv'
    BY <2>1, <1>1 DEF AwaitedIsLast, ToldInv
  <2>4. /\ DOMAIN inbox' = DOMAIN inbox \cup {Len(inbox) + 1}
        /\ \A i \in DOMAIN inbox : inbox'[i] = inbox[i]
        /\ inbox'[Len(inbox) + 1] = n
    BY <2>1, <1>1, AppendFacts DEF LinkShape
  <2>5. InboxInv'
    BY <2>1, <2>4, <1>3, <1>4, <1>5, <1>6, <1>8 DEF InboxInv
  <2> QED
    BY <2>2, <2>3, <2>5, <1>7
<1>9. CASE ~(PassedOn(r) /\ openhd)
  <2>1. /\ told' = Append(told, FALSE)
        /\ UNCHANGED <<awaited, inbox, answers, applied, overdue>>
    BY <1>9 DEF handle_link_control_request
  <2>2. /\ DOMAIN told' = DOMAIN told \cup {n} /\ ~told'[n]
        /\ \A m \in DOMAIN told : told'[m] = told[m]
    <3>1. PICK ok \in BOOLEAN : ~ok /\ told' = Append(told, ok)
      BY <2>1
    <3>2. told \in Seq(BOOLEAN) /\ n = Len(told) + 1
      BY <1>1 DEF LinkShape
    <3>3. /\ DOMAIN told' = DOMAIN told \cup {n} /\ told'[n] = ok
          /\ \A m \in DOMAIN told : told'[m] = told[m]
      BY <3>1, <3>2, AppendFacts
    <3> QED
      BY <3>1, <3>3
  <2>3. LinkShape' /\ AwaitedIsLast'
    BY <2>1, <1>1 DEF LinkShape, AwaitedIsLast, handle_link_control_request
  <2>4. InboxInv'
    BY <2>1, <2>2, <1>4, <1>6 DEF InboxInv
  <2>5. ToldInv'
    BY <2>1, <2>2, <1>5 DEF ToldInv
  <2> QED
    BY <2>3, <2>4, <2>5, <1>7
<1> QED
  BY <1>8, <1>9

LEMMA LinkTake == LinkInv /\ OpenHdTakes => LinkInv'
<1> SUFFICES ASSUME LinkInv, OpenHdTakes PROVE LinkInv'
  OBVIOUS
<1> USE DEF LinkInv
<1> DEFINE h == Head(inbox)
<1>1. PICK ok \in BOOLEAN :
        /\ applied' = IF ok THEN applied \cup {h} ELSE applied
        /\ answers' = answers \cup {[to |-> h, ok |-> ok]}
  BY DEF OpenHdTakes
<1>2. /\ inbox # <<>> /\ inbox' = Tail(inbox)
      /\ UNCHANGED <<asked, awaited, told, overdue>>
  BY DEF OpenHdTakes
<1>3. 1 \in DOMAIN inbox /\ h = inbox[1] /\ h \in Nat
  BY <1>2 DEF LinkShape
<1>4. \A i \in DOMAIN inbox' : i + 1 \in DOMAIN inbox /\ i + 1 # 1 /\ i \in Int /\ inbox'[i] = inbox[i + 1]
  BY <1>2 DEF LinkShape
<1>5. /\ h \in Sent \ applied /\ h \in DOMAIN asked
      /\ \A a \in answers : a.to # h
      /\ h \in DOMAIN told => h \in overdue
  BY <1>3 DEF InboxInv, Sent
<1>6. \A i \in DOMAIN inbox' : inbox'[i] # h
  BY <1>3, <1>4 DEF InboxInv
<1>7. LinkShape'
  BY <1>1, <1>2, <1>3 DEF LinkShape
<1>8. AwaitedIsLast' /\ Sent' = Sent
  BY <1>2 DEF AwaitedIsLast, Sent
<1>9. InboxInv'
  <2>1. ASSUME NEW i \in DOMAIN inbox'
        PROVE  /\ inbox'[i] \in Sent' \ applied'
               /\ \A a \in answers' : a.to # inbox'[i]
               /\ inbox'[i] \in DOMAIN told' => inbox'[i] \in overdue'
    BY <1>1, <1>2, <1>4, <1>6, <1>8 DEF InboxInv
  <2>2. ASSUME NEW i \in DOMAIN inbox', NEW j \in DOMAIN inbox', inbox'[i] = inbox'[j] PROVE i = j
    <3>1. i + 1 = j + 1
      BY <1>4, <2>2 DEF InboxInv
    <3> QED
      BY <3>1, <1>4
  <2> QED
    BY <2>1, <2>2 DEF InboxInv
<1>10. AppliedInv'
  BY <1>1, <1>2, <1>5, <1>8 DEF AppliedInv
<1>11. ToldInv'
  BY <1>1, <1>2, <1>5 DEF ToldInv
<1> QED
  BY <1>7, <1>8, <1>9, <1>10, <1>11

\* Main is through with the awaited request, and has an answer to it or not.
LEMMA LinkIsAnswered ==
  ASSUME LinkInv, awaited # 0, awaited' = 0, NEW ok \in BOOLEAN, told' = Append(told, ok),
         UNCHANGED <<asked, applied>>, overdue \subseteq overdue', answers' \subseteq answers,
         inbox' = inbox \/ inbox' = <<>>,
         \A i \in DOMAIN inbox' : inbox'[i] = awaited => awaited \in overdue',
         ok => awaited \in applied,
         ~ok => awaited \notin applied \/ awaited \in overdue'
  PROVE  LinkInv'
<1> USE DEF LinkInv
<1>1. awaited = Len(told) + 1 /\ awaited = Len(asked)
  BY DEF LinkShape, AwaitedIsLast
<1>2. /\ DOMAIN told' = DOMAIN told \cup {awaited} /\ told'[awaited] = ok
      /\ \A m \in DOMAIN told : told'[m] = told[m]
  BY <1>1, AppendFacts DEF LinkShape
<1>3. LinkShape' /\ AwaitedIsLast'
  <2>1. told' \in Seq(BOOLEAN) /\ Len(told') = Len(told) + 1
    BY AppendFacts DEF LinkShape
  <2>2. inbox' \in Seq(Nat)
    <3>1. <<>> \in Seq(Nat)
      OBVIOUS
    <3>2. inbox \in Seq(Nat)
      BY DEF LinkShape
    <3> QED
      BY <3>1, <3>2
  <2> QED
    BY <1>1, <2>1, <2>2 DEF LinkShape, AwaitedIsLast
<1>4. Sent' = Sent
  BY DEF Sent
<1>5. InboxInv'
  <2>1. CASE inbox' = inbox
    BY <1>2, <1>4, <2>1 DEF InboxInv
  <2>2. CASE inbox' = <<>>
    BY <2>2 DEF InboxInv
  <2> QED
    BY <2>1, <2>2
<1>6. AppliedInv'
  BY <1>4 DEF AppliedInv
<1>7. ToldInv'
  BY <1>2 DEF ToldInv
<1> QED
  BY <1>3, <1>5, <1>6, <1>7

LEMMA LinkAnswer == LinkInv /\ Answered => LinkInv'
<1> SUFFICES ASSUME LinkInv, Answered PROVE LinkInv'
  OBVIOUS
<1>1. PICK a \in Readable : told' = Append(told, a.ok) /\ answers' = answers \ {a}
  BY DEF Answered
<1>2. a \in answers /\ a.to = awaited /\ a.ok \in BOOLEAN /\ (a.ok <=> awaited \in applied)
  BY <1>1 DEF Readable, LinkInv, LinkShape, AppliedInv
<1>3. \A i \in DOMAIN inbox : inbox[i] # awaited
  BY <1>2 DEF LinkInv, InboxInv
<1> QED
  BY <1>1, <1>2, <1>3, LinkIsAnswered DEF Answered

LEMMA LinkGivesUp == LinkInv /\ Unanswered => LinkInv'
  BY LinkIsAnswered DEF Unanswered

\* OpenHD is gone, or the process, or both, with what each had in hand.
LEMMA LinkLosesInbox ==
  ASSUME LinkInv, inbox' = inbox \/ inbox' = <<>>,
         UNCHANGED <<asked, awaited, answers, applied, told, overdue>>
  PROVE  LinkInv'
<1>1. LinkShape' /\ AwaitedIsLast' /\ Sent' = Sent
  <2>1. inbox' \in Seq(Nat)
    <3>1. <<>> \in Seq(Nat)
      OBVIOUS
    <3>2. inbox \in Seq(Nat)
      BY DEF LinkInv, LinkShape
    <3> QED
      BY <3>1, <3>2
  <2> QED
    BY <2>1 DEF LinkInv, LinkShape, AwaitedIsLast, Sent
<1>2. InboxInv'
  <2>1. CASE inbox' = inbox
    BY <1>1, <2>1 DEF LinkInv, InboxInv
  <2>2. CASE inbox' = <<>>
    BY <2>2 DEF InboxInv
  <2> QED
    BY <2>1, <2>2
<1>3. AppliedInv' /\ ToldInv'
  BY <1>1 DEF LinkInv, AppliedInv, ToldInv
<1> QED
  BY <1>1, <1>2, <1>3 DEF LinkInv

LEMMA LinkProcessEnds ==
  ASSUME LinkInv, LinkEnds, inbox' = inbox \/ inbox' = <<>>
  PROVE  LinkInv'
<1>1. CASE awaited = 0
  BY <1>1, LinkLosesInbox DEF LinkEnds
<1>2. CASE awaited # 0
  BY <1>2, LinkIsAnswered DEF LinkEnds
<1> QED
  BY <1>1, <1>2

LEMMA LinkStep == LinkInv /\ [Next]_vars => LinkInv'
<1> SUFFICES ASSUME LinkInv, [Next]_vars PROVE LinkInv'
  OBVIOUS
<1>0. ASSUME UNCHANGED lvars PROVE LinkInv'
  BY <1>0, LinkLosesInbox DEF lvars
<1>1. CASE MainStep
  BY <1>0, <1>1 DEF MainStep, PowerOn, EarlyScreen, run_firstboot_tasks, FirstResizeEnds, FirstMounts,
     FirstCameraEnds, CloseGate, GetReady, LinkSerial, StartServices, start_ground_video_if_needed
<1>2. CASE Requests
  <2>1. CASE \E r \in LinkRequests : LinkRequested(r)
    BY <2>1, LinkRequest DEF LinkRequested
  <2>2. CASE handle_partition_resize_request \/ ResizeAnswered \/ PartitionsRequested \/ RoleChanges
    BY <1>0, <2>2 DEF handle_partition_resize_request, ResizeAnswered, PartitionsRequested, RoleChanges
  <2>3. CASE \E t \in 1..Threads, id \in Ids[board] : handle_camera_setup_request(id, t)
    BY <1>0, <2>3 DEF handle_camera_setup_request
  <2>4. CASE \E action \in Actions : handle_video_request(action)
    BY <1>0, <2>4 DEF handle_video_request
  <2> QED
    BY <1>2, <2>1, <2>2, <2>3, <2>4 DEF Requests
<1>3. CASE LinkOn
  BY <1>3, LinkAnswer, LinkGivesUp DEF LinkOn
<1>4. CASE OpenHdOn
  <2>1. CASE OpenHdTakes
    BY <2>1, LinkTake
  <2>2. CASE OpenHdRestarts
    BY <2>2, LinkLosesInbox DEF OpenHdRestarts
  <2> QED
    BY <1>4, <2>1, <2>2 DEF OpenHdOn
<1>5. CASE ResizeOn \/ VideoOn \/ WorkerStarts \/ WorkerEnds \/ Recorded \/ UserAndScreen \/ Plugging
  BY <1>0, <1>5 DEF ResizeOn, VideoOn, WorkerStarts, WorkerEnds, Recorded, UserAndScreen, Plugging
<1>6. CASE \E t \in 0..Threads : CameraStep(t) \/ CameraThreadEnds(t)
  BY <1>0, <1>6 DEF CameraStep, CameraThreadEnds
<1>7. CASE Reboot \/ PowerCut \/ Restart
  BY <1>7, LinkProcessEnds DEF Reboot, PowerCut, Restart, PowerOff, ProcessEnds
<1>8. CASE UNCHANGED vars
  BY <1>0, <1>8 DEF vars
<1> QED
  BY <1>1, <1>2, <1>3, <1>4, <1>5, <1>6, <1>7, <1>8 DEF Next

\* A client of the link control is told "ok" only of what OpenHD has applied, and
\* otherwise only of what it has not, or was late with; however requests, answers
\* that come too late, restarts of either side and power cuts follow one another.
THEOREM LinkIsTrue == Spec => []LinkAnswersAreTrue
<1>1. Init => LinkInv
  BY LinkStarts DEF Init
<1>2. LinkInv => LinkAnswersAreTrue
  BY DEF LinkInv, LinkAnswersAreTrue, ToldInv, AppliedInv, Sent, PassedOn
<1> QED
  BY <1>1, <1>2, LinkStep, PTL DEF Spec

(***************************************************************************)
(* Video: proofs.                                                          *)
(***************************************************************************)
LEMMA VideoStarts == Init => VideoInv
<1> SUFFICES ASSUME Init PROVE VideoInv
  OBVIOUS
<1>1. /\ active = {} /\ child = "none" /\ strays = 0 /\ call = "none" /\ wanted = "start" /\ spoiled = FALSE
      /\ override => board = "cm5"
      /\ enabled = {"openhd"} \/ (should_use_openhd_glide /\ enabled = {"openhd", "glide"})
  BY DEF Init, VideoInit
<1>2. RendererInv
  BY <1>1 DEF RendererInv, Renderers, should_use_openhd_glide
<1>3. X20Inv /\ PipelineInv
  BY <1>1 DEF X20Inv, PipelineInv, should_use_openhd_glide
<1> QED
  BY <1>2, <1>3 DEF VideoInv

LEMMA VideoUnchanged ==
  ASSUME VideoInv, UNCHANGED <<board, vvars>> PROVE VideoInv'
  BY DEF VideoInv, RendererInv, X20Inv, PipelineInv, vvars, systemd, pipeline, Others, Renderer,
         should_use_openhd_glide, cm5_qopenhd_override_requested

LEMMA VideoPrepares == ASSUME VideoInv, Prepare, UNCHANGED board PROVE VideoInv'
<1> USE DEF VideoInv
<1>1. call = "prepare" /\ UNCHANGED <<board, override, wanted, child, strays>>
  BY DEF Prepare, Call, pipeline
<1>2. board \notin {"x20", "rpi5"}
  BY <1>1 DEF X20Inv, PipelineInv
<1>3. Others' = Others /\ Renderer' = Renderer /\ Renderer \in Renderers /\ Others # {}
  BY <1>1 DEF Others, Renderer, Renderers, should_use_openhd_glide, cm5_qopenhd_override_requested
<1>4. ~spoiled' => ~spoiled /\ enabled' \subseteq (enabled \ Competing) \cup {Renderer} /\ active' = active \ Competing
  BY DEF Prepare, systemd
<1>5. ~spoiled => Others \cap ((active \cup enabled) \ Competing) = {}
  BY DEF RendererInv, Others, Renderer, Renderers, Competing, should_use_openhd_glide
<1>6. ~spoiled' => Others' \cap (active' \cup enabled') = {}
  BY <1>3, <1>4, <1>5 DEF Others
<1>7. "glide" \in active' \cup enabled' => "glide" \in active \cup enabled \/ should_use_openhd_glide
  BY DEF Prepare, systemd, Renderer
<1>8. call' = "early" => wanted = "early"
  BY DEF Prepare, Call, AfterPreparing
<1>9. RendererInv'
  BY <1>1, <1>3, <1>6, <1>7, <1>8 DEF RendererInv, Prepare, Others, Renderers, Renderer,
     should_use_openhd_glide, cm5_qopenhd_override_requested
<1> QED
  BY <1>1, <1>2, <1>9 DEF X20Inv, PipelineInv

LEMMA VideoStarted == ASSUME VideoInv, Control \/ StartGlideEarly, UNCHANGED board PROVE VideoInv'
<1> USE DEF VideoInv
<1>1. /\ call \in {"control", "early"} /\ call' = "none"
      /\ UNCHANGED <<board, override, wanted, enabled, child, strays, spoiled>>
  BY DEF Control, StartGlideEarly, Call, pipeline
<1>2. board \notin {"x20", "rpi5"}
  BY <1>1 DEF X20Inv, PipelineInv
<1>3. ~spoiled => active' \subseteq active \/ (active' = active \cup {Renderer} /\ Others \cap active = {})
  BY DEF Control, StartGlideEarly, RendererInv, Renderer
<1>4. Renderer \in Renderers /\ Renderer \notin Others /\ Others \subseteq Renderers /\ Others # {}
  BY DEF Others, Renderer, Renderers
<1>5. "glide" \in active' => "glide" \in active \/ should_use_openhd_glide \/ call = "early"
  BY DEF Control, StartGlideEarly, Renderer
<1>6. ~spoiled => ~(Renderers \subseteq active')
  BY <1>3, <1>4 DEF RendererInv
<1>7. call = "early" => board \in {"cm5", "rk3566"}
  BY DEF RendererInv
<1>8. RendererInv'
  BY <1>1, <1>5, <1>6, <1>7 DEF RendererInv, should_use_openhd_glide
<1> QED
  BY <1>1, <1>2, <1>8 DEF X20Inv, PipelineInv

LEMMA VideoEarly ==
  ASSUME VideoInv, start_openhd_glide_early_if_needed, UNCHANGED board PROVE VideoInv'
<1> USE DEF VideoInv
<1>1. call = "none" /\ UNCHANGED <<board, override, child, strays>>
  BY DEF start_openhd_glide_early_if_needed, pipeline
<1>2. Others' = Others /\ Renderer' = Renderer
  BY <1>1 DEF Others, Renderer, should_use_openhd_glide, cm5_qopenhd_override_requested
<1>3. CASE should_use_openhd_glide /\ call' = "prepare" /\ wanted' = "early" /\ UNCHANGED <<systemd, spoiled>>
  BY <1>1, <1>3 DEF RendererInv, X20Inv, PipelineInv, systemd, should_use_openhd_glide, cm5_qopenhd_override_requested
<1>4. CASE /\ UNCHANGED <<call, wanted>> /\ (spoiled' = spoiled \/ spoiled' = TRUE)
           /\ active' \subseteq active /\ enabled' \subseteq enabled
  <2>1. ASSUME spoiled' = spoiled PROVE RendererInv'
    BY <1>1, <1>4, <2>1 DEF RendererInv
  <2>2. ASSUME spoiled' = TRUE PROVE RendererInv'
    BY <1>1, <1>4, <2>2 DEF RendererInv
  <2>3. X20Inv' /\ PipelineInv'
    BY <1>1, <1>4 DEF X20Inv, PipelineInv
  <2> QED
    BY <1>4, <2>1, <2>2, <2>3
<1> QED
  BY <1>3, <1>4 DEF start_openhd_glide_early_if_needed, Disabled, NotDisabled, systemd

LEMMA VideoServices ==
  ASSUME VideoInv, start_openhd_services_if_needed, UNCHANGED board PROVE VideoInv'
<1> USE DEF VideoInv
<1>1. call = "none" /\ UNCHANGED <<board, override, child, strays, call, wanted, spoiled>>
  BY DEF start_openhd_services_if_needed, pipeline
<1>2. enabled' \subseteq enabled /\ active' \subseteq active \cup {"openhd", "qopenhd"}
  BY DEF start_openhd_services_if_needed
<1>3. board = "x20" => active' \subseteq active \cup {"openhd"}
  BY DEF start_openhd_services_if_needed, is_ground_mode
<1>4. RendererInv'
  BY <1>1, <1>2 DEF RendererInv, Renderers
<1> QED
  BY <1>1, <1>2, <1>3, <1>4 DEF X20Inv, PipelineInv

LEMMA VideoOperation ==
  ASSUME VideoInv, NEW action \in Actions, StartOperation(action), UNCHANGED board PROVE VideoInv'
<1> USE DEF VideoInv
<1>1. /\ HasVideo /\ call = "none" /\ call' = FirstCall(action) /\ wanted' = action
      /\ UNCHANGED <<board, override, enabled, active, child, strays, spoiled>>
  BY DEF StartOperation, systemd, pipeline
<1>2. board # "x20"
  BY <1>1 DEF HasVideo, is_ground_mode
<1>3. RendererInv'
  BY <1>1 DEF RendererInv, FirstCall, Actions
<1>4. PipelineInv'
  BY <1>1 DEF PipelineInv, FirstCall, Actions, is_rpi_platform
<1> QED
  BY <1>1, <1>2, <1>3, <1>4 DEF X20Inv

LEMMA PipelineSteps == ASSUME VideoInv, End \/ Reap \/ Fork, UNCHANGED board PROVE VideoInv'
<1> USE DEF VideoInv
<1>1. /\ call \in {"end", "wait", "fork"} /\ call' \in {"none", "wait", "fork"}
      /\ UNCHANGED <<board, override, wanted, enabled, active, spoiled>>
  BY DEF End, Reap, Fork, Call, AfterStopping, systemd
<1>2. board # "x20"
  BY <1>1 DEF X20Inv
<1>3. RendererInv'
  BY <1>1 DEF RendererInv, Others, Renderer, should_use_openhd_glide, cm5_qopenhd_override_requested
<1>4. PipelineInv'
  BY <1>1 DEF PipelineInv, End, Reap, Fork, Call, AfterStopping, Alive, pipeline
<1> QED
  BY <1>1, <1>2, <1>3, <1>4 DEF X20Inv

\* What happens around main, and what comes of a power cut.
LEMMA VideoSurroundings ==
  ASSUME VideoInv, RendererEnds \/ MarkerChanges, UNCHANGED board PROVE VideoInv'
<1> USE DEF VideoInv
<1>1. CASE RendererEnds
  <2>1. /\ UNCHANGED <<board, override, enabled, call, wanted, spoiled>> /\ active' \subseteq active
        /\ child' = child \/ (child \in {"runs", "told"} /\ child' = "ended")
        /\ strays' = strays \/ strays > 0
    BY <1>1 DEF RendererEnds, pipeline
  <2>2. RendererInv'
    BY <2>1 DEF RendererInv, Others, Renderer, should_use_openhd_glide, cm5_qopenhd_override_requested
  <2> QED
    BY <2>1, <2>2 DEF X20Inv, PipelineInv
<1>2. CASE MarkerChanges
  <2>1. /\ board = "cm5" /\ spoiled' = (spoiled \/ call # "none")
        /\ UNCHANGED <<board, enabled, active, child, strays, call, wanted>>
    BY <1>2 DEF MarkerChanges, systemd, pipeline
  <2> QED
    BY <2>1 DEF RendererInv, X20Inv, PipelineInv
<1> QED
  BY <1>1, <1>2

LEMMA VideoMainEnds ==
  ASSUME VideoInv, MainEnds, UNCHANGED <<board, enabled>>, active' \in {{}, active} PROVE VideoInv'
  BY DEF VideoInv, RendererInv, X20Inv, PipelineInv, MainEnds

LEMMA VideoPowerOn == ASSUME VideoInv, PowerOn PROVE VideoInv'
<1>1. /\ active' = enabled
      /\ UNCHANGED <<board, override, enabled, child, strays, call, wanted, spoiled>>
  BY DEF PowerOn, config, pipeline
<1> QED
  BY <1>1 DEF VideoInv, RendererInv, X20Inv, PipelineInv, Others, Renderer, Renderers, should_use_openhd_glide,
     cm5_qopenhd_override_requested

LEMMA VideoStepHolds == VideoInv /\ [Next]_vars => VideoInv'
<1> SUFFICES ASSUME VideoInv, [Next]_vars PROVE VideoInv'
  OBVIOUS
<1>0. ASSUME UNCHANGED config, UNCHANGED vvars PROVE VideoInv'
  BY <1>0, VideoUnchanged DEF config
<1>1. CASE MainStep
  <2>1. CASE PowerOn
    BY <2>1, VideoPowerOn
  <2>2. CASE EarlyScreen
    BY <2>2, VideoEarly DEF EarlyScreen, config
  <2>3. CASE StartServices
    BY <2>3, VideoServices DEF StartServices, config
  <2>4. CASE start_ground_video_if_needed
    <3>1. CASE StartOperation("start")
      BY <2>4, <3>1, VideoOperation DEF start_ground_video_if_needed, config, Actions
    <3>2. CASE UNCHANGED vvars
      BY <1>0, <2>4, <3>2 DEF start_ground_video_if_needed
    <3> QED
      BY <2>4, <3>1, <3>2 DEF start_ground_video_if_needed
  <2>5. CASE CloseGate
    BY <2>5, VideoUnchanged DEF CloseGate
  <2>6. CASE run_firstboot_tasks \/ FirstResizeEnds \/ FirstMounts \/ FirstCameraEnds \/ GetReady \/ LinkSerial
    BY <1>0, <2>6 DEF run_firstboot_tasks, FirstResizeEnds, FirstMounts, FirstCameraEnds, GetReady, LinkSerial
  <2> QED
    BY <1>1, <2>1, <2>2, <2>3, <2>4, <2>5, <2>6 DEF MainStep
<1>2. CASE Requests
  <2>1. CASE \E action \in Actions : handle_video_request(action)
    BY <2>1, VideoOperation DEF handle_video_request, config
  <2>2. CASE RoleChanges
    BY <2>2, VideoUnchanged DEF RoleChanges
  <2>3. CASE handle_partition_resize_request \/ ResizeAnswered \/ PartitionsRequested
    BY <1>0, <2>3 DEF handle_partition_resize_request, ResizeAnswered, PartitionsRequested
  <2>4. CASE \E t \in 1..Threads, id \in Ids[board] : handle_camera_setup_request(id, t)
    BY <1>0, <2>4 DEF handle_camera_setup_request
  <2>5. CASE \E r \in LinkRequests : LinkRequested(r)
    BY <1>0, <2>5 DEF LinkRequested
  <2> QED
    BY <1>2, <2>1, <2>2, <2>3, <2>4, <2>5 DEF Requests
<1>3. CASE VideoOn
  BY <1>3, VideoPrepares, VideoStarted, PipelineSteps DEF VideoOn, VideoStep, config
<1>4. CASE UserAndScreen
  BY <1>4, VideoSurroundings DEF UserAndScreen, config
<1>5. CASE ResizeOn \/ LinkOn \/ WorkerStarts \/ WorkerEnds \/ Recorded \/ OpenHdOn \/ Plugging
  BY <1>0, <1>5 DEF ResizeOn, LinkOn, WorkerStarts, WorkerEnds, Recorded, OpenHdOn, Plugging
<1>6. CASE \E t \in 0..Threads : CameraStep(t) \/ CameraThreadEnds(t)
  BY <1>0, <1>6 DEF CameraStep, CameraThreadEnds
<1>7. CASE Reboot \/ PowerCut \/ Restart
  BY <1>7, VideoMainEnds DEF Reboot, PowerCut, Restart, PowerOff, ProcessEnds
<1>8. CASE UNCHANGED vars
  BY <1>0, <1>8 DEF vars
<1> QED
  BY <1>1, <1>2, <1>3, <1>4, <1>5, <1>6, <1>7, <1>8 DEF Next

\* openhd-glide and openhd-video never run together, whatever systemd starts at a
\* boot and however often the marker changes between two operations: only one
\* that changes during an operation, or a disable that fails unnoticed, may bring
\* that about.  On an X20 no request and no boot starts a renderer or a pipeline.
THEOREM RendererIsOne == Spec => []OneRenderer
<1>1. VideoInv => OneRenderer
  BY DEF VideoInv, RendererInv, X20Inv, OneRenderer
<1> QED
  BY <1>1, VideoStarts, VideoStepHolds, PTL DEF Spec

\* On a Raspberry Pi 5 there is at most one pipeline, and none once a stop was
\* answered, whenever pipelines end by themselves and the process restarts.
THEOREM PipelineIsOne == Spec => []OnePipeline
<1>1. VideoInv => OnePipeline
  BY DEF VideoInv, PipelineInv, OnePipeline, Alive
<1> QED
  BY <1>1, VideoStarts, VideoStepHolds, PTL DEF Spec

(***************************************************************************)
(* Sums over the partitions of a disk.                                     *)
(***************************************************************************)
Sizes(ps) == [q \in DOMAIN ps |-> ps[q].size]

\* The sums of f over all sets of numbers up to n.
SumsOf(n, f, u) ==
  /\ u[{}] = 0
  /\ \A t \in SUBSET (1 .. n) : \A x \in t : u[t] = f[x] + u[t \ {x}]

LEMMA SumsExist ==
  ASSUME NEW m \in Nat, NEW f \in [1 .. m -> Nat]
  PROVE  \E u \in [SUBSET (1 .. m) -> Nat] : SumsOf(m, f, u)
<1>1. PICK F : F = [v \in Nat |-> [i \in 1 .. m |-> f[i] + v]]
  OBVIOUS
<1>2. F \in [Nat -> [1 .. m -> Nat]]
  BY <1>1
<1>3. PICK u \in [SUBSET (1 .. m) -> Nat] : FoldOver(m, 0, F, u)
  BY <1>2, FoldExists
<1>4. u[{}] = 0
  BY <1>3 DEF FoldOver
<1>5. ASSUME NEW t \in SUBSET (1 .. m), t # {}
      PROVE  u[t] = f[Max(t)] + u[t \ {Max(t)}]
  <2>1. Max(t) \in 1 .. m
    BY <1>5, MaxIsIn
  <2>2. u[t] = F[u[t \ {Max(t)}]][Max(t)]
    BY <1>3, <1>5 DEF FoldOver
  <2>3. u[t \ {Max(t)}] \in Nat
    OBVIOUS
  <2> QED
    BY <1>1, <2>1, <2>2, <2>3
<1>6. PICK N : N = {n \in Nat : n <= m => \A t \in SUBSET (1 .. n) : \A x \in t : u[t] = f[x] + u[t \ {x}]}
  OBVIOUS
<1>7. 0 \in N
  BY <1>6
<1>8. ASSUME NEW n \in Nat, n \in N
      PROVE  n + 1 \in N
  <2> SUFFICES ASSUME n + 1 <= m, NEW t \in SUBSET (1 .. (n + 1)), NEW x \in t
               PROVE  u[t] = f[x] + u[t \ {x}]
    BY <1>6
  <2>0. PICK k \in Nat : k = n + 1
    OBVIOUS
  <2>1. \A s \in SUBSET (1 .. n) : \A y \in s : u[s] = f[y] + u[s \ {y}]
    <3>1. n <= m
      OBVIOUS
    <3> QED
      BY <1>6, <1>8, <3>1
  <2>2. t \in SUBSET (1 .. m)
    OBVIOUS
  <2>3. CASE k \notin t
    <3>1. t \in SUBSET (1 .. n)
      BY <2>0, <2>3
    <3> QED
      BY <2>1, <3>1
  <2>4. CASE k \in t /\ x = k
    <3>1. Max(t) = k
      BY <2>0, <2>4, MaxFacts
    <3> QED
      BY <1>5, <2>2, <2>4, <3>1
  <2>5. CASE k \in t /\ x # k
    <3>1. PICK s : s = t \ {k}
      OBVIOUS
    <3>2. s \in SUBSET (1 .. n) /\ x \in s
      BY <2>0, <2>5, <3>1
    <3>3. PICK r : r = t \ {x}
      OBVIOUS
    <3>4. r \in SUBSET (1 .. (n + 1)) /\ k \in r /\ r \ {k} = s \ {x} /\ r \in SUBSET (1 .. m) /\ r # {}
      BY <2>5, <3>1, <3>3
    <3>5. Max(t) = k /\ Max(r) = k
      BY <2>0, <2>5, <3>4, MaxFacts
    <3>6. u[t] = f[k] + u[s]
      BY <1>5, <2>2, <3>1, <3>5
    <3>7. u[r] = f[k] + u[s \ {x}]
      BY <1>5, <3>4, <3>5
    <3>8. u[s] = f[x] + u[s \ {x}]
      BY <2>1, <3>2
    <3>9. f[k] \in Nat /\ f[x] \in Nat /\ u[s \ {x}] \in Nat
      BY <2>2, <2>5, <3>2
    <3> QED
      BY <3>3, <3>6, <3>7, <3>8, <3>9
  <2> QED
    BY <2>3, <2>4, <2>5
<1>9. Nat \subseteq N
  BY <1>7, <1>8, SetInduction
<1>10. \A t \in SUBSET (1 .. m) : \A x \in t : u[t] = f[x] + u[t \ {x}]
  <2>1. m \in N /\ m <= m
    BY <1>9
  <2> QED
    BY <1>6, <2>1
<1> QED
  BY <1>4, <1>10 DEF SumsOf

\* They are what MapThenSumSet gives.
LEMMA SumsAre ==
  ASSUME NEW m \in Nat, NEW ps, Sizes(ps) \in [1 .. m -> Nat], NEW u \in [SUBSET (1 .. m) -> Nat],
         SumsOf(m, Sizes(ps), u), NEW S \in SUBSET (1 .. m)
  PROVE  MapThenSumSet(LAMBDA q : ps[q].size, S) = u[S]
<1> DEFINE Pick(s) == CHOOSE x \in s : TRUE
           Is(w) == w = [s \in SUBSET S |-> IF s = {} THEN 0 ELSE ps[Pick(s)].size + w[s \ {Pick(s)}]]
<1>0. DOMAIN Sizes(ps) = DOMAIN ps
  BY DEF Sizes
<1>1. \A q \in 1 .. m : Sizes(ps)[q] = ps[q].size
  BY <1>0 DEF Sizes
<1>2. PICK v : v = [s \in SUBSET S |-> u[s]]
  OBVIOUS
<1>3. Is(v)
  <2>1. ASSUME NEW s \in SUBSET S
        PROVE  v[s] = IF s = {} THEN 0 ELSE ps[Pick(s)].size + v[s \ {Pick(s)}]
    <3>1. CASE s = {}
      BY <1>2, <3>1 DEF SumsOf
    <3>2. CASE s # {}
      <4>1. Pick(s) \in s /\ s \in SUBSET (1 .. m)
        BY <3>2
      <4> HIDE DEF Pick
      <4>2. PICK x : x = Pick(s)
        OBVIOUS
      <4>3. u[s] = Sizes(ps)[x] + u[s \ {x}]
        BY <4>1, <4>2 DEF SumsOf
      <4>4. Sizes(ps)[x] = ps[x].size /\ s \ {x} \in SUBSET S
        BY <1>1, <4>1, <4>2
      <4> QED
        BY <1>2, <3>2, <4>2, <4>3, <4>4
    <3> QED
      BY <3>1, <3>2
  <2> HIDE DEF Pick
  <2> QED
    BY <1>2, <2>1
<1>4. PICK w : w = CHOOSE x : Is(x)
  OBVIOUS
<1>5. Is(w)
  <2> HIDE DEF Is
  <2> QED
    BY <1>3, <1>4
<1>6. MapThenSumSet(LAMBDA q : ps[q].size, S) = w[S]
  BY <1>4 DEF MapThenSumSet, MapThenFoldSet
<1>7. PICK N : N = {n \in Nat : \A s \in SUBSET S : Cardinality(s) = n => w[s] = u[s]}
  OBVIOUS
<1>8. IsFiniteSet(S) /\ \A s \in SUBSET S : IsFiniteSet(s) /\ Cardinality(s) \in Nat
  <2>1. IsFiniteSet(1 .. m)
    BY FS_Interval
  <2>2. \A s \in SUBSET S : s \subseteq 1 .. m
    OBVIOUS
  <2> QED
    BY <2>1, <2>2, FS_Subset, FS_CardinalityType
<1>9. 0 \in N
  <2>1. \A s \in SUBSET S : Cardinality(s) = 0 => s = {}
    BY <1>8, FS_EmptySet
  <2>2. w[{}] = 0
    BY <1>5
  <2> QED
    BY <1>7, <2>1, <2>2 DEF SumsOf
<1>10. ASSUME NEW n \in Nat, n \in N
       PROVE  n + 1 \in N
  <2> SUFFICES ASSUME NEW s \in SUBSET S, Cardinality(s) = n + 1
               PROVE  w[s] = u[s]
    BY <1>7
  <2>1. s # {}
    <3>1. Cardinality({}) = 0 /\ n + 1 # 0
      BY FS_EmptySet
    <3> QED
      BY <3>1
  <2>2. PICK x : x = Pick(s)
    OBVIOUS
  <2>3. x \in s
    BY <2>1, <2>2
  <2>4. w[s] = ps[x].size + w[s \ {x}]
    BY <1>5, <2>1, <2>2
  <2>5. Cardinality(s \ {x}) = n
    BY <1>8, <2>3, FS_RemoveElement
  <2>6. w[s \ {x}] = u[s \ {x}]
    BY <1>7, <1>10, <2>5
  <2>7. u[s] = Sizes(ps)[x] + u[s \ {x}] /\ Sizes(ps)[x] = ps[x].size
    BY <1>1, <2>3 DEF SumsOf
  <2> QED
    BY <2>4, <2>6, <2>7
<1>11. Nat \subseteq N
  BY <1>9, <1>10, SetInduction
<1> QED
  BY <1>6, <1>7, <1>8, <1>11

LEMMA SumsGrow ==
  ASSUME NEW m \in Nat, NEW f \in [1 .. m -> Nat], NEW u \in [SUBSET (1 .. m) -> Nat], SumsOf(m, f, u),
         NEW s \in SUBSET (1 .. m), NEW t \in SUBSET s
  PROVE  u[t] <= u[s]
<1> DEFINE Grows(n) == \A a \in SUBSET (1 .. n) : \A b \in SUBSET a : u[b] <= u[a]
<1>1. PICK N : N = {n \in Nat : n <= m => Grows(n)}
  OBVIOUS
<1>2. 0 \in N
  <2>1. \A a \in SUBSET (1 .. 0) : \A b \in SUBSET a : b = {} /\ a = {}
    OBVIOUS
  <2>2. u[{}] <= u[{}]
    BY DEF SumsOf
  <2>3. Grows(0)
    BY <2>1, <2>2
  <2> HIDE DEF Grows
  <2> QED
    BY <1>1, <2>3
<1>3. ASSUME NEW n \in Nat, n \in N
      PROVE  n + 1 \in N
  <2> SUFFICES ASSUME n + 1 <= m PROVE Grows(n + 1)
    <3> HIDE DEF Grows
    <3> QED
      BY <1>1
  <2> SUFFICES ASSUME NEW a \in SUBSET (1 .. (n + 1)), NEW b \in SUBSET a
               PROVE  u[b] <= u[a]
    OBVIOUS
  <2>0. PICK k \in Nat : k = n + 1
    OBVIOUS
  <2>1. Grows(n)
    <3>1. n <= m
      OBVIOUS
    <3> QED
      BY <1>1, <1>3, <3>1
  <2>2. a \in SUBSET (1 .. m) /\ b \in SUBSET (1 .. m)
    OBVIOUS
  <2>3. CASE k \notin a
    <3>1. a \in SUBSET (1 .. n)
      BY <2>0, <2>3
    <3> QED
      BY <2>1, <3>1
  <2>4. CASE k \in a /\ k \in b
    <3>1. a \ {k} \in SUBSET (1 .. n) /\ b \ {k} \in SUBSET (a \ {k})
      BY <2>0
    <3>2. u[b \ {k}] <= u[a \ {k}]
      BY <2>1, <3>1
    <3>3. u[a] = f[k] + u[a \ {k}] /\ u[b] = f[k] + u[b \ {k}]
      BY <2>2, <2>4 DEF SumsOf
    <3>4. k \in 1 .. m /\ a \ {k} \in SUBSET (1 .. m) /\ b \ {k} \in SUBSET (1 .. m)
      BY <2>2, <2>4
    <3>5. f[k] \in Nat /\ u[a \ {k}] \in Nat /\ u[b \ {k}] \in Nat
      BY <3>4
    <3> QED
      BY <3>2, <3>3, <3>5
  <2>5. CASE k \in a /\ k \notin b
    <3>1. a \ {k} \in SUBSET (1 .. n) /\ b \in SUBSET (a \ {k})
      BY <2>0, <2>5
    <3>2. u[b] <= u[a \ {k}]
      BY <2>1, <3>1
    <3>3. u[a] = f[k] + u[a \ {k}]
      BY <2>2, <2>5 DEF SumsOf
    <3>4. k \in 1 .. m /\ a \ {k} \in SUBSET (1 .. m)
      BY <2>2, <2>5
    <3>5. f[k] \in Nat /\ u[a \ {k}] \in Nat /\ u[b] \in Nat
      BY <2>2, <3>4
    <3> QED
      BY <3>2, <3>3, <3>5
  <2> QED
    BY <2>3, <2>4, <2>5
<1> HIDE DEF Grows
<1>4. Nat \subseteq N
  BY <1>2, <1>3, SetInduction
<1>5. m \in N /\ m <= m
  BY <1>4
<1>6. Grows(m)
  BY <1>1, <1>5
<1> QED
  BY <1>6 DEF Grows

SumsFor(m, f, u) == f \in [1 .. m -> Nat] /\ u \in [SUBSET (1 .. m) -> Nat] /\ SumsOf(m, f, u)
SameOn(s, f, g) == \A x \in s : f[x] = g[x]

\* A sum depends on its own terms only.
LEMMA SumsAgree ==
  ASSUME NEW m \in Nat, NEW f, NEW u, SumsFor(m, f, u), NEW g, NEW v, SumsFor(m, g, v),
         NEW s \in SUBSET (1 .. m), SameOn(s, f, g)
  PROVE  u[s] = v[s]
<1>0. /\ f \in [1 .. m -> Nat] /\ u \in [SUBSET (1 .. m) -> Nat] /\ SumsOf(m, f, u)
      /\ g \in [1 .. m -> Nat] /\ v \in [SUBSET (1 .. m) -> Nat] /\ SumsOf(m, g, v)
  BY DEF SumsFor
<1> DEFINE Agree(n) == \A a \in SUBSET (1 .. n) : (\A x \in a : f[x] = g[x]) => u[a] = v[a]
<1>1. PICK N : N = {n \in Nat : n <= m => Agree(n)}
  OBVIOUS
<1>2. 0 \in N
  <2>1. \A a \in SUBSET (1 .. 0) : a = {}
    OBVIOUS
  <2> QED
    BY <1>0, <1>1, <2>1 DEF SumsOf
<1>3. ASSUME NEW n \in Nat, n \in N
      PROVE  n + 1 \in N
  <2> SUFFICES ASSUME n + 1 <= m PROVE Agree(n + 1)
    <3> HIDE DEF Agree
    <3> QED
      BY <1>1
  <2> SUFFICES ASSUME NEW a \in SUBSET (1 .. (n + 1)), \A x \in a : f[x] = g[x]
               PROVE  u[a] = v[a]
    OBVIOUS
  <2>0. PICK k \in Nat : k = n + 1
    OBVIOUS
  <2>1. Agree(n)
    <3>1. n <= m
      OBVIOUS
    <3> QED
      BY <1>1, <1>3, <3>1
  <2>2. a \in SUBSET (1 .. m)
    OBVIOUS
  <2>3. CASE k \notin a
    <3>1. a \in SUBSET (1 .. n)
      BY <2>0, <2>3
    <3> QED
      BY <2>1, <3>1
  <2>4. CASE k \in a
    <3>1. a \ {k} \in SUBSET (1 .. n)
      BY <2>0
    <3>2. u[a \ {k}] = v[a \ {k}] /\ f[k] = g[k]
      BY <2>1, <2>4, <3>1
    <3>3. u[a] = f[k] + u[a \ {k}] /\ v[a] = g[k] + v[a \ {k}]
      BY <1>0, <2>2, <2>4 DEF SumsOf
    <3> QED
      BY <1>0, <3>2, <3>3
  <2> QED
    BY <2>3, <2>4
<1> HIDE DEF Agree
<1>4. Nat \subseteq N
  BY <1>2, <1>3, SetInduction
<1>5. m \in N /\ m <= m
  BY <1>4
<1>6. Agree(m)
  BY <1>1, <1>5
<1> QED
  BY <1>6 DEF Agree, SameOn

\* The first of those with the greatest f.
LEMMA GreatestFirst ==
  ASSUME NEW m \in Nat, NEW f \in [1 .. m -> Nat], NEW S \in SUBSET (1 .. m), S # {}
  PROVE  \E p \in S : \A q \in S : f[q] < f[p] \/ (f[q] = f[p] /\ p <= q)
<1> DEFINE Has(T) == \E p \in T : \A q \in T : f[q] < f[p] \/ (f[q] = f[p] /\ p <= q)
           All(n) == \A T \in SUBSET (1 .. n) : T # {} => Has(T)
<1>1. PICK N : N = {n \in Nat : n <= m => All(n)}
  OBVIOUS
<1>2. 0 \in N
  <2>1. \A T \in SUBSET (1 .. 0) : T = {}
    OBVIOUS
  <2>2. All(0)
    BY <2>1
  <2> HIDE DEF All
  <2> QED
    BY <1>1, <2>2
<1>3. ASSUME NEW n \in Nat, n \in N
      PROVE  n + 1 \in N
  <2> SUFFICES ASSUME n + 1 <= m, NEW T \in SUBSET (1 .. (n + 1)), T # {}
               PROVE  Has(T)
    BY <1>1
  <2>0. PICK k \in 1 .. m : k = n + 1
    OBVIOUS
  <2>1. All(n)
    <3>1. n <= m
      OBVIOUS
    <3> QED
      BY <1>1, <1>3, <3>1
  <2>2. PICK R : R = T \ {k}
    OBVIOUS
  <2>3. R \in SUBSET (1 .. n)
    BY <2>0, <2>2
  <2>4. \A q \in T : q \in R \/ q = k
    BY <2>2
  <2>5. CASE R = {}
    <3>1. k \in T /\ \A q \in T : q = k
      BY <2>4, <2>5
    <3> QED
      BY <3>1
  <2>6. CASE R # {} /\ k \notin T
    BY <2>1, <2>2, <2>3, <2>6
  <2>7. CASE R # {} /\ k \in T
    <3>1. PICK p \in R : \A q \in R : f[q] < f[p] \/ (f[q] = f[p] /\ p <= q)
      BY <2>1, <2>3, <2>7
    <3>2. /\ p \in T /\ p \in 1 .. m /\ p <= k
          /\ \A q \in T : q \in 1 .. m /\ f[q] \in Nat
      BY <2>0, <2>2, <2>3
    <3>3. CASE f[p] < f[k]
      <4>1. \A q \in T : f[q] < f[k] \/ (f[q] = f[k] /\ k <= q)
        BY <2>4, <3>1, <3>2, <3>3
      <4> QED
        BY <2>7, <4>1
    <3>4. CASE ~(f[p] < f[k])
      <4>1. \A q \in T : f[q] < f[p] \/ (f[q] = f[p] /\ p <= q)
        BY <2>4, <2>7, <3>1, <3>2, <3>4
      <4> QED
        BY <3>2, <4>1
    <3> QED
      BY <3>3, <3>4
  <2> QED
    BY <2>5, <2>6, <2>7
<1> HIDE DEF All
<1>4. Nat \subseteq N
  BY <1>2, <1>3, SetInduction
<1>5. m \in N /\ m <= m
  BY <1>4
<1>6. All(m)
  BY <1>1, <1>5
<1> QED
  BY <1>6 DEF All

(***************************************************************************)
(* The order of the partitions of a disk and what is free behind them.     *)
(***************************************************************************)
\* Where a partition is does not change, but that the last one may grow.
EndOf(p) == parts[p].start + parts[p].size
SameDisk(p, q) == parts[p].disk = parts[q].disk
LastOnDisk(p) == \A q \in OnDisk(parts[p].disk) : parts[q].start <= parts[p].start
GrownOut(p) == LastOnDisk(p) /\ EndOf(p) = Size[parts[p].disk]

Geometry ==
  /\ parts \in Seq(PartitionRecord)
  /\ \A p \in Parts : EndOf(p) <= Size[parts[p].disk]
  /\ \A p, q \in Parts : p # q /\ SameDisk(p, q) => EndOf(p) <= parts[q].start \/ EndOf(q) <= parts[p].start
  /\ \A p \in Parts : parts[p].label = "recordings" => parts[p].fs = "fat"

SumIn(ps, S) == MapThenSumSet(LAMBDA q : ps[q].size, S)
SumOfSizes(S) == SumIn(parts, S)

LEMMA PartsAre ==
  ASSUME parts \in Seq(PartitionRecord)
  PROVE  \E n \in Nat : /\ n = Len(parts) /\ Parts = 1 .. n
                        /\ Sizes(parts) \in [1 .. n -> Nat]
                        /\ \A p \in 1 .. n : /\ parts[p] \in PartitionRecord
                                             /\ parts[p].start \in Nat /\ parts[p].size \in Nat /\ parts[p].size > 0
                                             /\ parts[p].disk \in DOMAIN Size /\ Size[parts[p].disk] \in Nat
                                             /\ Sizes(parts)[p] = parts[p].size
<1>1. PICK n \in Nat : n = Len(parts) /\ Parts = 1 .. n
  BY DEF Parts
<1>2. \A p \in 1 .. n : parts[p] \in PartitionRecord
  BY <1>1
<1>3. ASSUME NEW p \in 1 .. n
      PROVE  /\ parts[p].start \in Nat /\ parts[p].size \in Nat /\ parts[p].size > 0
             /\ parts[p].disk \in DOMAIN Size /\ Size[parts[p].disk] \in Nat
  BY <1>2, PartitionAssumption DEF PartitionRecord
<1>4. Sizes(parts) = [q \in 1 .. n |-> parts[q].size]
  BY <1>1 DEF Sizes, Parts
<1> QED
  BY <1>1, <1>2, <1>3, <1>4

LEMMA SizesSum ==
  ASSUME parts \in Seq(PartitionRecord)
  PROVE  \E u \in [SUBSET Parts -> Nat] :
           SumsOf(Len(parts), Sizes(parts), u) /\ \A S \in SUBSET Parts : SumOfSizes(S) = u[S]
<1>1. PICK n \in Nat : n = Len(parts) /\ Parts = 1 .. n /\ Sizes(parts) \in [1 .. n -> Nat]
  BY PartsAre
<1>2. PICK u \in [SUBSET (1 .. n) -> Nat] : SumsOf(n, Sizes(parts), u)
  BY <1>1, SumsExist
<1>3. ASSUME NEW S \in SUBSET (1 .. n)
      PROVE  SumOfSizes(S) = u[S]
  <2>1. PICK ps : ps = parts
    OBVIOUS
  <2>3. Sizes(ps) \in [1 .. n -> Nat] /\ SumsOf(n, Sizes(ps), u)
    BY <1>1, <1>2, <2>1
  <2>2. MapThenSumSet(LAMBDA q : ps[q].size, S) = u[S]
    BY <2>3, SumsAre
  <2> QED
    BY <2>1, <2>2 DEF SumOfSizes, SumIn
<1> QED
  BY <1>1, <1>2, <1>3

LEMMA OrderIsNat ==
  ASSUME parts \in Seq(PartitionRecord), NEW p \in Parts
  PROVE  Order(p) \in Nat
<1>1. PICK u \in [SUBSET Parts -> Nat] : \A S \in SUBSET Parts : SumOfSizes(S) = u[S]
  BY SizesSum
<1>2. PICK S : S = {q \in OnDisk(parts[p].disk) : q < p}
  OBVIOUS
<1>3. S \in SUBSET Parts
  BY <1>2 DEF OnDisk
<1>4. SizeBefore(p) = SumOfSizes(S)
  BY <1>2 DEF SizeBefore, SumOfSizes, SumIn
<1>5. SizeBefore(p) \in Nat
  BY <1>1, <1>3, <1>4
<1>6. parts[p].start \in Nat
  BY PartsAre
<1> QED
  BY <1>5, <1>6 DEF Order

\* Without START, partitions follow one another in the order of their names: there
\* is nothing free but behind the last, and that is what no partition covers.
LEMMA ByName ==
  ASSUME parts \in Seq(PartitionRecord), view = "none", NEW p \in Parts, NEW D, D = OnDisk(parts[p].disk)
  PROVE  /\ \A q \in D : p < q => EndBytes(p) <= Order(q)
         /\ Later(p) = {q \in D : p < q}
         /\ \A r \in Later(p) : (\A q \in Later(p) : r <= q) => Order(r) = EndBytes(p)
         /\ Later(p) = {} => EndBytes(p) = SumOfSizes(D) /\ Order(p) = SumOfSizes(D \ {p})
<1>1. PICK n \in Nat : /\ Parts = 1 .. n /\ n = Len(parts)
                       /\ Sizes(parts) \in [1 .. n -> Nat]
                       /\ \A q \in 1 .. n : parts[q].size \in Nat /\ parts[q].size > 0 /\ Sizes(parts)[q] = parts[q].size
  BY PartsAre
<1>2. PICK u \in [SUBSET (1 .. n) -> Nat] :
        SumsOf(n, Sizes(parts), u) /\ \A S \in SUBSET (1 .. n) : SumOfSizes(S) = u[S]
  BY <1>1, SizesSum
<1>3. D \subseteq 1 .. n /\ p \in D /\ p \in 1 .. n /\ \A q \in D : OnDisk(parts[q].disk) = D
  BY <1>1 DEF OnDisk
<1> DEFINE Before(q) == {r \in D : r < q}
<1>4. \A q \in D : Order(q) = u[Before(q)] /\ Before(q) \in SUBSET (1 .. n)
  <2> SUFFICES ASSUME NEW q \in D PROVE Order(q) = u[Before(q)] /\ Before(q) \in SUBSET (1 .. n)
    OBVIOUS
  <2>1. Before(q) \in SUBSET (1 .. n)
    BY <1>3
  <2>2. Order(q) = SumOfSizes(Before(q))
    BY <1>3 DEF Order, SizeBefore, SumOfSizes, SumIn
  <2> QED
    BY <1>2, <2>1, <2>2
<1>5. PICK A : A = Before(p)
  OBVIOUS
<1>6. A \in SUBSET (1 .. n) /\ A \cup {p} \in SUBSET (1 .. n) /\ (A \cup {p}) \ {p} = A
  BY <1>3, <1>5
<1>7. EndBytes(p) = u[A \cup {p}] /\ EndBytes(p) = Order(p) + parts[p].size
  <2>1. u[A \cup {p}] = Sizes(parts)[p] + u[A]
    <3>1. PICK t : t = A \cup {p}
      OBVIOUS
    <3>2. u[t] = Sizes(parts)[p] + u[t \ {p}]
      BY <1>2, <1>6, <3>1 DEF SumsOf
    <3> QED
      BY <1>6, <3>1, <3>2
  <2>2. Sizes(parts)[p] = parts[p].size /\ parts[p].size \in Nat /\ u[A] \in Nat
    BY <1>1, <1>3, <1>6
  <2>3. EndBytes(p) = Order(p) + parts[p].size /\ Order(p) = u[A]
    BY <1>3, <1>4, <1>5 DEF EndBytes, StartBytes
  <2> QED
    BY <2>1, <2>2, <2>3
<1>8. ASSUME NEW q \in D, p < q
      PROVE  EndBytes(p) <= Order(q)
  <2>1. A \cup {p} \in SUBSET Before(q) /\ Before(q) \in SUBSET (1 .. n)
    BY <1>3, <1>5, <1>8
  <2>2. u[A \cup {p}] <= u[Before(q)]
    <3>1. PICK s, t : s = Before(q) /\ t = A \cup {p}
      OBVIOUS
    <3>2. u[t] <= u[s]
      BY <1>1, <1>2, <2>1, <3>1, SumsGrow
    <3> QED
      BY <3>1, <3>2
  <2> QED
    BY <1>4, <1>7, <2>2
<1>9. ASSUME NEW q \in D
      PROVE  Order(p) < Order(q) <=> p < q
  <2>1. Order(p) \in Nat /\ Order(q) \in Nat /\ parts[p].size \in Nat /\ parts[p].size > 0
    BY <1>1, <1>3, OrderIsNat
  <2>2. CASE p < q
    BY <1>7, <1>8, <2>1, <2>2
  <2>3. CASE ~(p < q)
    <3>1. Before(q) \in SUBSET A
      BY <1>3, <1>5, <2>3
    <3>2. u[Before(q)] <= u[A]
      <4>1. PICK t : t = Before(q)
        OBVIOUS
      <4>2. u[t] <= u[A]
        BY <1>1, <1>2, <1>6, <3>1, <4>1, SumsGrow
      <4> QED
        BY <4>1, <4>2
    <3>3. Order(q) <= Order(p)
      BY <1>3, <1>4, <1>5, <3>2
    <3> QED
      BY <2>1, <2>3, <3>3
  <2> QED
    BY <2>2, <2>3
<1>10. Later(p) = {q \in D : p < q}
  BY <1>9 DEF Later
<1>11. ASSUME Later(p) = {}
       PROVE  EndBytes(p) = SumOfSizes(D) /\ Order(p) = SumOfSizes(D \ {p})
  <2>1. \A q \in D : q < p \/ q = p
    BY <1>3, <1>10, <1>11
  <2>2. A \cup {p} = D /\ A = D \ {p}
    BY <1>3, <1>5, <2>1
  <2>3. EndBytes(p) = u[D]
    BY <1>7, <2>2
  <2>4. Order(p) = u[D \ {p}]
    BY <1>3, <1>4, <1>5, <2>2
  <2>5. D \in SUBSET (1 .. n) /\ D \ {p} \in SUBSET (1 .. n)
    BY <1>3
  <2> QED
    BY <1>2, <2>3, <2>4, <2>5
<1>12. ASSUME NEW r \in Later(p), \A q \in Later(p) : r <= q
       PROVE  Order(r) = EndBytes(p)
  <2>1. r \in D /\ p < r
    BY <1>10
  <2>2. \A q \in D : q < r <=> q < p \/ q = p
    <3> SUFFICES ASSUME NEW q \in D PROVE q < r <=> q < p \/ q = p
      OBVIOUS
    <3>1. q \in 1 .. n /\ r \in 1 .. n /\ p \in 1 .. n
      BY <1>3, <2>1
    <3>2. p < q => r <= q
      BY <1>10, <1>12
    <3> QED
      BY <2>1, <3>1, <3>2
  <2>3. Before(r) = A \cup {p}
    BY <1>3, <1>5, <2>2
  <2> QED
    BY <1>4, <1>7, <2>1, <2>3
<1> QED
  BY <1>8, <1>10, <1>11, <1>12

LEMMA NextIsLater ==
  ASSUME parts \in Seq(PartitionRecord), NEW p \in Parts, Later(p) # {}
  PROVE  NextOf(p) \in Later(p) /\ \A r \in Later(p) : Order(NextOf(p)) <= Order(r)
<1>1. PICK T : T = {Order(r) : r \in Later(p)}
  OBVIOUS
<1>2. \A r \in Later(p) : r \in Parts
  BY DEF Later, OnDisk
<1>3. T \subseteq Nat /\ T # {}
  BY <1>1, <1>2, OrderIsNat
<1>4. PICK x \in T : \A y \in T : x <= y
  BY <1>3, LeastNatural
<1>5. \E q \in Later(p) : \A r \in Later(p) : Order(q) <= Order(r)
  BY <1>1, <1>4
<1> QED
  BY <1>5 DEF NextOf

LEMMA FreeByName ==
  ASSUME parts \in Seq(PartitionRecord), view = "none", NEW p \in Parts, FreeAfter(p) >= MinResize
  PROVE  Later(p) = {} /\ Size[parts[p].disk] - SumOfSizes(OnDisk(parts[p].disk)) >= MinResize
<1>1. PICK D : D = OnDisk(parts[p].disk)
  OBVIOUS
<1>2. PICK n \in Nat : Parts = 1 .. n /\ parts[p].size \in Nat /\ Size[parts[p].disk] \in Nat
  BY PartsAre
<1>3. Order(p) \in Nat /\ EndBytes(p) = Order(p) + parts[p].size
  BY OrderIsNat DEF EndBytes, StartBytes
<1>4. CASE Later(p) # {}
  <2>1. PICK q : q = NextOf(p)
    OBVIOUS
  <2>2. q \in Later(p) /\ \A r \in Later(p) : Order(q) <= Order(r)
    BY <1>4, <2>1, NextIsLater
  <2>3. Later(p) = {x \in D : p < x}
    BY <1>1, ByName
  <2>4. Later(p) \subseteq Nat
    BY <1>1, <1>2, <2>3 DEF OnDisk
  <2>5. PICK r \in Later(p) : \A x \in Later(p) : r <= x
    BY <1>4, <2>4, LeastNatural
  <2>6. Order(r) = EndBytes(p)
    BY <1>1, <2>3, <2>5, ByName
  <2>7. Order(q) \in Nat /\ Order(q) <= EndBytes(p)
    BY <2>2, <2>5, <2>6, OrderIsNat DEF Later, OnDisk
  <2>8. FreeAfter(p) = Order(q) - EndBytes(p)
    BY <1>4, <2>1 DEF FreeAfter, StartBytes
  <2> QED
    BY <1>2, <1>3, <2>7, <2>8 DEF MinResize
<1>5. CASE Later(p) = {}
  <2>1. EndBytes(p) = SumOfSizes(D)
    BY <1>1, <1>5, ByName
  <2>2. FreeAfter(p) = IF Size[parts[p].disk] > EndBytes(p) THEN Size[parts[p].disk] - EndBytes(p) ELSE 0
    BY <1>5 DEF FreeAfter
  <2>3. FreeAfter(p) = Size[parts[p].disk] - EndBytes(p)
    BY <2>2 DEF MinResize
  <2> QED
    BY <1>1, <1>5, <2>1, <2>3
<1> QED
  BY <1>4, <1>5

LEMMA CandidateIs ==
  ASSUME parts \in Seq(PartitionRecord), find_resize_candidate # None
  PROVE  find_resize_candidate \in Resizable
<1>1. PICK n \in Nat : Parts = 1 .. n
  BY PartsAre
<1>2. PICK f : f = [p \in 1 .. n |-> Order(p)]
  OBVIOUS
<1>3. f \in [1 .. n -> Nat]
  BY <1>1, <1>2, OrderIsNat
<1>4. PICK S : S = Resizable
  OBVIOUS
<1>5. S \in SUBSET (1 .. n) /\ S # {}
  BY <1>1, <1>4 DEF Resizable, find_resize_candidate
<1>6. \E p \in S : \A q \in S : f[q] < f[p] \/ (f[q] = f[p] /\ p <= q)
  BY <1>3, <1>5, GreatestFirst
<1>7. \A p \in S : f[p] = Order(p)
  BY <1>2, <1>5
<1>8. \E p \in S : \A q \in S : Order(q) < Order(p) \/ (Order(q) = Order(p) /\ p <= q)
  BY <1>6, <1>7
<1> QED
  BY <1>4, <1>5, <1>8 DEF find_resize_candidate

\* Disks without gaps, as far as lsblk does not tell.
NoGaps ==
  view = "none" =>
    \A p \in Parts : LastOnDisk(p) => parts[p].start = SumOfSizes(OnDisk(parts[p].disk) \ {p})

\* A partition that reaches to the end of its disk is no candidate any more.
LEMMA GrownIsDone ==
  ASSUME Geometry, view \in {"none", "bytes"}, NoGaps, NEW p \in Parts, GrownOut(p)
  PROVE  p \notin Resizable
<1>1. PICK n \in Nat : /\ Parts = 1 .. n /\ parts[p].size \in Nat /\ parts[p].start \in Nat
                       /\ Size[parts[p].disk] \in Nat
  BY PartsAre DEF Geometry
<1>2. parts[p].start + parts[p].size = Size[parts[p].disk] /\ LastOnDisk(p)
  BY DEF GrownOut, EndOf
<1>3. CASE view = "bytes"
  <2>1. \A q \in OnDisk(parts[p].disk) : ~(Order(p) < Order(q))
    <3> SUFFICES ASSUME NEW q \in OnDisk(parts[p].disk) PROVE ~(Order(p) < Order(q))
      OBVIOUS
    <3>1. q \in Parts
      BY DEF OnDisk
    <3>2. parts[q].start \in Nat /\ parts[q].start <= parts[p].start
      BY <1>2, <3>1, PartsAre DEF LastOnDisk, Geometry
    <3> QED
      BY <1>1, <1>3, <3>2 DEF Order
  <2>2. Later(p) = {}
    BY <2>1 DEF Later
  <2>3. EndBytes(p) = Size[parts[p].disk]
    BY <1>2, <1>3 DEF EndBytes, StartBytes, Order
  <2>4. FreeAfter(p) = 0
    BY <1>1, <2>2, <2>3 DEF FreeAfter
  <2> QED
    BY <2>4 DEF Resizable, MinResize
<1>4. CASE view = "none"
  <2>1. SUFFICES ASSUME FreeAfter(p) >= MinResize PROVE FALSE
    BY DEF Resizable
  <2>2. Later(p) = {}
    BY <1>4, <2>1, FreeByName DEF Geometry
  <2>3. Order(p) = SumOfSizes(OnDisk(parts[p].disk) \ {p})
    BY <1>4, <2>2, ByName DEF Geometry
  <2>4. Order(p) = parts[p].start
    BY <1>2, <1>4, <2>3 DEF NoGaps
  <2>5. EndBytes(p) = Size[parts[p].disk]
    BY <1>2, <1>4, <2>4 DEF EndBytes, StartBytes
  <2>6. FreeAfter(p) = 0
    BY <1>1, <2>2, <2>5 DEF FreeAfter
  <2> QED
    BY <2>1, <2>6 DEF MinResize
<1> QED
  BY <1>3, <1>4

(***************************************************************************)
(* Mounts of several partitions, one after the other.                      *)
(***************************************************************************)
MountTables == [MountPoints -> Seq(Parts)]

LEMMA OneMount ==
  ASSUME NEW m \in MountTables, NEW p \in Parts, NEW d \in MountPoints
  PROVE  /\ MountedOn(m, p, d) \in MountTables
         /\ \A e \in MountPoints : Range(MountedOn(m, p, d)[e]) \subseteq
              Range(m[e]) \cup (IF e = d /\ parts[p].fs # "none" THEN {p} ELSE {})
<1>1. CASE p \in Range(m[d]) \/ parts[p].fs = "none"
  BY <1>1 DEF MountedOn
<1>2. CASE ~(p \in Range(m[d]) \/ parts[p].fs = "none")
  <2>1. MountedOn(m, p, d) = [m EXCEPT ![d] = Append(m[d], p)]
    BY <1>2 DEF MountedOn
  <2>2. m[d] \in Seq(Parts)
    BY DEF MountTables
  <2>3. PICK s \in Seq(Parts) : s = m[d]
    BY <2>2
  <2>4. PICK a : a = Append(s, p)
    OBVIOUS
  <2>5. a \in Seq(Parts) /\ Len(a) = Len(s) + 1 /\ a[Len(s) + 1] = p /\ \A i \in 1 .. Len(s) : a[i] = s[i]
    BY <2>4, AppendProperties
  <2>6. Range(a) \subseteq Range(s) \cup {p}
    <3> SUFFICES ASSUME NEW i \in 1 .. (Len(s) + 1) PROVE a[i] \in Range(s) \cup {p}
      BY <2>5 DEF Range
    <3>1. CASE i = Len(s) + 1
      BY <2>5, <3>1
    <3>2. CASE i \in 1 .. Len(s)
      BY <2>5, <3>2 DEF Range
    <3> QED
      BY <3>1, <3>2
  <2>7. MountedOn(m, p, d) = [m EXCEPT ![d] = a]
    BY <2>1, <2>3, <2>4
  <2> QED
    BY <1>2, <2>3, <2>5, <2>6, <2>7 DEF MountTables
<1> QED
  BY <1>1, <1>2

LEMMA RowPrefixes ==
  ASSUME parts \in Seq(PartitionRecord), mounts \in MountTables, NEW dir \in [Parts -> MountPoints], NEW R,
         NEW table, table = RowTable(dir, R)
  PROVE  \E g : /\ g[0] = mounts /\ table = g[Len(parts)]
                /\ \A i \in 1 .. Len(parts) : g[i] = IF i \in R THEN MountedOn(g[i - 1], i, dir[i]) ELSE g[i - 1]
<1>1. PICK n \in Nat : n = Len(parts) /\ Parts = 1 .. n
  BY PartsAre
<1>2. PICK f : f = [p \in Parts |-> p]
  OBVIOUS
<1>3. DOMAIN f = 1 .. n /\ \A i \in 1 .. n : f[i] = i
  BY <1>1, <1>2
<1> DEFINE Row(m, i) == IF i \in R THEN MountedOn(m, i, dir[i]) ELSE m
<1>4. PICK F : F = [m \in MountTables |-> [i \in 1 .. n |-> Row(m, i)]]
  OBVIOUS
<1>5. \A m \in MountTables : \A i \in 1 .. n : Row(m, i) \in MountTables
  BY <1>1, OneMount
<1>6. F \in [MountTables -> [1 .. n -> MountTables]]
  <2> HIDE DEF Row
  <2> QED
    BY <1>4, <1>5
<1>7. PICK b \in MountTables : b = mounts
  OBVIOUS
<1>8. PICK u \in [SUBSET (1 .. n) -> MountTables] : FoldOver(n, b, F, u)
  BY <1>6, FoldExists
<1> DEFINE Is(w) == w = [t \in SUBSET (1 .. n) |->
                           IF t = {} THEN b
                           ELSE IF f[Max(t)] \in R THEN MountedOn(w[t \ {Max(t)}], f[Max(t)], dir[f[Max(t)]])
                           ELSE w[t \ {Max(t)}]]
<1>9. Is(u)
  <2>1. ASSUME NEW t \in SUBSET (1 .. n)
        PROVE  u[t] = IF t = {} THEN b
                      ELSE IF f[Max(t)] \in R THEN MountedOn(u[t \ {Max(t)}], f[Max(t)], dir[f[Max(t)]])
                      ELSE u[t \ {Max(t)}]
    <3>1. CASE t = {}
      BY <3>1, <1>8 DEF FoldOver
    <3>2. CASE t # {}
      <4>1. Max(t) \in 1 .. n
        BY <3>2, MaxIsIn
      <4>2. PICK k \in 1 .. n : k = Max(t)
        BY <4>1
      <4>3. PICK v \in MountTables : v = u[t \ {k}]
        OBVIOUS
      <4>4. u[t] = F[v][k]
        BY <3>2, <1>8, <4>2, <4>3 DEF FoldOver
      <4>5. F[v][k] = Row(v, k)
        <5> HIDE DEF Row
        <5> QED
          BY <1>4
      <4>6. f[k] = k
        BY <1>3
      <4> QED
        BY <3>2, <4>2, <4>3, <4>4, <4>5, <4>6
    <3> QED
      BY <3>1, <3>2
  <2> QED
    BY <2>1
<1>10. PICK w : w = CHOOSE v : Is(v)
  OBVIOUS
<1>11. Is(w)
  <2> HIDE DEF Is
  <2> QED
    BY <1>9, <1>10
<1>12. table = w[1 .. n]
  BY <1>2, <1>3, <1>7, <1>10 DEF RowTable, FoldLeft, MapThenFoldSet
<1>13. PICK g : g = [i \in 0 .. n |-> w[1 .. i]]
  OBVIOUS
<1>14. g[0] = mounts /\ table = g[n]
  <2>1. 1 .. 0 = {} /\ 0 \in 0 .. n /\ n \in 0 .. n
    OBVIOUS
  <2>2. w[{}] = b
    BY <1>11
  <2> QED
    BY <1>7, <1>12, <1>13, <2>1, <2>2
<1>15. ASSUME NEW i \in 1 .. n
       PROVE  g[i] = IF i \in R THEN MountedOn(g[i - 1], i, dir[i]) ELSE g[i - 1]
  <2>1. PICK j \in Nat : j = i - 1
    OBVIOUS
  <2>2. j + 1 = i /\ (1 .. i) \ {i} = 1 .. j /\ i \in 1 .. i /\ 1 .. i \in SUBSET (1 .. n)
    BY <2>1
  <2>3. Max(1 .. i) = i
    BY <2>1, <2>2, MaxFacts
  <2>4. g[i] = w[1 .. i] /\ g[i - 1] = w[1 .. j]
    BY <1>13, <2>1
  <2>5. w[1 .. i] = IF f[i] \in R THEN MountedOn(w[1 .. j], f[i], dir[f[i]]) ELSE w[1 .. j]
    BY <1>11, <2>2, <2>3
  <2>6. f[i] = i
    BY <1>3
  <2> QED
    BY <2>4, <2>5, <2>6
<1> QED
  BY <1>1, <1>14, <1>15

\* What rows of partitions are mounted is mounted where it was to be, and has a file
\* system.
LEMMA RowsAreMounted ==
  ASSUME parts \in Seq(PartitionRecord), mounts \in MountTables, NEW dir \in [Parts -> MountPoints],
         NEW rows \in SUBSET Parts, MountRows(dir, rows)
  PROVE  /\ mounts' \in MountTables
         /\ \A d \in MountPoints :
              Range(mounts'[d]) \subseteq Range(mounts[d]) \cup {p \in rows : dir[p] = d /\ parts[p].fs # "none"}
<1>1. PICK n \in Nat : n = Len(parts) /\ Parts = 1 .. n
  BY PartsAre
<1>2. PICK failed : mounts' = RowTable(dir, rows \ failed)
  BY DEF MountRows
<1>3. PICK R : R = rows \ failed
  OBVIOUS
<1>4. PICK table : table = mounts'
  OBVIOUS
<1>5. PICK g : /\ g[0] = mounts /\ table = g[n]
               /\ \A i \in 1 .. n : g[i] = IF i \in R THEN MountedOn(g[i - 1], i, dir[i]) ELSE g[i - 1]
  BY <1>1, <1>2, <1>3, <1>4, RowPrefixes
<1> DEFINE Good(m) == /\ m \in MountTables
                      /\ \A d \in MountPoints :
                           Range(m[d]) \subseteq Range(mounts[d]) \cup {p \in rows : dir[p] = d /\ parts[p].fs # "none"}
<1>6. PICK N : N = {i \in Nat : i <= n => Good(g[i])}
  OBVIOUS
<1>7. 0 \in N
  BY <1>5, <1>6
<1>8. ASSUME NEW i \in Nat, i \in N
      PROVE  i + 1 \in N
  <2> SUFFICES ASSUME i + 1 <= n PROVE Good(g[i + 1])
    <3> HIDE DEF Good
    <3> QED
      BY <1>6
  <2>1. PICK j \in 1 .. n : j = i + 1
    OBVIOUS
  <2>2. j - 1 = i /\ i <= n
    BY <2>1
  <2>3. Good(g[i])
    <3> HIDE DEF Good
    <3> QED
      BY <1>6, <1>8, <2>2
  <2>4. g[j] = IF j \in R THEN MountedOn(g[i], j, dir[j]) ELSE g[i]
    BY <1>5, <2>2
  <2>5. CASE j \notin R
    BY <2>1, <2>3, <2>4, <2>5
  <2>6. CASE j \in R
    <3>1. PICK m \in MountTables, e \in MountPoints : m = g[i] /\ e = dir[j]
      BY <1>1, <2>3
    <3>2. j \in Parts /\ j \in rows
      BY <1>1, <1>3, <2>6
    <3>3. /\ MountedOn(m, j, e) \in MountTables
          /\ \A d \in MountPoints : Range(MountedOn(m, j, e)[d]) \subseteq
               Range(m[d]) \cup (IF d = e /\ parts[j].fs # "none" THEN {j} ELSE {})
      BY <3>2, OneMount
    <3>4. \A d \in MountPoints :
            Range(m[d]) \subseteq Range(mounts[d]) \cup {p \in rows : dir[p] = d /\ parts[p].fs # "none"}
      BY <2>3, <3>1
    <3>5. Good(MountedOn(m, j, e))
      BY <3>1, <3>2, <3>3, <3>4
    <3> HIDE DEF Good
    <3> QED
      BY <2>1, <2>4, <2>6, <3>1, <3>5
  <2> QED
    BY <2>5, <2>6
<1> HIDE DEF Good
<1>9. Nat \subseteq N
  BY <1>7, <1>8, SetInduction
<1>10. Good(table)
  <2>1. n \in N /\ n <= n
    BY <1>9
  <2> QED
    BY <1>5, <1>6, <2>1
<1> QED
  BY <1>4, <1>10 DEF Good

(***************************************************************************)
(* What a step does to the partitions.                                     *)
(***************************************************************************)

\* The partitions, the mounts and the resize are left alone.
Rests ==
  /\ UNCHANGED <<disk, mounts, job>>
  /\ step # "idle" => phase' = phase /\ gate' = gate

MountsAtBoot ==
  /\ step = "idle"
  /\ mounts' = [d \in MountPoints |-> CASE d = "/boot" -> SetToSeq(boot) [] d = "/Video" -> fstab [] OTHER -> <<>>]
  /\ UNCHANGED <<disk, job>>

JobBegins ==
  /\ gate # "closed" /\ gate' = gate /\ phase' \in {"resize", "serve"}
  /\ \E caller \in Callers : Begin(caller)

Remounts ==
  /\ step = "idle"
  /\ \E dir \in [Parts -> MountPoints], rows \in SUBSET Parts :
       /\ MountRows(dir, rows)
       /\ \A p \in rows : dir[p] = "/Video" => parts[p].label = "recordings"
  /\ UNCHANGED <<disk, job>>

JobStep == ResizeStep /\ UNCHANGED <<phase, gate>>

Records ==
  /\ mounts["/Video"] # <<>>
  /\ parts' = [parts EXCEPT ![Last(mounts["/Video"])].content = "video"]
  /\ UNCHANGED <<boot, view, fstab, mounts, job, phase, gate>>

\* A resize ends, by itself or because the process does: mkfs may be cut short.
JobCut ==
  /\ step' = "idle" /\ target' = None
  /\ \/ UNCHANGED parts
     \/ /\ step \in {"format", "label"} /\ ~Mounted(target)
        /\ parts' = [parts EXCEPT ![target] = NoFileSystem]
  /\ mounts' = mounts \/ mounts' = [d \in MountPoints |-> <<>>]
  /\ UNCHANGED <<boot, view, fstab>>

PartStep ==
  Rests \/ MountsAtBoot \/ JobBegins \/ Remounts \/ JobStep \/ Records \/ JobCut

\* A resize runs at the first boot or for a request, and before the first boot is
\* recorded as done; from mkfs to the label its partition is empty and unmounted.
JobInv ==
  /\ step \in Steps /\ target \in Parts \cup {None}
  /\ step = "idle" <=> target = None
  /\ step # "idle" => phase \in {"resize", "serve"}
  /\ Busy => gate # "closed"
  /\ step \in {"grow", "label"} => parts[target].content = "none" /\ ~Mounted(target)

LEMMA KnownMounts == mount_known_partitions /\ step = "idle" => Remounts
<1> SUFFICES ASSUME mount_known_partitions, step = "idle" PROVE Remounts
  OBVIOUS
<1>1. PICK dir : dir = [p \in Parts |-> IF parts[p].label = "recordings" THEN "/Video" ELSE "/Config"]
  OBVIOUS
<1>2. PICK rows : rows = {p \in Parts : parts[p].label \in {"recordings", "openhd"}}
  OBVIOUS
<1>3. MountRows(dir, rows) /\ UNCHANGED <<disk, job>>
  BY <1>1, <1>2 DEF mount_known_partitions
<1>4. dir \in [Parts -> MountPoints] /\ rows \in SUBSET Parts
  BY <1>1, <1>2 DEF MountPoints
<1>5. \A p \in rows : dir[p] = "/Video" => parts[p].label = "recordings"
  BY <1>1, <1>2
<1> QED
  BY <1>3, <1>4, <1>5 DEF Remounts

LEMMA ReportMounts == build_partitions_response /\ step = "idle" => Remounts
<1> SUFFICES ASSUME build_partitions_response, step = "idle" PROVE Remounts
  OBVIOUS
<1>1. PICK dir : dir = [p \in Parts |-> "/Video"]
  OBVIOUS
<1>2. PICK rows : rows = {p \in Parts : parts[p].label = "recordings" /\ (view = "none" \/ ~Mounted(p))}
  OBVIOUS
<1>3. MountRows(dir, rows) /\ UNCHANGED <<disk, job>>
  BY <1>1, <1>2 DEF build_partitions_response
<1>4. dir \in [Parts -> MountPoints] /\ rows \in SUBSET Parts
  BY <1>1, <1>2 DEF MountPoints
<1>5. \A p \in rows : dir[p] = "/Video" => parts[p].label = "recordings"
  BY <1>1, <1>2
<1> QED
  BY <1>3, <1>4, <1>5 DEF Remounts

LEMMA StepsOfParts ==
  ASSUME step # "idle" => phase \in {"resize", "serve"}, [Next]_vars
  PROVE  PartStep
<1>0. ASSUME UNCHANGED pvars, UNCHANGED <<phase, gate>> \/ phase \notin {"resize", "serve"} \/ step = "idle"
      PROVE  PartStep
  BY <1>0 DEF pvars, Rests, PartStep
<1>1. CASE MainStep
  <2>1. CASE PowerOn
    BY <2>1 DEF PowerOn, MountsAtBoot, PartStep
  <2>2. CASE run_firstboot_tasks
    <3>1. CASE gate = "open" /\ phase' = "resize" /\ Begin("firstboot")
      BY <2>2, <3>1 DEF run_firstboot_tasks, config, JobBegins, Callers, PartStep
    <3>2. CASE UNCHANGED pvars
      BY <1>0, <2>2, <3>2 DEF run_firstboot_tasks, MainAt
    <3> QED
      BY <2>2, <3>1, <3>2 DEF run_firstboot_tasks
  <2>3. CASE FirstResizeEnds
    BY <2>3 DEF FirstResizeEnds, JobEnds, JobCut, disk, PartStep
  <2>4. CASE FirstMounts \/ GetReady
    BY <2>4, KnownMounts DEF FirstMounts, GetReady, PartStep
  <2>5. CASE EarlyScreen \/ FirstCameraEnds \/ CloseGate \/ LinkSerial \/ StartServices
    BY <1>0, <2>5 DEF EarlyScreen, FirstCameraEnds, CloseGate, LinkSerial, StartServices, MainAt
  <2>6. CASE start_ground_video_if_needed
    BY <1>0, <2>6 DEF start_ground_video_if_needed, MainAt
  <2> QED
    BY <1>1, <2>1, <2>2, <2>3, <2>4, <2>5, <2>6 DEF MainStep
<1>2. CASE Requests
  <2>1. CASE handle_partition_resize_request
    BY <2>1 DEF handle_partition_resize_request, ResizeAllowed, Serving, config, main, JobBegins, Callers, PartStep
  <2>2. CASE ResizeAnswered
    BY <2>2 DEF ResizeAnswered, JobEnds, JobCut, disk, PartStep
  <2>3. CASE PartitionsRequested
    BY <2>3, ReportMounts DEF PartitionsRequested, Serving, PartStep
  <2>4. CASE \E t \in 1..Threads, id \in Ids[board] : handle_camera_setup_request(id, t)
    BY <1>0, <2>4 DEF handle_camera_setup_request, config, main
  <2>5. CASE \E action \in Actions : handle_video_request(action)
    BY <1>0, <2>5 DEF handle_video_request, config, main
  <2>6. CASE RoleChanges
    BY <1>0, <2>6 DEF RoleChanges, main
  <2>7. CASE \E r \in LinkRequests : LinkRequested(r)
    BY <1>0, <2>7 DEF LinkRequested, config, main
  <2> QED
    BY <1>2, <2>1, <2>2, <2>3, <2>4, <2>5, <2>6, <2>7 DEF Requests
<1>3. CASE ResizeOn
  BY <1>3 DEF ResizeOn, config, main, JobStep, PartStep
<1>4. CASE VideoOn \/ LinkOn \/ OpenHdOn \/ UserAndScreen \/ Plugging
  BY <1>0, <1>4 DEF VideoOn, LinkOn, OpenHdOn, UserAndScreen, Plugging, config, main
<1>5. CASE \E t \in 0..Threads : CameraStep(t) \/ CameraThreadEnds(t)
  BY <1>0, <1>5 DEF CameraStep, CameraThreadEnds, config, main
<1>6. CASE WorkerStarts \/ WorkerEnds
  BY <1>6 DEF WorkerStarts, WorkerEnds, config, main, Rests, PartStep
<1>7. CASE Recorded
  BY <1>7 DEF Recorded, config, main, Records, PartStep
<1>8. CASE Reboot \/ PowerCut \/ Restart
  <2>1. ProcessEnds /\ (mounts' = mounts \/ mounts' = [d \in MountPoints |-> <<>>])
    BY <1>8 DEF Reboot, PowerCut, Restart, PowerOff
  <2> QED
    BY <2>1 DEF ProcessEnds, JobCut, PartStep
<1>9. CASE UNCHANGED vars
  BY <1>0, <1>9 DEF vars, config, main
<1> QED
  BY <1>1, <1>2, <1>3, <1>4, <1>5, <1>6, <1>7, <1>8, <1>9 DEF Next

\* One partition is filled otherwise, and all stay where they are.
SamePlaces ==
  /\ parts' \in Seq(PartitionRecord) /\ Parts' = Parts
  /\ \A p \in Parts : /\ parts'[p].disk = parts[p].disk /\ parts'[p].start = parts[p].start
                      /\ parts'[p].size = parts[p].size

Fills(t, r) ==
  /\ parts' = [parts EXCEPT ![t] = r]
  /\ r.label = "recordings" => r.fs = "fat"

LEMMA Filled ==
  ASSUME Geometry, NEW t \in Parts, NEW r \in PartitionRecord, Fills(t, r),
         r.disk = parts[t].disk, r.start = parts[t].start, r.size = parts[t].size
  PROVE  /\ SamePlaces /\ parts'[t] = r /\ \A p \in Parts : p # t => parts'[p] = parts[p]
         /\ \A p \in Parts : parts'[p].label = "recordings" => parts'[p].fs = "fat"
<1>1. PICK n \in Nat : n = Len(parts) /\ Parts = 1 .. n /\ \A p \in 1 .. n : parts[p] \in PartitionRecord
  BY PartsAre DEF Geometry
<1>2. parts \in Seq(PartitionRecord) /\ parts' = [parts EXCEPT ![t] = r]
  BY DEF Geometry, Fills
<1>3. parts' \in Seq(PartitionRecord) /\ Parts' = Parts
  BY <1>2 DEF Parts
<1>4. parts'[t] = r /\ \A p \in Parts : p # t => parts'[p] = parts[p]
  BY <1>2 DEF Parts
<1>5. \A p \in Parts : /\ parts'[p].disk = parts[p].disk /\ parts'[p].start = parts[p].start
                       /\ parts'[p].size = parts[p].size
  BY <1>4
<1>6. \A p \in Parts : parts'[p].label = "recordings" => parts'[p].fs = "fat"
  BY <1>4 DEF Fills, Geometry
<1> QED
  BY <1>3, <1>4, <1>5, <1>6 DEF SamePlaces

Formatted(t, f, l) == [parts[t] EXCEPT !.fs = f, !.label = l, !.content = "none"]

LEMMA MkfsFills ==
  ASSUME Geometry, NEW t \in Parts, NEW f \in FileSystems, NEW l \in Labels,
         NEW r, r = Formatted(t, f, l), Fills(t, r)
  PROVE  /\ SamePlaces /\ parts'[t] = r /\ \A p \in Parts : p # t => parts'[p] = parts[p]
         /\ \A p \in Parts : parts'[p].label = "recordings" => parts'[p].fs = "fat"
         /\ r.fs = f /\ r.label = l /\ r.content = "none"
<1>1. parts[t] \in PartitionRecord
  BY PartsAre DEF Geometry
<1>2. /\ r \in PartitionRecord /\ r.disk = parts[t].disk /\ r.start = parts[t].start /\ r.size = parts[t].size
      /\ r.fs = f /\ r.label = l /\ r.content = "none"
  BY <1>1 DEF Formatted, PartitionRecord, Contents
<1> QED
  BY <1>2, Filled

LEMMA ContentFills ==
  ASSUME Geometry, NEW t \in Parts, NEW c \in Contents, parts' = [parts EXCEPT ![t].content = c]
  PROVE  /\ SamePlaces /\ \A p \in Parts : p # t => parts'[p] = parts[p]
         /\ \A p \in Parts : parts'[p].fs = parts[p].fs /\ parts'[p].label = parts[p].label
         /\ \A p \in Parts : parts'[p].label = "recordings" => parts'[p].fs = "fat"
         /\ parts'[t].content = c
<1>1. parts[t] \in PartitionRecord
  BY PartsAre DEF Geometry
<1>2. PICK r : r = [parts[t] EXCEPT !.content = c]
  OBVIOUS
<1>3. /\ r \in PartitionRecord /\ r.disk = parts[t].disk /\ r.start = parts[t].start /\ r.size = parts[t].size
      /\ r.fs = parts[t].fs /\ r.label = parts[t].label /\ r.content = c
  BY <1>1, <1>2 DEF PartitionRecord
<1>4. Fills(t, r)
  BY <1>2, <1>3 DEF Fills, Geometry
<1> QED
  BY <1>3, <1>4, Filled

\* What holds of the places goes on to hold.
LEMMA SameGeometry ==
  ASSUME Geometry, SamePlaces, \A p \in Parts : parts'[p].label = "recordings" => parts'[p].fs = "fat"
  PROVE  /\ Geometry'
         /\ \A p \in Parts : GrownOut(p) => GrownOut(p)'
<1>1. \A p \in Parts : EndOf(p)' = EndOf(p)
  BY DEF SamePlaces, EndOf
<1>2. \A p, q \in Parts : SameDisk(p, q)' = SameDisk(p, q)
  BY DEF SamePlaces, SameDisk
<1>3. Geometry'
  <2>1. (\A p \in Parts : EndOf(p) <= Size[parts[p].disk])'
    BY <1>1 DEF Geometry, SamePlaces
  <2>2. (\A p, q \in Parts : p # q /\ SameDisk(p, q) => EndOf(p) <= parts[q].start \/ EndOf(q) <= parts[p].start)'
    BY <1>1, <1>2 DEF Geometry, SamePlaces
  <2> QED
    BY <2>1, <2>2 DEF Geometry, SamePlaces
<1>4. \A p \in Parts : OnDisk(parts[p].disk)' = OnDisk(parts[p].disk)
  BY DEF SamePlaces, OnDisk
<1>5. \A p \in Parts : LastOnDisk(p) => LastOnDisk(p)'
  <2> SUFFICES ASSUME NEW p \in Parts, LastOnDisk(p) PROVE LastOnDisk(p)'
    OBVIOUS
  <2>1. \A q \in OnDisk(parts[p].disk) : q \in Parts
    BY DEF OnDisk
  <2> QED
    BY <1>4, <2>1 DEF LastOnDisk, SamePlaces
<1> QED
  BY <1>1, <1>3, <1>5 DEF GrownOut, SamePlaces

\* parted: the last partition of its disk reaches to the end.
Grown(t) ==
  /\ \A q \in OnDisk(parts[t].disk) : parts[q].start <= parts[t].start
  /\ parts' = [parts EXCEPT ![t].size = Size[parts[t].disk] - parts[t].start]

LEMMA GrowsOut ==
  ASSUME Geometry, NEW t \in Parts, Grown(t)
  PROVE  /\ Geometry' /\ Parts' = Parts /\ GrownOut(t)'
         /\ \A p \in Parts : p # t => parts'[p] = parts[p]
         /\ \A p \in Parts : /\ parts'[p].fs = parts[p].fs /\ parts'[p].label = parts[p].label
                             /\ parts'[p].content = parts[p].content /\ parts'[p].disk = parts[p].disk
                             /\ parts'[p].start = parts[p].start
         /\ \A p \in Parts : GrownOut(p) => GrownOut(p)'
<1>1. PICK n \in Nat : /\ n = Len(parts) /\ Parts = 1 .. n
                       /\ \A p \in 1 .. n : /\ parts[p] \in PartitionRecord
                                            /\ parts[p].start \in Nat /\ parts[p].size \in Nat /\ parts[p].size > 0
                                            /\ parts[p].disk \in DOMAIN Size /\ Size[parts[p].disk] \in Nat
  BY PartsAre DEF Geometry
<1>2. PICK s : s = Size[parts[t].disk] - parts[t].start
  OBVIOUS
<1>3. s \in Nat /\ s > 0 /\ parts[t].size <= s /\ parts[t].start + s = Size[parts[t].disk]
  <2>1. parts[t].start + parts[t].size <= Size[parts[t].disk]
    BY DEF Geometry, EndOf
  <2>2. PICK a \in Nat, b \in Nat, c \in Nat : a = parts[t].start /\ b = parts[t].size /\ c = Size[parts[t].disk] /\ b > 0
    BY <1>1
  <2> QED
    BY <1>2, <2>1, <2>2
<1>4. PICK r : r = [parts[t] EXCEPT !.size = s]
  OBVIOUS
<1>5. /\ r \in PartitionRecord /\ r.disk = parts[t].disk /\ r.start = parts[t].start /\ r.size = s
      /\ r.fs = parts[t].fs /\ r.label = parts[t].label /\ r.content = parts[t].content
  BY <1>1, <1>3, <1>4 DEF PartitionRecord
<1>6. parts \in Seq(PartitionRecord) /\ parts' = [parts EXCEPT ![t] = r]
  BY <1>2, <1>4 DEF Geometry, Grown
<1>7. parts' \in Seq(PartitionRecord) /\ Parts' = Parts
  BY <1>5, <1>6 DEF Parts
<1>8. parts'[t] = r /\ \A p \in Parts : p # t => parts'[p] = parts[p]
  BY <1>6 DEF Parts
<1>9. \A p \in Parts : /\ parts'[p].fs = parts[p].fs /\ parts'[p].label = parts[p].label
                       /\ parts'[p].content = parts[p].content /\ parts'[p].disk = parts[p].disk
                       /\ parts'[p].start = parts[p].start
  BY <1>5, <1>8
<1>10. EndOf(t)' = Size[parts[t].disk] /\ \A p \in Parts : p # t => EndOf(p)' = EndOf(p)
  BY <1>3, <1>5, <1>8 DEF EndOf
<1>11. \A p, q \in Parts : SameDisk(p, q)' = SameDisk(p, q)
  BY <1>9 DEF SameDisk
<1>12. \A q \in Parts : q # t /\ SameDisk(q, t) => EndOf(q) <= parts[t].start
  <2> SUFFICES ASSUME NEW q \in Parts, q # t, SameDisk(q, t) PROVE EndOf(q) <= parts[t].start
    OBVIOUS
  <2>1. parts[q].start <= parts[t].start
    BY DEF Grown, OnDisk, SameDisk
  <2>2. EndOf(q) <= parts[t].start \/ EndOf(t) <= parts[q].start
    BY DEF Geometry
  <2>3. PICK a \in Nat, b \in Nat, c \in Nat : a = parts[t].start /\ b = parts[t].size /\ c = parts[q].start /\ b > 0
    BY <1>1
  <2> QED
    BY <2>1, <2>2, <2>3 DEF EndOf
<1>13. Geometry'
  <2>1. ASSUME NEW p \in Parts
        PROVE  EndOf(p)' <= Size[parts'[p].disk]
    <3>1. CASE p = t
      BY <1>1, <1>9, <1>10, <3>1
    <3>2. CASE p # t
      BY <1>9, <1>10, <3>2 DEF Geometry
    <3> QED
      BY <3>1, <3>2
  <2>2. ASSUME NEW p \in Parts, NEW q \in Parts, p # q, SameDisk(p, q)
        PROVE  EndOf(p)' <= parts'[q].start \/ EndOf(q)' <= parts'[p].start
    <3>1. CASE p = t
      <4>1. SameDisk(q, t)
        BY <2>2, <3>1 DEF SameDisk
      <4> QED
        BY <1>9, <1>10, <1>12, <2>2, <3>1, <4>1
    <3>2. CASE q = t
      BY <1>9, <1>10, <1>12, <2>2, <3>2
    <3>3. CASE p # t /\ q # t
      BY <1>9, <1>10, <2>2, <3>3 DEF Geometry
    <3> QED
      BY <3>1, <3>2, <3>3
  <2>3. \A p \in Parts : parts'[p].label = "recordings" => parts'[p].fs = "fat"
    BY <1>9 DEF Geometry
  <2> QED
    BY <1>7, <1>11, <2>1, <2>2, <2>3 DEF Geometry
<1>14. \A d : OnDisk(d)' = OnDisk(d)
  BY <1>7, <1>9 DEF OnDisk
<1>15. \A p \in Parts : LastOnDisk(p) => LastOnDisk(p)'
  <2>1. \A d : \A q \in OnDisk(d) : q \in Parts
    BY DEF OnDisk
  <2> QED
    BY <1>9, <1>14, <2>1 DEF LastOnDisk
<1>16. LastOnDisk(t)
  BY DEF Grown, LastOnDisk
<1>17. GrownOut(t)'
  BY <1>9, <1>10, <1>15, <1>16 DEF GrownOut
<1>18. \A p \in Parts : GrownOut(p) => GrownOut(p)'
  <2> SUFFICES ASSUME NEW p \in Parts, GrownOut(p), p # t PROVE GrownOut(p)'
    BY <1>17
  <2> QED
    BY <1>9, <1>10, <1>15 DEF GrownOut
<1> QED
  BY <1>7, <1>8, <1>9, <1>13, <1>17, <1>18

(***************************************************************************)
(* The types of the partitions, and the course of a resize.                *)
(***************************************************************************)
PartInv ==
  /\ Geometry /\ boot \subseteq Parts /\ view \in Views
  /\ mounts \in MountTables /\ fstab \in Seq(Parts)
  /\ JobInv

\* What a command of resize_fat32_partition does to the partitions.
MkfsDoes(t) ==
  \/ UNCHANGED parts
  \/ \E f \in {"fat", "none"}, l \in {"none", "recordings"} :
       /\ l = "recordings" => f = "fat"
       /\ parts' = [parts EXCEPT ![t] = Formatted(t, f, l)]

LEMMA MkfsIs ==
  ASSUME Geometry, target \in Parts, NEW label \in {"none", "recordings"}, NEW next, Mkfs(label, next)
  PROVE  /\ ~Mounted(target)
         /\ UNCHANGED <<boot, view, fstab, mounts, target, by>>
         /\ MkfsDoes(target)
         /\ \/ step' = "failed"
            \/ step' = next /\ parts' = [parts EXCEPT ![target] = EmptyFat(label)]
<1>1. ~Mounted(target) /\ UNCHANGED <<boot, view, fstab, mounts>>
  BY DEF Mkfs
<1>2. CASE Go(next) /\ parts' = [parts EXCEPT ![target] = EmptyFat(label)]
  <2>1. MkfsDoes(target)
    BY <1>2 DEF MkfsDoes, EmptyFat, Formatted
  <2> QED
    BY <1>1, <1>2, <2>1 DEF Go
<1>3. CASE Fails({parts[target], NoFileSystem})
  <2>1. Go("failed")
    BY <1>3 DEF Fails
  <2>2. CASE parts' = [parts EXCEPT ![target] = parts[target]]
    <3>1. CASE parts' = parts
      BY <1>1, <2>1, <3>1 DEF MkfsDoes, Go
    <3>2. [parts EXCEPT ![target] = parts[target]] = parts
      BY DEF Geometry, Parts
    <3> QED
      BY <2>2, <3>1, <3>2
  <2>3. CASE parts' = [parts EXCEPT ![target] = NoFileSystem]
    BY <1>1, <2>1, <2>3 DEF MkfsDoes, NoFileSystem, Formatted, Go
  <2> QED
    BY <1>3, <2>2, <2>3 DEF Fails
<1> QED
  BY <1>2, <1>3 DEF Mkfs

LEMMA MkfsLeaves ==
  ASSUME Geometry, NEW t \in Parts, MkfsDoes(t)
  PROVE  /\ SamePlaces /\ \A p \in Parts : p # t => parts'[p] = parts[p]
         /\ \A p \in Parts : parts'[p].label = "recordings" => parts'[p].fs = "fat"
<1>1. CASE UNCHANGED parts
  BY <1>1 DEF SamePlaces, Geometry, Parts
<1>2. ASSUME NEW f \in {"fat", "none"}, NEW l \in {"none", "recordings"}, l = "recordings" => f = "fat",
             parts' = [parts EXCEPT ![t] = Formatted(t, f, l)]
      PROVE  /\ SamePlaces /\ \A p \in Parts : p # t => parts'[p] = parts[p]
             /\ \A p \in Parts : parts'[p].label = "recordings" => parts'[p].fs = "fat"
  <2>1. PICK r : r = Formatted(t, f, l)
    OBVIOUS
  <2>2. f \in FileSystems /\ l \in Labels
    BY DEF FileSystems, Labels
  <2>3. parts[t] \in PartitionRecord
    BY PartsAre DEF Geometry
  <2>4. Fills(t, r)
    BY <1>2, <2>1, <2>3 DEF Fills, Formatted, PartitionRecord
  <2> QED
    BY <2>1, <2>2, <2>4, MkfsFills
<1> QED
  BY <1>1, <1>2 DEF MkfsDoes

LEMMA EmptyFatIs ==
  ASSUME Geometry, target \in Parts, NEW label \in {"none", "recordings"},
         parts' = [parts EXCEPT ![target] = EmptyFat(label)]
  PROVE  parts'[target].fs = "fat" /\ parts'[target].label = label /\ parts'[target].content = "none"
<1>1. PICK t \in Parts : t = target
  OBVIOUS
<1>2. PICK r : r = Formatted(t, "fat", label)
  OBVIOUS
<1>3. parts' = [parts EXCEPT ![t] = r]
  BY <1>1, <1>2 DEF EmptyFat, Formatted
<1>4. PICK f \in FileSystems, l \in Labels : f = "fat" /\ l = label /\ (l = "recordings" => f = "fat")
  BY DEF FileSystems, Labels
<1>5. r = Formatted(t, f, l)
  BY <1>2, <1>4
<1>6. parts[t] \in PartitionRecord
  BY PartsAre DEF Geometry
<1>7. Fills(t, r)
  BY <1>3, <1>4, <1>5, <1>6 DEF Fills, Formatted, PartitionRecord
<1>8. parts'[t] = r /\ r.fs = f /\ r.label = l /\ r.content = "none"
  BY <1>5, <1>7, MkfsFills
<1> QED
  BY <1>1, <1>4, <1>8

\* The steps of a resize, and what each leaves of the partitions.
LEMMA ResizeIs ==
  ASSUME PartInv, ResizeStep
  PROVE  /\ UNCHANGED <<boot, view, target, by>> /\ target \in Parts /\ Busy
         /\ \/ /\ step = "format" /\ MkfsDoes(target) /\ ~Mounted(target) /\ UNCHANGED <<fstab, mounts>>
               /\ \/ step' = "failed"
                  \/ step' = "grow" /\ parts'[target].content = "none"
            \/ step = "format" /\ step' = "failed" /\ UNCHANGED <<parts, fstab, mounts>>
            \/ step = "grow" /\ step' = "label" /\ Grown(target) /\ UNCHANGED <<fstab, mounts>>
            \/ step = "grow" /\ step' = "failed" /\ UNCHANGED <<parts, fstab, mounts>>
            \/ /\ step = "label" /\ MkfsDoes(target) /\ ~Mounted(target) /\ UNCHANGED <<fstab, mounts>>
               /\ \/ step' = "failed"
                  \/ step' = "type" /\ parts'[target].fs = "fat" /\ parts'[target].label = "recordings"
            \/ step = "type" /\ step' \in {"fstab", "failed"} /\ UNCHANGED <<parts, fstab, mounts>>
            \/ /\ step = "fstab" /\ step' = "mount" /\ UNCHANGED <<parts, mounts>>
               /\ fstab' = IF target \in Range(fstab) THEN fstab ELSE Append(fstab, target)
            \/ step = "fstab" /\ step' = "failed" /\ UNCHANGED <<parts, fstab, mounts>>
            \/ /\ step = "mount" /\ step' = "done" /\ UNCHANGED fstab
               /\ mounts' = MountedOn(mounts, target, "/Video")
               /\ parts' = [parts EXCEPT ![target].content = "marker"]
            \/ step = "mount" /\ step' = "failed" /\ UNCHANGED <<parts, fstab, mounts>>
<1>1. step \in {"format", "grow", "label", "type", "fstab", "mount"}
  BY DEF ResizeStep, Refused, Format, Grow, Label, Type, Fstab, MountVideo
<1>2. target \in Parts /\ Busy
  BY <1>1 DEF PartInv, JobInv, Busy
<1>3. CASE Refused
  BY <1>2, <1>3 DEF Refused, Go, disk
<1>4. CASE Format
  <2>1. step = "format" /\ Mkfs("none", "grow")
    BY <1>4 DEF Format
  <2>2. parts' = [parts EXCEPT ![target] = EmptyFat("none")] => parts'[target].content = "none"
    BY <1>2, EmptyFatIs DEF PartInv
  <2> QED
    BY <1>2, <2>1, <2>2, MkfsIs DEF PartInv
<1>5. CASE Grow
  <2>1. step = "grow" /\ UNCHANGED <<boot, view, fstab, mounts>>
    BY <1>5 DEF Grow
  <2>2. CASE Fails({parts[target]})
    <3>1. [parts EXCEPT ![target] = parts[target]] = parts
      BY <1>2 DEF PartInv, Geometry, Parts
    <3> QED
      BY <1>2, <2>1, <2>2, <3>1 DEF Fails, Go
  <2>3. CASE Go("failed") /\ UNCHANGED parts
    BY <1>2, <2>1, <2>3 DEF Go
  <2>4. CASE Go("label") /\ Grown(target)
    BY <1>2, <2>1, <2>4 DEF Go
  <2> QED
    BY <1>5, <2>2, <2>3, <2>4 DEF Grow, Grown
<1>6. CASE Label
  <2>1. step = "label" /\ Mkfs("recordings", "type")
    BY <1>6 DEF Label
  <2>2. parts' = [parts EXCEPT ![target] = EmptyFat("recordings")] =>
          parts'[target].fs = "fat" /\ parts'[target].label = "recordings"
    BY <1>2, EmptyFatIs DEF PartInv
  <2> QED
    BY <1>2, <2>1, <2>2, MkfsIs DEF PartInv
<1>7. CASE Type
  BY <1>2, <1>7 DEF Type, Go, disk
<1>8. CASE Fstab
  BY <1>2, <1>8 DEF Fstab, Go
<1>9. CASE MountVideo
  BY <1>2, <1>9 DEF MountVideo, Go
<1> QED
  BY <1>3, <1>4, <1>5, <1>6, <1>7, <1>8, <1>9 DEF ResizeStep

LEMMA BootIsListed ==
  ASSUME Geometry, boot \subseteq Parts
  PROVE  SetToSeq(boot) \in Seq(Parts)
<1>1. PICK n \in Nat : Parts = 1 .. n
  BY PartsAre DEF Geometry
<1>2. IsFiniteSet(boot)
  <2>1. IsFiniteSet(1 .. n)
    BY FS_Interval
  <2> QED
    BY <1>1, <2>1, FS_Subset
<1>3. PICK S : S = boot
  OBVIOUS
<1>4. Cardinality(S) \in Nat /\ ExistsBijection(1 .. Cardinality(S), S)
  BY <1>2, <1>3, FS_CardinalityType
<1>5. PICK k \in Nat : k = Cardinality(S)
  BY <1>4
<1>6. PICK f \in [1 .. k -> S] : \A a, b \in 1 .. k : f[a] = f[b] => a = b
  BY <1>4, <1>5 DEF ExistsBijection, Bijection, Injection, IsInjective
<1>7. IsInjective(f)
  BY <1>6 DEF IsInjective
<1>8. PICK g : g = CHOOSE h \in [1 .. k -> S] : IsInjective(h)
  OBVIOUS
<1>9. g \in [1 .. k -> S]
  BY <1>6, <1>7, <1>8
<1>10. SetToSeq(boot) = g
  BY <1>3, <1>5, <1>8 DEF SetToSeq
<1> QED
  BY <1>3, <1>9, <1>10

LEMMA LayoutIsSound ==
  ASSUME Init
  PROVE  Geometry /\ boot \subseteq Parts
<1>1. PICK u \in Units : parts = u.layout.parts /\ boot = u.layout.boot
  BY DEF Init
<1>2. PICK l \in Layouts : parts = l.parts /\ boot = l.boot
  BY <1>1, DeviceAssumption
<1>3. parts \in Seq(PartitionRecord) /\ boot \subseteq DOMAIN parts
  BY <1>2, PartitionAssumption
<1>4. \A p \in DOMAIN parts :
        /\ parts[p].start + parts[p].size <= Size[parts[p].disk]
        /\ parts[p].label = "recordings" => parts[p].fs = "fat"
        /\ \A q \in DOMAIN parts : p # q /\ parts[p].disk = parts[q].disk =>
             \/ parts[p].start + parts[p].size <= parts[q].start
             \/ parts[q].start + parts[q].size <= parts[p].start
  BY <1>2, PartitionAssumption
<1> QED
  BY <1>3, <1>4 DEF Geometry, Parts, EndOf, SameDisk

LEMMA PartInvInit == Init => PartInv
<1> SUFFICES ASSUME Init PROVE PartInv
  OBVIOUS
<1>1. Geometry /\ boot \subseteq Parts
  BY LayoutIsSound
<1>2. view \in Views /\ mounts = [d \in MountPoints |-> <<>>] /\ fstab = <<>> /\ step = "idle" /\ target = None
  BY DEF Init
<1>3. mounts \in MountTables /\ fstab \in Seq(Parts)
  BY <1>2 DEF MountTables
<1>4. JobInv
  BY <1>2 DEF JobInv, Steps, Busy
<1> QED
  BY <1>1, <1>2, <1>3, <1>4 DEF PartInv

\* Of the mounts only their set matters.
LEMMA MountedSame ==
  ASSUME UNCHANGED mounts, NEW p
  PROVE  Mounted(p)' = Mounted(p)
BY DEF Mounted

LEMMA VideoIsMounted ==
  ASSUME PartInv, mounts["/Video"] # <<>>
  PROVE  \E t \in Parts : t = Last(mounts["/Video"]) /\ Mounted(t)
<1>1. PICK s : s = mounts["/Video"]
  OBVIOUS
<1>2. s \in Seq(Parts) /\ s # <<>>
  BY <1>1 DEF PartInv, MountTables, MountPoints
<1>3. Len(s) \in DOMAIN s /\ Last(s) = s[Len(s)] /\ s[Len(s)] \in Parts
  BY <1>2 DEF Last
<1>4. Last(s) \in Range(s)
  BY <1>3 DEF Range
<1> QED
  BY <1>1, <1>3, <1>4 DEF Mounted, MountPoints

LEMMA AppendsTo ==
  ASSUME NEW S, NEW s \in Seq(S), NEW x \in S
  PROVE  Append(s, x) \in Seq(S) /\ Range(Append(s, x)) = Range(s) \cup {x}
<1>1. PICK a : a = Append(s, x)
  OBVIOUS
<1>2. a \in Seq(S) /\ Len(a) = Len(s) + 1 /\ a[Len(s) + 1] = x /\ \A i \in 1 .. Len(s) : a[i] = s[i]
  BY <1>1, AppendProperties
<1>3. Range(a) \subseteq Range(s) \cup {x}
  <2> SUFFICES ASSUME NEW i \in 1 .. (Len(s) + 1) PROVE a[i] \in Range(s) \cup {x}
    BY <1>2 DEF Range
  <2>1. CASE i = Len(s) + 1
    BY <1>2, <2>1
  <2>2. CASE i \in 1 .. Len(s)
    BY <1>2, <2>2 DEF Range
  <2> QED
    BY <2>1, <2>2
<1>4. x \in Range(a) /\ Range(s) \subseteq Range(a)
  <2>1. Len(s) + 1 \in DOMAIN a /\ \A i \in DOMAIN s : i \in DOMAIN a /\ a[i] = s[i]
    BY <1>2
  <2> QED
    BY <1>2, <2>1 DEF Range
<1> QED
  BY <1>1, <1>2, <1>3, <1>4

LEMMA PartInvJob == PartInv /\ JobStep => PartInv'
<1> SUFFICES ASSUME PartInv, JobStep PROVE PartInv'
  OBVIOUS
<1>1. /\ UNCHANGED <<boot, view, target, phase, gate>> /\ target \in Parts /\ Busy /\ Geometry
      /\ boot \subseteq Parts /\ view \in Views /\ mounts \in MountTables /\ fstab \in Seq(Parts)
      /\ phase \in {"resize", "serve"} /\ gate # "closed" /\ target # None
  BY ResizeIs, PartitionAssumption DEF JobStep, PartInv, JobInv, Busy
<1>2. ASSUME Geometry', Parts' = Parts, fstab' \in Seq(Parts), mounts' \in MountTables, step' \in Steps \ {"idle"},
             step' \in {"grow", "label"} => parts'[target].content = "none" /\ ~Mounted(target)'
      PROVE  PartInv'
  <2>1. JobInv'
    BY <1>1, <1>2 DEF JobInv, Busy
  <2>2. MountTables' = MountTables
    BY <1>2 DEF MountTables
  <2> QED
    BY <1>1, <1>2, <2>1, <2>2 DEF PartInv
<1>3. ASSUME MkfsDoes(target)
      PROVE  Geometry' /\ Parts' = Parts
  BY <1>1, <1>3, MkfsLeaves, SameGeometry DEF SamePlaces
<1>4. CASE /\ step = "format" /\ MkfsDoes(target) /\ ~Mounted(target) /\ UNCHANGED <<fstab, mounts>>
           /\ step' = "failed" \/ (step' = "grow" /\ parts'[target].content = "none")
  <2>1. ~Mounted(target)'
    BY <1>4, <1>1 DEF Mounted
  <2> QED
    BY <1>1, <1>2, <1>3, <1>4, <2>1 DEF Steps
<1>5. CASE UNCHANGED <<parts, fstab, mounts>> /\ step' \in {"failed", "fstab"}
  <2>1. Geometry' /\ Parts' = Parts
    BY <1>1, <1>5 DEF Geometry, Parts, EndOf, SameDisk
  <2> QED
    BY <1>1, <1>2, <1>5, <2>1 DEF Steps
<1>6. CASE step = "grow" /\ step' = "label" /\ Grown(target) /\ UNCHANGED <<fstab, mounts>>
  <2>1. Geometry' /\ Parts' = Parts /\ parts'[target].content = parts[target].content
    BY <1>1, <1>6, GrowsOut
  <2>2. parts[target].content = "none" /\ ~Mounted(target)
    BY <1>6 DEF PartInv, JobInv
  <2>3. ~Mounted(target)'
    BY <1>1, <1>6, <2>2 DEF Mounted
  <2> QED
    BY <1>1, <1>2, <1>6, <2>1, <2>2, <2>3 DEF Steps
<1>7. CASE /\ step = "label" /\ MkfsDoes(target) /\ UNCHANGED <<fstab, mounts>> /\ step' \in {"failed", "type"}
  BY <1>1, <1>2, <1>3, <1>7 DEF Steps
<1>8. CASE /\ step' = "mount" /\ UNCHANGED <<parts, mounts>>
           /\ fstab' = IF target \in Range(fstab) THEN fstab ELSE Append(fstab, target)
  <2>1. Geometry' /\ Parts' = Parts
    BY <1>8, <1>1 DEF Geometry, Parts, EndOf, SameDisk
  <2>2. fstab' \in Seq(Parts)
    BY <1>1, <1>8, AppendsTo
  <2> QED
    BY <1>1, <1>2, <1>8, <2>1, <2>2 DEF Steps
<1>9. CASE /\ step' = "done" /\ UNCHANGED fstab
           /\ mounts' = MountedOn(mounts, target, "/Video")
           /\ parts' = [parts EXCEPT ![target].content = "marker"]
  <2>1. Geometry' /\ Parts' = Parts
    <3>1. PICK t \in Parts, c \in Contents : t = target /\ c = "marker"
      BY <1>1 DEF Contents
    <3>2. parts' = [parts EXCEPT ![t].content = c]
      BY <1>9, <3>1
    <3>3. SamePlaces /\ \A p \in Parts : parts'[p].label = "recordings" => parts'[p].fs = "fat"
      BY <1>1, <3>2, ContentFills
    <3> QED
      BY <1>1, <3>3, SameGeometry DEF SamePlaces
  <2>2. mounts' \in MountTables
    <3>1. PICK t \in Parts, d \in MountPoints, m \in MountTables : t = target /\ d = "/Video" /\ m = mounts
      BY <1>1 DEF MountPoints
    <3> QED
      BY <1>9, <3>1, OneMount
  <2> QED
    BY <1>1, <1>2, <1>9, <2>1, <2>2 DEF Steps
<1> QED
  BY <1>4, <1>5, <1>6, <1>7, <1>8, <1>9, ResizeIs DEF JobStep

LEMMA PartInvStep == PartInv /\ [Next]_vars => PartInv'
<1> SUFFICES ASSUME PartInv, [Next]_vars PROVE PartInv'
  OBVIOUS
<1>0. PartStep
  BY StepsOfParts DEF PartInv, JobInv
<1>1. ASSUME Geometry', Parts' = Parts, JobInv', UNCHANGED <<boot, view, fstab>>, mounts' \in MountTables
      PROVE  PartInv'
  <2>1. MountTables' = MountTables
    BY <1>1 DEF MountTables
  <2> QED
    BY <1>1, <2>1 DEF PartInv
<1>2. ASSUME UNCHANGED parts
      PROVE  Geometry' /\ Parts' = Parts
  BY <1>2 DEF PartInv, Geometry, Parts, EndOf, SameDisk
<1>3. mounts \in MountTables /\ Geometry /\ JobInv /\ boot \subseteq Parts /\ fstab \in Seq(Parts)
  BY DEF PartInv
<1>4. CASE Rests
  <2>1. UNCHANGED <<disk, mounts, job>> /\ (step # "idle" => phase' = phase /\ gate' = gate)
    BY <1>4 DEF Rests
  <2>2. Parts' = Parts /\ Mounted(target)' = Mounted(target) /\ UNCHANGED <<parts, step, target>>
    BY <2>1 DEF Parts, Mounted, disk, job
  <2>3. JobInv'
    BY <1>3, <2>1, <2>2 DEF JobInv, Busy
  <2> QED
    BY <1>1, <1>2, <1>3, <2>1, <2>2, <2>3 DEF disk
<1>5. CASE MountsAtBoot
  <2>1. UNCHANGED <<parts, step, target, boot, view, fstab>> /\ step = "idle"
    BY <1>5 DEF MountsAtBoot, disk, job
  <2>2. JobInv'
    BY <1>3, <2>1 DEF JobInv, Busy, Parts
  <2>3. SetToSeq(boot) \in Seq(Parts)
    BY <1>3, BootIsListed
  <2>4. mounts' \in MountTables
    <3>1. \A d \in MountPoints :
            (CASE d = "/boot" -> SetToSeq(boot) [] d = "/Video" -> fstab [] OTHER -> <<>>) \in Seq(Parts)
      BY <1>3, <2>3 DEF MountPoints
    <3> QED
      BY <1>5, <3>1 DEF MountsAtBoot, MountTables
  <2> QED
    BY <1>1, <1>2, <2>1, <2>2, <2>4
<1>6. CASE JobBegins
  <2>1. /\ UNCHANGED <<parts, boot, view, fstab, mounts, gate>> /\ gate # "closed" /\ phase' \in {"resize", "serve"}
        /\ step' = "format" /\ target' = find_resize_candidate /\ find_resize_candidate # None
    BY <1>6 DEF JobBegins, Begin, disk
  <2>2. find_resize_candidate \in Parts
    BY <1>3, <2>1, CandidateIs DEF Geometry, Resizable
  <2>3. JobInv'
    BY <1>2, <2>1, <2>2 DEF JobInv, Busy, Steps
  <2> QED
    BY <1>1, <1>2, <1>3, <2>1, <2>3
<1>7. CASE Remounts
  <2>1. UNCHANGED <<parts, step, target, boot, view, fstab>> /\ step = "idle"
    BY <1>7 DEF Remounts, disk, job
  <2>2. JobInv'
    BY <1>3, <2>1 DEF JobInv, Busy, Parts
  <2>3. PICK dir \in [Parts -> MountPoints], rows \in SUBSET Parts : MountRows(dir, rows)
    BY <1>7 DEF Remounts
  <2>4. mounts' \in MountTables
    BY <1>3, <2>3, RowsAreMounted DEF Geometry
  <2> QED
    BY <1>1, <1>2, <2>1, <2>2, <2>4
<1>8. CASE JobStep
  BY <1>8, PartInvJob
<1>9. CASE Records
  <2>1. PICK t \in Parts, c \in Contents : t = Last(mounts["/Video"]) /\ Mounted(t) /\ c = "video"
    BY <1>9, VideoIsMounted DEF Records, Contents
  <2>2. parts' = [parts EXCEPT ![t].content = c] /\ UNCHANGED <<boot, view, fstab, mounts, step, target, phase, gate>>
    BY <1>9, <2>1 DEF Records, job
  <2>3. /\ SamePlaces /\ \A p \in Parts : p # t => parts'[p] = parts[p]
        /\ \A p \in Parts : parts'[p].label = "recordings" => parts'[p].fs = "fat"
    BY <1>3, <2>2, ContentFills
  <2>4. Geometry' /\ Parts' = Parts
    BY <1>3, <2>3, SameGeometry DEF SamePlaces
  <2>5. Mounted(target)' = Mounted(target)
    BY <2>2 DEF Mounted
  <2>6. step \in {"grow", "label"} => parts'[target].content = "none"
    <3> SUFFICES ASSUME step \in {"grow", "label"} PROVE parts'[target].content = "none"
      OBVIOUS
    <3>1. target \in Parts /\ ~Mounted(target) /\ parts[target].content = "none"
      BY <1>3 DEF JobInv
    <3> QED
      BY <2>1, <2>3, <3>1
  <2>7. JobInv'
    BY <1>3, <2>2, <2>4, <2>5, <2>6 DEF JobInv, Busy
  <2> QED
    BY <1>1, <1>3, <2>2, <2>4, <2>7
<1>10. CASE JobCut
  <2>1. step' = "idle" /\ target' = None /\ UNCHANGED <<boot, view, fstab>>
    BY <1>10 DEF JobCut
  <2>2. Geometry' /\ Parts' = Parts
    <3>1. CASE UNCHANGED parts
      BY <1>2, <3>1
    <3>2. CASE step \in {"format", "label"} /\ parts' = [parts EXCEPT ![target] = NoFileSystem]
      <4>1. target \in Parts
        BY <1>3, <3>2 DEF JobInv
      <4>2. MkfsDoes(target)
        BY <3>2 DEF MkfsDoes, NoFileSystem, Formatted
      <4> QED
        BY <1>3, <4>1, <4>2, MkfsLeaves, SameGeometry DEF SamePlaces
    <3> QED
      BY <1>10, <3>1, <3>2 DEF JobCut
  <2>3. mounts' \in MountTables
    <3>1. [d \in MountPoints |-> <<>>] \in MountTables
      BY DEF MountTables
    <3> QED
      BY <1>3, <1>10, <3>1 DEF JobCut
  <2>4. JobInv'
    BY <2>1 DEF JobInv, Busy, Steps
  <2> QED
    BY <1>1, <2>1, <2>2, <2>3, <2>4
<1> QED
  BY <1>0, <1>4, <1>5, <1>6, <1>7, <1>8, <1>9, <1>10 DEF PartStep

(***************************************************************************)
(* What is mounted on /Video.  A candidate is not in fstab: all that is     *)
(* has been grown to the end of its disk.  So what mkfs takes is mounted    *)
(* neither now nor at the next boot, until it has its label.                *)
(***************************************************************************)
VideoIs(p) == parts[p].fs = "fat" /\ parts[p].label = "recordings"

ListInv ==
  /\ \A p \in Range(fstab) : GrownOut(p) /\ VideoIs(p)
  /\ step \in {"format", "grow", "label", "type"} => target \notin Range(fstab)
  /\ step \in {"label", "type", "fstab"} => GrownOut(target)
  /\ step \in {"type", "fstab", "mount"} => VideoIs(target)

RecordingsInv == NoGaps /\ ListInv /\ \A p \in Range(mounts["/Video"]) : VideoIs(p)

LEMMA SumInIs ==
  ASSUME NEW m \in Nat, NEW ps, NEW u, SumsFor(m, Sizes(ps), u), NEW S \in SUBSET (1 .. m)
  PROVE  SumIn(ps, S) = u[S]
<1>1. Sizes(ps) \in [1 .. m -> Nat] /\ u \in [SUBSET (1 .. m) -> Nat] /\ SumsOf(m, Sizes(ps), u)
  BY DEF SumsFor
<1>2. MapThenSumSet(LAMBDA q : ps[q].size, S) = u[S]
  BY <1>1, SumsAre
<1> QED
  BY <1>2 DEF SumIn

LEMMA SizesAre ==
  ASSUME NEW ps \in Seq(PartitionRecord), NEW n \in Nat, DOMAIN ps = 1 .. n
  PROVE  /\ \A p \in 1 .. n : Sizes(ps)[p] = ps[p].size
         /\ \E u : SumsFor(n, Sizes(ps), u)
<1>1. \A p \in DOMAIN ps : ps[p] \in PartitionRecord
  OBVIOUS
<1>2. \A p \in 1 .. n : ps[p].size \in Nat
  BY <1>1 DEF PartitionRecord
<1>3. Sizes(ps) \in [1 .. n -> Nat] /\ \A p \in 1 .. n : Sizes(ps)[p] = ps[p].size
  BY <1>2 DEF Sizes
<1>4. PICK f \in [1 .. n -> Nat] : f = Sizes(ps)
  BY <1>3
<1>5. PICK u \in [SUBSET (1 .. n) -> Nat] : SumsOf(n, f, u)
  BY SumsExist
<1>6. SumsFor(n, Sizes(ps), u)
  BY <1>4, <1>5 DEF SumsFor
<1> QED
  BY <1>3, <1>6

\* A sum depends on the sizes of its partitions only.
LEMMA SumsStay ==
  ASSUME Geometry, parts' \in Seq(PartitionRecord), Parts' = Parts,
         NEW S \in SUBSET Parts, \A p \in S : parts'[p].size = parts[p].size
  PROVE  SumOfSizes(S)' = SumOfSizes(S)
<1>1. PICK n \in Nat : Parts = 1 .. n
  BY PartsAre DEF Geometry
<1>2. PICK ps, rs : ps = parts /\ rs = parts'
  OBVIOUS
<1>3. ps \in Seq(PartitionRecord) /\ rs \in Seq(PartitionRecord) /\ DOMAIN ps = 1 .. n /\ DOMAIN rs = 1 .. n
  BY <1>1, <1>2 DEF Geometry, Parts
<1>4. PICK u : SumsFor(n, Sizes(ps), u)
  BY <1>3, SizesAre
<1>5. PICK v : SumsFor(n, Sizes(rs), v)
  BY <1>3, SizesAre
<1>6. S \in SUBSET (1 .. n)
  BY <1>1
<1>7. SameOn(S, Sizes(ps), Sizes(rs))
  <2>1. \A p \in 1 .. n : Sizes(ps)[p] = ps[p].size
    BY <1>3, SizesAre
  <2>2. \A p \in 1 .. n : Sizes(rs)[p] = rs[p].size
    BY <1>3, SizesAre
  <2> QED
    BY <1>2, <1>6, <2>1, <2>2 DEF SameOn
<1>8. u[S] = v[S]
  BY <1>4, <1>5, <1>6, <1>7, SumsAgree
<1>9. SumIn(ps, S) = u[S]
  BY <1>4, <1>6, SumInIs
<1>10. SumIn(rs, S) = v[S]
  BY <1>5, <1>6, SumInIs
<1> QED
  BY <1>2, <1>8, <1>9, <1>10 DEF SumOfSizes

\* The last partition of a disk is one only.
LEMMA LastIsOne ==
  ASSUME Geometry, NEW p \in Parts, NEW q \in Parts, SameDisk(p, q), LastOnDisk(p), LastOnDisk(q)
  PROVE  p = q
<1>1. /\ parts[p].start \in Nat /\ parts[p].size \in Nat /\ parts[p].size > 0
      /\ parts[q].start \in Nat /\ parts[q].size \in Nat /\ parts[q].size > 0
  BY PartsAre DEF Geometry
<1>2. parts[p].start <= parts[q].start /\ parts[q].start <= parts[p].start
  BY DEF LastOnDisk, OnDisk, SameDisk
<1>3. p # q => parts[p].start + parts[p].size <= parts[q].start \/ parts[q].start + parts[q].size <= parts[p].start
  BY DEF Geometry, EndOf
<1> QED
  BY <1>1, <1>2, <1>3

\* Nothing opens a gap: only the last partition grows.
LEMMA NoGapsOpen ==
  ASSUME NoGaps, Geometry, Geometry', view' = view, Parts' = Parts,
         \A p \in Parts : parts'[p].disk = parts[p].disk /\ parts'[p].start = parts[p].start,
         NEW t, \A p \in Parts : p # t => parts'[p].size = parts[p].size,
         t \in Parts => LastOnDisk(t) \/ parts'[t].size = parts[t].size
  PROVE  NoGaps'
<1> SUFFICES ASSUME view = "none", NEW p \in Parts, LastOnDisk(p)'
             PROVE  parts'[p].start = SumOfSizes(OnDisk(parts[p].disk) \ {p})'
  BY DEF NoGaps
<1>1. \A d : OnDisk(d)' = OnDisk(d)
  BY DEF OnDisk
<1>2. PICK S : S = OnDisk(parts[p].disk) \ {p}
  OBVIOUS
<1>3. S \in SUBSET Parts /\ \A q \in S : q # p /\ SameDisk(p, q)
  BY <1>2 DEF OnDisk, SameDisk
<1>4. LastOnDisk(p)
  BY <1>1 DEF LastOnDisk, OnDisk
<1>5. \A q \in S : parts'[q].size = parts[q].size
  <2> SUFFICES ASSUME NEW q \in S PROVE parts'[q].size = parts[q].size
    OBVIOUS
  <2>1. q \in Parts /\ q # p /\ SameDisk(p, q)
    BY <1>3
  <2>2. LastOnDisk(q) => q = p
    BY <1>4, <2>1, LastIsOne
  <2> QED
    BY <2>1, <2>2
<1>6. SumOfSizes(S)' = SumOfSizes(S)
  BY <1>3, <1>5, SumsStay DEF Geometry
<1>7. SumOfSizes(OnDisk(parts[p].disk) \ {p})' = SumOfSizes(S)'
  BY <1>1, <1>2 DEF SumOfSizes
<1>8. parts[p].start = SumOfSizes(S)
  BY <1>2, <1>4 DEF NoGaps
<1> QED
  BY <1>6, <1>7, <1>8

LEMMA NoGapsAtFirst == Tight /\ Init => NoGaps
<1> SUFFICES ASSUME Tight, Init, view = "none", NEW p \in Parts, LastOnDisk(p)
             PROVE  parts[p].start = SumOfSizes(OnDisk(parts[p].disk) \ {p})
  BY DEF NoGaps
<1>1. PICK l \in Layouts : parts = l.parts
  <2>1. PICK u \in Units : parts = u.layout.parts
    BY DEF Init
  <2> QED
    BY <2>1, DeviceAssumption
<1>2. "none" \in Views
  BY DEF Init
<1>3. PICK ps : ps = l.parts
  OBVIOUS
<1>4. NoGapsIn(ps)
  BY <1>2, <1>3 DEF Tight
<1>5. PICK rest : rest = {q \in DOMAIN ps : ps[q].disk = ps[p].disk} \ {p}
  OBVIOUS
<1>6. (\A q \in rest : ps[q].start <= ps[p].start) => ps[p].start = SumIn(ps, rest)
  BY <1>1, <1>3, <1>4, <1>5 DEF NoGapsIn, SumIn, Parts
<1>7. rest = OnDisk(parts[p].disk) \ {p}
  BY <1>1, <1>3, <1>5 DEF OnDisk, Parts
<1>8. \A q \in rest : ps[q].start <= ps[p].start
  BY <1>1, <1>3, <1>7 DEF LastOnDisk
<1> QED
  BY <1>1, <1>3, <1>6, <1>7, <1>8 DEF SumOfSizes

LEMMA RecordingsInit == Tight /\ Init => RecordingsInv
<1> SUFFICES ASSUME Tight, Init PROVE RecordingsInv
  OBVIOUS
<1>1. NoGaps
  BY NoGapsAtFirst
<1>2. fstab = <<>> /\ step = "idle" /\ mounts = [d \in MountPoints |-> <<>>]
  BY DEF Init
<1>3. Range(fstab) = {} /\ Range(mounts["/Video"]) = {}
  BY <1>2 DEF Range, MountPoints
<1> QED
  BY <1>1, <1>2, <1>3 DEF RecordingsInv, ListInv

\* The invariant from its parts, for a step that moves no partition.
LEMMA RecordingsFrom ==
  ASSUME PartInv, RecordingsInv, SamePlaces, UNCHANGED view, Geometry', ListInv',
         \A p \in Range(mounts'["/Video"]) : VideoIs(p)'
  PROVE  RecordingsInv'
<1>1. NoGaps'
  <2>1. PICK t : t = None
    OBVIOUS
  <2>2. /\ Parts' = Parts
        /\ \A p \in Parts : /\ parts'[p].disk = parts[p].disk /\ parts'[p].start = parts[p].start
                            /\ parts'[p].size = parts[p].size
    BY DEF SamePlaces
  <2> QED
    BY <2>2, NoGapsOpen DEF PartInv, RecordingsInv
<1> QED
  BY <1>1 DEF RecordingsInv

LEMMA RecordingsJob == PartInv /\ RecordingsInv /\ JobStep => RecordingsInv'
<1> SUFFICES ASSUME PartInv, RecordingsInv, JobStep PROVE RecordingsInv'
  OBVIOUS
<1>1. /\ UNCHANGED <<boot, view, target>> /\ target \in Parts /\ Geometry /\ Geometry'
      /\ mounts \in MountTables /\ fstab \in Seq(Parts)
  BY ResizeIs, PartInvJob DEF JobStep, PartInv
<1>2. /\ NoGaps /\ (\A p \in Range(fstab) : p \in Parts /\ GrownOut(p) /\ VideoIs(p))
      /\ \A p \in Range(mounts["/Video"]) : p \in Parts /\ VideoIs(p) /\ Mounted(p)
  BY <1>1 DEF RecordingsInv, ListInv, MountTables, MountPoints, Mounted, Range
<1>3. ASSUME UNCHANGED <<parts, fstab, mounts>>, ListInv' PROVE RecordingsInv'
  <2>1. SamePlaces
    BY <1>1, <1>3 DEF SamePlaces, Geometry, Parts
  <2>2. \A p \in Range(mounts'["/Video"]) : VideoIs(p)'
    BY <1>2, <1>3 DEF VideoIs
  <2> QED
    BY <1>1, <1>3, <2>1, <2>2, RecordingsFrom
<1>4. ASSUME MkfsDoes(target), ~Mounted(target), UNCHANGED <<fstab, mounts>>, target \notin Range(fstab)
      PROVE  /\ SamePlaces /\ (\A p \in Range(fstab') : GrownOut(p)' /\ VideoIs(p)')
             /\ \A p \in Range(mounts'["/Video"]) : VideoIs(p)'
             /\ GrownOut(target) => GrownOut(target)'
  <2>1. /\ SamePlaces /\ \A p \in Parts : p # target => parts'[p] = parts[p]
        /\ \A p \in Parts : parts'[p].label = "recordings" => parts'[p].fs = "fat"
    BY <1>1, <1>4, MkfsLeaves
  <2>2. \A p \in Parts : GrownOut(p) => GrownOut(p)'
    BY <1>1, <2>1, SameGeometry
  <2>3. \A p \in Range(fstab) : p # target
    BY <1>4
  <2>4. \A p \in Range(mounts["/Video"]) : p # target
    BY <1>2, <1>4
  <2> QED
    BY <1>1, <1>2, <1>4, <2>1, <2>2, <2>3, <2>4 DEF VideoIs
<1>5. CASE /\ step = "format" /\ MkfsDoes(target) /\ ~Mounted(target) /\ UNCHANGED <<fstab, mounts>>
           /\ step' \in {"failed", "grow"}
  <2>1. target \notin Range(fstab)
    BY <1>5 DEF RecordingsInv, ListInv
  <2>2. ListInv'
    BY <1>1, <1>4, <1>5, <2>1 DEF ListInv
  <2> QED
    BY <1>1, <1>4, <1>5, <2>1, <2>2, RecordingsFrom
<1>6. CASE step' = "failed" /\ UNCHANGED <<parts, fstab, mounts>>
  <2>1. ListInv'
    BY <1>6, <1>2 DEF ListInv, GrownOut, LastOnDisk, OnDisk, EndOf, VideoIs, Parts
  <2> QED
    BY <1>3, <1>6, <2>1
<1>7. CASE step = "grow" /\ step' = "label" /\ Grown(target) /\ UNCHANGED <<fstab, mounts>>
  <2>1. /\ Parts' = Parts /\ GrownOut(target)'
        /\ \A p \in Parts : p # target => parts'[p] = parts[p]
        /\ \A p \in Parts : /\ parts'[p].fs = parts[p].fs /\ parts'[p].label = parts[p].label
                            /\ parts'[p].disk = parts[p].disk /\ parts'[p].start = parts[p].start
        /\ \A p \in Parts : GrownOut(p) => GrownOut(p)'
    BY <1>1, <1>7, GrowsOut
  <2>2. LastOnDisk(target)
    BY <1>7 DEF Grown, LastOnDisk
  <2>3. NoGaps'
    <3>1. PICK t \in Parts : t = target
      BY <1>1
    <3>2. \A p \in Parts : parts'[p].disk = parts[p].disk /\ parts'[p].start = parts[p].start
      BY <2>1
    <3>3. \A p \in Parts : p # t => parts'[p].size = parts[p].size
      BY <2>1, <3>1
    <3> QED
      BY <1>1, <1>2, <2>1, <2>2, <3>1, <3>2, <3>3, NoGapsOpen
  <2>4. target \notin Range(fstab)
    BY <1>7 DEF RecordingsInv, ListInv
  <2>5. ListInv'
    BY <1>1, <1>2, <1>7, <2>1, <2>4 DEF ListInv, VideoIs
  <2>6. \A p \in Range(mounts'["/Video"]) : VideoIs(p)'
    BY <1>2, <1>7, <2>1 DEF VideoIs
  <2> QED
    BY <2>3, <2>5, <2>6 DEF RecordingsInv
<1>8. CASE /\ step = "label" /\ MkfsDoes(target) /\ ~Mounted(target) /\ UNCHANGED <<fstab, mounts>>
           /\ \/ step' = "failed"
              \/ step' = "type" /\ parts'[target].fs = "fat" /\ parts'[target].label = "recordings"
  <2>1. target \notin Range(fstab) /\ GrownOut(target)
    BY <1>8 DEF RecordingsInv, ListInv
  <2>2. step' = "type" => VideoIs(target)'
    BY <1>1, <1>8 DEF VideoIs
  <2>3. ListInv'
    BY <1>1, <1>4, <1>8, <2>1, <2>2 DEF ListInv
  <2> QED
    BY <1>1, <1>4, <1>8, <2>1, <2>3, RecordingsFrom
<1>9. CASE step = "type" /\ step' = "fstab" /\ UNCHANGED <<parts, fstab, mounts>>
  <2>1. GrownOut(target) /\ VideoIs(target)
    BY <1>9 DEF RecordingsInv, ListInv
  <2>2. ListInv'
    BY <1>1, <1>2, <1>9, <2>1 DEF ListInv, GrownOut, LastOnDisk, OnDisk, EndOf, VideoIs, Parts
  <2> QED
    BY <1>3, <1>9, <2>2
<1>10. CASE /\ step = "fstab" /\ step' = "mount" /\ UNCHANGED <<parts, mounts>>
            /\ fstab' = IF target \in Range(fstab) THEN fstab ELSE Append(fstab, target)
  <2>1. GrownOut(target) /\ VideoIs(target)
    BY <1>10 DEF RecordingsInv, ListInv
  <2>2. Range(fstab') \subseteq Range(fstab) \cup {target}
    BY <1>1, <1>10, AppendsTo
  <2>3. \A p \in Range(fstab') : GrownOut(p) /\ VideoIs(p)
    BY <1>2, <2>1, <2>2
  <2>4. SamePlaces
    BY <1>1, <1>10 DEF SamePlaces, Geometry, Parts
  <2>5. ListInv'
    BY <1>1, <1>10, <2>1, <2>3 DEF ListInv, GrownOut, LastOnDisk, OnDisk, EndOf, VideoIs, Parts
  <2>6. \A p \in Range(mounts'["/Video"]) : VideoIs(p)'
    BY <1>2, <1>10 DEF VideoIs
  <2> QED
    BY <1>1, <2>4, <2>5, <2>6, RecordingsFrom
<1>11. CASE /\ step = "mount" /\ step' = "done" /\ UNCHANGED fstab
            /\ mounts' = MountedOn(mounts, target, "/Video")
            /\ parts' = [parts EXCEPT ![target].content = "marker"]
  <2>1. VideoIs(target)
    BY <1>11 DEF RecordingsInv, ListInv
  <2>2. PICK t \in Parts, c \in Contents, d \in MountPoints, m \in MountTables :
          t = target /\ c = "marker" /\ d = "/Video" /\ m = mounts
    BY <1>1 DEF Contents, MountPoints
  <2>3. parts' = [parts EXCEPT ![t].content = c]
    BY <1>11, <2>2
  <2>4. /\ SamePlaces /\ \A p \in Parts : parts'[p].fs = parts[p].fs /\ parts'[p].label = parts[p].label
        /\ \A p \in Parts : parts'[p].label = "recordings" => parts'[p].fs = "fat"
    BY <1>1, <2>3, ContentFills
  <2>5. \A p \in Parts : GrownOut(p) => GrownOut(p)'
    BY <1>1, <2>4, SameGeometry
  <2>6. Range(MountedOn(m, t, d)[d]) \subseteq Range(m[d]) \cup {t}
    BY OneMount
  <2>7. \A p \in Range(mounts'["/Video"]) : p \in Parts /\ VideoIs(p)
    BY <1>2, <1>11, <2>1, <2>2, <2>6
  <2>8. \A p \in Parts : VideoIs(p) => VideoIs(p)'
    BY <2>4 DEF VideoIs
  <2>9. ListInv'
    BY <1>1, <1>2, <1>11, <2>5, <2>8 DEF ListInv
  <2> QED
    BY <1>1, <2>4, <2>7, <2>8, <2>9, RecordingsFrom
<1> QED
  BY <1>5, <1>6, <1>7, <1>8, <1>9, <1>10, <1>11, ResizeIs DEF JobStep

LEMMA RecordingsStep == Tight /\ PartInv /\ RecordingsInv /\ [Next]_vars => RecordingsInv'
<1> SUFFICES ASSUME Tight, PartInv, RecordingsInv, [Next]_vars PROVE RecordingsInv'
  OBVIOUS
<1>0. PartStep /\ PartInv'
  BY StepsOfParts, PartInvStep DEF PartInv, JobInv
<1>1. /\ Geometry /\ Geometry' /\ mounts \in MountTables /\ fstab \in Seq(Parts)
      /\ step = "idle" <=> target = None
  BY <1>0 DEF PartInv, JobInv
<1>2. /\ NoGaps /\ (\A p \in Range(fstab) : p \in Parts /\ GrownOut(p) /\ VideoIs(p))
      /\ \A p \in Range(mounts["/Video"]) : p \in Parts /\ VideoIs(p) /\ Mounted(p)
  BY <1>1 DEF RecordingsInv, ListInv, MountTables, MountPoints, Mounted, Range
<1>3. ASSUME UNCHANGED <<parts, view, fstab>>, ListInv', \A p \in Range(mounts'["/Video"]) : VideoIs(p)
      PROVE  RecordingsInv'
  <2>1. SamePlaces
    BY <1>1, <1>3 DEF SamePlaces, Geometry, Parts
  <2>2. \A p \in Range(mounts'["/Video"]) : VideoIs(p)'
    BY <1>3 DEF VideoIs
  <2> QED
    BY <1>0, <1>1, <1>3, <2>1, <2>2, RecordingsFrom
<1>4. ASSUME UNCHANGED <<parts, fstab, step, target>> PROVE ListInv'
  BY <1>4 DEF RecordingsInv, ListInv, GrownOut, LastOnDisk, OnDisk, EndOf, VideoIs, Parts
<1>5. CASE Rests
  <2>1. UNCHANGED <<parts, view, fstab, step, target, mounts>>
    BY <1>5 DEF Rests, disk, job
  <2> QED
    BY <1>2, <1>3, <1>4, <2>1
<1>6. CASE MountsAtBoot
  <2>1. UNCHANGED <<parts, view, fstab, step, target>> /\ mounts'["/Video"] = fstab
    BY <1>6 DEF MountsAtBoot, disk, job, MountPoints
  <2> QED
    BY <1>2, <1>3, <1>4, <2>1
<1>7. CASE JobBegins
  <2>1. /\ UNCHANGED <<parts, boot, view, fstab, mounts>>
        /\ step' = "format" /\ target' = find_resize_candidate /\ find_resize_candidate # None
    BY <1>7 DEF JobBegins, Begin, disk
  <2>2. find_resize_candidate \in Resizable
    BY <1>1, <2>1, CandidateIs DEF Geometry
  <2>3. view \in {"none", "bytes"}
    BY DEF Tight, PartInv
  <2>4. \A p \in Range(fstab) : p \notin Resizable
    BY <1>1, <1>2, <2>3, GrownIsDone
  <2>5. target' \notin Range(fstab')
    BY <2>1, <2>2, <2>4
  <2>6. ListInv'
    BY <1>2, <2>1, <2>5 DEF ListInv, GrownOut, LastOnDisk, OnDisk, EndOf, VideoIs, Parts
  <2> QED
    BY <1>2, <1>3, <2>1, <2>6
<1>8. CASE Remounts
  <2>1. UNCHANGED <<parts, view, fstab, step, target>>
    BY <1>8 DEF Remounts, disk, job
  <2>2. PICK dir \in [Parts -> MountPoints], rows \in SUBSET Parts :
          MountRows(dir, rows) /\ \A p \in rows : dir[p] = "/Video" => parts[p].label = "recordings"
    BY <1>8 DEF Remounts
  <2>3. \A d \in MountPoints :
          Range(mounts'[d]) \subseteq Range(mounts[d]) \cup {p \in rows : dir[p] = d /\ parts[p].fs # "none"}
    BY <1>1, <2>2, RowsAreMounted DEF Geometry
  <2>4. \A p \in Range(mounts'["/Video"]) : VideoIs(p)
    <3> SUFFICES ASSUME NEW p \in Range(mounts'["/Video"]), p \notin Range(mounts["/Video"]) PROVE VideoIs(p)
      BY <1>2
    <3>1. p \in rows /\ dir[p] = "/Video"
      BY <2>3 DEF MountPoints
    <3>2. p \in Parts /\ parts[p].label = "recordings"
      BY <2>2, <3>1
    <3> QED
      BY <1>1, <3>2 DEF Geometry, VideoIs
  <2> QED
    BY <1>3, <1>4, <2>1, <2>4
<1>9. CASE JobStep
  BY <1>9, RecordingsJob
<1>10. CASE Records
  <2>1. PICK t \in Parts, c \in Contents : t = Last(mounts["/Video"]) /\ c = "video"
    BY <1>10, VideoIsMounted DEF Records, Contents
  <2>2. parts' = [parts EXCEPT ![t].content = c] /\ UNCHANGED <<boot, view, fstab, mounts, step, target>>
    BY <1>10, <2>1 DEF Records, job
  <2>3. /\ SamePlaces /\ \A p \in Parts : parts'[p].fs = parts[p].fs /\ parts'[p].label = parts[p].label
        /\ \A p \in Parts : parts'[p].label = "recordings" => parts'[p].fs = "fat"
    BY <1>1, <2>2, ContentFills
  <2>4. \A p \in Parts : (GrownOut(p) => GrownOut(p)') /\ (VideoIs(p) => VideoIs(p)')
    BY <1>1, <2>3, SameGeometry DEF VideoIs
  <2>5. step # "idle" => target \in Parts
    BY DEF PartInv, JobInv
  <2>6. ListInv'
    BY <1>2, <2>2, <2>4, <2>5 DEF RecordingsInv, ListInv
  <2> QED
    BY <1>0, <1>1, <1>2, <2>2, <2>3, <2>4, <2>6, RecordingsFrom
<1>11. CASE JobCut
  <2>1. step' = "idle" /\ UNCHANGED <<view, fstab>> /\ (mounts' = mounts \/ mounts' = [d \in MountPoints |-> <<>>])
    BY <1>11 DEF JobCut
  <2>2. \A p \in Range(mounts'["/Video"]) : p \in Range(mounts["/Video"])
    BY <2>1 DEF MountPoints, Range
  <2>3. CASE UNCHANGED parts
    <3>1. ListInv'
      BY <1>2, <2>1, <2>3 DEF ListInv, GrownOut, LastOnDisk, OnDisk, EndOf, VideoIs, Parts
    <3> QED
      BY <1>2, <1>3, <2>1, <2>2, <2>3, <3>1
  <2>4. CASE step \in {"format", "label"} /\ ~Mounted(target) /\ parts' = [parts EXCEPT ![target] = NoFileSystem]
    <3>1. target \in Parts /\ target \notin Range(fstab)
      BY <2>4 DEF PartInv, JobInv, RecordingsInv, ListInv
    <3>2. MkfsDoes(target)
      BY <2>4 DEF MkfsDoes, NoFileSystem, Formatted
    <3>3. /\ SamePlaces /\ \A p \in Parts : p # target => parts'[p] = parts[p]
          /\ \A p \in Parts : parts'[p].label = "recordings" => parts'[p].fs = "fat"
      BY <1>1, <3>1, <3>2, MkfsLeaves
    <3>4. \A p \in Parts : GrownOut(p) => GrownOut(p)'
      BY <1>1, <3>3, SameGeometry
    <3>5. ListInv'
      BY <1>2, <2>1, <3>1, <3>3, <3>4 DEF ListInv, VideoIs
    <3>6. \A p \in Range(mounts'["/Video"]) : VideoIs(p)'
      BY <1>2, <2>2, <2>4, <3>3 DEF VideoIs
    <3> QED
      BY <1>0, <1>1, <2>1, <3>3, <3>5, <3>6, RecordingsFrom
  <2> QED
    BY <1>11, <2>3, <2>4 DEF JobCut
<1> QED
  BY <1>0, <1>5, <1>6, <1>7, <1>8, <1>9, <1>10, <1>11 DEF PartStep

\* On any cards without gaps, whose lsblk counts in bytes or not at all: whatever is
\* mounted on /Video, or will be at the next boot, is a recordings partition with a
\* file system, however boots are cut, commands fail and partitions are grown again.
THEOREM RecordingsAreMounted == ASSUME Tight PROVE Spec => []VideoIsRecordings
<1>1. Init => PartInv /\ RecordingsInv
  BY PartInvInit, RecordingsInit
<1>2. PartInv /\ RecordingsInv /\ [Next]_vars => PartInv' /\ RecordingsInv'
  BY PartInvStep, RecordingsStep
<1>3. PartInv /\ RecordingsInv => VideoIsRecordings
  BY DEF RecordingsInv, ListInv, VideoIs, VideoIsRecordings
<1> QED
  BY <1>1, <1>2, <1>3, PTL DEF Spec

(***************************************************************************)
(* What mkfs takes.                                                        *)
(***************************************************************************)
UnusedInv ==
  step = "format" =>
    /\ parts[target].fs # "ext4"
    /\ Size[parts[target].disk] - SumOfSizes(OnDisk(parts[target].disk)) >= MinResize

LEMMA CandidateIsUnused ==
  ASSUME Geometry, view = "none", NEW p \in Resizable
  PROVE  /\ p \in Parts /\ parts[p].fs # "ext4"
         /\ Size[parts[p].disk] - SumOfSizes(OnDisk(parts[p].disk)) >= MinResize
<1>1. p \in Parts /\ (IsFat32(p) \/ IsUnformatted(p)) /\ FreeAfter(p) >= MinResize
  BY DEF Resizable
<1>2. parts[p].fs # "ext4"
  BY <1>1 DEF IsFat32, IsUnformatted
<1>3. Size[parts[p].disk] - SumOfSizes(OnDisk(parts[p].disk)) >= MinResize
  BY <1>1, FreeByName DEF Geometry
<1> QED
  BY <1>1, <1>2, <1>3

LEMMA UnusedStep == Views \subseteq {"none"} /\ PartInv /\ UnusedInv /\ [Next]_vars => UnusedInv'
<1> SUFFICES ASSUME Views \subseteq {"none"}, PartInv, UnusedInv, [Next]_vars, step' = "format" PROVE UnusedInv'
  BY DEF UnusedInv
<1>0. PartStep /\ Geometry /\ view = "none" /\ step \in Steps
  BY StepsOfParts DEF PartInv, JobInv
<1>1. CASE Rests
  <2>1. UNCHANGED <<parts, step, target>>
    BY <1>1 DEF Rests, disk, job
  <2> QED
    BY <2>1 DEF UnusedInv, SumOfSizes, OnDisk, Parts
<1>2. CASE JobBegins
  <2>1. UNCHANGED parts /\ target' = find_resize_candidate /\ find_resize_candidate # None
    BY <1>2 DEF JobBegins, Begin, disk
  <2>2. find_resize_candidate \in Resizable
    BY <1>0, <2>1, CandidateIs DEF Geometry
  <2>3. PICK p \in Resizable : p = find_resize_candidate
    BY <2>2
  <2>4. /\ parts[p].fs # "ext4"
        /\ Size[parts[p].disk] - SumOfSizes(OnDisk(parts[p].disk)) >= MinResize
    BY <1>0, CandidateIsUnused
  <2> QED
    BY <2>1, <2>3, <2>4 DEF UnusedInv, SumOfSizes, OnDisk, Parts
<1>3. CASE Records
  <2>1. PICK t \in Parts, c \in Contents : t = Last(mounts["/Video"]) /\ c = "video"
    BY <1>3, VideoIsMounted DEF Records, Contents
  <2>2. parts' = [parts EXCEPT ![t].content = c] /\ UNCHANGED <<step, target>>
    BY <1>3, <2>1 DEF Records, job
  <2>3. SamePlaces /\ \A p \in Parts : parts'[p].fs = parts[p].fs
    BY <1>0, <2>2, ContentFills
  <2>4. step = "format" /\ target \in Parts
    BY <2>2 DEF PartInv, JobInv
  <2>5. PICK d : d = parts[target].disk
    OBVIOUS
  <2>6. PICK S : S = OnDisk(d)
    OBVIOUS
  <2>7. OnDisk(d)' = S /\ S \in SUBSET Parts
    BY <2>3, <2>6 DEF SamePlaces, OnDisk
  <2>8. SumOfSizes(S)' = SumOfSizes(S)
    BY <1>0, <2>3, <2>7, SumsStay DEF SamePlaces
  <2>9. SumOfSizes(OnDisk(d))' = SumOfSizes(S)'
    BY <2>7 DEF SumOfSizes
  <2>10. parts'[target].disk = d /\ parts'[target].fs = parts[target].fs
    BY <2>3, <2>4, <2>5 DEF SamePlaces
  <2>11. parts[target].fs # "ext4" /\ Size[d] - SumOfSizes(S) >= MinResize
    BY <2>4, <2>5, <2>6 DEF UnusedInv
  <2>12. Size[d] - SumOfSizes(OnDisk(d))' >= MinResize
    BY <2>8, <2>9, <2>11
  <2>13. SumOfSizes(OnDisk(parts[target].disk))' = SumOfSizes(OnDisk(d))'
    BY <2>2, <2>10 DEF SumOfSizes, OnDisk
  <2> QED
    BY <2>2, <2>10, <2>11, <2>12, <2>13 DEF UnusedInv, MinResize
<1>4. CASE JobStep
  BY <1>4, ResizeIs DEF JobStep
<1>5. CASE MountsAtBoot \/ Remounts \/ JobCut
  BY <1>5 DEF MountsAtBoot, Remounts, JobCut, job
<1> QED
  BY <1>0, <1>1, <1>2, <1>3, <1>4, <1>5 DEF PartStep

\* Where mkfs is at work, and only there, something is lost.
LEMMA MkfsLoses ==
  ASSUME Geometry, target \in Parts, MkfsDoes(target), NEW p \in Parts, Loses(p)
  PROVE  p = target /\ parts[target].content # "none"
BY MkfsLeaves DEF Loses

LEMMA LossIsUnused ==
  ASSUME PartInv, UnusedInv, step \in {"format", "label"}, ~Mounted(target), MkfsDoes(target),
         NEW p \in Parts, Loses(p)
  PROVE  /\ parts[p].fs # "ext4" /\ ~Mounted(p) /\ gate # "closed"
         /\ Uncovered(parts[p].disk) >= MinResize
<1>1. target \in Parts /\ Geometry /\ gate # "closed"
  BY DEF PartInv, JobInv, Busy
<1>2. p = target /\ parts[target].content # "none"
  BY <1>1, MkfsLoses
<1>3. step = "format"
  BY <1>2 DEF PartInv, JobInv
<1>4. Uncovered(parts[p].disk) = Size[parts[p].disk] - SumOfSizes(OnDisk(parts[p].disk))
  BY DEF Uncovered, SumOfSizes, SumIn
<1> QED
  BY <1>1, <1>2, <1>3, <1>4 DEF UnusedInv

LEMMA LossStep ==
  ASSUME PartInv, UnusedInv, [Next]_vars, NEW p \in Parts, Loses(p)
  PROVE  /\ parts[p].fs # "ext4" /\ ~Mounted(p) /\ gate # "closed"
         /\ Uncovered(parts[p].disk) >= MinResize
<1>0. PartStep /\ Geometry
  BY StepsOfParts DEF PartInv, JobInv
<1>1. ~UNCHANGED parts
  BY DEF Loses
<1>2. CASE JobStep
  <2>1. target \in Parts
    BY <1>2, ResizeIs DEF JobStep
  <2>2. CASE step \in {"format", "label"} /\ MkfsDoes(target) /\ ~Mounted(target)
    BY <2>2, LossIsUnused
  <2>3. ~Grown(target)
    BY <1>0, <2>1, GrowsOut DEF Loses
  <2>4. parts' # [parts EXCEPT ![target].content = "marker"]
    <3> SUFFICES ASSUME parts' = [parts EXCEPT ![target].content = "marker"] PROVE FALSE
      OBVIOUS
    <3>1. PICK t \in Parts, c \in Contents : t = target /\ c = "marker"
      BY <2>1 DEF Contents
    <3>2. parts' = [parts EXCEPT ![t].content = c]
      BY <3>1
    <3>3. parts'[t].content = c /\ \A q \in Parts : q # t => parts'[q] = parts[q]
      BY <1>0, <3>2, ContentFills
    <3> QED
      BY <3>1, <3>3 DEF Loses
  <2> QED
    BY <1>1, <1>2, <2>2, <2>3, <2>4, ResizeIs DEF JobStep
<1>3. CASE Records
  <2>1. PICK t \in Parts, c \in Contents : t = Last(mounts["/Video"]) /\ c = "video"
    BY <1>3, VideoIsMounted DEF Records, Contents
  <2>2. parts' = [parts EXCEPT ![t].content = c]
    BY <1>3, <2>1 DEF Records
  <2>3. parts'[t].content = c /\ \A q \in Parts : q # t => parts'[q] = parts[q]
    BY <1>0, <2>2, ContentFills
  <2> QED
    BY <2>1, <2>3 DEF Loses
<1>4. CASE JobCut
  <2>1. step \in {"format", "label"} /\ ~Mounted(target) /\ parts' = [parts EXCEPT ![target] = NoFileSystem]
    BY <1>1, <1>4 DEF JobCut
  <2>2. MkfsDoes(target)
    BY <2>1 DEF MkfsDoes, NoFileSystem, Formatted
  <2> QED
    BY <2>1, <2>2, LossIsUnused
<1>5. CASE Rests \/ MountsAtBoot \/ JobBegins \/ Remounts
  <2>1. UNCHANGED parts
    BY <1>5 DEF Rests, MountsAtBoot, JobBegins, Begin, Remounts, disk
  <2> QED
    BY <1>1, <2>1
<1> QED
  BY <1>0, <1>2, <1>3, <1>4, <1>5 DEF PartStep

\* On any cards whose lsblk does not give START: nothing loses what is on it but an
\* unmounted FAT32 or unformatted partition, before the first boot is recorded as
\* done and with 1 GiB of its disk not in use, whatever is cut, fails or is asked for.
THEOREM OnlyUnusedIsFormatted == ASSUME Views \subseteq {"none"} PROVE Spec => FormatsOnlyUnused
<1>1. Init => PartInv /\ UnusedInv
  BY PartInvInit DEF Init, UnusedInv
<1>2. PartInv /\ UnusedInv /\ [Next]_vars => PartInv' /\ UnusedInv'
  BY PartInvStep, UnusedStep
<1>3. PartInv /\ UnusedInv /\ [Next]_vars =>
        [\A p \in Parts : Loses(p) =>
           /\ parts[p].fs # "ext4" /\ ~Mounted(p) /\ gate # "closed"
           /\ Uncovered(parts[p].disk) >= MinResize]_vars
  BY LossStep
<1> QED
  BY <1>1, <1>2, <1>3, PTL DEF Spec, FormatsOnlyUnused

(***************************************************************************)
(* Types of a unit.  Those of the cameras, the serial links and the        *)
(* partitions are part of the invariants above.                            *)
(***************************************************************************)
FaultsOK == faults \in 0..MaxFaults
Failing == Unfailing \/ Fault

\* A command fails or none does.
LEMMA CommandsFail ==
  ASSUME [Next]_vars
  PROVE  Failing
<1>1. CASE MainStep
  <2>1. CASE PowerOn \/ FirstResizeEnds \/ FirstCameraEnds \/ LinkSerial
    BY <2>1 DEF PowerOn, FirstResizeEnds, JobEnds, FirstCameraEnds, LinkSerial, Failing, Unfailing
  <2>2. CASE EarlyScreen
    BY <2>2 DEF EarlyScreen, start_openhd_glide_early_if_needed, Disabled, NotDisabled, Failing, Unfailing
  <2>3. CASE run_firstboot_tasks
    BY <2>3 DEF run_firstboot_tasks, Begin, Failing, Unfailing
  <2>4. CASE FirstMounts \/ GetReady
    BY <2>4 DEF FirstMounts, GetReady, mount_known_partitions, MountRows, Failing
  <2>5. CASE CloseGate
    BY <2>5 DEF CloseGate, Failing
  <2>6. CASE StartServices
    BY <2>6 DEF StartServices, start_openhd_services_if_needed, Failing
  <2>7. CASE start_ground_video_if_needed
    BY <2>7 DEF start_ground_video_if_needed, StartOperation, Failing, Unfailing
  <2> QED
    BY <1>1, <2>1, <2>2, <2>3, <2>4, <2>5, <2>6, <2>7 DEF MainStep
<1>2. CASE Requests
  <2>1. CASE handle_partition_resize_request
    BY <2>1 DEF handle_partition_resize_request, Begin, Failing, Unfailing
  <2>2. CASE ResizeAnswered \/ RoleChanges
    BY <2>2 DEF ResizeAnswered, JobEnds, RoleChanges, Failing, Unfailing
  <2>3. CASE PartitionsRequested
    BY <2>3 DEF PartitionsRequested, build_partitions_response, MountRows, Failing
  <2>4. CASE \E t \in 1..Threads, id \in Ids[board] : handle_camera_setup_request(id, t)
    BY <2>4 DEF handle_camera_setup_request, Failing
  <2>5. CASE \E action \in Actions : handle_video_request(action)
    BY <2>5 DEF handle_video_request, StartOperation, Failing, Unfailing
  <2>6. CASE \E r \in LinkRequests : LinkRequested(r)
    BY <2>6 DEF LinkRequested, Failing, Unfailing
  <2> QED
    BY <1>2, <2>1, <2>2, <2>3, <2>4, <2>5, <2>6 DEF Requests
<1>3. CASE ResizeOn
  BY <1>3 DEF ResizeOn, ResizeStep, Refused, Format, Grow, Label, Type, Fstab, MountVideo, Mkfs, Fails, Failing
<1>4. CASE VideoOn
  BY <1>4 DEF VideoOn, VideoStep, Prepare, Control, StartGlideEarly, End, Reap, Fork, Failing, Unfailing
<1>5. CASE LinkOn \/ OpenHdOn \/ Plugging
  BY <1>5 DEF LinkOn, OpenHdOn, Plugging, Failing, Unfailing
<1>6. CASE UserAndScreen
  BY <1>6 DEF UserAndScreen, RendererEnds, MarkerChanges, Failing, Unfailing
<1>7. CASE \E t \in 0..Threads : CameraStep(t) \/ CameraThreadEnds(t)
  <2>1. ASSUME NEW t \in 0..Threads, CameraThreadEnds(t)
        PROVE  Failing
    BY <2>1 DEF CameraThreadEnds, Failing, Unfailing
  <2>2. ASSUME NEW t \in 0..Threads, ApplyStep(t)
        PROVE  Failing
    <3>1. CASE Load(t) \/ Clear(t) \/ Discard(t) \/ Write(t)
      BY <3>1 DEF Load, Clear, Discard, Write, Failing
    <3>2. CASE Backup(t) \/ Install(t) \/ Restore(t)
      <4>1. \E from, c : Copies(from, c)
        BY <3>2 DEF Backup, Install, Restore
      <4> QED
        BY <4>1 DEF Copies, Failing
    <3>3. CASE Read(t) \/ Open(t)
      BY <3>3 DEF Read, Open, Failing
    <3> QED
      BY <2>2, <3>1, <3>2, <3>3 DEF ApplyStep
  <2> QED
    BY <1>7, <2>1, <2>2 DEF CameraStep
<1>8. CASE WorkerStarts \/ WorkerEnds \/ Recorded
  BY <1>8 DEF WorkerStarts, WorkerEnds, Recorded, Failing, Unfailing
<1>9. CASE Reboot \/ PowerCut \/ Restart
  BY <1>9 DEF Reboot, PowerCut, Restart, PowerOff, ProcessEnds, Failing, Unfailing
<1>10. CASE UNCHANGED vars
  BY <1>10 DEF vars, Failing, Unfailing
<1> QED
  BY <1>1, <1>2, <1>3, <1>4, <1>5, <1>6, <1>7, <1>8, <1>9, <1>10 DEF Next

LEMMA FaultsStep == FaultsOK /\ [Next]_vars => FaultsOK'
<1> SUFFICES ASSUME FaultsOK, Failing PROVE FaultsOK'
  BY CommandsFail
<1> QED
  BY UnitAssumption DEF FaultsOK, Failing, Unfailing, Fault

(***************************************************************************)
(* What the unit is, and what main and the worker are at.                  *)
(***************************************************************************)
ConfigOK ==
  /\ board \in Boards /\ gate \in Gates /\ role \in Roles /\ uses \subseteq Uses
  /\ alias \in {"absent", "empty", "full", "link"}

MainOK ==
  /\ phase \in Phases /\ needs \in BOOLEAN /\ reboot \in BOOLEAN
  /\ worker \in {"off", "idle", "run"} /\ stolen \in BOOLEAN /\ hold \in BOOLEAN
  /\ mishaps \in 0..MaxMishaps /\ requests \in 0..MaxRequests

LEMMA ConfigInit == Init => ConfigOK /\ FaultsOK
<1> SUFFICES ASSUME Init PROVE ConfigOK /\ FaultsOK
  OBVIOUS
<1>1. PICK u \in Units : board = u.board /\ uses = u.uses
  BY DEF Init
<1>2. board \in Boards /\ uses \subseteq Uses
  BY <1>1, DeviceAssumption
<1>3. gate \in Gates /\ role \in Roles
  BY DeviceAssumption DEF Init, Roles
<1>4. alias \in {"absent", "empty", "full", "link"}
  BY PartitionAssumption DEF Init
<1>5. FaultsOK
  BY UnitAssumption DEF Init, FaultsOK
<1> QED
  BY <1>2, <1>3, <1>4, <1>5 DEF ConfigOK

LEMMA ConfigStep == ConfigOK /\ [Next]_vars => ConfigOK'
<1> SUFFICES ASSUME ConfigOK, [Next]_vars PROVE ConfigOK'
  OBVIOUS
<1>0. ASSUME UNCHANGED config, UNCHANGED alias PROVE ConfigOK'
  BY <1>0 DEF config, ConfigOK
<1>1. CASE MainStep
  <2>1. CASE PowerOn \/ FirstResizeEnds
    BY <1>0, <2>1 DEF PowerOn, FirstResizeEnds, JobEnds
  <2>2. CASE EarlyScreen \/ FirstCameraEnds \/ LinkSerial \/ StartServices \/ start_ground_video_if_needed
    BY <1>0, <2>2 DEF EarlyScreen, FirstCameraEnds, LinkSerial, StartServices, start_ground_video_if_needed, pvars
  <2>3. CASE run_firstboot_tasks
    BY <1>0, <2>3 DEF run_firstboot_tasks, Begin, pvars
  <2>4. CASE FirstMounts \/ GetReady
    BY <2>4 DEF FirstMounts, GetReady, mount_known_partitions, ensure_config_aliases, config, ConfigOK
  <2>5. CASE CloseGate
    BY <2>5 DEF CloseGate, pvars, ConfigOK, Gates
  <2> QED
    BY <1>1, <2>1, <2>2, <2>3, <2>4, <2>5 DEF MainStep
<1>2. CASE Requests
  <2>1. CASE RoleChanges
    BY <2>1 DEF RoleChanges, pvars, ConfigOK, Roles
  <2>2. CASE handle_partition_resize_request \/ ResizeAnswered \/ PartitionsRequested
    BY <1>0, <2>2 DEF handle_partition_resize_request, Begin, ResizeAnswered, JobEnds, PartitionsRequested,
       build_partitions_response
  <2>3. CASE \E t \in 1..Threads, id \in Ids[board] : handle_camera_setup_request(id, t)
    BY <1>0, <2>3 DEF handle_camera_setup_request, pvars
  <2>4. CASE \E action \in Actions : handle_video_request(action)
    BY <1>0, <2>4 DEF handle_video_request, pvars
  <2>5. CASE \E r \in LinkRequests : LinkRequested(r)
    BY <1>0, <2>5 DEF LinkRequested, pvars
  <2> QED
    BY <1>2, <2>1, <2>2, <2>3, <2>4, <2>5 DEF Requests
<1>3. CASE ResizeOn
  BY <1>0, <1>3 DEF ResizeOn, ResizeStep, Refused, Format, Grow, Label, Type, Fstab, MountVideo, Mkfs
<1>4. CASE VideoOn \/ LinkOn \/ OpenHdOn \/ UserAndScreen \/ Plugging
  BY <1>0, <1>4 DEF VideoOn, LinkOn, OpenHdOn, UserAndScreen, Plugging, pvars
<1>5. CASE \E t \in 0..Threads : CameraStep(t) \/ CameraThreadEnds(t)
  BY <1>0, <1>5 DEF CameraStep, CameraThreadEnds, pvars
<1>6. CASE WorkerStarts \/ WorkerEnds \/ Recorded
  BY <1>0, <1>6 DEF WorkerStarts, WorkerEnds, Recorded
<1>7. CASE Reboot \/ PowerCut \/ Restart
  BY <1>7 DEF Reboot, PowerCut, Restart, PowerOff, ProcessEnds, ConfigKept, ConfigOK, Gates, Roles
<1>8. CASE UNCHANGED vars
  BY <1>0, <1>8 DEF vars, pvars
<1> QED
  BY <1>1, <1>2, <1>3, <1>4, <1>5, <1>6, <1>7, <1>8 DEF Next

LEMMA MainInit == Init => MainOK
<1> SUFFICES ASSUME Init PROVE MainOK
  OBVIOUS
<1>1. /\ phase = "off" /\ needs = FALSE /\ reboot = FALSE /\ hold = FALSE
      /\ worker = "off" /\ stolen = FALSE /\ mishaps = 0 /\ requests = 0
  BY DEF Init
<1>2. mishaps \in 0..MaxMishaps /\ requests \in 0..MaxRequests
  BY <1>1, DeviceAssumption
<1> QED
  BY <1>1, <1>2 DEF MainOK, Phases

LEMMA MainStepKeeps == MainOK /\ MainStep => MainOK'
<1> SUFFICES ASSUME MainOK, MainStep PROVE MainOK'
  OBVIOUS
<1>1. CASE PowerOn
  BY <1>1 DEF PowerOn, Goes, others, MainOK, Phases
<1>2. CASE EarlyScreen \/ LinkSerial \/ StartServices \/ start_ground_video_if_needed
  BY <1>2 DEF EarlyScreen, LinkSerial, StartServices, start_ground_video_if_needed, Goes, others, pvars, MainOK, Phases
<1>3. CASE run_firstboot_tasks
  BY <1>3 DEF run_firstboot_tasks, Begin, pvars, MainOK, Phases
<1>4. CASE FirstResizeEnds
  BY <1>4 DEF FirstResizeEnds, JobEnds, others, MainOK, Phases
<1>5. CASE FirstMounts
  BY <1>5 DEF FirstMounts, Goes, mount_known_partitions, others, MainOK, Phases
<1>6. CASE FirstCameraEnds
  <2>1. needs' \in BOOLEAN
    BY <1>6 DEF FirstCameraEnds, MainOK
  <2> QED
    BY <2>1, <1>6 DEF FirstCameraEnds, others, pvars, MainOK, Phases
<1>7. CASE CloseGate
  <2>1. reboot' \in BOOLEAN
    BY <1>7 DEF CloseGate, MainOK
  <2> QED
    BY <2>1, <1>7 DEF CloseGate, others, pvars, MainOK, Phases
<1>8. CASE GetReady
  BY <1>8 DEF GetReady, Goes, mount_known_partitions, MainOK, Phases
<1> QED
  BY <1>1, <1>2, <1>3, <1>4, <1>5, <1>6, <1>7, <1>8 DEF MainStep

LEMMA RequestIsCounted == MainOK /\ Request => requests' \in 0..MaxRequests
  BY DeviceAssumption DEF MainOK, Request

LEMMA MainRequestKeeps == MainOK /\ Requests => MainOK'
<1> SUFFICES ASSUME MainOK, Requests PROVE MainOK'
  OBVIOUS
<1>1. CASE handle_partition_resize_request
  <2>1. requests' \in 0..MaxRequests
    BY <1>1, RequestIsCounted DEF handle_partition_resize_request, ResizeAllowed
  <2> QED
    BY <2>1, <1>1 DEF handle_partition_resize_request, Begin, main, MainOK
<1>2. CASE ResizeAnswered
  <2>1. reboot' \in BOOLEAN
    BY <1>2 DEF ResizeAnswered, MainOK
  <2> QED
    BY <2>1, <1>2 DEF ResizeAnswered, JobEnds, others, MainOK
<1>3. CASE PartitionsRequested
  BY <1>3 DEF PartitionsRequested, build_partitions_response, main, others, MainOK
<1>4. CASE \E t \in 1..Threads, id \in Ids[board] : handle_camera_setup_request(id, t)
  <2>1. requests' \in 0..MaxRequests
    BY <1>4, RequestIsCounted DEF handle_camera_setup_request
  <2> QED
    BY <2>1, <1>4 DEF handle_camera_setup_request, main, pvars, MainOK
<1>5. CASE RoleChanges \/ \E action \in Actions : handle_video_request(action)
  BY <1>5 DEF RoleChanges, handle_video_request, main, others, pvars, MainOK
<1>6. CASE \E r \in LinkRequests : LinkRequested(r)
  BY <1>6 DEF LinkRequested, main, others, pvars, MainOK
<1> QED
  BY <1>1, <1>2, <1>3, <1>4, <1>5, <1>6 DEF Requests

LEMMA MainOKStep == MainOK /\ [Next]_vars => MainOK'
<1> SUFFICES ASSUME MainOK, [Next]_vars PROVE MainOK'
  OBVIOUS
<1>0. ASSUME UNCHANGED <<main, others, hold>> PROVE MainOK'
  BY <1>0 DEF main, others, MainOK
<1>1. CASE MainStep
  BY <1>1, MainStepKeeps
<1>2. CASE Requests
  BY <1>2, MainRequestKeeps
<1>3. CASE ResizeOn
  BY <1>0, <1>3, ResizeStepHolds DEF ResizeOn
<1>4. CASE VideoOn \/ LinkOn \/ OpenHdOn \/ UserAndScreen \/ Plugging
  BY <1>0, <1>4 DEF VideoOn, LinkOn, OpenHdOn, UserAndScreen, Plugging, pvars
<1>5. CASE \E t \in 0..Threads : CameraStep(t)
  BY <1>0, <1>5 DEF CameraStep, pvars
<1>6. CASE \E t \in 0..Threads : CameraThreadEnds(t)
  <2>1. reboot' \in BOOLEAN
    BY <1>6 DEF CameraThreadEnds, MainOK
  <2> QED
    BY <2>1, <1>6 DEF CameraThreadEnds, others, pvars, MainOK
<1>7. CASE WorkerStarts \/ Recorded
  BY <1>7 DEF WorkerStarts, Recorded, main, others, MainOK
<1>8. CASE WorkerEnds
  <2>1. stolen' \in BOOLEAN /\ reboot' \in BOOLEAN
    BY <1>8 DEF WorkerEnds, MainOK
  <2> QED
    BY <2>1, <1>8 DEF WorkerEnds, MainOK
<1>9. CASE Reboot
  BY <1>9 DEF Reboot, PowerOff, ProcessEnds, MainOK, Phases
<1>10. CASE PowerCut \/ Restart
  <2>1. mishaps' \in 0..MaxMishaps
    BY <1>10, DeviceAssumption DEF PowerCut, Restart, Mishap, MainOK
  <2> QED
    BY <2>1, <1>10 DEF PowerCut, Restart, PowerOff, ProcessEnds, MainOK, Phases
<1>11. CASE UNCHANGED vars
  BY <1>0, <1>11 DEF vars, pvars
<1> QED
  BY <1>1, <1>2, <1>3, <1>4, <1>5, <1>6, <1>7, <1>8, <1>9, <1>10, <1>11 DEF Next

(***************************************************************************)
(* Types of the link.                                                      *)
(***************************************************************************)
LinkBounds == openhd \in BOOLEAN /\ Len(asked) <= MaxLink /\ overdue \subseteq 1..MaxLink

LEMMA LinkTypes == LinkInv /\ LinkBounds => LinkTypeOK
<1> SUFFICES ASSUME LinkInv, LinkBounds PROVE LinkTypeOK
  OBVIOUS
<1>1. /\ asked \in Seq(LinkRequests) /\ told \in Seq(BOOLEAN) /\ inbox \in Seq(Nat)
      /\ awaited \in Nat /\ answers \subseteq [to : Nat, ok : BOOLEAN]
  BY DEF LinkInv, LinkShape
<1>2. Len(asked) \in Nat /\ DOMAIN asked = 1..Len(asked)
  BY <1>1
<1>3. DOMAIN asked \subseteq 1..MaxLink /\ awaited \in 0..MaxLink
  <2>1. MaxLink \in Nat /\ Len(asked) <= MaxLink
    BY LinkAssumption DEF LinkBounds
  <2>2. awaited = 0 \/ awaited = Len(asked)
    BY DEF LinkInv, AwaitedIsLast
  <2> QED
    BY <1>2, <2>1, <2>2
<1>4. Sent \subseteq 1..MaxLink /\ applied \subseteq 1..MaxLink
  BY <1>3 DEF Sent, LinkInv, AppliedInv
<1>5. \A i \in DOMAIN inbox : inbox[i] \in 1..MaxLink
  BY <1>4 DEF LinkInv, InboxInv
<1>6. inbox \in Seq(1..MaxLink)
  <2>1. Len(inbox) \in Nat /\ inbox \in [1..Len(inbox) -> Nat]
    BY <1>1
  <2>2. inbox \in [1..Len(inbox) -> 1..MaxLink]
    BY <2>1, <1>5
  <2> QED
    BY <2>1, <2>2, SeqDef
<1>7. answers \subseteq [to : 1..MaxLink, ok : BOOLEAN]
  BY <1>1, <1>3 DEF LinkInv, AppliedInv
<1> QED
  BY <1>1, <1>3, <1>4, <1>6, <1>7 DEF LinkTypeOK, LinkBounds

LEMMA LinkBoundsStep == LinkInv /\ LinkBounds /\ [Next]_vars => LinkBounds'
<1> SUFFICES ASSUME LinkInv, LinkBounds, [Next]_vars PROVE LinkBounds'
  OBVIOUS
<1>0. ASSUME UNCHANGED lvars PROVE LinkBounds'
  BY <1>0 DEF lvars, LinkBounds
<1>a. awaited = 0 \/ awaited \in 1..MaxLink
  BY LinkTypes DEF LinkTypeOK
<1>b. asked \in Seq(LinkRequests) /\ Len(asked) \in Nat
  BY DEF LinkInv, LinkShape
<1>1. CASE MainStep
  BY <1>0, <1>1 DEF MainStep, PowerOn, EarlyScreen, run_firstboot_tasks, FirstResizeEnds, FirstMounts,
     FirstCameraEnds, CloseGate, GetReady, LinkSerial, StartServices, start_ground_video_if_needed
<1>2. CASE Requests
  <2>1. CASE \E r \in LinkRequests : LinkRequested(r)
    <3>1. PICK r \in LinkRequests : handle_link_control_request(r)
      BY <2>1 DEF LinkRequested
    <3>2. Len(asked') = Len(asked) + 1 /\ Len(asked) < MaxLink /\ UNCHANGED <<openhd, overdue>>
      BY <3>1, <1>b DEF handle_link_control_request
    <3> QED
      BY <3>2, <1>b, LinkAssumption DEF LinkBounds
  <2>2. CASE handle_partition_resize_request \/ ResizeAnswered \/ PartitionsRequested \/ RoleChanges
    BY <1>0, <2>2 DEF handle_partition_resize_request, ResizeAnswered, PartitionsRequested, RoleChanges
  <2>3. CASE \E t \in 1..Threads, id \in Ids[board] : handle_camera_setup_request(id, t)
    BY <1>0, <2>3 DEF handle_camera_setup_request
  <2>4. CASE \E action \in Actions : handle_video_request(action)
    BY <1>0, <2>4 DEF handle_video_request
  <2> QED
    BY <1>2, <2>1, <2>2, <2>3, <2>4 DEF Requests
<1>3. CASE LinkOn
  BY <1>3, <1>a DEF LinkOn, Answered, Unanswered, LinkBounds
<1>4. CASE OpenHdOn
  BY <1>4 DEF OpenHdOn, OpenHdTakes, OpenHdRestarts, LinkBounds
<1>5. CASE ResizeOn \/ VideoOn \/ WorkerStarts \/ WorkerEnds \/ Recorded \/ UserAndScreen \/ Plugging
  BY <1>0, <1>5 DEF ResizeOn, VideoOn, WorkerStarts, WorkerEnds, Recorded, UserAndScreen, Plugging
<1>6. CASE \E t \in 0..Threads : CameraStep(t) \/ CameraThreadEnds(t)
  BY <1>0, <1>6 DEF CameraStep, CameraThreadEnds
<1>7. CASE Reboot \/ PowerCut \/ Restart
  BY <1>7, <1>a DEF Reboot, PowerCut, Restart, PowerOff, ProcessEnds, LinkEnds, LinkBounds
<1>8. CASE UNCHANGED vars
  BY <1>0, <1>8 DEF vars
<1> QED
  BY <1>1, <1>2, <1>3, <1>4, <1>5, <1>6, <1>7, <1>8 DEF Next

(***************************************************************************)
(* Types of the video.                                                     *)
(***************************************************************************)
LEMMA VideoTypesInit == ASSUME VideoInit PROVE VideoTypeOK
  BY DEF VideoInit, VideoTypeOK, Services, Renderers, Calls, Actions

LEMMA RendererIsAService == Renderer \in Services /\ Competing \subseteq Services
  BY DEF Renderer, Competing, Services, Renderers

LEMMA VideoOperates ==
  ASSUME VideoTypeOK,
         start_openhd_glide_early_if_needed \/ (\E action \in Actions : StartOperation(action)) \/ VideoStep
  PROVE  VideoTypeOK'
<1> USE DEF VideoTypeOK
<1>1. CASE start_openhd_glide_early_if_needed
  BY <1>1 DEF start_openhd_glide_early_if_needed, Disabled, NotDisabled, systemd, pipeline, Calls
<1>2. CASE \E action \in Actions : StartOperation(action)
  <2>1. PICK action \in Actions : StartOperation(action)
    BY <1>2
  <2>2. FirstCall(action) \in Calls
    BY DEF FirstCall, Calls
  <2> QED
    BY <2>1, <2>2 DEF StartOperation, systemd, pipeline
<1>3. CASE Prepare
  <2>1. /\ call' \in Calls /\ spoiled' \in BOOLEAN
        /\ UNCHANGED <<wanted, override, disabled, child, strays>>
    BY <1>3 DEF Prepare, Call, AfterPreparing, pipeline, Calls
  <2>2. enabled' \subseteq Services /\ active' \subseteq Services
    BY <1>3, RendererIsAService DEF Prepare
  <2> QED
    BY <2>1, <2>2
<1>4. CASE Control \/ StartGlideEarly
  <2>1. active' \subseteq Services
    BY <1>4, RendererIsAService DEF Control, StartGlideEarly, Services, Renderers
  <2> QED
    BY <1>4, <2>1 DEF Control, StartGlideEarly, Call, pipeline, Calls
<1>5. CASE End
  BY <1>5 DEF End, Call, pipeline, systemd, Calls
<1>6. CASE Reap
  BY <1>6 DEF Reap, Call, AfterStopping, systemd, Calls
<1>7. CASE Fork
  <2>1. Alive \in Nat
    BY DEF Alive
  <2>2. strays' \in Nat /\ child' \in {"none", "runs", "told", "ended"}
    BY <1>7, <2>1 DEF Fork, pipeline
  <2> QED
    BY <1>7, <2>2 DEF Fork, Call, systemd, Calls
<1> QED
  BY <1>1, <1>2, <1>3, <1>4, <1>5, <1>6, <1>7 DEF VideoStep

LEMMA ServicesAreStarted == ASSUME VideoTypeOK, start_openhd_services_if_needed PROVE VideoTypeOK'
<1>1. UNCHANGED <<override, disabled, child, strays, call, wanted, spoiled>>
  BY DEF start_openhd_services_if_needed, pipeline
<1>2. PICK started : started = {"openhd"} \cup (IF is_ground_mode /\ ~should_use_openhd_glide THEN {"qopenhd"} ELSE {})
  OBVIOUS
<1>3. started \subseteq Services
  BY <1>2 DEF Services
<1>4. enabled' \subseteq Services /\ active' \subseteq Services
  <2>1. CASE disabled /\ gate # "unreadable"
    BY <2>1 DEF start_openhd_services_if_needed, VideoTypeOK
  <2>2. CASE ~(disabled /\ gate # "unreadable")
    <3>1. active' \subseteq active \cup started /\ enabled' = enabled
      BY <1>2, <2>2 DEF start_openhd_services_if_needed
    <3> QED
      BY <1>3, <3>1 DEF VideoTypeOK
  <2> QED
    BY <2>1, <2>2
<1> QED
  BY <1>1, <1>4 DEF VideoTypeOK

LEMMA VideoTypesAround == ASSUME VideoTypeOK, RendererEnds \/ MarkerChanges PROVE VideoTypeOK'
<1> USE DEF VideoTypeOK
<1>1. CASE RendererEnds
  BY <1>1 DEF RendererEnds, pipeline
<1>2. CASE MarkerChanges
  <2>1. override' \in BOOLEAN /\ spoiled' \in BOOLEAN
    BY <1>2 DEF MarkerChanges
  <2> QED
    BY <2>1, <1>2 DEF MarkerChanges, systemd, pipeline
<1> QED
  BY <1>1, <1>2

LEMMA VideoTypesStep == VideoTypeOK /\ [Next]_vars => VideoTypeOK'
<1> SUFFICES ASSUME VideoTypeOK, [Next]_vars PROVE VideoTypeOK'
  OBVIOUS
<1>0. ASSUME UNCHANGED vvars PROVE VideoTypeOK'
  BY <1>0 DEF vvars, systemd, pipeline, VideoTypeOK
<1>1. CASE MainStep
  <2>1. CASE PowerOn
    BY <2>1 DEF PowerOn, pipeline, VideoTypeOK
  <2>2. CASE EarlyScreen
    BY <2>2, VideoOperates DEF EarlyScreen
  <2>3. CASE StartServices
    BY <2>3, ServicesAreStarted DEF StartServices
  <2>4. CASE start_ground_video_if_needed
    BY <1>0, <2>4, VideoOperates DEF start_ground_video_if_needed, Actions
  <2>5. CASE CloseGate \/ run_firstboot_tasks \/ FirstResizeEnds \/ FirstMounts \/ FirstCameraEnds
    BY <1>0, <2>5 DEF CloseGate, run_firstboot_tasks, FirstResizeEnds, FirstMounts, FirstCameraEnds
  <2>6. CASE GetReady \/ LinkSerial
    BY <1>0, <2>6 DEF GetReady, LinkSerial
  <2> QED
    BY <1>1, <2>1, <2>2, <2>3, <2>4, <2>5, <2>6 DEF MainStep
<1>2. CASE Requests
  <2>1. CASE \E action \in Actions : handle_video_request(action)
    BY <2>1, VideoOperates DEF handle_video_request
  <2>2. CASE handle_partition_resize_request \/ ResizeAnswered \/ PartitionsRequested \/ RoleChanges
    BY <1>0, <2>2 DEF handle_partition_resize_request, ResizeAnswered, PartitionsRequested, RoleChanges
  <2>3. CASE \E t \in 1..Threads, id \in Ids[board] : handle_camera_setup_request(id, t)
    BY <1>0, <2>3 DEF handle_camera_setup_request
  <2>4. CASE \E r \in LinkRequests : LinkRequested(r)
    BY <1>0, <2>4 DEF LinkRequested
  <2> QED
    BY <1>2, <2>1, <2>2, <2>3, <2>4 DEF Requests
<1>3. CASE VideoOn
  BY <1>3, VideoOperates DEF VideoOn
<1>4. CASE UserAndScreen
  BY <1>4, VideoTypesAround DEF UserAndScreen
<1>5. CASE ResizeOn \/ LinkOn \/ WorkerStarts \/ WorkerEnds \/ Recorded \/ OpenHdOn \/ Plugging
  BY <1>0, <1>5 DEF ResizeOn, LinkOn, WorkerStarts, WorkerEnds, Recorded, OpenHdOn, Plugging
<1>6. CASE \E t \in 0..Threads : CameraStep(t) \/ CameraThreadEnds(t)
  BY <1>0, <1>6 DEF CameraStep, CameraThreadEnds
<1>7. CASE Reboot \/ PowerCut \/ Restart
  <2>1. MainEnds /\ enabled' = enabled /\ disabled' \in {disabled, FALSE} /\ active' \in {active, {}}
    BY <1>7 DEF Reboot, PowerCut, Restart, PowerOff, ProcessEnds, ConfigKept
  <2> QED
    BY <2>1 DEF MainEnds, VideoTypeOK, Calls
<1>8. CASE UNCHANGED vars
  BY <1>0, <1>8 DEF vars
<1> QED
  BY <1>1, <1>2, <1>3, <1>4, <1>5, <1>6, <1>7, <1>8 DEF Next

\* In every state of every unit - through boots, cuts, restarts, failed commands
\* and requests that overlap - main, the worker, the resize, the camera threads,
\* the services and the link are where their modules say that they can be, and a
\* resize is under way just when it has a partition.
THEOREM DeviceTypes == Spec => []TypeOK
<1>1. Init => ConfigOK /\ FaultsOK /\ MainOK /\ VideoTypeOK /\ LinkBounds
  <2>1. Init => VideoInit /\ LinkInit
    BY DEF Init
  <2>2. LinkInit => LinkBounds
    <3>1. LinkInit => openhd = FALSE /\ Len(asked) = 0 /\ overdue = {}
      BY DEF LinkInit
    <3>2. 0 <= MaxLink
      BY LinkAssumption
    <3> QED
      BY <3>1, <3>2 DEF LinkBounds
  <2> QED
    BY <2>1, <2>2, ConfigInit, MainInit, VideoTypesInit
<1>2. Init => LinkInv
  BY LinkStarts DEF Init
<1>3. /\ ConfigOK /\ FaultsOK /\ MainOK /\ VideoTypeOK /\ LinkInv /\ LinkBounds /\ PartInv /\ HoldInv
      /\ CameraTypeOK /\ SerialInv
      => TypeOK
  <2> SUFFICES ASSUME ConfigOK, FaultsOK, MainOK, VideoTypeOK, LinkInv, LinkBounds, PartInv, HoldInv, CameraTypeOK,
                      SerialInv
               PROVE  TypeOK
    OBVIOUS
  <2>1. LinkTypeOK
    BY LinkTypes
  <2>2. SerialTypeOK
    BY DEF SerialInv
  <2>3. /\ parts \in Seq(PartitionRecord) /\ boot \subseteq Parts /\ view \in Views
        /\ mounts \in [MountPoints -> Seq(Parts)] /\ fstab \in Seq(Parts)
    BY DEF PartInv, MountTables, Geometry
  <2>4. step \in Steps /\ target \in Parts \cup {None} /\ (step = "idle" <=> target = None) /\ by \in Callers
    BY DEF PartInv, JobInv, HoldInv
  <2> QED
    BY <2>1, <2>2, <2>3, <2>4 DEF TypeOK, ConfigOK, FaultsOK, MainOK
<1> QED
  BY <1>1, <1>2, <1>3, ConfigStep, FaultsStep, MainOKStep, VideoTypesStep, LinkStep, LinkBoundsStep, PartInvInit,
     PartInvStep, HoldInit, HoldStep, CameraTypes, SerialStaysInv, PTL DEF Spec

=============================================================================
