---------------------------------- MODULE Video ----------------------------------
(***************************************************************************)
(* The video of a ground unit (sysutil_video.cpp): on a Raspberry Pi a     *)
(* pipeline that openhd_sys_utils runs as its child, on a Rockchip board   *)
(* one of two systemd services, openhd-glide or openhd-video, whichever    *)
(* the board and a marker file ask for.  systemd remembers which of them   *)
(* are enabled and starts these at each boot, before openhd_sys_utils has  *)
(* had its say.  When the operations run is in module Device; all of them  *)
(* run in main, which waits for each command.                              *)
(***************************************************************************)
EXTENDS Unit

VARIABLES
  override, \* qopenhd_override.txt is there, which users make and remove
  disabled, \* disable_openhd_service of the config
  enabled,  \* the services that systemd starts at boot
  active,   \* those that run
  child,    \* the process of g_video_pid
  strays,   \* pipelines that nobody waits for
  call,     \* what main has to do next of a video operation, "none" if nothing
  wanted,   \* the action of the last operation
  spoiled   \* history: the marker changed during an operation, or a disable failed

systemd == <<enabled, active>>
pipeline == <<child, strays>>
vvars == <<override, disabled, systemd, pipeline, call, wanted, spoiled>>

Actions == {"start", "restart", "stop"}
Renderers == {"glide", "video"}
Services == Renderers \cup {"openhd", "qopenhd"}
Calls == {"none", "prepare", "early", "control", "end", "wait", "fork"}

cm5_qopenhd_override_requested == board = "cm5" /\ override
should_use_openhd_glide ==
  IF board = "cm5" THEN ~cm5_qopenhd_override_requested ELSE board = "rk3566"
Renderer == IF should_use_openhd_glide THEN "glide" ELSE "video"

Call(next) == call' = next /\ UNCHANGED <<wanted, override, disabled>>

-----------------------------------------------------------------------------
(* The services of a Rockchip board.                                       *)

Competing == IF should_use_openhd_glide THEN {"video"} ELSE IF board = "cm5" THEN {"glide"} ELSE {}

\* systemctl disable --now; that it fails is not noticed.
Disabled(services) ==
  /\ enabled' = enabled \ services /\ active' = active \ services
  /\ Unfailing /\ UNCHANGED spoiled
NotDisabled(services) ==
  /\ services \cap (enabled \cup active) # {}
  /\ Fault /\ spoiled' = TRUE /\ UNCHANGED systemd

AfterPreparing == IF wanted = "early" THEN "early" ELSE "control"

\* A slip: the other service is left as it is.
PrepareOwn ==
  /\ call = "prepare" /\ Call(AfterPreparing)
  /\ enabled' = enabled \cup {Renderer}
  /\ UNCHANGED <<active, faults, spoiled, pipeline>>

\* generate_decode_scripts_and_services.  Of openhd-video, the script or the
\* service file may not be written: it is not enabled and the operation ends.
Prepare ==
  /\ call = "prepare"
  /\ \/ /\ Call(AfterPreparing)
        /\ \/ /\ enabled' = (enabled \ Competing) \cup {Renderer}
              /\ active' = active \ Competing
              /\ Unfailing /\ UNCHANGED spoiled
           \/ /\ Competing \cap (enabled \cup active) # {}
              /\ enabled' = enabled \cup {Renderer}
              /\ Fault /\ spoiled' = TRUE /\ UNCHANGED active
     \/ /\ ~should_use_openhd_glide /\ Call("none") /\ Fault
        /\ enabled' = enabled \ Competing /\ active' = active \ Competing
        /\ UNCHANGED spoiled
  /\ UNCHANGED <<pipeline>>

\* systemctl start, restart or stop of the service that is the right one by now.
Control ==
  /\ call = "control" /\ Call("none")
  /\ \/ /\ active' = IF wanted = "stop" THEN active \ {Renderer} ELSE active \cup {Renderer}
        /\ Unfailing
     \/ Fault /\ UNCHANGED active
  /\ UNCHANGED <<enabled, pipeline, spoiled>>

\* The end of start_openhd_glide_early_if_needed.
StartGlideEarly ==
  /\ call = "early" /\ Call("none")
  /\ \/ active' = active \cup {"glide"} /\ Unfailing
     \/ Fault /\ UNCHANGED active
  /\ UNCHANGED <<enabled, pipeline, spoiled>>

\* start_openhd_glide_early_if_needed, on air units too.
start_openhd_glide_early_if_needed ==
  /\ call = "none"
  /\ \/ /\ should_use_openhd_glide
        /\ call' = "prepare" /\ wanted' = "early"
        /\ UNCHANGED <<systemd, faults, spoiled>>
     \/ /\ cm5_qopenhd_override_requested /\ Disabled({"glide"}) /\ UNCHANGED <<call, wanted>>
     \/ /\ cm5_qopenhd_override_requested /\ NotDisabled({"glide"}) /\ UNCHANGED <<call, wanted>>
     \/ /\ ~should_use_openhd_glide /\ ~cm5_qopenhd_override_requested
        /\ UNCHANGED <<systemd, faults, spoiled, call, wanted>>
  /\ UNCHANGED <<override, disabled, pipeline>>

\* start_openhd_services_if_needed; without a config that can be read, OpenHD is
\* started even if it is disabled.
start_openhd_services_if_needed ==
  /\ call = "none"
  /\ IF disabled /\ gate # "unreadable"
     THEN enabled' = enabled \ {"openhd"} /\ active' = active \ {"openhd"} /\ Unfailing
     ELSE LET started == {"openhd"} \cup (IF is_ground_mode /\ ~should_use_openhd_glide THEN {"qopenhd"} ELSE {})
          IN  /\ \/ active' = active \cup started /\ Unfailing
                 \/ \E s \in started \ active : active' = active \cup (started \ {s}) /\ Fault
              /\ UNCHANGED enabled
  /\ UNCHANGED <<override, disabled, pipeline, call, wanted, spoiled>>

-----------------------------------------------------------------------------
(* The pipeline of a Raspberry Pi.                                         *)

Alive == IF child \in {"runs", "told"} THEN 1 ELSE 0

\* A slip: the pipeline that runs is not stopped before the next one.
StartsAnyway(action) ==
  IF is_rpi_platform THEN (IF action # "stop" THEN "fork" ELSE IF child = "none" THEN "none" ELSE "end")
  ELSE IF action = "stop" THEN "control" ELSE "prepare"

\* stop_video_process is the first part of start_video_process.
FirstCall(action) ==
  IF is_rpi_platform THEN (IF child # "none" THEN "end" ELSE IF action # "stop" THEN "fork" ELSE "none")
  ELSE IF action = "stop" THEN "control" ELSE "prepare"

HasVideo == is_ground_mode /\ (is_rpi_platform \/ is_rockchip_platform)

\* The part of start_ground_video_if_needed and handle_video_request that they
\* share: an operation starts.
StartOperation(action) ==
  /\ call = "none" /\ HasVideo
  /\ call' = FirstCall(action) /\ wanted' = action
  /\ UNCHANGED <<override, disabled, systemd, pipeline, spoiled, faults>>

AfterStopping == IF wanted = "stop" THEN "none" ELSE "fork"

\* SIGTERM.  The shell of a Raspberry Pi 5 has become its only command; the
\* other one dies and leaves the two commands of its pipeline behind.
End ==
  /\ call = "end" /\ Call("wait")
  /\ \/ child = "runs" /\ board = "rpi5" /\ child' = "told" /\ UNCHANGED strays
     \/ child = "runs" /\ board # "rpi5" /\ child' = "ended" /\ strays' = strays + 1
     \/ child = "ended" /\ UNCHANGED pipeline
  /\ UNCHANGED <<systemd, spoiled, faults>>

\* It is gone within two seconds, or SIGKILL ends it.
Reap ==
  /\ call = "wait" /\ Call(AfterStopping)
  /\ child' = "none"
  /\ UNCHANGED <<strays, systemd, spoiled, faults>>

\* g_video_pid is overwritten.
Fork ==
  /\ call = "fork" /\ Call("none")
  /\ \/ child' = "runs" /\ strays' = strays + Alive /\ Unfailing
     \/ Fault /\ UNCHANGED pipeline
  /\ UNCHANGED <<systemd, spoiled>>

VideoStep == Prepare \/ Control \/ StartGlideEarly \/ End \/ Reap \/ Fork

-----------------------------------------------------------------------------
(* Around main.                                                            *)

\* A pipeline ends, or openhd-glide does, which systemd gives up in the end.
RendererEnds ==
  /\ \/ child \in {"runs", "told"} /\ child' = "ended" /\ UNCHANGED <<strays, active>>
     \/ strays > 0 /\ strays' = strays - 1 /\ UNCHANGED <<child, active>>
     \/ "glide" \in active /\ active' = active \ {"glide"} /\ UNCHANGED pipeline
  /\ UNCHANGED <<override, disabled, enabled, call, wanted, spoiled, faults>>

MarkerChanges ==
  /\ board = "cm5" /\ override' = ~override
  /\ spoiled' = (spoiled \/ call # "none")
  /\ UNCHANGED <<disabled, systemd, pipeline, call, wanted, faults>>

\* systemd ends what the process has started, and may start it again.
MainEnds ==
  /\ child' = "none" /\ strays' = 0 /\ call' = "none"
  /\ UNCHANGED <<override, wanted, spoiled>>

VideoInit ==
  /\ override \in {FALSE, board = "cm5"} /\ disabled \in BOOLEAN
  /\ enabled \in {{"openhd"}, {"openhd"} \cup (IF should_use_openhd_glide THEN {"glide"} ELSE {})}
  /\ active = {} /\ child = "none" /\ strays = 0
  /\ call = "none" /\ wanted = "start" /\ spoiled = FALSE

VideoTypeOK ==
  /\ override \in BOOLEAN /\ disabled \in BOOLEAN /\ spoiled \in BOOLEAN
  /\ enabled \subseteq Services /\ active \subseteq Services
  /\ child \in {"none", "runs", "told", "ended"} /\ strays \in Nat
  /\ call \in Calls /\ wanted \in Actions \cup {"early"}

-----------------------------------------------------------------------------
\* openhd-glide and openhd-video both take the video of port 5600 and the screen:
\* whatever systemd starts at a boot, however often the marker changes between
\* two operations and whoever asks for a start, they never run together.  Only a
\* marker that changes during an operation, or a disable that fails unnoticed,
\* may bring that about.  And on an X20, whatever its config says, no ground-side
\* services or video pipeline can be started, as the comment of is_ground_mode
\* has it.
OneRenderer ==
  /\ spoiled \/ ~(Renderers \subseteq active)
  /\ board = "x20" => active \subseteq {"openhd"} /\ child = "none"

\* At most one pipeline runs on a Raspberry Pi 5, through starts, restarts and
\* pipelines that end by themselves or do not want to; one that was stopped is
\* gone when the answer is sent.  On older boards a stop leaves strays.
OnePipeline ==
  board = "rpi5" =>
    /\ strays + Alive <= 1
    /\ (wanted = "stop" /\ call = "none") => strays + Alive = 0

=============================================================================
