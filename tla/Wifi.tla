-------------------------------- MODULE Wifi --------------------------------
(***************************************************************************)
(* The Wi-Fi part of openhd_sys_utils (sysutil_wifi.cpp and the retry of   *)
(* main): what it knows of the cards, the two override files, and the      *)
(* daemon and the tunnel bridge of the Artosyn cards, which it starts,     *)
(* awaits and restarts.  All of it runs in the main thread; next to it     *)
(* cards are plugged in and out, daemons and bridges come up in their own  *)
(* time, end when they like, and take a while to end when they are killed. *)
(*                                                                         *)
(* The cards are "wfb", a card with a driver of OpenHD; "wlan", a Wi-Fi    *)
(* card that OpenHD can use only when its type is overridden; and Artosyn  *)
(* cards by their bus: "mdev", "usb", and "hs", USB in high-speed mode.    *)
(* Times are in seconds, waits rounded down: TimePasses has the rest.      *)
(***************************************************************************)
EXTENDS Naturals, Sequences

CONSTANTS
  Cards,      \* the cards there are
  Actions,    \* bound: the actions that users ask for
  Types,      \* the override types that users ask for
  TxChanges,  \* the changes of the power of the card that users ask for
  Candidates, \* the tunnel binaries installed, in the order they are tried
  Profiles,   \* what wifi_cards.json may hold on the power of "wlan"
  None,       \* no override
  Unknown     \* nothing in particular

Artosyn == {"mdev", "usb", "hs"}
Ways == {"service", "binary"}
Bridges == DOMAIN Candidates

ASSUME WifiAssumption ==
  /\ Cards \subseteq Artosyn \cup {"wfb", "wlan"}
  /\ Actions \subseteq {"set", "clear", "refresh", "restart_artosyn"}
  /\ Types \subseteq {"OPENHD", "DISABLED", None}
  /\ TxChanges \subseteq SUBSET {"mw", "level", "auto"}
  /\ Candidates \in Seq({"tuntap_bb", "openhd_artosyn_tuntap"})
  /\ Profiles \subseteq {"none", "fixed", "levels"} /\ "none" \in Profiles

VARIABLES
  plugged,    \* the cards in the machine
  files,      \* wifi_overrides.conf and wifi_txpower.conf: [type, tx] of "wlan"
  shown,      \* g_wifi_cards: the cards, type, power and profile of "wlan", the Artosyn flags
  daemons,    \* the daemon started each way: "none", "starting", "up", "closing"
  tunnels,    \* the bridge started from each candidate, likewise
  age,        \* the time since last_attempt, up to the throttle
  retry,      \* wifi_retry_active
  pc,         \* the next step of the main thread
  job,        \* what it works on: "boot", "update", "retry" or "restart"
  cards,      \* the parameter artosyn_cards
  hs,         \* prefer_binary_usb
  stage,      \* the place in the list of ways, then of candidates
  run,        \* ArtosynRuntimeState: [daemon, tunnel]
  asked,      \* history: what users asked the files to hold, or Unknown
  refused,    \* history: the last change of the files was answered with false
  old,        \* history: the daemons and bridges from before the restart
  late,       \* history: the restart did not see the old bridge end in time
  watch       \* history: one start of a daemon, and those that followed the same way

wanted == <<files, asked, refused>>
procs == <<daemons, tunnels, old>>
since == <<age, watch>>
call == <<job, cards, hs>>
vars == <<plugged, wanted, shown, procs, since, retry, pc, call, stage, run, late>>

Keep == "keep"
Throttle == 4
ServiceWait == 2
BinaryWait == 2
TunnelWait == 2
TunnelStopWait == 1
DaemonStopWait == 2

-----------------------------------------------------------------------------
(* Data.                                                                   *)

\* is_tcp_listening_localhost and has_artosyn_tunnel_interface: one process
\* holds the port, and one the interface, up to its end.
Holding(f) == \E p \in DOMAIN f : f[p] \in {"up", "closing"}
Port == Holding(daemons)
Iface == Holding(tunnels)

\* A slip: some cards suffice.
CompatibleAny(s) == s.cards # {}

\* has_openhd_wifibroadcast_cards.
Compatible(s) == \/ s.cards \cap (Artosyn \cup {"wfb"}) # {}
                 \/ "wlan" \in s.cards /\ s.type = "OPENHD"

\* A slip: AUTO is kept as if it were a level.
NewTxAuto(tx, change) == IF change \cap {"level", "auto"} # {} THEN change ELSE tx \cup change

\* A level takes the place of the powers, AUTO removes them all.
NewTx(tx, change) ==
  CASE "level" \in change -> {"level"}
    [] "auto" \in change  -> {}
    [] OTHER              -> tx \cup change

\* Writing a file: done; the file cannot be opened; or it was cut and the disk
\* is full, which the stream does not know before it is closed.
Writes(was, new, nothing) ==
  {[ok |-> TRUE, is |-> new], [ok |-> FALSE, is |-> was], [ok |-> TRUE, is |-> nothing]}

\* A slip: the throttle forgets about a service that was slow to start.
ThrottledShort == age < ServiceWait

Throttled == age < Throttle

\* Any one start may be watched, for as long as the throttle lasts.
NoWatch == [way |-> "none", clock |-> 0, count |-> 0]
Note(d) ==
  \/ watch.way = d /\ watch' = [watch EXCEPT !.count = @ + 1]
  \/ watch.way = "none" /\ watch' = [way |-> d, clock |-> 0, count |-> 1]
  \/ watch.way # d /\ UNCHANGED watch

\* Time goes by.
Elapse(t) ==
  /\ age' = IF age + t < Throttle THEN age + t ELSE Throttle
  /\ watch' = IF watch.way # "none" /\ watch.clock + t < Throttle
                THEN [watch EXCEPT !.clock = @ + t] ELSE NoWatch

\* What is shown of the power of the card: the milliwatts that its profile has
\* for the level, whatever was set next to it, and nothing that was set when
\* the profile is FIXED.
ShownTx(tx, profile) ==
  CASE profile = "fixed"                      -> {"fixed"}
    [] profile = "levels" /\ "level" \in tx -> {"level", "profile"}
    [] OTHER                                  -> tx

\* The handler returns: what it kept goes out of scope.
NoRun == [daemon |-> FALSE, tunnel |-> FALSE]
NoneOld == [daemons |-> {}, tunnels |-> {}]
Return ==
  /\ pc' = "idle" /\ job' = "update" /\ cards' = {} /\ hs' = FALSE /\ stage' = 1 /\ run' = NoRun
  /\ old' = NoneOld /\ late' = FALSE

-----------------------------------------------------------------------------
(* The world.                                                              *)

Plug(c) ==
  /\ c \notin plugged /\ plugged' = plugged \cup {c}
  /\ UNCHANGED <<wanted, shown, procs, since, retry, pc, call, stage, run, late>>

Unplug(c) ==
  /\ c \in plugged /\ plugged' = plugged \ {c}
  /\ UNCHANGED <<wanted, shown, procs, since, retry, pc, call, stage, run, late>>

\* A daemon opens its port, or ends because another one has it.
DaemonUp(d) ==
  /\ daemons[d] = "starting"
  /\ daemons' = [daemons EXCEPT ![d] = IF Port THEN "none" ELSE "up"]
  /\ UNCHANGED <<plugged, wanted, shown, tunnels, old, since, retry, pc, call, stage, run, late>>

DaemonEnds(d) ==
  /\ daemons[d] # "none"
  /\ daemons' = [daemons EXCEPT ![d] = "none"]
  /\ UNCHANGED <<plugged, wanted, shown, tunnels, old, since, retry, pc, call, stage, run, late>>

TunnelUp(t) ==
  /\ tunnels[t] = "starting"
  /\ tunnels' = [tunnels EXCEPT ![t] = IF Iface THEN "none" ELSE "up"]
  /\ UNCHANGED <<plugged, wanted, shown, daemons, old, since, retry, pc, call, stage, run, late>>

TunnelEnds(t) ==
  /\ tunnels[t] # "none"
  /\ tunnels' = [tunnels EXCEPT ![t] = "none"]
  /\ UNCHANGED <<plugged, wanted, shown, daemons, old, since, retry, pc, call, stage, run, late>>

TimePasses ==
  /\ (age # Throttle \/ watch # NoWatch) /\ Elapse(1)
  /\ UNCHANGED <<plugged, wanted, shown, procs, retry, pc, call, stage, run, late>>

-----------------------------------------------------------------------------
(* A refresh.                                                              *)

\* refresh_wifi_info_impl up to the Artosyn runtime: the files are read and
\* the cards detected; the file of profiles and the card may be new.
Refresh(j) ==
  /\ \E p \in IF "wlan" \in plugged THEN Profiles ELSE {"none"} :
       shown' = [cards |-> plugged \ Artosyn, type |-> files.type, tx |-> ShownTx(files.tx, p),
                 profile |-> p, daemon |-> FALSE, tunnel |-> FALSE]
  /\ cards' = plugged \cap Artosyn
  /\ job' = j
  /\ pc' = IF plugged \cap Artosyn = {} THEN "done" ELSE "port"
  /\ run' = NoRun
  /\ UNCHANGED hs

\* The end of a refresh: the Artosyn cards join the others, with the flags.
Finish ==
  /\ pc = "done" /\ job # "restart"
  /\ LET s == [shown EXCEPT !.cards = @ \cup cards, !.daemon = run.daemon, !.tunnel = run.tunnel]
     IN /\ shown' = s
        /\ retry' = IF job = "update" THEN retry ELSE ~Compatible(s)
  /\ Return /\ refused' = FALSE
  /\ UNCHANGED <<plugged, files, asked, daemons, tunnels, since>>

Boot ==
  /\ pc = "boot" /\ Refresh("boot")
  /\ UNCHANGED <<plugged, wanted, procs, since, retry, stage, late>>

\* The loop of main, five seconds after the last attempt.
Retry ==
  /\ pc = "idle" /\ retry /\ Refresh("retry")
  /\ UNCHANGED <<plugged, wanted, procs, since, retry, stage, late>>

-----------------------------------------------------------------------------
(* Requests: sysutil.wifi.update.                                          *)

Reload ==
  /\ pc = "reload" /\ Refresh("update")
  /\ UNCHANGED <<plugged, wanted, procs, since, retry, stage, late>>

\* The end of a change: a refresh follows when the files were written, or so
\* it seems, or when the restart of the Artosyn runtime succeeded.
Reply(ok) == pc' = IF ok THEN "reload" ELSE "idle"

\* What users may expect after the value they asked for was written as w.
Expect(value, w) == IF w = [ok |-> TRUE, is |-> value] THEN value ELSE Unknown

RefreshRequest ==
  /\ pc = "idle" /\ Reply(TRUE)
  /\ UNCHANGED <<plugged, wanted, shown, procs, since, retry, call, stage, run, late>>

\* Action "set" with an override type (None is AUTO), a change of the power or
\* both: both files are written, whatever becomes of the first.
Set(t, change) ==
  /\ pc = "idle" /\ (t # Keep \/ change # {})
  /\ \E w \in IF t = Keep THEN {[ok |-> TRUE, is |-> files.type]} ELSE Writes(files.type, t, None),
        x \in IF change = {} THEN {[ok |-> TRUE, is |-> files.tx]}
                             ELSE Writes(files.tx, NewTx(files.tx, change), {}) :
       /\ files' = [type |-> w.is, tx |-> x.is]
       /\ asked' = [type |-> IF t = Keep THEN asked.type ELSE Expect(t, w),
                    tx |-> IF change = {} THEN asked.tx ELSE Expect(NewTx(files.tx, change), x)]
       /\ refused' = (refused \/ ~(w.ok /\ x.ok))
       /\ Reply(w.ok /\ x.ok)
  /\ UNCHANGED <<plugged, shown, procs, since, retry, call, stage, run, late>>

\* A slip: the powers of the card outlive the clearing of its overrides.
ClearType ==
  /\ pc = "idle"
  /\ \E w \in Writes(files.type, None, None) :
       /\ files' = [files EXCEPT !.type = w.is]
       /\ asked' = [type |-> Expect(None, w), tx |-> {}]
       /\ refused' = (refused \/ ~w.ok)
       /\ Reply(w.ok)
  /\ UNCHANGED <<plugged, shown, procs, since, retry, call, stage, run, late>>

\* Action "clear": the second file is left alone when the first fails.
Clear ==
  /\ pc = "idle"
  /\ \E w \in Writes(files.type, None, None), x \in Writes(files.tx, {}, {}) :
       /\ files' = [type |-> w.is, tx |-> IF w.ok THEN x.is ELSE files.tx]
       /\ asked' = [type |-> Expect(None, w),
                    tx |-> IF w.ok THEN Expect({}, x) ELSE asked.tx]
       /\ refused' = (refused \/ ~(w.ok /\ x.ok))
       /\ Reply(w.ok /\ x.ok)
  /\ UNCHANGED <<plugged, shown, procs, since, retry, call, stage, run, late>>

-----------------------------------------------------------------------------
(* Requests: restart_artosyn, up to the common part.                       *)

Alive(f) == {p \in DOMAIN f : f[p] # "none"}
Kill(f, which) ==
  [p \in DOMAIN f |-> IF p \notin which THEN f[p]
                      ELSE IF f[p] \in {"up", "closing"} THEN "closing" ELSE "none"]

\* restart_artosyn_runtime gets all the cards known, not only Artosyn's, and
\* stops the bridges of the one name that pkill knows.  Without a card known,
\* the answer is false and nothing happens.
RestartRequest ==
  /\ pc = "idle" /\ shown.cards # {}
  /\ job' = "restart" /\ cards' = shown.cards
  /\ run' = NoRun
  /\ old' = [daemons |-> Alive(daemons), tunnels |-> Alive(tunnels)]
  /\ tunnels' = Kill(tunnels, {t \in Bridges : Candidates[t] = "tuntap_bb"})
  /\ late' = FALSE /\ pc' = "tunnelStop"
  /\ UNCHANGED <<plugged, wanted, shown, daemons, since, retry, hs, stage>>

\* The wait for the bridge to end; when it takes too long, so be it.
TunnelStop ==
  /\ pc = "tunnelStop" /\ pc' = "daemonKill"
  /\ IF Iface THEN late' = TRUE /\ Elapse(TunnelStopWait) ELSE UNCHANGED <<late, since>>
  /\ UNCHANGED <<plugged, wanted, shown, procs, retry, call, stage, run>>

\* A slip: only a daemon that listens is killed.
DaemonKillListening ==
  /\ pc = "daemonKill" /\ pc' = "daemonStop"
  /\ daemons' = Kill(daemons, {d \in Ways : daemons[d] = "up"})
  /\ UNCHANGED <<plugged, wanted, shown, tunnels, old, since, retry, call, stage, run, late>>

\* stop_artosyn_daemon: all services and binaries are stopped.
DaemonKill ==
  /\ pc = "daemonKill" /\ pc' = "daemonStop"
  /\ daemons' = Kill(daemons, Ways)
  /\ UNCHANGED <<plugged, wanted, shown, tunnels, old, since, retry, call, stage, run, late>>

\* The wait for the daemon to end; when it takes too long, the restart failed.
DaemonStop ==
  /\ pc = "daemonStop"
  /\ IF Port THEN Return /\ Elapse(DaemonStopWait)
             ELSE pc' = "port" /\ UNCHANGED <<since, old, call, stage, run, late>>
  /\ UNCHANGED <<plugged, wanted, shown, daemons, tunnels, retry>>

RestartEnds ==
  /\ pc = "done" /\ job = "restart"
  /\ IF run.daemon /\ run.tunnel THEN pc' = "reload" /\ UNCHANGED <<old, call, stage, run, late>>
                               ELSE Return
  /\ UNCHANGED <<plugged, wanted, shown, daemons, tunnels, since, retry>>

-----------------------------------------------------------------------------
(* ensure_artosyn_runtime_running.                                         *)

Found == run' = [run EXCEPT !.daemon = TRUE] /\ pc' = "tunnel"

\* The daemon is there, was started a short while ago, or is started now: by a
\* service first, or by a binary when a card is in high-speed mode.
LookForDaemon ==
  /\ pc = "port"
  /\ \/ Port /\ Found /\ UNCHANGED <<since, hs, stage>>
     \/ /\ ~Port /\ Throttled /\ pc' = "done"
        /\ UNCHANGED <<run, since, hs, stage>>
     \/ /\ ~Port /\ ~Throttled /\ pc' = "start"
        /\ age' = 0 /\ UNCHANGED watch
        /\ hs' = ("hs" \in plugged) /\ stage' = 1
        /\ UNCHANGED run
  /\ UNCHANGED <<plugged, wanted, shown, procs, retry, job, cards, late>>

Order == IF hs THEN <<"binary", "service">> ELSE <<"service", "binary">>

\* A process is started the stage's way; one that runs already stands for both.
StartDaemon ==
  /\ pc = "start" /\ stage <= Len(Order)
  /\ LET d == Order[stage] IN
     \/ /\ pc' = "daemonWait" /\ Note(d)
        /\ daemons' = [daemons EXCEPT ![d] = IF @ = "none" THEN "starting" ELSE @]
        /\ old' = [old EXCEPT !.daemons = @ \ ({d} \ Alive(daemons))]
        /\ UNCHANGED stage
     \/ /\ stage' = stage + 1
        /\ UNCHANGED <<pc, watch, daemons, old>>
  /\ UNCHANGED <<plugged, wanted, shown, tunnels, age, retry, call, run, late>>

\* wait_for_artosyn_daemon_ready.
DaemonWait ==
  /\ pc = "daemonWait"
  /\ IF Port THEN Found /\ UNCHANGED <<since, stage>>
     ELSE /\ pc' = "start" /\ stage' = stage + 1 /\ UNCHANGED run
          /\ Elapse(IF Order[stage] = "service" THEN ServiceWait ELSE BinaryWait)
  /\ UNCHANGED <<plugged, wanted, shown, procs, retry, call, late>>

\* The last look, when all ways were tried.
StartFailed ==
  /\ pc = "start" /\ stage > Len(Order)
  /\ IF Port THEN Found ELSE pc' = "done" /\ UNCHANGED run
  /\ UNCHANGED <<plugged, wanted, shown, procs, since, retry, call, stage, late>>

\* ensure_artosyn_tunnel_running; /dev/tun may be missing.
LookForTunnel ==
  /\ pc = "tunnel"
  /\ \/ Port /\ Iface /\ run' = [run EXCEPT !.tunnel = TRUE] /\ pc' = "done" /\ UNCHANGED stage
     \/ ~(Port /\ Iface) /\ pc' = "done" /\ UNCHANGED <<run, stage>>
     \/ Port /\ ~Iface /\ pc' = "bridge" /\ stage' = 1 /\ UNCHANGED run
  /\ UNCHANGED <<plugged, wanted, shown, procs, since, retry, call, late>>

StartTunnel ==
  /\ pc = "bridge" /\ stage \in Bridges /\ pc' = "tunnelWait"
  /\ tunnels' = [tunnels EXCEPT ![stage] = IF @ = "none" THEN "starting" ELSE @]
  /\ old' = [old EXCEPT !.tunnels = @ \ ({stage} \ Alive(tunnels))]
  /\ UNCHANGED <<plugged, wanted, shown, daemons, since, retry, call, stage, run, late>>

\* Wait for the interface after each candidate, and look once more at the end.
TunnelReady ==
  /\ pc = "tunnelWait" \/ (pc = "bridge" /\ stage \notin Bridges)
  /\ \/ Iface /\ run' = [run EXCEPT !.tunnel = TRUE] /\ pc' = "done" /\ UNCHANGED <<since, stage>>
     \/ ~Iface /\ pc = "tunnelWait" /\ pc' = "bridge" /\ stage' = stage + 1 /\ Elapse(TunnelWait)
        /\ UNCHANGED run
     \/ ~Iface /\ pc = "bridge" /\ pc' = "done" /\ UNCHANGED <<run, since, stage>>
  /\ UNCHANGED <<plugged, wanted, shown, procs, retry, call, late>>

-----------------------------------------------------------------------------
Init ==
  /\ plugged \in SUBSET Cards
  /\ files \in [type : {None} \cup Types, tx : {{}}]
  /\ asked = files /\ refused = FALSE
  /\ shown = [cards |-> {}, type |-> None, tx |-> {}, profile |-> "none",
              daemon |-> FALSE, tunnel |-> FALSE]
  /\ daemons \in [Ways -> {"none", "up"}] /\ daemons["binary"] = "none"
  /\ tunnels = [t \in Bridges |-> "none"]
  /\ old = NoneOld /\ late = FALSE
  /\ age = Throttle /\ watch = NoWatch /\ retry = TRUE
  /\ pc = "boot" /\ job = "boot" /\ cards = {} /\ hs = FALSE
  /\ stage = 1 /\ run = NoRun

World ==
  \/ \E c \in Cards : Plug(c) \/ Unplug(c)
  \/ \E d \in Ways : DaemonUp(d) \/ DaemonEnds(d)
  \/ \E t \in Bridges : TunnelUp(t) \/ TunnelEnds(t)
  \/ TimePasses

Request ==
  \/ "refresh" \in Actions /\ RefreshRequest
  \/ "restart_artosyn" \in Actions /\ RestartRequest
  \/ "clear" \in Actions /\ Clear
  \/ "set" \in Actions /\ \E t \in Types \cup {Keep}, change \in TxChanges \cup {{}} : Set(t, change)

Work ==
  \/ Boot \/ Reload \/ Finish
  \/ TunnelStop \/ DaemonKill \/ DaemonStop \/ RestartEnds
  \/ LookForDaemon \/ StartDaemon \/ DaemonWait \/ StartFailed
  \/ LookForTunnel \/ StartTunnel \/ TunnelReady

Next == World \/ Request \/ Work \/ Retry

Spec == Init /\ [][Next]_vars

\* What the main thread works on ends, as every wait has a deadline, and after
\* each round of requests the loop looks at the time of the next attempt.
FairSpec == Spec /\ WF_vars(Work) /\ SF_vars(Retry)

-----------------------------------------------------------------------------
(* Properties.                                                             *)

\* The type invariant.
Processes(ids) == [ids -> {"none", "starting", "up", "closing"}]
TypeOK ==
  /\ plugged \subseteq Cards /\ cards \subseteq Cards
  /\ files.type \in {None} \cup Types /\ files.tx \subseteq {"mw", "level"}
  /\ shown.cards \subseteq Cards /\ {shown.daemon, shown.tunnel} \subseteq BOOLEAN
  /\ daemons \in Processes(Ways) /\ tunnels \in Processes(Bridges)
  /\ age \in 0..Throttle /\ {retry, hs, refused, late} \subseteq BOOLEAN
  /\ watch \in [way : Ways \cup {"none"}, clock : 0..Throttle, count : Nat]
  /\ pc \in {"boot", "idle", "reload", "tunnelStop", "daemonKill", "daemonStop", "port", "start",
             "daemonWait", "tunnel", "bridge", "tunnelWait", "done"}
  /\ job \in {"boot", "update", "retry", "restart"}

\* A restart that is reported as a success (handle_wifi_update, restart_artosyn)
\* runs on a new daemon: no daemon from before it is left, not even one that
\* was just coming up.  The bridge is new as well, when it is a tuntap_bb and
\* its end was seen in time.
RestartIsFresh ==
  pc = "done" /\ job = "restart" /\ run.daemon /\ run.tunnel =>
    /\ \A d \in old.daemons : daemons[d] = "none"
    /\ late \/ \A t \in old.tunnels : tunnels[t] = "none" \/ Candidates[t] # "tuntap_bb"

\* However refreshes, retries and restarts follow each other, within the four
\* seconds (last_attempt) after a start of the daemon it is started the same way
\* at most once more: an attempt starts its second way late, the next its own.
StartsAreThrottled == watch.count <= 2

\* What users set or cleared is what is shown of the card (and answered to
\* requests), unless its file could not be written, a change that was refused
\* half-way awaits the next refresh, or the card's profile has the last word on
\* its power: a FIXED one, or one with the milliwatts of the level set.
AskedIsShown ==
  pc = "idle" /\ ~refused /\ "wlan" \in shown.cards =>
    /\ asked.type \in {Unknown, shown.type}
    /\ \/ asked.tx \in {Unknown, shown.tx}
       \/ shown.profile = "fixed"
       \/ "level" \in asked.tx /\ shown.tx = (asked.tx \ {"mw"}) \cup {"profile"}

\* While main retries, a card that OpenHD can use and that stays is found.
Useful(found, type) ==
  found \cap (Artosyn \cup {"wfb"}) # {} \/ ("wlan" \in found /\ type = "OPENHD")
NewCardIsFound ==
  (retry /\ Useful(plugged, files.type)) ~>
    (Useful(shown.cards, shown.type) \/ ~Useful(plugged, files.type))
=============================================================================
