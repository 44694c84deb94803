----------------------------- MODULE WifiProofs -----------------------------
(***************************************************************************)
(* Proofs about Wifi, for any cards, requests and tunnel binaries.         *)
(*                                                                         *)
(* The inductive invariant has a part for each of the properties: what is  *)
(* shown lags behind the files only while a refresh is due (FreshInv), a   *)
(* start that comes before last_attempt is no younger than it              *)
(* (ThrottleInv), and what a restart killed stays dead while it goes on    *)
(* (RestartInv).                                                           *)
(***************************************************************************)
EXTENDS Wifi, TLAPS

-----------------------------------------------------------------------------
(* The inductive invariant.                                                *)

OverrideTypes == {None} \cup Types
Powers == SUBSET {"mw", "level"}
ShownPowers == SUBSET {"mw", "level", "profile", "fixed"}
CardProfiles == {"none", "fixed", "levels"}
Watches == [way : Ways \cup {"none"}, clock : 0 .. Throttle, count : Nat]

ShapeInv ==
  /\ TypeOK
  /\ files \in [type : OverrideTypes, tx : Powers]
  /\ shown \in [cards : SUBSET Cards, type : OverrideTypes, tx : ShownPowers,
                profile : CardProfiles, daemon : BOOLEAN, tunnel : BOOLEAN]
  /\ run \in [daemon : BOOLEAN, tunnel : BOOLEAN]
  /\ old \in [daemons : SUBSET Ways, tunnels : SUBSET Bridges]
  /\ stage \in Nat \ {0}

\* The steps before a restart comes to the part it shares with a refresh, and
\* that part.
Stopping == {"tunnelStop", "daemonKill", "daemonStop"}
Ensuring == {"port", "start", "daemonWait", "tunnel", "bridge", "tunnelWait", "done"}

JobInv == pc \in Stopping => job = "restart"

\* The files have been read since they were written.
Fresh == shown.type = files.type /\ shown.tx = ShownTx(files.tx, shown.profile)

\* A refused change may have written one file: what is shown is right again
\* once a refresh has begun.
FreshInv ==
  /\ asked.type \in {Unknown, files.type}
  /\ asked.tx \in {Unknown, files.tx}
  /\ pc \in Ensuring /\ job # "restart" => Fresh
  /\ pc \notin {"boot", "reload"} /\ ~refused => Fresh

\* A start is watched for the time of the throttle, and when the daemon has been
\* started again since, the start was before last_attempt.
SinceInv ==
  /\ watch.way = "none" => watch.count = 0
  /\ watch.way # "none" => watch.count \in {1, 2} /\ watch.clock < Throttle
  /\ watch.count = 2 => watch.clock >= age

\* The way that is watched is still to be tried in this attempt, so that its
\* start was in an earlier one.
Ahead(i) == \E k \in {1, 2} : k >= i /\ Order[k] = watch.way
Earlier == watch.count = 1 /\ watch.clock >= age

ThrottleInv ==
  /\ SinceInv
  /\ pc = "start" /\ Ahead(stage) => Earlier
  /\ pc = "daemonWait" /\ Ahead(stage + 1) => Earlier

Killed == {"none", "closing"}
Pkilled(t) == Candidates[t] = "tuntap_bb"

RestartInv ==
  /\ pc = "tunnelStop" => \A t \in Bridges : Pkilled(t) => tunnels[t] \in Killed
  /\ pc = "daemonStop" => \A d \in Ways : daemons[d] \in Killed
  /\ job = "restart" /\ pc \in Ensuring => \A d \in old.daemons : daemons[d] = "none"
  /\ job = "restart" /\ pc \in Ensuring \cup {"daemonKill", "daemonStop"} =>
       late \/ \A t \in old.tunnels : Pkilled(t) => tunnels[t] = "none"

WifiInv == ShapeInv /\ JobInv /\ FreshInv /\ ThrottleInv /\ RestartInv

-----------------------------------------------------------------------------
(* Facts about the helpers.                                                *)

\* The time and the watch keep their types as time goes by, and the start stays
\* older than last_attempt when it is.
LEMMA ElapseShape ==
  ASSUME ShapeInv, NEW t \in Nat, Elapse(t)
  PROVE  age' \in 0 .. Throttle /\ watch' \in Watches
<1>1. age \in 0 .. Throttle /\ watch \in Watches /\ NoWatch \in Watches
  BY DEF ShapeInv, TypeOK, Watches, NoWatch, Throttle
<1>2. age' \in 0 .. Throttle
  BY <1>1 DEF Elapse, Throttle
<1>3. watch' \in Watches
  <2>1. CASE watch.way # "none" /\ watch.clock + t < Throttle
    <3>1. watch.clock + t \in 0 .. Throttle
      BY <1>1, <2>1 DEF Watches, Throttle
    <3> QED
      BY <1>1, <2>1, <3>1 DEF Elapse, Watches
  <2>2. CASE ~(watch.way # "none" /\ watch.clock + t < Throttle)
    BY <1>1, <2>2 DEF Elapse
  <2> QED
    BY <2>1, <2>2
<1> QED
  BY <1>2, <1>3

LEMMA ElapseSince ==
  ASSUME ShapeInv, SinceInv, NEW t \in Nat, Elapse(t)
  PROVE  /\ SinceInv'
         /\ watch'.way # "none" => watch'.way = watch.way
         /\ watch'.way # "none" /\ Earlier => Earlier'
<1>1. age \in 0 .. Throttle /\ watch \in Watches
  BY DEF ShapeInv, TypeOK, Watches
<1>2. watch.clock \in Nat /\ watch.count \in Nat /\ age \in Nat
  BY <1>1 DEF Watches, Throttle
<1>3. CASE watch.way # "none" /\ watch.clock + t < Throttle
  <2>1. /\ watch'.way = watch.way /\ watch'.count = watch.count /\ watch'.clock = watch.clock + t
    BY <1>1, <1>3 DEF Elapse, Watches
  <2>2. watch.clock >= age => watch'.clock >= age'
    BY <1>2, <2>1 DEF Elapse, Throttle
  <2> QED
    BY <1>2, <1>3, <2>1, <2>2 DEF SinceInv, Earlier
<1>4. CASE ~(watch.way # "none" /\ watch.clock + t < Throttle)
  <2>1. watch'.way = "none" /\ watch'.count = 0
    BY <1>4 DEF Elapse, NoWatch
  <2> QED
    BY <2>1 DEF SinceInv
<1> QED
  BY <1>3, <1>4

LEMMA ElapseAhead ==
  ASSUME ShapeInv, SinceInv, NEW t \in Nat, Elapse(t), UNCHANGED hs, NEW i, NEW j,
         j >= i \/ j = i, i \in Nat, j \in Nat, Ahead(i) => Earlier
  PROVE  Ahead(j)' => Earlier'
<1> SUFFICES ASSUME Ahead(j)'
             PROVE  Earlier'
  OBVIOUS
<1>1. PICK k \in {1, 2} : k >= j /\ Order[k] = watch'.way
  BY DEF Ahead, Order
<1>2. Order[k] # "none"
  BY DEF Order
<1>3. watch'.way # "none" /\ watch'.way = watch.way
  BY <1>1, <1>2, ElapseSince
<1>4. Ahead(i)
  BY <1>1, <1>3 DEF Ahead
<1> QED
  BY <1>3, <1>4, ElapseSince

\* What is watched has its shape after a start.
LEMMA NoteShape ==
  ASSUME ShapeInv, NEW d \in Ways, Note(d)
  PROVE  watch' \in Watches
<1>1. watch \in Watches /\ d # "none"
  BY DEF ShapeInv, TypeOK, Watches, Ways
<1>2. \/ watch' = [watch EXCEPT !.count = @ + 1]
      \/ watch' = watch
      \/ watch' = [way |-> d, clock |-> 0, count |-> 1]
  BY DEF Note
<1>3. [way |-> d, clock |-> 0, count |-> 1] \in Watches
  BY DEF Watches, Throttle
<1>4. [watch EXCEPT !.count = @ + 1] \in Watches
  BY <1>1 DEF Watches
<1> QED
  BY <1>1, <1>2, <1>3, <1>4

\* A start the same way is the second one.
LEMMA NoteKeeps ==
  ASSUME ShapeInv, SinceInv, NEW d \in Ways, Note(d),
         watch.way = d => Earlier, UNCHANGED age
  PROVE  /\ SinceInv'
         /\ watch'.way \in {d, watch.way}
         /\ watch'.way # d => watch' = watch
<1>1. age \in 0 .. Throttle /\ watch \in Watches /\ d # "none"
  BY DEF ShapeInv, TypeOK, Watches, Ways
<1>2. CASE watch.way = d
  <2>1. watch' = [watch EXCEPT !.count = @ + 1]
    BY <1>1, <1>2 DEF Note
  <2>2. watch'.way = d /\ watch'.clock = watch.clock /\ watch'.count = 2 /\ watch.clock >= age
    BY <1>1, <1>2, <2>1 DEF Watches, Earlier
  <2> QED
    BY <1>1, <1>2, <2>2 DEF SinceInv
<1>3. CASE watch.way # d /\ watch' = watch
  BY <1>1, <1>3 DEF SinceInv
<1>4. CASE watch.way # d /\ watch' # watch
  <2>1. watch' = [way |-> d, clock |-> 0, count |-> 1]
    BY <1>4 DEF Note
  <2> QED
    BY <1>1, <2>1 DEF SinceInv, Throttle
<1> QED
  BY <1>2, <1>3, <1>4

\* What is shown of the power of a card has its shape.
LEMMA ShownTxShape ==
  ASSUME NEW tx \in Powers, NEW profile \in CardProfiles
  PROVE  ShownTx(tx, profile) \in ShownPowers
<1>1. CASE profile = "fixed"
  BY <1>1 DEF ShownTx, ShownPowers
<1>2. CASE profile = "levels" /\ "level" \in tx
  BY <1>2 DEF ShownTx, ShownPowers
<1>3. CASE profile # "fixed" /\ ~(profile = "levels" /\ "level" \in tx)
  BY <1>3 DEF ShownTx, ShownPowers, Powers
<1> QED
  BY <1>1, <1>2, <1>3

\* pkill leaves what it matches dead or about to be.
LEMMA KillKills ==
  ASSUME NEW ids, NEW f \in Processes(ids), NEW which
  PROVE  /\ Kill(f, which) \in Processes(ids)
         /\ \A p \in ids : p \in which => Kill(f, which)[p] \in Killed
         /\ \A p \in ids : f[p] = "none" => Kill(f, which)[p] = "none"
BY DEF Processes, Kill, Killed

-----------------------------------------------------------------------------
(* Types and shapes.                                                       *)

LEMMA PlugShape ==
  ASSUME ShapeInv, NEW c \in Cards, Plug(c)
  PROVE  ShapeInv'
<1>1. UNCHANGED <<files, asked, refused, shown, daemons, tunnels, old, age,
                  watch, retry, pc, job, cards, hs, stage, run, late>>
  BY DEF Plug, wanted, procs, since, call
<1>2. plugged' \subseteq Cards
  BY DEF Plug, ShapeInv, TypeOK
<1> QED
  BY <1>1, <1>2 DEF ShapeInv, TypeOK

LEMMA UnplugShape ==
  ASSUME ShapeInv, NEW c \in Cards, Unplug(c)
  PROVE  ShapeInv'
<1>1. UNCHANGED <<files, asked, refused, shown, daemons, tunnels, old, age,
                  watch, retry, pc, job, cards, hs, stage, run, late>>
  BY DEF Unplug, wanted, procs, since, call
<1>2. plugged' \subseteq Cards
  BY DEF Unplug, ShapeInv, TypeOK
<1> QED
  BY <1>1, <1>2 DEF ShapeInv, TypeOK

LEMMA DaemonUpShape ==
  ASSUME ShapeInv, NEW d \in Ways, DaemonUp(d)
  PROVE  ShapeInv'
<1>1. UNCHANGED <<plugged, files, asked, refused, shown, tunnels, old, age,
                  watch, retry, pc, job, cards, hs, stage, run, late>>
  BY DEF DaemonUp, wanted, since, call
<1>2. daemons' \in Processes(Ways)
  BY DEF DaemonUp, ShapeInv, TypeOK, Processes
<1> QED
  BY <1>1, <1>2 DEF ShapeInv, TypeOK

LEMMA DaemonEndsShape ==
  ASSUME ShapeInv, NEW d \in Ways, DaemonEnds(d)
  PROVE  ShapeInv'
<1>1. UNCHANGED <<plugged, files, asked, refused, shown, tunnels, old, age,
                  watch, retry, pc, job, cards, hs, stage, run, late>>
  BY DEF DaemonEnds, wanted, since, call
<1>2. daemons' \in Processes(Ways)
  BY DEF DaemonEnds, ShapeInv, TypeOK, Processes
<1> QED
  BY <1>1, <1>2 DEF ShapeInv, TypeOK

LEMMA TunnelUpShape ==
  ASSUME ShapeInv, NEW t \in Bridges, TunnelUp(t)
  PROVE  ShapeInv'
<1>1. UNCHANGED <<plugged, files, asked, refused, shown, daemons, old, age,
                  watch, retry, pc, job, cards, hs, stage, run, late>>
  BY DEF TunnelUp, wanted, since, call
<1>2. tunnels' \in Processes(Bridges)
  BY DEF TunnelUp, ShapeInv, TypeOK, Processes
<1> QED
  BY <1>1, <1>2 DEF ShapeInv, TypeOK

LEMMA TunnelEndsShape ==
  ASSUME ShapeInv, NEW t \in Bridges, TunnelEnds(t)
  PROVE  ShapeInv'
<1>1. UNCHANGED <<plugged, files, asked, refused, shown, daemons, old, age,
                  watch, retry, pc, job, cards, hs, stage, run, late>>
  BY DEF TunnelEnds, wanted, since, call
<1>2. tunnels' \in Processes(Bridges)
  BY DEF TunnelEnds, ShapeInv, TypeOK, Processes
<1> QED
  BY <1>1, <1>2 DEF ShapeInv, TypeOK

LEMMA TimePassesShape ==
  ASSUME ShapeInv, TimePasses
  PROVE  ShapeInv'
<1>1. UNCHANGED <<plugged, files, asked, refused, shown, daemons, tunnels, old,
                  retry, pc, job, cards, hs, stage, run, late>>
  BY DEF TimePasses, wanted, procs, call
<1>2. age' \in 0 .. Throttle /\ watch' \in Watches
  BY ElapseShape DEF TimePasses
<1> QED
  BY <1>1, <1>2 DEF ShapeInv, TypeOK, Watches

\* A refresh begins.
LEMMA RefreshShape ==
  ASSUME ShapeInv, NEW j \in {"boot", "update", "retry"}, Refresh(j),
         UNCHANGED <<plugged, wanted, procs, since, retry, stage, late>>
  PROVE  ShapeInv'
<1>1. UNCHANGED <<plugged, files, asked, refused, daemons, tunnels, old, age, watch, retry,
                  hs, stage, late>>
  BY DEF Refresh, wanted, procs, since
<1>2. shown' \in [cards : SUBSET Cards, type : OverrideTypes, tx : ShownPowers,
                  profile : CardProfiles, daemon : BOOLEAN, tunnel : BOOLEAN]
  <2>1. PICK p \in Profiles \cup {"none"} :
          shown' = [cards |-> plugged \ Artosyn, type |-> files.type, tx |-> ShownTx(files.tx, p),
                    profile |-> p, daemon |-> FALSE, tunnel |-> FALSE]
    BY DEF Refresh
  <2>2. p \in CardProfiles /\ files.tx \in Powers /\ files.type \in OverrideTypes
    BY WifiAssumption DEF CardProfiles, ShapeInv
  <2>3. ShownTx(files.tx, p) \in ShownPowers
    BY <2>2, ShownTxShape
  <2> QED
    BY <2>1, <2>2, <2>3 DEF ShapeInv, TypeOK
<1>3. cards' \subseteq Cards /\ job' \in {"boot", "update", "retry"} /\ pc' \in {"done", "port"}
  BY DEF Refresh, ShapeInv, TypeOK
<1>4. run' \in [daemon : BOOLEAN, tunnel : BOOLEAN]
  BY DEF Refresh, NoRun
<1> QED
  BY <1>1, <1>2, <1>3, <1>4 DEF ShapeInv, TypeOK

\* What Return leaves has its shape.
LEMMA ReturnShape ==
  ASSUME Return
  PROVE  /\ pc' = "idle" /\ job' = "update" /\ cards' = {} /\ hs' = FALSE /\ stage' = 1
         /\ run' \in [daemon : BOOLEAN, tunnel : BOOLEAN]
         /\ old' \in [daemons : SUBSET Ways, tunnels : SUBSET Bridges] /\ late' = FALSE
BY DEF Return, NoRun, NoneOld

LEMMA FinishShape ==
  ASSUME ShapeInv, Finish
  PROVE  ShapeInv'
<1>1. UNCHANGED <<plugged, files, asked, daemons, tunnels, age, watch>> /\ refused' = FALSE
  BY DEF Finish, since
<1>2. shown' \in [cards : SUBSET Cards, type : OverrideTypes, tx : ShownPowers,
                  profile : CardProfiles, daemon : BOOLEAN, tunnel : BOOLEAN]
  BY DEF Finish, ShapeInv, TypeOK
<1>3. retry' \in BOOLEAN
  BY DEF Finish, ShapeInv, TypeOK, Compatible
<1>4. /\ pc' = "idle" /\ job' = "update" /\ cards' = {} /\ hs' = FALSE /\ stage' = 1
      /\ run' \in [daemon : BOOLEAN, tunnel : BOOLEAN]
      /\ old' \in [daemons : SUBSET Ways, tunnels : SUBSET Bridges] /\ late' = FALSE
  BY ReturnShape DEF Finish
<1>5. shown'.cards \subseteq Cards /\ {shown'.daemon, shown'.tunnel} \subseteq BOOLEAN
  BY <1>2
<1>6. {retry, hs, refused, late}' \subseteq BOOLEAN
  BY <1>1, <1>3, <1>4
<1>7. TypeOK'
  BY <1>1, <1>4, <1>5, <1>6 DEF ShapeInv, TypeOK
<1> QED
  BY <1>1, <1>2, <1>4, <1>7 DEF ShapeInv

LEMMA RefreshRequestShape ==
  ASSUME ShapeInv, RefreshRequest
  PROVE  ShapeInv'
<1>1. UNCHANGED <<plugged, files, asked, refused, shown, daemons, tunnels, old, age, watch,
                  retry, job, cards, hs, stage, run, late>>
  BY DEF RefreshRequest, wanted, procs, since, call
<1>2. pc' = "reload"
  BY DEF RefreshRequest, Reply
<1> QED
  BY <1>1, <1>2 DEF ShapeInv, TypeOK

\* A change of the files: whatever of it is written has its shape.
LEMMA WritesShape ==
  ASSUME NEW S, NEW was \in S, NEW new \in S, NEW nothing \in S, NEW w \in Writes(was, new, nothing)
  PROVE  w.is \in S /\ w.ok \in BOOLEAN
<1>1. \/ w = [ok |-> TRUE, is |-> new]
      \/ w = [ok |-> FALSE, is |-> was]
      \/ w = [ok |-> TRUE, is |-> nothing]
  BY DEF Writes
<1>2. w.is \in {new, was, nothing}
  BY <1>1
<1>3. w.ok \in BOOLEAN
  <2>1. CASE w = [ok |-> TRUE, is |-> new]
    BY <2>1, Zenon
  <2>2. CASE w = [ok |-> FALSE, is |-> was]
    BY <2>2, Zenon
  <2>3. CASE w = [ok |-> TRUE, is |-> nothing]
    BY <2>3, Zenon
  <2> QED
    BY <1>1, <2>1, <2>2, <2>3
<1> QED
  BY <1>2, <1>3

LEMMA NewTxShape ==
  ASSUME NEW tx \in Powers, NEW change \in TxChanges
  PROVE  NewTx(tx, change) \in Powers
<1>1. change \subseteq {"mw", "level", "auto"}
  BY WifiAssumption
<1>2. CASE "level" \in change
  BY <1>2 DEF NewTx, Powers
<1>3. CASE "level" \notin change /\ "auto" \in change
  BY <1>3 DEF NewTx, Powers
<1>4. CASE "level" \notin change /\ "auto" \notin change
  BY <1>1, <1>4 DEF NewTx, Powers
<1> QED
  BY <1>2, <1>3, <1>4

\* The files and the answer after a change.
LEMMA ChangeShape ==
  ASSUME ShapeInv, NEW w, NEW x, w.ok \in BOOLEAN, x.ok \in BOOLEAN,
         files' \in [type : OverrideTypes, tx : Powers],
         refused' = (refused \/ ~(w.ok /\ x.ok)), Reply(w.ok /\ x.ok),
         UNCHANGED <<plugged, shown, procs, since, retry, call, stage, run, late>>
  PROVE  ShapeInv'
<1>1. UNCHANGED <<plugged, shown, daemons, tunnels, old, age, watch, retry, job, cards, hs,
                  stage, run, late>>
  BY DEF procs, since, call
<1>2. pc' \in {"reload", "idle"} /\ refused' \in BOOLEAN
  BY DEF Reply
<1>3. files'.type \in {None} \cup Types /\ files'.tx \subseteq {"mw", "level"}
  BY DEF OverrideTypes, Powers
<1> QED
  BY <1>1, <1>2, <1>3 DEF ShapeInv, TypeOK

LEMMA SetShape ==
  ASSUME ShapeInv, NEW t \in Types \cup {Keep}, NEW change \in TxChanges \cup {{}}, Set(t, change)
  PROVE  ShapeInv'
<1>1. PICK w \in IF t = Keep THEN {[ok |-> TRUE, is |-> files.type]} ELSE Writes(files.type, t, None),
           x \in IF change = {} THEN {[ok |-> TRUE, is |-> files.tx]}
                                ELSE Writes(files.tx, NewTx(files.tx, change), {}) :
        /\ files' = [type |-> w.is, tx |-> x.is]
        /\ refused' = (refused \/ ~(w.ok /\ x.ok))
        /\ Reply(w.ok /\ x.ok)
  BY DEF Set
<1>2. files.type \in OverrideTypes /\ files.tx \in Powers /\ None \in OverrideTypes /\ {} \in Powers
  BY DEF ShapeInv, OverrideTypes, Powers
<1>3. w.is \in OverrideTypes /\ w.ok \in BOOLEAN
  <2>1. CASE t = Keep
    <3>1. w = [ok |-> TRUE, is |-> files.type]
      BY <2>1, <1>1
    <3>2. w.is = files.type /\ w.ok = TRUE
      BY <3>1, Zenon
    <3> QED
      BY <3>2, <1>2
  <2>2. CASE t # Keep
    <3>1. t \in OverrideTypes /\ w \in Writes(files.type, t, None)
      BY <2>2, <1>1 DEF OverrideTypes
    <3> QED
      BY <3>1, <1>2, WritesShape
  <2> QED
    BY <2>1, <2>2
<1>4. x.is \in Powers /\ x.ok \in BOOLEAN
  <2>1. CASE change = {}
    <3>1. x = [ok |-> TRUE, is |-> files.tx]
      BY <2>1, <1>1
    <3>2. x.is = files.tx /\ x.ok = TRUE
      BY <3>1, Zenon
    <3> QED
      BY <3>2, <1>2
  <2>2. CASE change # {}
    <3>1. NewTx(files.tx, change) \in Powers
      BY <2>2, <1>2, NewTxShape
    <3>2. x \in Writes(files.tx, NewTx(files.tx, change), {})
      BY <2>2, <1>1
    <3> QED
      BY <3>1, <3>2, <1>2, WritesShape
  <2> QED
    BY <2>1, <2>2
<1>5. files' \in [type : OverrideTypes, tx : Powers]
  BY <1>1, <1>3, <1>4
<1>6. UNCHANGED <<plugged, shown, procs, since, retry, call, stage, run, late>>
  BY DEF Set
<1> QED
  BY <1>1, <1>3, <1>4, <1>5, <1>6, ChangeShape

LEMMA ClearShape ==
  ASSUME ShapeInv, Clear
  PROVE  ShapeInv'
<1>1. PICK w \in Writes(files.type, None, None), x \in Writes(files.tx, {}, {}) :
        /\ files' = [type |-> w.is, tx |-> IF w.ok THEN x.is ELSE files.tx]
        /\ refused' = (refused \/ ~(w.ok /\ x.ok))
        /\ Reply(w.ok /\ x.ok)
  BY DEF Clear
<1>2. files.type \in OverrideTypes /\ files.tx \in Powers /\ None \in OverrideTypes /\ {} \in Powers
  BY DEF ShapeInv, OverrideTypes, Powers
<1>3. w.is \in OverrideTypes /\ w.ok \in BOOLEAN /\ x.is \in Powers /\ x.ok \in BOOLEAN
  BY <1>2, WritesShape
<1>4. files' \in [type : OverrideTypes, tx : Powers]
  BY <1>1, <1>2, <1>3
<1>5. UNCHANGED <<plugged, shown, procs, since, retry, call, stage, run, late>>
  BY DEF Clear
<1> QED
  BY <1>1, <1>3, <1>4, <1>5, ChangeShape

LEMMA RestartRequestShape ==
  ASSUME ShapeInv, RestartRequest
  PROVE  ShapeInv'
<1>1. UNCHANGED <<plugged, files, asked, refused, shown, daemons, age, watch, retry, hs, stage>>
  BY DEF RestartRequest, wanted, since
<1>2. /\ pc' = "tunnelStop" /\ job' = "restart" /\ cards' = shown.cards /\ late' = FALSE
      /\ run' \in [daemon : BOOLEAN, tunnel : BOOLEAN]
  BY DEF RestartRequest, NoRun
<1>3. old' \in [daemons : SUBSET Ways, tunnels : SUBSET Bridges]
  <2>1. Alive(daemons) \subseteq Ways /\ Alive(tunnels) \subseteq Bridges
    BY DEF Alive, ShapeInv, TypeOK, Processes
  <2> QED
    BY <2>1 DEF RestartRequest
<1>4. tunnels' \in Processes(Bridges)
  BY KillKills DEF RestartRequest, ShapeInv, TypeOK
<1> QED
  BY <1>1, <1>2, <1>3, <1>4 DEF ShapeInv, TypeOK

LEMMA TunnelStopShape ==
  ASSUME ShapeInv, TunnelStop
  PROVE  ShapeInv'
<1>1. UNCHANGED <<plugged, files, asked, refused, shown, daemons, tunnels, old,
                  retry, job, cards, hs, stage, run>>
  BY DEF TunnelStop, wanted, procs, call
<1>2. age' \in 0 .. Throttle /\ watch' \in Watches
  <2>1. CASE Iface
    BY <2>1, ElapseShape DEF TunnelStop, TunnelStopWait
  <2>2. CASE ~Iface
    BY <2>2 DEF TunnelStop, since, ShapeInv, TypeOK, Watches
  <2> QED
    BY <2>1, <2>2
<1>3. pc' = "daemonKill" /\ late' \in BOOLEAN
  BY DEF TunnelStop, ShapeInv, TypeOK
<1> QED
  BY <1>1, <1>2, <1>3 DEF ShapeInv, TypeOK, Watches

LEMMA DaemonKillShape ==
  ASSUME ShapeInv, DaemonKill
  PROVE  ShapeInv'
<1>1. UNCHANGED <<plugged, files, asked, refused, shown, tunnels, old, age, watch,
                  retry, job, cards, hs, stage, run, late>>
  BY DEF DaemonKill, wanted, since, call
<1>2. pc' = "daemonStop" /\ daemons' \in Processes(Ways)
  BY KillKills DEF DaemonKill, ShapeInv, TypeOK
<1> QED
  BY <1>1, <1>2 DEF ShapeInv, TypeOK

LEMMA DaemonStopShape ==
  ASSUME ShapeInv, DaemonStop
  PROVE  ShapeInv'
<1>1. UNCHANGED <<plugged, files, asked, refused, shown, daemons, tunnels, retry>>
  BY DEF DaemonStop, wanted
<1>2. CASE Port
  <2>1. age' \in 0 .. Throttle /\ watch' \in Watches
    BY <1>2, ElapseShape DEF DaemonStop, DaemonStopWait
  <2>2. Return
    BY <1>2 DEF DaemonStop
  <2> QED
    BY <1>1, <2>1, <2>2, ReturnShape DEF ShapeInv, TypeOK, Watches
<1>3. CASE ~Port
  <2>1. pc' = "port" /\ UNCHANGED <<age, watch, old, job, cards, hs, stage, run, late>>
    BY <1>3 DEF DaemonStop, call, since
  <2> QED
    BY <1>1, <2>1 DEF ShapeInv, TypeOK
<1> QED
  BY <1>2, <1>3

LEMMA RestartEndsShape ==
  ASSUME ShapeInv, RestartEnds
  PROVE  ShapeInv'
<1>1. UNCHANGED <<plugged, files, asked, refused, shown, daemons, tunnels, age, watch, retry>>
  BY DEF RestartEnds, wanted, since
<1>2. CASE run.daemon /\ run.tunnel
  <2>1. pc' = "reload" /\ UNCHANGED <<old, job, cards, hs, stage, run, late>>
    BY <1>2 DEF RestartEnds, call
  <2> QED
    BY <1>1, <2>1 DEF ShapeInv, TypeOK
<1>3. CASE ~(run.daemon /\ run.tunnel)
  <2>1. Return
    BY <1>3 DEF RestartEnds
  <2> QED
    BY <1>1, <2>1, ReturnShape DEF ShapeInv, TypeOK
<1> QED
  BY <1>2, <1>3

LEMMA FoundShape ==
  ASSUME ShapeInv, Found
  PROVE  pc' = "tunnel" /\ run' \in [daemon : BOOLEAN, tunnel : BOOLEAN]
BY DEF Found, ShapeInv

LEMMA LookForDaemonShape ==
  ASSUME ShapeInv, LookForDaemon
  PROVE  ShapeInv'
<1>1. UNCHANGED <<plugged, files, asked, refused, shown, daemons, tunnels, old, retry, job,
                  cards, late>>
  BY DEF LookForDaemon, wanted, procs
<1>2. pc' \in {"tunnel", "done", "start"} /\ run' \in [daemon : BOOLEAN, tunnel : BOOLEAN]
  <2>1. Found \/ (pc' \in {"done", "start"} /\ UNCHANGED run)
    BY DEF LookForDaemon
  <2> QED
    BY <2>1, FoundShape DEF ShapeInv
<1>4. hs' \in BOOLEAN
  <2>1. hs' = hs \/ hs' = ("hs" \in plugged)
    BY DEF LookForDaemon
  <2>2. hs \in BOOLEAN
    BY DEF ShapeInv, TypeOK
  <2>3. CASE hs' = hs
    BY <2>2, <2>3
  <2>4. CASE hs' = ("hs" \in plugged)
    <3>1. ("hs" \in plugged) \in BOOLEAN
      OBVIOUS
    <3> QED
      BY <2>4, <3>1, Zenon
  <2> QED
    BY <2>1, <2>3, <2>4
<1>3. age' \in 0 .. Throttle /\ UNCHANGED watch /\ stage' \in Nat \ {0}
  <2>1. CASE UNCHANGED <<since, stage>>
    BY <2>1 DEF since, ShapeInv, TypeOK
  <2>2. CASE age' = 0 /\ UNCHANGED watch /\ stage' = 1
    BY <2>2 DEF ShapeInv, TypeOK, Throttle
  <2> QED
    BY <2>1, <2>2 DEF LookForDaemon
<1> QED
  BY <1>1, <1>2, <1>3, <1>4 DEF ShapeInv, TypeOK

LEMMA OrderIsWays ==
  ASSUME ShapeInv, stage <= Len(Order)
  PROVE  Order[stage] \in Ways /\ stage <= 2 /\ stage \in {1, 2}
<1>1. Len(Order) = 2 /\ Order[1] \in Ways /\ Order[2] \in Ways
  BY DEF Order, Ways
<1>2. stage = 1 \/ stage = 2
  BY <1>1 DEF ShapeInv
<1> QED
  BY <1>1, <1>2

LEMMA StartDaemonShape ==
  ASSUME ShapeInv, StartDaemon
  PROVE  ShapeInv'
<1>1. UNCHANGED <<plugged, files, asked, refused, shown, tunnels, age, retry, job, cards, hs,
                  run, late>>
  BY DEF StartDaemon, wanted, call
<1>2. PICK d : d = Order[stage]
  OBVIOUS
<1>3. d \in Ways
  BY <1>2, OrderIsWays DEF StartDaemon
<1>4. CASE /\ pc' = "daemonWait" /\ Note(d)
           /\ daemons' = [daemons EXCEPT ![d] = IF @ = "none" THEN "starting" ELSE @]
           /\ old' = [old EXCEPT !.daemons = @ \ ({d} \ Alive(daemons))]
           /\ UNCHANGED stage
  <2>1. daemons' \in Processes(Ways)
    BY <1>4 DEF ShapeInv, TypeOK, Processes
  <2>2. old' \in [daemons : SUBSET Ways, tunnels : SUBSET Bridges]
    BY <1>4 DEF ShapeInv
  <2>3. watch' \in Watches
    BY <1>3, <1>4, NoteShape
  <2> QED
    BY <1>1, <1>4, <2>1, <2>2, <2>3 DEF ShapeInv, TypeOK, Watches
<1>5. CASE stage' = stage + 1 /\ UNCHANGED <<pc, watch, daemons, old>>
  BY <1>1, <1>5 DEF ShapeInv, TypeOK
<1> QED
  BY <1>2, <1>4, <1>5 DEF StartDaemon

LEMMA DaemonWaitShape ==
  ASSUME ShapeInv, DaemonWait
  PROVE  ShapeInv'
<1>1. UNCHANGED <<plugged, files, asked, refused, shown, daemons, tunnels, old, retry,
                  job, cards, hs, late>>
  BY DEF DaemonWait, wanted, procs, call
<1>2. CASE Port
  <2>1. Found /\ UNCHANGED <<age, watch, stage>>
    BY <1>2 DEF DaemonWait, since
  <2> QED
    BY <1>1, <2>1, FoundShape DEF ShapeInv, TypeOK
<1>3. CASE ~Port
  <2>1. /\ pc' = "start" /\ stage' = stage + 1 /\ UNCHANGED run
        /\ Elapse(IF Order[stage] = "service" THEN ServiceWait ELSE BinaryWait)
    BY <1>3 DEF DaemonWait
  <2>2. age' \in 0 .. Throttle /\ watch' \in Watches
    BY <2>1, ElapseShape DEF ServiceWait, BinaryWait
  <2> QED
    BY <1>1, <2>1, <2>2 DEF ShapeInv, TypeOK, Watches
<1> QED
  BY <1>2, <1>3

LEMMA StartFailedShape ==
  ASSUME ShapeInv, StartFailed
  PROVE  ShapeInv'
<1>1. UNCHANGED <<plugged, files, asked, refused, shown, daemons, tunnels, old, age, watch,
                  retry, job, cards, hs, stage, late>>
  BY DEF StartFailed, wanted, procs, since, call
<1>2. pc' \in {"tunnel", "done"} /\ run' \in [daemon : BOOLEAN, tunnel : BOOLEAN]
  BY FoundShape DEF StartFailed, ShapeInv
<1> QED
  BY <1>1, <1>2 DEF ShapeInv, TypeOK

LEMMA LookForTunnelShape ==
  ASSUME ShapeInv, LookForTunnel
  PROVE  ShapeInv'
<1>1. UNCHANGED <<plugged, files, asked, refused, shown, daemons, tunnels, old, age, watch,
                  retry, job, cards, hs, late>>
  BY DEF LookForTunnel, wanted, procs, since, call
<1>2. pc' \in {"bridge", "done"} /\ stage' \in {1, stage, stage + 1}
  BY DEF LookForTunnel
<1>4. run' \in [daemon : BOOLEAN, tunnel : BOOLEAN]
  <2>1. run' = run \/ run' = [run EXCEPT !.tunnel = TRUE]
    BY DEF LookForTunnel
  <2> QED
    BY <2>1 DEF ShapeInv
<1>5. stage' \in Nat \ {0}
  BY <1>2 DEF ShapeInv
<1> QED
  BY <1>1, <1>2, <1>4, <1>5 DEF ShapeInv, TypeOK

LEMMA StartTunnelShape ==
  ASSUME ShapeInv, StartTunnel
  PROVE  ShapeInv'
<1>1. UNCHANGED <<plugged, files, asked, refused, shown, daemons, age, watch, retry, job,
                  cards, hs, stage, run, late>>
  BY DEF StartTunnel, wanted, since, call
<1>2. tunnels' \in Processes(Bridges)
  BY DEF StartTunnel, ShapeInv, TypeOK, Processes
<1>3. old' \in [daemons : SUBSET Ways, tunnels : SUBSET Bridges] /\ pc' = "tunnelWait"
  BY DEF StartTunnel, ShapeInv
<1> QED
  BY <1>1, <1>2, <1>3 DEF ShapeInv, TypeOK

LEMMA TunnelReadyShape ==
  ASSUME ShapeInv, TunnelReady
  PROVE  ShapeInv'
<1>1. UNCHANGED <<plugged, files, asked, refused, shown, daemons, tunnels, old, retry,
                  job, cards, hs, late>>
  BY DEF TunnelReady, wanted, procs, call
<1>2. pc' \in {"bridge", "done"} /\ stage' \in {1, stage, stage + 1}
  BY DEF TunnelReady
<1>4. run' \in [daemon : BOOLEAN, tunnel : BOOLEAN]
  <2>1. run' = run \/ run' = [run EXCEPT !.tunnel = TRUE]
    BY DEF TunnelReady
  <2> QED
    BY <2>1 DEF ShapeInv
<1>5. stage' \in Nat \ {0}
  BY <1>2 DEF ShapeInv
<1>3. age' \in 0 .. Throttle /\ watch' \in Watches
  <2>1. CASE UNCHANGED since
    BY <2>1 DEF since, ShapeInv, TypeOK, Watches
  <2>2. CASE Elapse(TunnelWait)
    BY <2>2, ElapseShape DEF TunnelWait
  <2> QED
    BY <2>1, <2>2 DEF TunnelReady, since
<1> QED
  BY <1>1, <1>2, <1>3, <1>4, <1>5 DEF ShapeInv, TypeOK, Watches

-----------------------------------------------------------------------------
(* The other parts of the invariant.                                       *)

\* Between the steps of the main thread daemons and bridges come up and end,
\* but a dead one stays dead and a killed one does not come up again.
NoneReborn(f, ids) ==
  \A p \in ids : /\ f[p] = "none" => f'[p] = "none"
                 /\ f[p] \in Killed => f'[p] \in Killed

LEMMA WorldProcesses ==
  ASSUME ShapeInv, World
  PROVE  /\ NoneReborn(daemons, Ways) /\ NoneReborn(tunnels, Bridges)
         /\ UNCHANGED since \/ Elapse(1)
         /\ UNCHANGED <<files, asked, refused, shown, old, pc, job, hs, stage, late>>
<1>1. daemons \in Processes(Ways) /\ tunnels \in Processes(Bridges)
  BY DEF ShapeInv, TypeOK
<1>2. UNCHANGED <<files, asked, refused, shown, old, pc, job, hs, stage, late>>
  BY DEF World, Plug, Unplug, DaemonUp, DaemonEnds, TunnelUp, TunnelEnds, TimePasses,
         wanted, procs, since, call
<1>3. NoneReborn(daemons, Ways)
  <2>1. CASE UNCHANGED daemons
    BY <2>1 DEF NoneReborn
  <2>2. ASSUME NEW d \in Ways, DaemonUp(d)
        PROVE  NoneReborn(daemons, Ways)
    <3>1. daemons[d] = "starting" /\ \A e \in Ways : e # d => daemons'[e] = daemons[e]
      BY <1>1, <2>2 DEF DaemonUp, Processes
    <3> QED
      BY <3>1 DEF NoneReborn, Killed
  <2>3. ASSUME NEW d \in Ways, DaemonEnds(d)
        PROVE  NoneReborn(daemons, Ways)
    BY <1>1, <2>3 DEF DaemonEnds, Processes, NoneReborn, Killed
  <2> QED
    BY <2>1, <2>2, <2>3 DEF World, Plug, Unplug, TunnelUp, TunnelEnds, TimePasses, procs
<1>4. NoneReborn(tunnels, Bridges)
  <2>1. CASE UNCHANGED tunnels
    BY <2>1 DEF NoneReborn
  <2>2. ASSUME NEW t \in Bridges, TunnelUp(t)
        PROVE  NoneReborn(tunnels, Bridges)
    <3>1. tunnels[t] = "starting" /\ \A u \in Bridges : u # t => tunnels'[u] = tunnels[u]
      BY <1>1, <2>2 DEF TunnelUp, Processes
    <3> QED
      BY <3>1 DEF NoneReborn, Killed
  <2>3. ASSUME NEW t \in Bridges, TunnelEnds(t)
        PROVE  NoneReborn(tunnels, Bridges)
    BY <1>1, <2>3 DEF TunnelEnds, Processes, NoneReborn, Killed
  <2> QED
    BY <2>1, <2>2, <2>3 DEF World, Plug, Unplug, DaemonUp, DaemonEnds, TimePasses, procs
<1>5. UNCHANGED since \/ Elapse(1)
  BY DEF World, Plug, Unplug, DaemonUp, DaemonEnds, TunnelUp, TunnelEnds, TimePasses
<1> QED
  BY <1>2, <1>3, <1>4, <1>5

Rest == JobInv /\ FreshInv /\ ThrottleInv /\ RestartInv

LEMMA WorldRest ==
  ASSUME ShapeInv, Rest, World
  PROVE  Rest'
<1>1. /\ NoneReborn(daemons, Ways) /\ NoneReborn(tunnels, Bridges)
      /\ since' = since \/ Elapse(1)
      /\ UNCHANGED <<files, asked, refused, shown, old, pc, job, hs, stage, late>>
  BY WorldProcesses
<1>2. JobInv' /\ FreshInv'
  BY <1>1 DEF Rest, JobInv, FreshInv, Fresh
<1>5. ThrottleInv'
  <2>1. ThrottleInv /\ SinceInv /\ stage \in Nat
    BY DEF Rest, ThrottleInv, ShapeInv
  <2>2. CASE since' = since
    BY <1>1, <2>1, <2>2 DEF since, ThrottleInv, SinceInv, Ahead, Earlier, Order
  <2>3. CASE Elapse(1)
    <3>1. Elapse(1) /\ SinceInv'
      BY <2>1, <2>3, ElapseSince
    <3>2. ASSUME pc = "start"
          PROVE  Ahead(stage)' => Earlier'
      <4>1. Ahead(stage) => Earlier
        BY <2>1, <3>2 DEF ThrottleInv
      <4>2. ASSUME NEW i \in Nat, i = stage
            PROVE  Ahead(i)' => Earlier'
        BY <1>1, <2>1, <3>1, <4>1, <4>2, ElapseAhead
      <4> QED
        BY <1>1, <2>1, <4>2 DEF Ahead
    <3>3. ASSUME pc = "daemonWait"
          PROVE  Ahead(stage + 1)' => Earlier'
      <4>1. Ahead(stage + 1) => Earlier
        BY <2>1, <3>3 DEF ThrottleInv
      <4>2. ASSUME NEW i \in Nat, i = stage + 1
            PROVE  Ahead(i)' => Earlier'
        BY <1>1, <2>1, <3>1, <4>1, <4>2, ElapseAhead
      <4> QED
        BY <1>1, <2>1, <4>2 DEF Ahead
    <3> QED
      BY <1>1, <3>1, <3>2, <3>3 DEF ThrottleInv
  <2> QED
    BY <1>1, <2>2, <2>3
<1>3. old.daemons \subseteq Ways /\ old.tunnels \subseteq Bridges
  BY DEF ShapeInv
<1>4. RestartInv'
  BY <1>1, <1>3 DEF Rest, RestartInv, NoneReborn, Pkilled
<1> QED
  BY <1>2, <1>4, <1>5 DEF Rest

LEMMA RefreshRest ==
  ASSUME ShapeInv, Rest, NEW j \in {"boot", "update", "retry"}, Refresh(j),
         UNCHANGED <<plugged, wanted, procs, since, retry, stage, late>>
  PROVE  Rest'
<1>1. UNCHANGED <<files, asked, refused, age, watch>>
  BY DEF wanted, since
<1>2. pc' \in {"done", "port"} /\ job' # "restart"
  BY DEF Refresh
<1>3. shown'.type = files.type /\ shown'.tx = ShownTx(files.tx, shown'.profile)
  BY DEF Refresh
<1>4. JobInv' /\ ThrottleInv' /\ RestartInv'
  BY <1>1, <1>2 DEF Rest, JobInv, ThrottleInv, SinceInv, RestartInv, Stopping
<1>5. FreshInv'
  BY <1>1, <1>3 DEF Rest, FreshInv, Fresh
<1> QED
  BY <1>4, <1>5 DEF Rest

\* When the main thread is idle, or about to refresh, only what is shown and
\* the start that is watched matter.
LEMMA IdleRest ==
  ASSUME pc' \in {"idle", "reload"}, SinceInv', FreshInv'
  PROVE  Rest'
BY DEF Rest, JobInv, ThrottleInv, RestartInv, Stopping, Ensuring

LEMMA FinishRest ==
  ASSUME ShapeInv, Rest, Finish
  PROVE  Rest'
<1>1. UNCHANGED <<files, asked, age, watch>> /\ pc' = "idle"
  BY DEF Finish, since, Return
<1>2. Fresh
  BY DEF Finish, Rest, FreshInv, Ensuring
<1>3. shown'.type = shown.type /\ shown'.tx = shown.tx /\ shown'.profile = shown.profile
  BY DEF Finish, ShapeInv
<1>4. FreshInv' /\ SinceInv'
  BY <1>1, <1>2, <1>3 DEF Rest, FreshInv, Fresh, Ensuring, ThrottleInv, SinceInv
<1> QED
  BY <1>1, <1>4, IdleRest

LEMMA RefreshRequestRest ==
  ASSUME ShapeInv, Rest, RefreshRequest
  PROVE  Rest'
<1>1. UNCHANGED <<files, asked, refused, shown, age, watch>> /\ pc' = "reload"
  BY DEF RefreshRequest, Reply, wanted, since
<1>2. FreshInv' /\ SinceInv'
  BY <1>1 DEF Rest, FreshInv, Ensuring, ThrottleInv, SinceInv
<1> QED
  BY <1>1, <1>2, IdleRest

\* A change of the files is either followed by a refresh or refused.
LEMMA ChangeRest ==
  ASSUME Rest, pc = "idle", NEW w, NEW x, w.ok \in BOOLEAN, x.ok \in BOOLEAN,
         refused' = (refused \/ ~(w.ok /\ x.ok)), Reply(w.ok /\ x.ok),
         asked'.type \in {Unknown, files'.type}, asked'.tx \in {Unknown, files'.tx},
         UNCHANGED <<age, watch>>
  PROVE  Rest'
<1>1. pc' = "reload" \/ (pc' = "idle" /\ refused')
  BY DEF Reply
<1>2. FreshInv' /\ SinceInv'
  BY <1>1 DEF Rest, FreshInv, Ensuring, ThrottleInv, SinceInv
<1> QED
  BY <1>1, <1>2, IdleRest

\* What is expected of a file is what is in it.
LEMMA ExpectIsWritten ==
  ASSUME NEW value, NEW was, NEW nothing, NEW w \in Writes(was, value, nothing)
  PROVE  Expect(value, w) \in {Unknown, w.is} /\ w.ok \in BOOLEAN
<1>1. CASE w = [ok |-> TRUE, is |-> value]
  <2>1. w.is = value /\ w.ok = TRUE
    BY <1>1, Zenon
  <2> QED
    BY <1>1, <2>1 DEF Expect
<1>2. CASE w # [ok |-> TRUE, is |-> value]
  <2>1. Expect(value, w) = Unknown
    BY <1>2 DEF Expect
  <2>2. w.ok \in BOOLEAN
    <3>1. CASE w = [ok |-> FALSE, is |-> was]
      BY <3>1, Zenon
    <3>2. CASE w = [ok |-> TRUE, is |-> nothing]
      BY <3>2, Zenon
    <3> QED
      BY <1>2, <3>1, <3>2 DEF Writes
  <2> QED
    BY <2>1, <2>2
<1> QED
  BY <1>1, <1>2

LEMMA SetRest ==
  ASSUME ShapeInv, Rest, NEW t \in Types \cup {Keep}, NEW change \in TxChanges \cup {{}},
         Set(t, change)
  PROVE  Rest'
<1>1. PICK w \in IF t = Keep THEN {[ok |-> TRUE, is |-> files.type]} ELSE Writes(files.type, t, None),
           x \in IF change = {} THEN {[ok |-> TRUE, is |-> files.tx]}
                                ELSE Writes(files.tx, NewTx(files.tx, change), {}) :
        /\ files' = [type |-> w.is, tx |-> x.is]
        /\ asked' = [type |-> IF t = Keep THEN asked.type ELSE Expect(t, w),
                     tx |-> IF change = {} THEN asked.tx ELSE Expect(NewTx(files.tx, change), x)]
        /\ refused' = (refused \/ ~(w.ok /\ x.ok))
        /\ Reply(w.ok /\ x.ok)
  BY DEF Set
<1>2. asked.type \in {Unknown, files.type} /\ asked.tx \in {Unknown, files.tx}
  BY DEF Rest, FreshInv
<1>3. asked'.type \in {Unknown, files'.type} /\ w.ok \in BOOLEAN
  <2>1. CASE t = Keep
    <3>1. w = [ok |-> TRUE, is |-> files.type]
      BY <2>1, <1>1
    <3>2. w.is = files.type /\ w.ok = TRUE
      BY <3>1, Zenon
    <3> QED
      BY <2>1, <3>2, <1>1, <1>2
  <2>2. CASE t # Keep
    <3>1. w \in Writes(files.type, t, None)
      BY <2>2, <1>1
    <3>2. Expect(t, w) \in {Unknown, w.is} /\ w.ok \in BOOLEAN
      BY <3>1, ExpectIsWritten
    <3> QED
      BY <2>2, <3>2, <1>1
  <2> QED
    BY <2>1, <2>2
<1>4. asked'.tx \in {Unknown, files'.tx} /\ x.ok \in BOOLEAN
  <2>1. CASE change = {}
    <3>1. x = [ok |-> TRUE, is |-> files.tx]
      BY <2>1, <1>1
    <3>2. x.is = files.tx /\ x.ok = TRUE
      BY <3>1, Zenon
    <3> QED
      BY <2>1, <3>2, <1>1, <1>2
  <2>2. CASE change # {}
    <3>1. x \in Writes(files.tx, NewTx(files.tx, change), {})
      BY <2>2, <1>1
    <3>2. Expect(NewTx(files.tx, change), x) \in {Unknown, x.is} /\ x.ok \in BOOLEAN
      BY <3>1, ExpectIsWritten
    <3> QED
      BY <2>2, <3>2, <1>1
  <2> QED
    BY <2>1, <2>2
<1>5. pc = "idle" /\ UNCHANGED <<age, watch>>
  BY DEF Set, since
<1> QED
  BY <1>1, <1>3, <1>4, <1>5, ChangeRest

LEMMA ClearRest ==
  ASSUME ShapeInv, Rest, Clear
  PROVE  Rest'
<1>1. PICK w \in Writes(files.type, None, None), x \in Writes(files.tx, {}, {}) :
        /\ files' = [type |-> w.is, tx |-> IF w.ok THEN x.is ELSE files.tx]
        /\ asked' = [type |-> Expect(None, w), tx |-> IF w.ok THEN Expect({}, x) ELSE asked.tx]
        /\ refused' = (refused \/ ~(w.ok /\ x.ok))
        /\ Reply(w.ok /\ x.ok)
  BY DEF Clear
<1>2. Expect(None, w) \in {Unknown, w.is} /\ w.ok \in BOOLEAN
  BY ExpectIsWritten
<1>3. Expect({}, x) \in {Unknown, x.is} /\ x.ok \in BOOLEAN
  BY ExpectIsWritten
<1>4. asked.tx \in {Unknown, files.tx}
  BY DEF Rest, FreshInv
<1>5. asked'.type \in {Unknown, files'.type}
  BY <1>1, <1>2
<1>6. asked'.tx \in {Unknown, files'.tx}
  BY <1>1, <1>3, <1>4
<1>7. pc = "idle" /\ UNCHANGED <<age, watch>>
  BY DEF Clear, since
<1> QED
  BY <1>1, <1>2, <1>3, <1>5, <1>6, <1>7, ChangeRest

\* A restart begins: what is alive is remembered, and the bridges that pkill
\* knows are dead or will be.
LEMMA RestartRequestRest ==
  ASSUME ShapeInv, Rest, RestartRequest
  PROVE  Rest'
<1>1. /\ pc = "idle" /\ pc' = "tunnelStop" /\ job' = "restart"
      /\ UNCHANGED <<files, asked, refused, shown, age, watch>>
  BY DEF RestartRequest, wanted, since
<1>2. FreshInv'
  BY <1>1 DEF Rest, FreshInv, Fresh, Ensuring
<1>3. JobInv' /\ ThrottleInv'
  BY <1>1 DEF Rest, JobInv, ThrottleInv, SinceInv
<1>4. \A t \in Bridges : Pkilled(t) => tunnels'[t] \in Killed
  <2>1. tunnels \in Processes(Bridges)
    BY DEF ShapeInv, TypeOK
  <2>2. tunnels' = Kill(tunnels, {t \in Bridges : Candidates[t] = "tuntap_bb"})
    BY DEF RestartRequest
  <2> QED
    BY <2>1, <2>2, KillKills DEF Pkilled
<1>5. RestartInv'
  BY <1>1, <1>4 DEF RestartInv, Ensuring, Pkilled
<1> QED
  BY <1>2, <1>3, <1>5 DEF Rest

\* The steps of a restart up to the part it shares with a refresh.
LEMMA StoppingFresh ==
  ASSUME Rest, pc \in Stopping, pc' \in {"daemonKill", "daemonStop", "port"},
         UNCHANGED <<files, asked, refused, shown, job>>, SinceInv'
  PROVE  JobInv' /\ FreshInv' /\ ThrottleInv' /\ job' = "restart"
<1>1. job = "restart"
  BY DEF Rest, JobInv
<1> QED
  BY <1>1 DEF Rest, JobInv, FreshInv, Fresh, ThrottleInv, Stopping

LEMMA TunnelStopRest ==
  ASSUME ShapeInv, Rest, TunnelStop
  PROVE  Rest'
<1>1. /\ pc = "tunnelStop" /\ pc' = "daemonKill"
      /\ UNCHANGED <<files, asked, refused, shown, job, tunnels, old>>
  BY DEF TunnelStop, wanted, procs, call
<1>5. SinceInv'
  <2>1. SinceInv
    BY DEF Rest, ThrottleInv
  <2>2. CASE Iface
    BY <2>1, <2>2, ElapseSince DEF TunnelStop, TunnelStopWait
  <2>3. CASE ~Iface
    BY <2>1, <2>3 DEF TunnelStop, since, SinceInv
  <2> QED
    BY <2>2, <2>3
<1>2. JobInv' /\ FreshInv' /\ ThrottleInv'
  BY <1>1, <1>5, StoppingFresh DEF Stopping
<1>3. late' \/ \A t \in old.tunnels : Pkilled(t) => tunnels[t] = "none"
  <2>1. CASE Iface
    BY <2>1 DEF TunnelStop
  <2>2. CASE ~Iface
    <3>1. \A t \in Bridges : tunnels[t] \notin {"up", "closing"}
      BY <2>2 DEF Iface, Holding, ShapeInv, TypeOK, Processes
    <3>2. old.tunnels \subseteq Bridges
      BY DEF ShapeInv
    <3> QED
      BY <1>1, <3>1, <3>2 DEF Rest, RestartInv, Killed
  <2> QED
    BY <2>1, <2>2
<1>4. RestartInv'
  BY <1>1, <1>3 DEF RestartInv, Ensuring, Pkilled
<1> QED
  BY <1>2, <1>4 DEF Rest

LEMMA DaemonKillRest ==
  ASSUME ShapeInv, Rest, DaemonKill
  PROVE  Rest'
<1>1. /\ pc = "daemonKill" /\ pc' = "daemonStop"
      /\ UNCHANGED <<files, asked, refused, shown, job, tunnels, old, late>>
  BY DEF DaemonKill, wanted, since, call
<1>5. SinceInv'
  BY DEF DaemonKill, since, Rest, ThrottleInv, SinceInv
<1>2. JobInv' /\ FreshInv' /\ ThrottleInv' /\ job = "restart"
  BY <1>1, <1>5, StoppingFresh DEF Stopping
<1>3. \A d \in Ways : daemons'[d] \in Killed
  BY KillKills DEF DaemonKill, ShapeInv, TypeOK
<1>4. RestartInv'
  BY <1>1, <1>2, <1>3 DEF Rest, RestartInv, Ensuring, Pkilled
<1> QED
  BY <1>2, <1>4 DEF Rest

\* No daemon holds the port: those that were killed are gone.
LEMMA DaemonStopRest ==
  ASSUME ShapeInv, Rest, DaemonStop
  PROVE  Rest'
<1>1. UNCHANGED <<files, asked, refused, shown, daemons, tunnels>> /\ pc = "daemonStop"
  BY DEF DaemonStop, wanted
<1>2. CASE Port
  <2>1. pc' = "idle"
    BY <1>2 DEF DaemonStop, Return
  <2>2. FreshInv'
    BY <1>1, <2>1 DEF Rest, FreshInv, Fresh, Ensuring
  <2>3. SinceInv'
    BY <1>2, ElapseSince DEF DaemonStop, DaemonStopWait, Rest, ThrottleInv
  <2> QED
    BY <2>1, <2>2, <2>3, IdleRest
<1>3. CASE ~Port
  <2>1. pc' = "port" /\ UNCHANGED <<job, old, late, age, watch>>
    BY <1>3 DEF DaemonStop, call, since
  <2>6. SinceInv'
    BY <2>1 DEF Rest, ThrottleInv, SinceInv
  <2>2. JobInv' /\ FreshInv' /\ ThrottleInv' /\ job = "restart"
    BY <1>1, <2>1, <2>6, StoppingFresh DEF Stopping
  <2>3. \A d \in Ways : daemons[d] = "none"
    <3>1. \A d \in Ways : daemons[d] \notin {"up", "closing"}
      BY <1>3 DEF Port, Holding, ShapeInv, TypeOK, Processes
    <3> QED
      BY <1>1, <3>1 DEF Rest, RestartInv, Killed
  <2>4. old.daemons \subseteq Ways
    BY DEF ShapeInv
  <2>5. RestartInv'
    BY <1>1, <2>1, <2>2, <2>3, <2>4 DEF Rest, RestartInv, Ensuring, Pkilled
  <2> QED
    BY <2>2, <2>5 DEF Rest
<1> QED
  BY <1>2, <1>3

LEMMA RestartEndsRest ==
  ASSUME ShapeInv, Rest, RestartEnds
  PROVE  Rest'
<1>1. UNCHANGED <<files, asked, refused, shown, age, watch>> /\ pc = "done"
  BY DEF RestartEnds, wanted, since
<1>2. pc' \in {"idle", "reload"}
  BY DEF RestartEnds, Return
<1>3. FreshInv' /\ SinceInv'
  BY <1>1, <1>2 DEF Rest, FreshInv, Fresh, Ensuring, ThrottleInv, SinceInv
<1> QED
  BY <1>2, <1>3, IdleRest

\* The part that a restart shares with a refresh.
LEMMA EnsuringFresh ==
  ASSUME Rest, pc \in Ensuring, pc' \in Ensuring,
         UNCHANGED <<files, asked, refused, shown, job>>
  PROVE  JobInv' /\ FreshInv'
BY DEF Rest, JobInv, FreshInv, Fresh, Ensuring, Stopping

LEMMA EnsuringRestart ==
  ASSUME Rest, pc \in Ensuring, pc' \in Ensuring, UNCHANGED <<job, daemons, tunnels, old, late>>
  PROVE  RestartInv'
BY DEF Rest, RestartInv, Ensuring, Pkilled

\* A step of it that starts nothing and does not go on with the ways.
LEMMA EnsuringRest ==
  ASSUME Rest, pc \in Ensuring, pc' \in Ensuring \ {"start", "daemonWait"},
         UNCHANGED <<files, asked, refused, shown, job, daemons, tunnels, old, late>>,
         SinceInv'
  PROVE  Rest'
<1>1. JobInv' /\ FreshInv' /\ RestartInv'
  BY EnsuringFresh, EnsuringRestart
<1>2. ThrottleInv'
  BY DEF ThrottleInv
<1> QED
  BY <1>1, <1>2 DEF Rest

LEMMA LookForDaemonRest ==
  ASSUME ShapeInv, Rest, LookForDaemon
  PROVE  Rest'
<1>1. /\ pc \in Ensuring
      /\ UNCHANGED <<files, asked, refused, shown, job, daemons, tunnels, old, late>>
  BY DEF LookForDaemon, wanted, procs, Ensuring
<1>2. CASE pc' \in {"tunnel", "done"} /\ UNCHANGED since
  <2>1. SinceInv'
    BY <1>2 DEF since, Rest, ThrottleInv, SinceInv
  <2> QED
    BY <1>1, <1>2, <2>1, EnsuringRest DEF Ensuring
<1>3. CASE ~Throttled /\ pc' = "start" /\ stage' = 1 /\ age' = 0 /\ UNCHANGED watch
  <2>1. age = Throttle /\ watch \in Watches
    BY <1>3 DEF Throttled, ShapeInv, TypeOK, Throttle, Watches
  <2>2. SinceInv /\ watch.clock \in Nat /\ watch.count # 2
    BY <2>1 DEF Rest, ThrottleInv, SinceInv, Watches, Throttle
  <2>3. SinceInv'
    BY <1>3, <2>2 DEF SinceInv
  <2>4. ASSUME Ahead(stage)'
        PROVE  Earlier'
    <3>1. PICK k \in {1, 2} : Order'[k] = watch'.way
      BY <2>4 DEF Ahead
    <3>2. watch.way # "none"
      BY <1>3, <3>1 DEF Order
    <3> QED
      BY <1>3, <2>2, <3>2 DEF SinceInv, Earlier
  <2>5. ThrottleInv'
    BY <1>3, <2>3, <2>4 DEF ThrottleInv
  <2>6. JobInv' /\ FreshInv' /\ RestartInv'
    BY <1>1, <1>3, EnsuringFresh, EnsuringRestart DEF Ensuring
  <2> QED
    BY <2>5, <2>6 DEF Rest
<1> QED
  BY <1>2, <1>3 DEF LookForDaemon, Found

\* A daemon that is started takes the place of a dead one.
LEMMA StartDaemonRest ==
  ASSUME ShapeInv, Rest, StartDaemon
  PROVE  Rest'
<1>1. /\ pc = "start" /\ pc' \in {"start", "daemonWait"}
      /\ UNCHANGED <<files, asked, refused, shown, job, tunnels, late>>
  BY DEF StartDaemon, wanted, call
<1>2. JobInv' /\ FreshInv'
  BY <1>1, EnsuringFresh DEF Ensuring
<1>3. PICK d : d = Order[stage]
  OBVIOUS
<1>4. stage \in {1, 2} /\ d \in Ways
  BY <1>3, OrderIsWays DEF StartDaemon
<1>5. /\ UNCHANGED <<age, hs>> /\ SinceInv /\ (Ahead(stage) => Earlier)
      /\ watch.way = d => Earlier
  <2>1. UNCHANGED <<age, hs>> /\ SinceInv /\ (Ahead(stage) => Earlier)
    BY <1>1 DEF StartDaemon, call, Rest, ThrottleInv
  <2>2. watch.way = d => Ahead(stage)
    BY <1>3, <1>4 DEF Ahead
  <2> QED
    BY <2>1, <2>2
<1>6. CASE /\ pc' = "daemonWait" /\ Note(d)
           /\ daemons' = [daemons EXCEPT ![d] = IF @ = "none" THEN "starting" ELSE @]
           /\ old' = [old EXCEPT !.daemons = @ \ ({d} \ Alive(daemons))]
           /\ UNCHANGED stage
  <2>1. ThrottleInv'
    <3>1. /\ SinceInv' /\ watch'.way \in {d, watch.way}
          /\ watch'.way # d => watch' = watch
      BY <1>4, <1>5, <1>6, NoteKeeps
    <3>2. ASSUME Ahead(stage + 1)'
          PROVE  Earlier'
      <4>1. Order' = Order /\ stage' = stage
        BY <1>5, <1>6 DEF Order
      <4>2. PICK k \in {1, 2} : k >= stage + 1 /\ Order[k] = watch'.way
        BY <3>2, <4>1 DEF Ahead
      <4>3. k # stage /\ k >= stage
        BY <1>4, <4>2
      <4>4. watch'.way # d
        BY <1>3, <1>4, <4>2, <4>3 DEF Order
      <4>5. watch' = watch /\ Ahead(stage)
        BY <3>1, <4>2, <4>3, <4>4 DEF Ahead
      <4> QED
        BY <1>5, <4>5 DEF Earlier
    <3> QED
      BY <1>6, <3>1, <3>2 DEF ThrottleInv
  <2>2. /\ daemons \in Processes(Ways) /\ old'.tunnels = old.tunnels
        /\ old'.daemons = old.daemons \ ({d} \ Alive(daemons)) /\ old.daemons \subseteq Ways
    BY <1>6 DEF ShapeInv, TypeOK
  <2>3. ASSUME job = "restart", NEW e \in old'.daemons
        PROVE  daemons'[e] = "none"
    <3>1. e \in old.daemons /\ daemons[e] = "none" /\ e \in Ways
      BY <1>1, <2>2, <2>3 DEF Rest, RestartInv, Ensuring
    <3>2. e # d
      BY <2>2, <2>3, <3>1 DEF Alive, Processes
    <3> QED
      BY <1>6, <2>2, <3>1, <3>2 DEF Processes
  <2>4. RestartInv'
    BY <1>1, <1>6, <2>2, <2>3 DEF Rest, RestartInv, Ensuring, Pkilled
  <2> QED
    BY <1>2, <2>1, <2>4 DEF Rest
<1>7. CASE stage' = stage + 1 /\ UNCHANGED <<pc, watch, daemons, old>>
  <2>1. ThrottleInv'
    <3>1. SinceInv'
      BY <1>5, <1>7 DEF SinceInv
    <3>2. ASSUME Ahead(stage)'
          PROVE  Earlier'
      <4>1. Order' = Order /\ stage' = stage + 1 /\ watch' = watch
        BY <1>5, <1>7 DEF Order
      <4>2. PICK k \in {1, 2} : k >= stage + 1 /\ Order[k] = watch.way
        BY <3>2, <4>1 DEF Ahead
      <4>3. Ahead(stage)
        BY <1>4, <4>2 DEF Ahead
      <4> QED
        BY <1>5, <4>1, <4>3 DEF Earlier
    <3> QED
      BY <1>1, <1>7, <3>1, <3>2 DEF ThrottleInv
  <2>2. RestartInv'
    BY <1>1, <1>7, EnsuringRestart DEF Ensuring
  <2> QED
    BY <1>2, <2>1, <2>2 DEF Rest
<1> QED
  BY <1>3, <1>6, <1>7 DEF StartDaemon

LEMMA DaemonWaitRest ==
  ASSUME ShapeInv, Rest, DaemonWait
  PROVE  Rest'
<1>1. /\ pc = "daemonWait" /\ pc' \in {"tunnel", "start"}
      /\ UNCHANGED <<files, asked, refused, shown, job, daemons, tunnels, old, late>>
  BY DEF DaemonWait, wanted, procs, call, Found
<1>4. /\ SinceInv /\ UNCHANGED hs /\ stage \in Nat
      /\ Ahead(stage + 1) => Earlier
  BY <1>1 DEF DaemonWait, call, Rest, ThrottleInv, ShapeInv
<1>2. CASE pc' = "tunnel"
  <2>1. SinceInv'
    BY <1>2, <1>4 DEF DaemonWait, since, SinceInv
  <2> QED
    BY <1>1, <1>2, <2>1, EnsuringRest DEF Ensuring
<1>3. CASE pc' = "start"
  <2>1. stage' = stage + 1 /\ \E t \in Nat : Elapse(t)
    BY <1>3 DEF DaemonWait, Found, ServiceWait, BinaryWait
  <2>2. SinceInv'
    BY <1>4, <2>1, ElapseSince
  <2>5. ASSUME NEW i \in Nat, i = stage + 1
        PROVE  Ahead(i)' => Earlier'
    BY <1>4, <2>1, <2>5, ElapseAhead
  <2>6. Ahead(stage)' => Earlier'
    BY <1>4, <2>1, <2>5 DEF Ahead
  <2>3. ThrottleInv'
    BY <1>3, <2>2, <2>6 DEF ThrottleInv
  <2>4. JobInv' /\ FreshInv' /\ RestartInv'
    BY <1>1, <1>3, EnsuringFresh, EnsuringRestart DEF Ensuring
  <2> QED
    BY <2>3, <2>4 DEF Rest
<1> QED
  BY <1>1, <1>2, <1>3

LEMMA StartFailedRest ==
  ASSUME ShapeInv, Rest, StartFailed
  PROVE  Rest'
<1>1. /\ pc = "start" /\ pc' \in {"tunnel", "done"}
      /\ UNCHANGED <<files, asked, refused, shown, job, daemons, tunnels, old, late, age, watch>>
  BY DEF StartFailed, wanted, procs, since, call, Found
<1>2. SinceInv'
  BY <1>1 DEF Rest, ThrottleInv, SinceInv
<1> QED
  BY <1>1, <1>2, EnsuringRest DEF Ensuring

LEMMA LookForTunnelRest ==
  ASSUME ShapeInv, Rest, LookForTunnel
  PROVE  Rest'
<1>1. /\ pc = "tunnel" /\ pc' \in {"bridge", "done"}
      /\ UNCHANGED <<files, asked, refused, shown, job, daemons, tunnels, old, late, age, watch>>
  BY DEF LookForTunnel, wanted, procs, since, call
<1>2. SinceInv'
  BY <1>1 DEF Rest, ThrottleInv, SinceInv
<1> QED
  BY <1>1, <1>2, EnsuringRest DEF Ensuring

\* A bridge that is started takes the place of a dead one.
LEMMA StartTunnelRest ==
  ASSUME ShapeInv, Rest, StartTunnel
  PROVE  Rest'
<1>1. /\ pc = "bridge" /\ pc' = "tunnelWait" /\ stage \in Bridges
      /\ UNCHANGED <<files, asked, refused, shown, job, daemons, late, age, watch>>
  BY DEF StartTunnel, wanted, since, call
<1>2. JobInv' /\ FreshInv'
  BY <1>1, EnsuringFresh DEF Ensuring
<1>3. ThrottleInv'
  BY <1>1 DEF Rest, ThrottleInv, SinceInv
<1>4. /\ tunnels \in Processes(Bridges) /\ old'.daemons = old.daemons
      /\ old'.tunnels = old.tunnels \ ({stage} \ Alive(tunnels)) /\ old.tunnels \subseteq Bridges
      /\ tunnels' = [tunnels EXCEPT ![stage] = IF @ = "none" THEN "starting" ELSE @]
  BY DEF StartTunnel, ShapeInv, TypeOK
<1>5. ASSUME job = "restart", ~late, NEW u \in old'.tunnels, Pkilled(u)
      PROVE  tunnels'[u] = "none"
  <2>1. u \in old.tunnels /\ tunnels[u] = "none" /\ u \in Bridges
    BY <1>1, <1>4, <1>5 DEF Rest, RestartInv, Ensuring
  <2>2. u # stage
    BY <1>4, <1>5, <2>1 DEF Alive, Processes
  <2> QED
    BY <1>4, <2>1, <2>2 DEF Processes
<1>6. RestartInv'
  BY <1>1, <1>4, <1>5 DEF Rest, RestartInv, Ensuring, Pkilled
<1> QED
  BY <1>2, <1>3, <1>6 DEF Rest

LEMMA TunnelReadyRest ==
  ASSUME ShapeInv, Rest, TunnelReady
  PROVE  Rest'
<1>1. /\ pc \in {"tunnelWait", "bridge"} /\ pc' \in {"bridge", "done"}
      /\ UNCHANGED <<files, asked, refused, shown, job, daemons, tunnels, old, late>>
  BY DEF TunnelReady, wanted, procs, call
<1>2. SinceInv'
  <2>1. SinceInv
    BY DEF Rest, ThrottleInv
  <2>2. CASE UNCHANGED since
    BY <2>1, <2>2 DEF since, SinceInv
  <2>3. CASE Elapse(TunnelWait)
    BY <2>1, <2>3, ElapseSince DEF TunnelWait
  <2> QED
    BY <2>2, <2>3 DEF TunnelReady, since
<1> QED
  BY <1>1, <1>2, EnsuringRest DEF Ensuring

-----------------------------------------------------------------------------
(* The inductive invariant holds.                                          *)

LEMMA WifiInit == Init => WifiInv
<1> SUFFICES ASSUME Init
             PROVE  WifiInv
  OBVIOUS
<1>1. ShapeInv
  <2>1. files \in [type : OverrideTypes, tx : Powers]
    BY DEF Init, OverrideTypes, Powers
  <2>2. shown \in [cards : SUBSET Cards, type : OverrideTypes, tx : ShownPowers,
                   profile : CardProfiles, daemon : BOOLEAN, tunnel : BOOLEAN]
    BY DEF Init, OverrideTypes, ShownPowers, CardProfiles
  <2>3. /\ run \in [daemon : BOOLEAN, tunnel : BOOLEAN]
        /\ old \in [daemons : SUBSET Ways, tunnels : SUBSET Bridges] /\ stage = 1
    BY DEF Init, NoRun, NoneOld
  <2>4. daemons \in Processes(Ways) /\ tunnels \in Processes(Bridges)
    BY DEF Init, Processes
  <2>5. /\ plugged \subseteq Cards /\ cards \subseteq Cards /\ age \in 0 .. Throttle
        /\ watch \in Watches /\ pc = "boot" /\ job = "boot"
    BY DEF Init, Throttle, NoWatch, Watches
  <2>6. {retry, hs, refused, late} \subseteq BOOLEAN
    BY DEF Init
  <2>7. TypeOK
    BY <2>1, <2>2, <2>4, <2>5, <2>6 DEF TypeOK, OverrideTypes, Powers, Watches
  <2> QED
    BY <2>1, <2>2, <2>3, <2>7 DEF ShapeInv
<1>2. JobInv /\ ThrottleInv
  BY DEF Init, JobInv, ThrottleInv, SinceInv, NoWatch, Stopping
<1>3. FreshInv
  BY DEF Init, FreshInv, Ensuring
<1>4. RestartInv
  BY DEF Init, RestartInv, Ensuring
<1> QED
  BY <1>1, <1>2, <1>3, <1>4 DEF WifiInv

LEMMA WorldShape ==
  ASSUME ShapeInv, World
  PROVE  ShapeInv'
BY PlugShape, UnplugShape, DaemonUpShape, DaemonEndsShape, TunnelUpShape, TunnelEndsShape,
   TimePassesShape
DEF World

LEMMA RefreshKeeps ==
  ASSUME ShapeInv, Rest, Boot \/ Reload \/ Retry
  PROVE  ShapeInv' /\ Rest'
<1>1. PICK j \in {"boot", "update", "retry"} : Refresh(j)
  BY DEF Boot, Reload, Retry
<1>2. UNCHANGED <<plugged, wanted, procs, since, retry, stage, late>>
  BY DEF Boot, Reload, Retry
<1> QED
  BY <1>1, <1>2, RefreshShape, RefreshRest

LEMMA RequestKeeps ==
  ASSUME ShapeInv, Rest, Request
  PROVE  ShapeInv' /\ Rest'
BY RefreshRequestShape, RefreshRequestRest, RestartRequestShape, RestartRequestRest,
   ClearShape, ClearRest, SetShape, SetRest
DEF Request

LEMMA WorkKeeps ==
  ASSUME ShapeInv, Rest, Work
  PROVE  ShapeInv' /\ Rest'
<1>1. CASE Boot \/ Reload
  BY <1>1, RefreshKeeps
<1>2. CASE Finish \/ TunnelStop \/ DaemonKill \/ DaemonStop \/ RestartEnds
  BY <1>2, FinishShape, FinishRest, TunnelStopShape, TunnelStopRest, DaemonKillShape,
     DaemonKillRest, DaemonStopShape, DaemonStopRest, RestartEndsShape, RestartEndsRest
<1>3. CASE LookForDaemon \/ StartDaemon \/ DaemonWait \/ StartFailed
  BY <1>3, LookForDaemonShape, LookForDaemonRest, StartDaemonShape, StartDaemonRest,
     DaemonWaitShape, DaemonWaitRest, StartFailedShape, StartFailedRest
<1>4. CASE LookForTunnel \/ StartTunnel \/ TunnelReady
  BY <1>4, LookForTunnelShape, LookForTunnelRest, StartTunnelShape, StartTunnelRest,
     TunnelReadyShape, TunnelReadyRest
<1> QED
  BY <1>1, <1>2, <1>3, <1>4 DEF Work

LEMMA WifiStep == WifiInv /\ [Next]_vars => WifiInv'
<1> SUFFICES ASSUME WifiInv, [Next]_vars
             PROVE  WifiInv'
  OBVIOUS
<1>1. ShapeInv /\ Rest
  BY DEF WifiInv, Rest
<1>2. CASE World
  BY <1>1, <1>2, WorldShape, WorldRest DEF WifiInv, Rest
<1>3. CASE Request
  BY <1>1, <1>3, RequestKeeps DEF WifiInv, Rest
<1>4. CASE Work \/ Retry
  BY <1>1, <1>4, WorkKeeps, RefreshKeeps DEF WifiInv, Rest
<1>5. CASE UNCHANGED vars
  <2>1. UNCHANGED <<plugged, files, asked, refused, shown, daemons, tunnels, old, age, watch,
                    retry, pc, job, cards, hs, stage, run, late>>
    BY <1>5 DEF vars, wanted, procs, since, call
  <2>2. ShapeInv'
    BY <1>1, <2>1 DEF ShapeInv, TypeOK
  <2>3. JobInv' /\ FreshInv' /\ ThrottleInv'
    BY <1>1, <2>1 DEF Rest, JobInv, FreshInv, Fresh, ThrottleInv, SinceInv, Ahead, Earlier, Order
  <2>4. RestartInv'
    BY <1>1, <2>1 DEF Rest, RestartInv, Pkilled
  <2> QED
    BY <2>2, <2>3, <2>4 DEF WifiInv
<1> QED
  BY <1>2, <1>3, <1>4, <1>5 DEF Next

-----------------------------------------------------------------------------
(* The theorems.                                                           *)

\* All parts hold in every state, whatever users ask for, whenever cards come
\* and go, and whenever daemons and bridges come up, fail or linger.
THEOREM WifiInvariant == Spec => []WifiInv
BY WifiInit, WifiStep, PTL DEF Spec

\* The state has its types; in particular the time since last_attempt stays one
\* that the throttle tells apart, and no power other than a level and the milliwatts
\* is ever stored.
THEOREM TypeCorrect == Spec => []TypeOK
<1>1. WifiInv => TypeOK
  BY DEF WifiInv, ShapeInv
<1> QED
  BY <1>1, WifiInvariant, PTL

\* handle_wifi_update, restart_artosyn: success means that no daemon from before
\* the restart is left, and no tuntap_bb that was seen to end in time.
THEOREM RestartsFresh == Spec => []RestartIsFresh
<1>1. WifiInv => RestartIsFresh
  BY DEF WifiInv, RestartInv, RestartIsFresh, Ensuring, Pkilled
<1> QED
  BY <1>1, WifiInvariant, PTL

\* ensure_artosyn_runtime_running: with last_attempt, refreshes, retries and
\* restarts start the daemon the same way at most once more within the four
\* seconds after any start, for whichever time the waits and the rest take.
THEOREM StartsThrottled == Spec => []StartsAreThrottled
<1>1. WifiInv => StartsAreThrottled
  BY DEF WifiInv, ThrottleInv, SinceInv, StartsAreThrottled
<1> QED
  BY <1>1, WifiInvariant, PTL

\* What users asked the override files to hold is what is shown of the card, as
\* far as its profile leaves its power to them.
THEOREM AskedShown == Spec => []AskedIsShown
<1>1. ASSUME WifiInv, pc = "idle", ~refused
      PROVE  /\ asked.type \in {Unknown, shown.type}
             /\ \/ asked.tx \in {Unknown, shown.tx}
                \/ shown.profile = "fixed"
                \/ "level" \in asked.tx /\ shown.tx = (asked.tx \ {"mw"}) \cup {"profile"}
  <2>1. /\ shown.type = files.type /\ shown.tx = ShownTx(files.tx, shown.profile)
        /\ asked.type \in {Unknown, files.type} /\ asked.tx \in {Unknown, files.tx}
        /\ files.tx \subseteq {"mw", "level"}
    BY <1>1 DEF WifiInv, FreshInv, Fresh, ShapeInv, TypeOK
  <2>2. CASE shown.profile = "fixed"
    BY <2>1, <2>2
  <2>3. CASE shown.profile = "levels" /\ "level" \in files.tx
    <3>1. shown.tx = {"level", "profile"}
      BY <2>1, <2>3 DEF ShownTx
    <3>2. shown.tx = (files.tx \ {"mw"}) \cup {"profile"}
      BY <2>1, <2>3, <3>1
    <3> QED
      BY <2>1, <2>3, <3>2
  <2>4. CASE shown.profile # "fixed" /\ ~(shown.profile = "levels" /\ "level" \in files.tx)
    BY <2>1, <2>4 DEF ShownTx
  <2> QED
    BY <2>2, <2>3, <2>4
<1>2. WifiInv => AskedIsShown
  BY <1>1 DEF AskedIsShown
<1> QED
  BY <1>2, WifiInvariant, PTL
=============================================================================
