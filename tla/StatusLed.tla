------------------------------ MODULE StatusLed ------------------------------
(***************************************************************************)
(* The status snapshot (src/src/sysutil_status.cpp) and the LEDs that show *)
(* it (src/src/sysutil_led.cpp).  Three threads set the status: the main   *)
(* thread, for itself and for messages from the socket, the update worker  *)
(* and the thread of a camera setup.  They write g_status field by field   *)
(* and without a lock, then choose a pattern from it and, under            *)
(* g_pattern_mutex, hand the pattern to the LED thread, which shows it     *)
(* over and over or a number of times.                                     *)
(*                                                                         *)
(* A field holds the message that wrote it last, so that a snapshot mixed  *)
(* from two messages can be told from either.  description and message,    *)
(* which are only searched for words, are one field, "text".               *)
(***************************************************************************)
EXTENDS Integers, Sequences

CONSTANTS
  Threads,      \* who sets the status
  Messages,     \* what they can set it to
  Main,         \* the thread of main()
  Started,      \* the first message of main(), "sysutils.started"
  Says,         \* the messages each thread may set later
  Clear,        \* the message indicator.clear
  Severity,     \* the severity of a message
  Alarming,     \* fields of a message with "error", "fail", "fatal" or "panic"
  Missing,      \* what each text of a message says is missing, or "nothing"
  Keys,         \* the keys of the rule table a message's state contains
  Primary,      \* the LED of primary_idx
  Secondary,    \* the LED of secondary_idx, maybe the same
  MaxUpdates    \* bound: status updates

ASSUME MessagesAssumption ==
  /\ Main \in Threads
  /\ Says \in [Threads -> SUBSET Messages]
  /\ {Started, Clear} \subseteq Messages
  /\ Severity \in [Messages -> 0 .. 2]
  /\ Alarming \in [Messages -> SUBSET {"state", "text"}]
  /\ Missing \in [Messages -> {"wifi", "camera", "nothing"}]
  /\ Severity[Clear] = 0 /\ Alarming[Clear] = {} /\ Missing[Clear] = "nothing"

\* main() itself sets the status once.
ASSUME UpdatesAssumption == MaxUpdates \in Nat \ {0}

VARIABLES
  status,      \* g_status: the message each field was written by
  hasData,     \* g_status.has_data
  hasError,    \* g_status.has_error
  pc,          \* where each thread is in update_status()
  msg,         \* the message it is setting
  next,        \* its local next_pattern
  pattern,     \* g_current_pattern
  patternId,   \* g_pattern_id
  ledPc,       \* where the LED thread is
  ledPattern,  \* its local pattern
  lastId,      \* its last_pattern_id
  remaining,   \* its remaining
  lit,         \* the LEDs that are on
  (* History. *)
  posted,      \* bound: status updates that were begun
  shows,       \* how often the lights went on for lastId's counted pattern
  overlapped   \* an update since the last quiet moment met another one

snapshotVars == <<status, hasData, hasError>>
writerVars   == <<pc, msg, next>>
sharedVars   == <<pattern, patternId>>
ledVars      == <<ledPc, ledPattern, lastId, remaining, lit, shows>>
vars == <<snapshotVars, writerVars, sharedVars, ledVars, posted, overlapped>>

-----------------------------------------------------------------------------
(***************************************************************************)
(* The patterns, select_pattern_from_status().  Frequencies are left out:  *)
(* a pattern is known by the name of the variable that holds it.           *)
(***************************************************************************)
Patterns == {"off", "wifi_missing_error", "camera_missing_error", "other_error",
             "warn", "starting", "ready", "stopped", "partition",
             "sysutils_started", "camera_setup", "reboot_initiated", "updating"}

\* repeat_count: 0 stands for -1, for ever.
Repeat(p) == CASE p = "sysutils_started" -> 3
               [] p = "camera_setup" -> 4
               [] p = "reboot_initiated" -> 1
               [] OTHER -> 0

\* A Rainbow is shown like a solid light unless there is an X21 LED.
Type(p) == CASE p \in {"off", "stopped"} -> "dark"
             [] p = "ready" -> "solid"
             [] p = "updating" -> "alternate"
             [] OTHER -> "blink"

Targets(p) == CASE p = "warn" -> {Secondary}
                [] p \in {"starting", "ready", "off"} -> {Primary}
                [] OTHER -> {Primary, Secondary}

Leds == {Primary, Secondary}

Nothing == "nothing yet"

SeverityOf(s) == IF s.severity = Nothing THEN 0 ELSE Severity[s.severity]

\* compute_has_error().
IsError(s) ==
  \/ SeverityOf(s) >= 2
  \/ \E f \in {"state", "text"} : s[f] # Nothing /\ f \in Alarming[s[f]]

\* classify_error_kind().
ErrorPattern(s) ==
  CASE s.text # Nothing /\ Missing[s.text] = "wifi" -> "wifi_missing_error"
    [] s.text # Nothing /\ Missing[s.text] = "camera" -> "camera_missing_error"
    [] OTHER -> "other_error"

\* The rule table: the first key the state contains decides.
Rules == << <<"partition", "partition">>, <<"update", "updating">>,
            <<"sysutils.started", "sysutils_started">>,
            <<"camera_setup", "camera_setup">>, <<"reboot", "reboot_initiated">>,
            <<"starting", "starting">>, <<"boot", "starting">>,
            <<"ready", "ready">>, <<"link_lost", "warn">>,
            <<"error", "other_error">>, <<"stopped", "stopped">> >>

RulePattern(s) ==
  LET hits == {i \in DOMAIN Rules : s.state # Nothing /\ Rules[i][1] \in Keys[s.state]}
  IN  IF hits = {} THEN "ready"
      ELSE Rules[CHOOSE i \in hits : \A j \in hits : i <= j][2]

SelectPattern(s, data, error) ==
  IF ~data THEN "stopped"
  ELSE IF error \/ SeverityOf(s) >= 2 THEN ErrorPattern(s)
  ELSE IF SeverityOf(s) = 1 THEN "warn"
  ELSE RulePattern(s)

-----------------------------------------------------------------------------
Fields == {"state", "text", "severity"}
Places == Fields \cup {"idle", "error", "select", "lock"}

TypeOK ==
  /\ status \in [Fields -> Messages \cup {Nothing}]
  /\ hasData \in BOOLEAN /\ hasError \in BOOLEAN
  /\ pc \in [Threads -> Places]
  /\ msg \in [Threads -> Messages]
  /\ next \in [Threads -> Patterns]
  /\ pattern \in Patterns /\ patternId \in 0 .. MaxUpdates
  /\ ledPc \in {"read", "show", "off", "second"}
  /\ ledPattern \in Patterns
  /\ lastId \in -1 .. MaxUpdates /\ remaining \in 0 .. 4 /\ shows \in 0 .. 4
  /\ lit \subseteq Leds
  /\ posted \in 0 .. MaxUpdates /\ overlapped \in BOOLEAN

\* init_leds() has started the LED thread, main() goes on to set_status().
Init ==
  /\ status = [f \in Fields |-> Nothing] /\ hasData = FALSE /\ hasError = FALSE
  /\ pc = [t \in Threads |-> IF t = Main THEN "state" ELSE "idle"]
  /\ msg = [t \in Threads |-> Started]
  /\ next = [t \in Threads |-> "off"]
  /\ pattern = "off" /\ patternId = 0
  /\ ledPc = "read" /\ ledPattern = "off" /\ lastId = -1 /\ remaining = 0
  /\ lit = {} /\ shows = 0
  /\ posted = 1 /\ overlapped = FALSE

-----------------------------------------------------------------------------
(***************************************************************************)
(* Setting the status: update_status() and the branch of                   *)
(* handle_status_message() for indicator.clear, then                       *)
(* update_leds_from_status().                                              *)
(***************************************************************************)
Busy(t) == pc[t] # "idle"

Move(t, to) == pc' = [pc EXCEPT ![t] = to]

\* indicator.clear first assigns an empty snapshot.  main() starts the update
\* worker, and serves the request for a camera setup, only after it has said
\* that it started.
Post(t, m) ==
  /\ pc[t] = "idle"
  /\ posted < MaxUpdates
  /\ t # Main => patternId > 0
  /\ Move(t, "state")
  /\ msg' = [msg EXCEPT ![t] = m]
  /\ IF m = Clear
     THEN /\ status' = [f \in Fields |-> Nothing]
          /\ hasData' = FALSE /\ hasError' = FALSE
     ELSE UNCHANGED snapshotVars
  /\ posted' = posted + 1
  /\ overlapped' = \E u \in Threads : Busy(u)
  /\ UNCHANGED <<next, sharedVars, ledVars>>

NextField == [state |-> "text", text |-> "severity", severity |-> "error"]

WriteField(t) ==
  /\ pc[t] \in Fields
  /\ status' = [status EXCEPT ![pc[t]] = msg[t]]
  /\ Move(t, IF pc[t] = "text" /\ msg[t] = Clear THEN "error" ELSE NextField[pc[t]])
  /\ UNCHANGED <<hasData, hasError, msg, next, sharedVars, ledVars, posted, overlapped>>

\* Slip: the error of an earlier status sticks.
KeepError(t) ==
  /\ pc[t] = "error"
  /\ hasData' = TRUE
  /\ hasError' = (hasError \/ (msg[t] # Clear /\ IsError(status)))
  /\ Move(t, "select")
  /\ UNCHANGED <<status, msg, next, sharedVars, ledVars, posted, overlapped>>

ComputeError(t) ==
  /\ pc[t] = "error"
  /\ hasData' = TRUE
  /\ hasError' = (msg[t] # Clear /\ IsError(status))
  /\ Move(t, "select")
  /\ UNCHANGED <<status, msg, next, sharedVars, ledVars, posted, overlapped>>

\* The pattern is chosen before the mutex is taken.
Select(t) ==
  /\ pc[t] = "select"
  /\ next' = [next EXCEPT ![t] = SelectPattern(status, hasData, hasError)]
  /\ Move(t, "lock")
  /\ UNCHANGED <<snapshotVars, msg, sharedVars, ledVars, posted, overlapped>>

SetPattern(t) ==
  /\ pc[t] = "lock"
  /\ pattern' = next[t]
  /\ patternId' = patternId + 1
  /\ Move(t, "idle")
  /\ UNCHANGED <<snapshotVars, msg, next, ledVars, posted, overlapped>>

-----------------------------------------------------------------------------
(***************************************************************************)
(* The LED thread, worker_loop().                                          *)
(***************************************************************************)
quietVars == <<snapshotVars, writerVars, sharedVars, posted, overlapped>>

Finite(p) == Repeat(p) > 0

\* Slip: once a counted pattern was shown often enough, nothing is read.
ReadUntilShown ==
  /\ ledPc = "read"
  /\ ~(Finite(ledPattern) /\ remaining = 0)
  /\ ledPattern' = pattern
  /\ lastId' = patternId
  /\ shows' = IF patternId # lastId THEN 0 ELSE shows
  /\ remaining' = IF patternId # lastId THEN Repeat(pattern) ELSE remaining
  /\ ledPc' = IF Finite(pattern) /\ remaining' = 0 THEN "read" ELSE "show"
  /\ UNCHANGED <<quietVars, lit>>

\* Slip: the count starts anew for another pattern, not for another update.
ReadNewPattern ==
  /\ ledPc = "read"
  /\ ledPattern' = pattern
  /\ lastId' = patternId
  /\ shows' = IF patternId # lastId THEN 0 ELSE shows
  /\ remaining' = IF pattern # ledPattern THEN Repeat(pattern) ELSE remaining
  /\ ledPc' = IF Finite(pattern) /\ remaining' = 0 THEN "read" ELSE "show"
  /\ UNCHANGED <<quietVars, lit>>

\* Pattern and id are read under one lock; a new id starts the count anew.
\* A pattern shown often enough is waited out.
Read ==
  /\ ledPc = "read"
  /\ ledPattern' = pattern
  /\ lastId' = patternId
  /\ shows' = IF patternId # lastId THEN 0 ELSE shows
  /\ remaining' = IF patternId # lastId THEN Repeat(pattern) ELSE remaining
  /\ ledPc' = IF Finite(pattern) /\ remaining' = 0 THEN "read" ELSE "show"
  /\ UNCHANGED <<quietVars, lit>>

\* Slip: a pattern that is shown for ever is counted as well.
CountAnyShow == remaining' = remaining - 1

CountShow ==
  remaining' = IF Finite(ledPattern) /\ remaining > 0 THEN remaining - 1 ELSE remaining

\* Two lights that are the same one cannot alternate: they blink.
Alternates == Type(ledPattern) = "alternate" /\ Primary # Secondary

ShowSteady ==
  /\ ledPc = "show"
  /\ Type(ledPattern) \in {"dark", "solid"}
  /\ lit' = IF Type(ledPattern) = "solid" THEN Targets(ledPattern) ELSE {}
  /\ CountShow
  /\ ledPc' = "read"
  /\ UNCHANGED <<quietVars, ledPattern, lastId, shows>>

LightOn ==
  /\ ledPc = "show"
  /\ Type(ledPattern) \in {"blink", "alternate"}
  /\ lit' = IF Alternates THEN {Primary} ELSE lit \cup Targets(ledPattern)
  /\ shows' = IF Finite(ledPattern) THEN shows + 1 ELSE shows
  /\ ledPc' = IF Alternates THEN "second" ELSE "off"
  /\ UNCHANGED <<quietVars, ledPattern, lastId, remaining>>

LightOff ==
  /\ ledPc \in {"off", "second"}
  /\ lit' = IF ledPc = "second" THEN {Secondary} ELSE lit \ Targets(ledPattern)
  /\ CountShow
  /\ ledPc' = "read"
  /\ UNCHANGED <<quietVars, ledPattern, lastId, shows>>

LedStep == Read \/ ShowSteady \/ LightOn \/ LightOff

ThreadStep(t) ==
  WriteField(t) \/ ComputeError(t) \/ Select(t) \/ SetPattern(t)

Next ==
  \/ \E t \in Threads : ThreadStep(t) \/ (\E m \in Says[t] : Post(t, m))
  \/ LedStep

Spec == Init /\ [][Next]_vars

\* update_status() returns, and the LED thread never stops.
FairSpec == Spec /\ WF_vars(LedStep) /\ \A t \in Threads : WF_vars(ThreadStep(t))

-----------------------------------------------------------------------------
Quiet == \A t \in Threads : ~Busy(t)

\* A status that was set while no other was being set is what is published
\* and what is shown: no field of an older one is left in it, and a failure
\* neither sticks to it nor is lost.
SerialStatusIsShown ==
  (Quiet /\ ~overlapped) =>
    /\ pattern = SelectPattern(status, TRUE, IsError(status))
    /\ hasError = IsError(status)
    /\ \E t \in Threads :
         \A f \in Fields : status[f] = msg[t] \/ (f = "severity" /\ status[f] = Nothing)

\* The LED thread is through with the counted pattern it has.
Rests == ledPc = "read" /\ Finite(ledPattern) /\ remaining = 0

\* worker_loop() never lights a counted pattern more often than its count for
\* one status, whatever arrives in between, and it comes to rest, with all
\* lights off, only after the whole count was shown for the very status it took
\* up last: also when an earlier status had asked for the same pattern, was
\* cut short by this one, or had lit other lights.
CountedPatternIsShownOut ==
  (lastId >= 0 /\ Finite(ledPattern)) =>
    /\ shows <= Repeat(ledPattern)
    /\ Rests => shows = Repeat(ledPattern) /\ lit = {}

\* What the comment on update_leds_from_status() says: the pattern is that of
\* the latest status.
LedFollowsStatus ==
  Quiet => pattern = SelectPattern(status, hasData, hasError)

\* The LED thread takes up every pattern or a later one.  A counted one that
\* it took up is shown out, unless a later status cuts it short.
PatternIsTakenUp ==
  \A id \in 1 .. MaxUpdates :
    (patternId = id) ~> \/ lastId > id
                        \/ lastId = id /\ (~Finite(ledPattern) \/ Rests \/ patternId > id)
=============================================================================
