--------------------------- MODULE StatusLedProofs ---------------------------
(***************************************************************************)
(* Proofs about StatusLed, for any number of threads, messages and updates *)
(* and for two lights or one.                                              *)
(*                                                                         *)
(* The inductive invariant has four parts that hold for different reasons: *)
(* the ids of patterns are updates that ended (CountInv), how often a      *)
(* counted pattern was lit and what the LED thread's own count says remain *)
(* add up, one show being under way while the lights are on (ShowInv), and *)
(* an update that met no other left its mark in every field it passed      *)
(* (SerialInv).                                                            *)
(***************************************************************************)
EXTENDS StatusLed, FiniteSets, FiniteSetTheorems, TLAPS

-----------------------------------------------------------------------------
(* The inductive invariant.                                                *)

BusyThreads == {t \in Threads : Busy(t)}

\* Every update that was begun is under way or gave a pattern its id, and the
\* LED thread knows no id that was not given yet.
CountInv ==
  /\ IsFiniteSet(BusyThreads)
  /\ posted = patternId + Cardinality(BusyThreads)
  /\ lastId <= patternId

\* The show whose lights are on is lit, but not yet counted down.
UnderWay == IF ledPc \in {"off", "second"} /\ Finite(ledPattern) THEN 1 ELSE 0

ShowInv ==
  /\ lastId = patternId => ledPattern = pattern
  /\ lastId >= 0 => shows + remaining = Repeat(ledPattern) + UnderWay
  /\ ledPc # "read" => lastId >= 0 /\ (Finite(ledPattern) => remaining > 0)
  /\ ledPc = "second" => Type(ledPattern) = "alternate"
  /\ Finite(ledPattern) /\ ledPc = "read" /\ lastId >= 0 => lit = {}

\* What update_status() has done before each step, while it is alone.
AfterState    == {"text", "severity", "error", "select", "lock"}
AfterText     == {"severity", "error", "select", "lock"}
AfterSeverity == {"error", "select", "lock"}
AfterError    == {"select", "lock"}

\* A cleared snapshot has no severity, and none is written.
SeverityIs(m) == status.severity = m \/ (m = Clear /\ status.severity = Nothing)

Progress(t) ==
  /\ pc[t] \in AfterState => status.state = msg[t]
  /\ pc[t] \in AfterText => status.text = msg[t]
  /\ pc[t] \in AfterSeverity => SeverityIs(msg[t])
  /\ pc[t] \in {"state", "text"} /\ msg[t] = Clear => status.severity = Nothing
  /\ pc[t] = "severity" => msg[t] # Clear
  /\ pc[t] \in AfterError => hasData = TRUE /\ hasError = IsError(status)
  /\ pc[t] = "lock" => next[t] = SelectPattern(status, TRUE, IsError(status))

Alone == \A t, u \in Threads : Busy(t) /\ Busy(u) => t = u

SerialInv ==
  ~overlapped =>
    /\ Alone
    /\ \A t \in Threads : Progress(t)
    /\ SerialStatusIsShown

StatusLedInv == TypeOK /\ CountInv /\ ShowInv /\ SerialInv

-----------------------------------------------------------------------------
(* Facts about the patterns.                                               *)

LEMMA RepeatBounds ==
  ASSUME NEW p
  PROVE  /\ Repeat(p) \in 0 .. 4
         /\ Finite(p) <=> Repeat(p) > 0
         /\ Finite(p) => Type(p) = "blink" /\ Targets(p) = Leds
         /\ Targets(p) \subseteq Leds
<1>1. CASE p \in {"sysutils_started", "camera_setup", "reboot_initiated"}
  BY <1>1 DEF Repeat, Finite, Type, Targets, Leds
<1>2. CASE p \notin {"sysutils_started", "camera_setup", "reboot_initiated"}
  <2>1. Repeat(p) = 0
    BY <1>2 DEF Repeat
  <2>2. Targets(p) \subseteq Leds
    BY DEF Targets, Leds
  <2> QED
    BY <2>1, <2>2 DEF Finite
<1> QED
  BY <1>1, <1>2

\* Of the rules that apply one is the first.
LEMMA FirstRule ==
  ASSUME NEW hits, hits \subseteq DOMAIN Rules, hits # {}
  PROVE  \E i \in hits : \A j \in hits : i <= j
<1>1. DOMAIN Rules = 1 .. 11
  BY DEF Rules
<1>2. hits \subseteq 1 .. 11
  BY <1>1
<1>a. CASE hits \cap 1 .. 4 # {}
  BY <1>a, <1>2, SMTT(30)
<1>b. CASE hits \cap 1 .. 4 = {} /\ hits \cap 5 .. 8 # {}
  BY <1>b, <1>2, SMTT(30)
<1>c. CASE hits \cap 1 .. 8 = {}
  BY <1>c, <1>2, SMTT(30)
<1> QED
  BY <1>a, <1>b, <1>c, SMT

LEMMA RulePatterns ==
  ASSUME NEW i \in DOMAIN Rules
  PROVE  Rules[i][2] \in Patterns
<1>1. i \in 1 .. 11
  BY DEF Rules
<1>2. \/ i = 1 \/ i = 2 \/ i = 3 \/ i = 4 \/ i = 5 \/ i = 6
      \/ i = 7 \/ i = 8 \/ i = 9 \/ i = 10 \/ i = 11
  BY <1>1
<1> QED
  BY <1>2 DEF Rules, Patterns

\* select_pattern_from_status() returns a pattern, whatever the status.
LEMMA SelectedIsPattern ==
  ASSUME NEW s, NEW data, NEW error
  PROVE  SelectPattern(s, data, error) \in Patterns
<1>1. RulePattern(s) \in Patterns
  <2> DEFINE hits == {i \in DOMAIN Rules : s.state # Nothing /\ Rules[i][1] \in Keys[s.state]}
  <2>1. CASE hits = {}
    BY <2>1 DEF RulePattern, Patterns
  <2>2. CASE hits # {}
    <3>1. PICK h : h = hits
      OBVIOUS
    <3>2. \E i \in h : \A j \in h : i <= j
      BY <2>2, <3>1, FirstRule
    <3>3. (CHOOSE i \in h : \A j \in h : i <= j) \in h
      BY <3>2
    <3>4. RulePattern(s) = Rules[CHOOSE i \in h : \A j \in h : i <= j][2]
      BY <2>2, <3>1 DEF RulePattern
    <3> QED
      BY <3>1, <3>3, <3>4, RulePatterns
  <2> QED
    BY <2>1, <2>2
<1>2. ErrorPattern(s) \in Patterns
  BY DEF ErrorPattern, Patterns
<1> QED
  BY <1>1, <1>2 DEF SelectPattern, Patterns

\* A status of indicator.clear is no error, and has no severity.
LEMMA ClearIsNoError ==
  ASSUME NEW s, s.state = Clear, s.text = Clear, s.severity \in {Clear, Nothing}
  PROVE  ~IsError(s)
BY MessagesAssumption DEF IsError, SeverityOf

-----------------------------------------------------------------------------
(* The LED thread.                                                         *)

LEMMA ReadKeeps ==
  ASSUME TypeOK, CountInv, ShowInv, Read
  PROVE  TypeOK' /\ CountInv' /\ ShowInv'
<1>1. UNCHANGED <<status, hasData, hasError, pc, msg, next, pattern, patternId,
                  posted, overlapped, lit>>
  BY DEF Read, quietVars, snapshotVars, writerVars, sharedVars
<1>2. /\ ledPattern' = pattern /\ lastId' = patternId
      /\ ledPc' = IF Finite(pattern) /\ remaining' = 0 THEN "read" ELSE "show"
  BY DEF Read
<1>3. /\ patternId # lastId => shows' = 0 /\ remaining' = Repeat(pattern)
      /\ patternId = lastId => shows' = shows /\ remaining' = remaining
  BY DEF Read
<1>4. TypeOK'
  BY <1>1, <1>2, <1>3, RepeatBounds, SMTT(30) DEF TypeOK
<1>5. CountInv'
  <2>1. BusyThreads' = BusyThreads
    BY <1>1 DEF BusyThreads, Busy
  <2> QED
    BY <2>1, <1>1, <1>2, SMT DEF CountInv, TypeOK
<1>0. ledPc = "read" /\ UnderWay = 0
  BY DEF Read, UnderWay
<1>6. Repeat(pattern) \in 0 .. 4 /\ (Finite(pattern) <=> Repeat(pattern) > 0)
  BY RepeatBounds
<1>7. shows' + remaining' = Repeat(pattern)
  <2>1. CASE patternId # lastId
    BY <2>1, <1>3, <1>6, SMT
  <2>2. CASE patternId = lastId
    <3>1. lastId >= 0 /\ ledPattern = pattern
      BY <2>2, SMT DEF ShowInv, TypeOK
    <3>2. shows + remaining = Repeat(pattern) + 0
      BY <3>1, <1>0 DEF ShowInv
    <3> QED
      BY <2>2, <3>2, <1>3, <1>6, SMT
  <2> QED
    BY <2>1, <2>2
<1>8. Finite(pattern) /\ remaining' = 0 => lit = {}
  <2>1. ASSUME Finite(pattern), remaining' = 0
        PROVE  lit = {}
    <3>1. patternId = lastId /\ remaining = 0
      BY <2>1, <1>3, <1>6, SMT
    <3>2. ledPattern = pattern /\ lastId >= 0
      BY <3>1, SMT DEF ShowInv, TypeOK
    <3>3. ledPc = "read"
      BY <2>1, <3>1, <3>2, SMT DEF ShowInv
    <3> QED
      BY <2>1, <3>2, <3>3 DEF ShowInv
  <2> QED
    BY <2>1
<1>9. remaining' \in 0 .. 4
  BY <1>4 DEF TypeOK
<1> QED
  <2>1. ledPc' \in {"read", "show"} /\ (ledPc' = "read" <=> Finite(pattern) /\ remaining' = 0)
    BY <1>2
  <2>2. /\ (lastId = patternId => ledPattern = pattern)'
        /\ (lastId >= 0 => shows + remaining = Repeat(ledPattern) + UnderWay)'
        /\ (ledPc = "second" => Type(ledPattern) = "alternate")'
    BY <1>1, <1>2, <1>6, <1>7, <2>1 DEF UnderWay
  <2>3. (ledPc # "read" => lastId >= 0 /\ (Finite(ledPattern) => remaining > 0))'
    BY <1>2, <1>9, <2>1, SMT DEF TypeOK, Finite
  <2>4. (Finite(ledPattern) /\ ledPc = "read" /\ lastId >= 0 => lit = {})'
    BY <1>1, <1>2, <1>8, <2>1 DEF Finite
  <2> QED
    BY <1>4, <1>5, <2>2, <2>3, <2>4 DEF ShowInv

\* The end of a show, whatever it shows: it is counted, and a counted pattern
\* leaves no light on.
LEMMA ShownKeeps ==
  ASSUME TypeOK, CountInv, ShowInv, CountShow, ledPc # "read", ledPc' = "read",
         lit' \subseteq Leds, Finite(ledPattern) => lit' = {} /\ ledPc # "show",
         UNCHANGED <<quietVars, ledPattern, lastId, shows>>
  PROVE  TypeOK' /\ CountInv' /\ ShowInv'
<1>1. UNCHANGED <<status, hasData, hasError, pc, msg, next, pattern, patternId,
                  posted, overlapped, ledPattern, lastId, shows>>
  BY DEF quietVars, snapshotVars, writerVars, sharedVars
<1>2. remaining \in 0 .. 4 /\ shows \in 0 .. 4 /\ lastId >= 0
      /\ (Finite(ledPattern) => remaining > 0)
  BY DEF TypeOK, ShowInv
<1>3. remaining' = remaining - UnderWay
  <2>1. ledPc \in {"show", "off", "second"}
    BY DEF TypeOK
  <2> QED
    BY <1>2, <2>1 DEF CountShow, UnderWay
<1>4. remaining' \in 0 .. 4 /\ shows + remaining' = Repeat(ledPattern)
  <2>1. UnderWay \in {0, 1} /\ (UnderWay = 1 => Finite(ledPattern))
    BY DEF UnderWay
  <2>2. shows + remaining = Repeat(ledPattern) + UnderWay
    BY <1>2 DEF ShowInv
  <2>3. Repeat(ledPattern) \in 0 .. 4
    BY RepeatBounds
  <2>4. UnderWay = 0 \/ remaining > 0
    BY <1>2, <2>1
  <2> QED
    <3>1. PICK n, u : n = Repeat(ledPattern) /\ u = UnderWay
      OBVIOUS
    <3>2. u = 0 \/ u = 1
      BY <2>1, <3>1
    <3>3. /\ shows + remaining = n + u /\ remaining' = remaining - u
          /\ n \in 0 .. 4 /\ shows \in 0 .. 4 /\ remaining \in 0 .. 4
          /\ (u = 0 \/ remaining > 0)
      BY <1>2, <1>3, <2>2, <2>3, <2>4, <3>1
    <3>4. remaining' \in 0 .. 4 /\ shows + remaining' = n
      BY <3>2, <3>3, SMT
    <3> QED
      BY <3>1, <3>4
<1>5. TypeOK'
  BY <1>1, <1>4, SMTT(30) DEF TypeOK
<1>6. CountInv'
  <2>1. BusyThreads' = BusyThreads
    BY <1>1 DEF BusyThreads, Busy
  <2> QED
    BY <2>1, <1>1 DEF CountInv
<1>7. ShowInv'
  <2>0. UnderWay' = 0 /\ Repeat(ledPattern) \in 0 .. 4
    BY RepeatBounds DEF UnderWay
  <2>1. (lastId >= 0 => shows + remaining = Repeat(ledPattern) + UnderWay)'
    BY <1>1, <1>4, <2>0, SMT
  <2>2. (Finite(ledPattern) /\ ledPc = "read" /\ lastId >= 0 => lit = {})'
    BY <1>1 DEF Finite
  <2> QED
    BY <1>1, <2>1, <2>2 DEF ShowInv
<1> QED
  BY <1>5, <1>6, <1>7

LEMMA ShowSteadyKeeps ==
  ASSUME TypeOK, CountInv, ShowInv, ShowSteady
  PROVE  TypeOK' /\ CountInv' /\ ShowInv'
<1>1. lit' \subseteq Leds
  BY RepeatBounds DEF ShowSteady
<1>2. ~Finite(ledPattern)
  BY RepeatBounds DEF ShowSteady
<1>3. /\ CountShow /\ ledPc # "read" /\ ledPc' = "read"
      /\ UNCHANGED <<quietVars, ledPattern, lastId, shows>>
  BY DEF ShowSteady
<1> QED
  BY <1>1, <1>2, <1>3, ShownKeeps

LEMMA LightOffKeeps ==
  ASSUME TypeOK, CountInv, ShowInv, LightOff
  PROVE  TypeOK' /\ CountInv' /\ ShowInv'
<1>1. lit' \subseteq Leds
  BY DEF LightOff, TypeOK, Leds
<1>2. Finite(ledPattern) => lit' = {}
  <2>1. ASSUME Finite(ledPattern)
        PROVE  lit' = {}
    <3>1. Type(ledPattern) = "blink" /\ Targets(ledPattern) = Leds
      BY <2>1, RepeatBounds
    <3>2. ledPc # "second"
      BY <3>1 DEF ShowInv
    <3> QED
      BY <3>1, <3>2 DEF LightOff, TypeOK
  <2> QED
    BY <2>1
<1>3. /\ CountShow /\ ledPc \notin {"read", "show"} /\ ledPc' = "read"
      /\ UNCHANGED <<quietVars, ledPattern, lastId, shows>>
  BY DEF LightOff
<1> QED
  BY <1>1, <1>2, <1>3, ShownKeeps

LEMMA LightOnKeeps ==
  ASSUME TypeOK, CountInv, ShowInv, LightOn
  PROVE  TypeOK' /\ CountInv' /\ ShowInv'
<1>1. UNCHANGED <<status, hasData, hasError, pc, msg, next, pattern, patternId,
                  posted, overlapped, ledPattern, lastId, remaining>>
  BY DEF LightOn, quietVars, snapshotVars, writerVars, sharedVars
<1>2. lit' \subseteq Leds
  BY RepeatBounds DEF LightOn, TypeOK, Leds
<1>3. /\ ledPc = "show" /\ ledPc' \in {"off", "second"} /\ lastId >= 0
      /\ (ledPc' = "second" => Type(ledPattern) = "alternate")
  BY DEF LightOn, Alternates, ShowInv
<1>4. shows' = shows + UnderWay' /\ UnderWay = 0 /\ UnderWay' \in {0, 1}
  <2>1. shows \in 0 .. 4 /\ (Finite(ledPattern))' = Finite(ledPattern)
    BY <1>1 DEF TypeOK, Finite
  <2> QED
    BY <1>1, <1>3, <2>1 DEF LightOn, UnderWay
<1>5. shows' + remaining' = Repeat(ledPattern) + UnderWay' /\ shows' \in 0 .. 4
  <2>1. shows + remaining = Repeat(ledPattern) + UnderWay /\ Repeat(ledPattern) \in 0 .. 4
        /\ shows \in 0 .. 4 /\ remaining \in 0 .. 4
    BY <1>3, RepeatBounds DEF ShowInv, TypeOK
  <2>2. UnderWay' = 1 => remaining > 0
    BY <1>1, <1>3 DEF UnderWay, Finite, ShowInv
  <2>3. UnderWay' = 0 \/ remaining > 0
    BY <1>4, <2>2
  <2> QED
    <3>1. PICK n, u : n = Repeat(ledPattern) /\ u = UnderWay'
      OBVIOUS
    <3>2. u = 0 \/ u = 1
      BY <1>4, <3>1
    <3>3. shows + remaining = n + 0 /\ remaining' = remaining /\ shows' = shows + u
          /\ n \in 0 .. 4 /\ shows \in 0 .. 4 /\ remaining \in 0 .. 4
          /\ (u = 0 \/ remaining > 0)
      BY <1>1, <1>4, <2>1, <2>3, <3>1
    <3>4. shows' + remaining' = n + u /\ shows' \in 0 .. 4
      BY <3>2, <3>3, SMT
    <3> QED
      BY <3>1, <3>4
<1>6. TypeOK'
  BY <1>1, <1>2, <1>3, <1>5, SMTT(30) DEF TypeOK
<1>7. CountInv'
  <2>1. BusyThreads' = BusyThreads
    BY <1>1 DEF BusyThreads, Busy
  <2> QED
    BY <2>1, <1>1 DEF CountInv
<1>8. ShowInv'
  BY <1>1, <1>3, <1>5 DEF ShowInv, Finite
<1> QED
  BY <1>6, <1>7, <1>8

-----------------------------------------------------------------------------
(* Setting the status: types, ids and shows.                               *)

\* An update that goes on from one of its steps to the next.
LEMMA GoingOnCounts ==
  ASSUME TypeOK, CountInv, ShowInv,
         NEW t \in Threads, NEW to \in Places, Busy(t), to # "idle", Move(t, to),
         UNCHANGED <<sharedVars, ledVars, posted>>
  PROVE  CountInv' /\ ShowInv' /\ BusyThreads' = BusyThreads
<1>1. UNCHANGED <<pattern, patternId, ledPc, ledPattern, lastId, remaining, lit, shows, posted>>
  BY DEF sharedVars, ledVars
<1>2. BusyThreads' = BusyThreads
  BY DEF BusyThreads, Busy, Move, TypeOK
<1>3. CountInv'
  BY <1>1, <1>2 DEF CountInv
<1>4. ShowInv'
  BY <1>1 DEF ShowInv, UnderWay, Finite
<1> QED
  BY <1>2, <1>3, <1>4

LEMMA WriteFieldTypes ==
  ASSUME TypeOK, CountInv, ShowInv, NEW t \in Threads, WriteField(t)
  PROVE  TypeOK' /\ CountInv' /\ ShowInv'
<1>1. PICK to \in {"text", "severity", "error"} : Move(t, to)
  <2>1. NextField[pc[t]] \in {"text", "severity", "error"}
    BY DEF WriteField, NextField, Fields
  <2> QED
    BY <2>1 DEF WriteField
<1>2. CountInv' /\ ShowInv'
  <2>1. Busy(t) /\ to \in Places /\ to # "idle"
    BY <1>1 DEF WriteField, Busy, Fields, Places
  <2>2. UNCHANGED <<sharedVars, ledVars, posted>>
    BY DEF WriteField
  <2> QED
    BY <1>1, <2>1, <2>2, GoingOnCounts
<1>3. status' \in [Fields -> Messages \cup {Nothing}]
  BY DEF WriteField, TypeOK
<1>4. pc' \in [Threads -> Places]
  BY <1>1 DEF Move, TypeOK, Places, Fields
<1>5. UNCHANGED <<hasData, hasError, msg, next, pattern, patternId, ledPc, ledPattern,
                  lastId, remaining, lit, shows, posted, overlapped>>
  BY DEF WriteField, sharedVars, ledVars
<1>6. TypeOK'
  BY <1>3, <1>4, <1>5 DEF TypeOK
<1> QED
  BY <1>2, <1>6

LEMMA ComputeErrorTypes ==
  ASSUME TypeOK, CountInv, ShowInv, NEW t \in Threads, ComputeError(t)
  PROVE  TypeOK' /\ CountInv' /\ ShowInv'
<1>1. CountInv' /\ ShowInv'
  <2>1. Busy(t) /\ Move(t, "select") /\ "select" \in Places
    BY DEF ComputeError, Busy, Places
  <2>2. UNCHANGED <<sharedVars, ledVars, posted>>
    BY DEF ComputeError
  <2> QED
    BY <2>1, <2>2, GoingOnCounts
<1>2. hasData' \in BOOLEAN /\ hasError' \in BOOLEAN
  BY DEF ComputeError
<1>3. pc' \in [Threads -> Places]
  BY DEF ComputeError, Move, TypeOK, Places
<1>4. UNCHANGED <<status, msg, next, pattern, patternId, ledPc, ledPattern,
                  lastId, remaining, lit, shows, posted, overlapped>>
  BY DEF ComputeError, sharedVars, ledVars
<1>5. TypeOK'
  BY <1>2, <1>3, <1>4 DEF TypeOK
<1> QED
  BY <1>1, <1>5

LEMMA SelectTypes ==
  ASSUME TypeOK, CountInv, ShowInv, NEW t \in Threads, Select(t)
  PROVE  TypeOK' /\ CountInv' /\ ShowInv'
<1>1. CountInv' /\ ShowInv'
  <2>1. Busy(t) /\ Move(t, "lock") /\ "lock" \in Places
    BY DEF Select, Busy, Places
  <2>2. UNCHANGED <<sharedVars, ledVars, posted>>
    BY DEF Select
  <2> QED
    BY <2>1, <2>2, GoingOnCounts
<1>2. next' \in [Threads -> Patterns]
  <2>1. SelectPattern(status, hasData, hasError) \in Patterns
    BY SelectedIsPattern
  <2> QED
    BY <2>1 DEF Select, TypeOK
<1>3. pc' \in [Threads -> Places]
  BY DEF Select, Move, TypeOK, Places
<1>4. UNCHANGED <<status, hasData, hasError, msg, pattern, patternId, ledPc, ledPattern,
                  lastId, remaining, lit, shows, posted, overlapped>>
  BY DEF Select, snapshotVars, sharedVars, ledVars
<1>5. TypeOK'
  BY <1>2, <1>3, <1>4 DEF TypeOK
<1> QED
  BY <1>1, <1>5

\* The update ends: the pattern it leaves gets the next id.
LEMMA SetPatternTypes ==
  ASSUME TypeOK, CountInv, ShowInv, NEW t \in Threads, SetPattern(t)
  PROVE  TypeOK' /\ CountInv' /\ ShowInv'
<1>1. UNCHANGED <<status, hasData, hasError, msg, next, ledPc, ledPattern,
                  lastId, remaining, lit, shows, posted, overlapped>>
  BY DEF SetPattern, snapshotVars, ledVars
<1>2. patternId' = patternId + 1 /\ pattern' \in Patterns
  BY DEF SetPattern, TypeOK
<1>3. pc' = [pc EXCEPT ![t] = "idle"] /\ pc[t] = "lock"
  BY DEF SetPattern, Move
<1>4. t \in BusyThreads /\ BusyThreads' = BusyThreads \ {t}
  BY <1>3 DEF BusyThreads, Busy, TypeOK
<1>5. /\ IsFiniteSet(BusyThreads') /\ Cardinality(BusyThreads') = Cardinality(BusyThreads) - 1
      /\ Cardinality(BusyThreads) \in Nat /\ Cardinality(BusyThreads') \in Nat
  BY <1>4, FS_RemoveElement, FS_CardinalityType DEF CountInv
<1>6. CountInv'
  BY <1>1, <1>2, <1>5, SMT DEF CountInv, TypeOK
<1>7. patternId' \in 0 .. MaxUpdates
  BY <1>1, <1>2, <1>5, UpdatesAssumption, SMT DEF CountInv, TypeOK
<1>8. pc' \in [Threads -> Places]
  BY <1>3 DEF TypeOK, Places
<1>9. TypeOK'
  BY <1>1, <1>2, <1>7, <1>8 DEF TypeOK
<1>10. ShowInv'
  <2>1. lastId # patternId'
    BY <1>2, SMT DEF CountInv, TypeOK
  <2> QED
    BY <1>1, <2>1 DEF ShowInv, UnderWay, Finite
<1> QED
  BY <1>6, <1>9, <1>10

LEMMA PostTypes ==
  ASSUME TypeOK, CountInv, ShowInv, NEW t \in Threads, NEW m \in Messages, Post(t, m)
  PROVE  TypeOK' /\ CountInv' /\ ShowInv'
<1>1. UNCHANGED <<next, pattern, patternId, ledPc, ledPattern, lastId, remaining, lit, shows>>
  BY DEF Post, sharedVars, ledVars
<1>2. pc' = [pc EXCEPT ![t] = "state"] /\ pc[t] = "idle"
  BY DEF Post, Move
<1>3. t \notin BusyThreads /\ BusyThreads' = BusyThreads \cup {t}
  BY <1>2 DEF BusyThreads, Busy, TypeOK
<1>4. /\ IsFiniteSet(BusyThreads') /\ Cardinality(BusyThreads') = Cardinality(BusyThreads) + 1
      /\ Cardinality(BusyThreads) \in Nat
  BY <1>3, FS_AddElement, FS_CardinalityType DEF CountInv
<1>5. posted' = posted + 1 /\ posted' \in 0 .. MaxUpdates
  BY UpdatesAssumption, SMT DEF Post, TypeOK
<1>6. CountInv'
  BY <1>1, <1>4, <1>5, SMT DEF CountInv, TypeOK
<1>7. ShowInv'
  BY <1>1 DEF ShowInv, UnderWay, Finite
<1>8. /\ status' \in [Fields -> Messages \cup {Nothing}]
      /\ hasData' \in BOOLEAN /\ hasError' \in BOOLEAN
  BY DEF Post, snapshotVars, TypeOK
<1>9. pc' \in [Threads -> Places] /\ msg' \in [Threads -> Messages] /\ overlapped' \in BOOLEAN
  BY <1>2 DEF Post, TypeOK, Places, Fields
<1>10. TypeOK'
  BY <1>1, <1>5, <1>8, <1>9 DEF TypeOK
<1> QED
  BY <1>6, <1>7, <1>10

-----------------------------------------------------------------------------
(* Setting the status: what an update that met no other leaves.            *)

\* The thread that sets the status alone is the only one to look at.
LEMMA AloneSuffices ==
  ASSUME TypeOK, Alone, NEW t \in Threads, Busy(t), NEW to \in Places, Move(t, to),
         Progress(t)', to # "idle"
  PROVE  Alone' /\ (\A u \in Threads : Progress(u)') /\ SerialStatusIsShown'
<1>1. pc' = [pc EXCEPT ![t] = to] /\ pc \in [Threads -> Places]
  BY DEF Move, TypeOK
<1>2. \A u \in Threads : u # t => pc[u] = "idle" /\ pc'[u] = "idle"
  BY <1>1 DEF Alone, Busy
<1>3. Alone'
  BY <1>2 DEF Alone, Busy
<1>4. ASSUME NEW u \in Threads
      PROVE  Progress(u)'
  <2>1. CASE u = t
    BY <2>1
  <2>2. CASE u # t
    <3>1. pc'[u] = "idle"
      BY <1>2, <2>2
    <3> QED
      BY <3>1 DEF Progress, AfterState, AfterText, AfterSeverity, AfterError
  <2> QED
    BY <2>1, <2>2
<1>5. ~Quiet'
  BY <1>1 DEF Quiet, Busy
<1> QED
  BY <1>3, <1>4, <1>5 DEF SerialStatusIsShown

LEMMA WriteFieldSerial ==
  ASSUME TypeOK, SerialInv, NEW t \in Threads, WriteField(t)
  PROVE  SerialInv'
<1> SUFFICES ASSUME ~overlapped
             PROVE  Alone' /\ (\A u \in Threads : Progress(u)') /\ SerialStatusIsShown'
  BY DEF SerialInv, WriteField
<1>1. Alone /\ Progress(t)
  BY DEF SerialInv
<1>2. /\ pc[t] \in {"state", "text", "severity"} /\ pc \in [Threads -> Places]
      /\ status' = [status EXCEPT ![pc[t]] = msg[t]] /\ msg' = msg
      /\ status \in [Fields -> Messages \cup {Nothing}]
  BY DEF WriteField, TypeOK, Fields
<1>3. PICK to : to = IF pc[t] = "text" /\ msg[t] = Clear THEN "error" ELSE NextField[pc[t]]
  OBVIOUS
<1>4. /\ pc[t] = "state" => to = "text"
      /\ pc[t] = "text" => to = IF msg[t] = Clear THEN "error" ELSE "severity"
      /\ pc[t] = "severity" => to = "error"
  BY <1>3 DEF NextField
<1>5. Move(t, to) /\ pc'[t] = to
  BY <1>2, <1>3 DEF WriteField, Move
<1>6. Progress(t)'
  <2>1. CASE pc[t] = "state"
    BY <2>1, <1>1, <1>2, <1>4, <1>5
    DEF Progress, AfterState, AfterText, AfterSeverity, AfterError, SeverityIs, Fields
  <2>2. CASE pc[t] = "text"
    BY <2>2, <1>1, <1>2, <1>4, <1>5
    DEF Progress, AfterState, AfterText, AfterSeverity, AfterError, SeverityIs, Fields
  <2>3. CASE pc[t] = "severity"
    BY <2>3, <1>1, <1>2, <1>4, <1>5
    DEF Progress, AfterState, AfterText, AfterSeverity, AfterError, SeverityIs, Fields
  <2> QED
    BY <1>2, <2>1, <2>2, <2>3
<1>7. to \in Places /\ to # "idle" /\ Busy(t)
  BY <1>2, <1>4 DEF Places, Fields, Busy
<1> QED
  BY <1>1, <1>5, <1>6, <1>7, AloneSuffices

LEMMA ComputeErrorSerial ==
  ASSUME TypeOK, SerialInv, NEW t \in Threads, ComputeError(t)
  PROVE  SerialInv'
<1> SUFFICES ASSUME ~overlapped
             PROVE  Alone' /\ (\A u \in Threads : Progress(u)') /\ SerialStatusIsShown'
  BY DEF SerialInv, ComputeError
<1>1. Alone /\ Progress(t)
  BY DEF SerialInv
<1>2. /\ pc[t] = "error" /\ pc \in [Threads -> Places]
      /\ status' = status /\ msg' = msg /\ hasData' = TRUE
  BY DEF ComputeError, TypeOK
<1>3. Move(t, "select") /\ pc'[t] = "select"
  BY <1>2 DEF ComputeError, Move
<1>4. status.state = msg[t] /\ status.text = msg[t] /\ SeverityIs(msg[t])
  BY <1>1, <1>2 DEF Progress, AfterState, AfterText, AfterSeverity
<1>5. hasError' = IsError(status)
  <2>1. CASE msg[t] = Clear
    <3>1. ~IsError(status)
      BY <1>4, <2>1, ClearIsNoError DEF SeverityIs
    <3>2. IsError(status) = FALSE
      BY <3>1 DEF IsError
    <3>3. hasError' = FALSE
      BY <2>1 DEF ComputeError
    <3> QED
      BY <3>2, <3>3
  <2>2. CASE msg[t] # Clear
    BY <2>2 DEF ComputeError, IsError
  <2> QED
    BY <2>1, <2>2
<1>6. IsError(status)' = IsError(status) /\ SeverityIs(msg[t])' = SeverityIs(msg[t])
  BY <1>2 DEF IsError, SeverityIs, SeverityOf
<1>7. Progress(t)'
  BY <1>2, <1>3, <1>4, <1>5, <1>6
  DEF Progress, AfterState, AfterText, AfterSeverity, AfterError
<1>8. "select" \in Places /\ Busy(t)
  BY <1>2 DEF Places, Busy
<1> QED
  BY <1>1, <1>3, <1>7, <1>8, AloneSuffices

LEMMA SelectSerial ==
  ASSUME TypeOK, SerialInv, NEW t \in Threads, Select(t)
  PROVE  SerialInv'
<1> SUFFICES ASSUME ~overlapped
             PROVE  Alone' /\ (\A u \in Threads : Progress(u)') /\ SerialStatusIsShown'
  BY DEF SerialInv, Select
<1>1. Alone /\ Progress(t)
  BY DEF SerialInv
<1>2. /\ pc[t] = "select" /\ pc \in [Threads -> Places] /\ next \in [Threads -> Patterns]
      /\ status' = status /\ msg' = msg /\ hasData' = hasData /\ hasError' = hasError
  BY DEF Select, TypeOK, snapshotVars
<1>3. Move(t, "lock") /\ pc'[t] = "lock"
  BY <1>2 DEF Select, Move
<1>4. hasData = TRUE /\ hasError = IsError(status)
  BY <1>1, <1>2 DEF Progress, AfterError
<1>5. next'[t] = SelectPattern(status, TRUE, IsError(status))
  BY <1>2, <1>4 DEF Select
<1>6. /\ IsError(status)' = IsError(status) /\ SeverityIs(msg[t])' = SeverityIs(msg[t])
      /\ SelectPattern(status, TRUE, IsError(status))' = SelectPattern(status, TRUE, IsError(status))
  BY <1>2 DEF IsError, SeverityIs, SeverityOf, SelectPattern, ErrorPattern, RulePattern
<1>7. Progress(t)'
  BY <1>1, <1>2, <1>3, <1>4, <1>5, <1>6
  DEF Progress, AfterState, AfterText, AfterSeverity, AfterError
<1>8. "lock" \in Places /\ Busy(t)
  BY <1>2 DEF Places, Busy
<1> QED
  BY <1>1, <1>3, <1>7, <1>8, AloneSuffices

LEMMA SetPatternSerial ==
  ASSUME TypeOK, SerialInv, NEW t \in Threads, SetPattern(t)
  PROVE  SerialInv'
<1> SUFFICES ASSUME ~overlapped
             PROVE  Alone' /\ (\A u \in Threads : Progress(u)') /\ SerialStatusIsShown'
  BY DEF SerialInv, SetPattern
<1>1. Alone /\ Progress(t)
  BY DEF SerialInv
<1>2. /\ pc[t] = "lock" /\ pc' = [pc EXCEPT ![t] = "idle"] /\ pc \in [Threads -> Places]
      /\ status' = status /\ msg' = msg /\ hasError' = hasError /\ pattern' = next[t]
      /\ status \in [Fields -> Messages \cup {Nothing}]
  BY DEF SetPattern, Move, TypeOK, snapshotVars
<1>3. \A u \in Threads : pc'[u] = "idle"
  BY <1>1, <1>2 DEF Alone, Busy
<1>4. Alone' /\ \A u \in Threads : Progress(u)'
  BY <1>3 DEF Alone, Busy, Progress, AfterState, AfterText, AfterSeverity, AfterError
<1>5. /\ status.state = msg[t] /\ status.text = msg[t] /\ SeverityIs(msg[t])
      /\ hasError = IsError(status)
      /\ next[t] = SelectPattern(status, TRUE, IsError(status))
  BY <1>1, <1>2 DEF Progress, AfterState, AfterText, AfterSeverity, AfterError
<1>6. \A f \in Fields : status[f] = msg[t] \/ (f = "severity" /\ status[f] = Nothing)
  BY <1>5 DEF Fields, SeverityIs
<1>7. /\ IsError(status)' = IsError(status)
      /\ SelectPattern(status, TRUE, IsError(status))' = SelectPattern(status, TRUE, IsError(status))
  BY <1>2 DEF IsError, SeverityOf, SelectPattern, ErrorPattern, RulePattern
<1>8. /\ pattern' = SelectPattern(status, TRUE, IsError(status))'
      /\ hasError' = IsError(status)'
      /\ \A f \in Fields : status'[f] = msg'[t] \/ (f = "severity" /\ status'[f] = Nothing)
  BY <1>2, <1>5, <1>6, <1>7
<1>9. SerialStatusIsShown'
  BY <1>8 DEF SerialStatusIsShown
<1> QED
  BY <1>4, <1>9

\* An update that begins while no other is under way is alone, whatever
\* happened before.
LEMMA PostSerial ==
  ASSUME TypeOK, NEW t \in Threads, NEW m \in Messages, Post(t, m)
  PROVE  SerialInv'
<1> SUFFICES ASSUME ~overlapped'
             PROVE  Alone' /\ (\A u \in Threads : Progress(u)') /\ SerialStatusIsShown'
  BY DEF SerialInv
<1>1. /\ pc' = [pc EXCEPT ![t] = "state"] /\ pc \in [Threads -> Places]
      /\ msg' = [msg EXCEPT ![t] = m] /\ msg \in [Threads -> Messages]
  BY DEF Post, Move, TypeOK
<1>2. \A u \in Threads : pc[u] = "idle"
  BY DEF Post, Busy
<1>3. \A u \in Threads : u # t => pc'[u] = "idle"
  BY <1>1, <1>2
<1>4. pc'[t] = "state" /\ msg'[t] = m
  BY <1>1
<1>5. Alone'
  BY <1>3 DEF Alone, Busy
<1>6. m = Clear => status'["severity"] = Nothing
  BY DEF Post, Fields
<1>7. ASSUME NEW u \in Threads
      PROVE  Progress(u)'
  <2>1. CASE u = t
    BY <2>1, <1>4, <1>6 DEF Progress, AfterState, AfterText, AfterSeverity, AfterError
  <2>2. CASE u # t
    <3>1. pc'[u] = "idle"
      BY <1>3, <2>2
    <3> QED
      BY <3>1 DEF Progress, AfterState, AfterText, AfterSeverity, AfterError
  <2> QED
    BY <2>1, <2>2
<1>8. ~Quiet'
  BY <1>4 DEF Quiet, Busy
<1> QED
  BY <1>5, <1>7, <1>8 DEF SerialStatusIsShown

\* The LED thread only reads the pattern.
LEMMA LedStepSerial ==
  ASSUME SerialInv, UNCHANGED quietVars
  PROVE  SerialInv'
<1>1. UNCHANGED <<status, hasData, hasError, pc, msg, next, pattern, overlapped>>
  BY DEF quietVars, snapshotVars, writerVars, sharedVars
<1>2. /\ IsError(status)' = IsError(status)
      /\ SelectPattern(status, TRUE, IsError(status))' = SelectPattern(status, TRUE, IsError(status))
  BY <1>1 DEF IsError, SeverityOf, SelectPattern, ErrorPattern, RulePattern
<1>3. ASSUME NEW t \in Threads, Progress(t)
      PROVE  Progress(t)'
  BY <1>1, <1>2, <1>3 DEF Progress, SeverityIs
<1>4. Alone => Alone'
  BY <1>1 DEF Alone, Busy
<1>5. SerialStatusIsShown => SerialStatusIsShown'
  <2>1. Quiet' = Quiet /\ overlapped' = overlapped
    BY <1>1 DEF Quiet, Busy
  <2> QED
    BY <2>1, <1>1, <1>2 DEF SerialStatusIsShown
<1> QED
  BY <1>1, <1>3, <1>4, <1>5 DEF SerialInv

-----------------------------------------------------------------------------
(* The inductive invariant holds.                                          *)

LEMMA StatusLedInit == Init => StatusLedInv
<1> SUFFICES ASSUME Init
             PROVE  StatusLedInv
  OBVIOUS
<1>1. /\ Main \in Threads /\ Started \in Messages
      /\ MaxUpdates \in Nat \ {0}
  BY MessagesAssumption, UpdatesAssumption
<1>2. TypeOK
  <2>1. /\ status \in [Fields -> Messages \cup {Nothing}]
        /\ pc \in [Threads -> Places] /\ msg \in [Threads -> Messages]
        /\ next \in [Threads -> Patterns]
    BY <1>1 DEF Init, Places, Fields, Patterns
  <2>2. /\ hasData \in BOOLEAN /\ hasError \in BOOLEAN /\ overlapped \in BOOLEAN
        /\ pattern \in Patterns /\ ledPattern \in Patterns
        /\ ledPc \in {"read", "show", "off", "second"} /\ lit \subseteq Leds
    BY DEF Init, Patterns
  <2>3. /\ patternId \in 0 .. MaxUpdates /\ posted \in 0 .. MaxUpdates
        /\ lastId \in -1 .. MaxUpdates /\ remaining \in 0 .. 4 /\ shows \in 0 .. 4
    BY <1>1 DEF Init
  <2> QED
    BY <2>1, <2>2, <2>3 DEF TypeOK
<1>3. CountInv
  <2>1. BusyThreads = {Main}
    BY <1>1 DEF Init, BusyThreads, Busy
  <2>2. IsFiniteSet(BusyThreads) /\ Cardinality(BusyThreads) = 1
    BY <2>1, FS_Singleton
  <2> QED
    BY <2>2 DEF Init, CountInv
<1>4. ShowInv
  BY DEF Init, ShowInv
<1>5. SerialInv
  <2>1. \A t \in Threads : pc[t] = IF t = Main THEN "state" ELSE "idle"
    BY DEF Init
  <2>2. Alone
    BY <2>1 DEF Alone, Busy
  <2>3. \A t \in Threads : Progress(t)
    BY <2>1 DEF Init, Fields, Progress, AfterState, AfterText, AfterSeverity, AfterError
  <2>4. ~Quiet
    BY <1>1, <2>1 DEF Quiet, Busy
  <2> QED
    BY <2>2, <2>3, <2>4 DEF SerialInv, SerialStatusIsShown
<1> QED
  BY <1>2, <1>3, <1>4, <1>5 DEF StatusLedInv

LEMMA StatusLedStep == StatusLedInv /\ [Next]_vars => StatusLedInv'
<1> SUFFICES ASSUME StatusLedInv, [Next]_vars
             PROVE  StatusLedInv'
  OBVIOUS
<1>0. TypeOK /\ CountInv /\ ShowInv /\ SerialInv
  BY DEF StatusLedInv
<1>1. ASSUME NEW t \in Threads, WriteField(t)
      PROVE  StatusLedInv'
  BY <1>0, <1>1, WriteFieldTypes, WriteFieldSerial DEF StatusLedInv
<1>2. ASSUME NEW t \in Threads, ComputeError(t)
      PROVE  StatusLedInv'
  BY <1>0, <1>2, ComputeErrorTypes, ComputeErrorSerial DEF StatusLedInv
<1>3. ASSUME NEW t \in Threads, Select(t)
      PROVE  StatusLedInv'
  BY <1>0, <1>3, SelectTypes, SelectSerial DEF StatusLedInv
<1>4. ASSUME NEW t \in Threads, SetPattern(t)
      PROVE  StatusLedInv'
  BY <1>0, <1>4, SetPatternTypes, SetPatternSerial DEF StatusLedInv
<1>5. ASSUME NEW t \in Threads, NEW m \in Says[t], Post(t, m)
      PROVE  StatusLedInv'
  <2>1. m \in Messages
    BY MessagesAssumption
  <2> QED
    BY <1>0, <1>5, <2>1, PostTypes, PostSerial DEF StatusLedInv
<1>6. CASE LedStep
  <2>1. UNCHANGED quietVars
    BY <1>6 DEF LedStep, Read, ShowSteady, LightOn, LightOff
  <2>2. SerialInv'
    BY <1>0, <2>1, LedStepSerial
  <2>3. TypeOK' /\ CountInv' /\ ShowInv'
    BY <1>0, <1>6, ReadKeeps, ShowSteadyKeeps, LightOnKeeps, LightOffKeeps DEF LedStep
  <2> QED
    BY <2>2, <2>3 DEF StatusLedInv
<1>7. CASE UNCHANGED vars
  <2>1. UNCHANGED <<pattern, patternId, ledPc, ledPattern, lastId, remaining, lit, shows,
                    posted, status, hasData, hasError, pc, msg, next, overlapped>>
        /\ UNCHANGED quietVars
    BY <1>7 DEF vars, snapshotVars, writerVars, sharedVars, ledVars, quietVars
  <2>2. TypeOK'
    BY <1>0, <2>1 DEF TypeOK
  <2>3. BusyThreads' = BusyThreads
    BY <2>1 DEF BusyThreads, Busy
  <2>4. CountInv' /\ ShowInv'
    BY <1>0, <2>1, <2>3 DEF CountInv, ShowInv, UnderWay, Finite
  <2>5. SerialInv'
    BY <1>0, <2>1, LedStepSerial
  <2> QED
    BY <2>2, <2>4, <2>5 DEF StatusLedInv
<1> QED
  BY <1>1, <1>2, <1>3, <1>4, <1>5, <1>6, <1>7 DEF Next, ThreadStep

-----------------------------------------------------------------------------
(* The theorems.                                                           *)

\* The four parts hold in every state, whatever the threads say and however
\* their updates interleave with each other and with the LED thread.
THEOREM StatusLedInvariant == Spec => []StatusLedInv
BY StatusLedInit, StatusLedStep, PTL DEF Spec

\* The state has its types; in particular g_pattern_id never runs ahead of the
\* updates that were begun, and the count of a pattern never goes below zero.
THEOREM TypeCorrect == Spec => []TypeOK
<1>1. StatusLedInv => TypeOK
  BY DEF StatusLedInv
<1> QED
  BY <1>1, StatusLedInvariant, PTL

\* An update_status() that met no other one publishes its own fields and its
\* own failure, and hands the LED thread the pattern chosen from them.
THEOREM SerialStatusShown == Spec => []SerialStatusIsShown
<1>1. StatusLedInv => SerialStatusIsShown
  BY DEF StatusLedInv, SerialInv, SerialStatusIsShown
<1> QED
  BY <1>1, StatusLedInvariant, PTL

\* Whatever statuses arrive while worker_loop() shows a counted pattern, it
\* lights it at most as often as its count for one status, and waits, with all
\* lights off, only after the full count for the status it took up last.
THEOREM CountedShownOut == Spec => []CountedPatternIsShownOut
<1>1. ASSUME StatusLedInv
      PROVE  CountedPatternIsShownOut
  <2> SUFFICES ASSUME lastId >= 0, Finite(ledPattern)
               PROVE  /\ shows <= Repeat(ledPattern)
                      /\ Rests => shows = Repeat(ledPattern) /\ lit = {}
    BY DEF CountedPatternIsShownOut
  <2>1. shows + remaining = Repeat(ledPattern) + UnderWay
    BY <1>1 DEF StatusLedInv, ShowInv
  <2>2. /\ Repeat(ledPattern) \in 0 .. 4 /\ shows \in 0 .. 4 /\ remaining \in 0 .. 4
        /\ UnderWay \in {0, 1} /\ (UnderWay = 1 => remaining > 0)
        /\ (Rests => UnderWay = 0 /\ remaining = 0)
    BY <1>1, RepeatBounds DEF StatusLedInv, TypeOK, ShowInv, UnderWay, Rests
  <2>3. Rests => lit = {}
    BY <1>1 DEF StatusLedInv, ShowInv, Rests
  <2> QED
    BY <2>1, <2>2, <2>3, SMT
<1> QED
  BY <1>1, StatusLedInvariant, PTL
=============================================================================
