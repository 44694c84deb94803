------------------------- MODULE UpdateWorkerProofs -------------------------
(***************************************************************************)
(* Proofs about UpdateWorker, for any number of zips, directories and      *)
(* files and any bounds.                                                   *)
(***************************************************************************)
EXTENDS UpdateWorker, TLAPS

(***************************************************************************)
(* The inductive invariant, in parts.  Each says what the worker's place   *)
(* in the code tells of the state the other threads see.                   *)
(***************************************************************************)

\* Where the flag is set, the hold file written and the services masked.
FlagInv ==
  updating <=> wpc \notin Idle \cup {"begin", "leaveHold", "leaveMark"}

HoldInv ==
  /\ wpc \notin Idle \cup {"begin", "hold", "leaveMark", "unflag"} => hold
  /\ wpc \in {"leaveMark", "unflag"} => ~hold
  /\ wpc \in Idle \cup {"begin"} /\ hold => lastStatus = "started"

MaskInv ==
  /\ masked => HasSystemctl
  /\ wpc \in Applying \cup {"choose", "extract"} /\ HasSystemctl => masked
  /\ wpc \in {"unhold", "unflag"} => ~masked
  /\ wpc \in Idle \cup {"begin"} /\ masked =>
       lastStatus \in {"started", "noUpdate", "extractFailed"}

\* What the worker published last, where the code relies on it.
StatusInv ==
  /\ wpc \in Leaving => lastStatus \in {"noUpdate", "extractFailed"}
  /\ wpc = "leaveMark" => lastStatus = "extractFailed"
  /\ wpc \notin Idle \cup {"begin"} => lastStatus # "started"
  /\ wpc \in {"cleanup", "sweep"} => lastStatus = "complete"

\* A service that runs behind the stop was started by the booting main thread.
QuietInv ==
  wpc \in Applying \cup {"mask", "choose", "extract"} /\ HasSystemctl /\ running => raced

\* A failure is noted no earlier than it is published.
RestInv ==
  wpc \notin Leaving \/ lastStatus = "noUpdate" => failAge <= rest

SourceInv ==
  /\ wpc \in Applying => source \in Sources
  /\ wpc = "extract" => source \in Zips
  /\ wpc = "sweep" => source \in Dirs

\* The stages that lie behind the worker.
Position == [apt |-> 0, deb |-> 1, bin |-> 2, stm |-> 3,
             decide |-> 4, cleanup |-> 4, sweep |-> 4]

Passed(at) == {stage \in Stages : Position[stage] < Position[at]}

\* The files taken on are where the stages look for them, and as long as
\* nothing failed those of the stages behind were worked through.
TakenInv ==
  /\ wpc \in Stages \cup {"decide", "cleanup"} => taken \subseteq content[source]
  /\ wpc \in Stages \cup {"decide"} /\ source \in Zips => taken \subseteq temp
  /\ wpc \in Applying /\ ok => \A f \in taken : Kind[f] \in Passed(wpc) => f \in handled
  /\ wpc \in {"cleanup", "sweep"} => ok

\* The cleanup of a directory has every file taken on ahead of it, and of
\* other sources only zips that lie there.
SweepInv ==
  /\ wpc = "sweep" => \A z \in togo \cap Zips : Home[z] = source
  /\ wpc = "sweep" /\ ~CleanupCanFail => taken \cap content[source] \subseteq togo
  /\ wpc \in {"unmask", "reboot"} /\ ~CleanupCanFail => taken \cap content[source] = {}

ControlInv ==
  FlagInv /\ HoldInv /\ MaskInv /\ StatusInv /\ QuietInv /\ RestInv

IInv == /\ TypeOK /\ FlagInv /\ HoldInv /\ MaskInv /\ StatusInv /\ QuietInv
        /\ RestInv /\ SourceInv /\ TakenInv /\ SweepInv

-----------------------------------------------------------------------------
(***************************************************************************)
(* Type correctness.                                                       *)
(***************************************************************************)

LEMMA InitIsTyped == Init => TypeOK
<1>1. Init => FlagsTyped
    BY Zenon DEF Init, FlagsTyped
<1>2. Init => DataTyped
    BY SourcesAssumption, FilesAssumption, BoundsAssumption
    DEF Init, DataTyped, Control, Statuses
<1> QED
    BY <1>1, <1>2 DEF TypeOK

\* The flags stay Boolean.
LEMMA StepKeepsFlagsTyped == FlagsTyped /\ [Next]_vars => FlagsTyped'
<1> SUFFICES ASSUME FlagsTyped, [Next]_vars PROVE FlagsTyped'
    OBVIOUS
<1> USE DEF FlagsTyped, requestVars, failVars, serviceVars, userVars, runVars,
            historyVars, worldVars
<1>1. CASE Wake
    BY <1>1, Zenon DEF Wake
<1>2. CASE Poll
    BY <1>2, Zenon DEF Poll
<1>3. CASE Begin
    BY <1>3, Zenon DEF Begin
<1>4. CASE EnsureHoldFile
    BY <1>4, Zenon DEF EnsureHoldFile
<1>5. CASE StopServices
    BY <1>5, Zenon DEF StopServices
<1>6. CASE MaskServices
    BY <1>6, Zenon DEF MaskServices
<1>7. CASE ChooseNone
    BY <1>7, Zenon DEF ChooseNone
<1>8. CASE ChooseZip
    BY <1>8, Zenon DEF ChooseZip
<1>9. CASE ChooseDir
    BY <1>9, Zenon DEF ChooseDir, TakeOn
<1>10. CASE ExtractZip
    BY <1>10, Zenon DEF ExtractZip, TakeOn
<1>11. CASE ExtractFails
    BY <1>11, Zenon DEF ExtractFails
<1>12. CASE LeaveFlag
    BY <1>12, Zenon DEF LeaveFlag
<1>13. CASE LeaveHold
    BY <1>13, Zenon DEF LeaveHold
<1>14. CASE LeaveMark
    BY <1>14, Zenon DEF LeaveMark
<1>15. CASE Succeed
    BY <1>15, Zenon DEF Succeed
<1>16. CASE Fail
    BY <1>16, Zenon DEF Fail
<1>17. CASE CleanupZip
    BY <1>17, Zenon DEF CleanupZip
<1>18. CASE CleanupDir
    BY <1>18, Zenon DEF CleanupDir
<1>19. CASE Sweep
    BY <1>19, Zenon DEF Sweep
<1>20. CASE SweepDone
    BY <1>20, Zenon DEF SweepDone
<1>21. CASE UnmaskAfterSuccess
    BY <1>21, Zenon DEF UnmaskAfterSuccess
<1>22. CASE RebootAfterUpdate
    BY <1>22, Zenon DEF RebootAfterUpdate
<1>23. CASE UnmaskServices
    BY <1>23, Zenon DEF UnmaskServices
<1>24. CASE RemoveHoldFile
    BY <1>24, Zenon DEF RemoveHoldFile
<1>25. CASE EndRun
    BY <1>25, Zenon DEF EndRun
<1>26. CASE StartServices
    BY <1>26, Zenon DEF StartServices
<1>27. CASE HandleUpdateRequest
    BY <1>27, Zenon DEF HandleUpdateRequest
<1>28. CASE Tick
    BY <1>28, Zenon DEF Tick
<1>29. CASE DaemonRestart
    BY <1>29, Zenon DEF DaemonRestart, ForgetMemory
<1>30. CASE Reboot
    BY <1>30, Zenon DEF Reboot, ForgetMemory
<1>31. ASSUME NEW stage \in Stages, ApplyStage(stage)
      PROVE FlagsTyped'
    BY <1>31, Zenon DEF ApplyStage, StageOk, StageChanged
<1>32. ASSUME NEW z \in Zips, NEW files \in SUBSET Files, WriteZip(z, files)
      PROVE FlagsTyped'
    BY <1>32, Zenon DEF WriteZip, Touch
<1>33. ASSUME NEW d \in Dirs, NEW f \in Files, CopyFile(d, f)
      PROVE FlagsTyped'
    BY <1>33, Zenon DEF CopyFile, Touch
<1>34. ASSUME NEW d \in Dirs, NEW f \in Files, DeleteFile(d, f)
      PROVE FlagsTyped'
    BY <1>34, Zenon DEF DeleteFile, Touch
<1>35. CASE UNCHANGED vars
    BY <1>35, Zenon DEF vars
<1> QED
    BY <1>1, <1>2, <1>3, <1>4, <1>5, <1>6, <1>7, <1>8, <1>9, <1>10, <1>11,
       <1>12, <1>13, <1>14, <1>15, <1>16, <1>17, <1>18, <1>19, <1>20,
       <1>21, <1>22, <1>23, <1>24, <1>25, <1>26, <1>27, <1>28, <1>29,
       <1>30, <1>31, <1>32, <1>33, <1>34, <1>35
    DEF Next, WorkerStep, MainStep, UserStep

\* No step takes any other variable out of its type.
LEMMA StepKeepsDataTyped == TypeOK /\ SourceInv /\ [Next]_vars => DataTyped'
<1> SUFFICES ASSUME TypeOK, SourceInv, [Next]_vars PROVE DataTyped'
    OBVIOUS
<1> USE SourcesAssumption, FilesAssumption, BoundsAssumption
    DEF TypeOK, DataTyped, Control, Statuses, Goto, SourceInv, Applying,
        requestVars, failVars, serviceVars, userVars, runVars, historyVars,
        worldVars
<1>1. CASE Wake
    BY <1>1 DEF Wake
<1>2. CASE Poll
    BY <1>2 DEF Poll
<1>3. CASE Begin
    BY <1>3 DEF Begin
<1>4. CASE EnsureHoldFile
    BY <1>4 DEF EnsureHoldFile
<1>5. CASE StopServices
    BY <1>5 DEF StopServices
<1>6. CASE MaskServices
    BY <1>6 DEF MaskServices
<1>7. CASE ChooseNone
    BY <1>7 DEF ChooseNone
<1>8. CASE ChooseZip
    BY <1>8 DEF ChooseZip, Sources, Zips
<1>9. CASE ChooseDir
    BY <1>9 DEF ChooseDir, TakeOn, Sources, Dirs
<1>10. CASE ExtractZip
    BY <1>10 DEF ExtractZip, TakeOn, Sources
<1>11. CASE ExtractFails
    BY <1>11 DEF ExtractFails
<1>12. CASE LeaveFlag
    BY <1>12 DEF LeaveFlag
<1>13. CASE LeaveHold
    BY <1>13 DEF LeaveHold
<1>14. CASE LeaveMark
    BY <1>14 DEF LeaveMark
<1>15. CASE Succeed
    BY <1>15 DEF Succeed
<1>16. CASE Fail
    BY <1>16 DEF Fail
<1>17. CASE CleanupZip
    BY <1>17 DEF CleanupZip, RemovalOutcomes
<1>18. CASE CleanupDir
  <2>1. content[source] \in SUBSET Files
      BY <1>18 DEF CleanupDir, Sources
  <2>2. Entries(source) \in SUBSET (Files \cup Zips)
      BY <2>1 DEF Entries
  <2> QED
      BY <1>18, <2>2 DEF CleanupDir
<1>19. CASE Sweep
  <2>1. PICK e \in togo, removed \in BOOLEAN :
           /\ content' = IF ~removed THEN content
                         ELSE IF e \in Zips THEN [content EXCEPT ![e] = {}]
                         ELSE [content EXCEPT ![source] = @ \ {e}]
           /\ togo' = IF removed THEN togo \ {e} ELSE {}
      BY <1>19 DEF Sweep, RemovalOutcomes
  <2>2. content' \in [Sources -> SUBSET Files]
      BY <2>1
  <2>3. togo' \in SUBSET (Files \cup Zips)
      BY <2>1
  <2> QED
      BY <1>19, <2>2, <2>3 DEF Sweep
<1>20. CASE SweepDone
    BY <1>20 DEF SweepDone
<1>21. CASE UnmaskAfterSuccess
    BY <1>21 DEF UnmaskAfterSuccess
<1>22. CASE RebootAfterUpdate
    BY <1>22 DEF RebootAfterUpdate
<1>23. CASE UnmaskServices
    BY <1>23 DEF UnmaskServices
<1>24. CASE RemoveHoldFile
    BY <1>24 DEF RemoveHoldFile
<1>25. CASE EndRun
    BY <1>25 DEF EndRun
<1>26. CASE StartServices
    BY <1>26 DEF StartServices
<1>27. CASE HandleUpdateRequest
    BY <1>27 DEF HandleUpdateRequest
<1>28. CASE Tick
    BY <1>28 DEF Tick, Older
<1>29. CASE DaemonRestart
    BY <1>29 DEF DaemonRestart, ForgetMemory
<1>30. CASE Reboot
    BY <1>30 DEF Reboot, ForgetMemory
<1>31. ASSUME NEW stage \in Stages, ApplyStage(stage)
      PROVE DataTyped'
  <2>1. BaseFiles \in SUBSET Files
      BY <1>31 DEF ApplyStage, BaseFiles, Stages
  <2>2. handled' \in SUBSET Files
      BY <1>31, <2>1 DEF ApplyStage, FilesOf
  <2>3. NextStage[stage] \in Control
      BY DEF NextStage, Stages
  <2> QED
      BY <1>31, <2>2, <2>3 DEF ApplyStage
<1>32. ASSUME NEW z \in Zips, NEW files \in SUBSET Files, WriteZip(z, files)
      PROVE DataTyped'
    BY <1>32 DEF WriteZip, Touch, Sources
<1>33. ASSUME NEW d \in Dirs, NEW f \in Files, CopyFile(d, f)
      PROVE DataTyped'
    BY <1>33 DEF CopyFile, Touch, Sources
<1>34. ASSUME NEW d \in Dirs, NEW f \in Files, DeleteFile(d, f)
      PROVE DataTyped'
    BY <1>34 DEF DeleteFile, Touch, Sources
<1>35. CASE UNCHANGED vars
    BY <1>35 DEF vars
<1> QED
    BY <1>1, <1>2, <1>3, <1>4, <1>5, <1>6, <1>7, <1>8, <1>9, <1>10, <1>11,
       <1>12, <1>13, <1>14, <1>15, <1>16, <1>17, <1>18, <1>19, <1>20,
       <1>21, <1>22, <1>23, <1>24, <1>25, <1>26, <1>27, <1>28, <1>29,
       <1>30, <1>31, <1>32, <1>33, <1>34, <1>35
    DEF Next, WorkerStep, MainStep, UserStep

\* Where the worker uses its source, it has one of the right sort.
LEMMA StepKeepsSource == TypeOK /\ SourceInv /\ [Next]_vars => SourceInv'
<1> SUFFICES ASSUME TypeOK, SourceInv, [Next]_vars PROVE SourceInv'
    OBVIOUS
<1> USE DEF TypeOK, DataTyped, Control, Goto, SourceInv, Applying, Idle,
        requestVars, failVars, serviceVars, userVars, runVars, historyVars,
        worldVars
<1>1. CASE Wake
    BY <1>1 DEF Wake
<1>2. CASE Poll
    BY <1>2 DEF Poll
<1>3. CASE Begin
    BY <1>3 DEF Begin
<1>4. CASE EnsureHoldFile
    BY <1>4 DEF EnsureHoldFile
<1>5. CASE StopServices
    BY <1>5 DEF StopServices
<1>6. CASE MaskServices
    BY <1>6 DEF MaskServices
<1>7. CASE ChooseNone
    BY <1>7 DEF ChooseNone
<1>8. CASE ChooseZip
    BY <1>8 DEF ChooseZip, Sources, Zips
<1>9. CASE ChooseDir
    BY <1>9 DEF ChooseDir, TakeOn, Sources, Dirs
<1>10. CASE ExtractZip
    BY <1>10 DEF ExtractZip, TakeOn, Sources
<1>11. CASE ExtractFails
    BY <1>11 DEF ExtractFails
<1>12. CASE LeaveFlag
    BY <1>12 DEF LeaveFlag
<1>13. CASE LeaveHold
    BY <1>13 DEF LeaveHold
<1>14. CASE LeaveMark
    BY <1>14 DEF LeaveMark
<1>15. CASE Succeed
    BY <1>15 DEF Succeed
<1>16. CASE Fail
    BY <1>16 DEF Fail
<1>17. CASE CleanupZip
    BY <1>17 DEF CleanupZip
<1>18. CASE CleanupDir
    BY <1>18 DEF CleanupDir
<1>19. CASE Sweep
    BY <1>19 DEF Sweep
<1>20. CASE SweepDone
    BY <1>20 DEF SweepDone
<1>21. CASE UnmaskAfterSuccess
    BY <1>21 DEF UnmaskAfterSuccess
<1>22. CASE RebootAfterUpdate
    BY <1>22 DEF RebootAfterUpdate
<1>23. CASE UnmaskServices
    BY <1>23 DEF UnmaskServices
<1>24. CASE RemoveHoldFile
    BY <1>24 DEF RemoveHoldFile
<1>25. CASE EndRun
    BY <1>25 DEF EndRun
<1>26. CASE StartServices
    BY <1>26 DEF StartServices
<1>27. CASE HandleUpdateRequest
    BY <1>27 DEF HandleUpdateRequest
<1>28. CASE Tick
    BY <1>28 DEF Tick
<1>29. CASE DaemonRestart
    BY <1>29 DEF DaemonRestart, ForgetMemory
<1>30. CASE Reboot
    BY <1>30 DEF Reboot, ForgetMemory
<1>31. ASSUME NEW stage \in Stages, ApplyStage(stage)
      PROVE SourceInv'
    BY <1>31 DEF ApplyStage, NextStage, Stages
<1>32. ASSUME NEW z \in Zips, NEW files \in SUBSET Files, WriteZip(z, files)
      PROVE SourceInv'
    BY <1>32 DEF WriteZip, Touch
<1>33. ASSUME NEW d \in Dirs, NEW f \in Files, CopyFile(d, f)
      PROVE SourceInv'
    BY <1>33 DEF CopyFile, Touch
<1>34. ASSUME NEW d \in Dirs, NEW f \in Files, DeleteFile(d, f)
      PROVE SourceInv'
    BY <1>34 DEF DeleteFile, Touch
<1>35. CASE UNCHANGED vars
    BY <1>35 DEF vars
<1> QED
    BY <1>1, <1>2, <1>3, <1>4, <1>5, <1>6, <1>7, <1>8, <1>9, <1>10, <1>11,
       <1>12, <1>13, <1>14, <1>15, <1>16, <1>17, <1>18, <1>19, <1>20,
       <1>21, <1>22, <1>23, <1>24, <1>25, <1>26, <1>27, <1>28, <1>29,
       <1>30, <1>31, <1>32, <1>33, <1>34, <1>35
    DEF Next, WorkerStep, MainStep, UserStep

\* The types and the source go together: what a source holds is typed only
\* where the source is one.
LEMMA StepIsTyped == TypeOK /\ SourceInv /\ [Next]_vars => TypeOK' /\ SourceInv'
  BY StepKeepsFlagsTyped, StepKeepsDataTyped, StepKeepsSource DEF TypeOK

LEMMA InitHasSource == Init => SourceInv
  BY DEF Init, SourceInv, Applying

\* Every reachable state is well typed, for any number of sources and files.
THEOREM TypeCorrect == Spec => []TypeOK
<1>1. Init => TypeOK /\ SourceInv
    BY InitIsTyped, InitHasSource
<1>2. TypeOK /\ SourceInv /\ [Next]_vars => (TypeOK /\ SourceInv)'
    BY StepIsTyped
<1> QED
    BY <1>1, <1>2, PTL DEF Spec

-----------------------------------------------------------------------------
(***************************************************************************)
(* The invariant of the worker's control state.                            *)
(***************************************************************************)

LEMMA InitIsControlled == Init => ControlInv
  BY BoundsAssumption
  DEF Init, ControlInv, FlagInv, HoldInv, MaskInv, StatusInv, QuietInv, RestInv,
      Idle, Applying, Leaving

\* Every step of every thread keeps the flags, the hold file, the masks and the
\* published status in step with the worker's place in the code.
LEMMA StepKeepsControl == TypeOK /\ ControlInv /\ [Next]_vars => ControlInv'
<1> SUFFICES ASSUME TypeOK, ControlInv, [Next]_vars PROVE ControlInv'
    OBVIOUS
<1> USE BoundsAssumption
    DEF TypeOK, FlagsTyped, DataTyped, Control, Statuses, Goto, BackedOff,
        ControlInv, FlagInv, HoldInv, MaskInv, StatusInv, QuietInv, RestInv,
        Idle, Applying, Leaving,
        requestVars, failVars, serviceVars, userVars, runVars, historyVars,
        worldVars
<1>1. CASE Wake
    BY <1>1 DEF Wake
<1>2. CASE Poll
    BY <1>2 DEF Poll
<1>3. CASE Begin
    BY <1>3 DEF Begin
<1>4. CASE EnsureHoldFile
    BY <1>4 DEF EnsureHoldFile
<1>5. CASE StopServices
    BY <1>5 DEF StopServices
<1>6. CASE MaskServices
    BY <1>6 DEF MaskServices
<1>7. CASE ChooseNone
    BY <1>7 DEF ChooseNone
<1>8. CASE ChooseZip
    BY <1>8 DEF ChooseZip
<1>9. CASE ChooseDir
    BY <1>9 DEF ChooseDir, TakeOn
<1>10. CASE ExtractZip
    BY <1>10 DEF ExtractZip, TakeOn
<1>11. CASE ExtractFails
    BY <1>11 DEF ExtractFails
<1>12. CASE LeaveFlag
    BY <1>12 DEF LeaveFlag
<1>13. CASE LeaveHold
    BY <1>13 DEF LeaveHold
<1>14. CASE LeaveMark
    BY <1>14 DEF LeaveMark
<1>15. CASE Succeed
    BY <1>15 DEF Succeed
<1>16. CASE Fail
    BY <1>16 DEF Fail
<1>17. CASE CleanupZip
    BY <1>17 DEF CleanupZip
<1>18. CASE CleanupDir
    BY <1>18 DEF CleanupDir
<1>19. CASE Sweep
    BY <1>19 DEF Sweep
<1>20. CASE SweepDone
    BY <1>20 DEF SweepDone
<1>21. CASE UnmaskAfterSuccess
    BY <1>21 DEF UnmaskAfterSuccess
<1>22. CASE RebootAfterUpdate
    BY <1>22 DEF RebootAfterUpdate
<1>23. CASE UnmaskServices
    BY <1>23 DEF UnmaskServices
<1>24. CASE RemoveHoldFile
    BY <1>24 DEF RemoveHoldFile
<1>25. CASE EndRun
    BY <1>25 DEF EndRun
<1>26. CASE StartServices
    BY <1>26 DEF StartServices
<1>27. CASE HandleUpdateRequest
    BY <1>27 DEF HandleUpdateRequest
<1>28. CASE Tick
    BY <1>28 DEF Tick, Older
<1>29. CASE DaemonRestart
    BY <1>29 DEF DaemonRestart, ForgetMemory
<1>30. CASE Reboot
    BY <1>30 DEF Reboot, ForgetMemory
<1>31. ASSUME NEW stage \in Stages, ApplyStage(stage)
      PROVE ControlInv'
    BY <1>31 DEF ApplyStage, NextStage, Stages
<1>32. ASSUME NEW z \in Zips, NEW files \in SUBSET Files, WriteZip(z, files)
      PROVE ControlInv'
    BY <1>32 DEF WriteZip, Touch
<1>33. ASSUME NEW d \in Dirs, NEW f \in Files, CopyFile(d, f)
      PROVE ControlInv'
    BY <1>33 DEF CopyFile, Touch
<1>34. ASSUME NEW d \in Dirs, NEW f \in Files, DeleteFile(d, f)
      PROVE ControlInv'
    BY <1>34 DEF DeleteFile, Touch
<1>35. CASE UNCHANGED vars
    BY <1>35 DEF vars
<1> QED
    BY <1>1, <1>2, <1>3, <1>4, <1>5, <1>6, <1>7, <1>8, <1>9, <1>10, <1>11,
       <1>12, <1>13, <1>14, <1>15, <1>16, <1>17, <1>18, <1>19, <1>20,
       <1>21, <1>22, <1>23, <1>24, <1>25, <1>26, <1>27, <1>28, <1>29,
       <1>30, <1>31, <1>32, <1>33, <1>34, <1>35
    DEF Next, WorkerStep, MainStep, UserStep



-----------------------------------------------------------------------------
(***************************************************************************)
(* The invariant of the run's files.                                       *)
(***************************************************************************)

LEMMA InitHasFiles == Init => TakenInv /\ SweepInv
  BY DEF Init, TakenInv, SweepInv, Applying, Stages

\* The files taken on stay where the stages look for them, and a stage that
\* leaves the run sound has worked through all of its own.
LEMMA StepKeepsTaken == TypeOK /\ SourceInv /\ TakenInv /\ [Next]_vars => TakenInv'
<1> SUFFICES ASSUME TypeOK, SourceInv, TakenInv, [Next]_vars PROVE TakenInv'
    OBVIOUS
<1> USE FilesAssumption
    DEF TypeOK, DataTyped, Control, Goto, SourceInv, TakenInv, Passed, Position,
        Applying, Stages,
        requestVars, failVars, serviceVars, userVars, runVars, historyVars,
        worldVars
<1>1. CASE Wake
    BY <1>1 DEF Wake
<1>2. CASE Poll
    BY <1>2 DEF Poll
<1>3. CASE Begin
    BY <1>3 DEF Begin
<1>4. CASE EnsureHoldFile
    BY <1>4 DEF EnsureHoldFile
<1>5. CASE StopServices
    BY <1>5 DEF StopServices
<1>6. CASE MaskServices
    BY <1>6 DEF MaskServices
<1>7. CASE ChooseNone
    BY <1>7 DEF ChooseNone
<1>8. CASE ChooseZip
    BY <1>8 DEF ChooseZip, IsFound
<1>9. CASE ChooseDir
    BY <1>9, SourcesAssumption DEF ChooseDir, TakeOn, Sources, Dirs, Zips
<1>10. CASE ExtractZip
    BY <1>10 DEF ExtractZip, TakeOn, Sources
<1>11. CASE ExtractFails
    BY <1>11 DEF ExtractFails
<1>12. CASE LeaveFlag
    BY <1>12 DEF LeaveFlag
<1>13. CASE LeaveHold
    BY <1>13 DEF LeaveHold
<1>14. CASE LeaveMark
    BY <1>14 DEF LeaveMark
<1>15. CASE Succeed
    BY <1>15 DEF Succeed
<1>16. CASE Fail
    BY <1>16 DEF Fail
<1>17. CASE CleanupZip
    BY <1>17 DEF CleanupZip
<1>18. CASE CleanupDir
    BY <1>18 DEF CleanupDir
<1>19. CASE Sweep
    BY <1>19 DEF Sweep
<1>20. CASE SweepDone
    BY <1>20 DEF SweepDone
<1>21. CASE UnmaskAfterSuccess
    BY <1>21 DEF UnmaskAfterSuccess
<1>22. CASE RebootAfterUpdate
    BY <1>22 DEF RebootAfterUpdate
<1>23. CASE UnmaskServices
    BY <1>23 DEF UnmaskServices
<1>24. CASE RemoveHoldFile
    BY <1>24 DEF RemoveHoldFile
<1>25. CASE EndRun
    BY <1>25 DEF EndRun
<1>26. CASE StartServices
    BY <1>26 DEF StartServices
<1>27. CASE HandleUpdateRequest
    BY <1>27 DEF HandleUpdateRequest
<1>28. CASE Tick
    BY <1>28 DEF Tick
<1>29. CASE DaemonRestart
    BY <1>29 DEF DaemonRestart, ForgetMemory
<1>30. CASE Reboot
    BY <1>30 DEF Reboot, ForgetMemory
<1>31. ASSUME NEW stage \in Stages, ApplyStage(stage)
      PROVE TakenInv'
  <2>1. PICK done \in SUBSET FilesOf(stage) :
           handled' = handled \cup done /\ ok' = StageOk(stage, done)
      BY <1>31 DEF ApplyStage
  <2>2. /\ wpc = stage /\ wpc' = NextStage[stage]
        /\ UNCHANGED <<source, temp, content, taken>>
      BY <1>31 DEF ApplyStage
  <2>3. taken \subseteq BaseFiles
      BY <2>2 DEF BaseFiles
  <2>4. ASSUME ok', NEW f \in taken, Kind[f] \in Passed(wpc')
        PROVE  f \in handled'
    <3>1. Kind[f] = stage \/ Kind[f] \in Passed(stage)
        BY <2>2, <2>4 DEF NextStage
    <3>2. CASE Kind[f] = stage
        BY <2>1, <2>3, <2>4, <3>2 DEF StageOk, FilesOf
    <3>3. CASE Kind[f] \in Passed(stage)
        BY <2>1, <2>2, <2>4, <3>3 DEF StageOk
    <3> QED
        BY <3>1, <3>2, <3>3
  <2>5. wpc' \in Stages \cup {"decide"}
      BY <2>2 DEF NextStage
  <2> QED
      BY <2>2, <2>4, <2>5
<1>32. ASSUME NEW z \in Zips, NEW files \in SUBSET Files, WriteZip(z, files)
      PROVE TakenInv'
    BY <1>32 DEF WriteZip, Touch, Sources
<1>33. ASSUME NEW d \in Dirs, NEW f \in Files, CopyFile(d, f)
      PROVE TakenInv'
    BY <1>33 DEF CopyFile, Touch, Sources
<1>34. ASSUME NEW d \in Dirs, NEW f \in Files, DeleteFile(d, f)
      PROVE TakenInv'
    BY <1>34 DEF DeleteFile, Touch, Sources
<1>35. CASE UNCHANGED vars
    BY <1>35 DEF vars
<1> QED
    BY <1>1, <1>2, <1>3, <1>4, <1>5, <1>6, <1>7, <1>8, <1>9, <1>10, <1>11,
       <1>12, <1>13, <1>14, <1>15, <1>16, <1>17, <1>18, <1>19, <1>20,
       <1>21, <1>22, <1>23, <1>24, <1>25, <1>26, <1>27, <1>28, <1>29,
       <1>30, <1>31, <1>32, <1>33, <1>34, <1>35
    DEF Next, WorkerStep, MainStep, UserStep

\* The cleanup of a directory never loses sight of a file the run took on.
LEMMA StepKeepsSweep == TypeOK /\ SourceInv /\ TakenInv /\ SweepInv /\ [Next]_vars => SweepInv'
<1> SUFFICES ASSUME TypeOK, SourceInv, TakenInv, SweepInv, [Next]_vars PROVE SweepInv'
    OBVIOUS
<1> USE SourcesAssumption, FilesAssumption
    DEF TypeOK, DataTyped, Control, Goto, SourceInv, TakenInv, SweepInv,
        Applying, Stages,
        requestVars, failVars, serviceVars, userVars, runVars, historyVars,
        worldVars
<1>1. CASE Wake
    BY <1>1 DEF Wake
<1>2. CASE Poll
    BY <1>2 DEF Poll
<1>3. CASE Begin
    BY <1>3 DEF Begin
<1>4. CASE EnsureHoldFile
    BY <1>4 DEF EnsureHoldFile
<1>5. CASE StopServices
    BY <1>5 DEF StopServices
<1>6. CASE MaskServices
    BY <1>6 DEF MaskServices
<1>7. CASE ChooseNone
    BY <1>7 DEF ChooseNone
<1>8. CASE ChooseZip
    BY <1>8 DEF ChooseZip
<1>9. CASE ChooseDir
    BY <1>9 DEF ChooseDir, TakeOn
<1>10. CASE ExtractZip
    BY <1>10 DEF ExtractZip, TakeOn
<1>11. CASE ExtractFails
    BY <1>11 DEF ExtractFails
<1>12. CASE LeaveFlag
    BY <1>12 DEF LeaveFlag
<1>13. CASE LeaveHold
    BY <1>13 DEF LeaveHold
<1>14. CASE LeaveMark
    BY <1>14 DEF LeaveMark
<1>15. CASE Succeed
    BY <1>15 DEF Succeed
<1>16. CASE Fail
    BY <1>16 DEF Fail
<1>17. CASE CleanupZip
    BY <1>17 DEF CleanupZip, RemovalOutcomes, Sources
<1>18. CASE CleanupDir
    BY <1>18 DEF CleanupDir, Entries, Sources
<1>19. CASE Sweep
  <2>1. PICK e \in togo, removed \in RemovalOutcomes :
           /\ content' = IF ~removed THEN content
                         ELSE IF e \in Zips THEN [content EXCEPT ![e] = {}]
                         ELSE [content EXCEPT ![source] = @ \ {e}]
           /\ togo' = IF removed THEN togo \ {e} ELSE {}
      BY <1>19 DEF Sweep
  <2>2. UNCHANGED <<wpc, source, taken>> /\ wpc = "sweep"
      BY <1>19 DEF Sweep
  <2>3. \A z \in togo' \cap Zips : Home[z] = source
      BY <2>1, <2>2
  <2>4. ASSUME ~CleanupCanFail
        PROVE  taken \cap content'[source] \subseteq togo'
    <3>1. removed
        BY <2>4 DEF RemovalOutcomes
    <3>2. source \in Sources /\ source \notin Zips
        BY <2>2 DEF Sources, Dirs, Zips
    <3>3. taken \cap Zips = {}
        BY DEF Sources
    <3> QED
        BY <2>1, <2>2, <2>4, <3>1, <3>2, <3>3
  <2> QED
      BY <2>2, <2>3, <2>4
<1>20. CASE SweepDone
    BY <1>20 DEF SweepDone
<1>21. CASE UnmaskAfterSuccess
    BY <1>21 DEF UnmaskAfterSuccess
<1>22. CASE RebootAfterUpdate
    BY <1>22 DEF RebootAfterUpdate
<1>23. CASE UnmaskServices
    BY <1>23 DEF UnmaskServices
<1>24. CASE RemoveHoldFile
    BY <1>24 DEF RemoveHoldFile
<1>25. CASE EndRun
    BY <1>25 DEF EndRun
<1>26. CASE StartServices
    BY <1>26 DEF StartServices
<1>27. CASE HandleUpdateRequest
    BY <1>27 DEF HandleUpdateRequest
<1>28. CASE Tick
    BY <1>28 DEF Tick
<1>29. CASE DaemonRestart
    BY <1>29 DEF DaemonRestart, ForgetMemory
<1>30. CASE Reboot
    BY <1>30 DEF Reboot, ForgetMemory
<1>31. ASSUME NEW stage \in Stages, ApplyStage(stage)
      PROVE SweepInv'
    BY <1>31 DEF ApplyStage, NextStage
<1>32. ASSUME NEW z \in Zips, NEW files \in SUBSET Files, WriteZip(z, files)
      PROVE SweepInv'
    BY <1>32 DEF WriteZip, Touch, Sources
<1>33. ASSUME NEW d \in Dirs, NEW f \in Files, CopyFile(d, f)
      PROVE SweepInv'
    BY <1>33 DEF CopyFile, Touch, Sources
<1>34. ASSUME NEW d \in Dirs, NEW f \in Files, DeleteFile(d, f)
      PROVE SweepInv'
    BY <1>34 DEF DeleteFile, Touch, Sources
<1>35. CASE UNCHANGED vars
    BY <1>35 DEF vars
<1> QED
    BY <1>1, <1>2, <1>3, <1>4, <1>5, <1>6, <1>7, <1>8, <1>9, <1>10, <1>11,
       <1>12, <1>13, <1>14, <1>15, <1>16, <1>17, <1>18, <1>19, <1>20,
       <1>21, <1>22, <1>23, <1>24, <1>25, <1>26, <1>27, <1>28, <1>29,
       <1>30, <1>31, <1>32, <1>33, <1>34, <1>35
    DEF Next, WorkerStep, MainStep, UserStep


-----------------------------------------------------------------------------
(***************************************************************************)
(* What holds of every behaviour.                                          *)
(***************************************************************************)

LEMMA InitHasInvariant == Init => IInv
  BY InitIsTyped, InitIsControlled, InitHasSource, InitHasFiles DEF IInv, ControlInv

LEMMA StepKeepsInvariant == IInv /\ [Next]_vars => IInv'
  BY StepIsTyped, StepKeepsControl, StepKeepsTaken, StepKeepsSweep DEF IInv, ControlInv

LEMMA Invariance == Spec => []IInv
  BY InitHasInvariant, StepKeepsInvariant, PTL DEF Spec

\* Whatever the restarts, requests and copies: a payload is applied and cleaned
\* up only with the update flagged, the hold file there and the services masked.
THEOREM ApplyProtected == Spec => []ApplyIsProtected
<1>1. IInv => ApplyIsProtected
    BY DEF IInv, FlagInv, HoldInv, MaskInv, ApplyIsProtected, Idle, Applying
<1> QED
    BY Invariance, <1>1, PTL

\* Only the main thread, starting services between the worker's stop and its
\* mask, lets a payload be applied under a running OpenHD.
THEOREM ApplyIsQuiet == Spec => []QuietApply
<1>1. IInv => QuietApply
    BY DEF IInv, QuietInv, QuietApply
<1> QED
    BY Invariance, <1>1, PTL

\* Between runs no flag, no hold file and no mask is left, but for the early
\* returns of run_update() and for runs a restart cut short.
THEOREM RunsTidyUp == Spec => []NothingLeftBehind
<1>1. IInv => NothingLeftBehind
    BY DEF IInv, FlagInv, HoldInv, MaskInv, NothingLeftBehind, Idle
<1> QED
    BY Invariance, <1>1, PTL

\* When the reboot comes, the applied files are gone from their source.
THEOREM RebootsOnce == Spec => []NoRebootLoop
<1>1. IInv => NoRebootLoop
    BY DEF IInv, SweepInv, NoRebootLoop
<1> QED
    BY Invariance, <1>1, PTL

\* No run starts before the backoff of the last published failure is over.
THEOREM BackoffHolds == Spec => NoRetryStorm
<1>1. IInv /\ [Next]_vars =>
        [wpc = "poll" /\ wpc' = "begin" => rest = BackoffSeconds]_vars
  <2> SUFFICES ASSUME IInv, [Next]_vars, wpc = "poll", wpc' = "begin"
               PROVE  rest = BackoffSeconds
      OBVIOUS
  <2>1. failAge <= rest
      BY DEF IInv, RestInv, Leaving
  <2>2. BackedOff
      BY DEF Next, WorkerStep, MainStep, UserStep, Goto, vars, historyVars, worldVars,
             Wake, Poll, Begin, EnsureHoldFile, StopServices, MaskServices,
             ChooseNone, ChooseZip, ChooseDir, ExtractZip, ExtractFails,
             LeaveFlag, LeaveHold, LeaveMark, ApplyStage, Stages, Succeed, Fail,
             CleanupZip, CleanupDir, Sweep, SweepDone, UnmaskAfterSuccess,
             RebootAfterUpdate, UnmaskServices, RemoveHoldFile, EndRun,
             StartServices, HandleUpdateRequest, WriteZip, CopyFile, DeleteFile,
             Touch, Tick, DaemonRestart, Reboot, ForgetMemory
  <2> QED
      BY <2>1, <2>2, BoundsAssumption DEF IInv, TypeOK, DataTyped, BackedOff
<1> QED
    BY Invariance, <1>1, PTL DEF Spec, NoRetryStorm


-----------------------------------------------------------------------------
(***************************************************************************)
(* The store and the promise.                                              *)
(***************************************************************************)

\* Only two steps of the worker change what a source holds.
LEMMA OnlyCleanupRemoves ==
  [Next]_vars /\ content' # content /\ arrivals' = arrivals /\ TypeOK
    => CleanupZip \/ Sweep
  BY DEF TypeOK, DataTyped, Next, WorkerStep, MainStep, UserStep, Goto, vars,
         userVars, worldVars, Wake, Poll, Begin, EnsureHoldFile, StopServices, MaskServices,
         ChooseNone, ChooseZip, ChooseDir, ExtractZip, ExtractFails,
         LeaveFlag, LeaveHold, LeaveMark, ApplyStage, Succeed, Fail,
         CleanupDir, SweepDone, UnmaskAfterSuccess, RebootAfterUpdate,
         UnmaskServices, RemoveHoldFile, EndRun, StartServices,
         HandleUpdateRequest, WriteZip, CopyFile, DeleteFile, Touch, Tick,
         DaemonRestart, Reboot, ForgetMemory

\* A failed, interrupted or empty run loses no payload: only a run in which
\* every stage succeeded removes files, and only those it worked through.
THEOREM NoPayloadIsLost == Spec => RemovesOnlyWhatItApplied
<1>1. IInv /\ [Next]_vars => [RemovalIsEarned]_vars
  <2> SUFFICES ASSUME IInv, [Next]_vars, NEW s \in Sources,
                      content'[s] # content[s], arrivals' = arrivals
               PROVE  /\ ok /\ lastStatus = "complete"
                      /\ s = source \/ (s \in Zips /\ Home[s] = source)
                      /\ \A f \in taken \cap (content[source] \ content'[source]) :
                           Kind[f] \in Stages => f \in handled
      BY DEF RemovalIsEarned
  <2>1. CleanupZip \/ Sweep
      BY OnlyCleanupRemoves DEF IInv
  <2>2. wpc \in {"cleanup", "sweep"}
      BY <2>1 DEF CleanupZip, Sweep, Goto
  <2>3. ok /\ lastStatus = "complete"
      BY <2>2 DEF IInv, TakenInv, StatusInv
  <2>4. s = source \/ (s \in Zips /\ Home[s] = source)
    <3>1. CASE CleanupZip
        BY <3>1, <2>2 DEF CleanupZip, RemovalOutcomes, IInv, TypeOK, DataTyped
    <3>2. CASE Sweep
      <4>1. wpc = "sweep"
          BY <3>2 DEF Sweep
      <4>2. PICK e \in togo : \/ content' = content
                             \/ (e \in Zips /\ content' = [content EXCEPT ![e] = {}])
                             \/ content' = [content EXCEPT ![source] = @ \ {e}]
          BY <3>2 DEF Sweep
      <4>3. e \in Zips => Home[e] = source
          BY <4>1, <4>2 DEF IInv, SweepInv
      <4> QED
          BY <4>2, <4>3 DEF IInv, TypeOK, DataTyped
    <3> QED
        BY <2>1, <3>1, <3>2
  <2>5. \A f \in taken : Kind[f] \in Stages => f \in handled
      BY <2>2, <2>3 DEF IInv, TakenInv, Applying, Passed, Position, Stages
  <2> QED
      BY <2>3, <2>4, <2>5
<1> QED
    BY Invariance, <1>1, PTL DEF Spec, RemovesOnlyWhatItApplied

\* What UpdatePromise sees of a state, spelled out for the provers.
LEMMA PromiseInitial == Init => Promise!PromiseInit
  BY DEF Init, Promise!PromiseInit, PromisePhase, Custody, Working, Stages, Applying

\* Every step of the daemon is a step of the promise, or one it does not see.
LEMMA StepKeepsPromise ==
  IInv /\ [Next]_vars => [Promise!PromiseNext]_(Promise!promiseVars)
<1> SUFFICES ASSUME IInv, [Next]_vars
             PROVE  Promise!PromiseNext \/ UNCHANGED Promise!promiseVars
    OBVIOUS
<1> USE DEF IInv, StatusInv, Goto, PromisePhase, Custody, Working, Applying, Stages,
        Idle, Promise!Resting, Promise!promiseVars, requestVars, failVars, serviceVars, userVars,
        runVars, historyVars, worldVars
<1>1. Wake => UNCHANGED Promise!promiseVars
    BY DEF Wake
<1>2. Poll => UNCHANGED Promise!promiseVars
    BY DEF Poll
<1>3. Begin => Promise!Start
    BY DEF Begin, Promise!Start
<1>4. EnsureHoldFile => UNCHANGED Promise!promiseVars
    BY DEF EnsureHoldFile
<1>5. StopServices => UNCHANGED Promise!promiseVars
    BY DEF StopServices
<1>6. MaskServices => UNCHANGED Promise!promiseVars
    BY DEF MaskServices
<1>7. ChooseNone => Promise!GiveUp
    BY DEF ChooseNone, Promise!GiveUp
<1>8. ChooseZip => Promise!TakeCustody
    BY DEF ChooseZip, Sources, Promise!TakeCustody
<1>9. ChooseDir => Promise!TakeCustody
    BY DEF ChooseDir, TakeOn, Sources, Promise!TakeCustody
<1>10. ExtractZip => Promise!TakeCustody
    BY DEF ExtractZip, TakeOn, Sources, SourceInv, Promise!TakeCustody
<1>11. ExtractFails => Promise!GiveUp
    BY DEF ExtractFails, Promise!GiveUp
<1>12. LeaveFlag => UNCHANGED Promise!promiseVars
    BY DEF LeaveFlag
<1>13. LeaveHold => UNCHANGED Promise!promiseVars
    BY DEF LeaveHold
<1>14. LeaveMark => UNCHANGED Promise!promiseVars
    BY DEF LeaveMark
<1>15. Succeed => Promise!Commit
    BY DEF Succeed, TakenInv, Applying, Passed, Position, Stages,
         Promise!Commit
<1>16. Fail => Promise!GiveUp
    BY DEF Fail, Promise!GiveUp
<1>17. CleanupZip => Promise!Discard
    BY DEF CleanupZip, RemovalOutcomes, TypeOK, DataTyped, Promise!Discard
<1>18. CleanupDir => UNCHANGED Promise!promiseVars
    BY DEF CleanupDir
<1>19. Sweep => Promise!Discard
    BY DEF Sweep, TypeOK, DataTyped, Promise!Discard
<1>20. SweepDone => UNCHANGED Promise!promiseVars
    BY DEF SweepDone
<1>21. UnmaskAfterSuccess => Promise!Complete
    BY DEF UnmaskAfterSuccess, SweepInv, Promise!Complete
<1>22. RebootAfterUpdate => UNCHANGED Promise!promiseVars
    BY DEF RebootAfterUpdate
<1>23. UnmaskServices => UNCHANGED Promise!promiseVars
    BY DEF UnmaskServices
<1>24. RemoveHoldFile => UNCHANGED Promise!promiseVars
    BY DEF RemoveHoldFile
<1>25. EndRun => UNCHANGED Promise!promiseVars
    BY DEF EndRun
<1>26. StartServices => UNCHANGED Promise!promiseVars
    BY DEF StartServices
<1>27. HandleUpdateRequest => UNCHANGED Promise!promiseVars
    BY DEF HandleUpdateRequest
<1>28. Tick => UNCHANGED Promise!promiseVars
    BY DEF Tick
<1>29. DaemonRestart => Promise!Restart
    BY DEF DaemonRestart, ForgetMemory, Promise!Restart
<1>30. Reboot => Promise!Restart
    BY DEF Reboot, ForgetMemory, Promise!Restart
<1>31. ASSUME NEW stage \in Stages, ApplyStage(stage)
      PROVE Promise!Work
    BY <1>31 DEF ApplyStage, NextStage, Stages, Promise!Work
<1>32. ASSUME NEW z \in Zips, NEW files \in SUBSET Files, WriteZip(z, files)
      PROVE Promise!Owner
    BY <1>32 DEF WriteZip, Touch, Sources, TypeOK, DataTyped, Promise!Owner
<1>33. ASSUME NEW d \in Dirs, NEW f \in Files, CopyFile(d, f)
      PROVE Promise!Owner
    BY <1>33 DEF CopyFile, Touch, Sources, TypeOK, DataTyped, Promise!Owner
<1>34. ASSUME NEW d \in Dirs, NEW f \in Files, DeleteFile(d, f)
      PROVE Promise!Owner
    BY <1>34 DEF DeleteFile, Touch, Sources, TypeOK, DataTyped, Promise!Owner
<1>35. UNCHANGED vars => UNCHANGED Promise!promiseVars
    BY DEF vars
<1> QED
    BY <1>1, <1>2, <1>3, <1>4, <1>5, <1>6, <1>7, <1>8, <1>9, <1>10, <1>11,
       <1>12, <1>13, <1>14, <1>15, <1>16, <1>17, <1>18, <1>19, <1>20,
       <1>21, <1>22, <1>23, <1>24, <1>25, <1>26, <1>27, <1>28, <1>29,
       <1>30, <1>31, <1>32, <1>33, <1>34, <1>35
    DEF Next, WorkerStep, MainStep, UserStep, Promise!PromiseNext

\* The worker implements the abstract update service of UpdatePromise.
THEOREM WorkerKeepsPromise == Spec => PromiseKept
  BY PromiseInitial, StepKeepsPromise, Invariance, PTL
  DEF Spec, PromiseKept, Promise!PromiseSpec
=============================================================================
