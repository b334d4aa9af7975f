------------------------ MODULE BrowserLifecycle_proofs ------------------------
(***************************************************************************)
(* Proofs about BrowserLifecycle, for any set of browsers, any workers and *)
(* any cap.  First types, then one inductive invariant per safety property.*)
(***************************************************************************)
EXTENDS BrowserLifecycle, FiniteSetTheorems, TLAPS

\* The values of the stages are told apart by their names alone, so these are always expanded.
USE DEF Status, StartStage, StopStage, HealStage, DeleteStage, SaveStage, MoveStage, ReapStage,
        ExportStage

-------------------------------------------------------------------------------
(* Types. *)

LEMMA InitTypeOK == Init => TypeOK
<1> SUFFICES ASSUME Init PROVE TypeOK
    OBVIOUS
<1>1. /\ row \in [Browsers -> Status] /\ before \in [Browsers -> Status]
      /\ runtime \in [Browsers -> {"none", "live", "exited"}]
    BY DEF Init, Status
<1>2. /\ proxies \in [Browsers -> BOOLEAN]
      /\ unhealthy \in [Browsers -> BOOLEAN]
      /\ reserved \in [Browsers -> BOOLEAN]
    BY DEF Init
<1> QED BY <1>1, <1>2 DEF Init, TypeOK

\* What SetStatus, BeginStart, EndStart, StopInternal and EndStop leave in the variables they set.
LEMMA SetStatusType ==
    ASSUME row \in [Browsers -> Status], NEW b \in Browsers, NEW s \in Status, SetStatus(b, s)
    PROVE  row' \in [Browsers -> Status]
BY DEF SetStatus

LEMMA BeginStartType ==
    ASSUME TypeOK, NEW b \in Browsers, BeginStart(b)
    PROVE  /\ row' \in [Browsers -> Status]
           /\ before' \in [Browsers -> Status]
           /\ starting' \in [Browsers -> StartStage]
<1> "starting" \in Status
    BY DEF Status
<1> QED BY SetStatusType DEF TypeOK, BeginStart

LEMMA EndStartType ==
    ASSUME TypeOK, NEW b \in Browsers, NEW s \in Status, EndStart(b, s)
    PROVE  /\ row' \in [Browsers -> Status]
           /\ starting' \in [Browsers -> StartStage]
           /\ moving' \in [Browsers -> MoveStage]
           /\ healing' \in [Browsers -> HealStage]
           /\ unhealthy' \in [Browsers -> BOOLEAN]
           /\ saving' \in [Browsers -> SaveStage]
           /\ reserved' \in [Browsers -> BOOLEAN]
<1> DEFINE t == IF moving[b] = "restart" /\ s = "moving" THEN "stopped" ELSE s
<1>1. t \in Status
    BY DEF Status
<1>2. row' \in [Browsers -> Status]
    BY <1>1, SetStatusType DEF TypeOK, EndStart
<1> QED BY <1>2 DEF TypeOK, EndStart

LEMMA CloseListenerType ==
    ASSUME TypeOK, NEW b \in Browsers, CloseListener(b)
    PROVE  /\ row' \in [Browsers -> Status]
           /\ proxies' \in [Browsers -> BOOLEAN]
           /\ stopping' \in [Browsers -> StopStage]
           /\ unhealthy' \in [Browsers -> BOOLEAN]
<1>1. row' \in [Browsers -> Status]
    BY DEF CloseListener, SetStatus, TypeOK, Status
<1> QED BY <1>1 DEF CloseListener, TypeOK

LEMMA StopInternalType ==
    ASSUME TypeOK, NEW b \in Browsers, StopInternal(b)
    PROVE  /\ row' \in [Browsers -> Status]
           /\ proxies' \in [Browsers -> BOOLEAN]
           /\ stopping' \in [Browsers -> StopStage]
           /\ unhealthy' \in [Browsers -> BOOLEAN]
<1>1. CASE stopping[b] # "idle"
    BY <1>1 DEF StopInternal, stopVars, TypeOK
<1>2. CASE stopping[b] = "idle" /\ runtime[b] = "none"
    BY <1>2, CloseListenerType DEF StopInternal
<1>3. CASE stopping[b] = "idle" /\ runtime[b] # "none"
    <2>1. "stopping" \in Status
        BY DEF Status
    <2> QED BY <1>3, <2>1, SetStatusType DEF StopInternal, TypeOK
<1> QED BY <1>1, <1>2, <1>3

LEMMA EndStopType ==
    ASSUME TypeOK, NEW b \in Browsers, NEW ok \in BOOLEAN, NEW clean \in BOOLEAN,
           EndStop(b, ok, clean)
    PROVE  /\ stopping' \in [Browsers -> StopStage]
           /\ healing' \in [Browsers -> HealStage]
           /\ saving' \in [Browsers -> SaveStage]
           /\ moving' \in [Browsers -> MoveStage]
           /\ deleting' \in [Browsers -> DeleteStage]
           /\ reaping' \in [Browsers -> ReapStage]
           /\ shutting' \in [Browsers -> {"out", "todo", "stop"}]
           /\ exporting' \in [Browsers -> ExportStage]
           /\ exportPhase' \in {"idle", "stop", "copy"}
<1>1. CASE exporting[b] = "stop" /\ ~(ok /\ clean)
    BY <1>1 DEF TypeOK, EndStop
<1>2. CASE ~(exporting[b] = "stop" /\ ~(ok /\ clean))
    BY <1>2 DEF TypeOK, EndStop
<1> QED BY <1>1, <1>2

-------------------------------------------------------------------------------
LEMMA StartTypeOK ==
    ASSUME TypeOK, NEW b \in Browsers, StartStep(b) \/ EnsureRunning(b)
    PROVE  TypeOK'
<1> USE DEF saveVars, startVars, stopVars, reapVars, exportVars, shutVars
<1>0. row \in [Browsers -> Status] /\ proxies \in [Browsers -> BOOLEAN]
    BY DEF TypeOK
<1>1. CASE EnsureRunning(b)
    BY <1>1, BeginStartType DEF EnsureRunning, TypeOK
<1>2. CASE Queue(b)
    <2>1. row' \in [Browsers -> Status]
        BY <1>0, <1>2, SetStatusType DEF Queue
    <2> QED BY <1>2, <2>1 DEF Queue, TypeOK
<1>3. CASE AdmitFail(b)
    <2> DEFINE s == IF row[b] = "queued" THEN IF before[b] = "queued" THEN "stopped" ELSE before[b]
                    ELSE row[b]
    <2>1. s \in Status /\ EndStart(b, s)
        BY <1>3 DEF AdmitFail, TypeOK
    <2> HIDE DEF s
    <2> QED BY <1>3, <2>1, EndStartType DEF AdmitFail, TypeOK
<1>4. CASE Admit(b)
    <2>1. row' \in [Browsers -> Status]
        BY <1>0, <1>4, SetStatusType DEF Admit
    <2> QED BY <1>4, <2>1 DEF Admit, TypeOK
<1>5. CASE OpenProxy(b)
    BY <1>5 DEF OpenProxy, TypeOK
<1>6. CASE Launched(b)
    <2>1. CASE host[b] # "main"
        BY <1>6, <2>1, EndStartType DEF Launched, TypeOK
    <2>2. CASE host[b] = "main"
        <3>1. proxies' \in [Browsers -> BOOLEAN]
            BY <1>0, <1>6, <2>2 DEF Launched
        <3> QED BY <1>6, <2>2, <3>1 DEF Launched, TypeOK
    <2> QED BY <2>1, <2>2
<1>7. CASE Version(b)
    BY <1>7, EndStartType DEF Version, TypeOK
<1>8. CASE StartFail(b)
    BY <1>8 DEF StartFail, TypeOK
<1>9. CASE StartFailed(b)
    BY <1>9, EndStartType DEF StartFailed, TypeOK
<1> QED
    BY <1>1, <1>2, <1>3, <1>4, <1>5, <1>6, <1>7, <1>8, <1>9 DEF StartStep

LEMMA StopTypeOK ==
    ASSUME TypeOK, NEW b \in Browsers, StopStep(b) \/ Stop(b) \/ ChromeExit(b)
    PROVE  TypeOK'
<1> USE DEF saveVars, startVars, stopVars, reapVars, exportVars, shutVars
<1>0. row \in [Browsers -> Status] /\ unhealthy \in [Browsers -> BOOLEAN]
    BY DEF TypeOK
<1>1. CASE Stop(b)
    BY <1>1, StopInternalType DEF Stop, TypeOK
<1>2. CASE Killed(b)
    BY <1>2, CloseListenerType DEF Killed, TypeOK
<1>3. CASE ListenerClosed(b)
    <2>1. row' \in [Browsers -> Status]
        BY <1>0, <1>3, SetStatusType DEF ListenerClosed
    <2> QED BY <1>3, <2>1 DEF ListenerClosed, TypeOK
<1>4. CASE StopDone(b)
    <2>1. EndStop(b, TRUE, TRUE) \/ EndStop(b, TRUE, FALSE)
        <3>1. PICK clean \in {FALSE, runtime[b] # "live"} : EndStop(b, TRUE, clean)
            BY <1>4, Zenon DEF StopDone
        <3>2. CASE clean
            BY <3>1, <3>2, Zenon
        <3>3. CASE ~clean
            BY <3>1, <3>3, Zenon
        <3> QED BY <3>2, <3>3
    <2>2. row' \in [Browsers -> Status]
        BY <1>0, <1>4 DEF StopDone, SetStatus
    <2>3. UNCHANGED <<host, startVars, proxies, unhealthy, reserved, sweep, shutPhase>>
        BY <1>4 DEF StopDone
    <2> QED BY <2>1, <2>2, <2>3, EndStopType DEF TypeOK
<1>5. CASE StopFail(b)
    <2>1. unhealthy' \in [Browsers -> BOOLEAN]
        <3>1. unhealthy' = [unhealthy EXCEPT ![b] = @ /\ healing[b] # "stop"]
            BY <1>5 DEF StopFail
        <3> QED BY <1>0, <3>1
    <2>2. EndStop(b, FALSE, FALSE) /\ UNCHANGED <<row, host, startVars, proxies, reserved, sweep, shutPhase>>
        BY <1>5 DEF StopFail
    <2> QED BY <2>1, <2>2, EndStopType DEF TypeOK
<1>6. CASE ChromeExit(b)
    BY <1>6 DEF ChromeExit, TypeOK
<1> QED
    BY <1>1, <1>2, <1>3, <1>4, <1>5, <1>6 DEF StopStep

LEMMA HealDeleteTypeOK ==
    ASSUME TypeOK, NEW b \in Browsers,
           MarkUnhealthy(b) \/ HealRestart(b) \/ Destroy(b) \/ DeleteStep(b)
    PROVE  TypeOK'
<1> USE DEF saveVars, startVars, stopVars, reapVars, exportVars, shutVars
<1>0. row \in [Browsers -> Status] /\ unhealthy \in [Browsers -> BOOLEAN]
    BY DEF TypeOK
<1>1. CASE MarkUnhealthy(b)
    <2>1. row' \in [Browsers -> Status]
        BY <1>0, <1>1 DEF MarkUnhealthy, SetStatus
    <2>2. unhealthy' \in [Browsers -> BOOLEAN]
        BY <1>0, <1>1 DEF MarkUnhealthy
    <2>3. healing \in [Browsers -> HealStage] /\ stopping \in [Browsers -> StopStage]
        BY DEF TypeOK
    <2>4. healing' \in [Browsers -> HealStage] /\ stopping' \in [Browsers -> StopStage]
        BY <1>1, <2>3 DEF MarkUnhealthy
    <2>5. UNCHANGED <<host, startVars, proxies, deleting, saveVars, moving, reapVars, exportVars,
                      shutVars>>
        BY <1>1 DEF MarkUnhealthy
    <2> QED BY <2>1, <2>2, <2>4, <2>5 DEF TypeOK
<1>2. CASE HealRestart(b)
    <2>1. CASE Outcome(b) = "start"
        BY <1>2, <2>1, BeginStartType DEF HealRestart, TypeOK
    <2>2. CASE Outcome(b) # "start"
        <3>1. unhealthy' \in [Browsers -> BOOLEAN]
            BY <1>0, <1>2 DEF HealRestart
        <3> QED BY <1>2, <2>2, <3>1 DEF HealRestart, TypeOK
    <2> QED BY <2>1, <2>2
<1>3. CASE Destroy(b)
    BY <1>3, StopInternalType DEF Destroy, TypeOK
<1>4. CASE DestroyRows(b)
    BY <1>4 DEF DestroyRows, TypeOK
<1>5. CASE DestroyEnds(b)
    BY <1>5 DEF DestroyEnds, TypeOK
<1> QED
    BY <1>1, <1>2, <1>3, <1>4, <1>5 DEF DeleteStep

LEMMA ReapTypeOK ==
    ASSUME TypeOK, NEW b \in Browsers, ReapStep(b) \/ ReapExited(b) \/ ReapIdle(b)
    PROVE  TypeOK'
<1> USE DEF saveVars, startVars, stopVars, reapVars, exportVars, shutVars
<1>0. row \in [Browsers -> Status] /\ unhealthy \in [Browsers -> BOOLEAN]
    BY DEF TypeOK
<1>1. CASE ReapExited(b)
    <2>1. row' \in [Browsers -> Status]
        BY <1>0, <1>1 DEF ReapExited, SetStatus
    <2>2. sweep' \in BOOLEAN
        BY <1>1 DEF ReapExited, TypeOK
    <2>3. reaping' \in [Browsers -> ReapStage]
        BY <1>1 DEF ReapExited, TypeOK
    <2> QED BY <1>1, <2>1, <2>2, <2>3 DEF ReapExited, TypeOK
<1>2. CASE ReapClosed(b)
    <2>1. row' \in [Browsers -> Status]
        BY <1>0, <1>2, SetStatusType DEF ReapClosed
    <2> QED BY <1>2, <2>1 DEF ReapClosed, TypeOK
<1>3. CASE ReapIdle(b)
    BY <1>3, StopInternalType DEF ReapIdle, TypeOK
<1>4. CASE ReapRemoved(b)
    BY <1>4 DEF ReapRemoved, TypeOK
<1> QED
    BY <1>1, <1>2, <1>3, <1>4 DEF ReapStep

LEMMA SaveMoveTypeOK ==
    ASSUME TypeOK, NEW b \in Browsers,
           SaveBegin(b) \/ SaveStep(b) \/ SaveBack(b) \/ Move(b) \/ MoveStep(b)
    PROVE  TypeOK'
<1> USE DEF saveVars, startVars, stopVars, reapVars, exportVars, shutVars
<1>1. CASE SaveBegin(b)
    BY <1>1 DEF SaveBegin, TypeOK
<1>2. CASE SaveStop(b)
    BY <1>2, StopInternalType DEF SaveStop, TypeOK
<1>3. CASE SaveCopied(b)
    BY <1>3 DEF SaveCopied, TypeOK
<1>4. CASE SaveBack(b)
    <2>1. CASE Outcome(b) = "start"
        BY <1>4, <2>1, BeginStartType DEF SaveBack, TypeOK
    <2>2. CASE Outcome(b) # "start"
        <3>1. reserved' \in [Browsers -> BOOLEAN] /\ saving' \in [Browsers -> SaveStage]
            <4>1. reserved \in [Browsers -> BOOLEAN] /\ saving \in [Browsers -> SaveStage]
                BY DEF TypeOK
            <4> QED BY <1>4, <4>1 DEF SaveBack
        <3> QED BY <1>4, <2>2, <3>1 DEF SaveBack, TypeOK
    <2> QED BY <2>1, <2>2
<1>5. CASE Move(b)
    BY <1>5, StopInternalType DEF Move, TypeOK
<1>6. CASE MoveLands(b)
    BY <1>6 DEF MoveLands, TypeOK
<1>7. CASE MoveSettles(b)
    <2>0. /\ row \in [Browsers -> Status]
          /\ before \in [Browsers -> Status]
          /\ starting \in [Browsers -> StartStage]
          /\ moving \in [Browsers -> MoveStage]
        BY DEF TypeOK
    <2>1. row' \in [Browsers -> Status]
        <3>1. row' = row \/ SetStatus(b, "starting") \/ SetStatus(b, "stopped")
            BY ONLY <1>7 DEF MoveSettles, BeginStart
        <3> QED BY <2>0, <3>1 DEF SetStatus, Status
    <2>2. before' \in [Browsers -> Status] /\ starting' \in [Browsers -> StartStage]
        BY <1>7, <2>0 DEF MoveSettles, BeginStart
    <2>3. moving' \in [Browsers -> MoveStage]
        BY <1>7, <2>0 DEF MoveSettles
    <2>4. UNCHANGED <<host, runtime, proxies, stopping, unhealthy, healing, deleting, saveVars,
                      reapVars, exportVars, shutVars>>
        BY <1>7 DEF MoveSettles
    <2> QED BY <2>1, <2>2, <2>3, <2>4 DEF TypeOK
<1> QED
    BY <1>1, <1>2, <1>3, <1>4, <1>5, <1>6, <1>7 DEF SaveStep, MoveStep

LEMMA InstanceTypeOK ==
    ASSUME TypeOK,
           \/ \E selected \in SUBSET Browsers : ExportBegin(selected)
           \/ ExportStep \/ ShutdownBegin \/ ShutdownStep \/ Reboot
    PROVE  TypeOK'
<1> USE DEF saveVars, startVars, stopVars, reapVars, exportVars, shutVars
<1>1. ASSUME NEW selected \in SUBSET Browsers, ExportBegin(selected) PROVE TypeOK'
    BY <1>1 DEF ExportBegin, TypeOK
<1>2. ASSUME NEW b \in Browsers, ExportStop(b) PROVE TypeOK'
    BY <1>2, StopInternalType DEF ExportStop, TypeOK
<1>3. CASE ExportCopy
    BY <1>3 DEF ExportCopy, TypeOK
<1>4. CASE ExportEnd
    BY <1>4 DEF ExportEnd, TypeOK
<1>5. CASE ShutdownBegin \/ ShutdownSaved
    BY <1>5 DEF ShutdownBegin, ShutdownSaved, TypeOK
<1>6. CASE ShutdownRemoved
    BY <1>6 DEF ShutdownRemoved, TypeOK
<1>7. ASSUME NEW b \in Browsers, ShutdownStop(b) PROVE TypeOK'
    BY <1>7, StopInternalType DEF ShutdownStop, TypeOK
<1>8. CASE ShutdownEnd
    BY <1>8 DEF ShutdownEnd, TypeOK
<1>9. CASE Reboot
    <2>1. row' \in [Browsers -> Status]
        BY <1>9 DEF Reboot, TypeOK
    <2>2. /\ proxies' \in [Browsers -> BOOLEAN]
          /\ unhealthy' \in [Browsers -> BOOLEAN]
          /\ reserved' \in [Browsers -> BOOLEAN]
        BY <1>9 DEF Reboot, TypeOK
    <2> QED BY <1>9, <2>1, <2>2 DEF Reboot, TypeOK
<1> QED
    BY <1>1, <1>2, <1>3, <1>4, <1>5, <1>6, <1>7, <1>8, <1>9 DEF ExportStep, ShutdownStep

LEMMA NextTypeOK == TypeOK /\ [Next]_vars => TypeOK'
<1> SUFFICES ASSUME TypeOK, [Next]_vars PROVE TypeOK'
    OBVIOUS
<1>1. CASE UNCHANGED vars
    BY <1>1 DEF vars, TypeOK
<1>2. ASSUME NEW b \in Browsers, Continue(b) \/ Request(b) PROVE TypeOK'
    BY <1>2, StartTypeOK, StopTypeOK, HealDeleteTypeOK, ReapTypeOK, SaveMoveTypeOK
    DEF Continue, Request
<1>3. CASE SweepBegin \/ SweepEnd
    <2>1. sweep' \in BOOLEAN
        BY <1>3 DEF SweepBegin, SweepEnd
    <2>2. UNCHANGED <<stopVars, host, startVars, healing, deleting, saveVars, moving, reaping,
                      exportVars, shutVars>>
        BY <1>3 DEF SweepBegin, SweepEnd
    <2> QED
        BY <2>1, <2>2 DEF TypeOK, saveVars, startVars, stopVars, exportVars, shutVars
<1>4. ASSUME NEW b \in Browsers, HealRestart(b) \/ SaveBack(b) PROVE TypeOK'
    BY <1>4, HealDeleteTypeOK, SaveMoveTypeOK
<1> QED
    BY <1>1, <1>2, <1>3, <1>4, InstanceTypeOK DEF Next

\* Every stage, status and flag stays in its range, whatever runs in whatever order.
THEOREM TypeCorrect == Spec => []TypeOK
BY InitTypeOK, NextTypeOK, PTL DEF Spec

-------------------------------------------------------------------------------
(* One Chrome per profile. *)

\* The actions that touch runtimes, starting or the reservations; every other step leaves them.
Chrome(b) == \/ StartStep(b) \/ EnsureRunning(b) \/ HealRestart(b) \/ SaveBack(b) \/ MoveSettles(b)
             \/ ChromeExit(b) \/ Killed(b) \/ ReapExited(b) \/ SaveBegin(b)

LEMMA ChromeFrame ==
    ASSUME Next, ~Reboot, \A b \in Browsers : ~Chrome(b)
    PROVE  UNCHANGED <<startVars, reserved>>
<1> USE DEF startVars, saveVars
<1>1. ASSUME NEW b \in Browsers, Continue(b) \/ Request(b) PROVE UNCHANGED <<startVars, reserved>>
    <2>1. CASE StopStep(b)
        BY <1>1, <2>1 DEF StopStep, Chrome, ListenerClosed, StopDone, StopFail
    <2>2. CASE DeleteStep(b) \/ ReapStep(b)
        BY <1>1, <2>2 DEF DeleteStep, DestroyRows, DestroyEnds, ReapStep, ReapClosed, ReapRemoved
    <2>3. CASE SaveStep(b) \/ MoveStep(b)
        BY <1>1, <2>3 DEF SaveStep, SaveStop, SaveCopied, MoveStep, MoveLands, Chrome
    <2>4. CASE Request(b)
        BY <1>1, <2>4 DEF Request, Stop, Destroy, Move, MarkUnhealthy, ReapIdle, Chrome
    <2> QED BY <1>1, <2>1, <2>2, <2>3, <2>4 DEF Continue, Chrome
<1>2. ASSUME NEW selected \in SUBSET Browsers, ExportBegin(selected)
      PROVE  UNCHANGED <<startVars, reserved>>
    BY <1>2 DEF ExportBegin
<1>3. CASE SweepBegin \/ SweepEnd \/ ExportStep
    BY <1>3 DEF SweepBegin, SweepEnd, ExportStep, ExportStop, ExportCopy, ExportEnd
<1>4. CASE ShutdownBegin \/ ShutdownStep
    BY <1>4 DEF ShutdownBegin, ShutdownStep, ShutdownSaved, ShutdownRemoved, ShutdownStop, ShutdownEnd
<1> QED BY <1>1, <1>2, <1>3, <1>4 DEF Next, Chrome

\* A start begins only for a browser without a live Chrome and with room for it.
LEMMA OutcomeStart ==
    ASSUME NEW b, NEW moved, OutcomeIf(b, moved) = "start"
    PROVE  /\ runtime[b] # "live" /\ starting[b] = "idle" /\ ~Full(b)
           /\ exporting[b] = "out" /\ shutPhase = "up"
BY DEF OutcomeIf

LEMMA OneChromeStep == TypeOK /\ OneChromePerProfile /\ [Next]_vars => OneChromePerProfile'
<1> SUFFICES ASSUME TypeOK, OneChromePerProfile, [Next]_vars PROVE OneChromePerProfile'
    OBVIOUS
<1> USE DEF OneChromePerProfile
<1>0. runtime \in [Browsers -> {"none", "live", "exited"}] /\ starting \in [Browsers -> StartStage]
    BY DEF TypeOK
<1>1. CASE UNCHANGED vars
    BY <1>1 DEF vars
<1>2. CASE Next /\ ~Reboot /\ \A b \in Browsers : ~Chrome(b)
    BY <1>2, ChromeFrame DEF startVars
<1>3. CASE Reboot
    BY <1>3 DEF Reboot
<1>4. ASSUME NEW b \in Browsers, Chrome(b) PROVE OneChromePerProfile'
    <2>1. CASE EnsureRunning(b)
        BY <1>0, <2>1, OutcomeStart DEF EnsureRunning, Outcome, BeginStart
    <2>2. CASE HealRestart(b)
        BY <1>0, <2>2, OutcomeStart DEF HealRestart, Outcome, BeginStart
    <2>3. CASE SaveBack(b)
        BY <1>0, <2>3, OutcomeStart DEF SaveBack, Outcome, BeginStart
    <2>4. CASE MoveSettles(b)
        BY <1>0, <2>4, OutcomeStart DEF MoveSettles, BeginStart
    <2>5. CASE Queue(b) \/ AdmitFail(b) \/ Admit(b) \/ OpenProxy(b)
        BY <1>0, <2>5 DEF Queue, AdmitFail, Admit, OpenProxy, EndStart
    <2>6. CASE Launched(b)
        BY <1>0, <2>6 DEF Launched, EndStart
    <2>7. CASE Version(b) \/ StartFail(b) \/ StartFailed(b)
        BY <1>0, <2>7 DEF Version, StartFail, StartFailed, EndStart
    <2>8. CASE ChromeExit(b) \/ Killed(b) \/ ReapExited(b)
        BY <1>0, <2>8 DEF ChromeExit, Killed, ReapExited
    <2>9. CASE SaveBegin(b)
        BY <2>9 DEF SaveBegin, startVars
    <2> QED
        BY <1>4, <2>1, <2>2, <2>3, <2>4, <2>5, <2>6, <2>7, <2>8, <2>9 DEF Chrome, StartStep
<1> QED BY <1>1, <1>2, <1>3, <1>4

\* Two Chromes never share one profile directory, whatever starts, restarts, saves and moves overlap.
THEOREM OneChrome == Spec => []OneChromePerProfile
<1>1. Init => OneChromePerProfile
    BY DEF Init, OneChromePerProfile
<1> QED BY <1>1, InitTypeOK, NextTypeOK, OneChromeStep, PTL DEF Spec

-------------------------------------------------------------------------------
(* The cap, where no browser can move. *)

LEMMA NoWorkers ==
    ASSUME TypeOK, Workers = {}
    PROVE  /\ Occupied = LocalChromes
           /\ \A b \in Browsers : host[b] = "main" /\ ~OffHost(b)
           /\ LocalChromes = {b \in Browsers : runtime[b] # "none" \/ starting[b] # "idle" \/ reserved[b]}
<1>1. \A b \in Browsers : host[b] = "main"
    BY DEF TypeOK, Hosts
<1>2. \A b \in Browsers : ~OffHost(b)
    BY <1>1 DEF OffHost
<1> QED BY <1>1, <1>2 DEF Occupied, LocalChromes

\* A start takes one slot that is free; no other step takes any.
LEMMA SlotStep ==
    ASSUME TypeOK, TypeOK', Workers = {}, [Next]_vars
    PROVE  \/ LocalChromes' \subseteq LocalChromes
           \/ \E b \in Browsers : /\ b \notin LocalChromes
                                 /\ Cardinality(LocalChromes) < Cap
                                 /\ LocalChromes' = LocalChromes \cup {b}
<1> DEFINE holds(b) == runtime[b] # "none" \/ starting[b] # "idle" \/ reserved[b]
           gives == \A c \in Browsers : holds(c)' => holds(c)
           takes(b) == /\ ~Full(b)
                       /\ starting'[b] # "idle"
                       /\ \A c \in Browsers \ {b} : holds(c)' <=> holds(c)
<1>0. /\ runtime \in [Browsers -> {"none", "live", "exited"}]
      /\ starting \in [Browsers -> StartStage]
      /\ reserved \in [Browsers -> BOOLEAN]
      /\ saving \in [Browsers -> SaveStage]
    BY DEF TypeOK
<1>1. CASE UNCHANGED vars
    BY <1>1 DEF vars, LocalChromes
<1>2. CASE Next /\ ~Reboot /\ \A b \in Browsers : ~Chrome(b)
    <2>1. UNCHANGED <<startVars, reserved>>
        BY <1>2, ChromeFrame
    <2>2. \A c \in Browsers : holds(c)' <=> holds(c)
        BY <2>1 DEF startVars
    <2> QED BY <2>2, NoWorkers, Workers = {} DEF LocalChromes
<1>3. CASE Reboot
    BY <1>3 DEF Reboot, LocalChromes
<1>4. ASSUME NEW b \in Browsers, Chrome(b) PROVE gives \/ takes(b)
    <2>1. CASE EnsureRunning(b)
        BY <1>0, <2>1, OutcomeStart DEF EnsureRunning, Outcome, BeginStart, saveVars
    <2>2. CASE HealRestart(b)
        BY <1>0, <2>2, OutcomeStart DEF HealRestart, Outcome, BeginStart, saveVars
    <2>3. CASE SaveBack(b)
        BY <1>0, <2>3, OutcomeStart DEF SaveBack, Outcome, BeginStart
    <2>4. CASE MoveSettles(b)
        BY <1>0, <2>4, OutcomeStart DEF MoveSettles, BeginStart, saveVars
    <2>5. CASE Queue(b) \/ AdmitFail(b) \/ Admit(b) \/ OpenProxy(b)
        BY <1>0, <2>5 DEF Queue, AdmitFail, Admit, OpenProxy, EndStart, saveVars
    <2>6. CASE Launched(b)
        BY <1>0, <2>6 DEF Launched, EndStart, saveVars
    <2>7. CASE Version(b) \/ StartFail(b) \/ StartFailed(b)
        BY <1>0, <2>7 DEF Version, StartFail, StartFailed, EndStart, saveVars
    <2>8. CASE ChromeExit(b) \/ Killed(b) \/ ReapExited(b)
        BY <1>0, <2>8 DEF ChromeExit, Killed, ReapExited, saveVars
    <2>9. CASE SaveBegin(b)
        BY <1>0, <2>9 DEF SaveBegin, startVars
    <2> QED
        BY <1>4, <2>1, <2>2, <2>3, <2>4, <2>5, <2>6, <2>7, <2>8, <2>9 DEF Chrome, StartStep
<1>5. CASE gives
    BY <1>5, NoWorkers DEF LocalChromes
<1>6. ASSUME NEW b \in Browsers, takes(b), b \notin LocalChromes
      PROVE  Cardinality(LocalChromes) < Cap /\ LocalChromes' = LocalChromes \cup {b}
    <2>1. Cardinality(LocalChromes) < Cap
        <3>1. IsFiniteSet(LocalChromes)
            BY FS_Subset, LifecycleAssumption DEF LocalChromes
        <3> QED
            BY <1>6, <3>1, NoWorkers, FS_CardinalityType, LifecycleAssumption DEF Full
    <2>2. holds(b)'
        BY <1>6
    <2>3. LocalChromes' = {c \in Browsers : holds(c)'}
        <3>1. \A c \in Browsers : host'[c] = "main"
            BY DEF TypeOK, Hosts
        <3> QED BY <3>1 DEF LocalChromes
    <2> QED BY <1>6, <2>1, <2>2, <2>3, NoWorkers
<1>7. ASSUME NEW b \in Browsers, takes(b), b \in LocalChromes PROVE gives
    <2>1. holds(b)
        BY <1>7, NoWorkers
    <2> QED BY <1>7, <2>1
<1> HIDE DEF gives, takes
<1> QED BY <1>1, <1>2, <1>3, <1>4, <1>5, <1>6, <1>7

\* Without workers the cap is a semaphore of Cap slots: BrowserLifecycle implements Slots.
THEOREM RefinesSlots ==
    ASSUME Workers = {}
    PROVE  Spec => SlotsRefined
<1>1. Init => Slots!Init
    BY DEF Init, Slots!Init, LocalChromes
<1>2. TypeOK /\ TypeOK' /\ [Next]_vars => [Slots!Next]_LocalChromes
    <2> SUFFICES ASSUME TypeOK, TypeOK', [Next]_vars PROVE [Slots!Next]_LocalChromes
        OBVIOUS
    <2>1. CASE LocalChromes' \subseteq LocalChromes
        <3>1. \E kept \in SUBSET LocalChromes : LocalChromes' = kept
            BY <2>1
        <3> QED BY <3>1 DEF Slots!Next, Slots!Give
    <2>2. CASE \E b \in Browsers : /\ b \notin LocalChromes
                                  /\ Cardinality(LocalChromes) < Cap
                                  /\ LocalChromes' = LocalChromes \cup {b}
        BY <2>2 DEF Slots!Next, Slots!Take, Slots!Cardinality, Cardinality
    <2> QED BY <2>1, <2>2, SlotStep
<1> QED
    BY <1>1, <1>2, InitTypeOK, NextTypeOK, PTL DEF Spec, SlotsRefined, Slots!Spec

\* TALLYLAMP_MAX_BROWSERS holds at every moment, for any cap and any number of browsers.
THEOREM CapHolds ==
    ASSUME Workers = {}
    PROVE  Spec => []CapRespected
<1>1. Init => CapRespected
    <2>1. Init => LocalChromes = {}
        BY DEF Init, LocalChromes
    <2> QED BY <2>1, FS_EmptySet, LifecycleAssumption DEF CapRespected
<1>2. CapRespected /\ TypeOK /\ TypeOK' /\ [Next]_vars => CapRespected'
    <2> SUFFICES ASSUME CapRespected, TypeOK, TypeOK', [Next]_vars PROVE CapRespected'
        OBVIOUS
    <2>0. IsFiniteSet(LocalChromes) /\ Cardinality(LocalChromes) \in Nat
        BY FS_Subset, FS_CardinalityType, LifecycleAssumption DEF LocalChromes
    <2>1. CASE LocalChromes' \subseteq LocalChromes
        <3>1. Cardinality(LocalChromes') <= Cardinality(LocalChromes) /\ Cardinality(LocalChromes') \in Nat
            BY <2>0, <2>1, FS_Subset, FS_CardinalityType
        <3> QED BY <2>0, <3>1, LifecycleAssumption DEF CapRespected
    <2>2. CASE \E b \in Browsers : /\ b \notin LocalChromes
                                  /\ Cardinality(LocalChromes) < Cap
                                  /\ LocalChromes' = LocalChromes \cup {b}
        <3>1. Cardinality(LocalChromes') = Cardinality(LocalChromes) + 1
            BY <2>0, <2>2, FS_AddElement
        <3> QED BY <2>0, <2>2, <3>1, LifecycleAssumption DEF CapRespected
    <2> QED BY <2>1, <2>2, SlotStep
<1> QED BY <1>1, <1>2, InitTypeOK, NextTypeOK, PTL DEF Spec

-------------------------------------------------------------------------------
(* A save keeps its slot. *)

\* From the moment a save stops a browser until it is up again, its slot is reserved.
SaveInv == \A b \in Browsers : saving[b] \in {"scan", "stop", "back", "resume"} => reserved[b]

\* The actions that touch a save.
Saves(b) == \/ SaveBegin(b) \/ SaveStop(b) \/ SaveCopied(b) \/ SaveBack(b) \/ StopDone(b)
            \/ StopFail(b)  \/ AdmitFail(b) \/ Launched(b) \/ Version(b) \/ StartFailed(b)

LEMMA SaveFrame ==
    ASSUME Next, ~Reboot, \A b \in Browsers : ~Saves(b)
    PROVE  UNCHANGED saveVars
<1>1. ASSUME NEW b \in Browsers, Continue(b) \/ Request(b) PROVE UNCHANGED saveVars
    <2>1. CASE StartStep(b)
        BY <2>1 DEF StartStep, Queue, Admit, OpenProxy, StartFail, Saves
    <2>2. CASE StopStep(b) \/ DeleteStep(b) \/ ReapStep(b)
        BY <2>2 DEF StopStep, Killed, ListenerClosed, DeleteStep, DestroyRows, DestroyEnds, ReapStep,
                    ReapClosed, ReapRemoved, Saves
    <2>3. CASE SaveStep(b) \/ MoveStep(b)
        BY <2>3 DEF SaveStep, MoveStep, MoveLands, MoveSettles, Saves
    <2>4. CASE Request(b)
        BY <2>4 DEF Request, EnsureRunning, Stop, Destroy, Move, MarkUnhealthy, ReapExited, ReapIdle,
                    ChromeExit, Saves
    <2> QED BY <1>1, <2>1, <2>2, <2>3, <2>4 DEF Continue
<1>2. ASSUME NEW selected \in SUBSET Browsers, ExportBegin(selected) PROVE UNCHANGED saveVars
    BY <1>2 DEF ExportBegin
<1>3. CASE SweepBegin \/ SweepEnd \/ ExportStep
    BY <1>3 DEF SweepBegin, SweepEnd, ExportStep, ExportStop, ExportCopy, ExportEnd
<1>4. CASE ShutdownBegin \/ ShutdownStep
    BY <1>4 DEF ShutdownBegin, ShutdownStep, ShutdownSaved, ShutdownRemoved, ShutdownStop, ShutdownEnd
<1>5. ASSUME NEW b \in Browsers, HealRestart(b) PROVE UNCHANGED saveVars
    BY <1>5 DEF HealRestart
<1> QED BY <1>1, <1>2, <1>3, <1>4, <1>5 DEF Next, Saves

LEMMA SaveStepInv == TypeOK /\ SaveInv /\ [Next]_vars => SaveInv'
<1> SUFFICES ASSUME TypeOK, SaveInv, [Next]_vars PROVE SaveInv'
    OBVIOUS
<1> USE DEF SaveInv
<1>0. saving \in [Browsers -> SaveStage] /\ reserved \in [Browsers -> BOOLEAN]
    BY DEF TypeOK
<1>1. CASE UNCHANGED vars
    BY <1>1 DEF vars
<1>2. CASE Next /\ ~Reboot /\ \A b \in Browsers : ~Saves(b)
    BY <1>2, SaveFrame DEF saveVars
<1>3. CASE Reboot
    BY <1>3 DEF Reboot
<1>4. ASSUME NEW b \in Browsers, Saves(b) PROVE SaveInv'
    <2>1. CASE SaveBegin(b)
        BY <1>0, <2>1 DEF SaveBegin
    <2>2. CASE SaveStop(b) \/ SaveCopied(b)
        BY <1>0, <2>2 DEF SaveStop, SaveCopied
    <2>3. CASE SaveBack(b)
        BY <1>0, <2>3 DEF SaveBack
    <2>4. CASE StopDone(b) \/ StopFail(b)
        BY <1>0, <2>4 DEF StopDone, StopFail, EndStop
    <2>5. CASE AdmitFail(b) \/ Version(b) \/ StartFailed(b)
        BY <1>0, <2>5 DEF AdmitFail, Version, StartFailed, EndStart
    <2>6. CASE Launched(b)
        BY <1>0, <2>6 DEF Launched, EndStart, saveVars
    <2> QED BY <1>4, <2>1, <2>2, <2>3, <2>4, <2>5, <2>6 DEF Saves
<1> QED BY <1>1, <1>2, <1>3, <1>4

\* A save never loses the slot of the browser it paused, with any number of browsers competing.
THEOREM SaveKeepsSlot == Spec => []SaveKeepsItsSlot
<1>1. Init => SaveInv
    BY DEF Init, SaveInv
<1>2. SaveInv => SaveKeepsItsSlot
    BY DEF SaveInv, SaveKeepsItsSlot, Full, Occupied
<1> QED BY <1>1, <1>2, InitTypeOK, NextTypeOK, SaveStepInv, PTL DEF Spec

-------------------------------------------------------------------------------
(* An export copies frozen profiles. *)

\* A selected browser is out of reach of every other operation from the moment it is selected,
\* and once it has been stopped it has no Chrome.
Frozen(b) == /\ exportPhase # "idle"
             /\ starting[b] = "idle" /\ saving[b] = "idle" /\ deleting[b] = "idle" /\ ~InMove(b)
             /\ exporting[b] = "stopped" => runtime[b] # "live"

FrozenInv == /\ \A b \in Browsers : exporting[b] # "out" => Frozen(b)
             /\ exportPhase = "copy" => \A b \in Browsers : exporting[b] \in {"out", "stopped"}

LEMMA FrozenOne ==
    ASSUME TypeOK, FrozenInv, NEW b \in Browsers, Continue(b) \/ Request(b)
    PROVE  FrozenInv'
<1> USE DEF FrozenInv, Frozen, InMove, startVars, saveVars, exportVars
<1>0. /\ runtime \in [Browsers -> {"none", "live", "exited"}]
      /\ starting \in [Browsers -> StartStage]
      /\ saving \in [Browsers -> SaveStage]
      /\ deleting \in [Browsers -> DeleteStage]
      /\ moving \in [Browsers -> MoveStage]
      /\ exporting \in [Browsers -> ExportStage]
    BY DEF TypeOK
<1>1. CASE EnsureRunning(b)
    BY <1>0, <1>1, OutcomeStart DEF EnsureRunning, Outcome, BeginStart
<1>2. CASE Queue(b) \/ Admit(b) \/ OpenProxy(b) \/ StartFail(b)
    BY <1>0, <1>2 DEF Queue, Admit, OpenProxy, StartFail
<1>3. CASE AdmitFail(b) \/ Version(b) \/ StartFailed(b)
    BY <1>0, <1>3 DEF AdmitFail, Version, StartFailed, EndStart
<1>4. CASE Launched(b)
    <2>1. CASE host[b] # "main"
        BY <1>0, <1>4, <2>1 DEF Launched, EndStart
    <2>2. CASE host[b] = "main"
        BY <1>0, <1>4, <2>2 DEF Launched
    <2> QED BY <2>1, <2>2
<1>5. CASE Stop(b) \/ Killed(b) \/ ListenerClosed(b) \/ ChromeExit(b)
    BY <1>0, <1>5 DEF Stop, Killed, ListenerClosed, ChromeExit
<1>6. CASE StopDone(b)
    <2>1. PICK clean \in {FALSE, runtime[b] # "live"} : EndStop(b, TRUE, clean)
        BY <1>6 DEF StopDone
    <2>2. UNCHANGED <<runtime, starting>>
        BY <1>6 DEF StopDone
    <2>4. CASE \A c \in Browsers : exporting'[c] = "out"
        BY <2>4
    <2>5. CASE /\ exporting' = [exporting EXCEPT ![b] = IF @ = "stop" THEN "stopped" ELSE @]
               /\ UNCHANGED exportPhase
               /\ exporting[b] = "stop" => runtime[b] # "live"
        <3>1. \A c \in Browsers : exporting'[c] # "out" => exporting[c] # "out"
            BY <1>0, <2>5
        <3>2. \A c \in Browsers : exporting'[c] = "stopped" => runtime[c] # "live"
            BY <1>0, <2>5
        <3>3. exportPhase' = "copy" => \A c \in Browsers : exporting'[c] \in {"out", "stopped"}
            BY <1>0, <2>5
        <3>4. ASSUME NEW c \in Browsers, exporting'[c] # "out" PROVE Frozen(c)'
            <4>1. exporting[c] # "out"
                BY <3>1, <3>4
            <4>2. Frozen(c)
                BY <4>1
            <4>3. ~InMove(c)'
                BY <1>0, <2>1, <4>2 DEF EndStop
            <4>4. saving'[c] = "idle" /\ deleting'[c] = "idle"
                BY <1>0, <2>1, <4>2 DEF EndStop
            <4>5. exportPhase' # "idle" /\ starting'[c] = "idle"
                BY <2>2, <2>5, <4>2
            <4>6. exporting'[c] = "stopped" => runtime'[c] # "live"
                BY <2>2, <3>2
            <4> QED BY <4>3, <4>4, <4>5, <4>6
        <3> HIDE DEF Frozen
        <3> QED BY <3>3, <3>4
    <2>6. exporting[b] = "stop" /\ clean => runtime[b] # "live"
        BY <2>1
    <2> QED BY <2>1, <2>4, <2>5, <2>6 DEF EndStop
<1>7. CASE StopFail(b)
    BY <1>0, <1>7 DEF StopFail, EndStop
<1>8. CASE MarkUnhealthy(b) \/ ReapExited(b) \/ ReapClosed(b)
    BY <1>0, <1>8 DEF MarkUnhealthy, ReapExited, ReapClosed
<1>9. CASE Destroy(b) \/ DestroyRows(b) \/ DestroyEnds(b)
    BY <1>0, <1>9 DEF Destroy, DestroyRows, DestroyEnds
<1>10. CASE ReapIdle(b) \/ ReapRemoved(b)
    BY <1>0, <1>10 DEF ReapIdle, ReapRemoved
<1>11. CASE SaveBegin(b) \/ SaveStop(b) \/ SaveCopied(b)
    BY <1>0, <1>11 DEF SaveBegin, SaveStop, SaveCopied
<1>12. CASE Move(b) \/ MoveLands(b)
    BY <1>0, <1>12 DEF Move, MoveLands
<1>13. CASE MoveSettles(b)
    <2>1. exporting[b] = "out"
        BY <1>0, <1>13 DEF MoveSettles
    <2>2. \A c \in Browsers \ {b} : starting'[c] = starting[c] /\ moving'[c] = moving[c]
        <3>1. \/ moving' = [moving EXCEPT ![b] = "idle"]
              \/ moving' = [moving EXCEPT ![b] = "restart"]
            BY ONLY <1>13 DEF MoveSettles
        <3>2. \/ starting' = starting
              \/ starting' = [starting EXCEPT ![b] = "launch"]
              \/ starting' = [starting EXCEPT ![b] = "admit"]
            BY ONLY <1>13 DEF MoveSettles, BeginStart
        <3> QED BY ONLY <1>0, <3>1, <3>2
    <2>3. UNCHANGED <<runtime, saving, deleting, exporting, exportPhase>>
        BY <1>13 DEF MoveSettles
    <2> QED BY <2>1, <2>2, <2>3
<1> QED
    BY <1>1, <1>2, <1>3, <1>4, <1>5, <1>6, <1>7, <1>8, <1>9, <1>10, <1>11, <1>12, <1>13
    DEF Continue, Request, StartStep, StopStep, DeleteStep, ReapStep, SaveStep, MoveStep

LEMMA FrozenStep == TypeOK /\ FrozenInv /\ [Next]_vars => FrozenInv'
<1> SUFFICES ASSUME TypeOK, FrozenInv, [Next]_vars PROVE FrozenInv'
    OBVIOUS
<1> USE DEF FrozenInv, Frozen, InMove, startVars, saveVars, exportVars
<1>0. /\ starting \in [Browsers -> StartStage]
      /\ saving \in [Browsers -> SaveStage]
      /\ exporting \in [Browsers -> ExportStage]
    BY DEF TypeOK
<1>1. CASE UNCHANGED vars
    BY <1>1 DEF vars
<1>2. ASSUME NEW b \in Browsers, Continue(b) \/ Request(b) PROVE FrozenInv'
    BY <1>2, FrozenOne
<1>3. ASSUME NEW b \in Browsers, HealRestart(b) PROVE FrozenInv'
    BY <1>0, <1>3, OutcomeStart DEF HealRestart, Outcome, BeginStart
<1>4. ASSUME NEW b \in Browsers, SaveBack(b) PROVE FrozenInv'
    BY <1>0, <1>4, OutcomeStart DEF SaveBack, Outcome, BeginStart
<1>5. ASSUME NEW selected \in SUBSET Browsers, ExportBegin(selected) PROVE FrozenInv'
    BY <1>5 DEF ExportBegin
<1>6. ASSUME NEW b \in Browsers, ExportStop(b) PROVE FrozenInv'
    BY <1>0, <1>6 DEF ExportStop
<1>7. CASE ExportCopy \/ ExportEnd
    BY <1>7 DEF ExportCopy, ExportEnd
<1>8. CASE SweepBegin \/ SweepEnd
    BY <1>8 DEF SweepBegin, SweepEnd
<1>9. CASE ShutdownBegin \/ ShutdownStep
    BY <1>9 DEF ShutdownBegin, ShutdownStep, ShutdownSaved, ShutdownRemoved, ShutdownStop, ShutdownEnd
<1>10. CASE Reboot
    BY <1>10 DEF Reboot
<1> QED
    BY <1>1, <1>2, <1>3, <1>4, <1>5, <1>6, <1>7, <1>8, <1>9, <1>10 DEF Next, ExportStep

\* While an export copies, no selected profile has a Chrome and nothing is about to write to it.
THEOREM ExportCopiesFrozen == Spec => []ExportFrozen
<1>1. Init => FrozenInv
    BY DEF Init, FrozenInv
<1>2. TypeOK /\ FrozenInv => ExportFrozen
    BY DEF FrozenInv, Frozen, ExportFrozen, TypeOK
<1> QED BY <1>1, <1>2, InitTypeOK, NextTypeOK, FrozenStep, PTL DEF Spec

-------------------------------------------------------------------------------
(* No listener outlives its Chrome. *)

LEMMA StopClosesListeners ==
    ASSUME proxies \in [Browsers -> BOOLEAN], NEW b \in Browsers, StopInternal(b)
    PROVE  \A c \in Browsers : proxies'[c] => proxies[c]
BY DEF StopInternal, CloseListener, stopVars

\* Only a start opens a listener.
LEMMA ListenerFrame ==
    ASSUME TypeOK, Next, ~Reboot, \A b \in Browsers : ~Chrome(b)
    PROVE  \A c \in Browsers : proxies'[c] => proxies[c]
<1> USE DEF stopVars
<1>0. proxies \in [Browsers -> BOOLEAN]
    BY DEF TypeOK
<1>1. ASSUME NEW b \in Browsers, Continue(b) \/ Request(b)
      PROVE  \A c \in Browsers : proxies'[c] => proxies[c]
    <2>1. CASE StopStep(b)
        BY <2>1 DEF StopStep, Chrome, ListenerClosed, StopDone, StopFail
    <2>2. CASE DeleteStep(b) \/ ReapStep(b)
        BY <2>2 DEF DeleteStep, DestroyRows, DestroyEnds, ReapStep, ReapClosed, ReapRemoved
    <2>3. CASE SaveStep(b) \/ MoveStep(b)
        BY <1>0, <2>3, StopClosesListeners
        DEF SaveStep, SaveStop, SaveCopied, MoveStep, MoveLands, Chrome
    <2>4. CASE Request(b)
        <3>1. CASE Stop(b) \/ Destroy(b) \/ ReapIdle(b) \/ Move(b)
            BY <1>0, <3>1, StopClosesListeners DEF Stop, Destroy, ReapIdle, Move
        <3>2. CASE MarkUnhealthy(b)
            BY <3>2 DEF MarkUnhealthy
        <3> QED BY <2>4, <3>1, <3>2 DEF Request, Chrome
    <2> QED BY <1>1, <2>1, <2>2, <2>3, <2>4 DEF Continue, Chrome
<1>2. ASSUME NEW selected \in SUBSET Browsers, ExportBegin(selected) PROVE UNCHANGED proxies
    BY <1>2 DEF ExportBegin
<1>3. ASSUME NEW b \in Browsers, ExportStop(b) \/ ShutdownStop(b)
      PROVE  \A c \in Browsers : proxies'[c] => proxies[c]
    BY <1>0, <1>3, StopClosesListeners DEF ExportStop, ShutdownStop
<1>4. CASE SweepBegin \/ SweepEnd \/ ExportCopy \/ ExportEnd
    BY <1>4 DEF SweepBegin, SweepEnd, ExportCopy, ExportEnd
<1>5. CASE ShutdownBegin \/ ShutdownSaved \/ ShutdownRemoved \/ ShutdownEnd
    BY <1>5 DEF ShutdownBegin, ShutdownSaved, ShutdownRemoved, ShutdownEnd
<1> QED BY <1>1, <1>2, <1>3, <1>4, <1>5 DEF Next, Chrome, ExportStep, ShutdownStep

LEMMA ListenerStep == TypeOK /\ NoOrphanListener /\ [Next]_vars => NoOrphanListener'
<1> SUFFICES ASSUME TypeOK, NoOrphanListener, [Next]_vars PROVE NoOrphanListener'
    OBVIOUS
<1> USE DEF NoOrphanListener
<1>0. /\ runtime \in [Browsers -> {"none", "live", "exited"}]
      /\ starting \in [Browsers -> StartStage]
      /\ proxies \in [Browsers -> BOOLEAN]
    BY DEF TypeOK
<1>1. CASE UNCHANGED vars
    BY <1>1 DEF vars
<1>2. CASE Next /\ ~Reboot /\ \A b \in Browsers : ~Chrome(b)
    BY <1>2, ChromeFrame, ListenerFrame DEF startVars
<1>3. CASE Reboot
    BY <1>3 DEF Reboot
<1>4. ASSUME NEW b \in Browsers, Chrome(b) PROVE NoOrphanListener'
    <2>1. CASE EnsureRunning(b)
        BY <1>0, <2>1, OutcomeStart DEF EnsureRunning, Outcome, BeginStart
    <2>2. CASE HealRestart(b)
        BY <1>0, <2>2, OutcomeStart DEF HealRestart, Outcome, BeginStart
    <2>3. CASE SaveBack(b)
        BY <1>0, <2>3, OutcomeStart DEF SaveBack, Outcome, BeginStart
    <2>4. CASE MoveSettles(b)
        BY <1>0, <2>4, OutcomeStart DEF MoveSettles, BeginStart
    <2>5. CASE Queue(b) \/ AdmitFail(b) \/ Admit(b) \/ OpenProxy(b)
        BY <1>0, <2>5 DEF Queue, AdmitFail, Admit, OpenProxy, EndStart
    <2>6. CASE Launched(b)
        BY <1>0, <2>6 DEF Launched, EndStart
    <2>7. CASE Version(b) \/ StartFail(b) \/ StartFailed(b)
        BY <1>0, <2>7 DEF Version, StartFail, StartFailed, EndStart
    <2>8. CASE ChromeExit(b)
        BY <1>0, <2>8 DEF ChromeExit, stopVars
    <2>9. CASE Killed(b)
        BY <1>0, <2>9 DEF Killed, CloseListener
    <2>10. CASE ReapExited(b)
        BY <1>0, <2>10 DEF ReapExited
    <2>11. CASE SaveBegin(b)
        BY <1>0, <2>11 DEF SaveBegin, startVars, stopVars
    <2> QED
        BY <1>4, <2>1, <2>2, <2>3, <2>4, <2>5, <2>6, <2>7, <2>8, <2>9, <2>10, <2>11
        DEF Chrome, StartStep
<1> QED BY <1>1, <1>2, <1>3, <1>4

\* Every path that loses a runtime closes its listener.
THEOREM NoListenerLeaks == Spec => []NoOrphanListener
<1>1. Init => NoOrphanListener
    BY DEF Init, NoOrphanListener
<1> QED BY <1>1, InitTypeOK, NextTypeOK, ListenerStep, PTL DEF Spec
===============================================================================
