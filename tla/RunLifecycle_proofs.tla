------------------------ MODULE RunLifecycle_proofs ------------------------
(***************************************************************************)
(* Theorems of RunLifecycle, for any number of runs, refs, workers and     *)
(* faults.                                                                 *)
(***************************************************************************)
EXTENDS RunLifecycle, TLAPS

-----------------------------------------------------------------------------
(* What the operators on rows return *)

\* Every column update of the runs table yields a row.
LEMMA RowUpdates ==
  ASSUME NEW row \in Row, NEW s \in Statuses, NEW p \in Phases, NEW b \in BOOLEAN
  PROVE  /\ row.status \in Statuses /\ row.phase \in Phases
         /\ row.job \in BOOLEAN /\ row.started \in BOOLEAN /\ row.steps \in BOOLEAN
         /\ row.superseded \in BOOLEAN /\ row.unsure \in BOOLEAN
         /\ [row EXCEPT !.status = s] \in Row
         /\ [row EXCEPT !.phase = p] \in Row
         /\ [row EXCEPT !.job = b] \in Row
         /\ [row EXCEPT !.started = b] \in Row
         /\ [row EXCEPT !.steps = b] \in Row
         /\ [row EXCEPT !.superseded = b] \in Row
         /\ [row EXCEPT !.unsure = b] \in Row
BY DEF Row

\* The compound updates: resetRunAfterRestartTx, finishRunTx.
LEMMA RowOperators ==
  ASSUME NEW row \in Row, NEW s \in Statuses, NEW p \in Phases
  PROVE  ResetRow(row) \in Row /\ FinishRow(row, s, p) \in Row
<1>1. "queued" \in Statuses /\ "queued" \in Phases BY DEF Statuses, Phases
<1>2. ResetRow(row) \in Row BY <1>1 DEF Row, ResetRow
<1>3. FinishRow(row, s, p) \in Row BY DEF Row, FinishRow
<1> QED BY <1>2, <1>3

\* A write of run_cancellations yields an obligation.
LEMMA UpsertType ==
  ASSUME TypeOK, NEW r \in Runs, NEW job \in BOOLEAN,
         NEW reason \in {"superseded", "owner_restart"}
  PROVE  Upsert(r, job, reason) \in Obligation
BY DEF TypeOK, Upsert, Obligation

\* Closing, opening or naming an obligation keeps it one.
LEMMA ObligationUpdates ==
  ASSUME NEW row \in Obligation, NEW b \in BOOLEAN
  PROVE  /\ row.open \in BOOLEAN /\ row.job \in BOOLEAN
         /\ [row EXCEPT !.open = b] \in Obligation
         /\ [row EXCEPT !.job = b] \in Obligation
BY DEF Obligation

\* The initial records.
LEMMA Empty == NoRow \in Row /\ NoObligation \in Obligation /\ NoSettle \in Settlement
BY DEF NoRow, Row, Statuses, Phases, NoObligation, Obligation, NoSettle, Settlement

\* The fault counter stays within its bound.
LEMMA FaultsBounded ==
  ASSUME TypeOK, NoFault \/ \E k \in Faults : Fault(k)
  PROVE  faults' \in 0 .. MaxFaults
BY FaultsAssumption DEF TypeOK, NoFault, Fault

\* The snapshot of the ledger a cancellation pass takes.
LEMMA SnapshotType ==
  ASSUME TypeOK, NEW rs \in SUBSET Runs
  PROVE  Snapshot(rs) \in SUBSET Entry
<1>1. \A r \in rs : can[r] \in Obligation BY DEF TypeOK
<1>2. \A r \in rs : [id |-> r, row |-> can[r], gone |-> FALSE] \in Entry
  BY <1>1 DEF Entry
<1> QED BY <1>2 DEF Snapshot

\* A process that stops leaves well-typed state behind.
LEMMA StopType ==
  ASSUME TypeOK, Stop, UNCHANGED <<durable, cluster>>, faults' \in 0 .. MaxFaults
  PROVE  TypeOK'
<1>1. NoSettle \in Settlement BY Empty
<1>2. "none" \in Phases /\ "none" \in WorkerStates BY DEF Phases, WorkerStates
<1> QED BY <1>1, <1>2 DEF TypeOK, Stop, durable, cluster

LEMMA TypeInit == Init => TypeOK
<1> SUFFICES ASSUME Init PROVE TypeOK OBVIOUS
<1>1. "none" \in Phases /\ "none" \in WorkerStates BY DEF Phases, WorkerStates
<1>2. faults \in 0 .. MaxFaults BY FaultsAssumption DEF Init
<1>3. wake \in BOOLEAN /\ asked \in SUBSET Runs /\ pass \in [Agents -> SUBSET Entry]
  BY DEF Init
<1>4. settle \in [Runs -> Settlement] /\ run \in [Runs -> Row] /\ can \in [Runs -> Obligation]
  BY Empty DEF Init
<1> QED BY <1>1, <1>2, <1>3, <1>4 DEF Init, TypeOK

-----------------------------------------------------------------------------
(* Type correctness, one step per action *)

\* The columns of a row a worker may write have the right values.
LEMMA Literals ==
  /\ {"queued", "running", "passed", "failed", "interrupted"} \subseteq Statuses
  /\ {"none", "queued", "waiting", "running", "infrastructure-pending", "publishing",
      "passed", "job", "infrastructure", "interrupted", "cancelled", "abandoned"}
       \subseteq Phases
BY DEF Statuses, Phases

\* MarkRunCreatePending's row and obligation, registerCreateCleanup's entry, and
\* what CompleteObservedRunCancellation leaves.
LEMMA PendingType ==
  ASSUME TypeOK, NEW r \in Runs
  PROVE  PendingRow(r) \in [Runs -> Row] /\ PendingObligation(r) \in [Runs -> Obligation]
<1>1. run[r] \in Row BY DEF TypeOK
<1>2. [run[r] EXCEPT !.unsure = TRUE,
                     !.phase = IF Running(r) THEN "infrastructure-pending" ELSE @] \in Row
  BY <1>1, RowUpdates, Literals
<1>3. PendingRow(r) \in [Runs -> Row] BY <1>2 DEF PendingRow, TypeOK
<1>4. PendingObligation(r) \in [Runs -> Obligation]
  BY UpsertType DEF PendingObligation, TypeOK
<1> QED BY <1>3, <1>4

LEMMA RegisterType ==
  ASSUME TypeOK, NEW r \in Runs, NEW b \in BOOLEAN
  PROVE  Register(r, b) \in [Runs -> Settlement]
<1>1. [NoSettle EXCEPT !.step = IF b THEN "armed" ELSE "todo"] \in Settlement
  BY Empty DEF Settlement
<1> QED BY <1>1 DEF Register, TypeOK

LEMMA RetireType ==
  ASSUME TypeOK, NEW r \in Runs, RetireObserved(r)
  PROVE  run' \in [Runs -> Row] /\ can' \in [Runs -> Obligation]
<1>1. run[r] \in Row /\ can[r] \in Obligation BY DEF TypeOK
<1>2. [can[r] EXCEPT !.open = FALSE] \in Obligation BY <1>1, ObligationUpdates
<1>3. [run[r] EXCEPT !.unsure = @ /\ run[r].status # "interrupted"] \in Row
  BY <1>1, RowUpdates, Literals
<1> QED BY <1>2, <1>3 DEF RetireObserved, TypeOK

\* Scheduler.execute, from the claim to the submitted Workflow.
LEMMA CreateStepType ==
  ASSUME TypeOK, NEW r \in Runs, CreateStep(r) \/ ClaimNextRun(r)
  PROVE  TypeOK'
<1>1. run[r] \in Row /\ can[r] \in Obligation BY DEF TypeOK
<1>2. CASE ClaimNextRun(r)
  <2>1. [run[r] EXCEPT !.status = "running", !.phase = "waiting"] \in Row
    BY <1>1, RowUpdates, Literals
  <2> QED BY <1>2, <2>1 DEF ClaimNextRun, TypeOK, WorkerStates, Goto, cluster, NoFault
<1>3. CASE BeginExecute(r)
  BY <1>3 DEF BeginExecute, TypeOK, WorkerStates, Goto, cluster, NoFault
<1>4. CASE PolicyStopped(r)
  BY <1>4 DEF PolicyStopped, TypeOK, WorkerStates, Goto, durable, cluster, NoFault
<1>5. CASE FailBeforeCreate(r)
  <2>1. FinishRow(run[r], "failed", "infrastructure") \in Row BY <1>1, RowOperators, Literals
  <2> QED BY <1>5, <2>1 DEF FailBeforeCreate, TypeOK, WorkerStates, Goto, cluster, NoFault
<1>6. CASE SetRunWorkflowName(r)
  <2>1. [run[r] EXCEPT !.job = TRUE] \in Row BY <1>1, RowUpdates, Literals
  <2>2. Upsert(r, TRUE, "superseded") \in Obligation BY UpsertType
  <2>3. [can[r] EXCEPT !.job = TRUE] \in Obligation BY <1>1, ObligationUpdates
  <2> QED BY <1>6, <2>1, <2>2, <2>3
          DEF SetRunWorkflowName, TypeOK, WorkerStates, Goto, cluster, NoFault
<1>7. CASE MarkRunAdmitted(r)
  <2>1. [run[r] EXCEPT !.started = TRUE] \in Row BY <1>1, RowUpdates, Literals
  <2>2. run' \in [Runs -> Row] BY <1>7, <2>1 DEF MarkRunAdmitted, TypeOK
  <2>3. wk' \in [Runs -> WorkerStates]
    BY <1>7 DEF MarkRunAdmitted, Goto, WorkerStates, TypeOK
  <2> QED BY <1>7, <2>2, <2>3 DEF MarkRunAdmitted, TypeOK, cluster, NoFault
<1>8. CASE RecheckBeforeCreate(r)
  BY <1>8 DEF RecheckBeforeCreate, TypeOK, WorkerStates, Goto, cluster, NoFault
<1>9. CASE ReserveIntent(r)
  BY <1>9 DEF ReserveIntent, TypeOK, WorkerStates, Goto, durable, cluster, NoFault
<1>10. CASE AbortEarly(r)
  <2>1. FinishRow(run[r], "failed", "infrastructure") \in Row BY <1>1, RowOperators, Literals
  <2> QED BY <1>10, <2>1 DEF AbortEarly, TypeOK, WorkerStates, Goto, cluster, NoFault
<1>11. CASE SendCreate(r)
  BY <1>11 DEF SendCreate, TypeOK, WorkerStates, Goto, durable, NoFault
<1>12. CASE MarkRunSubmitted(r)
  <2>1. [run[r] EXCEPT !.phase = "running", !.started = TRUE] \in Row
    BY <1>1, RowUpdates, Literals
  <2>2. run' \in [Runs -> Row] BY <1>12, <2>1 DEF MarkRunSubmitted, TypeOK
  <2>3. wk' \in [Runs -> WorkerStates]
    BY <1>12 DEF MarkRunSubmitted, Goto, WorkerStates, TypeOK
  <2> QED BY <1>12, <2>2, <2>3 DEF MarkRunSubmitted, TypeOK, cluster, NoFault
<1>13. CASE RearmRunCancellation(r)
  <2>1. Upsert(r, TRUE, "superseded") \in Obligation BY UpsertType
  <2>2. [can[r] EXCEPT !.open = TRUE, !.job = TRUE] \in Obligation
    BY <1>1, ObligationUpdates
  <2> QED BY <1>13, <2>1, <2>2
          DEF RearmRunCancellation, TypeOK, WorkerStates, Goto, cluster, NoFault
<1>14. CASE CompleteRunCancellation(r)
  <2>1. [can[r] EXCEPT !.open = @ /\ ~can[r].job] \in Obligation BY <1>1, ObligationUpdates
  <2> QED BY <1>14, <2>1
          DEF CompleteRunCancellation, CompleteByName, TypeOK, WorkerStates, Goto, cluster, NoFault
<1>15. CASE LeaveRun(r)
  <2> DEFINE done == ~can[r].job /\ can[r].reason = "superseded" /\ Preempted(r)
  <2>1. [can[r] EXCEPT !.open = @ /\ ~done] \in Obligation
    BY <1>1, ObligationUpdates
  <2>2. can' \in [Runs -> Obligation]
    BY <1>15, <2>1 DEF LeaveRun, CompleteWithoutJob, TypeOK
  <2> QED BY <1>15, <2>2 DEF LeaveRun, TypeOK, WorkerStates, Goto, cluster, NoFault
<1>16. ASSUME NEW ok \in BOOLEAN, AfterCreate(r, ok) PROVE TypeOK'
  <2>1. FinishRow(run[r], "failed", "infrastructure") \in Row BY <1>1, RowOperators, Literals
  <2>2. faults' \in 0 .. MaxFaults
    BY <1>16, FaultsBounded DEF AfterCreate, Faults
  <2> QED BY <1>16, <2>1, <2>2
          DEF AfterCreate, Cancelled, TypeOK, WorkerStates, Goto
<1>17. ASSUME NEW ok \in BOOLEAN, DeletePreempted(r, ok) PROVE TypeOK'
  <2>1. faults' \in 0 .. MaxFaults
    BY <1>17, FaultsBounded DEF DeletePreempted, Delete, Faults
  <2> QED BY <1>17, <2>1
          DEF DeletePreempted, Delete, Cancelled, TypeOK, WorkerStates, Goto, durable
<1>18. CASE SubmitUnverified(r)
  <2>1. [run[r] EXCEPT !.phase = "running", !.started = TRUE] \in Row
    BY <1>1, RowUpdates, Literals
  <2>2. run' \in [Runs -> Row] BY <1>18, <2>1 DEF SubmitUnverified, TypeOK
  <2>3. wk' \in [Runs -> WorkerStates]
    BY <1>18 DEF SubmitUnverified, Goto, WorkerStates, TypeOK
  <2>4. faults' \in 0 .. MaxFaults BY <1>18, FaultsBounded DEF SubmitUnverified, Faults
  <2> QED BY <1>18, <2>2, <2>3, <2>4 DEF SubmitUnverified, TypeOK, cluster
<1>19. ASSUME NEW ok \in BOOLEAN, DeleteUnverified(r, ok) PROVE TypeOK'
  <2>1. faults' \in 0 .. MaxFaults
    BY <1>19, FaultsBounded DEF DeleteUnverified, Delete, Faults
  <2> QED BY <1>19, <2>1
          DEF DeleteUnverified, Delete, Cancelled, TypeOK, WorkerStates, Goto, durable
<1>20. CASE FailUnverified(r)
  <2>1. FinishRow(run[r], "failed", "infrastructure") \in Row BY <1>1, RowOperators, Literals
  <2> QED BY <1>20, <2>1 DEF FailUnverified, TypeOK, WorkerStates, Goto, cluster, NoFault
<1> QED BY <1>2, <1>3, <1>4, <1>5, <1>6, <1>7, <1>8, <1>9, <1>10, <1>11, <1>12, <1>13,
           <1>14, <1>15, <1>16, <1>17, <1>18, <1>19, <1>20 DEF CreateStep

\* Scheduler.observeRun, from the submitted Workflow to the verdict, with the
\* passes and the hand-over to the settlement a worker performs.
LEMMA ObserveStepType ==
  ASSUME TypeOK, NEW r \in Runs, ObserveStep(r)
  PROVE  TypeOK'
<1>1. run[r] \in Row /\ can[r] \in Obligation BY DEF TypeOK
<1>2. CASE ResumeAdopted(r)
  <2>1. [run[r] EXCEPT !.phase = IF @ = "waiting" THEN "running" ELSE @, !.started = TRUE] \in Row
    BY <1>1, RowUpdates, Literals
  <2>2. run' \in [Runs -> Row] BY <1>2, <2>1 DEF ResumeAdopted, TypeOK
  <2>3. wk' \in [Runs -> WorkerStates]
    BY <1>2 DEF ResumeAdopted, Goto, WorkerStates, TypeOK
  <2> QED BY <1>2, <2>2, <2>3 DEF ResumeAdopted, TypeOK, cluster, NoFault
<1>3. CASE WaitReturns(r)
  BY <1>3 DEF WaitReturns, TypeOK, WorkerStates, Goto, durable, cluster, NoFault
<1>4. CASE WaitFails(r)
  <2>1. faults' \in 0 .. MaxFaults BY <1>4, FaultsBounded DEF WaitFails, Faults
  <2> QED BY <1>4, <2>1 DEF WaitFails, TypeOK, WorkerStates, Goto, durable, cluster
<1>5. CASE ReadTerminal(r)
  BY <1>5 DEF ReadTerminal, TypeOK, WorkerStates, Goto, durable, cluster, NoFault
<1>6. ASSUME NEW ok \in BOOLEAN, DeleteUnobserved(r, ok) PROVE TypeOK'
  <2>1. faults' \in 0 .. MaxFaults
    BY <1>6, FaultsBounded DEF DeleteUnobserved, Delete, Faults
  <2>2. wk' \in [Runs -> WorkerStates]
    BY <1>6 DEF DeleteUnobserved, Goto, WorkerStates, TypeOK
  <2> QED BY <1>6, <2>1, <2>2 DEF DeleteUnobserved, Delete, Cancelled, TypeOK, durable
<1>7. CASE PersistSteps(r)
  <2>1. [run[r] EXCEPT !.steps = TRUE] \in Row BY <1>1, RowUpdates, Literals
  <2>2. run' \in [Runs -> Row] BY <1>7, <2>1 DEF PersistSteps, TypeOK
  <2> QED BY <1>7, <2>2 DEF PersistSteps, TypeOK, WorkerStates, Goto, cluster, NoFault
<1>8. CASE BeginPublication(r)
  <2>1. [run[r] EXCEPT !.phase = "publishing"] \in Row BY <1>1, RowUpdates, Literals
  <2> QED BY <1>8, <2>1 DEF BeginPublication, TypeOK, WorkerStates, Goto, cluster, NoFault
<1>9. CASE FinishRun(r)
  <2>1. /\ FinishRow(run[r], "failed", "job") \in Row
        /\ FinishRow(run[r], "failed", "publishing") \in Row
    BY <1>1, RowOperators, Literals
  <2>2. run' \in [Runs -> Row] BY <1>9, <2>1 DEF FinishRun, TypeOK
  <2> QED BY <1>9, <2>2 DEF FinishRun, TypeOK, WorkerStates, Goto, cluster, NoFault
<1>10. ASSUME NEW ok \in BOOLEAN, DeliveryReturns(r, ok) PROVE TypeOK'
  <2>1. faults' \in 0 .. MaxFaults
    BY <1>10, FaultsBounded DEF DeliveryReturns, NoFault, TypeOK, Faults
  <2> QED BY <1>10, <2>1 DEF DeliveryReturns, TypeOK, WorkerStates, Goto, durable, cluster
<1>11. CASE DeferCreateCleanup(r)
  <2>1. run' \in [Runs -> Row] /\ can' \in [Runs -> Obligation]
    BY <1>11, PendingType DEF DeferCreateCleanup, TypeOK
  <2>2. settle' \in [Runs -> Settlement] BY <1>11, RegisterType DEF DeferCreateCleanup
  <2> QED BY <1>11, <2>1, <2>2 DEF DeferCreateCleanup, TypeOK, WorkerStates, Goto, cluster, NoFault
<1>12. CASE WorkerPass(r)
  <2>1. pass' \in [Agents -> SUBSET Entry] BY <1>12, SnapshotType DEF WorkerPass, TypeOK
  <2> QED BY <1>12, <2>1 DEF WorkerPass, TypeOK, WorkerStates, Goto, durable, cluster, NoFault
<1>13. CASE WorkerPassEnds(r)
  BY <1>13 DEF WorkerPassEnds, TypeOK, WorkerStates, Goto, durable, cluster, NoFault
<1> QED BY <1>2, <1>3, <1>4, <1>5, <1>6, <1>7, <1>8, <1>9, <1>10, <1>11, <1>12, <1>13
        DEF ObserveStep

\* The settlement task.
LEMMA SettleStepType ==
  ASSUME TypeOK, NEW r \in Runs, SettleStep(r)
  PROVE  TypeOK'
<1>1. run[r] \in Row /\ can[r] \in Obligation /\ settle[r] \in Settlement BY DEF TypeOK
<1>2. \A x \in {"none", "todo", "armed", "gone", "confirmed", "finished"} :
         /\ [settle[r] EXCEPT !.step = x] \in Settlement
         /\ [NoSettle EXCEPT !.step = x] \in Settlement
  BY <1>1, Empty DEF Settlement
<1>3. CASE MarkRunCreatePending(r)
  <2>1. run' \in [Runs -> Row] /\ can' \in [Runs -> Obligation]
    BY <1>3, PendingType DEF MarkRunCreatePending
  <2>2. settle' \in [Runs -> Settlement] BY <1>2, <1>3 DEF MarkRunCreatePending, TypeOK
  <2> QED BY <1>3, <2>1, <2>2 DEF MarkRunCreatePending, TypeOK, cluster, NoFault
<1>4. CASE SettleDeletes(r)
  BY <1>4 DEF SettleDeletes, TypeOK, durable, memory, NoFault
<1>5. CASE SettleSeesAbsence(r)
  <2>1. [step |-> "gone", row |-> can[r]] \in Settlement BY <1>1 DEF Settlement
  <2> QED BY <1>5, <2>1 DEF SettleSeesAbsence, TypeOK, durable, cluster, NoFault
<1>6. CASE SettleCompletes(r)
  <2>1. run' \in [Runs -> Row] /\ can' \in [Runs -> Obligation]
    BY <1>6, RetireType DEF SettleCompletes, TypeOK
  <2>2. settle' \in [Runs -> Settlement] BY <1>2, <1>6 DEF SettleCompletes, TypeOK
  <2> QED BY <1>6, <2>1, <2>2 DEF SettleCompletes, TypeOK, cluster, NoFault
<1>7. CASE SettleFinishes(r)
  <2>1. FinishRow(run[r], "failed", "infrastructure") \in Row BY <1>1, RowOperators, Literals
  <2>2. run' \in [Runs -> Row] BY <1>1, <1>7, <2>1 DEF SettleFinishes, TypeOK
  <2>3. settle' \in [Runs -> Settlement] BY <1>2, <1>7 DEF SettleFinishes, TypeOK
  <2> QED BY <1>7, <2>2, <2>3 DEF SettleFinishes, TypeOK, cluster, NoFault
<1>8. CASE SettleReleases(r)
  <2>1. settle' \in [Runs -> Settlement] BY <1>2, <1>8, Empty DEF SettleReleases, TypeOK
  <2>2. wake' \in BOOLEAN BY <1>8 DEF SettleReleases, TypeOK
  <2> QED BY <1>8, <2>1, <2>2 DEF SettleReleases, TypeOK, durable, cluster, NoFault
<1> QED BY <1>3, <1>4, <1>5, <1>6, <1>7, <1>8 DEF SettleStep

\* Enqueue, cancel and publication retry; the outbox; the cluster.
LEMMA RequestType ==
  ASSUME TypeOK, NEW r \in Runs, Requests(r) \/ Deliver(r) \/ CreateTimesOut(r)
  PROVE  TypeOK'
<1>1. \A x \in Runs : run[x] \in Row /\ can[x] \in Obligation BY DEF TypeOK
<1>2. ASSUME NEW head \in BOOLEAN, NEW force \in BOOLEAN, enqueueRun(r, head, force)
      PROVE  TypeOK'
  <2> DEFINE old == SupersededBy(r, head, force)
             owing == ObligedRuns(old)
  <2>1. [NoRow EXCEPT !.status = "queued", !.phase = "queued"] \in Row
    BY Empty, RowUpdates, Literals
  <2>2. ASSUME NEW x \in Runs
        PROVE  [run[x] EXCEPT !.status = "interrupted", !.phase = "interrupted",
                              !.superseded = TRUE] \in Row
    BY <1>1, RowUpdates, Literals
  <2>3. run' \in [Runs -> Row] BY <1>1, <1>2, <2>1, <2>2 DEF enqueueRun
  <2>4. ASSUME NEW x \in Runs
        PROVE  /\ Upsert(x, run[x].job, "owner_restart") \in Obligation
               /\ Upsert(x, run[x].job, "superseded") \in Obligation
    BY <1>1, UpsertType, RowUpdates, Literals
  <2>5. can' \in [Runs -> Obligation] BY <1>1, <1>2, <2>4 DEF enqueueRun
  <2>6. asked' \in SUBSET Runs
    BY <1>2 DEF enqueueRun, ObligedRuns, SupersededBy, TypeOK
  <2>7. wake' \in BOOLEAN BY <1>2 DEF enqueueRun
  <2> QED BY <1>2, <2>3, <2>5, <2>6, <2>7 DEF enqueueRun, TypeOK, cluster, NoFault
<1>3. CASE CancelRun(r)
  <2>1. [run[r] EXCEPT !.status = "interrupted", !.phase = "cancelled",
                       !.unsure = @ /\ run[r].phase = "infrastructure-pending"] \in Row
    BY <1>1, RowUpdates, Literals
  <2>2. run' \in [Runs -> Row] BY <1>3, <2>1 DEF CancelRun, TypeOK
  <2>3. /\ Upsert(r, run[r].job, "owner_restart") \in Obligation
        /\ Upsert(r, run[r].job, "superseded") \in Obligation
    BY <1>1, UpsertType, RowUpdates, Literals
  <2>4. can' \in [Runs -> Obligation] BY <1>3, <2>3 DEF CancelRun, TypeOK
  <2>5. asked' \in SUBSET Runs BY <1>3 DEF CancelRun, TypeOK
  <2>6. wake' \in BOOLEAN BY <1>3 DEF CancelRun
  <2> QED BY <1>3, <2>2, <2>4, <2>5, <2>6 DEF CancelRun, TypeOK, cluster, NoFault
<1>4. CASE RetryFailedPublication(r)
  <2>1. [run[r] EXCEPT !.status = "running", !.phase = "publishing", !.unsure = FALSE] \in Row
    BY <1>1, RowUpdates, Literals
  <2>2. run' \in [Runs -> Row] BY <1>4, <2>1 DEF RetryFailedPublication, TypeOK
  <2> QED BY <1>4, <2>2 DEF RetryFailedPublication, TypeOK, cluster, memory, NoFault
<1>5. ASSUME NEW outcome \in {"delivered", "failed", "abandoned"}, FinalizePublication(r, outcome)
      PROVE  TypeOK'
  <2>1. \A x \in Statuses, p \in Phases :
           [run[r] EXCEPT !.status = x, !.phase = p, !.unsure = FALSE] \in Row
    BY <1>1, RowUpdates
  <2>2. run' \in [Runs -> Row]
    BY <1>5, <2>1, Literals DEF FinalizePublication, TypeOK
  <2>3. faults' \in 0 .. MaxFaults BY <1>5, FaultsBounded DEF FinalizePublication, Faults
  <2> QED BY <1>5, <2>2, <2>3 DEF FinalizePublication, TypeOK, cluster, memory
<1>6. CASE CreateTimesOut(r)
  <2>1. faults' \in 0 .. MaxFaults BY <1>6, FaultsBounded DEF CreateTimesOut, Faults
  <2> QED BY <1>6, <2>1 DEF CreateTimesOut, TypeOK, WorkerStates, Goto, durable, cluster
<1> QED BY <1>2, <1>3, <1>4, <1>5, <1>6 DEF Requests, Deliver

LEMMA ClusterStepType ==
  ASSUME TypeOK, NEW r \in Runs, ClusterStep(r)
  PROVE  TypeOK'
<1>1. CASE PostLands(r)
  BY <1>1 DEF PostLands, TypeOK, WorkerStates, durable, NoFault
<1>2. CASE PostRefused(r)
  <2>1. FinishRow(run[r], "failed", "infrastructure") \in Row
    BY RowOperators, Literals DEF TypeOK
  <2>2. run' \in [Runs -> Row] BY <1>2, <2>1 DEF PostRefused, TypeOK
  <2>3. wk' \in [Runs -> WorkerStates] BY <1>2 DEF PostRefused, Goto, WorkerStates, TypeOK
  <2> QED BY <1>2, <2>2, <2>3 DEF PostRefused, TypeOK, NoFault
<1>3. CASE WorkflowGone(r)
  BY <1>3 DEF WorkflowGone, TypeOK, durable, memory, NoFault
<1>4. ASSUME NEW v \in {"passed", "failed"}, WorkflowFinishes(r, v) PROVE TypeOK'
  BY <1>4 DEF WorkflowFinishes, TypeOK, durable, memory, NoFault
<1> QED BY <1>1, <1>2, <1>3, <1>4 DEF ClusterStep

\* Cancellation passes.
LEMMA PassStepType ==
  ASSUME TypeOK, NEW a \in Agents, NEW e \in pass[a], PassStep(a, e)
  PROVE  TypeOK'
<1>1. e \in Entry /\ e.id \in Runs /\ e.row \in Obligation /\ e.gone \in BOOLEAN
  BY DEF TypeOK, Entry
<1>2. ASSUME Done(a, e) PROVE pass' \in [Agents -> SUBSET Entry] /\ wake' \in BOOLEAN
  BY <1>2 DEF Done, TypeOK
<1>3. CASE PassRegisters(a, e)
  <2>1. settle' \in [Runs -> Settlement]
    BY <1>1, <1>3, RegisterType DEF PassRegisters, isPendingCreate, TypeOK
  <2> QED BY <1>2, <1>3, <2>1 DEF PassRegisters, TypeOK, durable, cluster, NoFault
<1>4. ASSUME NEW ok \in BOOLEAN, PassDeletes(a, e, ok) PROVE TypeOK'
  <2>1. [e EXCEPT !.gone = TRUE] \in Entry BY <1>1 DEF Entry
  <2>2. pass' \in [Agents -> SUBSET Entry] BY <1>4, <2>1 DEF PassDeletes, TypeOK
  <2>3. faults' \in 0 .. MaxFaults BY <1>4, FaultsBounded DEF PassDeletes, Delete, Faults
  <2> QED BY <1>1, <1>4, <2>2, <2>3 DEF PassDeletes, Delete, Cancelled, TypeOK, durable
<1>5. CASE PassCompletes(a, e)
  <2>1. run' \in [Runs -> Row] /\ can' \in [Runs -> Obligation]
    BY <1>1, <1>5, RetireType DEF PassCompletes, TypeOK
  <2> QED BY <1>2, <1>5, <2>1 DEF PassCompletes, TypeOK, cluster, NoFault
<1>6. ASSUME NEW deletion \in BOOLEAN, PassFails(a, deletion), UNCHANGED <<durable, cluster>>,
             faults' \in 0 .. MaxFaults
      PROVE  TypeOK'
  <2>1. CASE Stop BY <1>6, <2>1, StopType
  <2> QED BY <1>6, <2>1 DEF PassFails, TypeOK, WorkerStates, Goto, durable, cluster
<1>7. CASE PassDeleteFails(a, e)
  <2>1. faults' \in 0 .. MaxFaults BY <1>7, FaultsBounded DEF PassDeleteFails, Faults
  <2> QED BY <1>6, <1>7, <2>1 DEF PassDeleteFails
<1>8. CASE PassConflicts(a, e)
  <2>1. faults' \in 0 .. MaxFaults BY <1>8 DEF PassConflicts, NoFault, TypeOK
  <2> QED BY <1>6, <1>8, <2>1 DEF PassConflicts
<1> QED BY <1>3, <1>4, <1>5, <1>7, <1>8 DEF PassStep

\* Startup: reconciliation of the runs the stopped process left.
LEMMA ReconcileStepType ==
  ASSUME TypeOK, NEW r \in Runs, ReconcileStep(r)
  PROVE  TypeOK'
<1>1. run[r] \in Row /\ can[r] \in Obligation BY DEF TypeOK
<1>2. "none" \in Phases BY Literals
<1>3. CASE ReconcileRegisters(r)
  <2>1. settle' \in [Runs -> Settlement] BY <1>3, RegisterType DEF ReconcileRegisters
  <2> QED BY <1>2, <1>3, <2>1 DEF ReconcileRegisters, Reconciled, TypeOK, durable, cluster, NoFault
<1>4. CASE ReconcileAdopts(r)
  BY <1>2, <1>4
  DEF ReconcileAdopts, Reconciled, TypeOK, WorkerStates, Goto, durable, cluster, NoFault
<1>5. CASE AdoptionRefused(r)
  BY <1>5, StopType DEF AdoptionRefused, NoFault, TypeOK
<1>6. CASE RequeueStrandedRun(r)
  <2>1. ResetRow(run[r]) \in Row BY <1>1, RowOperators, Literals
  <2>2. Upsert(r, TRUE, "owner_restart") \in Obligation BY UpsertType
  <2> QED BY <1>1, <1>2, <1>6, <2>1, <2>2
          DEF RequeueStrandedRun, Reconciled, TypeOK, cluster, NoFault
<1>7. CASE InterruptStrandedRun(r)
  <2>1. FinishRow(run[r], "interrupted", "interrupted") \in Row BY <1>1, RowOperators, Literals
  <2>2. [can[r] EXCEPT !.open = @ /\ ~can[r].job] \in Obligation BY <1>1, ObligationUpdates
  <2>3. run' \in [Runs -> Row] /\ can' \in [Runs -> Obligation]
    BY <1>7, <2>1, <2>2 DEF InterruptStrandedRun, CompleteByName, TypeOK
  <2> QED BY <1>2, <1>7, <2>3
          DEF InterruptStrandedRun, Reconciled, Delete, Cancelled, NoFault, TypeOK
<1>8. CASE ReconcileDeleteFails(r)
  <2>1. faults' \in 0 .. MaxFaults BY <1>8, FaultsBounded DEF ReconcileDeleteFails, Faults
  <2> QED BY <1>8, <2>1, StopType DEF ReconcileDeleteFails
<1> QED BY <1>3, <1>4, <1>5, <1>6, <1>7, <1>8 DEF ReconcileStep

\* The dispatch loop, the request handlers, startup, crash and recovery.
LEMMA ServerStepType ==
  ASSUME TypeOK, LoopPass \/ ApiPass \/ ReconcileEnds \/ StartupEnds
                 \/ Crash \/ FatalExit \/ RecoverOwnerState
  PROVE  TypeOK'
<1>1. CASE LoopPass
  <2>1. Snapshot(Runs) \in SUBSET Entry BY SnapshotType
  <2> QED BY <1>1, <2>1 DEF LoopPass, TypeOK, durable, cluster, NoFault
<1>2. CASE ApiPass
  <2>1. Snapshot(asked) \in SUBSET Entry BY SnapshotType DEF TypeOK
  <2> QED BY <1>2, <2>1 DEF ApiPass, TypeOK, durable, cluster, NoFault
<1>3. CASE ReconcileEnds
  BY <1>3 DEF ReconcileEnds, TypeOK, durable, cluster, NoFault
<1>4. CASE StartupEnds
  BY <1>4 DEF StartupEnds, TypeOK, durable, cluster, NoFault
<1>5. CASE Crash
  <2>1. faults' \in 0 .. MaxFaults BY <1>5, FaultsBounded DEF Crash, Faults
  <2> QED BY <1>5, <2>1, StopType DEF Crash
<1>6. CASE FatalExit
  BY <1>6, StopType DEF FatalExit, NoFault, TypeOK
<1>7. CASE RecoverOwnerState
  <2>1. ASSUME NEW r \in Runs PROVE RecoveredRow(r) \in Row
    <3>1. run[r] \in Row BY DEF TypeOK
    <3>2. ResetRow(run[r]) \in Row BY <3>1, RowOperators, Literals
    <3>3. [run[r] EXCEPT !.status = "interrupted", !.phase = "interrupted"] \in Row
      BY <3>1, RowUpdates, Literals
    <3> QED BY <3>1, <3>2, <3>3 DEF RecoveredRow
  <2>2. run' \in [Runs -> Row] BY <1>7, <2>1 DEF RecoverOwnerState
  <2>3. ASSUME NEW r \in Runs
        PROVE  [can[r] EXCEPT !.open = @ /\ ~RetiredAtRestart(r)] \in Obligation
    BY ObligationUpdates DEF TypeOK
  <2>4. can' \in [Runs -> Obligation] BY <1>7, <2>3 DEF RecoverOwnerState
  <2>5. \A r \in Runs : run'[r].phase \in Phases BY <2>2 DEF Row
  <2>6. todo' \in [Runs -> Phases] BY <1>7, <2>5, Literals DEF RecoverOwnerState
  <2> QED BY <1>7, <2>2, <2>4, <2>6 DEF RecoverOwnerState, TypeOK, cluster, NoFault
<1> QED BY <1>1, <1>2, <1>3, <1>4, <1>5, <1>6, <1>7

LEMMA TypeStep == TypeOK /\ [Next]_vars => TypeOK'
<1> SUFFICES ASSUME TypeOK, [Next]_vars PROVE TypeOK' OBVIOUS
<1>1. CASE UNCHANGED vars
  BY <1>1 DEF vars, durable, cluster, memory, TypeOK
<1>2. CASE Next
  BY <1>2, CreateStepType, ObserveStepType, SettleStepType, RequestType, ClusterStepType,
     PassStepType, ReconcileStepType, ServerStepType DEF Next, WorkerStep
<1> QED BY <1>1, <1>2

\* Type correctness of every reachable state, with any number of runs and faults.
THEOREM TypeCorrect == Spec => []TypeOK
<1> QED BY TypeInit, TypeStep, PTL DEF Spec

-----------------------------------------------------------------------------
(* Verdicts are final *)

LEMMA SameRuns == run' = run => KeepsVerdicts
BY DEF KeepsVerdicts

\* A step that writes one row keeps verdicts when it writes no terminal row or
\* leaves its status alone.
LEMMA OneRow ==
  ASSUME TypeOK, NEW r \in Runs, NEW row, run' = [run EXCEPT ![r] = row],
         run[r].status \in Terminal => row.status = run[r].status
  PROVE  KeepsVerdicts
BY DEF TypeOK, KeepsVerdicts

\* A step that writes only the row of a run without a verdict keeps verdicts.
LEMMA OpenRow ==
  ASSUME NEW r \in Runs, run[r].status \notin Terminal,
         \A x \in Runs \ {r} : run'[x] = run[x]
  PROVE  KeepsVerdicts
BY DEF KeepsVerdicts

\* finishRunTx takes no verdict away.
LEMMA FinishKeeps ==
  ASSUME NEW row, NEW s, NEW p, row.status \in Terminal
  PROVE  FinishRow(row, s, p).status = row.status
BY DEF FinishRow, Terminal

\* MarkRunCreatePending changes no status.
LEMMA PendingKeeps ==
  ASSUME TypeOK, NEW r \in Runs, run' = PendingRow(r)
  PROVE  KeepsVerdicts
<1> DEFINE row == [run[r] EXCEPT !.unsure = TRUE,
                                 !.phase = IF Running(r) THEN "infrastructure-pending" ELSE @]
<1>1. run[r] \in Row BY DEF TypeOK
<1>2. row.status = run[r].status BY <1>1 DEF Row
<1>3. run' = [run EXCEPT ![r] = row] BY DEF PendingRow
<1> HIDE DEF row
<1> QED BY <1>2, <1>3, OneRow

LEMMA CreateKeeps ==
  ASSUME TypeOK, NEW r \in Runs, CreateStep(r) \/ ClaimNextRun(r)
  PROVE  KeepsVerdicts
<1>1. run[r] \in Row BY DEF TypeOK
<1>2. CASE ClaimNextRun(r)
  <2>1. run[r].status \notin Terminal BY <1>2 DEF ClaimNextRun, Claimable, Terminal
  <2>2. \A x \in Runs \ {r} : run'[x] = run[x] BY <1>2 DEF ClaimNextRun, TypeOK
  <2> QED BY <2>1, <2>2, OpenRow
<1>3. CASE FailBeforeCreate(r) BY <1>3, OneRow, FinishKeeps DEF FailBeforeCreate
<1>4. CASE AbortEarly(r) BY <1>4, OneRow, FinishKeeps DEF AbortEarly
<1>5. CASE SetRunWorkflowName(r)
  <2>1. [run[r] EXCEPT !.job = TRUE].status = run[r].status BY <1>1 DEF Row
  <2> QED BY <1>5, <2>1, OneRow DEF SetRunWorkflowName
<1>6. CASE MarkRunAdmitted(r)
  <2>1. [run[r] EXCEPT !.started = TRUE].status = run[r].status BY <1>1 DEF Row
  <2> QED BY <1>6, <2>1, OneRow, SameRuns DEF MarkRunAdmitted
<1>7. CASE MarkRunSubmitted(r)
  BY <1>7, OneRow, SameRuns DEF MarkRunSubmitted, Running, Terminal
<1>8. ASSUME NEW ok \in BOOLEAN, AfterCreate(r, ok) PROVE KeepsVerdicts
  BY <1>8, OneRow, FinishKeeps, SameRuns DEF AfterCreate
<1>9. CASE BeginExecute(r) \/ PolicyStopped(r) \/ RecheckBeforeCreate(r) \/ ReserveIntent(r)
           \/ SendCreate(r) \/ RearmRunCancellation(r) \/ CompleteRunCancellation(r)
           \/ LeaveRun(r)
           \/ \E ok \in BOOLEAN : DeletePreempted(r, ok) \/ DeleteUnverified(r, ok)
  BY <1>9, SameRuns DEF BeginExecute, PolicyStopped, RecheckBeforeCreate, ReserveIntent,
     SendCreate, RearmRunCancellation, CompleteRunCancellation, LeaveRun, DeletePreempted,
     DeleteUnverified, durable
<1>10. CASE SubmitUnverified(r)
  BY <1>10, OneRow, SameRuns DEF SubmitUnverified, Running, Terminal
<1>11. CASE FailUnverified(r) BY <1>11, OneRow, FinishKeeps DEF FailUnverified
<1> QED BY <1>2, <1>3, <1>4, <1>5, <1>6, <1>7, <1>8, <1>9, <1>10, <1>11 DEF CreateStep

LEMMA ObserveKeeps ==
  ASSUME TypeOK, NEW r \in Runs, ObserveStep(r) \/ CreateTimesOut(r)
  PROVE  KeepsVerdicts
<1>1. run[r] \in Row BY DEF TypeOK
<1>2. CASE ResumeAdopted(r)
  <2>1. [run[r] EXCEPT !.phase = IF @ = "waiting" THEN "running" ELSE @,
                       !.started = TRUE].status = run[r].status
    BY <1>1 DEF Row
  <2>2. CASE ~Preempted(r)
    <3>1. run' = [run EXCEPT ![r] = [run[r] EXCEPT
                    !.phase = IF @ = "waiting" THEN "running" ELSE @, !.started = TRUE]]
      BY <1>2, <2>2 DEF ResumeAdopted
    <3> QED BY <2>1, <3>1, OneRow
  <2> QED BY <1>2, <2>2, SameRuns DEF ResumeAdopted
<1>3. CASE PersistSteps(r)
  BY <1>3, OneRow, SameRuns DEF PersistSteps, Active, Terminal
<1>4. CASE BeginPublication(r) BY <1>4, OneRow DEF BeginPublication, Running, Terminal
<1>5. CASE FinishRun(r) BY <1>5, OneRow, FinishKeeps DEF FinishRun
<1>6. CASE DeferCreateCleanup(r)
  BY <1>6, PendingKeeps, SameRuns DEF DeferCreateCleanup
<1>7. CASE WaitReturns(r) \/ WaitFails(r) \/ ReadTerminal(r)
           \/ WorkerPass(r) \/ WorkerPassEnds(r) \/ CreateTimesOut(r)
           \/ \E ok \in BOOLEAN : DeleteUnobserved(r, ok) \/ DeliveryReturns(r, ok)
  BY <1>7, SameRuns DEF WaitReturns, WaitFails, ReadTerminal, DeliveryReturns, WorkerPass,
     WorkerPassEnds, CreateTimesOut, DeleteUnobserved, durable
<1> QED BY <1>2, <1>3, <1>4, <1>5, <1>6, <1>7 DEF ObserveStep

LEMMA SettleKeeps ==
  ASSUME TypeOK, NEW r \in Runs, SettleStep(r)
  PROVE  KeepsVerdicts
<1>1. run[r] \in Row BY DEF TypeOK
<1>2. CASE MarkRunCreatePending(r)
  BY <1>2, PendingKeeps DEF MarkRunCreatePending
<1>3. CASE SettleCompletes(r)
  <2>1. [run[r] EXCEPT !.unsure = @ /\ run[r].status # "interrupted"].status = run[r].status
    BY <1>1 DEF Row
  <2> QED BY <1>3, <2>1, OneRow, SameRuns DEF SettleCompletes, RetireObserved
<1>4. CASE SettleFinishes(r) BY <1>4, OneRow, FinishKeeps DEF SettleFinishes
<1>5. CASE SettleDeletes(r) \/ SettleSeesAbsence(r) \/ SettleReleases(r)
  BY <1>5, SameRuns DEF SettleDeletes, SettleSeesAbsence, SettleReleases, durable
<1> QED BY <1>2, <1>3, <1>4, <1>5 DEF SettleStep

LEMMA RequestKeeps ==
  ASSUME TypeOK, NEW r \in Runs, Requests(r) \/ Deliver(r) \/ ClusterStep(r)
  PROVE  KeepsVerdicts
<1>1. run[r] \in Row BY DEF TypeOK
<1>2. ASSUME NEW head \in BOOLEAN, NEW force \in BOOLEAN, enqueueRun(r, head, force)
      PROVE  KeepsVerdicts
  <2>1. ASSUME NEW x \in Runs, run[x].status \in Terminal PROVE run'[x] = run[x]
    BY <1>2, <2>1 DEF enqueueRun, SupersededBy, Active, Terminal
  <2> QED BY <2>1 DEF KeepsVerdicts
<1>3. CASE CancelRun(r)
  <2>1. run[r].status \notin Terminal BY <1>3 DEF CancelRun, Active, Terminal
  <2>2. \A x \in Runs \ {r} : run'[x] = run[x] BY <1>3 DEF CancelRun, TypeOK
  <2> QED BY <2>1, <2>2, OpenRow
<1>4. CASE RetryFailedPublication(r)
  BY <1>1, <1>4 DEF RetryFailedPublication, KeepsVerdicts, TypeOK, Row
<1>5. ASSUME NEW outcome \in {"delivered", "failed", "abandoned"}, FinalizePublication(r, outcome)
      PROVE  KeepsVerdicts
  <2>1. run[r].status \notin Terminal BY <1>5 DEF FinalizePublication, Running, Terminal
  <2>2. \A x \in Runs \ {r} : run'[x] = run[x] BY <1>5 DEF FinalizePublication, TypeOK
  <2> QED BY <2>1, <2>2, OpenRow
<1>6. CASE PostRefused(r) BY <1>6, OneRow, FinishKeeps, SameRuns DEF PostRefused
<1>7. CASE PostLands(r) \/ WorkflowGone(r) \/ \E v \in {"passed", "failed"} : WorkflowFinishes(r, v)
  BY <1>7, SameRuns DEF PostLands, WorkflowGone, WorkflowFinishes, durable
<1> QED BY <1>2, <1>3, <1>4, <1>5, <1>6, <1>7 DEF Requests, Deliver, ClusterStep

LEMMA PassKeeps ==
  ASSUME TypeOK, NEW a \in Agents, NEW e \in pass[a], PassStep(a, e)
  PROVE  KeepsVerdicts
<1>1. e.id \in Runs BY DEF TypeOK, Entry
<1>2. run[e.id] \in Row BY <1>1 DEF TypeOK
<1>3. CASE PassCompletes(a, e)
  <2>1. [run[e.id] EXCEPT !.unsure = @ /\ run[e.id].status # "interrupted"].status
          = run[e.id].status
    BY <1>2 DEF Row
  <2> QED BY <1>1, <1>3, <2>1, OneRow, SameRuns DEF PassCompletes, RetireObserved
<1>4. CASE PassRegisters(a, e) \/ PassDeleteFails(a, e) \/ PassConflicts(a, e)
           \/ \E ok \in BOOLEAN : PassDeletes(a, e, ok)
  BY <1>4, SameRuns DEF PassRegisters, PassDeleteFails, PassConflicts, PassDeletes, durable
<1> QED BY <1>3, <1>4 DEF PassStep

LEMMA RestartKeeps ==
  ASSUME TypeOK
  PROVE  /\ \A r \in Runs : ReconcileStep(r) => KeepsVerdicts
         /\ LoopPass \/ ApiPass \/ ReconcileEnds \/ StartupEnds \/ Crash \/ FatalExit
            \/ RecoverOwnerState => KeepsVerdicts
<1>1. ASSUME NEW r \in Runs, RequeueStrandedRun(r) PROVE KeepsVerdicts
  BY <1>1, OneRow DEF RequeueStrandedRun, Requeueable, Running, Terminal
<1>2. ASSUME NEW r \in Runs, InterruptStrandedRun(r) PROVE KeepsVerdicts
  BY <1>2, OneRow, FinishKeeps DEF InterruptStrandedRun
<1>3. ASSUME NEW r \in Runs, ReconcileRegisters(r) \/ ReconcileAdopts(r) \/ AdoptionRefused(r)
                             \/ ReconcileDeleteFails(r)
      PROVE  KeepsVerdicts
  BY <1>3, SameRuns
  DEF ReconcileRegisters, ReconcileAdopts, AdoptionRefused, ReconcileDeleteFails, durable
<1>4. CASE RecoverOwnerState
  <2>1. ASSUME NEW r \in Runs, run[r].status \in Terminal PROVE run'[r] = run[r]
    BY <1>4, <2>1 DEF RecoverOwnerState, RecoveredRow, WaitingClaim, Running, Terminal
  <2> QED BY <2>1 DEF KeepsVerdicts
<1>5. CASE LoopPass \/ ApiPass \/ ReconcileEnds \/ StartupEnds \/ Crash \/ FatalExit
  BY <1>5, SameRuns DEF LoopPass, ApiPass, ReconcileEnds, StartupEnds, Crash, FatalExit, durable
<1> QED BY <1>1, <1>2, <1>3, <1>4, <1>5 DEF ReconcileStep

\* No worker, pass, settlement, request or recovery overwrites a verdict; only
\* the retry of a failed publication reopens its run. The writers of the row are
\* guarded one by one, so type correctness is all the proof needs.
THEOREM VerdictsStick == Spec => TerminalSticks
<1>1. TypeOK /\ [Next]_vars => [KeepsVerdicts]_vars
  BY CreateKeeps, ObserveKeeps, SettleKeeps, RequestKeeps, PassKeeps, RestartKeeps
  DEF Next, WorkerStep
<1> QED BY <1>1, TypeCorrect, PTL DEF Spec, TerminalSticks

-----------------------------------------------------------------------------
(* The inductive invariant: who may hold a run, and in which state its rows *)
(* are meanwhile                                                           *)

\* Rows no worker has touched yet.
Unclaimed == {"none", "queued"}

\* Whoever holds a run (a worker, the reconciliation, the settlement, a
\* publication) holds a claimed one, and a queued run has no recorded steps.
RowInv(r) ==
  /\ \/ wk[r] # "none" \/ todo[r] # "none" \/ settle[r].step # "none"
     \/ pub[r] # "none" \/ isPendingCreate(r)
     => run[r].status \notin Unclaimed
  /\ run[r].status = "queued" => ~run[r].steps

\* A pending publication and the publishing phase are one fact; a settled one
\* goes with a verdict; a worker that has not come to publish sees none.
PubInv(r) ==
  /\ pub[r] = "pending" <=> Running(r) /\ run[r].phase = "publishing"
  /\ pub[r] \in {"delivered", "failed", "abandoned"} => run[r].status \in Terminal
  /\ wk[r] \notin {"none", "deliver", "leave", "fatal"} \/ todo[r] # "none" => pub[r] = "none"

\* A run whose create is uncertain belongs to the settlement alone.
PendInv(r) ==
  /\ isPendingCreate(r) \/ settle[r].step # "none" =>
       /\ pub[r] = "none" /\ wk[r] \in {"none", "leave"}
       /\ todo[r] \in {"none", "infrastructure-pending"}
  /\ Running(r) /\ run[r].unsure => run[r].phase = "infrastructure-pending"

\* An open obligation spares running work, and publications leave none.
CanInv(r) ==
  /\ can[r].open /\ Running(r) => run[r].phase = "infrastructure-pending"
  /\ pub[r] # "none" => ~can[r].open

\* A stopped process holds nothing; reconciliation comes before any worker; a
\* worker's pass belongs to a worker that waits for it.
ProcInv(r) ==
  /\ mode = "down" => wk[r] = "none" /\ settle[r].step = "none" /\ todo[r] = "none"
  /\ todo[r] # "none" => mode = "reconcile" /\ wk[r] = "none"
  /\ pass[r] # {} => wk[r] = "swept"

RunInv(r) == RowInv(r) /\ PubInv(r) /\ PendInv(r) /\ CanInv(r) /\ ProcInv(r)
IInv == TypeOK /\ \A r \in Runs : RunInv(r)

\* A step that leaves everything RunInv(r) reads alone.
Same(r) == /\ run'[r] = run[r] /\ can'[r] = can[r] /\ pub'[r] = pub[r] /\ wk'[r] = wk[r]
           /\ settle'[r] = settle[r] /\ todo'[r] = todo[r] /\ pass'[r] = pass[r]

\* A step about one run preserves the invariant of all of them when it preserves
\* that run's.
LEMMA Local ==
  ASSUME NEW r \in Runs, \A x \in Runs : RunInv(x), mode' = mode, RunInv(r)',
         \A x \in Runs \ {r} : Same(x)
  PROVE  \A x \in Runs : RunInv(x)'
<1> SUFFICES ASSUME NEW x \in Runs, x # r PROVE RunInv(x)' OBVIOUS
<1> QED BY DEF Same, RunInv, RowInv, PubInv, PendInv, CanInv, ProcInv, isPendingCreate,
   Running

\* A step that touches no run at all.
LEMMA AllSame ==
  ASSUME \A x \in Runs : RunInv(x), mode' = mode, \A x \in Runs : Same(x)
  PROVE  \A x \in Runs : RunInv(x)'
BY DEF Same, RunInv, RowInv, PubInv, PendInv, CanInv, ProcInv, isPendingCreate, Running

\* A process that stops keeps the durable half of the invariant.
LEMMA StopInv ==
  ASSUME \A x \in Runs : RunInv(x), TypeOK, Stop, UNCHANGED durable
  PROVE  \A x \in Runs : RunInv(x)'
<1> SUFFICES ASSUME NEW x \in Runs PROVE RunInv(x)' OBVIOUS
<1>1. /\ wk'[x] = "none" /\ todo'[x] = "none" /\ settle'[x] = NoSettle /\ mode' = "down"
      /\ pass'[x] = {}
  BY DEF Stop, Agents
<1>2. settle'[x].step = "none" BY <1>1 DEF NoSettle
<1> QED BY <1>1, <1>2 DEF durable, RunInv, RowInv, PubInv, PendInv, CanInv, ProcInv,
   isPendingCreate, Running


\* Scheduler.execute, from the claim to the submitted Workflow.
LEMMA CreateStepInv ==
  ASSUME IInv, NEW r \in Runs, CreateStep(r) \/ ClaimNextRun(r) \/ CreateTimesOut(r)
  PROVE  \A x \in Runs : RunInv(x)'
<1>1. TypeOK /\ (\A x \in Runs : RunInv(x)) /\ RunInv(r) /\ run[r] \in Row
  BY DEF IInv, TypeOK
<1>2. CASE ClaimNextRun(r)
  <2>1. run'[r] = [run[r] EXCEPT !.status = "running", !.phase = "waiting"]
    BY <1>1, <1>2 DEF ClaimNextRun, Claimable, TypeOK, At, Goto
  <2>2. /\ wk'[r] = "claimed" /\ wk[r] = "none" /\ mode = "up"
        /\ run[r].status = "queued" /\ ~can[r].open
    BY <1>1, <1>2 DEF ClaimNextRun, Claimable, TypeOK, At, Goto
  <2>3. UNCHANGED <<can, pub, settle, pass, todo, mode>>
    BY <1>1, <1>2 DEF ClaimNextRun, Claimable, TypeOK, At, Goto
  <2>4. /\ run'[r].status = "running" /\ run'[r].phase = "waiting"
        /\ run'[r].unsure = run[r].unsure /\ run'[r].steps = run[r].steps
    BY <1>1, <2>1 DEF Row
  <2>5. RunInv(r)'
    BY <1>1, <2>2, <2>3, <2>4 DEF RunInv, RowInv, PubInv, PendInv, CanInv, ProcInv,
       isPendingCreate, Running, Unclaimed, Terminal
  <2>6. \A x \in Runs \ {r} : Same(x)
    BY <1>1, <1>2 DEF ClaimNextRun, Claimable, Same, TypeOK, At, Goto, Agents, durable, memory
  <2> QED BY <1>1, <1>2, <2>5, <2>6, Local DEF ClaimNextRun, Claimable, memory
<1>3. CASE BeginExecute(r) \/ PolicyStopped(r)
  <2>1. wk[r] \in {"claimed", "prepare"} /\ wk'[r] \in {"prepare", "leave"} /\ mode = "up"
    BY <1>1, <1>3 DEF BeginExecute, PolicyStopped, durable, TypeOK, At, Goto
  <2>2. UNCHANGED <<run, can, pub, settle, pass, todo, mode>>
    BY <1>1, <1>3 DEF BeginExecute, PolicyStopped, durable, TypeOK, At, Goto
  <2>3. RunInv(r)'
    BY <1>1, <2>1, <2>2 DEF Row, RunInv, RowInv, PubInv, PendInv, CanInv, ProcInv,
       isPendingCreate, Running, Unclaimed, Terminal
  <2>4. \A x \in Runs \ {r} : Same(x)
    BY <1>1, <1>3 DEF BeginExecute, PolicyStopped, durable, Same, TypeOK, At, Goto,
       Agents, durable, memory
  <2> QED BY <1>1, <1>3, <2>3, <2>4, Local DEF BeginExecute, PolicyStopped, durable, memory
<1>4. CASE FailBeforeCreate(r) \/ AbortEarly(r) \/ FailUnverified(r)
  <2>1. run'[r] = FinishRow(run[r], "failed", "infrastructure")
    BY <1>1, <1>4 DEF FailBeforeCreate, AbortEarly, FailUnverified, TypeOK, At, Goto
  <2>2. /\ wk[r] \in {"prepare", "gate", "admitted", "checked", "reserved", "wiped"}
        /\ wk'[r] = "leave" /\ mode = "up"
    BY <1>1, <1>4 DEF FailBeforeCreate, AbortEarly, FailUnverified, TypeOK, At, Goto
  <2>3. UNCHANGED <<can, pub, settle, pass, todo, mode>>
    BY <1>1, <1>4 DEF FailBeforeCreate, AbortEarly, FailUnverified, TypeOK, At, Goto
  <2>4. \/ run'[r] = run[r]
        \/ /\ run[r].status \in {"queued", "running"} /\ run'[r].status = "failed"
           /\ run'[r].phase = "infrastructure" /\ ~run'[r].unsure
    BY <1>1, <2>1 DEF Row, FinishRow
  <2>5. RunInv(r)'
    BY <1>1, <2>2, <2>3, <2>4 DEF RunInv, RowInv, PubInv, PendInv, CanInv, ProcInv,
       isPendingCreate, Running, Unclaimed, Terminal
  <2>6. \A x \in Runs \ {r} : Same(x)
    BY <1>1, <1>4 DEF FailBeforeCreate, AbortEarly, FailUnverified, Same, TypeOK, At, Goto,
       Agents, durable, memory
  <2> QED BY <1>1, <1>4, <2>5, <2>6, Local
          DEF FailBeforeCreate, AbortEarly, FailUnverified, memory
<1>5. CASE SetRunWorkflowName(r)
  <2>1. run'[r] = [run[r] EXCEPT !.job = TRUE]
    BY <1>1, <1>5 DEF SetRunWorkflowName, TypeOK, At, Goto
  <2>2. wk[r] = "prepare" /\ wk'[r] \in {"sweep", "gate"} /\ mode = "up"
    BY <1>1, <1>5 DEF SetRunWorkflowName, TypeOK, At, Goto
  <2>3. Preempted(r) \/ can'[r] = can[r]
    BY <1>1, <1>5 DEF SetRunWorkflowName, TypeOK, At, Goto
  <2>4. UNCHANGED <<pub, settle, pass, todo, mode>>
    BY <1>1, <1>5 DEF SetRunWorkflowName, TypeOK, At, Goto
  <2>5. /\ run'[r].status = run[r].status /\ run'[r].phase = run[r].phase
        /\ run'[r].unsure = run[r].unsure /\ run'[r].steps = run[r].steps
    BY <1>1, <2>1 DEF Row, Preempted
  <2>6. RunInv(r)'
    BY <1>1, <2>2, <2>3, <2>4, <2>5 DEF Preempted, RunInv, RowInv, PubInv, PendInv,
       CanInv, ProcInv, isPendingCreate, Running, Unclaimed, Terminal
  <2>7. \A x \in Runs \ {r} : Same(x)
    BY <1>1, <1>5 DEF SetRunWorkflowName, Same, TypeOK, At, Goto, Agents, durable, memory
  <2> QED BY <1>1, <1>5, <2>6, <2>7, Local DEF SetRunWorkflowName, memory
<1>6. CASE MarkRunAdmitted(r)
  <2>1. run'[r] = [run[r] EXCEPT !.started = TRUE] \/ run'[r] = run[r]
    BY <1>1, <1>6 DEF MarkRunAdmitted, TypeOK, At, Goto
  <2>2. wk[r] = "gate" /\ wk'[r] \in {"sweep", "admitted"} /\ mode = "up"
    BY <1>1, <1>6 DEF MarkRunAdmitted, TypeOK, At, Goto
  <2>3. UNCHANGED <<can, pub, settle, pass, todo, mode>>
    BY <1>1, <1>6 DEF MarkRunAdmitted, TypeOK, At, Goto
  <2>4. /\ run'[r].status = run[r].status /\ run'[r].phase = run[r].phase
        /\ run'[r].unsure = run[r].unsure /\ run'[r].steps = run[r].steps
    BY <1>1, <2>1 DEF Row
  <2>5. RunInv(r)'
    BY <1>1, <2>2, <2>3, <2>4 DEF RunInv, RowInv, PubInv, PendInv, CanInv, ProcInv,
       isPendingCreate, Running, Unclaimed, Terminal
  <2>6. \A x \in Runs \ {r} : Same(x)
    BY <1>1, <1>6 DEF MarkRunAdmitted, Same, TypeOK, At, Goto, Agents, durable, memory
  <2> QED BY <1>1, <1>6, <2>5, <2>6, Local DEF MarkRunAdmitted, memory
<1>7. CASE RecheckBeforeCreate(r) \/ ReserveIntent(r) \/ SendCreate(r) \/ CreateTimesOut(r)
  <2>1. /\ wk[r] \in {"admitted", "checked", "reserved", "posting"} /\ mode = "up"
        /\ wk'[r] \in {"sweep", "checked", "reserved", "created", "posting", "uncertain"}
    BY <1>1, <1>7 DEF RecheckBeforeCreate, ReserveIntent, SendCreate, CreateTimesOut,
       durable, TypeOK, At, Goto
  <2>2. UNCHANGED <<run, can, pub, settle, pass, todo, mode>>
    BY <1>1, <1>7 DEF RecheckBeforeCreate, ReserveIntent, SendCreate, CreateTimesOut,
       durable, TypeOK, At, Goto
  <2>3. RunInv(r)'
    BY <1>1, <2>1, <2>2 DEF Row, RunInv, RowInv, PubInv, PendInv, CanInv, ProcInv,
       isPendingCreate, Running, Unclaimed, Terminal
  <2>4. \A x \in Runs \ {r} : Same(x)
    BY <1>1, <1>7 DEF RecheckBeforeCreate, ReserveIntent, SendCreate, CreateTimesOut,
       durable, Same, TypeOK, At, Goto, Agents, durable, memory
  <2> QED BY <1>1, <1>7, <2>3, <2>4, Local DEF RecheckBeforeCreate, ReserveIntent,
     SendCreate, CreateTimesOut, durable, memory
<1>8. ASSUME NEW ok \in BOOLEAN, AfterCreate(r, ok) PROVE \A x \in Runs : RunInv(x)'
  <2>1. run'[r] = FinishRow(run[r], "failed", "infrastructure") \/ run'[r] = run[r]
    BY <1>1, <1>8 DEF AfterCreate, TypeOK, At, Goto
  <2>2. wk[r] = "posted" /\ wk'[r] \in {"leave", "created"} /\ mode = "up"
    BY <1>1, <1>8 DEF AfterCreate, TypeOK, At, Goto
  <2>3. UNCHANGED <<can, pub, settle, pass, todo, mode>>
    BY <1>1, <1>8 DEF AfterCreate, TypeOK, At, Goto
  <2>4. \/ run'[r] = run[r]
        \/ /\ run[r].status \in {"queued", "running"} /\ run'[r].status = "failed"
           /\ run'[r].phase = "infrastructure" /\ ~run'[r].unsure
    BY <1>1, <2>1 DEF Row, FinishRow
  <2>5. RunInv(r)'
    BY <1>1, <2>2, <2>3, <2>4 DEF RunInv, RowInv, PubInv, PendInv, CanInv, ProcInv,
       isPendingCreate, Running, Unclaimed, Terminal
  <2>6. \A x \in Runs \ {r} : Same(x)
    BY <1>1, <1>8 DEF AfterCreate, Same, TypeOK, At, Goto, Agents, durable, memory
  <2> QED BY <1>1, <1>8, <2>5, <2>6, Local DEF AfterCreate, memory
<1>9. CASE MarkRunSubmitted(r)
  <2>1. \/ run'[r] = run[r]
        \/ /\ run[r].phase = "waiting"
           /\ run'[r] = [run[r] EXCEPT !.phase = "running", !.started = TRUE]
    BY <1>1, <1>9 DEF MarkRunSubmitted, TypeOK, At, Goto
  <2>2. wk[r] = "created" /\ wk'[r] \in {"undo", "observe"} /\ mode = "up"
    BY <1>1, <1>9 DEF MarkRunSubmitted, TypeOK, At, Goto
  <2>3. UNCHANGED <<can, pub, settle, pass, todo, mode>>
    BY <1>1, <1>9 DEF MarkRunSubmitted, TypeOK, At, Goto
  <2>4. /\ run'[r].status = run[r].status /\ run'[r].unsure = run[r].unsure
        /\ run'[r].steps = run[r].steps
        /\ run'[r].phase = run[r].phase \/ (run[r].phase = "waiting" /\ run'[r].phase = "running")
    BY <1>1, <2>1 DEF Row
  <2>5. RunInv(r)'
    BY <1>1, <2>2, <2>3, <2>4 DEF RunInv, RowInv, PubInv, PendInv, CanInv, ProcInv,
       isPendingCreate, Running, Unclaimed, Terminal
  <2>6. \A x \in Runs \ {r} : Same(x)
    BY <1>1, <1>9 DEF MarkRunSubmitted, Same, TypeOK, At, Goto, Agents, durable, memory
  <2> QED BY <1>1, <1>9, <2>5, <2>6, Local DEF MarkRunSubmitted, memory
<1>10. ASSUME NEW ok \in BOOLEAN, DeletePreempted(r, ok) PROVE \A x \in Runs : RunInv(x)'
  <2>1. wk[r] = "undo" /\ wk'[r] \in {"undone", "rearm"} /\ mode = "up"
    BY <1>1, <1>10 DEF DeletePreempted, durable, TypeOK, At, Goto
  <2>2. UNCHANGED <<run, can, pub, settle, pass, todo, mode>>
    BY <1>1, <1>10 DEF DeletePreempted, durable, TypeOK, At, Goto
  <2>3. RunInv(r)'
    BY <1>1, <2>1, <2>2 DEF Row, RunInv, RowInv, PubInv, PendInv, CanInv, ProcInv,
       isPendingCreate, Running, Unclaimed, Terminal
  <2>4. \A x \in Runs \ {r} : Same(x)
    BY <1>1, <1>10 DEF DeletePreempted, durable, Same, TypeOK, At, Goto, Agents,
       durable, memory
  <2> QED BY <1>1, <1>10, <2>3, <2>4, Local DEF DeletePreempted, durable, memory
<1>11. CASE RearmRunCancellation(r)
  <2>1. wk[r] = "rearm" /\ wk'[r] = "rearmed" /\ mode = "up"
    BY <1>1, <1>11 DEF RearmRunCancellation, TypeOK, At, Goto
  <2>2. Preempted(r) \/ can'[r] = can[r]
    BY <1>1, <1>11 DEF RearmRunCancellation, TypeOK, At, Goto
  <2>3. UNCHANGED <<run, pub, settle, pass, todo, mode>>
    BY <1>1, <1>11 DEF RearmRunCancellation, TypeOK, At, Goto
  <2>4. RunInv(r)'
    BY <1>1, <2>1, <2>2, <2>3 DEF Row, Preempted, RunInv, RowInv, PubInv, PendInv,
       CanInv, ProcInv, isPendingCreate, Running, Unclaimed, Terminal
  <2>5. \A x \in Runs \ {r} : Same(x)
    BY <1>1, <1>11 DEF RearmRunCancellation, Same, TypeOK, At, Goto, Agents, durable, memory
  <2> QED BY <1>1, <1>11, <2>4, <2>5, Local DEF RearmRunCancellation, memory
<1>12. CASE CompleteRunCancellation(r) \/ LeaveRun(r)
  <2>1. /\ wk[r] \in {"undone", "leave"} /\ wk'[r] \in {"leave", "fatal", "none"}
        /\ (wk[r] = "leave" => wk'[r] = "none") /\ mode = "up"
    BY <1>1, <1>12 DEF CompleteRunCancellation, LeaveRun, CompleteByName,
       CompleteWithoutJob, Obligation, TypeOK, At, Goto
  <2>2. can'[r].open => can[r].open
    BY <1>1, <1>12 DEF CompleteRunCancellation, LeaveRun, CompleteByName,
       CompleteWithoutJob, Obligation, TypeOK, At, Goto
  <2>3. UNCHANGED <<run, pub, settle, pass, todo, mode>>
    BY <1>1, <1>12 DEF CompleteRunCancellation, LeaveRun, CompleteByName,
       CompleteWithoutJob, Obligation, TypeOK, At, Goto
  <2>4. RunInv(r)'
    BY <1>1, <2>1, <2>2, <2>3 DEF Row, RunInv, RowInv, PubInv, PendInv, CanInv, ProcInv,
       isPendingCreate, Running, Unclaimed, Terminal
  <2>5. \A x \in Runs \ {r} : Same(x)
    BY <1>1, <1>12 DEF CompleteRunCancellation, LeaveRun, CompleteByName,
       CompleteWithoutJob, Obligation, Same, TypeOK, At, Goto, Agents, durable, memory
  <2> QED BY <1>1, <1>12, <2>4, <2>5, Local DEF CompleteRunCancellation, LeaveRun,
     CompleteByName, CompleteWithoutJob, Obligation, memory
<1>13. CASE SubmitUnverified(r)
  <2>1. \/ run'[r] = run[r]
        \/ /\ run[r].phase = "waiting"
           /\ run'[r] = [run[r] EXCEPT !.phase = "running", !.started = TRUE]
    BY <1>1, <1>13 DEF SubmitUnverified, TypeOK, At, Goto
  <2>2. wk[r] = "created" /\ wk'[r] = "unmarked" /\ mode = "up"
    BY <1>1, <1>13 DEF SubmitUnverified, TypeOK, At, Goto
  <2>3. UNCHANGED <<can, pub, settle, pass, todo, mode>>
    BY <1>1, <1>13 DEF SubmitUnverified, TypeOK, At, Goto
  <2>4. /\ run'[r].status = run[r].status /\ run'[r].unsure = run[r].unsure
        /\ run'[r].steps = run[r].steps
        /\ run'[r].phase = run[r].phase \/ (run[r].phase = "waiting" /\ run'[r].phase = "running")
    BY <1>1, <2>1 DEF Row
  <2>5. RunInv(r)'
    BY <1>1, <2>2, <2>3, <2>4 DEF RunInv, RowInv, PubInv, PendInv, CanInv, ProcInv,
       isPendingCreate, Running, Unclaimed, Terminal
  <2>6. \A x \in Runs \ {r} : Same(x)
    BY <1>1, <1>13 DEF SubmitUnverified, Same, TypeOK, At, Goto, Agents, durable, memory
  <2> QED BY <1>1, <1>13, <2>5, <2>6, Local DEF SubmitUnverified, memory
<1>14. ASSUME NEW ok \in BOOLEAN, DeleteUnverified(r, ok) PROVE \A x \in Runs : RunInv(x)'
  <2>1. wk[r] = "unmarked" /\ wk'[r] \in {"wiped", "uncertain"} /\ mode = "up"
    BY <1>1, <1>14 DEF DeleteUnverified, durable, TypeOK, At, Goto
  <2>2. UNCHANGED <<run, can, pub, settle, pass, todo, mode>>
    BY <1>1, <1>14 DEF DeleteUnverified, durable, TypeOK, At, Goto
  <2>3. RunInv(r)'
    BY <1>1, <2>1, <2>2 DEF Row, RunInv, RowInv, PubInv, PendInv, CanInv, ProcInv,
       isPendingCreate, Running, Unclaimed, Terminal
  <2>4. \A x \in Runs \ {r} : Same(x)
    BY <1>1, <1>14 DEF DeleteUnverified, durable, Same, TypeOK, At, Goto, Agents,
       durable, memory
  <2> QED BY <1>1, <1>14, <2>3, <2>4, Local DEF DeleteUnverified, durable, memory
<1> QED BY <1>2, <1>3, <1>4, <1>5, <1>6, <1>7, <1>8, <1>9, <1>10, <1>11, <1>12, <1>13,
           <1>14 DEF CreateStep

\* Scheduler.observeRun and the hand-overs of a worker.
LEMMA ObserveStepInv ==
  ASSUME IInv, NEW r \in Runs, ObserveStep(r)
  PROVE  \A x \in Runs : RunInv(x)'
<1>1. TypeOK /\ (\A x \in Runs : RunInv(x)) /\ RunInv(r) /\ run[r] \in Row
  BY DEF IInv, TypeOK
<1>2. CASE ResumeAdopted(r)
  <2>1. \/ run'[r] = run[r]
        \/ run'[r] = [run[r] EXCEPT !.phase = IF @ = "waiting" THEN "running" ELSE @,
                                    !.started = TRUE]
    BY <1>1, <1>2 DEF ResumeAdopted, TypeOK, At, Goto
  <2>2. wk[r] = "adopted" /\ wk'[r] \in {"sweep", "resumed"} /\ mode = "up"
    BY <1>1, <1>2 DEF ResumeAdopted, TypeOK, At, Goto
  <2>3. UNCHANGED <<can, pub, settle, pass, todo, mode>>
    BY <1>1, <1>2 DEF ResumeAdopted, TypeOK, At, Goto
  <2>4. /\ run'[r].status = run[r].status /\ run'[r].unsure = run[r].unsure
        /\ run'[r].steps = run[r].steps
        /\ run'[r].phase = run[r].phase \/ (run[r].phase = "waiting" /\ run'[r].phase = "running")
    BY <1>1, <2>1 DEF Row
  <2>5. RunInv(r)'
    BY <1>1, <2>2, <2>3, <2>4 DEF RunInv, RowInv, PubInv, PendInv, CanInv, ProcInv,
       isPendingCreate, Running, Unclaimed, Terminal
  <2>6. \A x \in Runs \ {r} : Same(x)
    BY <1>1, <1>2 DEF ResumeAdopted, Same, TypeOK, At, Goto, Agents, durable, memory
  <2> QED BY <1>1, <1>2, <2>5, <2>6, Local DEF ResumeAdopted, memory
<1>3. CASE WaitReturns(r) \/ WaitFails(r) \/ ReadTerminal(r)
           \/ \E ok \in BOOLEAN : DeleteUnobserved(r, ok)
  <2>1. /\ wk[r] \in {"observe", "resumed", "wipe"} /\ mode = "up"
        /\ wk'[r] \in {"record", "sweep", "wipe", "fatal", "uncertain"}
    BY <1>1, <1>3 DEF WaitReturns, WaitFails, ReadTerminal, DeleteUnobserved, Observing,
       durable, TypeOK, At, Goto
  <2>2. UNCHANGED <<run, can, pub, settle, pass, todo, mode>>
    BY <1>1, <1>3 DEF WaitReturns, WaitFails, ReadTerminal, DeleteUnobserved, Observing,
       durable, TypeOK, At, Goto
  <2>3. RunInv(r)'
    BY <1>1, <2>1, <2>2 DEF Row, RunInv, RowInv, PubInv, PendInv, CanInv, ProcInv,
       isPendingCreate, Running, Unclaimed, Terminal
  <2>4. \A x \in Runs \ {r} : Same(x)
    BY <1>1, <1>3 DEF WaitReturns, WaitFails, ReadTerminal, DeleteUnobserved, Observing,
       durable, Same, TypeOK, At, Goto, Agents, durable, memory
  <2> QED BY <1>1, <1>3, <2>3, <2>4, Local DEF WaitReturns, WaitFails, ReadTerminal,
     DeleteUnobserved, Observing, durable, memory
<1>4. CASE PersistSteps(r)
  <2>1. run'[r] = [run[r] EXCEPT !.steps = TRUE] \/ run'[r] = run[r]
    BY <1>1, <1>4 DEF PersistSteps, TypeOK, At, Goto
  <2>2. wk[r] = "record" /\ wk'[r] = "decide" /\ mode = "up"
    BY <1>1, <1>4 DEF PersistSteps, TypeOK, At, Goto
  <2>3. UNCHANGED <<can, pub, settle, pass, todo, mode>>
    BY <1>1, <1>4 DEF PersistSteps, TypeOK, At, Goto
  <2>4. /\ run'[r].status = run[r].status /\ run'[r].phase = run[r].phase
        /\ run'[r].unsure = run[r].unsure
    BY <1>1, <2>1 DEF Row
  <2>5. RunInv(r)'
    BY <1>1, <2>2, <2>3, <2>4 DEF RunInv, RowInv, PubInv, PendInv, CanInv, ProcInv,
       isPendingCreate, Running, Unclaimed, Terminal
  <2>6. \A x \in Runs \ {r} : Same(x)
    BY <1>1, <1>4 DEF PersistSteps, Same, TypeOK, At, Goto, Agents, durable, memory
  <2> QED BY <1>1, <1>4, <2>5, <2>6, Local DEF PersistSteps, memory
<1>5. CASE BeginPublication(r)
  <2>1. run'[r] = [run[r] EXCEPT !.phase = "publishing"] /\ run[r].status = "running"
    BY <1>1, <1>5 DEF BeginPublication, Running, TypeOK, At, Goto
  <2>2. wk[r] = "decide" /\ wk'[r] = "deliver" /\ mode = "up" /\ pub'[r] = "pending"
    BY <1>1, <1>5 DEF BeginPublication, Running, TypeOK, At, Goto
  <2>3. UNCHANGED <<can, settle, pass, todo, mode>>
    BY <1>1, <1>5 DEF BeginPublication, Running, TypeOK, At, Goto
  <2>4. /\ run'[r].status = "running" /\ run'[r].phase = "publishing" /\ run[r].status = "running"
        /\ run'[r].unsure = run[r].unsure /\ run'[r].steps = run[r].steps
    BY <1>1, <2>1 DEF Row
  <2>5. RunInv(r)'
    BY <1>1, <2>2, <2>3, <2>4 DEF RunInv, RowInv, PubInv, PendInv, CanInv, ProcInv,
       isPendingCreate, Running, Unclaimed, Terminal
  <2>6. \A x \in Runs \ {r} : Same(x)
    BY <1>1, <1>5 DEF BeginPublication, Running, Same, TypeOK, At, Goto, Agents,
       durable, memory
  <2> QED BY <1>1, <1>5, <2>5, <2>6, Local DEF BeginPublication, Running, memory
<1>6. CASE FinishRun(r)
  <2>1. \/ run'[r] = FinishRow(run[r], "failed", "job")
        \/ run'[r] = FinishRow(run[r], "failed", "publishing")
    BY <1>1, <1>6 DEF FinishRun, TypeOK, At, Goto
  <2>2. wk[r] = "decide" /\ wk'[r] = "leave" /\ mode = "up"
    BY <1>1, <1>6 DEF FinishRun, TypeOK, At, Goto
  <2>3. UNCHANGED <<can, pub, settle, pass, todo, mode>>
    BY <1>1, <1>6 DEF FinishRun, TypeOK, At, Goto
  <2>4. \/ run'[r] = run[r]
        \/ /\ run[r].status \in {"queued", "running"} /\ run'[r].status = "failed"
           /\ run'[r].phase \in {"job", "publishing"} /\ ~run'[r].unsure
    BY <1>1, <2>1 DEF Row, FinishRow
  <2>5. RunInv(r)'
    BY <1>1, <2>2, <2>3, <2>4 DEF RunInv, RowInv, PubInv, PendInv, CanInv, ProcInv,
       isPendingCreate, Running, Unclaimed, Terminal
  <2>6. \A x \in Runs \ {r} : Same(x)
    BY <1>1, <1>6 DEF FinishRun, Same, TypeOK, At, Goto, Agents, durable, memory
  <2> QED BY <1>1, <1>6, <2>5, <2>6, Local DEF FinishRun, memory
<1>7. ASSUME NEW ok \in BOOLEAN, DeliveryReturns(r, ok) PROVE \A x \in Runs : RunInv(x)'
  <2>1. wk[r] = "deliver" /\ wk'[r] \in {"leave", "fatal"} /\ mode = "up"
    BY <1>1, <1>7 DEF DeliveryReturns, durable, TypeOK, At, Goto
  <2>2. UNCHANGED <<run, can, pub, settle, pass, todo, mode>>
    BY <1>1, <1>7 DEF DeliveryReturns, durable, TypeOK, At, Goto
  <2>3. RunInv(r)'
    BY <1>1, <2>1, <2>2 DEF Row, RunInv, RowInv, PubInv, PendInv, CanInv, ProcInv,
       isPendingCreate, Running, Unclaimed, Terminal
  <2>4. \A x \in Runs \ {r} : Same(x)
    BY <1>1, <1>7 DEF DeliveryReturns, durable, Same, TypeOK, At, Goto, Agents, durable,
       memory
  <2> QED BY <1>1, <1>7, <2>3, <2>4, Local DEF DeliveryReturns, durable, memory
<1>8. CASE DeferCreateCleanup(r)
  <2>1. \/ run'[r] = run[r] /\ can'[r] = can[r]
        \/ run'[r] = [run[r] EXCEPT !.unsure = TRUE,
                        !.phase = IF Running(r) THEN "infrastructure-pending" ELSE @]
           /\ (Running(r) \/ Preempted(r))
    BY <1>1, <1>8 DEF DeferCreateCleanup, PendingRow, PendingObligation,
       OwnsPendingCreate, Register, TypeOK, At, Goto
  <2>2. /\ wk[r] = "uncertain" /\ wk'[r] = "leave" /\ mode = "up"
    BY <1>1, <1>8 DEF DeferCreateCleanup, PendingRow, PendingObligation,
       OwnsPendingCreate, Register, TypeOK, At, Goto
  <2>3. UNCHANGED <<pub, pass, todo, mode>>
    BY <1>1, <1>8 DEF DeferCreateCleanup, PendingRow, PendingObligation,
       OwnsPendingCreate, Register, TypeOK, At, Goto
  <2>4. /\ run'[r].status = run[r].status /\ run'[r].steps = run[r].steps
        /\ \/ run'[r] = run[r] /\ can'[r] = can[r]
           \/ /\ Running(r) \/ Preempted(r)
              /\ run'[r].phase = IF Running(r) THEN "infrastructure-pending" ELSE run[r].phase
    BY <1>1, <2>1 DEF Row, Preempted
  <2>5. RunInv(r)'
    BY <1>1, <2>2, <2>3, <2>4 DEF Preempted, RunInv, RowInv, PubInv, PendInv, CanInv,
       ProcInv, isPendingCreate, Running, Unclaimed, Terminal
  <2>6. \A x \in Runs \ {r} : Same(x)
    <3>1. \A x \in Runs \ {r} : run'[x] = run[x]
      BY <1>1, <1>8 DEF DeferCreateCleanup, PendingRow, TypeOK
    <3>2. \A x \in Runs \ {r} : can'[x] = can[x]
      BY <1>1, <1>8 DEF DeferCreateCleanup, PendingObligation, TypeOK
    <3>3. \A x \in Runs \ {r} : settle'[x] = settle[x]
      BY <1>1, <1>8 DEF DeferCreateCleanup, Register, TypeOK
    <3> QED BY <1>1, <1>8, <3>1, <3>2, <3>3 DEF DeferCreateCleanup, Same, TypeOK, Goto
  <2> QED BY <1>1, <1>8, <2>5, <2>6, Local DEF DeferCreateCleanup, PendingRow,
     PendingObligation, OwnsPendingCreate, Register, memory
<1>9. CASE WorkerPass(r)
  <2>1. wk[r] = "sweep" /\ wk'[r] = "swept" /\ mode = "up"
    BY <1>1, <1>9 DEF WorkerPass, durable, TypeOK, At, Goto
  <2>2. UNCHANGED <<run, can, pub, settle, todo, mode>>
    BY <1>1, <1>9 DEF WorkerPass, durable, TypeOK, At, Goto
  <2>3. RunInv(r)'
    BY <1>1, <2>1, <2>2 DEF Row, RunInv, RowInv, PubInv, PendInv, CanInv, ProcInv,
       isPendingCreate, Running, Unclaimed, Terminal
  <2>4. \A x \in Runs \ {r} : Same(x)
    BY <1>1, <1>9 DEF WorkerPass, durable, Same, TypeOK, At, Goto, Agents, durable, memory
  <2> QED BY <1>1, <1>9, <2>3, <2>4, Local DEF WorkerPass, durable, memory
<1>10. CASE WorkerPassEnds(r)
  <2>1. wk[r] = "swept" /\ wk'[r] = "leave" /\ mode = "up" /\ pass[r] = {}
    BY <1>1, <1>10 DEF WorkerPassEnds, durable, TypeOK, At, Goto
  <2>2. UNCHANGED <<run, can, pub, settle, pass, todo, mode>>
    BY <1>1, <1>10 DEF WorkerPassEnds, durable, TypeOK, At, Goto
  <2>3. RunInv(r)'
    BY <1>1, <2>1, <2>2 DEF Row, RunInv, RowInv, PubInv, PendInv, CanInv, ProcInv,
       isPendingCreate, Running, Unclaimed, Terminal
  <2>4. \A x \in Runs \ {r} : Same(x)
    BY <1>1, <1>10 DEF WorkerPassEnds, durable, Same, TypeOK, At, Goto, Agents, durable,
       memory
  <2> QED BY <1>1, <1>10, <2>3, <2>4, Local DEF WorkerPassEnds, durable, memory
<1> QED BY <1>2, <1>3, <1>4, <1>5, <1>6, <1>7, <1>8, <1>9, <1>10 DEF ObserveStep

\* The settlement task: it owns every run whose create is uncertain.
LEMMA SettleStepInv ==
  ASSUME IInv, NEW r \in Runs, SettleStep(r)
  PROVE  \A x \in Runs : RunInv(x)'
<1>1. TypeOK /\ (\A x \in Runs : RunInv(x)) /\ RunInv(r) /\ run[r] \in Row
  BY DEF IInv, TypeOK
<1>2. CASE MarkRunCreatePending(r)
  <2>1. /\ run'[r] = [run[r] EXCEPT !.unsure = TRUE,
                       !.phase = IF Running(r) THEN "infrastructure-pending" ELSE @]
        /\ (Running(r) \/ Preempted(r))
    BY <1>1, <1>2 DEF MarkRunCreatePending, PendingRow, OwnsPendingCreate, TypeOK, At, Goto
  <2>2. mode = "up" /\ settle[r].step # "none"
    BY <1>1, <1>2 DEF MarkRunCreatePending, PendingRow, OwnsPendingCreate, TypeOK, At, Goto
  <2>3. UNCHANGED <<pub, wk, pass, todo, mode>>
    BY <1>1, <1>2 DEF MarkRunCreatePending, PendingRow, OwnsPendingCreate, TypeOK, At, Goto
  <2>4. /\ run'[r].status = run[r].status /\ run'[r].steps = run[r].steps
        /\ Running(r) \/ Preempted(r)
        /\ run'[r].phase = IF Running(r) THEN "infrastructure-pending" ELSE run[r].phase
    BY <1>1, <2>1 DEF Row, Preempted
  <2>5. RunInv(r)'
    BY <1>1, <2>2, <2>3, <2>4 DEF Preempted, RunInv, RowInv, PubInv, PendInv, CanInv,
       ProcInv, isPendingCreate, Running, Unclaimed, Terminal
  <2>6. \A x \in Runs \ {r} : Same(x)
    <3>1. \A x \in Runs \ {r} : run'[x] = run[x]
      BY <1>1, <1>2 DEF MarkRunCreatePending, PendingRow, TypeOK
    <3>2. \A x \in Runs \ {r} : can'[x] = can[x]
      BY <1>1, <1>2 DEF MarkRunCreatePending, PendingObligation, TypeOK
    <3>3. \A x \in Runs \ {r} : settle'[x] = settle[x]
      BY <1>1, <1>2 DEF MarkRunCreatePending, TypeOK
    <3> QED BY <1>1, <1>2, <3>1, <3>2, <3>3 DEF MarkRunCreatePending, Same, TypeOK, Goto
  <2> QED BY <1>1, <1>2, <2>5, <2>6, Local DEF MarkRunCreatePending, PendingRow,
     OwnsPendingCreate, memory
<1>3. CASE SettleSeesAbsence(r) \/ SettleReleases(r)
  <2>1. mode = "up" /\ settle[r].step # "none"
    BY <1>1, <1>3 DEF SettleSeesAbsence, SettleReleases, durable, TypeOK, At, Goto
  <2>2. UNCHANGED <<run, can, pub, wk, pass, todo, mode>>
    BY <1>1, <1>3 DEF SettleSeesAbsence, SettleReleases, durable, TypeOK, At, Goto
  <2>3. RunInv(r)'
    BY <1>1, <2>1, <2>2 DEF Row, RunInv, RowInv, PubInv, PendInv, CanInv, ProcInv,
       isPendingCreate, Running, Unclaimed, Terminal
  <2>4. \A x \in Runs \ {r} : Same(x)
    BY <1>1, <1>3 DEF SettleSeesAbsence, SettleReleases, durable, Same, TypeOK, At,
       Goto, Agents, durable, memory
  <2> QED BY <1>1, <1>3, <2>3, <2>4, Local DEF SettleSeesAbsence, SettleReleases, durable,
     memory
<1>4. CASE SettleCompletes(r)
  <2>1. run'[r] = run[r] \/ run'[r] = [run[r] EXCEPT !.unsure = @ /\ run[r].status # "interrupted"]
    BY <1>1, <1>4 DEF SettleCompletes, RetireObserved, TypeOK, At, Goto
  <2>2. can'[r] = can[r] \/ can'[r] = [can[r] EXCEPT !.open = FALSE]
    BY <1>1, <1>4 DEF SettleCompletes, RetireObserved, TypeOK, At, Goto
  <2>3. can[r] \in Obligation
    BY <1>1, <1>4 DEF SettleCompletes, RetireObserved, TypeOK, At, Goto
  <2>4. mode = "up" /\ settle[r].step # "none"
    BY <1>1, <1>4 DEF SettleCompletes, RetireObserved, TypeOK, At, Goto
  <2>5. UNCHANGED <<pub, wk, pass, todo, mode>>
    BY <1>1, <1>4 DEF SettleCompletes, RetireObserved, TypeOK, At, Goto
  <2>6. RunInv(r)'
    <3>1. CASE run'[r] = run[r]
      BY <1>1, <2>1, <2>2, <2>3, <2>4, <2>5, <3>1 DEF Row, Obligation, RunInv, RowInv,
         PubInv, PendInv, CanInv, ProcInv, isPendingCreate, Running, Unclaimed,
         Terminal
    <3>2. CASE run'[r] # run[r]
      BY <1>1, <2>1, <2>2, <2>3, <2>4, <2>5, <3>2 DEF Row, Obligation, RunInv, RowInv,
         PubInv, PendInv, CanInv, ProcInv, isPendingCreate, Running, Unclaimed,
         Terminal
    <3> QED BY <2>1, <2>2, <2>3, <2>4, <2>5, <3>1, <3>2
  <2>7. \A x \in Runs \ {r} : Same(x)
    <3>1. \A x \in Runs \ {r} : run'[x] = run[x] /\ can'[x] = can[x]
      BY <1>1, <1>4 DEF SettleCompletes, RetireObserved, TypeOK
    <3>2. \A x \in Runs \ {r} : settle'[x] = settle[x]
      BY <1>1, <1>4 DEF SettleCompletes, TypeOK
    <3> QED BY <1>1, <1>4, <3>1, <3>2 DEF SettleCompletes, Same, TypeOK, Goto
  <2> QED BY <1>1, <1>4, <2>6, <2>7, Local DEF SettleCompletes, RetireObserved, memory
<1>5. CASE SettleFinishes(r)
  <2>1. run'[r] = run[r] \/ run'[r] = FinishRow(run[r], "failed", "infrastructure")
    BY <1>1, <1>5 DEF SettleFinishes, TypeOK, At, Goto
  <2>2. mode = "up" /\ settle[r].step # "none"
    BY <1>1, <1>5 DEF SettleFinishes, TypeOK, At, Goto
  <2>3. UNCHANGED <<can, pub, wk, pass, todo, mode>>
    BY <1>1, <1>5 DEF SettleFinishes, TypeOK, At, Goto
  <2>4. \/ run'[r] = run[r]
        \/ /\ run[r].status \in {"queued", "running"} /\ run'[r].status = "failed"
           /\ run'[r].phase = "infrastructure" /\ ~run'[r].unsure
    BY <1>1, <2>1 DEF Row, FinishRow
  <2>5. RunInv(r)'
    BY <1>1, <2>2, <2>3, <2>4 DEF RunInv, RowInv, PubInv, PendInv, CanInv, ProcInv,
       isPendingCreate, Running, Unclaimed, Terminal
  <2>6. \A x \in Runs \ {r} : Same(x)
    BY <1>1, <1>5 DEF SettleFinishes, Same, TypeOK, At, Goto, Agents, durable, memory
  <2> QED BY <1>1, <1>5, <2>5, <2>6, Local DEF SettleFinishes, memory
<1>6. CASE SettleDeletes(r)
  BY <1>1, <1>6, AllSame DEF SettleDeletes, Same, durable, memory
<1> QED BY <1>2, <1>3, <1>4, <1>5, <1>6 DEF SettleStep

\* Requests, the outbox and the cluster.
LEMMA RequestInv ==
  ASSUME IInv, NEW r \in Runs, Requests(r) \/ Deliver(r) \/ ClusterStep(r)
  PROVE  \A x \in Runs : RunInv(x)'
<1>1. TypeOK /\ (\A x \in Runs : RunInv(x)) /\ RunInv(r) /\ run[r] \in Row
  BY DEF IInv, TypeOK
<1>2. ASSUME NEW head \in BOOLEAN, NEW force \in BOOLEAN, enqueueRun(r, head, force)
      PROVE  \A x \in Runs : RunInv(x)'
  <2> DEFINE old == SupersededBy(r, head, force)
  <2>1. UNCHANGED <<pub, wk, settle, pass, todo, mode>> BY <1>2 DEF enqueueRun
  <2>2. RunInv(r)'
    <3>1. run[r].status = "none" /\ run'[r] = [NoRow EXCEPT !.status = "queued", !.phase = "queued"]
      BY <1>1, <1>2 DEF enqueueRun, TypeOK
    <3>2. r \notin old BY DEF SupersededBy
    <3>3. can'[r] = can[r] BY <1>1, <1>2, <3>2 DEF enqueueRun, ObligedRuns, TypeOK
    <3>4. /\ run'[r].status = "queued" /\ run'[r].phase = "queued"
          /\ ~run'[r].steps /\ ~run'[r].unsure
      BY <3>1 DEF NoRow
    <3> QED BY <1>1, <2>1, <3>1, <3>3, <3>4 DEF RunInv, RowInv, PubInv, PendInv, CanInv,
       ProcInv, isPendingCreate, Running, Unclaimed, Terminal
  <2>3. ASSUME NEW x \in Runs, x # r, x \in old PROVE RunInv(x)'
    <3>1. RunInv(x) /\ run[x] \in Row BY <1>1 DEF TypeOK
    <3>2. run'[x] = [run[x] EXCEPT !.status = "interrupted", !.phase = "interrupted",
                                   !.superseded = TRUE]
      BY <1>2, <2>3 DEF enqueueRun
    <3>3. Active(x) /\ pub[x] # "pending" BY <2>3 DEF SupersededBy
    <3>4. pub[x] = "none" BY <1>1, <3>1, <3>3 DEF RunInv, PubInv, Active, Terminal, TypeOK
    <3>5. /\ run'[x].status = "interrupted" /\ run'[x].phase = "interrupted"
          /\ run'[x].unsure = run[x].unsure
      BY <3>1, <3>2 DEF Row
    <3> QED BY <2>1, <3>1, <3>3, <3>4, <3>5 DEF RunInv, RowInv, PubInv, PendInv, CanInv,
       ProcInv, isPendingCreate, Running, Unclaimed, Terminal
  <2>4. ASSUME NEW x \in Runs, x # r, x \notin old PROVE RunInv(x)'
    <3>1. run'[x] = run[x] /\ can'[x] = can[x]
      BY <1>2, <2>4 DEF enqueueRun, ObligedRuns
    <3> QED BY <1>1, <2>1, <3>1 DEF RunInv, RowInv, PubInv, PendInv, CanInv, ProcInv,
       isPendingCreate, Running
  <2> QED BY <2>2, <2>3, <2>4
<1>3. CASE CancelRun(r)
  <2>1. /\ run'[r] = [run[r] EXCEPT !.status = "interrupted", !.phase = "cancelled",
                       !.unsure = @ /\ run[r].phase = "infrastructure-pending"]
        /\ run[r].status \in {"queued", "running"}
    BY <1>1, <1>3 DEF CancelRun, Active, TypeOK, At, Goto
  <2>2. pub[r] # "pending" /\ pub[r] \in {"none", "pending", "delivered", "failed", "abandoned"}
    BY <1>1, <1>3 DEF CancelRun, Active, TypeOK, At, Goto
  <2>3. UNCHANGED <<wk, pub, settle, pass, todo, mode>>
    BY <1>1, <1>3 DEF CancelRun, Active, TypeOK, At, Goto
  <2>4. /\ run'[r].status = "interrupted" /\ run'[r].phase = "cancelled"
        /\ run[r].status \in {"queued", "running"}
        /\ run'[r].unsure => run[r].unsure
    BY <1>1, <2>1 DEF Row
  <2>5. RunInv(r)'
    BY <1>1, <2>2, <2>3, <2>4 DEF RunInv, RowInv, PubInv, PendInv, CanInv, ProcInv,
       isPendingCreate, Running, Unclaimed, Terminal
  <2>6. \A x \in Runs \ {r} : Same(x)
    BY <1>1, <1>3 DEF CancelRun, Active, Same, TypeOK, At, Goto, Agents, durable, memory
  <2> QED BY <1>1, <1>3, <2>5, <2>6, Local DEF CancelRun, Active, memory
<1>4. CASE RetryFailedPublication(r)
  <2>1. run'[r] = [run[r] EXCEPT !.status = "running", !.phase = "publishing", !.unsure = FALSE]
    BY <1>1, <1>4 DEF RetryFailedPublication, memory, TypeOK, At, Goto
  <2>2. pub[r] = "failed" /\ pub'[r] = "pending" /\ mode = "up"
    BY <1>1, <1>4 DEF RetryFailedPublication, memory, TypeOK, At, Goto
  <2>3. UNCHANGED <<wk, can, settle, pass, todo, mode>>
    BY <1>1, <1>4 DEF RetryFailedPublication, memory, TypeOK, At, Goto
  <2>4. /\ run'[r].status = "running" /\ run'[r].phase = "publishing" /\ ~run'[r].unsure
    BY <1>1, <2>1 DEF Row
  <2>5. RunInv(r)'
    BY <1>1, <2>2, <2>3, <2>4 DEF RunInv, RowInv, PubInv, PendInv, CanInv, ProcInv,
       isPendingCreate, Running, Unclaimed, Terminal
  <2>6. \A x \in Runs \ {r} : Same(x)
    BY <1>1, <1>4 DEF RetryFailedPublication, memory, Same, TypeOK, At, Goto, Agents,
       durable, memory
  <2> QED BY <1>1, <1>4, <2>5, <2>6, Local DEF RetryFailedPublication, memory, memory
<1>5. ASSUME NEW outcome \in {"delivered", "failed", "abandoned"},
             FinalizePublication(r, outcome) PROVE \A x \in Runs : RunInv(x)'
  <2>1. pub[r] = "pending" /\ pub'[r] \in {"delivered", "failed", "abandoned"}
    BY <1>1, <1>5 DEF FinalizePublication, Row, Terminal, memory, TypeOK, At, Goto
  <2>2. /\ run'[r].status \in Terminal /\ ~run'[r].unsure
        /\ run'[r].phase \in {"passed", "publishing", "abandoned"}
    BY <1>1, <1>5 DEF FinalizePublication, Row, Terminal, memory, TypeOK, At, Goto
  <2>3. UNCHANGED <<wk, can, settle, pass, todo, mode>>
    BY <1>1, <1>5 DEF FinalizePublication, Row, Terminal, memory, TypeOK, At, Goto
  <2>4. RunInv(r)'
    BY <1>1, <2>1, <2>2, <2>3 DEF Row, RunInv, RowInv, PubInv, PendInv, CanInv, ProcInv,
       isPendingCreate, Running, Unclaimed, Terminal
  <2>5. \A x \in Runs \ {r} : Same(x)
    BY <1>1, <1>5 DEF FinalizePublication, Row, Terminal, memory, Same, TypeOK, At,
       Goto, Agents, durable, memory
  <2> QED BY <1>1, <1>5, <2>4, <2>5, Local DEF FinalizePublication, Row, Terminal, memory,
     memory
<1>6. CASE PostLands(r)
  <2>1. wk'[r] = wk[r] \/ (wk[r] = "posting" /\ wk'[r] = "posted")
    BY <1>1, <1>6 DEF PostLands, durable, TypeOK, At, Goto
  <2>2. UNCHANGED <<run, can, pub, settle, pass, todo, mode>>
    BY <1>1, <1>6 DEF PostLands, durable, TypeOK, At, Goto
  <2>3. RunInv(r)'
    BY <1>1, <2>1, <2>2 DEF Row, RunInv, RowInv, PubInv, PendInv, CanInv, ProcInv,
       isPendingCreate, Running, Unclaimed, Terminal
  <2>4. \A x \in Runs \ {r} : Same(x)
    BY <1>1, <1>6 DEF PostLands, durable, Same, TypeOK, At, Goto, Agents, durable, memory
  <2> QED BY <1>1, <1>6, <2>3, <2>4, Local DEF PostLands, durable, memory
<1>7. CASE PostRefused(r) /\ wk[r] = "posting"
  <2>1. run'[r] = FinishRow(run[r], "failed", "infrastructure")
    BY <1>1, <1>7 DEF PostRefused, TypeOK, At, Goto
  <2>2. wk'[r] = "leave" /\ wk[r] = "posting"
    BY <1>1, <1>7 DEF PostRefused, TypeOK, At, Goto
  <2>3. UNCHANGED <<can, pub, settle, pass, todo, mode>>
    BY <1>1, <1>7 DEF PostRefused, TypeOK, At, Goto
  <2>4. \/ run'[r] = run[r]
        \/ /\ run[r].status \in {"queued", "running"} /\ run'[r].status = "failed"
           /\ run'[r].phase = "infrastructure" /\ ~run'[r].unsure
    BY <1>1, <2>1 DEF Row, FinishRow
  <2>5. RunInv(r)'
    BY <1>1, <2>2, <2>3, <2>4 DEF RunInv, RowInv, PubInv, PendInv, CanInv, ProcInv,
       isPendingCreate, Running, Unclaimed, Terminal
  <2>6. \A x \in Runs \ {r} : Same(x)
    BY <1>1, <1>7 DEF PostRefused, Same, TypeOK, At, Goto, Agents, durable, memory
  <2> QED BY <1>1, <1>7, <2>5, <2>6, Local DEF PostRefused, memory
<1>8. CASE (PostRefused(r) /\ wk[r] # "posting") \/ WorkflowGone(r)
           \/ \E v \in {"passed", "failed"} : WorkflowFinishes(r, v)
  <2>1. UNCHANGED <<run, can, pub, wk, settle, pass, todo, mode>>
    BY <1>8 DEF PostRefused, WorkflowGone, WorkflowFinishes, durable, memory
  <2> QED BY <1>1, <2>1, AllSame DEF Same
<1> QED BY <1>2, <1>3, <1>4, <1>5, <1>6, <1>7, <1>8 DEF Requests, Deliver, ClusterStep

\* Cancellation passes: they register uncertain creates, retire what they
\* observed, and fail the worker or the process they run in.
LEMMA PassStepInv ==
  ASSUME IInv, NEW a \in Agents, NEW e \in pass[a], PassStep(a, e)
  PROVE  \A x \in Runs : RunInv(x)'
<1> DEFINE r == e.id
<1>1. TypeOK /\ (\A x \in Runs : RunInv(x)) BY DEF IInv
<1>2. r \in Runs BY <1>1 DEF TypeOK, Entry
<1>3. RunInv(r) /\ run[r] \in Row /\ can[r] \in Obligation BY <1>1, <1>2 DEF TypeOK
<1> HIDE DEF r
<1>4. ASSUME \A x \in Runs : pass'[x] \subseteq pass[x], mode' = mode,
             UNCHANGED <<run, can, pub, wk, settle, todo>>
      PROVE  \A x \in Runs : RunInv(x)'
  BY <1>1, <1>4 DEF RunInv, RowInv, PubInv, PendInv, CanInv, ProcInv, isPendingCreate, Running
<1>5. ASSUME Done(a, e) PROVE \A x \in Runs : pass'[x] \subseteq pass[x]
  BY <1>1, <1>5 DEF Done, TypeOK, Agents
<1>6. CASE PassRegisters(a, e)
  <2>1. OwnedBySettlement(r) /\ UNCHANGED <<run, can, pub, wk, todo, mode>>
    BY <1>6 DEF PassRegisters, durable, r
  <2>2. \A x \in Runs \ {r} : settle'[x] = settle[x]
    BY <1>1, <1>6 DEF PassRegisters, Register, TypeOK, r
  <2>3. \A x \in Runs : pass'[x] \subseteq pass[x] BY <1>5, <1>6 DEF PassRegisters
  <2>4. mode # "down"
    BY <1>6 DEF PassRegisters, Handles
  <2>5. RunInv(r)'
    BY <1>2, <1>3, <2>1, <2>3, <2>4 DEF OwnedBySettlement, RunInv, RowInv, PubInv,
       PendInv, CanInv,
       ProcInv, isPendingCreate, Running, Unclaimed
  <2>6. ASSUME NEW x \in Runs, x # r PROVE RunInv(x)'
    BY <1>1, <2>1, <2>2, <2>3, <2>6 DEF RunInv, RowInv, PubInv, PendInv, CanInv,
       ProcInv, isPendingCreate, Running
  <2> QED BY <2>5, <2>6
<1>7. ASSUME NEW ok \in BOOLEAN, PassDeletes(a, e, ok) PROVE \A x \in Runs : RunInv(x)'
  <2>1. UNCHANGED <<run, can, pub, wk, settle, todo, mode>> BY <1>7 DEF PassDeletes, durable
  <2>2. \A x \in Runs : pass[x] = {} => pass'[x] = {}
    BY <1>1, <1>7 DEF PassDeletes, TypeOK, Agents
  <2> QED BY <1>1, <2>1, <2>2 DEF RunInv, RowInv, PubInv, PendInv, CanInv, ProcInv,
     isPendingCreate, Running
<1>8. CASE PassCompletes(a, e)
  <2>1. UNCHANGED <<pub, wk, settle, todo, mode>> BY <1>8 DEF PassCompletes
  <2>2. \A x \in Runs : pass'[x] \subseteq pass[x] BY <1>5, <1>8 DEF PassCompletes
  <2>3. \A x \in Runs \ {r} : run'[x] = run[x] /\ can'[x] = can[x]
    BY <1>1, <1>8 DEF PassCompletes, RetireObserved, TypeOK, r
  <2>4. \/ run'[r] = run[r] /\ can'[r] = can[r]
        \/ /\ run'[r] = [run[r] EXCEPT !.unsure = @ /\ run[r].status # "interrupted"]
           /\ can'[r] = [can[r] EXCEPT !.open = FALSE]
    BY <1>1, <1>2, <1>8 DEF PassCompletes, RetireObserved, TypeOK, r
  <2>5. /\ run'[r].status = run[r].status /\ run'[r].phase = run[r].phase
        /\ run'[r].steps = run[r].steps
        /\ (run'[r].unsure => run[r].unsure) /\ (can'[r].open => can[r].open)
    BY <1>3, <2>4 DEF Row, Obligation
  <2>6. RunInv(r)'
    BY <1>2, <1>3, <2>1, <2>2, <2>5 DEF RunInv, RowInv, PubInv, PendInv, CanInv,
       ProcInv, isPendingCreate, Running
  <2>7. ASSUME NEW x \in Runs, x # r PROVE RunInv(x)'
    BY <1>1, <2>1, <2>2, <2>3, <2>7 DEF RunInv, RowInv, PubInv, PendInv, CanInv,
       ProcInv, isPendingCreate, Running
  <2> QED BY <2>6, <2>7
<1>9. CASE PassDeleteFails(a, e) \/ PassConflicts(a, e)
  <2>1. UNCHANGED durable /\ \E d \in BOOLEAN : PassFails(a, d)
    BY <1>9 DEF PassDeleteFails, PassConflicts
  <2>2. CASE Stop BY <1>1, <2>1, <2>2, StopInv
  <2>3. CASE a \in {"api", "loop"} /\ ~Stop
    <3>1. a \notin Runs BY <2>3, RunsAssumption
    <3>2. /\ UNCHANGED <<todo, wk, settle>> /\ pass' = [pass EXCEPT ![a] = {}]
          /\ mode' = mode \/ (mode = "swept" /\ mode' = "sweep")
      BY <2>1, <2>3, <3>1 DEF PassFails
    <3>3. \A x \in Runs : pass'[x] = pass[x] BY <1>1, <3>1, <3>2 DEF TypeOK
    <3> QED BY <1>1, <2>1, <3>2, <3>3 DEF durable, RunInv, RowInv, PubInv, PendInv,
       CanInv, ProcInv, isPendingCreate, Running
  <2>4. CASE a \in Runs /\ ~Stop
    <3>1. /\ UNCHANGED <<run, can, pub, todo, settle, mode>>
          /\ wk' = [wk EXCEPT ![a] = "fatal"] /\ pass' = [pass EXCEPT ![a] = {}]
      BY <2>1, <2>4, RunsAssumption DEF PassFails, Goto, durable
    <3>2. wk[a] = "swept" /\ RunInv(a) BY <1>1, <2>4 DEF RunInv, ProcInv
    <3>3. wk'[a] = "fatal" /\ pass'[a] = {} BY <1>1, <2>4, <3>1 DEF TypeOK, Agents
    <3>4. RunInv(a)'
      BY <3>1, <3>2, <3>3 DEF RunInv, RowInv, PubInv, PendInv, CanInv, ProcInv,
         isPendingCreate, Running
    <3>5. \A x \in Runs \ {a} : Same(x) BY <1>1, <2>4, <3>1 DEF Same, TypeOK, Agents
    <3> QED BY <1>1, <2>4, <3>1, <3>4, <3>5, Local
  <2> QED BY <2>2, <2>3, <2>4 DEF Agents
<1> QED BY <1>6, <1>7, <1>8, <1>9 DEF PassStep

\* Reconciliation at startup: no worker holds the runs it decides on.
LEMMA ReconcileStepInv ==
  ASSUME IInv, NEW r \in Runs, ReconcileStep(r)
  PROVE  \A x \in Runs : RunInv(x)'
<1>1. TypeOK /\ (\A x \in Runs : RunInv(x)) /\ RunInv(r) /\ run[r] \in Row
  BY DEF IInv, TypeOK
<1>2. CASE ReconcileRegisters(r)
  <2>1. todo[r] # "none" /\ todo'[r] = "none"
    BY <1>1, <1>2 DEF ReconcileRegisters, Stranded, Reconciled, durable, Register,
       TypeOK, At, Goto
  <2>2. UNCHANGED <<run, can, pub, wk, pass, mode>>
    BY <1>1, <1>2 DEF ReconcileRegisters, Stranded, Reconciled, durable, Register,
       TypeOK, At, Goto
  <2>3. RunInv(r)'
    BY <1>1, <2>1, <2>2 DEF Row, RunInv, RowInv, PubInv, PendInv, CanInv, ProcInv,
       isPendingCreate, Running, Unclaimed, Terminal
  <2>4. \A x \in Runs \ {r} : Same(x)
    <3>1. \A x \in Runs \ {r} : settle'[x] = settle[x]
      BY <1>1, <1>2 DEF ReconcileRegisters, Register, TypeOK
    <3>2. \A x \in Runs \ {r} : todo'[x] = todo[x]
      BY <1>1, <1>2 DEF ReconcileRegisters, Reconciled, TypeOK
    <3>3. UNCHANGED <<run, can, pub, wk, pass, mode>>
      BY <1>1, <1>2 DEF ReconcileRegisters, durable, TypeOK
    <3> QED BY <1>1, <1>2, <3>1, <3>2, <3>3 DEF ReconcileRegisters, Same, TypeOK, Goto
  <2> QED BY <1>1, <1>2, <2>3, <2>4, Local DEF ReconcileRegisters, Stranded, Reconciled,
     durable, Register, memory
<1>3. CASE ReconcileAdopts(r)
  <2>1. /\ todo[r] \notin {"none", "infrastructure-pending"} /\ todo'[r] = "none"
        /\ wk'[r] = "adopted" /\ mode = "reconcile"
    BY <1>1, <1>3 DEF ReconcileAdopts, Stranded, Reconciled, durable, TypeOK, At, Goto
  <2>2. UNCHANGED <<run, can, pub, settle, pass, mode>>
    BY <1>1, <1>3 DEF ReconcileAdopts, Stranded, Reconciled, durable, TypeOK, At, Goto
  <2>3. RunInv(r)'
    BY <1>1, <2>1, <2>2 DEF Row, RunInv, RowInv, PubInv, PendInv, CanInv, ProcInv,
       isPendingCreate, Running, Unclaimed, Terminal
  <2>4. \A x \in Runs \ {r} : Same(x)
    BY <1>1, <1>3 DEF ReconcileAdopts, Stranded, Reconciled, durable, Same, TypeOK, At,
       Goto, Agents, durable, memory
  <2> QED BY <1>1, <1>3, <2>3, <2>4, Local DEF ReconcileAdopts, Stranded, Reconciled,
     durable, memory
<1>4. CASE RequeueStrandedRun(r)
  <2>1. run'[r] = ResetRow(run[r])
    BY <1>1, <1>4 DEF RequeueStrandedRun, Lost, Requeueable, Stranded, Reconciled,
       TypeOK, At, Goto
  <2>2. /\ todo[r] \notin {"none", "infrastructure-pending"} /\ todo'[r] = "none"
        /\ ~run[r].steps /\ pub[r] = "none"
    BY <1>1, <1>4 DEF RequeueStrandedRun, Lost, Requeueable, Stranded, Reconciled,
       TypeOK, At, Goto
  <2>3. UNCHANGED <<pub, wk, settle, pass, mode>>
    BY <1>1, <1>4 DEF RequeueStrandedRun, Lost, Requeueable, Stranded, Reconciled,
       TypeOK, At, Goto
  <2>4. /\ run'[r].status = "queued" /\ run'[r].phase = "queued"
        /\ ~run'[r].unsure /\ run'[r].steps = run[r].steps
    BY <1>1, <2>1 DEF Row, ResetRow
  <2>5. RunInv(r)'
    BY <1>1, <2>2, <2>3, <2>4 DEF RunInv, RowInv, PubInv, PendInv, CanInv, ProcInv,
       isPendingCreate, Running, Unclaimed, Terminal
  <2>6. \A x \in Runs \ {r} : Same(x)
    BY <1>1, <1>4 DEF RequeueStrandedRun, Lost, Requeueable, Stranded, Reconciled, Same,
       TypeOK, At, Goto, Agents, durable, memory
  <2> QED BY <1>1, <1>4, <2>5, <2>6, Local DEF RequeueStrandedRun, Lost, Requeueable,
     Stranded, Reconciled, memory
<1>5. CASE InterruptStrandedRun(r)
  <2>1. run'[r] = FinishRow(run[r], "interrupted", "interrupted")
    BY <1>1, <1>5 DEF InterruptStrandedRun, Lost, CompleteByName, Obligation, Stranded,
       Reconciled, TypeOK, At, Goto
  <2>2. /\ todo[r] \notin {"none", "infrastructure-pending"} /\ todo'[r] = "none"
    BY <1>1, <1>5 DEF InterruptStrandedRun, Lost, CompleteByName, Obligation, Stranded,
       Reconciled, TypeOK, At, Goto
  <2>3. can'[r].open => can[r].open
    BY <1>1, <1>5 DEF InterruptStrandedRun, Lost, CompleteByName, Obligation, Stranded,
       Reconciled, TypeOK, At, Goto
  <2>4. UNCHANGED <<pub, wk, settle, pass, mode>>
    BY <1>1, <1>5 DEF InterruptStrandedRun, Lost, CompleteByName, Obligation, Stranded,
       Reconciled, TypeOK, At, Goto
  <2>5. \/ run'[r] = run[r]
        \/ /\ run[r].status \in {"queued", "running"} /\ run'[r].status = "interrupted"
           /\ run'[r].phase = "interrupted" /\ ~run'[r].unsure
    BY <1>1, <2>1 DEF Row, FinishRow
  <2>6. RunInv(r)'
    BY <1>1, <2>2, <2>3, <2>4, <2>5 DEF RunInv, RowInv, PubInv, PendInv, CanInv,
       ProcInv, isPendingCreate, Running, Unclaimed, Terminal
  <2>7. \A x \in Runs \ {r} : Same(x)
    BY <1>1, <1>5 DEF InterruptStrandedRun, Lost, CompleteByName, Obligation, Stranded,
       Reconciled, Same, TypeOK, At, Goto, Agents, durable, memory
  <2> QED BY <1>1, <1>5, <2>6, <2>7, Local DEF InterruptStrandedRun, Lost, CompleteByName,
     Obligation, Stranded, Reconciled, memory
<1>6. CASE AdoptionRefused(r) \/ ReconcileDeleteFails(r)
  BY <1>1, <1>6, StopInv DEF AdoptionRefused, ReconcileDeleteFails
<1> QED BY <1>2, <1>3, <1>4, <1>5, <1>6 DEF ReconcileStep

\* The loop, the request handlers, startup, crash and recovery.
LEMMA ServerStepInv ==
  ASSUME IInv, LoopPass \/ ApiPass \/ ReconcileEnds \/ StartupEnds
               \/ Crash \/ FatalExit \/ RecoverOwnerState
  PROVE  \A x \in Runs : RunInv(x)'
<1>1. TypeOK /\ (\A x \in Runs : RunInv(x)) BY DEF IInv
<1>2. CASE LoopPass \/ ApiPass \/ ReconcileEnds \/ StartupEnds
  <2>1. UNCHANGED <<run, can, pub, wk, settle, todo>>
    BY <1>2 DEF LoopPass, ApiPass, ReconcileEnds, StartupEnds, durable
  <2>2. \A x \in Runs : pass'[x] = pass[x]
    BY <1>1, <1>2, RunsAssumption DEF LoopPass, ApiPass, ReconcileEnds, StartupEnds,
       TypeOK, Agents
  <2>3. mode' = mode \/ (mode' # "down" /\ \A x \in Runs : todo[x] = "none")
    BY <1>1, <1>2 DEF LoopPass, ApiPass, ReconcileEnds, StartupEnds, RunInv, ProcInv
  <2> QED BY <1>1, <2>1, <2>2, <2>3 DEF RunInv, RowInv, PubInv, PendInv, CanInv, ProcInv,
     isPendingCreate, Running
<1>3. CASE Crash \/ FatalExit
  BY <1>1, <1>3, StopInv DEF Crash, FatalExit
<1>4. CASE RecoverOwnerState
  <2> SUFFICES ASSUME NEW x \in Runs PROVE RunInv(x)' OBVIOUS
  <2>1. RunInv(x) /\ run[x] \in Row /\ can[x] \in Obligation BY <1>1 DEF TypeOK
  <2>2. /\ wk[x] = "none" /\ settle[x].step = "none" /\ mode' = "reconcile"
        /\ UNCHANGED <<pub, wk, settle, pass>>
    BY <1>4, <2>1 DEF RecoverOwnerState, RunInv, ProcInv
  <2>3. run'[x] = RecoveredRow(x) BY <1>4 DEF RecoverOwnerState
  <2>4. todo'[x] = IF run'[x].status = "running" /\ run'[x].job /\ pub[x] # "pending"
                   THEN run'[x].phase ELSE "none"
    BY <1>4 DEF RecoverOwnerState
  <2>5. can'[x].open => can[x].open
    BY <1>4, <2>1 DEF RecoverOwnerState, Obligation
  <2>6. CASE run'[x] = run[x]
    <3>1. todo'[x] # "none" => pub[x] = "none"
      BY <1>1, <2>1, <2>4, <2>6 DEF RunInv, PubInv, Terminal, TypeOK
    <3> QED BY <2>1, <2>2, <2>4, <2>5, <2>6, <3>1 DEF RunInv, RowInv, PubInv, PendInv, CanInv,
            ProcInv, isPendingCreate, Running, Unclaimed
  <2>7. CASE run'[x] = ResetRow(run[x]) /\ ~run[x].steps /\ pub[x] = "none"
    <3>1. /\ run'[x].status = "queued" /\ run'[x].phase = "queued" /\ ~run'[x].unsure
          /\ ~run'[x].steps
      BY <2>1, <2>7 DEF ResetRow, Row
    <3> QED BY <2>1, <2>2, <2>4, <2>5, <2>7, <3>1 DEF RunInv, RowInv, PubInv, PendInv, CanInv,
            ProcInv, isPendingCreate, Running, Unclaimed
  <2>8. CASE /\ run'[x] = [run[x] EXCEPT !.status = "interrupted", !.phase = "interrupted"]
             /\ Running(x) /\ pub[x] # "pending"
    <3>1. /\ run'[x].status = "interrupted" /\ run'[x].phase = "interrupted"
          /\ run'[x].unsure = run[x].unsure
      BY <2>1, <2>8 DEF Row
    <3>2. pub[x] = "none" BY <1>1, <2>1, <2>8 DEF RunInv, PubInv, Running, Terminal, TypeOK
    <3> QED BY <2>1, <2>2, <2>4, <2>5, <2>8, <3>1, <3>2 DEF RunInv, RowInv, PubInv,
       PendInv, CanInv,
            ProcInv, isPendingCreate, Running, Unclaimed
  <2> QED BY <2>3, <2>6, <2>7, <2>8 DEF RecoveredRow, WaitingClaim, Requeueable
<1> QED BY <1>2, <1>3, <1>4

LEMMA InvInit == Init => IInv
<1> SUFFICES ASSUME Init PROVE \A r \in Runs : RunInv(r) BY TypeInit DEF IInv
<1> SUFFICES ASSUME NEW r \in Runs PROVE RunInv(r) OBVIOUS
<1>1. run[r] = NoRow /\ can[r] = NoObligation /\ settle[r] = NoSettle BY DEF Init
<1>2. /\ pub[r] = "none" /\ wk[r] = "none" /\ todo[r] = "none" /\ pass[r] = {}
  BY DEF Init, Agents
<1> QED BY <1>1, <1>2 DEF NoRow, NoObligation, NoSettle, RunInv, RowInv, PubInv, PendInv,
   CanInv,
        ProcInv, isPendingCreate, Running

LEMMA InvStep == IInv /\ [Next]_vars => IInv'
<1> SUFFICES ASSUME IInv, [Next]_vars PROVE \A r \in Runs : RunInv(r)'
  BY TypeStep DEF IInv
<1>1. CASE UNCHANGED vars
  <2>1. mode' = mode /\ \A x \in Runs : Same(x)
    BY <1>1 DEF vars, durable, memory, Same
  <2> QED BY <2>1, AllSame DEF IInv
<1>2. CASE Next
  BY <1>2, CreateStepInv, ObserveStepInv, SettleStepInv, RequestInv, PassStepInv,
     ReconcileStepInv, ServerStepInv DEF Next, WorkerStep
<1> QED BY <1>1, <1>2

LEMMA Invariance == Spec => []IInv
<1> QED BY InvInit, InvStep, PTL DEF Spec

\* Whatever crashes, restarts and requests come, a run that is queued again has
\* left no evidence of the earlier attempt.
THEOREM RequeuesAreClean == Spec => []RequeueIsClean
<1>1. IInv => RequeueIsClean
  BY DEF IInv, RunInv, RowInv, RequeueIsClean, Unclaimed
<1> QED BY <1>1, Invariance, PTL

\* The publication row and the phase of its run never disagree.
THEOREM PublicationsOwnRuns == Spec => []PublicationOwnsRun
<1>1. IInv => PublicationOwnsRun
  BY DEF IInv, RunInv, PubInv, PublicationOwnsRun
<1> QED BY <1>1, Invariance, PTL

\* No pass ever holds an obligation against a run that is meant to run on.
THEOREM ObligationsSpareRuns == Spec => []ObligationSparesRunning
<1>1. IInv => ObligationSparesRunning
  BY DEF IInv, RunInv, CanInv, ObligationSparesRunning
<1> QED BY <1>1, Invariance, PTL

=============================================================================
