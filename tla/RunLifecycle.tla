---------------------------- MODULE RunLifecycle ----------------------------
(***************************************************************************)
(* One run of Oberth from the push to its verdict: the rows of the SQLite  *)
(* store (runs, run_cancellations, publications), the goroutine that       *)
(* executes a claimed run, the cancellation passes, the settlement of an   *)
(* uncertain Workflow create, and the recovery of a process that stopped.  *)
(* The Kubernetes API is external and appears as the state of the one      *)
(* Workflow object a run's deterministic name can denote.                  *)
(*                                                                         *)
(* Every store operation is one transaction and one step; everything the   *)
(* code does between two transactions or two Kubernetes requests is        *)
(* another step, so that passes, workers, API requests and crashes         *)
(* interleave exactly where the code lets them.                            *)
(***************************************************************************)
EXTENDS Naturals, FiniteSets

CONSTANTS Runs,           \* run identifiers
          RefOf,          \* the ref (repository and branch) each run builds
          PromotionRuns,  \* runs whose trigger is "promotion"
          Protected,      \* runs with PriorityProtected work
          MaxClaimed,     \* bound: workers the dispatch loop keeps alive at once
          FaultKinds,     \* the faults that may happen: see Faults
          MaxFaults       \* how many of them may happen in a behaviour

Faults == {"crash", "delete", "timeout", "watch", "push", "database"}

ASSUME RunsAssumption == /\ PromotionRuns \subseteq Runs /\ Protected \subseteq Runs
                         /\ Runs \cap {"loop", "api"} = {}
ASSUME BoundsAssumption == MaxClaimed \in Nat \ {0}
ASSUME FaultsAssumption == FaultKinds \subseteq Faults /\ MaxFaults \in Nat

VARIABLES
  run,       \* table runs
  can,       \* table run_cancellations: the Workflow-deletion obligations
  pub,       \* table publications: the status of a run's publication
  contract,  \* the .create-admissions/<run>.json file exists
  wf,        \* the Workflow object of a run's deterministic name
  post,      \* a create request for it is on its way to the API server
  mode,      \* where the server process is
  todo,      \* reconciliation: the phase a run still to be reconciled was read in
  wk,        \* where the goroutine that owns a claimed run is
  result,    \* the verdict that goroutine has observed
  intent,    \* the in-process argoIntent of the run
  settle,    \* the pendingCreate entry of the run
  pass,      \* the obligations each cancellation pass is working through
  asked,     \* obligations a request handler was handed and has not started on
  wake,      \* the dispatch loop's wake channel holds a token
  faults     \* faults so far

durable == <<run, can, pub, contract>>
cluster == <<wf, post>>
memory  == <<mode, todo, wk, result, intent, settle, pass, asked, wake>>
vars == <<durable, cluster, memory, faults>>

-----------------------------------------------------------------------------
(* Rows *)

Statuses == {"none", "queued", "running", "passed", "failed", "interrupted"}
Phases == {"none", "queued", "waiting", "running", "infrastructure-pending",
           "publishing", "passed", "job", "infrastructure", "interrupted",
           "cancelled", "abandoned"}

\* unsure: the error column holds one of the "cleanup pending" messages.
Row == [status: Statuses, phase: Phases, job: BOOLEAN, started: BOOLEAN,
        steps: BOOLEAN, superseded: BOOLEAN, unsure: BOOLEAN]

\* at stands for created_at: it grows with every write of that column.
Obligation == [open: BOOLEAN, job: BOOLEAN,
               reason: {"superseded", "owner_restart"}, at: Nat]

NoRow == [status |-> "none", phase |-> "none", job |-> FALSE, started |-> FALSE,
          steps |-> FALSE, superseded |-> FALSE, unsure |-> FALSE]
NoObligation == [open |-> FALSE, job |-> FALSE, reason |-> "superseded", at |-> 0]

Active(r) == run[r].status \in {"queued", "running"}
Running(r) == run[r].status = "running"
Preempted(r) == run[r].status = "interrupted"
                /\ (run[r].superseded \/ run[r].phase = "cancelled")

isPendingCreate(r) == run[r].phase = "infrastructure-pending" \/ run[r].unsure

\* The upsert every writer of created_at performs on run_cancellations.
Upsert(r, job, reason) == [open |-> TRUE, job |-> job, reason |-> reason,
                           at |-> can[r].at + 1]

\* resetRunAfterRestartTx
ResetRow(row) == [row EXCEPT !.status = "queued", !.phase = "queued", !.job = FALSE,
                             !.started = FALSE, !.unsure = FALSE]

\* Mutant: the last writer wins.
FinishRow_AnyStatus(row, status, phase) ==
  [row EXCEPT !.status = status, !.phase = phase, !.unsure = FALSE]

\* finishRunTx: only a queued or running row takes the verdict.
FinishRow(row, status, phase) ==
  IF row.status \in {"queued", "running"}
  THEN [row EXCEPT !.status = status, !.phase = phase, !.unsure = FALSE]
  ELSE row

\* requeueStrandedRunTx
Requeueable(r) ==
  /\ Running(r) /\ r \notin PromotionRuns
  /\ ~run[r].steps /\ pub[r] = "none"
  /\ r \in Protected \/ ~\E o \in Runs \ {r} : RefOf[o] = RefOf[r] /\ Active(o)

-----------------------------------------------------------------------------
(* Cancellation passes: agents and their entries *)

Agents == Runs \cup {"loop", "api"}
Entry == [id: Runs, row: Obligation, gone: BOOLEAN]

WorkerStates ==
  {"none", "claimed", "prepare", "gate", "admitted", "checked", "reserved",
   "posting", "posted", "created", "unmarked", "wiped", "undo", "rearm", "undone", "observe",
   "resumed", "wipe", "record", "decide", "deliver", "uncertain", "sweep",
   "swept", "rearmed", "fatal", "leave", "adopted"}

\* A pendingCreate entry, and the ledger row its attempt observed.
Settlement == [step: {"none", "todo", "armed", "gone", "confirmed", "finished"},
               row: Obligation]
NoSettle == [step |-> "none", row |-> NoObligation]

TypeOK ==
  /\ run \in [Runs -> Row]
  /\ can \in [Runs -> Obligation]
  /\ pub \in [Runs -> {"none", "pending", "delivered", "failed", "abandoned"}]
  /\ contract \in [Runs -> BOOLEAN]
  /\ wf \in [Runs -> {"absent", "live", "passed", "failed", "deleting"}]
  /\ post \in [Runs -> BOOLEAN]
  /\ mode \in {"down", "reconcile", "sweep", "swept", "up"}
  /\ todo \in [Runs -> Phases]
  /\ wk \in [Runs -> WorkerStates]
  /\ result \in [Runs -> {"none", "passed", "failed"}]
  /\ intent \in [Runs -> {"none", "reserved", "created", "cancelled"}]
  /\ settle \in [Runs -> Settlement]
  /\ pass \in [Agents -> SUBSET Entry]
  /\ asked \in SUBSET Runs
  /\ wake \in BOOLEAN
  /\ faults \in 0 .. MaxFaults

Init ==
  /\ run = [r \in Runs |-> NoRow]
  /\ can = [r \in Runs |-> NoObligation]
  /\ pub = [r \in Runs |-> "none"]
  /\ contract = [r \in Runs |-> FALSE]
  /\ wf = [r \in Runs |-> "absent"]
  /\ post = [r \in Runs |-> FALSE]
  /\ mode = "down"
  /\ todo = [r \in Runs |-> "none"]
  /\ wk = [r \in Runs |-> "none"]
  /\ result = [r \in Runs |-> "none"]
  /\ intent = [r \in Runs |-> "none"]
  /\ settle = [r \in Runs |-> NoSettle]
  /\ pass = [a \in Agents |-> {}]
  /\ asked = {}
  /\ wake = FALSE
  /\ faults = 0

Fault(kind) == kind \in FaultKinds /\ faults < MaxFaults /\ faults' = faults + 1
NoFault == UNCHANGED faults

At(r, state) == mode = "up" /\ wk[r] = state
Goto(r, state) == wk' = [wk EXCEPT ![r] = state]

\* The process ends: durable rows, the file and the cluster stay.
Stop ==
  /\ mode' = "down"
  /\ todo' = [r \in Runs |-> "none"]
  /\ wk' = [r \in Runs |-> "none"]
  /\ result' = [r \in Runs |-> "none"]
  /\ intent' = [r \in Runs |-> "none"]
  /\ settle' = [r \in Runs |-> NoSettle]
  /\ pass' = [a \in Agents |-> {}]
  /\ asked' = {}
  /\ wake' = FALSE

-----------------------------------------------------------------------------
(* Kubernetes, external *)

\* Controller.Cancel: a background delete; an absent Workflow is success.
Cancelled(w) == IF w = "absent" THEN "absent" ELSE "deleting"

PostLands(r) ==
  /\ post[r]
  /\ post' = [post EXCEPT ![r] = FALSE]
  /\ wf' = [wf EXCEPT ![r] = IF @ = "absent" THEN "live" ELSE @]
  /\ wk' = [wk EXCEPT ![r] = IF @ = "posting" THEN "posted" ELSE @]
  /\ UNCHANGED <<durable, mode, todo, result, intent, settle, pass, asked, wake>> /\ NoFault

WorkflowFinishes(r, verdict) ==
  /\ wf[r] = "live"
  /\ wf' = [wf EXCEPT ![r] = verdict]
  /\ UNCHANGED <<durable, post, memory>> /\ NoFault

WorkflowGone(r) ==
  /\ wf[r] = "deleting"
  /\ wf' = [wf EXCEPT ![r] = "absent"]
  /\ UNCHANGED <<durable, post, memory>> /\ NoFault

-----------------------------------------------------------------------------
(* ArgoJobs.Delete *)

\* While create() is still running Delete only leaves a tombstone and tries a
\* best-effort Cancel, whose error it ignores; otherwise Cancel must succeed.
DeleteSucceeds(r, ok) == ok \/ intent[r] \in {"reserved", "cancelled"}
Delete(r, ok) ==
  /\ wf' = [wf EXCEPT ![r] = IF ok THEN Cancelled(@) ELSE @]
  /\ intent' = [intent EXCEPT ![r] =
                  IF @ \in {"reserved", "cancelled"} THEN "cancelled"
                  ELSE IF ok THEN "none" ELSE @]
  /\ UNCHANGED post
  /\ IF ok THEN NoFault ELSE Fault("delete")

-----------------------------------------------------------------------------
(* Requests: enqueue, cancel, publication retry *)

\* enqueueRunTx. head: a new branch head, so queued work for another commit is
\* stale whatever its priority; force: an explicit supersede that is permitted.
SupersededBy(n, head, force) ==
  IF n \in PromotionRuns THEN {} ELSE
  {o \in Runs \ ({n} \cup PromotionRuns) :
     /\ RefOf[o] = RefOf[n] /\ Active(o) /\ pub[o] # "pending"
     /\ \/ head /\ run[o].status = "queued" /\ ~run[o].started
        \/ (force \/ n \notin Protected) /\ (force \/ o \notin Protected)}

ObligedRuns(old) == {o \in old : Running(o) \/ run[o].job}

enqueueRun(n, head, force) ==
  LET old == SupersededBy(n, head, force)
      owing == ObligedRuns(old)
  IN /\ mode # "down" /\ run[n].status = "none"
     /\ run' = [r \in Runs |->
                  IF r = n THEN [NoRow EXCEPT !.status = "queued", !.phase = "queued"]
                  ELSE IF r \in old
                  THEN [run[r] EXCEPT !.status = "interrupted", !.phase = "interrupted",
                                      !.superseded = TRUE]
                  ELSE run[r]]
     /\ can' = [r \in Runs |->
                  IF r \in owing
                  THEN Upsert(r, run[r].job, IF run[r].phase = "infrastructure-pending"
                                             THEN "owner_restart" ELSE "superseded")
                  ELSE can[r]]
     /\ asked' = asked \cup owing
     /\ wake' = (wake \/ owing = {})
     /\ UNCHANGED <<pub, contract, cluster, mode, todo, wk, result, intent, settle, pass>>
     /\ NoFault

\* Mutant: a run that is publishing can be cancelled.
CancelRun_Publishing(r) ==
  /\ Active(r)
  /\ run' = [run EXCEPT ![r].status = "interrupted", ![r].phase = "cancelled"]
  /\ UNCHANGED <<can, pub, contract, cluster, memory>> /\ NoFault

\* CancelRun: an API request, or the administrative command on the database
\* file, which needs no server.
CancelRun(r) ==
  /\ Active(r) /\ pub[r] # "pending"
  /\ run' = [run EXCEPT ![r].status = "interrupted", ![r].phase = "cancelled",
                        ![r].unsure = @ /\ run[r].phase = "infrastructure-pending"]
  /\ can' = IF Running(r)
            THEN [can EXCEPT ![r] = Upsert(r, run[r].job,
                    IF run[r].phase = "infrastructure-pending"
                    THEN "owner_restart" ELSE "superseded")]
            ELSE can
  /\ asked' = IF mode # "down" /\ Running(r) THEN asked \cup {r} ELSE asked
  /\ wake' = (wake \/ (mode # "down" /\ ~Running(r)))
  /\ UNCHANGED <<pub, contract, cluster, mode, todo, wk, result, intent, settle, pass>>
  /\ NoFault

RetryFailedPublication(r) ==
  /\ mode = "up" /\ r \notin PromotionRuns
  /\ pub[r] = "failed" /\ run[r].status = "failed" /\ run[r].phase = "publishing"
  /\ pub' = [pub EXCEPT ![r] = "pending"]
  /\ run' = [run EXCEPT ![r].status = "running", ![r].phase = "publishing",
                        ![r].unsure = FALSE]
  /\ UNCHANGED <<can, contract, cluster, memory>> /\ NoFault

-----------------------------------------------------------------------------
(* Scheduler.execute: from the claim to the Workflow *)

\* claimableRunSQL
Claimable(r) ==
  /\ run[r].status = "queued" /\ ~can[r].open
  /\ ~\E o \in Runs : RefOf[o] = RefOf[r] /\ pub[o] = "pending"

ClaimNextRun(r) ==
  /\ At(r, "none") /\ pass["loop"] = {} /\ Claimable(r)
  /\ Cardinality({o \in Runs : wk[o] # "none"}) < MaxClaimed
  /\ run' = [run EXCEPT ![r].status = "running", ![r].phase = "waiting"]
  /\ Goto(r, "claimed")
  /\ UNCHANGED <<can, pub, contract, cluster, mode, todo, result, intent, settle, pass,
                 asked, wake>> /\ NoFault

\* The worker reads the row before it does anything, and again while it waits
\* for the workflow policy; a run that is no longer active ends it. Only a run that
\* a restart requeued can have a contract here, and the code removes it.
BeginExecute(r) ==
  /\ At(r, "claimed")
  /\ IF Active(r)
     THEN contract' = [contract EXCEPT ![r] = FALSE] /\ Goto(r, "prepare")
     ELSE UNCHANGED contract /\ Goto(r, "leave")
  /\ UNCHANGED <<run, can, pub, cluster, mode, todo, result, intent, settle, pass, asked,
                 wake>> /\ NoFault

PolicyStopped(r) ==
  /\ At(r, "prepare") /\ ~Active(r)
  /\ Goto(r, "leave")
  /\ UNCHANGED <<durable, cluster, mode, todo, result, intent, settle, pass, asked, wake>>
  /\ NoFault

\* finishInfrastructureFailure of any step before the create request.
FailBeforeCreate(r) ==
  /\ \E s \in {"prepare", "gate", "admitted", "checked", "reserved"} : At(r, s)
  /\ run' = [run EXCEPT ![r] = FinishRow(@, "failed", "infrastructure")]
  /\ intent' = [intent EXCEPT ![r] = IF @ = "cancelled" THEN @ ELSE "none"]
  /\ Goto(r, "leave")
  /\ UNCHANGED <<can, pub, contract, cluster, mode, todo, result, settle, pass, asked, wake>>
  /\ NoFault

SetRunWorkflowName(r) ==
  /\ At(r, "prepare") /\ (Active(r) \/ Preempted(r))
  /\ run' = [run EXCEPT ![r].job = TRUE]
  /\ can' = [can EXCEPT ![r] =
               IF ~Preempted(r) THEN @
               ELSE IF @.at = 0 THEN Upsert(r, TRUE, "superseded")
               ELSE IF @.open THEN [@ EXCEPT !.job = TRUE] ELSE @]
  /\ Goto(r, IF Preempted(r) THEN "sweep" ELSE "gate")
  /\ UNCHANGED <<pub, contract, cluster, mode, todo, result, intent, settle, pass, asked,
                 wake>> /\ NoFault

\* The admission gate grants or was withdrawn, then MarkRunAdmitted.
MarkRunAdmitted(r) ==
  /\ At(r, "gate")
  /\ IF Preempted(r)
     THEN UNCHANGED run /\ Goto(r, "sweep")
     ELSE run' = [run EXCEPT ![r].started = TRUE] /\ Goto(r, "admitted")
  /\ UNCHANGED <<can, pub, contract, cluster, mode, todo, result, intent, settle, pass, asked,
                 wake>> /\ NoFault

\* The last read of the row before any Workflow exists, then the durable
\* admission contract.
RecheckBeforeCreate(r) ==
  /\ At(r, "admitted")
  /\ IF Preempted(r)
     THEN UNCHANGED contract /\ Goto(r, "sweep")
     ELSE contract' = [contract EXCEPT ![r] = TRUE] /\ Goto(r, "checked")
  /\ UNCHANGED <<run, can, pub, cluster, mode, todo, result, intent, settle, pass, asked,
                 wake>> /\ NoFault

\* ArgoJobs.create reserves the intent; a leftover intent of the same run would
\* read as a submission already in flight. (None is met: a process creates the
\* Workflow of a run once.)
ReserveIntent(r) ==
  /\ At(r, "checked")
  /\ IF intent[r] = "none"
     THEN intent' = [intent EXCEPT ![r] = "reserved"] /\ Goto(r, "reserved")
     ELSE UNCHANGED intent /\ Goto(r, "created")
  /\ UNCHANGED <<durable, cluster, mode, todo, result, settle, pass, asked, wake>> /\ NoFault

\* The cheap early abort: Delete arrived before the source was read.
AbortEarly(r) ==
  /\ At(r, "reserved") /\ intent[r] = "cancelled"
  /\ intent' = [intent EXCEPT ![r] = "none"]
  /\ run' = [run EXCEPT ![r] = FinishRow(@, "failed", "infrastructure")]
  /\ Goto(r, "leave")
  /\ UNCHANGED <<can, pub, contract, cluster, mode, todo, result, settle, pass, asked, wake>>
  /\ NoFault

SendCreate(r) ==
  /\ At(r, "reserved")
  /\ post' = [post EXCEPT ![r] = TRUE]
  /\ Goto(r, "posting")
  /\ UNCHANGED <<durable, wf, mode, todo, result, intent, settle, pass, asked, wake>>
  /\ NoFault

\* A definite rejection. The deferred cleanup drops the intent unless Delete
\* has cancelled it.
PostRefused(r) ==
  /\ post[r]
  /\ post' = [post EXCEPT ![r] = FALSE]
  /\ IF wk[r] = "posting"
     THEN /\ run' = [run EXCEPT ![r] = FinishRow(@, "failed", "infrastructure")]
          /\ intent' = [intent EXCEPT ![r] = IF @ = "cancelled" THEN @ ELSE "none"]
          /\ Goto(r, "leave")
     ELSE UNCHANGED <<run, intent, wk>>
  /\ UNCHANGED <<can, pub, contract, wf, mode, todo, result, settle, pass, asked, wake>>
  /\ NoFault

\* The reply is lost: the request may still commit.
CreateTimesOut(r) ==
  /\ At(r, "posting") /\ Fault("timeout")
  /\ intent' = [intent EXCEPT ![r] = IF @ = "cancelled" THEN @ ELSE "none"]
  /\ Goto(r, "uncertain")
  /\ UNCHANGED <<durable, cluster, mode, todo, result, settle, pass, asked, wake>>

\* The post-create check: a cancelled intent cancels the live Workflow, with the
\* error ignored, and reads as superseded.
AfterCreate(r, ok) ==
  /\ At(r, "posted")
  /\ IF intent[r] = "cancelled"
     THEN /\ intent' = [intent EXCEPT ![r] = "none"]
          /\ wf' = [wf EXCEPT ![r] = IF ok THEN Cancelled(@) ELSE @]
          /\ run' = [run EXCEPT ![r] = FinishRow(@, "failed", "infrastructure")]
          /\ IF ok THEN NoFault ELSE Fault("delete")
          /\ Goto(r, "leave")
     ELSE /\ ok
          /\ intent' = [intent EXCEPT ![r] = IF @ = "reserved" THEN "created" ELSE @]
          /\ Goto(r, "created")
          /\ UNCHANGED <<run, wf>> /\ NoFault
  /\ UNCHANGED <<can, pub, contract, post, mode, todo, result, settle, pass, asked, wake>>

MarkRunSubmitted(r) ==
  /\ At(r, "created")
  /\ \/ Preempted(r) /\ UNCHANGED run /\ Goto(r, "undo")
     \/ /\ Running(r) /\ run[r].phase = "waiting" /\ run[r].job
        /\ run' = [run EXCEPT ![r].phase = "running", ![r].started = TRUE]
        /\ Goto(r, "observe")
  /\ contract' = [contract EXCEPT ![r] = FALSE]
  /\ UNCHANGED <<can, pub, cluster, mode, todo, result, intent, settle, pass, asked, wake>>
  /\ NoFault

\* MarkRunSubmitted returns an error, whether or not it has committed. The
\* contract stays.
SubmitUnverified(r) ==
  /\ At(r, "created") /\ Fault("database")
  /\ \/ UNCHANGED run
     \/ /\ Running(r) /\ run[r].phase = "waiting" /\ run[r].job
        /\ run' = [run EXCEPT ![r].phase = "running", ![r].started = TRUE]
  /\ Goto(r, "unmarked")
  /\ UNCHANGED <<can, pub, contract, cluster, mode, todo, result, intent, settle, pass, asked,
                 wake>>

\* The owner then deletes the Workflow, or hands it to the settlement, ...
DeleteUnverified(r, ok) ==
  /\ At(r, "unmarked")
  /\ Delete(r, ok)
  /\ Goto(r, IF DeleteSucceeds(r, ok) THEN "wiped" ELSE "uncertain")
  /\ UNCHANGED <<durable, mode, todo, result, settle, pass, asked, wake>>

\* ... and fails the run once the delete was accepted.
FailUnverified(r) ==
  /\ At(r, "wiped")
  /\ run' = [run EXCEPT ![r] = FinishRow(@, "failed", "infrastructure")]
  /\ Goto(r, "leave")
  /\ UNCHANGED <<can, pub, contract, cluster, mode, todo, result, intent, settle, pass, asked,
                 wake>> /\ NoFault

\* Superseded or cancelled after the last check: the owner deletes the Workflow
\* it has just created.
DeletePreempted(r, ok) ==
  /\ At(r, "undo")
  /\ Delete(r, ok)
  /\ Goto(r, IF DeleteSucceeds(r, ok) THEN "undone" ELSE "rearm")
  /\ UNCHANGED <<durable, mode, todo, result, settle, pass, asked, wake>>

\* RearmRunCancellation writes job_name and completed_at only, unless there is
\* no row. The owner then returns an error, which stops the server.
RearmRunCancellation(r) ==
  /\ At(r, "rearm")
  /\ can' = [can EXCEPT ![r] = IF ~Preempted(r) THEN @
                               ELSE IF @.at = 0 THEN Upsert(r, TRUE, "superseded")
                               ELSE [@ EXCEPT !.open = TRUE, !.job = TRUE]]
  /\ Goto(r, "rearmed")
  /\ UNCHANGED <<run, pub, contract, cluster, mode, todo, result, intent, settle, pass, asked,
                 wake>> /\ NoFault

\* CompleteRunCancellation: by run and Job name, whatever the row's age.
CompleteByName(r) == [can EXCEPT ![r].open = @ /\ ~can[r].job]

CompleteRunCancellation(r) ==
  /\ At(r, "undone")
  /\ can' = CompleteByName(r)
  /\ Goto(r, IF can[r].job THEN "leave" ELSE "fatal")
  /\ UNCHANGED <<run, pub, contract, cluster, mode, todo, result, intent, settle, pass, asked,
                 wake>> /\ NoFault

\* Mutant: the leaving worker settles nothing.
CompleteWithoutJob_Never(r) == can

\* executeAndCleanupReservedWithGate, after execute has returned: a preempted
\* run that never published a Job name has nothing to delete.
CompleteWithoutJob(r) ==
  [can EXCEPT ![r].open = @ /\ ~(~can[r].job /\ can[r].reason = "superseded" /\ Preempted(r))]

LeaveRun(r) ==
  /\ At(r, "leave")
  /\ can' = IF Running(r) /\ run[r].job THEN can ELSE CompleteWithoutJob(r)
  /\ result' = [result EXCEPT ![r] = "none"]
  /\ Goto(r, "none")
  /\ UNCHANGED <<run, pub, contract, cluster, mode, todo, intent, settle, pass, asked, wake>>
  /\ NoFault

-----------------------------------------------------------------------------
(* Scheduler.observeRun: from the Workflow to the verdict *)

\* resumeAdoptedRun
ResumeAdopted(r) ==
  /\ At(r, "adopted")
  /\ IF Preempted(r)
     THEN UNCHANGED <<run, contract>> /\ Goto(r, "sweep")
     ELSE /\ run' = [run EXCEPT ![r].phase = IF @ = "waiting" THEN "running" ELSE @,
                                ![r].started = TRUE]
          /\ contract' = [contract EXCEPT ![r] = FALSE]
          /\ Goto(r, "resumed")
  /\ UNCHANGED <<can, pub, cluster, mode, todo, result, intent, settle, pass, asked, wake>>
  /\ NoFault

Observing(r) == At(r, "observe") \/ At(r, "resumed")

WaitReturns(r) ==
  /\ Observing(r) /\ wf[r] \in {"passed", "failed"}
  /\ result' = [result EXCEPT ![r] = wf[r]]
  /\ Goto(r, "record")
  /\ UNCHANGED <<durable, cluster, mode, todo, intent, settle, pass, asked, wake>> /\ NoFault

\* Wait reports an error: the Workflow is going or gone, or the watch broke.
WaitFails(r) ==
  /\ Observing(r)
  /\ IF wf[r] \in {"absent", "deleting"} THEN NoFault ELSE Fault("watch")
  /\ Goto(r, IF wk[r] = "resumed" /\ Preempted(r) THEN "sweep" ELSE "wipe")
  /\ UNCHANGED <<durable, cluster, mode, todo, result, intent, settle, pass, asked, wake>>

\* A terminal Workflow keeps its real result.
ReadTerminal(r) ==
  /\ At(r, "wipe") /\ wf[r] \in {"passed", "failed"}
  /\ result' = [result EXCEPT ![r] = wf[r]]
  /\ Goto(r, "record")
  /\ UNCHANGED <<durable, cluster, mode, todo, intent, settle, pass, asked, wake>> /\ NoFault

\* Mutant: the failure is recorded whether or not the delete worked.
DeleteUnobserved_BestEffort(r, ok) ==
  /\ At(r, "wipe")
  /\ Delete(r, ok)
  /\ result' = [result EXCEPT ![r] = "failed"] /\ Goto(r, "record")
  /\ UNCHANGED <<durable, mode, todo, settle, pass, asked, wake>>

\* Otherwise it must be deleted before the failure is recorded; a failed delete
\* stops the server, or hands an expired admission to the settlement.
DeleteUnobserved(r, ok) ==
  /\ At(r, "wipe")
  /\ Delete(r, ok)
  /\ IF DeleteSucceeds(r, ok)
     THEN result' = [result EXCEPT ![r] = "failed"] /\ Goto(r, "record")
     ELSE UNCHANGED result /\ \E s \in {"fatal", "uncertain"} : Goto(r, s)
  /\ UNCHANGED <<durable, mode, todo, settle, pass, asked, wake>>

\* persistSteps: PutStepResult refuses a terminal run, which fails the result.
PersistSteps(r) ==
  /\ At(r, "record")
  /\ IF Active(r)
     THEN run' = [run EXCEPT ![r].steps = TRUE] /\ UNCHANGED result
     ELSE result' = [result EXCEPT ![r] = "failed"] /\ UNCHANGED run
  /\ Goto(r, "decide")
  /\ UNCHANGED <<can, pub, contract, cluster, mode, todo, intent, settle, pass, asked, wake>>
  /\ NoFault

\* A green run begins its publication in the same transaction that moves it to
\* publishing.
BeginPublication(r) ==
  /\ At(r, "decide") /\ result[r] = "passed" /\ Running(r)
  /\ pub' = [pub EXCEPT ![r] = "pending"]
  /\ run' = [run EXCEPT ![r].phase = "publishing"]
  /\ Goto(r, "deliver")
  /\ UNCHANGED <<can, contract, cluster, mode, todo, result, intent, settle, pass, asked, wake>>
  /\ NoFault

\* A red verdict, or a publication that was refused: a preempted run, or a
\* promotion whose record or grant no longer matches.
FinishRun(r) ==
  /\ At(r, "decide")
  /\ result[r] = "failed" \/ ~Running(r) \/ r \in PromotionRuns
  /\ run' = [run EXCEPT ![r] =
               FinishRow(@, "failed", IF result[r] = "failed" THEN "job" ELSE "publishing")]
  /\ Goto(r, "leave")
  /\ UNCHANGED <<can, pub, contract, cluster, mode, todo, result, intent, settle, pass, asked,
                 wake>> /\ NoFault

\* finalizePublication, by the worker, the startup recovery or the outbox.
FinalizePublication(r, outcome) ==
  /\ mode \in {"swept", "up"} /\ pub[r] = "pending"
  /\ Running(r) /\ run[r].phase = "publishing"
  /\ pub' = [pub EXCEPT ![r] = outcome]
  /\ run' = [run EXCEPT
       ![r].status = IF outcome = "delivered" THEN "passed" ELSE "failed",
       ![r].phase = CASE outcome = "delivered" -> "passed"
                      [] outcome = "failed" -> "publishing"
                      [] outcome = "abandoned" -> "abandoned",
       ![r].unsure = FALSE]
  /\ IF outcome = "delivered" THEN NoFault ELSE Fault("push")
  /\ UNCHANGED <<can, contract, cluster, memory>>

\* The worker's own delivery ended, or left the publication to a later attempt;
\* an error it returns stops the server.
DeliveryReturns(r, ok) ==
  /\ At(r, "deliver")
  /\ IF ok THEN Goto(r, "leave") /\ NoFault ELSE Goto(r, "fatal") /\ Fault("database")
  /\ UNCHANGED <<durable, cluster, mode, todo, result, intent, settle, pass, asked, wake>>

-----------------------------------------------------------------------------
(* Create settlement *)

\* Mutant: the uncertain create is recorded in the error text only.
PendingRow_ErrorOnly(r) == [run EXCEPT ![r].unsure = TRUE]

\* MarkRunCreatePending on run r: the row and the re-armed obligation.
PendingRow(r) ==
  [run EXCEPT ![r].unsure = TRUE,
              ![r].phase = IF Running(r) THEN "infrastructure-pending" ELSE @]
\* Mutant: only the row says that the create is uncertain.
PendingObligation_RowOnly(r) == can

PendingObligation(r) == [can EXCEPT ![r] = Upsert(r, TRUE, "owner_restart")]
OwnsPendingCreate(r) == run[r].job /\ (Running(r) \/ Preempted(r))

\* registerCreateCleanup: the first registration wins.
Register(r, persisted) ==
  [settle EXCEPT ![r] = IF @.step # "none" THEN @
                        ELSE [NoSettle EXCEPT !.step = IF persisted THEN "armed" ELSE "todo"]]

\* The first half of a settlement attempt: persist what is not persisted yet,
\* or arm another observation window when no obligation is left to observe.
MarkRunCreatePending(r) ==
  /\ mode = "up" /\ OwnsPendingCreate(r)
  /\ \/ settle[r].step = "todo"
     \/ settle[r].step = "armed" /\ ~can[r].open
  /\ run' = PendingRow(r)
  /\ can' = PendingObligation(r)
  /\ settle' = [settle EXCEPT ![r].step = "armed"]
  /\ UNCHANGED <<pub, contract, cluster, mode, todo, wk, result, intent, pass, asked, wake>>
  /\ NoFault

\* deferCreateCleanup, by the worker whose create or delete has no known outcome.
DeferCreateCleanup(r) ==
  /\ At(r, "uncertain")
  /\ IF OwnsPendingCreate(r)
     THEN run' = PendingRow(r) /\ can' = PendingObligation(r) /\ settle' = Register(r, TRUE)
     ELSE UNCHANGED <<run, can>> /\ settle' = Register(r, FALSE)
  /\ Goto(r, "leave")
  /\ UNCHANGED <<pub, contract, cluster, mode, todo, result, intent, pass, asked, wake>>
  /\ NoFault

\* Controller.SettleCreate finds the Workflow, deletes it, and is not done.
SettleDeletes(r) ==
  /\ mode = "up" /\ settle[r].step = "armed" /\ can[r].open
  /\ wf[r] \notin {"absent", "deleting"}
  /\ wf' = [wf EXCEPT ![r] = "deleting"]
  /\ UNCHANGED <<durable, post, memory>> /\ NoFault

\* It is done once the Workflow is absent and the observation window of the row
\* it read has passed. External: no create request outlives that window.
SettleSeesAbsence(r) ==
  /\ mode = "up" /\ settle[r].step = "armed" /\ can[r].open
  /\ wf[r] = "absent" /\ ~post[r]
  /\ intent' = [intent EXCEPT ![r] = "none"]
  /\ settle' = [settle EXCEPT ![r] = [step |-> "gone", row |-> can[r]]]
  /\ UNCHANGED <<durable, cluster, mode, todo, wk, result, pass, asked, wake>> /\ NoFault

\* CompleteObservedRunCancellation: compare-and-set on the row that was read.
\* The displayed "cleanup pending" of a preempted run goes with it.
Observed(r, row) == can[r] = row
AlreadyComplete(r, row) == can[r] = [row EXCEPT !.open = FALSE]
RetireObserved(r) ==
  /\ can' = [can EXCEPT ![r].open = FALSE]
  /\ run' = [run EXCEPT ![r].unsure = @ /\ run[r].status # "interrupted"]

SettleCompletes(r) ==
  /\ mode = "up" /\ settle[r].step = "gone"
  /\ \/ Observed(r, settle[r].row) /\ RetireObserved(r)
        /\ settle' = [settle EXCEPT ![r] = [NoSettle EXCEPT !.step = "confirmed"]]
     \/ AlreadyComplete(r, settle[r].row) /\ UNCHANGED <<run, can>>
        /\ settle' = [settle EXCEPT ![r] = [NoSettle EXCEPT !.step = "confirmed"]]
     \/ ~Observed(r, settle[r].row) /\ ~AlreadyComplete(r, settle[r].row)
        /\ UNCHANGED <<run, can>>
        /\ settle' = [settle EXCEPT ![r] = [NoSettle EXCEPT !.step = "armed"]]
  /\ UNCHANGED <<pub, contract, cluster, mode, todo, wk, result, intent, pass, asked, wake>>
  /\ NoFault

\* Mutant: the settlement forgets the run it has settled.
SettleFinishes_NoVerdict(r) ==
  /\ mode = "up" /\ settle[r].step = "confirmed"
  /\ settle' = [settle EXCEPT ![r].step = "finished"]
  /\ UNCHANGED <<durable, cluster, mode, todo, wk, result, intent, pass, asked, wake>>
  /\ NoFault

SettleFinishes(r) ==
  /\ mode = "up" /\ settle[r].step = "confirmed"
  /\ run' = [run EXCEPT ![r] = IF Running(r) THEN FinishRow(@, "failed", "infrastructure") ELSE @]
  /\ settle' = [settle EXCEPT ![r].step = "finished"]
  /\ UNCHANGED <<can, pub, contract, cluster, mode, todo, wk, result, intent, pass, asked, wake>>
  /\ NoFault

\* The ledger is read once more before the grant is released.
SettleReleases(r) ==
  /\ mode = "up" /\ settle[r].step = "finished"
  /\ IF can[r].open
     THEN settle' = [settle EXCEPT ![r].step = "armed"] /\ UNCHANGED wake
     ELSE settle' = [settle EXCEPT ![r] = NoSettle] /\ wake' = TRUE
  /\ UNCHANGED <<durable, cluster, mode, todo, wk, result, intent, pass, asked>> /\ NoFault

-----------------------------------------------------------------------------
(* completeCancellationsWithGate *)

\* The ledger is read once; obligations without a Job name are left to the
\* worker that may still publish one.
Snapshot(rs) == {[id |-> r, row |-> can[r], gone |-> FALSE] :
                    r \in {x \in rs : can[x].open /\ can[x].job}}

LoopPass ==
  /\ pass["loop"] = {}
  /\ \/ mode = "up" /\ wake /\ UNCHANGED mode
     \/ mode = "sweep" /\ mode' = "swept"
  /\ pass' = [pass EXCEPT !["loop"] = Snapshot(Runs)]
  /\ wake' = FALSE
  /\ UNCHANGED <<durable, cluster, todo, wk, result, intent, settle, asked>> /\ NoFault

\* Mutant: the handler answers without a pass and without waking the loop.
ApiPass_NoWake ==
  /\ mode # "down" /\ pass["api"] = {} /\ asked # {}
  /\ asked' = {}
  /\ UNCHANGED <<durable, cluster, mode, todo, wk, result, intent, settle, pass, wake>>
  /\ NoFault

\* AcceptEnqueue and AcceptCancellations work on the obligations they were
\* handed, as the ledger has them now, and wake the loop when they are done.
ApiPass ==
  /\ mode # "down" /\ pass["api"] = {} /\ asked # {}
  /\ pass' = [pass EXCEPT !["api"] = Snapshot(asked)]
  /\ asked' = {}
  /\ wake' = (wake \/ Snapshot(asked) = {})
  /\ UNCHANGED <<durable, cluster, mode, todo, wk, result, intent, settle>> /\ NoFault

WorkerPass(r) ==
  /\ At(r, "sweep")
  /\ pass' = [pass EXCEPT ![r] = Snapshot(Runs)]
  /\ Goto(r, "swept")
  /\ UNCHANGED <<durable, cluster, mode, todo, result, intent, settle, asked, wake>> /\ NoFault

WorkerPassEnds(r) ==
  /\ At(r, "swept") /\ pass[r] = {}
  /\ Goto(r, "leave")
  /\ UNCHANGED <<durable, cluster, mode, todo, result, intent, settle, pass, asked, wake>>
  /\ NoFault

Done(a, e) ==
  /\ pass' = [pass EXCEPT ![a] = @ \ {e}]
  /\ wake' = (wake \/ (a = "api" /\ pass[a] = {e}))

OwnedBySettlement(r) == isPendingCreate(r) \/ settle[r].step # "none"

\* A pass handles one obligation after the other.
Handles(a, e) == mode # "down" /\ e \in pass[a] /\ ~e.gone /\ \A x \in pass[a] : ~x.gone

\* Mutant: the pass skips an uncertain create without registering it.
PassRegisters_Skips(a, e) ==
  /\ Handles(a, e) /\ OwnedBySettlement(e.id)
  /\ Done(a, e)
  /\ UNCHANGED <<durable, cluster, mode, todo, wk, result, intent, settle, asked>> /\ NoFault

\* Never wait for Kubernetes on a pass: the settlement owns these.
PassRegisters(a, e) ==
  /\ Handles(a, e) /\ OwnedBySettlement(e.id)
  /\ settle' = Register(e.id, isPendingCreate(e.id))
  /\ Done(a, e)
  /\ UNCHANGED <<durable, cluster, mode, todo, wk, result, intent, asked>> /\ NoFault

PassDeletes(a, e, ok) ==
  /\ Handles(a, e) /\ ~OwnedBySettlement(e.id)
  /\ DeleteSucceeds(e.id, ok) /\ Delete(e.id, ok)
  /\ pass' = [pass EXCEPT ![a] = (@ \ {e}) \cup {[e EXCEPT !.gone = TRUE]}]
  /\ UNCHANGED <<durable, mode, todo, wk, result, settle, asked, wake>>

PassCompletes(a, e) ==
  /\ e \in pass[a] /\ e.gone
  /\ \/ Observed(e.id, e.row) /\ RetireObserved(e.id)
     \/ AlreadyComplete(e.id, e.row) /\ UNCHANGED <<run, can>>
  /\ Done(a, e)
  /\ UNCHANGED <<pub, contract, cluster, mode, todo, wk, result, intent, settle, asked>>
  /\ NoFault

\* An error ends the pass: it answers the request, is retried at startup when
\* it is a pending deletion, fails the worker, or stops the server.
PassFails(a, deletion) ==
  \/ /\ a = "api"
     /\ pass' = [pass EXCEPT ![a] = {}] /\ wake' = TRUE
     /\ UNCHANGED <<mode, todo, wk, result, intent, settle, asked>>
  \/ /\ a = "loop" /\ mode = "swept" /\ deletion
     /\ pass' = [pass EXCEPT ![a] = {}] /\ mode' = "sweep"
     /\ UNCHANGED <<todo, wk, result, intent, settle, asked, wake>>
  \/ a = "loop" /\ ~(mode = "swept" /\ deletion) /\ Stop
  \/ /\ a \in Runs
     /\ pass' = [pass EXCEPT ![a] = {}] /\ Goto(a, "fatal")
     /\ UNCHANGED <<mode, todo, result, intent, settle, asked, wake>>

PassDeleteFails(a, e) ==
  /\ Handles(a, e) /\ ~OwnedBySettlement(e.id)
  /\ ~DeleteSucceeds(e.id, FALSE) /\ Fault("delete")
  /\ PassFails(a, TRUE)
  /\ UNCHANGED <<durable, cluster>>

PassConflicts(a, e) ==
  /\ e \in pass[a] /\ e.gone
  /\ ~Observed(e.id, e.row) /\ ~AlreadyComplete(e.id, e.row)
  /\ PassFails(a, FALSE)
  /\ UNCHANGED <<durable, cluster>> /\ NoFault

-----------------------------------------------------------------------------
(* Crash, owner recovery, reconciliation *)

Crash == mode # "down" /\ Fault("crash") /\ Stop /\ UNCHANGED <<durable, cluster>>

FatalExit ==
  /\ mode = "up" /\ \E r \in Runs : wk[r] \in {"rearmed", "fatal"}
  /\ Stop
  /\ UNCHANGED <<durable, cluster>> /\ NoFault

\* Mutant: a row with a Job name is decided without looking at the cluster.
RecoveredRow_Blind(r) ==
  IF ~Running(r) \/ pub[r] = "pending" THEN run[r]
  ELSE IF Requeueable(r) THEN ResetRow(run[r])
  ELSE [run[r] EXCEPT !.status = "interrupted", !.phase = "interrupted"]

\* recoverWaitingRunTx: a claim that never got past the admission gate.
WaitingClaim(r) == /\ Running(r) /\ run[r].phase = "waiting" /\ ~run[r].started
                   /\ ~run[r].steps /\ pub[r] = "none"

\* recoverInterruptedRuns, one transaction over the store.
RecoveredRow(r) ==
  IF ~Running(r) \/ pub[r] = "pending" THEN run[r]
  ELSE IF WaitingClaim(r) THEN ResetRow(run[r])
  ELSE IF run[r].job THEN run[r]
  ELSE IF Requeueable(r) THEN ResetRow(run[r])
  ELSE [run[r] EXCEPT !.status = "interrupted", !.phase = "interrupted"]

RetiredAtRestart(r) ==
  \/ can[r].reason = "owner_restart" /\ Running(r) /\ run[r].job
     /\ run[r].phase # "infrastructure-pending"
  \/ ~can[r].job /\ can[r].reason = "superseded" /\ Preempted(r)
  \/ ~can[r].job /\ ~run[r].job /\ ~WaitingClaim(r) /\ Requeueable(r)

RecoverOwnerState ==
  /\ mode = "down"
  /\ run' = [r \in Runs |-> RecoveredRow(r)]
  /\ can' = [r \in Runs |-> [can[r] EXCEPT !.open = @ /\ ~RetiredAtRestart(r)]]
  /\ todo' = [r \in Runs |->
       IF run'[r].status = "running" /\ run'[r].job /\ pub[r] # "pending"
       THEN run'[r].phase ELSE "none"]
  /\ mode' = "reconcile"
  /\ UNCHANGED <<pub, contract, cluster, wk, result, intent, settle, pass, asked, wake>>
  /\ NoFault

Reconciled(r) == todo' = [todo EXCEPT ![r] = "none"]
Stranded(r) == mode = "reconcile" /\ todo[r] # "none"

\* A create whose outcome was uncertain, or a submission that may have happened:
\* the settlement owns it.
ReconcileRegisters(r) ==
  /\ Stranded(r)
  /\ \/ todo[r] = "infrastructure-pending" /\ settle' = Register(r, TRUE)
     \/ todo[r] = "waiting" /\ contract[r] /\ wf[r] = "absent" /\ settle' = Register(r, FALSE)
  /\ Reconciled(r)
  /\ UNCHANGED <<durable, cluster, mode, wk, result, intent, pass, asked, wake>> /\ NoFault

\* Adopt finds the Workflow, or refuses one that is being deleted.
ReconcileAdopts(r) ==
  /\ Stranded(r) /\ todo[r] # "infrastructure-pending" /\ wf[r] \in {"live", "passed", "failed"}
  /\ Goto(r, "adopted")
  /\ Reconciled(r)
  /\ UNCHANGED <<durable, cluster, mode, result, intent, settle, pass, asked, wake>> /\ NoFault

AdoptionRefused(r) ==
  /\ Stranded(r) /\ todo[r] # "infrastructure-pending" /\ wf[r] = "deleting"
  /\ Stop
  /\ UNCHANGED <<durable, cluster>> /\ NoFault

\* Mutant: a submission that may have happened is taken as not submitted.
Lost_IgnoresContract(r) ==
  Stranded(r) /\ todo[r] # "infrastructure-pending" /\ wf[r] = "absent"

\* Nothing to adopt and nothing to settle.
Lost(r) == /\ Stranded(r) /\ todo[r] # "infrastructure-pending" /\ wf[r] = "absent"
           /\ ~(todo[r] = "waiting" /\ contract[r])

RequeueStrandedRun(r) ==
  /\ Lost(r) /\ Requeueable(r)
  /\ run' = [run EXCEPT ![r] = ResetRow(@)]
  /\ can' = [can EXCEPT ![r] = IF run[r].job THEN Upsert(r, TRUE, "owner_restart") ELSE @]
  /\ Reconciled(r)
  /\ UNCHANGED <<pub, contract, cluster, mode, wk, result, intent, settle, pass, asked, wake>>
  /\ NoFault

\* Ineligible work is deleted first and then interrupted.
InterruptStrandedRun(r) ==
  /\ Lost(r) /\ ~Requeueable(r)
  /\ Delete(r, TRUE)
  /\ run' = [run EXCEPT ![r] = FinishRow(@, "interrupted", "interrupted")]
  /\ can' = CompleteByName(r)
  /\ Reconciled(r)
  /\ UNCHANGED <<pub, contract, mode, wk, result, settle, pass, asked, wake>>

ReconcileDeleteFails(r) ==
  /\ Lost(r) /\ ~Requeueable(r) /\ Fault("delete")
  /\ Stop
  /\ UNCHANGED <<durable, cluster>>

ReconcileEnds ==
  /\ mode = "reconcile" /\ \A r \in Runs : todo[r] = "none"
  /\ mode' = "sweep"
  /\ UNCHANGED <<durable, cluster, todo, wk, result, intent, settle, pass, asked, wake>>
  /\ NoFault

StartupEnds ==
  /\ mode = "swept" /\ pass["loop"] = {}
  /\ mode' = "up" /\ wake' = TRUE
  /\ UNCHANGED <<durable, cluster, todo, wk, result, intent, settle, pass, asked>> /\ NoFault

-----------------------------------------------------------------------------
(* The specification *)

ClusterStep(r) == PostLands(r) \/ PostRefused(r) \/ WorkflowGone(r)
                  \/ \E v \in {"passed", "failed"} : WorkflowFinishes(r, v)

CreateStep(r) ==
  \/ BeginExecute(r) \/ PolicyStopped(r) \/ FailBeforeCreate(r) \/ SetRunWorkflowName(r)
  \/ MarkRunAdmitted(r) \/ RecheckBeforeCreate(r) \/ ReserveIntent(r) \/ AbortEarly(r)
  \/ SendCreate(r) \/ MarkRunSubmitted(r) \/ SubmitUnverified(r) \/ FailUnverified(r)
  \/ RearmRunCancellation(r) \/ CompleteRunCancellation(r) \/ LeaveRun(r)
  \/ \E ok \in BOOLEAN : AfterCreate(r, ok) \/ DeleteUnverified(r, ok) \/ DeletePreempted(r, ok)

ObserveStep(r) ==
  \/ ResumeAdopted(r) \/ WaitReturns(r) \/ WaitFails(r) \/ ReadTerminal(r)
  \/ \E ok \in BOOLEAN : DeleteUnobserved(r, ok) \/ DeliveryReturns(r, ok)
  \/ PersistSteps(r) \/ BeginPublication(r) \/ FinishRun(r)
  \/ DeferCreateCleanup(r) \/ WorkerPass(r) \/ WorkerPassEnds(r)

WorkerStep(r) == CreateStep(r) \/ ObserveStep(r)

SettleStep(r) ==
  \/ MarkRunCreatePending(r) \/ SettleDeletes(r) \/ SettleSeesAbsence(r)
  \/ SettleCompletes(r) \/ SettleFinishes(r) \/ SettleReleases(r)

PassStep(a, e) == \/ PassRegisters(a, e) \/ PassCompletes(a, e)
                  \/ PassDeleteFails(a, e) \/ PassConflicts(a, e)
                  \/ \E ok \in BOOLEAN : PassDeletes(a, e, ok)

ReconcileStep(r) ==
  \/ ReconcileRegisters(r) \/ ReconcileAdopts(r) \/ AdoptionRefused(r)
  \/ RequeueStrandedRun(r) \/ InterruptStrandedRun(r) \/ ReconcileDeleteFails(r)

Requests(r) ==
  \/ \E head, force \in BOOLEAN : enqueueRun(r, head, force)
  \/ CancelRun(r)
  \/ RetryFailedPublication(r)

Deliver(r) ==
  \E outcome \in {"delivered", "failed", "abandoned"} : FinalizePublication(r, outcome)

Next ==
  \/ \E r \in Runs :
       \/ Requests(r) \/ ClaimNextRun(r) \/ WorkerStep(r) \/ CreateTimesOut(r)
       \/ Deliver(r) \/ SettleStep(r) \/ ClusterStep(r) \/ ReconcileStep(r)
  \/ \E a \in Agents : \E e \in pass[a] : PassStep(a, e)
  \/ LoopPass \/ ApiPass \/ ReconcileEnds \/ StartupEnds
  \/ Crash \/ FatalExit \/ RecoverOwnerState

Spec == Init /\ [][Next]_vars

\* Goroutines, the ticking settlement task, the woken loop and request handlers
\* keep running; a supervisor restarts the process; requests in flight are
\* answered or dropped and a deletion that was accepted completes. Nothing makes
\* users act, faults happen or a Workflow end.
Fairness ==
  /\ \A r \in Runs : /\ WF_vars(WorkerStep(r) /\ NoFault) /\ WF_vars(SettleStep(r))
                     /\ WF_vars(ReconcileStep(r) /\ NoFault) /\ WF_vars(Deliver(r) /\ NoFault)
                     /\ WF_vars(ClaimNextRun(r))
                     /\ WF_vars(PostLands(r) \/ PostRefused(r)) /\ WF_vars(WorkflowGone(r))
  /\ \A a \in Agents : WF_vars(\E e \in pass[a] : PassStep(a, e) /\ NoFault)
  /\ WF_vars(LoopPass) /\ WF_vars(ApiPass) /\ WF_vars(RecoverOwnerState)
  /\ WF_vars(ReconcileEnds) /\ WF_vars(StartupEnds) /\ WF_vars(FatalExit)

FairSpec == Spec /\ Fairness

\* Every Workflow ends by itself: it carries an active deadline.
WorkflowsEnd ==
  \A r \in Runs : WF_vars(\E v \in {"passed", "failed"} : WorkflowFinishes(r, v))

EndingSpec == FairSpec /\ WorkflowsEnd

-----------------------------------------------------------------------------
(* Properties *)

Terminal == {"passed", "failed", "interrupted"}

\* States of a worker that still knows of the create request it sent.
CreateOwners == {"posting", "posted", "created", "unmarked", "undo", "rearm", "uncertain"}

\* A Workflow that runs, or whose create request may still commit, always has an
\* owner: a running row with its Job name, an open deletion obligation with that
\* name, or the goroutine that sent the request and has not let go of it. What
\* the cancellation ledger, the re-arm and the post-create checks are for.
NoOrphanedWorkflow ==
  \A r \in Runs : wf[r] = "live" \/ post[r] =>
    \/ Running(r) /\ run[r].job
    \/ can[r].open /\ can[r].job
    \/ wk[r] \in CreateOwners

\* A verdict is final about the cluster too: once a run passed, failed or was
\* interrupted by a restart (not by a cancel or a newer push), its Workflow does
\* not run and no create request for it is in flight.
VerdictAfterWorkflow ==
  \A r \in Runs : run[r].status \in Terminal /\ ~Preempted(r) =>
    wf[r] # "live" /\ ~post[r]

BeforeCreate == {"claimed", "prepare", "gate", "admitted", "checked", "reserved"}

\* A run that is queued, or claimed and not yet submitted, shares its Workflow
\* name with no object of an earlier incarnation that could still run: the claim
\* is fenced behind the confirmed deletion.
CleanStart ==
  \A r \in Runs : run[r].status = "queued" \/ wk[r] \in BeforeCreate =>
    wf[r] \in {"absent", "deleting"} /\ ~post[r]

\* Only work that left no evidence runs again after a restart.
RequeueIsClean ==
  \A r \in Runs : run[r].status = "queued" => ~run[r].steps /\ pub[r] = "none"

\* The durable publication intent and the publishing phase are one fact.
PublicationOwnsRun ==
  \A r \in Runs : pub[r] = "pending" <=> Running(r) /\ run[r].phase = "publishing"

\* Nothing deletes the Workflow of a run that is still meant to run: an open
\* obligation of a running row exists only while its create is being settled.
ObligationSparesRunning ==
  \A r \in Runs : can[r].open /\ Running(r) => run[r].phase = "infrastructure-pending"

\* Passes skip an obligation without a Job name, so someone else must close it:
\* the worker that can still publish a name, or the next owner's recovery.
NamelessObligationHasOwner ==
  \A r \in Runs : can[r].open /\ ~can[r].job =>
    mode = "down" \/ wk[r] \in {"claimed", "prepare", "leave"}

\* The owner of a preempted run that could not delete its Workflow re-arms the
\* obligation, and only the deletion of that Workflow retires it again.
RearmedStaysPending ==
  \A r \in Runs : wk[r] = "rearmed" /\ wf[r] = "live" => can[r].open

\* What a step leaves of the verdicts: only the retry of a failed publication
\* takes a run back from its verdict.
KeepsVerdicts ==
  \A r \in Runs : run[r].status \in Terminal =>
    \/ run'[r].status = run[r].status
    \/ /\ run[r].status = "failed" /\ pub[r] = "failed"
       /\ run'[r].status = "running" /\ pub'[r] = "pending"

\* A terminal verdict changes only when a failed publication is retried, whatever
\* worker, pass, settlement, request or recovery still holds an older view of the
\* run: finishRunTx and every other writer guard on the status they replace.
TerminalSticks == [][KeepsVerdicts]_vars

\* Every run that was accepted reaches a verdict, through restarts, lost replies
\* and failed deletions.
EveryRunEnds == \A r \in Runs : Active(r) ~> run[r].status \in Terminal

\* Every deletion obligation is discharged: no pass, worker or settlement leaves
\* one that nobody comes back to.
ObligationsDischarged == \A r \in Runs : can[r].open ~> ~can[r].open

\* The Workflow of a cancelled or superseded run is stopped even if it would
\* never end by itself.
PreemptedWorkflowStops ==
  \A r \in Runs : Preempted(r) /\ wf[r] = "live" ~> wf[r] # "live"

=============================================================================
