# Formal model of the Oberth CI server

Oberth is a CI server: a push becomes a *run*, a run becomes one Argo Workflow in
a Kubernetes cluster, and the verdict of the Workflow becomes a publication on
the upstream remote. One server process owns a SQLite database. The process may
stop anywhere, and the Workflow it created goes on without it. Most of the
difficult code deals with that: what the database says of a run, what the
cluster does, and what goroutines of the process still remember drift apart, and
have to be brought together again without running a build twice, without leaving
a superseded build running with its credentials, and without overwriting a
verdict.

The models follow a push through the server:

```
 push -> Intake -> [queue] -> AdmissionGate -> RunLifecycle -> PublicationDelivery -> forge
         receive    cap,        slots, groups,   claim, create,   outbox, retries
         outbox     backlog     holds            observe, recover
                                     |                |
                              WorkflowCreate      CIIssues        Promotions
                              (one create)        (the verdicts)  (grants, queue, retries;
                                                                   runs and publications)
```

Each is checked with TLC on small instances, and each has safety properties that are
proved with TLAPS for every value of the constants.

| file | what it is |
|---|---|
| `RunLifecycle.tla` | store rows, worker, cancellation passes, settlement, recovery, and the Workflow object |
| `AdmissionGate.tla` | the admission gate, the dispatch loop, holds, priorities and adoption |
| `WorkflowCreate.tla` | the creation of one Workflow and its retry loop |
| `Intake.tla` | receive transaction, receive outbox, queue cap and deferred pushes |
| `Outbox.tla` | what the publication outbox promises: the abstract specification |
| `PublicationDelivery.tla` | the delivery of publications step by step, an upstream ref, and the propagation of branch deletions |
| `Promotions.tla` | promotions, trains and grants of one target branch |
| `CIIssues.tla` | the CI issue of a branch, its projection and its reconciler |
| `*_proofs.tla` | the inductive invariants and the theorems |
| `MC*.tla`, `*.cfg` | constant values for TLC, and the runs |
| `PROJECT.json` | components, runs, mutants, the map from definitions to source lines, findings, hazards, theorems |

## 1. Inventory

All paths are below `src/internal/`.

### 1.1 Components in the model

**Run store** (`store/runs.go`, `run_cancel.go`, `run_create_pending.go`,
`store.go`). State: the rows of `runs` (status, phase, Job name, started_at,
recorded steps, superseded_by, error), `run_cancellations` (the durable
obligation to delete a run's Workflow: open or completed, with a Job name or
without, reason, created_at) and `publications`. Operations: enqueue with
supersede, cancel, claim, set the Workflow name, mark admitted, submitted and
create-pending, re-arm and complete an obligation, record steps, begin a
publication, finish, requeue, interrupt, recover owner state. Each is one
transaction. Correct when a verdict is never overwritten, a requeued run starts
from nothing, and a run and its publication agree.

**Scheduler worker** (`service/scheduler.go` `execute`, `observeRun`). One
goroutine for each claimed run: policy and preparation, Workflow name,
admission, last re-read, create, observe, record, decide, deliver. It holds what
it read across every store call and every Kubernetes request. Correct when a
supersede or cancel that lands between any two of those never leaves a Workflow
running that nobody will delete.

**Cancellation passes** (`cleanupCancelled` and its callers in the dispatch
loop, the request handlers and the workers). A pass lists open obligations,
deletes each Workflow and completes the row with a compare-and-set. Several run
at once. A pass skips obligations without a Job name and hands uncertain creates
to the settlement.

**Create settlement** (`service/create_settlement.go`). When a create request
may or may not have reached the API server, the admission and the ledger row
stay owned by a background task until the object has been observed absent for
long enough. Correct when it never reports an absence that a late create undoes,
and always ends.

**Job controller** (`app/argojobs.go`, `argojob/*.go`). In-process intents for a
run (`reserved`, `created`, `cancelled`), so that a Delete which finds no object
while a create is under way is remembered and executed by the creator.

**Recovery and adoption** (`store.go` `RecoverOwnerState`,
`service/adoption.go`). At start, claims that provably never submitted go back
to the queue, everything else is reconciled: adopted, requeued, interrupted or
handed to the settlement.

**Publication outbox** (`service/publication.go`, `publication_abandon.go`,
`scheduler.go` `deliverPublicationWithGate`, `store/publications.go`,
`publication_attempt.go`, `gitcache/upstream.go`). State: the rows of
`publications` (status, predecessor, attempts, retry_after), the list
`publicationIDs` of the process, one delivery permit. A delivery reads the ref,
decides from what it read, reserves an attempt, pushes, and reads the ref back.
Operations: begin, set the predecessor, reserve or reschedule an attempt,
finalize, abandon, retry a failed one, recover pending ones at start. Correct
when nothing is called delivered that was not upstream, nothing but a feature
branch loses commits, and no pending publication is forgotten.

**Branch deletion propagation** (`gitcache/branch_deletion.go`,
`service/branch_deletion.go`). A branch deleted on the mirror is deleted upstream
by a background task with a lease, or restored. It takes no delivery permit.

**Admission gate** (`service/admission.go`, `admission_hold.go`,
`admission_state.go`, `adoption.go`, `run_priority.go`, `scheduler.go` `Run`).
State, in memory and under one mutex: a reservation for each claimed run
(preparing, waiting, granted, retained, released, ...), the number of grants, the
members of each concurrency group, the ceiling, a copy of the admin hold. Durable:
the hold and the priority overrides. Operations: reserve, acquire, grant, retain,
release, cancel, abandon, adopt, hold, bump, release by an operator. The dispatch
loop claims runs into it. Correct when slots are neither lost nor given twice, a
group stays within its limit across a restart, nobody is overtaken or starved.

**Create** (`argojob/controller.go` `Create`, `workflow_create_retry.go`). Sends
the create request up to three times in a minute, reading the name in between. Its
answer is created, definite or ambiguous; after a definite failure nobody
looks for the Workflow again. Correct when that is true however late a request is
applied.

**Receive outbox and git ingress** (`gitcache/receive.go`, `receive_repair.go`,
`cache.go`, `service/push.go`, `store/receive_events.go`). State: the refs of the
mirror, the record of the receive under way (a file), the receive events. A push
reserves a record, moves refs, finalizes the record and hands each update to a
callback that commits an event and a run; startup replays what is left. Correct
when an acknowledged push becomes exactly one run, its own, wherever the process
stops.

**Queue cap and deferred receives** (`store/queue_cap.go`). Above the cap a
branch push is deferred, and drained in order. Correct when arrivals and drains
never exceed the cap and never overtake.

**Promotions** (`service/api.go`, `promotion_*.go`, `store/store.go`,
`promotion_*.go`). State: promotions with lineage, grants, the task that plans
each promotion. Operations: grant, revoke, promote, promote a train, retry by
hand, plan, test, deliver, retry by the server after the target moved or after a
restart. Correct when a grant authorizes one delivery, one promotion at a time is
merged onto the target, and only tested commits reach it.

**CI issues** (`store/issue_projection.go`, `issues.go`, `issues_autoclose.go`,
`service/ci_issue_reconciler.go`). State: the issue work of each run, a watermark
for each origin, the open issue. Verdicts come in any order; a reconciler closes
what was merged or deleted after looking at the forge; users edit and close.
Correct when the newest verdict decides and a red branch keeps its issue.

How they meet. `Intake` ends with a queued run, with which `RunLifecycle` and
`AdmissionGate` begin; the first has any claimable run claimed at any time, the
second has when. `WorkflowCreate` starts where `CleanStart` of `RunLifecycle`
holds, and its three outcomes are those `RunLifecycle` has for a create. `RunLifecycle`
has a publication pending, delivered, failed or abandoned and what that does to the
run; `PublicationDelivery` has how it gets there; `Promotions` has a shorter
delivery of its own and what a verdict of it does to a promotion and its grants.

### 1.2 Components outside the model

| component | state | hard part | why not, or when |
|---|---|---|---|
| audit chain (`store/audit.go`, `auditanchor`) | chain head, anchor | a head verified on an old snapshot | planned, module `AuditAnchor` |
| database retry (`service/database_*.go`) | lost acknowledgements | replay of an applied write | planned, needs every store operation twice |
| schedules (`cron`) | next firing | calendar arithmetic | a pure algorithm, last |
| weights, declared resources, backfill and fair shares in the gate | | arithmetic of the non-serving form | not planned: the server uses the form with a ceiling of runs |
| execution targets and their routes (`app/execution_targets.go`; the first branch of `create`, `Delete` and `SettleCreate`, `argojobs.go:331`, `:932`, `:1002`) | a durable record for each routed run | cleanup on a second cluster that may be unreachable | not yet: the models have the branch without routes |
| automatic retry of infrastructure failures (`store/run_auto_retry.go`) | a link between two runs | | `finishRunTx` (`runs.go:981`) enqueues the new run, with an id of its own, in the transaction of the verdict; for the models it is an enqueue that supersedes nobody |
| issue locks, occurrence counts | issue rows | | with the HTTP surface |
| logs, workspaces, backup, installer, HTTP and MCP surface, secret store, Go proxy | | I/O, formatting, policy | not planned: no shared state that changes in steps |

`PROJECT.json` lists every one, and for each hazard the line where it bites and
the property that watches it, or why none does yet.

## 2. The models and the code

### 2.1 State of `RunLifecycle`

| variable | in the code |
|---|---|
| `run`, `can`, `pub` | tables `runs`, `run_cancellations`, `publications` |
| `contract` | the file `.create-admissions/<run>.json` |
| `wf`, `post` | the Workflow object of the run's deterministic name; a create request on its way to the API server |
| `mode`, `todo` | start-up stage of the process; runs still to be reconciled, with the phase they were read in |
| `wk`, `result` | program counter of the run's goroutine, and the verdict it observed |
| `intent` | `argoIntent` in `app/argojobs.go` |
| `settle` | the `pendingCreate` entry, with the ledger row it observed |
| `pass`, `asked`, `wake` | snapshots of the passes under way; obligations a handler was given; the wake channel |

`durable` survives a stop, `memory` does not, `cluster` is not the process's at all.
`at` in an obligation stands for `created_at`: it changes with every write of
that column, and is what the compare-and-set of `CompleteObservedRunCancellation`
compares with.

### 2.2 Actions of `RunLifecycle`

* Requests: `enqueueRun`, `CancelRun`, `RetryFailedPublication`.
* Worker: `ClaimNextRun`, `BeginExecute`, `PolicyStopped`, `FailBeforeCreate`,
  `SetRunWorkflowName`, `MarkRunAdmitted`, `RecheckBeforeCreate`,
  `ReserveIntent`, `AbortEarly`, `SendCreate`, `PostRefused`, `CreateTimesOut`,
  `AfterCreate`, `MarkRunSubmitted`, `SubmitUnverified`, `DeleteUnverified`,
  `FailUnverified`, `DeletePreempted`, `RearmRunCancellation`,
  `CompleteRunCancellation`, `LeaveRun`, `ResumeAdopted`, `WaitReturns`,
  `WaitFails`, `ReadTerminal`, `DeleteUnobserved`, `PersistSteps`,
  `BeginPublication`, `FinishRun`, `FinalizePublication`, `DeliveryReturns`.
* Uncertain creates: `MarkRunCreatePending`, `DeferCreateCleanup`,
  `SettleDeletes`, `SettleSeesAbsence`, `SettleCompletes`, `SettleFinishes`,
  `SettleReleases`.
* Passes: `LoopPass`, `ApiPass`, `WorkerPass`, `PassRegisters`, `PassDeletes`,
  `PassCompletes`, `PassDeleteFails`, `PassConflicts`.
* Process: `Crash`, `FatalExit`, `RecoverOwnerState`, `Reconcile*`,
  `RequeueStrandedRun`, `InterruptStrandedRun`, `StartupEnds`.
* Cluster (external): `PostLands`, `WorkflowFinishes`, `WorkflowGone`.

One store operation is one step; what the code does between two store
operations or Kubernetes requests is another, so that everything interleaves
where the code lets it. A definition whose name ends in an underscore and a
suffix (`Release_KeepsGroup`) is a deliberately wrong variant used to show that
the property beside it can fail.

### 2.3 Abstractions of `RunLifecycle`

* Any claimable run may be claimed: order and slots are `AdmissionGate`'s. `MaxClaimed` bounds the workers alive at once.
* Every store call is applied exactly once, with two exceptions. `MarkRunSubmitted` may
  return an error with or without having committed; the owner then deletes the Workflow it
  has just created and fails the run, or leaves it to the settlement (`SubmitUnverified`,
  `DeleteUnverified`, `FailUnverified`). A delivery may return an error, which stops the
  server (`DeliveryReturns`). Both are the fault `"database"`. Other failing store calls
  and lost acknowledgements belong to the database-retry component.
* `BeginExecute` clears the create contract always, the code only of a run that was
  restarted; no other run has one at that point.
* `FinishRow` leaves out the automatic retry of infrastructure failures; creates, deletes
  and settlements leave out the routes to execution targets (section 1.2).
* The create request is sent once, and ends definite or ambiguous; the retry
  loop is `WorkflowCreate`.
* A crash stands for any stop. A graceful shutdown keeps the Workflows of branch
  and tag runs too, since those are adoptable.
* `SettleSeesAbsence` needs that no create request is still on its way: the
  code waits an observation window chosen to outlast every request, and the
  model assumes that it does.
* Reconciliation reads the object once for `Adopt` and `TerminalResult`
  together. `InterruptStrandedRun` merges the deletion of an already absent
  object, the verdict and the completion of the obligation.
* `force` permits superseding protected runs for all runs of the ref together.
* The legacy `preflight` phase, issue, audit and timing rows are left out.
* Branches that no state of the model reaches: the invalid-state return of
  `MarkRunSubmitted`, `finalizeReconciledRun` (adoption already finds finished
  Workflows), and the requeue of a nameless running row after its start.

### 2.4 `PublicationDelivery`

| variable | in the code |
|---|---|
| `kind` | what the ref is and who owns the publication: feature branch, direct push to the default branch, tag, promotion |
| `pub` | table `publications`; `due` says that `retry_after` is zero or over, `note` which message the error column holds (a row in backoff is recognised by its prefix) |
| `grant` | the promotion grants are active |
| `mode`, `queue`, `permit` | the process; publications a caller or `publicationIDs` will deliver; the holder of `deliveryPermit` with its place in `deliverPublication` and the ref it read |
| `mirror` | the branch on the mirror: present, deleted at a head with its marker, gone upstream too, or deleted with the upstream branch kept |
| `remote`, `flights` | the upstream ref; pushes the forge has received and not answered |
| `held`, `sent` | history: publications whose result the ref has held, and pushes started, since the publication was activated |

A delivery is the sequence policy, read, decide, check the mirror or record the
predecessor, `ReserveAttempt`, `SendPush`, outcome, `VerifyPushed` or `ReadBack`.
Every store call and every exchange with the forge is a step of its own.
Faults end each of them: `PolicyUnavailable`, `PolicyRefuses`, `ReadFails`,
`ReadUsesAttempt`, `ReadFailsUngranted`, `MirrorFails`, `ReplyLost`,
`ReadBackFails`, `Crash`. Requests are `BeginPublication`,
`RetryFailedPublication`, `AbandonPublication`. The upstream (external) is
`PushLands`, `PushEnds` and `Elsewhere`: it applies an update only while the ref
still has the value it advertised, and may apply one whose client is long gone.

`Outbox` keeps of this the status, the ref, which publications have a push out,
and the two histories; `O` in `PublicationDelivery` is the refinement mapping.

Abstractions:

* One ref. Publications of different refs share only the permit.
* `queue` merges callers that wait for the permit with `publicationIDs`: for both
  somebody will deliver the publication unless the process stops. A tick of a
  publication in backoff changes nothing and is left out.
* How long the policy may stay unavailable, and whether a failure counts as
  transient, is any choice. A failed read of a row with attempts left may hence
  also end in failure.
* An error from a delivery (`DeliveryErrors`) stops the process at once. The
  recovery loop goes on to the other publications first; what they do then they
  can also do before.
* The propagator reads the mirror and deletes with its lease in one step, and its
  retries are left out: it deletes or gives up. `AbandonBranchDeletions`
  restores the mirror branch if there is a tracking ref.
* One flag stands for the grants of all promotions. Rows of runs, promotions and
  the audit chain, and failing databases, are left out.

### 2.5 `AdmissionGate`

`res`, `submitted`, `limit` and `prio` are the reservations, `runs`, `holders`,
`maxRuns`, `hold`, `updating` and `changing` the gate's own fields; `row`, `pending`,
`owed`, `holdRow` and `bumped` are durable; `wf` is the cluster; `wk`, `intent`,
`sweep`, `op` and `loop` say where the owner of each run, the pass that deletes its
Workflow, the operator's request and the dispatch loop are.

What an operation does under the mutex is one step. The loop of `grantLocked`, with
which most operations end, takes a step for each waiter (`PassSkips`, `PassGrants`,
`PassStops`) and keeps the mutex (`pass.on`) until it returns. The dispatch loop is
`LoopStart`, `Claim` (the row), `Reserve` (the reservation), `LoopEnd`; the owner goes through `Acquire`, `Wake`, `Recheck`,
`BeginCreate`, `CreateAnswered` or `CreateAmbiguous`, `MarkSubmitted`,
`MarkRunSubmitted`, `ObserveEnds`, `Record`, with `Leave`, `OwnerDeletes` and
`SettleCreate` as the ways out; passes are `AbandonAdmission`, `SweepDelete`,
`SweepRelease`, `CloseNameless`; `RecoverRun`, `Adopt`, `Start` are the restart.
The operator's release is `OperatorLooks` under the mutex, `OperatorVerifies` (row read and
delete) or `OperatorRefused` without it, and `OperatorReleases` under it again.
`BumpBegins` and `BumpEnds` change a priority by hand, `PriorityAges` when a run that has
waited for long joins the higher class at its own position.

`apart` has the runs whose grant `restoreCreateGrant` restored without their group,
because the group would not take them back; such a grant holds a slot and no place in
`holders`.

Abstractions: the form the server uses, with a ceiling of runs and no weights,
declared resources, backfill or fair shares; two priorities; a hold that exempts a
class of runs or does not; delivery and the details of observation are
`RunLifecycle`'s. The runs are of one repository: the clause with which `adopt` lets
the limit-1 holders of several repositories coexist after an upgrade (`adoption.go:96`) is
then always a refusal, and left out. The owner's reaction to a failed `MarkRunSubmitted` is
`RunLifecycle`'s too.

### 2.6 `Intake`

`mirror`, `tracking`, `owned` and `deleting` are the refs of the cache, what its last
fetch saw, the materialize manifest and the deletion markers; `record` is the file in
the outbox, `lk` the receive lock with the place of its holder; `events`,
`deferred`, `rows`, `runs`, `cap` are tables; `moved` is the history of what
receive-pack did.

A push is `Begin`, `EnsureReceive`, `Reserve`, `Pack`, `FinalizeOwn`, then for each update
`HandleReceive` and `Checkpoint`, and `ReplayEnds`; the same tail delivers a record left by a
failure (`ReplayFinalizes`, `ReplayQuarantined`), at startup, before the next push, or
for an operator. `Refresh` is a fetch that materializes the forge's refs beside it.
Every step may fail (`GateRefuses`, `FinalizeFails`, `ReplayRefused`, `HandleFails`,
`CheckpointFails`) or be the last one before `Crash`. A callback may commit and fail
afterwards.

Abstractions: one repository, and a number for the runs of others under the same cap; an
object is named by the push that sends it; tags are annotated and reachable from a
branch, so that they are never rejected for that; pack transfer, ref policy and cloning
are left out. `AbandonBranchDeletions` moves a ref without the receive lock: a ref it put
back is excused from attribution (`Restored`) and section 3 describes it. A tag event
that its replay decides differently stops the server from starting; the liveness
properties say so (`Wedged`), and `tag_replay` shows it.

### 2.7 `CIIssues`

`works` is `ci_issue_work` with the verdict of each run, `proj` the watermark of each
origin (the branch, and promotions of earlier versions), `issue` the open row with its
`updated_at`; `seen` and `looked` are what the reconciler holds between its list, its
look at the forge and its close; `settled` and `handClosed` are history.
`Finish` records a verdict and projects it in one transaction (`Project`,
`Follow`); `Drop` is a verdict that leaves no trace (infrastructure, cancelled);
`RetryPublication` turns a failed publication green later; `Edit` and `CloseByHand` are
users; `List`, `Look`, `AutoClose` the reconciler. A commit trailer of a green run that
refers to an issue or fixes it (`store/issue_trailers.go:185`) does what `Edit` and
`CloseByHand` do. The several reads of `reconcileIssue` are one `Look`: its close compares the
row with the one that was listed, so that nothing that comes between the reads can be
hidden. One branch; issue locks, occurrence counts and texts are left out.

### 2.8 `WorkflowCreate`

`pc` is the place in `Create`, `attempts`, `backedOff`, `ambiguous`, `createErr` its
variables, `claim` the source claim; `awaited` and `late` are requests at the API server
that somebody, or nobody, waits for; `obj` is what has the name: nothing, ours, ours and
altered, a stranger's. A lost answer may have been applied, may be applied later
(`LateCommit`) or never. `CapabilityFails` after an unanswered request needs `"capability"`
in `Faults` (see the disagreements). Custody of the source, the build of the Workflow
and the class of a failure are left out.

### 2.9 `Promotions`

| variable | in the code |
|---|---|
| `prom` | table `promotions` with lineage, plan, and the status of its run and its publication |
| `grant`, `admin` | table `promotion_grants`; the promoting uplink is an admin |
| `head`, `tested` | the target at the forge; history: the commits that passed CI |
| `call` | a request that has read its authority and not yet admitted |
| `own` | the task that waits for its turn, plans and enqueues or publishes |
| `dl` | the delivery: pushing, landed, unclear |
| `hook` | an automatic retry that is due, looked up, or to be admitted |
| `lost` | promotions whose failure could not be recorded |

`Begin` and `Admit` are two steps, since the authority is read before the transaction
that admits; so are `HookLooks` and `HookAdmits`, `Turn` and `Plan`, `Plan` and
`Enqueue` or `Publish`, `Read`, `Push` and `Verify`. A commit is who made it and which
sources it contains. Restart is `Crash` and `Start`, which interrupts what has neither
run nor publication and retries what was interrupted by the restart alone.

Abstractions: one target branch; the opt-in policy that lets others promote a parked
source and the scopes of uplinks are left out, so that authority is an admin or a grant;
expiry and revocation of a grant are one step; conflicts of a merge are a choice (`Fail`,
or the sources a train skips, whose record, `api.go:2583`, is part of the failure); the attempt budget is `PublicationDelivery`'s. An automatic
retry keeps actor and grants, or is refused (`HookGivesUp`).

## 3. What is checked

| run | instance | checks | distinct states |
|---|---|---|---|
| `lifecycle_faults` | one run, every fault, at most 2, with fairness | `VerdictAfterWorkflow`, `CleanStart`, `PublicationOwnsRun`, `ObligationSparesRunning`, `NamelessObligationHasOwner`, `TerminalSticks`, `EveryRunEnds`, `ObligationsDischarged` | 21,917 |
| `lifecycle_restart` | a branch run and a promotion run of one ref, both protected, one worker, one stop | `VerdictAfterWorkflow` | 1,581,602 |
| `lifecycle_stops` | one run, timeouts, broken watches and database errors, at most 2, Workflows that need not end | `NoOrphanedWorkflow`, `PreemptedWorkflowStops` | 3,296 |
| `delivery_outbox` | one publication of each kind in turn, 2 attempts, one change by others, every fault, at most 3, with fairness | `PendingHasOwner`, `KeepsPromises`, `PendingSettles` | 235,780 |
| `gate_safety` | three runs, two of one group with limit 1, one exempt from holds, a ceiling of 1 or 2, any two of the events that take a grant away or hold one back | `SlotsAccounted`, `GroupsExclusive`, `NoMissedGrant` | 2,479,463 |
| `gate_live` | the same, any one event, with fairness | `GrantsInOrder`, `HoldEnforced`, `SlotsComeBack`, `EveryRunEnds` | 175,446 |
| `intake` | two pushes of a branch and a tag, cap off or 1, any one fault, with fairness | `NoPushForgotten`, `PushesAttributed`, `OneRunPerPush`, `RunsInPushOrder`, `CapRespected`, `QueuedBecomesRun`, `OutboxDrains` | 278,074 |
| `ci_issues` | three runs, two of them possibly of an earlier version, two touches by users, with fairness | `NewestDecides`, `IssueFollows`, `RedIsVisible`, `SettledCloses` | 546,295 |
| `create_retry` | the three requests of the code, with fairness | `OutcomeIsTrue`, `ClaimKept`, `CreateReturns` | 982 |
| `promotions_retry` | three promotions of one source, one grant, one caller, one automatic retry in a row, one push by others, any one fault | `GrantSpentOnce`, `RetriesFormChains`, `OneAtATime` | 1,969,806 |
| `promotions_train` | two promotions of a tested source, a parked one, or a train of both, any one fault, with fairness | `TestedOnly`, `EveryPromotionEnds` | 520,732 |
| `tag_replay` | as `intake`, with one failed checkpoint | `ReplayIsIdempotent`, which is violated | |

What the properties say:

* `NoOrphanedWorkflow` - a Workflow that runs, or whose create request may still
  commit, has an owner: a running row with its Job name, an open obligation with
  that name, or the goroutine that sent the request.
* `VerdictAfterWorkflow` - when a run that nobody cancelled or superseded is
  final, its Workflow does not run and no create request is under way.
* `CleanStart` - a run that is queued, or claimed and not yet submitted, shares
  its Workflow name with nothing of an earlier attempt that could still run.
* `PublicationOwnsRun` - a pending publication and a publishing run go together.
* `ObligationSparesRunning` - an open obligation of a running row exists only
  while its uncertain create is being settled.
* `NamelessObligationHasOwner` - an obligation without a Job name, which no pass
  touches, has a worker which closes it, or the process is down.
* `TerminalSticks` - no step replaces a verdict, except the retry of a failed
  publication.
* `EveryRunEnds`, `ObligationsDischarged`, `PreemptedWorkflowStops` - an accepted
  run ends, an obligation is completed, a preempted Workflow stops.
* `PendingHasOwner`, `PendingSettles` - a pending publication is being delivered, is
  queued, or the process is down and its recovery will find it; it is settled in the end.
* `KeepsPromises` - the delivery implements `Outbox`: pushes only for a pending
  publication and within the budget, also across restarts; delivered only if the
  ref held the result since the activation; a publication takes commits
  only from a feature branch, also when its push lands late.
* `SlotsAccounted` - `gate.runs` is the number of grants held, `gate.groups` lists their
  members, and every running Workflow holds its grant, whoever released, retained,
  abandoned, adopted or settled what, in which order.
* `GroupsExclusive` - no group has more running Workflows than its limit, across
  restarts, lost answers and failed deletes; not counted are those restored `apart`, see
  the disagreements.
* `NoMissedGrant` - when the mutex is free nobody waits who could be admitted.
  `GrantsInOrder` - a grant goes past a waiter only if that one is held or parked on its
  group. `HoldEnforced` - the gate's copy of the hold never admits what the durable
  hold blocks. `SlotsComeBack`, `EveryRunEnds` - the gate empties, and every run is served.
* `NoPushForgotten`, `PushesAttributed`, `OneRunPerPush` - what receive-pack did is an event
  or still in the outbox; an event is something its push did; a queued event is exactly
  one run or one deferred push. `RunsInPushOrder`, `CapRespected` - across deferral and drain.
  `QueuedBecomesRun`, `OutboxDrains` - the backlog and the outbox empty.
* `NewestDecides`, `IssueFollows`, `RedIsVisible` - verdicts in any order leave the
  watermark of the newest; the open issue is the one the watermarks ask for; no race with
  the reconciler or a user hides a failure nobody has seen merged. `SettledCloses` - a
  merged or deleted branch loses its issue.
* `OutcomeIsTrue` - after a definite failure no Workflow exists or appears; `ClaimKept` -
  the source is deleted only then; `CreateReturns`.
* `GrantSpentOnce` - at most one pending or delivered promotion holds a grant, and it is
  consumed by the delivered one. `RetriesFormChains` - a promotion is retried once, by hand or
  by the server, whose retries keep actor and grants and stay within the bound.
  `OneAtATime` - of the pending promotions only the oldest has a plan. `TestedOnly` - what
  promotions put on the target passed CI. `EveryPromotionEnds` - unless the failure
  of one could not be recorded.

Every property has a mutant in `PROJECT.json`: a plausible slip in one definition, with
which TLC finds it violated under the same configuration.

### Bounds

The races of a run are between *its* goroutines (worker, settlement, three kinds of pass,
request handler) and the process, so that one run with two faults already reaches them: an
ambiguous create or a failed delete, and a stop. Two runs are needed where one acts on
another: a push supersedes an earlier one, a newer run forbids a requeue, one worker is all
there is; `lifecycle_restart` is that case with a stop.

For publications two attempts are enough to have a first, a last and a budget that ends
(the code has five); three faults let a lost reply, a failed read-back and a stop meet; one
change by others falls at every point of a delivery. A commit graph of a base, two results
and a foreign commit gives every answer of `classifyRemotePublication`.

In the gate two runs of a group contend for it, the third passes a parked or held one; a
ceiling of 1 makes the slot scarce, 2 lets the group be the limit. Two events are an
ambiguous create and a stop, a hold and an operator, a cancel and a failed delete. In
`intake` the second push meets the record the first one left; a cap of 1 is reached by the
first. Three pieces of issue work are an older, a newer and a newest one, of two
origins. Three promotions are one, its retry by the server and a rival by hand, or the retry
of the retry, which the bound of one refuses. A train that a user promotes under several grants is in
no run's instance; the proofs cover it.

The gate runs check for deadlock: a gate with a run left always has a step to take. The
others do not: when every run has its verdict and nothing is pending, an idle server is what
is wanted, and the liveness properties are the statements a real deadlock would violate.

### Fairness

There is none on users, and none on faults, whose number is bounded.

* `RunLifecycle`: weak fairness of every step of a goroutine which the process itself
  runs: the worker, the settlement (a retry timer), the reconciliation, the dispatch
  loop's tick (`LoopPass`), the handler's goroutine, the start of a stopped process (a
  Deployment with one replica restarts it), and of the API server's answer and its garbage
  collection. `EndingSpec` adds that a Workflow finishes, as `activeDeadlineSeconds` makes
  it. Weak fairness is enough since a goroutine's next step stays enabled until it takes it.
* `PublicationDelivery`: weak fairness of the permit's holder, of recovery, of
  the clock (`RetryDue`) and of the upstream's answer to a client that waits for
  it (`git` has timeouts, which are `ReplyLost`). A queued publication gets strong
  fairness of `Queue(p)`: the permit is a channel whose waiters are served in order.
* `AdmissionGate`: strong fairness of the dispatch loop and of owners, passes and
  requests under way, which wait for a mutex: Go hands a mutex to a waiter that
  has waited for a millisecond. Weak fairness of the grant pass, which has the mutex, of
  restart, of the expiry of a hold and the recovery of the host. `OperatorUnblocks` is
  part of the restart: the server does not start while a Workflow cannot be adopted and asks
  the operator to delete it (`adoption.go:31`).
* `Intake`: weak fairness of the holder of the receive lock, startup, drain and runs;
  strong fairness of `ReplayFinalizes`, since a gate that refuses (an audit chain that
  does not verify) is repaired in the end.
* `CIIssues`: weak fairness of the reconciler, which ticks every five minutes.
* `WorkflowCreate`: weak fairness of the goroutine, whose requests have timeouts, and of
  the end of its one-minute budget.
* `Promotions`: weak fairness of `Start` and of the tasks of each promotion: its
  goroutine runs, its Workflow ends, its delivery is repeated.

### Disagreements with the documents and comments

`tag_replay` is a run. `docs/architecture.md:5` says that committed branch and tag
events are replayed idempotently, `receive_events.go:19` that an accepted receive keeps its
original decision. `PushIngestor.Tag` decides from the tag as it is upstream now
(`push.go:256`), so that a tag that was built and published before its record was
checkpointed is decided `release_delivered` when it is replayed. The store refuses the
changed decision, at every start, until an operator moves the record aside.

The following came up while modelling. The definitions are in the modules; what to
put in a configuration is given where a formula says it.

* `docs/restart-handover.md:5`: "Running branch runs are adopted." `observeRun` releases
  the admission (`scheduler.go:1385`) before the verdict is recorded. A stop in between leaves
  two running rows of one group; `adopt` refuses the second (`adoption.go:96`), which its
  comment says cannot arise. (`gate_safety` with `Events = {"crash"}`, `MaxEvents = 1`,
  invariant `AdoptionSucceeds`.)
* `docs/concurrency-groups.md:30`: "Running and retained grants keep their group slots until
  execution is known to be terminal or deletion has been accepted." When the group refuses a
  grant at a restart, `restoreCreateGrant` clears it (`create_settlement.go:146`) and restores the
  grant without it; the comment says that a full budget stands in for the group, which is so
  only in the form with weights. In the form with a ceiling the late Workflow of an uncertain
  create may run beside another member. (`MCAdmissionGate` with `GroupOf <- MCOneGroup`,
  `Events = {"ambiguous", "crash"}`, `MaxEvents = 2`, invariant `RetainedKeepsGroup`.)
* `admission_state.go:147`: "Before releasing a granted reservation the run's Workflow is
  deleted through the engine". `ReleaseAdmission` looks under the mutex, reads the row and
  deletes without it, and releases under it again. If the run is cancelled in between, the
  delete finds nothing, the owner, past its last check, creates the Workflow, and the grant is
  released while it runs. A reservation that was waiting when it was looked at, and granted
  since, is released without any delete. (`gate_safety` with `Events = {"cancel", "operator"}`,
  `Sizes = {1}`, `ReleasedIsDeleted` as a property.)
* `createWorkflowWithRetry` verifies the capability before every round, also after a
  request whose answer was lost, and returns that error as it is, without
  `AmbiguousCreate`; `execute` takes it for a definite rejection while the request may still be
  applied. The read uses the context of the budget, so that a request which used it up
  ends there too. `scheduler.go:1102` has "Ambiguous POSTs stay owned by the settlement task
  above until absence is confirmed." (`create_retry` with `Faults = {"capability"}`,
  `OutcomeIsTrue`; `ClaimKept` holds all the same.)
* `AGENT-CONTRACT.md:1522` and `:1543` promise that a cancelled or superseded run's Workflow is
  deleted through a durable obligation. A Delete which meets a reserved intent succeeds by
  marking the intent (`argojobs.go:981`) and the pass completes the ledger row; the mark
  is in memory. If the process stops before the creator looks at it while the request is at
  the API server, no row is left and the Workflow runs to its end. (`lifecycle_faults` with
  `FaultKinds = {"crash"}`, `MaxFaults = 1`, `NoOrphanedWorkflow`.) The same happens when the
  creator's own Cancel fails (`argojobs.go:576`; `FaultKinds = {"delete"}`), and when, after a
  stop with the request in flight, a cancel comes between the restart and the reconciliation
  of the run: the pass deletes a Workflow that is not there yet and completes the row.
  Without a stop and a failed delete it cannot happen (`NoWorkflowOrphaned` in section 4).
* `run_create_pending.go:69` says that a pass cannot retire an obligation re-armed after the
  pass read it. The re-arm of an existing row (`run_cancel.go:160`) keeps `created_at` and
  `reason`, the columns the compare-and-set looks at. (`FaultKinds = {"delete"}`,
  `RearmedStaysPending`.)
* `docs/releases/unreleased-v0.17.97.md:74` and `branch_deletion.go:119` say that a feature branch deleted
  on the mirror after its run started is not pushed back. `deliverPublication` looks at the
  mirror once (`publication.go:91`); the branch may be deleted there, and by the propagator
  upstream, before the forced push, which creates it again. (`delivery_outbox` with feature
  branches only and no faults, `DeletedStaysDeleted`.)

Without a document that says otherwise, but worth knowing:

* A failed read and an ended grant together make a delivery return an error
  instead of a verdict (`publication.go:70`), which stops a worker or the dispatch loop and
  with it the server; so does a pass whose compare-and-set loses (`scheduler.go:662`).
* `AbandonBranchDeletions` takes the repository lock and not the receive lock, and may put
  a branch back under a receive that has not been finalized, which credits it to the pusher.
* `SetAdmissionHold` whose acknowledgement is lost and whose read-back fails too goes on with
  the older rule (event `"holdblind"`, in no run).
* A callback that failed leaves its record until the next push, restart or operator.
* A failed compensation (`failAdmittedPromotion`) leaves a promotion pending without an
  owner, and those behind it wait until the next start (`lost`).
* An issue of a promotion of an earlier version that a user closed is opened again by an
  older branch verdict that comes late.

## 4. What is proved

All for every value of the constants, from the named assumptions of each module. `Spec`
is the specification without fairness.

`RunLifecycle_proofs.tla`, from `RunsAssumption`, `BoundsAssumption` and `FaultsAssumption`:

| theorem | states |
|---|---|
| `TypeCorrect` | `Spec => []TypeOK` |
| `VerdictsStick` | `Spec => TerminalSticks` |
| `RequeuesAreClean` | `Spec => []RequeueIsClean`: a queued run has neither recorded steps nor a publication |
| `PublicationsOwnRuns` | `Spec => []PublicationOwnsRun` |
| `ObligationsSpareRuns` | `Spec => []ObligationSparesRunning` |

None of the last four is inductive. The invariant that is, is `IInv`: the type
invariant, and for each run

* `RowInv` - whoever holds a run holds a claimed one, and a queued run has no
  recorded steps;
* `PubInv` - a pending publication and the publishing phase are one fact, a
  settled one goes with a verdict, and a worker that has not come to publish
  sees none (one whose delivery has failed may);
* `PendInv` - a run whose create is uncertain belongs to the settlement alone;
* `CanInv` - an open obligation of a running row is that of an uncertain create,
  and a publication leaves none open;
* `ProcInv` - a stopped process holds nothing, reconciliation comes before
  workers, and a worker's pass belongs to a worker that waits for it.

The argument is modular in the runs: `RunInv(r)` mentions only what belongs to
`r`, the lemma `Local` says that a step about one run keeps the others', and each
action has a lemma for the run it is about. Recovery, which rewrites all rows at
once, and the supersede, which touches several, have lemmas of their own.

`RunWorkflow_proofs.tla`, on top of it, about a run and what is in the cluster under its name:

| theorem | states |
|---|---|
| `StartsAreClean` | `Spec => []CleanStart` |
| `VerdictsAfterWorkflows` | `Spec => []VerdictAfterWorkflow` |
| `NamelessObligationsHaveOwners` | `Spec => []NamelessObligationHasOwner` |
| `NoWorkflowOrphaned` | `Spec /\ ProcessLives => []NoOrphanedWorkflow`, if `"delete"` is not among the faults |

The first three rest on `IInv /\ WInv`, and `WInv` adds to each run

* `ClusterInv` - when the cluster is known to hold nothing under the run's name (before a
  claim, before the create, once a settlement has confirmed absence) or nothing that still
  runs (after a verdict, and before the verdict of a worker that has deleted a Workflow it could
  not record or observe), and where a running row says that a request may be in flight. This
  is `CleanStart` and `VerdictAfterWorkflow` extended to all the states between;
* `HolderInv` - the row is in the phase that its worker, or the restart's list, believes;
* `NameInv` - only a worker before its durable contract has yet to publish a Job name, and
  an open obligation without one waits for that worker or for the next start;
* `IntentInv` - an intent marked cancelled is of a run that is over;
* `ListInv` - a pass works on runs that are over or uncertain; the startup pass also on
  requeued ones, and the scheduler does not come up while it has one left. Without it a
  pass that is behind could delete the Workflow of the next attempt of its run.

`NoOrphanedWorkflow` is false if the process stops, or a delete fails, at the wrong moment (section
3), so its theorem is about a process that lives (`ProcessLives`) and deletes that succeed
(`Sure`); timeouts, broken watches, failed pushes, database errors, cancels and newer pushes remain. Its
invariant adds `OwnersInv`: `OwnInv`, that whoever lets go of a Workflow, or of a request in
flight, leaves an open obligation with its name, or a row that says the create is
uncertain; and `EntryInv`, that a pass which has deleted the Workflow and still finds the
row as it read it (the condition of its compare-and-set) retires no obligation of a Workflow
that came back in between.

`PublicationDelivery_proofs.tla`, for every commit graph, from `CommitsAssumption`,
`KindsAssumption`, `AttemptsAssumption` and `LimitsAssumption`:

| theorem | states |
|---|---|
| `DeliveryTypeOK` | `Spec => []TypeOK` |
| `PendingOwned` | `Spec => []PendingHasOwner` |
| `PushesReserved` | `Spec => []AttemptsReserved`: no more pushes were started than attempts are recorded |
| `DeliveryImplementsOutbox` | `Spec => KeepsPromises`, that is `Spec => O!Spec` |

Its invariant `Inv` is `TypeOK` and `PendingHasOwner` with `PermitInv` (the holder of the
permit delivers a pending publication, and if it is about to confirm one the ref has held
the result), `SentInv` (between the reservation and the push an attempt is to spare),
`HeldInv` (a result that is on the ref is in the history) and `FlightInv` (every push out was
acceptable against the value it was made for, and at most one has a client that waits,
which is the holder): this is why a push that lands arbitrarily late is still a `Land` of
the outbox. `Kept` is the invariant after the step together with a step or stutter of the
outbox; each group of actions has a lemma that ends in it.

`CIIssues_proofs.tla`, from `BoundsAssumption`: `TypeCorrect`, `NewestDecidesAlways`,
`IssueFollowsAlways`, `RedIsVisibleAlways`, and `DefaultClosesOnGreenAlways` (the issue of a
default branch closes only through a green verdict that is not older, or by hand). `Inv` is
`TypeOK /\ NewestDecides /\ IssueFollows /\ SeenInv`. `SeenInv` says that what the reconciler has
found settled includes the failure of the issue it listed, so that its close, which compares
the row with what it listed, resolves nothing newer; `RedIsVisible` follows from the other
three.

`WorkflowCreate_proofs.tla`, from `PostsAssumption`: `CreateTypeOK`, `ClaimsKept`, and
`OutcomesAreTrue` for an environment in which the capability does not fail after an
unanswered request. `Inv` adds to the types `PlaceInv` (where `Create` is and what it has by
then) and `FlightInv`: while no request has gone unanswered none is at the server, and the
object is ours only if the answer says so.

`Promotions_proofs.tla`, from `PromotionsAssumption`: `PromotionTypeOK`, `GrantsSpentOnce`,
`RetriesAlwaysFormChains`, `AlwaysOneAtATime`, `AlwaysTestedOnly`. `Inv` is the types with

* `RowInv` - rows are numbered without a gap, so that a new one disturbs none;
* `WorkInv` - whoever plans, delivers or retries a promotion finds it as it expects:
  a task's row is pending without run and publication, a delivery's has a pending
  publication, a hook's is failed or interrupted;
* `OrderInv` - nobody is ahead of a promotion that has, or is getting, a plan; since a new
  row is always last, `OneAtATime` follows;
* `GrantInv` - `GrantSpentOnce`, grants are issued before anybody holds them, and a consumed
  one names a delivered promotion;
* `RetriesFormChains`, inductive once the hook remembers that it is below the bound;
* `TestInv` - what is published, and what failed in its push alone and may be reused, is
  tested.

Each action has a lemma; those that leave most of a row alone go through the `Calm` lemmas,
one for each part of `Inv`.

`AdmissionGate_proofs.tla`, from `RunsAssumption`, `GroupsAssumption`, `LimitsAssumption` and
`EventsAssumption`:

| theorem | states |
|---|---|
| `GateInvariant`, `GateTypes` | `Spec => []GateInv`, `Spec => []TypeOK` |
| `SlotsAreAccounted` | `Spec => []SlotsAccounted` |
| `GroupsAreExclusive` | `Spec => []GroupsExclusive` |
| `NoGrantIsMissed` | `Spec => []NoMissedGrant` |
| `GrantsGoInOrder` | `Spec => GrantsInOrder` |
| `HoldIsEnforced` | `Spec => HoldEnforced`, if `"holdblind"` is not among the events |

`GateInv` is `TypeOK` and `NoMissedGrant` with

* `Books` - `gate.runs` counts the grants, and `gate.groups` lists those with a group;
* `Owners` - what the row, the Workflow, the reservation and the owner of a run know of each
  other (`Owned`; a claimed run has no reservation before its `Reserve`), that up a Workflow or an unsettled create has an owner (`Served`), and that
  down there is only what recovery has restored (`Down`); a grant taken away by the
  operator is the one exception (`Operated`);
* `LimitsAgree`, `GroupsFit` - members agree on the limit of their group, which fits it;
* `PassInOrder` - what `grantLocked` went past is ahead of what it has not come to, and is
  still held or parked. This makes `NoMissedGrant` inductive: when the pass ends, everybody
  it went past has a reason to wait.

The steps are sorted by what they do to the books (`Keeps`, `Gives`, `Takes`, `TakesApart`,
`Prepares`, `Forgets`), by what they do to the run of their owner (`Calm` for the others), and
by what they do to the queue; each action falls under one lemma of each kind.
`HoldIsEnforced` rests on `HoldInv`, that the copy of the hold is not behind the table.

`Intake_proofs.tla`, from `RefsAssumption`, `BoundsAssumption` and `FaultsAssumption`:

| theorem | states |
|---|---|
| `IntakeInvariant`, `IntakeTypes` | `Spec => []IntakeInv`, `Spec => []TypeOK` |
| `NoPushIsForgotten` | `Spec => []NoPushForgotten` |
| `PushesAreAttributed` | `Spec => []PushesAttributed` |
| `OneRunForEveryPush` | `Spec => []OneRunPerPush` |
| `RunsGoInPushOrder` | `Spec => []RunsInPushOrder` |
| `CapIsRespected` | `Spec => CapRespected` |

`IntakeInv` is `TypeOK` with

* `Bounded` - nothing anywhere is of a push to come, so that what a new push does is new;
* `LockInv` - what the holder of the receive lock knows of the record at each of its steps;
* `RecordInv` - until the record is finalized its snapshot tells what its push did, since
  every other writer of the mirror is refused while it is there (`Interrupted`, with the
  exception of an abandoned deletion); from then on its updates do, and an event on record
  agrees with them (`Finalized`); records are worked off one after the other (`Latest`).
  `NoPushForgotten` and `PushesAttributed` are inductive with these;
* `Queue` - the runs, and the backlog behind them, are in push order for each ref, and the
  queued events are exactly those in one of the two. Two entries for one event would have to
  be in order with each other: hence `OneRunPerPush`.

Every invariant and every action property of the passing runs is stated by one of these
theorems. Only model-checked: liveness under fairness, which is outside the prover's reach
(`EveryRunEnds`, `ObligationsDischarged`, `PreemptedWorkflowStops`, `PendingSettles`, `SlotsComeBack`,
`QueuedBecomesRun`, `OutboxDrains`, `SettledCloses`, `CreateReturns`, `EveryPromotionEnds`).

## 5. Plan

1. `AuditAnchor`: the chain, its fence and its anchor, verified on a snapshot while others
   append.
2. Database retry: lost acknowledgements of store operations, which, but for those of
   section 2.3, the modules take as applied exactly once; then the routes to execution targets.
3. A composition of `Promotions` with `PublicationDelivery`, in place of its shorter delivery.
