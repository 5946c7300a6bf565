--------------------------- MODULE AdmissionGate ---------------------------
(***************************************************************************)
(* The admission gate of the scheduler (weightedAdmission in its serving   *)
(* form, workflowOnly), the dispatch loop that claims runs into it, the    *)
(* owners that acquire, keep, retain and release a grant, the cancellation *)
(* passes and the operator who take it away, the admin hold, priority      *)
(* bumps, the capacity file, and a restart that adopts live Workflows.     *)
(*                                                                         *)
(* The gate has one mutex. What an operation does under it is one step,    *)
(* except that grantLocked's loop, with which most operations end, takes   *)
(* one step for each waiter it looks at: the mutex stays taken (pass.on)   *)
(* and nobody else touches the gate until the loop has returned. A step    *)
(* that does not need the mutex reads and writes nothing the loop does,    *)
(* and is taken before or after it.                                        *)
(***************************************************************************)
EXTENDS Integers, FiniteSets

CONSTANTS Runs,     \* runs, numbered by their place in the queue (admission order)
          Groups,   \* concurrency groups
          GroupOf,  \* the group of each run, or NoGroup
          NoGroup,
          Limits,   \* the limits a pipeline may declare for its group
          Exempt,   \* runs of a class (tag, release, promotion) an admin hold lets through
          Sizes,    \* the run ceilings the capacity file may hold
          Events,   \* what may happen besides the normal course: see AllEvents
          MaxEvents \* how many such events may happen in a behaviour

AllEvents == {"cancel", "hold", "holdlost", "holdblind", "bump", "age", "capacity", "host",
              "operator", "fail", "ambiguous", "deletefail", "crash"}

ASSUME RunsAssumption == Runs \subseteq Nat /\ IsFiniteSet(Runs)
ASSUME GroupsAssumption == NoGroup \notin Groups /\ GroupOf \in [Runs -> Groups \cup {NoGroup}]
ASSUME LimitsAssumption == Limits \subseteq Nat \ {0} /\ Sizes \subseteq Nat \ {0} /\ Sizes # {}
ASSUME EventsAssumption == Events \subseteq AllEvents /\ MaxEvents \in Nat

VARIABLES
  row,       \* table runs: the status of a run
  pending,   \* table runs: a create of the run's Workflow is on record as unsettled
  owed,      \* table run_cancellations: the deletion of its Workflow is owed
  holdRow,   \* table admission_holds: a hold is on
  bumped,    \* the priority of a run: table run_priority_overrides, or its age
  wf,        \* the Workflow of a run
  res,       \* admissionReservation of a run
  submitted, \* ... its submitted flag
  limit,     \* ... its groupLimit: the contract on the run's row, once it is prepared
  apart,     \* ... restored without its group
  prio,      \* ... its priority
  runs,      \* gate.runs
  holders,   \* gate.groups
  maxRuns,   \* gate.maxRuns
  hold,      \* gate.adminHold
  updating,  \* gate.holdUpdating, and how the durable write went
  changing,  \* gate.priorityChanges
  pass,      \* grantLocked: it is running, the waiters it has passed over, and
             \* whether a rule was relaxed since it last ran
  host,      \* the disk floor and the pressure check let a run in
  wk,        \* where the goroutine that owns a claimed run is
  intent,    \* the in-process argoIntent of the run
  sweep,     \* cancellation pass: it has deleted the Workflow of this run
  op,        \* ReleaseAdmission: the reservation it has looked at, and whether it has
             \* verified the run; freed: those it released
  loop,      \* the dispatch loop
  events     \* events so far

table == <<row, pending, owed, holdRow, bumped>>
rsv   == <<res, submitted, limit, apart, prio>>
books == <<runs, holders>>
rules == <<maxRuns, hold, updating, changing>>
gate  == <<rsv, books, rules, pass>>
actors == <<wk, intent, sweep, op, loop>>
vars  == <<table, wf, gate, host, actors, events>>

States == {"none", "preparing", "waiting", "granted", "retained",
           "released", "canceled", "abandoned"}
NoOp == [run |-> 0, view |-> "none", sure |-> FALSE, freed |-> {}]
NoPass == [on |-> FALSE, seen |-> {}, stale |-> FALSE]

TypeOK ==
  /\ row \in [Runs -> {"queued", "active", "cancelled", "over"}]
  /\ pending \in [Runs -> BOOLEAN] /\ owed \in [Runs -> BOOLEAN]
  /\ holdRow \in BOOLEAN /\ bumped \in [Runs -> {0, 1}]
  /\ wf \in [Runs -> {"absent", "sent", "live", "done"}]
  /\ res \in [Runs -> States] /\ submitted \in [Runs -> BOOLEAN]
  /\ apart \subseteq Runs
  /\ limit \in [Runs -> Nat] /\ prio \in [Runs -> {0, 1}]
  /\ runs \in Nat /\ holders \in [Groups -> SUBSET Runs] /\ maxRuns \in Sizes
  /\ hold \in BOOLEAN /\ updating \in {"no", "writing", "saved", "failed"}
  /\ changing \subseteq Runs
  /\ pass \in [on: BOOLEAN, seen: SUBSET Runs, stale: BOOLEAN]
  /\ host \in BOOLEAN
  /\ wk \in [Runs -> {"none", "claimed", "checkout", "acquire", "granted", "checked",
                      "posting", "created", "marked", "undo", "observe", "record", "settle",
                      "leave", "fatal"}]
  /\ intent \in [Runs -> {"none", "reserved", "cancelled"}]
  /\ sweep \in [Runs -> BOOLEAN]
  /\ op \in [run: Runs \cup {0}, view: States, sure: BOOLEAN, freed: SUBSET Runs]
  /\ loop \in {"down", "idle", "claiming"}
  /\ events \in Nat

Init ==
  /\ row = [r \in Runs |-> "queued"]
  /\ pending = [r \in Runs |-> FALSE] /\ owed = [r \in Runs |-> FALSE]
  /\ holdRow = FALSE /\ bumped = [r \in Runs |-> 0]
  /\ wf = [r \in Runs |-> "absent"]
  /\ res = [r \in Runs |-> "none"] /\ submitted = [r \in Runs |-> FALSE]
  /\ limit = [r \in Runs |-> 1] /\ apart = {} /\ prio = [r \in Runs |-> 0]
  /\ runs = 0 /\ holders = [g \in Groups |-> {}] /\ maxRuns \in Sizes
  /\ hold = FALSE /\ updating = "no" /\ changing = {}
  /\ pass = NoPass /\ host = TRUE
  /\ wk = [r \in Runs |-> "none"] /\ intent = [r \in Runs |-> "none"]
  /\ sweep = [r \in Runs |-> FALSE] /\ op = NoOp /\ loop = "idle" /\ events = 0

Event(kind) == kind \in Events /\ events < MaxEvents /\ events' = events + 1
NoEvent == UNCHANGED events
Up == loop # "down"
Unlocked == Up /\ ~pass.on  \* gate.mu is free

-----------------------------------------------------------------------------
(* The gate *)

Waiters == {r \in Runs : res[r] \in {"preparing", "waiting"}}
Prepared == {r \in Runs : res[r] \in {"waiting", "granted", "retained"}}
Held == {r \in Runs : res[r] \in {"granted", "retained"}}

\* admissionBefore
Before(a, b) == prio[a] > prio[b] \/ (prio[a] = prio[b] /\ a < b)

\* adminHeldLocked of a waiter
AdminHeld(r) == updating # "no" \/ (hold /\ r \notin Exempt)

\* groupBlockerLocked of a waiter: its group is full, or an earlier run of the
\* group waits ahead of it.
GroupBlocked(r) ==
  /\ GroupOf[r] # NoGroup /\ res[r] = "waiting"
  /\ \/ Cardinality(holders[GroupOf[r]]) >= limit[r]
     \/ \E o \in Runs : /\ res[o] = "waiting" /\ GroupOf[o] = GroupOf[r] /\ Before(o, r)
                        /\ ~AdminHeld(o)

\* canGrantLocked of a waiter that is not held
CanGrant == host /\ runs < maxRuns

\* grantLocked returns at once while a hold is being changed.
GrantIf(upd) == pass' = IF upd = "no" THEN [NoPass EXCEPT !.on = TRUE] ELSE pass
Grant == GrantIf(updating)
Relax == pass' = [pass EXCEPT !.stale = TRUE]  \* no pass runs

\* The waiter the loop looks at next.
Upcoming(r) == /\ pass.on /\ r \in Waiters \ pass.seen
               /\ \A o \in Waiters \ pass.seen : o = r \/ Before(r, o)

\* A claim that is still preparing, or whose priority is being changed, keeps
\* its place; a head that does not fit keeps its place too.
Stops(r) == \/ res[r] = "preparing" \/ r \in changing
            \/ ~GroupBlocked(r) /\ ~CanGrant

\* Mutant: a claim whose pipeline is still unread is passed over.
PassSkips_Preparing(r) ==
  /\ Upcoming(r) /\ (AdminHeld(r) \/ res[r] = "preparing" \/ (~Stops(r) /\ GroupBlocked(r)))
  /\ pass' = [pass EXCEPT !.seen = @ \cup {r}]
  /\ UNCHANGED <<table, wf, rsv, books, rules, host, actors>> /\ NoEvent

PassSkips(r) ==
  /\ Upcoming(r) /\ (AdminHeld(r) \/ (~Stops(r) /\ GroupBlocked(r)))
  /\ pass' = [pass EXCEPT !.seen = @ \cup {r}]
  /\ UNCHANGED <<table, wf, rsv, books, rules, host, actors>> /\ NoEvent

PassStops ==
  /\ pass.on /\ \A r \in Runs : Upcoming(r) => ~AdminHeld(r) /\ Stops(r)
  /\ pass' = [NoPass EXCEPT !.stale = pass.stale]
  /\ UNCHANGED <<table, wf, rsv, books, rules, host, actors>> /\ NoEvent

Join(r) == [g \in Groups |-> IF g = GroupOf[r] THEN holders[g] \cup {r} ELSE holders[g]]
Quit(r) == [g \in Groups |-> IF g = GroupOf[r] THEN holders[g] \ {r} ELSE holders[g]]

PassGrants(r) ==
  /\ Upcoming(r) /\ ~AdminHeld(r) /\ ~Stops(r) /\ ~GroupBlocked(r)
  /\ res' = [res EXCEPT ![r] = "granted"]
  /\ runs' = runs + 1 /\ holders' = Join(r)
  /\ UNCHANGED <<table, wf, submitted, limit, apart, prio, rules, pass, host, actors>> /\ NoEvent

\* Mutant: the slot is returned, the place in the group is not.
Release_KeepsGroup(r, clear) ==
  /\ IF res[r] = "granted" \/ (clear /\ res[r] = "retained")
     THEN /\ res' = [res EXCEPT ![r] = "released"]
          /\ runs' = runs - 1 /\ UNCHANGED holders /\ Grant
     ELSE UNCHANGED <<res, books, pass>>
  /\ UNCHANGED <<submitted, limit, apart, prio, rules>>

\* releaseLocked; clear: the retained mark is cleared first, under the same lock.
Release(r, clear) ==
  /\ IF res[r] = "granted" \/ (clear /\ res[r] = "retained")
     THEN /\ res' = [res EXCEPT ![r] = "released"]
          /\ runs' = runs - 1 /\ holders' = Quit(r) /\ Grant
     ELSE UNCHANGED <<res, books, pass>>
  /\ UNCHANGED <<submitted, limit, apart, prio, rules>>

\* admissionReservation.cancel
Cancel(r) ==
  IF res[r] \in {"preparing", "waiting"}
  THEN /\ res' = [res EXCEPT ![r] = "canceled"] /\ Grant
       /\ UNCHANGED <<submitted, limit, apart, prio, books, rules>>
  ELSE Release(r, FALSE)

\* Mutant: nobody is admitted in place of the abandoned waiter.
Abandon_NoGrant(r) ==
  IF res[r] \in {"preparing", "waiting"}
  THEN /\ res' = [res EXCEPT ![r] = "abandoned"] /\ UNCHANGED pass
       /\ UNCHANGED <<submitted, limit, apart, prio, books, rules>>
  ELSE UNCHANGED gate

\* weightedAdmission.abandon
Abandon(r) ==
  IF res[r] \in {"preparing", "waiting"}
  THEN /\ res' = [res EXCEPT ![r] = "abandoned"] /\ Grant
       /\ UNCHANGED <<submitted, limit, apart, prio, books, rules>>
  ELSE UNCHANGED gate

\* retain
Retained(r) == [res EXCEPT ![r] = IF @ = "granted" THEN "retained" ELSE @]

-----------------------------------------------------------------------------
(* The dispatch loop *)

\* refreshPriorities: serialized with a bump by priorityMu.
LoopStart ==
  /\ loop = "idle" /\ Unlocked /\ changing = {}
  /\ prio' = [r \in Runs |-> IF r \in Waiters THEN bumped[r] ELSE prio[r]]
  /\ IF prio' # prio THEN Relax ELSE UNCHANGED pass
  /\ loop' = "claiming"
  /\ UNCHANGED <<table, wf, res, submitted, limit, apart, books, rules, host, wk, intent, sweep,
                 op>>
  /\ NoEvent

\* Goroutines the loop counts in active.
Active == {r \in Runs : wk[r] \notin {"none", "settle"}}

\* The run the loop has claimed and not yet reserved a place for.
Claimed == {r \in Runs : wk[r] = "claimed"}

HeldWaiters == {r \in Waiters : AdminHeld(r)}
Parked == {r \in Waiters \ HeldWaiters : GroupBlocked(r)}
Least(a, b) == IF a < b THEN a ELSE b

\* spareWeightForClaim
SpareWeightForClaim(unparked) ==
  /\ Waiters = HeldWaiters \cup Parked
  /\ unparked <= runs /\ CanGrant

\* dispatchSlotAvailable
SlotAvailable ==
  LET counted == Cardinality(Active) - Cardinality(HeldWaiters)
      unparked == (IF counted > 0 THEN counted ELSE 0) - Least(Cardinality(Parked), maxRuns)
  IN unparked < maxRuns \/ SpareWeightForClaim(unparked)

\* NextQueuedRun and ClaimNextRun: the durable order and the durable hold.
Claimable == {r \in Runs : row[r] = "queued" /\ ~owed[r] /\ (~holdRow \/ r \in Exempt)}
QueuedBefore(a, b) == bumped[a] > bumped[b] \/ (bumped[a] = bumped[b] /\ a < b)
IsNextQueued(r) == r \in Claimable /\ \A o \in Claimable \ {r} : QueuedBefore(r, o)

\* priorityDispatchAvailable: a run that goes before every waiter that is not held.
PriorityAvailable(r) ==
  /\ Cardinality(Active) < maxRuns + maxRuns + 3
  /\ Waiters \ HeldWaiters # {}
  /\ \A o \in Waiters \ HeldWaiters :
        bumped[r] > prio[o] \/ (bumped[r] = prio[o] /\ r < o)

MayClaim(r) == IsNextQueued(r) /\ (SlotAvailable \/ PriorityAvailable(r))

\* ClaimNextRun: the row of the claim gives the reservation its priority.
Claim(r) ==
  /\ loop = "claiming" /\ Unlocked /\ Claimed = {} /\ MayClaim(r)
  /\ row' = [row EXCEPT ![r] = "active"]
  /\ prio' = [prio EXCEPT ![r] = bumped[r]]
  /\ wk' = [wk EXCEPT ![r] = "claimed"]
  /\ UNCHANGED <<pending, owed, holdRow, bumped, wf, res, submitted, limit, apart, books, rules,
                 pass, host, intent, sweep, op, loop>> /\ NoEvent

\* reserveRun, which knows only the row that was claimed; then its owner starts.
Reserve(r) ==
  /\ Unlocked /\ wk[r] = "claimed"
  /\ res' = [res EXCEPT ![r] = "preparing"]
  /\ submitted' = [submitted EXCEPT ![r] = FALSE]
  /\ wk' = [wk EXCEPT ![r] = "checkout"]
  /\ Grant
  /\ UNCHANGED <<table, wf, limit, apart, prio, books, rules, host, intent, sweep, op, loop>>
  /\ NoEvent

\* Mutant: the loop trusts the events to have granted.
LoopEnd_NoPass ==
  /\ loop = "claiming" /\ Unlocked /\ Claimed = {} /\ ~\E r \in Runs : MayClaim(r)
  /\ loop' = "idle"
  /\ UNCHANGED <<table, wf, gate, host, wk, intent, sweep, op>> /\ NoEvent

\* Nothing more to claim: one grant pass, then the loop waits for a wake or a tick.
LoopEnd ==
  /\ loop = "claiming" /\ Unlocked /\ Claimed = {} /\ ~\E r \in Runs : MayClaim(r)
  /\ loop' = "idle" /\ Grant
  /\ UNCHANGED <<table, wf, rsv, books, rules, host, wk, intent, sweep, op>> /\ NoEvent

-----------------------------------------------------------------------------
(* The owner of a claimed run *)

At(r, s) == Unlocked /\ wk[r] = s
Goto(r, s) == wk' = [wk EXCEPT ![r] = s]
Finish(r) == row' = [row EXCEPT ![r] = IF @ = "active" THEN "over" ELSE @]

\* A step before the gate fails, or finds the run cancelled.
LeaveCheckout(r) ==
  /\ At(r, "checkout")
  /\ IF row[r] = "active" THEN Event("fail") ELSE NoEvent
  /\ Finish(r) /\ Goto(r, "leave")
  /\ UNCHANGED <<pending, owed, holdRow, bumped, wf, gate, host, intent, sweep, op, loop>>

\* The deferred release and cancel of the goroutine.
Leave(r) ==
  /\ At(r, "leave")
  /\ Cancel(r) /\ Goto(r, "none")
  /\ UNCHANGED <<table, wf, host, intent, sweep, op, loop>> /\ NoEvent

LimitConflict(r, n) ==
  /\ GroupOf[r] # NoGroup
  /\ \E o \in Prepared \ (apart \cup {r}) : GroupOf[o] = GroupOf[r] /\ limit[o] # n

\* acquireRequest up to the wait.
Acquire(r, n) ==
  /\ At(r, "checkout")
  /\ IF res[r] = "preparing" /\ ~LimitConflict(r, n)
     THEN /\ res' = [res EXCEPT ![r] = "waiting"]
          /\ limit' = [limit EXCEPT ![r] = n]
          /\ Grant /\ Goto(r, "acquire")
          /\ UNCHANGED <<row, submitted, apart, prio, books, rules>>
     ELSE /\ Cancel(r) /\ Finish(r) /\ Goto(r, "leave")
  /\ UNCHANGED <<pending, owed, holdRow, bumped, wf, host, intent, sweep, op, loop>>
  /\ NoEvent

\* The ready channel is closed: granted, or abandoned.
Wake(r) ==
  /\ At(r, "acquire")
  /\ \/ res[r] = "abandoned" /\ Goto(r, "leave")
     \/ res[r] \notin {"abandoned", "waiting"} /\ Goto(r, "granted")
  /\ UNCHANGED <<table, wf, gate, host, intent, sweep, op, loop>> /\ NoEvent

\* MarkRunAdmitted and the last read of the row before the create.
Recheck(r) ==
  /\ At(r, "granted")
  /\ Goto(r, IF row[r] = "active" THEN "checked" ELSE "leave")
  /\ UNCHANGED <<table, wf, gate, host, intent, sweep, op, loop>> /\ NoEvent

\* finishInfrastructureFailure between the grant and the create.
FailBeforeCreate(r) ==
  /\ At(r, "granted") \/ At(r, "checked")
  /\ Finish(r) /\ Goto(r, "leave") /\ Event("fail")
  /\ UNCHANGED <<pending, owed, holdRow, bumped, wf, gate, host, intent, sweep, op, loop>>

\* ArgoJobs.create reserves the intent.
BeginCreate(r) ==
  /\ At(r, "checked")
  /\ intent' = [intent EXCEPT ![r] = "reserved"] /\ Goto(r, "posting")
  /\ UNCHANGED <<table, wf, gate, host, sweep, op, loop>> /\ NoEvent

\* The API server has answered: the Workflow exists, or was refused. A Delete
\* that came first cancelled the intent, and the create undoes itself.
CreateAnswered(r, made) ==
  /\ At(r, "posting")
  /\ intent' = [intent EXCEPT ![r] = "none"]
  /\ IF made /\ intent[r] # "cancelled"
     THEN wf' = [wf EXCEPT ![r] = "live"] /\ Goto(r, "created") /\ UNCHANGED row
     ELSE Finish(r) /\ Goto(r, "leave") /\ UNCHANGED wf
  /\ IF made \/ intent[r] = "cancelled" THEN NoEvent ELSE Event("fail")
  /\ UNCHANGED <<pending, owed, holdRow, bumped, gate, host, sweep, op, loop>>

\* Mutant: the owner releases its grant on the way out.
CreateAmbiguous_Releases(r, fate) ==
  /\ At(r, "posting") /\ Event("ambiguous")
  /\ wf' = [wf EXCEPT ![r] = fate]
  /\ pending' = [pending EXCEPT ![r] = TRUE]
  /\ intent' = [intent EXCEPT ![r] = "none"]
  /\ Release(r, FALSE) /\ Goto(r, "settle")
  /\ UNCHANGED <<row, owed, holdRow, bumped, host, sweep, op, loop>>

\* The answer is lost. deferCreateCleanup retains the grant for the settlement,
\* which the owner leaves it to; the request may still take effect.
CreateAmbiguous(r, fate) ==
  /\ At(r, "posting") /\ Event("ambiguous")
  /\ wf' = [wf EXCEPT ![r] = fate]
  /\ pending' = [pending EXCEPT ![r] = TRUE]
  /\ intent' = [intent EXCEPT ![r] = "none"]
  /\ res' = Retained(r) /\ submitted' = [submitted EXCEPT ![r] = FALSE]
  /\ Goto(r, "settle")
  /\ UNCHANGED <<row, owed, holdRow, bumped, limit, apart, prio, books, rules, pass, host, sweep,
                 op, loop>>

MarkSubmitted(r) ==
  /\ At(r, "created")
  /\ submitted' = [submitted EXCEPT ![r] = TRUE] /\ Goto(r, "marked")
  /\ UNCHANGED <<table, wf, res, limit, apart, prio, books, rules, pass, host, intent, sweep, op,
                 loop>>
  /\ NoEvent

\* MarkRunSubmitted
MarkRunSubmitted(r) ==
  /\ At(r, "marked")
  /\ Goto(r, IF row[r] = "active" THEN "observe" ELSE "undo")
  /\ UNCHANGED <<table, wf, gate, host, intent, sweep, op, loop>> /\ NoEvent

\* The owner deletes the Workflow: of a preempted run, or of one it can no
\* longer watch. A failure retains the grant and stops the server.
OwnerDeletes(r, ok) ==
  /\ At(r, "undo") \/ At(r, "observe")
  /\ IF ok
     THEN /\ wf' = [wf EXCEPT ![r] = "absent"]
          /\ Goto(r, IF wk[r] = "undo" THEN "leave" ELSE "record")
          /\ Release(r, FALSE)
          /\ IF wk[r] = "undo" THEN NoEvent ELSE Event("fail")
     ELSE /\ res' = Retained(r) /\ Goto(r, "fatal") /\ Event("deletefail")
          /\ UNCHANGED <<wf, submitted, limit, apart, prio, books, rules, pass>>
  /\ UNCHANGED <<table, host, intent, sweep, op, loop>>

\* Wait returns a terminal Workflow, or finds it gone: the grant passes on
\* before the verdict is recorded.
ObserveEnds(r) ==
  /\ At(r, "observe") /\ wf[r] \in {"done", "absent"}
  /\ Release(r, FALSE) /\ Goto(r, "record")
  /\ UNCHANGED <<table, wf, host, intent, sweep, op, loop>> /\ NoEvent

Record(r) ==
  /\ At(r, "record")
  /\ Finish(r) /\ Goto(r, "leave")
  /\ UNCHANGED <<pending, owed, holdRow, bumped, wf, gate, host, intent, sweep, op, loop>>
  /\ NoEvent

\* Mutant: the retained mark is not cleared, and the release does nothing.
SettleCreate_StillRetained(r) ==
  /\ At(r, "settle") /\ wf[r] # "sent"
  /\ wf' = [wf EXCEPT ![r] = "absent"]
  /\ pending' = [pending EXCEPT ![r] = FALSE]
  /\ owed' = [owed EXCEPT ![r] = FALSE]
  /\ Release(r, FALSE) /\ Finish(r) /\ Goto(r, "none")
  /\ UNCHANGED <<holdRow, bumped, host, intent, sweep, op, loop>> /\ NoEvent

\* Settlement of an uncertain create: absence is confirmed once no request can
\* still take effect, and only then the grant is released.
SettleCreate(r) ==
  /\ At(r, "settle") /\ wf[r] # "sent"
  /\ wf' = [wf EXCEPT ![r] = "absent"]
  /\ pending' = [pending EXCEPT ![r] = FALSE]
  /\ owed' = [owed EXCEPT ![r] = FALSE]
  /\ Release(r, TRUE) /\ Finish(r) /\ Goto(r, "none")
  /\ UNCHANGED <<holdRow, bumped, host, intent, sweep, op, loop>> /\ NoEvent

-----------------------------------------------------------------------------
(* Cancellation *)

\* A supersede or an operator's cancel: the row, and the obligation of a run that
\* was claimed. A queued run owns nothing.
CancelRun(r) ==
  /\ Unlocked /\ row[r] \in {"queued", "active"} /\ Event("cancel")
  /\ row' = [row EXCEPT ![r] = "cancelled"]
  /\ owed' = [owed EXCEPT ![r] = row[r] = "active"]
  /\ UNCHANGED <<pending, holdRow, bumped, wf, gate, host, actors>>

\* abandonAdmissions, at the start of every cancellation pass.
AbandonAdmission(r) ==
  /\ Unlocked /\ owed[r] /\ row[r] \in {"cancelled", "over"} /\ r \in Waiters
  /\ Abandon(r)
  /\ UNCHANGED <<table, wf, host, actors>> /\ NoEvent

\* The pass deletes the Workflow by name. While the create is running Delete
\* only cancels its intent. A run in settlement is left to the settlement, and
\* one that has no Workflow name yet to its owner.
SweepDelete(r) ==
  /\ Unlocked /\ owed[r] /\ ~sweep[r] /\ r \notin Waiters
  /\ wk[r] \notin {"claimed", "checkout", "settle"}
  /\ sweep' = [sweep EXCEPT ![r] = TRUE]
  /\ IF intent[r] # "none"
     THEN intent' = [intent EXCEPT ![r] = "cancelled"] /\ UNCHANGED wf
     ELSE wf' = [wf EXCEPT ![r] = "absent"] /\ UNCHANGED intent
  /\ UNCHANGED <<table, gate, host, wk, op, loop>> /\ NoEvent

\* CompleteObservedRunCancellation, then releaseDeletedRun.
SweepRelease(r) ==
  /\ Unlocked /\ sweep[r]
  /\ sweep' = [sweep EXCEPT ![r] = FALSE] /\ owed' = [owed EXCEPT ![r] = FALSE]
  /\ IF submitted[r] THEN Release(r, TRUE) ELSE UNCHANGED gate
  /\ UNCHANGED <<row, pending, holdRow, bumped, wf, host, wk, intent, op, loop>> /\ NoEvent

\* The owner of a run that never named a Workflow closes its obligation.
CloseNameless(r) ==
  /\ Unlocked /\ owed[r] /\ wk[r] = "none" /\ ~sweep[r] /\ wf[r] = "absent" /\ ~pending[r]
  /\ owed' = [owed EXCEPT ![r] = FALSE]
  /\ UNCHANGED <<row, pending, holdRow, bumped, wf, gate, host, actors>> /\ NoEvent

-----------------------------------------------------------------------------
(* The operator: ReleaseAdmission *)

\* The reservation is looked at under the lock.
OperatorLooks(r) ==
  /\ Unlocked /\ op.view = "none" /\ res[r] \in {"preparing", "waiting", "granted", "retained"}
  /\ Event("operator")
  /\ op' = [op EXCEPT !.run = r, !.view = res[r]]
  /\ UNCHANGED <<table, wf, gate, host, wk, intent, sweep, loop>>

\* Then, without the lock, the row is read and the Workflow of what was seen granted
\* or retained is deleted. (A row that is over stays so: the read and the delete
\* are one step.)
OperatorVerifies ==
  /\ Unlocked /\ op.view # "none" /\ ~op.sure
  /\ op.view = "retained" \/ row[op.run] \in {"cancelled", "over"}
  /\ op' = [op EXCEPT !.sure = TRUE]
  /\ IF op.view \in {"preparing", "waiting"} THEN UNCHANGED <<wf, intent>>
     ELSE IF intent[op.run] = "none" /\ wf[op.run] # "sent"
     THEN wf' = [wf EXCEPT ![op.run] = "absent"] /\ UNCHANGED intent
     ELSE /\ intent' = [intent EXCEPT ![op.run] = IF @ = "none" THEN @ ELSE "cancelled"]
          /\ UNCHANGED wf
  /\ UNCHANGED <<table, gate, host, wk, sweep, loop>> /\ NoEvent

\* Without force, a run that is still active, or whose Workflow cannot be deleted,
\* is refused.
OperatorRefused ==
  /\ Unlocked /\ op.view # "none" /\ ~op.sure
  /\ op.view \in {"granted", "retained"} \/ row[op.run] \notin {"cancelled", "over"}
  /\ op' = [NoOp EXCEPT !.freed = op.freed]
  /\ UNCHANGED <<table, wf, gate, host, wk, intent, sweep, loop>> /\ NoEvent

\* Under the lock again: the owner may have released it meanwhile, or the gate
\* granted it.
OperatorReleases ==
  /\ op.view # "none" /\ op.sure /\ Unlocked
  /\ op' = [NoOp EXCEPT !.freed = IF op.run \in Held THEN op.freed \cup {op.run} ELSE op.freed]
  /\ IF op.run \in Held THEN Release(op.run, TRUE) ELSE Abandon(op.run)
  /\ UNCHANGED <<table, wf, host, wk, intent, sweep, loop>> /\ NoEvent

-----------------------------------------------------------------------------
(* Admin hold, priority, capacity, host *)

\* SetAdmissionHold closes the fence.
HoldBegins ==
  /\ Unlocked /\ updating = "no" /\ Event("hold")
  /\ updating' = "writing"
  /\ UNCHANGED <<table, wf, rsv, books, maxRuns, hold, changing, pass, host, actors>>

\* The durable write: committed and acknowledged, committed with its
\* acknowledgement lost, or not committed.
HoldWrites(committed, answered) ==
  /\ Unlocked /\ updating = "writing"
  /\ holdRow' = IF committed THEN ~holdRow ELSE holdRow
  /\ updating' = IF committed /\ answered THEN "saved" ELSE "failed"
  /\ (committed /\ answered) \/ "holdlost" \in Events
  /\ UNCHANGED <<row, pending, owed, bumped, wf, rsv, books, maxRuns, hold, changing, pass,
                 host, actors>> /\ NoEvent

\* Mutant: a failed write restores the rule the gate had.
HoldApplies_NoReadBack(read) ==
  /\ Unlocked /\ updating \in {"saved", "failed"} /\ read
  /\ hold' = IF updating = "saved" THEN holdRow ELSE hold
  /\ updating' = "no" /\ GrantIf("no")
  /\ UNCHANGED <<table, wf, rsv, books, maxRuns, changing, host, actors>> /\ NoEvent

\* The gate takes the rule over and opens the fence. After an error it is read
\* back; when that fails too (read is FALSE), the old rule stays.
HoldApplies(read) ==
  /\ Unlocked /\ updating \in {"saved", "failed"}
  /\ IF read THEN hold' = holdRow /\ NoEvent
     ELSE updating = "failed" /\ UNCHANGED hold /\ "holdblind" \in Events /\ NoEvent
  /\ updating' = "no" /\ GrantIf("no")
  /\ UNCHANGED <<table, wf, rsv, books, maxRuns, changing, host, actors>>

\* A hold lasts 12 hours at most; no pass runs when it expires.
HoldExpires ==
  /\ holdRow /\ updating = "no"
  /\ holdRow' = FALSE /\ hold' = FALSE /\ Relax
  /\ UNCHANGED <<row, pending, owed, bumped, wf, rsv, books, maxRuns, updating, changing, host,
                 actors>> /\ NoEvent

\* BumpRunPriority parks the reservation while the override is written.
BumpBegins(r) ==
  /\ Unlocked /\ changing = {} /\ res[r] \notin {"granted", "retained"}
  /\ row[r] \in {"queued", "active"} /\ bumped[r] = 0 /\ Event("bump")
  /\ changing' = {r}
  /\ UNCHANGED <<table, wf, rsv, books, maxRuns, hold, updating, pass, host, actors>>

\* The write is one transaction; an error leaves the waiter's priority as it was.
BumpEnds(r, committed, answered) ==
  /\ Unlocked /\ r \in changing /\ (answered => committed)
  /\ bumped' = [bumped EXCEPT ![r] = IF committed THEN 1 ELSE @]
  /\ prio' = [prio EXCEPT ![r] = IF answered /\ r \in Waiters THEN 1 ELSE @]
  /\ changing' = changing \ {r} /\ Grant
  /\ UNCHANGED <<row, pending, owed, holdRow, wf, res, submitted, limit, apart, books, maxRuns,
                 hold, updating, host, actors>> /\ NoEvent

\* EffectivePriority: a run that has waited an hour rises, in the queue and in the
\* gate. No pass runs when it does.
PriorityAges(r) ==
  /\ Unlocked /\ bumped[r] = 0 /\ row[r] \in {"queued", "active"}
  /\ res[r] \notin {"granted", "retained"} /\ Event("age")
  /\ bumped' = [bumped EXCEPT ![r] = 1]
  /\ prio' = [prio EXCEPT ![r] = IF r \in Waiters \cup Claimed THEN 1 ELSE @]
  /\ Relax
  /\ UNCHANGED <<row, pending, owed, holdRow, wf, res, submitted, limit, apart, books, rules,
                 host, actors>>

\* refreshRuntimeCapacity
ChangeCapacity(n) ==
  /\ Unlocked /\ n # maxRuns /\ Event("capacity")
  /\ maxRuns' = n /\ Grant
  /\ UNCHANGED <<table, wf, rsv, books, hold, updating, changing, host, actors>>

HostFills ==
  /\ host /\ Event("host") /\ host' = FALSE
  /\ UNCHANGED <<table, wf, gate, actors>>

HostRecovers ==
  /\ ~host /\ host' = TRUE /\ Relax
  /\ UNCHANGED <<table, wf, rsv, books, rules, actors>> /\ NoEvent

-----------------------------------------------------------------------------
(* Workflows, crash and restart *)

WorkflowEnds(r) ==
  /\ ~pass.on /\ wf[r] = "live" /\ wf' = [wf EXCEPT ![r] = "done"]
  /\ UNCHANGED <<table, gate, host, actors>> /\ NoEvent

\* A create whose answer was lost takes effect late, or never.
LateCreate(r, made) ==
  /\ ~pass.on /\ wf[r] = "sent" /\ wf' = [wf EXCEPT ![r] = IF made THEN "live" ELSE "absent"]
  /\ UNCHANGED <<table, gate, host, actors>> /\ NoEvent

\* The process ends. What the API server makes of requests on their way is
\* decided now.
Stop ==
  /\ \E made \in SUBSET {r \in Runs : wk[r] = "posting"} :
        wf' = [r \in Runs |-> IF r \in made THEN "live" ELSE wf[r]]
  /\ res' = [r \in Runs |-> "none"] /\ submitted' = [r \in Runs |-> FALSE]
  /\ limit' = limit /\ apart' = {} /\ prio' = [r \in Runs |-> 0]
  /\ runs' = 0 /\ holders' = [g \in Groups |-> {}]
  /\ hold' = FALSE /\ updating' = "no" /\ changing' = {} /\ pass' = NoPass
  /\ wk' = [r \in Runs |-> "none"] /\ intent' = [r \in Runs |-> "none"]
  /\ sweep' = [r \in Runs |-> FALSE] /\ loop' = "down"
  /\ op' = NoOp
  /\ UNCHANGED <<table, maxRuns, host>>

Crash == Up /\ Stop /\ Event("crash")

\* An owner that returns an error ends the dispatch loop and with it the server.
Exit == Up /\ (\E r \in Runs : wk[r] = "fatal") /\ Stop /\ NoEvent

\* adopt refuses a run whose group is full, or held under another limit. (A full group
\* of limit 1 takes the runs of other repositories; these are of one.)
GroupRefuses(r) ==
  /\ GroupOf[r] # NoGroup
  /\ \/ Cardinality(holders[GroupOf[r]]) >= limit[r]
     \/ \E o \in holders[GroupOf[r]] : limit[o] # limit[r]

\* adopt: the contract on record gives the group and its limit. When the group
\* refuses, restoreCreateGrant adopts without it.
Adopt(r, state) ==
  /\ state = "granted" => ~GroupRefuses(r)
  /\ res' = [res EXCEPT ![r] = state]
  /\ submitted' = [submitted EXCEPT ![r] = state = "granted"]
  /\ runs' = runs + 1
  /\ IF GroupRefuses(r) THEN apart' = apart \cup {r} /\ UNCHANGED holders
                        ELSE holders' = Join(r) /\ UNCHANGED apart
  /\ UNCHANGED <<limit, prio, rules, pass>>

\* Reconciliation of one run at startup: adopt its Workflow, take its unsettled
\* create over, requeue it, or delete the Workflow of a run that is over.
RecoverRun(r) ==
  /\ loop = "down"
  /\ \/ /\ row[r] = "active" /\ ~pending[r] /\ wf[r] \in {"live", "done"} /\ res[r] = "none"
        /\ Adopt(r, "granted") /\ Goto(r, "observe")
        /\ UNCHANGED <<row, owed, wf>>
     \/ /\ pending[r] /\ res[r] = "none"
        /\ Adopt(r, "retained") /\ Goto(r, "settle")
        /\ UNCHANGED <<row, owed, wf>>
     \/ /\ row[r] = "active" /\ ~pending[r] /\ wf[r] = "absent"
        /\ row' = [row EXCEPT ![r] = "queued"]
        /\ UNCHANGED <<owed, wf, gate, wk>>
     \/ /\ row[r] \in {"cancelled", "over"} /\ ~pending[r] /\ (owed[r] \/ wf[r] = "live")
        /\ wf' = [wf EXCEPT ![r] = "absent"] /\ owed' = [owed EXCEPT ![r] = FALSE]
        /\ UNCHANGED <<row, gate, wk>>
  /\ UNCHANGED <<pending, holdRow, bumped, host, intent, sweep, op, loop>> /\ NoEvent

Recovered(r) ==
  /\ pending[r] \/ row[r] = "active" => res[r] # "none"
  /\ row[r] \in {"cancelled", "over"} /\ ~pending[r] => ~owed[r] /\ wf[r] # "live"

\* adopt refuses the Workflow, and startup stops until the
\* operator has deleted it: the next start requeues the run.
Refused(r) == /\ loop = "down" /\ row[r] = "active" /\ ~pending[r]
              /\ wf[r] \in {"live", "done"} /\ res[r] = "none" /\ GroupRefuses(r)

OperatorUnblocks(r) ==
  /\ Refused(r) /\ wf' = [wf EXCEPT ![r] = "absent"]
  /\ UNCHANGED <<table, gate, host, actors>> /\ NoEvent

\* Recovery is over and the hold is loaded: the dispatch loop starts.
Start ==
  /\ loop = "down" /\ \A r \in Runs : Recovered(r)
  /\ loop' = "idle" /\ hold' = holdRow
  /\ UNCHANGED <<table, wf, rsv, books, maxRuns, updating, changing, pass, host, wk, intent,
                 sweep, op>> /\ NoEvent

-----------------------------------------------------------------------------
(* Specification *)

Owner(r) ==
  \/ Leave(r) \/ (\E n \in Limits : Acquire(r, n)) \/ Wake(r) \/ Recheck(r)
  \/ BeginCreate(r) \/ CreateAnswered(r, TRUE) \/ MarkSubmitted(r)
  \/ MarkRunSubmitted(r) \/ (wk[r] = "undo" /\ OwnerDeletes(r, TRUE)) \/ ObserveEnds(r)
  \/ Record(r) \/ SettleCreate(r)

OwnerFails(r) ==
  \/ LeaveCheckout(r) \/ FailBeforeCreate(r) \/ CreateAnswered(r, FALSE)
  \/ (wk[r] = "observe" /\ OwnerDeletes(r, TRUE)) \/ OwnerDeletes(r, FALSE)
  \/ \E fate \in {"absent", "sent", "live"} : CreateAmbiguous(r, fate)

Sweeper(r) ==
  AbandonAdmission(r) \/ SweepDelete(r) \/ SweepRelease(r) \/ CloseNameless(r)

GatePass == PassStops \/ \E r \in Runs : PassSkips(r) \/ PassGrants(r)

Dispatch == LoopStart \/ (\E r \in Runs : Claim(r) \/ Reserve(r)) \/ LoopEnd

Request ==
  \/ HoldBegins \/ (\E n \in Sizes : ChangeCapacity(n))
  \/ \E r \in Runs : BumpBegins(r) \/ OperatorLooks(r) \/ CancelRun(r) \/ PriorityAges(r)

\* What a request goes on to do.
RequestGoesOn ==
  \/ \E a \in BOOLEAN, b \in BOOLEAN :
        HoldWrites(a, b) \/ \E r \in Runs : BumpEnds(r, a, b)
  \/ (\E read \in BOOLEAN : HoldApplies(read))
  \/ OperatorVerifies \/ OperatorRefused \/ OperatorReleases

Cluster ==
  \E r \in Runs : WorkflowEnds(r) \/ \E made \in BOOLEAN : LateCreate(r, made)

Recovery == Exit \/ Start \/ \E r \in Runs : RecoverRun(r) \/ OperatorUnblocks(r)

Progress == RequestGoesOn \/ Cluster \/ \E r \in Runs : Owner(r) \/ Sweeper(r)

Next ==
  \/ GatePass \/ Dispatch \/ Progress \/ Recovery \/ Request
  \/ HoldExpires \/ HostFills \/ HostRecovers \/ Crash
  \/ \E r \in Runs : OwnerFails(r)

Spec == Init /\ [][Next]_vars

\* Go's mutex is handed to a waiter that has waited long enough, so a step that
\* keeps finding it free again and again is taken; and the loop ticks.
Fairness ==
  /\ WF_vars(GatePass) /\ SF_vars(Dispatch) /\ SF_vars(Progress) /\ WF_vars(Recovery)
  /\ WF_vars(HoldExpires) /\ WF_vars(HostRecovers)

FairSpec == Spec /\ Fairness

-----------------------------------------------------------------------------
(* Properties *)

Operated(r) == r \in op.freed

\* A Workflow that is running for a run that is active, or whose create is still
\* unsettled. One an operator has released is the operator's.
Running(r) == wf[r] = "live" /\ (row[r] = "active" \/ pending[r]) /\ ~Operated(r)

\* The ceiling and the groups are accounted exactly, whoever releases, cancels,
\* retains, abandons, adopts or settles a reservation, and in which order:
\* gate.runs is the number of grants held, gate.groups lists their members, and
\* while the server runs every running Workflow holds its grant.
SlotsAccounted ==
  /\ runs = Cardinality(Held)
  /\ \A g \in Groups : holders[g] = {r \in Held \ apart : GroupOf[r] = g}
  /\ Up => \A r \in Runs : Running(r) => r \in Held

\* A concurrency group never has more running Workflows than its limit, not even
\* across a restart, a lost answer to a create, or a failed delete: the one
\* exception is a Workflow whose grant was restored without its group.
GroupsExclusive ==
  Up => \A r \in Runs \ apart : Running(r) /\ GroupOf[r] # NoGroup =>
     Cardinality({o \in Runs \ apart : Running(o) /\ GroupOf[o] = GroupOf[r]}) <= limit[r]

\* What docs/concurrency-groups.md says of a grant: "Running and retained grants
\* keep their group slots until execution is known to be terminal or deletion has
\* been accepted." A grant restored without its group has lost its slot.
RetainedKeepsGroup ==
  Up => \A r \in Runs : Running(r) /\ GroupOf[r] # NoGroup =>
     Cardinality({o \in Runs : Running(o) /\ GroupOf[o] = GroupOf[r]}) <= limit[r]

\* A waiter the gate could admit now: everything ahead of it is held by the
\* administrator or parked on its group.
Admissible(r) ==
  /\ res[r] = "waiting" /\ r \notin changing /\ ~AdminHeld(r) /\ ~GroupBlocked(r) /\ CanGrant
  /\ \A o \in Waiters : Before(o, r) => AdminHeld(o) \/ (o \notin changing /\ GroupBlocked(o))

\* No wake is lost: whenever the mutex is free, no run that could be admitted is
\* left waiting, unless a rule was relaxed by the clock, the host or a refresh.
NoMissedGrant ==
  Unlocked /\ ~pass.stale => ~\E r \in Runs : Admissible(r)

\* Nobody overtakes: a grant never goes past a waiter with a better place that
\* is neither held by the administrator nor parked on its own group, and a claim
\* whose pipeline is still unread keeps its place. (A hold that expires during
\* the pass comes too late for the waiters it has gone past.)
GrantsInOrder ==
  [][\A r \in Runs : res[r] = "waiting" /\ res'[r] = "granted" /\ ~pass.stale =>
        \A o \in Waiters \ {r} : Before(o, r) => AdminHeld(o) \/ GroupBlocked(o)]_vars

\* A run of a class the durable hold blocks is not granted, although the gate
\* works from its own copy of the rule and a write may lose its answer.
HoldEnforced ==
  [][\A r \in Runs : res[r] = "waiting" /\ res'[r] = "granted" =>
        ~holdRow \/ r \in Exempt]_vars

\* Every grant comes back, on every path an owner, a pass, an operator, the
\* settlement or a restart can take it: in the end the gate is empty.
SlotsComeBack == <>[](runs = 0 /\ Held = {})

\* Every run is served or cancelled: no head starves it, and no group, hold,
\* bump or parked claim blocks the queue for good.
EveryRunEnds == <>[](\A r \in Runs : row[r] \in {"cancelled", "over"})

\* What ReleaseAdmission says of itself: "Before releasing a granted reservation the
\* run's Workflow is deleted through the engine". Known to be false: the owner may
\* create after the delete, or the gate grant after the look.
ReleasedIsDeleted ==
  [][\A r \in Runs : r \in op'.freed \ op.freed => wf[r] # "live"]_vars

\* What docs/restart-handover.md says of a restart: "Running branch runs are
\* adopted." No running run with a Workflow is refused by the gate.
AdoptionSucceeds == \A r \in Runs : ~Refused(r)
=============================================================================
