------------------------------- MODULE Intake -------------------------------
(***************************************************************************)
(* How a push becomes a run: the receive transaction of one repository and *)
(* its record in the outbox (gitcache), the callback that turns each moved *)
(* ref into a receive event and a run, a deferred branch push or a         *)
(* deletion (PushIngestor and the store), the cap on runs that have not    *)
(* started, and the drain of the deferred pushes.                          *)
(*                                                                         *)
(* Two stores that do not commit together are at work: the record is a     *)
(* file, receive events and runs are rows. Whoever holds the repository's  *)
(* receive lock (a push, an operator's retry, the replay at startup) works *)
(* the record off, one event at a time: a callback commits its row, then   *)
(* the record is checkpointed.                                             *)
(***************************************************************************)
EXTENDS Integers, Sequences, FiniteSets

CONSTANTS Branches, Tags,  \* public refs, in the order DiffRefs sorts them
          RefOrder,        \* all of them, as a sequence
          MaxPushes,
          Deleted,         \* branches whose deletion is on its way upstream at the start
          Caps,            \* values of the cap; 0 is off
          Faults,          \* what may go wrong: see AllFaults
          MaxFaults

AllFaults == {"crash", "gate", "finalize", "handle", "late", "checkpoint", "upstream",
              "restore", "operator"}

ASSUME RefsAssumption == /\ Branches \cap Tags = {} /\ Deleted \subseteq Branches
                         /\ RefOrder \in Seq(Branches \cup Tags)
                         /\ \A f \in Branches \cup Tags : \E i \in 1..Len(RefOrder) : RefOrder[i] = f
ASSUME BoundsAssumption == MaxPushes \in Nat /\ MaxFaults \in Nat /\ Caps \subseteq Nat /\ Caps # {}
ASSUME FaultsAssumption == Faults \subseteq AllFaults

Refs == Branches \cup Tags
Pushes == 1..MaxPushes
Outside == MaxPushes + 1  \* a commit made upstream
SHAs == 0..Outside        \* 0: no ref; p: the object push p sends
Keys == Pushes \X Refs    \* event ids: the record's and the place in its updates

VARIABLES
  mirror,    \* public refs of the cache
  tracking,  \* refs/oberth/upstream: what the last fetch saw
  owned,     \* materialize manifest: the value each public ref was given
  deleting,  \* deletion markers
  upstream,  \* the forge
  record,    \* the receive record in the outbox
  lk,        \* the receive lock: who holds it, and how far it is
  up,        \* startup has replayed the outbox
  pushed,    \* pushes begun
  events,    \* table receive_events
  deferred,  \* table deferred_branch_receives, in order
  rows,      \* table branch_deletions: pending
  runs,      \* table runs, in queue order
  others,    \* runs of other repositories that have not started
  cap,       \* table queue_cap
  abandoned, \* records an operator moved aside
  moved,     \* history: what receive-pack (0: AbandonBranchDeletions) did to the refs
  faults

git == <<mirror, tracking, owned, deleting>>
db  == <<events, deferred, rows, runs, others, cap>>
vars == <<git, upstream, record, lk, up, pushed, db, abandoned, moved, faults>>

NoRecord == [state |-> "none", push |-> 0, before |-> [f \in Refs |-> 0], updates |-> <<>>, next |-> 1]
Free == [by |-> "none", ph |-> "none", push |-> 0]
NoEvent == [out |-> "none", sha |-> 0]
Outcomes == {"none", "queued", "parked", "deleted", "release_rejected", "release_delivered"}

TypeOK ==
  /\ mirror \in [Refs -> SHAs] /\ tracking \in [Refs -> SHAs] /\ owned \in [Refs -> SHAs]
  /\ upstream \in [Refs -> SHAs] /\ deleting \subseteq Branches
  /\ record \in [state: {"none", "reserved", "gate-failed", "ready", "quarantined"},
                 push: 0..MaxPushes, before: [Refs -> SHAs],
                 updates: Seq([ref: Refs, old: SHAs, new: SHAs]), next: Nat \ {0}]
  /\ lk \in [by: {"none", "push", "operator", "startup"},
             ph: {"none", "replay", "checkpoint", "ensure", "reserve", "pack", "moved", "own", "owncheckpoint"},
             push: 0..MaxPushes]
  /\ up \in BOOLEAN /\ pushed \in 0..MaxPushes /\ cap \in Caps /\ others \in Nat
  /\ events \in [Keys -> [out: Outcomes, sha: SHAs]]
  /\ deferred \in Seq(Keys) /\ rows \subseteq Branches
  /\ runs \in Seq([key: Keys, st: {"queued", "started", "over"}])
  /\ abandoned \subseteq Pushes /\ moved \subseteq [push: 0..MaxPushes, ref: Refs, new: SHAs]
  /\ faults \in Nat

Init ==
  /\ mirror = [f \in Refs |-> 0] /\ deleting = Deleted /\ rows = Deleted
  /\ upstream = [f \in Refs |-> IF f \in Deleted THEN Outside ELSE 0]
  /\ tracking = upstream /\ owned = [f \in Refs |-> 0]
  /\ record = NoRecord /\ lk = Free /\ up = TRUE /\ pushed = 0
  /\ events = [k \in Keys |-> NoEvent] /\ deferred = <<>> /\ runs = <<>> /\ others \in 0..1 /\ cap \in Caps
  /\ abandoned = {} /\ moved = {} /\ faults = 0

Fault(kind) == kind \in Faults /\ faults < MaxFaults /\ faults' = faults + 1
NoFault == UNCHANGED faults

-----------------------------------------------------------------------------
(* The cache *)

\* refresh and materialize: a public ref follows the forge while it still has
\* the value it was given, has the new one already, or has the one fetched before.
Follows(f) == \/ owned[f] # 0 /\ mirror[f] = owned[f]
              \/ mirror[f] = upstream[f] \/ (tracking[f] # 0 /\ mirror[f] = tracking[f])
Materialized(f) ==
  CASE upstream[f] = 0 -> IF owned[f] # 0 /\ mirror[f] = owned[f] THEN 0 ELSE mirror[f]
    [] upstream[f] # 0 /\ mirror[f] = 0 -> IF f \in deleting THEN 0 ELSE upstream[f]
    [] OTHER -> IF Follows(f) THEN upstream[f] ELSE mirror[f]

Fetched ==
  /\ mirror' = [f \in Refs |-> Materialized(f)]
  /\ owned' = [f \in Refs |-> IF Materialized(f) = upstream[f] THEN upstream[f] ELSE 0]
  /\ tracking' = upstream
  /\ UNCHANGED deleting

\* Mutant: the refs are refreshed although a receive is unfinished.
RefreshAllowed_Always == record.state # "quarantined"

\* Ensure: not while the refs of an unfinished receive are not yet recorded.
RefreshAllowed == record.state \in {"none", "ready"}

\* A forge that cannot be reached leaves the cache stale and stops nobody.
Ensure == UNCHANGED git \/ (RefreshAllowed /\ upstream # tracking /\ Fetched)

\* A fetch, or one of the API's reads.
Refresh ==
  /\ up /\ RefreshAllowed /\ upstream # tracking /\ Fetched
  /\ UNCHANGED <<upstream, record, lk, up, pushed, db, abandoned, moved>> /\ NoFault

UpstreamMoves(b) ==
  /\ upstream[b] # Outside /\ Fault("upstream")
  /\ upstream' = [upstream EXCEPT ![b] = Outside]
  /\ UNCHANGED <<git, record, lk, up, pushed, db, abandoned, moved>>

\* PropagateBranchDeletions and its cleanup: a branch that exists again is left
\* alone, and one whose marker is still there is tried again later.
DeletionPropagates(b) ==
  /\ up /\ b \in rows /\ (mirror[b] = 0 \/ b \notin deleting)
  /\ rows' = rows \ {b} /\ deleting' = deleting \ {b}
  /\ IF mirror[b] = 0
     THEN /\ upstream' = [upstream EXCEPT ![b] = 0]
          /\ tracking' = [tracking EXCEPT ![b] = 0]
     ELSE UNCHANGED <<upstream, tracking>>
  /\ UNCHANGED <<mirror, owned, record, lk, up, pushed, events, deferred, runs, others, cap,
                 abandoned, moved>> /\ NoFault

\* AbandonBranchDeletions, after the last attempt: the mirror gets the branch
\* back. It takes the repository lock and does not look at the outbox.
DeletionAbandoned(b) ==
  /\ up /\ b \in rows /\ Fault("restore")
  /\ rows' = rows \ {b} /\ deleting' = deleting \ {b}
  /\ mirror' = [mirror EXCEPT ![b] = IF @ = 0 THEN tracking[b] ELSE @]
  /\ moved' = moved \cup {[push |-> 0, ref |-> b, new |-> mirror'[b]]}
  /\ UNCHANGED <<tracking, owned, upstream, record, lk, up, pushed, events, deferred, runs, others,
                 cap, abandoned>>

-----------------------------------------------------------------------------
(* The receive transaction *)

At(ph) == lk.ph = ph
Goto(ph) == lk' = [lk EXCEPT !.ph = ph]
\* An error ends what the holder of the lock was doing; at startup, the server.
Fails == lk' = Free

\* Receive: the lock, and a first look at the outbox.
Begin ==
  /\ up /\ lk = Free /\ pushed < MaxPushes
  /\ pushed' = pushed + 1
  /\ lk' = [by |-> "push", ph |-> "replay", push |-> pushed + 1]
  /\ UNCHANGED <<git, upstream, record, up, db, abandoned, moved>> /\ NoFault

\* ensureReceiveLocked, once the outbox is empty; and a second look at it.
EnsureReceive ==
  /\ At("ensure") /\ Ensure /\ Goto("reserve")
  /\ UNCHANGED <<upstream, record, up, pushed, db, abandoned, moved>> /\ NoFault

\* reserveReceiveAtMostLocked: before Git may move a ref.
Reserve ==
  /\ At("reserve")
  /\ record' = [NoRecord EXCEPT !.state = "reserved", !.push = lk.push, !.before = mirror]
  /\ Goto("pack")
  /\ UNCHANGED <<git, upstream, up, pushed, db, abandoned, moved>> /\ NoFault

\* receive-pack: it moves the refs the client sent, in one transaction, or
\* none. The client's answer is on its way from here on.
Pack(sent, gone) ==
  /\ At("pack")
  /\ gone \subseteq {f \in Branches : mirror[f] # 0} /\ sent \cap gone = {}
  /\ mirror' = [f \in Refs |-> IF f \in sent THEN lk.push ELSE IF f \in gone THEN 0 ELSE mirror[f]]
  /\ moved' = moved \cup {[push |-> lk.push, ref |-> f, new |-> mirror'[f]] : f \in sent \cup gone}
  /\ Goto("moved")
  /\ UNCHANGED <<tracking, owned, deleting, upstream, record, up, pushed, db, abandoned>> /\ NoFault

\* The members of a set of numbers, in order.
Sorted(S) ==
  CHOOSE s \in [1..Cardinality(S) -> S] : \A i, j \in 1..Cardinality(S) : i < j => s[i] < s[j]

\* DiffRefs
Updates(before, after) ==
  LET changed == {i \in 1..Len(RefOrder) : before[RefOrder[i]] # after[RefOrder[i]]}
      refs == [i \in 1..Cardinality(changed) |-> RefOrder[Sorted(changed)[i]]]
  IN [i \in 1..Cardinality(changed) |->
        [ref |-> refs[i], old |-> before[refs[i]], new |-> after[refs[i]]]]

\* finalizeReceiveLocked: the updates become part of the record, and the
\* deletion markers are set and dropped.
Finalize(rec) ==
  LET ups == Updates(rec.before, mirror)
      changed == {ups[i].ref : i \in 1..Len(ups)}
  IN /\ record' = IF ups = <<>> THEN NoRecord
                  ELSE [rec EXCEPT !.state = "ready", !.updates = ups, !.next = 1]
     /\ deleting' = {b \in Branches : IF b \in changed THEN mirror[b] = 0 ELSE b \in deleting}
     /\ UNCHANGED <<mirror, tracking, owned>>

\* The lock is taken again, the gate passes and the record is finalized.
FinalizeOwn ==
  /\ At("moved") /\ Finalize(record) /\ Goto("own")
  /\ UNCHANGED <<upstream, up, pushed, db, abandoned, moved>> /\ NoFault

\* The pre-finalize gate refuses: the record keeps what replay needs.
GateRefuses ==
  /\ At("moved") /\ Fault("gate")
  /\ record' = [record EXCEPT !.state = "gate-failed"] /\ Fails
  /\ UNCHANGED <<git, upstream, up, pushed, db, abandoned, moved>>

\* The lock is not had again in time, or the refs cannot be listed.
FinalizeFails ==
  /\ At("moved") /\ Fault("finalize") /\ Fails
  /\ UNCHANGED <<git, upstream, record, up, pushed, db, abandoned, moved>>

-----------------------------------------------------------------------------
(* replayRepoSerialized *)

Replaying == At("replay") \/ At("own")

\* Nothing (more) to deliver: a push goes on to its own transaction, the others
\* are done. Startup leaves a quarantined record where it is.
ReplayEnds ==
  /\ Replaying /\ (record.state = "none" \/ (record.state = "quarantined" /\ lk.by = "startup"))
  /\ IF At("replay") /\ lk.by = "push" THEN Goto("ensure") ELSE lk' = Free
  /\ up' = (up \/ lk.by = "startup")
  /\ UNCHANGED <<git, upstream, record, pushed, db, abandoned, moved>> /\ NoFault

\* A quarantined record refuses a push; an operator's retry restores it first.
ReplayQuarantined ==
  /\ At("replay") /\ record.state = "quarantined" /\ lk.by # "startup"
  /\ IF lk.by = "push" THEN Fails /\ UNCHANGED record
     ELSE /\ record' = [record EXCEPT !.state = IF record.updates = <<>> THEN "reserved" ELSE "ready"]
          /\ UNCHANGED lk
  /\ UNCHANGED <<git, upstream, up, pushed, db, abandoned, moved>> /\ NoFault

\* Mutant: the record of an interrupted receive is taken for one that changed nothing.
ReplayFinalizes_Forgets ==
  /\ At("replay") /\ record.state \in {"reserved", "gate-failed"}
  /\ record' = NoRecord
  /\ UNCHANGED <<git, lk, upstream, up, pushed, db, abandoned, moved>> /\ NoFault

\* A receive that was interrupted is finalized from its snapshot.
ReplayFinalizes ==
  /\ At("replay") /\ record.state \in {"reserved", "gate-failed"}
  /\ Finalize(record) /\ UNCHANGED lk
  /\ UNCHANGED <<upstream, up, pushed, db, abandoned, moved>> /\ NoFault

\* The gate runs again before an interrupted receive is finalized; one that has
\* refused this record may still be shut.
ReplayRefused ==
  /\ At("replay") /\ record.state \in {"reserved", "gate-failed"}
  /\ IF record.state = "gate-failed" THEN NoFault ELSE Fault("gate")
  /\ Fails
  /\ UNCHANGED <<git, upstream, record, up, pushed, db, abandoned, moved>>

Update == record.updates[record.next]
Key == <<record.push, Update.ref>>
Delivering == Replaying /\ record.state = "ready" /\ record.next <= Len(record.updates)

\* What PushIngestor.Tag decides of an update: it does not ask what was decided.
TagOutcome(u) ==
  CASE u.new = 0 \/ u.old # 0 -> "release_rejected"
    [] u.old = 0 /\ u.new # 0 /\ upstream[u.ref] = u.new -> "release_delivered"
    [] u.old = 0 /\ u.new # 0 /\ upstream[u.ref] \notin {0, u.new} -> "release_rejected"
    [] OTHER -> "queued"

\* PushIngestor.Branch keeps the decision on record; parks: the policy read now.
BranchOutcome(u, parks) ==
  IF u.new = 0 THEN "deleted"
  ELSE IF events[Key].out # "none" THEN events[Key].out
  ELSE IF parks THEN "parked" ELSE "queued"

Outcome(parks) == IF Update.ref \in Tags THEN TagOutcome(Update) ELSE BranchOutcome(Update, parks)

\* Runs that have not started; the cap is the installation's.
NotStarted == others + Cardinality({i \in 1..Len(runs) : runs[i].st = "queued"})

\* Mutant: a slot that is free goes to the newcomer.
MustDefer_Slot(f) == f \in Branches /\ cap # 0 /\ NotStarted >= cap

\* deferBranchTx: once a backlog exists, a branch push joins its tail.
MustDefer(f) == f \in Branches /\ (deferred # <<>> \/ (cap # 0 /\ NotStarted >= cap))

\* enqueueRunTx: a branch push supersedes the active runs of its branch.
Enqueued(k) ==
  Append([i \in 1..Len(runs) |->
            IF k[2] \in Branches /\ runs[i].key[2] = k[2] THEN [runs[i] EXCEPT !.st = "over"]
            ELSE runs[i]],
         [key |-> k, st |-> "queued"])

\* Mutant: the event id is not looked up before the run is inserted.
Commit_Again(out) ==
  /\ events' = [events EXCEPT ![Key] = [out |-> out, sha |-> Update.new]]
  /\ IF out = "queued"
     THEN IF MustDefer(Update.ref)
          THEN deferred' = Append(deferred, Key) /\ UNCHANGED runs
          ELSE runs' = Enqueued(Key) /\ UNCHANGED deferred
     ELSE UNCHANGED <<deferred, runs>>
  /\ rows' = IF out = "deleted" THEN rows \cup {Update.ref} ELSE rows
  /\ UNCHANGED <<others, cap>>

\* RecordReceiveEvent, EnqueueReceiveEvent: one transaction; an event that is
\* on record with the same contents changes nothing.
Commit(out) ==
  IF events[Key].out # "none" THEN UNCHANGED db
  ELSE /\ events' = [events EXCEPT ![Key] = [out |-> out, sha |-> Update.new]]
       /\ IF out = "queued"
          THEN IF MustDefer(Update.ref)
               THEN deferred' = Append(deferred, Key) /\ UNCHANGED runs
               ELSE runs' = Enqueued(Key) /\ UNCHANGED deferred
          ELSE UNCHANGED <<deferred, runs>>
       /\ rows' = IF out = "deleted" THEN rows \cup {Update.ref} ELSE rows
       /\ UNCHANGED <<others, cap>>

\* An event on record with other contents: receiveDuplicate refuses.
Conflict(out) == events[Key].out \notin {"none", out}

\* A branch that parks is pushed to the forge before its event is recorded.
Parked(out) ==
  upstream' = [upstream EXCEPT ![Update.ref] =
                 IF out = "parked" /\ events[Key].out = "none" THEN Update.new ELSE @]

\* HandleReceive: all but a branch's deletion ask the cache for the repository
\* first. AcceptEnqueue may fail after the commit (ok is FALSE).
HandleReceive(parks, ok) ==
  /\ Delivering
  /\ ok \/ Outcome(parks) = "queued"
  /\ IF Outcome(parks) = "deleted" THEN UNCHANGED git ELSE Ensure
  /\ IF Conflict(Outcome(parks)) THEN Fails /\ UNCHANGED <<db, upstream>> /\ NoFault
     ELSE /\ Commit(Outcome(parks))
          /\ Parked(Outcome(parks))
          /\ IF ok THEN Goto(IF At("own") THEN "owncheckpoint" ELSE "checkpoint") /\ NoFault
                   ELSE Fails /\ Fault("late")
  /\ UNCHANGED <<record, up, pushed, abandoned, moved>>

\* It fails before its event is recorded, a parked branch perhaps pushed already.
HandleFails(parks) ==
  /\ Delivering /\ Fault("handle") /\ Fails
  /\ IF parks THEN Outcome(TRUE) = "parked" /\ Parked("parked") ELSE UNCHANGED upstream
  /\ UNCHANGED <<git, record, up, pushed, db, abandoned, moved>>

\* Mutant: the record is kept one event too long.
Checkpoint_OffByOne ==
  /\ At("checkpoint") \/ At("owncheckpoint")
  /\ record' = IF record.next > Len(record.updates) THEN NoRecord
               ELSE [record EXCEPT !.next = @ + 1]
  /\ Goto(IF At("owncheckpoint") THEN "own" ELSE "replay")
  /\ UNCHANGED <<git, upstream, up, pushed, db, abandoned, moved>> /\ NoFault

\* Next is written, or the record removed after its last event.
Checkpoint ==
  /\ At("checkpoint") \/ At("owncheckpoint")
  /\ record' = IF record.next = Len(record.updates) THEN NoRecord
               ELSE [record EXCEPT !.next = @ + 1]
  /\ Goto(IF At("owncheckpoint") THEN "own" ELSE "replay")
  /\ UNCHANGED <<git, upstream, up, pushed, db, abandoned, moved>> /\ NoFault

CheckpointFails ==
  /\ At("checkpoint") \/ At("owncheckpoint")
  /\ Fault("checkpoint") /\ Fails
  /\ UNCHANGED <<git, upstream, record, up, pushed, db, abandoned, moved>>

-----------------------------------------------------------------------------
(* Operator, crash, startup *)

\* RetryReceiveRecord
OperatorRetries ==
  /\ up /\ lk = Free /\ record.state # "none"
  /\ lk' = [by |-> "operator", ph |-> "replay", push |-> 0]
  /\ UNCHANGED <<git, upstream, record, up, pushed, db, abandoned, moved>> /\ NoFault

\* AbandonReceiveRecord
OperatorAbandons ==
  /\ up /\ lk = Free /\ record.state # "none" /\ "operator" \in Faults
  /\ abandoned' = abandoned \cup {record.push} /\ record' = NoRecord
  /\ UNCHANGED <<git, upstream, lk, up, pushed, db, moved>> /\ NoFault

\* The operator marks the record while the server is down, so that startup goes
\* past it.
OperatorQuarantines ==
  /\ ~up /\ lk = Free /\ record.state \notin {"none", "quarantined"} /\ "operator" \in Faults
  /\ record' = [record EXCEPT !.state = "quarantined"]
  /\ UNCHANGED <<git, upstream, lk, up, pushed, db, abandoned, moved>> /\ NoFault

Crash ==
  /\ up \/ lk # Free
  /\ Fault("crash") /\ up' = FALSE /\ lk' = Free
  /\ UNCHANGED <<git, upstream, record, pushed, db, abandoned, moved>>

\* activateScheduler: ReplayPending, before anything is served.
Startup ==
  /\ ~up /\ lk = Free
  /\ lk' = [by |-> "startup", ph |-> "replay", push |-> 0]
  /\ UNCHANGED <<git, upstream, record, up, pushed, db, abandoned, moved>> /\ NoFault

-----------------------------------------------------------------------------
(* The queue *)

\* Mutant: the cap is checked before the slot is taken, and one is taken anyway.
Drain_OffByOne ==
  /\ up /\ deferred # <<>> /\ (cap = 0 \/ NotStarted <= cap)
  /\ runs' = Enqueued(Head(deferred)) /\ deferred' = Tail(deferred)
  /\ UNCHANGED <<git, upstream, record, lk, up, pushed, events, rows, others, cap, abandoned, moved>>
  /\ NoFault

\* Mutant: a cap that was switched off releases nothing.
Drain_CapOff ==
  /\ up /\ deferred # <<>> /\ NotStarted < cap
  /\ runs' = Enqueued(Head(deferred)) /\ deferred' = Tail(deferred)
  /\ UNCHANGED <<git, upstream, record, lk, up, pushed, events, rows, others, cap, abandoned, moved>>
  /\ NoFault

\* DrainDeferredBranch
Drain ==
  /\ up /\ deferred # <<>> /\ (cap = 0 \/ NotStarted < cap)
  /\ runs' = Enqueued(Head(deferred)) /\ deferred' = Tail(deferred)
  /\ UNCHANGED <<git, upstream, record, lk, up, pushed, events, rows, others, cap, abandoned, moved>>
  /\ NoFault

\* SetQueueCap
SetCap(n) ==
  /\ up /\ n # cap /\ Fault("operator") /\ cap' = n
  /\ UNCHANGED <<git, upstream, record, lk, up, pushed, events, deferred, rows, runs, others, abandoned,
                 moved>>

RunStarts(i) ==
  /\ up /\ runs[i].st = "queued"
  /\ runs' = [runs EXCEPT ![i].st = "started"]
  /\ UNCHANGED <<git, upstream, record, lk, up, pushed, events, deferred, rows, others, cap, abandoned,
                 moved>> /\ NoFault

OtherStarts ==
  /\ up /\ others > 0 /\ others' = others - 1
  /\ UNCHANGED <<git, upstream, record, lk, up, pushed, events, deferred, rows, runs, cap, abandoned,
                 moved>> /\ NoFault

\* A green run publishes its ref: a branch the mirror still has, a tag the forge
\* does not have.
RunEnds(i, green) ==
  /\ up /\ runs[i].st = "started"
  /\ runs' = [runs EXCEPT ![i].st = "over"]
  /\ LET f == runs[i].key[2]
         sha == events[runs[i].key].sha
     IN upstream' = IF green /\ (IF f \in Branches THEN mirror[f] # 0 ELSE upstream[f] = 0)
                    THEN [upstream EXCEPT ![f] = sha] ELSE upstream
  /\ UNCHANGED <<git, record, lk, up, pushed, events, deferred, rows, others, cap, abandoned, moved>>
  /\ NoFault

-----------------------------------------------------------------------------
(* Specification *)

\* The holder of the receive lock, when nothing fails.
Receive ==
  \/ EnsureReceive \/ Reserve \/ FinalizeOwn \/ ReplayEnds \/ ReplayQuarantined \/ ReplayFinalizes \/ Checkpoint
  \/ (\E sent \in SUBSET Refs, gone \in SUBSET Branches : Pack(sent, gone))
  \/ \E parks \in BOOLEAN : HandleReceive(parks, TRUE)

ReceiveFails ==
  \/ GateRefuses \/ FinalizeFails \/ ReplayRefused \/ CheckpointFails
  \/ \E parks \in BOOLEAN : HandleReceive(parks, FALSE) \/ HandleFails(parks)

Running ==
  \/ OtherStarts
  \/ \E i \in 1..Len(runs) : RunStarts(i) \/ \E green \in BOOLEAN : RunEnds(i, green)

Upstream == \E b \in Branches : UpstreamMoves(b) \/ DeletionPropagates(b) \/ DeletionAbandoned(b)

Operator == OperatorRetries \/ OperatorAbandons \/ OperatorQuarantines \/ \E n \in Caps : SetCap(n)

Next ==
  \/ Begin \/ Receive \/ ReceiveFails \/ Refresh \/ Upstream \/ Operator \/ Crash \/ Startup
  \/ Drain \/ Running

Spec == Init /\ [][Next]_vars

\* A gate that is shut (the audit chain does not verify) is repaired in the end.
Fairness ==
  /\ WF_vars(Receive) /\ WF_vars(Startup) /\ WF_vars(Drain) /\ WF_vars(Running)
  /\ SF_vars(ReplayFinalizes)

FairSpec == Spec /\ Fairness

-----------------------------------------------------------------------------
(* Properties *)

\* The record still carries what push m.push did to m.ref.
InRecord(m) ==
  /\ record.push = m.push
  /\ \/ /\ record.state # "none" /\ record.updates = <<>>
        /\ mirror[m.ref] = m.new /\ record.before[m.ref] # m.new
     \/ \E i \in record.next..Len(record.updates) :
           record.updates[i].ref = m.ref /\ record.updates[i].new = m.new

\* AbandonBranchDeletions moved the ref, perhaps under a receive.
Restored(f) == \E m \in moved : m.push = 0 /\ m.ref = f

\* No accepted push is forgotten: what receive-pack did to a ref, which the
\* client has been told, is a receive event or is still in the outbox, whatever
\* fails and wherever the server stops, until an operator moves it aside.
NoPushForgotten ==
  \A m \in moved : m.push # 0 =>
     \/ events[<<m.push, m.ref>>].out # "none" /\ events[<<m.push, m.ref>>].sha = m.new
     \/ InRecord(m) \/ m.push \in abandoned \/ Restored(m.ref)

\* Nobody is credited with what they did not push: every event is a change its
\* push made. A refresh that moved refs under an unfinished receive would be
\* credited to the pusher; so is the branch AbandonBranchDeletions puts back.
PushesAttributed ==
  \A k \in Keys : events[k].out # "none" =>
     [push |-> k[1], ref |-> k[2], new |-> events[k].sha] \in moved \/ Restored(k[2])

HasRun(k) == \E i \in 1..Len(runs) : runs[i].key = k

\* Replays and drains together make exactly one run of every queued event.
OneRunPerPush ==
  \A k \in Keys :
     Cardinality({i \in 1..Len(runs) : runs[i].key = k})
       + Cardinality({i \in 1..Len(deferred) : deferred[i] = k})
     = IF events[k].out = "queued" THEN 1 ELSE 0

\* The runs of a branch are queued in the order of its pushes, deferred or not:
\* an older push never supersedes a newer one.
RunsInPushOrder ==
  \A i, j \in 1..Len(runs) :
     i < j /\ runs[i].key[2] = runs[j].key[2] => runs[i].key[1] < runs[j].key[1]

\* The cap is never exceeded by a branch push, drained or new, and a drain never
\* races an arrival past it.
CapRespected ==
  [][NotStarted' > NotStarted /\ cap # 0 /\ runs'[Len(runs')].key[2] \in Branches
       => NotStarted' <= cap]_vars

\* A recorded event that its replay decides differently keeps the server from
\* starting until an operator moves the record aside (see ReplayIsIdempotent).
Wedged ==
  /\ record.state = "ready"
  /\ \E i \in record.next..Len(record.updates) :
        LET u == record.updates[i]
        IN u.ref \in Tags /\ events[<<record.push, u.ref>>].out \notin {"none", TagOutcome(u)}

\* A branch push that was queued gets its run: the backlog is drained, whatever
\* the cap is set to and wherever the server stops. (A tag is never deferred.)
QueuedBecomesRun ==
  \A k \in Pushes \X Branches : (events[k].out = "queued") ~> (HasRun(k) \/ (~up /\ Wedged))

\* After a crash the outbox is delivered and the server serves again, however
\* far the interrupted receive was.
OutboxDrains == (~up /\ ~Wedged) ~> (up /\ record.state \in {"none", "quarantined"})

\* What docs/architecture.md says: "Committed branch and tag events are replayed
\* idempotently". A replay decides of a recorded event what is on record.
ReplayIsIdempotent ==
  Delivering /\ events[Key].out # "none" => \A parks \in BOOLEAN : ~Conflict(Outcome(parks))
=============================================================================
