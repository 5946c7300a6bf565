---------------------------- MODULE Intake_proofs ----------------------------
(***************************************************************************)
(* Proofs about how a push becomes a run, for any number of refs, pushes,  *)
(* caps and faults: no accepted push is forgotten or credited to somebody  *)
(* else, every queued event gets exactly one run, the runs of a ref are    *)
(* queued in push order, and the cap holds.                                *)
(***************************************************************************)
EXTENDS Intake, SequenceTheorems, FiniteSetTheorems, TLAPS

-----------------------------------------------------------------------------
(* The inductive invariant *)

\* Phases in which a push has moved no ref yet.
Early == {"replay", "checkpoint", "ensure", "reserve", "pack"}

\* The last push that may have moved a ref, and the values a ref can have.
Known == IF lk.by = "push" /\ lk.ph \in Early THEN pushed - 1 ELSE pushed
Values == 0..Known \cup {Outside}

\* Nothing anywhere is of a push to come.
BoundedRefs == \A f \in Refs : mirror[f] \in Values /\ tracking[f] \in Values /\ upstream[f] \in Values
BoundedRecord ==
  /\ \A f \in Refs : record.before[f] \in Values
  /\ \A i \in 1..Len(record.updates) : record.updates[i].new \in Values
  /\ record.push <= Known \/ lk.ph = "pack"
BoundedHistory ==
  /\ \A m \in moved : m.push <= Known
  /\ \A k \in Keys : events[k].out # "none" => k[1] <= Known /\ events[k].sha \in Values
Bounded == BoundedRefs /\ BoundedRecord /\ BoundedHistory

\* What the holder of the receive lock knows of the record.
LockInv ==
  /\ lk.ph \in {"ensure", "reserve", "pack", "moved", "own", "owncheckpoint"} => lk.by = "push"
  /\ lk.by = "push" => lk.push = pushed /\ pushed > 0
  /\ lk.by = "none" => lk.ph = "none"
  /\ lk.ph \in {"ensure", "reserve"} => record.state = "none"
  /\ lk.ph \in {"pack", "moved"} => record.state = "reserved" /\ record.push = lk.push
  /\ lk.ph \in {"checkpoint", "owncheckpoint"} => record.state = "ready" /\ events[Key].out # "none"

Change(f, new) == [push |-> record.push, ref |-> f, new |-> new]

\* Until it is finalized, the record's snapshot tells what its push did: the refs
\* have not moved since, except where a deletion was abandoned.
Interrupted ==
  record.state # "none" /\ record.updates = <<>> =>
    /\ \A f \in Refs : mirror[f] = record.before[f] \/ Change(f, mirror[f]) \in moved \/ Restored(f)
    /\ \A m \in moved : m.push = record.push =>
          (mirror[m.ref] = m.new /\ record.before[m.ref] # m.new) \/ Restored(m.ref)
    /\ \A k \in Keys : events[k].out # "none" => k[1] # record.push

\* From then on its updates do, and an event of it on record says the same.
Shape ==
  /\ record.state \in {"none", "reserved", "gate-failed"} => record.updates = <<>>
  /\ record.state = "ready" => record.updates # <<>>
  /\ record.updates # <<>> => record.next <= Len(record.updates)
  /\ record.state # "none" => record.push > 0

Finalized ==
  LET ups == record.updates
  IN /\ \A i \in 1..Len(ups) :
          /\ Change(ups[i].ref, ups[i].new) \in moved \/ Restored(ups[i].ref)
          /\ events[<<record.push, ups[i].ref>>].out # "none" =>
                events[<<record.push, ups[i].ref>>].sha = ups[i].new
     /\ \A i, j \in 1..Len(ups) : ups[i].ref = ups[j].ref => ups[i].new = ups[j].new

\* Records are worked off one after the other.
Latest == record.state # "none" => \A k \in Keys : events[k].out # "none" => k[1] <= record.push

\* The queue and the backlog behind it.
InOrder(a, b) == a[2] = b[2] => a[1] < b[1]
InBacklog(k) == \E i \in 1..Len(deferred) : deferred[i] = k

Queue ==
  /\ \A i, j \in 1..Len(runs) : i < j => InOrder(runs[i].key, runs[j].key)
  /\ \A i, j \in 1..Len(deferred) : i < j => InOrder(deferred[i], deferred[j])
  /\ \A i \in 1..Len(runs), j \in 1..Len(deferred) : InOrder(runs[i].key, deferred[j])
  /\ \A i \in 1..Len(deferred) : deferred[i][2] \in Branches
  /\ \A k \in Keys : events[k].out = "queued" <=> HasRun(k) \/ InBacklog(k)

RecordInv == Interrupted /\ Shape /\ Finalized /\ Latest /\ NoPushForgotten /\ PushesAttributed

IntakeInv == TypeOK /\ Bounded /\ LockInv /\ RecordInv /\ Queue

-----------------------------------------------------------------------------
(* Operators *)

Run == [key: Keys, st: {"queued", "started", "over"}]
RefUpdate == [ref: Refs, old: SHAs, new: SHAs]

\* Sorted lists every member of a finite set.
LEMMA SortedLists ==
  ASSUME NEW S, \A x \in S : x \in Nat, IsFiniteSet(S)
  PROVE  /\ Cardinality(S) \in Nat /\ Sorted(S) \in [1..Cardinality(S) -> S]
         /\ \A x \in S : \E i \in 1..Cardinality(S) : Sorted(S)[i] = x
<1> DEFINE n == Cardinality(S)
           upto(x) == {y \in S : y <= x}
           c == [x \in S |-> Cardinality(upto(x))]
<1>0. \A x \in S : x \in Nat
  OBVIOUS
<1>00. \A i \in 1..n : i \in Nat
  OBVIOUS
<1>1. n \in Nat /\ IsFiniteSet(1..n) /\ Cardinality(1..n) = n
  BY FS_CardinalityType, FS_Interval
<1>2. ASSUME NEW x \in S
      PROVE  IsFiniteSet(upto(x)) /\ c[x] \in 1..n
  <2>1. IsFiniteSet(upto(x)) /\ Cardinality(upto(x)) <= n
    BY FS_Subset
  <2>2. Cardinality(upto(x)) \in Nat /\ upto(x) # {}
    BY <2>1, FS_CardinalityType
  <2>3. Cardinality(upto(x)) # 0
    BY <2>1, <2>2, FS_EmptySet
  <2> QED
    BY <2>1, <2>2, <2>3, <1>1
<1>3. ASSUME NEW x \in S, NEW y \in S, x < y
      PROVE  c[x] < c[y]
  <2>0. x \in Nat /\ y \in Nat /\ x < y /\ \A z \in S : z \in Nat /\ (z <= x => z <= y)
    <3>1. x \in Nat /\ y \in Nat
      BY <1>0
    <3>2. ASSUME NEW z \in S
          PROVE  z \in Nat /\ (z <= x => z <= y)
      <4>1. z \in Nat
        BY <1>0
      <4> QED
        BY <4>1, <3>1, <1>3
    <3> QED
      BY <3>1, <3>2, <1>3
  <2>00. y <= y /\ ~(y <= x)
    BY <2>0
  <2>1. upto(x) \in SUBSET upto(y) /\ y \in upto(y) /\ y \notin upto(x)
    BY <2>0, <2>00, Zenon
  <2>2. Cardinality(upto(x)) <= Cardinality(upto(y)) /\ Cardinality(upto(x)) # Cardinality(upto(y))
    BY <2>1, <1>2, FS_Subset
  <2> QED
    BY <2>2, <1>2
<1>4. c \in Injection(S, 1..n)
  <2>1. c \in [S -> 1..n]
    BY <1>2
  <2>2. ASSUME NEW x \in S, NEW y \in S, c[x] = c[y]
        PROVE  x = y
    <3>1. ~(x < y) /\ ~(y < x)
      BY <2>2, <1>2, <1>3
    <3> QED
      BY <3>1, <1>0
  <2> HIDE DEF c, n
  <2> QED
    BY <2>1, <2>2 DEF Injection, IsInjective
<1>5. c \in Surjection(S, 1..n)
  <2> HIDE DEF c
  <2> QED
    BY <1>1, <1>4, FS_Injection
<1>6. \A i \in 1..n : \E x \in S : c[x] = i
  <2> HIDE DEF c, n
  <2> QED
    BY <1>5 DEF Surjection
<1> DEFINE s == [i \in 1..n |-> CHOOSE x \in S : c[x] = i]
           Ordered(t) == \A i, j \in 1..n : i < j => t[i] < t[j]
<1>7. s \in [1..n -> S] /\ \A i \in 1..n : c[s[i]] = i
  <2> HIDE DEF c, n
  <2> QED
    BY <1>6
<1>8. Ordered(s)
  <2> SUFFICES ASSUME NEW i \in 1..n, NEW j \in 1..n, i < j
               PROVE  s[i] < s[j]
    OBVIOUS
  <2>1. s[i] \in S /\ s[j] \in S /\ c[s[i]] = i /\ c[s[j]] = j
    BY <1>7
  <2> HIDE DEF s, c, n
  <2>2. i \in Nat /\ j \in Nat /\ s[i] \in Nat /\ s[j] \in Nat
    BY <2>1, <1>0, <1>00
  <2>3. s[i] # s[j]
    BY <2>1, <2>2
  <2>4. ~(s[j] < s[i])
    BY <2>1, <2>2, <1>3
  <2> QED
    BY <2>2, <2>3, <2>4
<1>9. Sorted(S) \in [1..n -> S] /\ Ordered(Sorted(S))
  <2>1. \E t \in [1..n -> S] : Ordered(t)
    BY <1>7, <1>8
  <2> QED
    BY <2>1 DEF Sorted
<1>10. Sorted(S) \in Injection(1..n, S)
  <2> DEFINE t == Sorted(S)
  <2> HIDE DEF t
  <2>1. t \in [1..n -> S] /\ Ordered(t)
    BY <1>9 DEF t
  <2>2. ASSUME NEW i \in 1..n, NEW j \in 1..n, t[i] = t[j]
        PROVE  i = j
    <3>0. i \in Nat /\ j \in Nat /\ t[i] \in Nat /\ t[j] = t[i]
      BY <2>1, <2>2, <1>0, <1>00
    <3>1. ~(i < j) /\ ~(j < i)
      BY <2>1, <3>0
    <3> QED
      BY <3>0, <3>1
  <2>3. t \in Injection(1..n, S)
    BY <2>1, <2>2 DEF Injection, IsInjective
  <2> QED
    BY <2>3 DEF t
<1>11. Sorted(S) \in Surjection(1..n, S)
  BY <1>1, <1>10, FS_Injection
<1> QED
  BY <1>1, <1>9, <1>11 DEF Surjection

\* DiffRefs reports every ref that changed, with its new value, and nothing else.
LEMMA UpdatesReport ==
  ASSUME NEW before \in [Refs -> SHAs], NEW after \in [Refs -> SHAs], NEW ups, ups = Updates(before, after)
  PROVE  /\ ups \in Seq(RefUpdate)
         /\ \A i \in 1..Len(ups) : /\ ups[i].ref \in Refs /\ ups[i].new = after[ups[i].ref]
                                   /\ before[ups[i].ref] # after[ups[i].ref]
         /\ \A f \in Refs : before[f] # after[f] => \E i \in 1..Len(ups) : ups[i].ref = f
<1> DEFINE changed == {i \in 1..Len(RefOrder) : before[RefOrder[i]] # after[RefOrder[i]]}
           n == Cardinality(changed)
           refs == [i \in 1..n |-> RefOrder[Sorted(changed)[i]]]
<1>0. Len(RefOrder) \in Nat /\ \A i \in 1..Len(RefOrder) : RefOrder[i] \in Refs
  BY RefsAssumption, LenProperties, ElementOfSeq DEF Refs
<1>1. (\A x \in changed : x \in Nat) /\ IsFiniteSet(changed)
  <2>1. IsFiniteSet(1..Len(RefOrder)) /\ changed \in SUBSET (1..Len(RefOrder))
    BY <1>0, FS_Interval
  <2> QED
    BY <2>1, FS_Subset, <1>0
<1>2. /\ n \in Nat /\ Sorted(changed) \in [1..n -> changed]
      /\ \A x \in changed : \E i \in 1..n : Sorted(changed)[i] = x
  BY <1>1, SortedLists
<1>3. ups = [i \in 1..n |-> [ref |-> refs[i], old |-> before[refs[i]], new |-> after[refs[i]]]]
  BY DEF Updates
<1>4. \A i \in 1..n : refs[i] \in Refs /\ before[refs[i]] # after[refs[i]]
  BY <1>0, <1>2
<1>5. \A f \in Refs : before[f] # after[f] => \E i \in 1..n : refs[i] = f
  <2> SUFFICES ASSUME NEW f \in Refs, before[f] # after[f]
               PROVE  \E i \in 1..n : refs[i] = f
    OBVIOUS
  <2>1. PICK x \in 1..Len(RefOrder) : RefOrder[x] = f
    BY RefsAssumption DEF Refs
  <2>2. PICK i \in 1..n : Sorted(changed)[i] = x
    BY <2>1, <1>2
  <2> QED
    BY <2>1, <2>2
<1> HIDE DEF refs, n, changed
<1>6. \A i \in 1..n : ups[i] \in RefUpdate
  BY <1>3, <1>4 DEF RefUpdate
<1>7. ups \in Seq(RefUpdate) /\ Len(ups) = n
  <2>1. ups \in [1..n -> RefUpdate]
    BY <1>3, <1>6
  <2> QED
    BY <2>1, <1>2
<1>8. \A i \in 1..n : ups[i].ref = refs[i] /\ ups[i].new = after[refs[i]]
  BY <1>3
<1> QED
  BY <1>4, <1>5, <1>7, <1>8

\* A public ref keeps its value, takes the forge's, or goes.
LEMMA FetchTakes ==
  ASSUME TypeOK, Fetched
  PROVE  /\ mirror' \in [Refs -> SHAs] /\ tracking' \in [Refs -> SHAs] /\ owned' \in [Refs -> SHAs]
         /\ deleting' = deleting /\ tracking' = upstream
         /\ \A f \in Refs : mirror'[f] \in {0, mirror[f], upstream[f]}
<1>0. /\ 0 \in SHAs /\ mirror \in [Refs -> SHAs] /\ upstream \in [Refs -> SHAs]
  BY BoundsAssumption DEF TypeOK, SHAs, Outside
<1>1. ASSUME NEW f \in Refs
      PROVE  Materialized(f) \in {0, mirror[f], upstream[f]}
  BY <1>0 DEF Materialized
<1>2. \A f \in Refs : mirror[f] \in SHAs /\ upstream[f] \in SHAs /\ Materialized(f) \in SHAs
  BY <1>0, <1>1
<1> QED
  BY <1>0, <1>1, <1>2 DEF Fetched

\* Ensure is such a fetch, and not under an unfinished receive; or nothing.
LEMMA EnsureTakes ==
  ASSUME TypeOK, Ensure
  PROVE  /\ mirror' \in [Refs -> SHAs] /\ tracking' \in [Refs -> SHAs] /\ owned' \in [Refs -> SHAs]
         /\ deleting' = deleting
         /\ \A f \in Refs : mirror'[f] \in {0, mirror[f], upstream[f]} /\ tracking'[f] \in {tracking[f], upstream[f]}
         /\ record.state \in {"none", "ready"} \/ mirror' = mirror
<1>1. CASE UNCHANGED git
  BY <1>1 DEF git, TypeOK
<1>2. CASE RefreshAllowed /\ Fetched
  BY <1>2, FetchTakes DEF RefreshAllowed
<1> QED
  BY <1>1, <1>2 DEF Ensure

\* The record is gone because nothing changed, or ready with all that changed.
LEMMA FinalizeMakes ==
  ASSUME TypeOK, Finalize(record)
  PROVE  /\ UNCHANGED <<mirror, tracking, owned>> /\ deleting' \subseteq Branches
         /\ \/ record' = NoRecord /\ \A f \in Refs : record.before[f] = mirror[f]
            \/ /\ record'.state = "ready" /\ record'.push = record.push /\ record'.before = record.before
               /\ record'.next = 1 /\ record'.updates \in Seq(RefUpdate) /\ record'.updates # <<>>
               /\ record' \in [state: {"ready"}, push: 0..MaxPushes, before: [Refs -> SHAs],
                               updates: Seq(RefUpdate), next: Nat \ {0}]
               /\ \A i \in 1..Len(record'.updates) :
                     LET u == record'.updates[i]
                     IN u.ref \in Refs /\ u.new = mirror[u.ref] /\ record.before[u.ref] # mirror[u.ref]
               /\ \A f \in Refs : record.before[f] # mirror[f] =>
                     \E i \in 1..Len(record'.updates) : record'.updates[i].ref = f
<1> DEFINE ups == Updates(record.before, mirror)
<1>1. record.before \in [Refs -> SHAs] /\ mirror \in [Refs -> SHAs]
  BY DEF TypeOK
<1>2. /\ ups \in Seq(RefUpdate)
      /\ \A i \in 1..Len(ups) : /\ ups[i].ref \in Refs /\ ups[i].new = mirror[ups[i].ref]
                                /\ record.before[ups[i].ref] # mirror[ups[i].ref]
      /\ \A f \in Refs : record.before[f] # mirror[f] => \E i \in 1..Len(ups) : ups[i].ref = f
  BY <1>1, UpdatesReport
<1>3. /\ record' = IF ups = <<>> THEN NoRecord ELSE [record EXCEPT !.state = "ready", !.updates = ups, !.next = 1]
      /\ UNCHANGED <<mirror, tracking, owned>> /\ deleting' \subseteq Branches
  BY DEF Finalize
<1> HIDE DEF ups
<1>4. CASE ups = <<>>
  BY <1>2, <1>3, <1>4
<1>5. CASE ups # <<>>
  <2>1. record' = [record EXCEPT !.state = "ready", !.updates = ups, !.next = 1]
    BY <1>3, <1>5
  <2>2. record' = [state |-> "ready", push |-> record.push, before |-> record.before, updates |-> ups, next |-> 1]
    BY <2>1 DEF TypeOK
  <2>3. record.push \in 0..MaxPushes /\ record.before \in [Refs -> SHAs]
    BY DEF TypeOK
  <2>4. /\ record'.state = "ready" /\ record'.push = record.push /\ record'.before = record.before
        /\ record'.next = 1 /\ record'.updates = ups
    BY <2>2
  <2>5. record' \in [state: {"ready"}, push: 0..MaxPushes, before: [Refs -> SHAs],
                     updates: Seq(RefUpdate), next: Nat \ {0}]
    BY <1>2, <2>2, <2>3
  <2> QED
    BY <1>2, <1>3, <1>5, <2>4, <2>5
<1> QED
  BY <1>4, <1>5

\* A new run joins the tail, and may supersede those before it.
LEMMA EnqueuedJoins ==
  ASSUME TypeOK, NEW k \in Keys, NEW e, e = Enqueued(k)
  PROVE  /\ e \in Seq(Run) /\ Len(e) = Len(runs) + 1 /\ e[Len(runs) + 1] = [key |-> k, st |-> "queued"]
         /\ Len(runs) \in Nat
         /\ \A i \in 1..Len(runs) : e[i].key = runs[i].key /\ e[i].st \in {runs[i].st, "over"}
<1> DEFINE n == Len(runs)
           old == [i \in 1..n |->
                     IF k[2] \in Branches /\ runs[i].key[2] = k[2] THEN [runs[i] EXCEPT !.st = "over"]
                     ELSE runs[i]]
           new == [key |-> k, st |-> "queued"]
<1>1. n \in Nat /\ \A i \in 1..n : runs[i] \in Run
  BY LenProperties, ElementOfSeq DEF TypeOK, Run
<1>2. new \in Run /\ \A i \in 1..n : old[i] \in Run /\ old[i].key = runs[i].key /\ old[i].st \in {runs[i].st, "over"}
  BY <1>1 DEF Run
<1>3. old \in Seq(Run) /\ Len(old) = n
  <2>1. old \in [1..n -> Run]
    BY <1>2
  <2> HIDE DEF old, n
  <2> QED
    BY <2>1, <1>1
<1>4. e = Append(old, new)
  BY DEF Enqueued
<1> HIDE DEF old, new, n
<1>5. /\ e \in Seq(Run) /\ Len(e) = n + 1 /\ e[n + 1] = new /\ \A i \in 1..n : e[i] = old[i]
  BY <1>2, <1>3, <1>4, AppendProperties
<1> QED
  BY <1>1, <1>2, <1>5 DEF n, new

\* The update that is delivered, and its event id.
LEMMA Delivered ==
  ASSUME TypeOK, Shape, record.state = "ready"
  PROVE  /\ record.next \in 1..Len(record.updates) /\ Len(record.updates) \in Nat
         /\ Update \in RefUpdate /\ Key \in Keys /\ Key = <<record.push, Update.ref>>
<1>1. /\ record.updates \in Seq(RefUpdate) /\ record.next \in Nat \ {0} /\ record.push \in 0..MaxPushes
      /\ record.push > 0
  BY DEF TypeOK, RefUpdate, Shape
<1>2. Len(record.updates) \in Nat /\ record.next <= Len(record.updates)
  BY <1>1, LenProperties DEF Shape
<1>3. record.next \in 1..Len(record.updates)
  BY <1>1, <1>2
<1>4. Update \in RefUpdate
  BY <1>1, <1>3, ElementOfSeq DEF Update
<1>5. record.push \in Pushes
  BY <1>1, BoundsAssumption DEF Pushes
<1>6. Update.ref \in Refs
  BY <1>4 DEF RefUpdate
<1> QED
  BY <1>2, <1>3, <1>4, <1>5, <1>6 DEF Key, Keys

LEMMA OutcomeType ==
  ASSUME TypeOK, Key \in Keys, Update \in RefUpdate, NEW parks \in BOOLEAN
  PROVE  /\ Outcome(parks) \in Outcomes \ {"none"}
         /\ Outcome(parks) = "deleted" => Update.ref \in Branches
<1>1. Update.ref \in Refs /\ events[Key].out \in Outcomes
  BY DEF RefUpdate, TypeOK
<1>2. TagOutcome(Update) \in {"release_rejected", "release_delivered", "queued"}
  BY DEF TagOutcome
<1>3. BranchOutcome(Update, parks) \in Outcomes \ {"none"}
  BY <1>1 DEF BranchOutcome, Outcomes
<1> QED
  BY <1>1, <1>2, <1>3 DEF Outcome, Outcomes, Refs

\* What a commit may do: nothing, or one event with its run, its place in the
\* backlog, or neither.
LEMMA CommitDoes ==
  ASSUME TypeOK, Key \in Keys, Update \in RefUpdate, NEW out \in Outcomes \ {"none"}, Commit(out),
         out = "deleted" => Update.ref \in Branches
  PROVE  \/ events[Key].out # "none" /\ UNCHANGED db
         \/ /\ events[Key].out = "none" /\ events' = [events EXCEPT ![Key] = [out |-> out, sha |-> Update.new]]
            /\ events' \in [Keys -> [out: Outcomes, sha: SHAs]]
            /\ UNCHANGED <<others, cap>> /\ rows' \subseteq Branches
            /\ \/ out # "queued" /\ UNCHANGED <<deferred, runs>>
               \/ /\ out = "queued" /\ MustDefer(Update.ref) /\ deferred' = Append(deferred, Key) /\ runs' = runs
                  /\ deferred' \in Seq(Keys) /\ Len(deferred') = Len(deferred) + 1 /\ Len(deferred) \in Nat
                  /\ deferred'[Len(deferred) + 1] = Key
                  /\ \A i \in 1..Len(deferred) : deferred'[i] = deferred[i]
               \/ out = "queued" /\ ~MustDefer(Update.ref) /\ runs' = Enqueued(Key) /\ deferred' = deferred
<1>1. CASE events[Key].out # "none"
  BY <1>1 DEF Commit
<1>2. CASE events[Key].out = "none"
  <2>1. /\ events' = [events EXCEPT ![Key] = [out |-> out, sha |-> Update.new]]
        /\ IF out = "queued"
           THEN IF MustDefer(Update.ref)
                THEN deferred' = Append(deferred, Key) /\ UNCHANGED runs
                ELSE runs' = Enqueued(Key) /\ UNCHANGED deferred
           ELSE UNCHANGED <<deferred, runs>>
        /\ rows' = IF out = "deleted" THEN rows \cup {Update.ref} ELSE rows
        /\ UNCHANGED <<others, cap>>
    BY <1>2 DEF Commit
  <2>2. events' \in [Keys -> [out: Outcomes, sha: SHAs]]
    <3>1. Update.new \in SHAs /\ events \in [Keys -> [out: Outcomes, sha: SHAs]]
      BY DEF RefUpdate, TypeOK
    <3>2. [out |-> out, sha |-> Update.new] \in [out: Outcomes, sha: SHAs]
      BY <3>1
    <3> QED
      BY <2>1, <3>1, <3>2
  <2>3. rows' \subseteq Branches
    BY <2>1 DEF TypeOK
  <2>4. deferred \in Seq(Keys) /\ Len(deferred) \in Nat
    BY LenProperties DEF TypeOK
  <2>5. ASSUME deferred' = Append(deferred, Key)
        PROVE  /\ deferred' \in Seq(Keys) /\ Len(deferred') = Len(deferred) + 1
               /\ deferred'[Len(deferred) + 1] = Key
               /\ \A i \in 1..Len(deferred) : deferred'[i] = deferred[i]
    BY <2>4, <2>5, AppendProperties
  <2> QED
    BY <1>2, <2>1, <2>2, <2>3, <2>4, <2>5
<1> QED
  BY <1>1, <1>2

-----------------------------------------------------------------------------
(* Types *)

GitType == /\ mirror \in [Refs -> SHAs] /\ tracking \in [Refs -> SHAs] /\ owned \in [Refs -> SHAs]
           /\ upstream \in [Refs -> SHAs] /\ deleting \subseteq Branches
RecordType == record \in [state: {"none", "reserved", "gate-failed", "ready", "quarantined"},
                          push: 0..MaxPushes, before: [Refs -> SHAs], updates: Seq(RefUpdate), next: Nat \ {0}]
LockType == /\ lk \in [by: {"none", "push", "operator", "startup"},
                       ph: {"none", "replay", "checkpoint", "ensure", "reserve", "pack", "moved", "own",
                            "owncheckpoint"},
                       push: 0..MaxPushes]
            /\ up \in BOOLEAN /\ pushed \in 0..MaxPushes
RowType == /\ cap \in Caps /\ others \in Nat /\ events \in [Keys -> [out: Outcomes, sha: SHAs]]
           /\ deferred \in Seq(Keys) /\ rows \subseteq Branches /\ runs \in Seq(Run)
HistoryType == /\ abandoned \subseteq Pushes /\ moved \subseteq [push: 0..MaxPushes, ref: Refs, new: SHAs]
               /\ faults \in Nat

LEMMA TypeSplits == TypeOK <=> GitType /\ RecordType /\ LockType /\ RowType /\ HistoryType
BY DEF TypeOK, GitType, RecordType, LockType, RowType, HistoryType, Run, RefUpdate

LEMMA Constants ==
  /\ MaxPushes \in Nat /\ 0 \in SHAs /\ Outside \in SHAs /\ Branches \subseteq Refs
  /\ \A p \in 0..MaxPushes : p \in SHAs
BY BoundsAssumption DEF SHAs, Outside, Refs

LEMMA ParkedType ==
  ASSUME GitType, Update \in RefUpdate, NEW out, Parked(out)
  PROVE  upstream' \in [Refs -> SHAs]
BY DEF GitType, Parked, RefUpdate

LEMMA RunKey ==
  ASSUME TypeOK, NEW i \in 1..Len(runs)
  PROVE  /\ runs[i] \in Run /\ runs[i].key \in Keys /\ runs[i].key[1] \in Pushes /\ runs[i].key[2] \in Refs
         /\ events[runs[i].key].sha \in SHAs
<1>1. runs[i] \in Run
  BY ElementOfSeq DEF TypeOK, Run
<1>2. runs[i].key \in Keys
  BY <1>1 DEF Run
<1> QED
  BY <1>1, <1>2 DEF Keys, TypeOK

LEMMA GitTypeNext ==
  ASSUME TypeOK, Shape, Next
  PROVE  GitType'
<1>0. GitType
  BY TypeSplits
<1>1. ASSUME UNCHANGED <<git, upstream>>
      PROVE  GitType'
  BY <1>0, <1>1 DEF GitType, git
<1>2. ASSUME Refresh
      PROVE  GitType'
  BY <1>0, <1>2, FetchTakes DEF GitType, Refresh
<1>3. ASSUME EnsureReceive
      PROVE  GitType'
  BY <1>0, <1>3, EnsureTakes DEF GitType, EnsureReceive
<1>4. ASSUME FinalizeOwn \/ ReplayFinalizes
      PROVE  GitType'
  BY <1>0, <1>4, FinalizeMakes DEF GitType, FinalizeOwn, ReplayFinalizes
<1>5. ASSUME NEW sent \in SUBSET Refs, NEW gone \in SUBSET Branches, Pack(sent, gone)
      PROVE  GitType'
  <2>1. lk.push \in SHAs /\ 0 \in SHAs
    BY Constants DEF TypeOK
  <2>2. \A f \in Refs : mirror[f] \in SHAs
    BY <1>0 DEF GitType
  <2>3. mirror' \in [Refs -> SHAs]
    BY <1>5, <2>1, <2>2 DEF Pack
  <2> QED
    BY <1>0, <1>5, <2>3 DEF GitType, Pack
<1>6. ASSUME NEW b \in Branches, UpstreamMoves(b) \/ DeletionPropagates(b) \/ DeletionAbandoned(b)
      PROVE  GitType'
  <2>1. b \in Refs /\ tracking[b] \in SHAs /\ 0 \in SHAs /\ Outside \in SHAs
    BY <1>0, Constants DEF GitType
  <2>2. CASE UpstreamMoves(b)
    BY <1>0, <2>1, <2>2 DEF GitType, UpstreamMoves, git
  <2>3. CASE DeletionPropagates(b)
    BY <1>0, <2>1, <2>3 DEF GitType, DeletionPropagates
  <2>4. CASE DeletionAbandoned(b)
    BY <1>0, <2>1, <2>4 DEF GitType, DeletionAbandoned
  <2> QED
    BY <1>6, <2>2, <2>3, <2>4
<1>7. ASSUME NEW parks \in BOOLEAN, NEW ok \in BOOLEAN, HandleReceive(parks, ok)
      PROVE  GitType'
  <2>1. Update \in RefUpdate
    BY <1>7, Delivered DEF HandleReceive, Delivering
  <2>2. upstream' \in [Refs -> SHAs]
    BY <1>0, <1>7, <2>1, ParkedType DEF HandleReceive, GitType
  <2>3. UNCHANGED git \/ Ensure
    BY <1>7 DEF HandleReceive
  <2> QED
    BY <1>0, <2>2, <2>3, EnsureTakes DEF GitType, git
<1>8. ASSUME NEW parks \in BOOLEAN, HandleFails(parks)
      PROVE  GitType'
  <2>1. Update \in RefUpdate
    BY <1>8, Delivered DEF HandleFails, Delivering
  <2>2. upstream' \in [Refs -> SHAs]
    BY <1>0, <1>8, <2>1, ParkedType DEF HandleFails, GitType
  <2> QED
    BY <1>0, <1>8, <2>2 DEF GitType, HandleFails, git
<1>9. ASSUME NEW i \in 1..Len(runs), NEW green \in BOOLEAN, RunEnds(i, green)
      PROVE  GitType'
  <2>1. upstream' \in [Refs -> SHAs]
    BY <1>0, <1>9, RunKey DEF GitType, RunEnds
  <2> QED
    BY <1>0, <1>9, <2>1 DEF GitType, RunEnds, git
<1>10. ASSUME Receive \/ ReceiveFails
      PROVE  GitType'
  BY <1>1, <1>3, <1>4, <1>5, <1>7, <1>8, <1>10
  DEF Receive, ReceiveFails, Reserve, ReplayEnds, ReplayQuarantined, Checkpoint, GateRefuses, FinalizeFails,
      ReplayRefused, CheckpointFails
<1>11. ASSUME Running
      PROVE  GitType'
  BY <1>1, <1>9, <1>11 DEF Running, OtherStarts, RunStarts
<1> QED
  BY <1>1, <1>2, <1>6, <1>10, <1>11
  DEF Next, Begin, Upstream, Operator, OperatorRetries, OperatorAbandons, OperatorQuarantines, SetCap, Crash,
      Startup, Drain

LEMMA RecordTypeNext ==
  ASSUME TypeOK, Shape, Next
  PROVE  RecordType'
<1>0. RecordType /\ GitType /\ LockType
  BY TypeSplits
<1>00. /\ [f \in Refs |-> 0] \in [Refs -> SHAs] /\ 0 \in 0..MaxPushes /\ 1 \in Nat \ {0}
       /\ <<>> \in Seq(RefUpdate)
  BY Constants, EmptySeq
<1>000. NoRecord \in [state: {"none", "reserved", "gate-failed", "ready", "quarantined"},
                      push: 0..MaxPushes, before: [Refs -> SHAs], updates: Seq(RefUpdate), next: Nat \ {0}]
  BY <1>00 DEF NoRecord
<1>1. ASSUME record' = record \/ record' = NoRecord
      PROVE  RecordType'
  BY <1>0, <1>1, <1>000 DEF RecordType
<1>2. ASSUME FinalizeOwn \/ ReplayFinalizes
      PROVE  RecordType'
  BY <1>1, <1>2, FinalizeMakes DEF RecordType, FinalizeOwn, ReplayFinalizes
<1>3. ASSUME Reserve
      PROVE  RecordType'
  BY <1>0, <1>3, <1>000 DEF RecordType, Reserve, GitType, LockType
<1>4. ASSUME NEW st \in {"reserved", "gate-failed", "ready", "quarantined"}, record' = [record EXCEPT !.state = st]
      PROVE  RecordType'
  BY <1>0, <1>4 DEF RecordType
<1>5. ASSUME GateRefuses \/ ReplayQuarantined \/ OperatorQuarantines
      PROVE  RecordType'
  BY <1>1, <1>4, <1>5 DEF GateRefuses, ReplayQuarantined, OperatorQuarantines
<1>6. ASSUME Checkpoint
      PROVE  RecordType'
  <2>1. CASE record' = [record EXCEPT !.next = @ + 1]
    BY <1>0, <2>1 DEF RecordType
  <2> QED
    BY <1>1, <1>6, <2>1 DEF Checkpoint
<1>7. ASSUME Receive \/ ReceiveFails
      PROVE  RecordType'
  BY <1>1, <1>2, <1>3, <1>5, <1>6, <1>7
  DEF Receive, ReceiveFails, EnsureReceive, ReplayEnds, Pack, HandleReceive, HandleFails, FinalizeFails,
      ReplayRefused, CheckpointFails
<1> QED
  BY <1>1, <1>5, <1>7
  DEF Next, Begin, Refresh, Upstream, UpstreamMoves, DeletionPropagates, DeletionAbandoned, Operator,
      OperatorRetries, OperatorAbandons, SetCap, Crash, Startup, Drain, Running, OtherStarts, RunStarts, RunEnds

LEMMA LockTypeNext ==
  ASSUME TypeOK, Next
  PROVE  LockType'
<1>0. LockType /\ Free \in [by: {"none"}, ph: {"none"}, push: {0}] /\ MaxPushes \in Nat
  BY TypeSplits, Constants DEF Free
<1>1. ASSUME lk' = Free \/ lk' = lk \/ \E ph \in {"replay", "checkpoint", "ensure", "reserve", "pack", "moved",
                                                  "own", "owncheckpoint"} : lk' = [lk EXCEPT !.ph = ph],
             up' \in BOOLEAN, pushed' = pushed
      PROVE  LockType'
  BY <1>0, <1>1 DEF LockType
<1>2. ASSUME Begin
      PROVE  LockType'
  BY <1>0, <1>2 DEF LockType, Begin
<1>3. ASSUME OperatorRetries \/ Startup
      PROVE  LockType'
  BY <1>0, <1>3 DEF LockType, OperatorRetries, Startup
<1>4. up \in BOOLEAN
  BY DEF TypeOK
<1>5. ASSUME ReplayEnds
      PROVE  LockType'
  <2>1. up' \in BOOLEAN
    BY <1>5, <1>4, Zenon DEF ReplayEnds
  <2> QED
    BY <1>1, <1>5, <2>1 DEF ReplayEnds, Goto
<1>6. ASSUME Receive \/ ReceiveFails
      PROVE  LockType'
  BY <1>1, <1>4, <1>5, <1>6
  DEF Receive, ReceiveFails, EnsureReceive, Reserve, FinalizeOwn, ReplayQuarantined, ReplayFinalizes, Checkpoint,
      Pack, HandleReceive, GateRefuses, FinalizeFails, ReplayRefused, CheckpointFails, HandleFails, Goto, Fails
<1> QED
  BY <1>1, <1>2, <1>3, <1>4, <1>6
  DEF Next, Refresh, Upstream, UpstreamMoves, DeletionPropagates, DeletionAbandoned, Operator,
      OperatorAbandons, OperatorQuarantines, SetCap, Crash, Drain, Running, OtherStarts, RunStarts, RunEnds

LEMMA RunRewritten ==
  ASSUME TypeOK, NEW i \in 1..Len(runs), NEW st \in {"started", "over"}, runs' = [runs EXCEPT ![i].st = st]
  PROVE  /\ runs' \in Seq(Run) /\ Len(runs') = Len(runs) /\ Len(runs) \in Nat
         /\ runs'[i].key = runs[i].key /\ runs'[i].st = st
         /\ \A j \in 1..Len(runs) : runs'[j].key = runs[j].key /\ (j # i => runs'[j] = runs[j])
<1>1. runs \in Seq(Run) /\ Len(runs) \in Nat /\ \A j \in 1..Len(runs) : runs[j] \in Run
  BY LenProperties, ElementOfSeq DEF TypeOK, Run
<1>2. [runs[i] EXCEPT !.st = st] \in Run /\ [runs[i] EXCEPT !.st = st].key = runs[i].key
      /\ [runs[i] EXCEPT !.st = st].st = st
  BY <1>1 DEF Run
<1>3. runs' = [runs EXCEPT ![i] = [runs[i] EXCEPT !.st = st]]
  OBVIOUS
<1>4. DOMAIN runs = 1..Len(runs) /\ i \in DOMAIN runs
  BY <1>1, LenProperties
<1>5. runs' \in Seq(Run) /\ Len(runs') = Len(runs)
  BY <1>1, <1>2, <1>3, ExceptSeq
<1>6. runs'[i] = [runs[i] EXCEPT !.st = st] /\ \A j \in 1..Len(runs) : j # i => runs'[j] = runs[j]
  BY <1>3, <1>4
<1> QED
  BY <1>1, <1>2, <1>5, <1>6

LEMMA DrainMoves ==
  ASSUME TypeOK, Drain
  PROVE  /\ Len(deferred) \in Nat \ {0} /\ Head(deferred) = deferred[1] /\ Head(deferred) \in Keys
         /\ deferred' \in Seq(Keys) /\ Len(deferred') = Len(deferred) - 1
         /\ \A i \in 1..Len(deferred') : deferred'[i] = deferred[i + 1]
         /\ runs' = Enqueued(Head(deferred))
<1>1. deferred \in Seq(Keys) /\ deferred # <<>> /\ deferred' = Tail(deferred) /\ runs' = Enqueued(Head(deferred))
  BY DEF TypeOK, Drain
<1>2. Len(deferred) \in Nat /\ Len(deferred) # 0
  BY <1>1, LenProperties, EmptySeq
<1>3. /\ Head(deferred) \in Keys /\ Head(deferred) = deferred[1]
  BY <1>1, <1>2, HeadTailProperties
<1>4. Tail(deferred) \in Seq(Keys) /\ Len(Tail(deferred)) = Len(deferred) - 1
      /\ \A i \in 1..Len(Tail(deferred)) : Tail(deferred)[i] = deferred[i + 1]
  BY <1>1, HeadTailProperties
<1> QED
  BY <1>1, <1>2, <1>3, <1>4

\* What a handled receive does to the rows: nothing, or its commit.
LEMMA HandleCommits ==
  ASSUME TypeOK, Shape, NEW parks \in BOOLEAN, NEW ok \in BOOLEAN, HandleReceive(parks, ok)
  PROVE  /\ record.state = "ready" /\ Update \in RefUpdate /\ Key \in Keys /\ Key = <<record.push, Update.ref>>
         /\ record.next \in 1..Len(record.updates)
         /\ Outcome(parks) \in Outcomes \ {"none"} /\ (Outcome(parks) = "deleted" => Update.ref \in Branches)
         /\ UNCHANGED db \/ Commit(Outcome(parks))
<1>1. record.state = "ready"
  BY DEF HandleReceive, Delivering
<1>2. /\ Update \in RefUpdate /\ Key \in Keys /\ Key = <<record.push, Update.ref>>
      /\ record.next \in 1..Len(record.updates)
  BY <1>1, Delivered
<1>3. Outcome(parks) \in Outcomes \ {"none"} /\ (Outcome(parks) = "deleted" => Update.ref \in Branches)
  BY <1>2, OutcomeType
<1> QED
  BY <1>1, <1>2, <1>3 DEF HandleReceive

LEMMA RowTypeNext ==
  ASSUME TypeOK, Shape, Next
  PROVE  RowType'
<1>0. RowType
  BY TypeSplits
<1>1. ASSUME UNCHANGED db
      PROVE  RowType'
  BY <1>0, <1>1 DEF RowType, db
<1>2. ASSUME NEW parks \in BOOLEAN, NEW ok \in BOOLEAN, HandleReceive(parks, ok)
      PROVE  RowType'
  <2>1. /\ Update \in RefUpdate /\ Key \in Keys
        /\ Outcome(parks) \in Outcomes \ {"none"} /\ (Outcome(parks) = "deleted" => Update.ref \in Branches)
        /\ UNCHANGED db \/ Commit(Outcome(parks))
    BY <1>2, HandleCommits
  <2>2. CASE Commit(Outcome(parks))
    <3>0. \/ UNCHANGED db
          \/ /\ events' \in [Keys -> [out: Outcomes, sha: SHAs]]
             /\ UNCHANGED <<others, cap>> /\ rows' \subseteq Branches
             /\ \/ UNCHANGED <<deferred, runs>>
                \/ runs' = runs /\ deferred' \in Seq(Keys)
                \/ runs' = Enqueued(Key) /\ deferred' = deferred
      BY <2>1, <2>2, CommitDoes
    <3>1. runs' = Enqueued(Key) => runs' \in Seq(Run)
      BY <2>1, EnqueuedJoins
    <3> QED
      BY <1>0, <1>1, <3>0, <3>1 DEF RowType
  <2> QED
    BY <1>1, <2>1, <2>2
<1>3. ASSUME Drain
      PROVE  RowType'
  <2>1. Head(deferred) \in Keys /\ deferred' \in Seq(Keys) /\ runs' = Enqueued(Head(deferred))
    BY <1>3, DrainMoves
  <2>2. runs' \in Seq(Run)
    BY <2>1, EnqueuedJoins
  <2> QED
    BY <1>0, <1>3, <2>1, <2>2 DEF RowType, Drain
<1>4. ASSUME NEW i \in 1..Len(runs), RunStarts(i) \/ \E green \in BOOLEAN : RunEnds(i, green)
      PROVE  RowType'
  <2>1. runs' = [runs EXCEPT ![i].st = "started"] \/ runs' = [runs EXCEPT ![i].st = "over"]
    BY <1>4 DEF RunStarts, RunEnds
  <2>2. runs' \in Seq(Run)
    BY <2>1, RunRewritten
  <2> QED
    BY <1>0, <1>4, <2>2 DEF RowType, RunStarts, RunEnds
<1>5. ASSUME OtherStarts \/ \E n \in Caps : SetCap(n)
      PROVE  RowType'
  BY <1>0, <1>5 DEF RowType, OtherStarts, SetCap
<1>6. ASSUME NEW b \in Branches, UpstreamMoves(b) \/ DeletionPropagates(b) \/ DeletionAbandoned(b)
      PROVE  RowType'
  BY <1>0, <1>6 DEF RowType, UpstreamMoves, DeletionPropagates, DeletionAbandoned, db
<1>7. ASSUME Receive \/ ReceiveFails
      PROVE  RowType'
  BY <1>1, <1>2, <1>7
  DEF Receive, ReceiveFails, EnsureReceive, Reserve, FinalizeOwn, ReplayEnds, ReplayQuarantined, ReplayFinalizes,
      Checkpoint, Pack, GateRefuses, FinalizeFails, ReplayRefused, CheckpointFails, HandleFails
<1> QED
  BY <1>1, <1>3, <1>4, <1>5, <1>6, <1>7
  DEF Next, Begin, Refresh, Upstream, Operator, OperatorRetries, OperatorAbandons, OperatorQuarantines, Crash,
      Startup, Running

LEMMA HistoryTypeNext ==
  ASSUME TypeOK, Shape, Next
  PROVE  HistoryType'
<1>0. HistoryType /\ GitType /\ LockType /\ faults \in Nat
  BY TypeSplits DEF HistoryType
<1>1. faults' = faults \/ faults' = faults + 1
  <2>1. Receive \/ ReceiveFails => faults' = faults \/ faults' = faults + 1
    BY DEF Receive, ReceiveFails, EnsureReceive, Reserve, FinalizeOwn, ReplayEnds, ReplayQuarantined,
           ReplayFinalizes, Checkpoint, Pack, GateRefuses, FinalizeFails, ReplayRefused, CheckpointFails,
           HandleReceive, HandleFails, Fault, NoFault
  <2> QED
    BY <2>1 DEF Next, Begin, Refresh, Upstream, UpstreamMoves, DeletionPropagates, DeletionAbandoned,
       Operator, OperatorRetries, OperatorAbandons, OperatorQuarantines, SetCap, Crash, Startup, Drain, Running,
       OtherStarts, RunStarts, RunEnds, Fault, NoFault
<1>2. faults' \in Nat
  BY <1>0, <1>1
<1>3. ASSUME UNCHANGED <<abandoned, moved>>
      PROVE  HistoryType'
  BY <1>0, <1>2, <1>3 DEF HistoryType
<1>4. ASSUME NEW sent \in SUBSET Refs, NEW gone \in SUBSET Branches, Pack(sent, gone)
      PROVE  HistoryType'
  <2>1. lk.push \in 0..MaxPushes /\ \A f \in Refs : mirror'[f] \in SHAs
    BY <1>0, <1>4, GitTypeNext DEF GitType, LockType, Next, Receive
  <2>2. \A f \in sent \cup gone : f \in Refs
    BY Constants
  <2>3. \A f \in sent \cup gone : [push |-> lk.push, ref |-> f, new |-> mirror'[f]] \in
                                     [push: 0..MaxPushes, ref: Refs, new: SHAs]
    BY <2>1, <2>2
  <2>4. moved' = moved \cup {[push |-> lk.push, ref |-> f, new |-> mirror'[f]] : f \in sent \cup gone}
        /\ abandoned' = abandoned
    BY <1>4 DEF Pack
  <2>5. moved' \subseteq [push: 0..MaxPushes, ref: Refs, new: SHAs]
    BY <1>0, <2>3, <2>4 DEF HistoryType
  <2> QED
    BY <1>0, <1>2, <2>4, <2>5 DEF HistoryType
<1>5. ASSUME NEW b \in Branches, DeletionAbandoned(b)
      PROVE  HistoryType'
  <2>1. b \in Refs /\ mirror'[b] \in SHAs /\ 0 \in 0..MaxPushes
    BY <1>5, GitTypeNext, Constants DEF GitType, Next, Upstream
  <2>2. [push |-> 0, ref |-> b, new |-> mirror'[b]] \in [push: 0..MaxPushes, ref: Refs, new: SHAs]
    BY <2>1
  <2>3. moved' = moved \cup {[push |-> 0, ref |-> b, new |-> mirror'[b]]} /\ abandoned' = abandoned
    BY <1>5 DEF DeletionAbandoned
  <2> QED
    BY <1>0, <1>2, <2>2, <2>3 DEF HistoryType
<1>6. ASSUME OperatorAbandons
      PROVE  HistoryType'
  <2>1. record.push \in Pushes
    BY <1>6, Constants DEF OperatorAbandons, Shape, TypeOK, Pushes
  <2> QED
    BY <1>0, <1>2, <1>6, <2>1 DEF HistoryType, OperatorAbandons
<1>7. ASSUME Receive \/ ReceiveFails
      PROVE  HistoryType'
  BY <1>3, <1>4, <1>7
  DEF Receive, ReceiveFails, EnsureReceive, Reserve, FinalizeOwn, ReplayEnds, ReplayQuarantined, ReplayFinalizes,
      Checkpoint, GateRefuses, FinalizeFails, ReplayRefused, CheckpointFails, HandleReceive, HandleFails
<1> QED
  BY <1>3, <1>5, <1>6, <1>7
  DEF Next, Begin, Refresh, Upstream, UpstreamMoves, DeletionPropagates, Operator, OperatorRetries,
      OperatorQuarantines, SetCap, Crash, Startup, Drain, Running, OtherStarts, RunStarts, RunEnds

LEMMA TypeNext ==
  ASSUME TypeOK, Shape, Next
  PROVE  TypeOK'
<1>1. GitType' /\ RecordType' /\ LockType' /\ RowType' /\ HistoryType'
  BY GitTypeNext, RecordTypeNext, LockTypeNext, RowTypeNext, HistoryTypeNext
<1> QED
  BY <1>1 DEF TypeOK, GitType, RecordType, LockType, RowType, HistoryType, Run, RefUpdate

-----------------------------------------------------------------------------
(* The lock, and the pushes that are known *)

LEMMA LockTyped ==
  ASSUME TypeOK
  PROVE  /\ lk = [by |-> lk.by, ph |-> lk.ph, push |-> lk.push]
         /\ pushed \in Nat /\ pushed <= MaxPushes /\ MaxPushes \in Nat /\ lk.push \in 0..MaxPushes
         /\ \A ph : [lk EXCEPT !.ph = ph] = [by |-> lk.by, ph |-> ph, push |-> lk.push]
<1>1. /\ lk \in [by: {"none", "push", "operator", "startup"},
                 ph: {"none", "replay", "checkpoint", "ensure", "reserve", "pack", "moved", "own", "owncheckpoint"},
                 push: 0..MaxPushes]
      /\ pushed \in 0..MaxPushes /\ MaxPushes \in Nat
  BY Constants DEF TypeOK
<1> QED
  BY <1>1

\* How a step may change the lock.
LEMMA LockSteps ==
  ASSUME TypeOK, LockInv, Next
  PROVE  \/ lk' = lk /\ pushed' = pushed
         \/ lk' = Free /\ pushed' = pushed
         \/ Begin \/ EnsureReceive \/ Reserve \/ FinalizeOwn \/ ReplayEnds \/ Checkpoint \/ OperatorRetries \/ Startup
         \/ \E sent \in SUBSET Refs, gone \in SUBSET Branches : Pack(sent, gone)
         \/ \E parks \in BOOLEAN : HandleReceive(parks, TRUE)
<1>1. CASE ReceiveFails
  BY <1>1 DEF ReceiveFails, GateRefuses, FinalizeFails, ReplayRefused, CheckpointFails, HandleReceive, HandleFails,
     Fails
<1>2. CASE Receive
  BY <1>2 DEF Receive, ReplayQuarantined, ReplayFinalizes, Fails
<1> QED
  BY <1>1, <1>2
  DEF Next, Refresh, Upstream, UpstreamMoves, DeletionPropagates, DeletionAbandoned, Operator, OperatorAbandons,
      OperatorQuarantines, SetCap, Crash, Drain, Running, OtherStarts, RunStarts, RunEnds

LEMMA KnownGrows ==
  ASSUME TypeOK, LockInv, Next
  PROVE  /\ Known \in Nat /\ Known' \in Nat /\ Known <= Known' /\ Known' <= MaxPushes /\ MaxPushes \in Nat
         /\ \A v \in Values : v \in Values'
         /\ lk.ph = "pack" => lk'.ph = "pack" \/ Known' = pushed
<1>1. /\ pushed \in Nat /\ MaxPushes \in Nat /\ pushed <= MaxPushes /\ (lk.by = "push" => pushed > 0)
      /\ \A ph : [lk EXCEPT !.ph = ph] = [by |-> lk.by, ph |-> ph, push |-> lk.push]
  BY LockTyped DEF LockInv
<1> DEFINE Grown == /\ Known' \in Nat /\ Known <= Known' /\ Known' <= MaxPushes
                    /\ (lk.ph = "pack" => lk'.ph = "pack" \/ Known' = pushed)
<1>2. Known \in Nat /\ Known <= pushed
  BY <1>1 DEF Known
<1>3. ASSUME lk' = lk /\ pushed' = pushed
      PROVE  Grown
  BY <1>1, <1>2, <1>3 DEF Known
<1>4. ASSUME lk' = Free /\ pushed' = pushed
      PROVE  Grown
  BY <1>1, <1>2, <1>4 DEF Known, Free
<1>5. ASSUME Begin
      PROVE  Grown
  BY <1>1, <1>2, <1>5 DEF Known, Free, Begin, Early
<1>6. ASSUME OperatorRetries \/ Startup
      PROVE  Grown
  BY <1>1, <1>2, <1>6 DEF Known, Free, OperatorRetries, Startup, Early
<1>7. ASSUME NEW ph \in Early \cup {"moved", "own", "owncheckpoint"}, lk' = [lk EXCEPT !.ph = ph], pushed' = pushed,
             ph \in Early => lk.ph \in Early, lk.ph = "pack" => ph = "moved", lk.ph = "pack" => lk.by = "push"
      PROVE  Grown
  <2>1. lk'.by = lk.by /\ lk'.ph = ph
    BY <1>1, <1>7
  <2> QED
    BY <1>1, <1>2, <1>7, <2>1 DEF Known, Early
<1>8. ASSUME EnsureReceive \/ Reserve
      PROVE  Grown
  BY <1>7, <1>8 DEF EnsureReceive, Reserve, At, Goto, Early
<1>9. ASSUME FinalizeOwn
      PROVE  Grown
  BY <1>7, <1>9 DEF FinalizeOwn, At, Goto, Early
<1>10. ASSUME ReplayEnds
      PROVE  Grown
  <2>1. lk.ph # "pack" /\ pushed' = pushed
    BY <1>10 DEF ReplayEnds, Replaying, At
  <2>2. CASE lk' = Free
    BY <1>4, <2>1, <2>2
  <2>3. CASE lk.ph = "replay" /\ lk' = [lk EXCEPT !.ph = "ensure"]
    BY <1>7, <2>1, <2>3 DEF Early
  <2> QED
    BY <1>10, <2>2, <2>3 DEF ReplayEnds, At, Goto
<1>11. ASSUME Checkpoint
      PROVE  Grown
  <2>1. lk.ph # "pack" /\ pushed' = pushed
    BY <1>11 DEF Checkpoint, At
  <2>2. CASE lk.ph = "owncheckpoint" /\ lk' = [lk EXCEPT !.ph = "own"]
    BY <1>7, <2>1, <2>2 DEF Early
  <2>3. CASE lk.ph = "checkpoint" /\ lk' = [lk EXCEPT !.ph = "replay"]
    BY <1>7, <2>1, <2>3 DEF Early
  <2> QED
    BY <1>11, <2>2, <2>3 DEF Checkpoint, At, Goto
<1>12. ASSUME NEW sent \in SUBSET Refs, NEW gone \in SUBSET Branches, Pack(sent, gone)
       PROVE  Grown
  BY <1>7, <1>12 DEF Pack, At, Goto, Early, LockInv
<1>13. ASSUME NEW parks \in BOOLEAN, HandleReceive(parks, TRUE)
       PROVE  Grown
  <2>1. lk.ph \in {"own", "replay"} /\ pushed' = pushed
    BY <1>13 DEF HandleReceive, Delivering, Replaying, At
  <2>2. CASE lk' = Free
    BY <1>4, <2>1, <2>2
  <2>3. CASE lk.ph = "own" /\ lk' = [lk EXCEPT !.ph = "owncheckpoint"]
    BY <1>7, <2>1, <2>3 DEF Early
  <2>4. CASE lk.ph = "replay" /\ lk' = [lk EXCEPT !.ph = "checkpoint"]
    BY <1>7, <2>1, <2>4 DEF Early
  <2> QED
    BY <1>13, <2>1, <2>2, <2>3, <2>4 DEF HandleReceive, At, Goto, Fails
<1>14. Grown
  BY LockSteps, <1>3, <1>4, <1>5, <1>6, <1>8, <1>9, <1>10, <1>11, <1>12, <1>13
<1>15. \A v \in Values : v \in Values'
  BY <1>2, <1>14 DEF Values, Outside
<1> QED
  BY <1>1, <1>2, <1>14, <1>15

\* An event on record stays as it is.
LEMMA EventsStay ==
  ASSUME TypeOK, Shape, Next, NEW k \in Keys, events[k].out # "none"
  PROVE  events'[k] = events[k]
<1>1. ASSUME NEW parks \in BOOLEAN, NEW ok \in BOOLEAN, HandleReceive(parks, ok)
      PROVE  events'[k] = events[k]
  <2>1. Key \in Keys /\ (UNCHANGED db \/ Commit(Outcome(parks)))
    BY <1>1, HandleCommits
  <2>2. CASE UNCHANGED db
    BY <2>2 DEF db
  <2>3. CASE events[Key].out = "none" /\ events' = [events EXCEPT ![Key] = [out |-> Outcome(parks), sha |-> Update.new]]
    BY <2>1, <2>3 DEF TypeOK
  <2> QED
    BY <2>1, <2>2, <2>3 DEF Commit
<1>2. CASE UNCHANGED events
  BY <1>2
<1>3. ASSUME Receive \/ ReceiveFails
      PROVE  events'[k] = events[k]
  BY <1>1, <1>2, <1>3
  DEF Receive, ReceiveFails, EnsureReceive, Reserve, FinalizeOwn, ReplayEnds, ReplayQuarantined, ReplayFinalizes,
      Checkpoint, Pack, GateRefuses, FinalizeFails, ReplayRefused, CheckpointFails, HandleFails, db
<1> QED
  BY <1>2, <1>3
  DEF Next, Begin, Refresh, Upstream, UpstreamMoves, DeletionPropagates, DeletionAbandoned, Operator, OperatorRetries,
      OperatorAbandons, OperatorQuarantines, SetCap, Crash, Startup, Drain, Running, OtherStarts, RunStarts, RunEnds, db

LEMMA LockNext ==
  ASSUME TypeOK, LockInv, Shape, Next
  PROVE  LockInv'
<1>1. /\ lk = [by |-> lk.by, ph |-> lk.ph, push |-> lk.push] /\ pushed \in Nat
      /\ \A ph : [lk EXCEPT !.ph = ph] = [by |-> lk.by, ph |-> ph, push |-> lk.push]
  BY LockTyped
<1>2. ASSUME lk' = Free
      PROVE  LockInv'
  BY <1>2 DEF LockInv, Free
<1>3. ASSUME lk' = lk, pushed' = pushed, record' = record
      PROVE  LockInv'
  <2>1. ASSUME lk.ph \in {"checkpoint", "owncheckpoint"}
        PROVE  events'[Key].out # "none" /\ Key' = Key
    <3>1. record.state = "ready" /\ events[Key].out # "none"
      BY <2>1 DEF LockInv
    <3>2. Key \in Keys
      BY <3>1, Delivered
    <3> QED
      BY <1>3, <3>1, <3>2, EventsStay DEF Key, Update
  <2> QED
    BY <1>3, <2>1 DEF LockInv
<1>4. ASSUME lk' = lk, pushed' = pushed, lk.ph \in {"none", "replay"}
      PROVE  LockInv'
  BY <1>4 DEF LockInv
<1>5. ASSUME Begin \/ OperatorRetries \/ Startup
      PROVE  LockInv'
  BY <1>1, <1>5 DEF LockInv, Begin, OperatorRetries, Startup
<1>6. ASSUME EnsureReceive
      PROVE  LockInv'
  BY <1>1, <1>6 DEF LockInv, EnsureReceive, At, Goto
<1>7. ASSUME Reserve
      PROVE  LockInv'
  <2>1. record'.state = "reserved" /\ record'.push = lk.push
    BY <1>7 DEF Reserve, NoRecord
  <2> QED
    BY <1>1, <1>7, <2>1 DEF LockInv, Reserve, At, Goto
<1>8. ASSUME FinalizeOwn
      PROVE  LockInv'
  BY <1>1, <1>8 DEF LockInv, FinalizeOwn, At, Goto
<1>9. ASSUME ReplayEnds
      PROVE  LockInv'
  <2>1. CASE lk' = [lk EXCEPT !.ph = "ensure"] /\ lk.by = "push"
    BY <1>1, <1>9, <2>1 DEF LockInv, ReplayEnds
  <2> QED
    BY <1>2, <1>9, <2>1 DEF ReplayEnds, Goto
<1>10. ASSUME Checkpoint
       PROVE  LockInv'
  BY <1>1, <1>10 DEF LockInv, Checkpoint, At, Goto
<1>11. ASSUME NEW sent \in SUBSET Refs, NEW gone \in SUBSET Branches, Pack(sent, gone)
       PROVE  LockInv'
  BY <1>1, <1>11 DEF LockInv, Pack, At, Goto
<1>12. ASSUME NEW parks \in BOOLEAN, NEW ok \in BOOLEAN, HandleReceive(parks, ok)
       PROVE  LockInv'
  <2>1. /\ record.state = "ready" /\ Key \in Keys /\ Outcome(parks) \in Outcomes \ {"none"}
        /\ record' = record /\ pushed' = pushed
    BY <1>12, HandleCommits DEF HandleReceive
  <2>2. ASSUME Commit(Outcome(parks))
        PROVE  events'[Key].out # "none"
    BY <2>1, <2>2 DEF Commit, TypeOK, db
  <2>3. Key' = Key
    BY <2>1 DEF Key, Update
  <2>4. CASE lk' # Free
    <3>1. Commit(Outcome(parks)) /\ lk' = [lk EXCEPT !.ph = IF At("own") THEN "owncheckpoint" ELSE "checkpoint"]
      BY <1>12, <2>4 DEF HandleReceive, Goto, Fails
    <3>2. lk'.by = lk.by /\ lk'.push = lk.push /\ lk'.ph = IF At("own") THEN "owncheckpoint" ELSE "checkpoint"
      BY <1>1, <3>1
    <3>3. lk'.ph = "owncheckpoint" => lk.by = "push"
      BY <3>2 DEF At, LockInv
    <3>4. record'.state = "ready" /\ events'[Key'].out # "none" /\ (lk.by = "push" => lk.push = pushed /\ pushed > 0)
          /\ (lk.by = "none" => lk.ph = "none") /\ lk.ph # "none"
      <4>1. lk.ph # "none"
        BY <1>12 DEF HandleReceive, Delivering, Replaying, At
      <4> QED
        BY <2>1, <2>2, <2>3, <3>1, <4>1 DEF LockInv
    <3> QED
      BY <2>1, <3>2, <3>3, <3>4 DEF LockInv, At
  <2> QED
    BY <1>2, <2>4
<1>13. ASSUME Receive \/ ReceiveFails
      PROVE  LockInv'
  BY <1>2, <1>4, <1>6, <1>7, <1>8, <1>9, <1>10, <1>11, <1>12, <1>13
  DEF Receive, ReceiveFails, ReplayQuarantined, ReplayFinalizes, GateRefuses, FinalizeFails, ReplayRefused,
      CheckpointFails, HandleFails, Fails, At
<1> QED
  BY <1>2, <1>3, <1>4, <1>5, <1>13
  DEF Next, Refresh, Upstream, UpstreamMoves, DeletionPropagates, DeletionAbandoned, Operator, OperatorAbandons,
      OperatorQuarantines, SetCap, Crash, Drain, Running, OtherStarts, RunStarts, RunEnds, Free

LEMMA EnsureValues ==
  ASSUME TypeOK, BoundedRefs, Ensure
  PROVE  \A f \in Refs : mirror'[f] \in Values \cup {0} /\ tracking'[f] \in Values
BY EnsureTakes DEF BoundedRefs

LEMMA BoundedRefsNext ==
  ASSUME IntakeInv, Next
  PROVE  BoundedRefs'
<1>0. TypeOK /\ LockInv /\ Shape /\ BoundedRefs /\ BoundedRecord /\ BoundedHistory
  BY DEF IntakeInv, Bounded, RecordInv
<1>1. /\ Known \in Nat /\ Known' \in Nat /\ Known <= Known' /\ \A v \in Values : v \in Values'
      /\ 0 \in Values /\ Outside \in Values
  BY <1>0, KnownGrows DEF Values
<1>2. ASSUME \A f \in Refs : mirror'[f] \in Values' /\ tracking'[f] \in Values' /\ upstream'[f] \in Values'
      PROVE  BoundedRefs'
  BY <1>2 DEF BoundedRefs
<1>3. ASSUME UNCHANGED <<mirror, tracking, upstream>>
      PROVE  BoundedRefs'
  <2>1. \A f \in Refs : mirror'[f] \in Values' /\ tracking'[f] \in Values' /\ upstream'[f] \in Values'
    BY <1>0, <1>1, <1>3 DEF BoundedRefs
  <2> QED
    BY <1>2, <2>1
<1>4. ASSUME UNCHANGED git \/ Ensure, \A f \in Refs : upstream'[f] \in Values
      PROVE  BoundedRefs'
  <2>1. \A f \in Refs : mirror'[f] \in Values /\ tracking'[f] \in Values
    <3>1. CASE UNCHANGED git
      BY <1>0, <3>1 DEF BoundedRefs, git
    <3>2. CASE Ensure
      BY <1>0, <1>1, <3>2, EnsureValues
    <3> QED
      BY <1>4, <3>1, <3>2
  <2>2. \A f \in Refs : mirror'[f] \in Values' /\ tracking'[f] \in Values' /\ upstream'[f] \in Values'
    BY <1>1, <1>4, <2>1
  <2> QED
    BY <1>2, <2>2
<1>5. \A f \in Refs : mirror[f] \in Values /\ tracking[f] \in Values /\ upstream[f] \in Values
  BY <1>0 DEF BoundedRefs
<1>6. ASSUME Refresh \/ EnsureReceive
      PROVE  BoundedRefs'
  BY <1>4, <1>5, <1>6 DEF Refresh, EnsureReceive, Ensure
<1>7. ASSUME FinalizeOwn \/ ReplayFinalizes
      PROVE  BoundedRefs'
  BY <1>3, <1>7 DEF FinalizeOwn, ReplayFinalizes, Finalize
<1>8. ASSUME NEW sent \in SUBSET Refs, NEW gone \in SUBSET Branches, Pack(sent, gone)
      PROVE  BoundedRefs'
  <2>1. Known' = lk.push
    <3>1. lk.by = "push" /\ lk.push = pushed /\ lk.ph = "pack"
      BY <1>0, <1>8 DEF Pack, At, LockInv
    <3>2. lk'.ph = "moved"
      BY <1>0, <1>8, LockTyped DEF Pack, Goto
    <3> QED
      BY <1>0, <1>8, <3>1, <3>2, KnownGrows DEF Next, Receive
  <2>2. lk.push \in Values'
    BY <1>1, <2>1 DEF Values
  <2>3. /\ mirror' = [f \in Refs |-> IF f \in sent THEN lk.push ELSE IF f \in gone THEN 0 ELSE mirror[f]]
        /\ UNCHANGED <<tracking, upstream>>
    BY <1>8 DEF Pack
  <2>4. \A f \in Refs : mirror'[f] \in Values' /\ tracking'[f] \in Values' /\ upstream'[f] \in Values'
    BY <1>1, <1>5, <2>2, <2>3
  <2> QED
    BY <1>2, <2>4
<1>9. ASSUME NEW b \in Branches, UpstreamMoves(b) \/ DeletionPropagates(b) \/ DeletionAbandoned(b)
      PROVE  BoundedRefs'
  <2>0. b \in Refs /\ GitType
    BY <1>0, Constants, TypeSplits
  <2>1. CASE UpstreamMoves(b)
    <3>1. \A f \in Refs : upstream'[f] \in Values
      BY <1>1, <1>5, <2>0, <2>1 DEF UpstreamMoves, GitType
    <3> QED
      BY <1>4, <2>1, <3>1 DEF UpstreamMoves
  <2>2. CASE DeletionPropagates(b)
    <3>1. \A f \in Refs : mirror'[f] \in Values /\ tracking'[f] \in Values /\ upstream'[f] \in Values
      BY <1>1, <1>5, <2>0, <2>2 DEF DeletionPropagates, GitType
    <3> QED
      BY <1>1, <1>2, <3>1
  <2>3. CASE DeletionAbandoned(b)
    <3>1. \A f \in Refs : mirror'[f] \in Values /\ tracking'[f] \in Values /\ upstream'[f] \in Values
      BY <1>1, <1>5, <2>0, <2>3 DEF DeletionAbandoned, GitType
    <3> QED
      BY <1>1, <1>2, <3>1
  <2> QED
    BY <1>9, <2>1, <2>2, <2>3
<1>10. ASSUME Delivering, NEW out, Parked(out)
       PROVE  \A f \in Refs : upstream'[f] \in Values
  <2>1. record.next \in 1..Len(record.updates) /\ Update \in RefUpdate
    BY <1>0, <1>10, Delivered DEF Delivering
  <2>2. Update.new \in Values
    BY <1>0, <2>1 DEF BoundedRecord, Update
  <2>3. Update.ref \in Refs /\ upstream \in [Refs -> SHAs]
    BY <1>0, <2>1 DEF RefUpdate, TypeOK
  <2> QED
    BY <1>5, <1>10, <2>2, <2>3 DEF Parked
<1>11. ASSUME NEW parks \in BOOLEAN, NEW ok \in BOOLEAN, HandleReceive(parks, ok)
       PROVE  BoundedRefs'
  <2>1. Delivering /\ (UNCHANGED git \/ Ensure) /\ (UNCHANGED upstream \/ Parked(Outcome(parks)))
    BY <1>11 DEF HandleReceive
  <2> QED
    BY <1>4, <1>5, <1>10, <2>1
<1>12. ASSUME NEW parks \in BOOLEAN, HandleFails(parks)
       PROVE  BoundedRefs'
  <2>1. Delivering /\ UNCHANGED git /\ (UNCHANGED upstream \/ Parked("parked"))
    BY <1>12 DEF HandleFails
  <2> QED
    BY <1>4, <1>5, <1>10, <2>1
<1>13. ASSUME NEW i \in 1..Len(runs), NEW green \in BOOLEAN, RunEnds(i, green)
       PROVE  BoundedRefs'
  <2>1. runs[i].key \in Keys /\ runs[i].key[2] \in Refs
    BY <1>0, RunKey
  <2>2. events[runs[i].key].out = "queued"
    BY <2>1 DEF IntakeInv, Queue, HasRun
  <2>3. events[runs[i].key].sha \in Values
    BY <1>0, <2>1, <2>2 DEF BoundedHistory
  <2>4. upstream \in [Refs -> SHAs]
    BY <1>0 DEF TypeOK
  <2>5. \A f \in Refs : upstream'[f] \in Values
    BY <1>5, <1>13, <2>1, <2>3, <2>4 DEF RunEnds
  <2> QED
    BY <1>4, <1>13, <2>5 DEF RunEnds
<1>14. ASSUME Receive \/ ReceiveFails
       PROVE  BoundedRefs'
  BY <1>3, <1>6, <1>7, <1>8, <1>11, <1>12, <1>14
  DEF Receive, ReceiveFails, Reserve, ReplayEnds, ReplayQuarantined, Checkpoint, GateRefuses, FinalizeFails,
      ReplayRefused, CheckpointFails, git
<1> QED
  BY <1>3, <1>6, <1>9, <1>13, <1>14
  DEF Next, Begin, Upstream, Operator, OperatorRetries, OperatorAbandons, OperatorQuarantines, SetCap, Crash,
      Startup, Drain, Running, OtherStarts, RunStarts, git

LEMMA BoundedRecordNext ==
  ASSUME IntakeInv, Next
  PROVE  BoundedRecord'
<1>0. TypeOK /\ LockInv /\ Shape /\ BoundedRefs /\ BoundedRecord
  BY DEF IntakeInv, Bounded, RecordInv
<1>1. /\ Known \in Nat /\ Known' \in Nat /\ Known <= Known' /\ \A v \in Values : v \in Values'
      /\ 0 \in Values' /\ (lk.ph = "pack" => lk'.ph = "pack" \/ Known' = pushed)
  BY <1>0, KnownGrows DEF Values
<1>2. record.push \in Nat /\ (record.push <= Known' \/ lk'.ph = "pack")
  <2>1. CASE lk.ph = "pack"
    <3>1. record.push = pushed /\ pushed \in Nat
      BY <1>0, <2>1 DEF LockInv, TypeOK
    <3> QED
      BY <1>1, <2>1, <3>1
  <2>2. CASE lk.ph # "pack"
    BY <1>0, <1>1, <2>2 DEF BoundedRecord, TypeOK
  <2> QED
    BY <2>1, <2>2
<1>3. ASSUME record'.push = record.push, record'.before = record.before, record'.updates = record.updates
      PROVE  BoundedRecord'
  <2>1. \A f \in Refs : record'.before[f] \in Values'
    BY <1>0, <1>1, <1>3 DEF BoundedRecord
  <2>2. \A i \in 1..Len(record'.updates) : record'.updates[i].new \in Values'
    BY <1>0, <1>1, <1>3 DEF BoundedRecord
  <2> QED
    BY <1>2, <1>3, <2>1, <2>2 DEF BoundedRecord
<1>4. ASSUME record' = NoRecord
      PROVE  BoundedRecord'
  <2>1. /\ record'.push = 0 /\ record'.updates = <<>> /\ \A f \in Refs : record'.before[f] = 0
        /\ Len(record'.updates) = 0
    BY <1>4 DEF NoRecord
  <2> QED
    BY <1>1, <2>1 DEF BoundedRecord
<1>5. ASSUME NEW st, record' = [record EXCEPT !.state = st]
      PROVE  BoundedRecord'
  BY <1>0, <1>3, <1>5 DEF TypeOK
<1>6. ASSUME FinalizeOwn \/ ReplayFinalizes
      PROVE  BoundedRecord'
  <2>1. Finalize(record)
    BY <1>6 DEF FinalizeOwn, ReplayFinalizes
  <2>2. CASE record' # NoRecord
    <3>1. /\ record'.push = record.push /\ record'.before = record.before
          /\ \A i \in 1..Len(record'.updates) :
                record'.updates[i].ref \in Refs /\ record'.updates[i].new = mirror[record'.updates[i].ref]
      BY <1>0, <2>1, <2>2, FinalizeMakes
    <3>2. \A i \in 1..Len(record'.updates) : record'.updates[i].new \in Values'
      BY <1>0, <1>1, <3>1 DEF BoundedRefs
    <3>3. \A f \in Refs : record'.before[f] \in Values'
      BY <1>0, <1>1, <3>1 DEF BoundedRecord
    <3> QED
      BY <1>2, <3>1, <3>2, <3>3 DEF BoundedRecord
  <2> QED
    BY <1>4, <2>2
<1>7. ASSUME Reserve
      PROVE  BoundedRecord'
  <2>1. record'.before = mirror /\ record'.updates = <<>> /\ Len(record'.updates) = 0
    BY <1>7 DEF Reserve, NoRecord
  <2>2. lk'.ph = "pack"
    BY <1>0, <1>7, LockTyped DEF Reserve, Goto
  <2>3. \A f \in Refs : record'.before[f] \in Values'
    BY <1>0, <1>1, <2>1 DEF BoundedRefs
  <2> QED
    BY <2>1, <2>2, <2>3 DEF BoundedRecord
<1>8. ASSUME Checkpoint
      PROVE  BoundedRecord'
  <2>1. CASE record' = [record EXCEPT !.next = @ + 1]
    BY <1>0, <1>3, <2>1 DEF TypeOK
  <2> QED
    BY <1>4, <1>8, <2>1 DEF Checkpoint
<1>9. ASSUME GateRefuses \/ ReplayQuarantined \/ OperatorQuarantines
      PROVE  BoundedRecord'
  BY <1>3, <1>5, <1>9 DEF GateRefuses, ReplayQuarantined, OperatorQuarantines
<1>10. ASSUME Receive \/ ReceiveFails
       PROVE  BoundedRecord'
  BY <1>3, <1>6, <1>7, <1>8, <1>9, <1>10
  DEF Receive, ReceiveFails, EnsureReceive, ReplayEnds, Pack, HandleReceive, HandleFails, FinalizeFails,
      ReplayRefused, CheckpointFails
<1> QED
  BY <1>3, <1>4, <1>9, <1>10
  DEF Next, Begin, Refresh, Upstream, UpstreamMoves, DeletionPropagates, DeletionAbandoned, Operator,
      OperatorRetries, OperatorAbandons, SetCap, Crash, Startup, Drain, Running, OtherStarts, RunStarts, RunEnds

LEMMA BoundedHistoryNext ==
  ASSUME IntakeInv, Next
  PROVE  BoundedHistory'
<1>0. TypeOK /\ LockInv /\ Shape /\ BoundedRecord /\ BoundedHistory
  BY DEF IntakeInv, Bounded, RecordInv
<1>1. /\ Known \in Nat /\ Known' \in Nat /\ Known <= Known' /\ \A v \in Values : v \in Values'
      /\ (lk.ph = "pack" => lk'.ph = "pack" \/ Known' = pushed)
  BY <1>0, KnownGrows
<1>2. \A m \in moved : m.push <= Known'
  <2>1. \A m \in moved : m.push \in Nat
    BY <1>0 DEF TypeOK
  <2> QED
    BY <1>0, <1>1, <2>1 DEF BoundedHistory
<1>3. \A k \in Keys : events[k].out # "none" => k[1] <= Known' /\ events[k].sha \in Values'
  <2>1. \A k \in Keys : k[1] \in Nat
    BY DEF Keys, Pushes
  <2> QED
    BY <1>0, <1>1, <2>1 DEF BoundedHistory
<1>4. ASSUME UNCHANGED <<moved, events>>
      PROVE  BoundedHistory'
  BY <1>2, <1>3, <1>4 DEF BoundedHistory
<1>5. ASSUME NEW sent \in SUBSET Refs, NEW gone \in SUBSET Branches, Pack(sent, gone)
      PROVE  BoundedHistory'
  <2>1. lk.push = pushed /\ lk.ph = "pack" /\ pushed \in Nat
    BY <1>0, <1>5 DEF Pack, At, LockInv, TypeOK
  <2>2. lk'.ph = "moved"
    BY <1>0, <1>5, LockTyped DEF Pack, Goto
  <2>3. lk.push <= Known'
    BY <1>1, <2>1, <2>2
  <2>4. /\ moved' = moved \cup {[push |-> lk.push, ref |-> f, new |-> mirror'[f]] : f \in sent \cup gone}
        /\ events' = events
    BY <1>5 DEF Pack, db
  <2>5. \A m \in moved' : m.push <= Known'
    BY <1>2, <2>3, <2>4
  <2> QED
    BY <1>3, <2>4, <2>5 DEF BoundedHistory
<1>6. ASSUME NEW b \in Branches, DeletionAbandoned(b)
      PROVE  BoundedHistory'
  <2>1. moved' = moved \cup {[push |-> 0, ref |-> b, new |-> mirror'[b]]} /\ events' = events
    BY <1>6 DEF DeletionAbandoned
  <2>2. \A m \in moved' : m.push <= Known'
    BY <1>1, <1>2, <2>1
  <2> QED
    BY <1>3, <2>1, <2>2 DEF BoundedHistory
<1>7. ASSUME NEW parks \in BOOLEAN, NEW ok \in BOOLEAN, HandleReceive(parks, ok)
      PROVE  BoundedHistory'
  <2>1. /\ record.next \in 1..Len(record.updates) /\ Key \in Keys /\ Key = <<record.push, Update.ref>>
        /\ (UNCHANGED db \/ Commit(Outcome(parks))) /\ moved' = moved
    BY <1>0, <1>7, HandleCommits DEF HandleReceive
  <2>2. lk.ph # "pack"
    BY <1>7 DEF HandleReceive, Delivering, Replaying, At
  <2>3. record.push \in Nat /\ record.push <= Known /\ Update.new \in Values
    BY <1>0, <2>1, <2>2 DEF BoundedRecord, TypeOK, Update
  <2>4. Key[1] <= Known' /\ Update.new \in Values'
    BY <1>1, <2>1, <2>3
  <2>5. CASE UNCHANGED db
    BY <1>4, <2>1, <2>5 DEF db
  <2>6. CASE events' = [events EXCEPT ![Key] = [out |-> Outcome(parks), sha |-> Update.new]]
    <3>1. \A k \in Keys : events'[k].out # "none" => k[1] <= Known' /\ events'[k].sha \in Values'
      <4> SUFFICES ASSUME NEW k \in Keys, events'[k].out # "none"
                   PROVE  k[1] <= Known' /\ events'[k].sha \in Values'
        OBVIOUS
      <4>1. CASE k = Key
        BY <1>0, <2>4, <2>6, <4>1 DEF TypeOK
      <4>2. CASE k # Key
        BY <1>0, <1>3, <2>6, <4>2 DEF TypeOK
      <4> QED
        BY <4>1, <4>2
    <3> QED
      BY <1>2, <2>1, <3>1 DEF BoundedHistory
  <2> QED
    BY <2>1, <2>5, <2>6 DEF Commit
<1>8. ASSUME Receive \/ ReceiveFails
      PROVE  BoundedHistory'
  BY <1>4, <1>5, <1>7, <1>8
  DEF Receive, ReceiveFails, EnsureReceive, Reserve, FinalizeOwn, ReplayEnds, ReplayQuarantined, ReplayFinalizes,
      Checkpoint, GateRefuses, FinalizeFails, ReplayRefused, CheckpointFails, HandleFails, db
<1> QED
  BY <1>4, <1>6, <1>8
  DEF Next, Begin, Refresh, Upstream, UpstreamMoves, DeletionPropagates, Operator, OperatorRetries, OperatorAbandons,
      OperatorQuarantines, SetCap, Crash, Startup, Drain, Running, OtherStarts, RunStarts, RunEnds, db

-----------------------------------------------------------------------------
(* The record and the events *)

\* The record says nothing of a push once it is gone.
LEMMA GoneRecord ==
  ASSUME TypeOK, Shape, record.state = "none", NEW m
  PROVE  ~InRecord(m)
<1>1. record.updates = <<>> /\ Len(record.updates) = 0 /\ record.next \in Nat \ {0}
  BY DEF Shape, TypeOK
<1> QED
  BY <1>1 DEF InRecord

LEMMA RecordFrame ==
  ASSUME TypeOK, RecordInv, UNCHANGED <<record, moved, events, abandoned>>,
         mirror' = mirror \/ record.state \in {"none", "ready"}
  PROVE  RecordInv'
<1>1. Shape' /\ Finalized' /\ Latest' /\ PushesAttributed'
  BY DEF RecordInv, Shape, Finalized, Latest, PushesAttributed, Change, Restored
<1>2. Interrupted'
  <2>1. CASE mirror' = mirror
    BY <2>1 DEF RecordInv, Interrupted, Change, Restored
  <2>2. CASE record.state \in {"none", "ready"}
    BY <2>2 DEF RecordInv, Shape, Interrupted
  <2> QED
    BY <2>1, <2>2
<1>3. \A m \in moved : InRecord(m) => InRecord(m)'
  <2>1. CASE mirror' = mirror
    BY <2>1 DEF InRecord
  <2>2. CASE record.state \in {"none", "ready"}
    BY <2>2, GoneRecord DEF RecordInv, Shape, InRecord
  <2> QED
    BY <2>1, <2>2
<1>4. NoPushForgotten'
  BY <1>3 DEF RecordInv, NoPushForgotten, Restored
<1> QED
  BY <1>1, <1>2, <1>4 DEF RecordInv

\* A record whose state alone changes says what it said.
LEMMA RecordMarked ==
  ASSUME TypeOK, RecordInv, UNCHANGED <<mirror, moved, events, abandoned>>, record.state # "none",
         NEW st \in {"reserved", "gate-failed", "ready", "quarantined"}, record' = [record EXCEPT !.state = st],
         st \in {"reserved", "gate-failed"} => record.updates = <<>>, st = "ready" => record.updates # <<>>
  PROVE  RecordInv'
<1>1. /\ record'.state = st /\ record'.push = record.push /\ record'.before = record.before
      /\ record'.updates = record.updates /\ record'.next = record.next /\ st # "none"
  BY DEF TypeOK
<1> HIDE DEF IntakeInv
<1>2. Shape' /\ Finalized' /\ Latest' /\ PushesAttributed'
  BY <1>1 DEF RecordInv, Shape, Finalized, Latest, PushesAttributed, Change, Restored
<1>3. Interrupted'
  BY <1>1 DEF RecordInv, Interrupted, Change, Restored
<1>4. \A m \in moved : InRecord(m) => InRecord(m)'
  BY <1>1 DEF InRecord
<1>5. NoPushForgotten'
  BY <1>4 DEF RecordInv, NoPushForgotten, Restored
<1> QED
  BY <1>2, <1>3, <1>5 DEF RecordInv

\* A record goes: fine if what it still said is told elsewhere.
LEMMA RecordGone ==
  ASSUME TypeOK, RecordInv, record' = NoRecord, UNCHANGED <<mirror, moved, events>>,
         \A p \in abandoned : p \in abandoned',
         \A m \in moved : InRecord(m) => \/ events[<<m.push, m.ref>>].out # "none" /\ events[<<m.push, m.ref>>].sha = m.new
                                         \/ m.push \in abandoned' \/ Restored(m.ref)
  PROVE  RecordInv'
<1>1. /\ record'.state = "none" /\ record'.updates = <<>> /\ Len(record'.updates) = 0
  BY DEF NoRecord
<1>2. Shape' /\ Finalized' /\ Latest' /\ Interrupted'
  BY <1>1 DEF Shape, Finalized, Latest, Interrupted
<1>3. PushesAttributed'
  BY DEF RecordInv, PushesAttributed, Restored
<1>4. NoPushForgotten'
  BY DEF RecordInv, NoPushForgotten, Restored
<1> QED
  BY <1>2, <1>3, <1>4 DEF RecordInv

LEMMA ReserveRecord ==
  ASSUME IntakeInv, Reserve
  PROVE  RecordInv'
<1>0. TypeOK /\ LockInv /\ RecordInv /\ Shape /\ BoundedHistory
  BY DEF IntakeInv, RecordInv, Bounded
<1>1. /\ record.state = "none" /\ lk.push = pushed /\ pushed > 0 /\ pushed \in Nat /\ Known = pushed - 1
  BY <1>0 DEF Reserve, At, LockInv, Known, Early, TypeOK
<1>2. /\ record'.state = "reserved" /\ record'.push = pushed /\ record'.before = mirror /\ record'.updates = <<>>
      /\ UNCHANGED <<mirror, moved, events, abandoned>>
  BY <1>1 DEF Reserve, NoRecord, git, db
<1>3. \A m \in moved : m.push # pushed
  <2>1. \A m \in moved : m.push \in Nat /\ m.push <= Known
    BY <1>0 DEF TypeOK, BoundedHistory
  <2> QED
    BY <1>1, <2>1
<1>4. \A k \in Keys : events[k].out # "none" => k[1] # pushed /\ k[1] <= pushed
  <2>1. \A k \in Keys : k[1] \in Nat /\ (events[k].out # "none" => k[1] <= Known)
    BY <1>0 DEF Keys, Pushes, BoundedHistory
  <2> QED
    BY <1>1, <2>1
<1>5. Interrupted'
  BY <1>2, <1>3, <1>4 DEF Interrupted
<1>6. Shape' /\ Finalized' /\ Latest'
  <2>1. Len(record'.updates) = 0
    BY <1>2
  <2> QED
    BY <1>1, <1>2, <1>4, <2>1 DEF Shape, Finalized, Latest
<1>7. NoPushForgotten'
  BY <1>0, <1>1, <1>2, GoneRecord DEF RecordInv, NoPushForgotten, Restored
<1>8. PushesAttributed'
  BY <1>0, <1>2 DEF RecordInv, PushesAttributed, Restored
<1> QED
  BY <1>5, <1>6, <1>7, <1>8 DEF RecordInv

LEMMA PackRecord ==
  ASSUME IntakeInv, NEW sent \in SUBSET Refs, NEW gone \in SUBSET Branches, Pack(sent, gone)
  PROVE  RecordInv'
<1>0. /\ TypeOK /\ LockInv /\ RecordInv /\ Interrupted /\ Shape /\ Finalized /\ Latest /\ NoPushForgotten
      /\ PushesAttributed /\ BoundedHistory /\ BoundedRecord
  BY DEF IntakeInv, RecordInv, Bounded
<1>1. /\ record.state = "reserved" /\ record.updates = <<>> /\ lk.push = pushed /\ record.push = pushed
      /\ pushed > 0 /\ pushed \in Nat /\ pushed <= MaxPushes /\ MaxPushes \in Nat /\ Known = pushed - 1
  BY <1>0, LockTyped DEF Pack, At, LockInv, Known, Early, Shape
<1> DEFINE Did(f) == [push |-> pushed, ref |-> f, new |-> mirror'[f]]
<1>2. /\ mirror' = [f \in Refs |-> IF f \in sent THEN pushed ELSE IF f \in gone THEN 0 ELSE mirror[f]]
      /\ moved' = moved \cup {Did(f) : f \in sent \cup gone}
      /\ UNCHANGED <<record, events, abandoned>> /\ \A f \in gone : f \in Refs /\ mirror[f] # 0 /\ f \notin sent
  BY <1>1, Constants DEF Pack, db
<1>3. \A m \in moved : m.push # pushed /\ m \in moved'
  <2>1. \A m \in moved : m.push \in Nat /\ m.push <= Known
    BY <1>0 DEF TypeOK, BoundedHistory
  <2> QED
    BY <1>1, <1>2, <2>1
<1>4. \A f \in Refs : Restored(f) => Restored(f)'
  BY <1>3 DEF Restored
<1>5. \A f \in Refs : mirror[f] = record.before[f] \/ Restored(f)
  <2> SUFFICES ASSUME NEW f \in Refs, Change(f, mirror[f]) \in moved
               PROVE  FALSE
    BY <1>0, <1>1 DEF Interrupted
  <2> QED
    BY <1>1, <1>3 DEF Change
<1>6. \A f \in Refs : record.before[f] # pushed
  <2>1. \A f \in Refs : record.before[f] \in 0..(pushed - 1) \cup {MaxPushes + 1}
    BY <1>0, <1>1 DEF BoundedRecord, Values, Outside
  <2> QED
    BY <1>1, <2>1
<1>7. ASSUME NEW f \in sent \cup gone
      PROVE  mirror'[f] # record.before[f] \/ Restored(f)
  <2>1. CASE f \in sent
    BY <1>2, <1>6, <2>1
  <2>2. CASE f \in gone
    BY <1>2, <1>5, <2>2
  <2> QED
    BY <2>1, <2>2
<1>8. Interrupted'
  <2>1. ASSUME NEW f \in Refs
        PROVE  mirror'[f] = record.before[f] \/ Did(f) \in moved' \/ Restored(f)'
    <3>1. CASE f \in sent \cup gone
      BY <1>2, <3>1
    <3>2. CASE f \notin sent \cup gone
      BY <1>2, <1>4, <1>5, <3>2
    <3> QED
      BY <3>1, <3>2
  <2>2. ASSUME NEW m \in moved', m.push = pushed
        PROVE  (mirror'[m.ref] = m.new /\ record.before[m.ref] # m.new) \/ Restored(m.ref)'
    <3>1. PICK f \in sent \cup gone : m = Did(f)
      BY <1>2, <1>3, <2>2
    <3>2. m.ref = f /\ m.new = mirror'[f] /\ f \in Refs
      BY <1>2, <3>1
    <3> QED
      BY <1>4, <1>7, <3>2
  <2>3. \A k \in Keys : events[k].out # "none" => k[1] # pushed
    BY <1>0, <1>1 DEF Interrupted
  <2> HIDE DEF Did
  <2>4. \A f \in Refs : Change(f, mirror[f])' = Did(f)
    BY <1>1, <1>2 DEF Change, Did
  <2> QED
    BY <1>1, <1>2, <2>1, <2>2, <2>3, <2>4 DEF Interrupted
<1>9. Shape' /\ Finalized' /\ Latest' /\ PushesAttributed'
  <2>1. Shape' /\ Latest'
    BY <1>0, <1>2 DEF Shape, Latest
  <2>2. Finalized'
    <3>1. Len(record'.updates) = 0
      BY <1>1, <1>2
    <3> QED
      BY <3>1 DEF Finalized
  <2>3. PushesAttributed'
    <3>1. \A k \in Keys : k[2] \in Refs
      BY DEF Keys
    <3> QED
      BY <1>0, <1>2, <1>3, <1>4, <3>1 DEF PushesAttributed
  <2> QED
    BY <2>1, <2>2, <2>3
<1>10. NoPushForgotten'
  <2> SUFFICES ASSUME NEW m \in moved', m.push # 0
               PROVE  \/ events'[<<m.push, m.ref>>].out # "none" /\ events'[<<m.push, m.ref>>].sha = m.new
                      \/ InRecord(m)' \/ m.push \in abandoned' \/ Restored(m.ref)'
    BY DEF NoPushForgotten
  <2>1. CASE m \in moved
    <3>1. ~InRecord(m) /\ m.ref \in Refs
      BY <1>0, <1>1, <1>3, <2>1 DEF InRecord, TypeOK
    <3> QED
      BY <1>0, <1>2, <1>4, <2>1, <3>1 DEF NoPushForgotten
  <2>2. CASE m.push = pushed
    <3>1. (mirror'[m.ref] = m.new /\ record'.before[m.ref] # m.new) \/ Restored(m.ref)'
      BY <1>1, <1>2, <1>8, <2>2 DEF Interrupted
    <3> QED
      BY <1>1, <1>2, <2>2, <3>1 DEF InRecord
  <2>3. m \in moved \/ m.push = pushed
    BY <1>2
  <2> QED
    BY <2>1, <2>2, <2>3
<1> QED
  BY <1>8, <1>9, <1>10 DEF RecordInv

LEMMA FinalizeRecord ==
  ASSUME IntakeInv, Finalize(record), record.state \in {"reserved", "gate-failed"},
         UNCHANGED <<moved, events, abandoned>>
  PROVE  RecordInv'
<1>0. /\ TypeOK /\ RecordInv /\ Interrupted /\ Shape /\ Finalized /\ Latest /\ NoPushForgotten /\ PushesAttributed
  BY DEF IntakeInv, RecordInv
<1>1. record.updates = <<>> /\ record.push > 0 /\ record.push \in Pushes /\ Len(record.updates) = 0 /\ mirror' = mirror
  BY <1>0, Constants DEF Shape, TypeOK, Pushes, Finalize
<1>2. ASSUME NEW m \in moved, InRecord(m)
      PROVE  m.push = record.push /\ mirror[m.ref] = m.new /\ record.before[m.ref] # m.new /\ m.ref \in Refs
  BY <1>0, <1>1, <1>2 DEF InRecord, TypeOK
<1>3. CASE record' = NoRecord /\ \A f \in Refs : record.before[f] = mirror[f]
  BY <1>0, <1>1, <1>2, <1>3, RecordGone
<1>4. CASE /\ record'.state = "ready" /\ record'.push = record.push /\ record'.before = record.before
           /\ record'.next = 1 /\ record'.updates \in Seq(RefUpdate) /\ record'.updates # <<>>
           /\ \A i \in 1..Len(record'.updates) :
                 LET u == record'.updates[i]
                 IN u.ref \in Refs /\ u.new = mirror[u.ref] /\ record.before[u.ref] # mirror[u.ref]
           /\ \A f \in Refs : record.before[f] # mirror[f] =>
                 \E i \in 1..Len(record'.updates) : record'.updates[i].ref = f
  <2>1. Interrupted'
    BY <1>4 DEF Interrupted
  <2>2. Shape'
    <3>1. Len(record'.updates) \in Nat /\ Len(record'.updates) # 0
      BY <1>4, LenProperties, EmptySeq
    <3> QED
      BY <1>1, <1>4, <3>1 DEF Shape
  <2>3. Latest'
    BY <1>0, <1>4 DEF Latest
  <2>4. Finalized'
    <3>1. ASSUME NEW i \in 1..Len(record'.updates)
          PROVE  LET u == record'.updates[i]
                 IN /\ \/ [push |-> record'.push, ref |-> u.ref, new |-> u.new] \in moved'
                       \/ \E m \in moved' : m.push = 0 /\ m.ref = u.ref
                    /\ events'[<<record'.push, u.ref>>].out = "none"
      <4> DEFINE u == record'.updates[i]
      <4>1. u.ref \in Refs /\ u.new = mirror[u.ref] /\ record.before[u.ref] # mirror[u.ref]
        BY <1>4
      <4> HIDE DEF u
      <4>2. Change(u.ref, u.new) \in moved \/ Restored(u.ref)
        BY <1>0, <1>1, <4>1 DEF Interrupted
      <4>3. <<record.push, u.ref>> \in Keys
        BY <1>1, <4>1 DEF Keys
      <4>4. events[<<record.push, u.ref>>].out = "none"
        BY <1>0, <1>1, <4>3 DEF Interrupted
      <4> QED
        BY <1>4, <4>2, <4>4 DEF u, Change, Restored
    <3>2. \A i, j \in 1..Len(record'.updates) :
             record'.updates[i].ref = record'.updates[j].ref => record'.updates[i].new = record'.updates[j].new
      BY <1>4
    <3> QED
      BY <3>1, <3>2 DEF Finalized, Change, Restored
  <2>5. NoPushForgotten'
    <3>1. ASSUME NEW m \in moved, InRecord(m)
          PROVE  InRecord(m)'
      <4>1. m.push = record.push /\ mirror[m.ref] = m.new /\ record.before[m.ref] # m.new /\ m.ref \in Refs
        BY <1>2, <3>1
      <4>2. PICK i \in 1..Len(record'.updates) : record'.updates[i].ref = m.ref
        BY <1>4, <4>1
      <4>3. record'.updates[i].new = m.new
        BY <1>4, <4>1, <4>2
      <4> QED
        BY <1>4, <4>1, <4>2, <4>3 DEF InRecord
    <3> QED
      BY <1>0, <3>1 DEF NoPushForgotten, Restored
  <2>6. PushesAttributed'
    BY <1>0 DEF PushesAttributed, Restored
  <2> QED
    BY <2>1, <2>2, <2>3, <2>4, <2>5, <2>6 DEF RecordInv
<1> QED
  BY <1>0, <1>3, <1>4, FinalizeMakes

LEMMA HandleRecord ==
  ASSUME IntakeInv, NEW parks \in BOOLEAN, NEW ok \in BOOLEAN, HandleReceive(parks, ok)
  PROVE  RecordInv'
<1>0. /\ TypeOK /\ RecordInv /\ Interrupted /\ Shape /\ Finalized /\ Latest /\ NoPushForgotten /\ PushesAttributed
  BY DEF IntakeInv, RecordInv
<1>1. /\ record.state = "ready" /\ Key \in Keys /\ Key = <<record.push, Update.ref>>
      /\ record.next \in 1..Len(record.updates) /\ (UNCHANGED db \/ Commit(Outcome(parks)))
      /\ UNCHANGED <<record, moved, abandoned>> /\ record.updates # <<>>
  BY <1>0, HandleCommits DEF HandleReceive, Shape
<1>2. CASE events' = events
  BY <1>0, <1>1, <1>2, RecordFrame
<1>3. CASE events[Key].out = "none" /\ events' = [events EXCEPT ![Key] = [out |-> Outcome(parks), sha |-> Update.new]]
  <2>0. \A k \in Keys : /\ k # Key => events'[k] = events[k]
                        /\ k = Key => events'[k].sha = Update.new
    BY <1>0, <1>1, <1>3 DEF TypeOK
  <2>1. Interrupted' /\ Shape'
    BY <1>0, <1>1 DEF Interrupted, Shape
  <2>2. Latest'
    <3>1. Key[1] = record.push /\ record.push <= record.push
      BY <1>0, <1>1 DEF TypeOK
    <3> QED
      BY <1>0, <1>1, <2>0, <3>1 DEF Latest
  <2>3. Finalized'
    <3>1. ASSUME NEW i \in 1..Len(record.updates), events'[<<record.push, record.updates[i].ref>>].out # "none"
          PROVE  events'[<<record.push, record.updates[i].ref>>].sha = record.updates[i].new
      <4>1. <<record.push, record.updates[i].ref>> \in Keys
        <5>0. record.updates \in Seq(RefUpdate) /\ record.push \in Pushes
          BY <1>0, <1>1, Constants DEF TypeOK, RefUpdate, Shape, Pushes
        <5>1. record.updates[i] \in RefUpdate /\ record.push \in Pushes
          BY <5>0, ElementOfSeq
        <5> QED
          BY <5>1 DEF RefUpdate, Keys
      <4>2. CASE <<record.push, record.updates[i].ref>> = Key
        <5>1. record.updates[i].ref = Update.ref
          BY <1>1, <4>2
        <5>2. record.updates[i].new = Update.new
          BY <1>0, <1>1, <5>1 DEF Finalized, Update
        <5> QED
          BY <2>0, <4>1, <4>2, <5>2
      <4>3. CASE <<record.push, record.updates[i].ref>> # Key
        BY <1>0, <2>0, <3>1, <4>1, <4>3 DEF Finalized
      <4> QED
        BY <4>2, <4>3
    <3> QED
      BY <1>0, <1>1, <3>1 DEF Finalized, Change, Restored
  <2>4. NoPushForgotten'
    <3> SUFFICES ASSUME NEW m \in moved, m.push # 0
                 PROVE  \/ events'[<<m.push, m.ref>>].out # "none" /\ events'[<<m.push, m.ref>>].sha = m.new
                        \/ InRecord(m)' \/ m.push \in abandoned' \/ Restored(m.ref)'
      BY <1>1 DEF NoPushForgotten
    <3>1. CASE InRecord(m)
      BY <1>1, <3>1 DEF InRecord
    <3>2. CASE events[<<m.push, m.ref>>].out # "none" /\ events[<<m.push, m.ref>>].sha = m.new
      <4>1. <<m.push, m.ref>> \in Keys
        BY <1>0, Constants DEF TypeOK, Keys, Pushes
      <4> QED
        BY <1>3, <2>0, <3>2, <4>1
    <3>3. CASE m.push \in abandoned \/ Restored(m.ref)
      BY <1>1, <3>3 DEF Restored
    <3> QED
      BY <1>0, <3>1, <3>2, <3>3 DEF NoPushForgotten
  <2>5. PushesAttributed'
    <3> SUFFICES ASSUME NEW k \in Keys, events'[k].out # "none"
                 PROVE  [push |-> k[1], ref |-> k[2], new |-> events'[k].sha] \in moved \/ Restored(k[2])
      BY <1>1 DEF PushesAttributed, Restored
    <3>1. CASE k = Key
      <4>1. k[1] = record.push /\ k[2] = Update.ref /\ events'[k].sha = Update.new
        BY <1>1, <2>0, <3>1
      <4>2. Change(Update.ref, Update.new) \in moved \/ Restored(Update.ref)
        BY <1>0, <1>1 DEF Finalized, Update
      <4> QED
        BY <4>1, <4>2 DEF Change
    <3>2. CASE k # Key
      BY <1>0, <2>0, <3>2 DEF PushesAttributed
    <3> QED
      BY <3>1, <3>2
  <2> QED
    BY <2>1, <2>2, <2>3, <2>4, <2>5 DEF RecordInv
<1> QED
  BY <1>1, <1>2, <1>3 DEF Commit, db

LEMMA CheckpointRecord ==
  ASSUME IntakeInv, Checkpoint
  PROVE  RecordInv'
<1>0. /\ TypeOK /\ RecordInv /\ Interrupted /\ Shape /\ Finalized /\ Latest /\ NoPushForgotten /\ PushesAttributed
  BY DEF IntakeInv, RecordInv
<1>1. record.state = "ready" /\ events[Key].out # "none" /\ record.updates # <<>>
  BY <1>0 DEF IntakeInv, Checkpoint, At, LockInv, Shape
<1>2. /\ record.next \in 1..Len(record.updates) /\ Len(record.updates) \in Nat /\ record.next \in Nat
      /\ Key = <<record.push, Update.ref>> /\ UNCHANGED <<mirror, moved, events, abandoned>>
  BY <1>0, <1>1, Delivered DEF Checkpoint, git, db
<1>3. events[Key].sha = Update.new
  BY <1>0, <1>1, <1>2 DEF Finalized, Update
<1>4. ASSUME NEW m \in moved, InRecord(m)
      PROVE  \/ events[<<m.push, m.ref>>].out # "none" /\ events[<<m.push, m.ref>>].sha = m.new
             \/ /\ record.push = m.push
                /\ \E i \in (record.next + 1)..Len(record.updates) :
                      record.updates[i].ref = m.ref /\ record.updates[i].new = m.new
  <2>1. m.push = record.push
    BY <1>4 DEF InRecord
  <2>2. PICK i \in record.next..Len(record.updates) : record.updates[i].ref = m.ref /\ record.updates[i].new = m.new
    BY <1>1, <1>4 DEF InRecord
  <2>3. CASE i = record.next
    BY <1>1, <1>2, <1>3, <2>1, <2>2, <2>3 DEF Update
  <2>4. CASE i # record.next
    <3>1. i \in (record.next + 1)..Len(record.updates)
      BY <1>2, <2>2, <2>4
    <3> QED
      BY <2>1, <2>2, <3>1
  <2> QED
    BY <2>3, <2>4
<1>5. CASE record.next = Len(record.updates)
  <2>1. record' = NoRecord
    BY <1>5 DEF Checkpoint
  <2>2. ~\E i \in (record.next + 1)..Len(record.updates) : TRUE
    BY <1>2, <1>5
  <2> QED
    BY <1>0, <1>2, <1>4, <2>1, <2>2, RecordGone
<1>6. CASE record.next # Len(record.updates)
  <2>1. /\ record'.state = "ready" /\ record'.push = record.push /\ record'.before = record.before
        /\ record'.updates = record.updates /\ record'.next = record.next + 1
    BY <1>0, <1>1, <1>6 DEF Checkpoint, TypeOK
  <2>2. Interrupted' /\ Latest' /\ Finalized' /\ PushesAttributed'
    BY <1>0, <1>1, <1>2, <2>1 DEF Interrupted, Latest, Finalized, PushesAttributed, Change, Restored
  <2>3. Shape'
    BY <1>0, <1>1, <1>2, <1>6, <2>1 DEF Shape
  <2>4. NoPushForgotten'
    BY <1>0, <1>2, <1>4, <2>1 DEF NoPushForgotten, InRecord, Restored
  <2> QED
    BY <2>2, <2>3, <2>4 DEF RecordInv
<1> QED
  BY <1>5, <1>6

LEMMA AbandonRecord ==
  ASSUME IntakeInv, OperatorAbandons
  PROVE  RecordInv'
<1>1. TypeOK /\ RecordInv
  BY DEF IntakeInv
<1>2. /\ record' = NoRecord /\ UNCHANGED <<mirror, moved, events>> /\ record.push \in abandoned'
      /\ \A p \in abandoned : p \in abandoned'
  BY DEF OperatorAbandons, git, db
<1>3. \A m \in moved : InRecord(m) => m.push \in abandoned'
  BY <1>2 DEF InRecord
<1> QED
  BY <1>1, <1>2, <1>3, RecordGone

LEMMA RestoreRecord ==
  ASSUME IntakeInv, NEW b \in Branches, DeletionAbandoned(b)
  PROVE  RecordInv'
<1>0. /\ TypeOK /\ RecordInv /\ Interrupted /\ Shape /\ Finalized /\ Latest /\ NoPushForgotten /\ PushesAttributed
      /\ b \in Refs
  BY Constants DEF IntakeInv, RecordInv
<1> DEFINE back == [push |-> 0, ref |-> b, new |-> mirror'[b]]
<1>1. /\ UNCHANGED <<record, events, abandoned>> /\ moved' = moved \cup {back}
      /\ \A f \in Refs : f # b => mirror'[f] = mirror[f]
  BY <1>0 DEF DeletionAbandoned, TypeOK
<1>2. back.push = 0 /\ back.ref = b
  OBVIOUS
<1> HIDE DEF back
<1>3. Restored(b)' /\ \A f \in Refs : Restored(f) => Restored(f)'
  BY <1>1, <1>2 DEF Restored
<1>4. Shape' /\ Latest'
  BY <1>0, <1>1 DEF Shape, Latest
<1>5. Finalized'
  <2>1. \A i \in 1..Len(record.updates) : record.updates[i].ref \in Refs
    <3>1. record.updates \in Seq(RefUpdate)
      BY <1>0 DEF TypeOK, RefUpdate
    <3>2. \A i \in 1..Len(record.updates) : record.updates[i] \in RefUpdate
      BY <3>1, ElementOfSeq
    <3> QED
      BY <3>2 DEF RefUpdate
  <2> QED
    BY <1>0, <1>1, <1>3, <2>1 DEF Finalized, Change
<1>6. PushesAttributed'
  <2>1. \A k \in Keys : k[2] \in Refs
    BY DEF Keys
  <2> QED
    BY <1>0, <1>1, <1>3, <2>1 DEF PushesAttributed
<1>7. ASSUME NEW m \in moved', m.push # 0
      PROVE  m \in moved /\ m.ref \in Refs
  BY <1>0, <1>1, <1>2, <1>7 DEF TypeOK
<1>8. Interrupted'
  <2> SUFFICES ASSUME record.state # "none", record.updates = <<>>
               PROVE  /\ \A f \in Refs : mirror'[f] = record.before[f] \/ Change(f, mirror[f])' \in moved' \/ Restored(f)'
                      /\ \A m \in moved' : m.push = record.push =>
                            (mirror'[m.ref] = m.new /\ record.before[m.ref] # m.new) \/ Restored(m.ref)'
                      /\ \A k \in Keys : events[k].out # "none" => k[1] # record.push
    BY <1>1 DEF Interrupted
  <2>1. ASSUME NEW f \in Refs
        PROVE  mirror'[f] = record.before[f] \/ Change(f, mirror[f])' \in moved' \/ Restored(f)'
    BY <1>0, <1>1, <1>3 DEF Interrupted, Change
  <2>2. ASSUME NEW m \in moved', m.push = record.push
        PROVE  (mirror'[m.ref] = m.new /\ record.before[m.ref] # m.new) \/ Restored(m.ref)'
    <3>1. m.push # 0
      BY <1>0, <2>2 DEF Shape, TypeOK
    <3>2. m \in moved /\ m.ref \in Refs
      BY <1>7, <3>1
    <3> QED
      BY <1>0, <1>1, <1>3, <2>2, <3>2 DEF Interrupted
  <2> QED
    BY <1>0, <2>1, <2>2 DEF Interrupted
<1>9. NoPushForgotten'
  <2> SUFFICES ASSUME NEW m \in moved', m.push # 0
               PROVE  \/ events'[<<m.push, m.ref>>].out # "none" /\ events'[<<m.push, m.ref>>].sha = m.new
                      \/ InRecord(m)' \/ m.push \in abandoned' \/ Restored(m.ref)'
    BY DEF NoPushForgotten
  <2>1. m \in moved /\ m.ref \in Refs
    BY <1>7
  <2>2. CASE m.ref = b
    BY <1>3, <2>2
  <2>3. CASE m.ref # b
    <3>1. InRecord(m) => InRecord(m)'
      BY <1>1, <2>1, <2>3 DEF InRecord
    <3> QED
      BY <1>0, <1>1, <1>3, <2>1, <3>1 DEF NoPushForgotten
  <2> QED
    BY <2>2, <2>3
<1> QED
  BY <1>4, <1>5, <1>6, <1>8, <1>9 DEF RecordInv

LEMMA RecordNext ==
  ASSUME IntakeInv, Next
  PROVE  RecordInv'
<1>0. TypeOK /\ RecordInv /\ Shape /\ LockInv
  BY DEF IntakeInv, RecordInv
<1>1. ASSUME UNCHANGED <<mirror, record, moved, events, abandoned>>
      PROVE  RecordInv'
  BY <1>0, <1>1, RecordFrame
<1>2. ASSUME Refresh
      PROVE  RecordInv'
  BY <1>0, <1>2, RecordFrame DEF Refresh, RefreshAllowed, db
<1>3. ASSUME EnsureReceive
      PROVE  RecordInv'
  BY <1>0, <1>3, RecordFrame DEF EnsureReceive, LockInv, At, db
<1>4. ASSUME FinalizeOwn \/ ReplayFinalizes
      PROVE  RecordInv'
  BY <1>0, <1>4, FinalizeRecord DEF FinalizeOwn, ReplayFinalizes, LockInv, At, db
<1>5. ASSUME GateRefuses
      PROVE  RecordInv'
  BY <1>0, <1>5, RecordMarked DEF GateRefuses, LockInv, Shape, At, git, db
<1>6. ASSUME ReplayQuarantined
      PROVE  RecordInv'
  <2>1. CASE UNCHANGED record
    BY <1>1, <1>6, <2>1 DEF ReplayQuarantined, git, db
  <2>2. CASE record' = [record EXCEPT !.state = IF record.updates = <<>> THEN "reserved" ELSE "ready"]
    <3>1. record.state = "quarantined" /\ UNCHANGED <<mirror, moved, events, abandoned>>
      BY <1>6 DEF ReplayQuarantined, git, db
    <3>2. CASE record.updates = <<>>
      BY <1>0, <2>2, <3>1, <3>2, RecordMarked
    <3>3. CASE record.updates # <<>>
      BY <1>0, <2>2, <3>1, <3>3, RecordMarked
    <3> QED
      BY <3>2, <3>3
  <2> QED
    BY <1>6, <2>1, <2>2 DEF ReplayQuarantined
<1>7. ASSUME OperatorQuarantines
      PROVE  RecordInv'
  BY <1>0, <1>7, RecordMarked DEF OperatorQuarantines, git, db
<1>8. ASSUME Receive \/ ReceiveFails
      PROVE  RecordInv'
  BY <1>1, <1>3, <1>4, <1>5, <1>6, <1>8, ReserveRecord, PackRecord, HandleRecord, CheckpointRecord
  DEF Receive, ReceiveFails, ReplayEnds, FinalizeFails, ReplayRefused, CheckpointFails, HandleFails, git, db
<1> QED
  BY <1>1, <1>2, <1>7, <1>8, AbandonRecord, RestoreRecord
  DEF Next, Begin, Upstream, UpstreamMoves, DeletionPropagates, Operator, OperatorRetries, SetCap, Crash, Startup,
      Drain, Running, OtherStarts, RunStarts, RunEnds, git, db

-----------------------------------------------------------------------------
(* The queue *)

LEMMA QueueFrame ==
  ASSUME Queue, Len(runs') = Len(runs), \A i \in 1..Len(runs) : runs'[i].key = runs[i].key,
         UNCHANGED <<deferred, events>>
  PROVE  Queue'
<1>1. \A k \in Keys : HasRun(k)' <=> HasRun(k)
  BY DEF HasRun
<1>2. \A k \in Keys : InBacklog(k)' <=> InBacklog(k)
  BY DEF InBacklog
<1> QED
  BY <1>1, <1>2 DEF Queue, InOrder

\* The newest event of a ref goes behind everything queued before.
LEMMA NewestIsLast ==
  ASSUME IntakeInv, record.state # "none", NEW k \in Keys, k[1] = record.push, events[k].out = "none"
  PROVE  /\ \A i \in 1..Len(runs) : runs[i].key \in Keys /\ runs[i].key # k /\ InOrder(runs[i].key, k)
         /\ \A i \in 1..Len(deferred) : deferred[i] \in Keys /\ deferred[i] # k /\ InOrder(deferred[i], k)
<1>0. TypeOK /\ Latest /\ Queue
  BY DEF IntakeInv, RecordInv
<1>1. ASSUME NEW e \in Keys, events[e].out = "queued"
      PROVE  e # k /\ InOrder(e, k)
  <2>1. e # k /\ e[1] <= k[1]
    BY <1>0, <1>1 DEF Latest
  <2>2. e[1] \in Nat /\ k[1] \in Nat /\ e = <<e[1], e[2]>> /\ k = <<k[1], k[2]>>
    BY DEF Keys, Pushes
  <2> QED
    BY <2>1, <2>2 DEF InOrder
<1>2. \A i \in 1..Len(runs) : runs[i].key \in Keys
  BY <1>0, RunKey
<1>3. \A i \in 1..Len(deferred) : deferred[i] \in Keys
  BY <1>0, ElementOfSeq DEF TypeOK
<1>4. \A i \in 1..Len(runs) : events[runs[i].key].out = "queued"
  BY <1>0, <1>2 DEF Queue, HasRun
<1>5. \A i \in 1..Len(deferred) : events[deferred[i]].out = "queued"
  BY <1>0, <1>3 DEF Queue, InBacklog
<1> QED
  BY <1>1, <1>2, <1>3, <1>4, <1>5

LEMMA CommitQueue ==
  ASSUME IntakeInv, NEW parks \in BOOLEAN, NEW ok \in BOOLEAN, HandleReceive(parks, ok)
  PROVE  Queue'
<1>0. TypeOK /\ Queue /\ Shape
  BY DEF IntakeInv, RecordInv
<1> DEFINE out == Outcome(parks)
           n == Len(runs)
           d == Len(deferred)
<1>1. /\ record.state = "ready" /\ Update \in RefUpdate /\ Key \in Keys /\ Key = <<record.push, Update.ref>>
      /\ out \in Outcomes \ {"none"} /\ (out = "deleted" => Update.ref \in Branches)
      /\ UNCHANGED db \/ Commit(out)
  BY <1>0, HandleCommits
<1>2. n \in Nat /\ d \in Nat
  BY <1>0, LenProperties DEF TypeOK
<1>3. CASE UNCHANGED db
  BY <1>0, <1>3, QueueFrame DEF db
<1>4. CASE events[Key].out = "none" /\ events' = [events EXCEPT ![Key] = [out |-> out, sha |-> Update.new]]
  <2> DEFINE k == Key
  <2> HIDE DEF out
  <2>1. /\ \A i \in 1..n : runs[i].key \in Keys /\ runs[i].key # k /\ InOrder(runs[i].key, k)
        /\ \A i \in 1..d : deferred[i] \in Keys /\ deferred[i] # k /\ InOrder(deferred[i], k)
    BY <1>1, <1>4, NewestIsLast
  <2>2. /\ k \in Keys /\ events'[k].out = out /\ \A e \in Keys : e # k => events'[e] = events[e]
        /\ k[2] = Update.ref
    BY <1>0, <1>1, <1>4 DEF TypeOK
  <2>3. ~HasRun(k) /\ ~InBacklog(k)
    BY <2>1 DEF HasRun, InBacklog
  <2>4. CASE out # "queued" /\ UNCHANGED <<deferred, runs>>
    <3>1. \A e \in Keys : (HasRun(e)' <=> HasRun(e)) /\ (InBacklog(e)' <=> InBacklog(e))
      BY <2>4 DEF HasRun, InBacklog
    <3>2. \A e \in Keys : events'[e].out = "queued" <=> HasRun(e)' \/ InBacklog(e)'
      BY <1>0, <2>2, <2>3, <2>4, <3>1 DEF Queue
    <3> QED
      BY <1>0, <2>4, <3>2 DEF Queue, InOrder
  <2>5. CASE /\ out = "queued" /\ MustDefer(Update.ref) /\ runs' = runs
             /\ Len(deferred') = d + 1 /\ deferred'[d + 1] = k /\ \A i \in 1..d : deferred'[i] = deferred[i]
    <3> HIDE DEF k, n, d
    <3>0. \A i \in 1..(d + 1) : i \in 1..d \/ i = d + 1
      BY <1>2
    <3>1. \A i \in 1..(d + 1) : deferred'[i] = IF i = d + 1 THEN k ELSE deferred[i]
      BY <2>5, <3>0
    <3>2. \A e \in Keys : (HasRun(e)' <=> HasRun(e)) /\ (InBacklog(e)' <=> InBacklog(e) \/ e = k)
      <4>1. \A e \in Keys : HasRun(e)' <=> HasRun(e)
        BY <2>5 DEF HasRun
      <4>2. ASSUME NEW e \in Keys
            PROVE  InBacklog(e)' <=> InBacklog(e) \/ e = k
        <5>1. InBacklog(e)' <=> \E i \in 1..(d + 1) : deferred'[i] = e
          BY <2>5 DEF InBacklog
        <5>2. d + 1 \in 1..(d + 1) /\ \A i \in 1..d : i \in 1..(d + 1)
          BY <1>2
        <5> QED
          BY <2>5, <3>0, <5>1, <5>2 DEF InBacklog, d
      <4> QED
        BY <4>1, <4>2
    <3>3. \A e \in Keys : events'[e].out = "queued" <=> HasRun(e)' \/ InBacklog(e)'
      BY <1>0, <2>2, <2>5, <3>2 DEF Queue
    <3>4. ASSUME NEW i \in 1..(d + 1), NEW j \in 1..(d + 1), i < j
          PROVE  InOrder(deferred'[i], deferred'[j])
      <4>1. i \in 1..d
        BY <1>2, <3>4
      <4>2. CASE j = d + 1
        BY <2>1, <2>5, <4>1, <4>2 DEF k, d
      <4>3. CASE j \in 1..d
        BY <1>0, <2>5, <3>4, <4>1, <4>3 DEF Queue, d
      <4> QED
        BY <3>0, <4>2, <4>3
    <3>5. ASSUME NEW i \in 1..n, NEW j \in 1..(d + 1)
          PROVE  InOrder(runs[i].key, deferred'[j])
      <4>1. CASE j = d + 1
        BY <2>1, <2>5, <4>1 DEF k, n
      <4>2. CASE j \in 1..d
        BY <1>0, <2>5, <4>2 DEF Queue, n, d
      <4> QED
        BY <3>0, <4>1, <4>2
    <3>6. \A i \in 1..(d + 1) : deferred'[i][2] \in Branches
      <4>1. k[2] \in Branches
        BY <2>2, <2>5 DEF MustDefer
      <4> QED
        BY <1>0, <2>5, <3>0, <4>1 DEF Queue, d
    <3> QED
      BY <1>0, <2>5, <3>3, <3>4, <3>5, <3>6 DEF Queue, InOrder, n
  <2>6. CASE out = "queued" /\ ~MustDefer(Update.ref) /\ runs' = Enqueued(k) /\ deferred' = deferred
    <3>0. \A i \in 1..(n + 1) : i \in 1..n \/ i = n + 1
      BY <1>2
    <3>1. /\ Len(runs') = n + 1 /\ runs'[n + 1] = [key |-> k, st |-> "queued"]
          /\ \A i \in 1..n : runs'[i].key = runs[i].key
      BY <1>0, <2>2, <2>6, EnqueuedJoins
    <3>11. runs'[n + 1].key = k
      BY <3>1
    <3> HIDE DEF k, n, d
    <3>2. \A e \in Keys : (HasRun(e)' <=> HasRun(e) \/ e = k) /\ (InBacklog(e)' <=> InBacklog(e))
      <4>1. \A e \in Keys : InBacklog(e)' <=> InBacklog(e)
        BY <2>6 DEF InBacklog
      <4>2. ASSUME NEW e \in Keys
            PROVE  HasRun(e)' <=> HasRun(e) \/ e = k
        <5>1. HasRun(e)' <=> \E i \in 1..(n + 1) : runs'[i].key = e
          BY <3>1 DEF HasRun
        <5>2. n + 1 \in 1..(n + 1) /\ \A i \in 1..n : i \in 1..(n + 1)
          BY <1>2
        <5> QED
          BY <3>0, <3>1, <3>11, <5>1, <5>2 DEF HasRun, n
      <4> QED
        BY <4>1, <4>2
    <3>3. \A e \in Keys : events'[e].out = "queued" <=> HasRun(e)' \/ InBacklog(e)'
      BY <1>0, <2>2, <2>6, <3>2 DEF Queue
    <3>4. ASSUME NEW i \in 1..(n + 1), NEW j \in 1..(n + 1), i < j
          PROVE  InOrder(runs'[i].key, runs'[j].key)
      <4>1. i \in 1..n
        BY <1>2, <3>4
      <4>2. CASE j = n + 1
        BY <2>1, <3>1, <3>11, <4>1, <4>2 DEF k, n
      <4>3. CASE j \in 1..n
        BY <1>0, <3>1, <3>4, <4>1, <4>3 DEF Queue, n
      <4> QED
        BY <3>0, <4>2, <4>3
    <3>5. ASSUME NEW i \in 1..(n + 1), NEW j \in 1..d
          PROVE  InOrder(runs'[i].key, deferred[j])
      <4>1. CASE i = n + 1
        <5>1. deferred[j][2] \in Branches /\ deferred # <<>>
          BY <1>0, <1>2 DEF Queue, d
        <5>2. Update.ref \notin Branches
          BY <2>6, <5>1 DEF MustDefer
        <5> QED
          BY <2>2, <3>11, <4>1, <5>1, <5>2 DEF InOrder
      <4>2. CASE i \in 1..n
        BY <1>0, <3>1, <4>2 DEF Queue, n, d
      <4> QED
        BY <3>0, <4>1, <4>2
    <3> QED
      BY <1>0, <2>6, <3>1, <3>3, <3>4, <3>5 DEF Queue, InOrder, d
  <2>7. \/ out # "queued" /\ UNCHANGED <<deferred, runs>>
        \/ /\ out = "queued" /\ MustDefer(Update.ref) /\ runs' = runs
           /\ Len(deferred') = d + 1 /\ deferred'[d + 1] = k /\ \A i \in 1..d : deferred'[i] = deferred[i]
        \/ out = "queued" /\ ~MustDefer(Update.ref) /\ runs' = Enqueued(k) /\ deferred' = deferred
        \/ UNCHANGED db
    <3>1. CASE Commit(out)
      BY <1>0, <1>1, <1>4, <3>1, CommitDoes
    <3> QED
      BY <1>1, <3>1
  <2> QED
    BY <1>3, <2>4, <2>5, <2>6, <2>7
<1> QED
  BY <1>1, <1>3, <1>4 DEF Commit

LEMMA DrainQueue ==
  ASSUME TypeOK, Queue, Drain
  PROVE  Queue'
<1> DEFINE n == Len(runs)
           d == Len(deferred)
           k == Head(deferred)
<1>1. /\ d \in Nat \ {0} /\ k = deferred[1] /\ k \in Keys /\ Len(deferred') = d - 1
      /\ \A i \in 1..(d - 1) : deferred'[i] = deferred[i + 1]
      /\ runs' = Enqueued(k) /\ events' = events
  BY DrainMoves DEF Drain
<1>2. /\ Len(runs') = n + 1 /\ runs'[n + 1] = [key |-> k, st |-> "queued"] /\ n \in Nat
      /\ \A i \in 1..n : runs'[i].key = runs[i].key
  BY <1>1, EnqueuedJoins
<1>3. runs'[n + 1].key = k
  BY <1>2
<1>4. \A i \in 1..(n + 1) : i \in 1..n \/ i = n + 1
  BY <1>2
<1>5. 1 \in 1..d /\ \A i \in 1..(d - 1) : i + 1 \in 1..d /\ 1 < i + 1
  BY <1>1
<1>6. \A i \in 1..d : i = 1 \/ \E j \in 1..(d - 1) : i = j + 1
  <2> SUFFICES ASSUME NEW i \in 1..d, i # 1
               PROVE  \E j \in 1..(d - 1) : i = j + 1
    OBVIOUS
  <2>1. i - 1 \in 1..(d - 1) /\ i = (i - 1) + 1
    BY <1>1
  <2> QED
    BY <2>1
<1> HIDE DEF k, n, d
<1>7. ASSUME NEW e \in Keys
      PROVE  HasRun(e)' \/ InBacklog(e)' <=> HasRun(e) \/ InBacklog(e)
  <2>1. HasRun(e)' <=> HasRun(e) \/ e = k
    <3>1. HasRun(e)' <=> \E i \in 1..(n + 1) : runs'[i].key = e
      BY <1>2 DEF HasRun
    <3>2. n + 1 \in 1..(n + 1) /\ \A i \in 1..n : i \in 1..(n + 1)
      BY <1>2
    <3> QED
      BY <1>2, <1>3, <1>4, <3>1, <3>2 DEF HasRun, n
  <2>2. InBacklog(e) <=> InBacklog(e)' \/ e = k
    <3>1. InBacklog(e)' <=> \E i \in 1..(d - 1) : deferred'[i] = e
      BY <1>1 DEF InBacklog
    <3>2. InBacklog(e) <=> \E i \in 1..d : deferred[i] = e
      BY DEF InBacklog, d
    <3>3. ASSUME NEW i \in 1..d, deferred[i] = e
          PROVE  e = k \/ \E j \in 1..(d - 1) : deferred'[j] = e
      <4>1. CASE i = 1
        BY <1>1, <3>3, <4>1
      <4>2. ASSUME NEW j \in 1..(d - 1), i = j + 1
            PROVE  deferred'[j] = e
        BY <1>1, <3>3, <4>2
      <4> QED
        BY <1>6, <4>1, <4>2
    <3>4. ASSUME NEW j \in 1..(d - 1), deferred'[j] = e
          PROVE  \E i \in 1..d : deferred[i] = e
      BY <1>1, <1>5, <3>4
    <3>5. e = k => \E i \in 1..d : deferred[i] = e
      BY <1>1, <1>5
    <3> QED
      BY <3>1, <3>2, <3>3, <3>4, <3>5
  <2> QED
    BY <2>1, <2>2
<1>8. \A e \in Keys : events'[e].out = "queued" <=> HasRun(e)' \/ InBacklog(e)'
  BY <1>1, <1>7 DEF Queue
<1>9. ASSUME NEW i \in 1..(n + 1), NEW j \in 1..(n + 1), i < j
      PROVE  InOrder(runs'[i].key, runs'[j].key)
  <2>1. i \in 1..n
    BY <1>2, <1>9
  <2>2. CASE j = n + 1
    BY <1>1, <1>2, <1>3, <1>5, <2>1, <2>2 DEF Queue, n, d
  <2>3. CASE j \in 1..n
    BY <1>2, <1>9, <2>1, <2>3 DEF Queue, n
  <2> QED
    BY <1>4, <2>2, <2>3
<1>10. ASSUME NEW i \in 1..(n + 1), NEW j \in 1..(d - 1)
       PROVE  InOrder(runs'[i].key, deferred'[j])
  <2>1. CASE i = n + 1
    BY <1>1, <1>3, <1>5, <2>1 DEF Queue, d
  <2>2. CASE i \in 1..n
    BY <1>1, <1>2, <1>5, <2>2 DEF Queue, n, d
  <2> QED
    BY <1>4, <2>1, <2>2
<1>11. ASSUME NEW i \in 1..(d - 1), NEW j \in 1..(d - 1), i < j
       PROVE  InOrder(deferred'[i], deferred'[j])
  <2>1. i + 1 < j + 1
    BY <1>11
  <2> QED
    BY <1>1, <1>5, <2>1 DEF Queue, d
<1>12. \A i \in 1..(d - 1) : deferred'[i][2] \in Branches
  BY <1>1, <1>5 DEF Queue, d
<1> QED
  BY <1>1, <1>2, <1>8, <1>9, <1>10, <1>11, <1>12 DEF Queue, InOrder

LEMMA QueueNext ==
  ASSUME IntakeInv, Next
  PROVE  Queue'
<1>0. TypeOK /\ Queue
  BY DEF IntakeInv
<1>1. ASSUME UNCHANGED <<runs, deferred, events>>
      PROVE  Queue'
  BY <1>0, <1>1, QueueFrame
<1>2. ASSUME NEW i \in 1..Len(runs), RunStarts(i) \/ \E green \in BOOLEAN : RunEnds(i, green)
      PROVE  Queue'
  <2>1. /\ UNCHANGED <<deferred, events>>
        /\ runs' = [runs EXCEPT ![i].st = "started"] \/ runs' = [runs EXCEPT ![i].st = "over"]
    BY <1>2 DEF RunStarts, RunEnds
  <2>2. Len(runs') = Len(runs) /\ \A j \in 1..Len(runs) : runs'[j].key = runs[j].key
    BY <1>0, <2>1, RunRewritten
  <2> QED
    BY <1>0, <2>1, <2>2, QueueFrame
<1>3. ASSUME Receive \/ ReceiveFails
      PROVE  Queue'
  BY <1>1, <1>3, CommitQueue
  DEF Receive, ReceiveFails, EnsureReceive, Reserve, FinalizeOwn, ReplayEnds, ReplayQuarantined, ReplayFinalizes,
      Checkpoint, Pack, GateRefuses, FinalizeFails, ReplayRefused, CheckpointFails, HandleFails, db
<1> QED
  BY <1>0, <1>1, <1>2, <1>3, DrainQueue
  DEF Next, Begin, Refresh, Upstream, UpstreamMoves, DeletionPropagates, DeletionAbandoned, Operator, OperatorRetries,
      OperatorAbandons, OperatorQuarantines, SetCap, Crash, Startup, Running, OtherStarts, db

-----------------------------------------------------------------------------
(* The theorems *)

LEMMA InvInit ==
  ASSUME Init
  PROVE  IntakeInv
<1>0. /\ MaxPushes \in Nat /\ 0 \in SHAs /\ Outside \in SHAs /\ 0 \in 0..MaxPushes /\ Branches \subseteq Refs
      /\ Deleted \subseteq Branches /\ <<>> \in Seq(RefUpdate) /\ <<>> \in Seq(Keys) /\ <<>> \in Seq(Run)
  BY Constants, RefsAssumption, EmptySeq
<1>1. /\ record = NoRecord /\ lk = Free /\ pushed = 0 /\ moved = {} /\ deferred = <<>> /\ runs = <<>>
      /\ events = [k \in Keys |-> NoEvent] /\ abandoned = {} /\ faults = 0 /\ up = TRUE
      /\ \A f \in Refs : mirror[f] = 0 /\ upstream[f] \in {0, Outside} /\ tracking[f] = upstream[f]
  BY DEF Init
<1>2. /\ record.state = "none" /\ record.push = 0 /\ record.updates = <<>> /\ record.next = 1
      /\ record.before = [f \in Refs |-> 0] /\ Len(record.updates) = 0
      /\ lk.by = "none" /\ lk.ph = "none" /\ lk.push = 0
      /\ \A k \in Keys : events[k].out = "none"
  BY <1>1 DEF NoRecord, Free, NoEvent
<1>3. TypeOK
  <2>1. GitType
    BY <1>0 DEF Init, GitType
  <2>2. RecordType
    <3>1. [f \in Refs |-> 0] \in [Refs -> SHAs] /\ 1 \in Nat \ {0}
      BY <1>0
    <3> QED
      BY <1>0, <1>1, <3>1 DEF RecordType, NoRecord
  <2>3. LockType
    BY <1>0, <1>1 DEF LockType, Free
  <2>4. RowType
    <3>1. NoEvent \in [out: Outcomes, sha: SHAs]
      BY <1>0 DEF NoEvent, Outcomes
    <3>2. others \in Nat /\ cap \in Caps /\ rows \subseteq Branches
      BY <1>0 DEF Init
    <3> QED
      BY <1>0, <1>1, <3>1, <3>2 DEF RowType
  <2>5. HistoryType
    BY <1>1 DEF HistoryType
  <2> QED
    BY <2>1, <2>2, <2>3, <2>4, <2>5, TypeSplits
<1>4. Bounded
  <2>1. Known = 0 /\ 0 \in Values /\ Outside \in Values
    BY <1>1, <1>2 DEF Known, Values
  <2> QED
    BY <1>1, <1>2, <2>1 DEF Bounded, BoundedRefs, BoundedRecord, BoundedHistory
<1>5. LockInv
  BY <1>2 DEF LockInv
<1>6. RecordInv
  BY <1>1, <1>2 DEF RecordInv, Interrupted, Shape, Finalized, Latest, NoPushForgotten, PushesAttributed
<1>7. Queue
  <2>1. Len(runs) = 0 /\ Len(deferred) = 0
    BY <1>1
  <2> QED
    BY <1>2, <2>1 DEF Queue, HasRun, InBacklog
<1> QED
  BY <1>3, <1>4, <1>5, <1>6, <1>7 DEF IntakeInv

LEMMA InvNext ==
  ASSUME IntakeInv, [Next]_vars
  PROVE  IntakeInv'
<1>1. CASE Next
  <2>1. TypeOK /\ LockInv /\ Shape
    BY DEF IntakeInv, RecordInv
  <2>2. TypeOK' /\ LockInv'
    BY <1>1, <2>1, TypeNext, LockNext
  <2>3. BoundedRefs' /\ BoundedRecord' /\ BoundedHistory' /\ RecordInv' /\ Queue'
    BY <1>1, BoundedRefsNext, BoundedRecordNext, BoundedHistoryNext, RecordNext, QueueNext
  <2> QED
    BY <2>2, <2>3 DEF IntakeInv, Bounded
<1>2. CASE UNCHANGED vars
  <2>0. /\ UNCHANGED <<mirror, tracking, owned, deleting, upstream, record, lk, up, pushed, events, deferred, rows,
                       runs, others, cap, abandoned, moved, faults>>
    BY <1>2 DEF vars, git, db
  <2>1. TypeOK'
    BY <2>0 DEF IntakeInv, TypeOK
  <2>2. Bounded' /\ LockInv'
    BY <2>0 DEF IntakeInv, Bounded, BoundedRefs, BoundedRecord, BoundedHistory, Values, Known, LockInv, Key, Update
  <2>3. RecordInv'
    BY <2>0, RecordFrame DEF IntakeInv
  <2>4. Queue'
    BY <2>0, QueueFrame DEF IntakeInv
  <2> QED
    BY <2>1, <2>2, <2>3, <2>4 DEF IntakeInv
<1> QED
  BY <1>1, <1>2

\* The invariant: whatever fails and wherever the server stops, the record, the
\* mirror and the receive events together tell what every push did.
THEOREM IntakeInvariant == Spec => []IntakeInv
<1>1. Init => IntakeInv
  BY InvInit
<1>2. IntakeInv /\ [Next]_vars => IntakeInv'
  BY InvNext
<1> QED
  BY <1>1, <1>2, PTL DEF Spec

\* The receive lock, its record and the tables keep their types: the record's
\* next event stays a position, a run's key stays an event id.
THEOREM IntakeTypes == Spec => []TypeOK
<1>1. IntakeInv => TypeOK
  BY DEF IntakeInv
<1> QED
  BY <1>1, IntakeInvariant, PTL

\* No accepted push is forgotten: gitcache's record and the receive events never
\* both lack what receive-pack did, for any number of crashes, failed gates,
\* failed callbacks and failed checkpoints.
THEOREM NoPushIsForgotten == Spec => []NoPushForgotten
<1>1. IntakeInv => NoPushForgotten
  BY DEF IntakeInv, RecordInv
<1> QED
  BY <1>1, IntakeInvariant, PTL

\* Nobody is credited with what they did not push: every receive event is a
\* change receive-pack made for that push, although the mirror is refreshed
\* between two receives.
THEOREM PushesAreAttributed == Spec => []PushesAttributed
<1>1. IntakeInv => PushesAttributed
  BY DEF IntakeInv, RecordInv
<1> QED
  BY <1>1, IntakeInvariant, PTL

LEMMA AtMostOne ==
  ASSUME NEW S, \A x, y \in S : x = y
  PROVE  Cardinality(S) = IF S = {} THEN 0 ELSE 1
<1>1. CASE S = {}
  BY <1>1, FS_EmptySet
<1>2. ASSUME NEW x \in S
      PROVE  Cardinality(S) = 1
  <2>1. S = {x}
    OBVIOUS
  <2> QED
    BY <2>1, FS_Singleton
<1> QED
  BY <1>1, <1>2

LEMMA QueuedOnce ==
  ASSUME TypeOK, Queue, NEW k \in Keys
  PROVE  Cardinality({i \in 1..Len(runs) : runs[i].key = k}) + Cardinality({i \in 1..Len(deferred) : deferred[i] = k})
           = IF events[k].out = "queued" THEN 1 ELSE 0
<1> DEFINE R == {i \in 1..Len(runs) : runs[i].key = k}
           D == {i \in 1..Len(deferred) : deferred[i] = k}
<1>1. Len(runs) \in Nat /\ Len(deferred) \in Nat /\ ~InOrder(k, k)
  <2>1. k[1] \in Nat
    BY DEF Keys, Pushes
  <2> QED
    BY <2>1, LenProperties DEF TypeOK, InOrder
<1>2. \A i, j \in R : i = j
  <2> SUFFICES ASSUME NEW i \in R, NEW j \in R, i < j
               PROVE  FALSE
    BY <1>1
  <2> QED
    BY <1>1 DEF Queue
<1>3. \A i, j \in D : i = j
  <2> SUFFICES ASSUME NEW i \in D, NEW j \in D, i < j
               PROVE  FALSE
    BY <1>1
  <2> QED
    BY <1>1 DEF Queue
<1>4. R = {} \/ D = {}
  BY <1>1 DEF Queue
<1>5. events[k].out = "queued" <=> R # {} \/ D # {}
  BY DEF Queue, HasRun, InBacklog
<1> HIDE DEF R, D
<1>6. Cardinality(R) = IF R = {} THEN 0 ELSE 1
  BY <1>2, AtMostOne
<1>7. Cardinality(D) = IF D = {} THEN 0 ELSE 1
  BY <1>3, AtMostOne
<1>8. Cardinality(R) + Cardinality(D) = IF events[k].out = "queued" THEN 1 ELSE 0
  BY <1>4, <1>5, <1>6, <1>7
<1> QED
  BY <1>8 DEF R, D

\* Exactly one run, or one place in the backlog, for every queued event: replays
\* of EnqueueReceiveEvent and drains of the backlog never make two of one push,
\* nor none.
THEOREM OneRunForEveryPush == Spec => []OneRunPerPush
<1>1. IntakeInv => OneRunPerPush
  BY QueuedOnce DEF IntakeInv, OneRunPerPush
<1> QED
  BY <1>1, IntakeInvariant, PTL

\* Runs of one ref are queued in push order, through the backlog and past it,
\* so that enqueueRunTx never supersedes a newer push by an older one.
THEOREM RunsGoInPushOrder == Spec => []RunsInPushOrder
<1>1. IntakeInv => RunsInPushOrder
  BY DEF IntakeInv, Queue, InOrder, RunsInPushOrder
<1> QED
  BY <1>1, IntakeInvariant, PTL

LEMMA QueuedFinite ==
  ASSUME NEW r \in Seq(Run)
  PROVE  LET q == {i \in 1..Len(r) : r[i].st = "queued"}
         IN Len(r) \in Nat /\ IsFiniteSet(q) /\ Cardinality(q) \in Nat
<1> DEFINE q == {i \in 1..Len(r) : r[i].st = "queued"}
<1>1. Len(r) \in Nat
  BY LenProperties
<1>2. IsFiniteSet(1..Len(r)) /\ q \in SUBSET (1..Len(r))
  BY <1>1, FS_Interval
<1>3. IsFiniteSet(q)
  BY <1>2, FS_Subset
<1>4. Cardinality(q) \in Nat
  BY <1>3, FS_CardinalityType
<1> QED
  BY <1>1, <1>3, <1>4

\* A new run adds at most one to those that have not started.
LEMMA EnqueuedCounts ==
  ASSUME TypeOK, NEW k \in Keys, runs' = Enqueued(k), others' = others
  PROVE  /\ NotStarted \in Nat /\ NotStarted' \in Nat /\ NotStarted' <= NotStarted + 1
         /\ runs'[Len(runs')].key = k
<1> DEFINE n == Len(runs)
           q == {i \in 1..Len(runs) : runs[i].st = "queued"}
           qq == {i \in 1..Len(runs') : runs'[i].st = "queued"}
<1>1. /\ runs' \in Seq(Run) /\ Len(runs') = n + 1 /\ runs'[n + 1] = [key |-> k, st |-> "queued"] /\ n \in Nat
      /\ \A i \in 1..n : runs'[i].st \in {runs[i].st, "over"}
  BY EnqueuedJoins
<1>2. runs \in Seq(Run) /\ others \in Nat
  BY DEF TypeOK, Run
<1>3. IsFiniteSet(q) /\ Cardinality(q) \in Nat
  BY <1>2, QueuedFinite
<1>4. IsFiniteSet(qq) /\ Cardinality(qq) \in Nat
  BY <1>1, QueuedFinite
<1>5. qq \in SUBSET (q \cup {n + 1}) /\ n + 1 \notin q
  BY <1>1
<1>6. NotStarted = others + Cardinality(q) /\ NotStarted' = others + Cardinality(qq)
  BY DEF NotStarted
<1> HIDE DEF q, qq
<1>7. IsFiniteSet(q \cup {n + 1}) /\ Cardinality(q \cup {n + 1}) = Cardinality(q) + 1
  BY <1>3, <1>5, FS_AddElement
<1>8. Cardinality(qq) <= Cardinality(q) + 1
  BY <1>5, <1>7, FS_Subset
<1>9. runs'[n + 1].key = k
  BY <1>1
<1> QED
  BY <1>1, <1>2, <1>3, <1>4, <1>6, <1>8, <1>9

LEMMA StatusCounts ==
  ASSUME TypeOK, NEW i \in 1..Len(runs), NEW st \in {"started", "over"}, runs' = [runs EXCEPT ![i].st = st],
         others' = others
  PROVE  NotStarted \in Nat /\ NotStarted' \in Nat /\ NotStarted' <= NotStarted
<1> DEFINE q == {j \in 1..Len(runs) : runs[j].st = "queued"}
           qq == {j \in 1..Len(runs') : runs'[j].st = "queued"}
<1>1. /\ runs' \in Seq(Run) /\ Len(runs') = Len(runs) /\ runs'[i].st = st
      /\ \A j \in 1..Len(runs) : j # i => runs'[j] = runs[j]
  BY RunRewritten
<1>2. runs \in Seq(Run) /\ others \in Nat
  BY DEF TypeOK, Run
<1>3. IsFiniteSet(q) /\ Cardinality(q) \in Nat
  BY <1>2, QueuedFinite
<1>4. IsFiniteSet(qq) /\ Cardinality(qq) \in Nat
  BY <1>1, QueuedFinite
<1>5. qq \in SUBSET q
  BY <1>1
<1>6. NotStarted = others + Cardinality(q) /\ NotStarted' = others + Cardinality(qq)
  BY DEF NotStarted
<1> HIDE DEF q, qq
<1>7. Cardinality(qq) <= Cardinality(q)
  BY <1>3, <1>5, FS_Subset
<1> QED
  BY <1>2, <1>3, <1>4, <1>6, <1>7

LEMMA CapNext ==
  ASSUME IntakeInv, [Next]_vars, NotStarted' > NotStarted, cap # 0, runs'[Len(runs')].key[2] \in Branches
  PROVE  NotStarted' <= cap
<1>0. TypeOK /\ Shape /\ cap \in Nat /\ others \in Nat /\ runs \in Seq(Run)
  BY BoundsAssumption DEF IntakeInv, RecordInv, TypeOK, Run
<1>1. NotStarted \in Nat
  <2>1. Cardinality({i \in 1..Len(runs) : runs[i].st = "queued"}) \in Nat
    BY <1>0, QueuedFinite
  <2> QED
    BY <1>0, <2>1 DEF NotStarted
<1>2. ASSUME UNCHANGED <<runs, others>>
      PROVE  FALSE
  <2>1. NotStarted' = NotStarted
    BY <1>2 DEF NotStarted
  <2> QED
    BY <1>1, <2>1
<1>3. ASSUME NEW k \in Keys, runs' = Enqueued(k), others' = others, k[2] \in Branches => NotStarted < cap
      PROVE  NotStarted' <= cap
  <2>1. NotStarted' \in Nat /\ NotStarted' <= NotStarted + 1 /\ runs'[Len(runs')].key = k
    BY <1>0, <1>3, EnqueuedCounts
  <2> QED
    BY <1>0, <1>1, <1>3, <2>1
<1>4. ASSUME NEW i \in 1..Len(runs), RunStarts(i) \/ \E green \in BOOLEAN : RunEnds(i, green)
      PROVE  FALSE
  <2>1. others' = others /\ (runs' = [runs EXCEPT ![i].st = "started"] \/ runs' = [runs EXCEPT ![i].st = "over"])
    BY <1>4 DEF RunStarts, RunEnds
  <2>2. NotStarted' \in Nat /\ NotStarted' <= NotStarted
    BY <1>0, <2>1, StatusCounts
  <2> QED
    BY <1>1, <2>2
<1>5. ASSUME OtherStarts
      PROVE  FALSE
  <2>1. others' = others - 1 /\ runs' = runs
    BY <1>5 DEF OtherStarts
  <2>2. Cardinality({i \in 1..Len(runs) : runs[i].st = "queued"}) \in Nat
    BY <1>0, QueuedFinite
  <2>3. NotStarted' = (others - 1) + Cardinality({i \in 1..Len(runs) : runs[i].st = "queued"})
    BY <2>1 DEF NotStarted
  <2>4. NotStarted = others + Cardinality({i \in 1..Len(runs) : runs[i].st = "queued"})
    BY DEF NotStarted
  <2> QED
    BY <1>0, <2>2, <2>3, <2>4
<1>6. ASSUME Drain
      PROVE  NotStarted' <= cap
  <2>1. Head(deferred) \in Keys /\ runs' = Enqueued(Head(deferred))
    BY <1>0, <1>6, DrainMoves
  <2>2. others' = others /\ NotStarted < cap
    BY <1>6 DEF Drain
  <2> QED
    BY <1>3, <2>1, <2>2
<1>7. ASSUME NEW parks \in BOOLEAN, NEW ok \in BOOLEAN, HandleReceive(parks, ok)
      PROVE  NotStarted' <= cap
  <2>1. /\ Update \in RefUpdate /\ Key \in Keys /\ Key = <<record.push, Update.ref>>
        /\ Outcome(parks) \in Outcomes \ {"none"} /\ (Outcome(parks) = "deleted" => Update.ref \in Branches)
        /\ UNCHANGED db \/ Commit(Outcome(parks))
    BY <1>0, <1>7, HandleCommits
  <2>2. \/ UNCHANGED <<runs, others>>
        \/ ~MustDefer(Update.ref) /\ runs' = Enqueued(Key) /\ others' = others
    <3>1. CASE UNCHANGED db
      BY <3>1 DEF db
    <3>2. CASE Commit(Outcome(parks))
      BY <1>0, <2>1, <3>1, <3>2, CommitDoes
    <3> QED
      BY <2>1, <3>1, <3>2
  <2>3. ASSUME ~MustDefer(Update.ref), Update.ref \in Branches
        PROVE  NotStarted < cap
    BY <1>0, <1>1, <2>3 DEF MustDefer
  <2>4. Key[2] = Update.ref
    BY <2>1
  <2> QED
    BY <1>2, <1>3, <2>1, <2>2, <2>3, <2>4
<1>8. ASSUME Receive \/ ReceiveFails
      PROVE  NotStarted' <= cap
  BY <1>2, <1>7, <1>8
  DEF Receive, ReceiveFails, EnsureReceive, Reserve, FinalizeOwn, ReplayEnds, ReplayQuarantined, ReplayFinalizes,
      Checkpoint, Pack, GateRefuses, FinalizeFails, ReplayRefused, CheckpointFails, HandleFails, db
<1>9. CASE UNCHANGED vars
  BY <1>2, <1>9 DEF vars, db
<1> QED
  BY <1>2, <1>4, <1>5, <1>6, <1>8, <1>9
  DEF Next, Begin, Refresh, Upstream, UpstreamMoves, DeletionPropagates, DeletionAbandoned, Operator, OperatorRetries,
      OperatorAbandons, OperatorQuarantines, SetCap, Crash, Startup, Running, db

\* The cap holds at every step: deferBranchTx and DrainDeferredBranch never let
\* a branch push take the installation past it.
THEOREM CapIsRespected == Spec => CapRespected
<1>1. IntakeInv /\ [Next]_vars =>
        [NotStarted' > NotStarted /\ cap # 0 /\ runs'[Len(runs')].key[2] \in Branches => NotStarted' <= cap]_vars
  BY CapNext
<1> QED
  BY <1>1, IntakeInvariant, PTL DEF Spec, CapRespected
=============================================================================
