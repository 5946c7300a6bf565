------------------------ MODULE AdmissionGate_proofs ------------------------
(***************************************************************************)
(* Proofs about the admission gate, for any number of runs, groups, limits *)
(* and ceilings and for any events: the gate's books are exact, a group    *)
(* never runs more Workflows than its limit, no wake is lost, grants go in *)
(* order, and a hold is enforced.                                          *)
(***************************************************************************)
EXTENDS AdmissionGate, FiniteSetTheorems, WellFoundedInduction, TLAPS

-----------------------------------------------------------------------------
(* The inductive invariant *)

\* gate.runs and gate.groups are what the reservations say.
Books ==
  /\ runs = Cardinality(Held)
  /\ \A g \in Groups : holders[g] = {r \in Held \ apart : GroupOf[r] = g}

\* Steps of an owner before the Workflow exists, and before it is marked submitted.
Admitted == {"granted", "checked", "posting", "created"}
Unsubmitted == Admitted \cup {"checkout", "acquire", "settle"}
\* Steps of an owner at which the Workflow may be there.
WithWorkflow == {"created", "marked", "undo", "observe", "settle", "fatal"}

\* What the row, the Workflow, the reservation and the owner of a run know of
\* each other, server up or down.
Owned(r) ==
  /\ row[r] = "queued" => /\ wk[r] = "none" /\ res[r] = "none" /\ wf[r] = "absent"
                          /\ ~pending[r] /\ ~owed[r] /\ ~sweep[r]
  /\ owed[r] \/ sweep[r] => row[r] \in {"cancelled", "over"}
  /\ wk[r] = "claimed" => res[r] = "none"
  /\ wk[r] \in Unsubmitted => ~submitted[r]
  /\ wk[r] = "acquire" => res[r] \in {"waiting", "granted", "abandoned"} \/ Operated(r)
  /\ wk[r] \in Admitted => res[r] = "granted" \/ Operated(r)
  /\ wk[r] \in {"marked", "observe"} /\ row[r] = "active" => res[r] = "granted" \/ Operated(r)
  /\ wk[r] = "fatal" /\ row[r] = "active" => res[r] = "retained" \/ Operated(r)
  /\ wk[r] = "undo" => row[r] # "active"
  /\ wk[r] = "settle" => pending[r] /\ (res[r] = "retained" \/ Operated(r))
  /\ wf[r] = "sent" => pending[r]
  /\ r \in apart => res[r] \in {"retained", "released"}

\* While the server is up, every Workflow and every unsettled create has an owner.
Served(r) ==
  /\ pending[r] => wk[r] = "settle"
  /\ wf[r] = "live" => wk[r] \in WithWorkflow

\* While it is down, only what recovery has restored is there.
Down(r) ==
  /\ wk[r] \in {"none", "observe", "settle"} /\ ~sweep[r] /\ ~Operated(r)
  /\ wk[r] = "none" => res[r] = "none"
  /\ wk[r] = "observe" => /\ res[r] = "granted" /\ row[r] = "active" /\ ~pending[r]
                          /\ wf[r] \in {"live", "done"}
  /\ wk[r] = "settle" => res[r] = "retained"

Owners ==
  /\ \A r \in Runs : Owned(r) /\ (IF Up THEN Served(r) ELSE Down(r))
  /\ op.view # "none" => op.run \in Runs
  /\ ~Up => ~pass.on /\ op.view = "none"

\* Members of a group agree on its limit, and the group fits it.
LimitsAgree ==
  \A a, b \in Prepared \ apart :
     GroupOf[a] = GroupOf[b] /\ GroupOf[a] # NoGroup => limit[a] = limit[b]

GroupsFit ==
  \A g \in Groups : \A r \in holders[g] : Cardinality(holders[g]) <= limit[r]

\* The waiters the pass has gone past are ahead of the others, and each of them
\* is still held or parked.
PassInOrder ==
  pass.on =>
    /\ \A o \in Waiters \cap pass.seen, w \in Waiters \ pass.seen : Before(o, w)
    /\ ~pass.stale => \A o \in Waiters \cap pass.seen :
                         AdminHeld(o) \/ (o \notin changing /\ GroupBlocked(o))

GateInv ==
  TypeOK /\ Books /\ Owners /\ LimitsAgree /\ GroupsFit /\ PassInOrder /\ NoMissedGrant

\* The gate's copy of the hold is not behind the table, once it is in force.
HoldInv == Up /\ updating = "no" => (holdRow => hold)

-----------------------------------------------------------------------------
(* Finite sets and the order of the queue *)

LEMMA FiniteRuns ==
  ASSUME NEW S, S \subseteq Runs
  PROVE  IsFiniteSet(S) /\ Cardinality(S) \in Nat
BY RunsAssumption, FS_Subset, FS_CardinalityType

LEMMA Fewer ==
  ASSUME NEW S, NEW T, S \subseteq Runs, T \subseteq S
  PROVE  Cardinality(T) <= Cardinality(S)
BY FiniteRuns, FS_Subset

LEMMA OneMore ==
  ASSUME NEW S, NEW r, S \cup {r} \subseteq Runs, r \notin S
  PROVE  Cardinality(S \cup {r}) = Cardinality(S) + 1
BY FiniteRuns, FS_AddElement

LEMMA OneLess ==
  ASSUME NEW S, NEW r \in S, S \subseteq Runs
  PROVE  Cardinality(S \ {r}) = Cardinality(S) - 1
BY FiniteRuns, FS_RemoveElement

\* admissionBefore is a strict total order of the runs.
LEMMA BeforeOrders ==
  ASSUME TypeOK, NEW a \in Runs, NEW b \in Runs
  PROVE  /\ ~(Before(a, b) /\ Before(b, a))
         /\ a = b \/ Before(a, b) \/ Before(b, a)
         /\ \A c \in Runs : Before(a, b) /\ Before(b, c) => Before(a, c)
BY RunsAssumption DEF TypeOK, Before

\* Waiters that are left have a first one: the loop always finds whom to look at.
LEMMA FirstWaiter ==
  ASSUME TypeOK, NEW W \in SUBSET Runs, W # {}
  PROVE  \E r \in W : \A o \in W : o = r \/ Before(r, o)
<1> DEFINE ahead(r) == {o \in W : Before(o, r)}
           T == {ahead(r) : r \in W}
<1>1. T \subseteq FiniteSubsetsOf(Runs)
  BY FiniteRuns DEF FiniteSubsetsOf
<1>2. T # {}
  OBVIOUS
<1>3. PICK x \in T : \A y \in T : <<y, x>> \notin StrictSubsetOrdering(Runs)
  BY <1>1, <1>2, FS_StrictSubsetOrderingWellFounded, WFMin
<1>4. PICK r \in W : x = ahead(r)
  OBVIOUS
<1>5. ASSUME NEW o \in W, o # r, ~Before(r, o)
      PROVE  FALSE
  <2>1. Before(o, r)
    BY <1>5, BeforeOrders
  <2>2. ahead(o) \subseteq ahead(r) /\ o \in ahead(r) /\ o \notin ahead(o)
    BY <2>1, BeforeOrders
  <2>3. <<ahead(o), ahead(r)>> \in StrictSubsetOrdering(Runs)
    BY <2>2 DEF StrictSubsetOrdering
  <2> QED
    BY <2>3, <1>3, <1>4
<1> QED
  BY <1>5

-----------------------------------------------------------------------------
(* The books: what a step may do to the grants *)

\* It changes nothing, or takes a waiter out, or lets a claim in.
Keeps == /\ Held' = Held /\ Prepared' \subseteq Prepared
         /\ UNCHANGED <<limit, apart, books>>

\* A grant comes back.
Gives(r) == /\ r \in Held /\ Held' = Held \ {r} /\ Prepared' \subseteq Prepared
            /\ runs' = runs - 1 /\ holders' = Quit(r) /\ UNCHANGED <<limit, apart>>

\* A grant is made, to a run of the gate or to one that is adopted in its group.
Takes(r) == /\ r \in Runs \ (Held \cup apart) /\ Held' = Held \cup {r}
            /\ Prepared' = Prepared \cup {r}
            /\ runs' = runs + 1 /\ holders' = Join(r) /\ UNCHANGED <<limit, apart>>
            /\ GroupOf[r] # NoGroup => Cardinality(holders[GroupOf[r]]) < limit[r]
            /\ \A o \in Prepared \ apart :
                  GroupOf[o] = GroupOf[r] /\ GroupOf[r] # NoGroup => limit[o] = limit[r]

\* A grant is restored without its group.
TakesApart(r) == /\ r \in Runs \ Held /\ Held' = Held \cup {r}
                 /\ Prepared' = Prepared \cup {r} /\ apart' = apart \cup {r}
                 /\ runs' = runs + 1 /\ UNCHANGED <<limit, holders>>

\* A claim has read its pipeline.
Prepares(r, n) == /\ r \in Runs \ Prepared /\ n \in Limits /\ ~LimitConflict(r, n)
                  /\ Held' = Held /\ Prepared' = Prepared \cup {r}
                  /\ limit' = [limit EXCEPT ![r] = n] /\ UNCHANGED <<apart, books>>

\* The process has ended.
Forgets == /\ Held' = {} /\ Prepared' = {} /\ runs' = 0 /\ holders' = [g \in Groups |-> {}]

Accounts == Books /\ LimitsAgree /\ GroupsFit

LEMMA KeepsAccounts ==
  ASSUME TypeOK, Accounts, Keeps
  PROVE  Accounts'
BY DEF Accounts, Keeps, books, Books, LimitsAgree, GroupsFit

LEMMA GivesAccounts ==
  ASSUME TypeOK, Accounts, NEW r, Gives(r)
  PROVE  Accounts'
<1>1. r \in Runs /\ Held \subseteq Runs
  BY DEF Gives, Held
<1>2. Books'
  <2>1. runs' = Cardinality(Held')
    BY <1>1, OneLess DEF Accounts, Books, Gives
  <2>2. ASSUME NEW g \in Groups
        PROVE  holders'[g] = {o \in Held' \ apart' : GroupOf[o] = g}
    BY <1>1 DEF Accounts, Books, Gives, Quit
  <2> QED
    BY <2>1, <2>2 DEF Books
<1>3. LimitsAgree'
  BY DEF Accounts, LimitsAgree, Gives
<1>4. ASSUME NEW g \in Groups, NEW o \in holders'[g]
      PROVE  Cardinality(holders'[g]) <= limit'[o]
  <2>1. holders[g] \subseteq Runs /\ holders'[g] \subseteq holders[g] /\ limit[o] \in Nat /\ o \in holders[g]
    BY <1>4 DEF Gives, Quit, TypeOK
  <2>2. Cardinality(holders'[g]) <= Cardinality(holders[g])
    BY <2>1, Fewer
  <2>3. Cardinality(holders[g]) <= limit[o] /\ Cardinality(holders[g]) \in Nat /\ Cardinality(holders'[g]) \in Nat
    BY <2>1, FiniteRuns DEF Accounts, GroupsFit
  <2> QED
    BY <2>1, <2>2, <2>3 DEF Gives
<1> QED
  BY <1>2, <1>3, <1>4 DEF Accounts, GroupsFit

LEMMA TakesAccounts ==
  ASSUME TypeOK, Accounts, NEW r, Takes(r)
  PROVE  Accounts'
<1>1. r \in Runs /\ Held \subseteq Runs
  BY DEF Takes, Held
<1>2. Books'
  <2>1. runs' = Cardinality(Held')
    BY <1>1, OneMore DEF Accounts, Books, Takes
  <2>2. ASSUME NEW g \in Groups
        PROVE  holders'[g] = {o \in Held' \ apart' : GroupOf[o] = g}
    BY <1>1 DEF Accounts, Books, Takes, Join
  <2> QED
    BY <2>1, <2>2 DEF Books
<1>3. LimitsAgree'
  BY DEF Accounts, LimitsAgree, Takes
<1>4. ASSUME NEW g \in Groups, NEW o \in holders'[g]
      PROVE  Cardinality(holders'[g]) <= limit'[o]
  <2>1. holders[g] \subseteq Runs /\ Cardinality(holders[g]) \in Nat
    BY FiniteRuns DEF TypeOK
  <2>2. CASE g # GroupOf[r]
    BY <2>2, <1>4 DEF Takes, Join, Accounts, GroupsFit
  <2>3. CASE g = GroupOf[r]
    <3>1. g # NoGroup
      BY GroupsAssumption
    <3>2. holders'[g] = holders[g] \cup {r} /\ r \notin holders[g]
      BY <2>3 DEF Takes, Join, Accounts, Books
    <3>3. Cardinality(holders'[g]) = Cardinality(holders[g]) + 1
      BY <3>2, <2>1, <1>1, OneMore
    <3>4. limit[o] = limit[r] /\ limit[r] \in Nat
      <4>1. CASE o = r
        BY <4>1, <1>1 DEF TypeOK
      <4>2. CASE o \in holders[g]
        <5>1. o \in Prepared \ apart /\ GroupOf[o] = g
          BY <4>2 DEF Accounts, Books, Held, Prepared
        <5> QED
          BY <5>1, <3>1, <2>3, <1>1 DEF Takes, TypeOK
      <4> QED
        BY <4>1, <4>2, <3>2, <1>4
    <3>5. Cardinality(holders[g]) < limit[r]
      BY <2>3, <3>1 DEF Takes
    <3> QED
      BY <3>3, <3>4, <3>5, <2>1 DEF Takes
  <2> QED
    BY <2>2, <2>3
<1> QED
  BY <1>2, <1>3, <1>4 DEF Accounts, GroupsFit

LEMMA TakesApartAccounts ==
  ASSUME TypeOK, Accounts, NEW r, TakesApart(r)
  PROVE  Accounts'
<1>1. r \in Runs /\ Held \subseteq Runs
  BY DEF TakesApart, Held
<1>2. runs' = Cardinality(Held')
  BY <1>1, OneMore DEF Accounts, Books, TakesApart
<1>3. ASSUME NEW g \in Groups
      PROVE  holders'[g] = {o \in Held' \ apart' : GroupOf[o] = g}
  BY <1>1 DEF Accounts, Books, TakesApart
<1> QED
  BY <1>2, <1>3 DEF Accounts, Books, LimitsAgree, GroupsFit, TakesApart

LEMMA PreparesAccounts ==
  ASSUME TypeOK, Accounts, NEW r, NEW n, Prepares(r, n)
  PROVE  Accounts'
<1>1. Books'
  BY DEF Accounts, Books, Prepares, books
<1>2. LimitsAgree'
  BY DEF Accounts, LimitsAgree, Prepares, LimitConflict, TypeOK
<1>3. ASSUME NEW g \in Groups, NEW o \in holders'[g]
      PROVE  o \in holders[g] /\ holders'[g] = holders[g] /\ limit'[o] = limit[o]
  <2>1. o \in holders[g] /\ holders'[g] = holders[g]
    BY <1>3 DEF Prepares, books
  <2>2. o \in Prepared
    BY <2>1 DEF Accounts, Books, Held, Prepared
  <2> QED
    BY <2>1, <2>2 DEF Prepares, TypeOK
<1>4. GroupsFit'
  BY <1>3 DEF Accounts, GroupsFit
<1> QED
  BY <1>1, <1>2, <1>4 DEF Accounts

LEMMA ForgetsAccounts ==
  ASSUME Forgets
  PROVE  Accounts'
BY FS_EmptySet DEF Forgets, Accounts, Books, LimitsAgree, GroupsFit

LEMMA ReleaseEffect ==
  ASSUME TypeOK, NEW r \in Runs, NEW clear \in BOOLEAN, Release(r, clear)
  PROVE  Keeps \/ Gives(r)
BY DEF TypeOK, Release, Keeps, Gives, Held, Prepared, books, rules

LEMMA CancelEffect ==
  ASSUME TypeOK, NEW r \in Runs, Cancel(r)
  PROVE  Keeps \/ Gives(r)
<1>1. CASE res[r] \in {"preparing", "waiting"}
  BY <1>1 DEF TypeOK, Cancel, Keeps, Held, Prepared, books, rules
<1>2. CASE res[r] \notin {"preparing", "waiting"}
  BY <1>2, ReleaseEffect DEF Cancel
<1> QED
  BY <1>1, <1>2

LEMMA AbandonEffect ==
  ASSUME TypeOK, NEW r \in Runs, Abandon(r)
  PROVE  Keeps
BY DEF TypeOK, Abandon, Keeps, Held, Prepared, books, rules, gate, rsv

LEMMA QuietKeeps ==
  ASSUME UNCHANGED <<res, limit, apart, books>>
  PROVE  Keeps
BY DEF Keeps, Held, Prepared, books

LEMMA RetainKeeps ==
  ASSUME TypeOK, NEW r \in Runs, res' = Retained(r), UNCHANGED <<limit, apart, books>>
  PROVE  Keeps
BY DEF TypeOK, Retained, Keeps, Held, Prepared, books

LEMMA AdoptEffect ==
  ASSUME TypeOK, Accounts, NEW r \in Runs, res[r] = "none", Owned(r), NEW state \in {"granted", "retained"},
         Adopt(r, state), \A o \in Runs : Down(o)
  PROVE  Takes(r) \/ TakesApart(r)
<1>1. r \notin Held /\ r \notin apart /\ Held' = Held \cup {r} /\ Prepared' = Prepared \cup {r}
  BY DEF TypeOK, Adopt, Held, Prepared, Owned
<1>2. CASE GroupRefuses(r)
  BY <1>1, <1>2 DEF Adopt, TakesApart
<1>3. CASE ~GroupRefuses(r)
  <2>1. ASSUME GroupOf[r] # NoGroup
        PROVE  Cardinality(holders[GroupOf[r]]) < limit[r]
    <3>1. GroupOf[r] \in Groups
      BY <2>1, GroupsAssumption
    <3>2. Cardinality(holders[GroupOf[r]]) \in Nat
      BY <3>1, FiniteRuns DEF TypeOK
    <3> QED
      BY <2>1, <3>2, <1>3 DEF GroupRefuses, TypeOK
  <2>2. ASSUME NEW o \in Prepared \ apart, GroupOf[o] = GroupOf[r], GroupOf[r] # NoGroup
        PROVE  limit[o] = limit[r]
    <3>1. o \in Held
      BY DEF Prepared, Held, Down
    <3>2. GroupOf[r] \in Groups
      BY <2>2, GroupsAssumption
    <3>3. o \in holders[GroupOf[r]]
      BY <2>2, <3>1, <3>2 DEF Accounts, Books
    <3> QED
      BY <2>2, <3>3, <1>3 DEF GroupRefuses
  <2> QED
    BY <1>1, <1>3, <2>1, <2>2 DEF Adopt, Takes
<1> QED
  BY <1>2, <1>3

\* No step, of whoever, puts the books out.
LEMMA AccountsNext ==
  ASSUME TypeOK, Accounts, Owners, Next
  PROVE  Accounts'
<1> USE KeepsAccounts
<1> SUFFICES ASSUME ~Keeps
             PROVE  Accounts'
  OBVIOUS
<1>1. ASSUME UNCHANGED <<res, limit, apart, books>>
      PROVE  FALSE
  BY <1>1, QuietKeeps
<1>2. ASSUME GatePass
      PROVE  Accounts'
  <2>1. PICK r \in Runs : PassGrants(r)
    BY <1>1, <1>2 DEF GatePass, PassStops, PassSkips, rsv
  <2>2. res[r] = "waiting" /\ ~GroupBlocked(r)
    BY <2>1 DEF PassGrants, Upcoming, Waiters, Stops
  <2>3. r \in Runs \ (Held \cup apart) /\ Held' = Held \cup {r} /\ r \in Prepared /\ Prepared' = Prepared
    BY <2>1, <2>2 DEF PassGrants, TypeOK, Held, Prepared, Owners, Owned
  <2>4. ASSUME GroupOf[r] # NoGroup
        PROVE  Cardinality(holders[GroupOf[r]]) < limit[r]
    <3>1. Cardinality(holders[GroupOf[r]]) \in Nat
      BY <2>4, GroupsAssumption, FiniteRuns DEF TypeOK
    <3> QED
      BY <2>2, <2>4, <3>1 DEF GroupBlocked, TypeOK
  <2>5. \A o \in Prepared \ apart : GroupOf[o] = GroupOf[r] /\ GroupOf[r] # NoGroup => limit[o] = limit[r]
    BY <2>3 DEF Accounts, LimitsAgree
  <2>6. Takes(r)
    BY <2>1, <2>3, <2>4, <2>5 DEF Takes, PassGrants
  <2> QED
    BY <2>6, TakesAccounts
<1>3. ASSUME Dispatch
      PROVE  FALSE
  <2>1. PICK r \in Runs : Reserve(r)
    BY <1>1, <1>3 DEF Dispatch, LoopStart, Claim, LoopEnd, rsv
  <2>2. res[r] = "none"
    BY <2>1 DEF Reserve, Owners, Owned
  <2> QED
    BY <2>1, <2>2 DEF Reserve, TypeOK, Keeps, Held, Prepared
<1>4. ASSUME NEW r \in Runs, Owner(r) \/ OwnerFails(r)
      PROVE  Accounts'
  <2>1. ASSUME NEW n \in Limits, Acquire(r, n), res[r] = "preparing", ~LimitConflict(r, n)
        PROVE  Accounts'
    <3>1. Prepares(r, n)
      BY <2>1 DEF Acquire, Prepares, TypeOK, Held, Prepared
    <3> QED
      BY <3>1, PreparesAccounts
  <2>2. CASE Gives(r)
    BY <2>2, GivesAccounts
  <2>3. ASSUME NEW n \in Limits, Acquire(r, n), ~(res[r] = "preparing" /\ ~LimitConflict(r, n))
        PROVE  Gives(r)
    BY <2>3, CancelEffect DEF Acquire
  <2>4. ASSUME Leave(r)
        PROVE  Gives(r)
    BY <2>4, CancelEffect DEF Leave
  <2>5. ASSUME NEW ok \in BOOLEAN, OwnerDeletes(r, ok)
        PROVE  Gives(r)
    BY <2>5, ReleaseEffect, RetainKeeps DEF OwnerDeletes
  <2>6. ASSUME ObserveEnds(r) \/ SettleCreate(r)
        PROVE  Gives(r)
    BY <2>6, ReleaseEffect DEF ObserveEnds, SettleCreate
  <2>7. ASSUME NEW fate, CreateAmbiguous(r, fate)
        PROVE  FALSE
    BY <2>7, RetainKeeps DEF CreateAmbiguous
  <2> QED
    BY <1>1, <1>4, <2>1, <2>2, <2>3, <2>4, <2>5, <2>6, <2>7
    DEF Owner, OwnerFails, Wake, Recheck, BeginCreate, CreateAnswered, MarkSubmitted,
        MarkRunSubmitted, Record, LeaveCheckout, FailBeforeCreate, gate, rsv
<1>5. ASSUME NEW r \in Runs, Sweeper(r)
      PROVE  Accounts'
  <2>1. ASSUME AbandonAdmission(r)
        PROVE  FALSE
    BY <2>1, AbandonEffect DEF AbandonAdmission
  <2>2. ASSUME SweepRelease(r)
        PROVE  Gives(r)
    BY <1>1, <2>2, ReleaseEffect DEF SweepRelease, gate, rsv
  <2> QED
    BY <1>1, <1>5, <2>1, <2>2, GivesAccounts DEF Sweeper, SweepDelete, CloseNameless, gate, rsv
<1>6. ASSUME RequestGoesOn
      PROVE  Accounts'
  <2>1. CASE OperatorReleases
    <3>1. op.run \in Runs
      BY <2>1 DEF OperatorReleases, Owners
    <3>2. Gives(op.run)
      BY <2>1, <3>1, ReleaseEffect, AbandonEffect DEF OperatorReleases
    <3> QED
      BY <3>2, GivesAccounts
  <2> QED
    BY <1>1, <1>6, <2>1 DEF RequestGoesOn, HoldWrites, HoldApplies, BumpEnds, OperatorVerifies,
       OperatorRefused, gate, rsv
<1>7. ASSUME Exit \/ Crash
      PROVE  Accounts'
  BY <1>7, ForgetsAccounts DEF Exit, Crash, Stop, Forgets, Held, Prepared
<1>8. ASSUME NEW r \in Runs, RecoverRun(r)
      PROVE  Accounts'
  <2>1. Owned(r) /\ \A o \in Runs : Down(o)
    BY <1>8 DEF RecoverRun, Owners, Up
  <2>2. Takes(r) \/ TakesApart(r)
    BY <1>1, <1>8, <2>1, AdoptEffect DEF RecoverRun, gate, rsv
  <2> QED
    BY <2>2, TakesAccounts, TakesApartAccounts
<1> QED
  BY <1>1, <1>2, <1>3, <1>4, <1>5, <1>6, <1>7, <1>8
  DEF Next, Progress, Recovery, Request, Cluster, WorkflowEnds, LateCreate, OperatorUnblocks, Start,
      HoldBegins, ChangeCapacity, BumpBegins, PriorityAges, OperatorLooks, CancelRun, HoldExpires,
      HostFills, HostRecovers, gate, rsv

-----------------------------------------------------------------------------
(* Types *)

RsvType == /\ res \in [Runs -> States] /\ submitted \in [Runs -> BOOLEAN] /\ apart \subseteq Runs
           /\ limit \in [Runs -> Nat] /\ prio \in [Runs -> {0, 1}]
BookType == holders \in [Groups -> SUBSET Runs]
PassType == pass \in [on: BOOLEAN, seen: SUBSET Runs, stale: BOOLEAN]
RuleType == /\ maxRuns \in Sizes /\ hold \in BOOLEAN /\ changing \subseteq Runs
            /\ updating \in {"no", "writing", "saved", "failed"}
GateType == RsvType /\ BookType /\ PassType /\ RuleType

LEMMA TypeParts == TypeOK => GateType
BY DEF TypeOK, GateType, RsvType, BookType, PassType, RuleType

LEMMA GrantType ==
  ASSUME PassType, Grant
  PROVE  PassType'
BY DEF Grant, GrantIf, NoPass, PassType

LEMMA ReleaseType ==
  ASSUME GateType, NEW r \in Runs, NEW clear, Release(r, clear)
  PROVE  GateType'
<1>1. RsvType'
  BY DEF GateType, RsvType, Release, States
<1>2. BookType'
  BY DEF GateType, BookType, Release, Quit, books
<1>3. PassType'
  BY GrantType DEF GateType, Release, PassType
<1>4. RuleType'
  BY DEF GateType, RuleType, Release, rules
<1> QED
  BY <1>1, <1>2, <1>3, <1>4 DEF GateType

LEMMA AbandonType ==
  ASSUME GateType, NEW r \in Runs, Abandon(r)
  PROVE  GateType'
<1>1. RsvType' /\ BookType' /\ RuleType'
  BY DEF GateType, RsvType, BookType, RuleType, Abandon, States, books, rules, gate, rsv
<1>2. PassType'
  BY GrantType DEF GateType, Abandon, PassType, gate
<1> QED
  BY <1>1, <1>2 DEF GateType

LEMMA CancelType ==
  ASSUME GateType, NEW r \in Runs, Cancel(r)
  PROVE  GateType'
<1>1. CASE res[r] \in {"preparing", "waiting"}
  <2>1. RsvType' /\ BookType' /\ RuleType'
    BY <1>1 DEF GateType, RsvType, BookType, RuleType, Cancel, States, books, rules
  <2>2. PassType'
    BY <1>1, GrantType DEF GateType, Cancel
  <2> QED
    BY <2>1, <2>2 DEF GateType
<1>2. CASE res[r] \notin {"preparing", "waiting"}
  BY <1>2, ReleaseType DEF Cancel
<1> QED
  BY <1>1, <1>2

LEMMA RetainType ==
  ASSUME GateType, NEW r \in Runs, res' = Retained(r), submitted' \in [Runs -> BOOLEAN],
         UNCHANGED <<limit, apart, prio, books, rules, pass>>
  PROVE  GateType'
BY DEF GateType, RsvType, BookType, RuleType, PassType, Retained, States, books, rules

LEMMA AdoptType ==
  ASSUME GateType, NEW r \in Runs, NEW state \in {"granted", "retained"}, Adopt(r, state)
  PROVE  GateType'
<1>1. RsvType'
  BY DEF GateType, RsvType, Adopt, States
<1>2. BookType'
  BY DEF GateType, BookType, Adopt, Join
<1>3. RuleType' /\ PassType'
  BY DEF GateType, RuleType, PassType, Adopt, rules
<1> QED
  BY <1>1, <1>2, <1>3 DEF GateType

LEMMA QuietType ==
  ASSUME GateType, UNCHANGED gate
  PROVE  GateType'
BY DEF GateType, RsvType, BookType, RuleType, PassType, gate, rsv, books, rules

\* The table, the Workflows, the host and the actors.
RestType ==
  /\ row \in [Runs -> {"queued", "active", "cancelled", "over"}]
  /\ pending \in [Runs -> BOOLEAN] /\ owed \in [Runs -> BOOLEAN]
  /\ holdRow \in BOOLEAN /\ bumped \in [Runs -> {0, 1}]
  /\ wf \in [Runs -> {"absent", "sent", "live", "done"}]
  /\ host \in BOOLEAN
  /\ wk \in [Runs -> {"none", "claimed", "checkout", "acquire", "granted", "checked",
                      "posting", "created", "marked", "undo", "observe", "record", "settle",
                      "leave", "fatal"}]
  /\ intent \in [Runs -> {"none", "reserved", "cancelled"}]
  /\ sweep \in [Runs -> BOOLEAN]
  /\ op \in [run: Runs \cup {0}, view: States, sure: BOOLEAN, freed: SUBSET Runs]
  /\ loop \in {"down", "idle", "claiming"}
  /\ events \in Nat

LEMMA TypeSplits == TypeOK <=> GateType /\ RestType /\ runs \in Nat
BY DEF TypeOK, GateType, RsvType, BookType, PassType, RuleType, RestType

LEMMA GateTypeNext ==
  ASSUME TypeOK, Owners, Next
  PROVE  GateType'
<1> USE TypeParts
<1>1. ASSUME GatePass
      PROVE  GateType'
  <2>1. ASSUME NEW r \in Runs, PassGrants(r)
        PROVE  GateType'
    <3>1. RsvType' /\ RuleType' /\ PassType'
      BY <2>1 DEF GateType, PassGrants, RsvType, RuleType, PassType, States, rules
    <3>2. BookType'
      BY <2>1 DEF GateType, PassGrants, BookType, Join
    <3> QED
      BY <3>1, <3>2 DEF GateType
  <2>2. ASSUME PassStops \/ \E r \in Runs : PassSkips(r)
        PROVE  GateType'
    <3>1. RsvType' /\ BookType' /\ RuleType'
      BY <2>2 DEF PassStops, PassSkips, GateType, RsvType, BookType, RuleType, rsv, books, rules
    <3>2. PassType'
      BY <2>2 DEF PassStops, PassSkips, GateType, PassType, NoPass
    <3> QED
      BY <3>1, <3>2 DEF GateType
  <2> QED
    BY <1>1, <2>1, <2>2 DEF GatePass
<1>2. ASSUME Dispatch
      PROVE  GateType'
  <2>1. BookType' /\ RuleType'
    BY <1>2 DEF Dispatch, LoopStart, Claim, Reserve, LoopEnd, GateType, BookType, RuleType, books,
       rules
  <2>2. PassType'
    BY <1>2, GrantType DEF Dispatch, LoopStart, Claim, Reserve, LoopEnd, GateType, PassType, Relax
  <2>3. RsvType'
    <3>1. bumped \in [Runs -> {0, 1}]
      BY DEF TypeOK
    <3> QED
      BY <1>2, <3>1 DEF Dispatch, LoopStart, Claim, Reserve, LoopEnd, GateType, RsvType, States, rsv
  <2> QED
    BY <2>1, <2>2, <2>3 DEF GateType
<1>3. ASSUME NEW r \in Runs, Owner(r) \/ OwnerFails(r)
      PROVE  GateType'
  <2>1. ASSUME NEW n \in Limits, Acquire(r, n)
        PROVE  GateType'
    <3>1. CASE res[r] = "preparing" /\ ~LimitConflict(r, n)
      <4>1. RsvType'
        BY <2>1, <3>1, LimitsAssumption DEF Acquire, GateType, RsvType, States
      <4>2. BookType' /\ RuleType' /\ PassType'
        BY <2>1, <3>1, GrantType DEF Acquire, GateType, BookType, RuleType, books, rules
      <4> QED
        BY <4>1, <4>2 DEF GateType
    <3>2. CASE ~(res[r] = "preparing" /\ ~LimitConflict(r, n))
      BY <2>1, <3>2, CancelType DEF Acquire
    <3> QED
      BY <3>1, <3>2
  <2>2. ASSUME Leave(r)
        PROVE  GateType'
    BY <2>2, CancelType DEF Leave
  <2>3. ASSUME NEW ok \in BOOLEAN, OwnerDeletes(r, ok)
        PROVE  GateType'
    <3>1. CASE ok
      BY <2>3, <3>1, ReleaseType DEF OwnerDeletes
    <3>2. CASE ~ok
      BY <2>3, <3>2, RetainType DEF OwnerDeletes, GateType, RsvType
    <3> QED
      BY <3>1, <3>2
  <2>4. ASSUME ObserveEnds(r) \/ SettleCreate(r)
        PROVE  GateType'
    BY <2>4, ReleaseType DEF ObserveEnds, SettleCreate
  <2>5. ASSUME NEW fate, CreateAmbiguous(r, fate)
        PROVE  GateType'
    BY <2>5, RetainType DEF CreateAmbiguous, GateType, RsvType
  <2>6. ASSUME MarkSubmitted(r)
        PROVE  GateType'
    BY <2>6 DEF MarkSubmitted, GateType, RsvType, BookType, RuleType, PassType, books, rules
  <2> QED
    BY <1>3, <2>1, <2>2, <2>3, <2>4, <2>5, <2>6, QuietType
    DEF Owner, OwnerFails, Wake, Recheck, BeginCreate, CreateAnswered,
        MarkRunSubmitted, Record, LeaveCheckout, FailBeforeCreate
<1>4. ASSUME NEW r \in Runs, Sweeper(r)
      PROVE  GateType'
  BY <1>4, QuietType, ReleaseType, AbandonType
  DEF Sweeper, AbandonAdmission, SweepDelete, SweepRelease, CloseNameless
<1>5. ASSUME RequestGoesOn
      PROVE  GateType'
  <2>1. CASE OperatorReleases
    <3>1. op.run \in Runs
      BY <2>1 DEF OperatorReleases, Owners
    <3> QED
      BY <2>1, <3>1, ReleaseType, AbandonType DEF OperatorReleases
  <2>2. ASSUME NEW a, NEW b, HoldWrites(a, b)
        PROVE  GateType'
    BY <2>2 DEF HoldWrites, GateType, RsvType, BookType, RuleType, PassType, rsv, books
  <2>3. ASSUME NEW a, HoldApplies(a)
        PROVE  GateType'
    <3>1. holdRow \in BOOLEAN
      BY DEF TypeOK
    <3> QED
      BY <2>3, <3>1 DEF HoldApplies, GrantIf, NoPass, GateType, RsvType, BookType, RuleType, PassType, rsv, books
  <2>4. ASSUME NEW r \in Runs, NEW a \in BOOLEAN, NEW b \in BOOLEAN, BumpEnds(r, a, b)
        PROVE  GateType'
    <3>1. RsvType' /\ BookType' /\ RuleType'
      BY <2>4 DEF BumpEnds, GateType, RsvType, BookType, RuleType, books
    <3>2. PassType'
      BY <2>4, GrantType DEF BumpEnds, GateType
    <3> QED
      BY <3>1, <3>2 DEF GateType
  <2> QED
    BY <1>5, <2>1, <2>2, <2>3, <2>4, QuietType DEF RequestGoesOn, OperatorVerifies, OperatorRefused
<1>6. ASSUME Exit \/ Crash
      PROVE  GateType'
  <2>1. Stop
    BY <1>6 DEF Exit, Crash
  <2>2. RsvType'
    BY <2>1 DEF Stop, GateType, RsvType, States
  <2>3. BookType' /\ RuleType' /\ PassType'
    BY <2>1 DEF Stop, GateType, BookType, RuleType, PassType, NoPass
  <2> QED
    BY <2>2, <2>3 DEF GateType
<1>7. ASSUME NEW r \in Runs, RecoverRun(r)
      PROVE  GateType'
  BY <1>7, AdoptType, QuietType DEF RecoverRun
<1>8. ASSUME HoldBegins \/ (\E n \in Sizes : ChangeCapacity(n)) \/ (\E r \in Runs : BumpBegins(r))
      PROVE  GateType'
  <2>1. RsvType' /\ BookType' /\ RuleType'
    BY <1>8 DEF HoldBegins, ChangeCapacity, BumpBegins, GateType, RsvType, BookType, RuleType, rsv, books
  <2>2. PassType'
    BY <1>8, GrantType DEF HoldBegins, ChangeCapacity, BumpBegins, GateType, PassType
  <2> QED
    BY <2>1, <2>2 DEF GateType
<1>9. ASSUME HoldExpires \/ HostRecovers \/ Start
      PROVE  GateType'
  <2>1. holdRow \in BOOLEAN
    BY DEF TypeOK
  <2> QED
    BY <1>9, <2>1 DEF HoldExpires, HostRecovers, Start, Relax, GateType, RsvType, BookType, RuleType,
                      PassType, rsv, books, rules
<1>10. ASSUME NEW r \in Runs, PriorityAges(r)
      PROVE  GateType'
  BY <1>10 DEF PriorityAges, Relax, GateType, RsvType, BookType, RuleType, PassType, books, rules
<1> QED
  BY <1>1, <1>2, <1>3, <1>4, <1>5, <1>6, <1>7, <1>8, <1>9, <1>10, QuietType
  DEF Next, Progress, Recovery, Request, Cluster, WorkflowEnds, LateCreate, OperatorUnblocks,
      OperatorLooks, CancelRun, HostFills

LEMMA RestTypeNext ==
  ASSUME TypeOK, Owners, Next
  PROVE  RestType'
<1>0. RestType
  BY TypeSplits
<1>1. ASSUME GatePass
      PROVE  RestType'
  BY <1>0, <1>1 DEF RestType, GatePass, PassSkips, PassStops, PassGrants, table, actors, Event, NoEvent
<1>2. ASSUME Dispatch
      PROVE  RestType'
  BY <1>0, <1>2 DEF RestType, Dispatch, LoopStart, Claim, Reserve, LoopEnd, table, actors, Event, NoEvent
<1>3. ASSUME NEW r \in Runs, LeaveCheckout(r) \/ FailBeforeCreate(r) \/ Record(r)
      PROVE  RestType'
  BY <1>0, <1>3 DEF RestType, LeaveCheckout, FailBeforeCreate, Record, Finish, Goto, table, actors, Event, NoEvent
<1>4. ASSUME NEW r \in Runs, Leave(r) \/ Wake(r) \/ Recheck(r)
      PROVE  RestType'
  BY <1>0, <1>4 DEF RestType, Leave, Wake, Recheck, Goto, table, actors, Event, NoEvent
<1>5. ASSUME NEW r \in Runs, NEW n \in Limits, Acquire(r, n)
      PROVE  RestType'
  BY <1>0, <1>5 DEF RestType, Acquire, Finish, Goto, table, actors, Event, NoEvent
<1>6. ASSUME NEW r \in Runs, BeginCreate(r)
      PROVE  RestType'
  BY <1>0, <1>6 DEF RestType, BeginCreate, Goto, table, actors, Event, NoEvent
<1>7. ASSUME NEW r \in Runs, NEW made \in BOOLEAN, CreateAnswered(r, made)
      PROVE  RestType'
  BY <1>0, <1>7 DEF RestType, CreateAnswered, Finish, Goto, table, actors, Event, NoEvent
<1>8. ASSUME NEW r \in Runs, NEW fate \in {"absent", "sent", "live"}, CreateAmbiguous(r, fate)
      PROVE  RestType'
  BY <1>0, <1>8 DEF RestType, CreateAmbiguous, Goto, table, actors, Event, NoEvent
<1>9. ASSUME NEW r \in Runs, MarkSubmitted(r) \/ MarkRunSubmitted(r) \/ ObserveEnds(r)
      PROVE  RestType'
  BY <1>0, <1>9 DEF RestType, MarkSubmitted, MarkRunSubmitted, ObserveEnds, Goto, table, actors, Event, NoEvent
<1>10. ASSUME NEW r \in Runs, NEW ok \in BOOLEAN, OwnerDeletes(r, ok)
      PROVE  RestType'
  <2>1. wf' \in [Runs -> {"absent", "sent", "live", "done"}]
    BY <1>0, <1>10 DEF RestType, OwnerDeletes
  <2>2. \E at \in {"leave", "record", "fatal"} : wk' = [wk EXCEPT ![r] = at]
    BY <1>10 DEF OwnerDeletes, Goto
  <2>3. events' = events \/ events' = events + 1
    BY <1>10 DEF OwnerDeletes, Event, NoEvent
  <2> QED
    BY <1>0, <1>10, <2>1, <2>2, <2>3 DEF RestType, OwnerDeletes, table
<1>11. ASSUME NEW r \in Runs, SettleCreate(r)
      PROVE  RestType'
  BY <1>0, <1>11 DEF RestType, SettleCreate, Finish, Goto, table, actors, Event, NoEvent
<1>12. ASSUME NEW r \in Runs, AbandonAdmission(r) \/ SweepDelete(r) \/ SweepRelease(r) \/ CloseNameless(r)
      PROVE  RestType'
  <2>1. CASE AbandonAdmission(r) \/ SweepRelease(r)
    BY <1>0, <2>1 DEF RestType, AbandonAdmission, SweepRelease, table, actors, Event, NoEvent
  <2>2. CASE SweepDelete(r)
    BY <1>0, <2>2 DEF RestType, SweepDelete, table, actors, Event, NoEvent
  <2>3. CASE CloseNameless(r)
    BY <1>0, <2>3 DEF RestType, CloseNameless, table, actors, Event, NoEvent
  <2> QED
    BY <1>12, <2>1, <2>2, <2>3
<1>13. ASSUME HoldBegins \/ (\E n \in Sizes : ChangeCapacity(n)) \/ \E r \in Runs : BumpBegins(r)
      PROVE  RestType'
  BY <1>0, <1>13 DEF RestType, HoldBegins, ChangeCapacity, BumpBegins, table, actors, Event, NoEvent
<1>14. ASSUME NEW r \in Runs, CancelRun(r)
      PROVE  RestType'
  BY <1>0, <1>14 DEF RestType, CancelRun, table, actors, Event, NoEvent
<1>15. ASSUME NEW a \in BOOLEAN, NEW b \in BOOLEAN, HoldWrites(a, b)
      PROVE  RestType'
  BY <1>0, <1>15 DEF RestType, HoldWrites, table, actors, Event, NoEvent
<1>16. ASSUME NEW a \in BOOLEAN, HoldApplies(a)
      PROVE  RestType'
  BY <1>0, <1>16 DEF RestType, HoldApplies, table, actors, Event, NoEvent
<1>17. ASSUME NEW r \in Runs, NEW a \in BOOLEAN, NEW b \in BOOLEAN, BumpEnds(r, a, b)
      PROVE  RestType'
  BY <1>0, <1>17 DEF RestType, BumpEnds, table, actors, Event, NoEvent
<1>18. ASSUME NEW r \in Runs, WorkflowEnds(r) \/ OperatorUnblocks(r) \/ \E made \in BOOLEAN : LateCreate(r, made)
      PROVE  RestType'
  BY <1>0, <1>18 DEF RestType, WorkflowEnds, OperatorUnblocks, LateCreate, table, actors, Event, NoEvent
<1>19. ASSUME Exit \/ Crash
      PROVE  RestType'
  <2>1. Stop /\ events' \in Nat
    BY <1>0, <1>19 DEF RestType, Exit, Crash, Event, NoEvent
  <2>2. op' \in [run: Runs \cup {0}, view: States, sure: BOOLEAN, freed: SUBSET Runs]
    BY <2>1 DEF Stop, NoOp, States
  <2>3. wf' \in [Runs -> {"absent", "sent", "live", "done"}]
    BY <1>0, <2>1 DEF RestType, Stop
  <2> QED
    BY <1>0, <2>1, <2>2, <2>3 DEF RestType, Stop, table
<1>20. ASSUME NEW r \in Runs, RecoverRun(r)
      PROVE  RestType'
  BY <1>0, <1>20 DEF RestType, RecoverRun, Goto, table, actors, Event, NoEvent
<1>21. ASSUME Start
      PROVE  RestType'
  BY <1>0, <1>21 DEF RestType, Start, table, actors, Event, NoEvent
<1>22. ASSUME HoldExpires
      PROVE  RestType'
  BY <1>0, <1>22 DEF RestType, HoldExpires, table, actors, Event, NoEvent
<1>23. ASSUME HostFills \/ HostRecovers
      PROVE  RestType'
  <2>1. events' \in Nat
    BY <1>0, <1>23 DEF RestType, HostFills, HostRecovers, Event, NoEvent
  <2>2. host' \in BOOLEAN /\ UNCHANGED <<table, wf, actors>>
    BY <1>23, Zenon DEF HostFills, HostRecovers
  <2> QED
    BY <1>0, <2>1, <2>2 DEF RestType, table, actors
<1>24. ASSUME NEW r \in Runs, OperatorLooks(r)
      PROVE  RestType'
  <2>1. op' \in [run: Runs \cup {0}, view: States, sure: BOOLEAN, freed: SUBSET Runs]
    BY <1>0, <1>24 DEF RestType, OperatorLooks, TypeOK
  <2> QED
    BY <1>0, <1>24, <2>1 DEF RestType, OperatorLooks, table, Event
<1>25. ASSUME OperatorReleases
      PROVE  RestType'
  <2>1. op' \in [run: Runs \cup {0}, view: States, sure: BOOLEAN, freed: SUBSET Runs]
    BY <1>0, <1>25 DEF RestType, OperatorReleases, NoOp, States, Held
  <2> QED
    BY <1>0, <1>25, <2>1 DEF RestType, OperatorReleases, table, NoEvent
<1>26. ASSUME NEW r \in Runs, Owner(r) \/ OwnerFails(r) \/ Sweeper(r)
      PROVE  RestType'
  BY <1>26, <1>3, <1>4, <1>5, <1>6, <1>7, <1>8, <1>9, <1>10, <1>11, <1>12 DEF Owner, OwnerFails, Sweeper
<1>27. ASSUME OperatorVerifies
      PROVE  RestType'
  <2>1. op' \in [run: Runs \cup {0}, view: States, sure: BOOLEAN, freed: SUBSET Runs] /\ op.run \in Runs
    BY <1>0, <1>27 DEF RestType, OperatorVerifies, Owners
  <2>2. wf' \in [Runs -> {"absent", "sent", "live", "done"}]
    BY <1>0, <1>27, <2>1 DEF RestType, OperatorVerifies
  <2>3. intent' \in [Runs -> {"none", "reserved", "cancelled"}]
    BY <1>0, <1>27, <2>1 DEF RestType, OperatorVerifies
  <2> QED
    BY <1>0, <1>27, <2>1, <2>2, <2>3 DEF RestType, OperatorVerifies, table, NoEvent
<1>28. ASSUME OperatorRefused
      PROVE  RestType'
  <2>1. op' \in [run: Runs \cup {0}, view: States, sure: BOOLEAN, freed: SUBSET Runs]
    BY <1>0, <1>28 DEF RestType, OperatorRefused, NoOp, States
  <2> QED
    BY <1>0, <1>28, <2>1 DEF RestType, OperatorRefused, table, NoEvent
<1>29. ASSUME NEW r \in Runs, PriorityAges(r)
      PROVE  RestType'
  BY <1>0, <1>29 DEF RestType, PriorityAges, actors, Event
<1> QED
  BY <1>1, <1>2, <1>13, <1>14, <1>15, <1>16, <1>17, <1>18, <1>19, <1>20, <1>21, <1>22, <1>23, <1>24, <1>25, <1>26,
     <1>27, <1>28, <1>29
  DEF Next, Progress, Recovery, Request, RequestGoesOn, Cluster

LEMMA TypeNext ==
  ASSUME TypeOK, Accounts', Owners, Next
  PROVE  TypeOK'
<1>1. runs' \in Nat
  <2>1. Held' \subseteq Runs
    BY DEF Held
  <2> QED
    BY <2>1, FiniteRuns DEF Accounts, Books
<1> QED
  BY <1>1, GateTypeNext, RestTypeNext
  DEF TypeOK, GateType, RsvType, BookType, PassType, RuleType, RestType

-----------------------------------------------------------------------------
(* The owner of a run and its reservation *)

Fits(r) == Owned(r) /\ (IF Up THEN Served(r) ELSE Down(r))

\* A step that leaves the run alone.
Calm(r) ==
  /\ row'[r] = row[r] /\ pending'[r] = pending[r] /\ owed'[r] = owed[r] /\ sweep'[r] = sweep[r]
  /\ wf'[r] = wf[r] /\ wk'[r] = wk[r] /\ res'[r] = res[r] /\ submitted'[r] = submitted[r]
  /\ (r \in apart' <=> r \in apart) /\ (r \in op'.freed <=> r \in op.freed)

LEMMA CalmFits ==
  ASSUME NEW r \in Runs, Fits(r), Calm(r), loop' = loop
  PROVE  Fits(r)'
BY DEF Fits, Owned, Served, Down, Calm, Operated, Up

\* Another run's step on the gate.
LEMMA ReleaseOne ==
  ASSUME TypeOK, NEW r \in Runs, NEW clear, Release(r, clear)
  PROVE  /\ res' = [res EXCEPT ![r] = res'[r]] /\ UNCHANGED <<submitted, apart>>
         /\ res'[r] = res[r] \/ (res'[r] = "released" /\ res[r] = "granted")
            \/ (res'[r] = "released" /\ res[r] = "retained" /\ clear)
BY DEF TypeOK, Release

LEMMA AbandonOne ==
  ASSUME TypeOK, NEW r \in Runs, Abandon(r)
  PROVE  /\ res' = [res EXCEPT ![r] = res'[r]] /\ UNCHANGED <<submitted, apart>>
         /\ res'[r] = res[r] \/ (res'[r] = "abandoned" /\ res[r] \in {"preparing", "waiting"})
BY DEF TypeOK, Abandon, gate, rsv

LEMMA CancelOne ==
  ASSUME TypeOK, NEW r \in Runs, Cancel(r)
  PROVE  /\ res' = [res EXCEPT ![r] = res'[r]] /\ UNCHANGED <<submitted, apart>>
         /\ res'[r] = res[r] \/ (res'[r] = "canceled" /\ res[r] \in {"preparing", "waiting"})
            \/ (res'[r] = "released" /\ res[r] = "granted")
<1>1. CASE res[r] \in {"preparing", "waiting"}
  BY <1>1 DEF TypeOK, Cancel
<1>2. CASE res[r] \notin {"preparing", "waiting"}
  BY <1>2, ReleaseOne DEF Cancel
<1> QED
  BY <1>1, <1>2

LEMMA GateOne ==
  ASSUME UNCHANGED gate
  PROVE  UNCHANGED <<res, submitted, apart>>
BY DEF gate, rsv

\* A step of an owner, of a pass or of an operator on one run: the other runs stay
\* as they are.
LEMMA FitsOne ==
  ASSUME TypeOK, Owners, NEW r \in Runs, Fits(r)', loop' = loop,
         \A o \in Runs \ {r} : Calm(o)
  PROVE  \A o \in Runs : Fits(o)'
BY CalmFits DEF Owners, Fits

LEMMA OwnerFits ==
  ASSUME TypeOK, Owners, NEW r \in Runs, Owner(r) \/ OwnerFails(r)
  PROVE  \A o \in Runs : Fits(o)'
<1> USE DEF At, Unlocked, Goto, Finish
<1>0. Fits(r) /\ row[r] \in {"queued", "active", "cancelled", "over"}
  BY DEF Owners, Fits, TypeOK
<1>1. ASSUME LeaveCheckout(r) \/ FailBeforeCreate(r) \/ Record(r)
      PROVE  \A o \in Runs : Fits(o)'
  <2>1. UNCHANGED <<res, submitted, apart>>
    BY <1>1, GateOne DEF LeaveCheckout, FailBeforeCreate, Record
  <2>2. \A o \in Runs \ {r} : Calm(o)
    BY <1>1, <2>1 DEF LeaveCheckout, FailBeforeCreate, Record, Calm, TypeOK
  <2>3. Fits(r)'
    BY <1>0, <1>1, <2>1 DEF LeaveCheckout, FailBeforeCreate, Record, TypeOK, Fits, Owned, Served, Up,
       Operated, Admitted, Unsubmitted, WithWorkflow
  <2> QED
    BY <1>1, <2>2, <2>3, FitsOne DEF LeaveCheckout, FailBeforeCreate, Record
<1>2. ASSUME Leave(r)
      PROVE  \A o \in Runs : Fits(o)'
  <2>1. \A o \in Runs \ {r} : Calm(o)
    BY <1>2, CancelOne DEF Leave, Calm, TypeOK, table
  <2>2. Fits(r)'
    BY <1>0, <1>2, CancelOne DEF Leave, TypeOK, Fits, Owned, Served, Up,
       Operated, Admitted, Unsubmitted, WithWorkflow, table
  <2> QED
    BY <1>2, <2>1, <2>2, FitsOne DEF Leave
<1>3. ASSUME NEW n \in Limits, Acquire(r, n)
      PROVE  \A o \in Runs : Fits(o)'
  <2>1. CASE res[r] = "preparing" /\ ~LimitConflict(r, n)
    <3>1. \A o \in Runs \ {r} : Calm(o)
      BY <1>3, <2>1 DEF Acquire, Calm, TypeOK
    <3>2. Fits(r)'
      BY <1>0, <1>3, <2>1 DEF Acquire, TypeOK, Fits, Owned, Served, Up,
         Operated, Admitted, Unsubmitted, WithWorkflow
    <3> QED
      BY <1>3, <3>1, <3>2, FitsOne DEF Acquire
  <2>2. CASE ~(res[r] = "preparing" /\ ~LimitConflict(r, n))
    <3>1. \A o \in Runs \ {r} : Calm(o)
      BY <1>3, <2>2, CancelOne DEF Acquire, Calm, TypeOK
    <3>2. Fits(r)'
      BY <1>0, <1>3, <2>2, CancelOne DEF Acquire, TypeOK, Fits, Owned, Served, Up,
         Operated, Admitted, Unsubmitted, WithWorkflow
    <3> QED
      BY <1>3, <3>1, <3>2, FitsOne DEF Acquire
  <2> QED
    BY <2>1, <2>2
<1>4. ASSUME Wake(r) \/ Recheck(r) \/ BeginCreate(r) \/ MarkRunSubmitted(r)
      PROVE  \A o \in Runs : Fits(o)'
  <2>1. UNCHANGED <<res, submitted, apart>>
    BY <1>4, GateOne DEF Wake, Recheck, BeginCreate, MarkRunSubmitted
  <2>2. \A o \in Runs \ {r} : Calm(o)
    BY <1>4, <2>1 DEF Wake, Recheck, BeginCreate, MarkRunSubmitted, Calm, TypeOK, table
  <2>3. Fits(r)'
    BY <1>0, <1>4, <2>1 DEF Wake, Recheck, BeginCreate, MarkRunSubmitted, TypeOK, Fits, Owned, Served,
       Up, Operated, Admitted, Unsubmitted, WithWorkflow, table
  <2> QED
    BY <1>4, <2>2, <2>3, FitsOne DEF Wake, Recheck, BeginCreate, MarkRunSubmitted
<1>5. ASSUME NEW made \in BOOLEAN, CreateAnswered(r, made)
      PROVE  \A o \in Runs : Fits(o)'
  <2>1. UNCHANGED <<res, submitted, apart>>
    BY <1>5, GateOne DEF CreateAnswered
  <2>2. \A o \in Runs \ {r} : Calm(o)
    BY <1>5, <2>1 DEF CreateAnswered, Calm, TypeOK
  <2>3. Fits(r)'
    BY <1>0, <1>5, <2>1 DEF CreateAnswered, TypeOK, Fits, Owned, Served,
       Up, Operated, Admitted, Unsubmitted, WithWorkflow
  <2> QED
    BY <1>5, <2>2, <2>3, FitsOne DEF CreateAnswered
<1>6. ASSUME NEW fate \in {"absent", "sent", "live"}, CreateAmbiguous(r, fate)
      PROVE  \A o \in Runs : Fits(o)'
  <2>1. \A o \in Runs \ {r} : Calm(o)
    BY <1>6 DEF CreateAmbiguous, Retained, Calm, TypeOK
  <2>2. Fits(r)'
    BY <1>0, <1>6 DEF CreateAmbiguous, Retained, TypeOK, Fits, Owned, Served,
       Up, Operated, Admitted, Unsubmitted, WithWorkflow
  <2> QED
    BY <1>6, <2>1, <2>2, FitsOne DEF CreateAmbiguous
<1>7. ASSUME MarkSubmitted(r)
      PROVE  \A o \in Runs : Fits(o)'
  <2>1. \A o \in Runs \ {r} : Calm(o)
    BY <1>7 DEF MarkSubmitted, Calm, TypeOK, table
  <2>2. Fits(r)'
    BY <1>0, <1>7 DEF MarkSubmitted, TypeOK, Fits, Owned, Served,
       Up, Operated, Admitted, Unsubmitted, WithWorkflow, table
  <2> QED
    BY <1>7, <2>1, <2>2, FitsOne DEF MarkSubmitted
<1>8. ASSUME NEW ok \in BOOLEAN, OwnerDeletes(r, ok)
      PROVE  \A o \in Runs : Fits(o)'
  <2>1. CASE ok
    <3>0. Release(r, FALSE)
      BY <1>8, <2>1 DEF OwnerDeletes
    <3>3. /\ res' = [res EXCEPT ![r] = res'[r]] /\ UNCHANGED <<submitted, apart>>
          /\ res'[r] = res[r] \/ (res'[r] = "released" /\ res[r] = "granted")
      BY <3>0, ReleaseOne
    <3>1. \A o \in Runs \ {r} : Calm(o)
      BY <1>8, <2>1, <3>3 DEF OwnerDeletes, Calm, TypeOK, table
    <3>2. Fits(r)'
      BY <1>0, <1>8, <2>1, <3>3 DEF OwnerDeletes, TypeOK, Fits, Owned, Served,
         Up, Operated, Admitted, Unsubmitted, WithWorkflow, table
    <3> QED
      BY <1>8, <3>1, <3>2, FitsOne DEF OwnerDeletes
  <2>2. CASE ~ok
    <3>1. \A o \in Runs \ {r} : Calm(o)
      BY <1>8, <2>2 DEF OwnerDeletes, Retained, Calm, TypeOK, table
    <3>2. Fits(r)'
      BY <1>0, <1>8, <2>2 DEF OwnerDeletes, Retained, TypeOK, Fits, Owned, Served,
         Up, Operated, Admitted, Unsubmitted, WithWorkflow, table
    <3> QED
      BY <1>8, <3>1, <3>2, FitsOne DEF OwnerDeletes
  <2> QED
    BY <2>1, <2>2
<1>9. ASSUME ObserveEnds(r)
      PROVE  \A o \in Runs : Fits(o)'
  <2>0. Release(r, FALSE)
    BY <1>9 DEF ObserveEnds
  <2>1. /\ res' = [res EXCEPT ![r] = res'[r]] /\ UNCHANGED <<submitted, apart>>
        /\ res'[r] = res[r] \/ (res'[r] = "released" /\ res[r] = "granted")
    BY <2>0, ReleaseOne
  <2>2. \A o \in Runs \ {r} : Calm(o)
    BY <1>9, <2>1 DEF ObserveEnds, Calm, TypeOK, table
  <2>3. Fits(r)'
    BY <1>0, <1>9, <2>1 DEF ObserveEnds, TypeOK, Fits, Owned, Served,
       Up, Operated, Admitted, Unsubmitted, WithWorkflow, table
  <2> QED
    BY <1>9, <2>2, <2>3, FitsOne DEF ObserveEnds
<1>10. ASSUME SettleCreate(r)
      PROVE  \A o \in Runs : Fits(o)'
  <2>0. Release(r, TRUE)
    BY <1>10 DEF SettleCreate
  <2>1. /\ res' = [res EXCEPT ![r] = res'[r]] /\ UNCHANGED <<submitted, apart>>
        /\ res'[r] = res[r] \/ (res'[r] = "released" /\ res[r] \in {"granted", "retained"})
    BY <2>0, ReleaseOne
  <2>2. \A o \in Runs \ {r} : Calm(o)
    BY <1>10, <2>1 DEF SettleCreate, Calm, TypeOK
  <2>3. Fits(r)'
    BY <1>0, <1>10, <2>1 DEF SettleCreate, TypeOK, Fits, Owned, Served,
       Up, Operated, Admitted, Unsubmitted, WithWorkflow
  <2> QED
    BY <1>10, <2>2, <2>3, FitsOne DEF SettleCreate
<1> QED
  BY <1>1, <1>2, <1>3, <1>4, <1>5, <1>6, <1>7, <1>8, <1>9, <1>10 DEF Owner, OwnerFails

LEMMA OthersFit ==
  ASSUME TypeOK, Owners, NEW r \in Runs, Sweeper(r) \/ CancelRun(r) \/ OperatorLooks(r)
           \/ WorkflowEnds(r) \/ (\E made \in BOOLEAN : LateCreate(r, made)) \/ OperatorUnblocks(r)
           \/ Claim(r) \/ Reserve(r) \/ PassGrants(r) \/ (OperatorVerifies /\ r = op.run)
  PROVE  \A o \in Runs : Fits(o)'
<1> USE DEF Unlocked
<1>0. Fits(r) /\ row[r] \in {"queued", "active", "cancelled", "over"}
  BY DEF Owners, Fits, TypeOK
<1>1. ASSUME AbandonAdmission(r)
      PROVE  \A o \in Runs : Fits(o)'
  <2>1. /\ res' = [res EXCEPT ![r] = res'[r]] /\ UNCHANGED <<submitted, apart>>
        /\ res'[r] = res[r] \/ (res'[r] = "abandoned" /\ res[r] \in {"preparing", "waiting"})
    BY <1>1, AbandonOne DEF AbandonAdmission
  <2>2. \A o \in Runs \ {r} : Calm(o)
    BY <1>1, <2>1 DEF AbandonAdmission, Calm, TypeOK, table, actors
  <2>3. Fits(r)'
    BY <1>0, <1>1, <2>1 DEF AbandonAdmission, TypeOK, Fits, Owned, Served,
       Up, Operated, Admitted, Unsubmitted, WithWorkflow, table, actors
  <2> QED
    BY <1>1, <2>2, <2>3, FitsOne DEF AbandonAdmission, actors
<1>2. ASSUME SweepDelete(r)
      PROVE  \A o \in Runs : Fits(o)'
  <2>1. UNCHANGED <<res, submitted, apart>>
    BY <1>2, GateOne DEF SweepDelete
  <2>2. \A o \in Runs \ {r} : Calm(o)
    BY <1>2, <2>1 DEF SweepDelete, Calm, TypeOK, table
  <2>3. Fits(r)'
    BY <1>0, <1>2, <2>1 DEF SweepDelete, TypeOK, Fits, Owned, Served,
       Up, Operated, Admitted, Unsubmitted, WithWorkflow, table
  <2> QED
    BY <1>2, <2>2, <2>3, FitsOne DEF SweepDelete
<1>3. ASSUME SweepRelease(r)
      PROVE  \A o \in Runs : Fits(o)'
  <2>1. /\ res' = [res EXCEPT ![r] = res'[r]] /\ UNCHANGED <<submitted, apart>>
        /\ res'[r] = res[r] \/ (res'[r] = "released" /\ res[r] \in {"granted", "retained"} /\ submitted[r])
    <3>1. CASE submitted[r]
      <4>1. Release(r, TRUE)
        BY <1>3, <3>1 DEF SweepRelease
      <4> QED
        BY <3>1, <4>1, ReleaseOne
    <3>2. CASE ~submitted[r]
      BY <1>3, <3>2, GateOne DEF SweepRelease, TypeOK
    <3> QED
      BY <3>1, <3>2
  <2>2. \A o \in Runs \ {r} : Calm(o)
    BY <1>3, <2>1 DEF SweepRelease, Calm, TypeOK
  <2>3. Fits(r)'
    BY <1>0, <1>3, <2>1 DEF SweepRelease, TypeOK, Fits, Owned, Served,
       Up, Operated, Admitted, Unsubmitted, WithWorkflow
  <2> QED
    BY <1>3, <2>2, <2>3, FitsOne DEF SweepRelease
<1>4. ASSUME CloseNameless(r) \/ CancelRun(r)
      PROVE  \A o \in Runs : Fits(o)'
  <2>1. UNCHANGED <<res, submitted, apart>>
    BY <1>4, GateOne DEF CloseNameless, CancelRun
  <2>2. \A o \in Runs \ {r} : Calm(o)
    BY <1>4, <2>1 DEF CloseNameless, CancelRun, Calm, TypeOK, actors
  <2>3. Fits(r)'
    BY <1>0, <1>4, <2>1 DEF CloseNameless, CancelRun, TypeOK, Fits, Owned, Served,
       Up, Operated, Admitted, Unsubmitted, WithWorkflow, actors
  <2> QED
    BY <1>4, <2>2, <2>3, FitsOne DEF CloseNameless, CancelRun, actors
<1>5. ASSUME OperatorLooks(r) \/ (OperatorVerifies /\ r = op.run)
      PROVE  \A o \in Runs : Fits(o)'
  <2>1. UNCHANGED <<res, submitted, apart>> /\ op'.freed = op.freed
    BY <1>5, GateOne DEF OperatorLooks, OperatorVerifies, TypeOK
  <2>2. \A o \in Runs \ {r} : Calm(o)
    BY <1>5, <2>1 DEF OperatorLooks, OperatorVerifies, Calm, TypeOK, table
  <2>3. Fits(r)'
    BY <1>0, <1>5, <2>1 DEF OperatorLooks, OperatorVerifies, TypeOK, Fits, Owned, Served,
       Up, Operated, Admitted, Unsubmitted, WithWorkflow, table
  <2> QED
    BY <1>5, <2>2, <2>3, FitsOne DEF OperatorLooks, OperatorVerifies
<1>6. ASSUME WorkflowEnds(r) \/ (\E made \in BOOLEAN : LateCreate(r, made)) \/ OperatorUnblocks(r)
      PROVE  \A o \in Runs : Fits(o)'
  <2>1. UNCHANGED <<res, submitted, apart>>
    BY <1>6, GateOne DEF WorkflowEnds, LateCreate, OperatorUnblocks
  <2>2. \A o \in Runs \ {r} : Calm(o)
    BY <1>6, <2>1 DEF WorkflowEnds, LateCreate, OperatorUnblocks, Calm, TypeOK, table, actors
  <2>3. Fits(r)'
    BY <1>0, <1>6, <2>1 DEF WorkflowEnds, LateCreate, OperatorUnblocks, Refused, TypeOK, Fits, Owned,
       Served, Down, Up, Operated, Admitted, Unsubmitted, WithWorkflow, table, actors
  <2> QED
    BY <1>6, <2>2, <2>3, FitsOne DEF WorkflowEnds, LateCreate, OperatorUnblocks, actors
<1>7. ASSUME Claim(r)
      PROVE  \A o \in Runs : Fits(o)'
  <2>1. \A o \in Runs \ {r} : Calm(o)
    BY <1>7 DEF Claim, Calm, TypeOK
  <2>2. row[r] = "queued"
    BY <1>7 DEF Claim, MayClaim, IsNextQueued, Claimable
  <2>3. Fits(r)'
    BY <1>0, <1>7, <2>2 DEF Claim, TypeOK, Fits, Owned, Served,
       Up, Operated, Admitted, Unsubmitted, WithWorkflow
  <2> QED
    BY <1>7, <2>1, <2>3, FitsOne DEF Claim
<1>8. ASSUME PassGrants(r)
      PROVE  \A o \in Runs : Fits(o)'
  <2>1. \A o \in Runs \ {r} : Calm(o)
    BY <1>8 DEF PassGrants, Calm, TypeOK, table, actors
  <2>2. res[r] = "waiting"
    BY <1>8 DEF PassGrants, Upcoming, Waiters, Stops
  <2>3. Up
    BY <1>8 DEF PassGrants, Upcoming, Owners
  <2>4. Fits(r)'
    BY <1>0, <1>8, <2>2, <2>3 DEF PassGrants, TypeOK, Fits, Owned, Served,
       Up, Operated, Admitted, Unsubmitted, WithWorkflow, table, actors
  <2> QED
    BY <1>8, <2>1, <2>4, FitsOne DEF PassGrants, actors
<1>9. ASSUME Reserve(r)
      PROVE  \A o \in Runs : Fits(o)'
  <2>1. \A o \in Runs \ {r} : Calm(o)
    BY <1>9 DEF Reserve, Calm, TypeOK, table
  <2>2. Fits(r)'
    BY <1>0, <1>9 DEF Reserve, TypeOK, Fits, Owned, Served,
       Up, Operated, Admitted, Unsubmitted, WithWorkflow, table
  <2> QED
    BY <1>9, <2>1, <2>2, FitsOne DEF Reserve
<1> QED
  BY <1>1, <1>2, <1>3, <1>4, <1>5, <1>6, <1>7, <1>8, <1>9 DEF Sweeper

\* A step that leaves every run alone.
LEMMA RestFits ==
  ASSUME Owners, UNCHANGED <<row, pending, owed, sweep, wf, wk, res, submitted, apart, op.freed>>,
         Up' <=> Up
  PROVE  \A o \in Runs : Fits(o)'
BY DEF Owners, Fits, Owned, Served, Down, Operated

LEMMA OperatorFits ==
  ASSUME TypeOK, Owners, OperatorReleases
  PROVE  \A o \in Runs : Fits(o)'
<1>0. PICK r \in Runs : r = op.run /\ Unlocked
  BY DEF OperatorReleases, Owners
<1>00. Fits(r)
  BY <1>0 DEF Owners, Fits
<1>1. CASE r \in Held
  <2>1. Release(r, TRUE) /\ op'.freed = op.freed \cup {r}
    BY <1>0, <1>1 DEF OperatorReleases, NoOp
  <2>2. res' = [res EXCEPT ![r] = res'[r]] /\ UNCHANGED <<submitted, apart>> /\ res'[r] = "released"
    BY <1>0, <1>1, <2>1 DEF Release, Held, TypeOK
  <2>3. \A o \in Runs \ {r} : Calm(o)
    BY <1>0, <2>1, <2>2 DEF OperatorReleases, Calm, TypeOK, table
  <2>4. Fits(r)'
    BY <1>0, <1>00, <1>1, <2>1, <2>2 DEF OperatorReleases, Fits, Owned, Served, Up, Unlocked, Operated, table,
       Admitted, Unsubmitted, WithWorkflow, Held
  <2> QED
    BY <1>0, <2>3, <2>4, FitsOne DEF OperatorReleases
<1>2. CASE r \notin Held
  <2>1. Abandon(r) /\ op'.freed = op.freed
    BY <1>0, <1>2 DEF OperatorReleases, NoOp
  <2>2. /\ res' = [res EXCEPT ![r] = res'[r]] /\ UNCHANGED <<submitted, apart>>
        /\ res'[r] = res[r] \/ (res'[r] = "abandoned" /\ res[r] \in {"preparing", "waiting"})
    BY <1>0, <2>1, AbandonOne
  <2>3. \A o \in Runs \ {r} : Calm(o)
    BY <1>0, <2>1, <2>2 DEF OperatorReleases, Calm, TypeOK, table
  <2>4. Fits(r)'
    BY <1>0, <1>00, <2>1, <2>2 DEF OperatorReleases, Fits, Owned, Served, Up, Unlocked, Operated, table,
       Admitted, Unsubmitted, WithWorkflow
  <2> QED
    BY <1>0, <2>3, <2>4, FitsOne DEF OperatorReleases
<1> QED
  BY <1>1, <1>2

LEMMA RecoverFits ==
  ASSUME TypeOK, Owners, NEW r \in Runs, RecoverRun(r)
  PROVE  \A o \in Runs : Fits(o)'
<1> USE DEF Goto
<1>0. Owned(r) /\ Down(r) /\ ~Up /\ row[r] \in {"queued", "active", "cancelled", "over"}
  BY DEF Owners, RecoverRun, Up, TypeOK
<1>1. ASSUME NEW state \in {"granted", "retained"}, Adopt(r, state), res[r] = "none",
             wk' = [wk EXCEPT ![r] = IF state = "granted" THEN "observe" ELSE "settle"],
             IF state = "granted" THEN row[r] = "active" /\ ~pending[r] /\ wf[r] \in {"live", "done"}
                                  ELSE pending[r],
             UNCHANGED <<row, owed, wf>>
      PROVE  \A o \in Runs : Fits(o)'
  <2>1. \A o \in Runs \ {r} : Calm(o)
    BY <1>1 DEF RecoverRun, Adopt, Calm, TypeOK
  <2>2. /\ res'[r] = state /\ (state = "retained" => ~submitted'[r]) /\ (r \in apart' => state = "retained")
        /\ state = "granted" => wk'[r] = "observe"
        /\ state = "retained" => wk'[r] = "settle"
    BY <1>0, <1>1 DEF Adopt, TypeOK, Owned
  <2>3. Fits(r)'
    BY <1>0, <1>1, <2>2 DEF RecoverRun, Fits, Owned, Down, Up, Operated, Admitted, Unsubmitted
  <2> QED
    BY <2>1, <2>3, FitsOne DEF RecoverRun
<1>2. ASSUME row[r] = "active", ~pending[r], wf[r] = "absent", row' = [row EXCEPT ![r] = "queued"],
             UNCHANGED <<owed, wf, gate, wk>>
      PROVE  \A o \in Runs : Fits(o)'
  <2>1. UNCHANGED <<res, submitted, apart>>
    BY <1>2, GateOne
  <2>2. \A o \in Runs \ {r} : Calm(o)
    BY <1>2, <2>1 DEF RecoverRun, Calm, TypeOK
  <2>3. Fits(r)'
    BY <1>0, <1>2, <2>1 DEF RecoverRun, Fits, Owned, Down, Up, Operated, Admitted, Unsubmitted, TypeOK
  <2> QED
    BY <2>2, <2>3, FitsOne DEF RecoverRun
<1>3. ASSUME row[r] \in {"cancelled", "over"}, ~pending[r], wf' = [wf EXCEPT ![r] = "absent"],
             owed' = [owed EXCEPT ![r] = FALSE], UNCHANGED <<row, gate, wk>>
      PROVE  \A o \in Runs : Fits(o)'
  <2>1. UNCHANGED <<res, submitted, apart>>
    BY <1>3, GateOne
  <2>2. \A o \in Runs \ {r} : Calm(o)
    BY <1>3, <2>1 DEF RecoverRun, Calm, TypeOK
  <2>3. Fits(r)'
    BY <1>0, <1>3, <2>1 DEF RecoverRun, Fits, Owned, Down, Up, Operated, Admitted, Unsubmitted, TypeOK
  <2> QED
    BY <2>2, <2>3, FitsOne DEF RecoverRun
<1> QED
  BY <1>1, <1>2, <1>3 DEF RecoverRun

LEMMA RestartFits ==
  ASSUME TypeOK, Owners, Start \/ Stop
  PROVE  \A o \in Runs : Fits(o)'
<1>1. ASSUME Start, NEW r \in Runs
      PROVE  Fits(r)'
  <2>1. Owned(r) /\ Down(r) /\ Recovered(r) /\ row[r] \in {"queued", "active", "cancelled", "over"}
    BY <1>1 DEF Start, Owners, Up, TypeOK
  <2>2. UNCHANGED <<row, pending, owed, sweep, wf, wk, res, submitted, apart, op>> /\ Up'
    BY <1>1 DEF Start, table, rsv, Up
  <2>3. Owned(r)'
    BY <2>1, <2>2 DEF Owned, Operated
  <2>4. Served(r)'
    BY <2>1, <2>2 DEF Served, Owned, Down, Recovered, WithWorkflow
  <2> QED
    BY <2>2, <2>3, <2>4 DEF Fits
<1>2. ASSUME Stop, NEW r \in Runs
      PROVE  Fits(r)'
  <2>1. Owned(r) /\ UNCHANGED <<row, pending, owed>> /\ ~Up'
    BY <1>2 DEF Stop, Owners, Up, table
  <2>2. /\ wk'[r] = "none" /\ res'[r] = "none" /\ ~submitted'[r] /\ ~sweep'[r] /\ r \notin apart'
        /\ r \notin op'.freed
    BY <1>2 DEF Stop, NoOp
  <2>3. wf'[r] = wf[r] \/ (wf'[r] = "live" /\ wk[r] = "posting")
    BY <1>2 DEF Stop, TypeOK
  <2>4. Owned(r)'
    BY <2>1, <2>2, <2>3 DEF Owned, Operated, Admitted, Unsubmitted
  <2> QED
    BY <2>1, <2>2, <2>4 DEF Fits, Down, Operated
<1> QED
  BY <1>1, <1>2

LEMMA OwnersNext ==
  ASSUME TypeOK, Owners, Next
  PROVE  Owners'
<1>1. \A o \in Runs : Fits(o)'
  <2>1. ASSUME PassStops \/ \E r \in Runs : PassSkips(r)
        PROVE  \A o \in Runs : Fits(o)'
    BY <2>1, RestFits DEF PassStops, PassSkips, table, rsv, actors, Up
  <2>2. ASSUME LoopStart \/ LoopEnd
        PROVE  \A o \in Runs : Fits(o)'
    BY <2>2, RestFits DEF LoopStart, LoopEnd, table, rsv, Up
  <2>3. ASSUME HoldBegins \/ HoldExpires \/ HostFills \/ HostRecovers \/ \E n \in Sizes : ChangeCapacity(n)
        PROVE  \A o \in Runs : Fits(o)'
    BY <2>3, RestFits DEF HoldBegins, HoldExpires, HostFills, HostRecovers, ChangeCapacity, table, gate, rsv,
       actors, Up
  <2>4. ASSUME NEW a \in BOOLEAN, NEW b \in BOOLEAN, HoldWrites(a, b) \/ HoldApplies(a)
        PROVE  \A o \in Runs : Fits(o)'
    BY <2>4, RestFits DEF HoldWrites, HoldApplies, table, rsv, actors, Up
  <2>5. ASSUME NEW r \in Runs, BumpBegins(r) \/ PriorityAges(r)
                 \/ \E a \in BOOLEAN, b \in BOOLEAN : BumpEnds(r, a, b)
        PROVE  \A o \in Runs : Fits(o)'
    BY <2>5, RestFits DEF BumpBegins, PriorityAges, BumpEnds, table, rsv, actors, Up
  <2>6. ASSUME OperatorRefused
        PROVE  \A o \in Runs : Fits(o)'
    BY <2>6, RestFits DEF OperatorRefused, NoOp, table, gate, rsv, Up
  <2>7. ASSUME OperatorVerifies
        PROVE  \A o \in Runs : Fits(o)'
    <3>1. op.run \in Runs
      BY <2>7 DEF OperatorVerifies, Owners
    <3> QED
      BY <2>7, <3>1, OthersFit
  <2> QED
    BY <2>1, <2>2, <2>3, <2>4, <2>5, <2>6, <2>7, OwnerFits, OthersFit, OperatorFits, RecoverFits, RestartFits
    DEF Next, GatePass, Dispatch, Progress, Recovery, Request, RequestGoesOn, Cluster, Exit, Crash
<1>2. (op.view # "none" => op.run \in Runs)'
  <2>1. ASSUME OperatorReleases \/ OperatorRefused
        PROVE  op'.view = "none"
    BY <2>1 DEF OperatorReleases, OperatorRefused, NoOp
  <2>2. ASSUME OperatorVerifies \/ \E r \in Runs : OperatorLooks(r)
        PROVE  op'.run \in Runs
    BY <2>2 DEF OperatorLooks, OperatorVerifies, TypeOK, Owners
  <2>3. ASSUME Stop
        PROVE  op'.view = "none"
    BY <2>3 DEF Stop, NoOp
  <2>4. ASSUME NEW r \in Runs, Owner(r) \/ OwnerFails(r)
        PROVE  op' = op
    BY <2>4 DEF Owner, OwnerFails, Leave, Acquire, Wake, Recheck, BeginCreate, CreateAnswered, MarkSubmitted,
       MarkRunSubmitted, OwnerDeletes, ObserveEnds, Record, SettleCreate, LeaveCheckout, FailBeforeCreate,
       CreateAmbiguous
  <2>5. ASSUME NEW r \in Runs, Sweeper(r) \/ Claim(r) \/ PassSkips(r) \/ PassGrants(r) \/ BumpBegins(r)
                 \/ CancelRun(r) \/ WorkflowEnds(r) \/ (\E made \in BOOLEAN : LateCreate(r, made))
                 \/ RecoverRun(r) \/ OperatorUnblocks(r) \/ Reserve(r) \/ PriorityAges(r)
        PROVE  op' = op
    BY <2>5 DEF Sweeper, AbandonAdmission, SweepDelete, SweepRelease, CloseNameless, Claim, Reserve,
       PassSkips, PassGrants, BumpBegins, PriorityAges, CancelRun, WorkflowEnds, LateCreate, RecoverRun, OperatorUnblocks, actors
  <2>6. ASSUME PassStops \/ LoopStart \/ LoopEnd \/ HoldBegins \/ HoldExpires \/ HostFills \/ HostRecovers
                 \/ Start \/ \E n \in Sizes : ChangeCapacity(n)
        PROVE  op' = op
    BY <2>6 DEF PassStops, LoopStart, LoopEnd, HoldBegins, HoldExpires, HostFills, HostRecovers, Start,
       ChangeCapacity, actors
  <2>7. ASSUME NEW a \in BOOLEAN, NEW b \in BOOLEAN,
               HoldWrites(a, b) \/ HoldApplies(a) \/ \E r \in Runs : BumpEnds(r, a, b)
        PROVE  op' = op
    BY <2>7 DEF HoldWrites, HoldApplies, BumpEnds, actors
  <2> QED
    BY <2>1, <2>2, <2>3, <2>4, <2>5, <2>6, <2>7
    DEF Next, GatePass, Dispatch, Progress, Recovery, Request, RequestGoesOn, Cluster, Exit, Crash, Owners
<1>3. (~Up => ~pass.on /\ op.view = "none")'
  <2>0. Owners /\ pass \in [on: BOOLEAN, seen: SUBSET Runs, stale: BOOLEAN]
    BY DEF TypeOK
  <2>1. ASSUME Stop
        PROVE  ~pass'.on /\ op'.view = "none"
    BY <2>1 DEF Stop, NoOp, NoPass
  <2>2. ASSUME NEW r \in Runs, Owner(r) \/ OwnerFails(r)
        PROVE  Up'
    BY <2>2 DEF Owner, OwnerFails, Leave, Acquire, Wake, Recheck, BeginCreate, CreateAnswered, MarkSubmitted,
       MarkRunSubmitted, OwnerDeletes, ObserveEnds, Record, SettleCreate, LeaveCheckout, FailBeforeCreate,
       CreateAmbiguous, At, Unlocked, Up
  <2>3. ASSUME NEW r \in Runs, Sweeper(r) \/ Claim(r) \/ PassSkips(r) \/ PassGrants(r) \/ BumpBegins(r)
                 \/ CancelRun(r) \/ OperatorLooks(r) \/ Reserve(r) \/ PriorityAges(r)
        PROVE  Up'
    BY <2>0, <2>3 DEF Sweeper, AbandonAdmission, SweepDelete, SweepRelease, CloseNameless, Claim, Reserve,
       PassSkips, PassGrants, BumpBegins, PriorityAges, CancelRun, OperatorLooks, Upcoming, actors, Unlocked, Up, Owners
  <2>4. ASSUME NEW r \in Runs, WorkflowEnds(r) \/ (\E made \in BOOLEAN : LateCreate(r, made))
                 \/ RecoverRun(r) \/ OperatorUnblocks(r)
        PROVE  UNCHANGED <<pass, op, loop>>
    BY <2>4 DEF WorkflowEnds, LateCreate, RecoverRun, OperatorUnblocks, Adopt, gate, actors
  <2>5. ASSUME PassStops \/ LoopStart \/ LoopEnd \/ HoldBegins \/ OperatorVerifies \/ OperatorRefused
                 \/ OperatorReleases \/ Start \/ \E n \in Sizes : ChangeCapacity(n)
        PROVE  Up'
    BY <2>0, <2>5 DEF PassStops, LoopStart, LoopEnd, HoldBegins, Start, OperatorVerifies, OperatorRefused,
       OperatorReleases, ChangeCapacity, actors, Unlocked, Up, Owners
  <2>6. ASSUME HoldExpires \/ HostFills \/ HostRecovers
        PROVE  pass'.on = pass.on /\ UNCHANGED <<op, loop>>
    BY <2>0, <2>6 DEF HoldExpires, HostFills, HostRecovers, Relax, gate, actors
  <2>7. ASSUME NEW a \in BOOLEAN, NEW b \in BOOLEAN,
               HoldWrites(a, b) \/ HoldApplies(a) \/ \E r \in Runs : BumpEnds(r, a, b)
        PROVE  Up'
    BY <2>7 DEF HoldWrites, HoldApplies, BumpEnds, actors, Unlocked, Up
  <2> QED
    BY <2>0, <2>1, <2>2, <2>3, <2>4, <2>5, <2>6, <2>7
    DEF Next, GatePass, Dispatch, Progress, Recovery, Request, RequestGoesOn, Cluster, Exit, Crash, Owners, Up
<1> QED
  BY <1>1, <1>2, <1>3 DEF Owners, Fits

-----------------------------------------------------------------------------
(* The grant pass *)

Waiting == {r \in Runs : res[r] = "waiting"}
PassInv == PassInOrder /\ NoMissedGrant

\* A step that ends with grantLocked.
LEMMA Regrants ==
  ASSUME ~pass.on, Grant, updating' = updating
  PROVE  PassInv'
<1>1. CASE updating = "no"
  <2>1. pass' = [on |-> TRUE, seen |-> {}, stale |-> FALSE]
    BY <1>1 DEF Grant, GrantIf, NoPass
  <2> QED
    BY <2>1 DEF PassInv, PassInOrder, NoMissedGrant, Unlocked
<1>2. CASE updating # "no"
  BY <1>2 DEF Grant, GrantIf, PassInv, PassInOrder, NoMissedGrant, Admissible, AdminHeld
<1> QED
  BY <1>1, <1>2

\* While the fence is closed nobody is admissible, and the gate of a server that
\* is down has nobody to admit.
LEMMA Fenced ==
  ASSUME ~pass'.on, updating' # "no" \/ ~Up' \/ Waiting' = {}
  PROVE  PassInv'
BY DEF PassInv, PassInOrder, NoMissedGrant, Admissible, AdminHeld, Unlocked, Waiting

\* A step that changes nothing the pass reads, except that it may take a grant's
\* conditions away.
LEMMA Quiet ==
  ASSUME PassInv, Waiters' = Waiters, Waiting' = Waiting, CanGrant' => CanGrant, Up' => Up,
         \A r \in Waiters : prio'[r] = prio[r],
         UNCHANGED <<limit, holders, hold, updating, changing, pass>>
  PROVE  PassInv'
<1>1. \A r \in Runs : res'[r] = "waiting" <=> res[r] = "waiting"
  BY DEF Waiting
<1>2. \A r : AdminHeld(r)' <=> AdminHeld(r)
  BY DEF AdminHeld
<1>3. \A a, b \in Waiters : Before(a, b)' <=> Before(a, b)
  BY DEF Before
<1>4. \A r \in Runs : GroupBlocked(r)' <=> GroupBlocked(r)
  BY <1>1, <1>2, <1>3 DEF GroupBlocked, Waiters
<1>5. PassInOrder'
  <2>1. Waiters \subseteq Runs
    BY DEF Waiters
  <2> QED
    BY <1>2, <1>3, <1>4, <2>1 DEF PassInv, PassInOrder
<1>6. \A r \in Runs : Admissible(r)' => Admissible(r)
  BY <1>1, <1>2, <1>3, <1>4 DEF Admissible, Waiters
<1>7. NoMissedGrant'
  BY <1>6 DEF PassInv, NoMissedGrant, Unlocked
<1> QED
  BY <1>5, <1>7 DEF PassInv

LEMMA GateQuiet ==
  ASSUME PassInv, UNCHANGED gate, CanGrant' => CanGrant, Up' => Up
  PROVE  PassInv'
<1>1. /\ Waiters' = Waiters /\ Waiting' = Waiting
      /\ UNCHANGED <<prio, limit, holders, hold, updating, changing, pass>>
  BY DEF gate, rsv, books, rules, Waiters, Waiting
<1> QED
  BY <1>1, Quiet

LEMMA ReleasePass ==
  ASSUME PassInv, ~pass.on, NEW r, NEW clear, Release(r, clear), UNCHANGED <<host, loop>>
  PROVE  PassInv'
<1>1. CASE res[r] = "granted" \/ (clear /\ res[r] = "retained")
  BY <1>1, Regrants DEF Release, rules
<1>2. CASE ~(res[r] = "granted" \/ (clear /\ res[r] = "retained"))
  <2>1. UNCHANGED gate
    BY <1>2 DEF Release, gate, rsv
  <2>2. CanGrant' = CanGrant /\ Up' = Up
    BY <2>1 DEF CanGrant, Up, gate, books, rules
  <2> QED
    BY <2>1, <2>2, GateQuiet
<1> QED
  BY <1>1, <1>2

LEMMA AbandonPass ==
  ASSUME PassInv, ~pass.on, NEW r, Abandon(r), UNCHANGED <<host, loop>>
  PROVE  PassInv'
<1>1. CASE res[r] \in {"preparing", "waiting"}
  BY <1>1, Regrants DEF Abandon, rules
<1>2. CASE res[r] \notin {"preparing", "waiting"}
  <2>1. UNCHANGED gate
    BY <1>2 DEF Abandon
  <2>2. CanGrant' = CanGrant /\ Up' = Up
    BY <2>1 DEF CanGrant, Up, gate, books, rules
  <2> QED
    BY <2>1, <2>2, GateQuiet
<1> QED
  BY <1>1, <1>2

LEMMA CancelPass ==
  ASSUME PassInv, ~pass.on, NEW r, Cancel(r), UNCHANGED <<host, loop>>
  PROVE  PassInv'
BY Regrants, ReleasePass DEF Cancel, rules

LEMMA SkipPass ==
  ASSUME TypeOK, PassInv, NEW r \in Runs, PassSkips(r)
  PROVE  PassInv'
<1>1. pass.on /\ pass'.on /\ pass'.seen = pass.seen \cup {r} /\ pass'.stale = pass.stale
  BY DEF PassSkips, Upcoming, TypeOK
<1>2. UNCHANGED <<res, prio, limit, holders, hold, updating, changing>>
  BY DEF PassSkips, rsv, books, rules
<1>3. /\ \A o : AdminHeld(o)' <=> AdminHeld(o)
      /\ \A a, b : Before(a, b)' <=> Before(a, b)
      /\ Waiters' = Waiters
  BY <1>2 DEF AdminHeld, Before, Waiters
<1>4. \A o : GroupBlocked(o)' <=> GroupBlocked(o)
  BY <1>2, <1>3 DEF GroupBlocked
<1>5. ASSUME NEW o \in Waiters \cap (pass.seen \cup {r}), NEW w \in Waiters \ (pass.seen \cup {r})
      PROVE  Before(o, w)
  BY <1>1, <1>5 DEF PassInv, PassInOrder, PassSkips, Upcoming
<1>6. ASSUME NEW o \in Waiters \cap (pass.seen \cup {r}), ~pass.stale
      PROVE  AdminHeld(o) \/ (o \notin changing /\ GroupBlocked(o))
  BY <1>1, <1>6 DEF PassInv, PassInOrder, PassSkips, Stops
<1>7. PassInOrder'
  BY <1>1, <1>2, <1>3, <1>4, <1>5, <1>6 DEF PassInOrder
<1> QED
  BY <1>1, <1>7 DEF PassInv, NoMissedGrant, Unlocked

LEMMA GrantPass ==
  ASSUME TypeOK, PassInv, NEW r \in Runs, PassGrants(r)
  PROVE  PassInv'
<1>1. pass.on /\ pass' = pass /\ r \in Waiters \ pass.seen /\ UNCHANGED <<prio, limit, hold, updating, changing>>
  BY DEF PassGrants, Upcoming, rules
<1>2. /\ \A o : AdminHeld(o)' <=> AdminHeld(o)
      /\ \A a, b : Before(a, b)' <=> Before(a, b)
      /\ Waiters' = Waiters \ {r}
      /\ \A o \in Runs \ {r} : res'[o] = res[o]
  BY <1>1 DEF AdminHeld, Before, Waiters, PassGrants, TypeOK
<1>3. ASSUME NEW o \in Waiters \cap pass.seen, GroupBlocked(o)
      PROVE  GroupBlocked(o)'
  <2>1. o \in Runs /\ o # r /\ res'[o] = "waiting" /\ GroupOf[o] # NoGroup /\ GroupOf[o] \in Groups
    BY <1>1, <1>2, <1>3, GroupsAssumption DEF GroupBlocked, Waiters
  <2>2. CASE Cardinality(holders[GroupOf[o]]) >= limit[o]
    <3>1. holders[GroupOf[o]] \subseteq holders'[GroupOf[o]] /\ holders'[GroupOf[o]] \subseteq Runs
      BY <2>1 DEF PassGrants, Join, TypeOK
    <3>2. /\ Cardinality(holders[GroupOf[o]]) <= Cardinality(holders'[GroupOf[o]])
          /\ Cardinality(holders[GroupOf[o]]) \in Nat /\ Cardinality(holders'[GroupOf[o]]) \in Nat
      BY <3>1, Fewer, FiniteRuns
    <3>3. limit'[o] = limit[o] /\ limit[o] \in Nat
      BY <1>1, <2>1 DEF TypeOK
    <3>4. Cardinality(holders'[GroupOf[o]]) >= limit'[o]
      BY <2>2, <3>2, <3>3
    <3> QED
      BY <2>1, <3>4 DEF GroupBlocked
  <2>3. CASE \E b \in Runs : /\ res[b] = "waiting" /\ GroupOf[b] = GroupOf[o] /\ Before(b, o)
                             /\ ~AdminHeld(b)
    <3>1. PICK b \in Runs : /\ res[b] = "waiting" /\ GroupOf[b] = GroupOf[o] /\ Before(b, o)
                            /\ ~AdminHeld(b)
      BY <2>3
    <3>2. Before(o, r)
      BY <1>1 DEF PassInv, PassInOrder
    <3>3. b # r
      BY <2>1, <3>1, <3>2, BeforeOrders
    <3> QED
      BY <1>2, <2>1, <3>1, <3>3 DEF GroupBlocked
  <2> QED
    BY <1>3, <2>2, <2>3 DEF GroupBlocked
<1>4. PassInOrder'
  BY <1>1, <1>2, <1>3 DEF PassInOrder, PassInv
<1> QED
  BY <1>1, <1>4 DEF PassInv, NoMissedGrant, Unlocked

\* The pass has returned: it has looked at every waiter, or stopped at one that
\* keeps its place.
LEMMA StopPass ==
  ASSUME TypeOK, PassInv, PassStops
  PROVE  PassInv'
<1>1. pass.on /\ ~pass'.on /\ pass'.stale = pass.stale
  BY DEF PassStops, NoPass, TypeOK
<1>2. UNCHANGED <<res, prio, limit, holders, hold, updating, changing, runs, maxRuns, host>>
  BY DEF PassStops, rsv, books, rules
<1>3. ASSUME NEW r \in Runs, Admissible(r), ~pass.stale
      PROVE  FALSE
  <2>1. r \in Waiters \ pass.seen
    BY <1>1, <1>3 DEF PassInv, PassInOrder, Admissible, Waiters
  <2>2. Waiters \ pass.seen \in SUBSET Runs
    BY DEF Waiters
  <2>3. PICK f \in Waiters \ pass.seen : \A o \in Waiters \ pass.seen : o = f \/ Before(f, o)
    BY <2>1, <2>2, FirstWaiter
  <2>4. ~AdminHeld(f) /\ Stops(f)
    BY <1>1, <2>2, <2>3 DEF PassStops, Upcoming
  <2>5. CASE f = r
    BY <1>3, <2>4, <2>5 DEF Admissible, Stops
  <2>6. CASE f # r
    <3>1. f \notin changing /\ GroupBlocked(f)
      BY <1>3, <2>1, <2>3, <2>4, <2>6 DEF Admissible
    <3> QED
      BY <2>4, <3>1 DEF Stops, GroupBlocked
  <2> QED
    BY <2>5, <2>6
<1>4. \A r \in Runs : Admissible(r)' => Admissible(r)
  BY <1>2 DEF Admissible, AdminHeld, GroupBlocked, CanGrant, Before, Waiters
<1>5. NoMissedGrant'
  BY <1>1, <1>3, <1>4 DEF NoMissedGrant
<1> QED
  BY <1>1, <1>5 DEF PassInv, PassInOrder

\* A rule is relaxed and no pass runs.
LEMMA RelaxPass ==
  ASSUME TypeOK, PassInv, Relax, ~pass.on \/ UNCHANGED <<res, prio>>
  PROVE  PassInv'
<1>1. pass'.on = pass.on /\ pass'.seen = pass.seen /\ pass'.stale
  BY DEF Relax, TypeOK
<1>2. PassInOrder'
  BY <1>1 DEF PassInv, PassInOrder, Before, Waiters
<1> QED
  BY <1>1, <1>2 DEF PassInv, NoMissedGrant

LEMMA OwnerPass ==
  ASSUME TypeOK, PassInv, NEW r \in Runs, Owner(r) \/ OwnerFails(r)
  PROVE  PassInv'
<1> USE DEF At, Unlocked
<1>0. ASSUME UNCHANGED <<gate, host, loop>>
      PROVE  PassInv'
  <2>1. (CanGrant' => CanGrant) /\ (Up' => Up)
    BY <1>0 DEF CanGrant, Up, gate, books, rules
  <2> QED
    BY <1>0, <2>1, GateQuiet
<1>1. ASSUME LeaveCheckout(r) \/ FailBeforeCreate(r) \/ Record(r) \/ Wake(r) \/ Recheck(r) \/ BeginCreate(r)
               \/ MarkRunSubmitted(r) \/ \E made \in BOOLEAN : CreateAnswered(r, made)
      PROVE  PassInv'
  BY <1>0, <1>1 DEF LeaveCheckout, FailBeforeCreate, Record, Wake, Recheck, BeginCreate, MarkRunSubmitted,
     CreateAnswered
<1>2. ASSUME Leave(r)
      PROVE  PassInv'
  BY <1>2, CancelPass DEF Leave
<1>3. ASSUME NEW n \in Limits, Acquire(r, n)
      PROVE  PassInv'
  BY <1>3, CancelPass, Regrants DEF Acquire, rules
<1>4. ASSUME ObserveEnds(r) \/ SettleCreate(r)
      PROVE  PassInv'
  BY <1>4, ReleasePass DEF ObserveEnds, SettleCreate
<1>5. ASSUME MarkSubmitted(r)
      PROVE  PassInv'
  <2>1. /\ Waiters' = Waiters /\ Waiting' = Waiting /\ (CanGrant' => CanGrant) /\ (Up' => Up)
        /\ UNCHANGED <<prio, limit, holders, hold, updating, changing, pass>>
    BY <1>5 DEF MarkSubmitted, books, rules, Waiters, Waiting, CanGrant, Up
  <2> QED
    BY <2>1, Quiet
<1>6. ASSUME res' = Retained(r), UNCHANGED <<limit, prio, books, rules, pass, host, loop>>
      PROVE  PassInv'
  <2>1. /\ Waiters' = Waiters /\ Waiting' = Waiting /\ (CanGrant' => CanGrant) /\ (Up' => Up)
        /\ UNCHANGED <<prio, limit, holders, hold, updating, changing, pass>>
    BY <1>6 DEF Retained, TypeOK, books, rules, Waiters, Waiting, CanGrant, Up
  <2> QED
    BY <2>1, Quiet
<1>7. ASSUME NEW ok \in BOOLEAN, OwnerDeletes(r, ok)
      PROVE  PassInv'
  BY <1>6, <1>7, ReleasePass DEF OwnerDeletes
<1>8. ASSUME NEW fate, CreateAmbiguous(r, fate)
      PROVE  PassInv'
  BY <1>6, <1>8 DEF CreateAmbiguous
<1> QED
  BY <1>1, <1>2, <1>3, <1>4, <1>5, <1>7, <1>8 DEF Owner, OwnerFails

LEMMA PassNext ==
  ASSUME TypeOK, Owners, PassInv, Next
  PROVE  PassInv'
<1> USE DEF Unlocked
<1>0. ASSUME UNCHANGED <<gate, loop>>, host' => host
      PROVE  PassInv'
  <2>1. (CanGrant' => CanGrant) /\ (Up' => Up)
    BY <1>0 DEF CanGrant, Up, gate, books, rules
  <2> QED
    BY <1>0, <2>1, GateQuiet
<1>1. ASSUME GatePass
      PROVE  PassInv'
  BY <1>1, SkipPass, GrantPass, StopPass DEF GatePass
<1>2. ASSUME LoopStart
      PROVE  PassInv'
  <2>1. CASE prio' # prio
    BY <1>2, <2>1, RelaxPass DEF LoopStart
  <2>2. CASE prio' = prio
    <3>1. /\ Waiters' = Waiters /\ Waiting' = Waiting /\ (CanGrant' => CanGrant) /\ (Up' => Up)
          /\ UNCHANGED <<prio, limit, holders, hold, updating, changing, pass>>
      BY <1>2, <2>2 DEF LoopStart, books, rules, Waiters, Waiting, CanGrant, Up
    <3> QED
      BY <3>1, Quiet
  <2> QED
    BY <2>1, <2>2
<1>3. ASSUME LoopEnd \/ \E r \in Runs : Reserve(r)
      PROVE  PassInv'
  BY <1>3, Regrants DEF LoopEnd, Reserve, rules
<1>4. ASSUME NEW r \in Runs, Sweeper(r)
      PROVE  PassInv'
  <2>1. CASE AbandonAdmission(r)
    BY <2>1, AbandonPass DEF AbandonAdmission, actors
  <2>2. CASE SweepRelease(r)
    BY <1>0, <2>2, ReleasePass DEF SweepRelease
  <2>3. CASE SweepDelete(r) \/ CloseNameless(r)
    BY <1>0, <2>3 DEF SweepDelete, CloseNameless, actors
  <2> QED
    BY <1>4, <2>1, <2>2, <2>3 DEF Sweeper
<1>5. ASSUME NEW r \in Runs, OperatorLooks(r) \/ CancelRun(r) \/ WorkflowEnds(r)
               \/ \E made \in BOOLEAN : LateCreate(r, made)
      PROVE  PassInv'
  BY <1>0, <1>5 DEF OperatorLooks, CancelRun, WorkflowEnds, LateCreate, actors
<1>6. ASSUME OperatorReleases
      PROVE  PassInv'
  BY <1>6, ReleasePass, AbandonPass DEF OperatorReleases
<1>7. ASSUME HoldBegins \/ \E a \in BOOLEAN, b \in BOOLEAN : HoldWrites(a, b)
      PROVE  PassInv'
  <2>1. ~pass'.on /\ updating' # "no"
    BY <1>7 DEF HoldBegins, HoldWrites
  <2> QED
    BY <2>1, Fenced
<1>8. ASSUME NEW read \in BOOLEAN, HoldApplies(read)
      PROVE  PassInv'
  <2>1. pass' = [on |-> TRUE, seen |-> {}, stale |-> FALSE]
    BY <1>8 DEF HoldApplies, GrantIf, NoPass
  <2> QED
    BY <2>1 DEF PassInv, PassInOrder, NoMissedGrant
<1>9. ASSUME NEW r \in Runs, BumpBegins(r)
      PROVE  PassInv'
  <2>1. /\ changing = {} /\ ~pass.on
        /\ UNCHANGED <<res, prio, limit, holders, hold, updating, runs, maxRuns, host, loop, pass>>
    BY <1>9 DEF BumpBegins, rsv, books, actors
  <2>2. \A o \in Runs : Admissible(o)' => Admissible(o)
    BY <2>1 DEF Admissible, AdminHeld, GroupBlocked, CanGrant, Before, Waiters
  <2> QED
    BY <2>1, <2>2 DEF PassInv, PassInOrder, NoMissedGrant, Up
<1>10. ASSUME NEW r \in Runs, NEW a \in BOOLEAN, NEW b \in BOOLEAN, BumpEnds(r, a, b)
      PROVE  PassInv'
  BY <1>10, Regrants DEF BumpEnds
<1>11. ASSUME NEW n \in Sizes, ChangeCapacity(n)
      PROVE  PassInv'
  BY <1>11, Regrants DEF ChangeCapacity
<1>12. ASSUME HoldExpires \/ HostRecovers
      PROVE  PassInv'
  BY <1>12, RelaxPass DEF HoldExpires, HostRecovers, rsv
<1>13. ASSUME HostFills
      PROVE  PassInv'
  BY <1>0, <1>13 DEF HostFills, actors
<1>14. ASSUME Stop
      PROVE  PassInv'
  <2>1. ~pass'.on /\ ~Up'
    BY <1>14 DEF Stop, NoPass, Up
  <2> QED
    BY <2>1, Fenced
<1>15. ASSUME NEW r \in Runs, RecoverRun(r) \/ OperatorUnblocks(r)
      PROVE  PassInv'
  <2>1. ~pass'.on /\ ~Up'
    BY <1>15 DEF RecoverRun, OperatorUnblocks, Refused, Adopt, gate, actors, Up, Owners
  <2> QED
    BY <2>1, Fenced
<1>16. ASSUME Start
      PROVE  PassInv'
  <2>1. ~pass'.on
    BY <1>16 DEF Start, Owners, Up
  <2>2. \A r \in Runs : res[r] # "waiting"
    BY <1>16 DEF Start, Owners, Up, Down
  <2>3. Waiting' = {}
    BY <1>16, <2>2 DEF Start, rsv, Waiting
  <2> QED
    BY <2>1, <2>3, Fenced
<1>17. ASSUME NEW r \in Runs, Claim(r)
      PROVE  PassInv'
  <2>1. r \notin Waiters
    BY <1>17 DEF Claim, MayClaim, IsNextQueued, Claimable, Owners, Owned, Waiters
  <2>2. /\ Waiters' = Waiters /\ Waiting' = Waiting /\ (CanGrant' => CanGrant) /\ (Up' => Up)
        /\ UNCHANGED <<limit, holders, hold, updating, changing, pass>>
    BY <1>17 DEF Claim, books, rules, Waiters, Waiting, CanGrant, Up
  <2>3. \A o \in Waiters : prio'[o] = prio[o]
    BY <1>17, <2>1 DEF Claim, TypeOK, Waiters
  <2> QED
    BY <2>2, <2>3, Quiet
<1>18. ASSUME OperatorVerifies \/ OperatorRefused
      PROVE  PassInv'
  BY <1>0, <1>18 DEF OperatorVerifies, OperatorRefused
<1>19. ASSUME NEW r \in Runs, PriorityAges(r)
      PROVE  PassInv'
  BY <1>19, RelaxPass DEF PriorityAges
<1> QED
  BY <1>1, <1>2, <1>3, <1>4, <1>5, <1>6, <1>7, <1>8, <1>9, <1>10, <1>11, <1>12, <1>13, <1>14, <1>15, <1>16,
     <1>17, <1>18, <1>19, OwnerPass
  DEF Next, Dispatch, Progress, Recovery, Request, RequestGoesOn, Cluster, Exit, Crash

-----------------------------------------------------------------------------
(* The theorems *)

LEMMA GateInit == Init => GateInv
<1> SUFFICES ASSUME Init
             PROVE  GateInv
  OBVIOUS
<1>0. Held = {} /\ Prepared = {} /\ Waiters = {}
  BY DEF Init, Held, Prepared, Waiters
<1>1. TypeOK
  BY DEF Init, TypeOK, NoOp, NoPass, States
<1>2. Books /\ LimitsAgree /\ GroupsFit
  BY <1>0, FS_EmptySet DEF Init, Books, LimitsAgree, GroupsFit
<1>3. Owners
  BY DEF Init, Owners, Owned, Served, Operated, NoOp, NoPass, Up, Unsubmitted, Admitted, WithWorkflow
<1>4. PassInOrder /\ NoMissedGrant
  BY DEF Init, PassInOrder, NoMissedGrant, NoPass, Admissible
<1> QED
  BY <1>1, <1>2, <1>3, <1>4 DEF GateInv

LEMMA GateNext == GateInv /\ [Next]_vars => GateInv'
<1> SUFFICES ASSUME GateInv, [Next]_vars
             PROVE  GateInv'
  OBVIOUS
<1>1. CASE Next
  <2>1. Accounts'
    BY <1>1, AccountsNext DEF GateInv, Accounts
  <2>2. TypeOK' /\ Owners' /\ PassInv'
    BY <1>1, <2>1, TypeNext, OwnersNext, PassNext DEF GateInv, PassInv
  <2> QED
    BY <2>1, <2>2 DEF GateInv, Accounts, PassInv
<1>2. CASE UNCHANGED vars
  <2>1. UNCHANGED <<table, wf, gate, host, actors, events>>
    BY <1>2 DEF vars
  <2>2. UNCHANGED <<row, pending, owed, sweep, wf, wk, res, submitted, limit, apart, op, loop, books, pass>>
    BY <2>1 DEF table, gate, rsv, actors
  <2>3. Accounts'
    BY <2>2, QuietKeeps, KeepsAccounts DEF GateInv, Accounts
  <2>4. \A o \in Runs : Fits(o)'
    BY <2>2, RestFits DEF GateInv, Up
  <2>5. Owners'
    BY <2>2, <2>4 DEF GateInv, Owners, Fits, Up
  <2>6. (CanGrant' => CanGrant) /\ (Up' => Up)
    BY <2>1, <2>2 DEF CanGrant, Up, gate, books, rules
  <2>7. PassInv'
    BY <2>1, <2>6, GateQuiet DEF GateInv, PassInv
  <2>8. TypeOK'
    BY <2>1 DEF GateInv, TypeOK, table, gate, rsv, books, rules, actors
  <2> QED
    BY <2>3, <2>5, <2>7, <2>8 DEF GateInv, Accounts, PassInv
<1> QED
  BY <1>1, <1>2

\* The inductive invariant of the gate holds in every reachable state.
THEOREM GateInvariant == Spec => []GateInv
BY GateInit, GateNext, PTL DEF Spec

\* Every variable of the gate keeps its type.
THEOREM GateTypes == Spec => []TypeOK
BY GateInvariant, PTL DEF GateInv

\* A Workflow that is running holds its grant: the owner's step says so.
LEMMA RunningHolds ==
  ASSUME Owners, Up, NEW r \in Runs, Running(r)
  PROVE  r \in Held
<1>1. Owned(r) /\ Served(r)
  BY DEF Owners
<1> QED
  BY <1>1 DEF Owned, Served, Running, Held, WithWorkflow, Admitted

LEMMA InvAccounted == GateInv => SlotsAccounted
BY RunningHolds DEF GateInv, Books, SlotsAccounted

\* gate.runs and gate.groups are exact in every reachable state, and while the
\* server is up no Workflow of an unfinished run is without its grant.
THEOREM SlotsAreAccounted == Spec => []SlotsAccounted
BY GateInvariant, InvAccounted, PTL

LEMMA InvExclusive == GateInv => GroupsExclusive
<1> SUFFICES ASSUME GateInv, Up, NEW r \in Runs \ apart, Running(r), GroupOf[r] # NoGroup
             PROVE  Cardinality({o \in Runs \ apart : Running(o) /\ GroupOf[o] = GroupOf[r]}) <= limit[r]
  BY DEF GroupsExclusive
<1> DEFINE S == {o \in Runs \ apart : Running(o) /\ GroupOf[o] = GroupOf[r]}
           H == holders[GroupOf[r]]
<1>1. GroupOf[r] \in Groups
  BY GroupsAssumption
<1>2. S \subseteq H /\ r \in S
  BY <1>1, RunningHolds DEF GateInv, Books
<1>3. H \subseteq Runs
  BY <1>1 DEF GateInv, TypeOK
<1>4. Cardinality(H) <= limit[r] /\ limit[r] \in Nat
  BY <1>1, <1>2 DEF GateInv, GroupsFit, TypeOK
<1>5. Cardinality(S) <= Cardinality(H) /\ Cardinality(S) \in Nat /\ Cardinality(H) \in Nat
  BY <1>2, <1>3, Fewer, FiniteRuns
<1> QED
  BY <1>4, <1>5

\* However many runs a group has, and whatever fails or restarts, no more of its
\* Workflows run than the limit, those restored without the group aside.
THEOREM GroupsAreExclusive == Spec => []GroupsExclusive
BY GateInvariant, InvExclusive, PTL

\* Whenever the mutex is free, no waiter is left that grantLocked would admit.
THEOREM NoGrantIsMissed == Spec => []NoMissedGrant
BY GateInvariant, PTL DEF GateInv

\* Nothing but the pass turns a waiter into a grant.
LEMMA OnlyThePassGrants ==
  ASSUME TypeOK, Owners, [Next]_vars, NEW r \in Runs, res[r] = "waiting", res'[r] = "granted"
  PROVE  PassGrants(r)
<1>1. ASSUME res' = res
      PROVE  FALSE
  BY <1>1
<1>2. ASSUME NEW o \in Runs, NEW x, res' = [res EXCEPT ![o] = x], x # "granted"
      PROVE  FALSE
  BY <1>2 DEF TypeOK
<1>3. ASSUME NEW o \in Runs, NEW c, Release(o, c)
      PROVE  FALSE
  BY <1>1, <1>2, <1>3 DEF Release
<1>4. ASSUME NEW o \in Runs, Cancel(o)
      PROVE  FALSE
  BY <1>2, <1>3, <1>4 DEF Cancel
<1>5. ASSUME NEW o \in Runs, Abandon(o)
      PROVE  FALSE
  BY <1>1, <1>2, <1>5 DEF Abandon, gate, rsv
<1>6. ASSUME NEW o \in Runs, res' = Retained(o)
      PROVE  FALSE
  BY <1>6 DEF Retained, TypeOK
<1>7. ASSUME NEW o \in Runs, Owner(o) \/ OwnerFails(o)
      PROVE  FALSE
  <2>1. ASSUME NEW n \in Limits, Acquire(o, n)
        PROVE  FALSE
    BY <1>2, <1>4, <2>1 DEF Acquire
  <2>2. ASSUME NEW ok \in BOOLEAN, OwnerDeletes(o, ok)
        PROVE  FALSE
    BY <1>3, <1>6, <2>2 DEF OwnerDeletes
  <2>3. ASSUME NEW fate, CreateAmbiguous(o, fate)
        PROVE  FALSE
    BY <1>6, <2>3 DEF CreateAmbiguous
  <2>4. ASSUME Leave(o) \/ ObserveEnds(o) \/ SettleCreate(o)
        PROVE  FALSE
    BY <1>3, <1>4, <2>4 DEF Leave, ObserveEnds, SettleCreate
  <2> QED
    BY <1>1, <1>7, <2>1, <2>2, <2>3, <2>4 DEF Owner, OwnerFails, Wake, Recheck, BeginCreate, CreateAnswered,
       MarkSubmitted, MarkRunSubmitted, Record, LeaveCheckout, FailBeforeCreate, gate, rsv
<1>8. ASSUME NEW o \in Runs, Sweeper(o)
      PROVE  FALSE
  BY <1>1, <1>3, <1>5, <1>8 DEF Sweeper, AbandonAdmission, SweepRelease, SweepDelete, CloseNameless, gate, rsv
<1>9. ASSUME RequestGoesOn
      PROVE  FALSE
  <2>1. ASSUME OperatorReleases
        PROVE  FALSE
    BY <1>3, <1>5, <2>1 DEF OperatorReleases, Owners
  <2> QED
    BY <1>1, <1>9, <2>1 DEF RequestGoesOn, HoldWrites, HoldApplies, BumpEnds, OperatorVerifies,
       OperatorRefused, gate, rsv
<1>10. ASSUME NEW o \in Runs, RecoverRun(o)
      PROVE  FALSE
  <2>1. \A q \in Runs : res[q] # "waiting"
    BY <1>10 DEF RecoverRun, Owners, Up, Down
  <2> QED
    BY <2>1
<1>11. ASSUME Stop
      PROVE  FALSE
  BY <1>11 DEF Stop
<1>12. ASSUME NEW o \in Runs, Reserve(o)
      PROVE  FALSE
  BY <1>2, <1>12 DEF Reserve
<1>13. ASSUME NEW o \in Runs, PassGrants(o)
      PROVE  PassGrants(r)
  BY <1>13 DEF PassGrants, TypeOK
<1>14. ASSUME UNCHANGED vars
      PROVE  FALSE
  BY <1>1, <1>14 DEF vars, gate, rsv
<1> QED
  BY <1>1, <1>7, <1>8, <1>9, <1>10, <1>11, <1>12, <1>13, <1>14
  DEF Next, GatePass, PassStops, PassSkips, Dispatch, LoopStart, Claim, LoopEnd, Progress, Recovery, Exit, Crash,
      Request, Cluster, WorkflowEnds, LateCreate, OperatorUnblocks, Start, HoldBegins, ChangeCapacity,
      BumpBegins, PriorityAges, OperatorLooks, CancelRun, HoldExpires, HostFills, HostRecovers, gate, rsv

LEMMA InvInOrder ==
  ASSUME GateInv, [Next]_vars, NEW r \in Runs, res[r] = "waiting", res'[r] = "granted", ~pass.stale,
         NEW o \in Waiters \ {r}, Before(o, r)
  PROVE  AdminHeld(o) \/ GroupBlocked(o)
<1>1. PassGrants(r)
  BY OnlyThePassGrants DEF GateInv
<1>2. CASE o \in pass.seen
  BY <1>1, <1>2 DEF GateInv, PassInOrder, PassGrants, Upcoming
<1>3. CASE o \notin pass.seen
  <2>1. Before(r, o) /\ o \in Runs
    BY <1>1, <1>3 DEF PassGrants, Upcoming, Waiters
  <2> QED
    BY <2>1, BeforeOrders DEF GateInv
<1> QED
  BY <1>2, <1>3

\* A grant goes past nobody who could still claim the place.
THEOREM GrantsGoInOrder == Spec => GrantsInOrder
<1>1. GateInv /\ [Next]_vars =>
        [\A r \in Runs : res[r] = "waiting" /\ res'[r] = "granted" /\ ~pass.stale =>
            \A o \in Waiters \ {r} : Before(o, r) => AdminHeld(o) \/ GroupBlocked(o)]_vars
  BY InvInOrder
<1> QED
  BY <1>1, GateInvariant, PTL DEF Spec, GrantsInOrder

-----------------------------------------------------------------------------
(* The admin hold *)

HoldKept == UNCHANGED <<holdRow, hold, updating>> /\ (Up' => Up)

LEMMA ReleaseKeepsHold ==
  ASSUME NEW r, NEW clear, Release(r, clear) \/ Cancel(r) \/ Abandon(r)
  PROVE  UNCHANGED <<hold, updating>>
BY DEF Release, Cancel, Abandon, rules, gate

LEMMA HoldKeeps ==
  ASSUME Owners, Next
  PROVE  \/ HoldKept \/ ~Up' \/ updating' # "no" \/ HoldExpires \/ Start \/ \E read \in BOOLEAN : HoldApplies(read)
<1> USE DEF HoldKept, Up
<1>1. ASSUME NEW r \in Runs, Owner(r) \/ OwnerFails(r)
      PROVE  HoldKept
  <2>1. ASSUME Leave(r) \/ ObserveEnds(r) \/ SettleCreate(r) \/ (\E n \in Limits : Acquire(r, n))
                 \/ \E ok \in BOOLEAN : OwnerDeletes(r, ok)
        PROVE  HoldKept
    BY <2>1, ReleaseKeepsHold DEF Leave, ObserveEnds, SettleCreate, Acquire, OwnerDeletes, table, rules
  <2> QED
    BY <1>1, <2>1 DEF Owner, OwnerFails, Wake, Recheck, BeginCreate, CreateAnswered,
       MarkSubmitted, MarkRunSubmitted, Record, LeaveCheckout, FailBeforeCreate, CreateAmbiguous, gate, rules,
       table
<1>2. ASSUME NEW r \in Runs, Sweeper(r)
      PROVE  HoldKept
  BY <1>2, ReleaseKeepsHold DEF Sweeper, AbandonAdmission, SweepRelease, SweepDelete, CloseNameless, gate, rules,
     table, actors
<1>3. ASSUME OperatorVerifies \/ OperatorRefused \/ OperatorReleases
      PROVE  HoldKept
  BY <1>3, ReleaseKeepsHold DEF OperatorVerifies, OperatorRefused, OperatorReleases, table, gate, rules
<1>4. ASSUME GatePass
      PROVE  HoldKept
  BY <1>4 DEF GatePass, PassStops, PassSkips, PassGrants, table, rules, actors
<1>5. ASSUME Dispatch
      PROVE  HoldKept
  BY <1>5 DEF Dispatch, LoopStart, LoopEnd, Claim, Reserve, table, rules, Unlocked
<1>6. ASSUME NEW r \in Runs, NEW a \in BOOLEAN, NEW b \in BOOLEAN,
             BumpBegins(r) \/ PriorityAges(r) \/ BumpEnds(r, a, b)
      PROVE  HoldKept
  BY <1>6 DEF BumpBegins, PriorityAges, BumpEnds, table, rules, actors
<1>7. ASSUME HostFills \/ HostRecovers \/ \E n \in Sizes : ChangeCapacity(n)
      PROVE  HoldKept
  BY <1>7 DEF HostFills, HostRecovers, ChangeCapacity, table, gate, rules, actors
<1>8. ASSUME NEW r \in Runs, OperatorLooks(r) \/ CancelRun(r) \/ WorkflowEnds(r) \/ OperatorUnblocks(r)
               \/ \E made \in BOOLEAN : LateCreate(r, made)
      PROVE  HoldKept
  BY <1>8 DEF OperatorLooks, CancelRun, WorkflowEnds, OperatorUnblocks, LateCreate, table, gate, rules, actors
<1>9. ASSUME HoldBegins \/ \E a \in BOOLEAN, b \in BOOLEAN : HoldWrites(a, b)
      PROVE  updating' # "no"
  BY <1>9 DEF HoldBegins, HoldWrites
<1>10. ASSUME Stop \/ \E r \in Runs : RecoverRun(r)
      PROVE  ~Up'
  BY <1>10 DEF Stop, RecoverRun
<1> QED
  BY <1>1, <1>2, <1>3, <1>4, <1>5, <1>6, <1>7, <1>8, <1>9, <1>10
  DEF Next, Progress, Recovery, Exit, Crash, Request, RequestGoesOn, Cluster

\* When a write that failed can be read back, no waiter of a class that the
\* durable hold blocks is granted. (The run and the theorem leave "holdblind"
\* out: a read-back that fails too leaves the gate with the old rule.)
THEOREM HoldIsEnforced ==
  ASSUME "holdblind" \notin Events
  PROVE  Spec => HoldEnforced
<1>1. Init => HoldInv
  BY DEF Init, HoldInv
<1>2. GateInv /\ HoldInv /\ [Next]_vars => HoldInv'
  <2> SUFFICES ASSUME GateInv, HoldInv, [Next]_vars
               PROVE  HoldInv'
    OBVIOUS
  <2>1. CASE HoldKept \/ ~Up' \/ updating' # "no"
    BY <2>1 DEF HoldKept, HoldInv
  <2>2. CASE HoldExpires
    BY <2>2 DEF HoldExpires, HoldInv
  <2>3. CASE Start
    BY <2>3 DEF Start, HoldInv, table
  <2>4. ASSUME NEW read \in BOOLEAN, HoldApplies(read)
        PROVE  HoldInv'
    BY <2>4 DEF HoldApplies, HoldInv, table
  <2>5. CASE UNCHANGED vars
    BY <2>5 DEF vars, table, gate, rules, actors, HoldInv, Up
  <2> QED
    BY <2>1, <2>2, <2>3, <2>4, <2>5, HoldKeeps DEF GateInv
<1>3. GateInv /\ HoldInv /\ [Next]_vars =>
        [\A r \in Runs : res[r] = "waiting" /\ res'[r] = "granted" => ~holdRow \/ r \in Exempt]_vars
  <2> SUFFICES ASSUME GateInv, HoldInv, [Next]_vars, NEW r \in Runs, res[r] = "waiting", res'[r] = "granted"
               PROVE  ~holdRow \/ r \in Exempt
    OBVIOUS
  <2>1. PassGrants(r)
    BY OnlyThePassGrants DEF GateInv
  <2>2. Up /\ ~AdminHeld(r)
    BY <2>1 DEF PassGrants, Upcoming, GateInv, Owners
  <2> QED
    BY <2>2 DEF HoldInv, AdminHeld
<1> QED
  BY <1>1, <1>2, <1>3, GateInvariant, PTL DEF Spec, HoldEnforced
=============================================================================
