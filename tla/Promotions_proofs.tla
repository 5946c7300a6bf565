-------------------------- MODULE Promotions_proofs --------------------------
(* Proofs about Promotions, for every number of sources, grants, callers and  *)
(* promotions.                                                                *)
EXTENDS Promotions, TLAPS

Final == {"passed", "failed", "interrupted"}
Working(i) == own[i] \in {"plan", "ready", "publish"}

\* Rows are numbered without a gap.
RowInv == \A i \in Ids : i <= n <=> prom[i].st # "none"

\* Who works on a row, and what the row looks like meanwhile.
WorkRow(i) ==
  /\ own[i] # "none" => up /\ Pending(i) /\ prom[i].run = "none" /\ prom[i].pub = "none"
  /\ own[i] \in {"wait", "plan"} => prom[i].out = {}
  /\ prom[i].pub = "pending" => Pending(i)
  /\ Pending(i) => prom[i].why = "none"
  /\ dl[i] # "none" => up /\ prom[i].pub = "pending"
  /\ hook[i] # "none" => prom[i].st \in {"failed", "interrupted"}
  /\ hook[i] \in {"retry", "again"} => prom[i].auto < MaxAuto
WorkInv == \A i \in Ids : WorkRow(i)

\* A promotion is planned only when nobody is ahead of it.
OrderInv == \A i \in Ids : Pending(i) /\ (prom[i].planned \/ Working(i)) => Ahead(i) = {}

CallsHold == \A c \in Callers : call[c].mode # "auto" /\ \A g \in call[c].gr : grant[g].st # "none"

\* A grant was issued before a call or a promotion holds it, and is consumed
\* by a delivered promotion.
GrantInv ==
  /\ GrantSpentOnce
  /\ \A i \in Ids : \A g \in prom[i].spec.gr : grant[g].st # "none"
  /\ CallsHold
  /\ \A g \in Grants : grant[g].st = "consumed" => grant[g].by \in Ids /\ prom[grant[g].by].st = "passed"

\* What is published, or was when its push failed, is tested.
TestInv ==
  /\ TestedOnly
  /\ \A s \in Sources \ Parked : Source(s) \in tested
  /\ \A i \in Ids : own[i] = "publish" \/ prom[i].pub = "pending" \/ prom[i].why = "push"
                      => prom[i].res \in tested

Inv == TypeOK /\ RowInv /\ WorkInv /\ OrderInv /\ GrantInv /\ RetriesFormChains /\ TestInv

-----------------------------------------------------------------------------
(* Types *)

LEMMA NoSpecType == NoSpec \in Specs /\ NoSpec.gr = {} /\ NoSpec.mode = "none" /\ NoSpec.of = 0
<1>1. \E q : q \in Requests  BY PromotionsAssumption DEF Requests
<1>2. (CHOOSE q \in Requests : TRUE) \in Requests  BY <1>1
<1> QED  BY <1>2, PromotionsAssumption DEF NoSpec, Specs

LEMMA CommitTypes ==
  /\ Root \in Commits /\ \A s \in Sources : Source(s) \in Commits
BY DEF Root, Source, Commits

LEMMA NewRowType ==
  ASSUME NEW spec \in Specs, NEW auto \in Nat, NEW st \in Statuses
  PROVE  NewRow(spec, auto, st) \in Rows
BY CommitTypes DEF NewRow, Rows

\* A row of the table, field by field.
LEMMA RowTypes ==
  ASSUME TypeOK, NEW i \in Ids
  PROVE  /\ prom[i] \in Rows /\ prom[i].spec \in Specs /\ prom[i].auto \in Nat
         /\ prom[i].spec.req \in Requests /\ prom[i].spec.of \in 0..MaxPromotions
         /\ prom[i].spec.gr \in SUBSET Grants
         /\ prom[i].base \in Commits /\ prom[i].res \in Commits /\ prom[i].out \in SUBSET Sources
BY DEF TypeOK, Rows, Specs

\* The row a promotion has when it is over.
LEMMA ClosedRow ==
  ASSUME NEW row \in Rows, NEW st \in Statuses,
         NEW why \in {"none", "restart", "moved", "push", "other"}
  PROVE  /\ Closed(row, st, why) \in Rows
         /\ Closed(row, st, why).st = st /\ Closed(row, st, why).why = why
         /\ Closed(row, st, why).spec = row.spec /\ Closed(row, st, why).auto = row.auto
         /\ Closed(row, st, why).out = row.out /\ Closed(row, st, why).res = row.res
         /\ Closed(row, st, why).planned = row.planned /\ Closed(row, st, why).pub # "pending"
BY DEF Rows, Closed, Over

LEMMA MergeType ==
  ASSUME TypeOK, NEW i \in Ids, NEW q \in Requests, NEW skip
  PROVE  Merge(i, q, skip) \in Commits
<1>1. SourcesOf(q) \subseteq Sources  BY PromotionsAssumption DEF SourcesOf, Requests
<1>2. i \in Int  BY DEF Ids
<1>3. q \notin Trains => q \in Sources  BY DEF Requests
<1> QED  BY <1>1, <1>2, <1>3, CommitTypes DEF Merge, FastForward, TypeOK, Commits

-----------------------------------------------------------------------------
(* Steps that admit no promotion *)

\* Rows keep what they were admitted with, end at most once, gain no grant and
\* start to be planned only when nobody is ahead.
Calm ==
  /\ n' = n
  /\ \A k \in Ids :
       /\ prom'[k].spec = prom[k].spec /\ prom'[k].auto = prom[k].auto
       /\ prom'[k].st = prom[k].st \/ (Pending(k) /\ prom'[k].st \in Final)
       /\ prom'[k].st = "pending" => prom[k].out \subseteq prom'[k].out
       /\ prom'[k].st = "passed" => prom[k].out = prom'[k].out
       /\ prom'[k].st = "pending" /\ (prom'[k].planned \/ Working(k)')
            => prom[k].planned \/ Working(k) \/ Ahead(k) = {}

\* No promotion is delivered in this step.
NoDelivery == \A k \in Ids : prom'[k].st = "passed" => prom[k].st = "passed"

\* What may happen to a grant besides its consumption.
GrantsMove ==
  \A g \in Grants : \/ grant'[g] = grant[g]
                    \/ grant[g].st = "none" /\ grant'[g].st = "active"
                    \/ grant[g].st = "active" /\ grant'[g].st = "withdrawn"
GrantsCalm == GrantsMove /\ CallsHold'

LEMMA CalmRows ==
  ASSUME RowInv, Calm
  PROVE  RowInv'
BY DEF RowInv, Calm, Pending, Final, Ids

LEMMA CalmOrder ==
  ASSUME OrderInv, Calm
  PROVE  OrderInv'
<1> SUFFICES ASSUME NEW i \in Ids, Pending(i)', (prom[i].planned \/ Working(i))'
             PROVE  Ahead(i)' = {}
  BY DEF OrderInv, Ids
<1>1. Pending(i)  BY DEF Calm, Pending, Final
<1>2. Ahead(i) = {}  BY <1>1 DEF Calm, OrderInv, Pending
<1>3. \A j \in Ids : Pending(j)' => Pending(j)  BY DEF Calm, Pending, Final
<1> QED  BY <1>2, <1>3 DEF Ahead, Ids, Pending

LEMMA CalmChains ==
  ASSUME TypeOK, RowInv, RetriesFormChains, Calm
  PROVE  RetriesFormChains'
<1>1. \A i \in Ids : Successors(i)' = Successors(i)
  BY DEF Calm, Successors, Pending, Final, Ids
<1> SUFFICES ASSUME NEW i \in 1..n PROVE Chained(i)'
  <2>1. n' = n  BY DEF Calm
  <2> QED  BY <2>1 DEF RetriesFormChains
<1>2. i \in Ids  BY PromotionsAssumption DEF TypeOK, Ids
<1>3. Chained(i)  BY DEF RetriesFormChains
<1>4. PICK o : o = prom[i].spec.of  OBVIOUS
<1>5. o \in 0..MaxPromotions  BY <1>2, <1>4, RowTypes
<1>6. o # 0 => o \in Ids  BY <1>5, PromotionsAssumption DEF Ids
<1>7. o # 0 => prom'[o].st = prom[o].st  BY <1>3, <1>4, <1>6 DEF Calm, Pending, Chained
<1>8. prom'[i].spec = prom[i].spec /\ prom'[i].auto = prom[i].auto  BY <1>2 DEF Calm
<1>9. o # 0 => /\ prom'[o].spec = prom[o].spec /\ prom'[o].auto = prom[o].auto
               /\ Successors(o)' = Successors(o)
  BY <1>1, <1>6 DEF Calm
<1> QED  BY <1>3, <1>4, <1>7, <1>8, <1>9 DEF Chained, Req

LEMMA CalmGrants ==
  ASSUME TypeOK, TypeOK', GrantInv, Calm, NoDelivery, GrantsCalm
  PROVE  GrantInv'
<1>1. \A k \in Ids : Live(k)' => Live(k) /\ prom'[k].st = prom[k].st
  BY DEF Calm, NoDelivery, Live, Pending, Final
<1>2. \A k \in Ids : Live(k)' => Included(k)' \subseteq Included(k)
  BY <1>1 DEF Calm, Included, Live
<1>3. \A g \in Grants : Holders(g)' \subseteq Holders(g)
  BY <1>1, <1>2 DEF Holders, Ids
<1>4. \A k \in Ids : prom[k].st = "passed" => prom'[k].st = "passed" /\ Included(k)' = Included(k)
  BY DEF Calm, Included, Pending
<1>5. \A g \in Grants : grant'[g].st = "consumed" => grant'[g] = grant[g] /\ grant[g].st = "consumed"
  BY DEF GrantsCalm, GrantsMove
<1>6. GrantSpentOnce'
  <2> SUFFICES ASSUME NEW g \in Grants
               PROVE  /\ \A i, j \in Holders(g)' : i = j
                      /\ grant'[g].st = "consumed" => grant'[g].by \in Holders(g)'
                      /\ \A i \in Holders(g)' : prom'[i].st = "passed" =>
                           grant'[g] = [st |-> "consumed", by |-> i] \/ grant'[g].st = "withdrawn"
    BY DEF GrantSpentOnce
  <2>1. \A i, j \in Holders(g)' : i = j  BY <1>3 DEF GrantInv, GrantSpentOnce
  <2>2. ASSUME grant'[g].st = "consumed" PROVE grant'[g].by \in Holders(g)'
    <3>1. grant'[g] = grant[g] /\ grant[g].by \in Ids /\ prom[grant[g].by].st = "passed"
      BY <1>5, <2>2 DEF GrantInv
    <3>2. grant[g].by \in Holders(g)  BY <1>5, <2>2 DEF GrantInv, GrantSpentOnce
    <3> QED  BY <1>4, <3>1, <3>2 DEF Holders, Live, Ids
  <2>3. ASSUME NEW i \in Holders(g)', prom'[i].st = "passed"
        PROVE  grant'[g] = [st |-> "consumed", by |-> i] \/ grant'[g].st = "withdrawn"
    <3>1. i \in Holders(g) /\ i \in Ids  BY <1>3 DEF Holders
    <3>2. prom[i].st = "passed"  BY <2>3, <3>1 DEF NoDelivery
    <3>3. grant[g] = [st |-> "consumed", by |-> i] \/ grant[g].st = "withdrawn"
      BY <3>1, <3>2 DEF GrantInv, GrantSpentOnce
    <3> QED  BY <3>3 DEF GrantsCalm, GrantsMove
  <2> QED  BY <2>1, <2>2, <2>3
<1>7. \A i \in Ids : \A g \in prom'[i].spec.gr : grant'[g].st # "none"
  <2> SUFFICES ASSUME NEW i \in Ids, NEW g \in prom'[i].spec.gr PROVE grant'[g].st # "none"
    OBVIOUS
  <2>1. g \in prom[i].spec.gr /\ g \in Grants  BY RowTypes DEF Calm
  <2>2. grant[g].st # "none"  BY <2>1 DEF GrantInv
  <2> QED  BY <2>1, <2>2 DEF GrantsCalm, GrantsMove
<1>8. \A g \in Grants : grant'[g].st = "consumed" => grant'[g].by \in Ids /\ prom'[grant'[g].by].st = "passed"
  BY <1>4, <1>5 DEF GrantInv
<1> QED  BY <1>6, <1>7, <1>8 DEF GrantInv, GrantsCalm, Ids

\* Together, what a calm step owes.
LEMMA CalmStep ==
  ASSUME Inv, TypeOK', Calm, NoDelivery, GrantsCalm, WorkInv', TestInv'
  PROVE  Inv'
BY CalmRows, CalmOrder, CalmChains, CalmGrants DEF Inv
\* The rows, tasks and deliveries stay as they are.
LEMMA SameRows ==
  ASSUME Inv, UNCHANGED <<prom, n, own, dl, hook, up>>
  PROVE  Calm /\ NoDelivery /\ WorkInv'
<1>1. Calm /\ NoDelivery  BY DEF Calm, NoDelivery, Working
<1>2. WorkInv'  BY DEF Inv, WorkInv, WorkRow, Pending
<1> QED  BY <1>1, <1>2

\* One row changes.
LEMMA OneRow ==
  ASSUME TypeOK, NEW i \in Ids, NEW row \in Rows, prom' = [prom EXCEPT ![i] = row]
  PROVE  /\ prom' \in [Ids -> Rows] /\ prom'[i] = row
         /\ \A k \in Ids : k # i => prom'[k] = prom[k]
BY DEF TypeOK

\* Grants and calls stay as they are.
LEMMA SameGrants ==
  ASSUME Inv, UNCHANGED <<grant, call>>
  PROVE  GrantsCalm
<1>1. GrantsMove  BY DEF GrantsMove
<1>2. CallsHold'  BY DEF Inv, GrantInv, CallsHold
<1> QED  BY <1>1, <1>2 DEF GrantsCalm

LEMMA SpecType ==
  ASSUME TypeOK, NEW q \in Requests, NEW by \in {"admin", "user"}, NEW of \in 0..MaxPromotions
  PROVE  [req |-> q, by |-> by, of |-> of, gr |-> IF by = "user" THEN Matching(q) ELSE {},
          mode |-> IF of = 0 THEN "fresh" ELSE "manual"] \in Specs
<1>1. Matching(q) \in SUBSET Grants  BY DEF Matching
<1> QED  BY <1>1 DEF Specs

LEMMA BeginInv ==
  ASSUME Inv, NEW c \in Callers, NEW q \in Requests, NEW by \in {"admin", "user"},
         NEW of \in 0..MaxPromotions, Begin(c, q, by, of)
  PROVE  Inv'
<1> DEFINE spec == [req |-> q, by |-> by, of |-> of, gr |-> IF by = "user" THEN Matching(q) ELSE {},
                    mode |-> IF of = 0 THEN "fresh" ELSE "manual"]
<1>1. spec \in Specs  BY SpecType DEF Inv
<1>2. call' = [call EXCEPT ![c] = spec]  BY DEF Begin
<1>3. UNCHANGED <<prom, n, grant, admin, head, moves, tested, own, dl, hook, up, lost, faults>>
  BY DEF Begin
<1> HIDE DEF spec
<1>4. TypeOK'  BY <1>1, <1>2, <1>3 DEF Inv, TypeOK
<1>5. spec.mode # "auto" /\ \A g \in spec.gr : g \in Grants /\ Active(g)
  BY DEF spec, Matching, Free
<1>6. GrantsCalm
  <2> SUFFICES ASSUME NEW d \in Callers
               PROVE  call'[d].mode # "auto" /\ \A g \in call'[d].gr : grant'[g].st # "none"
    <3>1. GrantsMove  BY <1>3 DEF GrantsMove
    <3> QED  BY <3>1 DEF GrantsCalm, CallsHold
  <2>1. CASE d = c  BY <1>2, <1>3, <1>5, <2>1 DEF Inv, TypeOK, Active
  <2>2. CASE d # c  BY <1>2, <1>3, <2>2 DEF Inv, TypeOK, GrantInv, CallsHold
  <2> QED  BY <2>1, <2>2
<1>7. TestInv'  BY <1>3 DEF Inv, TestInv, TestedOnly
<1> QED  BY <1>3, <1>4, <1>6, <1>7, SameRows, CalmStep

LEMMA RefuseInv ==
  ASSUME Inv, NEW c \in Callers, Refuse(c)
  PROVE  Inv'
<1>1. TypeOK'  BY NoSpecType DEF Inv, TypeOK, Refuse
<1>2. GrantsCalm
  <2> SUFFICES ASSUME NEW d \in Callers
               PROVE  call'[d].mode # "auto" /\ \A g \in call'[d].gr : grant'[g].st # "none"
    <3>1. GrantsMove  BY DEF GrantsMove, Refuse
    <3> QED  BY <3>1 DEF GrantsCalm, CallsHold
  <2>1. CASE d = c  BY <2>1, NoSpecType DEF Inv, TypeOK, Refuse
  <2>2. CASE d # c  BY <2>2 DEF Inv, TypeOK, GrantInv, CallsHold, Refuse
  <2> QED  BY <2>1, <2>2
<1>3. TestInv'  BY DEF Inv, TestInv, TestedOnly, Refuse
<1> QED  BY <1>1, <1>2, <1>3, SameRows, CalmStep DEF Refuse

LEMMA IssueInv ==
  ASSUME Inv, NEW g \in Grants, Issue(g)
  PROVE  Inv'
<1>1. TypeOK'  BY DEF Inv, TypeOK, Issue
<1>2. GrantsCalm
  <2>1. \A h \in Grants : grant'[h] = grant[h] \/ (grant[h].st = "none" /\ grant'[h].st = "active")
    BY DEF Inv, TypeOK, Issue
  <2>2. \A c \in Callers : call'[c] = call[c] /\ call[c].gr \subseteq Grants
    BY DEF Inv, TypeOK, Specs, Issue
  <2>3. CallsHold'  BY <2>1, <2>2 DEF Inv, GrantInv, CallsHold
  <2>4. GrantsMove  BY <2>1 DEF GrantsMove
  <2> QED  BY <2>3, <2>4 DEF GrantsCalm
<1>3. TestInv'  BY DEF Inv, TestInv, TestedOnly, Issue
<1> QED  BY <1>1, <1>2, <1>3, SameRows, CalmStep DEF Issue

LEMMA WithdrawInv ==
  ASSUME Inv, NEW g \in Grants, Withdraw(g)
  PROVE  Inv'
<1>1. TypeOK'  BY DEF Inv, TypeOK, Withdraw
<1>2. GrantsCalm
  <2>1. \A h \in Grants : grant'[h] = grant[h] \/ (grant[h].st = "active" /\ grant'[h].st = "withdrawn")
    BY DEF Inv, TypeOK, Withdraw, Active
  <2>2. \A c \in Callers : call'[c] = call[c] /\ call[c].gr \subseteq Grants
    BY DEF Inv, TypeOK, Specs, Withdraw
  <2>3. CallsHold'  BY <2>1, <2>2 DEF Inv, GrantInv, CallsHold
  <2>4. GrantsMove  BY <2>1 DEF GrantsMove
  <2> QED  BY <2>3, <2>4 DEF GrantsCalm
<1>3. TestInv'  BY DEF Inv, TestInv, TestedOnly, Withdraw
<1> QED  BY <1>1, <1>2, <1>3, SameRows, CalmStep DEF Withdraw

LEMMA OutsideInv ==
  ASSUME Inv, Demote \/ OthersPush
  PROVE  Inv'
<1>1. TypeOK'
  <2>1. CASE Demote  BY <2>1 DEF Inv, TypeOK, Demote
  <2>2. CASE OthersPush  BY <2>2 DEF Inv, TypeOK, OthersPush, Commits
  <2> QED  BY <2>1, <2>2
<1>2. UNCHANGED <<prom, n, grant, call, tested, own, dl, hook, up>>  BY DEF Demote, OthersPush
<1>3. TestedOnly'
  <2>1. CASE Demote  BY <2>1 DEF Inv, TestInv, TestedOnly, Demote
  <2>2. CASE OthersPush
    <3>1. moves \in Nat /\ head'.id = -(moves + 1)  BY <2>2 DEF Inv, TypeOK, OthersPush
    <3> QED  BY <3>1 DEF TestedOnly
  <2> QED  BY <2>1, <2>2
<1>4. TestInv'  BY <1>2, <1>3 DEF Inv, TestInv
<1> QED  BY <1>1, <1>2, <1>4, SameRows, SameGrants, CalmStep
-----------------------------------------------------------------------------
(* Queue and plan *)

LEMMA TurnInv ==
  ASSUME Inv, NEW i \in Ids, Turn(i)
  PROVE  Inv'
<1>1. TypeOK'  BY DEF Inv, TypeOK, Turn
<1>2. Calm /\ NoDelivery
  BY DEF Inv, TypeOK, Turn, Calm, NoDelivery, Working
<1>3. WorkInv'  BY DEF Inv, TypeOK, WorkInv, WorkRow, Pending, Turn
<1>4. TestInv'  BY DEF Inv, TypeOK, TestInv, TestedOnly, Turn
<1> QED  BY <1>1, <1>2, <1>3, <1>4, SameGrants, CalmStep DEF Turn

LEMMA FailLostInv ==
  ASSUME Inv, NEW i \in Ids, FailLost(i)
  PROVE  Inv'
<1>1. TypeOK'  BY DEF Inv, TypeOK, FailLost
<1>2. Calm /\ NoDelivery
  BY DEF Inv, TypeOK, FailLost, Calm, NoDelivery, Working
<1>3. WorkInv'  BY DEF Inv, TypeOK, WorkInv, WorkRow, Pending, FailLost
<1>4. TestInv'  BY DEF Inv, TypeOK, TestInv, TestedOnly, FailLost
<1> QED  BY <1>1, <1>2, <1>3, <1>4, SameGrants, CalmStep DEF FailLost

LEMMA FailInv ==
  ASSUME Inv, NEW i \in Ids, Fail(i)
  PROVE  Inv'
<1>1. Pending(i)  BY DEF Fail, Inv, WorkInv, WorkRow
<1>2. PICK skip \in SUBSET Sources :
        prom' = [prom EXCEPT ![i] = [Closed(prom[i], "failed", "other") EXCEPT !.out = skip]]
  <2>1. SourcesOf(Req(i)) \subseteq Sources
    BY RowTypes, PromotionsAssumption DEF Inv, SourcesOf, Req, Requests
  <2>2. prom[i].out \subseteq Sources  BY RowTypes DEF Inv
  <2> QED  BY <2>1, <2>2 DEF Fail
<1> DEFINE row == [Closed(prom[i], "failed", "other") EXCEPT !.out = skip]
<1>3. prom[i] \in Rows /\ Closed(prom[i], "failed", "other") \in Rows
  BY RowTypes, ClosedRow DEF Inv, Statuses
<1>4. row \in Rows  BY <1>3 DEF Rows
<1>5. /\ row.st = "failed" /\ row.why = "other" /\ row.pub # "pending"
      /\ row.spec = prom[i].spec /\ row.auto = prom[i].auto
  BY <1>3, ClosedRow DEF Statuses, Rows
<1> HIDE DEF row
<1>6. /\ prom' \in [Ids -> Rows] /\ prom'[i] = row /\ \A k \in Ids : k # i => prom'[k] = prom[k]
  BY <1>2, <1>4, OneRow DEF Inv, row
<1>7. TypeOK'  BY <1>6 DEF Inv, TypeOK, Fail
<1>8. Calm /\ NoDelivery
  BY <1>1, <1>5, <1>6 DEF Inv, TypeOK, Fail, Calm, NoDelivery, Working, Final
<1>9. WorkInv'
  <2> SUFFICES ASSUME NEW k \in Ids PROVE WorkRow(k)'
    BY DEF WorkInv, Ids
  <2>1. own[i] # "none" /\ prom[i].pub = "none" /\ dl[i] = "none" /\ hook[i] = "none"
    BY DEF Inv, WorkInv, WorkRow, Fail, Pending
  <2>2. CASE k = i  BY <1>5, <1>6, <2>1, <2>2 DEF Inv, TypeOK, WorkRow, Fail, Pending
  <2>3. CASE k # i  BY <1>6, <2>3 DEF Inv, TypeOK, WorkInv, WorkRow, Fail, Pending
  <2> QED  BY <2>2, <2>3
<1>10. TestInv'  BY <1>5, <1>6 DEF Inv, TypeOK, TestInv, TestedOnly, Fail
<1> QED  BY <1>7, <1>8, <1>9, <1>10, SameGrants, CalmStep DEF Fail

\* What planAdmittedPromotion publishes without a run has been tested.
LEMMA PlannedTested ==
  ASSUME Inv, NEW i \in Ids, ~Skipped(Req(i))
  PROVE  /\ Reusable(i) => prom[i].spec.of \in Ids /\ prom[prom[i].spec.of].res \in tested
         /\ \A skip : FastForward(Req(i)) => Merge(i, Req(i), skip) \in tested
<1>1. Reusable(i) => prom[i].spec.of \in Ids /\ prom[prom[i].spec.of].res \in tested
  <2>1. prom[i].spec.of \in 0..MaxPromotions  BY RowTypes DEF Inv
  <2> QED  BY <2>1, PromotionsAssumption DEF Reusable, Ids, Inv, TestInv
<1>2. ASSUME NEW skip, FastForward(Req(i)) PROVE Merge(i, Req(i), skip) \in tested
  <2>1. Req(i) \in Sources /\ Req(i) \notin Trains
    BY <1>2, RowTypes DEF Inv, Req, Requests, FastForward
  <2>2. Req(i) \notin Parked  BY <2>1 DEF Skipped, SourcesOf
  <2> QED  BY <1>2, <2>1, <2>2 DEF Merge, Inv, TestInv
<1> QED  BY <1>1, <1>2

LEMMA PlannedRow ==
  ASSUME NEW row \in Rows, NEW base \in Commits, NEW res \in Commits, NEW skip \in SUBSET Sources
  PROVE  LET new == WithPlan(row, base, res, skip) IN
         /\ new \in Rows /\ new.res = res /\ new.st = row.st /\ new.why = row.why /\ new.run = row.run
         /\ new.pub = row.pub /\ new.spec = row.spec /\ new.auto = row.auto /\ new.out = skip
BY DEF Rows, WithPlan

LEMMA PlanInv ==
  ASSUME Inv, NEW i \in Ids, Plan(i)
  PROVE  Inv'
<1>1. /\ up /\ Pending(i) /\ prom[i].run = "none" /\ prom[i].pub = "none" /\ prom[i].out = {}
      /\ dl[i] = "none" /\ hook[i] = "none" /\ prom[i].why = "none"
  BY DEF Plan, Inv, WorkInv, WorkRow, Pending
<1>2. PICK base \in Commits, res \in Commits, skip \in SUBSET Sources :
        /\ prom' = Planned(i, base, res, skip)
        /\ own'[i] = "publish" => res \in tested
  <2>1. PICK skip \in SUBSET Sources :
          prom' = IF Reusable(i)
                  THEN Planned(i, prom[prom[i].spec.of].base, prom[prom[i].spec.of].res, {})
                  ELSE Planned(i, head, Merge(i, Req(i), skip), skip)
    <3>1. SourcesOf(Req(i)) \subseteq Sources
      BY RowTypes, PromotionsAssumption DEF Inv, SourcesOf, Req, Requests
    <3> QED  BY <3>1 DEF Plan
  <2>2. own'[i] = IF (Reusable(i) \/ FastForward(Req(i))) /\ ~Skipped(Req(i)) THEN "publish" ELSE "ready"
    BY DEF Plan, Inv, TypeOK
  <2>3. CASE Reusable(i)
    <3>1. prom[i].spec.of \in Ids
      <4>1. prom[i].spec.of \in 0..MaxPromotions  BY RowTypes DEF Inv
      <4> QED  BY <2>3, <4>1, PromotionsAssumption DEF Reusable, Ids
    <3>2. prom[prom[i].spec.of].base \in Commits /\ prom[prom[i].spec.of].res \in Commits
      BY <3>1, RowTypes DEF Inv
    <3>3. own'[i] = "publish" => prom[prom[i].spec.of].res \in tested
      BY <2>2, <2>3, PlannedTested
    <3> QED  BY <2>1, <2>3, <3>2, <3>3
  <2>4. CASE ~Reusable(i)
    <3>1. head \in Commits /\ Merge(i, Req(i), skip) \in Commits
      BY RowTypes, MergeType DEF Inv, TypeOK, Req
    <3>2. own'[i] = "publish" => Merge(i, Req(i), skip) \in tested
      BY <2>2, <2>4, PlannedTested
    <3> QED  BY <2>1, <2>4, <3>1, <3>2
  <2> QED  BY <2>3, <2>4
<1> DEFINE row == WithPlan(prom[i], base, res, skip)
<1>3. prom' = [prom EXCEPT ![i] = row]  BY <1>2 DEF Planned
<1>4. /\ row \in Rows /\ row.res = res /\ row.st = prom[i].st /\ row.why = prom[i].why
      /\ row.run = prom[i].run /\ row.pub = prom[i].pub /\ row.spec = prom[i].spec
      /\ row.auto = prom[i].auto
  <2>1. prom[i] \in Rows  BY RowTypes DEF Inv
  <2> QED  BY <2>1, PlannedRow
<1> HIDE DEF row
<1>5. /\ prom' \in [Ids -> Rows] /\ prom'[i] = row /\ \A k \in Ids : k # i => prom'[k] = prom[k]
  BY <1>3, <1>4, OneRow DEF Inv
<1>6. own' \in [Ids -> {"none", "wait", "plan", "ready", "publish"}]
  BY DEF Plan, Inv, TypeOK
<1>7. own'[i] \in {"ready", "publish"} /\ \A k \in Ids : k # i => own'[k] = own[k]
  BY DEF Plan, Inv, TypeOK
<1>8. UNCHANGED <<n, grant, admin, head, moves, tested, call, dl, hook, up, lost, faults>>
  BY DEF Plan
<1>9. TypeOK'  BY <1>5, <1>6, <1>8 DEF Inv, TypeOK
<1>10. Working(i)  BY DEF Plan, Working
<1>11. Calm /\ NoDelivery
  BY <1>1, <1>4, <1>5, <1>7, <1>8, <1>10 DEF Calm, NoDelivery, Working, Final, Pending
<1>12. WorkInv'
  <2> SUFFICES ASSUME NEW k \in Ids PROVE WorkRow(k)'
    BY DEF WorkInv, Ids
  <2>1. CASE k = i  BY <1>1, <1>4, <1>5, <1>7, <1>8, <2>1 DEF WorkRow, Pending
  <2>2. CASE k # i  BY <1>5, <1>7, <1>8, <2>2 DEF Inv, WorkInv, WorkRow, Pending
  <2> QED  BY <2>1, <2>2
<1>13. TestInv'  BY <1>1, <1>2, <1>4, <1>5, <1>7, <1>8 DEF Inv, TestInv, TestedOnly
<1> QED  BY <1>8, <1>9, <1>11, <1>12, <1>13, SameGrants, CalmStep
-----------------------------------------------------------------------------
(* A promotion fails, or is published *)

Tasks == [Ids -> {"none", "wait", "plan", "ready", "publish"}]
Deliveries == [Ids -> {"none", "push", "landed", "unclear"}]
Hooks == [Ids -> {"none", "moved", "restart", "retry", "again"}]

\* A pending promotion fails: its task and its delivery are over.
LEMMA FailedStep ==
  ASSUME Inv, NEW i \in Ids, Pending(i), NEW why \in {"moved", "push", "other"},
         why = "push" => prom[i].res \in tested,
         prom' = Ended(i, "failed", why),
         own' \in Tasks, own'[i] = "none", \A k \in Ids : k # i => own'[k] = own[k],
         dl' \in Deliveries, dl'[i] = "none", \A k \in Ids : k # i => dl'[k] = dl[k],
         hook' \in Hooks, hook'[i] \in {"none", "moved"}, \A k \in Ids : k # i => hook'[k] = hook[k],
         tested' \subseteq Commits, tested \subseteq tested',
         faults' \in Nat,
         UNCHANGED <<n, grant, admin, head, moves, call, up, lost>>
  PROVE  Inv'
<1> DEFINE row == Closed(prom[i], "failed", why)
<1>1. /\ row \in Rows /\ row.st = "failed" /\ row.why = why /\ row.pub # "pending"
      /\ row.spec = prom[i].spec /\ row.auto = prom[i].auto /\ row.res = prom[i].res
  <2>1. prom[i] \in Rows  BY RowTypes DEF Inv
  <2> QED  BY <2>1, ClosedRow DEF Statuses
<1>2. prom' = [prom EXCEPT ![i] = row]  BY DEF Ended
<1> HIDE DEF row
<1>3. /\ prom' \in [Ids -> Rows] /\ prom'[i] = row /\ \A k \in Ids : k # i => prom'[k] = prom[k]
  BY <1>1, <1>2, OneRow DEF Inv
<1>4. TypeOK'  BY <1>3 DEF Inv, TypeOK, Tasks, Deliveries, Hooks
<1>5. Calm /\ NoDelivery
  BY <1>1, <1>3 DEF Calm, NoDelivery, Working, Final, Pending
<1>6. WorkInv'
  <2> SUFFICES ASSUME NEW k \in Ids PROVE WorkRow(k)'
    BY DEF WorkInv, Ids
  <2>1. CASE k = i  BY <1>1, <1>3, <2>1 DEF WorkRow, Pending
  <2>2. CASE k # i  BY <1>3, <2>2 DEF Inv, WorkInv, WorkRow, Pending
  <2> QED  BY <2>1, <2>2
<1>7. TestInv'  BY <1>1, <1>3 DEF Inv, TestInv, TestedOnly
<1> QED  BY <1>4, <1>5, <1>6, <1>7, SameGrants, CalmStep

\* A pending promotion moves on: its run or its publication changes, and what
\* is published is tested.
LEMMA MovesOn ==
  ASSUME Inv, NEW i \in Ids, Pending(i), NEW row \in Rows,
         prom' = [prom EXCEPT ![i] = row],
         row.st = "pending", row.why = prom[i].why, row.spec = prom[i].spec, row.auto = prom[i].auto,
         row.out = prom[i].out, row.planned = prom[i].planned, row.res = prom[i].res,
         own' \in Tasks, own'[i] = "none", \A k \in Ids : k # i => own'[k] = own[k],
         dl[i] # "none" => row.pub = "pending",
         tested' \subseteq Commits, tested \subseteq tested', row.pub = "pending" => row.res \in tested',
         UNCHANGED <<n, grant, admin, head, moves, call, dl, hook, up, lost, faults>>
  PROVE  Inv'
<1>1. /\ prom' \in [Ids -> Rows] /\ prom'[i] = row /\ \A k \in Ids : k # i => prom'[k] = prom[k]
  BY OneRow DEF Inv
<1>2. TypeOK'  BY <1>1 DEF Inv, TypeOK, Tasks
<1>3. Calm /\ NoDelivery
  BY <1>1 DEF Calm, NoDelivery, Working, Final, Pending
<1>4. WorkInv'
  <2> SUFFICES ASSUME NEW k \in Ids PROVE WorkRow(k)'
    BY DEF WorkInv, Ids
  <2>1. CASE k = i  BY <1>1, <2>1 DEF Inv, WorkInv, WorkRow, Pending
  <2>2. CASE k # i  BY <1>1, <2>2 DEF Inv, WorkInv, WorkRow, Pending
  <2> QED  BY <2>1, <2>2
<1>5. TestInv'
  <2>1. prom[i].why = "none"  BY DEF Inv, WorkInv, WorkRow
  <2> QED  BY <1>1, <2>1 DEF Inv, TestInv, TestedOnly
<1> QED  BY <1>2, <1>3, <1>4, <1>5, SameGrants, CalmStep

LEMMA EnqueueInv ==
  ASSUME Inv, NEW i \in Ids, Enqueue(i)
  PROVE  Inv'
<1> DEFINE row == [prom[i] EXCEPT !.run = "queued"]
<1>1. prom[i] \in Rows  BY RowTypes DEF Inv
<1>2. /\ row \in Rows /\ row.st = prom[i].st /\ row.why = prom[i].why /\ row.spec = prom[i].spec
      /\ row.auto = prom[i].auto /\ row.out = prom[i].out /\ row.planned = prom[i].planned
      /\ row.res = prom[i].res /\ row.pub = prom[i].pub
  BY <1>1 DEF Rows
<1>3. prom' = [prom EXCEPT ![i] = row]  BY DEF Enqueue
<1>4. own' \in Tasks /\ own'[i] = "none" /\ \A k \in Ids : k # i => own'[k] = own[k]
  BY DEF Enqueue, Inv, TypeOK, Tasks
<1>5. prom[i].pub = "none" /\ dl[i] = "none" /\ Pending(i)
  BY DEF Enqueue, Inv, WorkInv, WorkRow
<1> HIDE DEF row
<1>6. UNCHANGED <<n, grant, admin, head, moves, tested, call, dl, hook, up, lost, faults>>
  BY DEF Enqueue
<1>7. tested' \subseteq Commits /\ tested \subseteq tested'  BY <1>6 DEF Inv, TypeOK
<1> QED  BY <1>2, <1>3, <1>4, <1>5, <1>6, <1>7, MovesOn DEF Pending

LEMMA RunStartsInv ==
  ASSUME Inv, NEW i \in Ids, RunStarts(i)
  PROVE  Inv'
<1> DEFINE row == [prom[i] EXCEPT !.run = "running"]
<1>1. prom[i] \in Rows  BY RowTypes DEF Inv
<1>2. /\ row \in Rows /\ row.st = prom[i].st /\ row.why = prom[i].why /\ row.spec = prom[i].spec
      /\ row.auto = prom[i].auto /\ row.out = prom[i].out /\ row.planned = prom[i].planned
      /\ row.res = prom[i].res /\ row.pub = prom[i].pub
  BY <1>1 DEF Rows
<1>3. prom' = [prom EXCEPT ![i] = row]  BY DEF RunStarts
<1>4. own' \in Tasks /\ own'[i] = "none" /\ \A k \in Ids : k # i => own'[k] = own[k]
  BY DEF RunStarts, Inv, TypeOK, Tasks, WorkInv, WorkRow
<1>5. (dl[i] # "none" => prom[i].pub = "pending") /\ Pending(i)
  BY DEF RunStarts, Inv, WorkInv, WorkRow
<1> HIDE DEF row
<1>6. UNCHANGED <<n, grant, admin, head, moves, tested, call, dl, hook, up, lost, faults>>
  BY DEF RunStarts
<1>7. tested' \subseteq Commits /\ tested \subseteq tested'  BY <1>6 DEF Inv, TypeOK
<1>8. row.pub = "pending" => row.res \in tested'  BY <1>2, <1>6 DEF Inv, TestInv
<1> QED  BY <1>2, <1>3, <1>4, <1>5, <1>6, <1>7, <1>8, MovesOn DEF Pending

\* BeginPublication, or the end of a promotion whose grant is gone.
LEMMA BeginsPublication ==
  ASSUME Inv, NEW i \in Ids, Pending(i), dl[i] = "none", hook[i] = "none",
         prom' = IF Authorized(i) THEN [prom EXCEPT ![i].pub = "pending"] ELSE Ended(i, "failed", "other"),
         own' \in Tasks, own'[i] = "none", \A k \in Ids : k # i => own'[k] = own[k],
         tested' \subseteq Commits, tested \subseteq tested', prom[i].res \in tested',
         UNCHANGED <<n, grant, admin, head, moves, call, dl, hook, up, lost, faults>>
  PROVE  Inv'
<1>1. CASE Authorized(i)
  <2> DEFINE row == [prom[i] EXCEPT !.pub = "pending"]
  <2>1. prom[i] \in Rows  BY RowTypes DEF Inv
  <2>2. /\ row \in Rows /\ row.st = prom[i].st /\ row.why = prom[i].why /\ row.spec = prom[i].spec
        /\ row.auto = prom[i].auto /\ row.out = prom[i].out /\ row.planned = prom[i].planned
        /\ row.res = prom[i].res
    BY <2>1 DEF Rows
  <2>3. prom' = [prom EXCEPT ![i] = row]  BY <1>1
  <2> HIDE DEF row
  <2> QED  BY <2>2, <2>3, MovesOn DEF Pending
<1>2. CASE ~Authorized(i)
  <2>1. dl' \in Deliveries /\ hook' \in Hooks /\ faults' \in Nat
    BY DEF Inv, TypeOK, Deliveries, Hooks
  <2> QED  BY <1>2, <2>1, FailedStep
<1> QED  BY <1>1, <1>2

LEMMA PublishInv ==
  ASSUME Inv, NEW i \in Ids, Publish(i)
  PROVE  Inv'
<1>1. Pending(i) /\ dl[i] = "none" /\ hook[i] = "none"
  BY DEF Publish, Inv, WorkInv, WorkRow, Pending
<1>2. own' \in Tasks /\ own'[i] = "none" /\ \A k \in Ids : k # i => own'[k] = own[k]
  BY DEF Publish, Inv, TypeOK, Tasks
<1>3. prom[i].res \in tested  BY DEF Publish, Inv, TestInv
<1> QED  BY <1>1, <1>2, <1>3, BeginsPublication DEF Publish, Inv, TypeOK

LEMMA RunPassesInv ==
  ASSUME Inv, NEW i \in Ids, RunPasses(i)
  PROVE  Inv'
<1>1. Pending(i) /\ dl[i] = "none" /\ hook[i] = "none" /\ own[i] = "none"
  BY DEF RunPasses, Inv, WorkInv, WorkRow, Pending
<1>2. own' \in Tasks /\ own'[i] = "none" /\ \A k \in Ids : k # i => own'[k] = own[k]
  BY <1>1 DEF RunPasses, Inv, TypeOK, Tasks
<1>3. tested' \subseteq Commits /\ tested \subseteq tested' /\ prom[i].res \in tested'
  BY RowTypes DEF RunPasses, Inv, TypeOK
<1> QED  BY <1>1, <1>2, <1>3, BeginsPublication DEF RunPasses

LEMMA RunFailsInv ==
  ASSUME Inv, NEW i \in Ids, RunFails(i)
  PROVE  Inv'
<1>1. Pending(i) /\ dl[i] = "none" /\ hook[i] = "none" /\ own[i] = "none"
  BY DEF RunFails, Inv, WorkInv, WorkRow, Pending
<1>2. own' \in Tasks /\ dl' \in Deliveries /\ hook' \in Hooks /\ faults' \in Nat /\ tested' \subseteq Commits
  BY DEF RunFails, Inv, TypeOK, Tasks, Deliveries, Hooks
<1> QED  BY <1>1, <1>2, FailedStep DEF RunFails
-----------------------------------------------------------------------------
(* Delivery *)

\* Undelivered: the publication of a promotion ends without its commit.
LEMMA UndeliveredInv ==
  ASSUME Inv, NEW i \in Ids, prom[i].pub = "pending", NEW why \in {"moved", "push", "other"},
         Undelivered(i, why), dl' = [dl EXCEPT ![i] = "none"], faults' \in Nat,
         UNCHANGED <<n, admin, head, moves, tested, call, own, up, lost>>
  PROVE  Inv'
<1>1. Pending(i) /\ own[i] = "none" /\ prom[i].res \in tested
  BY DEF Inv, WorkInv, WorkRow, TestInv
<1>2. own' \in Tasks /\ dl' \in Deliveries /\ tested' \subseteq Commits
  BY DEF Inv, TypeOK, Tasks, Deliveries
<1>3. /\ hook' \in Hooks /\ hook'[i] \in {"none", "moved"}
      /\ \A k \in Ids : k # i => hook'[k] = hook[k]
  BY DEF Undelivered, Inv, TypeOK, Hooks
<1>4. dl'[i] = "none" /\ \A k \in Ids : k # i => dl'[k] = dl[k]  BY DEF Inv, TypeOK
<1>5. prom' = Ended(i, "failed", why) /\ grant' = grant  BY DEF Undelivered
<1> QED  BY <1>1, <1>2, <1>3, <1>4, <1>5, FailedStep

\* The delivered promotion's own grants are free for it alone.
LEMMA DeliveredGrants ==
  ASSUME Inv, NEW i \in Ids, Pending(i), NEW g \in Included(i)
  PROVE  /\ g \in Grants /\ i \in Holders(g) /\ Holders(g) = {i}
         /\ grant[g].st \in {"active", "withdrawn"}
<1>1. g \in Grants  BY RowTypes DEF Inv, Included
<1>2. i \in Holders(g)  BY DEF Holders, Live, Pending
<1>3. \A j \in Holders(g) : j = i  BY <1>1, <1>2 DEF Inv, GrantInv, GrantSpentOnce
<1>4. grant[g].st # "none"  BY DEF Included, Inv, GrantInv
<1>5. grant[g].st # "consumed"
  <2> SUFFICES ASSUME grant[g].st = "consumed" PROVE FALSE  OBVIOUS
  <2>1. grant[g].by = i  BY <1>1, <1>3 DEF Inv, GrantInv, GrantSpentOnce
  <2> QED  BY <1>1, <2>1 DEF Inv, GrantInv, Pending
<1>6. grant[g].st \in {"none", "active", "withdrawn", "consumed"}  BY <1>1 DEF Inv, TypeOK
<1> QED  BY <1>1, <1>2, <1>3, <1>4, <1>5, <1>6

LEMMA DeliverInv ==
  ASSUME Inv, NEW i \in Ids, prom[i].pub = "pending", Deliver(i), dl' = [dl EXCEPT ![i] = "none"],
         UNCHANGED <<n, admin, head, moves, tested, call, own, up, lost, faults>>
  PROVE  Inv'
<1>1. Pending(i) /\ own[i] = "none" /\ hook[i] = "none"
  BY DEF Inv, WorkInv, WorkRow, Pending
<1> DEFINE row == Closed(prom[i], "passed", "none")
<1>2. /\ row \in Rows /\ row.st = "passed" /\ row.why = "none" /\ row.pub # "pending"
      /\ row.spec = prom[i].spec /\ row.auto = prom[i].auto /\ row.res = prom[i].res
      /\ row.out = prom[i].out
  <2>1. prom[i] \in Rows  BY RowTypes DEF Inv
  <2> QED  BY <2>1, ClosedRow DEF Statuses
<1>3. prom' = [prom EXCEPT ![i] = row]  BY DEF Deliver, Ended
<1> HIDE DEF row
<1>4. /\ prom' \in [Ids -> Rows] /\ prom'[i] = row /\ \A k \in Ids : k # i => prom'[k] = prom[k]
  BY <1>2, <1>3, OneRow DEF Inv
<1>5. \A g \in Grants : grant'[g] = IF g \in Included(i) /\ Active(g)
                                    THEN [st |-> "consumed", by |-> i] ELSE grant[g]
  BY DEF Deliver
<1>6. TypeOK'
  <2>1. grant' \in [Grants -> [st : {"none", "active", "withdrawn", "consumed"}, by : 0..MaxPromotions]]
    BY PromotionsAssumption DEF Deliver, Inv, TypeOK, Ids
  <2>2. dl' \in Deliveries /\ hook' = hook  BY DEF Inv, TypeOK, Deliveries, Deliver
  <2> QED  BY <1>4, <2>1, <2>2 DEF Inv, TypeOK, Deliveries
<1>7. Calm
  BY <1>1, <1>2, <1>4 DEF Calm, Working, Final, Pending
<1>8. WorkInv'
  <2> SUFFICES ASSUME NEW k \in Ids PROVE WorkRow(k)'
    BY DEF WorkInv, Ids
  <2>1. hook' = hook /\ dl'[i] = "none" /\ \A j \in Ids : j # i => dl'[j] = dl[j]
    BY DEF Deliver, Inv, TypeOK
  <2>2. CASE k = i  BY <1>1, <1>2, <1>4, <2>1, <2>2 DEF WorkRow, Pending
  <2>3. CASE k # i  BY <1>4, <2>1, <2>3 DEF Inv, WorkInv, WorkRow, Pending
  <2> QED  BY <2>2, <2>3
<1>9. TestInv'  BY <1>1, <1>2, <1>4 DEF Inv, TestInv, TestedOnly
<1>10. GrantInv'
  <2>1. \A k \in Ids : (Live(k)' <=> Live(k)) /\ Included(k)' = Included(k)
    BY <1>1, <1>2, <1>4 DEF Live, Pending, Included
  <2>2. \A g \in Grants : Holders(g)' = Holders(g)  BY <2>1 DEF Holders, Ids
  <2>3. GrantSpentOnce'
    <3> SUFFICES ASSUME NEW g \in Grants
                 PROVE  /\ \A k, j \in Holders(g)' : k = j
                        /\ grant'[g].st = "consumed" => grant'[g].by \in Holders(g)'
                        /\ \A k \in Holders(g)' : prom'[k].st = "passed" =>
                             grant'[g] = [st |-> "consumed", by |-> k] \/ grant'[g].st = "withdrawn"
      BY DEF GrantSpentOnce
    <3>1. CASE g \in Included(i)
      <4>1. Holders(g) = {i} /\ grant[g].st \in {"active", "withdrawn"}  BY <1>1, <3>1, DeliveredGrants
      <4>2. grant'[g] = [st |-> "consumed", by |-> i] \/ grant'[g].st = "withdrawn"
        BY <1>5, <3>1, <4>1 DEF Active
      <4> QED  BY <2>2, <4>1, <4>2
    <3>2. CASE g \notin Included(i)
      <4>1. grant'[g] = grant[g]  BY <1>5, <3>2
      <4>2. i \notin Holders(g)  BY <3>2 DEF Holders
      <4>3. \A k \in Holders(g) : prom'[k] = prom[k]  BY <1>4, <4>2 DEF Holders
      <4> QED  BY <2>2, <4>1, <4>3 DEF Inv, GrantInv, GrantSpentOnce
    <3> QED  BY <3>1, <3>2
  <2>4. \A g \in Grants : grant[g].st # "none" => grant'[g].st # "none"  BY <1>5
  <2>5. \A k \in Ids : \A g \in prom'[k].spec.gr : grant'[g].st # "none"
    <3> SUFFICES ASSUME NEW k \in Ids, NEW g \in prom'[k].spec.gr PROVE grant'[g].st # "none"
      OBVIOUS
    <3>1. g \in prom[k].spec.gr /\ g \in Grants  BY <1>2, <1>4, RowTypes DEF Inv
    <3> QED  BY <2>4, <3>1 DEF Inv, GrantInv
  <2>6. CallsHold'
    <3>1. \A c \in Callers : call[c].gr \subseteq Grants  BY DEF Inv, TypeOK, Specs
    <3> QED  BY <2>4, <3>1 DEF Inv, GrantInv, CallsHold
  <2>7. \A g \in Grants : grant'[g].st = "consumed" => grant'[g].by \in Ids /\ prom'[grant'[g].by].st = "passed"
    <3> SUFFICES ASSUME NEW g \in Grants, grant'[g].st = "consumed"
                 PROVE  grant'[g].by \in Ids /\ prom'[grant'[g].by].st = "passed"
      OBVIOUS
    <3>1. CASE g \in Included(i) /\ Active(g)  BY <1>2, <1>4, <1>5, <3>1
    <3>2. CASE ~(g \in Included(i) /\ Active(g))
      <4>1. grant'[g] = grant[g]  BY <1>5, <3>2
      <4> QED  BY <1>2, <1>4, <4>1 DEF Inv, GrantInv
    <3> QED  BY <3>1, <3>2
  <2> QED  BY <2>3, <2>5, <2>6, <2>7 DEF GrantInv, Ids
<1> QED  BY <1>6, <1>7, <1>8, <1>9, <1>10, CalmRows, CalmOrder, CalmChains DEF Inv

\* A step of the delivery that touches the forge only.
LEMMA PushStep ==
  ASSUME Inv, NEW i \in Ids, dl[i] # "none", dl' \in Deliveries,
         \A k \in Ids : k # i => dl'[k] = dl[k],
         head' \in {head, prom[i].res}, faults' \in Nat,
         UNCHANGED <<prom, n, grant, admin, moves, tested, call, own, hook, up, lost>>
  PROVE  Inv'
<1>1. up /\ prom[i].pub = "pending" /\ prom[i].res \in tested
  BY DEF Inv, WorkInv, WorkRow, TestInv
<1>2. TypeOK'  BY RowTypes DEF Inv, TypeOK, Deliveries
<1>3. Calm /\ NoDelivery  BY DEF Calm, NoDelivery, Working
<1>4. WorkInv'  BY <1>1 DEF Inv, WorkInv, WorkRow, Pending
<1>5. TestInv'  BY <1>1 DEF Inv, TestInv, TestedOnly
<1> QED  BY <1>2, <1>3, <1>4, <1>5, SameGrants, CalmStep

LEMMA PushInv ==
  ASSUME Inv, NEW i \in Ids, Push(i) \/ PushLost(i)
  PROVE  Inv'
<1>1. dl[i] # "none" /\ head' \in {head, prom[i].res}  BY DEF Push, PushLost
<1>2. dl' \in Deliveries /\ (\A k \in Ids : k # i => dl'[k] = dl[k])
  BY DEF Push, PushLost, Inv, TypeOK, Deliveries
<1>3. faults' \in Nat  BY DEF Push, PushLost, Inv, TypeOK
<1> QED  BY <1>1, <1>2, <1>3, PushStep DEF Push, PushLost

LEMMA ReadInv ==
  ASSUME Inv, NEW i \in Ids, Read(i)
  PROVE  Inv'
<1>1. prom[i].pub = "pending" /\ up /\ dl \in Deliveries /\ faults' \in Nat
  BY DEF Read, Inv, TypeOK, Deliveries
<1>2. UNCHANGED <<n, admin, head, moves, tested, call, own, up, lost, faults>>  BY DEF Read
<1>3. dl = [dl EXCEPT ![i] = "none"]  BY <1>1 DEF Read, Deliveries
<1>4. CASE Deliver(i) /\ dl' = dl  BY <1>1, <1>2, <1>3, <1>4, DeliverInv
<1>5. CASE (\E why \in {"moved", "push", "other"} : Undelivered(i, why)) /\ dl' = dl
  BY <1>1, <1>2, <1>3, <1>5, UndeliveredInv
<1>6. CASE dl' = [dl EXCEPT ![i] = "push"] /\ UNCHANGED <<prom, grant, hook>>
  <2>1. TypeOK'  BY <1>2, <1>6 DEF Inv, TypeOK
  <2>2. Calm /\ NoDelivery  BY <1>2, <1>6 DEF Calm, NoDelivery, Working
  <2>3. WorkInv'
    <3> SUFFICES ASSUME NEW k \in Ids PROVE WorkRow(k)'
      BY DEF WorkInv, Ids
    <3> QED  BY <1>1, <1>2, <1>6 DEF Inv, WorkInv, WorkRow, Pending, Deliveries
  <2>4. TestInv'  BY <1>2, <1>6 DEF Inv, TestInv, TestedOnly
  <2> QED  BY <1>2, <1>6, <2>1, <2>2, <2>3, <2>4, SameGrants, CalmStep
<1> QED  BY <1>4, <1>5, <1>6 DEF Read

LEMMA VerifyInv ==
  ASSUME Inv, NEW i \in Ids, Verify(i) \/ VerifyLost(i)
  PROVE  Inv'
<1>1. /\ dl[i] # "none" /\ prom[i].pub = "pending" /\ dl' = [dl EXCEPT ![i] = "none"] /\ faults' \in Nat
      /\ UNCHANGED <<n, admin, head, moves, tested, call, own, up, lost>>
  BY DEF Verify, VerifyLost, Inv, TypeOK, WorkInv, WorkRow
<1>2. CASE Deliver(i) /\ faults' = faults  BY <1>1, <1>2, DeliverInv
<1>3. CASE \E why \in {"moved", "push", "other"} : Undelivered(i, why)
  BY <1>1, <1>3, UndeliveredInv
<1>4. CASE UNCHANGED <<prom, grant, hook>>
  <2>1. dl' \in Deliveries /\ \A k \in Ids : k # i => dl'[k] = dl[k]  BY <1>1 DEF Inv, TypeOK, Deliveries
  <2> QED  BY <1>1, <1>4, <2>1, PushStep
<1> QED  BY <1>2, <1>3, <1>4 DEF Verify, VerifyLost

LEMMA AbandonInv ==
  ASSUME Inv, NEW i \in Ids, Abandon(i)
  PROVE  Inv'
<1>1. dl' = [dl EXCEPT ![i] = "none"] /\ faults' \in Nat  BY DEF Abandon, Inv, TypeOK
<1> QED  BY <1>1, UndeliveredInv DEF Abandon
-----------------------------------------------------------------------------
(* Automatic retries, stop and start *)

LEMMA HookLooksInv ==
  ASSUME Inv, NEW i \in Ids, HookLooks(i) \/ HookGivesUp(i)
  PROVE  Inv'
<1>1. /\ hook' \in Hooks /\ \A k \in Ids : k # i => hook'[k] = hook[k]
      /\ hook[i] # "none" /\ (hook'[i] # "none" => MayRetry(i))
  BY DEF HookLooks, HookGivesUp, Inv, TypeOK, Hooks
<1>2. UNCHANGED <<prom, n, grant, admin, head, moves, tested, call, own, dl, up, lost, faults>>
  BY DEF HookLooks, HookGivesUp
<1>3. TypeOK'  BY <1>1, <1>2 DEF Inv, TypeOK, Hooks
<1>4. Calm /\ NoDelivery  BY <1>2 DEF Calm, NoDelivery, Working
<1>5. WorkInv'
  <2> SUFFICES ASSUME NEW k \in Ids PROVE WorkRow(k)'
    BY DEF WorkInv, Ids
  <2>1. CASE k = i  BY <1>1, <1>2, <2>1 DEF Inv, WorkInv, WorkRow, Pending, MayRetry
  <2>2. CASE k # i  BY <1>1, <1>2, <2>2 DEF Inv, WorkInv, WorkRow, Pending
  <2> QED  BY <2>1, <2>2
<1>6. TestInv'  BY <1>2 DEF Inv, TestInv, TestedOnly
<1> QED  BY <1>2, <1>3, <1>4, <1>5, <1>6, SameGrants, CalmStep

LEMMA CrashInv ==
  ASSUME Inv, Crash
  PROVE  Inv'
<1>1. UNCHANGED <<prom, n, grant, admin, head, moves, tested, lost>>  BY DEF Crash
<1>2. TypeOK'
  <2>1. call' \in [Callers -> Specs]  BY NoSpecType DEF Crash
  <2>2. own' \in Tasks /\ dl' \in Deliveries /\ hook' \in Hooks /\ faults' \in Nat
    BY DEF Crash, Tasks, Deliveries, Hooks, Inv, TypeOK
  <2>3. up' = FALSE  BY DEF Crash
  <2> QED  BY <1>1, <2>1, <2>2, <2>3 DEF Inv, TypeOK, Tasks, Deliveries, Hooks
<1>3. Calm /\ NoDelivery  BY <1>1 DEF Calm, NoDelivery, Working, Crash
<1>4. GrantsCalm
  <2>1. GrantsMove  BY <1>1 DEF GrantsMove
  <2>2. CallsHold'  BY NoSpecType DEF CallsHold, Crash
  <2> QED  BY <2>1, <2>2 DEF GrantsCalm
<1>5. WorkInv'  BY <1>1 DEF Inv, WorkInv, WorkRow, Pending, Crash
<1>6. TestInv'  BY <1>1 DEF Inv, TestInv, TestedOnly, Crash
<1> QED  BY <1>2, <1>3, <1>4, <1>5, <1>6, CalmStep

\* What a start makes of a row.
LEMMA RecoveredRow ==
  ASSUME Inv, NEW i \in Ids, NEW row \in Recovered(i)
  PROVE  /\ row \in Rows /\ row.spec = prom[i].spec /\ row.auto = prom[i].auto
         /\ row.out = prom[i].out /\ row.planned = prom[i].planned /\ row.res = prom[i].res
         /\ row.st = prom[i].st \/ (Pending(i) /\ row.st \in {"failed", "interrupted"})
         /\ row.pub = "pending" => prom[i].pub = "pending" /\ row.st = "pending"
         /\ row.why = prom[i].why \/ (row.why \in {"restart", "other"} /\ row.st # "pending")
<1>1. prom[i] \in Rows  BY RowTypes DEF Inv
<1>2. CASE row = prom[i]  BY <1>1, <1>2 DEF Inv, WorkInv, WorkRow, Pending
<1>3. CASE row = [prom[i] EXCEPT !.run = "queued"]
  BY <1>1, <1>3 DEF Rows, Inv, WorkInv, WorkRow, Pending
<1>4. CASE Pending(i) /\ \E st \in {"failed", "interrupted"}, why \in {"restart", "other"} :
             row = Closed(prom[i], st, why)
  BY <1>1, <1>4, ClosedRow DEF Statuses
<1>5. CASE Interrupts(i)
  BY <1>4, <1>5 DEF Recovered, Interrupts
<1>6. CASE ~Interrupts(i) /\ Pending(i) /\ prom[i].run = "running" /\ prom[i].pub = "none"
  BY <1>2, <1>3, <1>4, <1>6 DEF Recovered
<1>7. CASE ~Interrupts(i) /\ ~(Pending(i) /\ prom[i].run = "running" /\ prom[i].pub = "none")
  BY <1>2, <1>7 DEF Recovered
<1> QED  BY <1>5, <1>6, <1>7

LEMMA StartInv ==
  ASSUME Inv, Start
  PROVE  Inv'
<1>1. \A k \in Ids : prom'[k] \in Recovered(k)  BY DEF Start
<1>2. \A k \in Ids : own[k] = "none" /\ dl[k] = "none"
  BY DEF Start, Inv, WorkInv, WorkRow
<1>3. UNCHANGED <<n, grant, admin, head, moves, tested, call, own, dl, faults>>  BY DEF Start
<1>4. \A k \in Ids :
        /\ prom'[k] \in Rows /\ prom'[k].spec = prom[k].spec /\ prom'[k].auto = prom[k].auto
        /\ prom'[k].out = prom[k].out /\ prom'[k].planned = prom[k].planned /\ prom'[k].res = prom[k].res
        /\ prom'[k].st = prom[k].st \/ (Pending(k) /\ prom'[k].st \in {"failed", "interrupted"})
        /\ prom'[k].pub = "pending" => prom[k].pub = "pending" /\ prom'[k].st = "pending"
        /\ prom'[k].why = prom[k].why \/ (prom'[k].why \in {"restart", "other"} /\ prom'[k].st # "pending")
  BY <1>1, RecoveredRow
<1>5. hook' \in Hooks /\ \A k \in Ids : hook'[k] = "none" \/ (hook'[k] = "restart" /\ prom'[k].st = "interrupted")
  BY DEF Start, Hooks
<1>6. TypeOK'
  <2>1. \E S : prom' \in [Ids -> S]  BY DEF Start
  <2>2. prom' \in [Ids -> Rows]  BY <1>4, <2>1
  <2> QED  BY <1>3, <1>5, <2>2 DEF Start, Inv, TypeOK, Hooks
<1>7. Calm /\ NoDelivery
  BY <1>2, <1>3, <1>4 DEF Calm, NoDelivery, Working, Pending, Final
<1>8. WorkInv'
  <2> SUFFICES ASSUME NEW k \in Ids PROVE WorkRow(k)'
    BY DEF WorkInv, Ids
  <2> QED  BY <1>2, <1>3, <1>4, <1>5 DEF Inv, WorkInv, WorkRow, Pending
<1>9. TestInv'  BY <1>2, <1>3, <1>4 DEF Inv, TestInv, TestedOnly
<1> QED  BY <1>3, <1>6, <1>7, <1>8, <1>9, SameGrants, CalmStep

-----------------------------------------------------------------------------
(* Admission *)

\* AppendPromotion, from a call or from an automatic retry of promotion from.
LEMMA AppendInv ==
  ASSUME Inv, NEW spec \in Specs, AppendPromotion(spec),
         spec.mode = "auto" =>
           \E from \in Ids : /\ spec.of = from /\ prom[from].auto < MaxAuto
                             /\ spec.by = prom[from].spec.by /\ spec.gr = prom[from].spec.gr,
         call' \in [Callers -> Specs], CallsHold',
         hook' \in Hooks, \A k \in Ids : hook'[k] \in {hook[k], "none"},
         UNCHANGED <<grant, admin, head, moves, tested, dl, up, lost, faults>>
  PROVE  Inv'
<1> DEFINE auto == IF spec.mode = "auto" THEN prom[spec.of].auto + 1 ELSE 0
           row == NewRow(spec, auto, "pending")
<1>1. PICK m \in Ids : n \in Nat /\ m = n + 1 /\ n' = m
  BY PromotionsAssumption DEF AppendPromotion, Inv, TypeOK, Ids
<1>2. auto \in Nat /\ auto <= MaxAuto
  <2>1. CASE spec.mode = "auto"
    <3>1. PICK from \in Ids : spec.of = from /\ prom[from].auto < MaxAuto  BY <2>1
    <3>2. prom[from].auto \in Nat  BY RowTypes DEF Inv
    <3> QED  BY <2>1, <3>1, <3>2, PromotionsAssumption
  <2>2. CASE spec.mode # "auto"  BY <2>2, PromotionsAssumption
  <2> QED  BY <2>1, <2>2
<1>3. /\ row \in Rows /\ row.spec = spec /\ row.auto = auto /\ row.st = "pending" /\ row.why = "none"
      /\ row.planned = FALSE /\ row.out = {} /\ row.run = "none" /\ row.pub = "none"
  <2>1. row \in Rows  BY <1>2, NewRowType DEF Statuses
  <2> QED  BY <2>1 DEF NewRow
<1>4. prom' = [prom EXCEPT ![m] = row] /\ own' = [own EXCEPT ![m] = "wait"] /\ up
  BY <1>1 DEF AppendPromotion
<1>5. spec.of # 0 => /\ spec.of \in Ids /\ prom[spec.of].st \in {"failed", "interrupted"}
                     /\ Req(spec.of) = spec.req /\ Successors(spec.of) = {}
  <2>1. spec.of \in 0..MaxPromotions  BY DEF Specs
  <2> QED  BY <2>1, PromotionsAssumption DEF AppendPromotion, RetryAdmissible, Ids
<1>6. \A g \in spec.gr : Active(g) /\ Holders(g) = {}  BY DEF AppendPromotion, Reservable
<1> HIDE DEF row, auto
<1>7. /\ prom' \in [Ids -> Rows] /\ prom'[m] = row /\ \A k \in Ids : k # m => prom'[k] = prom[k]
  BY <1>1, <1>3, <1>4, OneRow DEF Inv
<1>8. own' \in Tasks /\ own'[m] = "wait" /\ \A k \in Ids : k # m => own'[k] = own[k]
  BY <1>1, <1>4 DEF Inv, TypeOK, Tasks
<1>9. prom[m].st = "none"  BY <1>1 DEF Inv, RowInv
<1>10. TypeOK'
  <2>1. n' \in 0..MaxPromotions  BY <1>1, PromotionsAssumption DEF Ids
  <2> QED  BY <1>7, <1>8, <2>1 DEF Inv, TypeOK, Tasks, Hooks
<1>11. RowInv'
  <2> SUFFICES ASSUME NEW k \in Ids PROVE k <= m <=> prom'[k].st # "none"
    BY <1>1 DEF RowInv, Ids
  <2>1. CASE k = m  BY <1>1, <1>3, <1>7, <2>1 DEF Ids
  <2>2. CASE k # m  BY <1>1, <1>7, <2>2 DEF Ids, Inv, RowInv
  <2> QED  BY <2>1, <2>2
<1>12. WorkInv'
  <2> SUFFICES ASSUME NEW k \in Ids PROVE WorkRow(k)'
    BY DEF WorkInv, Ids
  <2>1. CASE k = m
    <3>1. dl[m] = "none" /\ hook[m] = "none"
      BY <1>1, <1>9 DEF Inv, WorkInv, WorkRow, Pending
    <3> QED  BY <1>1, <1>3, <1>4, <1>7, <1>8, <2>1, <3>1 DEF WorkRow, Pending
  <2>2. CASE k # m  BY <1>7, <1>8, <2>2 DEF Inv, WorkInv, WorkRow, Pending
  <2> QED  BY <2>1, <2>2
<1>13. OrderInv'
  <2> SUFFICES ASSUME NEW k \in Ids, Pending(k)', (prom[k].planned \/ Working(k))'
               PROVE  Ahead(k)' = {}
    BY DEF OrderInv, Ids
  <2>1. k # m  BY <1>3, <1>7, <1>8 DEF Working
  <2>2. Pending(k) /\ Ahead(k) = {}  BY <1>7, <1>8, <2>1 DEF Inv, OrderInv, Pending, Working
  <2>3. k < m  BY <1>1, <2>1, <2>2 DEF Inv, RowInv, Pending, Ids
  <2>4. \A j \in Ids : j < k => prom'[j] = prom[j]  BY <1>1, <1>7, <2>3 DEF Ids
  <2> QED  BY <2>2, <2>4 DEF Ahead, Pending, Ids
<1>14. TestInv'  BY <1>3, <1>7, <1>8 DEF Inv, TestInv, TestedOnly
<1>15. GrantInv'
  <2>1. \A k \in Ids : k # m => (Live(k)' <=> Live(k)) /\ Included(k)' = Included(k)
    BY <1>7 DEF Live, Included
  <2>2. ~Live(m) /\ Included(m)' = spec.gr
    <3>1. spec.gr \subseteq Grants  BY DEF Specs
    <3> QED  BY <1>3, <1>7, <1>9, <3>1 DEF Live, Included
  <2>3. \A g \in Grants : Holders(g)' = IF g \in spec.gr THEN {m} ELSE Holders(g)
    <3> SUFFICES ASSUME NEW g \in Grants
                 PROVE  Holders(g)' = IF g \in spec.gr THEN {m} ELSE Holders(g)
      OBVIOUS
    <3>1. Live(m)'  BY <1>3, <1>7 DEF Live
    <3>2. g \in spec.gr => Holders(g) = {}  BY <1>6
    <3> QED  BY <1>1, <2>1, <2>2, <3>1, <3>2 DEF Holders, Ids
  <2>4. GrantSpentOnce'
    <3> SUFFICES ASSUME NEW g \in Grants
                 PROVE  /\ \A k, j \in Holders(g)' : k = j
                        /\ grant'[g].st = "consumed" => grant'[g].by \in Holders(g)'
                        /\ \A k \in Holders(g)' : prom'[k].st = "passed" =>
                             grant'[g] = [st |-> "consumed", by |-> k] \/ grant'[g].st = "withdrawn"
      BY DEF GrantSpentOnce
    <3>1. CASE g \in spec.gr  BY <1>3, <1>6, <1>7, <2>3, <3>1 DEF Active
    <3>2. CASE g \notin spec.gr
      <4>1. Holders(g)' = Holders(g) /\ m \notin Holders(g)  BY <2>2, <2>3, <3>2 DEF Holders
      <4>2. \A k \in Holders(g) : prom'[k] = prom[k]  BY <1>7, <4>1 DEF Holders
      <4> QED  BY <4>1, <4>2 DEF Inv, GrantInv, GrantSpentOnce
    <3> QED  BY <3>1, <3>2
  <2>5. \A k \in Ids : \A g \in prom'[k].spec.gr : grant'[g].st # "none"
    <3> SUFFICES ASSUME NEW k \in Ids, NEW g \in prom'[k].spec.gr PROVE grant'[g].st # "none"
      OBVIOUS
    <3>1. CASE k = m  BY <1>3, <1>6, <1>7, <3>1 DEF Active
    <3>2. CASE k # m  BY <1>7, <3>2 DEF Inv, GrantInv
    <3> QED  BY <3>1, <3>2
  <2>6. \A g \in Grants : grant'[g].st = "consumed" => grant'[g].by \in Ids /\ prom'[grant'[g].by].st = "passed"
    BY <1>7, <1>9 DEF Inv, GrantInv
  <2> QED  BY <2>4, <2>5, <2>6 DEF GrantInv, Ids
<1>16. RetriesFormChains'
  <2>1. \A o \in Ids : Successors(o)' = IF o = spec.of THEN Successors(o) \cup {m} ELSE Successors(o)
    <3> SUFFICES ASSUME NEW o \in Ids
                 PROVE  Successors(o)' = IF o = spec.of THEN Successors(o) \cup {m} ELSE Successors(o)
      OBVIOUS
    <3> QED  BY <1>1, <1>3, <1>7, <1>9 DEF Successors, Ids
  <2> SUFFICES ASSUME NEW i \in 1..m PROVE Chained(i)'
    BY <1>1 DEF RetriesFormChains
  <2>2. CASE i = m
    <3>1. spec.of # 0 => spec.of < m /\ spec.of # m
      BY <1>1, <1>5 DEF Inv, RowInv, Ids
    <3>2. spec.of # 0 => prom'[spec.of] = prom[spec.of]  BY <1>5, <1>7, <3>1
    <3>3. spec.of # 0 => Successors(spec.of)' = {m}  BY <1>5, <2>1
    <3>4. spec.mode = "auto" => /\ spec.of # 0 /\ auto = prom[spec.of].auto + 1
                                /\ spec.by = prom[spec.of].spec.by /\ spec.gr = prom[spec.of].spec.gr
      BY PromotionsAssumption DEF auto, Ids
    <3>5. prom'[i].spec = spec /\ prom'[i].auto = auto  BY <1>3, <1>7, <2>2
    <3> QED  BY <1>2, <1>5, <2>2, <3>1, <3>2, <3>3, <3>4, <3>5 DEF Req, Chained
  <2>3. CASE i # m
    <3>1. i \in 1..n /\ i \in Ids
      BY <1>1, <2>3, PromotionsAssumption DEF Ids
    <3>2. PICK o : o = prom[i].spec.of  OBVIOUS
    <3>3. Chained(i)  BY <3>1 DEF Inv, RetriesFormChains
    <3>4. o \in 0..MaxPromotions  BY <3>1, <3>2, RowTypes DEF Inv
    <3>5. o # 0 => o \in Ids /\ o # m
      BY <1>9, <3>2, <3>3, <3>4, PromotionsAssumption DEF Ids, Chained
    <3>6. o # 0 => Successors(o)' = {i}
      <4>1. o # 0 => Successors(o) = {i}  BY <3>2, <3>3 DEF Chained
      <4>2. o # 0 => o # spec.of  BY <1>5, <4>1
      <4> QED  BY <2>1, <3>5, <4>1, <4>2
    <3>7. prom'[i] = prom[i] /\ (o # 0 => prom'[o] = prom[o])  BY <1>7, <2>3, <3>1, <3>5
    <3> QED  BY <3>2, <3>3, <3>6, <3>7 DEF Req, Chained
  <2> QED  BY <2>2, <2>3
<1> QED  BY <1>10, <1>11, <1>12, <1>13, <1>14, <1>15, <1>16 DEF Inv

LEMMA AdmitInv ==
  ASSUME Inv, NEW c \in Callers, Admit(c)
  PROVE  Inv'
<1>1. call[c] \in Specs /\ call[c].mode # "auto"  BY DEF Inv, TypeOK, GrantInv, CallsHold
<1>2. call' \in [Callers -> Specs]  BY NoSpecType DEF Admit, Inv, TypeOK
<1>3. CallsHold'
  <2> SUFFICES ASSUME NEW d \in Callers
               PROVE  call'[d].mode # "auto" /\ \A g \in call'[d].gr : grant'[g].st # "none"
    BY DEF CallsHold
  <2>1. CASE d = c  BY <2>1, NoSpecType DEF Inv, TypeOK, Admit
  <2>2. CASE d # c  BY <2>2 DEF Inv, TypeOK, GrantInv, CallsHold, Admit
  <2> QED  BY <2>1, <2>2
<1>4. hook' \in Hooks /\ \A k \in Ids : hook'[k] \in {hook[k], "none"}
  BY DEF Admit, Inv, TypeOK, Hooks
<1> QED  BY <1>1, <1>2, <1>3, <1>4, AppendInv DEF Admit

LEMMA HookAdmitsInv ==
  ASSUME Inv, NEW i \in Ids, HookAdmits(i)
  PROVE  Inv'
<1> DEFINE spec == [prom[i].spec EXCEPT !.of = i, !.mode = "auto"]
<1>1. prom[i].spec \in Specs /\ i \in 0..MaxPromotions  BY RowTypes DEF Inv, Ids
<1>2. spec \in Specs /\ spec.of = i /\ spec.by = prom[i].spec.by /\ spec.gr = prom[i].spec.gr
  BY <1>1 DEF Specs
<1>3. prom[i].auto < MaxAuto  BY DEF HookAdmits, Inv, WorkInv, WorkRow
<1>4. AppendPromotion(spec)  BY DEF HookAdmits
<1> HIDE DEF spec
<1>5. hook' \in Hooks /\ \A k \in Ids : hook'[k] \in {hook[k], "none"}
  BY DEF HookAdmits, Inv, TypeOK, Hooks
<1>6. call' \in [Callers -> Specs] /\ CallsHold'
  BY DEF HookAdmits, Inv, TypeOK, GrantInv, CallsHold
<1> QED  BY <1>2, <1>3, <1>4, <1>5, <1>6, AppendInv DEF HookAdmits
-----------------------------------------------------------------------------
(* Theorems *)

LEMMA InitInv == Init => Inv
<1> SUFFICES ASSUME Init PROVE Inv  OBVIOUS
<1> DEFINE row == NewRow(NoSpec, 0, "none")
<1>1. /\ row \in Rows /\ row.st = "none" /\ row.why = "none" /\ row.pub = "none" /\ row.planned = FALSE
      /\ row.spec = NoSpec
  <2>1. row \in Rows  BY NoSpecType, NewRowType DEF Statuses
  <2> QED  BY <2>1 DEF NewRow
<1>2. \A i \in Ids : prom[i] = row  BY DEF Init
<1>3. prom \in [Ids -> Rows]  BY <1>1 DEF Init
<1> HIDE DEF row
<1>4. TypeOK
  <2>1. tested \subseteq Commits /\ head \in Commits  BY CommitTypes DEF Init
  <2>2. own \in Tasks /\ dl \in Deliveries /\ hook \in Hooks  BY DEF Init, Tasks, Deliveries, Hooks
  <2>3. call \in [Callers -> Specs]  BY NoSpecType DEF Init
  <2>4. admin \in BOOLEAN /\ up \in BOOLEAN  BY DEF Init
  <2>5. n \in 0..MaxPromotions /\ moves \in Nat /\ faults \in Nat /\ lost \subseteq Ids
    BY PromotionsAssumption DEF Init
  <2>6. grant \in [Grants -> [st : {"none", "active", "withdrawn", "consumed"}, by : 0..MaxPromotions]]
    BY PromotionsAssumption DEF Init
  <2> QED  BY <1>3, <2>1, <2>2, <2>3, <2>4, <2>5, <2>6 DEF TypeOK, Tasks, Deliveries, Hooks
<1>5. RowInv  BY <1>1, <1>2 DEF Init, RowInv, Ids
<1>6. WorkInv  BY <1>1, <1>2 DEF Init, WorkInv, WorkRow, Pending
<1>7. OrderInv  BY <1>1, <1>2 DEF OrderInv, Pending
<1>8. RetriesFormChains  BY DEF Init, RetriesFormChains
<1>9. TestInv  BY <1>1, <1>2 DEF Init, TestInv, TestedOnly
<1>10. GrantInv
  <2>1. \A g \in Grants : Holders(g) = {}  BY <1>1, <1>2 DEF Holders, Live
  <2>2. \A g \in Grants : grant[g].st = "none"  BY DEF Init
  <2>3. GrantSpentOnce  BY <2>1, <2>2 DEF GrantSpentOnce
  <2>4. CallsHold  BY NoSpecType DEF Init, CallsHold
  <2>5. \A i \in Ids : prom[i].spec.gr = {}  BY <1>1, <1>2, NoSpecType
  <2> QED  BY <2>2, <2>3, <2>4, <2>5 DEF GrantInv
<1> QED  BY <1>4, <1>5, <1>6, <1>7, <1>8, <1>9, <1>10 DEF Inv

LEMMA StutterInv == ASSUME Inv, UNCHANGED vars PROVE Inv'
<1>1. UNCHANGED <<prom, n, grant, admin, head, moves, tested, call, own, dl, hook, up, lost, faults>>
  BY DEF vars
<1>2. TypeOK'  BY <1>1 DEF Inv, TypeOK
<1>3. TestInv'  BY <1>1 DEF Inv, TestInv, TestedOnly
<1> QED  BY <1>1, <1>2, <1>3, SameRows, SameGrants, CalmStep

LEMMA NextInv == Inv /\ [Next]_vars => Inv'
<1> SUFFICES ASSUME Inv, [Next]_vars PROVE Inv'  OBVIOUS
<1>1. CASE UNCHANGED vars  BY <1>1, StutterInv
<1>2. CASE \E c \in Callers : Admit(c) \/ Refuse(c)  BY <1>2, AdmitInv, RefuseInv
<1>3. CASE \E c \in Callers, q \in Requests, by \in {"admin", "user"}, of \in 0..MaxPromotions :
             Begin(c, q, by, of)
  BY <1>3, BeginInv
<1>4. CASE \E i \in Ids : Turn(i) \/ Fail(i) \/ FailLost(i) \/ Plan(i) \/ Enqueue(i) \/ Publish(i)
  BY <1>4, TurnInv, FailInv, FailLostInv, PlanInv, EnqueueInv, PublishInv
<1>5. CASE \E i \in Ids : RunStarts(i) \/ RunFails(i) \/ RunPasses(i)
  BY <1>5, RunStartsInv, RunFailsInv, RunPassesInv
<1>6. CASE \E i \in Ids : Read(i) \/ Push(i) \/ PushLost(i) \/ Verify(i) \/ VerifyLost(i) \/ Abandon(i)
  BY <1>6, ReadInv, PushInv, VerifyInv, AbandonInv
<1>7. CASE \E i \in Ids : HookLooks(i) \/ HookAdmits(i) \/ HookGivesUp(i)
  BY <1>7, HookLooksInv, HookAdmitsInv
<1>8. CASE \E g \in Grants : Issue(g) \/ Withdraw(g)  BY <1>8, IssueInv, WithdrawInv
<1>9. CASE Demote \/ OthersPush \/ Crash \/ Start  BY <1>9, OutsideInv, CrashInv, StartInv
<1> QED  BY <1>1, <1>2, <1>3, <1>4, <1>5, <1>6, <1>7, <1>8, <1>9 DEF Next

\* The inductive invariant: the properties below with what the tasks, the
\* deliveries and the due retries of the server know of each row.
THEOREM Invariant == Spec => []Inv
BY InitInv, NextInv, PTL DEF Spec

\* Every table and task of the promotion engine keeps its type.
THEOREM PromotionTypeOK == Spec => []TypeOK
<1>1. Inv => TypeOK  BY DEF Inv
<1> QED  BY <1>1, Invariant, PTL

\* A grant authorizes one delivery, whatever calls and automatic retries have
\* read before their admission (checkPromotionGrantReservableTx, FinalizePublication).
THEOREM GrantsSpentOnce == Spec => []GrantSpentOnce
<1>1. Inv => GrantSpentOnce  BY DEF Inv, GrantInv
<1> QED  BY <1>1, Invariant, PTL

\* Retries by hand and by the server form chains within the server's bound
\* (checkPromotionRetryTx, retryAutomaticPromotion).
THEOREM RetriesAlwaysFormChains == Spec => []RetriesFormChains
<1>1. Inv => RetriesFormChains  BY DEF Inv
<1> QED  BY <1>1, Invariant, PTL

\* Of the pending promotions only the oldest one has a plan (pendingPromotionAhead).
THEOREM AlwaysOneAtATime == Spec => []OneAtATime
<1>1. Inv => OneAtATime
  <2> SUFFICES ASSUME Inv, NEW i \in Ids, NEW j \in Ids, Pending(i), Pending(j), prom[i].planned
               PROVE  i <= j
    BY DEF OneAtATime
  <2>1. Ahead(i) = {}  BY DEF Inv, OrderInv
  <2> QED  BY <2>1 DEF Ahead, Ids
<1> QED  BY <1>1, Invariant, PTL

\* Promotions put only tested commits on the target (planAdmittedPromotion,
\* reusablePromotionPlan, observeRun).
THEOREM AlwaysTestedOnly == Spec => []TestedOnly
<1>1. Inv => TestedOnly  BY DEF Inv, TestInv
<1> QED  BY <1>1, Invariant, PTL
=============================================================================
