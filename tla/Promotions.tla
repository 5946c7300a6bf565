----------------------------- MODULE Promotions -----------------------------
(***************************************************************************)
(* Promotions of tested sources to one target branch. A call reads the     *)
(* authority it acts under (an admin uplink, or one grant per source) and  *)
(* admits the promotion in a later transaction; the promotion waits for    *)
(* those admitted before it, is merged onto the target's head, tested as a *)
(* run unless it is a tested fast-forward, and delivered through the       *)
(* publication outbox. A target that moved and a restart make the server   *)
(* admit a retry by itself; users retry by hand.                           *)
(*                                                                         *)
(* A commit is [id, has]: id names who made it (0 the repository as it was *)
(* and its sources, i the merge of promotion i, -k the k-th push of        *)
(* others) and has is the set of sources it contains.                      *)
(***************************************************************************)
EXTENDS Integers, FiniteSets

CONSTANTS Sources,       \* commits offered for promotion
          Parked,        \* of them, those whose branch CI was skipped
          Trains,        \* ordered lists of sources promoted together
          Members,       \* the sources of a train
          Grants,        \* promotion grants, numbered in the order of created_at
          For,           \* the source a grant names
          Callers,       \* calls of promote and promote_retry at one time
          MaxPromotions, \* promotions admitted in all
          MaxAuto,       \* maxAutoMovedPromotionRetries
          MaxMoves,      \* pushes of others to the target
          Faults,        \* kinds of faults that happen
          MaxFaults

ASSUME PromotionsAssumption ==
  /\ Sources # {} /\ Parked \subseteq Sources /\ Trains \cap Sources = {}
  /\ Members \in [Trains -> SUBSET Sources]
  /\ Grants \subseteq Nat /\ For \in [Grants -> Sources]
  /\ MaxPromotions \in Nat /\ MaxAuto \in Nat /\ MaxMoves \in Nat /\ MaxFaults \in Nat

VARIABLES
  prom,    \* table promotions with lineage, run and publication; the id is the sequence
  n,       \* promotions admitted so far
  grant,   \* table promotion_grants: [st, by]
  admin,   \* the uplink that promotes directly is an admin
  head,    \* the target's commit at the forge
  moves,   \* pushes of others so far
  tested,  \* history: the commits that passed CI
  call,    \* a call that has read its authority and not yet admitted
  own,     \* the background task that plans an admitted promotion
  dl,      \* the delivery of its publication
  hook,    \* the automatic retry that is due
  up,      \* the server runs
  lost,    \* promotions whose failure could not be recorded
  faults

vars == <<prom, n, grant, admin, head, moves, tested, call, own, dl, hook, up, lost, faults>>

Ids == 1..MaxPromotions
Requests == Sources \cup Trains
SourcesOf(q) == IF q \in Trains THEN Members[q] ELSE {q}
Commits == [id : Int, has : SUBSET Sources]
Root == [id |-> 0, has |-> {}]
Source(s) == [id |-> 0, has |-> {s}]
Specs == [req : Requests, by : {"admin", "user"}, gr : SUBSET Grants,
          of : 0..MaxPromotions, mode : {"none", "fresh", "manual", "auto"}]

Statuses == {"none", "pending", "passed", "failed", "interrupted"}

\* st and why (error); planned, base, res (previous_sha, result_sha) and out
\* (the sources a train skipped); run and pub, its run and its publication.
Rows == [spec : Specs, auto : Nat, st : Statuses,
         why : {"none", "restart", "moved", "push", "other"},
         planned : BOOLEAN, base : Commits, res : Commits, out : SUBSET Sources,
         run : {"none", "queued", "running", "over"}, pub : {"none", "pending", "over"}]

NoSpec == [req |-> CHOOSE q \in Requests : TRUE, by |-> "admin", gr |-> {}, of |-> 0,
           mode |-> "none"]
NewRow(spec, auto, st) ==
  [spec |-> spec, auto |-> auto, st |-> st, why |-> "none", planned |-> FALSE,
   base |-> Root, res |-> Root, out |-> {}, run |-> "none", pub |-> "none"]

Init ==
  /\ prom = [i \in Ids |-> NewRow(NoSpec, 0, "none")] /\ n = 0
  /\ grant = [g \in Grants |-> [st |-> "none", by |-> 0]]
  /\ admin = TRUE /\ head = Root /\ moves = 0
  /\ tested = {Source(s) : s \in Sources \ Parked}
  /\ call = [c \in Callers |-> NoSpec]
  /\ own = [i \in Ids |-> "none"] /\ dl = [i \in Ids |-> "none"] /\ hook = [i \in Ids |-> "none"]
  /\ up = TRUE /\ lost = {} /\ faults = 0

Pending(i) == prom[i].st = "pending"
Live(i) == prom[i].st \in {"pending", "passed"}
Req(i) == prom[i].spec.req
Successors(i) == {j \in Ids : prom[j].st # "none" /\ prom[j].spec.of = i}

\* promotionGrants: the grants a promotion holds, those of skipped sources aside.
Included(i) == {g \in prom[i].spec.gr : For[g] \notin prom[i].out}
Holders(g) == {i \in Ids : Live(i) /\ g \in Included(i)}
Active(g) == grant[g].st = "active"

\* BranchCISkipped
Skipped(q) == SourcesOf(q) \cap Parked # {}

-----------------------------------------------------------------------------
(* Admission *)

\* MatchingPromotionGrant: the oldest active grant of each source that no
\* pending or delivered promotion holds.
Free(g) == Active(g) /\ Holders(g) = {}
Matching(q) ==
  {g \in Grants : /\ For[g] \in SourcesOf(q) /\ Free(g)
                  /\ \A h \in Grants : For[h] = For[g] /\ Free(h) => g <= h}

\* promote, promoteTrain and promoteRetry up to the admission: the call has
\* checked the promotion it retries and read its authority.
Begin(c, q, by, of) ==
  /\ up /\ call[c] = NoSpec /\ n < MaxPromotions
  /\ of # 0 => /\ prom[of].st \in {"failed", "interrupted"} /\ Successors(of) = {}
               /\ q = Req(of)
  /\ by = "admin" => admin
  /\ by = "user" => \A s \in SourcesOf(q) : \E g \in Matching(q) : For[g] = s
  /\ call' = [call EXCEPT ![c] = [req |-> q, by |-> by, of |-> of,
                                  gr |-> IF by = "user" THEN Matching(q) ELSE {},
                                  mode |-> IF of = 0 THEN "fresh" ELSE "manual"]]
  /\ UNCHANGED <<prom, n, grant, admin, head, moves, tested, own, dl, hook, up, lost, faults>>

\* The call is refused: its source is no longer green, or the target's policy forbids it.
Refuse(c) ==
  /\ call[c] # NoSpec /\ call' = [call EXCEPT ![c] = NoSpec]
  /\ UNCHANGED <<prom, n, grant, admin, head, moves, tested, own, dl, hook, up, lost, faults>>

\* Mutant: the successor is looked for before the transaction only.
RetryAdmissible_Once(spec) ==
  LET o == spec.of IN
  /\ prom[o].st \in {"failed", "interrupted"}
  /\ \A i \in Ids : Live(i) => Req(i) # spec.req

\* interruptedPromotionRetryEligible
Eligible(i) == prom[i].st = "interrupted" /\ prom[i].why = "restart" /\ prom[i].pub = "none"

\* checkPromotionRetryTx
RetryAdmissible(spec) ==
  LET o == spec.of IN
  /\ prom[o].st \in {"failed", "interrupted"} /\ Req(o) = spec.req
  /\ spec.mode = "auto" => /\ spec.by = prom[o].spec.by /\ spec.gr = prom[o].spec.gr
                           /\ prom[o].st = "interrupted" => Eligible(o)
  /\ \A i \in Ids : Live(i) => Req(i) # spec.req
  /\ Successors(o) = {}

\* Mutant: the grant is active, whoever holds it.
Reservable_Active(gr) == \A g \in gr : Active(g)

\* checkPromotionGrantReservableTx
Reservable(gr) == \A g \in gr : Active(g) /\ Holders(g) = {}

\* AppendPromotion, in one transaction; planOrQueuePromotion takes over.
AppendPromotion(spec) ==
  LET auto == IF spec.mode = "auto" THEN prom[spec.of].auto + 1 ELSE 0 IN
  /\ up /\ n < MaxPromotions
  /\ spec.of # 0 => RetryAdmissible(spec)
  /\ Reservable(spec.gr)
  /\ n' = n + 1
  /\ prom' = [prom EXCEPT ![n'] = NewRow(spec, auto, "pending")]
  /\ own' = [own EXCEPT ![n'] = "wait"]

Admit(c) ==
  /\ call[c] # NoSpec /\ AppendPromotion(call[c])
  /\ call' = [call EXCEPT ![c] = NoSpec]
  /\ UNCHANGED <<grant, admin, head, moves, tested, dl, hook, up, lost, faults>>

-----------------------------------------------------------------------------
(* Queue and plan *)

\* Mutant: a promotion waits only for those that already have a plan.
Ahead_Planned(i) == {j \in Ids : j < i /\ Pending(j) /\ prom[j].planned}

\* pendingPromotionAhead
Ahead(i) == {j \in Ids : j < i /\ Pending(j)}

\* planOrQueuePromotion, planQueuedPromotion: nobody ahead any more.
Turn(i) ==
  /\ up /\ own[i] = "wait" /\ Ahead(i) = {}
  /\ own' = [own EXCEPT ![i] = "plan"]
  /\ UNCHANGED <<prom, n, grant, admin, head, moves, tested, call, dl, hook, up, lost, faults>>

\* Finish the row; its run and a pending publication are over with it.
Over(f) == IF f = "none" THEN "none" ELSE "over"
Closed(row, st, why) ==
  [row EXCEPT !.st = st, !.why = why, !.run = Over(@), !.pub = Over(@)]
Ended(i, st, why) == [prom EXCEPT ![i] = Closed(@, st, why)]

\* failAdmittedPromotion, before the wait ends (12 hours, database errors) or
\* while it plans (policy, conflicts, an unreadable forge, a grant that is no
\* longer active). A train records what it skipped just before it fails; nobody reads
\* that record of a promotion which is still pending, and both are one step.
Fail(i) ==
  /\ up /\ own[i] \in {"wait", "plan", "ready", "publish"}
  /\ \E skip \in IF own[i] = "plan" /\ Req(i) \in Trains THEN SUBSET SourcesOf(Req(i)) ELSE {prom[i].out} :
       prom' = [prom EXCEPT ![i] = [Closed(@, "failed", "other") EXCEPT !.out = skip]]
  /\ own' = [own EXCEPT ![i] = "none"]
  /\ UNCHANGED <<n, grant, admin, head, moves, tested, call, dl, hook, up, lost, faults>>

\* The compensation itself fails or times out: the row stays pending, with no
\* owner before the next start.
FailLost(i) ==
  /\ up /\ own[i] \in {"wait", "plan", "ready", "publish"} /\ "lost" \in Faults /\ faults < MaxFaults
  /\ own' = [own EXCEPT ![i] = "none"] /\ lost' = lost \cup {i} /\ faults' = faults + 1
  /\ UNCHANGED <<prom, n, grant, admin, head, moves, tested, call, dl, hook, up>>

\* PreparePromotion, PreparePromotionTrain: the target's head is an ancestor
\* of a single source, contains every source, or is merged with them.
FastForward(q) == q \notin Trains /\ head \in {Root, Source(q)}
Merge(i, q, skip) ==
  LET in == SourcesOf(q) \ skip IN
  IF FastForward(q) THEN Source(q)
  ELSE IF in \subseteq head.has THEN head
  ELSE [id |-> i, has |-> head.has \cup in]

\* Mutant: the merge of the promotion that failed is reused without a look at its publication.
Reusable_Any(i) ==
  LET o == prom[i].spec.of IN
  /\ Req(i) \notin Trains /\ o # 0
  /\ prom[o].planned
  /\ head \in {prom[o].base, prom[o].res}

\* reusablePromotionPlan: the retried promotion failed in its push alone, and
\* the target is where it was, or already holds the result.
Reusable(i) ==
  LET o == prom[i].spec.of IN
  /\ Req(i) \notin Trains /\ o # 0
  /\ prom[o].pub = "over" /\ prom[o].st = "failed" /\ prom[o].why = "push"
  /\ head \in {prom[o].base, prom[o].res}

\* planPromotion
WithPlan(row, base, res, skip) ==
  [row EXCEPT !.planned = TRUE, !.base = base, !.res = res, !.out = skip]
Planned(i, base, res, skip) == [prom EXCEPT ![i] = WithPlan(@, base, res, skip)]

\* planAdmittedPromotion up to PlanPromotion. What is reused or a fast-forward
\* of tested sources needs no run.
Plan(i) ==
  /\ up /\ own[i] = "plan"
  /\ \E skip \in IF Req(i) \in Trains THEN SUBSET SourcesOf(Req(i)) \ {SourcesOf(Req(i))} ELSE {{}} :
       prom' = IF Reusable(i)
               THEN Planned(i, prom[prom[i].spec.of].base, prom[prom[i].spec.of].res, {})
               ELSE Planned(i, head, Merge(i, Req(i), skip), skip)
  /\ own' = [own EXCEPT ![i] = IF (Reusable(i) \/ FastForward(Req(i))) /\ ~Skipped(Req(i))
                               THEN "publish" ELSE "ready"]
  /\ UNCHANGED <<n, grant, admin, head, moves, tested, call, dl, hook, up, lost, faults>>

\* checkPromotionDeliveryGrantTx
Authorized(i) == \A g \in Included(i) : Active(g) \/ grant[g] = [st |-> "consumed", by |-> i]

\* EnqueueAdmittedPromotionRun
Enqueue(i) ==
  /\ up /\ own[i] = "ready" /\ Pending(i)
  /\ prom' = [prom EXCEPT ![i].run = "queued"] /\ own' = [own EXCEPT ![i] = "none"]
  /\ UNCHANGED <<n, grant, admin, head, moves, tested, call, dl, hook, up, lost, faults>>

\* BeginPublication of a promotion without a run, or failAdmittedPromotion.
Publish(i) ==
  /\ up /\ own[i] = "publish" /\ own' = [own EXCEPT ![i] = "none"]
  /\ prom' = IF Authorized(i) THEN [prom EXCEPT ![i].pub = "pending"] ELSE Ended(i, "failed", "other")
  /\ UNCHANGED <<n, grant, admin, head, moves, tested, call, dl, hook, up, lost, faults>>

-----------------------------------------------------------------------------
(* The run of the merged tree *)

\* ClaimNextRun
RunStarts(i) ==
  /\ up /\ Pending(i) /\ prom[i].run = "queued"
  /\ prom' = [prom EXCEPT ![i].run = "running"]
  /\ UNCHANGED <<n, grant, admin, head, moves, tested, call, own, dl, hook, up, lost, faults>>

\* finishRunTx, CancelRun: a red or cancelled run fails its promotion.
RunFails(i) ==
  /\ up /\ Pending(i) /\ prom[i].run \in {"queued", "running"} /\ prom[i].pub = "none"
  /\ prom' = Ended(i, "failed", "other")
  /\ UNCHANGED <<n, grant, admin, head, moves, tested, call, own, dl, hook, up, lost, faults>>

\* observeRun: a green run begins the publication, or fails with its grant.
RunPasses(i) ==
  /\ up /\ Pending(i) /\ prom[i].run = "running" /\ prom[i].pub = "none"
  /\ tested' = tested \cup {prom[i].res}
  /\ prom' = IF Authorized(i) THEN [prom EXCEPT ![i].pub = "pending"] ELSE Ended(i, "failed", "other")
  /\ UNCHANGED <<n, grant, admin, head, moves, call, own, dl, hook, up, lost, faults>>

-----------------------------------------------------------------------------
(* Delivery *)

\* FinalizePublication: the row, and on delivery the grants that are still active.
Deliver(i) ==
  /\ prom' = Ended(i, "passed", "none")
  /\ grant' = [g \in Grants |-> IF g \in Included(i) /\ Active(g)
                                THEN [st |-> "consumed", by |-> i] ELSE grant[g]]
  /\ UNCHANGED hook

Undelivered(i, why) ==
  /\ prom' = Ended(i, "failed", why)
  /\ hook' = [hook EXCEPT ![i] = IF why = "moved" THEN "moved" ELSE "none"]
  /\ UNCHANGED grant

\* deliverPublication: read the ref; UpdatePublicationAttempt reserves a push.
Read(i) ==
  /\ up /\ prom[i].pub = "pending" /\ dl[i] = "none"
  /\ \/ head = prom[i].res /\ Deliver(i) /\ UNCHANGED dl
     \/ /\ head = prom[i].base /\ head # prom[i].res /\ Authorized(i)
        /\ dl' = [dl EXCEPT ![i] = "push"] /\ UNCHANGED <<prom, grant, hook>>
     \/ head = prom[i].base /\ head # prom[i].res /\ ~Authorized(i) /\ Undelivered(i, "other") /\ UNCHANGED dl
     \/ head \notin {prom[i].base, prom[i].res} /\ Undelivered(i, "moved") /\ UNCHANGED dl
  /\ UNCHANGED <<n, admin, head, moves, tested, call, own, up, lost, faults>>

\* PushPromotion does not force: it lands on the base it was merged onto.
Push(i) ==
  /\ up /\ dl[i] = "push"
  /\ IF head = prom[i].base
     THEN head' = prom[i].res /\ dl' = [dl EXCEPT ![i] = "landed"]
     ELSE dl' = [dl EXCEPT ![i] = "unclear"] /\ UNCHANGED head
  /\ UNCHANGED <<prom, n, grant, admin, moves, tested, call, own, hook, up, lost, faults>>

\* The push fails on the way there or on the way back.
PushLost(i) ==
  /\ up /\ dl[i] = "push" /\ "push" \in Faults /\ faults < MaxFaults
  /\ head' \in {head} \cup (IF head = prom[i].base THEN {prom[i].res} ELSE {})
  /\ dl' = [dl EXCEPT ![i] = "unclear"] /\ faults' = faults + 1
  /\ UNCHANGED <<prom, n, grant, admin, moves, tested, call, own, hook, up, lost>>

\* attemptPublicationMutation after the push: read back, and queue another
\* attempt while the budget lasts. The read back may fail too.
Verify(i) ==
  /\ up /\ dl[i] \in {"landed", "unclear"} /\ dl' = [dl EXCEPT ![i] = "none"]
  /\ \/ (dl[i] = "landed" \/ head = prom[i].res) /\ Deliver(i)
     \/ dl[i] = "unclear" /\ head = prom[i].base /\ UNCHANGED <<prom, grant, hook>>
     \/ dl[i] = "unclear" /\ head = prom[i].base /\ \E why \in {"push", "other"} : Undelivered(i, why)
     \/ dl[i] = "unclear" /\ head \notin {prom[i].base, prom[i].res} /\ Undelivered(i, "moved")
  /\ UNCHANGED <<n, admin, head, moves, tested, call, own, up, lost, faults>>

VerifyLost(i) ==
  /\ up /\ dl[i] = "unclear" /\ "push" \in Faults /\ faults < MaxFaults
  /\ dl' = [dl EXCEPT ![i] = "none"] /\ faults' = faults + 1
  /\ \/ UNCHANGED <<prom, grant, hook>>
     \/ Undelivered(i, "push")
  /\ UNCHANGED <<n, admin, head, moves, tested, call, own, up, lost>>

\* AbandonPublication takes the delivery permit.
Abandon(i) ==
  /\ up /\ prom[i].pub = "pending" /\ dl[i] = "none"
  /\ Undelivered(i, "other")
  /\ UNCHANGED <<n, admin, head, moves, tested, call, own, dl, up, lost, faults>>

-----------------------------------------------------------------------------
(* Automatic retries *)

\* currentPromotionAuthority
HasAuthority(i) == prom[i].spec.gr # {} \/ admin

\* retryAutomaticPromotion: no successor yet, the bound, the authority.
MayRetry(i) == Successors(i) = {} /\ prom[i].auto < MaxAuto /\ HasAuthority(i)

\* The restart's list goes from the newest to the oldest promotion.
HookLooks(i) ==
  /\ up /\ hook[i] \in {"moved", "restart"}
  /\ hook[i] = "restart" => \A j \in Ids : j > i => hook[j] \notin {"restart", "again"}
  /\ hook' = [hook EXCEPT ![i] = IF ~MayRetry(i) THEN "none"
                                 ELSE IF @ = "moved" THEN "retry" ELSE "again"]
  /\ UNCHANGED <<prom, n, grant, admin, head, moves, tested, call, own, dl, up, lost, faults>>

HookAdmits(i) ==
  /\ hook[i] \in {"retry", "again"}
  /\ AppendPromotion([prom[i].spec EXCEPT !.of = i, !.mode = "auto"])
  /\ hook' = [hook EXCEPT ![i] = "none"]
  /\ UNCHANGED <<grant, admin, head, moves, tested, call, dl, up, lost, faults>>

\* The admission is refused, or the source is no longer green.
HookGivesUp(i) ==
  /\ up /\ hook[i] \in {"retry", "again"} /\ hook' = [hook EXCEPT ![i] = "none"]
  /\ UNCHANGED <<prom, n, grant, admin, head, moves, tested, call, own, dl, up, lost, faults>>

-----------------------------------------------------------------------------
(* Grants, uplinks and the forge *)

\* AppendPromotionGrant
Issue(g) ==
  /\ up /\ grant[g].st = "none" /\ \A h \in Grants : h < g => grant[h].st # "none"
  /\ grant' = [grant EXCEPT ![g].st = "active"]
  /\ UNCHANGED <<prom, n, admin, head, moves, tested, call, own, dl, hook, up, lost, faults>>

\* RevokePromotionGrant, and a grant that expires.
Withdraw(g) ==
  /\ Active(g) /\ grant' = [grant EXCEPT ![g].st = "withdrawn"]
  /\ UNCHANGED <<prom, n, admin, head, moves, tested, call, own, dl, hook, up, lost, faults>>

Demote ==
  /\ admin /\ admin' = FALSE
  /\ UNCHANGED <<prom, n, grant, head, moves, tested, call, own, dl, hook, up, lost, faults>>

OthersPush ==
  /\ moves < MaxMoves /\ moves' = moves + 1
  /\ head' = [id |-> -moves', has |-> head.has]
  /\ UNCHANGED <<prom, n, grant, admin, tested, call, own, dl, hook, up, lost, faults>>

-----------------------------------------------------------------------------
(* Stop and start *)

Crash ==
  /\ up /\ "crash" \in Faults /\ faults < MaxFaults
  /\ up' = FALSE /\ faults' = faults + 1
  /\ call' = [c \in Callers |-> NoSpec]
  /\ own' = [i \in Ids |-> "none"] /\ dl' = [i \in Ids |-> "none"] /\ hook' = [i \in Ids |-> "none"]
  /\ UNCHANGED <<prom, n, grant, admin, head, moves, tested, lost>>

\* Mutant: only promotions that have a plan are looked at.
Interrupts_Planned(i) == Pending(i) /\ prom[i].planned /\ prom[i].run = "none" /\ prom[i].pub = "none"

\* RecoverOwnerState: pending, without a run and without a pending publication.
Interrupts(i) == Pending(i) /\ prom[i].run = "none" /\ prom[i].pub = "none"

\* RecoverOwnerState and reconcileStrandedRuns: what becomes of a running run.
Recovered(i) ==
  IF Interrupts(i) THEN {Closed(prom[i], "interrupted", "restart")}
  ELSE IF Pending(i) /\ prom[i].run = "running" /\ prom[i].pub = "none"
  THEN {prom[i], [prom[i] EXCEPT !.run = "queued"], Closed(prom[i], "failed", "other")}
       \cup {Closed(prom[i], "interrupted", why) : why \in {"restart", "other"}}
  ELSE {prom[i]}

\* The start, up to RecoverInterruptedPromotions.
Start ==
  /\ ~up /\ up' = TRUE /\ lost' = {}
  /\ prom' \in {p \in [Ids -> UNION {Recovered(i) : i \in Ids}] : \A i \in Ids : p[i] \in Recovered(i)}
  /\ hook' = [i \in Ids |-> IF prom'[i].st = "interrupted" /\ prom'[i].why = "restart" /\ prom'[i].pub = "none"
                            THEN "restart" ELSE "none"]
  /\ UNCHANGED <<n, grant, admin, head, moves, tested, call, own, dl, faults>>

-----------------------------------------------------------------------------
Next ==
  \/ \E c \in Callers : Admit(c) \/ Refuse(c)
  \/ \E c \in Callers, q \in Requests, by \in {"admin", "user"}, of \in 0..MaxPromotions :
       Begin(c, q, by, of)
  \/ \E i \in Ids : Turn(i) \/ Fail(i) \/ FailLost(i) \/ Plan(i) \/ Enqueue(i) \/ Publish(i)
  \/ \E i \in Ids : RunStarts(i) \/ RunFails(i) \/ RunPasses(i)
  \/ \E i \in Ids : Read(i) \/ Push(i) \/ PushLost(i) \/ Verify(i) \/ VerifyLost(i) \/ Abandon(i)
  \/ \E i \in Ids : HookLooks(i) \/ HookAdmits(i) \/ HookGivesUp(i)
  \/ \E g \in Grants : Issue(g) \/ Withdraw(g)
  \/ Demote \/ OthersPush \/ Crash \/ Start

Spec == Init /\ [][Next]_vars

\* The tasks of a promotion run, Workflows end, deliveries are repeated, and a
\* stopped server is started again.
Progress(i) ==
  \/ Turn(i) \/ Plan(i) \/ Enqueue(i) \/ Publish(i)
  \/ RunStarts(i) \/ RunPasses(i) \/ RunFails(i)
  \/ Read(i) \/ Push(i) \/ Verify(i)

FairSpec == Spec /\ WF_vars(Start) /\ \A i \in Ids : WF_vars(Progress(i))

-----------------------------------------------------------------------------
TypeOK ==
  /\ prom \in [Ids -> Rows] /\ n \in 0..MaxPromotions
  /\ grant \in [Grants -> [st : {"none", "active", "withdrawn", "consumed"}, by : 0..MaxPromotions]]
  /\ admin \in BOOLEAN /\ up \in BOOLEAN
  /\ head \in Commits /\ tested \subseteq Commits /\ moves \in Nat /\ faults \in Nat
  /\ call \in [Callers -> Specs]
  /\ own \in [Ids -> {"none", "wait", "plan", "ready", "publish"}]
  /\ dl \in [Ids -> {"none", "push", "landed", "unclear"}]
  /\ hook \in [Ids -> {"none", "moved", "restart", "retry", "again"}]
  /\ lost \subseteq Ids

\* A grant authorizes one delivery: at most one pending or delivered promotion
\* holds it (checkPromotionGrantReservableTx, whatever two calls have read
\* before), it is consumed by the promotion that was delivered under it, and a
\* delivered promotion leaves none of its grants for another.
GrantSpentOnce ==
  \A g \in Grants :
    /\ \A i, j \in Holders(g) : i = j
    /\ grant[g].st = "consumed" => grant[g].by \in Holders(g)
    /\ \A i \in Holders(g) : prom[i].st = "passed" =>
         grant[g] = [st |-> "consumed", by |-> i] \/ grant[g].st = "withdrawn"

\* What a promotion owes to the one it retries.
Chained(i) ==
  LET o == prom[i].spec.of IN
  /\ o # 0 => /\ o < i /\ prom[o].st \in {"failed", "interrupted"} /\ Req(o) = Req(i)
              /\ Successors(o) = {i}
  /\ prom[i].auto <= MaxAuto
  /\ prom[i].spec.mode = "auto" =>
       /\ o # 0 /\ prom[i].auto = prom[o].auto + 1
       /\ prom[i].spec.by = prom[o].spec.by /\ prom[i].spec.gr = prom[o].spec.gr

\* Retries of a promotion form a chain (checkPromotionRetryTx): what is retried
\* failed or was interrupted, is retried once, by hand or by the server, and
\* the server's own retries keep actor and grants and stay within the bound.
RetriesFormChains == \A i \in 1..n : Chained(i)

\* Two promotions are never merged onto one base (pendingPromotionAhead): of
\* the pending promotions at most one has a plan, and it is the oldest one.
OneAtATime ==
  \A i, j \in Ids : Pending(i) /\ Pending(j) /\ prom[i].planned => i <= j

\* What promotions put on the target passed CI: a branch run of the source, or
\* the run of the merged tree (BranchCISkipped, reusablePromotionPlan).
TestedOnly == head.id >= 0 /\ head # Root => head \in tested

\* An admitted promotion is delivered, fails or is interrupted in the end,
\* unless the failure of one could not be recorded (failAdmittedPromotion).
EveryPromotionEnds == \A i \in Ids : Pending(i) ~> (~Pending(i) \/ lost # {})
=============================================================================
