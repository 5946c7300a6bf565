------------------------ MODULE WorkflowCreate_proofs ------------------------
(***************************************************************************)
(* Theorems of WorkflowCreate: for any number of requests, what Create     *)
(* reports is true however late they are applied.                          *)
(***************************************************************************)
EXTENDS WorkflowCreate, TLAPS

\* Where Create is, and what it has by then.
PlaceInv ==
  /\ (pc = "post") = (awaited # "none")
  /\ pc # "done" => out = "none" /\ claim # "deleted"
  /\ pc \in {"start", "seed"} => ambiguous = FALSE
  /\ pc = "send" => attempts < MaxPosts

\* Without an unanswered request the object is ours only if the answer says so.
FlightInv ==
  /\ awaited = "ok" => obj \in Ours
  /\ pc # "done" /\ ambiguous = FALSE => late = 0 /\ (obj \in Ours => awaited = "ok")

Sound == ClaimKept /\ ("capability" \notin Faults => OutcomeIsTrue)

Inv == TypeOK /\ PlaceInv /\ FlightInv /\ Sound

\* The initial states.
LEMMA InitInv == Init => Inv
<1> SUFFICES ASSUME Init PROVE Inv OBVIOUS
<1>a. attempts \in 0..MaxPosts /\ late \in Nat BY PostsAssumption DEF Init
<1>b. backedOff \in BOOLEAN /\ ambiguous \in BOOLEAN /\ expired \in BOOLEAN BY Zenon DEF Init
<1>c. obj \in {"none", "foreign"} \cup Ours BY Zenon DEF Init
<1>1. TypeOK BY <1>a, <1>b, <1>c DEF Init, TypeOK
<1>2. PlaceInv BY DEF Init, PlaceInv
<1>3. FlightInv BY DEF Init, FlightInv, Ours
<1>4. Sound BY DEF Init, Sound, ClaimKept, OutcomeIsTrue
<1> QED BY <1>1, <1>2, <1>3, <1>4 DEF Inv

\* A return that says what is so.
LEMMA ReturnInv ==
  ASSUME Inv, pc \notin {"post", "done"},
         NEW what \in {"created", "definite", "ambiguous"}, NEW c \in {"none", "seeded", "deleted"},
         Return(what, c),
         c = "deleted" => NoneComes,
         what = "created" => obj \in Ours,
         what = "definite" => NoneComes \/ "capability" \in Faults
  PROVE  Inv'
<1>1. /\ pc' = "done" /\ out' = what /\ claim' = c
      /\ UNCHANGED <<attempts, backedOff, ambiguous, createErr, expired, awaited, late, obj>>
  BY DEF Return, Goto, server
<1>2. TypeOK' BY <1>1 DEF Inv, TypeOK
<1>3. PlaceInv' BY <1>1 DEF Inv, PlaceInv
<1>4. FlightInv' BY <1>1 DEF Inv, FlightInv
<1>5. Sound' BY <1>1 DEF Sound, ClaimKept, OutcomeIsTrue, NoneComes
<1> QED BY <1>2, <1>3, <1>4, <1>5 DEF Inv

\* While nothing went unanswered, nothing can come.
LEMMA UnambiguousNone ==
  ASSUME Inv, pc \notin {"post", "done"}, ambiguous = FALSE
  PROVE  NoneComes
BY DEF Inv, PlaceInv, FlightInv, NoneComes

\* A failure that carries its ambiguity.
LEMMA FailureInv ==
  ASSUME Inv, pc \notin {"post", "done"}, NEW c \in {claim, "deleted"}, Return(Failure, c),
         c = "deleted" => ambiguous = FALSE
  PROVE  Inv'
<1>1. claim \in {"none", "seeded"} BY DEF Inv, TypeOK, PlaceInv
<1>2. CASE ambiguous
  <2>1. Failure = "ambiguous" /\ c # "deleted" BY <1>2 DEF Failure
  <2> QED BY <1>1, <2>1, ReturnInv
<1>3. CASE ~ambiguous
  <2>1. Failure = "definite" BY <1>3 DEF Failure
  <2>2. NoneComes BY <1>3, UnambiguousNone DEF Inv, TypeOK
  <2> QED BY <1>1, <2>1, <2>2, ReturnInv
<1> QED BY <1>2, <1>3

\* Before the first request.
LEMMA PreparingInv == ASSUME Inv, Preparing PROVE Inv'
<1>1. claim \in {"none", "seeded", "deleted"} /\ (pc # "done" => claim # "deleted")
  BY DEF Inv, TypeOK, PlaceInv
<1>2. pc \in {"start", "seed"} /\ ambiguous = FALSE /\ NoneComes
  <2>1. pc \in {"start", "seed"}
    BY DEF Preparing, StartRefused, PreCheck, SeedRequest, SeedFails, BuildFails
  <2>2. ambiguous = FALSE BY <2>1 DEF Inv, PlaceInv
  <2> QED BY <2>1, <2>2, UnambiguousNone
<1>3. CASE StartRefused \/ SeedFails
  BY <1>1, <1>2, <1>3, ReturnInv DEF StartRefused, SeedFails
<1>4. CASE BuildFails BY <1>2, <1>4, ReturnInv DEF BuildFails
<1>5. CASE PreCheck
  <2>1. /\ pc = "start" /\ pc' = "seed"
        /\ UNCHANGED <<attempts, backedOff, ambiguous, createErr, claim, out, expired, awaited, late, obj>>
    BY <1>5 DEF PreCheck, Goto, client, server
  <2> QED BY <1>2, <2>1 DEF Inv, TypeOK, PlaceInv, FlightInv, Sound, ClaimKept, OutcomeIsTrue, NoneComes
<1>6. CASE SeedRequest
  <2>1. /\ pc = "seed" /\ pc' = "loop" /\ claim' = "seeded"
        /\ UNCHANGED <<attempts, backedOff, ambiguous, createErr, out, expired, awaited, late, obj>>
    BY <1>6 DEF SeedRequest, Goto, server
  <2> QED BY <1>2, <2>1 DEF Inv, TypeOK, PlaceInv, FlightInv, Sound, ClaimKept, OutcomeIsTrue, NoneComes
<1> QED BY <1>3, <1>4, <1>5, <1>6 DEF Preparing

\* A step that only moves on.
LEMMA MoveInv ==
  ASSUME Inv, pc \in {"loop", "get", "wait"}, pc' \in {"loop", "get", "wait", "send"},
         pc' = "send" => attempts < MaxPosts, backedOff' \in BOOLEAN,
         UNCHANGED <<attempts, ambiguous, createErr, claim, out, expired, awaited, late, obj>>
  PROVE  Inv'
<1>1. TypeOK' BY DEF Inv, TypeOK
<1>2. PlaceInv' BY DEF Inv, PlaceInv
<1>3. FlightInv' BY DEF Inv, FlightInv
<1>4. Sound' BY DEF Inv, Sound, ClaimKept, OutcomeIsTrue, NoneComes
<1> QED BY <1>1, <1>2, <1>3, <1>4 DEF Inv

\* A request fails: the name has to be looked at.
LEMMA CreateFailsInv ==
  ASSUME Inv, pc = "post", NEW err \in {"refused", "retryable", "other"}, NEW still \in BOOLEAN,
         CreateFails(err, still), err = "refused" => awaited = "refused" /\ ~still
  PROVE  Inv'
<1>1. /\ pc' = "loop" /\ createErr' = err /\ ambiguous' = (ambiguous \/ err # "refused")
      /\ backedOff' = FALSE /\ awaited' = "none" /\ late' = late + (IF still THEN 1 ELSE 0)
      /\ UNCHANGED <<attempts, claim, out, expired, obj>>
  BY DEF CreateFails, Goto
<1>2. late' \in Nat /\ ambiguous' \in BOOLEAN BY <1>1 DEF Inv, TypeOK
<1>3. TypeOK' BY <1>1, <1>2 DEF Inv, TypeOK
<1>4. PlaceInv' BY <1>1 DEF Inv, PlaceInv
<1>5. FlightInv'
  <2>1. CASE err # "refused" BY <1>1, <2>1 DEF FlightInv
  <2>2. CASE err = "refused"
    <3>1. late' = late /\ awaited = "refused" BY <1>1, <2>2 DEF Inv, TypeOK
    <3>2. ambiguous' = FALSE => ambiguous = FALSE BY <1>1 DEF Inv, TypeOK
    <3> QED BY <1>1, <3>1, <3>2 DEF Inv, FlightInv
  <2> QED BY <2>1, <2>2
<1>6. Sound' BY <1>1 DEF Inv, PlaceInv, Sound, ClaimKept, OutcomeIsTrue
<1> QED BY <1>3, <1>4, <1>5, <1>6 DEF Inv

\* The retry loop.
LEMMA RetryingInv == ASSUME Inv, Retrying PROVE Inv'
<1>1. claim \in {"none", "seeded", "deleted"} /\ (pc # "done" => claim # "deleted")
      /\ attempts \in 0..MaxPosts /\ ambiguous \in BOOLEAN
  BY DEF Inv, TypeOK, PlaceInv
<1>2. CASE CapabilityFails
  <2>1. CASE ambiguous
    <3>1. pc = "loop" /\ Return("definite", claim) /\ "capability" \in Faults
      BY <1>2, <2>1 DEF CapabilityFails
    <3> QED BY <1>1, <3>1, ReturnInv
  <2>2. CASE ~ambiguous
    <3>1. PICK c \in {claim, "deleted"} : pc = "loop" /\ Return("definite", c)
      BY <1>2, <2>2 DEF CapabilityFails
    <3>2. NoneComes BY <1>1, <2>2, <3>1, UnambiguousNone
    <3> QED BY <1>1, <3>1, <3>2, ReturnInv
  <2> QED BY <2>1, <2>2
<1>3. CASE Deadline BY <1>1, <1>3, FailureInv DEF Deadline
<1>4. CASE LoopTop
  <2>1. /\ pc = "loop" /\ pc' \in {"get", "send"} /\ (pc' = "send" => attempts = 0)
        /\ UNCHANGED <<attempts, backedOff, ambiguous, createErr, claim, out, expired, awaited, late, obj>>
    BY <1>1, <1>4, PostsAssumption DEF LoopTop, Goto, client, server
  <2>2. backedOff' \in BOOLEAN BY <2>1 DEF Inv, TypeOK
  <2> QED BY <2>1, <2>2, PostsAssumption, MoveInv
<1>5. CASE GetFinds
  <2>1. pc = "get" /\ obj \in {"foreign", "ours", "altered"} BY <1>5 DEF GetFinds, Inv, TypeOK, Ours
  <2>2. CASE obj = "ours"
    <3>1. Return("created", claim) BY <1>5, <2>2 DEF GetFinds
    <3> QED BY <1>1, <2>1, <2>2, <3>1, ReturnInv DEF Ours
  <2>3. CASE obj = "altered"
    <3>1. Return("ambiguous", claim) BY <1>5, <2>3 DEF GetFinds
    <3> QED BY <1>1, <2>1, <3>1, ReturnInv
  <2>4. CASE obj = "foreign"
    <3>1. Return("definite", claim) BY <1>5, <2>4 DEF GetFinds
    <3>2. NoneComes BY <2>4 DEF NoneComes, Ours
    <3> QED BY <1>1, <2>1, <3>1, <3>2, ReturnInv
  <2> QED BY <2>1, <2>2, <2>3, <2>4
<1>6. CASE IdentityFails BY <1>1, <1>6, FailureInv DEF IdentityFails
<1>7. ASSUME NEW transient \in BOOLEAN, GetFails(transient) PROVE Inv'
  <2>1. CASE createErr = "retryable" /\ transient
    <3>1. /\ pc = "get" /\ pc' = "wait"
          /\ UNCHANGED <<attempts, backedOff, ambiguous, createErr, claim, out, expired, awaited, late, obj>>
      BY <1>7, <2>1 DEF GetFails, Goto, client, server
    <3>2. backedOff' \in BOOLEAN BY <3>1 DEF Inv, TypeOK
    <3> QED BY <3>1, <3>2, MoveInv
  <2>2. CASE ~(createErr = "retryable" /\ transient)
    <3>1. pc = "get" /\ Return(Failure, claim) BY <1>7, <2>2 DEF GetFails
    <3> QED BY <1>1, <3>1, FailureInv
  <2> QED BY <2>1, <2>2
<1>8. CASE GaveUp
  <2>1. PICK c \in {claim, "deleted"} :
          pc = "get" /\ Return(Failure, c) /\ (c = "deleted" => Rejected \/ c = claim)
    BY <1>8 DEF GaveUp
  <2>2. c = "deleted" => ambiguous = FALSE BY <1>1, <2>1 DEF Rejected
  <2> QED BY <2>1, <2>2, FailureInv
<1>9. CASE NotFound
  <2>1. /\ pc = "get" /\ pc' \in {"send", "wait"} /\ attempts < MaxPosts /\ backedOff' = TRUE
        /\ UNCHANGED <<attempts, ambiguous, createErr, claim, out, expired, awaited, late, obj>>
    BY <1>9 DEF NotFound, Goto, server
  <2> QED BY <2>1, MoveInv
<1>10. CASE WaitEnds
  <2>1. /\ pc = "wait" /\ pc' = "loop"
        /\ UNCHANGED <<attempts, backedOff, ambiguous, createErr, claim, out, expired, awaited, late, obj>>
    BY <1>10 DEF WaitEnds, Goto, client, server
  <2>2. backedOff' \in BOOLEAN BY <2>1 DEF Inv, TypeOK
  <2> QED BY <2>1, <2>2, MoveInv
<1>11. CASE Create
  <2>1. /\ pc = "send" /\ pc' = "post" /\ attempts' = attempts + 1 /\ awaited' = "sent"
        /\ UNCHANGED <<backedOff, ambiguous, createErr, claim, out, expired, late, obj>>
    BY <1>11 DEF Create, Goto
  <2>2. attempts < MaxPosts /\ awaited = "none" BY <2>1 DEF Inv, PlaceInv
  <2>3. TypeOK' BY <1>1, <2>1, <2>2, PostsAssumption DEF Inv, TypeOK
  <2>4. PlaceInv' BY <2>1 DEF Inv, PlaceInv
  <2>5. FlightInv' BY <2>1, <2>2 DEF Inv, FlightInv
  <2>6. Sound' BY <1>1, <2>1 DEF Inv, PlaceInv, Sound, ClaimKept, OutcomeIsTrue
  <2> QED BY <2>3, <2>4, <2>5, <2>6 DEF Inv
<1>12. CASE CreateAnswered
  <2>1. CASE /\ pc = "post" /\ awaited = "ok" /\ Goto("done") /\ out' = "created" /\ awaited' = "none"
             /\ UNCHANGED <<attempts, backedOff, ambiguous, createErr, claim, expired, late, obj>>
    <3>1. pc' = "done" /\ obj \in Ours BY <2>1 DEF Goto, Inv, FlightInv
    <3>2. TypeOK' BY <2>1, <3>1 DEF Inv, TypeOK
    <3>3. PlaceInv' BY <2>1, <3>1 DEF Inv, PlaceInv
    <3>4. FlightInv' BY <2>1, <3>1 DEF FlightInv
    <3>5. Sound' BY <1>1, <2>1, <3>1 DEF Sound, ClaimKept, OutcomeIsTrue
    <3> QED BY <3>2, <3>3, <3>4, <3>5 DEF Inv
  <2>2. CASE pc = "post" /\ awaited = "exists" /\ CreateFails("retryable", FALSE)
    BY <2>2, CreateFailsInv
  <2>3. CASE pc = "post" /\ awaited = "refused" /\ CreateFails("refused", FALSE)
    BY <2>3, CreateFailsInv
  <2> QED BY <1>12, <2>1, <2>2, <2>3 DEF CreateAnswered
<1>13. ASSUME NEW transient \in BOOLEAN, AnswerLost(transient) PROVE Inv'
  <2>1. PICK err \in {"retryable", "other"}, still \in BOOLEAN : pc = "post" /\ CreateFails(err, still)
    BY <1>13 DEF AnswerLost
  <2> QED BY <2>1, CreateFailsInv
<1> QED BY <1>2, <1>3, <1>4, <1>5, <1>6, <1>7, <1>8, <1>9, <1>10, <1>11, <1>12, <1>13 DEF Retrying

\* The server and the others.
LEMMA ClusterInv == ASSUME Inv, Cluster PROVE Inv'
<1>1. UNCHANGED <<pc, attempts, backedOff, ambiguous, createErr, claim, out, expired>>
  BY DEF Cluster, LateCommit, OthersMove, ServerAnswers, client
<1>2. late \in Nat BY DEF Inv, TypeOK
<1>3. CASE LateCommit
  <2>1. /\ late > 0 /\ late' = late - 1 /\ late' \in Nat /\ awaited' = awaited
        /\ obj' \in {obj, IF obj = "none" THEN "ours" ELSE obj}
    BY <1>2, <1>3 DEF LateCommit
  <2>2. TypeOK' BY <1>1, <2>1 DEF Inv, TypeOK, Ours
  <2>3. PlaceInv' BY <1>1, <2>1 DEF Inv, PlaceInv
  <2>4. FlightInv' BY <1>1, <1>2, <2>1 DEF Inv, FlightInv, Ours
  <2>5. Sound' BY <1>1, <1>2, <2>1 DEF Inv, Sound, ClaimKept, OutcomeIsTrue, NoneComes, Ours
  <2> QED BY <2>2, <2>3, <2>4, <2>5 DEF Inv
<1>4. CASE OthersMove
  <2>1. /\ UNCHANGED <<awaited, late>>
        /\ (obj = "none" /\ obj' = "foreign") \/ (obj = "ours" /\ obj' = "altered")
    BY <1>4 DEF OthersMove
  <2>2. TypeOK' BY <1>1, <2>1 DEF Inv, TypeOK, Ours
  <2>3. PlaceInv' BY <1>1, <2>1 DEF Inv, PlaceInv
  <2>4. FlightInv' BY <1>1, <2>1 DEF Inv, FlightInv, Ours
  <2>5. Sound' BY <1>1, <2>1 DEF Inv, Sound, ClaimKept, OutcomeIsTrue, NoneComes, Ours
  <2> QED BY <2>2, <2>3, <2>4, <2>5 DEF Inv
<1>5. ASSUME NEW a \in {"ok", "exists", "refused"}, ServerAnswers(a) PROVE Inv'
  <2>1. /\ awaited = "sent" /\ awaited' = a /\ late' = late
        /\ \/ a = "ok" /\ obj = "none" /\ obj' = "ours"
           \/ a = "exists" /\ obj # "none" /\ obj' = obj
           \/ a = "refused" /\ obj' = obj
    BY <1>5 DEF ServerAnswers
  <2>2. pc = "post" BY <2>1 DEF Inv, PlaceInv
  <2>3. TypeOK' BY <1>1, <2>1 DEF Inv, TypeOK, Ours
  <2>4. PlaceInv' BY <1>1, <2>1, <2>2 DEF Inv, PlaceInv
  <2>5. FlightInv' BY <1>1, <2>1 DEF Inv, FlightInv, Ours
  <2>6. Sound' BY <1>1, <2>2 DEF Inv, PlaceInv, Sound, ClaimKept, OutcomeIsTrue
  <2> QED BY <2>3, <2>4, <2>5, <2>6 DEF Inv
<1> QED BY <1>3, <1>4, <1>5 DEF Cluster

\* Every step preserves the invariant.
LEMMA NextInv == Inv /\ [Next]_vars => Inv'
<1> SUFFICES ASSUME Inv, [Next]_vars PROVE Inv' OBVIOUS
<1>1. CASE BudgetEnds \/ UNCHANGED vars
  <2>1. /\ expired' \in BOOLEAN
        /\ UNCHANGED <<pc, attempts, backedOff, ambiguous, createErr, claim, out, awaited, late, obj>>
    BY <1>1 DEF BudgetEnds, vars, client, server, Inv, TypeOK
  <2> QED BY <2>1 DEF Inv, TypeOK, PlaceInv, FlightInv, Sound, ClaimKept, OutcomeIsTrue, NoneComes
<1> QED BY <1>1, PreparingInv, RetryingInv, ClusterInv DEF Next

\* The inductive invariant.
THEOREM Invariant == Spec => []Inv
BY InitInv, NextInv, PTL DEF Spec

\* The places, flags and counters of createWorkflowWithRetry keep their types,
\* and it never sends more than its number of requests.
THEOREM CreateTypeOK == Spec => []TypeOK
<1>1. Inv => TypeOK BY DEF Inv
<1> QED BY <1>1, Invariant, PTL

\* The source claim outlives every Workflow that might mount it, also when a
\* capability is revoked between two requests.
THEOREM ClaimsKept == Spec => []ClaimKept
<1>1. Inv => ClaimKept BY DEF Inv, Sound
<1> QED BY <1>1, Invariant, PTL

\* While the capability stands, what createWorkflowWithRetry reports is true for
\* good, whatever requests are applied late.
THEOREM OutcomesAreTrue ==
  ASSUME "capability" \notin Faults
  PROVE  Spec => []OutcomeIsTrue
<1>1. Inv => OutcomeIsTrue BY DEF Inv, Sound
<1> QED BY <1>1, Invariant, PTL
=============================================================================
