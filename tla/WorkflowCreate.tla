--------------------------- MODULE WorkflowCreate ---------------------------
(***************************************************************************)
(* The creation of one Workflow: Controller.Create and its retry loop      *)
(* createWorkflowWithRetry, against an API server that loses answers and   *)
(* may apply a request long after its client has given up. What Create     *)
(* reports decides whether anybody goes on looking for the Workflow:       *)
(* RunLifecycle takes a definite failure for the proof that none comes.    *)
(***************************************************************************)
EXTENDS Integers

CONSTANTS MaxPosts,  \* workflowCreateAttempts
          Faults     \* "capability": the capability check fails after an unanswered request

ASSUME PostsAssumption == MaxPosts \in Nat \ {0}

VARIABLES
  pc,        \* place in Create
  attempts,  \* requests sent
  backedOff, \* the name was read after the wait, too
  ambiguous, \* a request failed in another way than by a refusal
  createErr, \* how the last one failed
  expired,   \* workflowCreateBudget is over, or the owner is cancelled
  claim,     \* the source claim of the Workflow
  awaited,   \* the request whose answer is awaited
  late,      \* requests at the server that nobody waits for
  obj,       \* the object of the Workflow's name
  out        \* what Create returned

client == <<attempts, backedOff, ambiguous, createErr, claim, out>>
server == <<awaited, late, obj>>
vars == <<pc, client, expired, server>>

Ours == {"ours", "altered"}

TypeOK ==
  /\ pc \in {"start", "seed", "loop", "get", "wait", "send", "post", "done"}
  /\ attempts \in 0..MaxPosts /\ late \in Nat
  /\ backedOff \in BOOLEAN /\ ambiguous \in BOOLEAN /\ expired \in BOOLEAN
  /\ createErr \in {"none", "refused", "retryable", "other"}
  /\ claim \in {"none", "seeded", "deleted"}
  /\ awaited \in {"none", "sent", "ok", "exists", "refused"}
  /\ obj \in {"none", "foreign"} \cup Ours
  /\ out \in {"none", "created", "definite", "ambiguous"}

\* A run starts with no Workflow of its own: CleanStart of RunLifecycle.
Init ==
  /\ pc = "start" /\ attempts = 0 /\ backedOff = FALSE /\ ambiguous = FALSE /\ createErr = "none"
  /\ expired = FALSE /\ claim = "none" /\ awaited = "none" /\ late = 0 /\ out = "none"
  /\ obj \in {"none", "foreign"}

-----------------------------------------------------------------------------
(* Ends of Create *)

Goto(p) == pc' = p

Return(what, c) ==
  /\ Goto("done") /\ out' = what /\ claim' = c
  /\ UNCHANGED <<attempts, backedOff, ambiguous, createErr, expired, server>>

\* Mutant: giving up after three requests is a refusal.
Failure_Exhausted == IF ambiguous /\ attempts < MaxPosts THEN "ambiguous" ELSE "definite"

\* workflowCreateFailure, which carries AmbiguousCreate.
Failure == IF ambiguous THEN "ambiguous" ELSE "definite"

-----------------------------------------------------------------------------
(* Before the first request *)

\* The capability, the placement or the identity is refused, the read of the
\* name fails, or the name is another run's.
StartRefused == pc = "start" /\ Return("definite", claim)

\* The name is free.
PreCheck ==
  /\ pc = "start" /\ obj = "none" /\ Goto("seed")
  /\ UNCHANGED <<client, expired, server>>

SeedRequest ==
  /\ pc = "seed" /\ Goto("loop") /\ claim' = "seeded"
  /\ UNCHANGED <<attempts, backedOff, ambiguous, createErr, out, expired, server>>

\* The source is not delivered.
SeedFails == pc = "seed" /\ Return("definite", claim)

\* The Workflow cannot be built, or a ServiceAccount is missing.
BuildFails == pc = "seed" /\ Return("definite", "deleted")

-----------------------------------------------------------------------------
(* The retry loop *)

\* verifyCapabilityGrant fails, by a revocation or an error. Its error is
\* returned as it is, whatever was sent before.
CapabilityFails ==
  /\ pc = "loop" /\ (ambiguous => "capability" \in Faults)
  /\ Return("definite", IF ~ambiguous /\ attempts = 0 THEN "deleted" ELSE claim)

Deadline == pc \in {"loop", "wait", "send"} /\ expired /\ Return(Failure, claim)

\* The first time round there is nothing to reconcile.
LoopTop ==
  /\ pc = "loop" /\ ~expired /\ Goto(IF attempts > 0 THEN "get" ELSE "send")
  /\ UNCHANGED <<client, expired, server>>

\* sameSubmission: our own Workflow is adopted, one that was altered is the
\* settlement's to delete, and a stranger's is left alone.
GetFinds ==
  /\ pc = "get" /\ obj # "none"
  /\ Return(CASE obj = "ours" -> "created" [] obj = "altered" -> "ambiguous" [] OTHER -> "definite",
            claim)

\* refreshNonroot
IdentityFails ==
  /\ \/ pc = "get" /\ obj = "ours"
     \/ pc = "send" /\ attempts > 0
  /\ Return(Failure, claim)

\* A read without an answer permits only another read.
GetFails(transient) ==
  /\ pc = "get"
  /\ IF createErr = "retryable" /\ transient
     THEN Goto("wait") /\ UNCHANGED <<client, expired, server>>
     ELSE Return(Failure, claim)

\* Mutant: absence after the last request is taken for a refusal.
Rejected_Absent == TRUE

\* The claim of the source may go: nothing sent can still be applied.
Rejected == ~ambiguous /\ createErr = "refused"

GaveUp ==
  /\ pc = "get" /\ obj = "none" /\ (createErr # "retryable" \/ attempts >= MaxPosts)
  /\ Return(Failure, IF Rejected THEN "deleted" ELSE claim)

\* Absence counts once it was seen after the backoff.
NotFound ==
  /\ pc = "get" /\ obj = "none" /\ createErr = "retryable" /\ attempts < MaxPosts
  /\ Goto(IF backedOff THEN "send" ELSE "wait") /\ backedOff' = TRUE
  /\ UNCHANGED <<attempts, ambiguous, createErr, claim, out, expired, server>>

\* Mutant: the budget does not end a wait for the name to become readable.
WaitEnds_Forever ==
  /\ pc = "wait" /\ Goto("get") /\ UNCHANGED <<client, expired, server>>

WaitEnds ==
  /\ pc = "wait" /\ ~expired /\ Goto("loop") /\ UNCHANGED <<client, expired, server>>

Create ==
  /\ pc = "send" /\ ~expired /\ Goto("post")
  /\ attempts' = attempts + 1 /\ awaited' = "sent"
  /\ UNCHANGED <<backedOff, ambiguous, createErr, claim, out, expired, late, obj>>

\* The request failed; the name is looked at before anything else.
CreateFails(err, stillThere) ==
  /\ Goto("loop") /\ createErr' = err /\ ambiguous' = (ambiguous \/ err # "refused")
  /\ backedOff' = FALSE
  /\ awaited' = "none" /\ late' = late + (IF stillThere THEN 1 ELSE 0)
  /\ UNCHANGED <<attempts, claim, out, expired, obj>>

\* AlreadyExists is retried like a lost answer, Invalid, Forbidden and BadRequest
\* are refusals.
CreateAnswered ==
  /\ pc = "post"
  /\ \/ /\ awaited = "ok" /\ Goto("done") /\ out' = "created" /\ awaited' = "none"
        /\ UNCHANGED <<attempts, backedOff, ambiguous, createErr, claim, expired, late, obj>>
     \/ awaited = "exists" /\ CreateFails("retryable", FALSE)
     \/ awaited = "refused" /\ CreateFails("refused", FALSE)

\* A timeout, a reset connection, a server error; or one that is not transient.
AnswerLost(transient) ==
  /\ pc = "post" /\ CreateFails(IF transient THEN "retryable" ELSE "other", awaited = "sent")

BudgetEnds == ~expired /\ expired' = TRUE /\ UNCHANGED <<pc, client, server>>

-----------------------------------------------------------------------------
(* The API server and other users of the cluster *)

ServerAnswers(a) ==
  /\ awaited = "sent" /\ awaited' = a
  /\ \/ a = "ok" /\ obj = "none" /\ obj' = "ours"
     \/ a = "exists" /\ obj # "none" /\ UNCHANGED obj
     \/ a = "refused" /\ UNCHANGED obj
  /\ UNCHANGED <<pc, client, expired, late>>

\* A request whose client gave up is applied after all, or dropped.
LateCommit ==
  /\ late > 0 /\ late' = late - 1
  /\ obj' \in {obj, IF obj = "none" THEN "ours" ELSE obj}
  /\ UNCHANGED <<pc, client, expired, awaited>>

\* Another submission takes the name; ours is changed, or its profile is.
OthersMove ==
  /\ \/ obj = "none" /\ obj' = "foreign"
     \/ obj = "ours" /\ obj' = "altered"
  /\ UNCHANGED <<pc, client, expired, awaited, late>>

-----------------------------------------------------------------------------
(* Specification *)

Preparing == StartRefused \/ PreCheck \/ SeedRequest \/ SeedFails \/ BuildFails

Retrying ==
  \/ CapabilityFails \/ Deadline \/ LoopTop \/ GetFinds \/ IdentityFails \/ GaveUp \/ NotFound
  \/ WaitEnds \/ Create \/ CreateAnswered
  \/ \E transient \in BOOLEAN : GetFails(transient) \/ AnswerLost(transient)

Cluster == LateCommit \/ OthersMove \/ \E a \in {"ok", "exists", "refused"} : ServerAnswers(a)

Next == Preparing \/ Retrying \/ BudgetEnds \/ Cluster

Spec == Init /\ [][Next]_vars

\* The goroutine goes on, its requests have timeouts, and so does the loop.
FairSpec == Spec /\ WF_vars(Preparing \/ Retrying) /\ WF_vars(BudgetEnds)

-----------------------------------------------------------------------------
(* Properties *)

\* No Workflow of this submission exists, and none can come: the name is
\* another's, or no request is left.
NoneComes == obj \notin Ours /\ (obj = "none" => late = 0 /\ awaited # "sent")

\* What Create reports is true, and stays true: after a definite failure no
\* Workflow of the run exists or appears, although requests may be applied after
\* their answers were lost; and one reported as created is there. The scheduler
\* forgets a definite failure.
OutcomeIsTrue ==
  /\ out = "definite" => NoneComes
  /\ out = "created" => obj \in Ours

\* The source claim is deleted only when no Workflow can mount it any more.
ClaimKept == claim = "deleted" => NoneComes

\* Create returns, also when the name can never be read: the worker is not
\* kept for good.
CreateReturns == <>(out # "none")
=============================================================================
