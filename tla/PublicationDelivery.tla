------------------------ MODULE PublicationDelivery ------------------------
(***************************************************************************)
(* The publication outbox: pushes of tested commits to one upstream ref.   *)
(* A publication is a durable intent; a delivery reads the ref, decides,   *)
(* reserves an attempt, pushes and reads the ref back. One permit          *)
(* serialises deliveries and abandonments, but the ref also moves without  *)
(* it: by other people, by the propagation of a branch deletion, and by    *)
(* pushes whose client has given up. The upstream repository is external   *)
(* and updates a ref only from the value it advertised to the client.      *)
(***************************************************************************)
EXTENDS Naturals

CONSTANTS Pubs,         \* publications of the ref
          Commits, Absent,
          Result,       \* the commit (or tag object) each of them publishes
          Base,         \* the target head promotions were merged onto
          Contains,     \* commits reachable from a commit, itself included
          Kinds,        \* what the publications may be: functions on Pubs
          MaxAttempts,  \* pushretry.MaxAttempts
          MaxMoves,     \* bound: changes of the ref by others
          FaultKinds, MaxFaults

Faults == {"crash", "read", "reply", "policy", "mirror"}

ASSUME CommitsAssumption == /\ Absent \notin Commits
                            /\ Commits \cap {"present", "gone", "kept"} = {}
                            /\ Base \in Commits \cup {Absent}
                            /\ Result \in [Pubs -> Commits]
                            /\ Contains \in [Commits -> SUBSET Commits]
ASSUME KindsAssumption ==
  Kinds \subseteq [Pubs -> {"feature", "direct", "tag", "promotion"}]
ASSUME AttemptsAssumption == MaxAttempts \in Nat \ {0}
ASSUME LimitsAssumption == /\ MaxMoves \in Nat /\ MaxFaults \in Nat
                           /\ FaultKinds \subseteq Faults

VARIABLES
  kind,     \* what the ref is, and which publications a promotion owns
  pub,      \* table publications
  grant,    \* the promotions' grants are active
  mode,     \* the server process is up
  queue,    \* publications somebody will deliver: a caller or publicationIDs
  permit,   \* the delivery that holds the permit
  mirror,   \* the branch on the mirror: present, deleted at a head, gone upstream too,
            \* or kept upstream since the deletion was given up
  remote,   \* what the upstream ref holds
  flights,  \* pushes the upstream has received and not answered
  held, sent,  \* history: results upstream, pushes started, since activation
  moves, faults

durable == <<kind, pub, grant>>
process == <<mode, queue, permit>>
upstream == <<mirror, remote, flights>>
history == <<held, sent>>
bounds == <<moves, faults>>
vars == <<durable, process, upstream, history, bounds>>

Refs == Commits \cup {Absent}

\* due: retry_after is zero or over; note: what the error column says.
Row == [status: {"none", "pending", "delivered", "failed", "abandoned"},
        known: BOOLEAN, prev: Refs, attempts: 0 .. MaxAttempts,
        due: BOOLEAN, note: {"none", "attempt", "retry"}]
NoRow == [status |-> "none", known |-> FALSE, prev |-> Absent, attempts |-> 0,
          due |-> TRUE, note |-> "none"]

\* seen: the ref as read before the decision; soft: the push failed transiently.
Idle == [step |-> "idle"]
Steps == {"policy", "read", "unread", "decide", "checked", "push", "flight", "reply", "verify"}
Permit == {Idle} \cup [step: Steps, p: Pubs, seen: Refs, soft: BOOLEAN]

\* live: the client still waits for the reply.
Flight == [p: Pubs, n: 1 .. MaxAttempts, old: Refs, live: BOOLEAN]

TypeOK ==
  /\ kind \in Kinds
  /\ pub \in [Pubs -> Row]
  /\ grant \in BOOLEAN
  /\ mode \in {"up", "down"}
  /\ queue \subseteq Pubs
  /\ permit \in Permit
  /\ mirror \in {"present", "gone", "kept"} \cup Commits
  /\ remote \in Refs
  /\ flights \subseteq Flight
  /\ held \subseteq Pubs
  /\ sent \in [Pubs -> 0 .. MaxAttempts]
  /\ moves \in 0 .. MaxMoves
  /\ faults \in 0 .. MaxFaults

Init ==
  /\ kind \in Kinds
  /\ pub = [p \in Pubs |-> NoRow] /\ grant = TRUE
  /\ mode = "up" /\ queue = {} /\ permit = Idle
  /\ mirror = "present" /\ remote = Base /\ flights = {}
  /\ held = {} /\ sent = [p \in Pubs |-> 0]
  /\ moves = 0 /\ faults = 0

Fault(f) == f \in FaultKinds /\ faults < MaxFaults /\ faults' = faults + 1 /\ UNCHANGED moves

-----------------------------------------------------------------------------
(* Who publishes how *)

forceBranch(p) == kind[p] = "feature"

\* What the upstream accepts: a forced push, a tag that does not move, a
\* fast-forward.
Accepts(p, old) == \/ forceBranch(p) \/ old = Absent \/ old = Result[p]
                   \/ kind[p] # "tag" /\ old \in Contains[Result[p]]

\* Mutant: anything that is not the predecessor counts as delivered.
classify_Optimistic(p, sha) == IF sha = pub[p].prev THEN "previous" ELSE "result"

\* classifyRemotePublication
classify(p, sha) == IF sha = Result[p] THEN "result"
                    ELSE IF sha = pub[p].prev THEN "previous" ELSE "other"

HeldAt(c) == {p \in Pubs : Result[p] = c}

\* The ref changes: publications whose result it now holds have been upstream.
SetRemote(c) == remote' = c /\ held' = held \cup HeldAt(c)

Is(step) == mode = "up" /\ permit.step = step
To(step) == permit' = [permit EXCEPT !.step = step]

\* Mutant: the caller of a delivery that stays pending forgets it.
StillPending_Forgotten(p) == permit' = Idle /\ queue' = queue

\* The delivery ends with the publication pending: queuePublicationRetry.
StillPending(p) == permit' = Idle /\ queue' = queue \cup {p}

\* finalizePublication, and AbandonPublication for a deleted branch.
Finalize(p, status) ==
  /\ pub' = [pub EXCEPT ![p].status = status]
  /\ permit' = Idle /\ UNCHANGED <<queue, mode>>

-----------------------------------------------------------------------------
(* Requests *)

\* The row BeginPublication inserts for a run, and RetryFailedPublication resets.
Reactivated(p) == [NoRow EXCEPT !.status = "pending"]

\* A publication becomes pending and its caller goes on to deliver it.
Activate(p, row) ==
  /\ pub' = [pub EXCEPT ![p] = row] /\ queue' = queue \cup {p}
  /\ held' = (held \ {p}) \cup (HeldAt(remote) \cap {p})
  /\ sent' = [sent EXCEPT ![p] = 0]
  /\ UNCHANGED <<kind, grant, mode, permit, upstream, bounds>>

\* A promotion's predecessor is the head it was merged onto, and its grant is
\* checked in the same transaction.
BeginPublication(p) ==
  /\ mode = "up" /\ pub[p].status = "none"
  /\ kind[p] = "promotion" => grant
  /\ Activate(p, IF kind[p] = "promotion"
                 THEN [NoRow EXCEPT !.status = "pending", !.known = TRUE, !.prev = Base]
                 ELSE Reactivated(p))

RetryFailedPublication(p) ==
  /\ mode = "up" /\ pub[p].status = "failed" /\ kind[p] # "promotion"
  /\ Activate(p, Reactivated(p))

AbandonPublication(p) ==
  /\ Is("idle") /\ pub[p].status = "pending"
  /\ pub' = [pub EXCEPT ![p].status = "abandoned"]
  /\ UNCHANGED <<kind, grant, process, upstream, history, bounds>>

\* A grant is revoked or expires.
GrantEnds ==
  /\ grant /\ grant' = FALSE
  /\ UNCHANGED <<kind, pub, process, upstream, history, bounds>>

-----------------------------------------------------------------------------
(* deliverPublicationWithGate: permit, terminal and backoff checks, policy *)

Backoff(p) == pub[p].note = "retry" /\ ~pub[p].due

\* A tick of a publication in backoff puts it back and changes nothing.
Deliver(p) ==
  /\ Is("idle") /\ p \in queue /\ pub[p].status = "pending" /\ ~Backoff(p)
  /\ queue' = queue \ {p}
  /\ permit' = [step |-> "policy", p |-> p, seen |-> Absent, soft |-> FALSE]
  /\ UNCHANGED <<durable, mode, upstream, history, bounds>>

DeliverTerminal(p) ==
  /\ Is("idle") /\ p \in queue /\ pub[p].status # "pending"
  /\ queue' = queue \ {p}
  /\ UNCHANGED <<durable, mode, permit, upstream, history, bounds>>

\* requirePublicationTestPolicy accepts.
PolicyHolds ==
  /\ Is("policy") /\ To("read")
  /\ UNCHANGED <<durable, mode, queue, upstream, history, bounds>>

\* The policy cannot be read: the publication waits without using an attempt.
PolicyUnavailable ==
  /\ Is("policy") /\ Fault("policy") /\ StillPending(permit.p)
  /\ UNCHANGED <<durable, mode, upstream, history>>

\* The policy refuses, or has been unavailable for trustedPolicyWaitLimit.
PolicyRefuses ==
  /\ Is("policy") /\ Fault("policy") /\ Finalize(permit.p, "failed")
  /\ UNCHANGED <<kind, grant, upstream, history>>

-----------------------------------------------------------------------------
(* deliverPublication: read the ref, then decide *)

\* UpdatePublicationAttempt: n attempts, and the time of the next one ahead.
Attempt(p, n, note) ==
  pub' = [pub EXCEPT ![p].attempts = n, ![p].due = FALSE, ![p].note = note]

ReadRemote ==
  /\ Is("read") /\ permit' = [permit EXCEPT !.step = "decide", !.seen = remote]
  /\ UNCHANGED <<durable, mode, queue, upstream, history, bounds>>

\* The read fails. In backoff nothing happens; a failure that is not transient,
\* or comes after the last attempt, is final.
ReadFails ==
  /\ Is("read") /\ Fault("read")
  /\ LET p == permit.p IN
     \/ ~pub[p].due /\ StillPending(p) /\ UNCHANGED <<pub, mode>>
     \/ pub[p].due /\ Finalize(p, "failed")
  /\ UNCHANGED <<kind, grant, upstream, history>>

\* The read of a ref that is not in backoff fails transiently: it uses an attempt.
ReadUsesAttempt ==
  /\ Is("read") /\ Fault("read")
  /\ LET p == permit.p IN
     /\ pub[p].due /\ pub[p].attempts < MaxAttempts
     /\ kind[p] = "promotion" => grant
     /\ Attempt(p, pub[p].attempts + 1, "attempt")
  /\ To("unread")
  /\ UNCHANGED <<kind, grant, mode, queue, upstream, history>>

\* The error every other return of a delivery hands to its caller: a worker and
\* the dispatch loop stop the server, a request handler queues the publication.
Stop == mode' = "down" /\ queue' = {} /\ permit' = Idle
        /\ flights' = {[f EXCEPT !.live = FALSE] : f \in flights}
DeliveryErrors == \/ Stop
                  \/ StillPending(permit.p) /\ UNCHANGED <<mode, flights>>

\* The attempt a failed read would use is refused since the grant has ended.
ReadFailsUngranted ==
  /\ Is("read") /\ Fault("read")
  /\ pub[permit.p].due /\ pub[permit.p].attempts < MaxAttempts
  /\ kind[permit.p] = "promotion" /\ ~grant
  /\ DeliveryErrors
  /\ UNCHANGED <<durable, mirror, remote, history>>

\* retryPublicationFailure
RetryOrFail(p, transient) ==
  IF transient /\ pub[p].attempts < MaxAttempts
  THEN Attempt(p, pub[p].attempts, "retry") /\ StillPending(p) /\ UNCHANGED mode
  ELSE Finalize(p, "failed")

RetryUnread ==
  /\ Is("unread") /\ RetryOrFail(permit.p, TRUE)
  /\ UNCHANGED <<kind, grant, upstream, history, bounds>>

Unconfirmed(p) == permit.seen # Result[p]
Due(p) == Unconfirmed(p) /\ pub[p].due

\* Read-back is allowed during backoff.
ConfirmResult ==
  /\ Is("decide") /\ ~Unconfirmed(permit.p) /\ Finalize(permit.p, "delivered")
  /\ UNCHANGED <<kind, grant, upstream, history, bounds>>

KeepBackoff ==
  /\ Is("decide") /\ Unconfirmed(permit.p) /\ ~pub[permit.p].due
  /\ StillPending(permit.p)
  /\ UNCHANGED <<durable, mode, upstream, history, bounds>>

\* mirrorBranchDeleted: a feature branch that is gone is not pushed back.
MirrorChecked ==
  /\ Is("decide") /\ Due(permit.p) /\ forceBranch(permit.p) /\ mirror = "present"
  /\ To("checked")
  /\ UNCHANGED <<durable, mode, queue, upstream, history, bounds>>

BranchDeleted ==
  /\ Is("decide") /\ Due(permit.p) /\ forceBranch(permit.p) /\ mirror # "present"
  /\ Finalize(permit.p, "abandoned")
  /\ UNCHANGED <<kind, grant, upstream, history, bounds>>

MirrorFails ==
  /\ Is("decide") /\ Due(permit.p) /\ forceBranch(permit.p) /\ Fault("mirror")
  /\ DeliveryErrors
  /\ UNCHANGED <<durable, mirror, remote, history>>

SetPublicationPredecessor ==
  /\ Is("decide") /\ Due(permit.p) /\ ~forceBranch(permit.p) /\ ~pub[permit.p].known
  /\ pub' = [pub EXCEPT ![permit.p].known = TRUE, ![permit.p].prev = permit.seen]
  /\ UNCHANGED <<kind, grant, process, upstream, history, bounds>>

Bound(p) == Due(p) /\ ~forceBranch(p) /\ pub[p].known

\* The ref holds neither the predecessor nor the result.
TargetMoved ==
  /\ Is("decide") /\ Bound(permit.p) /\ classify(permit.p, permit.seen) = "other"
  /\ Finalize(permit.p, "failed")
  /\ UNCHANGED <<kind, grant, upstream, history, bounds>>

-----------------------------------------------------------------------------
(* attemptPublicationMutation: reserve, push, read back *)

MayAttempt(p) == \/ Is("checked")
                 \/ Is("decide") /\ Bound(p) /\ classify(p, permit.seen) = "previous"

Refused ==
  /\ permit # Idle /\ MayAttempt(permit.p)
  /\ \/ pub[permit.p].attempts >= MaxAttempts
     \/ kind[permit.p] = "promotion" /\ ~grant
  /\ Finalize(permit.p, "failed")
  /\ UNCHANGED <<kind, grant, upstream, history, bounds>>

\* The attempt is durable before the push can happen.
ReserveAttempt ==
  /\ permit # Idle /\ MayAttempt(permit.p)
  /\ pub[permit.p].attempts < MaxAttempts
  /\ kind[permit.p] = "promotion" => grant
  /\ Attempt(permit.p, pub[permit.p].attempts + 1, "attempt")
  /\ To("push")
  /\ UNCHANGED <<kind, grant, mode, queue, upstream, history, bounds>>

\* mutatePublication: git sees what the upstream advertises and sends the update.
SendPush ==
  /\ Is("push") /\ Accepts(permit.p, remote)
  /\ flights' = flights \cup {[p |-> permit.p, n |-> sent[permit.p] + 1,
                               old |-> remote, live |-> TRUE]}
  /\ sent' = [sent EXCEPT ![permit.p] = @ + 1]
  /\ To("flight")
  /\ UNCHANGED <<durable, mode, queue, mirror, remote, held, bounds>>

Ambiguous(transient) == permit' = [permit EXCEPT !.step = "verify", !.soft = transient]

\* A non-fast-forward, or a tag that exists.
PushRejected ==
  /\ Is("push") /\ ~Accepts(permit.p, remote)
  /\ Ambiguous(FALSE)
  /\ UNCHANGED <<durable, mode, queue, upstream, history, bounds>>

\* The upstream applies a push if the ref is still what it advertised.
PushLands(f) ==
  /\ f \in flights /\ remote = f.old
  /\ SetRemote(Result[f.p]) /\ flights' = flights \ {f}
  /\ IF f.live THEN To("reply") ELSE UNCHANGED permit
  /\ UNCHANGED <<durable, mode, queue, mirror, sent, bounds>>

\* It refuses it, or drops one whose client is gone.
PushEnds(f) ==
  /\ f \in flights /\ (remote # f.old \/ ~f.live)
  /\ flights' = flights \ {f}
  /\ IF f.live THEN Ambiguous(FALSE) ELSE UNCHANGED permit
  /\ UNCHANGED <<durable, mode, queue, mirror, remote, history, bounds>>

\* The push fails for the client, which may call the failure transient or not:
\* it may never have started, may have landed, may land later, or never.
ReplyLost ==
  /\ Is("push") \/ Is("flight") \/ Is("reply")
  /\ Fault("reply")
  /\ \E transient \in BOOLEAN : Ambiguous(transient)
  /\ flights' = {[f EXCEPT !.live = FALSE] : f \in flights}
  /\ UNCHANGED <<durable, mode, queue, mirror, remote, history>>

\* verifyRemoteRef, still within the mutation: a success that is not visible is
\* a failure.
VerifyPushed ==
  /\ Is("reply")
  /\ IF remote = Result[permit.p] THEN Finalize(permit.p, "delivered")
     ELSE Ambiguous(FALSE) /\ UNCHANGED <<pub, queue, mode>>
  /\ UNCHANGED <<kind, grant, upstream, history, bounds>>

\* Every failed mutation is followed by a read of the ref.
ReadBack ==
  /\ Is("verify")
  /\ LET p == permit.p IN
     CASE classify(p, remote) = "result" -> Finalize(p, "delivered")
       [] classify(p, remote) = "previous" -> RetryOrFail(p, permit.soft)
       [] classify(p, remote) = "other" ->
            IF forceBranch(p) THEN RetryOrFail(p, permit.soft) ELSE Finalize(p, "failed")
  /\ UNCHANGED <<kind, grant, upstream, history, bounds>>

\* The read-back fails too: only if both failures are transient is there a retry.
ReadBackFails ==
  /\ Is("verify") /\ Fault("read")
  /\ \E transient \in BOOLEAN : RetryOrFail(permit.p, permit.soft /\ transient)
  /\ UNCHANGED <<kind, grant, upstream, history>>

-----------------------------------------------------------------------------
(* Time, restarts, and what moves the ref without the permit *)

RetryDue(p) ==
  /\ pub[p].status = "pending" /\ ~pub[p].due
  /\ pub' = [pub EXCEPT ![p].due = TRUE]
  /\ UNCHANGED <<kind, grant, process, upstream, history, bounds>>

Crash ==
  /\ mode = "up" /\ Fault("crash") /\ Stop
  /\ UNCHANGED <<durable, mirror, remote, history>>

\* recoverPendingPublicationsWithGate
Recover ==
  /\ mode = "down" /\ mode' = "up"
  /\ queue' = {p \in Pubs : pub[p].status = "pending"}
  /\ UNCHANGED <<durable, permit, upstream, history, bounds>>

\* Somebody else moves, rewinds, creates or deletes the ref.
Elsewhere(c) ==
  /\ moves < MaxMoves /\ moves' = moves + 1 /\ c # remote
  /\ SetRemote(c)
  /\ UNCHANGED <<durable, process, mirror, flights, sent, faults>>

FeatureBranch == \E p \in Pubs : kind[p] = "feature"

\* A receive deletes the branch on the mirror, at the head it had.
DeleteBranch(h) ==
  /\ FeatureBranch /\ mirror = "present" /\ mirror' = h
  /\ UNCHANGED <<durable, process, remote, flights, history, bounds>>

\* A receive that pushes the branch again drops the deletion marker.
PushBranch ==
  /\ mirror # "present" /\ mirror' = "present"
  /\ UNCHANGED <<durable, process, remote, flights, history, bounds>>

\* The propagator deletes the upstream branch with a lease while it still names
\* the deleted head or an ancestor of it.
PropagateDeletion ==
  /\ mirror \in Commits /\ remote \in Contains[mirror] \cup {Absent}
  /\ moves < MaxMoves /\ moves' = moves + 1
  /\ SetRemote(Absent) /\ mirror' = "gone"
  /\ UNCHANGED <<durable, process, flights, sent, faults>>

\* The upstream branch moved, or every attempt failed: the deletion is given up
\* and the mirror restored from the tracking ref, if there is one.
AbandonBranchDeletion ==
  /\ mirror \in Commits /\ mirror' \in {"present", "kept"}
  /\ UNCHANGED <<durable, process, remote, flights, history, bounds>>

-----------------------------------------------------------------------------

Request(p) == BeginPublication(p) \/ RetryFailedPublication(p) \/ AbandonPublication(p)

Queue(p) == Deliver(p) \/ DeliverTerminal(p)

\* What the holder of the permit does without a fault.
Holder ==
  \/ PolicyHolds \/ ReadRemote \/ RetryUnread \/ ConfirmResult \/ KeepBackoff
  \/ MirrorChecked \/ BranchDeleted \/ SetPublicationPredecessor \/ TargetMoved
  \/ Refused \/ ReserveAttempt \/ SendPush \/ PushRejected \/ VerifyPushed \/ ReadBack

Failure ==
  \/ PolicyUnavailable \/ PolicyRefuses \/ ReadFails \/ ReadUsesAttempt
  \/ ReadFailsUngranted \/ MirrorFails \/ ReplyLost \/ ReadBackFails \/ Crash

Others ==
  \/ GrantEnds \/ PushBranch \/ PropagateDeletion \/ AbandonBranchDeletion
  \/ \E c \in Refs : Elsewhere(c)
  \/ \E p \in Pubs : DeleteBranch(Result[p])

Next ==
  \/ \E p \in Pubs : Request(p) \/ Queue(p) \/ RetryDue(p)
  \/ Holder \/ Failure \/ Others \/ Recover
  \/ \E f \in flights : PushLands(f) \/ PushEnds(f)

Spec == Init /\ [][Next]_vars

\* The server's own goroutines keep going, are restarted, and an upstream that
\* the client waits for answers. Waiters take the permit in turn.
Fairness ==
  /\ WF_vars(Holder) /\ WF_vars(Recover)
  /\ WF_vars(\E f \in flights : f.live /\ (PushLands(f) \/ PushEnds(f)))
  /\ \A p \in Pubs : WF_vars(RetryDue(p)) /\ SF_vars(Queue(p))

FairSpec == Spec /\ Fairness

-----------------------------------------------------------------------------
(* Properties *)

\* A pending publication is never forgotten: somebody delivers it, will deliver
\* it, or the restart of the process will find it.
PendingHasOwner ==
  \A p \in Pubs : pub[p].status = "pending" =>
    mode = "down" \/ p \in queue \/ (permit # Idle /\ permit.p = p)

\* No push without a durable attempt, also when the process stops between the
\* two or the reply is lost, so that a restart cannot exceed the budget.
AttemptsReserved == \A p \in Pubs : sent[p] <= pub[p].attempts

Status == [p \in Pubs |-> pub[p].status]
Out == {f.p : f \in flights}
O == INSTANCE Outbox WITH status <- Status, out <- Out

\* deliverPublication, its callers and the store together keep what Outbox
\* promises, whatever they read is worth when they use it.
KeepsPromises == O!Spec

\* Every publication is settled, through restarts, outages and a moving ref.
PendingSettles ==
  \A p \in Pubs : pub[p].status = "pending" ~> pub[p].status # "pending"

\* A branch deleted on the mirror and upstream is not pushed back by a
\* publication that started before.
DeletedStaysDeleted == mirror = "gone" => remote = Absent
=============================================================================
