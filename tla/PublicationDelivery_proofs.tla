--------------------- MODULE PublicationDelivery_proofs ---------------------
(***************************************************************************)
(* Theorems of PublicationDelivery: the outbox keeps its promises for any  *)
(* number of publications, commits, faults and changes by others.          *)
(***************************************************************************)
EXTENDS PublicationDelivery, TLAPS

HeldPermit == [step: Steps, p: Pubs, seen: Refs, soft: BOOLEAN]

\* A permit that is not idle names a publication, and may change its step.
LEMMA PermitFacts ==
  ASSUME TypeOK, permit.step # "idle"
  PROVE  /\ permit # Idle /\ permit \in HeldPermit /\ permit.p \in Pubs
         /\ permit.seen \in Refs /\ permit.soft \in BOOLEAN
         /\ \A s \in Steps : To(s) => /\ permit' \in Permit /\ permit'.p = permit.p
                                      /\ permit'.seen = permit.seen /\ permit'.step = s
         /\ \A b \in BOOLEAN : Ambiguous(b) => /\ permit' \in Permit /\ permit'.p = permit.p
                                               /\ permit'.step = "verify"
<1>1. permit # Idle BY DEF Idle
<1>2. permit \in HeldPermit BY <1>1 DEF TypeOK, Permit, HeldPermit
<1>3. "verify" \in Steps BY DEF Steps
<1> QED BY <1>1, <1>2, <1>3 DEF HeldPermit, Permit, To, Ambiguous

\* Idle is no step of a delivery.
LEMMA IdlePermit == Idle \in Permit /\ Idle.step = "idle"
BY DEF Idle, Permit

\* What finalizePublication leaves.
LEMMA FinalizeFacts ==
  ASSUME TypeOK, NEW p \in Pubs, NEW s \in {"delivered", "failed", "abandoned"},
         Finalize(p, s)
  PROVE  /\ pub' \in [Pubs -> Row] /\ permit' = Idle /\ queue' = queue /\ mode' = mode
         /\ \A q \in Pubs : /\ pub'[q].status = IF q = p THEN s ELSE pub[q].status
                            /\ pub'[q].attempts = pub[q].attempts
<1>1. pub[p] \in Row BY DEF TypeOK
<1>2. [pub[p] EXCEPT !.status = s] \in Row BY <1>1 DEF Row
<1> QED BY <1>1, <1>2 DEF Finalize, TypeOK, Row

\* What UpdatePublicationAttempt leaves.
LEMMA AttemptFacts ==
  ASSUME TypeOK, NEW p \in Pubs, NEW n \in 0 .. MaxAttempts, n >= pub[p].attempts,
         NEW note \in {"attempt", "retry"}, Attempt(p, n, note)
  PROVE  /\ pub' \in [Pubs -> Row]
         /\ \A q \in Pubs : /\ pub'[q].status = pub[q].status
                            /\ pub'[q].attempts = IF q = p THEN n ELSE pub[q].attempts
<1>1. pub[p] \in Row BY DEF TypeOK
<1>2. [pub[p] EXCEPT !.attempts = n, !.due = FALSE, !.note = note] \in Row
  BY <1>1 DEF Row
<1> QED BY <1>1, <1>2 DEF Attempt, TypeOK, Row

-----------------------------------------------------------------------------
(* The inductive invariant *)

\* The holder of the permit delivers a pending publication; a decision to
\* confirm rests on a read that found the result.
PermitInv ==
  permit.step # "idle" =>
    /\ pub[permit.p].status = "pending"
    /\ permit.step = "decide" /\ permit.seen = Result[permit.p] => permit.p \in held

\* Between the reservation and the push there is an attempt to spare.
SentInv ==
  /\ AttemptsReserved
  /\ permit.step = "push" => sent[permit.p] < pub[permit.p].attempts

\* A publication whose result is upstream has been so since its activation.
HeldInv == \A p \in Pubs : pub[p].status # "none" /\ remote = Result[p] => p \in held

\* What is in flight was acceptable when it was sent, and a client that waits for
\* its reply holds the permit and waits for no other.
FlightInv ==
  /\ \A f \in flights : Accepts(f.p, f.old) /\ (f.live => permit.step = "flight" /\ permit.p = f.p)
  /\ \A f, g \in flights : f.live /\ g.live => f = g

Inv == TypeOK /\ PermitInv /\ SentInv /\ HeldInv /\ FlightInv /\ PendingHasOwner

Quiet == UNCHANGED <<kind, grant, upstream, history, moves>> /\ faults' \in 0 .. MaxFaults

\* The fault counter.
LEMMA FaultFacts ==
  ASSUME TypeOK, NEW k, Fault(k)
  PROVE  moves' = moves /\ faults' \in 0 .. MaxFaults
BY LimitsAssumption DEF TypeOK, Fault

\* The barred variables stay when no status changes and nothing moves upstream.
LEMMA Stutters ==
  ASSUME Inv, \A q \in Pubs : pub'[q].status = pub[q].status, Quiet
  PROVE  UNCHANGED O!vars
<1>1. Status' = Status BY DEF Status
<1>2. Out' = Out BY DEF Out, Quiet, upstream
<1> QED BY <1>1, <1>2 DEF O!vars, Quiet, upstream, history

\* The flights of a holder that does not wait for one are not live.
LEMMA NothingLive ==
  ASSUME Inv, Quiet, permit.step # "flight"
  PROVE  FlightInv'
<1> SUFFICES ASSUME NEW f \in flights' PROVE Accepts(f.p, f.old)' /\ ~f.live
  BY DEF FlightInv
<1>1. f \in flights BY DEF Quiet, upstream
<1>2. Accepts(f.p, f.old) /\ ~f.live BY <1>1 DEF Inv, FlightInv
<1> QED BY <1>2 DEF Accepts, forceBranch, Quiet

\* The holder settles its publication.
LEMMA Settles ==
  ASSUME Inv, permit.step \notin {"idle", "flight"},
         NEW s \in {"delivered", "failed", "abandoned"},
         s = "delivered" => permit.p \in held, Finalize(permit.p, s), Quiet
  PROVE  Inv' /\ O!Settle(permit.p)
<1>1. permit.p \in Pubs BY PermitFacts DEF Inv
<1>2. /\ pub' \in [Pubs -> Row] /\ permit' = Idle /\ queue' = queue /\ mode' = mode
      /\ \A q \in Pubs : /\ pub'[q].status = IF q = permit.p THEN s ELSE pub[q].status
                         /\ pub'[q].attempts = pub[q].attempts
  BY <1>1, FinalizeFacts DEF Inv
<1>3. pub[permit.p].status = "pending" BY DEF Inv, PermitInv
<1>4. TypeOK' BY <1>2, IdlePermit DEF Inv, TypeOK, Quiet, upstream, history
<1>5. PermitInv' /\ SentInv'
  BY <1>2, IdlePermit DEF Inv, PermitInv, SentInv, AttemptsReserved, Quiet, history
<1>6. HeldInv' BY <1>2, <1>3 DEF Inv, HeldInv, Quiet, upstream, history
<1>7. FlightInv' BY NothingLive
<1>8. PendingHasOwner' BY <1>2 DEF Inv, PendingHasOwner
<1>9. O!Settle(permit.p)
  <2>1. Status[permit.p] = "pending" BY <1>1, <1>3 DEF Status
  <2>2. Status' = [Status EXCEPT ![permit.p] = s] BY <1>1, <1>2 DEF Status
  <2>3. Out' = Out BY DEF Out, Quiet, upstream
  <2> QED BY <2>1, <2>2, <2>3 DEF O!Settle, O!Become, Quiet, upstream, history
<1> QED BY <1>4, <1>5, <1>6, <1>7, <1>8, <1>9 DEF Inv

\* No status changes and no attempt is lost.
KeepsRows == /\ pub' \in [Pubs -> Row]
             /\ \A q \in Pubs : /\ pub'[q].status = pub[q].status
                                /\ pub'[q].attempts >= pub[q].attempts

\* Rows in the database keep their parts of the invariant under KeepsRows.
LEMMA RowsKept ==
  ASSUME Inv, KeepsRows, Quiet
  PROVE  AttemptsReserved' /\ HeldInv'
<1>1. \A q \in Pubs : /\ sent[q] \in Nat /\ pub[q].attempts \in Nat
                      /\ pub'[q].attempts \in Nat
  BY AttemptsAssumption DEF Inv, TypeOK, KeepsRows, Row
<1>2. AttemptsReserved' BY <1>1 DEF Inv, SentInv, AttemptsReserved, KeepsRows, Quiet, history
<1>3. HeldInv' BY DEF Inv, HeldInv, KeepsRows, Quiet, upstream, history
<1> QED BY <1>2, <1>3

\* The holder gives the permit back and leaves the publication pending.
LEMMA Waits ==
  ASSUME Inv, permit.step \notin {"idle", "flight"}, StillPending(permit.p),
         mode' = mode, KeepsRows, Quiet
  PROVE  Inv' /\ UNCHANGED O!vars
<1>1. permit.p \in Pubs BY PermitFacts DEF Inv
<1>2. TypeOK'
  BY <1>1, IdlePermit DEF Inv, TypeOK, Quiet, upstream, history, KeepsRows, StillPending
<1>3. PermitInv' /\ SentInv'
  BY RowsKept, IdlePermit DEF PermitInv, SentInv, StillPending
<1>4. HeldInv' /\ FlightInv' BY RowsKept, NothingLive
<1>5. PendingHasOwner' BY <1>1 DEF Inv, PendingHasOwner, StillPending, KeepsRows
<1>6. UNCHANGED O!vars BY Stutters DEF KeepsRows
<1> QED BY <1>2, <1>3, <1>4, <1>5, <1>6 DEF Inv

\* The holder goes on to its next step.
LEMMA GoesOn ==
  ASSUME Inv, permit.step \notin {"idle", "flight"}, permit' \in Permit,
         permit'.step \in Steps, permit'.p = permit.p,
         permit'.step = "decide" /\ permit'.seen = Result[permit.p] => permit.p \in held,
         permit'.step = "push" => sent[permit.p] < pub'[permit.p].attempts,
         UNCHANGED <<mode, queue>>, KeepsRows, Quiet
  PROVE  Inv' /\ UNCHANGED O!vars
<1>1. permit.p \in Pubs BY PermitFacts DEF Inv
<1>2. TypeOK' BY DEF Inv, TypeOK, Quiet, upstream, history, KeepsRows
<1>3. pub'[permit.p].status = "pending" BY <1>1 DEF Inv, PermitInv, KeepsRows
<1>4. PermitInv' /\ SentInv'
  BY <1>3, RowsKept DEF PermitInv, SentInv, Quiet, history
<1>5. HeldInv' /\ FlightInv' BY RowsKept, NothingLive
<1>6. permit # Idle /\ permit' # Idle
  <2>1. "idle" \notin Steps BY DEF Steps
  <2> QED BY <2>1, IdlePermit
<1>7. PendingHasOwner' BY <1>6 DEF Inv, PendingHasOwner, KeepsRows
<1>8. UNCHANGED O!vars BY Stutters DEF KeepsRows
<1> QED BY <1>2, <1>4, <1>5, <1>7, <1>8 DEF Inv

\* retryPublicationFailure settles the publication or leaves it pending.
LEMMA RetriesOrFails ==
  ASSUME Inv, permit.step \notin {"idle", "flight"}, NEW b \in BOOLEAN,
         RetryOrFail(permit.p, b), Quiet
  PROVE  Inv' /\ (O!Settle(permit.p) \/ UNCHANGED O!vars)
<1>1. permit.p \in Pubs /\ pub[permit.p].attempts \in 0 .. MaxAttempts
  BY PermitFacts DEF Inv, TypeOK, Row
<1>2. CASE b /\ pub[permit.p].attempts < MaxAttempts
  <2>1. /\ Attempt(permit.p, pub[permit.p].attempts, "retry")
        /\ StillPending(permit.p) /\ mode' = mode
    BY <1>2 DEF RetryOrFail
  <2>2. KeepsRows
    BY <1>1, <2>1, AttemptsAssumption, AttemptFacts DEF KeepsRows, Inv, TypeOK, Row
  <2> QED BY <2>1, <2>2, Waits
<1>3. CASE ~(b /\ pub[permit.p].attempts < MaxAttempts)
  <2>1. Finalize(permit.p, "failed") BY <1>3 DEF RetryOrFail
  <2> QED BY <2>1, Settles
<1> QED BY <1>2, <1>3

-----------------------------------------------------------------------------
(* One lemma for each group of actions *)

\* What every step has to show.
Kept == Inv' /\ [O!Next]_(O!vars)

\* Settling and waiting are steps and stutters of the outbox.
LEMMA Outcomes ==
  ASSUME Inv', NEW p \in Pubs, O!Settle(p) \/ UNCHANGED O!vars
  PROVE  Kept
BY DEF Kept, O!Next

\* Rows that nobody touches.
LEMMA SameRows == Inv /\ pub' = pub => KeepsRows
<1> SUFFICES ASSUME Inv, pub' = pub PROVE KeepsRows OBVIOUS
<1>1. \A q \in Pubs : pub[q].attempts \in Nat
  BY AttemptsAssumption DEF Inv, TypeOK, Row
<1> QED BY <1>1 DEF KeepsRows, Inv, TypeOK

\* Steps of the holder up to the push: policy, read, decision, reservation.
LEMMA DecisionKeeps ==
  ASSUME Inv, \/ PolicyHolds \/ ReadRemote \/ RetryUnread \/ ConfirmResult \/ KeepBackoff
              \/ MirrorChecked \/ BranchDeleted \/ SetPublicationPredecessor \/ TargetMoved
              \/ Refused \/ ReserveAttempt
  PROVE  Kept
<1> DEFINE p == permit.p
<1>0. permit.step \in {"policy", "read", "unread", "decide", "checked"}
  BY DEF PolicyHolds, ReadRemote, RetryUnread, ConfirmResult, KeepBackoff, MirrorChecked,
     BranchDeleted, SetPublicationPredecessor, TargetMoved, Refused, ReserveAttempt,
     MayAttempt, Is
<1>a. permit.step \notin {"idle", "flight"} BY <1>0
<1>b. /\ p \in Pubs /\ permit.seen \in Refs /\ permit \in HeldPermit
      /\ pub[p].status = "pending" /\ pub[p] \in Row /\ pub[p].attempts \in 0 .. MaxAttempts
      /\ sent[p] \in Nat /\ sent[p] <= pub[p].attempts
  <2>1. p \in Pubs /\ permit.seen \in Refs /\ permit \in HeldPermit
    BY <1>a, PermitFacts DEF Inv
  <2> QED BY <2>1, <1>a DEF Inv, TypeOK, PermitInv, SentInv, AttemptsReserved, Row
<1>c. Quiet
  BY DEF PolicyHolds, ReadRemote, RetryUnread, ConfirmResult, KeepBackoff, MirrorChecked,
     BranchDeleted, SetPublicationPredecessor, TargetMoved, Refused, ReserveAttempt,
     Quiet, bounds, durable, process, Inv, TypeOK
<1> HIDE DEF p
<1>1. ASSUME PolicyHolds PROVE Kept
  <2>1. permit' \in Permit /\ permit'.p = permit.p /\ permit'.step = "read" /\ "read" \in Steps
    BY <1>1, <1>a, PermitFacts DEF PolicyHolds, Inv, Steps
  <2>2. KeepsRows BY <1>1, SameRows DEF PolicyHolds, durable
  <2> QED BY <1>1, <1>a, <1>c, <2>1, <2>2, GoesOn DEF PolicyHolds, Kept
<1>2. ASSUME ReadRemote PROVE Kept
  <2>1. /\ permit' \in Permit /\ permit'.p = permit.p /\ permit'.step = "decide"
        /\ permit'.seen = remote /\ "decide" \in Steps
    BY <1>2, <1>b DEF ReadRemote, Inv, TypeOK, HeldPermit, Permit, Steps
  <2>2. KeepsRows BY <1>2, SameRows DEF ReadRemote, durable
  <2>3. remote = Result[permit.p] => permit.p \in held
    BY <1>b DEF Inv, HeldInv, p
  <2> QED BY <1>2, <1>a, <1>c, <2>1, <2>2, <2>3, GoesOn DEF ReadRemote, Kept
<1>3. ASSUME RetryUnread PROVE Kept
  BY <1>3, <1>a, <1>b, <1>c, RetriesOrFails, Outcomes DEF RetryUnread, p
<1>4. ASSUME ConfirmResult PROVE Kept
  <2>1. permit.p \in held BY <1>4, <1>a DEF ConfirmResult, Unconfirmed, Inv, PermitInv, Is
  <2> QED BY <1>4, <1>a, <1>b, <1>c, <2>1, Settles, Outcomes DEF ConfirmResult, p
<1>5. ASSUME KeepBackoff PROVE Kept
  <2>1. KeepsRows BY <1>5, SameRows DEF KeepBackoff, durable
  <2> QED BY <1>5, <1>a, <1>c, <2>1, Waits DEF KeepBackoff, Kept
<1>6. ASSUME MirrorChecked PROVE Kept
  <2>1. permit' \in Permit /\ permit'.p = permit.p /\ permit'.step = "checked" /\ "checked" \in Steps
    BY <1>6, <1>a, PermitFacts DEF MirrorChecked, Inv, Steps
  <2>2. KeepsRows BY <1>6, SameRows DEF MirrorChecked, durable
  <2> QED BY <1>6, <1>a, <1>c, <2>1, <2>2, GoesOn DEF MirrorChecked, Kept
<1>7. ASSUME BranchDeleted \/ TargetMoved \/ Refused PROVE Kept
  <2>1. \E s \in {"failed", "abandoned"} : Finalize(permit.p, s)
    BY <1>7 DEF BranchDeleted, TargetMoved, Refused
  <2> QED BY <1>a, <1>b, <1>c, <2>1, Settles, Outcomes DEF p
<1>8. ASSUME SetPublicationPredecessor PROVE Kept
  <2>1. [pub[p] EXCEPT !.known = TRUE, !.prev = permit.seen] \in Row BY <1>b DEF Row
  <2>2. pub' = [pub EXCEPT ![p] = [pub[p] EXCEPT !.known = TRUE, !.prev = permit.seen]]
    BY <1>8 DEF SetPublicationPredecessor, p
  <2>3. \A q \in Pubs : pub[q].attempts \in Nat
    BY AttemptsAssumption DEF Inv, TypeOK, Row
  <2>4. KeepsRows BY <1>b, <2>1, <2>2, <2>3 DEF KeepsRows, Inv, TypeOK, Row
  <2>5. permit' = permit /\ permit \in Permit /\ permit.step \in Steps /\ permit.step = "decide"
    BY <1>8, <1>b DEF SetPublicationPredecessor, process, Inv, TypeOK, HeldPermit, Is
  <2>6. permit.seen # Result[permit.p]
    BY <1>8 DEF SetPublicationPredecessor, Due, Unconfirmed
  <2> QED BY <1>8, <1>a, <1>c, <2>4, <2>5, <2>6, GoesOn
      DEF SetPublicationPredecessor, process, Kept
<1>9. ASSUME ReserveAttempt PROVE Kept
  <2>1. permit' \in Permit /\ permit'.p = permit.p /\ permit'.step = "push" /\ "push" \in Steps
    BY <1>9, <1>a, PermitFacts DEF ReserveAttempt, Inv, Steps
  <2>2. /\ pub[p].attempts + 1 \in 0 .. MaxAttempts
        /\ Attempt(p, pub[p].attempts + 1, "attempt")
    BY <1>9, <1>b, AttemptsAssumption DEF ReserveAttempt, p
  <2>3. \A q \in Pubs : pub[q].attempts \in Nat
    BY AttemptsAssumption DEF Inv, TypeOK, Row
  <2>4. KeepsRows /\ pub'[p].attempts = pub[p].attempts + 1
    BY <1>b, <2>2, <2>3, AttemptFacts DEF KeepsRows, Inv
  <2>5. sent[permit.p] < pub'[permit.p].attempts
    BY <1>b, <2>3, <2>4 DEF p
  <2> QED BY <1>9, <1>a, <1>c, <2>1, <2>4, <2>5, GoesOn DEF ReserveAttempt, Kept
<1> QED BY <1>1, <1>2, <1>3, <1>4, <1>5, <1>6, <1>7, <1>8, <1>9

\* Clients that no longer wait leave the same pushes out, none of them live.
LEMMA Unanswered ==
  ASSUME Inv, flights' = {[f EXCEPT !.live = FALSE] : f \in flights}, kind' = kind
  PROVE  flights' \subseteq Flight /\ Out' = Out /\ FlightInv'
<1>1. \A g \in flights : /\ g \in Flight
                         /\ [g EXCEPT !.live = FALSE] \in Flight
                         /\ [g EXCEPT !.live = FALSE].p = g.p
                         /\ [g EXCEPT !.live = FALSE].old = g.old
                         /\ ~[g EXCEPT !.live = FALSE].live
  BY DEF Inv, TypeOK, Flight
<1>2. flights' \subseteq Flight BY <1>1
<1>3. Out' \subseteq Out
  <2> SUFFICES ASSUME NEW f \in flights' PROVE f.p \in Out BY DEF Out
  <2>1. PICK g \in flights : f = [g EXCEPT !.live = FALSE] OBVIOUS
  <2> QED BY <1>1, <2>1 DEF Out
<1>4. Out \subseteq Out'
  <2> SUFFICES ASSUME NEW g \in flights PROVE \E f \in flights' : f.p = g.p BY DEF Out
  <2>1. [g EXCEPT !.live = FALSE] \in flights' OBVIOUS
  <2> QED BY <1>1, <2>1
<1>5. FlightInv'
  <2> SUFFICES ASSUME NEW f \in flights' PROVE Accepts(f.p, f.old)' /\ ~f.live
    BY DEF FlightInv
  <2>1. PICK g \in flights : f = [g EXCEPT !.live = FALSE] OBVIOUS
  <2>2. f.p = g.p /\ f.old = g.old /\ ~f.live BY <1>1, <2>1
  <2>3. Accepts(f.p, f.old) BY <2>2 DEF Inv, FlightInv
  <2> QED BY <2>2, <2>3 DEF Accepts, forceBranch
<1> QED BY <1>2, <1>3, <1>4, <1>5

\* The server stops, wherever it is.
LEMMA StopKeeps ==
  ASSUME Inv, Stop, UNCHANGED <<durable, mirror, remote, history, moves>>,
         faults' \in 0 .. MaxFaults
  PROVE  Kept
<1>1. flights' \subseteq Flight /\ Out' = Out /\ FlightInv'
  BY Unanswered DEF Stop, durable
<1>2. TypeOK' BY <1>1, IdlePermit DEF Stop, Inv, TypeOK, durable, history
<1>3. PermitInv' /\ SentInv' /\ HeldInv' /\ PendingHasOwner'
  BY IdlePermit DEF Stop, Inv, PermitInv, SentInv, AttemptsReserved, HeldInv,
     PendingHasOwner, durable, history
<1>4. UNCHANGED O!vars BY <1>1 DEF O!vars, Status, durable, history
<1> QED BY <1>1, <1>2, <1>3, <1>4 DEF Inv, Kept

\* An error of a delivery that does not wait for a push.
LEMMA ErrorKeeps ==
  ASSUME Inv, permit.step \notin {"idle", "flight"}, DeliveryErrors,
         UNCHANGED <<durable, mirror, remote, history, moves>>, faults' \in 0 .. MaxFaults
  PROVE  Kept
<1>1. CASE Stop BY <1>1, StopKeeps
<1>2. CASE StillPending(permit.p) /\ UNCHANGED <<mode, flights>>
  <2>1. Quiet BY <1>2 DEF Quiet, durable, upstream
  <2>2. KeepsRows BY SameRows DEF durable
  <2> QED BY <1>2, <2>1, <2>2, Waits DEF Kept
<1> QED BY <1>1, <1>2 DEF DeliveryErrors

\* Failures before the push, failures of the read-back, and stops.
LEMMA FailureKeeps ==
  ASSUME Inv, Failure, ~ReplyLost
  PROVE  Kept
<1>1. ASSUME PolicyUnavailable PROVE Kept
  <2>1. permit.step \notin {"idle", "flight"} BY <1>1 DEF PolicyUnavailable, Is
  <2>2. Quiet BY <1>1, FaultFacts DEF PolicyUnavailable, Quiet, durable, Inv
  <2>3. KeepsRows BY <1>1, SameRows DEF PolicyUnavailable, durable
  <2> QED BY <1>1, <2>1, <2>2, <2>3, Waits DEF PolicyUnavailable, Kept
<1>2. ASSUME PolicyRefuses PROVE Kept
  <2>1. permit.step \notin {"idle", "flight"} BY <1>2 DEF PolicyRefuses, Is
  <2>2. Quiet BY <1>2, FaultFacts DEF PolicyRefuses, Quiet, Inv
  <2>3. permit.p \in Pubs BY <2>1, PermitFacts DEF Inv
  <2> QED BY <1>2, <2>1, <2>2, <2>3, Settles, Outcomes DEF PolicyRefuses
<1>3. ASSUME ReadFails PROVE Kept
  <2>1. permit.step \notin {"idle", "flight"} BY <1>3 DEF ReadFails, Is
  <2>2. Quiet BY <1>3, FaultFacts DEF ReadFails, Quiet, Inv
  <2>3. permit.p \in Pubs BY <2>1, PermitFacts DEF Inv
  <2>4. CASE StillPending(permit.p) /\ UNCHANGED <<pub, mode>>
    BY <2>1, <2>2, <2>4, SameRows, Waits DEF Kept
  <2>5. CASE Finalize(permit.p, "failed")
    BY <2>1, <2>2, <2>3, <2>5, Settles, Outcomes
  <2> QED BY <1>3, <2>4, <2>5 DEF ReadFails
<1>4. ASSUME ReadUsesAttempt PROVE Kept
  <2>1. permit.step \notin {"idle", "flight"} BY <1>4 DEF ReadUsesAttempt, Is
  <2>2. Quiet BY <1>4, FaultFacts DEF ReadUsesAttempt, Quiet, Inv
  <2>3. permit.p \in Pubs BY <2>1, PermitFacts DEF Inv
  <2>4. \A q \in Pubs : pub[q].attempts \in Nat
    BY AttemptsAssumption DEF Inv, TypeOK, Row
  <2>5. /\ pub[permit.p].attempts + 1 \in 0 .. MaxAttempts
        /\ Attempt(permit.p, pub[permit.p].attempts + 1, "attempt")
    BY <1>4, <2>3, <2>4, AttemptsAssumption DEF ReadUsesAttempt
  <2>6. KeepsRows BY <2>3, <2>4, <2>5, AttemptFacts DEF KeepsRows, Inv
  <2>7. permit' \in Permit /\ permit'.p = permit.p /\ permit'.step = "unread" /\ "unread" \in Steps
    BY <1>4, <2>1, PermitFacts DEF ReadUsesAttempt, Inv, Steps
  <2> QED BY <1>4, <2>1, <2>2, <2>6, <2>7, GoesOn DEF ReadUsesAttempt, Kept
<1>5. ASSUME ReadFailsUngranted \/ MirrorFails PROVE Kept
  <2>1. permit.step \notin {"idle", "flight"} BY <1>5 DEF ReadFailsUngranted, MirrorFails, Is
  <2>2. moves' = moves /\ faults' \in 0 .. MaxFaults
    BY <1>5, FaultFacts DEF ReadFailsUngranted, MirrorFails, Inv
  <2> QED BY <1>5, <2>1, <2>2, ErrorKeeps DEF ReadFailsUngranted, MirrorFails
<1>6. ASSUME ReadBackFails PROVE Kept
  <2>1. permit.step \notin {"idle", "flight"} BY <1>6 DEF ReadBackFails, Is
  <2>2. Quiet BY <1>6, FaultFacts DEF ReadBackFails, Quiet, Inv
  <2>3. permit.p \in Pubs /\ permit.soft \in BOOLEAN BY <2>1, PermitFacts DEF Inv
  <2>4. \E b \in BOOLEAN : RetryOrFail(permit.p, b) BY <1>6, <2>3 DEF ReadBackFails
  <2> QED BY <2>1, <2>2, <2>3, <2>4, RetriesOrFails, Outcomes
<1>7. ASSUME Crash PROVE Kept
  BY <1>7, FaultFacts, StopKeeps DEF Crash, Inv
<1> QED BY <1>1, <1>2, <1>3, <1>4, <1>5, <1>6, <1>7 DEF Failure

\* The push itself, and what the holder does with its outcome.
LEMMA PushKeeps ==
  ASSUME Inv, PushRejected \/ VerifyPushed \/ ReadBack
  PROVE  Kept
<1>0. permit.step \in {"push", "reply", "verify"}
  BY DEF PushRejected, VerifyPushed, ReadBack, Is
<1>a. permit.step \notin {"idle", "flight"} BY <1>0
<1>b. permit.p \in Pubs /\ permit.soft \in BOOLEAN BY <1>a, PermitFacts DEF Inv
<1>c. Quiet BY DEF PushRejected, VerifyPushed, ReadBack, Quiet, bounds, durable, Inv, TypeOK
<1>d. remote = Result[permit.p] => permit.p \in held
  BY <1>a, <1>b DEF Inv, HeldInv, PermitInv
<1>1. ASSUME Ambiguous(FALSE), UNCHANGED <<pub, queue, mode>> PROVE Kept
  <2>1. permit' \in Permit /\ permit'.p = permit.p /\ permit'.step = "verify" /\ "verify" \in Steps
    BY <1>1, <1>a, PermitFacts DEF Inv, Steps
  <2> QED BY <1>1, <1>a, <1>c, <2>1, SameRows, GoesOn DEF Kept
<1>2. ASSUME PushRejected PROVE Kept BY <1>1, <1>2 DEF PushRejected, durable
<1>3. ASSUME VerifyPushed PROVE Kept
  <2>1. CASE remote = Result[permit.p]
    BY <1>3, <2>1, <1>a, <1>b, <1>c, <1>d, Settles, Outcomes DEF VerifyPushed
  <2>2. CASE remote # Result[permit.p] BY <1>1, <1>3, <2>2 DEF VerifyPushed
  <2> QED BY <2>1, <2>2
<1>4. ASSUME ReadBack PROVE Kept
  <2>1. \/ remote = Result[permit.p] /\ Finalize(permit.p, "delivered")
        \/ Finalize(permit.p, "failed")
        \/ RetryOrFail(permit.p, permit.soft)
    BY <1>4 DEF ReadBack, classify
  <2> QED BY <2>1, <1>a, <1>b, <1>c, <1>d, Settles, RetriesOrFails, Outcomes
<1> QED BY <1>2, <1>3, <1>4

\* The holder sends its push.
LEMMA SendKeeps ==
  ASSUME Inv, SendPush
  PROVE  Kept
<1> DEFINE p == permit.p
<1> DEFINE f == [p |-> p, n |-> sent[p] + 1, old |-> remote, live |-> TRUE]
<1>a. permit.step = "push" BY DEF SendPush, Is
<1>b. /\ p \in Pubs /\ pub[p].status = "pending" /\ sent[p] < pub[p].attempts
      /\ sent[p] \in Nat /\ sent[p] + 1 \in 1 .. MaxAttempts /\ sent[p] < MaxAttempts
  <2>1. p \in Pubs BY <1>a, PermitFacts DEF Inv
  <2>2. sent[p] \in 0 .. MaxAttempts /\ pub[p].attempts \in 0 .. MaxAttempts
    BY <2>1 DEF Inv, TypeOK, Row
  <2> QED BY <1>a, <2>1, <2>2, AttemptsAssumption DEF Inv, PermitInv, SentInv
<1>c. \A q \in Pubs : sent'[q] = IF q = p THEN sent[p] + 1 ELSE sent[q]
  BY <1>b DEF SendPush, Inv, TypeOK
<1>d. /\ permit' \in Permit /\ permit'.p = p /\ permit'.step = "flight"
  BY <1>a, PermitFacts DEF SendPush, Inv, Steps
<1>e. flights' = flights \cup {f} BY DEF SendPush
<1>f. f \in Flight /\ f.p = p /\ f.old = remote /\ f.live
  BY <1>b DEF Flight, Inv, TypeOK
<1>1. TypeOK'
  <2>1. sent' \in [Pubs -> 0 .. MaxAttempts]
    BY <1>b, <1>c DEF SendPush, Inv, TypeOK
  <2> QED BY <2>1, <1>d, <1>e, <1>f DEF Inv, TypeOK, SendPush, durable, bounds
<1>2. PermitInv' BY <1>b, <1>d DEF PermitInv, SendPush, durable
<1>3. SentInv'
  <2>1. \A q \in Pubs : sent'[q] <= pub[q].attempts
    BY <1>b, <1>c DEF Inv, SentInv, AttemptsReserved, TypeOK, Row
  <2> QED BY <2>1, <1>d DEF SentInv, AttemptsReserved, SendPush, durable
<1>4. HeldInv' BY DEF HeldInv, Inv, SendPush, durable
<1>5. FlightInv'
  <2> SUFFICES ASSUME NEW g \in flights'
               PROVE  /\ Accepts(g.p, g.old)'
                      /\ g.live => g = f /\ permit'.step = "flight" /\ permit'.p = g.p
    BY DEF FlightInv
  <2>1. CASE g = f
    BY <2>1, <1>d, <1>f DEF SendPush, Accepts, forceBranch, durable
  <2>2. CASE g \in flights
    <3>1. Accepts(g.p, g.old) /\ ~g.live BY <2>2, <1>a DEF Inv, FlightInv
    <3> QED BY <3>1 DEF Accepts, forceBranch, SendPush, durable
  <2> QED BY <2>1, <2>2, <1>e
<1>6. PendingHasOwner'
  <2>1. permit # Idle /\ permit' # Idle BY <1>a, <1>d, IdlePermit
  <2> QED BY <2>1, <1>d DEF PendingHasOwner, Inv, SendPush, durable
<1>7. O!Push(p)
  <2>1. Status[p] = "pending" /\ Status' = Status BY <1>b DEF Status, SendPush, durable
  <2>2. Out' = Out \cup {p} BY <1>e, <1>f DEF Out
  <2>3. sent' = [sent EXCEPT ![p] = @ + 1] BY DEF SendPush
  <2> QED BY <1>b, <2>1, <2>2, <2>3 DEF O!Push, SendPush, durable, bounds
<1> QED BY <1>1, <1>2, <1>3, <1>4, <1>5, <1>6, <1>7, <1>b DEF Inv, Kept, O!Next

\* The reply is lost.
LEMMA LostKeeps ==
  ASSUME Inv, ReplyLost
  PROVE  Kept
<1>a. permit.step \in {"push", "flight", "reply"} BY DEF ReplyLost, Is
<1>b. /\ permit.p \in Pubs /\ permit' \in Permit /\ permit'.p = permit.p
      /\ permit'.step = "verify"
  BY <1>a, PermitFacts DEF ReplyLost, Inv
<1>c. faults' \in 0 .. MaxFaults /\ moves' = moves BY FaultFacts DEF ReplyLost, Inv
<1>1. flights' \subseteq Flight /\ Out' = Out /\ FlightInv'
  BY Unanswered DEF ReplyLost, durable
<1>2. TypeOK' BY <1>1, <1>b, <1>c DEF ReplyLost, Inv, TypeOK, durable, history
<1>3. PermitInv' /\ SentInv'
  BY <1>a, <1>b DEF ReplyLost, Inv, PermitInv, SentInv, AttemptsReserved, durable, history
<1>4. HeldInv' BY DEF ReplyLost, Inv, HeldInv, durable, history
<1>5. PendingHasOwner'
  <2>1. permit # Idle /\ permit' # Idle BY <1>a, <1>b, IdlePermit
  <2> QED BY <2>1, <1>b DEF ReplyLost, Inv, PendingHasOwner, durable
<1>6. UNCHANGED O!vars BY <1>1, <1>c DEF ReplyLost, O!vars, Status, durable, history
<1> QED BY <1>1, <1>2, <1>3, <1>4, <1>5, <1>6 DEF Inv, Kept

\* A push leaves the upstream: it landed, was refused or dropped.
LEMMA FlightGone ==
  ASSUME Inv, NEW f \in flights, flights' = flights \ {f}, kind' = kind,
         f.live \/ permit' = permit
  PROVE  /\ f.p \in Pubs /\ f.p \in Out /\ Out' \in {Out, Out \ {f.p}}
         /\ flights' \subseteq Flight /\ FlightInv'
<1>1. f \in Flight /\ flights' \subseteq Flight BY DEF Inv, TypeOK
<1>2. f.p \in Pubs /\ f.p \in Out BY <1>1 DEF Flight, Out
<1>3. Out' \in {Out, Out \ {f.p}}
  <2>1. Out' \subseteq Out /\ Out \ {f.p} \subseteq Out' BY DEF Out
  <2>2. CASE f.p \in Out'
    <3>1. Out' = Out BY <2>1, <2>2
    <3> QED BY <3>1
  <2>3. CASE f.p \notin Out'
    <3>1. Out' = Out \ {f.p} BY <2>1, <2>3
    <3> QED BY <3>1
  <2> QED BY <2>2, <2>3
<1>4. FlightInv'
  <2>1. \A g, h \in flights' : g.live /\ h.live => g = h BY DEF Inv, FlightInv
  <2> SUFFICES ASSUME NEW g \in flights'
               PROVE  /\ Accepts(g.p, g.old)'
                      /\ g.live => permit'.step = "flight" /\ permit'.p = g.p
    BY <2>1 DEF FlightInv
  <2>2. g \in flights /\ g # f OBVIOUS
  <2>3. Accepts(g.p, g.old)' BY <2>2 DEF Inv, FlightInv, Accepts, forceBranch
  <2>4. g.live => permit' = permit BY <2>2 DEF Inv, FlightInv
  <2>5. g.live => permit.step = "flight" /\ permit.p = g.p BY <2>2 DEF Inv, FlightInv
  <2> QED BY <2>3, <2>4, <2>5
<1> QED BY <1>1, <1>2, <1>3, <1>4

\* Results on the ref are remembered.
LEMMA RemoteKeeps ==
  ASSUME Inv, NEW c \in Refs, SetRemote(c), UNCHANGED pub
  PROVE  held \subseteq held' /\ held' \subseteq Pubs /\ HeldInv'
BY DEF Inv, TypeOK, SetRemote, HeldAt, HeldInv

\* The client learns the outcome of its push, or is no longer there to learn it.
LEMMA PermitAnswered ==
  ASSUME Inv, NEW f \in flights,
         IF f.live THEN To("reply") \/ Ambiguous(FALSE) ELSE UNCHANGED permit,
         UNCHANGED <<durable, mode, queue, sent>>, held \subseteq held'
  PROVE  /\ permit' \in Permit /\ PermitInv' /\ SentInv' /\ PendingHasOwner'
         /\ f.live \/ permit' = permit
<1>1. CASE f.live
  <2>1. permit.step = "flight" BY <1>1 DEF Inv, FlightInv
  <2>2. /\ permit' \in Permit /\ permit'.p = permit.p /\ permit.p \in Pubs
        /\ permit'.step \in {"reply", "verify"}
    BY <1>1, <2>1, PermitFacts DEF Inv, Steps
  <2>3. PermitInv' /\ SentInv'
    BY <2>1, <2>2 DEF Inv, PermitInv, SentInv, AttemptsReserved, durable
  <2>4. permit # Idle /\ permit' # Idle BY <2>1, <2>2, IdlePermit
  <2>5. PendingHasOwner' BY <2>2, <2>4 DEF Inv, PendingHasOwner, durable
  <2> QED BY <1>1, <2>2, <2>3, <2>5
<1>2. CASE ~f.live
  BY <1>2 DEF Inv, TypeOK, PermitInv, SentInv, AttemptsReserved, PendingHasOwner, durable
<1> QED BY <1>1, <1>2

\* The upstream applies a push.
LEMMA LandKeeps ==
  ASSUME Inv, NEW f \in flights, PushLands(f)
  PROVE  Kept
<1>0. kind' = kind /\ pub' = pub /\ flights' = flights \ {f} BY DEF PushLands, durable
<1>1. f.p \in Pubs BY DEF Inv, TypeOK, Flight
<1>2. Result[f.p] \in Refs BY <1>1, CommitsAssumption DEF Refs
<1>3. held \subseteq held' /\ held' \subseteq Pubs /\ HeldInv'
  BY <1>0, <1>2, RemoteKeeps DEF PushLands
<1>4. /\ permit' \in Permit /\ PermitInv' /\ SentInv' /\ PendingHasOwner'
      /\ f.live \/ permit' = permit
  BY <1>3, PermitAnswered DEF PushLands
<1>5. /\ f.p \in Out /\ Out' \in {Out, Out \ {f.p}}
      /\ flights' \subseteq Flight /\ FlightInv'
  BY <1>0, <1>4, FlightGone
<1>6. TypeOK' BY <1>2, <1>3, <1>4, <1>5 DEF Inv, TypeOK, PushLands, SetRemote, durable, bounds
<1>7. O!Land(f.p)
  <2>1. Accepts(f.p, remote) BY DEF PushLands, Inv, FlightInv
  <2>2. O!Allowed(f.p, remote) BY <2>1 DEF O!Allowed, Accepts, forceBranch
  <2>3. O!HeldAt(Result[f.p]) = HeldAt(Result[f.p]) BY DEF O!HeldAt, HeldAt
  <2>4. Status' = Status BY <1>0 DEF Status
  <2> QED BY <1>5, <2>2, <2>3, <2>4 DEF O!Land, PushLands, SetRemote, durable, bounds
<1> QED BY <1>1, <1>3, <1>4, <1>5, <1>6, <1>7 DEF Inv, Kept, O!Next

\* The upstream refuses a push or drops it.
LEMMA EndKeeps ==
  ASSUME Inv, NEW f \in flights, PushEnds(f)
  PROVE  Kept
<1>0. /\ kind' = kind /\ pub' = pub /\ flights' = flights \ {f}
      /\ UNCHANGED <<remote, held, sent, moves, faults, grant, mode, queue, mirror>>
  BY DEF PushEnds, durable, history, bounds
<1>1. /\ permit' \in Permit /\ PermitInv' /\ SentInv' /\ PendingHasOwner'
      /\ f.live \/ permit' = permit
  BY <1>0, PermitAnswered DEF PushEnds
<1>2. /\ f.p \in Pubs /\ f.p \in Out /\ Out' \in {Out, Out \ {f.p}}
      /\ flights' \subseteq Flight /\ FlightInv'
  BY <1>0, <1>1, FlightGone
<1>3. TypeOK' BY <1>0, <1>1, <1>2 DEF Inv, TypeOK
<1>4. HeldInv' BY <1>0 DEF Inv, HeldInv
<1>5. Status' = Status BY <1>0 DEF Status
<1>6. O!Vanish(f.p) \/ UNCHANGED O!vars
  <2>1. CASE Out' = Out BY <1>0, <1>5, <2>1 DEF O!vars
  <2>2. CASE Out' = Out \ {f.p} BY <1>0, <1>2, <1>5, <2>2 DEF O!Vanish
  <2> QED BY <1>2, <2>1, <2>2
<1> QED BY <1>1, <1>2, <1>3, <1>4, <1>6 DEF Inv, Kept, O!Next

\* A publication becomes pending.
LEMMA ActivateKeeps ==
  ASSUME Inv, NEW p \in Pubs, NEW row \in Row, row.status = "pending", mode = "up",
         pub[p].status = "none" \/ (pub[p].status = "failed" /\ kind[p] # "promotion"),
         Activate(p, row)
  PROVE  Kept
<1>1. \A q \in Pubs : /\ pub'[q] = IF q = p THEN row ELSE pub[q]
                      /\ sent'[q] = IF q = p THEN 0 ELSE sent[q]
                      /\ q \in held' <=> IF q = p THEN Result[p] = remote ELSE q \in held
  BY DEF Activate, HeldAt, Inv, TypeOK
<1>2. row.attempts \in 0 .. MaxAttempts BY DEF Row
<1>3. TypeOK'
  <2>1. pub' \in [Pubs -> Row] BY DEF Activate, Inv, TypeOK
  <2>2. sent' \in [Pubs -> 0 .. MaxAttempts] /\ held' \subseteq Pubs
    BY AttemptsAssumption DEF Activate, HeldAt, Inv, TypeOK
  <2> QED BY <2>1, <2>2 DEF Activate, Inv, TypeOK, upstream, bounds
<1>4. permit.step # "idle" => permit.p \in Pubs /\ permit.p # p
  BY PermitFacts DEF Inv, PermitInv
<1>5. PermitInv' BY <1>1, <1>4 DEF Activate, Inv, PermitInv
<1>6. SentInv'
  <2>1. \A q \in Pubs : sent'[q] <= pub'[q].attempts
    BY <1>1, <1>2, AttemptsAssumption DEF Inv, SentInv, AttemptsReserved
  <2>2. permit.step = "push" => sent'[permit.p] < pub'[permit.p].attempts
    BY <1>1, <1>4 DEF Inv, SentInv
  <2> QED BY <2>1, <2>2 DEF SentInv, AttemptsReserved, Activate
<1>7. HeldInv' BY <1>1 DEF HeldInv, Inv, Activate, upstream
<1>8. FlightInv' BY DEF FlightInv, Inv, Activate, upstream, Accepts, forceBranch
<1>9. PendingHasOwner' BY <1>1 DEF PendingHasOwner, Inv, Activate
<1>10. O!Activate(p)
  <2>1. Status[p] = "none" \/ (Status[p] = "failed" /\ kind[p] # "promotion") BY DEF Status
  <2>2. Status' = [Status EXCEPT ![p] = "pending"] BY <1>1 DEF Status
  <2>3. Out' = Out BY DEF Out, Activate, upstream
  <2>4. O!HeldAt(remote) = HeldAt(remote) BY DEF O!HeldAt, HeldAt
  <2> QED BY <2>1, <2>2, <2>3, <2>4 DEF O!Activate, O!Become, Activate, upstream, bounds
<1> QED BY <1>3, <1>5, <1>6, <1>7, <1>8, <1>9, <1>10 DEF Inv, Kept, O!Next

\* Requests: begin, retry, abandon.
LEMMA RequestKeeps ==
  ASSUME Inv, NEW p \in Pubs, Request(p)
  PROVE  Kept
<1>0. NoRow \in Row BY AttemptsAssumption DEF NoRow, Row, Refs
<1>1. ASSUME BeginPublication(p) PROVE Kept
  <2>1. [NoRow EXCEPT !.status = "pending", !.known = TRUE, !.prev = Base] \in Row
    BY <1>0, CommitsAssumption DEF Row, Refs
  <2>2. Reactivated(p) \in Row BY <1>0 DEF Row, Reactivated
  <2>3. Reactivated(p).status = "pending" BY <1>0 DEF Row, Reactivated
  <2>4. [NoRow EXCEPT !.status = "pending", !.known = TRUE, !.prev = Base].status = "pending"
    BY <1>0 DEF Row
  <2>5. CASE kind[p] = "promotion"
    BY <1>1, <2>1, <2>4, <2>5, ActivateKeeps DEF BeginPublication
  <2>6. CASE kind[p] # "promotion"
    BY <1>1, <2>2, <2>3, <2>6, ActivateKeeps DEF BeginPublication
  <2> QED BY <2>5, <2>6
<1>2. ASSUME RetryFailedPublication(p) PROVE Kept
  <2>1. Reactivated(p) \in Row /\ Reactivated(p).status = "pending"
    BY <1>0 DEF Row, Reactivated
  <2> QED BY <1>2, <2>1, ActivateKeeps DEF RetryFailedPublication
<1>3. ASSUME AbandonPublication(p) PROVE Kept
  <2>1. /\ permit.step = "idle" /\ permit' = permit /\ mode' = mode /\ queue' = queue
        /\ pub[p].status = "pending" /\ UNCHANGED <<kind, grant, upstream, history, bounds>>
    BY <1>3 DEF AbandonPublication, Is, process
  <2>2. [pub[p] EXCEPT !.status = "abandoned"] \in Row BY DEF Inv, TypeOK, Row
  <2>3. /\ pub' \in [Pubs -> Row]
        /\ \A q \in Pubs : /\ pub'[q].status = IF q = p THEN "abandoned" ELSE pub[q].status
                           /\ pub'[q].attempts = pub[q].attempts
    BY <1>3, <2>2 DEF AbandonPublication, Inv, TypeOK, Row
  <2>4. TypeOK' BY <2>1, <2>3 DEF Inv, TypeOK, upstream, history, bounds
  <2>5. PermitInv' /\ SentInv' /\ PendingHasOwner'
    BY <2>1, <2>3 DEF Inv, PermitInv, SentInv, AttemptsReserved, PendingHasOwner, history
  <2>6. HeldInv' BY <2>1, <2>3 DEF Inv, HeldInv, upstream, history
  <2>7. FlightInv' BY <2>1 DEF Inv, FlightInv, Accepts, forceBranch, upstream
  <2>8. O!Settle(p)
    <3>1. Status[p] = "pending" BY <2>1 DEF Status
    <3>2. Status' = [Status EXCEPT ![p] = "abandoned"] BY <2>3 DEF Status
    <3>3. Out' = Out BY <2>1 DEF Out, upstream
    <3> QED BY <2>1, <3>1, <3>2, <3>3 DEF O!Settle, O!Become, upstream, history, bounds
  <2> QED BY <2>4, <2>5, <2>6, <2>7, <2>8 DEF Inv, Kept, O!Next
<1> QED BY <1>1, <1>2, <1>3 DEF Request

\* Steps that change no row's status and nothing upstream, outside a delivery.
LEMMA QueueKeeps ==
  ASSUME Inv, NEW p \in Pubs, Queue(p) \/ RetryDue(p) \/ Recover
  PROVE  Kept
<1>0. permit = Idle \/ permit' = permit
  <2>1. Is("idle") => permit = Idle
    <3>1. "idle" \notin Steps BY DEF Steps
    <3> QED BY <3>1 DEF Is, Inv, TypeOK, Permit, Idle
  <2> QED BY <2>1 DEF Queue, Deliver, DeliverTerminal, RetryDue, Recover, process
<1>1. UNCHANGED <<kind, grant, upstream, history, bounds>>
  BY DEF Queue, Deliver, DeliverTerminal, RetryDue, Recover, durable, process
<1>2. /\ pub' \in [Pubs -> Row]
      /\ \A q \in Pubs : pub'[q].status = pub[q].status /\ pub'[q].attempts = pub[q].attempts
  <2>1. CASE RetryDue(p)
    <3>1. [pub[p] EXCEPT !.due = TRUE] \in Row BY DEF Inv, TypeOK, Row
    <3> QED BY <2>1, <3>1 DEF RetryDue, Inv, TypeOK, Row
  <2>2. CASE Queue(p) \/ Recover
    BY <2>2 DEF Queue, Deliver, DeliverTerminal, Recover, durable, Inv, TypeOK
  <2> QED BY <2>1, <2>2
<1>3. UNCHANGED O!vars
  BY <1>1, <1>2, Stutters DEF Quiet, bounds, Inv, TypeOK
<1>4. HeldInv' BY <1>1, <1>2 DEF Inv, HeldInv, upstream, history
<1>5. AttemptsReserved' BY <1>1, <1>2 DEF Inv, SentInv, AttemptsReserved, history
<1>6. ASSUME Deliver(p) PROVE Kept
  <2>0. permit' = [step |-> "policy", p |-> p, seen |-> Absent, soft |-> FALSE]
    BY <1>6 DEF Deliver
  <2>1. permit' \in Permit /\ permit'.step = "policy" /\ permit'.p = p /\ permit.step = "idle"
    BY <1>6, <2>0 DEF Deliver, Is, Permit, Steps, Refs
  <2>2. TypeOK' BY <1>1, <1>2, <1>6, <2>1 DEF Deliver, Inv, TypeOK, upstream, history, bounds
  <2>3. PermitInv' /\ SentInv'
    BY <1>2, <1>5, <1>6, <2>1 DEF Deliver, PermitInv, SentInv
  <2>4. FlightInv' BY <1>1, NothingLive, <2>1 DEF Quiet, Inv, TypeOK, bounds
  <2>5. permit' # Idle /\ permit = Idle
    BY <1>6, <2>1, IdlePermit, <1>0
  <2>6. PendingHasOwner' BY <1>2, <1>6, <2>1, <2>5 DEF Deliver, Inv, PendingHasOwner
  <2> QED BY <1>3, <1>4, <2>2, <2>3, <2>4, <2>6 DEF Inv, Kept
<1>7. ASSUME DeliverTerminal(p) \/ RetryDue(p) \/ Recover PROVE Kept
  <2>1. permit' = permit
    BY <1>7 DEF DeliverTerminal, RetryDue, Recover, process
  <2>2. TypeOK' BY <1>1, <1>2, <1>7, <2>1
    DEF DeliverTerminal, RetryDue, Recover, process, Inv, TypeOK, upstream, history, bounds
  <2>3. permit.step # "idle" => permit.p \in Pubs BY PermitFacts DEF Inv
  <2>4. PermitInv' BY <1>1, <1>2, <2>1, <2>3 DEF Inv, PermitInv, history
  <2>5. SentInv' BY <1>1, <1>2, <1>5, <2>1, <2>3 DEF Inv, SentInv, history
  <2>6. FlightInv' BY <1>1, <2>1 DEF Inv, FlightInv, Accepts, forceBranch, upstream
  <2>7. PendingHasOwner' BY <1>2, <1>7, <2>1
    DEF DeliverTerminal, RetryDue, Recover, process, Inv, PendingHasOwner
  <2> QED BY <1>3, <1>4, <2>2, <2>4, <2>5, <2>6, <2>7 DEF Inv, Kept
<1> QED BY <1>6, <1>7 DEF Queue

\* What everybody else does.
LEMMA OthersKeep ==
  ASSUME Inv, Others
  PROVE  Kept
<1>1. /\ UNCHANGED <<kind, pub, process, flights, sent, faults>>
      /\ grant' \in BOOLEAN /\ mirror' \in {"present", "gone", "kept"} \cup Commits
  BY CommitsAssumption DEF Others, GrantEnds, PushBranch, PropagateDeletion,
     AbandonBranchDeletion, Elsewhere, DeleteBranch, durable, upstream, history, bounds, Inv, TypeOK
<1>2. \/ UNCHANGED <<remote, held, moves>>
      \/ \E c \in Refs : SetRemote(c) /\ moves < MaxMoves /\ moves' = moves + 1
  BY DEF Others, GrantEnds, PushBranch, PropagateDeletion, AbandonBranchDeletion,
     Elsewhere, DeleteBranch, upstream, history, bounds, Refs
<1>3. held \subseteq held' /\ held' \subseteq Pubs /\ HeldInv' /\ remote' \in Refs
      /\ moves' \in 0 .. MaxMoves
  <2>1. CASE UNCHANGED <<remote, held, moves>>
    BY <1>1, <2>1 DEF Inv, TypeOK, HeldInv
  <2>2. CASE \E c \in Refs : SetRemote(c) /\ moves < MaxMoves /\ moves' = moves + 1
    BY <1>1, <2>2, RemoteKeeps, LimitsAssumption DEF Inv, TypeOK, SetRemote
  <2> QED BY <1>2, <2>1, <2>2
<1>4. TypeOK' BY <1>1, <1>3 DEF Inv, TypeOK, process
<1>5. PermitInv' /\ SentInv' /\ PendingHasOwner'
  BY <1>1, <1>3 DEF Inv, PermitInv, SentInv, AttemptsReserved, PendingHasOwner, process
<1>6. FlightInv' BY <1>1 DEF Inv, FlightInv, Accepts, forceBranch, process
<1>7. Status' = Status /\ Out' = Out BY <1>1 DEF Status, Out
<1>8. [O!Next]_(O!vars)
  <2>1. CASE UNCHANGED <<remote, held, moves>> BY <1>1, <1>7, <2>1 DEF O!vars
  <2>2. ASSUME NEW c \in Refs, SetRemote(c), moves' = moves + 1 PROVE [O!Next]_(O!vars)
    <3>1. O!HeldAt(c) = HeldAt(c) BY DEF O!HeldAt, HeldAt
    <3>2. O!Elsewhere(c) BY <1>1, <1>7, <2>2, <3>1 DEF O!Elsewhere, SetRemote
    <3> QED BY <3>2 DEF O!Next, Refs
  <2> QED BY <1>2, <2>1, <2>2
<1> QED BY <1>3, <1>4, <1>5, <1>6, <1>8 DEF Inv, Kept

-----------------------------------------------------------------------------
(* The theorems *)

\* The outbox starts as promised.
LEMMA InitKeeps == Init => Inv /\ O!Init
<1> SUFFICES ASSUME Init PROVE Inv /\ O!Init OBVIOUS
<1>1. NoRow \in Row /\ NoRow.status = "none" /\ NoRow.attempts = 0
  BY AttemptsAssumption DEF NoRow, Row, Refs
<1>2. TypeOK
  BY <1>1, CommitsAssumption, AttemptsAssumption, LimitsAssumption, IdlePermit
     DEF Init, TypeOK, Refs
<1>3. PermitInv /\ SentInv /\ HeldInv /\ FlightInv /\ PendingHasOwner
  BY <1>1, IdlePermit DEF Init, PermitInv, SentInv, AttemptsReserved, HeldInv, FlightInv,
     PendingHasOwner
<1>4. O!Init
  <2>1. Status = [p \in Pubs |-> "none"] BY <1>1 DEF Init, Status
  <2>2. Out = {} BY DEF Init, Out
  <2>3. kind \in [Pubs -> {"feature", "direct", "tag", "promotion"}]
    BY KindsAssumption DEF Init
  <2> QED BY <2>1, <2>2, <2>3, CommitsAssumption DEF O!Init, Init
<1> QED BY <1>2, <1>3, <1>4 DEF Inv

\* Every step keeps the invariant and is a step or a stutter of the outbox.
LEMMA NextKeeps == Inv /\ [Next]_vars => Kept
<1> SUFFICES ASSUME Inv, [Next]_vars PROVE Kept OBVIOUS
<1>1. CASE UNCHANGED vars
  <2>1. UNCHANGED <<kind, pub, grant, mode, queue, permit, mirror, remote, flights, held, sent,
                    moves, faults>>
    BY <1>1 DEF vars, durable, process, upstream, history, bounds
  <2>2. Inv' BY <2>1 DEF Inv, TypeOK, PermitInv, SentInv, AttemptsReserved, HeldInv, FlightInv,
       PendingHasOwner, Accepts, forceBranch
  <2>3. UNCHANGED O!vars BY <2>1 DEF O!vars, Status, Out
  <2> QED BY <2>2, <2>3 DEF Kept
<1>2. ASSUME NEW p \in Pubs, Request(p) PROVE Kept BY <1>2, RequestKeeps
<1>3. ASSUME NEW p \in Pubs, Queue(p) \/ RetryDue(p) PROVE Kept BY <1>3, QueueKeeps
<1>4. CASE Holder BY <1>4, DecisionKeeps, SendKeeps, PushKeeps DEF Holder
<1>5. CASE Failure BY <1>5, FailureKeeps, LostKeeps
<1>6. CASE Others BY <1>6, OthersKeep
<1>7. CASE Recover
  <2>1. CASE Pubs = {}
    <3>1. TypeOK' BY <1>7, <2>1 DEF Recover, durable, upstream, history, bounds, Inv, TypeOK
    <3>2. PermitInv' /\ SentInv' /\ HeldInv' /\ FlightInv' /\ PendingHasOwner'
      BY <1>7, <2>1 DEF Recover, durable, upstream, history, Inv, PermitInv, SentInv,
         AttemptsReserved, HeldInv, FlightInv, Accepts, forceBranch, PendingHasOwner
    <3>3. UNCHANGED O!vars
      BY <1>7 DEF Recover, durable, upstream, history, bounds, O!vars, Status, Out
    <3> QED BY <3>1, <3>2, <3>3 DEF Inv, Kept
  <2>2. CASE Pubs # {} BY <1>7, <2>2, QueueKeeps
  <2> QED BY <2>1, <2>2
<1>8. ASSUME NEW f \in flights, PushLands(f) \/ PushEnds(f) PROVE Kept
  BY <1>8, LandKeeps, EndKeeps
<1> QED BY <1>1, <1>2, <1>3, <1>4, <1>5, <1>6, <1>7, <1>8 DEF Next

\* The invariant holds throughout.
LEMMA InvHolds == Spec => []Inv
<1>1. Init => Inv BY InitKeeps
<1>2. Inv /\ [Next]_vars => Inv' BY NextKeeps DEF Kept
<1> QED BY <1>1, <1>2, PTL DEF Spec

\* deliverPublication and its callers keep every row, permit and push in its domain.
THEOREM DeliveryTypeOK == Spec => []TypeOK
<1>1. Inv => TypeOK BY DEF Inv
<1> QED BY <1>1, InvHolds, PTL

\* StillPending, recoverPendingPublications and the requests never lose a pending
\* publication, whatever fails.
THEOREM PendingOwned == Spec => []PendingHasOwner
<1>1. Inv => PendingHasOwner BY DEF Inv
<1> QED BY <1>1, InvHolds, PTL

\* UpdatePublicationAttempt has counted every push before it started.
THEOREM PushesReserved == Spec => []AttemptsReserved
<1>1. Inv => AttemptsReserved BY DEF Inv, SentInv
<1> QED BY <1>1, InvHolds, PTL

\* The delivery of publications implements the outbox.
THEOREM DeliveryImplementsOutbox == Spec => KeepsPromises
<1>1. Init => O!Init BY InitKeeps
<1>2. Inv /\ [Next]_vars => [O!Next]_(O!vars) BY NextKeeps DEF Kept
<1> QED BY <1>1, <1>2, InvHolds, PTL DEF Spec, KeepsPromises, O!Spec
=============================================================================
