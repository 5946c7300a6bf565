------------------------------ MODULE CIIssues ------------------------------
(***************************************************************************)
(* The CI issue of one branch. Runs of the branch register issue work in   *)
(* the order they were admitted and finish in any order; each verdict is   *)
(* projected, in the transaction that records it, onto one watermark per   *)
(* origin, and the open issue follows the watermarks. A reconciler reads   *)
(* the issue, looks at the forge and closes what was merged or deleted;    *)
(* users edit and close the issue by hand.                                 *)
(***************************************************************************)
EXTENDS Integers, Sequences, FiniteSets

CONSTANTS MaxWorks,   \* issue work registered in all
          MaxLegacy,  \* of it, work of earlier versions, of promotions too
          MaxTouches  \* edits and closes by hand

ASSUME BoundsAssumption == MaxWorks \in Nat /\ MaxLegacy \in Nat /\ MaxTouches \in Nat

Origins == {"branch", "promotion"}

VARIABLES
  default,   \* the branch is the repository's default branch
  works,     \* table ci_issue_work with the verdict; the sequence is the index
  proj,      \* table ci_issue_projections, by origin
  issue,     \* the open CI issue
  ids,       \* issues opened so far
  clock,     \* updated_at
  seen,      \* the issue the reconciler has listed
  looked,    \* it has found the branch merged or deleted
  unmerged,  \* the branch's head is neither merged into a green default branch nor deleted
  settled,   \* history: the work accepted when it last did
  handClosed,\* history: the failures of issues closed by hand
  touches

vars == <<default, works, proj, issue, ids, clock, seen, looked, unmerged, settled, handClosed, touches>>

NoIssue == [id |-> 0, origin |-> "branch", seq |-> 0, at |-> 0]
NoProjection == [seq |-> 0, out |-> "none"]
Statuses == {"running", "publishing", "failed", "unpublished", "passed", "dropped"}
Works == [origin : Origins, st : Statuses]
Projections == [Origins -> [seq : Nat, out : {"none", "passed", "failed"}]]
Issues == [id : Nat, origin : Origins, seq : Nat, at : Nat]

TypeOK ==
  /\ default \in BOOLEAN /\ unmerged \in BOOLEAN /\ looked \in BOOLEAN
  /\ works \in Seq(Works) /\ proj \in Projections
  /\ issue \in Issues /\ seen \in Issues
  /\ ids \in Nat /\ clock \in Nat /\ touches \in Nat
  /\ settled \in 0..Len(works)
  /\ handClosed \subseteq Origins \X Nat

\* Work of earlier versions may still be running; promotions register none now.
Init ==
  /\ default \in BOOLEAN /\ unmerged = TRUE /\ looked = FALSE
  /\ \E n \in 0..MaxLegacy : works \in [1..n -> [origin : Origins, st : {"running"}]]
  /\ proj = [o \in Origins |-> NoProjection]
  /\ issue = NoIssue /\ seen = NoIssue
  /\ ids = 0 /\ clock = 0 /\ touches = 0 /\ settled = 0 /\ handClosed = {}

Open == issue.id # 0

-----------------------------------------------------------------------------
(* applyCIIssueProjection *)

\* Mutant: whoever finishes last decides.
Advances_Any(o, seq, out) == TRUE

\* The watermark: newer work, or the same work that failed and passes now.
Advances(o, seq, out) ==
  \/ proj[o].seq < seq
  \/ proj[o].seq = seq /\ proj[o].out = "failed" /\ out = "passed"

Failed(p) == {o \in Origins : p[o].out = "failed"}

\* A green branch run supersedes an older failure of a promotion.
Superseded(p, o) ==
  o = "promotion" /\ p["branch"].out = "passed" /\ p["branch"].seq > p[o].seq

\* o is the origin of the newest failure, and that failure wants an issue.
Wants(p, o) ==
  /\ o \in Failed(p) /\ \A q \in Failed(p) : p[q].seq <= p[o].seq
  /\ ~Superseded(p, o)

\* The issue the watermarks ask for, given the one that is open.
Follow(p) ==
  \/ /\ \A o \in Origins : ~Wants(p, o)
     /\ issue' = NoIssue /\ UNCHANGED <<ids, clock>>
  \/ \E o \in Origins :
       /\ Wants(p, o)
       /\ IF Open /\ issue.origin = o /\ issue.seq = p[o].seq
          THEN UNCHANGED <<issue, ids, clock>>
          ELSE /\ clock' = clock + 1
               /\ ids' = IF Open THEN ids ELSE ids + 1
               /\ issue' = [id |-> ids', origin |-> o, seq |-> p[o].seq, at |-> clock']

Project(o, seq, out) ==
  IF Advances(o, seq, out)
  THEN /\ proj' = [proj EXCEPT ![o] = [seq |-> seq, out |-> out]]
       /\ Follow(proj')
  ELSE UNCHANGED <<proj, issue, ids, clock>>

-----------------------------------------------------------------------------
(* Runs and promotions *)

\* registerRunIssueWork: a run of the default branch or of a schedule is
\* admitted, for the head the branch has now.
Register ==
  /\ Len(works) < MaxWorks
  /\ works' = Append(works, [origin |-> "branch", st |-> "running"])
  /\ unmerged' = TRUE
  /\ UNCHANGED <<default, proj, issue, ids, clock, seen, looked, settled, handClosed, touches>>

\* The verdict and its projection, in one transaction.
Finish(i, st) ==
  /\ works[i].st = "running" \/ (works[i].st = "publishing" /\ st \in {"passed", "unpublished"})
  /\ works' = [works EXCEPT ![i].st = st]
  /\ Project(works[i].origin, i, IF st = "passed" THEN "passed" ELSE "failed")
  /\ UNCHANGED <<default, seen, looked, unmerged, settled, handClosed, touches>>

\* Interrupted, evicted by its node, or retried by itself: no issue.
Drop(i) ==
  /\ works[i].st = "running"
  /\ works' = [works EXCEPT ![i].st = "dropped"]
  /\ UNCHANGED <<default, proj, issue, ids, clock, seen, looked, unmerged, settled, handClosed,
                 touches>>

\* RetryFailedPublication: the run publishes again.
RetryPublication(i) ==
  /\ works[i].st = "unpublished" /\ works[i].origin = "branch"
  /\ works' = [works EXCEPT ![i].st = "publishing"]
  /\ UNCHANGED <<default, proj, issue, ids, clock, seen, looked, unmerged, settled, handClosed,
                 touches>>

-----------------------------------------------------------------------------
(* Users *)

\* UpdateIssue, AppendIssueBody, and a commit trailer of a green run that refers to the
\* issue: updated_at moves.
Edit ==
  /\ Open /\ touches < MaxTouches
  /\ touches' = touches + 1 /\ clock' = clock + 1
  /\ issue' = [issue EXCEPT !.at = clock']
  /\ UNCHANGED <<default, works, proj, ids, seen, looked, unmerged, settled, handClosed>>

\* CloseCIIssue, CloseIssueWithReason, or a commit trailer that fixes the issue: the
\* watermarks stay.
CloseByHand ==
  /\ Open /\ touches < MaxTouches
  /\ touches' = touches + 1
  /\ issue' = NoIssue /\ handClosed' = handClosed \cup {<<issue.origin, issue.seq>>}
  /\ UNCHANGED <<default, works, proj, ids, clock, seen, looked, unmerged, settled>>

-----------------------------------------------------------------------------
(* The reconciler *)

\* The head of the branch becomes part of a green default branch (its own,
\* perhaps), or the branch is deleted.
Settle ==
  /\ unmerged
  /\ unmerged' = FALSE
  /\ UNCHANGED <<default, works, proj, issue, ids, clock, seen, looked, settled, handClosed, touches>>

\* Tick: the page of open issues.
List ==
  /\ Open /\ seen = NoIssue /\ seen' = issue
  /\ UNCHANGED <<default, works, proj, issue, ids, clock, looked, unmerged, settled, handClosed,
                 touches>>

\* reconcileIssue leaves the issue of the default branch alone, and that of a
\* head which is still ahead.
Stays == default \/ unmerged

\* What reconcileIssue reads of the repository, the branch and the forge, one after the
\* other, counts as one look: the close compares the row with the one that was listed,
\* so that what happens between the reads is found there.
Look ==
  /\ seen # NoIssue /\ ~looked
  /\ IF Stays THEN seen' = NoIssue /\ UNCHANGED <<looked, settled>>
     ELSE looked' = TRUE /\ settled' = Len(works) /\ UNCHANGED seen
  /\ UNCHANGED <<default, works, proj, issue, ids, clock, unmerged, handClosed, touches>>

\* Mutant: the issue is closed by its id.
SameVersion_Id == Open /\ issue.id = seen.id

\* AutoCloseCIIssue compares the row with the one that was listed, and asks for
\* the default branch again.
SameVersion == Open /\ issue = seen /\ ~default

\* Mutant: the failures stay on the watermarks.
Resolved_Kept(p) == p

\* Closing resolves the failures up to the one the issue was about.
Resolved(p) ==
  [o \in Origins |-> IF p[o].out = "failed" /\ p[o].seq <= seen.seq THEN [p[o] EXCEPT !.out = "passed"]
                     ELSE p[o]]

\* Mutant: a close that came too late is tried again with the row it was about.
AutoClose_Retries ==
  /\ looked /\ SameVersion
  /\ looked' = FALSE /\ seen' = NoIssue
  /\ issue' = NoIssue /\ proj' = Resolved(proj)
  /\ UNCHANGED <<default, works, ids, clock, unmerged, settled, handClosed, touches>>

AutoClose ==
  /\ looked /\ looked' = FALSE /\ seen' = NoIssue
  /\ IF SameVersion THEN issue' = NoIssue /\ proj' = Resolved(proj)
     ELSE UNCHANGED <<issue, proj>>
  /\ UNCHANGED <<default, works, ids, clock, unmerged, settled, handClosed, touches>>

-----------------------------------------------------------------------------
(* Specification *)

Verdicts == \E i \in 1..Len(works) :
  Drop(i) \/ RetryPublication(i) \/ \E st \in {"passed", "failed", "unpublished"} : Finish(i, st)

Reconcile == List \/ Look \/ AutoClose

Next == Register \/ Verdicts \/ Edit \/ CloseByHand \/ Settle \/ Reconcile

Spec == Init /\ [][Next]_vars

\* The reconciler ticks.
FairSpec == Spec /\ WF_vars(Reconcile)

-----------------------------------------------------------------------------
(* Properties *)

\* Work that has had a verdict.
Decided(o) == {i \in 1..Len(works) : works[i].origin = o /\ works[i].st \notin {"running", "dropped"}}

\* Nobody who finishes late decides: the watermark of an origin is its newest
\* work with a verdict, in whatever order the verdicts came, and says what that
\* verdict was unless the reconciler has resolved it since.
NewestDecides ==
  \A o \in Origins :
     /\ \A i \in Decided(o) : i <= proj[o].seq
     /\ proj[o].out = "none" => proj[o].seq = 0
     /\ proj[o].out # "none" => proj[o].seq \in Decided(o)
     /\ proj[o].out = "failed" => works[proj[o].seq].st # "passed"
     /\ proj[o].out = "passed" => works[proj[o].seq].st = "passed" \/ proj[o].seq <= settled

\* The open issue is the one the watermarks ask for, after every projection,
\* every close and every race of the two; none is open that they do not ask
\* for, and one they ask for is missing only where a user closed it.
IssueFollows ==
  /\ Open => Wants(proj, issue.origin) /\ issue.seq = proj[issue.origin].seq
  /\ \A o \in Origins : Wants(proj, o) => Open \/ <<o, proj[o].seq>> \in handClosed

\* A red branch is visible: while the newest verdict of the branch is a failure
\* nobody has seen merged or deleted, its issue is open, unless a user closed it
\* or a newer failure. A reconciler that closed an issue by what it had read
\* before the failure would hide it.
RedIsVisible ==
  \A i \in Decided("branch") :
     (\A j \in Decided("branch") : j <= i) /\ works[i].st # "passed" /\ i > settled =>
        Open \/ \E h \in handClosed : h[2] >= i

\* The issue of the default branch closes only through a green verdict that is
\* not older than the failure, or by hand.
DefaultClosesOnGreen ==
  [][default /\ Open /\ ~Open' /\ touches' = touches =>
       \E i \in 1..Len(works) :
          works'[i].st = "passed" /\ works[i].st # "passed" /\ i >= issue.seq]_vars

\* A branch, not the default one, that is merged or deleted loses its issue, whatever finishes, is
\* edited or is listed at the same time.
SettledCloses == ~default /\ <>[](~unmerged) => <>[](~Open)
=============================================================================
