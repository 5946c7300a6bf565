-------------------------- MODULE CIIssues_proofs --------------------------
(***************************************************************************)
(* Theorems of CIIssues: the open issue follows the verdicts for any       *)
(* amount of work, in whatever order it finishes, and any interleaving of  *)
(* projections, users and the reconciler.                                  *)
(***************************************************************************)
EXTENDS CIIssues, TLAPS

\* What the reconciler looks at is work that exists, and what it has found
\* settled includes the failure the listed issue is about.
SeenInv == /\ seen.seq <= Len(works) /\ (looked => seen.seq <= settled)
           /\ (looked => seen # NoIssue)
           /\ issue.id <= ids /\ (Open \/ issue = NoIssue)

Inv == TypeOK /\ NewestDecides /\ IssueFollows /\ SeenInv

\* The newest failure of two: one of the origins wants the issue, unless a green
\* run of the branch supersedes the promotion's.
LEMMA SomeoneWants ==
  ASSUME NEW p \in Projections, p["branch"].out = "failed"
  PROVE  \E o \in Origins : Wants(p, o) /\ p[o].seq >= p["branch"].seq
<1>1. /\ Origins = {"branch", "promotion"} /\ p["branch"].seq \in Nat /\ p["promotion"].seq \in Nat
      /\ p["branch"].out # "passed"
  BY DEF Origins, Projections
<1>2. CASE p["promotion"].out = "failed" /\ p["promotion"].seq > p["branch"].seq
  <2>1. Wants(p, "promotion") BY <1>1, <1>2 DEF Wants, Failed, Superseded
  <2> QED BY <1>1, <1>2, <2>1
<1>3. CASE ~(p["promotion"].out = "failed" /\ p["promotion"].seq > p["branch"].seq)
  <2>1. Wants(p, "branch") BY <1>1, <1>3 DEF Wants, Failed, Superseded
  <2> QED BY <1>1, <2>1
<1> QED BY <1>2, <1>3

\* Two origins never share a watermark, so at most one of them wants the issue.
LEMMA OneWants ==
  ASSUME TypeOK, NewestDecides, NEW o \in Origins, NEW q \in Origins,
         Wants(proj, o), Wants(proj, q)
  PROVE  o = q
<1>1. proj[o].seq \in Nat /\ proj[q].seq \in Nat BY DEF TypeOK, Projections
<1>2. proj[o].seq = proj[q].seq BY <1>1 DEF Wants, Failed
<1>3. proj[o].seq \in Decided(o) /\ proj[q].seq \in Decided(q) BY DEF NewestDecides, Wants, Failed
<1> QED BY <1>2, <1>3 DEF Decided

\* The initial states.
LEMMA InitInv == Init => Inv
<1> SUFFICES ASSUME Init PROVE Inv OBVIOUS
<1>1. PICK n \in 0..MaxLegacy : works \in [1..n -> [origin : Origins, st : {"running"}]]
  BY DEF Init
<1>2. n \in Nat BY BoundsAssumption
<1>3. /\ works \in Seq(Works) /\ Len(works) = n /\ \A i \in 1..n : works[i].st = "running"
  <2>1. \A i \in 1..n : works[i] \in Works /\ works[i].st = "running" BY <1>1 DEF Works, Statuses
  <2>2. works \in [1..n -> Works] BY <1>1, <2>1
  <2>3. works \in Seq(Works) BY <1>2, <2>2
  <2> QED BY <1>1, <1>2, <2>1, <2>3
<1>4. proj = [o \in Origins |-> NoProjection] /\ proj \in Projections
  BY DEF Init, Projections, NoProjection
<1>5. issue = NoIssue /\ seen = NoIssue /\ NoIssue \in Issues
  BY DEF Init, NoIssue, Issues, Origins
<1>6. TypeOK
  <2>1. default \in BOOLEAN /\ unmerged \in BOOLEAN /\ looked \in BOOLEAN BY DEF Init
  <2>2. ids \in Nat /\ clock \in Nat /\ touches \in Nat /\ handClosed \subseteq Origins \X Nat
    BY DEF Init
  <2>3. settled \in 0..Len(works) BY <1>2, <1>3 DEF Init
  <2> QED BY <1>3, <1>4, <1>5, <2>1, <2>2, <2>3 DEF TypeOK
<1>7. NewestDecides BY <1>3, <1>4 DEF NewestDecides, Decided, NoProjection
<1>8. IssueFollows BY <1>4, <1>5 DEF IssueFollows, Open, Wants, Failed, NoIssue, NoProjection
<1>9. SeenInv BY <1>3, <1>5, <1>2 DEF SeenInv, Init, NoIssue
<1> QED BY <1>6, <1>7, <1>8, <1>9 DEF Inv

\* After a projection the issue is the one the new watermarks ask for.
LEMMA FollowFacts ==
  ASSUME Inv, proj' \in Projections, Follow(proj')
  PROVE  /\ issue' \in Issues /\ ids' \in Nat /\ clock' \in Nat /\ issue'.id <= ids'
         /\ Open' => Wants(proj', issue'.origin) /\ issue'.seq = proj'[issue'.origin].seq
         /\ \A o \in Origins : Wants(proj', o) => Open'
         /\ Open' \/ issue' = NoIssue
<1>1. issue \in Issues /\ ids \in Nat /\ clock \in Nat /\ issue.id <= ids
  BY DEF Inv, TypeOK, SeenInv
<1>2. CASE (\A o \in Origins : ~Wants(proj', o)) /\ issue' = NoIssue /\ UNCHANGED <<ids, clock>>
  BY <1>1, <1>2 DEF NoIssue, Issues, Open, Origins
<1>3. ASSUME NEW o \in Origins, Wants(proj', o),
             IF Open /\ issue.origin = o /\ issue.seq = proj'[o].seq
             THEN UNCHANGED <<issue, ids, clock>>
             ELSE /\ clock' = clock + 1
                  /\ ids' = IF Open THEN ids ELSE ids + 1
                  /\ issue' = [id |-> ids', origin |-> o, seq |-> proj'[o].seq, at |-> clock']
      PROVE  /\ issue' \in Issues /\ ids' \in Nat /\ clock' \in Nat /\ issue'.id <= ids'
             /\ Open' /\ issue'.origin = o /\ issue'.seq = proj'[o].seq
  <2>1. CASE Open /\ issue.origin = o /\ issue.seq = proj'[o].seq
    BY <1>1, <1>3, <2>1 DEF Open
  <2>2. CASE ~(Open /\ issue.origin = o /\ issue.seq = proj'[o].seq)
    <3>1. /\ clock' = clock + 1 /\ ids' = (IF Open THEN ids ELSE ids + 1)
          /\ issue' = [id |-> ids', origin |-> o, seq |-> proj'[o].seq, at |-> clock']
      BY <1>3, <2>2
    <3>2. proj'[o].seq \in Nat BY DEF Projections
    <3>3. ids' \in Nat /\ ids' # 0
      BY <1>1, <3>1 DEF Open, Issues
    <3> QED BY <1>1, <3>1, <3>2, <3>3 DEF Issues, Open
  <2> QED BY <2>1, <2>2
<1>4. \/ (\A o \in Origins : ~Wants(proj', o)) /\ issue' = NoIssue /\ UNCHANGED <<ids, clock>>
      \/ \E o \in Origins :
           /\ Wants(proj', o)
           /\ IF Open /\ issue.origin = o /\ issue.seq = proj'[o].seq
              THEN UNCHANGED <<issue, ids, clock>>
              ELSE /\ clock' = clock + 1
                   /\ ids' = IF Open THEN ids ELSE ids + 1
                   /\ issue' = [id |-> ids', origin |-> o, seq |-> proj'[o].seq, at |-> clock']
  BY DEF Follow
<1> QED BY <1>2, <1>3, <1>4

\* A verdict, old or new, of either origin.
LEMMA FinishInv ==
  ASSUME Inv, NEW i \in 1..Len(works), NEW st \in {"passed", "failed", "unpublished"}, Finish(i, st)
  PROVE  Inv'
<1> DEFINE out == IF st = "passed" THEN "passed" ELSE "failed"
<1>0. PICK o \in Origins : o = works[i].origin
  <2>1. works[i] \in Works BY DEF Inv, TypeOK
  <2> QED BY <2>1 DEF Works
<1>1. /\ works \in Seq(Works) /\ proj \in Projections /\ o \in Origins /\ works[i] \in Works
      /\ i \in Nat /\ i # 0 /\ settled \in Nat /\ settled <= Len(works) /\ Len(works) \in Nat
      /\ (\A q \in Origins : proj[q].seq \in Nat) /\ o = works[i].origin
  <2>1. works \in Seq(Works) /\ proj \in Projections /\ settled \in 0..Len(works)
    BY DEF Inv, TypeOK
  <2>2. Len(works) \in Nat /\ works[i] \in Works BY <2>1
  <2>3. i \in Nat /\ i # 0 /\ settled \in Nat /\ settled <= Len(works) BY <2>1, <2>2
  <2>5. \A q \in Origins : proj[q].seq \in Nat BY <2>1 DEF Projections
  <2> QED BY <1>0, <2>1, <2>2, <2>3, <2>5
<1>2. /\ works' \in Seq(Works) /\ Len(works') = Len(works)
      /\ \A j \in 1..Len(works) : /\ works'[j].origin = works[j].origin
                                  /\ works'[j].st = IF j = i THEN st ELSE works[j].st
  <2>1. [works[i] EXCEPT !.st = st] \in Works BY <1>1 DEF Works, Statuses
  <2>2. works' = [works EXCEPT ![i] = [works[i] EXCEPT !.st = st]] BY DEF Finish
  <2>3. works' \in Seq(Works) /\ Len(works') = Len(works) BY <1>1, <2>1, <2>2
  <2> QED BY <1>1, <2>2, <2>3 DEF Works
<1>3. /\ \A q \in Origins : q # o => Decided(q)' = Decided(q)
      /\ Decided(o)' = Decided(o) \cup {i}
  BY <1>1, <1>2 DEF Decided
<1>4. UNCHANGED <<default, seen, looked, unmerged, settled, handClosed, touches>> BY DEF Finish
<1>5. \/ /\ Advances(o, i, out)
         /\ proj' = [proj EXCEPT ![o] = [seq |-> i, out |-> out]] /\ Follow(proj')
      \/ ~Advances(o, i, out) /\ UNCHANGED <<proj, issue, ids, clock>>
  BY <1>0 DEF Finish, Project
<1>6. works[i].st = "running" \/ (works[i].st = "publishing" /\ st # "failed")
  BY DEF Finish
<1>7. CASE Advances(o, i, out)
  <2>1. proj' = [proj EXCEPT ![o] = [seq |-> i, out |-> out]] /\ Follow(proj') BY <1>5, <1>7
  <2>2. proj' \in Projections BY <1>1, <2>1 DEF Projections
  <2>3. proj[o].seq <= i BY <1>1, <1>7 DEF Advances
  <2>4. /\ proj'[o].seq = i /\ proj'[o].out = out
        /\ \A q \in Origins : q # o => proj'[q] = proj[q]
    BY <1>1, <2>1 DEF Projections
  <2>5. NewestDecides'
    <3> SUFFICES ASSUME NEW q \in Origins
                 PROVE  /\ \A j \in Decided(q)' : j <= proj'[q].seq
                        /\ proj'[q].out = "none" => proj'[q].seq = 0
                        /\ proj'[q].out # "none" => proj'[q].seq \in Decided(q)'
                        /\ proj'[q].out = "failed" => works'[proj'[q].seq].st # "passed"
                        /\ proj'[q].out = "passed" => works'[proj'[q].seq].st = "passed" \/ proj'[q].seq <= settled'
      BY DEF NewestDecides
    <3>1. CASE q = o
      <4>1. \A j \in Decided(o) : j \in Nat /\ j <= proj[o].seq BY <1>1 DEF Inv, NewestDecides, Decided
      <4>2. \A j \in Decided(o)' : j <= i BY <1>1, <1>3, <2>3, <4>1
      <4>3. works'[i].st = st BY <1>2
      <4>4. out \in {"passed", "failed"} /\ (out = "passed" <=> st = "passed") BY <1>1
      <4>5. i \in Decided(o)' BY <1>3
      <4> HIDE DEF out
      <4> QED BY <2>4, <3>1, <4>2, <4>3, <4>4, <4>5
    <3>2. CASE q # o
      <4>1. /\ \A j \in Decided(q) : j <= proj[q].seq
            /\ proj[q].out = "none" => proj[q].seq = 0
            /\ proj[q].out # "none" => proj[q].seq \in Decided(q)
            /\ proj[q].out = "failed" => works[proj[q].seq].st # "passed"
            /\ proj[q].out = "passed" => works[proj[q].seq].st = "passed" \/ proj[q].seq <= settled
        BY DEF Inv, NewestDecides
      <4>2. proj[q].out # "none" => /\ proj[q].seq \in 1..Len(works) /\ proj[q].seq # i
        BY <1>1, <3>2, <4>1 DEF Decided
      <4> QED BY <1>2, <1>3, <1>4, <2>4, <3>2, <4>1, <4>2
    <3> QED BY <3>1, <3>2
  <2>6. /\ issue' \in Issues /\ ids' \in Nat /\ clock' \in Nat /\ issue'.id <= ids'
        /\ Open' => Wants(proj', issue'.origin) /\ issue'.seq = proj'[issue'.origin].seq
        /\ \A q \in Origins : Wants(proj', q) => Open'
        /\ Open' \/ issue' = NoIssue
    BY <2>1, <2>2, FollowFacts
  <2>7. IssueFollows' BY <2>6 DEF IssueFollows
  <2>8. TypeOK' BY <1>1, <1>2, <1>4, <2>2, <2>6 DEF Inv, TypeOK
  <2>9. SeenInv' BY <1>2, <1>4, <2>6 DEF Inv, SeenInv, Open
  <2> QED BY <2>5, <2>7, <2>8, <2>9 DEF Inv
<1>8. CASE ~Advances(o, i, out)
  <2>1. UNCHANGED <<proj, issue, ids, clock>> BY <1>5, <1>8
  <2>2. i <= proj[o].seq BY <1>1, <1>8 DEF Advances
  <2>3. NewestDecides'
    <3> SUFFICES ASSUME NEW q \in Origins
                 PROVE  /\ \A j \in Decided(q)' : j <= proj[q].seq
                        /\ proj[q].out = "none" => proj[q].seq = 0
                        /\ proj[q].out # "none" => proj[q].seq \in Decided(q)'
                        /\ proj[q].out = "failed" => works'[proj[q].seq].st # "passed"
                        /\ proj[q].out = "passed" => works'[proj[q].seq].st = "passed" \/ proj[q].seq <= settled
      BY <1>4, <2>1 DEF NewestDecides
    <3>1. /\ \A j \in Decided(q) : j <= proj[q].seq
          /\ proj[q].out = "none" => proj[q].seq = 0
          /\ proj[q].out # "none" => proj[q].seq \in Decided(q)
          /\ proj[q].out = "failed" => works[proj[q].seq].st # "passed"
          /\ proj[q].out = "passed" => works[proj[q].seq].st = "passed" \/ proj[q].seq <= settled
      BY DEF Inv, NewestDecides
    <3>2. proj[q].out # "none" => proj[q].seq \in 1..Len(works)
      BY <3>1 DEF Decided
    <3>3. CASE q # o
      <4>1. proj[q].out # "none" => proj[q].seq # i BY <1>1, <3>1, <3>3 DEF Decided
      <4> QED BY <1>2, <1>3, <3>1, <3>2, <3>3, <4>1
    <3>4. CASE q = o /\ proj[o].seq # i
      BY <1>1, <1>2, <1>3, <2>2, <3>1, <3>2, <3>4
    <3>5. CASE q = o /\ proj[o].seq = i
      <4>1. proj[o].out # "none" BY <1>1, <3>1, <3>5
      <4>2. works[i].st # "passed" BY <1>6
      <4>3. proj[o].out = "failed" => st # "passed" BY <1>8, <3>5 DEF Advances
      <4> QED BY <1>1, <1>2, <1>3, <2>2, <3>1, <3>2, <3>5, <4>1, <4>2, <4>3
    <3> QED BY <3>3, <3>4, <3>5
  <2>4. IssueFollows' BY <1>4, <2>1 DEF Inv, IssueFollows, Open, Wants, Failed, Superseded
  <2>5. TypeOK' BY <1>1, <1>2, <1>4, <2>1 DEF Inv, TypeOK
  <2>6. SeenInv' BY <1>2, <1>4, <2>1 DEF Inv, SeenInv, Open
  <2> QED BY <2>3, <2>4, <2>5, <2>6 DEF Inv
<1> QED BY <1>7, <1>8

-----------------------------------------------------------------------------
(* The other steps *)

\* A step that decides nothing leaves the watermarks true.
LEMMA StillDecided ==
  ASSUME Inv, works' \in Seq(Works), Len(works') >= Len(works),
         \A q \in Origins : Decided(q)' = Decided(q),
         \A j \in 1..Len(works) : works'[j].st = "passed" <=> works[j].st = "passed",
         default' \in BOOLEAN, unmerged' \in BOOLEAN,
         UNCHANGED <<proj, issue, ids, clock, seen, looked, settled, handClosed, touches>>
  PROVE  Inv'
<1>1. /\ works \in Seq(Works) /\ Len(works) \in Nat /\ Len(works') \in Nat /\ settled \in 0..Len(works)
      /\ seen.seq \in Nat
  BY DEF Inv, TypeOK, Issues
<1>2. TypeOK' BY <1>1 DEF Inv, TypeOK
<1>3. NewestDecides'
  <2> SUFFICES ASSUME NEW q \in Origins
               PROVE  /\ \A j \in Decided(q) : j <= proj[q].seq
                      /\ proj[q].out = "none" => proj[q].seq = 0
                      /\ proj[q].out # "none" => proj[q].seq \in Decided(q)
                      /\ proj[q].out = "failed" => works'[proj[q].seq].st # "passed"
                      /\ proj[q].out = "passed" => works'[proj[q].seq].st = "passed" \/ proj[q].seq <= settled
    BY DEF NewestDecides
  <2>1. /\ \A j \in Decided(q) : j <= proj[q].seq
        /\ proj[q].out = "none" => proj[q].seq = 0
        /\ proj[q].out # "none" => proj[q].seq \in Decided(q)
        /\ proj[q].out = "failed" => works[proj[q].seq].st # "passed"
        /\ proj[q].out = "passed" => works[proj[q].seq].st = "passed" \/ proj[q].seq <= settled
    BY DEF Inv, NewestDecides
  <2>2. proj[q].out # "none" => proj[q].seq \in 1..Len(works) BY <2>1 DEF Decided
  <2> QED BY <2>1, <2>2
<1>4. IssueFollows' BY DEF Inv, IssueFollows, Open, Wants, Failed, Superseded
<1>5. SeenInv' BY <1>1 DEF Inv, SeenInv, Open
<1> QED BY <1>2, <1>3, <1>4, <1>5 DEF Inv

\* The reconciler's look may only raise what is known to be settled.
LEMMA StillNewest ==
  ASSUME Inv, UNCHANGED <<works, proj>>, settled' \in 0..Len(works), settled <= settled'
  PROVE  NewestDecides'
<1> SUFFICES ASSUME NEW q \in Origins
             PROVE  /\ \A j \in Decided(q) : j <= proj[q].seq
                    /\ proj[q].out = "none" => proj[q].seq = 0
                    /\ proj[q].out # "none" => proj[q].seq \in Decided(q)
                    /\ proj[q].out = "failed" => works[proj[q].seq].st # "passed"
                    /\ proj[q].out = "passed" => works[proj[q].seq].st = "passed" \/ proj[q].seq <= settled'
  BY DEF NewestDecides, Decided
<1>1. /\ \A j \in Decided(q) : j <= proj[q].seq
      /\ proj[q].out = "none" => proj[q].seq = 0
      /\ proj[q].out # "none" => proj[q].seq \in Decided(q)
      /\ proj[q].out = "failed" => works[proj[q].seq].st # "passed"
      /\ proj[q].out = "passed" => works[proj[q].seq].st = "passed" \/ proj[q].seq <= settled
  BY DEF Inv, NewestDecides
<1>2. proj[q].seq \in Nat /\ settled \in Nat /\ settled' \in Nat
  BY DEF Inv, TypeOK, Projections
<1> QED BY <1>1, <1>2

\* A run is admitted.
LEMMA RegisterInv == ASSUME Inv, Register PROVE Inv'
<1> DEFINE w == [origin |-> "branch", st |-> "running"]
<1>1. works \in Seq(Works) /\ w \in Works /\ works' = Append(works, w)
  BY DEF Inv, TypeOK, Register, Works, Origins, Statuses
<1>2. /\ works' \in Seq(Works) /\ Len(works') = Len(works) + 1 /\ Len(works) \in Nat
      /\ \A j \in 1..Len(works) : works'[j] = works[j]
      /\ works'[Len(works) + 1] = w
  BY <1>1
<1>3. w.st = "running" OBVIOUS
<1>4. \A q \in Origins : Decided(q)' = Decided(q)
  <2> SUFFICES ASSUME NEW q \in Origins, NEW j \in Nat
               PROVE  j \in Decided(q)' <=> j \in Decided(q)
    BY <1>2 DEF Decided
  <2>1. CASE j = Len(works) + 1
    <3>1. works'[j].st = "running" BY <1>2, <1>3, <2>1
    <3> QED BY <1>2, <2>1, <3>1 DEF Decided
  <2>2. CASE j # Len(works) + 1 BY <1>2, <2>2 DEF Decided
  <2> QED BY <2>1, <2>2
<1>5. /\ default' \in BOOLEAN /\ unmerged' \in BOOLEAN
      /\ UNCHANGED <<proj, issue, ids, clock, seen, looked, settled, handClosed, touches>>
  BY DEF Inv, TypeOK, Register
<1> HIDE DEF w
<1> QED BY <1>2, <1>4, <1>5, StillDecided

\* A run that leaves no verdict, or publishes again.
LEMMA RestatusInv ==
  ASSUME Inv, NEW i \in 1..Len(works), Drop(i) \/ RetryPublication(i)
  PROVE  Inv'
<1>1. PICK st \in {"dropped", "publishing"} :
        /\ works' = [works EXCEPT ![i].st = st]
        /\ st = "dropped" => works[i].st = "running"
        /\ st = "publishing" => works[i].st = "unpublished"
  BY DEF Drop, RetryPublication
<1>2. works \in Seq(Works) /\ works[i] \in Works BY DEF Inv, TypeOK
<1>3. [works[i] EXCEPT !.st = st] \in Works BY <1>2 DEF Works, Statuses
<1>4. /\ works' \in Seq(Works) /\ Len(works') = Len(works) /\ Len(works) \in Nat
      /\ \A j \in 1..Len(works) : /\ works'[j].origin = works[j].origin
                                  /\ works'[j].st = IF j = i THEN st ELSE works[j].st
  <2>1. works' = [works EXCEPT ![i] = [works[i] EXCEPT !.st = st]] BY <1>1
  <2>2. works' \in Seq(Works) /\ Len(works') = Len(works) BY <1>2, <1>3, <2>1
  <2> QED BY <1>2, <2>1, <2>2 DEF Works
<1>5. \A q \in Origins : Decided(q)' = Decided(q) BY <1>1, <1>4 DEF Decided
<1>6. \A j \in 1..Len(works) : works'[j].st = "passed" <=> works[j].st = "passed" BY <1>1, <1>4
<1>7. /\ default' \in BOOLEAN /\ unmerged' \in BOOLEAN
      /\ UNCHANGED <<proj, issue, ids, clock, seen, looked, settled, handClosed, touches>>
  BY DEF Inv, TypeOK, Drop, RetryPublication
<1> QED BY <1>4, <1>5, <1>6, <1>7, StillDecided

\* An edit moves updated_at and nothing the watermarks know of.
LEMMA EditInv == ASSUME Inv, Edit PROVE Inv'
<1>1. /\ issue \in Issues /\ clock \in Nat /\ touches \in Nat /\ settled \in 0..Len(works)
      /\ works \in Seq(Works)
  BY DEF Inv, TypeOK
<1>2. /\ issue' = [issue EXCEPT !.at = clock'] /\ clock' = clock + 1 /\ touches' = touches + 1
      /\ UNCHANGED <<default, works, proj, ids, seen, looked, unmerged, settled, handClosed>>
  BY DEF Edit
<1>3. /\ issue' \in Issues /\ issue'.id = issue.id /\ issue'.origin = issue.origin
      /\ issue'.seq = issue.seq
  BY <1>1, <1>2 DEF Issues
<1>4. TypeOK' BY <1>1, <1>2, <1>3 DEF Inv, TypeOK
<1>5. NewestDecides' BY <1>1, <1>2, StillNewest
<1>6. IssueFollows' BY <1>2, <1>3 DEF Inv, IssueFollows, Open, Wants, Failed, Superseded
<1>7. SeenInv' BY <1>2, <1>3 DEF Inv, SeenInv, Open, Edit
<1> QED BY <1>4, <1>5, <1>6, <1>7 DEF Inv

\* A close by hand is remembered for the only failure that wanted an issue.
LEMMA CloseByHandInv == ASSUME Inv, CloseByHand PROVE Inv'
<1>1. /\ issue \in Issues /\ touches \in Nat /\ settled \in 0..Len(works) /\ works \in Seq(Works)
      /\ issue.origin \in Origins /\ issue.seq \in Nat /\ ids \in Nat
  BY DEF Inv, TypeOK, Issues
<1>2. /\ Open /\ issue' = NoIssue /\ touches' = touches + 1
      /\ handClosed' = handClosed \cup {<<issue.origin, issue.seq>>}
      /\ UNCHANGED <<default, works, proj, ids, clock, seen, looked, unmerged, settled>>
  BY DEF CloseByHand
<1>3. NoIssue \in Issues /\ NoIssue.id = 0 BY DEF NoIssue, Issues, Origins
<1>4. TypeOK'
  <2>1. handClosed' \subseteq Origins \X Nat BY <1>1, <1>2 DEF Inv, TypeOK
  <2>2. touches' \in Nat BY <1>1, <1>2
  <2> QED BY <1>1, <1>2, <1>3, <2>1, <2>2 DEF Inv, TypeOK
<1>5. NewestDecides' BY <1>1, <1>2, StillNewest
<1>6. Wants(proj, issue.origin) /\ issue.seq = proj[issue.origin].seq
  BY <1>2 DEF Inv, IssueFollows
<1>7. \A o \in Origins : Wants(proj, o) => <<o, proj[o].seq>> \in handClosed'
  <2> SUFFICES ASSUME NEW o \in Origins, Wants(proj, o) PROVE <<o, proj[o].seq>> \in handClosed'
    OBVIOUS
  <2>1. o = issue.origin BY <1>1, <1>6, OneWants DEF Inv
  <2> QED BY <1>2, <1>6, <2>1
<1>8. IssueFollows' BY <1>2, <1>3, <1>7 DEF IssueFollows, Open, Wants, Failed, Superseded
<1>9. SeenInv' BY <1>1, <1>2, <1>3 DEF Inv, SeenInv, Open
<1> QED BY <1>4, <1>5, <1>8, <1>9 DEF Inv

\* A branch is merged or deleted; the reconciler lists and looks.
LEMMA LookInv == ASSUME Inv, Settle \/ List \/ Look PROVE Inv'
<1>1. /\ issue \in Issues /\ seen \in Issues /\ settled \in 0..Len(works) /\ works \in Seq(Works)
      /\ Len(works) \in Nat /\ seen.seq <= Len(works) /\ (looked => seen.seq <= settled)
  BY DEF Inv, TypeOK, SeenInv
<1>2. UNCHANGED <<default, works, proj, issue, ids, clock, handClosed, touches>>
  BY DEF Settle, List, Look
<1>3. /\ unmerged' \in BOOLEAN /\ looked' \in BOOLEAN /\ seen' \in {seen, issue, NoIssue}
      /\ settled' \in {settled, Len(works)}
  BY DEF Inv, TypeOK, Settle, List, Look
<1>4. NoIssue \in Issues /\ NoIssue.seq = 0 BY DEF NoIssue, Issues, Origins
<1>5. issue.seq <= Len(works)
  <2>1. CASE Open
    <3>1. issue.origin \in Origins BY <1>1 DEF Issues
    <3>2. issue.seq \in Decided(issue.origin)
      BY <2>1, <3>1 DEF Inv, IssueFollows, NewestDecides, Wants, Failed
    <3> QED BY <1>1, <3>2 DEF Decided
  <2>2. CASE ~Open BY <1>1, <1>4, <2>2 DEF Inv, SeenInv
  <2> QED BY <2>1, <2>2
<1>6. TypeOK' BY <1>1, <1>2, <1>3, <1>4 DEF Inv, TypeOK
<1>7. NewestDecides' BY <1>1, <1>2, <1>3, StillNewest
<1>8. IssueFollows' BY <1>2 DEF Inv, IssueFollows, Open, Wants, Failed, Superseded
<1>9. SeenInv'
  <2>1. seen'.seq <= Len(works) BY <1>1, <1>3, <1>4, <1>5
  <2>2. CASE Settle BY <1>1, <1>2, <2>1, <2>2 DEF Inv, SeenInv, Open, Settle
  <2>3. CASE List
    <3>1. looked' = looked BY <2>3 DEF List
    <3> QED BY <1>1, <1>2, <2>1, <2>3, <3>1 DEF Inv, SeenInv, Open, List
  <2>4. CASE Look BY <1>1, <1>2, <1>4, <2>1, <2>4 DEF Inv, SeenInv, Open, Look
  <2> QED BY <2>2, <2>3, <2>4
<1> QED BY <1>6, <1>7, <1>8, <1>9 DEF Inv

\* A close by the reconciler: the listed issue was about the newest failure, so
\* every failure is resolved with it, and all of them are settled.
LEMMA AutoCloseInv == ASSUME Inv, AutoClose PROVE Inv'
<1>1. /\ issue \in Issues /\ seen \in Issues /\ settled \in 0..Len(works) /\ works \in Seq(Works)
      /\ proj \in Projections /\ Len(works) \in Nat /\ seen.seq <= settled /\ ids \in Nat
      /\ \A o \in Origins : proj[o].seq \in Nat
      /\ seen.seq \in Nat /\ settled \in Nat
  BY DEF Inv, TypeOK, SeenInv, AutoClose, Issues, Projections
<1>2. /\ looked' = FALSE /\ seen' = NoIssue
      /\ UNCHANGED <<default, works, ids, clock, unmerged, settled, handClosed, touches>>
  BY DEF AutoClose
<1>3. NoIssue \in Issues /\ NoIssue.seq = 0 /\ NoIssue.id = 0 BY DEF NoIssue, Issues, Origins
<1>4. CASE SameVersion
  <2>1. issue' = NoIssue /\ proj' = Resolved(proj) BY <1>4 DEF AutoClose
  <2>2. \A o \in Origins : /\ proj'[o].seq = proj[o].seq
                           /\ proj'[o].out \in {"none", "passed", "failed"}
                           /\ proj[o].out = "none" <=> proj'[o].out = "none"
                           /\ proj'[o].out = "passed" =>
                                proj[o].out = "passed" \/ proj[o].seq <= seen.seq
                           /\ proj'[o].out = "failed" =>
                                proj[o].out = "failed" /\ ~(proj[o].seq <= seen.seq)
    BY <1>1, <2>1 DEF Resolved, Projections
  <2>3. proj' \in Projections
    <3>1. \A o \in Origins : Resolved(proj)[o] \in [seq : Nat, out : {"none", "passed", "failed"}]
      BY <1>1 DEF Resolved, Projections
    <3> QED BY <2>1, <3>1 DEF Resolved, Projections
  <2>4. \A o \in Origins : proj[o].out = "failed" => proj[o].seq <= seen.seq
    <3>1. issue.origin \in Origins BY <1>1 DEF Issues
    <3> QED BY <1>4, <3>1 DEF Inv, IssueFollows, SameVersion, Wants, Failed
  <2>5. \A o \in Origins : proj'[o].out # "failed" BY <2>2, <2>4
  <2>6. TypeOK' BY <1>1, <1>2, <1>3, <2>1, <2>3 DEF Inv, TypeOK
  <2>7. NewestDecides'
    <3> SUFFICES ASSUME NEW q \in Origins
                 PROVE  /\ \A j \in Decided(q) : j <= proj'[q].seq
                        /\ proj'[q].out = "none" => proj'[q].seq = 0
                        /\ proj'[q].out # "none" => proj'[q].seq \in Decided(q)
                        /\ proj'[q].out = "failed" => works[proj'[q].seq].st # "passed"
                        /\ proj'[q].out = "passed" => works[proj'[q].seq].st = "passed" \/ proj'[q].seq <= settled
      BY <1>2 DEF NewestDecides, Decided
    <3>1. /\ \A j \in Decided(q) : j <= proj[q].seq
          /\ proj[q].out = "none" => proj[q].seq = 0
          /\ proj[q].out # "none" => proj[q].seq \in Decided(q)
          /\ proj[q].out = "passed" => works[proj[q].seq].st = "passed" \/ proj[q].seq <= settled
      BY DEF Inv, NewestDecides
    <3>2. proj[q].seq <= seen.seq => proj[q].seq <= settled BY <1>1
    <3> QED BY <2>2, <2>5, <3>1, <3>2
  <2>8. IssueFollows' BY <1>3, <2>1, <2>5 DEF IssueFollows, Open, Wants, Failed
  <2>9. SeenInv' BY <1>1, <1>2, <1>3, <2>1 DEF SeenInv, Open
  <2> QED BY <2>6, <2>7, <2>8, <2>9 DEF Inv
<1>5. CASE ~SameVersion
  <2>1. UNCHANGED <<issue, proj>> BY <1>5 DEF AutoClose
  <2>2. TypeOK' BY <1>1, <1>2, <1>3, <2>1 DEF Inv, TypeOK
  <2>3. NewestDecides' BY <1>1, <1>2, <2>1, StillNewest
  <2>4. IssueFollows' BY <1>2, <2>1 DEF Inv, IssueFollows, Open, Wants, Failed, Superseded
  <2>5. SeenInv' BY <1>1, <1>2, <1>3, <2>1 DEF Inv, SeenInv, Open
  <2> QED BY <2>2, <2>3, <2>4, <2>5 DEF Inv
<1> QED BY <1>4, <1>5

-----------------------------------------------------------------------------
(* The theorems *)

\* Every step preserves the invariant.
LEMMA NextInv == Inv /\ [Next]_vars => Inv'
<1> SUFFICES ASSUME Inv, [Next]_vars PROVE Inv' OBVIOUS
<1>1. CASE Register BY <1>1, RegisterInv
<1>2. CASE Verdicts
  <2>1. PICK i \in 1..Len(works) :
          Drop(i) \/ RetryPublication(i) \/ \E st \in {"passed", "failed", "unpublished"} : Finish(i, st)
    BY <1>2 DEF Verdicts
  <2> QED BY <2>1, RestatusInv, FinishInv
<1>3. CASE Edit BY <1>3, EditInv
<1>4. CASE CloseByHand BY <1>4, CloseByHandInv
<1>5. CASE Settle \/ List \/ Look BY <1>5, LookInv
<1>6. CASE AutoClose BY <1>6, AutoCloseInv
<1>7. CASE UNCHANGED vars
  <2>1. /\ UNCHANGED <<default, works, proj, issue, ids, clock, seen, looked, unmerged, settled>>
        /\ UNCHANGED <<handClosed, touches>>
    BY <1>7 DEF vars
  <2> QED BY <2>1 DEF Inv, TypeOK, NewestDecides, IssueFollows, SeenInv, Decided, Open, Wants,
                      Failed, Superseded
<1> QED BY <1>1, <1>2, <1>3, <1>4, <1>5, <1>6, <1>7 DEF Next, Reconcile

\* The inductive invariant.
THEOREM Invariant == Spec => []Inv
BY InitInv, NextInv, PTL DEF Spec

\* The columns of the work, watermark and issue tables keep their types.
THEOREM TypeCorrect == Spec => []TypeOK
<1>1. Inv => TypeOK BY DEF Inv
<1> QED BY <1>1, Invariant, PTL

\* The watermark of applyCIIssueProjection is the newest work with a verdict,
\* for any amount of work finishing in any order.
THEOREM NewestDecidesAlways == Spec => []NewestDecides
<1>1. Inv => NewestDecides BY DEF Inv
<1> QED BY <1>1, Invariant, PTL

\* The open issue is the one the watermarks ask for.
THEOREM IssueFollowsAlways == Spec => []IssueFollows
<1>1. Inv => IssueFollows BY DEF Inv
<1> QED BY <1>1, Invariant, PTL

\* No race of a verdict with AutoCloseCIIssue hides a red branch.
THEOREM RedIsVisibleAlways == Spec => []RedIsVisible
<1>1. ASSUME Inv PROVE RedIsVisible
  <2> SUFFICES ASSUME NEW i \in Decided("branch"), \A j \in Decided("branch") : j <= i,
                      works[i].st # "passed", i > settled
               PROVE  Open \/ \E h \in handClosed : h[2] >= i
    BY DEF RedIsVisible
  <2> DEFINE b == proj["branch"]
  <2>1. "branch" \in Origins /\ proj \in Projections /\ settled \in 0..Len(works) /\ works \in Seq(Works)
    BY <1>1 DEF Inv, TypeOK, Origins
  <2>2. /\ i \in Nat /\ i # 0 /\ settled \in Nat /\ b.seq \in Nat
        /\ b.out \in {"none", "passed", "failed"}
    BY <2>1 DEF Decided, Projections
  <2>3. /\ i <= b.seq /\ (b.out = "none" => b.seq = 0)
        /\ b.out # "none" => b.seq \in Decided("branch")
        /\ b.out = "passed" => works[b.seq].st = "passed" \/ b.seq <= settled
    BY <1>1, <2>1 DEF Inv, NewestDecides
  <2>4. b.seq = i BY <2>2, <2>3
  <2>5. b.out = "failed" BY <2>2, <2>3, <2>4
  <2>6. PICK o \in Origins : Wants(proj, o) /\ proj[o].seq >= b.seq
    BY <2>1, <2>5, SomeoneWants
  <2>7. Open \/ <<o, proj[o].seq>> \in handClosed BY <1>1, <2>6 DEF Inv, IssueFollows
  <2> QED BY <2>4, <2>6, <2>7
<1> QED BY <1>1, Invariant, PTL

\* A projection closes an issue only for a green verdict that is not older.
LEMMA FinishCloses ==
  ASSUME Inv, NEW i \in 1..Len(works), NEW st \in {"passed", "failed", "unpublished"}, Finish(i, st),
         Open, ~Open'
  PROVE  works'[i].st = "passed" /\ works[i].st # "passed" /\ i >= issue.seq
<1>1. PICK o \in Origins : o = works[i].origin
  <2>1. works[i] \in Works BY DEF Inv, TypeOK
  <2> QED BY <2>1 DEF Works
<1>2. PICK out \in {"passed", "failed"} : out = IF st = "passed" THEN "passed" ELSE "failed"
  OBVIOUS
<1>3. /\ Advances(o, i, out) /\ proj' = [proj EXCEPT ![o] = [seq |-> i, out |-> out]]
      /\ Follow(proj')
  BY <1>1, <1>2 DEF Finish, Project, Open
<1>4. /\ Origins = {"branch", "promotion"} /\ proj \in Projections /\ issue.origin \in Origins
      /\ works \in Seq(Works) /\ i \in Nat
      /\ \A q \in Origins : proj[q].seq \in Nat /\ proj[q].out \in {"none", "passed", "failed"}
  BY DEF Origins, Inv, TypeOK, Projections, Issues
<1>5. proj' \in Projections BY <1>3, <1>4 DEF Projections
<1>6. \A q \in Origins : ~Wants(proj', q) BY <1>5, FollowFacts, <1>3
<1>7. /\ proj'[o].seq = i /\ proj'[o].out = out
      /\ \A q \in Origins : q # o => proj'[q] = proj[q]
  BY <1>3, <1>4 DEF Projections
<1>8. proj'["branch"].out # "failed" BY <1>4, <1>5, <1>6, SomeoneWants
<1>9. Wants(proj, issue.origin) /\ issue.seq = proj[issue.origin].seq
  BY DEF Inv, IssueFollows
<1>10. CASE issue.origin = "branch"
  <2>1. proj["branch"].out = "failed" BY <1>9, <1>10 DEF Wants, Failed
  <2>2. o = "branch" BY <1>4, <1>7, <1>8, <2>1
  <2>3. out = "passed" BY <1>7, <1>8, <2>2
  <2>4. proj["branch"].seq <= i BY <1>3, <1>4, <2>2 DEF Advances
  <2> QED BY <1>2, <1>4, <1>9, <1>10, <2>3, <2>4 DEF Finish
<1>11. CASE issue.origin = "promotion"
  <2>1. /\ proj["promotion"].out = "failed"
        /\ ~(proj["branch"].out = "passed" /\ proj["branch"].seq > proj["promotion"].seq)
    BY <1>9, <1>11 DEF Wants, Failed, Superseded
  <2>2. ~Wants(proj', "promotion") BY <1>4, <1>6
  <2>3. proj'["promotion"].out = "failed" =>
          proj'["branch"].out = "passed" /\ proj'["branch"].seq > proj'["promotion"].seq
    <3>1. proj'["promotion"].seq \in Nat BY <1>4, <1>5 DEF Projections
    <3> QED BY <1>4, <1>8, <2>2, <3>1 DEF Wants, Failed, Superseded
  <2>4. CASE o = "branch"
    <3>1. proj'["promotion"] = proj["promotion"] BY <1>4, <1>7, <2>4
    <3>2. out = "passed" /\ i > proj["promotion"].seq BY <1>7, <2>1, <2>3, <2>4, <3>1
    <3> QED BY <1>2, <1>4, <1>9, <1>11, <3>2 DEF Finish
  <2>5. CASE o = "promotion"
    <3>1. proj'["branch"] = proj["branch"] BY <1>4, <1>7, <2>5
    <3>2. proj["promotion"].seq <= i BY <1>3, <1>4, <2>5 DEF Advances
    <3>3. out = "passed" BY <1>4, <1>7, <2>1, <2>3, <2>5, <3>1, <3>2
    <3> QED BY <1>2, <1>4, <1>9, <1>11, <3>2, <3>3 DEF Finish
  <2> QED BY <1>4, <2>4, <2>5
<1> QED BY <1>4, <1>10, <1>11

\* The issue of the default branch is closed by no reconciler and by no verdict
\* but a green one that is not older than the failure.
THEOREM DefaultClosesOnGreenAlways == Spec => DefaultClosesOnGreen
<1> DEFINE A == default /\ Open /\ ~Open' /\ touches' = touches =>
                  \E i \in 1..Len(works) :
                     works'[i].st = "passed" /\ works[i].st # "passed" /\ i >= issue.seq
<1>1. Inv /\ [Next]_vars => [A]_vars
  <2> SUFFICES ASSUME Inv, Next, default, Open, ~Open', touches' = touches
               PROVE  \E i \in 1..Len(works) :
                        works'[i].st = "passed" /\ works[i].st # "passed" /\ i >= issue.seq
    OBVIOUS
  <2>1. CASE Register BY <2>1 DEF Register, Open
  <2>2. CASE Verdicts
    <3>1. PICK i \in 1..Len(works) :
            Drop(i) \/ RetryPublication(i) \/ \E st \in {"passed", "failed", "unpublished"} : Finish(i, st)
      BY <2>2 DEF Verdicts
    <3>2. ~Drop(i) /\ ~RetryPublication(i) BY DEF Drop, RetryPublication, Open
    <3> QED BY <3>1, <3>2, FinishCloses
  <2>3. CASE Edit
    <3>1. issue' = [issue EXCEPT !.at = clock'] /\ issue \in Issues BY <2>3 DEF Edit, Inv, TypeOK
    <3> QED BY <3>1 DEF Open, Issues
  <2>4. CASE CloseByHand
    <3>1. touches \in Nat /\ touches' = touches + 1 BY <2>4 DEF CloseByHand, Inv, TypeOK
    <3> QED BY <3>1
  <2>5. CASE Settle \/ List \/ Look BY <2>5 DEF Settle, List, Look, Open
  <2>6. CASE AutoClose BY <2>6 DEF AutoClose, SameVersion, Open
  <2> QED BY <2>1, <2>2, <2>3, <2>4, <2>5, <2>6 DEF Next, Reconcile
<1> QED BY <1>1, Invariant, PTL DEF Spec, DefaultClosesOnGreen
=============================================================================
