------------------------- MODULE RunWorkflow_proofs -------------------------
(***************************************************************************)
(* Proofs about a run and its Workflow, for any number of runs, refs,      *)
(* workers and faults: a claimed run starts with a name nothing of an      *)
(* earlier attempt can use, a verdict is given when the Workflow is over,  *)
(* an obligation without a Job name has an owner, and, while the process   *)
(* lives and its deletes succeed, no Workflow is orphaned.                 *)
(***************************************************************************)
EXTENDS RunLifecycle_proofs

-----------------------------------------------------------------------------
(* The inductive invariant, on top of IInv *)

\* Nothing of the run's name runs or is about to; nothing runs any more.
Quiet(r) == wf[r] \in {"absent", "deleting"} /\ ~post[r]
Ended(r) == wf[r] # "live" /\ ~post[r]

\* An entry of the pass is about the run.
InPass(a, r) == \E e \in pass[a] : e.id = r

\* Steps of a worker: from the durable contract to MarkRunSubmitted; with the
\* create answered; with a run it has not let go of.
Submitting == {"checked", "reserved", "posting", "posted", "created", "unmarked"}
Answered == {"posted", "created", "unmarked", "wiped", "observe", "resumed", "wipe", "adopted",
             "record", "decide"}
Holding == BeforeCreate \cup Answered \cup {"posting", "undo", "rearm", "uncertain"}

\* What the row, the worker and the settlement say of the cluster.
ClusterInv(r) ==
  /\ post[r] => wf[r] \in {"absent", "deleting"}
  /\ run[r].status \in Unclaimed \/ wk[r] \in BeforeCreate => Quiet(r)
  /\ Running(r) /\ (~run[r].job \/ (run[r].phase = "waiting" /\ ~run[r].started)) => Quiet(r)
  /\ Running(r) /\ post[r] =>
       (run[r].phase = "waiting" /\ contract[r]) \/ run[r].phase = "infrastructure-pending"
  /\ run[r].status \in Terminal /\ ~Preempted(r) => Ended(r)
  /\ pub[r] # "none" => Ended(r)
  /\ settle[r].step \in {"gone", "confirmed"} => wf[r] = "absent" /\ ~post[r]
  /\ wk[r] \in Answered => ~post[r]
  /\ wk[r] \in {"wiped", "record", "decide"} => Preempted(r) \/ Ended(r)

\* Whoever holds a run holds a running or a preempted one, and a running one is
\* where its holder believes it is.
HolderInv(r) ==
  /\ wk[r] \in Holding \/ todo[r] # "none" => Running(r) \/ Preempted(r)
  /\ Running(r) /\ todo[r] # "none" => todo[r] = run[r].phase
  /\ Running(r) /\ wk[r] \in BeforeCreate \cup {"posting", "posted", "created"} =>
       run[r].phase = "waiting"
  /\ Running(r) /\ wk[r] \in Submitting => contract[r]
  /\ Running(r) /\ wk[r] \in {"admitted"} \cup Submitting => run[r].started
  /\ mode # "up" => wk[r] \in {"none", "adopted"}

\* Who may still publish a Job name, and who needs one.
NameInv(r) ==
  /\ Running(r) /\ ~run[r].job => mode = "down" \/ wk[r] \in {"claimed", "prepare"}
  /\ run[r].phase = "infrastructure-pending" \/ pub[r] # "none" => run[r].job
  /\ can[r].open /\ ~can[r].job =>
       /\ mode = "down" \/ wk[r] \in {"claimed", "prepare", "leave"}
       /\ can[r].reason = "superseded" /\ Preempted(r)

\* A cancelled intent is of a run that is over, a reserved one of its creator.
IntentInv(r) ==
  /\ intent[r] = "cancelled" => run[r].status \in Terminal /\ pub[r] = "none"
  /\ intent[r] = "reserved" => wk[r] \in {"reserved", "posting", "posted"}
  /\ mode # "up" => intent[r] = "none"

\* Passes work on runs that are over or uncertain, and the startup pass on the
\* requeued ones too, none of which is forgotten.
ListInv(r) ==
  /\ \A a \in Agents : InPass(a, r) =>
       /\ run[r].status # "none" /\ pub[r] = "none" /\ mode # "down"
       /\ Active(r) => \/ Running(r) /\ run[r].phase = "infrastructure-pending"
                       \/ run[r].status = "queued" /\ a = "loop" /\ mode = "swept"
  /\ r \in asked => Preempted(r) /\ mode # "down"
  /\ run[r].status = "queued" /\ can[r].open =>
       can[r].job /\ mode # "up" /\ (mode = "swept" => InPass("loop", r))
  /\ run[r].status = "none" => ~can[r].open

WorkInv(r) == ClusterInv(r) /\ HolderInv(r) /\ NameInv(r) /\ IntentInv(r) /\ ListInv(r)
WInv == \A r \in Runs : WorkInv(r)

\* A step that leaves everything WorkInv(r) reads alone.
ListKept(r) == /\ \A a \in Agents : InPass(a, r)' => InPass(a, r)
               /\ mode = "swept" /\ InPass("loop", r) => InPass("loop", r)'
               /\ r \in asked' => r \in asked
SameTables(r) == /\ run'[r] = run[r] /\ can'[r] = can[r] /\ pub'[r] = pub[r]
                 /\ contract'[r] = contract[r] /\ wf'[r] = wf[r] /\ post'[r] = post[r]
SameMemory(r) == /\ wk'[r] = wk[r] /\ settle'[r] = settle[r] /\ todo'[r] = todo[r]
                 /\ intent'[r] = intent[r]
Still(r) == SameTables(r) /\ SameMemory(r) /\ ListKept(r)

\* The names of states, always visible.
USE DEF Unclaimed, Terminal, BeforeCreate, Submitting, Answered, Holding, Quiet, Ended,
        Running, Active, Preempted, isPendingCreate

LEMMA StillKeeps ==
  ASSUME NEW r \in Runs, WorkInv(r), mode' = mode, Still(r)
  PROVE  WorkInv(r)'
<1>1. ClusterInv(r)'
  BY DEF WorkInv, ClusterInv, Still, SameTables, SameMemory
<1>2. HolderInv(r)' /\ NameInv(r)' /\ IntentInv(r)'
  BY DEF WorkInv, HolderInv, NameInv, IntentInv, Still, SameTables, SameMemory
<1>3. ListInv(r)'
  <2>1. "loop" \in Agents
    BY DEF Agents
  <2> QED
    BY <2>1 DEF WorkInv, ListInv, Still, SameTables, ListKept
<1> QED
  BY <1>1, <1>2, <1>3 DEF WorkInv

\* A step about one run preserves the invariant of all of them when it preserves
\* that run's.
LEMMA OneRun ==
  ASSUME NEW r \in Runs, WInv, mode' = mode, WorkInv(r)', \A x \in Runs \ {r} : Still(x)
  PROVE  WInv'
BY StillKeeps DEF WInv

-----------------------------------------------------------------------------
(* The inductive invariant of a process that has not stopped, while deletes *)
(* get through: no Workflow is without an owner                            *)

\* No delete fails.
Sure == "delete" \notin FaultKinds

\* A Workflow runs or may still appear; the one of a preempted run whose creator
\* has let go of it.
InCluster(r) == wf[r] = "live" \/ post[r]
Unheld(r) == Preempted(r) /\ InCluster(r) /\ wk[r] \notin CreateOwners

\* Before the scheduler is up there is nothing in the cluster. Then whoever lets
\* go of a Workflow that is or may appear leaves an obligation with its name, and
\* of a request in flight a row that says so.
OwnInv(r) ==
  /\ mode # "up" => /\ wf[r] = "absent" /\ ~post[r] /\ ~Running(r)
                    /\ wk[r] = "none" /\ todo[r] = "none"
  /\ Unheld(r) => can[r].open /\ can[r].job
  /\ post[r] => \/ wk[r] \in {"posting", "uncertain"} \/ isPendingCreate(r)
                \/ settle[r].step # "none"
  /\ wk[r] \in {"undo", "undone"} \/ settle[r].step = "finished" => ~post[r]
  /\ wk[r] = "undone" => wf[r] # "live"
  /\ wk[r] # "rearm"
  /\ wk[r] \in CreateOwners \cup {"gate", "admitted", "checked", "reserved"} => run[r].job
  /\ run[r].phase = "infrastructure-pending" => Running(r) /\ run[r].unsure

\* A pass that has deleted a Workflow retires the obligation only if the Workflow is
\* still gone, or its creator sees to it: a later write of the row is told apart.
EntryInv(r) ==
  \A a \in Agents : \A e \in pass[a] : e.id = r =>
    /\ e.row.open /\ e.row.at <= can[r].at
    /\ e.gone /\ can[r] = e.row => ~Unheld(r)

OwnersInv == \A r \in Runs : OwnInv(r) /\ EntryInv(r)

\* A step that adds no entry about the run; that makes no obligation look like an
\* older one while its Workflow is unheld; that leaves all that the invariant reads.
EntryKept(r) == \A a \in Agents : \A e \in pass'[a] : e.id = r => e \in pass[a]
RowMoves(r) ==
  \/ can'[r] = can[r] /\ (Unheld(r)' => Unheld(r))
  \/ can'[r].at > can[r].at
  \/ can'[r].at = can[r].at /\ (~can'[r].open \/ ~Unheld(r)')
Undisturbed(r) == SameTables(r) /\ SameMemory(r) /\ EntryKept(r)

LEMMA EntryStep ==
  ASSUME TypeOK, TypeOK', NEW r \in Runs, EntryInv(r), EntryKept(r), RowMoves(r)
  PROVE  EntryInv(r)'
<1> SUFFICES ASSUME NEW a \in Agents, NEW e \in pass'[a], e.id = r
             PROVE  /\ e.row.open /\ e.row.at <= can'[r].at
                    /\ e.gone /\ can'[r] = e.row => ~Unheld(r)'
  BY DEF EntryInv
<1>1. e \in pass[a]
  BY DEF EntryKept
<1>2. /\ e.row.open /\ e.row.at <= can[r].at
      /\ e.gone /\ can[r] = e.row => ~Unheld(r)
  BY <1>1 DEF EntryInv
<1>3. e \in Entry /\ can[r] \in Obligation /\ can'[r] \in Obligation
  BY <1>1 DEF TypeOK
<1>4. e.row.at \in Nat /\ can[r].at \in Nat /\ can'[r].at \in Nat
  BY <1>3 DEF Entry, Obligation
<1>5. can'[r] = e.row => can'[r].at <= can[r].at /\ can'[r].open
  BY <1>2
<1> QED
  BY <1>2, <1>4, <1>5 DEF RowMoves

LEMMA UndisturbedKeeps ==
  ASSUME TypeOK, TypeOK', NEW r \in Runs, OwnInv(r), EntryInv(r), mode' = mode, Undisturbed(r)
  PROVE  OwnInv(r)' /\ EntryInv(r)'
<1>1. OwnInv(r)'
  BY DEF OwnInv, Unheld, InCluster, Undisturbed, SameTables, SameMemory
<1>2. RowMoves(r)
  BY DEF RowMoves, Unheld, InCluster, Undisturbed, SameTables, SameMemory
<1> QED
  BY <1>1, <1>2, EntryStep DEF Undisturbed

LEMMA OneOwner ==
  ASSUME TypeOK, TypeOK', NEW r \in Runs, OwnersInv, mode' = mode, OwnInv(r)', EntryInv(r)',
         \A x \in Runs \ {r} : Undisturbed(x)
  PROVE  OwnersInv'
BY UndisturbedKeeps DEF OwnersInv

-----------------------------------------------------------------------------
(* What the operators of the settlement write *)

\* MarkRunCreatePending: the status and the name stay, the obligation has a name.
LEMMA PendingWrites ==
  ASSUME TypeOK, NEW r \in Runs
  PROVE  /\ PendingRow(r)[r].status = run[r].status /\ PendingRow(r)[r].job = run[r].job
         /\ PendingRow(r)[r].superseded = run[r].superseded
         /\ PendingRow(r)[r].started = run[r].started
         /\ PendingRow(r)[r].phase =
              IF Running(r) THEN "infrastructure-pending" ELSE run[r].phase
         /\ PendingRow(r)[r].unsure
         /\ PendingObligation(r)[r].job /\ PendingObligation(r)[r].open
         /\ PendingObligation(r)[r].at = can[r].at + 1
         /\ \A x \in Runs \ {r} : PendingRow(r)[x] = run[x] /\ PendingObligation(r)[x] = can[x]
<1> DEFINE p == IF Running(r) THEN "infrastructure-pending" ELSE run[r].phase
           row == [run[r] EXCEPT !.unsure = TRUE, !.phase = p]
<1>1. run[r] \in Row
  BY DEF TypeOK
<1>2. row.status = run[r].status /\ row.job = run[r].job /\ row.started = run[r].started
  BY <1>1 DEF Row
<1>3. row.superseded = run[r].superseded /\ row.phase = p /\ row.unsure
  BY <1>1 DEF Row
<1>4. PendingRow(r) = [run EXCEPT ![r] = row]
  BY DEF PendingRow
<1>5. PendingRow(r)[r] = row /\ \A x \in Runs \ {r} : PendingRow(r)[x] = run[x]
  BY <1>4 DEF TypeOK
<1>6. /\ PendingObligation(r)[r].job /\ PendingObligation(r)[r].open
      /\ PendingObligation(r)[r].at = can[r].at + 1
      /\ \A x \in Runs \ {r} : PendingObligation(r)[x] = can[x]
  BY DEF PendingObligation, Upsert, TypeOK
<1> HIDE DEF row
<1> QED
  BY <1>2, <1>3, <1>5, <1>6

\* registerCreateCleanup: a registered run keeps its entry.
LEMMA RegisterWrites ==
  ASSUME TypeOK, NEW r \in Runs, NEW b \in BOOLEAN
  PROVE  /\ Register(r, b)[r].step \in {"armed", "todo"} \/ Register(r, b)[r] = settle[r]
         /\ settle[r].step = "none" => Register(r, b)[r].step \in {"armed", "todo"}
         /\ \A x \in Runs \ {r} : Register(r, b)[x] = settle[x]
<1>1. \A s : [NoSettle EXCEPT !.step = s].step = s
  BY DEF NoSettle
<1>2. Register(r, b)[r] =
        IF settle[r].step # "none" THEN settle[r]
        ELSE [NoSettle EXCEPT !.step = IF b THEN "armed" ELSE "todo"]
  BY DEF Register, TypeOK
<1>3. \A x \in Runs \ {r} : Register(r, b)[x] = settle[x]
  BY DEF Register, TypeOK
<1>4. ASSUME settle[r].step = "none"
      PROVE  Register(r, b)[r].step \in {"armed", "todo"}
  BY <1>1, <1>2, <1>4
<1> QED
  BY <1>2, <1>3, <1>4

\* A pass that notes a deletion keeps its entries.
LEMMA EntriesKept ==
  ASSUME TypeOK, NEW a \in Agents, NEW e \in pass[a],
         pass' = [pass EXCEPT ![a] = (@ \ {e}) \cup {[e EXCEPT !.gone = TRUE]}]
  PROVE  \A b \in Agents, x \in Runs : InPass(b, x)' <=> InPass(b, x)
<1> DEFINE f == [e EXCEPT !.gone = TRUE]
<1>1. e \in Entry /\ pass \in [Agents -> SUBSET Entry]
  BY DEF TypeOK
<1>2. f.id = e.id
  BY <1>1 DEF Entry
<1>3. pass'[a] = (pass[a] \ {e}) \cup {f}
  BY <1>1
<1>4. \A b \in Agents \ {a} : pass'[b] = pass[b]
  BY <1>1
<1> HIDE DEF f
<1>5. \A x \in Runs : (\E y \in pass'[a] : y.id = x) <=> (\E y \in pass[a] : y.id = x)
  BY <1>2, <1>3
<1> QED
  BY <1>4, <1>5 DEF InPass

\* Such an entry keeps its run and its row.
LEMMA MarkedEntries ==
  ASSUME TypeOK, NEW a \in Agents, NEW e \in pass[a],
         pass' = [pass EXCEPT ![a] = (@ \ {e}) \cup {[e EXCEPT !.gone = TRUE]}]
  PROVE  \A b \in Agents : \A f \in pass'[b] :
           f \in pass[b] \/ (f.id = e.id /\ f.row = e.row /\ b = a)
<1> DEFINE g == [e EXCEPT !.gone = TRUE]
<1>1. e \in Entry /\ pass \in [Agents -> SUBSET Entry]
  BY DEF TypeOK
<1>2. g.id = e.id /\ g.row = e.row
  BY <1>1 DEF Entry
<1>3. pass'[a] = (pass[a] \ {e}) \cup {g} /\ \A b \in Agents \ {a} : pass'[b] = pass[b]
  BY <1>1
<1> HIDE DEF g
<1> QED
  BY <1>2, <1>3

\* ClaimNextRun: the fence behind the ledger makes the Workflows of the queue quiet.
LEMMA ClaimWork ==
  ASSUME IInv, WInv, NEW r \in Runs, ClaimNextRun(r)
  PROVE  WInv' /\ (Sure /\ TypeOK' /\ OwnersInv => OwnersInv')
<1>1. /\ TypeOK /\ RunInv(r) /\ WorkInv(r) /\ mode' = mode
      /\ run[r] \in Row /\ can[r] \in Obligation /\ "loop" \in Agents
  BY DEF ClaimNextRun, IInv, WInv, TypeOK, Agents
<1>2. /\ mode = "up" /\ wk[r] = "none" /\ wk'[r] = "claimed"
      /\ run[r].status = "queued" /\ ~can[r].open
      /\ UNCHANGED <<can, pub, contract, wf, post, todo, intent, settle, asked>>
  BY <1>1 DEF Claimable, ClaimNextRun, cluster, TypeOK, At, Goto
<1>3. run'[r].status = "running" /\ run'[r].phase = "waiting"
  BY <1>1 DEF Row, ClaimNextRun, cluster, TypeOK, At, Goto
<1>4. run[r].phase # "infrastructure-pending" /\ pub[r] = "none"
  BY <1>1, <1>2 DEF RunInv, RowInv
<1>5. ListKept(r)
  BY <1>1 DEF ListKept, InPass, ClaimNextRun, cluster
<1>6. ClusterInv(r)'
  BY <1>1, <1>2, <1>3, <1>4 DEF WorkInv, ClusterInv, HolderInv, NameInv, IntentInv, RunInv,
     RowInv, PubInv, PendInv, CanInv, ProcInv
<1>7. HolderInv(r)'
  BY <1>1, <1>2, <1>3, <1>4 DEF WorkInv, ClusterInv, HolderInv, NameInv, IntentInv, RunInv,
     RowInv, PubInv, PendInv, CanInv, ProcInv
<1>8. NameInv(r)' /\ IntentInv(r)'
  BY <1>1, <1>2, <1>3, <1>4 DEF WorkInv, ClusterInv, HolderInv, NameInv, IntentInv, RunInv,
     RowInv, PubInv, PendInv, CanInv, ProcInv
<1>9. ListInv(r)'
  BY <1>1, <1>2, <1>3, <1>4, <1>5 DEF WorkInv, ListInv, ListKept, HolderInv, NameInv,
     RunInv, RowInv, PubInv, PendInv, CanInv, ProcInv
<1>10. \A x \in Runs \ {r} : Still(x)
  BY <1>1 DEF Still, SameTables, SameMemory, ListKept, InPass, ClaimNextRun, cluster,
     TypeOK, Goto
<1>11. ASSUME Sure, TypeOK', OwnersInv
      PROVE  OwnersInv'
  <2>1. OwnInv(r) /\ EntryInv(r)
    BY <1>11 DEF OwnersInv
  <2>2. OwnInv(r)'
    BY <1>1, <1>2, <1>3, <1>4, <2>1 DEF OwnInv, Unheld, InCluster, CreateOwners, WorkInv,
       ClusterInv, HolderInv, NameInv, IntentInv, RunInv, RowInv, PubInv, PendInv, CanInv,
       ProcInv
  <2>3. RowMoves(r)
    BY <1>1, <1>2, <1>3, <1>4, <2>1 DEF RowMoves, OwnInv, Unheld, InCluster, CreateOwners,
       WorkInv, ClusterInv, HolderInv, NameInv, IntentInv, RunInv, RowInv, PubInv, PendInv,
       CanInv, ProcInv
  <2>4. \A x \in Runs : EntryKept(x)
    BY <1>1 DEF EntryKept, ClaimNextRun, cluster, TypeOK
  <2> QED
    BY <1>1, <1>11, <2>1, <2>2, <2>3, <2>4, <1>10, EntryStep, OneOwner DEF Undisturbed,
       Still
<1> QED
  BY <1>1, <1>6, <1>7, <1>8, <1>9, <1>10, <1>11, OneRun DEF WorkInv

\* BeginExecute and PolicyStopped: the worker goes on with a run that is active.
LEMMA BeginWork ==
  ASSUME IInv, WInv, NEW r \in Runs, BeginExecute(r) \/ PolicyStopped(r)
  PROVE  WInv' /\ (Sure /\ TypeOK' /\ OwnersInv => OwnersInv')
<1>1. /\ TypeOK /\ RunInv(r) /\ WorkInv(r) /\ mode' = mode
      /\ run[r] \in Row /\ can[r] \in Obligation /\ "loop" \in Agents
  BY DEF BeginExecute, PolicyStopped, IInv, WInv, TypeOK, Agents
<1>2. /\ mode = "up" /\ UNCHANGED <<run, can, pub, wf, post, todo, intent, settle, asked>>
      /\ \/ wk[r] = "claimed" /\ wk'[r] = "prepare" /\ Active(r)
         \/ wk[r] \in {"claimed", "prepare"} /\ wk'[r] = "leave" /\ ~Active(r)
  BY <1>1 DEF BeginExecute, PolicyStopped, durable, cluster, TypeOK, At, Goto
<1>3. ListKept(r)
  BY <1>1 DEF ListKept, InPass, BeginExecute, PolicyStopped, durable, cluster
<1>4. ClusterInv(r)'
  BY <1>1, <1>2 DEF WorkInv, ClusterInv, HolderInv, NameInv, IntentInv, RunInv, RowInv,
     PubInv, PendInv, CanInv, ProcInv
<1>5. HolderInv(r)'
  BY <1>1, <1>2 DEF WorkInv, ClusterInv, HolderInv, NameInv, IntentInv, RunInv, RowInv,
     PubInv, PendInv, CanInv, ProcInv
<1>6. NameInv(r)' /\ IntentInv(r)'
  BY <1>1, <1>2 DEF WorkInv, ClusterInv, HolderInv, NameInv, IntentInv, RunInv, RowInv,
     PubInv, PendInv, CanInv, ProcInv
<1>7. ListInv(r)'
  BY <1>1, <1>2, <1>3 DEF WorkInv, ListInv, ListKept, HolderInv, NameInv, RunInv, RowInv,
     PubInv, PendInv, CanInv, ProcInv
<1>8. \A x \in Runs \ {r} : Still(x)
  BY <1>1 DEF Still, SameTables, SameMemory, ListKept, InPass, BeginExecute, PolicyStopped,
     durable, cluster, TypeOK, Goto
<1>9. ASSUME Sure, TypeOK', OwnersInv
      PROVE  OwnersInv'
  <2>1. OwnInv(r) /\ EntryInv(r)
    BY <1>9 DEF OwnersInv
  <2>2. OwnInv(r)'
    BY <1>1, <1>2, <2>1 DEF OwnInv, Unheld, InCluster, CreateOwners, WorkInv, ClusterInv,
       HolderInv, NameInv, IntentInv, RunInv, RowInv, PubInv, PendInv, CanInv, ProcInv
  <2>3. RowMoves(r)
    BY <1>1, <1>2, <2>1 DEF RowMoves, OwnInv, Unheld, InCluster, CreateOwners, WorkInv,
       ClusterInv, HolderInv, NameInv, IntentInv, RunInv, RowInv, PubInv, PendInv, CanInv,
       ProcInv
  <2>4. \A x \in Runs : EntryKept(x)
    BY <1>1 DEF EntryKept, BeginExecute, PolicyStopped, durable, cluster, TypeOK
  <2> QED
    BY <1>1, <1>9, <2>1, <2>2, <2>3, <2>4, <1>8, EntryStep, OneOwner DEF Undisturbed, Still
<1> QED
  BY <1>1, <1>4, <1>5, <1>6, <1>7, <1>8, <1>9, OneRun DEF WorkInv

\* FailBeforeCreate and AbortEarly: no Workflow exists yet when the run is failed.
LEMMA FailWork ==
  ASSUME IInv, WInv, NEW r \in Runs, FailBeforeCreate(r) \/ AbortEarly(r)
  PROVE  WInv' /\ (Sure /\ TypeOK' /\ OwnersInv => OwnersInv')
<1>1. /\ TypeOK /\ RunInv(r) /\ WorkInv(r) /\ mode' = mode
      /\ run[r] \in Row /\ can[r] \in Obligation /\ "loop" \in Agents
  BY DEF FailBeforeCreate, AbortEarly, IInv, WInv, TypeOK, Agents
<1>2. /\ mode = "up" /\ wk[r] \in BeforeCreate /\ wk'[r] = "leave"
      /\ UNCHANGED <<can, pub, contract, wf, post, todo, settle, asked>>
      /\ run'[r] = FinishRow(run[r], "failed", "infrastructure")
      /\ intent'[r] \in {"none", "cancelled"}
      /\ intent'[r] = "cancelled" => intent[r] = "cancelled"
  BY <1>1 DEF FailBeforeCreate, AbortEarly, cluster, TypeOK, At, Goto
<1>3. \/ run'[r] = run[r] /\ ~Active(r)
      \/ /\ Active(r) /\ run'[r].status = "failed" /\ run'[r].phase = "infrastructure"
         /\ run'[r].job = run[r].job
  BY <1>1, <1>2 DEF Row, FinishRow
<1>4. ListKept(r)
  BY <1>1 DEF ListKept, InPass, FailBeforeCreate, AbortEarly, cluster
<1>5. ClusterInv(r)'
  BY <1>1, <1>2, <1>3 DEF WorkInv, ClusterInv, HolderInv, NameInv, IntentInv, RunInv,
     RowInv, PubInv, PendInv, CanInv, ProcInv
<1>6. HolderInv(r)'
  BY <1>1, <1>2, <1>3 DEF WorkInv, ClusterInv, HolderInv, NameInv, IntentInv, RunInv,
     RowInv, PubInv, PendInv, CanInv, ProcInv
<1>7. NameInv(r)' /\ IntentInv(r)'
  BY <1>1, <1>2, <1>3 DEF WorkInv, ClusterInv, HolderInv, NameInv, IntentInv, RunInv,
     RowInv, PubInv, PendInv, CanInv, ProcInv
<1>8. ListInv(r)'
  BY <1>1, <1>2, <1>3, <1>4 DEF WorkInv, ListInv, ListKept, HolderInv, NameInv, RunInv,
     RowInv, PubInv, PendInv, CanInv, ProcInv
<1>9. \A x \in Runs \ {r} : Still(x)
  BY <1>1 DEF Still, SameTables, SameMemory, ListKept, InPass, FailBeforeCreate, AbortEarly,
     cluster, TypeOK, Goto
<1>10. ASSUME Sure, TypeOK', OwnersInv
      PROVE  OwnersInv'
  <2>1. OwnInv(r) /\ EntryInv(r)
    BY <1>10 DEF OwnersInv
  <2>2. OwnInv(r)'
    BY <1>1, <1>2, <1>3, <2>1 DEF OwnInv, Unheld, InCluster, CreateOwners, WorkInv,
       ClusterInv, HolderInv, NameInv, IntentInv, RunInv, RowInv, PubInv, PendInv, CanInv,
       ProcInv
  <2>3. RowMoves(r)
    BY <1>1, <1>2, <1>3, <2>1 DEF RowMoves, OwnInv, Unheld, InCluster, CreateOwners,
       WorkInv, ClusterInv, HolderInv, NameInv, IntentInv, RunInv, RowInv, PubInv, PendInv,
       CanInv, ProcInv
  <2>4. \A x \in Runs : EntryKept(x)
    BY <1>1 DEF EntryKept, FailBeforeCreate, AbortEarly, cluster, TypeOK
  <2> QED
    BY <1>1, <1>10, <2>1, <2>2, <2>3, <2>4, <1>9, EntryStep, OneOwner DEF Undisturbed, Still
<1> QED
  BY <1>1, <1>5, <1>6, <1>7, <1>8, <1>9, <1>10, OneRun DEF WorkInv

\* SetRunWorkflowName: a preempted run gets its name into the obligation too.
LEMMA NameWork ==
  ASSUME IInv, WInv, NEW r \in Runs, SetRunWorkflowName(r)
  PROVE  WInv' /\ (Sure /\ TypeOK' /\ OwnersInv => OwnersInv')
<1>1. /\ TypeOK /\ RunInv(r) /\ WorkInv(r) /\ mode' = mode
      /\ run[r] \in Row /\ can[r] \in Obligation /\ "loop" \in Agents
  BY DEF SetRunWorkflowName, IInv, WInv, TypeOK, Agents
<1>2. /\ mode = "up" /\ wk[r] = "prepare" /\ wk'[r] = IF Preempted(r) THEN "sweep" ELSE "gate"
      /\ UNCHANGED <<pub, contract, wf, post, todo, intent, settle, asked>>
      /\ run'[r] = [run[r] EXCEPT !.job = TRUE] /\ (~Preempted(r) => can'[r] = can[r])
  BY <1>1 DEF SetRunWorkflowName, cluster, TypeOK, At, Goto
<1>3. /\ Preempted(r) /\ can'[r].open => can'[r].job
      /\ can'[r].at \in {can[r].at, can[r].at + 1} /\ can[r].at \in Nat
  BY <1>1 DEF Upsert, Obligation, SetRunWorkflowName, cluster, TypeOK, At, Goto
<1>4. /\ run'[r].status = run[r].status /\ run'[r].phase = run[r].phase /\ run'[r].job
      /\ run'[r].started = run[r].started /\ run'[r].superseded = run[r].superseded
      /\ run'[r].unsure = run[r].unsure
  BY <1>1, <1>2 DEF Row
<1>5. ListKept(r)
  BY <1>1 DEF ListKept, InPass, SetRunWorkflowName, cluster
<1>6. ClusterInv(r)'
  BY <1>1, <1>2, <1>3, <1>4 DEF WorkInv, ClusterInv, HolderInv, NameInv, IntentInv, RunInv,
     RowInv, PubInv, PendInv, CanInv, ProcInv
<1>7. HolderInv(r)'
  BY <1>1, <1>2, <1>3, <1>4 DEF WorkInv, ClusterInv, HolderInv, NameInv, IntentInv, RunInv,
     RowInv, PubInv, PendInv, CanInv, ProcInv
<1>8. NameInv(r)' /\ IntentInv(r)'
  BY <1>1, <1>2, <1>3, <1>4 DEF WorkInv, ClusterInv, HolderInv, NameInv, IntentInv, RunInv,
     RowInv, PubInv, PendInv, CanInv, ProcInv
<1>9. ListInv(r)'
  BY <1>1, <1>2, <1>3, <1>4, <1>5 DEF WorkInv, ListInv, ListKept, HolderInv, NameInv,
     RunInv, RowInv, PubInv, PendInv, CanInv, ProcInv
<1>10. \A x \in Runs \ {r} : Still(x)
  BY <1>1 DEF Still, SameTables, SameMemory, ListKept, InPass, SetRunWorkflowName, cluster,
     TypeOK, Goto
<1>11. ASSUME Sure, TypeOK', OwnersInv
      PROVE  OwnersInv'
  <2>1. OwnInv(r) /\ EntryInv(r)
    BY <1>11 DEF OwnersInv
  <2>2. OwnInv(r)'
    BY <1>1, <1>2, <1>3, <1>4, <2>1 DEF OwnInv, Unheld, InCluster, CreateOwners, WorkInv,
       ClusterInv, HolderInv, NameInv, IntentInv, RunInv, RowInv, PubInv, PendInv, CanInv,
       ProcInv
  <2>3. RowMoves(r)
    BY <1>1, <1>2, <1>3, <1>4, <2>1 DEF RowMoves, OwnInv, Unheld, InCluster, CreateOwners,
       WorkInv, ClusterInv, HolderInv, NameInv, IntentInv, RunInv, RowInv, PubInv, PendInv,
       CanInv, ProcInv
  <2>4. \A x \in Runs : EntryKept(x)
    BY <1>1 DEF EntryKept, SetRunWorkflowName, cluster, TypeOK
  <2> QED
    BY <1>1, <1>11, <2>1, <2>2, <2>3, <2>4, <1>10, EntryStep, OneOwner DEF Undisturbed,
       Still
<1> QED
  BY <1>1, <1>6, <1>7, <1>8, <1>9, <1>10, <1>11, OneRun DEF WorkInv

\* MarkRunAdmitted
LEMMA AdmitWork ==
  ASSUME IInv, WInv, NEW r \in Runs, MarkRunAdmitted(r)
  PROVE  WInv' /\ (Sure /\ TypeOK' /\ OwnersInv => OwnersInv')
<1>1. /\ TypeOK /\ RunInv(r) /\ WorkInv(r) /\ mode' = mode
      /\ run[r] \in Row /\ can[r] \in Obligation /\ "loop" \in Agents
  BY DEF MarkRunAdmitted, IInv, WInv, TypeOK, Agents
<1>2. /\ mode = "up" /\ wk[r] = "gate"
      /\ UNCHANGED <<can, pub, contract, wf, post, todo, intent, settle, asked>>
      /\ \/ Preempted(r) /\ run'[r] = run[r] /\ wk'[r] = "sweep"
         \/ ~Preempted(r) /\ run'[r] = [run[r] EXCEPT !.started = TRUE] /\ wk'[r] = "admitted"
  BY <1>1 DEF MarkRunAdmitted, cluster, TypeOK, At, Goto
<1>3. /\ run'[r].status = run[r].status /\ run'[r].phase = run[r].phase /\ run'[r].job = run[r].job
      /\ run'[r].superseded = run[r].superseded /\ (run[r].started => run'[r].started)
      /\ (wk'[r] = "admitted" => run'[r].started) /\ run'[r].unsure = run[r].unsure
  BY <1>1, <1>2 DEF Row
<1>4. ListKept(r)
  BY <1>1 DEF ListKept, InPass, MarkRunAdmitted, cluster
<1>5. ClusterInv(r)'
  BY <1>1, <1>2, <1>3 DEF WorkInv, ClusterInv, HolderInv, NameInv, IntentInv, RunInv,
     RowInv, PubInv, PendInv, CanInv, ProcInv
<1>6. HolderInv(r)'
  BY <1>1, <1>2, <1>3 DEF WorkInv, ClusterInv, HolderInv, NameInv, IntentInv, RunInv,
     RowInv, PubInv, PendInv, CanInv, ProcInv
<1>7. NameInv(r)' /\ IntentInv(r)'
  BY <1>1, <1>2, <1>3 DEF WorkInv, ClusterInv, HolderInv, NameInv, IntentInv, RunInv,
     RowInv, PubInv, PendInv, CanInv, ProcInv
<1>8. ListInv(r)'
  BY <1>1, <1>2, <1>3, <1>4 DEF WorkInv, ListInv, ListKept, HolderInv, NameInv, RunInv,
     RowInv, PubInv, PendInv, CanInv, ProcInv
<1>9. \A x \in Runs \ {r} : Still(x)
  BY <1>1 DEF Still, SameTables, SameMemory, ListKept, InPass, MarkRunAdmitted, cluster,
     TypeOK, Goto
<1>10. ASSUME Sure, TypeOK', OwnersInv
      PROVE  OwnersInv'
  <2>1. OwnInv(r) /\ EntryInv(r)
    BY <1>10 DEF OwnersInv
  <2>2. OwnInv(r)'
    BY <1>1, <1>2, <1>3, <2>1 DEF OwnInv, Unheld, InCluster, CreateOwners, WorkInv,
       ClusterInv, HolderInv, NameInv, IntentInv, RunInv, RowInv, PubInv, PendInv, CanInv,
       ProcInv
  <2>3. RowMoves(r)
    BY <1>1, <1>2, <1>3, <2>1 DEF RowMoves, OwnInv, Unheld, InCluster, CreateOwners,
       WorkInv, ClusterInv, HolderInv, NameInv, IntentInv, RunInv, RowInv, PubInv, PendInv,
       CanInv, ProcInv
  <2>4. \A x \in Runs : EntryKept(x)
    BY <1>1 DEF EntryKept, MarkRunAdmitted, cluster, TypeOK
  <2> QED
    BY <1>1, <1>10, <2>1, <2>2, <2>3, <2>4, <1>9, EntryStep, OneOwner DEF Undisturbed, Still
<1> QED
  BY <1>1, <1>5, <1>6, <1>7, <1>8, <1>9, <1>10, OneRun DEF WorkInv

\* RecheckBeforeCreate and ReserveIntent: the contract is durable before the intent.
LEMMA RecheckWork ==
  ASSUME IInv, WInv, NEW r \in Runs, RecheckBeforeCreate(r) \/ ReserveIntent(r)
  PROVE  WInv' /\ (Sure /\ TypeOK' /\ OwnersInv => OwnersInv')
<1>1. /\ TypeOK /\ RunInv(r) /\ WorkInv(r) /\ mode' = mode
      /\ run[r] \in Row /\ can[r] \in Obligation /\ "loop" \in Agents
  BY DEF RecheckBeforeCreate, ReserveIntent, IInv, WInv, TypeOK, Agents
<1>2. /\ mode = "up" /\ UNCHANGED <<run, can, pub, wf, post, todo, settle, asked>>
      /\ \/ /\ wk[r] = "admitted" /\ Preempted(r) /\ wk'[r] = "sweep"
            /\ intent'[r] = intent[r] /\ contract'[r] = contract[r]
         \/ /\ wk[r] = "admitted" /\ wk'[r] = "checked" /\ contract'[r]
            /\ intent'[r] = intent[r]
         \/ /\ wk[r] = "checked" /\ wk'[r] = "reserved" /\ intent'[r] = "reserved"
            /\ contract'[r] = contract[r]
         \/ /\ wk[r] = "checked" /\ wk'[r] = "created" /\ intent'[r] = intent[r]
            /\ intent[r] # "none" /\ contract'[r] = contract[r]
  BY <1>1 DEF RecheckBeforeCreate, ReserveIntent, durable, cluster, TypeOK, At, Goto
<1>3. ListKept(r)
  BY <1>1 DEF ListKept, InPass, RecheckBeforeCreate, ReserveIntent, durable, cluster
<1>4. ClusterInv(r)'
  BY <1>1, <1>2 DEF WorkInv, ClusterInv, HolderInv, NameInv, IntentInv, RunInv, RowInv,
     PubInv, PendInv, CanInv, ProcInv
<1>5. HolderInv(r)'
  BY <1>1, <1>2 DEF WorkInv, ClusterInv, HolderInv, NameInv, IntentInv, RunInv, RowInv,
     PubInv, PendInv, CanInv, ProcInv
<1>6. NameInv(r)' /\ IntentInv(r)'
  BY <1>1, <1>2 DEF WorkInv, ClusterInv, HolderInv, NameInv, IntentInv, RunInv, RowInv,
     PubInv, PendInv, CanInv, ProcInv
<1>7. ListInv(r)'
  BY <1>1, <1>2, <1>3 DEF WorkInv, ListInv, ListKept, HolderInv, NameInv, RunInv, RowInv,
     PubInv, PendInv, CanInv, ProcInv
<1>8. \A x \in Runs \ {r} : Still(x)
  BY <1>1 DEF Still, SameTables, SameMemory, ListKept, InPass, RecheckBeforeCreate,
     ReserveIntent, durable, cluster, TypeOK, Goto
<1>9. ASSUME Sure, TypeOK', OwnersInv
      PROVE  OwnersInv'
  <2>1. OwnInv(r) /\ EntryInv(r)
    BY <1>9 DEF OwnersInv
  <2>2. OwnInv(r)'
    BY <1>1, <1>2, <2>1 DEF OwnInv, Unheld, InCluster, CreateOwners, WorkInv, ClusterInv,
       HolderInv, NameInv, IntentInv, RunInv, RowInv, PubInv, PendInv, CanInv, ProcInv
  <2>3. RowMoves(r)
    BY <1>1, <1>2, <2>1 DEF RowMoves, OwnInv, Unheld, InCluster, CreateOwners, WorkInv,
       ClusterInv, HolderInv, NameInv, IntentInv, RunInv, RowInv, PubInv, PendInv, CanInv,
       ProcInv
  <2>4. \A x \in Runs : EntryKept(x)
    BY <1>1 DEF EntryKept, RecheckBeforeCreate, ReserveIntent, durable, cluster, TypeOK
  <2> QED
    BY <1>1, <1>9, <2>1, <2>2, <2>3, <2>4, <1>8, EntryStep, OneOwner DEF Undisturbed, Still
<1> QED
  BY <1>1, <1>4, <1>5, <1>6, <1>7, <1>8, <1>9, OneRun DEF WorkInv

\* SendCreate and CreateTimesOut: the row says that a request may be out.
LEMMA SendWork ==
  ASSUME IInv, WInv, NEW r \in Runs, SendCreate(r) \/ CreateTimesOut(r)
  PROVE  WInv' /\ (Sure /\ TypeOK' /\ OwnersInv => OwnersInv')
<1>1. /\ TypeOK /\ RunInv(r) /\ WorkInv(r) /\ mode' = mode
      /\ run[r] \in Row /\ can[r] \in Obligation /\ "loop" \in Agents
  BY DEF SendCreate, CreateTimesOut, IInv, WInv, TypeOK, Agents
<1>2. /\ mode = "up" /\ UNCHANGED <<run, can, pub, contract, wf, todo, settle, asked>>
      /\ \/ wk[r] = "reserved" /\ wk'[r] = "posting" /\ post'[r] /\ intent'[r] = intent[r]
         \/ /\ wk[r] = "posting" /\ wk'[r] = "uncertain" /\ post'[r] = post[r]
            /\ intent'[r] \in {"none", "cancelled"}
            /\ (intent'[r] = "cancelled" => intent[r] = "cancelled")
  BY <1>1 DEF SendCreate, CreateTimesOut, durable, cluster, TypeOK, At, Goto
<1>3. ListKept(r)
  BY <1>1 DEF ListKept, InPass, SendCreate, CreateTimesOut, durable, cluster
<1>4. ClusterInv(r)'
  BY <1>1, <1>2 DEF WorkInv, ClusterInv, HolderInv, NameInv, IntentInv, RunInv, RowInv,
     PubInv, PendInv, CanInv, ProcInv
<1>5. HolderInv(r)'
  BY <1>1, <1>2 DEF WorkInv, ClusterInv, HolderInv, NameInv, IntentInv, RunInv, RowInv,
     PubInv, PendInv, CanInv, ProcInv
<1>6. NameInv(r)' /\ IntentInv(r)'
  BY <1>1, <1>2 DEF WorkInv, ClusterInv, HolderInv, NameInv, IntentInv, RunInv, RowInv,
     PubInv, PendInv, CanInv, ProcInv
<1>7. ListInv(r)'
  BY <1>1, <1>2, <1>3 DEF WorkInv, ListInv, ListKept, HolderInv, NameInv, RunInv, RowInv,
     PubInv, PendInv, CanInv, ProcInv
<1>8. \A x \in Runs \ {r} : Still(x)
  BY <1>1 DEF Still, SameTables, SameMemory, ListKept, InPass, SendCreate, CreateTimesOut,
     durable, cluster, TypeOK, Goto
<1>9. ASSUME Sure, TypeOK', OwnersInv
      PROVE  OwnersInv'
  <2>1. OwnInv(r) /\ EntryInv(r)
    BY <1>9 DEF OwnersInv
  <2>2. OwnInv(r)'
    BY <1>1, <1>2, <2>1 DEF OwnInv, Unheld, InCluster, CreateOwners, WorkInv, ClusterInv,
       HolderInv, NameInv, IntentInv, RunInv, RowInv, PubInv, PendInv, CanInv, ProcInv
  <2>3. RowMoves(r)
    BY <1>1, <1>2, <2>1 DEF RowMoves, OwnInv, Unheld, InCluster, CreateOwners, WorkInv,
       ClusterInv, HolderInv, NameInv, IntentInv, RunInv, RowInv, PubInv, PendInv, CanInv,
       ProcInv
  <2>4. \A x \in Runs : EntryKept(x)
    BY <1>1 DEF EntryKept, SendCreate, CreateTimesOut, durable, cluster, TypeOK
  <2> QED
    BY <1>1, <1>9, <2>1, <2>2, <2>3, <2>4, <1>8, EntryStep, OneOwner DEF Undisturbed, Still
<1> QED
  BY <1>1, <1>4, <1>5, <1>6, <1>7, <1>8, <1>9, OneRun DEF WorkInv

\* PostLands: a request in flight is of a run whose row or whose worker admits it.
LEMMA LandWork ==
  ASSUME IInv, WInv, NEW r \in Runs, PostLands(r)
  PROVE  WInv' /\ (Sure /\ TypeOK' /\ OwnersInv => OwnersInv')
<1>1. /\ TypeOK /\ RunInv(r) /\ WorkInv(r) /\ mode' = mode
      /\ run[r] \in Row /\ can[r] \in Obligation /\ "loop" \in Agents
  BY DEF PostLands, IInv, WInv, TypeOK, Agents
<1>2. /\ post[r] /\ ~post'[r] /\ UNCHANGED <<run, can, pub, contract, todo, intent, settle, asked>>
      /\ wf'[r] = wf[r] \/ (wf[r] = "absent" /\ wf'[r] = "live")
      /\ \/ wk[r] = "posting" /\ wk'[r] = "posted"
         \/ wk[r] # "posting" /\ wk'[r] = wk[r]
  BY <1>1 DEF PostLands, durable, TypeOK, At, Goto
<1>3. ListKept(r)
  BY <1>1 DEF ListKept, InPass, PostLands, durable
<1>4. ClusterInv(r)'
  BY <1>1, <1>2 DEF WorkInv, ClusterInv, HolderInv, NameInv, IntentInv, RunInv, RowInv,
     PubInv, PendInv, CanInv, ProcInv
<1>5. HolderInv(r)'
  BY <1>1, <1>2 DEF WorkInv, ClusterInv, HolderInv, NameInv, IntentInv, RunInv, RowInv,
     PubInv, PendInv, CanInv, ProcInv
<1>6. NameInv(r)' /\ IntentInv(r)'
  BY <1>1, <1>2 DEF WorkInv, ClusterInv, HolderInv, NameInv, IntentInv, RunInv, RowInv,
     PubInv, PendInv, CanInv, ProcInv
<1>7. ListInv(r)'
  BY <1>1, <1>2, <1>3 DEF WorkInv, ListInv, ListKept, HolderInv, NameInv, RunInv, RowInv,
     PubInv, PendInv, CanInv, ProcInv
<1>8. \A x \in Runs \ {r} : Still(x)
  BY <1>1 DEF Still, SameTables, SameMemory, ListKept, InPass, PostLands, durable, TypeOK,
     Goto
<1>9. ASSUME Sure, TypeOK', OwnersInv
      PROVE  OwnersInv'
  <2>1. OwnInv(r) /\ EntryInv(r)
    BY <1>9 DEF OwnersInv
  <2>2. OwnInv(r)'
    BY <1>1, <1>2, <2>1 DEF OwnInv, Unheld, InCluster, CreateOwners, WorkInv, ClusterInv,
       HolderInv, NameInv, IntentInv, RunInv, RowInv, PubInv, PendInv, CanInv, ProcInv
  <2>3. RowMoves(r)
    BY <1>1, <1>2, <2>1 DEF RowMoves, OwnInv, Unheld, InCluster, CreateOwners, WorkInv,
       ClusterInv, HolderInv, NameInv, IntentInv, RunInv, RowInv, PubInv, PendInv, CanInv,
       ProcInv
  <2>4. \A x \in Runs : EntryKept(x)
    BY <1>1 DEF EntryKept, PostLands, durable, TypeOK
  <2> QED
    BY <1>1, <1>9, <2>1, <2>2, <2>3, <2>4, <1>8, EntryStep, OneOwner DEF Undisturbed, Still
<1> QED
  BY <1>1, <1>4, <1>5, <1>6, <1>7, <1>8, <1>9, OneRun DEF WorkInv

\* PostRefused: nothing of the run's name can run when the worker fails the run.
LEMMA RefuseWork ==
  ASSUME IInv, WInv, NEW r \in Runs, PostRefused(r)
  PROVE  WInv' /\ (Sure /\ TypeOK' /\ OwnersInv => OwnersInv')
<1>1. /\ TypeOK /\ RunInv(r) /\ WorkInv(r) /\ mode' = mode
      /\ run[r] \in Row /\ can[r] \in Obligation /\ "loop" \in Agents
  BY DEF PostRefused, IInv, WInv, TypeOK, Agents
<1>2. /\ post[r] /\ ~post'[r] /\ UNCHANGED <<can, pub, contract, wf, todo, settle, asked>>
      /\ \/ /\ wk[r] = "posting" /\ wk'[r] = "leave"
            /\ run'[r] = FinishRow(run[r], "failed", "infrastructure")
            /\ intent'[r] \in {"none", "cancelled"}
            /\ (intent'[r] = "cancelled" => intent[r] = "cancelled")
         \/ wk[r] # "posting" /\ run'[r] = run[r] /\ intent'[r] = intent[r] /\ wk'[r] = wk[r]
  BY <1>1 DEF PostRefused, TypeOK, At, Goto
<1>3. \/ run'[r] = run[r] /\ (wk[r] = "posting" => ~Active(r))
      \/ /\ wk[r] = "posting" /\ Active(r) /\ run'[r].status = "failed"
         /\ run'[r].phase = "infrastructure" /\ run'[r].job = run[r].job
  BY <1>1, <1>2 DEF Row, FinishRow
<1>4. ListKept(r)
  BY <1>1 DEF ListKept, InPass, PostRefused
<1>5. ClusterInv(r)'
  BY <1>1, <1>2, <1>3 DEF WorkInv, ClusterInv, HolderInv, NameInv, IntentInv, RunInv,
     RowInv, PubInv, PendInv, CanInv, ProcInv
<1>6. HolderInv(r)'
  BY <1>1, <1>2, <1>3 DEF WorkInv, ClusterInv, HolderInv, NameInv, IntentInv, RunInv,
     RowInv, PubInv, PendInv, CanInv, ProcInv
<1>7. NameInv(r)' /\ IntentInv(r)'
  BY <1>1, <1>2, <1>3 DEF WorkInv, ClusterInv, HolderInv, NameInv, IntentInv, RunInv,
     RowInv, PubInv, PendInv, CanInv, ProcInv
<1>8. ListInv(r)'
  BY <1>1, <1>2, <1>3, <1>4 DEF WorkInv, ListInv, ListKept, HolderInv, NameInv, RunInv,
     RowInv, PubInv, PendInv, CanInv, ProcInv
<1>9. \A x \in Runs \ {r} : Still(x)
  BY <1>1 DEF Still, SameTables, SameMemory, ListKept, InPass, PostRefused, TypeOK, Goto
<1>10. ASSUME Sure, TypeOK', OwnersInv
      PROVE  OwnersInv'
  <2>1. OwnInv(r) /\ EntryInv(r)
    BY <1>10 DEF OwnersInv
  <2>2. OwnInv(r)'
    BY <1>1, <1>2, <1>3, <2>1 DEF OwnInv, Unheld, InCluster, CreateOwners, WorkInv,
       ClusterInv, HolderInv, NameInv, IntentInv, RunInv, RowInv, PubInv, PendInv, CanInv,
       ProcInv
  <2>3. RowMoves(r)
    BY <1>1, <1>2, <1>3, <2>1 DEF RowMoves, OwnInv, Unheld, InCluster, CreateOwners,
       WorkInv, ClusterInv, HolderInv, NameInv, IntentInv, RunInv, RowInv, PubInv, PendInv,
       CanInv, ProcInv
  <2>4. \A x \in Runs : EntryKept(x)
    BY <1>1 DEF EntryKept, PostRefused, TypeOK
  <2> QED
    BY <1>1, <1>10, <2>1, <2>2, <2>3, <2>4, <1>9, EntryStep, OneOwner DEF Undisturbed, Still
<1> QED
  BY <1>1, <1>5, <1>6, <1>7, <1>8, <1>9, <1>10, OneRun DEF WorkInv

\* WorkflowFinishes and WorkflowGone
LEMMA EndWork ==
  ASSUME IInv, WInv, NEW r \in Runs, WorkflowGone(r) \/ \E v \in {"passed", "failed"} :
         WorkflowFinishes(r, v)
  PROVE  WInv' /\ (Sure /\ TypeOK' /\ OwnersInv => OwnersInv')
<1>1. /\ TypeOK /\ RunInv(r) /\ WorkInv(r) /\ mode' = mode
      /\ run[r] \in Row /\ can[r] \in Obligation /\ "loop" \in Agents
  BY DEF WorkflowGone, WorkflowFinishes, IInv, WInv, TypeOK, Agents, memory
<1>2. /\ UNCHANGED <<run, can, pub, contract, post, wk, todo, intent, settle, asked>>
      /\ \/ wf[r] = "live" /\ wf'[r] \in {"passed", "failed"}
         \/ wf[r] = "deleting" /\ wf'[r] = "absent"
  BY <1>1 DEF WorkflowGone, WorkflowFinishes, durable, memory, TypeOK, At, Goto
<1>3. ListKept(r)
  BY <1>1 DEF ListKept, InPass, WorkflowGone, WorkflowFinishes, durable, memory
<1>4. ClusterInv(r)'
  BY <1>1, <1>2 DEF WorkInv, ClusterInv, HolderInv, NameInv, IntentInv, RunInv, RowInv,
     PubInv, PendInv, CanInv, ProcInv
<1>5. HolderInv(r)'
  BY <1>1, <1>2 DEF WorkInv, ClusterInv, HolderInv, NameInv, IntentInv, RunInv, RowInv,
     PubInv, PendInv, CanInv, ProcInv
<1>6. NameInv(r)' /\ IntentInv(r)'
  BY <1>1, <1>2 DEF WorkInv, ClusterInv, HolderInv, NameInv, IntentInv, RunInv, RowInv,
     PubInv, PendInv, CanInv, ProcInv
<1>7. ListInv(r)'
  BY <1>1, <1>2, <1>3 DEF WorkInv, ListInv, ListKept, HolderInv, NameInv, RunInv, RowInv,
     PubInv, PendInv, CanInv, ProcInv
<1>8. \A x \in Runs \ {r} : Still(x)
  BY <1>1 DEF Still, SameTables, SameMemory, ListKept, InPass, WorkflowGone,
     WorkflowFinishes, durable, memory, TypeOK, Goto
<1>9. ASSUME Sure, TypeOK', OwnersInv
      PROVE  OwnersInv'
  <2>1. OwnInv(r) /\ EntryInv(r)
    BY <1>9 DEF OwnersInv
  <2>2. OwnInv(r)'
    BY <1>1, <1>2, <2>1 DEF OwnInv, Unheld, InCluster, CreateOwners, WorkInv, ClusterInv,
       HolderInv, NameInv, IntentInv, RunInv, RowInv, PubInv, PendInv, CanInv, ProcInv
  <2>3. RowMoves(r)
    BY <1>1, <1>2, <2>1 DEF RowMoves, OwnInv, Unheld, InCluster, CreateOwners, WorkInv,
       ClusterInv, HolderInv, NameInv, IntentInv, RunInv, RowInv, PubInv, PendInv, CanInv,
       ProcInv
  <2>4. \A x \in Runs : EntryKept(x)
    BY <1>1 DEF EntryKept, WorkflowGone, WorkflowFinishes, durable, memory, TypeOK
  <2> QED
    BY <1>1, <1>9, <2>1, <2>2, <2>3, <2>4, <1>8, EntryStep, OneOwner DEF Undisturbed, Still
<1> QED
  BY <1>1, <1>4, <1>5, <1>6, <1>7, <1>8, <1>9, OneRun DEF WorkInv

\* AfterCreate: a cancelled intent is of a run that was preempted meanwhile.
LEMMA AfterWork ==
  ASSUME IInv, WInv, NEW r \in Runs, NEW ok \in BOOLEAN, AfterCreate(r, ok)
  PROVE  WInv' /\ (Sure /\ TypeOK' /\ OwnersInv => OwnersInv')
<1>1. /\ TypeOK /\ RunInv(r) /\ WorkInv(r) /\ mode' = mode
      /\ run[r] \in Row /\ can[r] \in Obligation /\ "loop" \in Agents
  BY DEF AfterCreate, IInv, WInv, TypeOK, Agents
<1>2. /\ mode = "up" /\ wk[r] = "posted"
      /\ UNCHANGED <<can, pub, contract, post, todo, settle, asked>>
      /\ wf'[r] = wf[r] \/ (wf[r] # "absent" /\ wf'[r] = "deleting")
      /\ \/ /\ intent[r] = "cancelled" /\ intent'[r] = "none" /\ wk'[r] = "leave"
            /\ run'[r] = FinishRow(run[r], "failed", "infrastructure")
         \/ /\ intent[r] # "cancelled" /\ wk'[r] = "created" /\ run'[r] = run[r]
            /\ intent'[r] \notin {"cancelled", "reserved"}
  BY <1>1 DEF Cancelled, AfterCreate, TypeOK, At, Goto
<1>3. run'[r] = run[r]
  BY <1>1, <1>2 DEF FinishRow, WorkInv, IntentInv
<1>4. ListKept(r)
  BY <1>1 DEF ListKept, InPass, AfterCreate
<1>5. ClusterInv(r)'
  BY <1>1, <1>2, <1>3 DEF WorkInv, ClusterInv, HolderInv, NameInv, IntentInv, RunInv,
     RowInv, PubInv, PendInv, CanInv, ProcInv
<1>6. HolderInv(r)'
  BY <1>1, <1>2, <1>3 DEF WorkInv, ClusterInv, HolderInv, NameInv, IntentInv, RunInv,
     RowInv, PubInv, PendInv, CanInv, ProcInv
<1>7. NameInv(r)' /\ IntentInv(r)'
  BY <1>1, <1>2, <1>3 DEF WorkInv, ClusterInv, HolderInv, NameInv, IntentInv, RunInv,
     RowInv, PubInv, PendInv, CanInv, ProcInv
<1>8. ListInv(r)'
  BY <1>1, <1>2, <1>3, <1>4 DEF WorkInv, ListInv, ListKept, HolderInv, NameInv, RunInv,
     RowInv, PubInv, PendInv, CanInv, ProcInv
<1>9. \A x \in Runs \ {r} : Still(x)
  BY <1>1 DEF Still, SameTables, SameMemory, ListKept, InPass, AfterCreate, TypeOK, Goto
<1>10. ASSUME Sure, TypeOK', OwnersInv
      PROVE  OwnersInv'
  <2>1. OwnInv(r) /\ EntryInv(r)
    BY <1>10 DEF OwnersInv
  <2>2. wk'[r] = "leave" => wf'[r] # "live"
    BY <1>1, <1>10, <1>2 DEF Cancelled, AfterCreate, TypeOK, At, Goto, Sure, Fault
  <2>3. OwnInv(r)'
    BY <1>1, <1>2, <1>3, <2>1, <2>2 DEF OwnInv, Unheld, InCluster, CreateOwners, WorkInv,
       ClusterInv, HolderInv, NameInv, IntentInv, RunInv, RowInv, PubInv, PendInv, CanInv,
       ProcInv
  <2>4. RowMoves(r)
    BY <1>1, <1>2, <1>3, <2>1, <2>2 DEF RowMoves, OwnInv, Unheld, InCluster, CreateOwners,
       WorkInv, ClusterInv, HolderInv, NameInv, IntentInv, RunInv, RowInv, PubInv, PendInv,
       CanInv, ProcInv
  <2>5. \A x \in Runs : EntryKept(x)
    BY <1>1 DEF EntryKept, AfterCreate, TypeOK
  <2> QED
    BY <1>1, <1>10, <2>1, <2>3, <2>4, <2>5, <1>9, EntryStep, OneOwner DEF Undisturbed, Still
<1> QED
  BY <1>1, <1>5, <1>6, <1>7, <1>8, <1>9, <1>10, OneRun DEF WorkInv

\* MarkRunSubmitted
LEMMA SubmitWork ==
  ASSUME IInv, WInv, NEW r \in Runs, MarkRunSubmitted(r)
  PROVE  WInv' /\ (Sure /\ TypeOK' /\ OwnersInv => OwnersInv')
<1>1. /\ TypeOK /\ RunInv(r) /\ WorkInv(r) /\ mode' = mode
      /\ run[r] \in Row /\ can[r] \in Obligation /\ "loop" \in Agents
  BY DEF MarkRunSubmitted, IInv, WInv, TypeOK, Agents
<1>2. /\ mode = "up" /\ wk[r] = "created"
      /\ UNCHANGED <<can, pub, wf, post, todo, intent, settle, asked>>
      /\ \/ Preempted(r) /\ run'[r] = run[r] /\ wk'[r] = "undo"
         \/ /\ Running(r) /\ run[r].job /\ run[r].phase = "waiting" /\ wk'[r] = "observe"
            /\ run'[r] = [run[r] EXCEPT !.phase = "running", !.started = TRUE]
  BY <1>1 DEF MarkRunSubmitted, cluster, TypeOK, At, Goto
<1>3. \/ run'[r] = run[r] /\ Preempted(r) /\ wk'[r] = "undo"
      \/ /\ wk'[r] = "observe" /\ Running(r) /\ run[r].phase = "waiting"
         /\ run'[r].status = "running" /\ run'[r].phase = "running" /\ run'[r].job
  BY <1>1, <1>2 DEF Row
<1>4. ListKept(r)
  BY <1>1 DEF ListKept, InPass, MarkRunSubmitted, cluster
<1>5. ClusterInv(r)'
  BY <1>1, <1>2, <1>3 DEF WorkInv, ClusterInv, HolderInv, NameInv, IntentInv, RunInv,
     RowInv, PubInv, PendInv, CanInv, ProcInv
<1>6. HolderInv(r)'
  BY <1>1, <1>2, <1>3 DEF WorkInv, ClusterInv, HolderInv, NameInv, IntentInv, RunInv,
     RowInv, PubInv, PendInv, CanInv, ProcInv
<1>7. NameInv(r)' /\ IntentInv(r)'
  BY <1>1, <1>2, <1>3 DEF WorkInv, ClusterInv, HolderInv, NameInv, IntentInv, RunInv,
     RowInv, PubInv, PendInv, CanInv, ProcInv
<1>8. ListInv(r)'
  BY <1>1, <1>2, <1>3, <1>4 DEF WorkInv, ListInv, ListKept, HolderInv, NameInv, RunInv,
     RowInv, PubInv, PendInv, CanInv, ProcInv
<1>9. \A x \in Runs \ {r} : Still(x)
  BY <1>1 DEF Still, SameTables, SameMemory, ListKept, InPass, MarkRunSubmitted, cluster,
     TypeOK, Goto
<1>10. ASSUME Sure, TypeOK', OwnersInv
      PROVE  OwnersInv'
  <2>1. OwnInv(r) /\ EntryInv(r)
    BY <1>10 DEF OwnersInv
  <2>2. OwnInv(r)'
    BY <1>1, <1>2, <1>3, <2>1 DEF OwnInv, Unheld, InCluster, CreateOwners, WorkInv,
       ClusterInv, HolderInv, NameInv, IntentInv, RunInv, RowInv, PubInv, PendInv, CanInv,
       ProcInv
  <2>3. RowMoves(r)
    BY <1>1, <1>2, <1>3, <2>1 DEF RowMoves, OwnInv, Unheld, InCluster, CreateOwners,
       WorkInv, ClusterInv, HolderInv, NameInv, IntentInv, RunInv, RowInv, PubInv, PendInv,
       CanInv, ProcInv
  <2>4. \A x \in Runs : EntryKept(x)
    BY <1>1 DEF EntryKept, MarkRunSubmitted, cluster, TypeOK
  <2> QED
    BY <1>1, <1>10, <2>1, <2>2, <2>3, <2>4, <1>9, EntryStep, OneOwner DEF Undisturbed, Still
<1> QED
  BY <1>1, <1>5, <1>6, <1>7, <1>8, <1>9, <1>10, OneRun DEF WorkInv

\* SubmitUnverified: whether or not the row was marked, the owner keeps the Workflow.
LEMMA UnmarkedWork ==
  ASSUME IInv, WInv, NEW r \in Runs, SubmitUnverified(r)
  PROVE  WInv' /\ (Sure /\ TypeOK' /\ OwnersInv => OwnersInv')
<1>1. /\ TypeOK /\ RunInv(r) /\ WorkInv(r) /\ mode' = mode
      /\ run[r] \in Row /\ can[r] \in Obligation /\ "loop" \in Agents
  BY DEF SubmitUnverified, IInv, WInv, TypeOK, Agents
<1>2. /\ mode = "up" /\ wk[r] = "created"
      /\ wk'[r] = "unmarked"
      /\ UNCHANGED <<can, pub, contract, wf, post, todo, intent, settle, asked>>
      /\ \/ run'[r] = run[r]
         \/ /\ Running(r) /\ run[r].job /\ run[r].phase = "waiting"
            /\ run'[r] = [run[r] EXCEPT !.phase = "running", !.started = TRUE]
  BY <1>1 DEF SubmitUnverified, cluster, TypeOK, At, Goto
<1>3. \/ run'[r] = run[r]
      \/ /\ Running(r) /\ run[r].phase = "waiting" /\ run'[r].status = "running"
         /\ run'[r].phase = "running" /\ run'[r].job /\ run'[r].started
  BY <1>1, <1>2 DEF Row
<1>4. ListKept(r)
  BY <1>1 DEF ListKept, InPass, SubmitUnverified, cluster
<1>5. ClusterInv(r)'
  BY <1>1, <1>2, <1>3 DEF WorkInv, ClusterInv, HolderInv, NameInv, IntentInv, RunInv,
     RowInv, PubInv, PendInv, CanInv, ProcInv
<1>6. HolderInv(r)'
  BY <1>1, <1>2, <1>3 DEF WorkInv, ClusterInv, HolderInv, NameInv, IntentInv, RunInv,
     RowInv, PubInv, PendInv, CanInv, ProcInv
<1>7. NameInv(r)' /\ IntentInv(r)'
  BY <1>1, <1>2, <1>3 DEF WorkInv, ClusterInv, HolderInv, NameInv, IntentInv, RunInv,
     RowInv, PubInv, PendInv, CanInv, ProcInv
<1>8. ListInv(r)'
  BY <1>1, <1>2, <1>3, <1>4 DEF WorkInv, ListInv, ListKept, HolderInv, NameInv, RunInv,
     RowInv, PubInv, PendInv, CanInv, ProcInv
<1>9. \A x \in Runs \ {r} : Still(x)
  BY <1>1 DEF Still, SameTables, SameMemory, ListKept, InPass, SubmitUnverified, cluster,
     TypeOK, Goto
<1>10. ASSUME Sure, TypeOK', OwnersInv
      PROVE  OwnersInv'
  <2>1. OwnInv(r) /\ EntryInv(r)
    BY <1>10 DEF OwnersInv
  <2>2. OwnInv(r)'
    BY <1>1, <1>2, <1>3, <2>1 DEF OwnInv, Unheld, InCluster, CreateOwners, WorkInv,
       ClusterInv, HolderInv, NameInv, IntentInv, RunInv, RowInv, PubInv, PendInv, CanInv,
       ProcInv
  <2>3. RowMoves(r)
    BY <1>1, <1>2, <1>3, <2>1 DEF RowMoves, OwnInv, Unheld, InCluster, CreateOwners,
       WorkInv, ClusterInv, HolderInv, NameInv, IntentInv, RunInv, RowInv, PubInv, PendInv,
       CanInv, ProcInv
  <2>4. \A x \in Runs : EntryKept(x)
    BY <1>1 DEF EntryKept, SubmitUnverified, cluster, TypeOK
  <2> QED
    BY <1>1, <1>10, <2>1, <2>2, <2>3, <2>4, <1>9, EntryStep, OneOwner DEF Undisturbed, Still
<1> QED
  BY <1>1, <1>5, <1>6, <1>7, <1>8, <1>9, <1>10, OneRun DEF WorkInv

\* DeleteUnverified: the delete succeeded, or the run was preempted.
LEMMA WipedWork ==
  ASSUME IInv, WInv, NEW r \in Runs, NEW ok \in BOOLEAN, DeleteUnverified(r, ok)
  PROVE  WInv' /\ (Sure /\ TypeOK' /\ OwnersInv => OwnersInv')
<1>1. /\ TypeOK /\ RunInv(r) /\ WorkInv(r) /\ mode' = mode
      /\ run[r] \in Row /\ can[r] \in Obligation /\ "loop" \in Agents
  BY DEF DeleteUnverified, Delete, IInv, WInv, TypeOK, Agents
<1>2. /\ mode = "up" /\ wk[r] = "unmarked"
      /\ UNCHANGED <<run, can, pub, contract, post, todo, settle, asked>>
      /\ wf'[r] = wf[r] \/ (wf[r] # "absent" /\ wf'[r] = "deleting")
      /\ intent'[r] # "reserved"
      /\ (intent'[r] = "cancelled" => intent[r] \in {"reserved", "cancelled"})
      /\ \/ wk'[r] = "uncertain"
         \/ /\ wk'[r] = "wiped"
            /\ wf'[r] \in {"absent", "deleting"} \/ intent[r] \in {"reserved", "cancelled"}
  BY <1>1 DEF Cancelled, DeleteSucceeds, DeleteUnverified, Delete, durable, TypeOK, At, Goto
<1>3. ListKept(r)
  BY <1>1 DEF ListKept, InPass, DeleteUnverified, Delete, durable
<1>4. ClusterInv(r)'
  BY <1>1, <1>2 DEF WorkInv, ClusterInv, HolderInv, NameInv, IntentInv, RunInv, RowInv,
     PubInv, PendInv, CanInv, ProcInv
<1>5. HolderInv(r)'
  BY <1>1, <1>2 DEF WorkInv, ClusterInv, HolderInv, NameInv, IntentInv, RunInv, RowInv,
     PubInv, PendInv, CanInv, ProcInv
<1>6. NameInv(r)' /\ IntentInv(r)'
  BY <1>1, <1>2 DEF WorkInv, ClusterInv, HolderInv, NameInv, IntentInv, RunInv, RowInv,
     PubInv, PendInv, CanInv, ProcInv
<1>7. ListInv(r)'
  BY <1>1, <1>2, <1>3 DEF WorkInv, ListInv, ListKept, HolderInv, NameInv, RunInv, RowInv,
     PubInv, PendInv, CanInv, ProcInv
<1>8. \A x \in Runs \ {r} : Still(x)
  BY <1>1 DEF Still, SameTables, SameMemory, ListKept, InPass, DeleteUnverified, Delete,
     durable, TypeOK, Goto
<1>9. ASSUME Sure, TypeOK', OwnersInv
      PROVE  OwnersInv'
  <2>1. OwnInv(r) /\ EntryInv(r)
    BY <1>9 DEF OwnersInv
  <2>2. wk'[r] = "wiped" /\ wf'[r] # "live"
    BY <1>1, <1>9, <1>2 DEF Cancelled, DeleteSucceeds, DeleteUnverified, Delete, durable, TypeOK, At,
       Goto, Sure, Fault
  <2>3. OwnInv(r)'
    BY <1>1, <1>2, <2>1, <2>2 DEF OwnInv, Unheld, InCluster, CreateOwners, WorkInv,
       ClusterInv, HolderInv, NameInv, IntentInv, RunInv, RowInv, PubInv, PendInv, CanInv,
       ProcInv
  <2>4. RowMoves(r)
    BY <1>1, <1>2, <2>1, <2>2 DEF RowMoves, OwnInv, Unheld, InCluster, CreateOwners,
       WorkInv, ClusterInv, HolderInv, NameInv, IntentInv, RunInv, RowInv, PubInv, PendInv,
       CanInv, ProcInv
  <2>5. \A x \in Runs : EntryKept(x)
    BY <1>1 DEF EntryKept, DeleteUnverified, Delete, durable, TypeOK
  <2> QED
    BY <1>1, <1>9, <2>1, <2>3, <2>4, <2>5, <1>8, EntryStep, OneOwner DEF Undisturbed, Still
<1> QED
  BY <1>1, <1>4, <1>5, <1>6, <1>7, <1>8, <1>9, OneRun DEF WorkInv

\* FailUnverified: the Workflow of the run that fails has been deleted.
LEMMA UnverifiedWork ==
  ASSUME IInv, WInv, NEW r \in Runs, FailUnverified(r)
  PROVE  WInv' /\ (Sure /\ TypeOK' /\ OwnersInv => OwnersInv')
<1>1. /\ TypeOK /\ RunInv(r) /\ WorkInv(r) /\ mode' = mode
      /\ run[r] \in Row /\ can[r] \in Obligation /\ "loop" \in Agents
  BY DEF FailUnverified, IInv, WInv, TypeOK, Agents
<1>2. /\ mode = "up" /\ wk[r] = "wiped" /\ wk'[r] = "leave"
      /\ UNCHANGED <<can, pub, contract, wf, post, todo, intent, settle, asked>>
      /\ run'[r] = FinishRow(run[r], "failed", "infrastructure")
  BY <1>1 DEF FailUnverified, cluster, TypeOK, At, Goto
<1>3. \/ run'[r] = run[r] /\ ~Active(r)
      \/ /\ Active(r) /\ run'[r].status = "failed" /\ run'[r].phase = "infrastructure"
         /\ run'[r].job = run[r].job
  BY <1>1, <1>2 DEF Row, FinishRow
<1>4. ListKept(r)
  BY <1>1 DEF ListKept, InPass, FailUnverified, cluster
<1>5. ClusterInv(r)'
  BY <1>1, <1>2, <1>3 DEF WorkInv, ClusterInv, HolderInv, NameInv, IntentInv, RunInv,
     RowInv, PubInv, PendInv, CanInv, ProcInv
<1>6. HolderInv(r)'
  BY <1>1, <1>2, <1>3 DEF WorkInv, ClusterInv, HolderInv, NameInv, IntentInv, RunInv,
     RowInv, PubInv, PendInv, CanInv, ProcInv
<1>7. NameInv(r)' /\ IntentInv(r)'
  BY <1>1, <1>2, <1>3 DEF WorkInv, ClusterInv, HolderInv, NameInv, IntentInv, RunInv,
     RowInv, PubInv, PendInv, CanInv, ProcInv
<1>8. ListInv(r)'
  BY <1>1, <1>2, <1>3, <1>4 DEF WorkInv, ListInv, ListKept, HolderInv, NameInv, RunInv,
     RowInv, PubInv, PendInv, CanInv, ProcInv
<1>9. \A x \in Runs \ {r} : Still(x)
  BY <1>1 DEF Still, SameTables, SameMemory, ListKept, InPass, FailUnverified, cluster, TypeOK,
     Goto
<1>10. ASSUME Sure, TypeOK', OwnersInv
      PROVE  OwnersInv'
  <2>1. OwnInv(r) /\ EntryInv(r)
    BY <1>10 DEF OwnersInv
  <2>2. OwnInv(r)'
    BY <1>1, <1>2, <1>3, <2>1 DEF OwnInv, Unheld, InCluster, CreateOwners, WorkInv,
       ClusterInv, HolderInv, NameInv, IntentInv, RunInv, RowInv, PubInv, PendInv, CanInv,
       ProcInv
  <2>3. RowMoves(r)
    BY <1>1, <1>2, <1>3, <2>1 DEF RowMoves, OwnInv, Unheld, InCluster, CreateOwners,
       WorkInv, ClusterInv, HolderInv, NameInv, IntentInv, RunInv, RowInv, PubInv, PendInv,
       CanInv, ProcInv
  <2>4. \A x \in Runs : EntryKept(x)
    BY <1>1 DEF EntryKept, FailUnverified, cluster, TypeOK
  <2> QED
    BY <1>1, <1>10, <2>1, <2>2, <2>3, <2>4, <1>9, EntryStep, OneOwner DEF Undisturbed, Still
<1> QED
  BY <1>1, <1>5, <1>6, <1>7, <1>8, <1>9, <1>10, OneRun DEF WorkInv

\* DeletePreempted
LEMMA UndoWork ==
  ASSUME IInv, WInv, NEW r \in Runs, NEW ok \in BOOLEAN, DeletePreempted(r, ok)
  PROVE  WInv' /\ (Sure /\ TypeOK' /\ OwnersInv => OwnersInv')
<1>1. /\ TypeOK /\ RunInv(r) /\ WorkInv(r) /\ mode' = mode
      /\ run[r] \in Row /\ can[r] \in Obligation /\ "loop" \in Agents
  BY DEF DeletePreempted, Delete, IInv, WInv, TypeOK, Agents
<1>2. /\ mode = "up" /\ wk[r] = "undo" /\ wk'[r] \in {"undone", "rearm"}
      /\ UNCHANGED <<run, can, pub, contract, post, todo, settle, asked>>
      /\ wf'[r] = wf[r] \/ (wf[r] # "absent" /\ wf'[r] = "deleting")
      /\ intent'[r] # "reserved"
      /\ intent'[r] = "cancelled" => intent[r] \in {"reserved", "cancelled"}
  BY <1>1 DEF Cancelled, DeletePreempted, Delete, durable, TypeOK, At, Goto
<1>3. ListKept(r)
  BY <1>1 DEF ListKept, InPass, DeletePreempted, Delete, durable
<1>4. ClusterInv(r)'
  BY <1>1, <1>2 DEF WorkInv, ClusterInv, HolderInv, NameInv, IntentInv, RunInv, RowInv,
     PubInv, PendInv, CanInv, ProcInv
<1>5. HolderInv(r)'
  BY <1>1, <1>2 DEF WorkInv, ClusterInv, HolderInv, NameInv, IntentInv, RunInv, RowInv,
     PubInv, PendInv, CanInv, ProcInv
<1>6. NameInv(r)' /\ IntentInv(r)'
  BY <1>1, <1>2 DEF WorkInv, ClusterInv, HolderInv, NameInv, IntentInv, RunInv, RowInv,
     PubInv, PendInv, CanInv, ProcInv
<1>7. ListInv(r)'
  BY <1>1, <1>2, <1>3 DEF WorkInv, ListInv, ListKept, HolderInv, NameInv, RunInv, RowInv,
     PubInv, PendInv, CanInv, ProcInv
<1>8. \A x \in Runs \ {r} : Still(x)
  BY <1>1 DEF Still, SameTables, SameMemory, ListKept, InPass, DeletePreempted, Delete,
     durable, TypeOK, Goto
<1>9. ASSUME Sure, TypeOK', OwnersInv
      PROVE  OwnersInv'
  <2>1. OwnInv(r) /\ EntryInv(r)
    BY <1>9 DEF OwnersInv
  <2>2. wk'[r] = "undone" /\ wf'[r] # "live"
    BY <1>1, <1>9, <1>2 DEF Cancelled, DeleteSucceeds, DeletePreempted, Delete, durable,
       TypeOK, At, Goto, Sure, Fault
  <2>3. OwnInv(r)'
    BY <1>1, <1>2, <2>1, <2>2 DEF OwnInv, Unheld, InCluster, CreateOwners, WorkInv,
       ClusterInv, HolderInv, NameInv, IntentInv, RunInv, RowInv, PubInv, PendInv, CanInv,
       ProcInv
  <2>4. RowMoves(r)
    BY <1>1, <1>2, <2>1, <2>2 DEF RowMoves, OwnInv, Unheld, InCluster, CreateOwners,
       WorkInv, ClusterInv, HolderInv, NameInv, IntentInv, RunInv, RowInv, PubInv, PendInv,
       CanInv, ProcInv
  <2>5. \A x \in Runs : EntryKept(x)
    BY <1>1 DEF EntryKept, DeletePreempted, Delete, durable, TypeOK
  <2> QED
    BY <1>1, <1>9, <2>1, <2>3, <2>4, <2>5, <1>8, EntryStep, OneOwner DEF Undisturbed, Still
<1> QED
  BY <1>1, <1>4, <1>5, <1>6, <1>7, <1>8, <1>9, OneRun DEF WorkInv

\* RearmRunCancellation: the obligation has the Job name.
LEMMA RearmWork ==
  ASSUME IInv, WInv, NEW r \in Runs, RearmRunCancellation(r)
  PROVE  WInv' /\ (Sure /\ TypeOK' /\ OwnersInv => OwnersInv')
<1>1. /\ TypeOK /\ RunInv(r) /\ WorkInv(r) /\ mode' = mode
      /\ run[r] \in Row /\ can[r] \in Obligation /\ "loop" \in Agents
  BY DEF RearmRunCancellation, IInv, WInv, TypeOK, Agents
<1>2. /\ mode = "up" /\ wk[r] = "rearm" /\ wk'[r] = "rearmed"
      /\ UNCHANGED <<run, pub, contract, wf, post, todo, intent, settle, asked>>
      /\ (~Preempted(r) => can'[r] = can[r])
  BY <1>1 DEF RearmRunCancellation, cluster, TypeOK, At, Goto
<1>3. Preempted(r) => can'[r].job
  BY <1>1 DEF Upsert, Obligation, RearmRunCancellation, cluster, TypeOK, At, Goto
<1>4. ListKept(r)
  BY <1>1 DEF ListKept, InPass, RearmRunCancellation, cluster
<1>5. ClusterInv(r)'
  BY <1>1, <1>2, <1>3 DEF WorkInv, ClusterInv, HolderInv, NameInv, IntentInv, RunInv,
     RowInv, PubInv, PendInv, CanInv, ProcInv
<1>6. HolderInv(r)'
  BY <1>1, <1>2, <1>3 DEF WorkInv, ClusterInv, HolderInv, NameInv, IntentInv, RunInv,
     RowInv, PubInv, PendInv, CanInv, ProcInv
<1>7. NameInv(r)' /\ IntentInv(r)'
  BY <1>1, <1>2, <1>3 DEF WorkInv, ClusterInv, HolderInv, NameInv, IntentInv, RunInv,
     RowInv, PubInv, PendInv, CanInv, ProcInv
<1>8. ListInv(r)'
  BY <1>1, <1>2, <1>3, <1>4 DEF WorkInv, ListInv, ListKept, HolderInv, NameInv, RunInv,
     RowInv, PubInv, PendInv, CanInv, ProcInv
<1>9. \A x \in Runs \ {r} : Still(x)
  BY <1>1 DEF Still, SameTables, SameMemory, ListKept, InPass, RearmRunCancellation,
     cluster, TypeOK, Goto
<1>10. ASSUME Sure, TypeOK', OwnersInv
      PROVE  OwnersInv'
  <2>1. OwnInv(r) /\ EntryInv(r)
    BY <1>10 DEF OwnersInv
  <2>2. OwnInv(r)'
    BY <1>1, <1>2, <1>3, <2>1 DEF OwnInv, Unheld, InCluster, CreateOwners, WorkInv,
       ClusterInv, HolderInv, NameInv, IntentInv, RunInv, RowInv, PubInv, PendInv, CanInv,
       ProcInv
  <2>3. RowMoves(r)
    BY <1>1, <1>2, <1>3, <2>1 DEF RowMoves, OwnInv, Unheld, InCluster, CreateOwners,
       WorkInv, ClusterInv, HolderInv, NameInv, IntentInv, RunInv, RowInv, PubInv, PendInv,
       CanInv, ProcInv
  <2>4. \A x \in Runs : EntryKept(x)
    BY <1>1 DEF EntryKept, RearmRunCancellation, cluster, TypeOK
  <2> QED
    BY <1>1, <1>10, <2>1, <2>2, <2>3, <2>4, <1>9, EntryStep, OneOwner DEF Undisturbed, Still
<1> QED
  BY <1>1, <1>5, <1>6, <1>7, <1>8, <1>9, <1>10, OneRun DEF WorkInv

\* CompleteRunCancellation
LEMMA CompleteWork ==
  ASSUME IInv, WInv, NEW r \in Runs, CompleteRunCancellation(r)
  PROVE  WInv' /\ (Sure /\ TypeOK' /\ OwnersInv => OwnersInv')
<1>1. /\ TypeOK /\ RunInv(r) /\ WorkInv(r) /\ mode' = mode
      /\ run[r] \in Row /\ can[r] \in Obligation /\ "loop" \in Agents
  BY DEF CompleteRunCancellation, CompleteByName, IInv, WInv, TypeOK, Agents
<1>2. /\ mode = "up" /\ wk[r] = "undone" /\ wk'[r] \in {"leave", "fatal"}
      /\ UNCHANGED <<run, pub, contract, wf, post, todo, intent, settle, asked>>
      /\ can'[r] = [can[r] EXCEPT !.open = @ /\ ~can[r].job]
  BY <1>1 DEF CompleteRunCancellation, CompleteByName, cluster, TypeOK, At, Goto
<1>3. /\ can'[r].job = can[r].job /\ can'[r].at = can[r].at
      /\ can'[r].open => can[r].open /\ ~can[r].job
  BY <1>1, <1>2 DEF Obligation
<1>4. ListKept(r)
  BY <1>1 DEF ListKept, InPass, CompleteRunCancellation, CompleteByName, cluster
<1>5. ClusterInv(r)'
  BY <1>1, <1>2, <1>3 DEF WorkInv, ClusterInv, HolderInv, NameInv, IntentInv, RunInv,
     RowInv, PubInv, PendInv, CanInv, ProcInv
<1>6. HolderInv(r)'
  BY <1>1, <1>2, <1>3 DEF WorkInv, ClusterInv, HolderInv, NameInv, IntentInv, RunInv,
     RowInv, PubInv, PendInv, CanInv, ProcInv
<1>7. NameInv(r)' /\ IntentInv(r)'
  BY <1>1, <1>2, <1>3 DEF WorkInv, ClusterInv, HolderInv, NameInv, IntentInv, RunInv,
     RowInv, PubInv, PendInv, CanInv, ProcInv
<1>8. ListInv(r)'
  BY <1>1, <1>2, <1>3, <1>4 DEF WorkInv, ListInv, ListKept, HolderInv, NameInv, RunInv,
     RowInv, PubInv, PendInv, CanInv, ProcInv
<1>9. \A x \in Runs \ {r} : Still(x)
  BY <1>1 DEF Still, SameTables, SameMemory, ListKept, InPass, CompleteRunCancellation,
     CompleteByName, cluster, TypeOK, Goto
<1>10. ASSUME Sure, TypeOK', OwnersInv
      PROVE  OwnersInv'
  <2>1. OwnInv(r) /\ EntryInv(r)
    BY <1>10 DEF OwnersInv
  <2>2. OwnInv(r)'
    BY <1>1, <1>2, <1>3, <2>1 DEF OwnInv, Unheld, InCluster, CreateOwners, WorkInv,
       ClusterInv, HolderInv, NameInv, IntentInv, RunInv, RowInv, PubInv, PendInv, CanInv,
       ProcInv
  <2>3. RowMoves(r)
    BY <1>1, <1>2, <1>3, <2>1 DEF RowMoves, OwnInv, Unheld, InCluster, CreateOwners,
       WorkInv, ClusterInv, HolderInv, NameInv, IntentInv, RunInv, RowInv, PubInv, PendInv,
       CanInv, ProcInv
  <2>4. \A x \in Runs : EntryKept(x)
    BY <1>1 DEF EntryKept, CompleteRunCancellation, CompleteByName, cluster, TypeOK
  <2> QED
    BY <1>1, <1>10, <2>1, <2>2, <2>3, <2>4, <1>9, EntryStep, OneOwner DEF Undisturbed, Still
<1> QED
  BY <1>1, <1>5, <1>6, <1>7, <1>8, <1>9, <1>10, OneRun DEF WorkInv

\* LeaveRun: an obligation that never got a name is closed by the worker.
LEMMA LeaveWork ==
  ASSUME IInv, WInv, NEW r \in Runs, LeaveRun(r)
  PROVE  WInv' /\ (Sure /\ TypeOK' /\ OwnersInv => OwnersInv')
<1>1. /\ TypeOK /\ RunInv(r) /\ WorkInv(r) /\ mode' = mode
      /\ run[r] \in Row /\ can[r] \in Obligation /\ "loop" \in Agents
  BY DEF LeaveRun, CompleteWithoutJob, IInv, WInv, TypeOK, Agents
<1>2. /\ mode = "up" /\ wk[r] = "leave" /\ wk'[r] = "none"
      /\ UNCHANGED <<run, pub, contract, wf, post, todo, intent, settle, asked>>
      /\ \/ can'[r] = can[r] /\ Running(r)
         \/ can'[r] = [can[r] EXCEPT !.open = @ /\ ~(~can[r].job /\ can[r].reason = "superseded"
                                                  /\ Preempted(r))]
  BY <1>1 DEF LeaveRun, CompleteWithoutJob, cluster, TypeOK, At, Goto
<1>3. /\ can'[r].job = can[r].job /\ can'[r].at = can[r].at /\ (can'[r].open => can[r].open)
      /\ can[r].job => can'[r] = can[r]
      /\ \/ Running(r)
         \/ can'[r].open => ~(~can[r].job /\ can[r].reason = "superseded" /\ Preempted(r))
  BY <1>1, <1>2 DEF Obligation
<1>4. ListKept(r)
  BY <1>1 DEF ListKept, InPass, LeaveRun, CompleteWithoutJob, cluster
<1>5. ClusterInv(r)'
  BY <1>1, <1>2, <1>3 DEF WorkInv, ClusterInv, HolderInv, NameInv, IntentInv, RunInv,
     RowInv, PubInv, PendInv, CanInv, ProcInv
<1>6. HolderInv(r)'
  BY <1>1, <1>2, <1>3 DEF WorkInv, ClusterInv, HolderInv, NameInv, IntentInv, RunInv,
     RowInv, PubInv, PendInv, CanInv, ProcInv
<1>7. NameInv(r)' /\ IntentInv(r)'
  BY <1>1, <1>2, <1>3 DEF WorkInv, ClusterInv, HolderInv, NameInv, IntentInv, RunInv,
     RowInv, PubInv, PendInv, CanInv, ProcInv
<1>8. ListInv(r)'
  BY <1>1, <1>2, <1>3, <1>4 DEF WorkInv, ListInv, ListKept, HolderInv, NameInv, RunInv,
     RowInv, PubInv, PendInv, CanInv, ProcInv
<1>9. \A x \in Runs \ {r} : Still(x)
  BY <1>1 DEF Still, SameTables, SameMemory, ListKept, InPass, LeaveRun, CompleteWithoutJob,
     cluster, TypeOK, Goto
<1>10. ASSUME Sure, TypeOK', OwnersInv
      PROVE  OwnersInv'
  <2>1. OwnInv(r) /\ EntryInv(r)
    BY <1>10 DEF OwnersInv
  <2>2. OwnInv(r)'
    BY <1>1, <1>2, <1>3, <2>1 DEF OwnInv, Unheld, InCluster, CreateOwners, WorkInv,
       ClusterInv, HolderInv, NameInv, IntentInv, RunInv, RowInv, PubInv, PendInv, CanInv,
       ProcInv
  <2>3. RowMoves(r)
    BY <1>1, <1>2, <1>3, <2>1 DEF RowMoves, OwnInv, Unheld, InCluster, CreateOwners,
       WorkInv, ClusterInv, HolderInv, NameInv, IntentInv, RunInv, RowInv, PubInv, PendInv,
       CanInv, ProcInv
  <2>4. \A x \in Runs : EntryKept(x)
    BY <1>1 DEF EntryKept, LeaveRun, CompleteWithoutJob, cluster, TypeOK
  <2> QED
    BY <1>1, <1>10, <2>1, <2>2, <2>3, <2>4, <1>9, EntryStep, OneOwner DEF Undisturbed, Still
<1> QED
  BY <1>1, <1>5, <1>6, <1>7, <1>8, <1>9, <1>10, OneRun DEF WorkInv

\* ResumeAdopted: an adopted Workflow was found, so no request for it is out.
LEMMA ResumeWork ==
  ASSUME IInv, WInv, NEW r \in Runs, ResumeAdopted(r)
  PROVE  WInv' /\ (Sure /\ TypeOK' /\ OwnersInv => OwnersInv')
<1>1. /\ TypeOK /\ RunInv(r) /\ WorkInv(r) /\ mode' = mode
      /\ run[r] \in Row /\ can[r] \in Obligation /\ "loop" \in Agents
  BY DEF ResumeAdopted, IInv, WInv, TypeOK, Agents
<1>2. /\ mode = "up" /\ wk[r] = "adopted"
      /\ UNCHANGED <<can, pub, wf, post, todo, intent, settle, asked>>
      /\ \/ Preempted(r) /\ run'[r] = run[r] /\ wk'[r] = "sweep"
         \/ /\ ~Preempted(r) /\ wk'[r] = "resumed"
            /\ run'[r] = [run[r] EXCEPT !.phase = IF @ = "waiting" THEN "running" ELSE @,
                                        !.started = TRUE]
  BY <1>1 DEF ResumeAdopted, cluster, TypeOK, At, Goto
<1>3. \/ run'[r] = run[r] /\ Preempted(r) /\ wk'[r] = "sweep"
      \/ /\ wk'[r] = "resumed" /\ ~Preempted(r) /\ run'[r].status = run[r].status
         /\ run'[r].phase = (IF run[r].phase = "waiting" THEN "running" ELSE run[r].phase)
         /\ run'[r].job = run[r].job /\ run'[r].started
         /\ run'[r].superseded = run[r].superseded
  BY <1>1, <1>2 DEF Row
<1>4. ListKept(r)
  BY <1>1 DEF ListKept, InPass, ResumeAdopted, cluster
<1>5. ClusterInv(r)'
  BY <1>1, <1>2, <1>3 DEF WorkInv, ClusterInv, HolderInv, NameInv, IntentInv, RunInv,
     RowInv, PubInv, PendInv, CanInv, ProcInv
<1>6. HolderInv(r)'
  BY <1>1, <1>2, <1>3 DEF WorkInv, ClusterInv, HolderInv, NameInv, IntentInv, RunInv,
     RowInv, PubInv, PendInv, CanInv, ProcInv
<1>7. NameInv(r)' /\ IntentInv(r)'
  BY <1>1, <1>2, <1>3 DEF WorkInv, ClusterInv, HolderInv, NameInv, IntentInv, RunInv,
     RowInv, PubInv, PendInv, CanInv, ProcInv
<1>8. ListInv(r)'
  BY <1>1, <1>2, <1>3, <1>4 DEF WorkInv, ListInv, ListKept, HolderInv, NameInv, RunInv,
     RowInv, PubInv, PendInv, CanInv, ProcInv
<1>9. \A x \in Runs \ {r} : Still(x)
  BY <1>1 DEF Still, SameTables, SameMemory, ListKept, InPass, ResumeAdopted, cluster,
     TypeOK, Goto
<1>10. ASSUME Sure, TypeOK', OwnersInv
      PROVE  OwnersInv'
  <2>1. OwnInv(r) /\ EntryInv(r)
    BY <1>10 DEF OwnersInv
  <2>2. OwnInv(r)'
    BY <1>1, <1>2, <1>3, <2>1 DEF OwnInv, Unheld, InCluster, CreateOwners, WorkInv,
       ClusterInv, HolderInv, NameInv, IntentInv, RunInv, RowInv, PubInv, PendInv, CanInv,
       ProcInv
  <2>3. RowMoves(r)
    BY <1>1, <1>2, <1>3, <2>1 DEF RowMoves, OwnInv, Unheld, InCluster, CreateOwners,
       WorkInv, ClusterInv, HolderInv, NameInv, IntentInv, RunInv, RowInv, PubInv, PendInv,
       CanInv, ProcInv
  <2>4. \A x \in Runs : EntryKept(x)
    BY <1>1 DEF EntryKept, ResumeAdopted, cluster, TypeOK
  <2> QED
    BY <1>1, <1>10, <2>1, <2>2, <2>3, <2>4, <1>9, EntryStep, OneOwner DEF Undisturbed, Still
<1> QED
  BY <1>1, <1>5, <1>6, <1>7, <1>8, <1>9, <1>10, OneRun DEF WorkInv

\* WaitReturns, WaitFails and ReadTerminal: a result is recorded of a Workflow that ended.
LEMMA WatchWork ==
  ASSUME IInv, WInv, NEW r \in Runs, WaitReturns(r) \/ WaitFails(r) \/ ReadTerminal(r)
  PROVE  WInv' /\ (Sure /\ TypeOK' /\ OwnersInv => OwnersInv')
<1>1. /\ TypeOK /\ RunInv(r) /\ WorkInv(r) /\ mode' = mode
      /\ run[r] \in Row /\ can[r] \in Obligation /\ "loop" \in Agents
  BY DEF WaitReturns, WaitFails, ReadTerminal, Observing, IInv, WInv, TypeOK, Agents
<1>2. /\ mode = "up" /\ wk[r] \in {"observe", "resumed", "wipe"}
      /\ UNCHANGED <<run, can, pub, contract, wf, post, todo, intent, settle, asked>>
      /\ \/ wk'[r] = "record" /\ wf[r] \in {"passed", "failed"}
         \/ wk'[r] \in {"sweep", "wipe"}
  BY <1>1 DEF WaitReturns, WaitFails, ReadTerminal, Observing, durable, cluster, TypeOK, At,
     Goto
<1>3. ListKept(r)
  BY <1>1 DEF ListKept, InPass, WaitReturns, WaitFails, ReadTerminal, Observing, durable,
     cluster
<1>4. ClusterInv(r)'
  BY <1>1, <1>2 DEF WorkInv, ClusterInv, HolderInv, NameInv, IntentInv, RunInv, RowInv,
     PubInv, PendInv, CanInv, ProcInv
<1>5. HolderInv(r)'
  BY <1>1, <1>2 DEF WorkInv, ClusterInv, HolderInv, NameInv, IntentInv, RunInv, RowInv,
     PubInv, PendInv, CanInv, ProcInv
<1>6. NameInv(r)' /\ IntentInv(r)'
  BY <1>1, <1>2 DEF WorkInv, ClusterInv, HolderInv, NameInv, IntentInv, RunInv, RowInv,
     PubInv, PendInv, CanInv, ProcInv
<1>7. ListInv(r)'
  BY <1>1, <1>2, <1>3 DEF WorkInv, ListInv, ListKept, HolderInv, NameInv, RunInv, RowInv,
     PubInv, PendInv, CanInv, ProcInv
<1>8. \A x \in Runs \ {r} : Still(x)
  BY <1>1 DEF Still, SameTables, SameMemory, ListKept, InPass, WaitReturns, WaitFails,
     ReadTerminal, Observing, durable, cluster, TypeOK, Goto
<1>9. ASSUME Sure, TypeOK', OwnersInv
      PROVE  OwnersInv'
  <2>1. OwnInv(r) /\ EntryInv(r)
    BY <1>9 DEF OwnersInv
  <2>2. OwnInv(r)'
    BY <1>1, <1>2, <2>1 DEF OwnInv, Unheld, InCluster, CreateOwners, WorkInv, ClusterInv,
       HolderInv, NameInv, IntentInv, RunInv, RowInv, PubInv, PendInv, CanInv, ProcInv
  <2>3. RowMoves(r)
    BY <1>1, <1>2, <2>1 DEF RowMoves, OwnInv, Unheld, InCluster, CreateOwners, WorkInv,
       ClusterInv, HolderInv, NameInv, IntentInv, RunInv, RowInv, PubInv, PendInv, CanInv,
       ProcInv
  <2>4. \A x \in Runs : EntryKept(x)
    BY <1>1 DEF EntryKept, WaitReturns, WaitFails, ReadTerminal, Observing, durable,
       cluster, TypeOK
  <2> QED
    BY <1>1, <1>9, <2>1, <2>2, <2>3, <2>4, <1>8, EntryStep, OneOwner DEF Undisturbed, Still
<1> QED
  BY <1>1, <1>4, <1>5, <1>6, <1>7, <1>8, <1>9, OneRun DEF WorkInv

\* DeleteUnobserved: the delete succeeded, or the run was preempted.
LEMMA WipeWork ==
  ASSUME IInv, WInv, NEW r \in Runs, NEW ok \in BOOLEAN, DeleteUnobserved(r, ok)
  PROVE  WInv' /\ (Sure /\ TypeOK' /\ OwnersInv => OwnersInv')
<1>1. /\ TypeOK /\ RunInv(r) /\ WorkInv(r) /\ mode' = mode
      /\ run[r] \in Row /\ can[r] \in Obligation /\ "loop" \in Agents
  BY DEF DeleteUnobserved, Delete, IInv, WInv, TypeOK, Agents
<1>2. /\ mode = "up" /\ wk[r] = "wipe"
      /\ UNCHANGED <<run, can, pub, contract, post, todo, settle, asked>>
      /\ wf'[r] = wf[r] \/ (wf[r] # "absent" /\ wf'[r] = "deleting")
      /\ intent'[r] # "reserved"
      /\ (intent'[r] = "cancelled" => intent[r] \in {"reserved", "cancelled"})
      /\ \/ wk'[r] \in {"fatal", "uncertain"}
         \/ /\ wk'[r] = "record"
            /\ wf'[r] \in {"absent", "deleting"} \/ intent[r] \in {"reserved", "cancelled"}
  BY <1>1 DEF Cancelled, DeleteSucceeds, DeleteUnobserved, Delete, durable, TypeOK, At, Goto
<1>3. ListKept(r)
  BY <1>1 DEF ListKept, InPass, DeleteUnobserved, Delete, durable
<1>4. ClusterInv(r)'
  BY <1>1, <1>2 DEF WorkInv, ClusterInv, HolderInv, NameInv, IntentInv, RunInv, RowInv,
     PubInv, PendInv, CanInv, ProcInv
<1>5. HolderInv(r)'
  BY <1>1, <1>2 DEF WorkInv, ClusterInv, HolderInv, NameInv, IntentInv, RunInv, RowInv,
     PubInv, PendInv, CanInv, ProcInv
<1>6. NameInv(r)' /\ IntentInv(r)'
  BY <1>1, <1>2 DEF WorkInv, ClusterInv, HolderInv, NameInv, IntentInv, RunInv, RowInv,
     PubInv, PendInv, CanInv, ProcInv
<1>7. ListInv(r)'
  BY <1>1, <1>2, <1>3 DEF WorkInv, ListInv, ListKept, HolderInv, NameInv, RunInv, RowInv,
     PubInv, PendInv, CanInv, ProcInv
<1>8. \A x \in Runs \ {r} : Still(x)
  BY <1>1 DEF Still, SameTables, SameMemory, ListKept, InPass, DeleteUnobserved, Delete,
     durable, TypeOK, Goto
<1>9. ASSUME Sure, TypeOK', OwnersInv
      PROVE  OwnersInv'
  <2>1. OwnInv(r) /\ EntryInv(r)
    BY <1>9 DEF OwnersInv
  <2>2. wk'[r] = "record"
    BY <1>1, <1>9, <1>2 DEF DeleteSucceeds, DeleteUnobserved, Delete, durable, TypeOK, At,
       Goto, Sure, Fault
  <2>3. OwnInv(r)'
    BY <1>1, <1>2, <2>1, <2>2 DEF OwnInv, Unheld, InCluster, CreateOwners, WorkInv,
       ClusterInv, HolderInv, NameInv, IntentInv, RunInv, RowInv, PubInv, PendInv, CanInv,
       ProcInv
  <2>4. RowMoves(r)
    BY <1>1, <1>2, <2>1, <2>2 DEF RowMoves, OwnInv, Unheld, InCluster, CreateOwners,
       WorkInv, ClusterInv, HolderInv, NameInv, IntentInv, RunInv, RowInv, PubInv, PendInv,
       CanInv, ProcInv
  <2>5. \A x \in Runs : EntryKept(x)
    BY <1>1 DEF EntryKept, DeleteUnobserved, Delete, durable, TypeOK
  <2> QED
    BY <1>1, <1>9, <2>1, <2>3, <2>4, <2>5, <1>8, EntryStep, OneOwner DEF Undisturbed, Still
<1> QED
  BY <1>1, <1>4, <1>5, <1>6, <1>7, <1>8, <1>9, OneRun DEF WorkInv

\* PersistSteps
LEMMA PersistWork ==
  ASSUME IInv, WInv, NEW r \in Runs, PersistSteps(r)
  PROVE  WInv' /\ (Sure /\ TypeOK' /\ OwnersInv => OwnersInv')
<1>1. /\ TypeOK /\ RunInv(r) /\ WorkInv(r) /\ mode' = mode
      /\ run[r] \in Row /\ can[r] \in Obligation /\ "loop" \in Agents
  BY DEF PersistSteps, IInv, WInv, TypeOK, Agents
<1>2. /\ mode = "up" /\ wk[r] = "record" /\ wk'[r] = "decide"
      /\ UNCHANGED <<can, pub, contract, wf, post, todo, intent, settle, asked>>
      /\ run'[r] = run[r] \/ run'[r] = [run[r] EXCEPT !.steps = TRUE]
  BY <1>1 DEF PersistSteps, cluster, TypeOK, At, Goto
<1>3. /\ run'[r].status = run[r].status /\ run'[r].phase = run[r].phase /\ run'[r].job = run[r].job
      /\ run'[r].superseded = run[r].superseded /\ run'[r].started = run[r].started
      /\ run'[r].unsure = run[r].unsure
  BY <1>1, <1>2 DEF Row
<1>4. ListKept(r)
  BY <1>1 DEF ListKept, InPass, PersistSteps, cluster
<1>5. ClusterInv(r)'
  BY <1>1, <1>2, <1>3 DEF WorkInv, ClusterInv, HolderInv, NameInv, IntentInv, RunInv,
     RowInv, PubInv, PendInv, CanInv, ProcInv
<1>6. HolderInv(r)'
  BY <1>1, <1>2, <1>3 DEF WorkInv, ClusterInv, HolderInv, NameInv, IntentInv, RunInv,
     RowInv, PubInv, PendInv, CanInv, ProcInv
<1>7. NameInv(r)' /\ IntentInv(r)'
  BY <1>1, <1>2, <1>3 DEF WorkInv, ClusterInv, HolderInv, NameInv, IntentInv, RunInv,
     RowInv, PubInv, PendInv, CanInv, ProcInv
<1>8. ListInv(r)'
  BY <1>1, <1>2, <1>3, <1>4 DEF WorkInv, ListInv, ListKept, HolderInv, NameInv, RunInv,
     RowInv, PubInv, PendInv, CanInv, ProcInv
<1>9. \A x \in Runs \ {r} : Still(x)
  BY <1>1 DEF Still, SameTables, SameMemory, ListKept, InPass, PersistSteps, cluster,
     TypeOK, Goto
<1>10. ASSUME Sure, TypeOK', OwnersInv
      PROVE  OwnersInv'
  <2>1. OwnInv(r) /\ EntryInv(r)
    BY <1>10 DEF OwnersInv
  <2>2. OwnInv(r)'
    BY <1>1, <1>2, <1>3, <2>1 DEF OwnInv, Unheld, InCluster, CreateOwners, WorkInv,
       ClusterInv, HolderInv, NameInv, IntentInv, RunInv, RowInv, PubInv, PendInv, CanInv,
       ProcInv
  <2>3. RowMoves(r)
    BY <1>1, <1>2, <1>3, <2>1 DEF RowMoves, OwnInv, Unheld, InCluster, CreateOwners,
       WorkInv, ClusterInv, HolderInv, NameInv, IntentInv, RunInv, RowInv, PubInv, PendInv,
       CanInv, ProcInv
  <2>4. \A x \in Runs : EntryKept(x)
    BY <1>1 DEF EntryKept, PersistSteps, cluster, TypeOK
  <2> QED
    BY <1>1, <1>10, <2>1, <2>2, <2>3, <2>4, <1>9, EntryStep, OneOwner DEF Undisturbed, Still
<1> QED
  BY <1>1, <1>5, <1>6, <1>7, <1>8, <1>9, <1>10, OneRun DEF WorkInv

\* BeginPublication: the Workflow of a run that publishes has ended.
LEMMA PublishWork ==
  ASSUME IInv, WInv, NEW r \in Runs, BeginPublication(r)
  PROVE  WInv' /\ (Sure /\ TypeOK' /\ OwnersInv => OwnersInv')
<1>1. /\ TypeOK /\ RunInv(r) /\ WorkInv(r) /\ mode' = mode
      /\ run[r] \in Row /\ can[r] \in Obligation /\ "loop" \in Agents
  BY DEF BeginPublication, IInv, WInv, TypeOK, Agents
<1>2. /\ mode = "up" /\ wk[r] = "decide" /\ wk'[r] = "deliver" /\ Running(r)
      /\ UNCHANGED <<can, contract, wf, post, todo, intent, settle, asked>>
      /\ run'[r] = [run[r] EXCEPT !.phase = "publishing"]
  BY <1>1 DEF BeginPublication, cluster, TypeOK, At, Goto
<1>3. /\ run'[r].status = "running" /\ run'[r].phase = "publishing" /\ run'[r].job = run[r].job
  BY <1>1, <1>2 DEF Row
<1>4. ListKept(r)
  BY <1>1 DEF ListKept, InPass, BeginPublication, cluster
<1>5. ClusterInv(r)'
  BY <1>1, <1>2, <1>3 DEF WorkInv, ClusterInv, HolderInv, NameInv, IntentInv, RunInv,
     RowInv, PubInv, PendInv, CanInv, ProcInv
<1>6. HolderInv(r)'
  BY <1>1, <1>2, <1>3 DEF WorkInv, ClusterInv, HolderInv, NameInv, IntentInv, RunInv,
     RowInv, PubInv, PendInv, CanInv, ProcInv
<1>7. NameInv(r)' /\ IntentInv(r)'
  BY <1>1, <1>2, <1>3 DEF WorkInv, ClusterInv, HolderInv, NameInv, IntentInv, RunInv,
     RowInv, PubInv, PendInv, CanInv, ProcInv
<1>8. ListInv(r)'
  BY <1>1, <1>2, <1>3, <1>4 DEF WorkInv, ListInv, ListKept, HolderInv, NameInv, RunInv,
     RowInv, PubInv, PendInv, CanInv, ProcInv
<1>9. \A x \in Runs \ {r} : Still(x)
  BY <1>1 DEF Still, SameTables, SameMemory, ListKept, InPass, BeginPublication, cluster,
     TypeOK, Goto
<1>10. ASSUME Sure, TypeOK', OwnersInv
      PROVE  OwnersInv'
  <2>1. OwnInv(r) /\ EntryInv(r)
    BY <1>10 DEF OwnersInv
  <2>2. OwnInv(r)'
    BY <1>1, <1>2, <1>3, <2>1 DEF OwnInv, Unheld, InCluster, CreateOwners, WorkInv,
       ClusterInv, HolderInv, NameInv, IntentInv, RunInv, RowInv, PubInv, PendInv, CanInv,
       ProcInv
  <2>3. RowMoves(r)
    BY <1>1, <1>2, <1>3, <2>1 DEF RowMoves, OwnInv, Unheld, InCluster, CreateOwners,
       WorkInv, ClusterInv, HolderInv, NameInv, IntentInv, RunInv, RowInv, PubInv, PendInv,
       CanInv, ProcInv
  <2>4. \A x \in Runs : EntryKept(x)
    BY <1>1 DEF EntryKept, BeginPublication, cluster, TypeOK
  <2> QED
    BY <1>1, <1>10, <2>1, <2>2, <2>3, <2>4, <1>9, EntryStep, OneOwner DEF Undisturbed, Still
<1> QED
  BY <1>1, <1>5, <1>6, <1>7, <1>8, <1>9, <1>10, OneRun DEF WorkInv

\* FinishRun: the Workflow of a run that fails has ended.
LEMMA FinishWork ==
  ASSUME IInv, WInv, NEW r \in Runs, FinishRun(r)
  PROVE  WInv' /\ (Sure /\ TypeOK' /\ OwnersInv => OwnersInv')
<1>1. /\ TypeOK /\ RunInv(r) /\ WorkInv(r) /\ mode' = mode
      /\ run[r] \in Row /\ can[r] \in Obligation /\ "loop" \in Agents
  BY DEF FinishRun, IInv, WInv, TypeOK, Agents
<1>2. /\ mode = "up" /\ wk[r] = "decide" /\ wk'[r] = "leave"
      /\ UNCHANGED <<can, pub, contract, wf, post, todo, intent, settle, asked>>
      /\ run'[r] = FinishRow(run[r], "failed", IF result[r] = "failed" THEN "job" ELSE "publishing")
  BY <1>1 DEF FinishRun, cluster, TypeOK, At, Goto
<1>3. \/ run'[r] = run[r] /\ ~Active(r)
      \/ /\ Active(r) /\ run'[r].status = "failed" /\ run'[r].phase \in {"job", "publishing"}
         /\ run'[r].job = run[r].job
  BY <1>1, <1>2 DEF Row, FinishRow
<1>4. ListKept(r)
  BY <1>1 DEF ListKept, InPass, FinishRun, cluster
<1>5. ClusterInv(r)'
  BY <1>1, <1>2, <1>3 DEF WorkInv, ClusterInv, HolderInv, NameInv, IntentInv, RunInv,
     RowInv, PubInv, PendInv, CanInv, ProcInv
<1>6. HolderInv(r)'
  BY <1>1, <1>2, <1>3 DEF WorkInv, ClusterInv, HolderInv, NameInv, IntentInv, RunInv,
     RowInv, PubInv, PendInv, CanInv, ProcInv
<1>7. NameInv(r)' /\ IntentInv(r)'
  BY <1>1, <1>2, <1>3 DEF WorkInv, ClusterInv, HolderInv, NameInv, IntentInv, RunInv,
     RowInv, PubInv, PendInv, CanInv, ProcInv
<1>8. ListInv(r)'
  BY <1>1, <1>2, <1>3, <1>4 DEF WorkInv, ListInv, ListKept, HolderInv, NameInv, RunInv,
     RowInv, PubInv, PendInv, CanInv, ProcInv
<1>9. \A x \in Runs \ {r} : Still(x)
  BY <1>1 DEF Still, SameTables, SameMemory, ListKept, InPass, FinishRun, cluster, TypeOK,
     Goto
<1>10. ASSUME Sure, TypeOK', OwnersInv
      PROVE  OwnersInv'
  <2>1. OwnInv(r) /\ EntryInv(r)
    BY <1>10 DEF OwnersInv
  <2>2. OwnInv(r)'
    BY <1>1, <1>2, <1>3, <2>1 DEF OwnInv, Unheld, InCluster, CreateOwners, WorkInv,
       ClusterInv, HolderInv, NameInv, IntentInv, RunInv, RowInv, PubInv, PendInv, CanInv,
       ProcInv
  <2>3. RowMoves(r)
    BY <1>1, <1>2, <1>3, <2>1 DEF RowMoves, OwnInv, Unheld, InCluster, CreateOwners,
       WorkInv, ClusterInv, HolderInv, NameInv, IntentInv, RunInv, RowInv, PubInv, PendInv,
       CanInv, ProcInv
  <2>4. \A x \in Runs : EntryKept(x)
    BY <1>1 DEF EntryKept, FinishRun, cluster, TypeOK
  <2> QED
    BY <1>1, <1>10, <2>1, <2>2, <2>3, <2>4, <1>9, EntryStep, OneOwner DEF Undisturbed, Still
<1> QED
  BY <1>1, <1>5, <1>6, <1>7, <1>8, <1>9, <1>10, OneRun DEF WorkInv

\* DeliveryReturns and WorkerPassEnds
LEMMA ReturnWork ==
  ASSUME IInv, WInv, NEW r \in Runs, NEW ok \in BOOLEAN,
         DeliveryReturns(r, ok) \/ WorkerPassEnds(r)
  PROVE  WInv' /\ (Sure /\ TypeOK' /\ OwnersInv => OwnersInv')
<1>1. /\ TypeOK /\ RunInv(r) /\ WorkInv(r) /\ mode' = mode
      /\ run[r] \in Row /\ can[r] \in Obligation /\ "loop" \in Agents
  BY DEF DeliveryReturns, WorkerPassEnds, IInv, WInv, TypeOK, Agents
<1>2. /\ mode = "up" /\ wk[r] \in {"deliver", "swept"} /\ wk'[r] \in {"leave", "fatal"}
      /\ UNCHANGED <<run, can, pub, contract, wf, post, todo, intent, settle, asked>>
  BY <1>1 DEF DeliveryReturns, WorkerPassEnds, durable, cluster, TypeOK, At, Goto
<1>3. ListKept(r)
  BY <1>1 DEF ListKept, InPass, DeliveryReturns, WorkerPassEnds, durable, cluster
<1>4. ClusterInv(r)'
  BY <1>1, <1>2 DEF WorkInv, ClusterInv, HolderInv, NameInv, IntentInv, RunInv, RowInv,
     PubInv, PendInv, CanInv, ProcInv
<1>5. HolderInv(r)'
  BY <1>1, <1>2 DEF WorkInv, ClusterInv, HolderInv, NameInv, IntentInv, RunInv, RowInv,
     PubInv, PendInv, CanInv, ProcInv
<1>6. NameInv(r)' /\ IntentInv(r)'
  BY <1>1, <1>2 DEF WorkInv, ClusterInv, HolderInv, NameInv, IntentInv, RunInv, RowInv,
     PubInv, PendInv, CanInv, ProcInv
<1>7. ListInv(r)'
  BY <1>1, <1>2, <1>3 DEF WorkInv, ListInv, ListKept, HolderInv, NameInv, RunInv, RowInv,
     PubInv, PendInv, CanInv, ProcInv
<1>8. \A x \in Runs \ {r} : Still(x)
  BY <1>1 DEF Still, SameTables, SameMemory, ListKept, InPass, DeliveryReturns,
     WorkerPassEnds, durable, cluster, TypeOK, Goto
<1>9. ASSUME Sure, TypeOK', OwnersInv
      PROVE  OwnersInv'
  <2>1. OwnInv(r) /\ EntryInv(r)
    BY <1>9 DEF OwnersInv
  <2>2. OwnInv(r)'
    BY <1>1, <1>2, <2>1 DEF OwnInv, Unheld, InCluster, CreateOwners, WorkInv, ClusterInv,
       HolderInv, NameInv, IntentInv, RunInv, RowInv, PubInv, PendInv, CanInv, ProcInv
  <2>3. RowMoves(r)
    BY <1>1, <1>2, <2>1 DEF RowMoves, OwnInv, Unheld, InCluster, CreateOwners, WorkInv,
       ClusterInv, HolderInv, NameInv, IntentInv, RunInv, RowInv, PubInv, PendInv, CanInv,
       ProcInv
  <2>4. \A x \in Runs : EntryKept(x)
    BY <1>1 DEF EntryKept, DeliveryReturns, WorkerPassEnds, durable, cluster, TypeOK
  <2> QED
    BY <1>1, <1>9, <2>1, <2>2, <2>3, <2>4, <1>8, EntryStep, OneOwner DEF Undisturbed, Still
<1> QED
  BY <1>1, <1>4, <1>5, <1>6, <1>7, <1>8, <1>9, OneRun DEF WorkInv

\* DeferCreateCleanup: the row says that the create is uncertain.
LEMMA DeferWork ==
  ASSUME IInv, WInv, NEW r \in Runs, DeferCreateCleanup(r)
  PROVE  WInv' /\ (Sure /\ TypeOK' /\ OwnersInv => OwnersInv')
<1>1. /\ TypeOK /\ RunInv(r) /\ WorkInv(r) /\ mode' = mode
      /\ run[r] \in Row /\ can[r] \in Obligation /\ "loop" \in Agents
  BY DEF DeferCreateCleanup, IInv, WInv, TypeOK, Agents
<1>2. /\ mode = "up" /\ wk[r] = "uncertain" /\ wk'[r] = "leave"
      /\ UNCHANGED <<pub, contract, wf, post, todo, intent, asked>>
      /\ \E b \in BOOLEAN : settle' = Register(r, b)
      /\ \/ UNCHANGED <<run, can>> /\ ~OwnsPendingCreate(r)
         \/ OwnsPendingCreate(r) /\ run' = PendingRow(r) /\ can' = PendingObligation(r)
  BY <1>1 DEF DeferCreateCleanup, cluster, TypeOK, At, Goto
<1>3. /\ settle[r].step = "none" => settle'[r].step \in {"armed", "todo"}
      /\ \A x \in Runs \ {r} : settle'[x] = settle[x]
  BY <1>1, <1>2, RegisterWrites
<1>4. /\ run'[r].status = run[r].status /\ run'[r].job = run[r].job
      /\ run'[r].superseded = run[r].superseded /\ run'[r].started = run[r].started
      /\ \A x \in Runs \ {r} : run'[x] = run[x] /\ can'[x] = can[x]
      /\ \/ /\ run'[r] = run[r] /\ can'[r] = can[r]
            /\ ~(run[r].job /\ (Running(r) \/ Preempted(r)))
         \/ /\ run[r].job /\ (Running(r) \/ Preempted(r)) /\ can'[r].job /\ can'[r].open
            /\ can'[r].at = can[r].at + 1 /\ run'[r].unsure
            /\ run'[r].phase = (IF Running(r) THEN "infrastructure-pending" ELSE run[r].phase)
  BY <1>1, <1>2, PendingWrites DEF OwnsPendingCreate
<1>5. ListKept(r)
  BY <1>1 DEF ListKept, InPass, DeferCreateCleanup, cluster
<1>6. ClusterInv(r)'
  BY <1>1, <1>2, <1>3, <1>4 DEF WorkInv, ClusterInv, HolderInv, NameInv, IntentInv, RunInv,
     RowInv, PubInv, PendInv, CanInv, ProcInv
<1>7. HolderInv(r)'
  BY <1>1, <1>2, <1>3, <1>4 DEF WorkInv, ClusterInv, HolderInv, NameInv, IntentInv, RunInv,
     RowInv, PubInv, PendInv, CanInv, ProcInv
<1>8. NameInv(r)' /\ IntentInv(r)'
  BY <1>1, <1>2, <1>3, <1>4 DEF WorkInv, ClusterInv, HolderInv, NameInv, IntentInv, RunInv,
     RowInv, PubInv, PendInv, CanInv, ProcInv
<1>9. ListInv(r)'
  BY <1>1, <1>2, <1>3, <1>4, <1>5 DEF WorkInv, ListInv, ListKept, HolderInv, NameInv,
     RunInv, RowInv, PubInv, PendInv, CanInv, ProcInv
<1>10. \A x \in Runs \ {r} : Still(x)
  BY <1>1, <1>3, <1>4 DEF Still, SameTables, SameMemory, ListKept, InPass,
     DeferCreateCleanup, cluster, TypeOK, Goto
<1>11. ASSUME Sure, TypeOK', OwnersInv
      PROVE  OwnersInv'
  <2>1. OwnInv(r) /\ EntryInv(r)
    BY <1>11 DEF OwnersInv
  <2>2. OwnInv(r)'
    BY <1>1, <1>2, <1>3, <1>4, <2>1 DEF OwnInv, Unheld, InCluster, CreateOwners, WorkInv,
       ClusterInv, HolderInv, NameInv, IntentInv, RunInv, RowInv, PubInv, PendInv, CanInv,
       ProcInv
  <2>3. RowMoves(r)
    BY <1>1, <1>2, <1>3, <1>4, <2>1 DEF RowMoves, OwnInv, Unheld, InCluster, CreateOwners,
       WorkInv, ClusterInv, HolderInv, NameInv, IntentInv, RunInv, RowInv, PubInv, PendInv,
       CanInv, ProcInv, Obligation
  <2>4. \A x \in Runs : EntryKept(x)
    BY <1>1 DEF EntryKept, DeferCreateCleanup, cluster, TypeOK
  <2> QED
    BY <1>1, <1>11, <2>1, <2>2, <2>3, <2>4, <1>10, EntryStep, OneOwner DEF Undisturbed,
       Still
<1> QED
  BY <1>1, <1>6, <1>7, <1>8, <1>9, <1>10, <1>11, OneRun DEF WorkInv

\* MarkRunCreatePending by the settlement
LEMMA MarkWork ==
  ASSUME IInv, WInv, NEW r \in Runs, MarkRunCreatePending(r)
  PROVE  WInv' /\ (Sure /\ TypeOK' /\ OwnersInv => OwnersInv')
<1>1. /\ TypeOK /\ RunInv(r) /\ WorkInv(r) /\ mode' = mode
      /\ run[r] \in Row /\ can[r] \in Obligation /\ "loop" \in Agents
  BY DEF MarkRunCreatePending, IInv, WInv, TypeOK, Agents
<1>2. /\ mode = "up" /\ settle[r].step \in {"todo", "armed"}
      /\ UNCHANGED <<pub, contract, wf, post, wk, todo, intent, asked>>
      /\ OwnsPendingCreate(r) /\ run' = PendingRow(r) /\ can' = PendingObligation(r)
  BY <1>1 DEF MarkRunCreatePending, cluster, TypeOK, At, Goto
<1>3. /\ settle'[r].step = "armed"
      /\ \A x \in Runs \ {r} : settle'[x] = settle[x]
  BY <1>1 DEF Settlement, MarkRunCreatePending, cluster, TypeOK, At, Goto
<1>4. /\ run'[r].status = run[r].status /\ run'[r].job = run[r].job
      /\ run'[r].superseded = run[r].superseded /\ run'[r].started = run[r].started
      /\ run[r].job /\ (Running(r) \/ Preempted(r)) /\ can'[r].job /\ can'[r].open
      /\ can'[r].at = can[r].at + 1 /\ run'[r].unsure
      /\ run'[r].phase = (IF Running(r) THEN "infrastructure-pending" ELSE run[r].phase)
      /\ \A x \in Runs \ {r} : run'[x] = run[x] /\ can'[x] = can[x]
  BY <1>1, <1>2, PendingWrites DEF OwnsPendingCreate
<1>5. ListKept(r)
  BY <1>1 DEF ListKept, InPass, MarkRunCreatePending, cluster
<1>6. ClusterInv(r)'
  BY <1>1, <1>2, <1>3, <1>4 DEF WorkInv, ClusterInv, HolderInv, NameInv, IntentInv, RunInv,
     RowInv, PubInv, PendInv, CanInv, ProcInv
<1>7. HolderInv(r)'
  BY <1>1, <1>2, <1>3, <1>4 DEF WorkInv, ClusterInv, HolderInv, NameInv, IntentInv, RunInv,
     RowInv, PubInv, PendInv, CanInv, ProcInv
<1>8. NameInv(r)' /\ IntentInv(r)'
  BY <1>1, <1>2, <1>3, <1>4 DEF WorkInv, ClusterInv, HolderInv, NameInv, IntentInv, RunInv,
     RowInv, PubInv, PendInv, CanInv, ProcInv
<1>9. ListInv(r)'
  BY <1>1, <1>2, <1>3, <1>4, <1>5 DEF WorkInv, ListInv, ListKept, HolderInv, NameInv,
     RunInv, RowInv, PubInv, PendInv, CanInv, ProcInv
<1>10. \A x \in Runs \ {r} : Still(x)
  BY <1>1, <1>3, <1>4 DEF Still, SameTables, SameMemory, ListKept, InPass,
     MarkRunCreatePending, cluster, TypeOK, Goto
<1>11. ASSUME Sure, TypeOK', OwnersInv
      PROVE  OwnersInv'
  <2>1. OwnInv(r) /\ EntryInv(r)
    BY <1>11 DEF OwnersInv
  <2>2. OwnInv(r)'
    BY <1>1, <1>2, <1>3, <1>4, <2>1 DEF OwnInv, Unheld, InCluster, CreateOwners, WorkInv,
       ClusterInv, HolderInv, NameInv, IntentInv, RunInv, RowInv, PubInv, PendInv, CanInv,
       ProcInv
  <2>3. RowMoves(r)
    BY <1>1, <1>2, <1>3, <1>4, <2>1 DEF RowMoves, OwnInv, Unheld, InCluster, CreateOwners,
       WorkInv, ClusterInv, HolderInv, NameInv, IntentInv, RunInv, RowInv, PubInv, PendInv,
       CanInv, ProcInv, Obligation
  <2>4. \A x \in Runs : EntryKept(x)
    BY <1>1 DEF EntryKept, MarkRunCreatePending, cluster, TypeOK
  <2> QED
    BY <1>1, <1>11, <2>1, <2>2, <2>3, <2>4, <1>10, EntryStep, OneOwner DEF Undisturbed,
       Still
<1> QED
  BY <1>1, <1>6, <1>7, <1>8, <1>9, <1>10, <1>11, OneRun DEF WorkInv

\* SettleDeletes and SettleSeesAbsence
LEMMA SweepWork ==
  ASSUME IInv, WInv, NEW r \in Runs, SettleDeletes(r) \/ SettleSeesAbsence(r)
  PROVE  WInv' /\ (Sure /\ TypeOK' /\ OwnersInv => OwnersInv')
<1>1. /\ TypeOK /\ RunInv(r) /\ WorkInv(r) /\ mode' = mode
      /\ run[r] \in Row /\ can[r] \in Obligation /\ "loop" \in Agents
  BY DEF SettleDeletes, SettleSeesAbsence, IInv, WInv, TypeOK, Agents, memory
<1>2. /\ mode = "up" /\ settle[r].step = "armed"
      /\ UNCHANGED <<run, can, pub, contract, post, wk, todo, asked>>
      /\ \/ wf[r] # "absent" /\ wf'[r] = "deleting" /\ UNCHANGED <<intent, settle>>
         \/ wf' = wf /\ wf[r] = "absent" /\ ~post[r] /\ intent'[r] = "none"
  BY <1>1 DEF SettleDeletes, SettleSeesAbsence, durable, cluster, memory, TypeOK, At, Goto
<1>3. ListKept(r)
  BY <1>1 DEF ListKept, InPass, SettleDeletes, SettleSeesAbsence, durable, cluster, memory
<1>4. ClusterInv(r)'
  BY <1>1, <1>2 DEF WorkInv, ClusterInv, HolderInv, NameInv, IntentInv, RunInv, RowInv,
     PubInv, PendInv, CanInv, ProcInv
<1>5. HolderInv(r)'
  BY <1>1, <1>2 DEF WorkInv, ClusterInv, HolderInv, NameInv, IntentInv, RunInv, RowInv,
     PubInv, PendInv, CanInv, ProcInv
<1>6. NameInv(r)' /\ IntentInv(r)'
  BY <1>1, <1>2 DEF WorkInv, ClusterInv, HolderInv, NameInv, IntentInv, RunInv, RowInv,
     PubInv, PendInv, CanInv, ProcInv
<1>7. ListInv(r)'
  BY <1>1, <1>2, <1>3 DEF WorkInv, ListInv, ListKept, HolderInv, NameInv, RunInv, RowInv,
     PubInv, PendInv, CanInv, ProcInv
<1>8. \A x \in Runs \ {r} : Still(x)
  BY <1>1 DEF Still, SameTables, SameMemory, ListKept, InPass, SettleDeletes,
     SettleSeesAbsence, durable, cluster, memory, TypeOK, Goto
<1>9. ASSUME Sure, TypeOK', OwnersInv
      PROVE  OwnersInv'
  <2>1. OwnInv(r) /\ EntryInv(r)
    BY <1>9 DEF OwnersInv
  <2>2. OwnInv(r)'
    BY <1>1, <1>2, <2>1 DEF OwnInv, Unheld, InCluster, CreateOwners, WorkInv, ClusterInv,
       HolderInv, NameInv, IntentInv, RunInv, RowInv, PubInv, PendInv, CanInv, ProcInv
  <2>3. RowMoves(r)
    BY <1>1, <1>2, <2>1 DEF RowMoves, OwnInv, Unheld, InCluster, CreateOwners, WorkInv,
       ClusterInv, HolderInv, NameInv, IntentInv, RunInv, RowInv, PubInv, PendInv, CanInv,
       ProcInv
  <2>4. \A x \in Runs : EntryKept(x)
    BY <1>1 DEF EntryKept, SettleDeletes, SettleSeesAbsence, durable, cluster, memory,
       TypeOK
  <2> QED
    BY <1>1, <1>9, <2>1, <2>2, <2>3, <2>4, <1>8, EntryStep, OneOwner DEF Undisturbed, Still
<1> QED
  BY <1>1, <1>4, <1>5, <1>6, <1>7, <1>8, <1>9, OneRun DEF WorkInv

\* SettleCompletes
LEMMA ConfirmWork ==
  ASSUME IInv, WInv, NEW r \in Runs, SettleCompletes(r)
  PROVE  WInv' /\ (Sure /\ TypeOK' /\ OwnersInv => OwnersInv')
<1>1. /\ TypeOK /\ RunInv(r) /\ WorkInv(r) /\ mode' = mode
      /\ run[r] \in Row /\ can[r] \in Obligation /\ "loop" \in Agents
  BY DEF SettleCompletes, RetireObserved, IInv, WInv, TypeOK, Agents
<1>2. /\ mode = "up" /\ settle[r].step = "gone"
      /\ UNCHANGED <<pub, contract, wf, post, wk, todo, intent, asked>>
      /\ \/ run'[r] = run[r] /\ can'[r] = can[r]
         \/ /\ run'[r] = [run[r] EXCEPT !.unsure = @ /\ run[r].status # "interrupted"]
            /\ can'[r] = [can[r] EXCEPT !.open = FALSE]
  BY <1>1 DEF SettleCompletes, RetireObserved, cluster, TypeOK, At, Goto
<1>3. /\ run'[r].status = run[r].status /\ run'[r].job = run[r].job /\ run'[r].phase = run[r].phase
      /\ run'[r].superseded = run[r].superseded /\ run'[r].started = run[r].started
      /\ run[r].status = "interrupted" \/ run'[r].unsure = run[r].unsure
      /\ can'[r] = can[r] \/ (can'[r].at = can[r].at /\ ~can'[r].open)
  BY <1>1, <1>2 DEF Row, Obligation
<1>4. settle'[r].step \in {"confirmed", "armed"}
  BY <1>1 DEF NoSettle, SettleCompletes, RetireObserved, cluster, TypeOK, At, Goto
<1>5. ListKept(r)
  BY <1>1 DEF ListKept, InPass, SettleCompletes, RetireObserved, cluster
<1>6. ClusterInv(r)'
  BY <1>1, <1>2, <1>3, <1>4 DEF WorkInv, ClusterInv, HolderInv, NameInv, IntentInv, RunInv,
     RowInv, PubInv, PendInv, CanInv, ProcInv
<1>7. HolderInv(r)'
  BY <1>1, <1>2, <1>3, <1>4 DEF WorkInv, ClusterInv, HolderInv, NameInv, IntentInv, RunInv,
     RowInv, PubInv, PendInv, CanInv, ProcInv
<1>8. NameInv(r)' /\ IntentInv(r)'
  BY <1>1, <1>2, <1>3, <1>4 DEF WorkInv, ClusterInv, HolderInv, NameInv, IntentInv, RunInv,
     RowInv, PubInv, PendInv, CanInv, ProcInv
<1>9. ListInv(r)'
  BY <1>1, <1>2, <1>3, <1>4, <1>5 DEF WorkInv, ListInv, ListKept, HolderInv, NameInv,
     RunInv, RowInv, PubInv, PendInv, CanInv, ProcInv
<1>10. \A x \in Runs \ {r} : Still(x)
  BY <1>1 DEF Still, SameTables, SameMemory, ListKept, InPass, SettleCompletes,
     RetireObserved, cluster, TypeOK, Goto
<1>11. ASSUME Sure, TypeOK', OwnersInv
      PROVE  OwnersInv'
  <2>1. OwnInv(r) /\ EntryInv(r)
    BY <1>11 DEF OwnersInv
  <2>2. OwnInv(r)'
    BY <1>1, <1>2, <1>3, <1>4, <2>1 DEF OwnInv, Unheld, InCluster, CreateOwners, WorkInv,
       ClusterInv, HolderInv, NameInv, IntentInv, RunInv, RowInv, PubInv, PendInv, CanInv,
       ProcInv
  <2>3. RowMoves(r)
    BY <1>1, <1>2, <1>3, <1>4, <2>1 DEF RowMoves, OwnInv, Unheld, InCluster, CreateOwners,
       WorkInv, ClusterInv, HolderInv, NameInv, IntentInv, RunInv, RowInv, PubInv, PendInv,
       CanInv, ProcInv
  <2>4. \A x \in Runs : EntryKept(x)
    BY <1>1 DEF EntryKept, SettleCompletes, RetireObserved, cluster, TypeOK
  <2> QED
    BY <1>1, <1>11, <2>1, <2>2, <2>3, <2>4, <1>10, EntryStep, OneOwner DEF Undisturbed,
       Still
<1> QED
  BY <1>1, <1>6, <1>7, <1>8, <1>9, <1>10, <1>11, OneRun DEF WorkInv

\* SettleFinishes: the Workflow is gone when the run fails.
LEMMA SettleWork ==
  ASSUME IInv, WInv, NEW r \in Runs, SettleFinishes(r)
  PROVE  WInv' /\ (Sure /\ TypeOK' /\ OwnersInv => OwnersInv')
<1>1. /\ TypeOK /\ RunInv(r) /\ WorkInv(r) /\ mode' = mode
      /\ run[r] \in Row /\ can[r] \in Obligation /\ "loop" \in Agents
  BY DEF SettleFinishes, IInv, WInv, TypeOK, Agents
<1>2. /\ mode = "up" /\ settle[r].step = "confirmed"
      /\ UNCHANGED <<can, pub, contract, wf, post, wk, todo, intent, asked>>
      /\ \/ run'[r] = run[r] /\ ~Running(r)
         \/ Running(r) /\ run'[r] = FinishRow(run[r], "failed", "infrastructure")
  BY <1>1 DEF SettleFinishes, cluster, TypeOK, At, Goto
<1>3. \/ run'[r] = run[r] /\ ~Running(r)
      \/ /\ Running(r) /\ run'[r].status = "failed" /\ run'[r].phase = "infrastructure"
         /\ run'[r].job = run[r].job
  BY <1>1, <1>2 DEF Row, FinishRow
<1>4. settle'[r].step = "finished"
  BY <1>1 DEF Settlement, SettleFinishes, cluster, TypeOK, At, Goto
<1>5. ListKept(r)
  BY <1>1 DEF ListKept, InPass, SettleFinishes, cluster
<1>6. ClusterInv(r)'
  BY <1>1, <1>2, <1>3, <1>4 DEF WorkInv, ClusterInv, HolderInv, NameInv, IntentInv, RunInv,
     RowInv, PubInv, PendInv, CanInv, ProcInv
<1>7. HolderInv(r)'
  BY <1>1, <1>2, <1>3, <1>4 DEF WorkInv, ClusterInv, HolderInv, NameInv, IntentInv, RunInv,
     RowInv, PubInv, PendInv, CanInv, ProcInv
<1>8. NameInv(r)' /\ IntentInv(r)'
  BY <1>1, <1>2, <1>3, <1>4 DEF WorkInv, ClusterInv, HolderInv, NameInv, IntentInv, RunInv,
     RowInv, PubInv, PendInv, CanInv, ProcInv
<1>9. ListInv(r)'
  BY <1>1, <1>2, <1>3, <1>4, <1>5 DEF WorkInv, ListInv, ListKept, HolderInv, NameInv,
     RunInv, RowInv, PubInv, PendInv, CanInv, ProcInv
<1>10. \A x \in Runs \ {r} : Still(x)
  BY <1>1 DEF Still, SameTables, SameMemory, ListKept, InPass, SettleFinishes, cluster,
     TypeOK, Goto
<1>11. ASSUME Sure, TypeOK', OwnersInv
      PROVE  OwnersInv'
  <2>1. OwnInv(r) /\ EntryInv(r)
    BY <1>11 DEF OwnersInv
  <2>2. OwnInv(r)'
    BY <1>1, <1>2, <1>3, <1>4, <2>1 DEF OwnInv, Unheld, InCluster, CreateOwners, WorkInv,
       ClusterInv, HolderInv, NameInv, IntentInv, RunInv, RowInv, PubInv, PendInv, CanInv,
       ProcInv
  <2>3. RowMoves(r)
    BY <1>1, <1>2, <1>3, <1>4, <2>1 DEF RowMoves, OwnInv, Unheld, InCluster, CreateOwners,
       WorkInv, ClusterInv, HolderInv, NameInv, IntentInv, RunInv, RowInv, PubInv, PendInv,
       CanInv, ProcInv
  <2>4. \A x \in Runs : EntryKept(x)
    BY <1>1 DEF EntryKept, SettleFinishes, cluster, TypeOK
  <2> QED
    BY <1>1, <1>11, <2>1, <2>2, <2>3, <2>4, <1>10, EntryStep, OneOwner DEF Undisturbed,
       Still
<1> QED
  BY <1>1, <1>6, <1>7, <1>8, <1>9, <1>10, <1>11, OneRun DEF WorkInv

\* SettleReleases
LEMMA ReleaseWork ==
  ASSUME IInv, WInv, NEW r \in Runs, SettleReleases(r)
  PROVE  WInv' /\ (Sure /\ TypeOK' /\ OwnersInv => OwnersInv')
<1>1. /\ TypeOK /\ RunInv(r) /\ WorkInv(r) /\ mode' = mode
      /\ run[r] \in Row /\ can[r] \in Obligation /\ "loop" \in Agents
  BY DEF SettleReleases, IInv, WInv, TypeOK, Agents
<1>2. /\ mode = "up" /\ settle[r].step = "finished"
      /\ UNCHANGED <<run, can, pub, contract, wf, post, wk, todo, intent, asked>>
  BY <1>1 DEF SettleReleases, durable, cluster, TypeOK, At, Goto
<1>3. settle'[r].step \in {"armed", "none"}
  BY <1>1 DEF Settlement, NoSettle, SettleReleases, durable, cluster, TypeOK, At, Goto
<1>4. ListKept(r)
  BY <1>1 DEF ListKept, InPass, SettleReleases, durable, cluster
<1>5. ClusterInv(r)'
  BY <1>1, <1>2, <1>3 DEF WorkInv, ClusterInv, HolderInv, NameInv, IntentInv, RunInv,
     RowInv, PubInv, PendInv, CanInv, ProcInv
<1>6. HolderInv(r)'
  BY <1>1, <1>2, <1>3 DEF WorkInv, ClusterInv, HolderInv, NameInv, IntentInv, RunInv,
     RowInv, PubInv, PendInv, CanInv, ProcInv
<1>7. NameInv(r)' /\ IntentInv(r)'
  BY <1>1, <1>2, <1>3 DEF WorkInv, ClusterInv, HolderInv, NameInv, IntentInv, RunInv,
     RowInv, PubInv, PendInv, CanInv, ProcInv
<1>8. ListInv(r)'
  BY <1>1, <1>2, <1>3, <1>4 DEF WorkInv, ListInv, ListKept, HolderInv, NameInv, RunInv,
     RowInv, PubInv, PendInv, CanInv, ProcInv
<1>9. \A x \in Runs \ {r} : Still(x)
  BY <1>1 DEF Still, SameTables, SameMemory, ListKept, InPass, SettleReleases, durable,
     cluster, TypeOK, Goto
<1>10. ASSUME Sure, TypeOK', OwnersInv
      PROVE  OwnersInv'
  <2>1. OwnInv(r) /\ EntryInv(r)
    BY <1>10 DEF OwnersInv
  <2>2. OwnInv(r)'
    BY <1>1, <1>2, <1>3, <2>1 DEF OwnInv, Unheld, InCluster, CreateOwners, WorkInv,
       ClusterInv, HolderInv, NameInv, IntentInv, RunInv, RowInv, PubInv, PendInv, CanInv,
       ProcInv
  <2>3. RowMoves(r)
    BY <1>1, <1>2, <1>3, <2>1 DEF RowMoves, OwnInv, Unheld, InCluster, CreateOwners,
       WorkInv, ClusterInv, HolderInv, NameInv, IntentInv, RunInv, RowInv, PubInv, PendInv,
       CanInv, ProcInv
  <2>4. \A x \in Runs : EntryKept(x)
    BY <1>1 DEF EntryKept, SettleReleases, durable, cluster, TypeOK
  <2> QED
    BY <1>1, <1>10, <2>1, <2>2, <2>3, <2>4, <1>9, EntryStep, OneOwner DEF Undisturbed, Still
<1> QED
  BY <1>1, <1>5, <1>6, <1>7, <1>8, <1>9, <1>10, OneRun DEF WorkInv

\* CancelRun: the obligation of a run without a Job name is left to its worker.
LEMMA CancelWork ==
  ASSUME IInv, WInv, NEW r \in Runs, CancelRun(r)
  PROVE  WInv' /\ (Sure /\ TypeOK' /\ OwnersInv => OwnersInv')
<1>1. /\ TypeOK /\ RunInv(r) /\ WorkInv(r) /\ mode' = mode
      /\ run[r] \in Row /\ can[r] \in Obligation /\ "loop" \in Agents
  BY DEF CancelRun, IInv, WInv, TypeOK, Agents
<1>2. /\ Active(r) /\ pub[r] # "pending"
      /\ UNCHANGED <<pub, contract, wf, post, wk, todo, intent, settle, pass>>
      /\ run'[r] = [run[r] EXCEPT !.status = "interrupted", !.phase = "cancelled",
                                 !.unsure = @ /\ run[r].phase = "infrastructure-pending"]
      /\ can'[r] = IF Running(r)
                   THEN Upsert(r, run[r].job, IF run[r].phase = "infrastructure-pending"
                                              THEN "owner_restart" ELSE "superseded")
                   ELSE can[r]
      /\ r \in asked' => r \in asked \/ mode # "down"
  BY <1>1 DEF CancelRun, cluster, TypeOK, At, Goto
<1>3. /\ run'[r].status = "interrupted" /\ run'[r].phase = "cancelled"
      /\ run'[r].job = run[r].job
      /\ run[r].phase = "infrastructure-pending" => run'[r].unsure = run[r].unsure
  BY <1>1, <1>2 DEF Row
<1>4. \/ can'[r] = can[r] /\ run[r].status = "queued"
      \/ /\ Running(r) /\ can'[r].job = run[r].job /\ can'[r].open /\ can'[r].at = can[r].at + 1
         /\ run[r].phase # "infrastructure-pending" => can'[r].reason = "superseded"
  BY <1>1, <1>2 DEF Upsert
<1>5. \A a \in Agents : InPass(a, r)' <=> InPass(a, r)
  BY <1>1 DEF ListKept, InPass, CancelRun, cluster
<1>6. ClusterInv(r)'
  BY <1>1, <1>2, <1>3, <1>4 DEF WorkInv, ClusterInv, HolderInv, NameInv, IntentInv, RunInv,
     RowInv, PubInv, PendInv, CanInv, ProcInv
<1>7. HolderInv(r)'
  BY <1>1, <1>2, <1>3, <1>4 DEF WorkInv, ClusterInv, HolderInv, NameInv, IntentInv, RunInv,
     RowInv, PubInv, PendInv, CanInv, ProcInv
<1>8. NameInv(r)' /\ IntentInv(r)'
  BY <1>1, <1>2, <1>3, <1>4 DEF WorkInv, ClusterInv, HolderInv, NameInv, IntentInv, RunInv,
     RowInv, PubInv, PendInv, CanInv, ProcInv
<1>9. ListInv(r)'
  BY <1>1, <1>2, <1>3, <1>4, <1>5 DEF WorkInv, ListInv, ListKept, HolderInv, NameInv,
     RunInv, RowInv, PubInv, PendInv, CanInv, ProcInv
<1>10. \A x \in Runs \ {r} : Still(x)
  BY <1>1 DEF Still, SameTables, SameMemory, ListKept, InPass, CancelRun, cluster, TypeOK,
     Goto
<1>11. ASSUME Sure, TypeOK', OwnersInv
      PROVE  OwnersInv'
  <2>1. OwnInv(r) /\ EntryInv(r)
    BY <1>11 DEF OwnersInv
  <2>2. OwnInv(r)'
    BY <1>1, <1>2, <1>3, <1>4, <2>1 DEF OwnInv, Unheld, InCluster, CreateOwners, WorkInv,
       ClusterInv, HolderInv, NameInv, IntentInv, RunInv, RowInv, PubInv, PendInv, CanInv,
       ProcInv
  <2>3. RowMoves(r)
    BY <1>1, <1>2, <1>3, <1>4, <2>1 DEF RowMoves, OwnInv, Unheld, InCluster, CreateOwners,
       WorkInv, ClusterInv, HolderInv, NameInv, IntentInv, RunInv, RowInv, PubInv, PendInv,
       CanInv, ProcInv, Obligation
  <2>4. \A x \in Runs : EntryKept(x)
    BY <1>1 DEF EntryKept, CancelRun, cluster, TypeOK
  <2> QED
    BY <1>1, <1>11, <2>1, <2>2, <2>3, <2>4, <1>10, EntryStep, OneOwner DEF Undisturbed,
       Still
<1> QED
  BY <1>1, <1>6, <1>7, <1>8, <1>9, <1>10, <1>11, OneRun DEF WorkInv

\* RetryFailedPublication: a published run has ended and nobody lists it.
LEMMA RetryWork ==
  ASSUME IInv, WInv, NEW r \in Runs, RetryFailedPublication(r)
  PROVE  WInv' /\ (Sure /\ TypeOK' /\ OwnersInv => OwnersInv')
<1>1. /\ TypeOK /\ RunInv(r) /\ WorkInv(r) /\ mode' = mode
      /\ run[r] \in Row /\ can[r] \in Obligation /\ "loop" \in Agents
  BY DEF RetryFailedPublication, IInv, WInv, TypeOK, Agents, memory
<1>2. /\ mode = "up" /\ pub[r] = "failed" /\ pub'[r] = "pending" /\ run[r].status = "failed"
      /\ UNCHANGED <<can, contract, wf, post, wk, todo, intent, settle, asked>>
      /\ run'[r] = [run[r] EXCEPT !.status = "running", !.phase = "publishing", !.unsure = FALSE]
  BY <1>1 DEF RetryFailedPublication, cluster, memory, TypeOK, At, Goto
<1>3. /\ run'[r].status = "running" /\ run'[r].phase = "publishing" /\ run'[r].job = run[r].job
  BY <1>1, <1>2 DEF Row
<1>4. ListKept(r)
  BY <1>1 DEF ListKept, InPass, RetryFailedPublication, cluster, memory
<1>5. ClusterInv(r)'
  BY <1>1, <1>2, <1>3 DEF WorkInv, ClusterInv, HolderInv, NameInv, IntentInv, RunInv,
     RowInv, PubInv, PendInv, CanInv, ProcInv
<1>6. HolderInv(r)'
  BY <1>1, <1>2, <1>3 DEF WorkInv, ClusterInv, HolderInv, NameInv, IntentInv, RunInv,
     RowInv, PubInv, PendInv, CanInv, ProcInv
<1>7. NameInv(r)' /\ IntentInv(r)'
  BY <1>1, <1>2, <1>3 DEF WorkInv, ClusterInv, HolderInv, NameInv, IntentInv, RunInv,
     RowInv, PubInv, PendInv, CanInv, ProcInv
<1>8. ListInv(r)'
  BY <1>1, <1>2, <1>3, <1>4 DEF WorkInv, ListInv, ListKept, HolderInv, NameInv, RunInv,
     RowInv, PubInv, PendInv, CanInv, ProcInv
<1>9. \A x \in Runs \ {r} : Still(x)
  BY <1>1 DEF Still, SameTables, SameMemory, ListKept, InPass, RetryFailedPublication,
     cluster, memory, TypeOK, Goto
<1>10. ASSUME Sure, TypeOK', OwnersInv
      PROVE  OwnersInv'
  <2>1. OwnInv(r) /\ EntryInv(r)
    BY <1>10 DEF OwnersInv
  <2>2. OwnInv(r)'
    BY <1>1, <1>2, <1>3, <2>1 DEF OwnInv, Unheld, InCluster, CreateOwners, WorkInv,
       ClusterInv, HolderInv, NameInv, IntentInv, RunInv, RowInv, PubInv, PendInv, CanInv,
       ProcInv
  <2>3. RowMoves(r)
    BY <1>1, <1>2, <1>3, <2>1 DEF RowMoves, OwnInv, Unheld, InCluster, CreateOwners,
       WorkInv, ClusterInv, HolderInv, NameInv, IntentInv, RunInv, RowInv, PubInv, PendInv,
       CanInv, ProcInv
  <2>4. \A x \in Runs : EntryKept(x)
    BY <1>1 DEF EntryKept, RetryFailedPublication, cluster, memory, TypeOK
  <2> QED
    BY <1>1, <1>10, <2>1, <2>2, <2>3, <2>4, <1>9, EntryStep, OneOwner DEF Undisturbed, Still
<1> QED
  BY <1>1, <1>5, <1>6, <1>7, <1>8, <1>9, <1>10, OneRun DEF WorkInv

\* FinalizePublication
LEMMA FinalizeWork ==
  ASSUME IInv, WInv, NEW r \in Runs, NEW outcome \in {"delivered", "failed", "abandoned"},
         FinalizePublication(r, outcome)
  PROVE  WInv' /\ (Sure /\ TypeOK' /\ OwnersInv => OwnersInv')
<1>1. /\ TypeOK /\ RunInv(r) /\ WorkInv(r) /\ mode' = mode
      /\ run[r] \in Row /\ can[r] \in Obligation /\ "loop" \in Agents
  BY DEF FinalizePublication, IInv, WInv, TypeOK, Agents, memory
<1>2. /\ pub[r] = "pending" /\ pub'[r] # "none" /\ Running(r)
      /\ UNCHANGED <<can, contract, wf, post, wk, todo, intent, settle, asked>>
      /\ \E s \in {"passed", "failed"}, p \in {"passed", "publishing", "abandoned"} :
           run'[r] = [run[r] EXCEPT !.status = s, !.phase = p, !.unsure = FALSE]
  BY <1>1 DEF FinalizePublication, cluster, memory, TypeOK, At, Goto
<1>3. /\ run'[r].status \in {"passed", "failed"}
      /\ run'[r].phase \in {"passed", "publishing", "abandoned"} /\ run'[r].job = run[r].job
  BY <1>1, <1>2 DEF Row
<1>4. ListKept(r)
  BY <1>1 DEF ListKept, InPass, FinalizePublication, cluster, memory
<1>5. ClusterInv(r)'
  BY <1>1, <1>2, <1>3 DEF WorkInv, ClusterInv, HolderInv, NameInv, IntentInv, RunInv,
     RowInv, PubInv, PendInv, CanInv, ProcInv
<1>6. HolderInv(r)'
  BY <1>1, <1>2, <1>3 DEF WorkInv, ClusterInv, HolderInv, NameInv, IntentInv, RunInv,
     RowInv, PubInv, PendInv, CanInv, ProcInv
<1>7. NameInv(r)' /\ IntentInv(r)'
  BY <1>1, <1>2, <1>3 DEF WorkInv, ClusterInv, HolderInv, NameInv, IntentInv, RunInv,
     RowInv, PubInv, PendInv, CanInv, ProcInv
<1>8. ListInv(r)'
  BY <1>1, <1>2, <1>3, <1>4 DEF WorkInv, ListInv, ListKept, HolderInv, NameInv, RunInv,
     RowInv, PubInv, PendInv, CanInv, ProcInv
<1>9. \A x \in Runs \ {r} : Still(x)
  BY <1>1 DEF Still, SameTables, SameMemory, ListKept, InPass, FinalizePublication, cluster,
     memory, TypeOK, Goto
<1>10. ASSUME Sure, TypeOK', OwnersInv
      PROVE  OwnersInv'
  <2>1. OwnInv(r) /\ EntryInv(r)
    BY <1>10 DEF OwnersInv
  <2>2. OwnInv(r)'
    BY <1>1, <1>2, <1>3, <2>1 DEF OwnInv, Unheld, InCluster, CreateOwners, WorkInv,
       ClusterInv, HolderInv, NameInv, IntentInv, RunInv, RowInv, PubInv, PendInv, CanInv,
       ProcInv
  <2>3. RowMoves(r)
    BY <1>1, <1>2, <1>3, <2>1 DEF RowMoves, OwnInv, Unheld, InCluster, CreateOwners,
       WorkInv, ClusterInv, HolderInv, NameInv, IntentInv, RunInv, RowInv, PubInv, PendInv,
       CanInv, ProcInv
  <2>4. \A x \in Runs : EntryKept(x)
    BY <1>1 DEF EntryKept, FinalizePublication, cluster, memory, TypeOK
  <2> QED
    BY <1>1, <1>10, <2>1, <2>2, <2>3, <2>4, <1>9, EntryStep, OneOwner DEF Undisturbed, Still
<1> QED
  BY <1>1, <1>5, <1>6, <1>7, <1>8, <1>9, <1>10, OneRun DEF WorkInv

\* ReconcileRegisters
LEMMA RegisterWork ==
  ASSUME IInv, WInv, NEW r \in Runs, ReconcileRegisters(r)
  PROVE  WInv' /\ (Sure /\ TypeOK' /\ OwnersInv => OwnersInv')
<1>1. /\ TypeOK /\ RunInv(r) /\ WorkInv(r) /\ mode' = mode
      /\ run[r] \in Row /\ can[r] \in Obligation /\ "loop" \in Agents
  BY DEF ReconcileRegisters, Stranded, Reconciled, IInv, WInv, TypeOK, Agents
<1>2. /\ mode = "reconcile" /\ todo[r] # "none" /\ todo'[r] = "none"
      /\ UNCHANGED <<run, can, pub, contract, wf, post, wk, intent, asked>>
      /\ \E b \in BOOLEAN : settle' = Register(r, b)
  BY <1>1 DEF ReconcileRegisters, Stranded, Reconciled, durable, cluster, TypeOK, At, Goto
<1>3. /\ settle'[r].step \in {"armed", "todo"} \/ settle'[r] = settle[r]
      /\ \A x \in Runs \ {r} : settle'[x] = settle[x]
  BY <1>1, <1>2, RegisterWrites
<1>4. ListKept(r)
  BY <1>1 DEF ListKept, InPass, ReconcileRegisters, Stranded, Reconciled, durable, cluster
<1>5. ClusterInv(r)'
  BY <1>1, <1>2, <1>3 DEF WorkInv, ClusterInv, HolderInv, NameInv, IntentInv, RunInv,
     RowInv, PubInv, PendInv, CanInv, ProcInv
<1>6. HolderInv(r)'
  BY <1>1, <1>2, <1>3 DEF WorkInv, ClusterInv, HolderInv, NameInv, IntentInv, RunInv,
     RowInv, PubInv, PendInv, CanInv, ProcInv
<1>7. NameInv(r)' /\ IntentInv(r)'
  BY <1>1, <1>2, <1>3 DEF WorkInv, ClusterInv, HolderInv, NameInv, IntentInv, RunInv,
     RowInv, PubInv, PendInv, CanInv, ProcInv
<1>8. ListInv(r)'
  BY <1>1, <1>2, <1>3, <1>4 DEF WorkInv, ListInv, ListKept, HolderInv, NameInv, RunInv,
     RowInv, PubInv, PendInv, CanInv, ProcInv
<1>9. \A x \in Runs \ {r} : Still(x)
  BY <1>1, <1>3 DEF Still, SameTables, SameMemory, ListKept, InPass, ReconcileRegisters,
     Stranded, Reconciled, durable, cluster, TypeOK, Goto
<1>10. ASSUME Sure, TypeOK', OwnersInv
      PROVE  OwnersInv'
  <2>1. OwnInv(r) /\ EntryInv(r)
    BY <1>10 DEF OwnersInv
  <2>2. OwnInv(r)'
    BY <1>1, <1>2, <1>3, <2>1 DEF OwnInv, Unheld, InCluster, CreateOwners, WorkInv,
       ClusterInv, HolderInv, NameInv, IntentInv, RunInv, RowInv, PubInv, PendInv, CanInv,
       ProcInv
  <2>3. RowMoves(r)
    BY <1>1, <1>2, <1>3, <2>1 DEF RowMoves, OwnInv, Unheld, InCluster, CreateOwners,
       WorkInv, ClusterInv, HolderInv, NameInv, IntentInv, RunInv, RowInv, PubInv, PendInv,
       CanInv, ProcInv
  <2>4. \A x \in Runs : EntryKept(x)
    BY <1>1 DEF EntryKept, ReconcileRegisters, Stranded, Reconciled, durable, cluster,
       TypeOK
  <2> QED
    BY <1>1, <1>10, <2>1, <2>2, <2>3, <2>4, <1>9, EntryStep, OneOwner DEF Undisturbed, Still
<1> QED
  BY <1>1, <1>5, <1>6, <1>7, <1>8, <1>9, <1>10, OneRun DEF WorkInv

\* ReconcileAdopts: what is found was created, so no request is out.
LEMMA AdoptWork ==
  ASSUME IInv, WInv, NEW r \in Runs, ReconcileAdopts(r)
  PROVE  WInv' /\ (Sure /\ TypeOK' /\ OwnersInv => OwnersInv')
<1>1. /\ TypeOK /\ RunInv(r) /\ WorkInv(r) /\ mode' = mode
      /\ run[r] \in Row /\ can[r] \in Obligation /\ "loop" \in Agents
  BY DEF ReconcileAdopts, Stranded, Reconciled, IInv, WInv, TypeOK, Agents
<1>2. /\ mode = "reconcile" /\ todo[r] # "none" /\ todo'[r] = "none" /\ wk'[r] = "adopted"
      /\ wf[r] \in {"live", "passed", "failed"}
      /\ UNCHANGED <<run, can, pub, contract, wf, post, settle, intent, asked>>
  BY <1>1 DEF ReconcileAdopts, Stranded, Reconciled, durable, cluster, TypeOK, At, Goto
<1>3. ListKept(r)
  BY <1>1 DEF ListKept, InPass, ReconcileAdopts, Stranded, Reconciled, durable, cluster
<1>4. ClusterInv(r)'
  BY <1>1, <1>2 DEF WorkInv, ClusterInv, HolderInv, NameInv, IntentInv, RunInv, RowInv,
     PubInv, PendInv, CanInv, ProcInv
<1>5. HolderInv(r)'
  BY <1>1, <1>2 DEF WorkInv, ClusterInv, HolderInv, NameInv, IntentInv, RunInv, RowInv,
     PubInv, PendInv, CanInv, ProcInv
<1>6. NameInv(r)' /\ IntentInv(r)'
  BY <1>1, <1>2 DEF WorkInv, ClusterInv, HolderInv, NameInv, IntentInv, RunInv, RowInv,
     PubInv, PendInv, CanInv, ProcInv
<1>7. ListInv(r)'
  BY <1>1, <1>2, <1>3 DEF WorkInv, ListInv, ListKept, HolderInv, NameInv, RunInv, RowInv,
     PubInv, PendInv, CanInv, ProcInv
<1>8. \A x \in Runs \ {r} : Still(x)
  BY <1>1 DEF Still, SameTables, SameMemory, ListKept, InPass, ReconcileAdopts, Stranded,
     Reconciled, durable, cluster, TypeOK, Goto
<1>9. ASSUME Sure, TypeOK', OwnersInv
      PROVE  OwnersInv'
  <2>1. OwnInv(r) /\ EntryInv(r)
    BY <1>9 DEF OwnersInv
  <2>2. OwnInv(r)'
    BY <1>1, <1>2, <2>1 DEF OwnInv, Unheld, InCluster, CreateOwners, WorkInv, ClusterInv,
       HolderInv, NameInv, IntentInv, RunInv, RowInv, PubInv, PendInv, CanInv, ProcInv
  <2>3. RowMoves(r)
    BY <1>1, <1>2, <2>1 DEF RowMoves, OwnInv, Unheld, InCluster, CreateOwners, WorkInv,
       ClusterInv, HolderInv, NameInv, IntentInv, RunInv, RowInv, PubInv, PendInv, CanInv,
       ProcInv
  <2>4. \A x \in Runs : EntryKept(x)
    BY <1>1 DEF EntryKept, ReconcileAdopts, Stranded, Reconciled, durable, cluster, TypeOK
  <2> QED
    BY <1>1, <1>9, <2>1, <2>2, <2>3, <2>4, <1>8, EntryStep, OneOwner DEF Undisturbed, Still
<1> QED
  BY <1>1, <1>4, <1>5, <1>6, <1>7, <1>8, <1>9, OneRun DEF WorkInv

\* RequeueStrandedRun: nothing runs, and no contract tells of a request.
LEMMA RequeueWork ==
  ASSUME IInv, WInv, NEW r \in Runs, RequeueStrandedRun(r)
  PROVE  WInv' /\ (Sure /\ TypeOK' /\ OwnersInv => OwnersInv')
<1>1. /\ TypeOK /\ RunInv(r) /\ WorkInv(r) /\ mode' = mode
      /\ run[r] \in Row /\ can[r] \in Obligation /\ "loop" \in Agents
  BY DEF RequeueStrandedRun, Lost, Stranded, Reconciled, IInv, WInv, TypeOK, Agents
<1>2. /\ mode = "reconcile" /\ todo[r] \notin {"none", "infrastructure-pending"}
      /\ todo'[r] = "none"
      /\ wf[r] = "absent" /\ ~(todo[r] = "waiting" /\ contract[r]) /\ Running(r) /\ pub[r] = "none"
      /\ UNCHANGED <<pub, contract, wf, post, wk, settle, intent, asked>>
      /\ run'[r] = ResetRow(run[r])
      /\ run[r].job => can'[r] = Upsert(r, TRUE, "owner_restart")
  BY <1>1 DEF Requeueable, RequeueStrandedRun, Lost, Stranded, Reconciled, cluster, TypeOK,
     At, Goto
<1>3. /\ run'[r].status = "queued" /\ run'[r].phase = "queued"
      /\ ~run'[r].job /\ ~run'[r].started
  BY <1>1, <1>2 DEF Row, ResetRow
<1>4. can'[r].job /\ can'[r].open
  BY <1>1, <1>2 DEF Upsert, WorkInv, NameInv, RunInv, ProcInv
<1>5. ListKept(r)
  BY <1>1 DEF ListKept, InPass, RequeueStrandedRun, Lost, Stranded, Reconciled, cluster
<1>6. ClusterInv(r)'
  BY <1>1, <1>2, <1>3, <1>4 DEF WorkInv, ClusterInv, HolderInv, NameInv, IntentInv, RunInv,
     RowInv, PubInv, PendInv, CanInv, ProcInv
<1>7. HolderInv(r)'
  BY <1>1, <1>2, <1>3, <1>4 DEF WorkInv, ClusterInv, HolderInv, NameInv, IntentInv, RunInv,
     RowInv, PubInv, PendInv, CanInv, ProcInv
<1>8. NameInv(r)' /\ IntentInv(r)'
  BY <1>1, <1>2, <1>3, <1>4 DEF WorkInv, ClusterInv, HolderInv, NameInv, IntentInv, RunInv,
     RowInv, PubInv, PendInv, CanInv, ProcInv
<1>9. ListInv(r)'
  BY <1>1, <1>2, <1>3, <1>4, <1>5 DEF WorkInv, ListInv, ListKept, HolderInv, NameInv,
     RunInv, RowInv, PubInv, PendInv, CanInv, ProcInv
<1>10. \A x \in Runs \ {r} : Still(x)
  BY <1>1 DEF Still, SameTables, SameMemory, ListKept, InPass, RequeueStrandedRun, Lost,
     Stranded, Reconciled, cluster, TypeOK, Goto
<1>11. ASSUME Sure, TypeOK', OwnersInv
      PROVE  OwnersInv'
  <2>1. OwnInv(r) /\ EntryInv(r)
    BY <1>11 DEF OwnersInv
  <2>2. OwnInv(r)'
    BY <1>1, <1>2, <1>3, <1>4, <2>1 DEF OwnInv, Unheld, InCluster, CreateOwners, WorkInv,
       ClusterInv, HolderInv, NameInv, IntentInv, RunInv, RowInv, PubInv, PendInv, CanInv,
       ProcInv
  <2>3. RowMoves(r)
    BY <1>1, <1>2, <1>3, <1>4, <2>1 DEF RowMoves, OwnInv, Unheld, InCluster, CreateOwners,
       WorkInv, ClusterInv, HolderInv, NameInv, IntentInv, RunInv, RowInv, PubInv, PendInv,
       CanInv, ProcInv
  <2>4. \A x \in Runs : EntryKept(x)
    BY <1>1 DEF EntryKept, RequeueStrandedRun, Lost, Stranded, Reconciled, cluster, TypeOK
  <2> QED
    BY <1>1, <1>11, <2>1, <2>2, <2>3, <2>4, <1>10, EntryStep, OneOwner DEF Undisturbed,
       Still
<1> QED
  BY <1>1, <1>6, <1>7, <1>8, <1>9, <1>10, <1>11, OneRun DEF WorkInv

\* InterruptStrandedRun
LEMMA InterruptWork ==
  ASSUME IInv, WInv, NEW r \in Runs, InterruptStrandedRun(r)
  PROVE  WInv' /\ (Sure /\ TypeOK' /\ OwnersInv => OwnersInv')
<1>1. /\ TypeOK /\ RunInv(r) /\ WorkInv(r) /\ mode' = mode
      /\ run[r] \in Row /\ can[r] \in Obligation /\ "loop" \in Agents
  BY DEF InterruptStrandedRun, Delete, CompleteByName, Lost, Stranded, Reconciled, IInv,
     WInv, TypeOK, Agents
<1>2. /\ mode = "reconcile" /\ todo[r] \notin {"none", "infrastructure-pending"}
      /\ todo'[r] = "none"
      /\ wf[r] = "absent" /\ wf'[r] = "absent" /\ ~(todo[r] = "waiting" /\ contract[r])
      /\ UNCHANGED <<pub, contract, post, wk, settle, asked>>
      /\ run'[r] = FinishRow(run[r], "interrupted", "interrupted")
      /\ can'[r] = [can[r] EXCEPT !.open = @ /\ ~can[r].job]
      /\ intent[r] = "none" => intent'[r] = "none"
  BY <1>1 DEF Cancelled, InterruptStrandedRun, Delete, CompleteByName, Lost, Stranded,
     Reconciled, cluster, TypeOK, At, Goto
<1>3. \/ run'[r] = run[r] /\ ~Active(r)
      \/ /\ Active(r) /\ run'[r].status = "interrupted" /\ run'[r].phase = "interrupted"
         /\ run'[r].job = run[r].job
  BY <1>1, <1>2 DEF Row, FinishRow
<1>4. can'[r].job = can[r].job /\ (can'[r].open => can[r].open /\ ~can[r].job)
  BY <1>1, <1>2 DEF Obligation
<1>5. ListKept(r)
  BY <1>1 DEF ListKept, InPass, InterruptStrandedRun, Delete, CompleteByName, Lost,
     Stranded, Reconciled, cluster
<1>6. ClusterInv(r)'
  BY <1>1, <1>2, <1>3, <1>4 DEF WorkInv, ClusterInv, HolderInv, NameInv, IntentInv, RunInv,
     RowInv, PubInv, PendInv, CanInv, ProcInv
<1>7. HolderInv(r)'
  BY <1>1, <1>2, <1>3, <1>4 DEF WorkInv, ClusterInv, HolderInv, NameInv, IntentInv, RunInv,
     RowInv, PubInv, PendInv, CanInv, ProcInv
<1>8. NameInv(r)' /\ IntentInv(r)'
  BY <1>1, <1>2, <1>3, <1>4 DEF WorkInv, ClusterInv, HolderInv, NameInv, IntentInv, RunInv,
     RowInv, PubInv, PendInv, CanInv, ProcInv
<1>9. ListInv(r)'
  BY <1>1, <1>2, <1>3, <1>4, <1>5 DEF WorkInv, ListInv, ListKept, HolderInv, NameInv,
     RunInv, RowInv, PubInv, PendInv, CanInv, ProcInv
<1>10. \A x \in Runs \ {r} : Still(x)
  BY <1>1 DEF Still, SameTables, SameMemory, ListKept, InPass, InterruptStrandedRun, Delete,
     CompleteByName, Lost, Stranded, Reconciled, cluster, TypeOK, Goto
<1>11. ASSUME Sure, TypeOK', OwnersInv
      PROVE  OwnersInv'
  <2>1. OwnInv(r) /\ EntryInv(r)
    BY <1>11 DEF OwnersInv
  <2>2. OwnInv(r)'
    BY <1>1, <1>2, <1>3, <1>4, <2>1 DEF OwnInv, Unheld, InCluster, CreateOwners, WorkInv,
       ClusterInv, HolderInv, NameInv, IntentInv, RunInv, RowInv, PubInv, PendInv, CanInv,
       ProcInv
  <2>3. RowMoves(r)
    BY <1>1, <1>2, <1>3, <1>4, <2>1 DEF RowMoves, OwnInv, Unheld, InCluster, CreateOwners,
       WorkInv, ClusterInv, HolderInv, NameInv, IntentInv, RunInv, RowInv, PubInv, PendInv,
       CanInv, ProcInv
  <2>4. \A x \in Runs : EntryKept(x)
    BY <1>1 DEF EntryKept, InterruptStrandedRun, Delete, CompleteByName, Lost, Stranded,
       Reconciled, cluster, TypeOK
  <2> QED
    BY <1>1, <1>11, <2>1, <2>2, <2>3, <2>4, <1>10, EntryStep, OneOwner DEF Undisturbed,
       Still
<1> QED
  BY <1>1, <1>6, <1>7, <1>8, <1>9, <1>10, <1>11, OneRun DEF WorkInv

\* PassRegisters: the settlement never owns a queued run.
LEMMA PassRegistersWork ==
  ASSUME IInv, WInv, NEW r \in Runs, NEW a \in Agents, NEW e \in pass[a], e.id = r,
         PassRegisters(a, e)
  PROVE  WInv' /\ (Sure /\ TypeOK' /\ OwnersInv => OwnersInv')
<1>1. /\ TypeOK /\ RunInv(r) /\ WorkInv(r) /\ mode' = mode
      /\ run[r] \in Row /\ can[r] \in Obligation /\ "loop" \in Agents
  BY DEF PassRegisters, Handles, Done, IInv, WInv, TypeOK, Agents
<1>2. /\ isPendingCreate(r) \/ settle[r].step # "none"
      /\ UNCHANGED <<run, can, pub, contract, wf, post, wk, todo, intent, asked>>
      /\ \E b \in BOOLEAN : settle' = Register(r, b)
  BY <1>1 DEF OwnedBySettlement, PassRegisters, Handles, Done, durable, cluster, TypeOK, At,
     Goto
<1>3. /\ settle'[r].step \in {"armed", "todo"} \/ settle'[r] = settle[r]
      /\ \A x \in Runs \ {r} : settle'[x] = settle[x]
  BY <1>1, <1>2, RegisterWrites
<1>4. \A b \in Agents : InPass(b, r)' => InPass(b, r)
  BY <1>1 DEF ListKept, InPass, TypeOK, PassRegisters, Handles, Done, durable, cluster
<1>5. ClusterInv(r)'
  BY <1>1, <1>2, <1>3 DEF WorkInv, ClusterInv, HolderInv, NameInv, IntentInv, RunInv,
     RowInv, PubInv, PendInv, CanInv, ProcInv
<1>6. HolderInv(r)'
  BY <1>1, <1>2, <1>3 DEF WorkInv, ClusterInv, HolderInv, NameInv, IntentInv, RunInv,
     RowInv, PubInv, PendInv, CanInv, ProcInv
<1>7. NameInv(r)' /\ IntentInv(r)'
  BY <1>1, <1>2, <1>3 DEF WorkInv, ClusterInv, HolderInv, NameInv, IntentInv, RunInv,
     RowInv, PubInv, PendInv, CanInv, ProcInv
<1>8. ListInv(r)'
  BY <1>1, <1>2, <1>3, <1>4 DEF WorkInv, ListInv, ListKept, HolderInv, NameInv, RunInv,
     RowInv, PubInv, PendInv, CanInv, ProcInv
<1>9. \A x \in Runs \ {r} : Still(x)
  BY <1>1, <1>3 DEF Still, SameTables, SameMemory, ListKept, InPass, PassRegisters, Handles,
     Done, durable, cluster, TypeOK, Goto
<1>10. ASSUME Sure, TypeOK', OwnersInv
      PROVE  OwnersInv'
  <2>1. OwnInv(r) /\ EntryInv(r)
    BY <1>10 DEF OwnersInv
  <2>2. OwnInv(r)'
    BY <1>1, <1>2, <1>3, <2>1 DEF OwnInv, Unheld, InCluster, CreateOwners, WorkInv,
       ClusterInv, HolderInv, NameInv, IntentInv, RunInv, RowInv, PubInv, PendInv, CanInv,
       ProcInv
  <2>3. RowMoves(r)
    BY <1>1, <1>2, <1>3, <2>1 DEF RowMoves, OwnInv, Unheld, InCluster, CreateOwners,
       WorkInv, ClusterInv, HolderInv, NameInv, IntentInv, RunInv, RowInv, PubInv, PendInv,
       CanInv, ProcInv
  <2>4. \A x \in Runs : EntryKept(x)
    BY <1>1 DEF EntryKept, PassRegisters, Handles, Done, durable, cluster, TypeOK
  <2> QED
    BY <1>1, <1>10, <2>1, <2>2, <2>3, <2>4, <1>9, EntryStep, OneOwner DEF Undisturbed, Still
<1> QED
  BY <1>1, <1>5, <1>6, <1>7, <1>8, <1>9, <1>10, OneRun DEF WorkInv

\* PassDeletes: whoever a pass cancels is over or has no creator.
LEMMA PassDeletesWork ==
  ASSUME IInv, WInv, NEW r \in Runs, NEW a \in Agents, NEW e \in pass[a], e.id = r, NEW ok
         \in BOOLEAN, PassDeletes(a, e, ok)
  PROVE  WInv' /\ (Sure /\ TypeOK' /\ OwnersInv => OwnersInv')
<1>1. /\ TypeOK /\ RunInv(r) /\ WorkInv(r) /\ mode' = mode
      /\ run[r] \in Row /\ can[r] \in Obligation /\ "loop" \in Agents
  BY DEF PassDeletes, Handles, Delete, IInv, WInv, TypeOK, Agents
<1>2. /\ UNCHANGED <<run, can, pub, contract, post, wk, todo, settle, asked>>
      /\ wf'[r] = wf[r] \/ (wf[r] # "absent" /\ wf'[r] = "deleting")
      /\ intent'[r] # "reserved"
      /\ (intent'[r] = "cancelled" => intent[r] \in {"reserved", "cancelled"})
      /\ (intent[r] = "none" => intent'[r] = "none")
  BY <1>1 DEF Cancelled, PassDeletes, Handles, Delete, durable, TypeOK, At, Goto
<1>3. InPass(a, r)
  BY <1>1 DEF InPass
<1>4. \A b \in Agents, x \in Runs : InPass(b, x)' <=> InPass(b, x)
  BY <1>1, EntriesKept DEF PassDeletes
<1>5. ListKept(r)
  BY <1>1, <1>2, <1>4 DEF ListKept, PassDeletes, Handles, Delete, durable
<1>6. ClusterInv(r)'
  BY <1>1, <1>2, <1>3, <1>4 DEF WorkInv, ClusterInv, HolderInv, NameInv, IntentInv, RunInv,
     RowInv, PubInv, PendInv, CanInv, ProcInv, ListInv
<1>7. HolderInv(r)'
  BY <1>1, <1>2, <1>3, <1>4 DEF WorkInv, ClusterInv, HolderInv, NameInv, IntentInv, RunInv,
     RowInv, PubInv, PendInv, CanInv, ProcInv, ListInv
<1>8. NameInv(r)' /\ IntentInv(r)'
  BY <1>1, <1>2, <1>3, <1>4 DEF WorkInv, ClusterInv, HolderInv, NameInv, IntentInv, RunInv,
     RowInv, PubInv, PendInv, CanInv, ProcInv, ListInv
<1>9. ListInv(r)'
  BY <1>1, <1>2, <1>3, <1>4, <1>5 DEF WorkInv, ListInv, ListKept, HolderInv, NameInv,
     RunInv, RowInv, PubInv, PendInv, CanInv, ProcInv
<1>10. \A x \in Runs \ {r} : Still(x)
  BY <1>1, <1>4 DEF Still, SameTables, SameMemory, ListKept, PassDeletes, Handles, Delete,
     durable, TypeOK, Goto
<1>11. ASSUME Sure, TypeOK', OwnersInv
      PROVE  OwnersInv'
  <2>1. OwnInv(r) /\ EntryInv(r)
    BY <1>11 DEF OwnersInv
  <2>2. wf'[r] # "live" /\ ~isPendingCreate(r) /\ settle[r].step = "none"
    BY <1>1, <1>11, <1>2 DEF Cancelled, OwnedBySettlement, PassDeletes, Handles, Delete,
       durable, TypeOK, At, Goto, Sure, Fault
  <2>3. OwnInv(r)'
    BY <1>1, <1>2, <1>3, <1>4, <2>1, <2>2 DEF OwnInv, Unheld, InCluster, CreateOwners,
       WorkInv, ClusterInv, HolderInv, NameInv, IntentInv, RunInv, RowInv, PubInv, PendInv,
       CanInv, ProcInv
  <2>4. ~Unheld(r)'
    BY <1>1, <1>11, <1>2, <2>1, <2>2 DEF OwnInv, Unheld, InCluster, CreateOwners
  <2>5. \A b \in Agents : \A f \in pass'[b] :
           f \in pass[b] \/ (f.id = e.id /\ f.row = e.row /\ b = a)
    BY <1>1, <1>11, MarkedEntries DEF PassDeletes
  <2>6. EntryInv(r)'
    BY <1>1, <1>11, <1>2, <2>1, <2>4, <2>5 DEF EntryInv
  <2>7. \A x \in Runs \ {r} : EntryKept(x)
    BY <1>1, <1>11, <2>5 DEF EntryKept
  <2> QED
    BY <1>1, <1>11, <2>3, <2>6, <2>7, <1>10, OneOwner DEF Undisturbed, Still
<1> QED
  BY <1>1, <1>6, <1>7, <1>8, <1>9, <1>10, <1>11, OneRun DEF WorkInv

\* PassCompletes: the obligation is closed when its entry goes.
LEMMA PassCompletesWork ==
  ASSUME IInv, WInv, NEW r \in Runs, NEW a \in Agents, NEW e \in pass[a], e.id = r,
         PassCompletes(a, e)
  PROVE  WInv' /\ (Sure /\ TypeOK' /\ OwnersInv => OwnersInv')
<1>1. /\ TypeOK /\ RunInv(r) /\ WorkInv(r) /\ mode' = mode
      /\ run[r] \in Row /\ can[r] \in Obligation /\ "loop" \in Agents
  BY DEF PassCompletes, Done, RetireObserved, IInv, WInv, TypeOK, Agents
<1>2. e.row \in Obligation
  BY <1>1 DEF Entry, PassCompletes, Done, RetireObserved, cluster, TypeOK, At, Goto
<1>3. /\ UNCHANGED <<pub, contract, wf, post, wk, todo, intent, settle, asked>> /\ e.gone
      /\ \/ run'[r] = run[r] /\ can'[r] = can[r] /\ can[r] = [e.row EXCEPT !.open = FALSE]
         \/ /\ can[r] = e.row
            /\ run'[r] = [run[r] EXCEPT !.unsure = @ /\ run[r].status # "interrupted"]
            /\ can'[r] = [can[r] EXCEPT !.open = FALSE]
  BY <1>1 DEF AlreadyComplete, Observed, PassCompletes, Done, RetireObserved, cluster,
     TypeOK, At, Goto
<1>4. /\ run'[r].status = run[r].status /\ run'[r].job = run[r].job /\ run'[r].phase = run[r].phase
      /\ run'[r].superseded = run[r].superseded /\ run'[r].started = run[r].started
      /\ run[r].status = "interrupted" \/ run'[r].unsure = run[r].unsure
      /\ ~can'[r].open /\ can'[r].at = can[r].at
  BY <1>1, <1>2, <1>3 DEF Row, Obligation
<1>5. \A b \in Agents : InPass(b, r)' => InPass(b, r)
  BY <1>1 DEF ListKept, InPass, TypeOK, PassCompletes, Done, RetireObserved, cluster
<1>6. ClusterInv(r)'
  BY <1>1, <1>2, <1>3, <1>4 DEF WorkInv, ClusterInv, HolderInv, NameInv, IntentInv, RunInv,
     RowInv, PubInv, PendInv, CanInv, ProcInv
<1>7. HolderInv(r)'
  BY <1>1, <1>2, <1>3, <1>4 DEF WorkInv, ClusterInv, HolderInv, NameInv, IntentInv, RunInv,
     RowInv, PubInv, PendInv, CanInv, ProcInv
<1>8. NameInv(r)' /\ IntentInv(r)'
  BY <1>1, <1>2, <1>3, <1>4 DEF WorkInv, ClusterInv, HolderInv, NameInv, IntentInv, RunInv,
     RowInv, PubInv, PendInv, CanInv, ProcInv
<1>9. ListInv(r)'
  BY <1>1, <1>2, <1>3, <1>4, <1>5 DEF WorkInv, ListInv, ListKept, HolderInv, NameInv,
     RunInv, RowInv, PubInv, PendInv, CanInv, ProcInv
<1>10. \A x \in Runs \ {r} : Still(x)
  BY <1>1 DEF Still, SameTables, SameMemory, ListKept, InPass, PassCompletes, Done,
     RetireObserved, cluster, TypeOK, Goto
<1>11. ASSUME Sure, TypeOK', OwnersInv
      PROVE  OwnersInv'
  <2>1. OwnInv(r) /\ EntryInv(r)
    BY <1>11 DEF OwnersInv
  <2>2. can[r] = e.row => ~Unheld(r)
    BY <1>1, <1>11, <1>3, <2>1 DEF EntryInv
  <2>3. can[r] # e.row => run'[r] = run[r] /\ ~can[r].open
    BY <1>1, <1>11, <1>2, <1>3 DEF Obligation
  <2>4. OwnInv(r)'
    BY <1>1, <1>2, <1>3, <1>4, <2>1, <2>2, <2>3 DEF OwnInv, Unheld, InCluster, CreateOwners,
       WorkInv, ClusterInv, HolderInv, NameInv, IntentInv, RunInv, RowInv, PubInv, PendInv,
       CanInv, ProcInv
  <2>5. RowMoves(r)
    BY <1>1, <1>2, <1>3, <1>4, <2>1, <2>2, <2>3 DEF RowMoves, OwnInv, Unheld, InCluster,
       CreateOwners, WorkInv, ClusterInv, HolderInv, NameInv, IntentInv, RunInv, RowInv,
       PubInv, PendInv, CanInv, ProcInv
  <2>6. \A x \in Runs : EntryKept(x)
    BY <1>1 DEF EntryKept, PassCompletes, Done, RetireObserved, cluster, TypeOK
  <2> QED
    BY <1>1, <1>11, <2>1, <2>4, <2>5, <2>6, <1>10, EntryStep, OneOwner DEF Undisturbed,
       Still
<1> QED
  BY <1>1, <1>6, <1>7, <1>8, <1>9, <1>10, <1>11, OneRun DEF WorkInv

-----------------------------------------------------------------------------
(* Steps about several runs *)

\* A step that changes only the lists of work.
LEMMA ListStep ==
  ASSUME NEW r \in Runs, WorkInv(r), mode' = mode, SameTables(r), SameMemory(r), ListInv(r)'
  PROVE  WorkInv(r)'
<1>1. ClusterInv(r)'
  BY DEF WorkInv, ClusterInv, SameTables, SameMemory
<1>2. HolderInv(r)' /\ NameInv(r)' /\ IntentInv(r)'
  BY DEF WorkInv, HolderInv, NameInv, IntentInv, SameTables, SameMemory
<1> QED
  BY <1>1, <1>2 DEF WorkInv

\* The runs a snapshot of the ledger names.
LEMMA SnapshotRuns ==
  ASSUME NEW rs \in SUBSET Runs, NEW x \in Runs
  PROVE  (\E e \in Snapshot(rs) : e.id = x) <=> x \in rs /\ can[x].open /\ can[x].job
<1> DEFINE named == {y \in rs : can[y].open /\ can[y].job}
           entry(y) == [id |-> y, row |-> can[y], gone |-> FALSE]
<1>1. \A y : entry(y).id = y
  OBVIOUS
<1>2. Snapshot(rs) = {entry(y) : y \in named}
  BY DEF Snapshot
<1>3. x \in named <=> x \in rs /\ can[x].open /\ can[x].job
  OBVIOUS
<1> HIDE DEF entry, named
<1> QED
  BY <1>1, <1>2, <1>3

\* A run with a named obligation may be listed by a pass of a running server.
LEMMA Listable ==
  ASSUME NEW x \in Runs, RunInv(x), ListInv(x), can[x].open, can[x].job
  PROVE  /\ run[x].status # "none" /\ pub[x] = "none"
         /\ Active(x) => \/ Running(x) /\ run[x].phase = "infrastructure-pending"
                         \/ run[x].status = "queued" /\ mode # "up"
BY DEF RunInv, CanInv, ListInv

\* WorkerPass: only the list of the worker changes.
LEMMA WorkerPassWork ==
  ASSUME IInv, WInv, NEW r \in Runs, WorkerPass(r)
  PROVE  WInv'
<1>1. /\ TypeOK /\ mode' = mode /\ mode = "up" /\ "loop" \in Agents /\ r \in Agents /\ r # "loop"
      /\ wk[r] = "sweep" /\ wk' = [wk EXCEPT ![r] = "swept"]
      /\ UNCHANGED <<run, can, pub, contract, wf, post, todo, intent, settle, asked>>
      /\ \A x \in Runs : RunInv(x) /\ WorkInv(x)
  BY RunsAssumption DEF WorkerPass, IInv, WInv, Agents, At, Goto, durable, cluster
<1>2. pass' = [pass EXCEPT ![r] = Snapshot(Runs)]
  BY DEF WorkerPass
<1>3. \A a \in Agents \ {r} : pass'[a] = pass[a]
  BY <1>1, <1>2 DEF TypeOK
<1>4. pass'[r] = Snapshot(Runs)
  BY <1>1, <1>2 DEF TypeOK
<1>5. ASSUME NEW x \in Runs
      PROVE  WorkInv(x)'
  <2>1. \A a \in Agents : InPass(a, x)' => InPass(a, x) \/ (can[x].open /\ can[x].job)
    BY <1>3, <1>4, SnapshotRuns DEF InPass
  <2>2. ListInv(x)'
    BY <1>1, <2>1, Listable DEF ListInv, WorkInv
  <2>3. CASE x # r
    <3>1. wk'[x] = wk[x]
      BY <1>1, <2>3 DEF TypeOK
    <3> QED
      BY <1>1, <2>2, <3>1, ListStep DEF SameTables, SameMemory
  <2>4. CASE x = r
    <3>1. wk'[r] = "swept"
      BY <1>1 DEF TypeOK
    <3>2. ClusterInv(r)'
      BY <1>1, <3>1 DEF WorkInv, ClusterInv
    <3>3. HolderInv(r)' /\ NameInv(r)' /\ IntentInv(r)'
      BY <1>1, <3>1 DEF WorkInv, HolderInv, NameInv, IntentInv
    <3> QED
      BY <2>2, <2>4, <3>2, <3>3 DEF WorkInv
  <2> QED
    BY <2>3, <2>4
<1> QED
  BY <1>5 DEF WInv

\* ApiPass: the handlers were handed preempted runs.
LEMMA ApiPassWork ==
  ASSUME IInv, WInv, ApiPass
  PROVE  WInv'
<1>1. /\ TypeOK /\ mode' = mode /\ mode # "down" /\ {"loop", "api"} \subseteq Agents
      /\ UNCHANGED <<run, can, pub, contract, wf, post, wk, todo, intent, settle>> /\ asked' = {}
      /\ \A x \in Runs : RunInv(x) /\ WorkInv(x)
  BY DEF ApiPass, IInv, WInv, Agents, durable, cluster
<1>2. pass' = [pass EXCEPT !["api"] = Snapshot(asked)]
  BY DEF ApiPass
<1>3. \A a \in Agents \ {"api"} : pass'[a] = pass[a]
  BY <1>1, <1>2 DEF TypeOK
<1>4. pass'["api"] = Snapshot(asked) /\ asked \in SUBSET Runs
  BY <1>1, <1>2 DEF TypeOK
<1>5. ASSUME NEW x \in Runs
      PROVE  WorkInv(x)'
  <2>1. \A a \in Agents :
          InPass(a, x)' => InPass(a, x) \/ (x \in asked /\ can[x].open /\ can[x].job)
    BY <1>3, <1>4, SnapshotRuns DEF InPass
  <2>2. InPass("loop", x)' <=> InPass("loop", x)
    BY <1>1, <1>3 DEF InPass
  <2>3. ListInv(x)'
    BY <1>1, <2>1, <2>2, Listable DEF ListInv, WorkInv
  <2> QED
    BY <1>1, <2>3, ListStep DEF SameTables, SameMemory
<1> QED
  BY <1>5 DEF WInv

\* LoopPass: the startup pass lists every queued run that still has an obligation.
LEMMA LoopPassWork ==
  ASSUME IInv, WInv, LoopPass
  PROVE  WInv'
<1>1. /\ TypeOK /\ "loop" \in Agents
      /\ UNCHANGED <<run, can, pub, contract, wf, post, wk, todo, intent, settle, asked>>
      /\ (mode = "up" /\ mode' = "up") \/ (mode = "sweep" /\ mode' = "swept")
      /\ \A x \in Runs : RunInv(x) /\ WorkInv(x)
  BY DEF LoopPass, IInv, WInv, Agents, durable, cluster
<1>2. pass' = [pass EXCEPT !["loop"] = Snapshot(Runs)]
  BY DEF LoopPass
<1>3. \A a \in Agents \ {"loop"} : pass'[a] = pass[a]
  BY <1>1, <1>2 DEF TypeOK
<1>4. pass'["loop"] = Snapshot(Runs)
  BY <1>1, <1>2 DEF TypeOK
<1>5. ASSUME NEW x \in Runs
      PROVE  WorkInv(x)'
  <2>1. \A a \in Agents \ {"loop"} : InPass(a, x)' <=> InPass(a, x)
    BY <1>3 DEF InPass
  <2>2. InPass("loop", x)' <=> can[x].open /\ can[x].job
    BY <1>4, SnapshotRuns DEF InPass
  <2>3. ListInv(x)'
    BY <1>1, <2>1, <2>2, Listable DEF ListInv, WorkInv
  <2>4. ClusterInv(x)'
    BY <1>1 DEF WorkInv, ClusterInv
  <2>5. HolderInv(x)' /\ NameInv(x)' /\ IntentInv(x)'
    BY <1>1 DEF WorkInv, HolderInv, NameInv, IntentInv
  <2> QED
    BY <2>3, <2>4, <2>5 DEF WorkInv
<1> QED
  BY <1>5 DEF WInv

\* A process that stops: a nameless obligation is left to the next owner.
LEMMA StopWork ==
  ASSUME IInv, WInv, Stop, UNCHANGED <<durable, cluster>>
  PROVE  WInv'
<1>1. /\ mode' = "down" /\ asked' = {}
      /\ UNCHANGED <<run, can, pub, contract, wf, post>>
      /\ \A x \in Runs : RunInv(x) /\ WorkInv(x)
  BY DEF Stop, IInv, WInv, durable, cluster
<1>2. ASSUME NEW x \in Runs
      PROVE  WorkInv(x)'
  <2>1. /\ wk'[x] = "none" /\ todo'[x] = "none" /\ intent'[x] = "none"
        /\ settle'[x] = NoSettle
    BY DEF Stop
  <2>2. settle'[x].step = "none"
    BY <2>1 DEF NoSettle
  <2>3. \A a \in Agents : ~InPass(a, x)'
    BY DEF Stop, InPass
  <2>4. ClusterInv(x)'
    BY <1>1, <2>1, <2>2 DEF WorkInv, ClusterInv
  <2>5. HolderInv(x)' /\ NameInv(x)' /\ IntentInv(x)'
    BY <1>1, <2>1 DEF WorkInv, HolderInv, NameInv, IntentInv
  <2>6. ListInv(x)'
    BY <1>1, <2>3 DEF WorkInv, ListInv
  <2> QED
    BY <2>4, <2>5, <2>6 DEF WorkInv
<1> QED
  BY <1>2 DEF WInv

\* A pass that failed is forgotten, and the startup pass is taken again.
LEMMA PassFailsWork ==
  ASSUME IInv, WInv, NEW a \in Agents, NEW e \in pass[a], NEW d \in BOOLEAN, PassFails(a, d),
         UNCHANGED <<durable, cluster>>
  PROVE  WInv'
<1>1. /\ TypeOK /\ "loop" \in Agents /\ UNCHANGED <<run, can, pub, contract, wf, post>>
      /\ \A x \in Runs : RunInv(x) /\ WorkInv(x)
  BY DEF IInv, WInv, Agents, durable, cluster
<1>2. CASE a = "loop" /\ Stop
  BY <1>2, StopWork
<1>3. ASSUME pass' = [pass EXCEPT ![a] = {}], UNCHANGED <<todo, intent, settle, asked>>,
             \/ a = "api" /\ UNCHANGED <<mode, wk>>
             \/ a = "loop" /\ mode = "swept" /\ mode' = "sweep" /\ UNCHANGED wk
             \/ a \in Runs /\ UNCHANGED mode /\ wk' = [wk EXCEPT ![a] = "fatal"],
             NEW x \in Runs
      PROVE  WorkInv(x)'
  <2>1. /\ pass'[a] = {} /\ \A b \in Agents \ {a} : pass'[b] = pass[b]
        /\ a \in Runs => a # "loop"
    BY <1>1, <1>3, RunsAssumption DEF TypeOK
  <2>2. /\ \A b \in Agents : InPass(b, x)' => InPass(b, x) /\ b # a
        /\ a # "loop" => (InPass("loop", x)' <=> InPass("loop", x))
    BY <1>1, <2>1 DEF InPass
  <2>3. ListInv(x)'
    BY <1>1, <1>3, <2>1, <2>2 DEF WorkInv, ListInv
  <2>4. wk'[x] = wk[x] \/ (mode = "up" /\ mode' = "up" /\ wk[x] = "swept" /\ wk'[x] = "fatal")
    <3>1. CASE wk' = wk
      BY <3>1
    <3>2. CASE a \in Runs /\ UNCHANGED mode /\ wk' = [wk EXCEPT ![a] = "fatal"]
      <4>1. wk[a] = "swept"
        BY <1>1, <3>2 DEF RunInv, ProcInv
      <4>2. mode = "up"
        BY <1>1, <3>2, <4>1 DEF WorkInv, HolderInv
      <4> QED
        BY <1>1, <3>2, <4>1, <4>2 DEF TypeOK
    <3> QED
      BY <1>3, <3>1, <3>2
  <2>5. mode' = mode \/ (mode = "swept" /\ mode' = "sweep")
    BY <1>3
  <2>6. ClusterInv(x)'
    BY <1>1, <1>3, <2>4, <2>5 DEF WorkInv, ClusterInv
  <2>7. HolderInv(x)' /\ NameInv(x)' /\ IntentInv(x)'
    BY <1>1, <1>3, <2>4, <2>5 DEF WorkInv, HolderInv, NameInv, IntentInv
  <2> QED
    BY <2>3, <2>6, <2>7 DEF WorkInv
<1> QED
  BY <1>2, <1>3 DEF PassFails, Goto, WInv

\* ReconcileEnds and StartupEnds: the startup pass has seen every queued run.
LEMMA StartupWork ==
  ASSUME IInv, WInv, ReconcileEnds \/ StartupEnds
  PROVE  WInv'
<1>1. /\ TypeOK /\ "loop" \in Agents
      /\ UNCHANGED <<run, can, pub, contract, wf, post, wk, todo, intent, settle, pass, asked>>
      /\ \/ mode = "reconcile" /\ mode' = "sweep"
         \/ mode = "swept" /\ mode' = "up" /\ pass["loop"] = {}
      /\ \A x \in Runs : RunInv(x) /\ WorkInv(x)
  BY DEF ReconcileEnds, StartupEnds, IInv, WInv, Agents, durable, cluster
<1>2. ASSUME NEW x \in Runs
      PROVE  WorkInv(x)'
  <2>1. /\ \A a \in Agents : InPass(a, x)' <=> InPass(a, x)
        /\ pass["loop"] = {} => ~InPass("loop", x)
    BY <1>1 DEF InPass
  <2>2. ListInv(x)'
    BY <1>1, <2>1 DEF WorkInv, ListInv
  <2>3. ClusterInv(x)'
    BY <1>1 DEF WorkInv, ClusterInv
  <2>4. HolderInv(x)' /\ NameInv(x)' /\ IntentInv(x)'
    BY <1>1 DEF WorkInv, HolderInv, NameInv, IntentInv
  <2> QED
    BY <2>2, <2>3, <2>4 DEF WorkInv
<1> QED
  BY <1>2 DEF WInv

\* enqueueRun: the new run was never seen, the runs it supersedes keep their
\* obligations, with the name they have.
LEMMA EnqueueWork ==
  ASSUME IInv, WInv, NEW n \in Runs, NEW head \in BOOLEAN, NEW force \in BOOLEAN,
         enqueueRun(n, head, force)
  PROVE  WInv'
<1> DEFINE old == SupersededBy(n, head, force)
           owing == ObligedRuns(old)
<1>1. /\ TypeOK /\ mode' = mode /\ mode # "down" /\ run[n].status = "none"
      /\ UNCHANGED <<pub, contract, wf, post, todo, wk, intent, settle, pass>>
      /\ asked' = asked \cup owing /\ "loop" \in Agents
      /\ \A x \in Runs : RunInv(x) /\ WorkInv(x) /\ run[x] \in Row /\ can[x] \in Obligation
  BY DEF enqueueRun, IInv, WInv, Agents, cluster, TypeOK
<1>2. \A x \in old : x \in Runs /\ x # n /\ Active(x) /\ pub[x] # "pending"
  BY DEF SupersededBy
<1>3. \A x \in Runs : x \in owing <=> x \in old /\ (Running(x) \/ run[x].job)
  BY <1>2 DEF ObligedRuns
<1>4. ASSUME NEW x \in Runs
      PROVE  /\ x = n => run'[x] = [NoRow EXCEPT !.status = "queued", !.phase = "queued"]
             /\ x \in old => run'[x] = [run[x] EXCEPT !.status = "interrupted",
                                          !.phase = "interrupted", !.superseded = TRUE]
             /\ x # n /\ x \notin old => run'[x] = run[x]
  BY <1>2 DEF enqueueRun
<1>5. ASSUME NEW x \in Runs
      PROVE  /\ x \in owing =>
                  can'[x] = Upsert(x, run[x].job, IF run[x].phase = "infrastructure-pending"
                                                  THEN "owner_restart" ELSE "superseded")
             /\ x \notin owing => can'[x] = can[x]
  BY DEF enqueueRun
<1> HIDE DEF old, owing
<1>6. ASSUME NEW x \in Runs
      PROVE  /\ \A a \in Agents : InPass(a, x)' <=> InPass(a, x)
             /\ x \in asked' => x \in asked \/ x \in owing
  BY <1>1 DEF InPass
<1>7. WorkInv(n)'
  <2>1. run'[n].status = "queued" /\ run'[n].phase = "queued"
    BY <1>4 DEF NoRow
  <2>2. can'[n] = can[n] /\ n \notin owing
    BY <1>2, <1>3, <1>5
  <2>3. /\ wk[n] = "none" /\ todo[n] = "none" /\ settle[n].step = "none" /\ pub[n] = "none"
        /\ ~can[n].open /\ (\A a \in Agents : ~InPass(a, n)) /\ n \notin asked
    BY <1>1 DEF RunInv, RowInv, WorkInv, ListInv
  <2>4. ClusterInv(n)'
    BY <1>1, <2>1, <2>3 DEF WorkInv, ClusterInv
  <2>5. HolderInv(n)' /\ NameInv(n)' /\ IntentInv(n)'
    BY <1>1, <2>1, <2>2, <2>3 DEF WorkInv, HolderInv, NameInv, IntentInv
  <2>6. ListInv(n)'
    BY <1>1, <1>6, <2>1, <2>2, <2>3 DEF WorkInv, ListInv
  <2> QED
    BY <2>4, <2>5, <2>6 DEF WorkInv
<1>8. ASSUME NEW x \in Runs, x \in old
      PROVE  WorkInv(x)'
  <2>1. /\ run'[x].status = "interrupted" /\ run'[x].phase = "interrupted"
        /\ run'[x].superseded /\ run'[x].job = run[x].job
    BY <1>1, <1>4, <1>8 DEF Row
  <2>2. Active(x) /\ pub[x] = "none"
    BY <1>1, <1>2, <1>8 DEF RunInv, PubInv, TypeOK
  <2>3. /\ x \notin owing => run[x].status = "queued" /\ can'[x] = can[x]
        /\ x \in owing => can'[x].job = run[x].job /\ (Running(x) \/ run[x].job)
        /\ x \in owing /\ run[x].phase # "infrastructure-pending" => can'[x].reason = "superseded"
    <3>1. CASE x \notin owing
      <4>1. can'[x] = can[x] /\ ~Running(x)
        BY <1>3, <1>5, <1>8, <3>1
      <4> QED
        BY <2>2, <3>1, <4>1
    <3>2. CASE x \in owing
      <4> DEFINE reason == IF run[x].phase = "infrastructure-pending"
                           THEN "owner_restart" ELSE "superseded"
      <4>1. can'[x] = Upsert(x, run[x].job, reason) /\ (Running(x) \/ run[x].job)
        BY <1>3, <1>5, <3>2
      <4>2. can'[x].job = run[x].job /\ can'[x].reason = reason
        BY <4>1 DEF Upsert
      <4> QED
        BY <3>2, <4>1, <4>2
    <3> QED
      BY <3>1, <3>2
  <2>4. ClusterInv(x)'
    BY <1>1, <2>1, <2>2 DEF WorkInv, ClusterInv
  <2>5. HolderInv(x)' /\ IntentInv(x)'
    BY <1>1, <2>1, <2>2 DEF WorkInv, HolderInv, IntentInv
  <2>6. NameInv(x)'
    BY <1>1, <2>1, <2>2, <2>3 DEF WorkInv, NameInv
  <2>7. ListInv(x)'
    BY <1>1, <1>6, <2>1, <2>2 DEF WorkInv, ListInv
  <2> QED
    BY <2>4, <2>5, <2>6, <2>7 DEF WorkInv
<1>9. ASSUME NEW x \in Runs, x # n, x \notin old
      PROVE  WorkInv(x)'
  BY <1>1, <1>3, <1>4, <1>5, <1>6, <1>9, StillKeeps DEF Still, SameTables, SameMemory, ListKept
<1> QED
  BY <1>7, <1>8, <1>9 DEF WInv

\* RecoverOwnerState: a claim is requeued when nothing was submitted, a run without
\* a name has no Workflow, and a nameless obligation is retired.
LEMMA RecoverWork ==
  ASSUME IInv, WInv, RecoverOwnerState
  PROVE  WInv'
<1>1. /\ TypeOK /\ mode = "down" /\ mode' = "reconcile" /\ "loop" \in Agents
      /\ UNCHANGED <<pub, contract, wf, post, wk, intent, settle, pass, asked>>
      /\ \A x \in Runs : RunInv(x) /\ WorkInv(x) /\ run[x] \in Row /\ can[x] \in Obligation
  BY DEF RecoverOwnerState, IInv, WInv, Agents, cluster, TypeOK
<1>2. ASSUME NEW x \in Runs
      PROVE  WorkInv(x)'
  <2>1. /\ run'[x] = RecoveredRow(x)
        /\ can'[x] = [can[x] EXCEPT !.open = @ /\ ~RetiredAtRestart(x)]
        /\ todo'[x] = IF run'[x].status = "running" /\ run'[x].job /\ pub[x] # "pending"
                      THEN run'[x].phase ELSE "none"
    BY DEF RecoverOwnerState
  <2>2. /\ can'[x].job = can[x].job /\ can'[x].reason = can[x].reason
        /\ can'[x].open => can[x].open /\ ~RetiredAtRestart(x)
    BY <1>1, <2>1 DEF Obligation
  <2>3. /\ wk[x] = "none" /\ settle[x].step = "none" /\ intent[x] = "none" /\ x \notin asked
        /\ \A a \in Agents : ~InPass(a, x)
    BY <1>1 DEF RunInv, ProcInv, WorkInv, IntentInv, ListInv
  <2>4. \A a \in Agents : ~InPass(a, x)'
    BY <1>1, <2>3 DEF InPass
  <2>5. can'[x].open => can[x].job
    <3>1. can[x].open /\ ~can[x].job => RetiredAtRestart(x)
      BY <1>1 DEF RetiredAtRestart, WorkInv, NameInv
    <3> QED
      BY <2>2, <3>1
  <2>6. /\ run[x].job /\ Running(x) => run'[x] = run[x] \/ run'[x].status = "queued"
        /\ \/ run'[x] = run[x] /\ (Running(x) => run[x].job)
           \/ /\ run'[x].status = "queued" /\ run'[x].phase = "queued"
              /\ Running(x) /\ pub[x] = "none" /\ Quiet(x) /\ ~can[x].open
           \/ /\ run'[x].status = "interrupted" /\ run'[x].phase = "interrupted"
              /\ Running(x) /\ pub[x] # "pending" /\ Quiet(x) /\ ~can[x].open
    <3>1. CASE ~Running(x) \/ pub[x] = "pending"
      BY <1>1, <2>1, <3>1 DEF RecoveredRow, WorkInv, NameInv
    <3>2. CASE Running(x) /\ pub[x] # "pending" /\ WaitingClaim(x)
      <4>1. run'[x] = ResetRow(run[x])
        BY <2>1, <3>2 DEF RecoveredRow
      <4>2. run'[x].status = "queued" /\ run'[x].phase = "queued"
        BY <1>1, <4>1 DEF ResetRow, Row
      <4>3. Quiet(x) /\ ~can[x].open /\ pub[x] = "none"
        BY <1>1, <3>2 DEF WaitingClaim, WorkInv, ClusterInv, RunInv, CanInv
      <4> QED
        BY <3>2, <4>2, <4>3
    <3>3. CASE Running(x) /\ pub[x] # "pending" /\ ~WaitingClaim(x) /\ run[x].job
      BY <2>1, <3>3 DEF RecoveredRow
    <3>4. CASE Running(x) /\ pub[x] # "pending" /\ ~WaitingClaim(x) /\ ~run[x].job
      <4>1. Quiet(x) /\ ~can[x].open
        BY <1>1, <3>4 DEF WorkInv, ClusterInv, NameInv, RunInv, CanInv
      <4>2. CASE Requeueable(x)
        <5>1. run'[x] = ResetRow(run[x]) /\ pub[x] = "none"
          BY <2>1, <3>4, <4>2 DEF RecoveredRow, Requeueable
        <5>2. run'[x].status = "queued" /\ run'[x].phase = "queued"
          BY <1>1, <5>1 DEF ResetRow, Row
        <5> QED
          BY <3>4, <4>1, <5>1, <5>2
      <4>3. CASE ~Requeueable(x)
        <5>1. run'[x] = [run[x] EXCEPT !.status = "interrupted", !.phase = "interrupted"]
          BY <2>1, <3>4, <4>3 DEF RecoveredRow
        <5>2. run'[x].status = "interrupted" /\ run'[x].phase = "interrupted"
          BY <1>1, <5>1 DEF Row
        <5> QED
          BY <3>4, <4>1, <5>2
      <4> QED
        BY <4>2, <4>3
    <3> QED
      BY <3>1, <3>2, <3>3, <3>4
  <2>7. pub[x] # "none" /\ pub[x] # "pending" => ~Running(x)
    BY <1>1 DEF RunInv, PubInv, TypeOK
  <2>8. ClusterInv(x)'
    BY <1>1, <2>3, <2>6 DEF WorkInv, ClusterInv
  <2>9. HolderInv(x)' /\ IntentInv(x)'
    BY <1>1, <2>1, <2>3, <2>6 DEF WorkInv, HolderInv, IntentInv
  <2>10. NameInv(x)'
    BY <1>1, <2>2, <2>3, <2>5, <2>6, <2>7 DEF WorkInv, NameInv
  <2>11. ListInv(x)'
    BY <1>1, <2>2, <2>3, <2>4, <2>5, <2>6 DEF WorkInv, ListInv
  <2> QED
    BY <2>8, <2>9, <2>10, <2>11 DEF WorkInv
<1> QED
  BY <1>2 DEF WInv

-----------------------------------------------------------------------------
(* The theorems *)

LEMMA WorkInit == Init => WInv
<1> SUFFICES ASSUME Init, NEW x \in Runs PROVE WorkInv(x)
  BY DEF WInv
<1>1. /\ run[x] = NoRow /\ can[x] = NoObligation /\ pub[x] = "none" /\ wf[x] = "absent"
      /\ ~post[x] /\ mode = "down" /\ todo[x] = "none" /\ wk[x] = "none"
      /\ intent[x] = "none" /\ settle[x] = NoSettle /\ asked = {}
      /\ \A a \in Agents : pass[a] = {}
  BY DEF Init
<1>2. /\ run[x].status = "none" /\ run[x].phase = "none" /\ ~can[x].open
      /\ settle[x].step = "none" /\ \A a \in Agents : ~InPass(a, x)
  BY <1>1 DEF NoRow, NoObligation, NoSettle, InPass
<1> QED
  BY <1>1, <1>2 DEF WorkInv, ClusterInv, HolderInv, NameInv, IntentInv, ListInv

\* Every step of the scheduler keeps what is known of a run and its Workflow.
LEMMA WorkStep == IInv /\ WInv /\ [Next]_vars => WInv'
<1> SUFFICES ASSUME IInv, WInv, [Next]_vars PROVE WInv'
  OBVIOUS
<1>1. CASE UNCHANGED vars
  <2> SUFFICES ASSUME NEW x \in Runs PROVE WorkInv(x)'
    BY DEF WInv
  <2>1. WorkInv(x) /\ mode' = mode /\ SameTables(x) /\ SameMemory(x)
    BY <1>1 DEF WInv, vars, durable, cluster, memory, SameTables, SameMemory
  <2>2. ListKept(x)
    BY <1>1 DEF vars, memory, ListKept, InPass
  <2> QED
    BY <2>1, <2>2, StillKeeps DEF Still
<1>2. ASSUME NEW r \in Runs, CreateStep(r) \/ ClaimNextRun(r) \/ CreateTimesOut(r)
      PROVE  WInv'
  BY <1>2, ClaimWork, BeginWork, FailWork, NameWork, AdmitWork, RecheckWork, SendWork,
     AfterWork, SubmitWork, UnmarkedWork, WipedWork, UnverifiedWork, UndoWork, RearmWork,
     CompleteWork, LeaveWork DEF CreateStep
<1>3. ASSUME NEW r \in Runs, ObserveStep(r)
      PROVE  WInv'
  BY <1>3, ResumeWork, WatchWork, WipeWork, PersistWork, PublishWork, FinishWork, ReturnWork,
     DeferWork, WorkerPassWork DEF ObserveStep
<1>4. ASSUME NEW r \in Runs, SettleStep(r) \/ ClusterStep(r)
      PROVE  WInv'
  BY <1>4, MarkWork, SweepWork, ConfirmWork, SettleWork, ReleaseWork, LandWork, RefuseWork,
     EndWork DEF SettleStep, ClusterStep
<1>5. ASSUME NEW r \in Runs, Requests(r) \/ Deliver(r)
      PROVE  WInv'
  BY <1>5, EnqueueWork, CancelWork, RetryWork, FinalizeWork DEF Requests, Deliver
<1>6. ASSUME NEW r \in Runs, ReconcileStep(r)
      PROVE  WInv'
  BY <1>6, RegisterWork, AdoptWork, RequeueWork, InterruptWork, StopWork
  DEF ReconcileStep, AdoptionRefused, ReconcileDeleteFails
<1>7. ASSUME NEW a \in Agents, NEW e \in pass[a], PassStep(a, e)
      PROVE  WInv'
  <2>1. e.id \in Runs
    BY DEF IInv, TypeOK, Entry
  <2>2. CASE PassRegisters(a, e) \/ PassCompletes(a, e)
    BY <2>1, <2>2, PassRegistersWork, PassCompletesWork
  <2>3. CASE \E ok \in BOOLEAN : PassDeletes(a, e, ok)
    BY <2>1, <2>3, PassDeletesWork
  <2>4. CASE PassDeleteFails(a, e) \/ PassConflicts(a, e)
    BY <2>4, PassFailsWork DEF PassDeleteFails, PassConflicts
  <2> QED
    BY <1>7, <2>2, <2>3, <2>4 DEF PassStep
<1>8. CASE LoopPass \/ ApiPass \/ ReconcileEnds \/ StartupEnds \/ RecoverOwnerState
  BY <1>8, LoopPassWork, ApiPassWork, StartupWork, RecoverWork
<1>9. CASE Crash \/ FatalExit
  BY <1>9, StopWork DEF Crash, FatalExit
<1> QED
  BY <1>1, <1>2, <1>3, <1>4, <1>5, <1>6, <1>7, <1>8, <1>9 DEF Next, WorkerStep

LEMMA WorkInvariance == Spec => []WInv
BY WorkInit, WorkStep, Invariance, PTL DEF Spec

\* The fence between incarnations: whenever a run is queued, or claimed and not
\* yet submitted, no Workflow of its deterministic name runs and no create request
\* for one can still land, whatever crashed, timed out or was requeued before.
THEOREM StartsAreClean == Spec => []CleanStart
<1>1. WInv => CleanStart
  BY DEF WInv, WorkInv, ClusterInv, CleanStart
<1> QED
  BY <1>1, WorkInvariance, PTL

\* A verdict that is no preemption (passed, failed, interrupted by a restart) is
\* given only when the Workflow does not run and no create request is in flight,
\* and no later step starts one.
THEOREM VerdictsAfterWorkflows == Spec => []VerdictAfterWorkflow
<1>1. WInv => VerdictAfterWorkflow
  BY DEF WInv, WorkInv, ClusterInv, VerdictAfterWorkflow
<1> QED
  BY <1>1, WorkInvariance, PTL

\* An obligation without a Job name, which every cancellation pass skips, always
\* has a worker that names or closes it, or the recovery of the next owner.
THEOREM NamelessObligationsHaveOwners == Spec => []NamelessObligationHasOwner
<1>1. WInv => NamelessObligationHasOwner
  BY DEF WInv, WorkInv, NameInv, NamelessObligationHasOwner
<1> QED
  BY <1>1, WorkInvariance, PTL

-----------------------------------------------------------------------------
(* No Workflow is orphaned: the steps about several runs *)

\* A step that moves a worker only within its pass.
LEMMA OwnKept ==
  ASSUME NEW x \in Runs, OwnInv(x), SameTables(x), settle'[x] = settle[x], todo'[x] = todo[x],
         mode' # "up" => mode # "up",
         \/ wk'[x] = wk[x]
         \/ mode' = "up" /\ wk[x] \in {"sweep", "swept"} /\ wk'[x] \in {"swept", "fatal"}
  PROVE  OwnInv(x)' /\ (Unheld(x)' <=> Unheld(x))
BY DEF OwnInv, Unheld, InCluster, CreateOwners, SameTables

\* The entries of a snapshot are the rows as they are.
LEMMA SnapshotEntries ==
  ASSUME NEW rs \in SUBSET Runs, NEW e \in Snapshot(rs)
  PROVE  e.row = can[e.id] /\ can[e.id].open /\ ~e.gone
<1>1. PICK y \in rs : can[y].open /\ e = [id |-> y, row |-> can[y], gone |-> FALSE]
  BY DEF Snapshot
<1> QED
  BY <1>1

LEMMA FreshEntries ==
  ASSUME TypeOK, NEW x \in Runs, EntryInv(x), can'[x] = can[x], Unheld(x)' => Unheld(x),
         \A a \in Agents : \A e \in pass'[a] :
           e.id = x => e \in pass[a] \/ (e.row = can[x] /\ can[x].open /\ ~e.gone)
  PROVE  EntryInv(x)'
<1>1. can[x].at \in Nat
  BY DEF TypeOK, Obligation
<1> QED
  BY <1>1 DEF EntryInv

\* WorkerPass, ApiPass and LoopPass
LEMMA PassOwners ==
  ASSUME IInv, TypeOK', OwnersInv, (\E r \in Runs : WorkerPass(r)) \/ ApiPass \/ LoopPass
  PROVE  OwnersInv'
<1>1. /\ TypeOK /\ UNCHANGED <<run, can, pub, contract, wf, post, todo, settle>>
      /\ mode' # "up" => mode # "up"
      /\ \/ wk' = wk
         \/ mode' = "up" /\ \E r \in Runs : wk[r] = "sweep" /\ wk' = [wk EXCEPT ![r] = "swept"]
  BY DEF IInv, WorkerPass, ApiPass, LoopPass, At, Goto, durable, cluster
<1>2. \E b \in Agents, rs \in SUBSET Runs : pass' = [pass EXCEPT ![b] = Snapshot(rs)]
  BY <1>1 DEF WorkerPass, ApiPass, LoopPass, Agents, TypeOK
<1>3. PICK b \in Agents, rs \in SUBSET Runs : pass' = [pass EXCEPT ![b] = Snapshot(rs)]
  BY <1>2
<1>4. pass'[b] = Snapshot(rs) /\ \A a \in Agents \ {b} : pass'[a] = pass[a]
  BY <1>1, <1>3 DEF TypeOK
<1>5. ASSUME NEW x \in Runs
      PROVE  OwnInv(x)' /\ EntryInv(x)'
  <2>1. \/ wk'[x] = wk[x]
        \/ mode' = "up" /\ wk[x] \in {"sweep", "swept"} /\ wk'[x] \in {"swept", "fatal"}
    BY <1>1 DEF TypeOK
  <2>2. OwnInv(x) /\ EntryInv(x) /\ SameTables(x)
    BY <1>1 DEF OwnersInv, SameTables
  <2>3. OwnInv(x)' /\ (Unheld(x)' <=> Unheld(x))
    BY <1>1, <2>1, <2>2, OwnKept
  <2>4. \A a \in Agents : \A e \in pass'[a] :
          e.id = x => e \in pass[a] \/ (e.row = can[x] /\ can[x].open /\ ~e.gone)
    BY <1>4, SnapshotEntries
  <2> QED
    BY <1>1, <2>2, <2>3, <2>4, FreshEntries
<1> QED
  BY <1>5 DEF OwnersInv

\* A failed pass that does not stop the process, and the end of the startup.
LEMMA FailureOwners ==
  ASSUME IInv, TypeOK', WInv, OwnersInv, ~Stop,
         \/ ReconcileEnds \/ StartupEnds
         \/ /\ UNCHANGED <<durable, cluster>>
            /\ \E a \in Agents, d \in BOOLEAN : pass[a] # {} /\ PassFails(a, d)
  PROVE  OwnersInv'
<1>1. /\ TypeOK /\ UNCHANGED <<run, can, pub, contract, wf, post, todo, settle>>
      /\ mode' # "up" => mode # "up"
      /\ \/ wk' = wk
         \/ \E a \in Runs : mode' = mode /\ pass[a] # {} /\ wk' = [wk EXCEPT ![a] = "fatal"]
  BY DEF IInv, ReconcileEnds, StartupEnds, PassFails, Goto, durable, cluster
<1>2. pass' = pass \/ \E a \in Agents : pass' = [pass EXCEPT ![a] = {}]
  BY DEF ReconcileEnds, StartupEnds, PassFails
<1>3. \A a \in Agents : pass'[a] \subseteq pass[a]
  BY <1>1, <1>2 DEF TypeOK
<1>4. ASSUME NEW x \in Runs
      PROVE  OwnInv(x)' /\ EntryInv(x)'
  <2>1. \/ wk'[x] = wk[x]
        \/ mode' = "up" /\ wk[x] \in {"sweep", "swept"} /\ wk'[x] \in {"swept", "fatal"}
    <3>1. CASE wk' = wk
      BY <3>1
    <3>2. ASSUME NEW a \in Runs, mode' = mode, pass[a] # {}, wk' = [wk EXCEPT ![a] = "fatal"]
          PROVE  <2>1!2 \/ wk'[x] = wk[x]
      <4>1. wk[a] = "swept" /\ mode = "up"
        BY <3>2 DEF IInv, RunInv, ProcInv, WInv, WorkInv, HolderInv
      <4> QED
        BY <1>1, <3>2, <4>1 DEF TypeOK
    <3> QED
      BY <1>1, <3>1, <3>2
  <2>2. OwnInv(x) /\ EntryInv(x) /\ SameTables(x)
    BY <1>1 DEF OwnersInv, SameTables
  <2>3. OwnInv(x)' /\ (Unheld(x)' <=> Unheld(x))
    BY <1>1, <2>1, <2>2, OwnKept
  <2> QED
    BY <1>1, <1>3, <2>2, <2>3, FreshEntries
<1> QED
  BY <1>4 DEF OwnersInv

\* enqueueRun: the Workflow of a superseded run gets an obligation with its name.
LEMMA EnqueueOwners ==
  ASSUME IInv, TypeOK', WInv, OwnersInv, NEW n \in Runs, NEW head \in BOOLEAN,
         NEW force \in BOOLEAN, enqueueRun(n, head, force)
  PROVE  OwnersInv'
<1> DEFINE old == SupersededBy(n, head, force)
           owing == ObligedRuns(old)
<1>1. /\ TypeOK /\ mode' = mode /\ run[n].status = "none"
      /\ UNCHANGED <<pub, contract, wf, post, todo, wk, intent, settle, pass>>
      /\ \A x \in Runs : RunInv(x) /\ WorkInv(x) /\ OwnInv(x) /\ EntryInv(x)
      /\ \A x \in Runs : run[x] \in Row /\ can[x] \in Obligation
  BY DEF enqueueRun, IInv, WInv, OwnersInv, cluster, TypeOK
<1>2. \A x \in old : x \in Runs /\ x # n /\ Active(x)
  BY DEF SupersededBy
<1>3. \A x \in Runs : x \in owing <=> x \in old /\ (Running(x) \/ run[x].job)
  BY <1>2 DEF ObligedRuns
<1>4. ASSUME NEW x \in Runs
      PROVE  /\ x = n => run'[x] = [NoRow EXCEPT !.status = "queued", !.phase = "queued"]
             /\ x \in old => run'[x] = [run[x] EXCEPT !.status = "interrupted",
                                          !.phase = "interrupted", !.superseded = TRUE]
             /\ x # n /\ x \notin old => run'[x] = run[x]
  BY <1>2 DEF enqueueRun
<1>5. ASSUME NEW x \in Runs
      PROVE  /\ x \in owing =>
                  can'[x] = Upsert(x, run[x].job, IF run[x].phase = "infrastructure-pending"
                                                  THEN "owner_restart" ELSE "superseded")
             /\ x \notin owing => can'[x] = can[x]
  BY DEF enqueueRun
<1> HIDE DEF old, owing
<1>6. \A x \in Runs : EntryKept(x)
  BY <1>1 DEF EntryKept
<1>7. OwnInv(n)' /\ EntryInv(n)'
  <2>1. run'[n].status = "queued" /\ run'[n].phase = "queued" /\ can'[n] = can[n]
    BY <1>2, <1>3, <1>4, <1>5 DEF NoRow
  <2>2. wk[n] = "none" /\ ~post[n] /\ OwnInv(n)
    BY <1>1 DEF RunInv, RowInv, WorkInv, ClusterInv
  <2>3. OwnInv(n)'
    BY <1>1, <2>1, <2>2 DEF OwnInv, Unheld, CreateOwners
  <2>4. RowMoves(n)
    BY <2>1 DEF RowMoves, Unheld
  <2> QED
    BY <1>1, <1>6, <2>3, <2>4, EntryStep
<1>8. ASSUME NEW x \in Runs, x \in old
      PROVE  OwnInv(x)' /\ EntryInv(x)'
  <2>1. /\ run'[x].status = "interrupted" /\ run'[x].phase = "interrupted"
        /\ run'[x].job = run[x].job /\ run'[x].unsure = run[x].unsure
    BY <1>1, <1>4, <1>8 DEF Row
  <2>2. OwnInv(x) /\ ClusterInv(x) /\ Active(x) /\ can[x].at \in Nat
    BY <1>1, <1>2, <1>8 DEF WorkInv, Obligation
  <2>3. \/ run[x].status = "queued" /\ can'[x] = can[x]
        \/ can'[x].open /\ can'[x].job = run[x].job /\ can'[x].at = can[x].at + 1
    <3>1. CASE x \notin owing
      BY <1>3, <1>5, <1>8, <2>2, <3>1
    <3>2. CASE x \in owing
      <4> DEFINE reason == IF run[x].phase = "infrastructure-pending"
                           THEN "owner_restart" ELSE "superseded"
      <4>1. can'[x] = Upsert(x, run[x].job, reason)
        BY <1>5, <3>2
      <4> QED
        BY <4>1 DEF Upsert
    <3> QED
      BY <3>1, <3>2
  <2>4. InCluster(x)' => Running(x) /\ run[x].job
    BY <1>1, <2>2 DEF ClusterInv, InCluster
  <2>5. OwnInv(x)'
    BY <1>1, <2>1, <2>2, <2>3, <2>4 DEF OwnInv, Unheld, InCluster
  <2>6. RowMoves(x)
    BY <2>2, <2>3, <2>4 DEF RowMoves, Unheld
  <2> QED
    BY <1>1, <1>6, <2>5, <2>6, EntryStep
<1>9. ASSUME NEW x \in Runs, x # n, x \notin old
      PROVE  OwnInv(x)' /\ EntryInv(x)'
  <2>1. SameTables(x) /\ SameMemory(x)
    BY <1>1, <1>3, <1>4, <1>5, <1>9 DEF SameTables, SameMemory
  <2> QED
    BY <1>1, <1>6, <2>1, UndisturbedKeeps DEF Undisturbed
<1> QED
  BY <1>7, <1>8, <1>9 DEF OwnersInv

\* RecoverOwnerState: the first owner finds nothing in the cluster.
LEMMA RecoverOwners ==
  ASSUME IInv, TypeOK', OwnersInv, RecoverOwnerState
  PROVE  OwnersInv'
<1>1. /\ TypeOK /\ mode = "down" /\ mode' = "reconcile"
      /\ UNCHANGED <<pub, contract, wf, post, wk, intent, settle, pass>>
  BY DEF RecoverOwnerState, IInv, cluster
<1>2. ASSUME NEW x \in Runs
      PROVE  OwnInv(x)' /\ EntryInv(x)'
  <2>1. /\ OwnInv(x) /\ EntryInv(x) /\ can[x] \in Obligation
        /\ ~Running(x) /\ wf[x] = "absent" /\ ~post[x] /\ wk[x] = "none"
    BY <1>1 DEF OwnersInv, OwnInv, TypeOK
  <2>2. /\ run'[x] = run[x] /\ todo'[x] = "none"
        /\ can'[x] = [can[x] EXCEPT !.open = @ /\ ~RetiredAtRestart(x)]
    BY <2>1 DEF RecoverOwnerState, RecoveredRow
  <2>3. can'[x].at = can[x].at
    BY <2>1, <2>2 DEF Obligation
  <2>4. OwnInv(x)' /\ ~Unheld(x)'
    BY <1>1, <2>1, <2>2 DEF OwnInv, Unheld, InCluster
  <2>5. RowMoves(x) /\ EntryKept(x)
    BY <1>1, <2>3, <2>4 DEF RowMoves, EntryKept
  <2> QED
    BY <1>1, <2>1, <2>4, <2>5, EntryStep
<1> QED
  BY <1>2 DEF OwnersInv

LEMMA OwnersInit == Init => OwnersInv
<1> SUFFICES ASSUME Init, NEW x \in Runs PROVE OwnInv(x) /\ EntryInv(x)
  BY DEF OwnersInv
<1>1. /\ run[x] = NoRow /\ wf[x] = "absent" /\ ~post[x] /\ todo[x] = "none"
      /\ wk[x] = "none" /\ settle[x] = NoSettle /\ \A a \in Agents : pass[a] = {}
  BY DEF Init
<1>2. run[x].status = "none" /\ run[x].phase = "none" /\ settle[x].step = "none"
  BY <1>1 DEF NoRow, NoSettle
<1> QED
  BY <1>1, <1>2 DEF OwnInv, EntryInv, Unheld, CreateOwners

\* No step of the process orphans a Workflow, as long as it does not stop.
LEMMA OwnersStep ==
  ASSUME Sure, IInv, TypeOK', WInv, OwnersInv, [Next]_vars, mode' = "down" => mode = "down"
  PROVE  OwnersInv'
<1>1. CASE UNCHANGED vars
  <2> SUFFICES ASSUME NEW x \in Runs PROVE OwnInv(x)' /\ EntryInv(x)'
    BY DEF OwnersInv
  <2>1. /\ TypeOK /\ OwnInv(x) /\ EntryInv(x) /\ mode' = mode
        /\ SameTables(x) /\ SameMemory(x) /\ EntryKept(x)
    BY <1>1 DEF OwnersInv, IInv, vars, durable, cluster, memory, SameTables, SameMemory, EntryKept
  <2> QED
    BY <2>1, UndisturbedKeeps DEF Undisturbed
<1>2. mode # "down" => ~Stop
  BY DEF Stop
<1>3. ASSUME NEW r \in Runs, CreateStep(r) \/ ClaimNextRun(r) \/ CreateTimesOut(r)
      PROVE  OwnersInv'
  BY <1>3, ClaimWork, BeginWork, FailWork, NameWork, AdmitWork, RecheckWork, SendWork,
     AfterWork, SubmitWork, UnmarkedWork, WipedWork, UnverifiedWork, UndoWork, RearmWork,
     CompleteWork, LeaveWork DEF CreateStep
<1>4. ASSUME NEW r \in Runs, ObserveStep(r)
      PROVE  OwnersInv'
  BY <1>4, ResumeWork, WatchWork, WipeWork, PersistWork, PublishWork, FinishWork, ReturnWork,
     DeferWork, PassOwners DEF ObserveStep
<1>5. ASSUME NEW r \in Runs, SettleStep(r) \/ ClusterStep(r)
      PROVE  OwnersInv'
  BY <1>5, MarkWork, SweepWork, ConfirmWork, SettleWork, ReleaseWork, LandWork, RefuseWork,
     EndWork DEF SettleStep, ClusterStep
<1>6. ASSUME NEW r \in Runs, Requests(r) \/ Deliver(r)
      PROVE  OwnersInv'
  BY <1>6, EnqueueOwners, CancelWork, RetryWork, FinalizeWork DEF Requests, Deliver
<1>7. ASSUME NEW r \in Runs, ReconcileStep(r)
      PROVE  OwnersInv'
  <2>1. mode = "reconcile"
    BY <1>7 DEF ReconcileStep, ReconcileRegisters, ReconcileAdopts, AdoptionRefused,
       RequeueStrandedRun, InterruptStrandedRun, ReconcileDeleteFails, Lost, Stranded
  <2> QED
    BY <1>2, <1>7, <2>1, RegisterWork, AdoptWork, RequeueWork, InterruptWork
    DEF ReconcileStep, AdoptionRefused, ReconcileDeleteFails
<1>8. ASSUME NEW a \in Agents, NEW e \in pass[a], PassStep(a, e)
      PROVE  OwnersInv'
  <2>1. e.id \in Runs
    BY DEF IInv, TypeOK, Entry
  <2>2. InPass(a, e.id) /\ ListInv(e.id)
    BY <2>1 DEF InPass, WInv, WorkInv
  <2>3. ~Stop
    BY <1>2, <2>2 DEF ListInv
  <2>4. CASE PassRegisters(a, e) \/ PassCompletes(a, e)
    BY <2>1, <2>4, PassRegistersWork, PassCompletesWork
  <2>5. CASE \E ok \in BOOLEAN : PassDeletes(a, e, ok)
    BY <2>1, <2>5, PassDeletesWork
  <2>6. CASE PassDeleteFails(a, e) \/ PassConflicts(a, e)
    <3>1. UNCHANGED <<durable, cluster>> /\ \E d \in BOOLEAN : pass[a] # {} /\ PassFails(a, d)
      BY <2>6 DEF PassDeleteFails, PassConflicts
    <3> QED
      BY <2>3, <3>1, FailureOwners
  <2> QED
    BY <1>8, <2>4, <2>5, <2>6 DEF PassStep
<1>9. CASE LoopPass \/ ApiPass \/ RecoverOwnerState
  BY <1>9, PassOwners, RecoverOwners
<1>10. CASE ReconcileEnds \/ StartupEnds
  BY <1>2, <1>10, FailureOwners DEF ReconcileEnds, StartupEnds
<1>11. ~Crash /\ ~FatalExit
  BY <1>2 DEF Crash, FatalExit
<1> QED
  BY <1>1, <1>3, <1>4, <1>5, <1>6, <1>7, <1>8, <1>9, <1>10, <1>11 DEF Next, WorkerStep

\* The process does not stop.
ProcessLives == [][mode' = "down" => mode = "down"]_vars

\* While the process lives and the deletes it sends succeed, every Workflow that
\* runs or may still appear has an owner: whatever is cancelled, superseded, timed out,
\* deleted by a pass under the creator's hands or settled late.
THEOREM NoWorkflowOrphaned ==
  ASSUME Sure
  PROVE  Spec /\ ProcessLives => []NoOrphanedWorkflow
<1>1. IInv /\ WInv /\ OwnersInv => NoOrphanedWorkflow
  <2> SUFFICES ASSUME IInv, WInv, OwnersInv, NEW r \in Runs, InCluster(r)
               PROVE  \/ Running(r) /\ run[r].job
                      \/ can[r].open /\ can[r].job
                      \/ wk[r] \in CreateOwners
    BY DEF NoOrphanedWorkflow, InCluster
  <2>1. ClusterInv(r) /\ OwnInv(r) /\ run[r].status \in Statuses
    BY DEF IInv, TypeOK, Row, WInv, WorkInv, OwnersInv
  <2>2. (Running(r) /\ run[r].job) \/ Preempted(r)
    BY <2>1 DEF ClusterInv, InCluster, Statuses
  <2> QED
    BY <2>1, <2>2 DEF OwnInv, Unheld
<1>2. IInv /\ IInv' /\ WInv /\ OwnersInv /\ [Next]_vars
        /\ [mode' = "down" => mode = "down"]_vars => OwnersInv'
  <2> SUFFICES ASSUME IInv, IInv', WInv, OwnersInv, [Next]_vars,
                      [mode' = "down" => mode = "down"]_vars
               PROVE  OwnersInv'
    OBVIOUS
  <2>1. TypeOK' /\ (mode' = "down" => mode = "down")
    BY DEF IInv, vars, memory
  <2> QED
    BY <2>1, OwnersStep
<1> QED
  BY <1>1, <1>2, OwnersInit, Invariance, WorkInvariance, PTL DEF Spec, ProcessLives

=============================================================================
