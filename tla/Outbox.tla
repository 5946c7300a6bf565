------------------------------- MODULE Outbox -------------------------------
(***************************************************************************)
(* What the publication outbox promises the owner of a run about one       *)
(* upstream ref, whatever is lost on the way: a push starts only for a     *)
(* pending publication and at most MaxAttempts times for each activation   *)
(* of it, a publication is called delivered only when the ref has held its *)
(* result meanwhile, and only a feature branch may lose commits to it.     *)
(***************************************************************************)
EXTENDS Naturals

CONSTANTS Pubs, Commits, Absent, Result, Contains, MaxAttempts

VARIABLES kind,    \* "feature", "direct", "tag" or "promotion"
          status,  \* of each publication
          remote,  \* what the upstream ref holds
          held,    \* publications whose result it has held since their activation
          sent,    \* pushes started since then
          out,     \* publications with a push that may still change the ref
          moves    \* changes of the ref by anybody else

vars == <<kind, status, remote, held, sent, out, moves>>

Init ==
  /\ kind \in [Pubs -> {"feature", "direct", "tag", "promotion"}]
  /\ status = [p \in Pubs |-> "none"]
  /\ remote \in Commits \cup {Absent}
  /\ held = {} /\ sent = [p \in Pubs |-> 0] /\ out = {} /\ moves = 0

\* A push that keeps what the ref held; a feature branch is forced.
Allowed(p, old) == \/ kind[p] = "feature" \/ old = Absent \/ old = Result[p]
                   \/ kind[p] # "tag" /\ old \in Contains[Result[p]]

HeldAt(c) == {p \in Pubs : Result[p] = c}

Become(p, s) == status' = [status EXCEPT ![p] = s]

\* Begin, and retry of a failed publication that no promotion owns.
Activate(p) ==
  /\ status[p] = "none" \/ (status[p] = "failed" /\ kind[p] # "promotion")
  /\ Become(p, "pending")
  /\ held' = (held \ {p}) \cup (HeldAt(remote) \cap {p})
  /\ sent' = [sent EXCEPT ![p] = 0]
  /\ UNCHANGED <<kind, remote, out, moves>>

Push(p) ==
  /\ status[p] = "pending" /\ sent[p] < MaxAttempts
  /\ sent' = [sent EXCEPT ![p] = @ + 1] /\ out' = out \cup {p}
  /\ UNCHANGED <<kind, status, remote, held, moves>>

Land(p) ==
  /\ p \in out /\ Allowed(p, remote)
  /\ remote' = Result[p] /\ held' = held \cup HeldAt(Result[p])
  /\ out' \in {out, out \ {p}}
  /\ UNCHANGED <<kind, status, sent, moves>>

Vanish(p) ==
  /\ p \in out /\ out' = out \ {p}
  /\ UNCHANGED <<kind, status, remote, held, sent, moves>>

Settle(p) ==
  /\ status[p] = "pending"
  /\ \E s \in {"delivered", "failed", "abandoned"} :
       (s = "delivered" => p \in held) /\ Become(p, s)
  /\ UNCHANGED <<kind, remote, held, sent, out, moves>>

Elsewhere(c) ==
  /\ remote' = c /\ held' = held \cup HeldAt(c) /\ moves' = moves + 1
  /\ UNCHANGED <<kind, status, sent, out>>

Next == \/ \E p \in Pubs : Activate(p) \/ Push(p) \/ Land(p) \/ Vanish(p) \/ Settle(p)
        \/ \E c \in Commits \cup {Absent} : Elsewhere(c)

Spec == Init /\ [][Next]_vars
=============================================================================
