------------------------------- MODULE Intents -------------------------------
(***************************************************************************)
(* The rows of outbox_events and how enqueue_intent of services/outbox.py  *)
(* adds one: in the transaction of the change it announces, after the      *)
(* older live rows of the aggregate have given way, bound to the newest    *)
(* live rows of the aggregates it depends on.  A table of rows is a        *)
(* sequence in order of creation.                                          *)
(***************************************************************************)
EXTENDS Naturals, Sequences, FiniteSets

LiveStates == {"pending", "claimed", "partially_published"}

\* Older live intents of the aggregate give way.
Supersede(q, a, rev) ==
  [i \in DOMAIN q |->
     IF q[i].agg = a /\ q[i].rev < rev /\ q[i].state \in LiveStates
     THEN [q[i] EXCEPT !.state = "superseded"] ELSE q[i]]

Covered(q, a, kind, rev) ==
  \E i \in DOMAIN q :
    q[i].agg = a /\ q[i].rev = rev /\ q[i].kind = kind /\ q[i].state \in LiveStates

\* The newest live intent of the aggregate a dependency names.
NewestLive(q, a) ==
  {i \in DOMAIN q :
     /\ q[i].agg = a /\ q[i].state \in LiveStates
     /\ \A j \in DOMAIN q :
          q[j].agg = a /\ q[j].state \in LiveStates =>
            q[j].rev < q[i].rev \/ (q[j].rev = q[i].rev /\ j <= i)}

Intent(a, kind, rev, deps) ==
  [agg |-> a, kind |-> kind, rev |-> rev, state |-> "pending", attempts |-> 0,
   token |-> 0, deps |-> deps, accepted |-> {}, stamp |-> 0, error |-> "none"]

\* Supersede, then insert unless a live intent already covers the revision.
Enqueue(q, a, kind, rev, needs) ==
  LET s == Supersede(q, a, rev) IN
    IF Covered(s, a, kind, rev) THEN s
    ELSE Append(s, Intent(a, kind, rev, UNION {NewestLive(s, n) : n \in needs}))

=============================================================================
