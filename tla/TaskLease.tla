------------------------------ MODULE TaskLease ------------------------------
(***************************************************************************)
(* The leases of services/tasks.py that keep a periodic task to one        *)
(* process at a time, and the fence that DomainTransaction puts around     *)
(* every transaction of a leased pass: holder, fencing token and expiry    *)
(* are checked when it begins and again when it commits, so the check and  *)
(* the writes are one step.                                                *)
(*                                                                         *)
(* The fencing token only grows and is only compared for equality, so a    *)
(* pass knows its token is the row's or it is not: "current" or "stale".   *)
(***************************************************************************)
EXTENDS Naturals, FiniteSets

CONSTANTS
  Processes,      \* server processes, each with one loop per task
  Tasks,          \* names of task_leases
  Reconciliation, \* the task that opens the checkout
  Nobody          \* holder_id of a process that is gone

ASSUME LeaseAssumption == Nobody \notin Processes

VARIABLES
  lease,  \* task_leases: its holder, and whether leased_until lies ahead
  turn,   \* the pass each process is in, per task
  since,  \* processes started before reconciliation_complete was last written
  ready   \* processes whose checkout is open

leaseVars == <<lease, turn, since, ready>>

\* A process that starts: its WORKER_ID is new, its loops are idle.
Idle == [t \in Tasks |-> "none"]

\* The row is rewritten; the token counts up, so an earlier pass is outdated.
Take(p, t) ==
  /\ lease' = [lease EXCEPT ![t] = [holder |-> p, live |-> TRUE]]
  /\ turn' = [q \in Processes |->
       IF q = p THEN [turn[q] EXCEPT ![t] = "current"]
       ELSE IF turn[q][t] = "current" THEN [turn[q] EXCEPT ![t] = "stale"]
       ELSE turn[q]]
  /\ UNCHANGED <<since, ready>>

\* Mutant: whoever asks gets the lease.
Acquire_Grab(p, t) == turn[p][t] = "none" /\ Take(p, t)

\* _acquire_lease: an expired row or one's own.
Acquire(p, t) ==
  /\ turn[p][t] = "none"
  /\ ~ lease[t].live \/ lease[t].holder = p
  /\ Take(p, t)

\* LEASE_TTL_S pass; a pass does not renew its lease.  Whose an expired lease was
\* makes no difference.
Lapse(t) ==
  /\ lease[t].live
  /\ lease' = [lease EXCEPT ![t] = [holder |-> Nobody, live |-> FALSE]]
  /\ UNCHANGED <<turn, since, ready>>

\* Mutant: the fence is not looked at.
Fenced_Never(p, t) == turn[p][t] \in {"current", "stale"}

\* _check_fence lets a transaction of the pass begin and commit.
Fenced(p, t) ==
  /\ turn[p][t] = "current"
  /\ lease[t] = [holder |-> p, live |-> TRUE]

\* The pass is over: done, LeaseLostError, or another exception.
Leave(p, t) ==
  /\ turn[p][t] # "none"
  /\ turn' = [turn EXCEPT ![p][t] = "none"]
  /\ UNCHANGED <<lease, since, ready>>

\* _run_leased has run reconcile and records the completion under the fence.
Complete(p) ==
  /\ Fenced(p, Reconciliation)
  /\ since' = Processes
  /\ turn' = [turn EXCEPT ![p][Reconciliation] = "done"]
  /\ UNCHANGED <<lease, ready>>

\* The rest of the loop, the refresh of peer relays included, went well.
MarkReady(p) ==
  /\ turn[p][Reconciliation] = "done"
  /\ ready' = ready \cup {p}
  /\ turn' = [turn EXCEPT ![p][Reconciliation] = "none"]
  /\ UNCHANGED <<lease, since>>

\* Mutant: only one's own pass counts.
NoticeComplete_Own(p) == FALSE /\ UNCHANGED leaseVars

\* Another process holds the lease and has completed a pass since p started.
NoticeComplete(p) ==
  /\ turn[p][Reconciliation] = "none"
  /\ lease[Reconciliation].live /\ lease[Reconciliation].holder # p
  /\ p \notin ready /\ p \in since
  /\ ready' = ready \cup {p}
  /\ UNCHANGED <<lease, turn, since>>

\* The process dies and comes back under a new name; its leases run out.
Restart(p) ==
  /\ lease' = [t \in Tasks |->
       IF lease[t].holder = p THEN [lease[t] EXCEPT !.holder = Nobody] ELSE lease[t]]
  /\ turn' = [turn EXCEPT ![p] = Idle]
  /\ since' = since \ {p}
  /\ ready' = ready \ {p}

LeaseInit ==
  /\ lease = [t \in Tasks |-> [holder |-> Nobody, live |-> FALSE]]
  /\ turn = [p \in Processes |-> Idle]
  /\ since = {}
  /\ ready = {}

LeaseStep ==
  \/ \E p \in Processes, t \in Tasks : Acquire(p, t) \/ Leave(p, t)
  \/ \E t \in Tasks : Lapse(t)

ReadyStep == \E p \in Processes : Complete(p) \/ MarkReady(p) \/ NoticeComplete(p)

LeaseNext == LeaseStep \/ ReadyStep \/ \E p \in Processes : Restart(p)

LeaseSpec == LeaseInit /\ [][LeaseNext]_leaseVars

\* The loops of tasks.py come back after every exception; a reconciliation that
\* is started again and again gets through one day, as does what follows it.  A
\* pass that has lost its lease fails at its next transaction.
LeaseFairSpec ==
  /\ LeaseSpec
  /\ \A t \in Tasks : WF_leaseVars(Lapse(t))
  /\ \A p \in Processes :
       /\ \A t \in Tasks : WF_leaseVars(Acquire(p, t))
       /\ \A t \in Tasks : WF_leaseVars(~ Fenced(p, t) /\ Leave(p, t))
       /\ SF_leaseVars(Complete(p))
       /\ SF_leaseVars(MarkReady(p))
       /\ SF_leaseVars(NoticeComplete(p))

-----------------------------------------------------------------------------
\* Properties

\* The variables have their types.
LeaseTypeOK ==
  /\ lease \in [Tasks -> [holder : Processes \cup {Nobody}, live : BOOLEAN]]
  /\ turn \in [Processes -> [Tasks -> {"none", "current", "stale", "done"}]]
  /\ since \subseteq Processes
  /\ ready \subseteq Processes

\* A pass under a live lease is never made stale, not by another process: the work
\* it has begun it may commit until the lease lapses (_acquire_lease).
LiveLeaseIsKept ==
  [][\A p \in Processes, t \in Tasks : Fenced(p, t) => turn'[p][t] # "stale"]_leaseVars

\* A process that stays up opens its checkout, also when it never gets the lease
\* itself (reconciliation's elif branch).
StaysUpGetsReady ==
  \A p \in Processes : (<>[][~ Restart(p)]_leaseVars) => <>(p \in ready)

=============================================================================
