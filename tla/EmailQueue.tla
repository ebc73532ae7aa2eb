------------------------------ MODULE EmailQueue ------------------------------
(***************************************************************************)
(* Order notifications (services/email.py): rows that the transactions of  *)
(* an order leave in email_queue are claimed by a process for a while,     *)
(* checked against the buyer's consent and the hourly cap, handed to SMTP  *)
(* outside any transaction and marked by what it said.  A claim that has   *)
(* run out is given back.                                                  *)
(*                                                                         *)
(* A write of a pass names state, holder, expiry and claim token.  A       *)
(* process claims again only when its pass is over and under one name, so  *)
(* the first three decide and the token is not modelled.                   *)
(***************************************************************************)
EXTENDS Naturals, FiniteSets

CONSTANTS
  Processes,    \* server processes, each with one email_sender
  Nobody,       \* claimed_by NULL
  Mails,        \* rows: an order's event and recipient, or a test
  Channel,      \* "customer" and "merchant" mails of the order, "test" sends
  MaxAttempts   \* email_max_attempts

ASSUME EmailAssumption ==
  /\ Nobody \notin Processes
  /\ Channel \in [Mails -> {"customer", "merchant", "test"}]
  /\ MaxAttempts \in Nat \ {0}

VARIABLES
  mail,      \* email_queue
  order,     \* of the order's row: email_opt_in, or "erased" with the contact
  hand,      \* what each process's pass is doing with each row
  took       \* history: mails SMTP has taken, less those whose pass then failed

vars == <<mail, order, hand, took>>

NoMail == [state |-> "none", holder |-> Nobody, live |-> FALSE, attempts |-> 0]

Ended == {"sent", "failed", "suppressed"}

OfOrder(m) == Channel[m] # "test"

\* A row at its end; what else it holds is of no use any more.
Over(state) == [NoMail EXCEPT !.state = state]

At(p, m, step) == hand[p][m] = step

\* _send takes the rows of a batch one after the other.
Waiting(p) == \A m \in Mails : hand[p][m] \in {"none", "claimed"}

\* The row is back in the queue.
Released(m) == [mail[m] EXCEPT !.state = "pending", !.holder = Nobody, !.live = FALSE]

Drop(p, m) == hand' = [hand EXCEPT ![p][m] = "none"]

-----------------------------------------------------------------------------
\* What the rest of the system does to the queue

\* enqueue_email_intents, in the transaction of an order's event; the row is
\* unique to event and recipient.
Enqueue(m) ==
  /\ OfOrder(m) /\ mail[m] = NoMail
  /\ Channel[m] = "customer" => order = "optedIn"
  /\ mail' = [mail EXCEPT ![m].state = "pending"]
  /\ UNCHANGED <<order, hand, took>>

\* enqueue_test_send.
EnqueueTest(m) ==
  /\ ~ OfOrder(m) /\ mail[m] = NoMail
  /\ mail' = [mail EXCEPT ![m].state = "pending"]
  /\ UNCHANGED <<order, hand, took>>

\* public_order_email_opt_out, under the order's link.
OptOut ==
  /\ order = "optedIn"
  /\ order' = "optedOut"
  /\ mail' = [m \in Mails |->
       IF Channel[m] = "customer" /\ mail[m].state \in {"pending", "claimed"}
       THEN [mail[m] EXCEPT !.state = "suppressed"] ELSE mail[m]]
  /\ UNCHANGED <<hand, took>>

\* retention_prune, every day once the order has ended long ago.
Prune ==
  /\ order' = "erased"
  /\ mail' = [m \in Mails |->
       IF OfOrder(m) /\ mail[m] # NoMail
       THEN Over(IF mail[m].state = "sent" THEN "sent" ELSE "suppressed")
       ELSE mail[m]]
  /\ UNCHANGED <<hand, took>>

-----------------------------------------------------------------------------
\* A pass

\* claim_batch: rows that are due.
ClaimBatch(p, due) ==
  /\ due # {} /\ \A m \in Mails : At(p, m, "none")
  /\ \A m \in due : mail[m].state = "pending" /\ mail[m].attempts < MaxAttempts
  /\ mail' = [m \in Mails |->
       IF m \in due THEN [mail[m] EXCEPT !.state = "claimed", !.holder = p, !.live = TRUE]
       ELSE mail[m]]
  /\ hand' = [hand EXCEPT ![p] = [m \in Mails |-> IF m \in due THEN "claimed" ELSE "none"]]
  /\ UNCHANGED <<order, took>>

\* Mutant: a write does not look at the row's state.
MayWrite_Suppressed(p, m) == mail[m].holder = p /\ mail[m].live

\* _leased_write.
MayWrite(p, m) == mail[m].state = "claimed" /\ mail[m].holder = p /\ mail[m].live

\* The row is another's by now.
LoseClaim(p, m) ==
  /\ At(p, m, "claimed") /\ Waiting(p) /\ ~ MayWrite(p, m)
  /\ Drop(p, m)
  /\ UNCHANGED <<mail, order, took>>

\* _suppression_reason: no consent; or the mail is switched off by the host, the
\* extension or the merchant.
Suppress(p, m) ==
  /\ At(p, m, "claimed") /\ Waiting(p) /\ MayWrite(p, m)
  /\ mail' = [mail EXCEPT ![m].state = "suppressed"]
  /\ Drop(p, m)
  /\ UNCHANGED <<order, took>>

Consents(m) == Channel[m] = "customer" => order = "optedIn"

\* _rate_bucket_ok: the recipient or the merchant has had enough this hour.
Defer(p, m) ==
  /\ At(p, m, "claimed") /\ Waiting(p) /\ MayWrite(p, m) /\ Consents(m)
  /\ mail' = [mail EXCEPT ![m] = Released(m)]
  /\ Drop(p, m)
  /\ UNCHANGED <<order, took>>

Prepare(p, m) ==
  /\ At(p, m, "claimed") /\ Waiting(p) /\ MayWrite(p, m) /\ Consents(m)
  /\ hand' = [hand EXCEPT ![p][m] = "prepared"]
  /\ UNCHANGED <<mail, order, took>>

\* Mutant: the time that is left of the claim is not looked at again.
Begin_Late(p, m) ==
  /\ At(p, m, "prepared") \/ At(p, m, "late")
  /\ hand' = [hand EXCEPT ![p][m] = "sending"]
  /\ UNCHANGED <<mail, order, took>>

\* The mail is written and handed over while the claim lasts.
Begin(p, m) ==
  /\ At(p, m, "prepared")
  /\ hand' = [hand EXCEPT ![p][m] = "sending"]
  /\ UNCHANGED <<mail, order, took>>

GiveUp(p, m) ==
  /\ At(p, m, "late")
  /\ Drop(p, m)
  /\ UNCHANGED <<mail, order, took>>

\* send_email answers; a no, an error or a timeout may hide that it was taken.
Answer(p, m, answer) ==
  /\ At(p, m, "sending")
  /\ hand' = [hand EXCEPT ![p][m] = answer]
  /\ took' = IF answer = "taken" THEN took \cup {m} ELSE took
  /\ UNCHANGED <<mail, order>>

\* The row after an answer.
Recorded(m, answer) ==
  CASE answer = "taken" -> Over("sent")
    [] answer = "refused" /\ mail[m].attempts + 1 >= MaxAttempts -> Over("failed")
    [] OTHER -> [Released(m) EXCEPT !.attempts = @ + 1]

Record(p, m) ==
  /\ At(p, m, "taken") \/ At(p, m, "refused")
  /\ MayWrite(p, m)
  /\ mail' = [mail EXCEPT ![m] = Recorded(m, hand[p][m])]
  /\ Drop(p, m)
  /\ UNCHANGED <<order, took>>

-----------------------------------------------------------------------------
\* What goes wrong

\* The mails of p that SMTP has taken while nobody has written so.
Unrecorded(p) == {m \in Mails : At(p, m, "taken")}

\* An exception: of a decryption, of the database, of a write that came too late.
\* The next row is taken up.
Raise(p, m) ==
  /\ hand[p][m] # "none"
  /\ Drop(p, m)
  /\ took' = took \ ({m} \cap Unrecorded(p))
  /\ UNCHANGED <<mail, order>>

\* CLAIM_LEASE_S pass: the wait for SMTP ends with the claim.
Lapse(m) ==
  LET p == mail[m].holder IN
    /\ mail[m].state = "claimed" /\ mail[m].live
    /\ mail' = [mail EXCEPT ![m].live = FALSE]
    /\ hand' = CASE At(p, m, "prepared") -> [hand EXCEPT ![p][m] = "late"]
                 [] At(p, m, "sending") -> [hand EXCEPT ![p][m] = "refused"]
                 [] OTHER -> hand
    /\ took' = took \ ({m} \cap Unrecorded(p))
    /\ UNCHANGED order

\* Mutant: claims are given back before they run out.
Recover_Live(m) ==
  /\ mail[m].state = "claimed"
  /\ mail' = [mail EXCEPT ![m] = Released(m)]
  /\ UNCHANGED <<order, hand, took>>

\* Mutant: only a row that has failed before is given back.
Recover_Tried(m) ==
  /\ mail[m].state = "claimed" /\ ~ mail[m].live /\ mail[m].attempts > 0
  /\ mail' = [mail EXCEPT ![m] = Released(m)]
  /\ UNCHANGED <<order, hand, took>>

\* recover_stale_claims; the attempt is not counted.
Recover(m) ==
  /\ mail[m].state = "claimed" /\ ~ mail[m].live
  /\ mail' = [mail EXCEPT ![m] = Released(m)]
  /\ UNCHANGED <<order, hand, took>>

\* The process dies and comes back.
Die(p) ==
  /\ hand' = [hand EXCEPT ![p] = [m \in Mails |-> "none"]]
  /\ took' = took \ Unrecorded(p)
  /\ UNCHANGED <<mail, order>>

-----------------------------------------------------------------------------

Init ==
  /\ mail = [m \in Mails |-> NoMail]
  /\ order \in {"optedIn", "optedOut"}
  /\ hand = [p \in Processes |-> [m \in Mails |-> "none"]]
  /\ took = {}

Pass(p, m) ==
  \/ LoseClaim(p, m) \/ Suppress(p, m) \/ Defer(p, m) \/ Prepare(p, m)
  \/ Begin(p, m) \/ GiveUp(p, m) \/ Record(p, m)
  \/ \E answer \in {"taken", "refused"} : Answer(p, m, answer)

Next ==
  \/ \E m \in Mails : Enqueue(m) \/ EnqueueTest(m) \/ Lapse(m) \/ Recover(m)
  \/ OptOut \/ Prune
  \/ \E p \in Processes :
       \/ \E due \in SUBSET Mails : ClaimBatch(p, due)
       \/ \E m \in Mails : Pass(p, m) \/ Raise(p, m)
       \/ Die(p)

Spec == Init /\ [][Next]_vars

\* What a pass does about a row that is no longer its own.
FallBehind(p, m) ==
  \/ LoseClaim(p, m) \/ GiveUp(p, m)
  \/ (At(p, m, "taken") \/ At(p, m, "refused")) /\ ~ MayWrite(p, m) /\ Raise(p, m)

\* email_sender and outbox_maintenance come back after every exception; a step
\* that is due again and again, before a claim runs out included, succeeds one
\* day, for one mail or another.
FairSpec ==
  /\ Spec
  /\ WF_vars(\E m \in Mails : Lapse(m))
  /\ WF_vars(\E m \in Mails : Recover(m))
  /\ WF_vars(\E p \in Processes, m \in Mails : FallBehind(p, m))
  /\ SF_vars(\E p \in Processes, due \in SUBSET Mails : ClaimBatch(p, due))
  /\ SF_vars(\E p \in Processes, m \in Mails : Suppress(p, m) \/ Prepare(p, m))
  /\ SF_vars(\E p \in Processes, m \in Mails : Begin(p, m))
  /\ SF_vars(\E p \in Processes, m \in Mails :
       Answer(p, m, "taken") \/ Answer(p, m, "refused"))
  /\ SF_vars(\E p \in Processes, m \in Mails : Record(p, m))

-----------------------------------------------------------------------------
\* Properties

\* The variables have their types, and a claim has a holder.
TypeOK ==
  /\ mail \in [Mails -> [state : Ended \cup {"none", "pending", "claimed"},
                         holder : Processes \cup {Nobody}, live : BOOLEAN,
                         attempts : 0..MaxAttempts]]
  /\ \A m \in Mails : mail[m].state = "claimed" => mail[m].holder # Nobody
  /\ order \in {"optedIn", "optedOut", "erased"}
  /\ hand \in [Processes -> [Mails ->
       {"none", "claimed", "prepared", "late", "sending", "taken", "refused"}]]
  /\ took \subseteq Mails

\* A mail is never in the hands of SMTP for two processes at a time: what is left
\* of the claim bounds the wait, and a pass that is behind does not begin (_send).
OneSender ==
  \A m \in Mails, p, q \in Processes : At(p, m, "sending") /\ At(q, m, "sending") => p = q

\* A mail that SMTP has taken is not handed over again, unless the pass failed or
\* ran out of time before it could write so (at least once, and only then more
\* than once).
TakenOnce == \A m \in took, p \in Processes : ~ At(p, m, "sending")

\* A row that has ended stays so: a pass that records a refusal does not queue
\* again what an opt-out or the pruner took out meanwhile.
EndedStays ==
  [][\A m \in Mails : mail[m].state \in Ended => mail'[m].state \in Ended]_vars

\* Every mail that is queued ends, whatever crashes, lapses and caps come between:
\* in the long run no row is pending or claimed.  A mail that can never be read is
\* queued for ever, for no attempt is counted; the fairness leaves it out.
MailEnds == <>[](\A m \in Mails : mail[m].state \in Ended \cup {"none"})

=============================================================================
