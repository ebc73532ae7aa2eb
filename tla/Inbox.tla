-------------------------------- MODULE Inbox --------------------------------
(***************************************************************************)
(* What a buyer's gift-wrapped message becomes (services/inbox.py and the  *)
(* inbound half of services/order_messages.py): admitted under its outer   *)
(* id, unwrapped and deduplicated under its rumor id, dispatched to an     *)
(* order, a cancellation, a receipt or a conversation, and marked.  The    *)
(* effect of a dispatch and the mark are separate transactions, and the    *)
(* decisions are read before them.  Two tasks of every process drain the   *)
(* inbox, each under its own lease of TaskLease: the inbox processor and   *)
(* the reconciler, which also asks again for payments.  The orders move    *)
(* meanwhile, as OrderSaga describes.                                      *)
(*                                                                         *)
(* A pass lists its rows and handles them one by one; here it takes a row  *)
(* when it lists it, so that what it has read is as old as can be.         *)
(***************************************************************************)
EXTENDS TaskLease, OrderMachine

CONSTANTS
  Processor,      \* the task inbox_processor, beside Reconciliation
  Passes,         \* bound: which process has which of the two tasks run
  Wraps, Rumors,  \* outer events, and the messages they may hold
  Author, Kind,   \* of a rumor; Kind "order", "cancel", "receipt", "dm", "copy"
  Orders, About,  \* About[r]: the buyer's order the rumor names
  Body,           \* what an order rumor asks for
  Unstorable,     \* orders whose amount the column does not hold
  DRAIN_BATCH,    \* rows a pass lists, the oldest first
  NoRumor,        \* the content of no row
  NoWrap,         \* what an idle pass works on
  Moves           \* moves the order's other actors make

\* The tasks that drain the inbox.
Drains == {Processor, Reconciliation}

ASSUME InboxAssumption ==
  /\ Drains \subseteq Tasks /\ Passes \subseteq Processes \X Drains
  /\ About \in [Rumors -> Orders]
  /\ Kind \in [Rumors -> {"order", "cancel", "receipt", "dm", "copy"}]
  /\ Moves \subseteq ORDER_TRANSITIONS
  /\ Unstorable \subseteq {r \in Rumors : Kind[r] = "order"} /\ DRAIN_BATCH \in Nat \ {0}
  /\ DOMAIN Author = Rumors /\ DOMAIN Body = Rumors
  /\ NoWrap \notin Wraps /\ NoRumor \notin Rumors

VARIABLES
  row,      \* inbox_events: the rumor inside, processed_state, whether rumor_id
            \* is set, whether it is the drop row of a muted author
  blocked,  \* inbox_blocklist
  order,    \* orders with a buyer key: state, and the rumor that placed it
  told,     \* how often a receipt or a DM has been recorded
  asked,    \* the orders a payment request was sent for
  replies,  \* wraps answered with status=rejected
  taken,    \* history: how often a row's dispatch was begun
  resumed,  \* history: the orders another worker claimed
  job,      \* the row each pass handles; late (history): another pass of its
            \* task has written the row since
  unasked   \* each reconciler's list of orders without a payment request

history == <<taken, resumed>>
intake == <<row, blocked, order, told, asked, replies, history, job, unasked>>
vars == <<leaseVars, intake>>

Ended == {"processed", "rejected", "duplicate", "quarantined"}

NoRow == [rumor |-> NoRumor, state |-> "none", keyed |-> FALSE, muted |-> FALSE]
NoJob == [step |-> "idle", wrap |-> NoWrap, late |-> FALSE]

Senders == {Author[r] : r \in Rumors}

\* Counters saturate: 2 stands for "more than once".
More(n) == IF n = 0 THEN 1 ELSE 2

\* Every transaction of a pass is fenced.  One that has lost its lease may go on
\* reading, until its next transaction fails.
MayWrite(d) == Fenced(d[1], d[2])

Rumor(d) == row[job[d].wrap].rumor
OrderOf(d) == About[Rumor(d)]

At(d, step) == job[d].step = step

\* The pass is between two rows.
Free(d) == At(d, "idle") /\ (d[2] = Reconciliation => unasked[d[1]] = {})

InHand(d, w, step) == job' = [job EXCEPT ![d] = [step |-> step, wrap |-> w, late |-> FALSE]]

Go(d, step) == job' = [job EXCEPT ![d].step = step]

\* A mark, whatever the row has become, unless it was deleted.
Marked(r, state) == IF r.state = "none" THEN r ELSE [r EXCEPT !.state = state, !.muted = FALSE]

Deleted(r) == [NoRow EXCEPT !.rumor = r.rumor]

\* d writes its row and turns to what is next.
Write(d, now, next) ==
  /\ row' = [row EXCEPT ![job[d].wrap] = now]
  /\ job' = [e \in Passes |->
       IF e = d THEN next
       ELSE IF job[e].wrap = job[d].wrap /\ e[2] = d[2] THEN [job[e] EXCEPT !.late = TRUE]
       ELSE job[e]]

End(d, state) == Write(d, Marked(row[job[d].wrap], state), NoJob)

-----------------------------------------------------------------------------
\* Admission and drain

\* admit_event inserts; a duplicate and every refusal before it leave nothing.  A
\* pass that still has a deleted row of the same outer id in hand writes nothing.
Admit(w, r) ==
  /\ row[w] \in {NoRow, [NoRow EXCEPT !.rumor = r]} /\ \A d \in Passes : job[d].wrap # w
  /\ row' = [row EXCEPT ![w].rumor = r, ![w].state = "received"]
  /\ UNCHANGED <<leaseVars, blocked, order, told, asked, replies, history, job, unasked>>

\* Mutant: a second wrap of a rumor is a message of its own.
Known_Never(r) == FALSE

Known(r) == \E x \in Wraps : row[x].keyed /\ row[x].rumor = r

\* The wrap does not open, the rumor is out of bounds, the author over a cap.
Refused(w) == Marked(row[w], "rejected")

\* A drop row of the author within the burst window.
DropRow(a) == \E x \in Wraps : row[x].muted /\ Author[row[x].rumor] = a

\* Of a muted author one row a while stays, as evidence.
Muted(w) ==
  {[row[w] EXCEPT !.state = "rejected", !.muted = TRUE]}
  \cup (IF DropRow(Author[row[w].rumor]) THEN {Deleted(row[w])} ELSE {})

\* A rumor id is given to one row.
Deduplicated(w) ==
  IF Known(row[w].rumor) THEN Marked(row[w], "duplicate")
  ELSE [Marked(row[w], "validated") EXCEPT !.keyed = TRUE]

\* drain_received has listed the row.
TakeReceived(d, w) ==
  /\ Free(d) /\ row[w].state = "received"
  /\ InHand(d, w, "listed")
  /\ UNCHANGED <<leaseVars, row, blocked, order, told, asked, replies, taken, resumed, unasked>>

\* _process_received writes whatever the row has become, if it is still there.
ProcessReceived(d) ==
  LET w == job[d].wrap IN
  /\ At(d, "listed")
  /\ \E now \in IF row[w].state = "none" THEN {row[w]}
                ELSE {Refused(w)} \cup
                     IF Author[row[w].rumor] \in blocked THEN Muted(w) ELSE {Deduplicated(w)} :
       Write(d, now, NoJob)
  /\ UNCHANGED <<leaseVars, blocked, order, told, asked, replies, history, unasked>>

-----------------------------------------------------------------------------
\* Dispatch

\* Mutant: a row whose dispatch has failed is not listed again.
TakeRow_Once(d, w) ==
  /\ Free(d) /\ row[w].state = "validated" /\ taken[w] = 0
  /\ InHand(d, w, "taken")
  /\ taken' = [taken EXCEPT ![w] = More(@)]
  /\ UNCHANGED <<leaseVars, row, blocked, order, told, asked, replies, resumed, unasked>>

\* process_pending has listed the row, _dispatch_validated unwraps it and reads
\* the merchant.
TakeRow(d, w) ==
  /\ Free(d) /\ row[w].state = "validated"
  /\ InHand(d, w, "taken")
  /\ taken' = [taken EXCEPT ![w] = More(@)]
  /\ UNCHANGED <<leaseVars, row, blocked, order, told, asked, replies, resumed, unasked>>

Handling(d, kind) == At(d, "taken") /\ Kind[Rumor(d)] = kind

\* A second unwrap fails, the merchant is gone.
Quarantine(d) ==
  /\ At(d, "taken")
  /\ End(d, "quarantined")
  /\ UNCHANGED <<leaseVars, blocked, order, told, asked, replies, history, unasked>>

\* The merchant's own copy of a message: evidence, if it was sent from here.
SenderCopy(d) ==
  /\ Handling(d, "copy")
  /\ End(d, IF OrderOf(d) \in asked THEN "processed" ELSE "rejected")
  /\ UNCHANGED <<leaseVars, blocked, order, told, asked, replies, history, unasked>>

\* build_checkout_payload cannot read the order: with an order id in it the buyer
\* gets an answer.
RefuseOrder(d) ==
  /\ Handling(d, "order")
  /\ \E next \in {"refuse", "drop"} : Go(d, next)
  /\ UNCHANGED <<leaseVars, row, blocked, order, told, asked, replies, history, unasked>>

\* gamma_order_intake refuses before it writes: the shop is closed, the buyer has
\* no inbox relays or too many open orders, the cart cannot be priced.
RefuseIntake(d) ==
  /\ Handling(d, "order")
  /\ Go(d, "refuse")
  /\ UNCHANGED <<leaseVars, row, blocked, order, told, asked, replies, history, unasked>>

\* _insert_gamma_order_intake: one order per buyer and external id; the same
\* request finds it again.  An amount that does not fit raises, in every pass
\* anew: no ProblemError, so it is a Fail, and the row stays validated.
InsertOrder(d) ==
  LET o == OrderOf(d) IN
  /\ Handling(d, "order") /\ Rumor(d) \notin Unstorable
  /\ IF order[o].state = "none"
     THEN order' = [order EXCEPT ![o] = [state |-> "received", by |-> Rumor(d)]] /\ Go(d, "begin")
     ELSE UNCHANGED order /\ Go(d, IF Body[order[o].by] = Body[Rumor(d)] THEN "mark" ELSE "refuse")
  /\ UNCHANGED <<leaseVars, row, blocked, told, asked, replies, history, unasked>>

\* begin_saga, which OrderSaga has in full: the invoice is attached, its outcome
\* is unknown, it failed and the order is rejected, or the claim is refused.
BeginSaga(d) ==
  LET o == OrderOf(d) IN
  /\ At(d, "begin") /\ order[o].state = "received"
  /\ \/ order' = [order EXCEPT ![o].state = "awaiting_payment"] /\ Go(d, "ask")
     \/ \E state \in {"invoice_pending", "rejected"} :
          order' = [order EXCEPT ![o].state = state] /\ Go(d, "mark")
     \/ UNCHANGED order /\ Go(d, "reject")
  /\ UNCHANGED <<leaseVars, row, blocked, told, asked, replies, history, unasked>>

\* Mutant: a refused claim leaves the order for the reconciler.
RejectOrder_Not(d) ==
  /\ At(d, "reject")
  /\ Go(d, "refuse")
  /\ UNCHANGED <<leaseVars, row, blocked, order, told, asked, replies, history, unasked>>

\* _mark_rejection, if nobody has claimed the order since.
RejectOrder(d) ==
  LET o == OrderOf(d) IN
  /\ At(d, "reject")
  /\ order' = IF order[o].state = "received" THEN [order EXCEPT ![o].state = "rejected"] ELSE order
  /\ Go(d, "refuse")
  /\ UNCHANGED <<leaseVars, row, blocked, told, asked, replies, history, unasked>>

\* enqueue_payment_request, whatever the order has become.
AskPayment(d) ==
  /\ At(d, "ask")
  /\ asked' = asked \cup {OrderOf(d)}
  /\ Go(d, "mark")
  /\ UNCHANGED <<leaseVars, row, blocked, order, told, replies, history, unasked>>

\* The order is the buyer's own (_order_for_external_id).
Matches(r) ==
  LET o == About[r] IN
    order[o].state # "none" /\ Author[order[o].by] = Author[r]

\* handle_inbound_status: the order is read, and cancelled if it is still open...
HandleStatus(d) ==
  /\ Handling(d, "cancel")
  /\ Go(d, IF Matches(Rumor(d)) /\ order[OrderOf(d)].state \in OPEN_STATES
           THEN "cancel" ELSE "mark")
  /\ UNCHANGED <<leaseVars, row, blocked, order, told, asked, replies, history, unasked>>

\* ...by cancel_order, which reads the state again and names a reason; an illegal
\* move is audit-only.
CancelOrder(d) ==
  LET o == OrderOf(d) IN
  /\ At(d, "cancel")
  /\ order' = IF <<order[o].state, "cancelled">> \in ORDER_TRANSITIONS
              THEN [order EXCEPT ![o].state = "cancelled"] ELSE order
  /\ Go(d, "mark")
  /\ UNCHANGED <<leaseVars, row, blocked, told, asked, replies, history, unasked>>

\* handle_receipt: an audit event on the buyer's order, none for another.
HandleReceipt(d) ==
  /\ Handling(d, "receipt")
  /\ IF Matches(Rumor(d))
     THEN told' = [told EXCEPT ![Rumor(d)] = More(@)]
     ELSE UNCHANGED told
  /\ Go(d, "mark")
  /\ UNCHANGED <<leaseVars, row, blocked, order, asked, replies, history, unasked>>

\* Mutant: a message over the hourly cap is taken for handled.
HandleDm_Quiet(d) ==
  /\ Handling(d, "dm")
  /\ \/ told' = [told EXCEPT ![Rumor(d)] = More(@)]
     \/ UNCHANGED told
  /\ Go(d, "mark")
  /\ UNCHANGED <<leaseVars, row, blocked, order, asked, replies, history, unasked>>

\* handle_dm: into the order's thread or the Unknown folder; over the hourly cap
\* the row is rejected.
HandleDm(d) ==
  /\ Handling(d, "dm")
  /\ \/ told' = [told EXCEPT ![Rumor(d)] = More(@)] /\ Go(d, "mark")
     \/ UNCHANGED told /\ Go(d, "drop")
  /\ UNCHANGED <<leaseVars, row, blocked, order, asked, replies, history, unasked>>

\* _mark, in a transaction of its own and whatever the row's state; a refused
\* order is answered in yet another.
Mark(d) ==
  /\ \/ At(d, "mark") /\ End(d, "processed")
     \/ At(d, "drop") /\ End(d, "rejected")
     \/ /\ At(d, "refuse")
        /\ Write(d, Marked(row[job[d].wrap], "rejected"), [job[d] EXCEPT !.step = "reply"])
  /\ UNCHANGED <<leaseVars, blocked, order, told, asked, replies, history, unasked>>

\* _enqueue_rejected_reply; its failure is logged only.
Reply(d) ==
  /\ At(d, "reply")
  /\ \E sent \in {{}, {job[d].wrap}} : replies' = replies \cup sent
  /\ job' = [job EXCEPT ![d] = NoJob]
  /\ UNCHANGED <<leaseVars, row, blocked, order, told, asked, history, unasked>>

\* A retryable exception, LeaseLostError among them: the row stays as it is.
Fail(d) ==
  /\ ~ At(d, "idle")
  /\ job' = [job EXCEPT ![d] = NoJob]
  /\ UNCHANGED <<leaseVars, row, blocked, order, told, asked, replies, history, unasked>>

-----------------------------------------------------------------------------
\* Around it

\* drain_and_process returns, and with it the pass.
EndPass(d) ==
  /\ Free(d)
  /\ Leave(d[1], d[2])
  /\ UNCHANGED intake

Die(p) ==
  /\ Restart(p)
  /\ job' = [d \in Passes |-> IF d[1] = p THEN NoJob ELSE job[d]]
  /\ unasked' = [unasked EXCEPT ![p] = {}]
  /\ UNCHANGED <<row, blocked, order, told, asked, replies, history>>

\* _mute_inbox_author: any row whose author is known.
Mute(w) ==
  /\ row[w].keyed \/ row[w].state = "rejected"
  /\ blocked' = blocked \cup {Author[row[w].rumor]}
  /\ UNCHANGED <<leaseVars, row, order, told, asked, replies, history, job, unasked>>

\* The saga's other workers, the payment and the merchant move the order.
MoveOrder(o, state) ==
  /\ <<order[o].state, state>> \in Moves
  /\ order' = [order EXCEPT ![o].state = state]
  /\ resumed' = IF order[o].state = "received" THEN resumed \cup {o} ELSE resumed
  /\ UNCHANGED <<leaseVars, row, blocked, told, asked, replies, taken, job, unasked>>

\* Mutant: only orders without an invoice are asked for.
Unasked_Early == {o \in Orders : order[o].state = "invoice_pending" /\ o \notin asked}

Unasked == {o \in Orders : order[o].state = "awaiting_payment" /\ o \notin asked}

\* The processes whose reconciliation may write.
Reconcilers ==
  {p \in Processes : <<p, Reconciliation>> \in Passes /\ MayWrite(<<p, Reconciliation>>)}

\* reenqueue_payment_requests, later in a reconciliation: the list is read
\* outside of any transaction...
ListUnasked(p) ==
  /\ Free(<<p, Reconciliation>>) /\ Unasked # {}
  /\ unasked' = [unasked EXCEPT ![p] = Unasked]
  /\ UNCHANGED <<leaseVars, row, blocked, order, told, asked, replies, history, job>>

\* ...and each order asked for in one of its own; one that fails is passed over.
AskAgain(p, o) ==
  /\ o \in unasked[p]
  /\ asked' = asked \cup {o}
  /\ unasked' = [unasked EXCEPT ![p] = @ \ {o}]
  /\ UNCHANGED <<leaseVars, row, blocked, order, told, replies, history, job>>

PassOver(p, o) ==
  /\ o \in unasked[p]
  /\ unasked' = [unasked EXCEPT ![p] = @ \ {o}]
  /\ UNCHANGED <<leaseVars, row, blocked, order, told, asked, replies, history, job>>

Init ==
  /\ LeaseInit
  /\ row = [w \in Wraps |-> NoRow]
  /\ blocked = {}
  /\ order = [o \in Orders |-> [state |-> "none", by |-> NoRumor]]
  /\ told = [r \in Rumors |-> 0]
  /\ asked = {}
  /\ replies = {}
  /\ taken = [w \in Wraps |-> 0]
  /\ resumed = {}
  /\ job = [d \in Passes |-> NoJob]
  /\ unasked = [p \in Processes |-> {}]

\* What follows TakeRow and comes before Mark.
Effect(d) ==
  \/ Quarantine(d) \/ SenderCopy(d) \/ RefuseOrder(d) \/ RefuseIntake(d)
  \/ InsertOrder(d) \/ BeginSaga(d) \/ RejectOrder(d) \/ AskPayment(d)
  \/ HandleStatus(d) \/ CancelOrder(d) \/ HandleReceipt(d) \/ HandleDm(d)

Next ==
  \/ \E w \in Wraps : Mute(w) \/ \E r \in Rumors : Admit(w, r)
  \/ \E d \in Passes :
       \/ Acquire(d[1], d[2]) /\ UNCHANGED intake
       \/ /\ MayWrite(d)
          /\ \/ \E w \in Wraps : TakeReceived(d, w) \/ TakeRow(d, w)
             \/ ProcessReceived(d) \/ Effect(d) \/ Mark(d) \/ Reply(d)
       \/ Fail(d) \/ EndPass(d)
  \/ \E t \in Drains : Lapse(t) /\ UNCHANGED intake
  \/ \E o \in Orders, state \in ORDER_STATES : MoveOrder(o, state)
  \/ \E p \in Processes : Die(p) \/ \E o \in Orders : PassOver(p, o)
  \/ \E p \in Reconcilers : ListUnasked(p) \/ \E o \in Orders : AskAgain(p, o)

Spec == Init /\ [][Next]_vars

\* The rows no pass can dispatch.  They are listed again and again, and enough
\* of them are all that is listed.
Stuck == {w \in Wraps : row[w].state = "validated" /\ row[w].rumor \in Unstorable}

Crowded == Cardinality(Stuck) >= DRAIN_BATCH

\* The loops survive exceptions and come back in some process; what can succeed
\* and is tried again and again gets through one day.  A pass has finite lists,
\* so one that has lost its lease comes to its end.  Nothing else is promised:
\* not that an unstorable order is ever refused instead, and not that a row is
\* listed behind a batch of those.
FairSpec ==
  /\ Spec
  /\ \A t \in Drains : WF_vars(Lapse(t) /\ UNCHANGED intake)
  /\ \A d \in Passes :
       /\ WF_vars(Acquire(d[1], d[2]) /\ UNCHANGED intake)
       /\ WF_vars(~ MayWrite(d) /\ (Fail(d) \/ EndPass(d)))
  /\ \A w \in Wraps :
       /\ SF_vars(\E d \in Passes :
            MayWrite(d) /\ (TakeReceived(d, w) \/ (~ Crowded /\ TakeRow(d, w))))
       /\ SF_vars(\E d \in Passes : MayWrite(d) /\ job[d].wrap = w /\ ProcessReceived(d))
       /\ SF_vars(\E d \in Passes :
            /\ MayWrite(d) /\ job[d].wrap = w /\ At(d, "taken")
            /\ Rumor(d) \notin Unstorable /\ Effect(d))
       /\ SF_vars(\E d \in Passes :
            MayWrite(d) /\ job[d].wrap = w /\ ~ At(d, "taken") /\ (Effect(d) \/ Mark(d)))
  /\ \A p \in Processes : WF_vars(\E o \in Orders : PassOver(p, o))
  /\ SF_vars(\E p \in Reconcilers : ListUnasked(p))
  /\ \A o \in Orders : SF_vars(\E p \in Reconcilers : AskAgain(p, o))

-----------------------------------------------------------------------------
\* Properties

\* The variables have their types; a rumor id is given to one row, and only a row
\* that has one is dispatched.
TypeOK ==
  /\ LeaseTypeOK
  /\ row \in [Wraps -> [rumor : Rumors \cup {NoRumor},
                        state : Ended \cup {"none", "received", "validated"},
                        keyed : BOOLEAN, muted : BOOLEAN]]
  /\ \A w, x \in Wraps :
       /\ row[w].state \in {"validated", "processed", "quarantined"} => row[w].keyed
       /\ row[w].keyed /\ row[x].keyed /\ row[w].rumor = row[x].rumor => w = x
  /\ blocked \subseteq Senders
  /\ order \in [Orders -> [state : ORDER_STATES \cup {"none"}, by : Rumors \cup {NoRumor}]]
  /\ told \in [Rumors -> 0..2] /\ asked \subseteq Orders /\ taken \in [Wraps -> 0..2]
  /\ resumed \subseteq Orders /\ replies \subseteq Wraps
  /\ job \in [Passes ->
       [step : {"idle", "listed", "taken", "begin", "reject", "ask", "cancel", "mark", "drop",
                "refuse", "reply"},
        wrap : Wraps \cup {NoWrap}, late : BOOLEAN]]
  /\ unasked \in [Processes -> SUBSET Orders]

\* A message is recorded once, however many wraps and relays bring it, unless
\* the dispatch of its row was begun twice (rumor-level dedupe, the lease).
RecordedOnce ==
  \A r \in Rumors :
    told[r] <= 1 \/ \E w \in Wraps : row[w].rumor = r /\ taken[w] > 1

\* What the comment on the dispatch says of a second attempt: it cannot
\* dispatch the message twice.
DispatchedOnce == \A r \in Rumors : told[r] <= 1

\* A message that counts as processed has taken effect: no crash, takeover or
\* cap lets an order or a conversation message vanish behind its mark.
ProcessedTookEffect ==
  \A w \in Wraps : row[w].state = "processed" =>
    CASE Kind[row[w].rumor] = "order" -> order[About[row[w].rumor]].state # "none"
      [] Kind[row[w].rumor] = "dm" -> told[row[w].rumor] > 0
      [] OTHER -> TRUE

\* A buyer who is told that an order was rejected has no order alive that the
\* message placed, unless its dispatch was begun twice or another worker claimed
\* the order before its rejection (_mark_rejection, _enqueue_rejected_reply).
RejectedIsRejected ==
  \A w \in replies :
    LET o == About[row[w].rumor] IN
      taken[w] = 1 /\ o \notin resumed /\ order[o].by = row[w].rumor =>
        order[o].state \in {"rejected", "cancelled"}

\* A pass that lost its lease to another of its task cannot undo what that one
\* did to a row it had in hand itself (_mark has no guard but the fence); the
\* passes of the two tasks may undo each other's.
LatePassIsFenced ==
  [][\A w \in Wraps :
       row'[w] # row[w] /\ row[w].state # "none" =>
         \E d \in Passes : job[d].wrap = w /\ ~ job[d].late /\ job'[d] # job[d]]_vars

\* What reconcile says of the drain it shares with the inbox processor, that
\* replaying it is harmless: a duplicate is a second row of its message.
DuplicateHasOriginal ==
  \A w \in Wraps : row[w].state = "duplicate" =>
    \E x \in Wraps \ {w} : row[x].keyed /\ row[x].rumor = row[w].rumor

\* What handle_inbound_status says: a buyer cancels only an order that is open,
\* a race for it is audit-only.
BuyerCancelsOpen ==
  [][\A d \in Passes : CancelOrder(d) /\ order' # order =>
       order[OrderOf(d)].state \in OPEN_STATES]_vars

\* An admitted message is handled, refused or dropped in the end, whatever
\* crashes and lapses come between, unless it is an order that cannot be stored
\* or a batch of those stands before it (process_pending counts no attempts).
EveryMessageEnds ==
  <>[](~ Crowded) =>
    \A w \in Wraps :
      row[w].state = "received" /\ row[w].rumor \notin Unstorable
        ~> row[w].state \in Ended \cup {"none"}

\* What the name of the batch and the comment on process_pending suggest: a row a
\* dispatch has failed for is done in a later pass.
EveryRowEnds ==
  \A w \in Wraps : row[w].state = "received" ~> row[w].state \in Ended \cup {"none"}

\* An order that goes on waiting for its payment gets a payment request, also
\* when the pass that opened it died first (reenqueue_payment_requests).
PaymentIsAsked ==
  \A o \in Orders :
    order[o].state = "awaiting_payment" ~> o \in asked \/ order[o].state # "awaiting_payment"

=============================================================================
