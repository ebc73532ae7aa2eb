---------------------------- MODULE Idempotency ----------------------------
(***************************************************************************)
(* The Idempotency-Key of the public checkout (services/checkout.py):      *)
(* claiming the key's record, linking the order to it in the intake        *)
(* transaction, completing or failing it, and resuming the linked order    *)
(* when an attempt died.  A lease lets a retry take over; the claim token  *)
(* fences the attempt that was taken over.                                 *)
(*                                                                         *)
(* A refused request (409 request-in-progress or idempotency-conflict)     *)
(* changes nothing and has no action.  The saga behind begin_saga is       *)
(* OrderSaga; here an order is only received, begun, refused or closed.    *)
(***************************************************************************)
EXTENDS Naturals, FiniteSets

CONSTANTS
  Attempts,  \* requests being served
  Keys,      \* (merchant, route, Idempotency-Key) scopes
  Bodies,    \* request hashes: cart, address and contact, not the confirmed total
  Orders,    \* order ids
  NoKey, NoBody, NoOrder,
  MaxToken   \* bound of the model: how often a key is claimed

ASSUME IdempotencyAssumption ==
  /\ NoKey \notin Keys /\ NoBody \notin Bodies /\ NoOrder \notin Orders
  /\ MaxToken \in Nat

VARIABLES
  record,   \* idempotency_records by scope
  order,    \* state of the order rows
  source,   \* history: the key and body each order was created from
  erased,   \* orders whose public_token_enc retention has erased
  attempt,  \* what each request has decided and not done yet
  answers   \* history: the 201 bodies sent

vars == <<record, order, source, erased, attempt, answers>>

Steps ==
  {"idle",
   "intake",    \* the claim was new: validate, price, insert the order
   "begin",     \* the intake is committed: begin_saga
   "invoice",   \* the stock is claimed: create and attach the invoice
   "resume",    \* the claim found a linked order
   "complete",  \* the response is built
   "reply",     \* the response is stored, or could not be
   "fail"}      \* an exception is on its way out

NoRecord == [state |-> "none", body |-> NoBody, order |-> NoOrder,
             token |-> 0, live |-> FALSE, stored |-> NoOrder]

NoAttempt == [step |-> "idle", key |-> NoKey, body |-> NoBody, token |-> 0, order |-> NoOrder]

Init ==
  /\ record = [k \in Keys |-> NoRecord]
  /\ order = [o \in Orders |-> "none"]
  /\ source = [o \in Orders |-> [key |-> NoKey, body |-> NoBody]]
  /\ erased = {}
  /\ attempt = [a \in Attempts |-> NoAttempt]
  /\ answers = {}

At(a, s) == attempt[a].step = s

Goto(a, s) == attempt' = [attempt EXCEPT ![a].step = s]

KeyOf(a) == attempt[a].key

\* AND state = 'in_progress' AND claim_token = :t AND lease_until > now
Holds(a) ==
  /\ record[KeyOf(a)].state = "in_progress"
  /\ record[KeyOf(a)].token = attempt[a].token
  /\ record[KeyOf(a)].live

-----------------------------------------------------------------------------
\* _claim_idempotency: one transaction, four outcomes that change something

\* The insert wins.
ClaimNew(a, k, b) ==
  /\ At(a, "idle")
  /\ record[k].state = "none"
  /\ record' = [record EXCEPT ![k] = [NoRecord EXCEPT
       !.state = "in_progress", !.body = b, !.token = 1, !.live = TRUE]]
  /\ attempt' = [attempt EXCEPT ![a] =
       [step |-> "intake", key |-> k, body |-> b, token |-> 1, order |-> NoOrder]]
  /\ UNCHANGED <<order, source, erased, answers>>

Replayable(k) == record[k].state = "completed" /\ record[k].stored # NoOrder

\* Mutant: the hash of the body is not compared.
Replay_AnyBody(a, k, b) ==
  /\ At(a, "idle")
  /\ record[k].body # NoBody
  /\ Replayable(k)
  /\ answers' = answers \cup {[key |-> k, body |-> b, order |-> record[k].stored]}
  /\ UNCHANGED <<record, order, source, erased, attempt>>

\* A completed record answers by itself.
Replay(a, k, b) ==
  /\ At(a, "idle")
  /\ record[k].body = b
  /\ Replayable(k)
  /\ answers' = answers \cup {[key |-> k, body |-> b, order |-> record[k].stored]}
  /\ UNCHANGED <<record, order, source, erased, attempt>>

\* Mutant: the claim token stays.
Reclaimed_SameToken(k) == [record[k] EXCEPT !.state = "in_progress", !.live = TRUE]

\* The record after another attempt has taken it over.
Reclaimed(k) ==
  [record[k] EXCEPT !.state = "in_progress", !.live = TRUE, !.token = @ + 1]

\* A lapsed lease, a failed attempt or a completed record without its response
\* is taken over; with a linked order the attempt resumes it.
Reclaim(a, k, b) ==
  /\ At(a, "idle")
  /\ record[k].state # "none"
  /\ record[k].body = b
  /\ ~ Replayable(k)
  /\ ~ (record[k].state = "in_progress" /\ record[k].live)
  /\ record[k].token < MaxToken
  /\ record' = [record EXCEPT ![k] = Reclaimed(k)]
  /\ attempt' = [attempt EXCEPT ![a] =
       [step  |-> IF record[k].order = NoOrder THEN "intake" ELSE "resume",
        key   |-> k, body |-> b, token |-> Reclaimed(k).token,
        order |-> record[k].order]]
  /\ UNCHANGED <<order, source, erased, answers>>

-----------------------------------------------------------------------------
\* The pipeline

\* Mutant: neither the token nor the empty link is in the WHERE clause.
Linkable_Unfenced(a) ==
  record[KeyOf(a)].state = "in_progress" /\ record[KeyOf(a)].live

\* The WHERE clause of the link.
Linkable(a) == record[KeyOf(a)].order = NoOrder /\ Holds(a)

\* _insert_order_intake: order row and link commit together.
Intake(a, o) ==
  /\ At(a, "intake")
  /\ order[o] = "none"
  /\ Linkable(a)
  /\ order' = [order EXCEPT ![o] = "received"]
  /\ source' = [source EXCEPT ![o] = [key |-> KeyOf(a), body |-> attempt[a].body]]
  /\ record' = [record EXCEPT ![KeyOf(a)].order = o]
  /\ attempt' = [attempt EXCEPT ![a].step = "begin", ![a].order = o]
  /\ UNCHANGED <<erased, answers>>

\* The cart, the caps or the price are refused, or the link is not ours.
RefuseIntake(a) ==
  /\ At(a, "intake")
  /\ Goto(a, "fail")
  /\ UNCHANGED <<record, order, source, erased, answers>>

\* begin_saga's claim on a received order.  The stock may be gone (rejected and
\* raised), or another caller may have begun the order (TransitionConflict).
Begin(a) ==
  /\ At(a, "begin")
  /\ LET o == attempt[a].order IN
       \/ /\ order[o] = "received"
          /\ order' = [order EXCEPT ![o] = "begun"]
          /\ Goto(a, "invoice")
       \/ /\ order[o] = "received"
          /\ order' = [order EXCEPT ![o] = "refused"]
          /\ Goto(a, "fail")
       \/ /\ Goto(a, "fail")
          /\ UNCHANGED order
  /\ UNCHANGED <<record, source, erased, answers>>

\* The core call and attach_payment: every outcome builds a response except an
\* exception of the attach transaction.
Invoice(a) ==
  /\ At(a, "invoice")
  /\ \/ Goto(a, "complete")
     \/ Goto(a, "fail")
  /\ UNCHANGED <<record, order, source, erased, answers>>

\* _resume_order: a received order enters the saga first; any other is rebuilt
\* from its rows, or fails as it must once the token's copy is erased.
Resume(a) ==
  /\ At(a, "resume")
  /\ LET o == attempt[a].order IN
       \/ order[o] = "received" /\ Goto(a, "begin")
       \/ Goto(a, "fail")
       \/ order[o] # "received" /\ o \notin erased /\ Goto(a, "complete")
  /\ UNCHANGED <<record, order, source, erased, answers>>

\* _complete_idempotency: the response is sent whether or not it was stored.
Complete(a) ==
  /\ At(a, "complete")
  /\ Goto(a, "reply")
  /\ record' =
       IF Holds(a) /\ record[KeyOf(a)].order = attempt[a].order
       THEN [record EXCEPT ![KeyOf(a)].state = "completed", ![KeyOf(a)].live = FALSE,
                           ![KeyOf(a)].stored = attempt[a].order]
       ELSE record
  /\ UNCHANGED <<order, source, erased, answers>>

Reply(a) ==
  /\ At(a, "reply")
  /\ answers' = answers \cup
       {[key |-> KeyOf(a), body |-> attempt[a].body, order |-> attempt[a].order]}
  /\ attempt' = [attempt EXCEPT ![a] = NoAttempt]
  /\ UNCHANGED <<record, order, source, erased>>

\* Mutant: the record fails whoever holds it.
Fail_NoCas(a) ==
  /\ At(a, "fail")
  /\ attempt' = [attempt EXCEPT ![a] = NoAttempt]
  /\ record' = [record EXCEPT ![KeyOf(a)].state = "failed", ![KeyOf(a)].live = FALSE]
  /\ UNCHANGED <<order, source, erased, answers>>

\* _fail_idempotency, then the exception reaches the client.
Fail(a) ==
  /\ At(a, "fail")
  /\ attempt' = [attempt EXCEPT ![a] = NoAttempt]
  /\ record' =
       IF Holds(a)
       THEN [record EXCEPT ![KeyOf(a)].state = "failed", ![KeyOf(a)].live = FALSE]
       ELSE record
  /\ UNCHANGED <<order, source, erased, answers>>

\* The process dies or the request is cancelled (CancelledError is not an
\* Exception): the record keeps its lease.
Crash(a) ==
  /\ ~ At(a, "idle")
  /\ attempt' = [attempt EXCEPT ![a] = NoAttempt]
  /\ UNCHANGED <<record, order, source, erased, answers>>

-----------------------------------------------------------------------------
\* Time and the other tasks

\* IDEMPOTENCY_LEASE_S pass.
Lapse(k) ==
  /\ record[k].state = "in_progress" /\ record[k].live
  /\ record' = [record EXCEPT ![k].live = FALSE]
  /\ UNCHANGED <<order, source, erased, attempt, answers>>

\* The reconciler begins a received order; the order's life ends.
Proceed(o) ==
  /\ \/ order[o] = "received" /\ order' = [order EXCEPT ![o] = "begun"]
     \/ order[o] = "received" /\ order' = [order EXCEPT ![o] = "refused"]
     \/ order[o] = "begun" /\ order' = [order EXCEPT ![o] = "closed"]
  /\ UNCHANGED <<record, source, erased, attempt, answers>>

Ended(o) == order[o] \in {"refused", "closed"}

\* retention_prune on an order that ended 90 days ago: its token copy and the
\* stored responses of its keys go in one transaction.
PruneOrder(o) ==
  /\ Ended(o)
  /\ erased' = erased \cup {o}
  /\ record' = [k \in Keys |->
       IF record[k].order = o THEN [record[k] EXCEPT !.stored = NoOrder] ELSE record[k]]
  /\ UNCHANGED <<order, source, attempt, answers>>

\* retention_prune on a record older than IDEMPOTENCY_TTL_S.
PruneRecord(k) ==
  /\ record[k].stored # NoOrder
  /\ record' = [record EXCEPT ![k].stored = NoOrder]
  /\ UNCHANGED <<order, source, erased, attempt, answers>>

Next ==
  \/ \E a \in Attempts, k \in Keys, b \in Bodies :
       ClaimNew(a, k, b) \/ Replay(a, k, b) \/ Reclaim(a, k, b)
  \/ \E a \in Attempts, o \in Orders : Intake(a, o)
  \/ \E a \in Attempts :
       RefuseIntake(a) \/ Begin(a) \/ Invoice(a) \/ Resume(a) \/ Complete(a)
         \/ Reply(a) \/ Fail(a) \/ Crash(a)
  \/ \E k \in Keys : Lapse(k) \/ PruneRecord(k)
  \/ \E o \in Orders : Proceed(o) \/ PruneOrder(o)

Spec == Init /\ [][Next]_vars

-----------------------------------------------------------------------------
\* Properties

RecordType ==
  [state : {"none", "in_progress", "completed", "failed"},
   body : Bodies \cup {NoBody}, order : Orders \cup {NoOrder},
   token : Nat, live : BOOLEAN, stored : Orders \cup {NoOrder}]

AttemptType ==
  [step : Steps, key : Keys \cup {NoKey}, body : Bodies \cup {NoBody},
   token : Nat, order : Orders \cup {NoOrder}]

\* The variables have their types.
TypeOK ==
  /\ record \in [Keys -> RecordType]
  /\ order \in [Orders -> {"none", "received", "begun", "refused", "closed"}]
  /\ source \in [Orders -> [key : Keys \cup {NoKey}, body : Bodies \cup {NoBody}]]
  /\ erased \subseteq Orders
  /\ attempt \in [Attempts -> AttemptType]
  /\ answers \subseteq [key : Keys, body : Bodies, order : Orders]

\* Every order created under a key is the one its record names, so retries,
\* takeovers and crashes never leave a second order for one key
\* (_insert_order_intake, _claim_idempotency).
OneOrderPerKey ==
  \A o \in Orders : order[o] # "none" => record[source[o].key].order = o

\* At most one request can still write a key's record: whoever was taken over
\* holds an older claim token (_complete_idempotency, _fail_idempotency).
OneHolder ==
  \A a, b \in Attempts :
    /\ ~ At(a, "idle") /\ ~ At(b, "idle")
    /\ KeyOf(a) = KeyOf(b) /\ attempt[a].token = attempt[b].token
    => a = b

\* A 201 answer, fresh, resumed or replayed, is about the one order of its key
\* and that order was created for the hash of the request (checkout).
AnswerIsItsOrder ==
  \A r \in answers :
    /\ record[r.key].order = r.order
    /\ source[r.order] = [key |-> r.key, body |-> r.body]

\* A completed record with a response changes only when retention erases the
\* response: no late attempt can fail, relink or rewrite it.
CompletedIsKept ==
  [][\A k \in Keys : Replayable(k) =>
       record'[k] \in {record[k], [record[k] EXCEPT !.stored = NoOrder]}]_vars

\* What checkout announces for a completed record without its response: the
\* request is answered 404 "checkout response expired" and the record rests.
ErasedStaysCompleted ==
  [][\A k \in Keys : record[k].state = "completed" => record'[k].state = "completed"]_vars

=============================================================================
