-------------------------- MODULE IdempotencyProofs --------------------------
(***************************************************************************)
(* Theorems of Idempotency for any set of requests, keys, bodies and       *)
(* orders.  The runs check them on the composition with the prices; the    *)
(* module CheckoutProofs carries them over to it.                          *)
(***************************************************************************)
EXTENDS Idempotency, TLAPS

-----------------------------------------------------------------------------
\* The inductive invariant

Busy(a) == ~ At(a, "idle")

\* The steps of an attempt that has an order of its own.
OnOrder == {"begin", "invoice", "resume", "complete", "reply"}

\* A key that was never claimed has nothing in its record, a claimed one has
\* the body of its first request.
BlankRecords ==
  \A k \in Keys :
    /\ record[k].state = "none" => record[k] = NoRecord
    /\ record[k].state # "none" => record[k].body \in Bodies

\* An attempt works on a claimed key, for the body of its record, under a token
\* the record has or had.
AttemptsClaimed ==
  \A a \in Attempts : Busy(a) =>
    /\ KeyOf(a) \in Keys
    /\ record[KeyOf(a)].state # "none"
    /\ attempt[a].body = record[KeyOf(a)].body
    /\ attempt[a].token <= record[KeyOf(a)].token

\* The order an attempt works on is the one its record names.
AttemptsLinked ==
  \A a \in Attempts : attempt[a].step \in OnOrder =>
    /\ attempt[a].order \in Orders
    /\ record[KeyOf(a)].order = attempt[a].order

\* The order a record names was created under its key from its body, and a
\* stored response is about that order.
RecordsLinked ==
  \A k \in Keys :
    /\ record[k].order # NoOrder =>
         /\ order[record[k].order] # "none"
         /\ source[record[k].order] = [key |-> k, body |-> record[k].body]
    /\ record[k].stored \in {NoOrder, record[k].order}

\* Every order was created under some key, whose record names it.
OrdersLinked ==
  \A o \in Orders : order[o] # "none" =>
    source[o].key \in Keys /\ record[source[o].key].order = o

\* Every answer is about the order of its key, for the body of its record.
AnswersLinked ==
  \A r \in answers : record[r.key].order = r.order /\ record[r.key].body = r.body

IInv ==
  /\ TypeOK
  /\ BlankRecords
  /\ AttemptsClaimed
  /\ OneHolder
  /\ AttemptsLinked
  /\ RecordsLinked
  /\ OrdersLinked
  /\ AnswersLinked

-----------------------------------------------------------------------------
\* Type correctness

\* The initial rows are well typed.
LEMMA TypeOKInit == Init => TypeOK
BY IdempotencyAssumption
DEF Init, TypeOK, RecordType, AttemptType, NoRecord, NoAttempt, Steps

\* Claiming a new key keeps the types.
LEMMA ClaimNewOK ==
  ASSUME TypeOK, NEW a \in Attempts, NEW k \in Keys, NEW b \in Bodies, ClaimNew(a, k, b)
  PROVE  TypeOK'
BY DEF TypeOK, ClaimNew, RecordType, AttemptType, NoRecord, Steps

\* Replaying a response keeps the types.
LEMMA ReplayOK ==
  ASSUME TypeOK, NEW a \in Attempts, NEW k \in Keys, NEW b \in Bodies, Replay(a, k, b)
  PROVE  TypeOK'
BY DEF TypeOK, Replay, Replayable, RecordType

\* Taking a key over keeps the types.
LEMMA ReclaimOK ==
  ASSUME TypeOK, NEW a \in Attempts, NEW k \in Keys, NEW b \in Bodies, Reclaim(a, k, b)
  PROVE  TypeOK'
<1>1. Reclaimed(k) \in RecordType
  <2>1. record[k] \in RecordType
    BY DEF TypeOK
  <2>2. record[k].token + 1 \in Nat
    BY <2>1 DEF RecordType
  <2> QED BY <2>1, <2>2, Zenon DEF Reclaimed, RecordType
<1>2. record' \in [Keys -> RecordType]
  BY <1>1 DEF TypeOK, Reclaim
<1>3. attempt' \in [Attempts -> AttemptType]
  <2>1. Reclaimed(k).token \in Nat
    BY <1>1 DEF RecordType
  <2>2. record[k].order \in Orders \cup {NoOrder}
    BY DEF TypeOK, RecordType
  <2> QED BY <2>1, <2>2 DEF TypeOK, Reclaim, AttemptType, Steps
<1> QED BY <1>2, <1>3 DEF TypeOK, Reclaim

\* The intake transaction keeps the types.
LEMMA IntakeOK ==
  ASSUME TypeOK, NEW a \in Attempts, NEW o \in Orders, Intake(a, o)
  PROVE  TypeOK'
<1>1. record' \in [Keys -> RecordType]
  <2>1. SUFFICES ASSUME NEW k \in Keys
                 PROVE  [record[k] EXCEPT !.order = o] \in RecordType
    BY DEF TypeOK, Intake
  <2>2. record[k] \in RecordType
    BY DEF TypeOK
  <2> QED BY <2>2 DEF RecordType
<1>2. order' \in [Orders -> {"none", "received", "begun", "refused", "closed"}]
  BY DEF TypeOK, Intake
<1>3. source' \in [Orders -> [key : Keys \cup {NoKey}, body : Bodies \cup {NoBody}]]
  BY DEF TypeOK, Intake, KeyOf, AttemptType
<1>4. attempt' \in [Attempts -> AttemptType]
  <2>1. attempt[a] \in AttemptType
    BY DEF TypeOK
  <2>2. [attempt[a] EXCEPT !.step = "begin", !.order = o] \in AttemptType
    BY <2>1 DEF AttemptType, Steps
  <2>3. attempt' = [attempt EXCEPT ![a] = [attempt[a] EXCEPT !.step = "begin", !.order = o]]
    BY Zenon DEF Intake, TypeOK
  <2> QED BY <2>2, <2>3 DEF TypeOK
<1> QED BY <1>1, <1>2, <1>3, <1>4 DEF TypeOK, Intake

\* Going on to another step keeps the type of the attempts.
LEMMA GotoOK ==
  ASSUME TypeOK, NEW a \in Attempts, NEW s \in Steps, Goto(a, s)
  PROVE  attempt' \in [Attempts -> AttemptType]
<1>1. attempt[a] \in AttemptType
  BY DEF TypeOK
<1>2. [attempt[a] EXCEPT !.step = s] \in AttemptType
  BY <1>1 DEF AttemptType
<1>3. attempt' = [attempt EXCEPT ![a] = [attempt[a] EXCEPT !.step = s]]
  BY Zenon DEF Goto, TypeOK
<1> QED BY <1>2, <1>3 DEF TypeOK

\* The other steps of the pipeline keep the types.
LEMMA PipelineOK ==
  ASSUME TypeOK, NEW a \in Attempts,
         RefuseIntake(a) \/ Begin(a) \/ Invoice(a) \/ Resume(a)
  PROVE  TypeOK'
<1>1. \E s \in {"begin", "invoice", "complete", "fail"} : Goto(a, s)
  BY DEF RefuseIntake, Begin, Invoice, Resume
<1>2. attempt' \in [Attempts -> AttemptType]
  BY <1>1, GotoOK DEF Steps
<1>3. UNCHANGED <<record, source, erased, answers>>
  BY DEF RefuseIntake, Begin, Invoice, Resume
<1>4. order' = order \/ \E s \in {"begun", "refused"} : order' = [order EXCEPT ![attempt[a].order] = s]
  BY DEF RefuseIntake, Begin, Invoice, Resume
<1>5. order' \in [Orders -> {"none", "received", "begun", "refused", "closed"}]
  BY <1>4 DEF TypeOK
<1> QED BY <1>2, <1>3, <1>5 DEF TypeOK

\* Completing a record keeps the types.
LEMMA CompleteOK ==
  ASSUME TypeOK, NEW a \in Attempts, Complete(a)
  PROVE  TypeOK'
<1>1. attempt' \in [Attempts -> AttemptType]
  BY GotoOK DEF Complete, Steps
<1>2. record' \in [Keys -> RecordType]
  <2>1. attempt[a].order \in Orders \cup {NoOrder}
    BY DEF TypeOK, AttemptType
  <2>2. SUFFICES ASSUME NEW k \in Keys
                 PROVE  [record[k] EXCEPT !.state = "completed", !.live = FALSE,
                                          !.stored = attempt[a].order] \in RecordType
    BY DEF TypeOK, Complete
  <2>3. record[k] \in RecordType
    BY DEF TypeOK
  <2> QED BY <2>1, <2>3 DEF RecordType
<1> QED BY <1>1, <1>2 DEF TypeOK, Complete

\* The end of an attempt keeps the types; an answer needs an order to be about.
LEMMA EndOK ==
  ASSUME TypeOK, NEW a \in Attempts, Fail(a) \/ Crash(a)
  PROVE  TypeOK'
<1>1. attempt' \in [Attempts -> AttemptType]
  <2>1. NoAttempt \in AttemptType
    BY DEF NoAttempt, AttemptType, Steps
  <2>2. attempt' = [attempt EXCEPT ![a] = NoAttempt]
    BY DEF Fail, Crash
  <2> QED BY <2>1, <2>2 DEF TypeOK
<1>2. record' \in [Keys -> RecordType]
  <2>1. CASE record' = record
    BY <2>1 DEF TypeOK
  <2>2. CASE record' = [record EXCEPT ![KeyOf(a)].state = "failed", ![KeyOf(a)].live = FALSE]
    <3>1. SUFFICES ASSUME NEW k \in Keys
                   PROVE  [record[k] EXCEPT !.state = "failed", !.live = FALSE] \in RecordType
      BY <2>2 DEF TypeOK
    <3>2. record[k] \in RecordType
      BY DEF TypeOK
    <3> QED BY <3>2 DEF RecordType
  <2> QED BY <2>1, <2>2 DEF Fail, Crash
<1> QED BY <1>1, <1>2 DEF TypeOK, Fail, Crash

\* Time, the reconciler and retention keep the types.
LEMMA OthersOK ==
  ASSUME TypeOK, \/ \E k \in Keys : Lapse(k) \/ PruneRecord(k)
                 \/ \E o \in Orders : Proceed(o) \/ PruneOrder(o)
  PROVE  TypeOK'
<1>1. \A k \in Keys : /\ [record[k] EXCEPT !.live = FALSE] \in RecordType
                      /\ [record[k] EXCEPT !.stored = NoOrder] \in RecordType
  <2>1. TAKE k \in Keys
  <2>2. record[k] \in RecordType
    BY DEF TypeOK
  <2> QED BY <2>2 DEF RecordType
<1>2. ASSUME NEW k \in Keys, Lapse(k) PROVE TypeOK'
  BY <1>1, <1>2 DEF TypeOK, Lapse
<1>3. ASSUME NEW k \in Keys, PruneRecord(k) PROVE TypeOK'
  BY <1>1, <1>3 DEF TypeOK, PruneRecord
<1>4. ASSUME NEW o \in Orders, Proceed(o) PROVE TypeOK'
  BY <1>4 DEF TypeOK, Proceed
<1>5. ASSUME NEW o \in Orders, PruneOrder(o) PROVE TypeOK'
  BY <1>1, <1>5 DEF TypeOK, PruneOrder
<1> QED BY <1>2, <1>3, <1>4, <1>5

\* Sending a response keeps the types: its attempt has a key, a body and an order.
LEMMA ReplyOK ==
  ASSUME TypeOK, BlankRecords, AttemptsClaimed, AttemptsLinked, NEW a \in Attempts, Reply(a)
  PROVE  TypeOK'
<1>1. attempt' \in [Attempts -> AttemptType]
  BY DEF TypeOK, Reply, NoAttempt, AttemptType, Steps
<1>2. KeyOf(a) \in Keys /\ attempt[a].body \in Bodies
  BY DEF BlankRecords, AttemptsClaimed, Reply, At, Busy
<1>3. attempt[a].order \in Orders
  BY DEF AttemptsLinked, OnOrder, Reply, At
<1> QED BY <1>1, <1>2, <1>3 DEF TypeOK, Reply

\* Every step keeps the types where the invariant holds.
LEMMA TypeOKNext == IInv /\ [Next]_vars => TypeOK'
<1> SUFFICES ASSUME IInv, [Next]_vars PROVE TypeOK'
  OBVIOUS
<1> USE DEF IInv
<1>1. ASSUME NEW a \in Attempts, NEW k \in Keys, NEW b \in Bodies,
             ClaimNew(a, k, b) \/ Replay(a, k, b) \/ Reclaim(a, k, b)
      PROVE  TypeOK'
  BY <1>1, ClaimNewOK, ReplayOK, ReclaimOK
<1>2. ASSUME NEW a \in Attempts, NEW o \in Orders, Intake(a, o) PROVE TypeOK'
  BY <1>2, IntakeOK
<1>3. ASSUME NEW a \in Attempts,
             RefuseIntake(a) \/ Begin(a) \/ Invoice(a) \/ Resume(a) \/ Complete(a)
               \/ Reply(a) \/ Fail(a) \/ Crash(a)
      PROVE  TypeOK'
  BY <1>3, PipelineOK, CompleteOK, ReplyOK, EndOK
<1>4. ASSUME \/ \E k \in Keys : Lapse(k) \/ PruneRecord(k)
             \/ \E o \in Orders : Proceed(o) \/ PruneOrder(o)
      PROVE  TypeOK'
  BY <1>4, OthersOK
<1>5. CASE UNCHANGED vars
  BY <1>5 DEF vars, TypeOK
<1> QED BY <1>1, <1>2, <1>3, <1>4, <1>5, Zenon DEF Next

-----------------------------------------------------------------------------
\* Steps that keep who holds which key and which order belongs to it

\* The record keeps its body, its order and its token.
RecordKept(k) ==
  \/ record'[k] = record[k]
  \/ /\ record[k].state # "none" /\ record'[k].state # "none"
     /\ record'[k].body = record[k].body
     /\ record'[k].order = record[k].order
     /\ record'[k].token = record[k].token
     /\ record'[k].stored \in {NoOrder, record[k].order}

\* The attempt is over, or goes on with its key, body, token and order.
AttemptKept(a) ==
  \/ attempt'[a].step = "idle"
  \/ /\ attempt[a].step # "idle"
     /\ attempt'[a].key = attempt[a].key
     /\ attempt'[a].body = attempt[a].body
     /\ attempt'[a].token = attempt[a].token
     /\ attempt'[a].order = attempt[a].order
     /\ attempt'[a].step \in OnOrder => attempt[a].step \in OnOrder

\* Such a step keeps the invariant, if what it answers is linked.
LEMMA KeptInv ==
  ASSUME IInv, TypeOK',
         \A k \in Keys : RecordKept(k),
         \A a \in Attempts : AttemptKept(a),
         \A o \in Orders : order'[o] = "none" <=> order[o] = "none",
         source' = source,
         \A r \in answers' :
           \/ r \in answers
           \/ record[r.key].order = r.order /\ record[r.key].body = r.body
  PROVE  IInv'
<1> USE DEF IInv
<1>1. BlankRecords'
  <2> SUFFICES ASSUME NEW k \in Keys
               PROVE  /\ record'[k].state = "none" => record'[k] = NoRecord
                      /\ record'[k].state # "none" => record'[k].body \in Bodies
    BY DEF BlankRecords, NoRecord
  <2> QED BY DEF BlankRecords, RecordKept
<1>2. AttemptsClaimed'
  BY DEF AttemptsClaimed, RecordKept, AttemptKept, Busy, At, KeyOf
<1>3. OneHolder'
  BY DEF OneHolder, AttemptKept, At, KeyOf
<1>4. AttemptsLinked'
  <2> SUFFICES ASSUME NEW a \in Attempts, attempt'[a].step \in OnOrder
               PROVE  /\ attempt'[a].order \in Orders
                      /\ record'[attempt'[a].key].order = attempt'[a].order
    BY DEF AttemptsLinked, KeyOf
  <2>1. attempt'[a].step # "idle"
    BY DEF OnOrder
  <2>2. Busy(a) /\ attempt[a].step \in OnOrder /\ attempt'[a].key = attempt[a].key
        /\ attempt'[a].order = attempt[a].order
    BY <2>1 DEF AttemptKept, Busy, At
  <2>3. attempt[a].key \in Keys
    BY <2>2 DEF AttemptsClaimed, KeyOf
  <2> QED BY <2>2, <2>3 DEF AttemptsLinked, RecordKept, KeyOf
<1>5. RecordsLinked'
  <2> SUFFICES ASSUME NEW k \in Keys
               PROVE  /\ record'[k].order # NoOrder =>
                           /\ order'[record'[k].order] # "none"
                           /\ source'[record'[k].order] = [key |-> k, body |-> record'[k].body]
                      /\ record'[k].stored \in {NoOrder, record'[k].order}
    BY DEF RecordsLinked
  <2>1. record[k].order \in Orders \cup {NoOrder}
    BY DEF TypeOK, RecordType
  <2> QED BY <2>1 DEF RecordsLinked, RecordKept
<1>6. OrdersLinked'
  <2>1. ASSUME NEW o \in Orders, order'[o] # "none"
        PROVE  source'[o].key \in Keys /\ record'[source'[o].key].order = o
    BY <2>1 DEF OrdersLinked, RecordKept
  <2> QED BY <2>1 DEF OrdersLinked
<1>7. AnswersLinked'
  <2> SUFFICES ASSUME NEW r \in answers'
               PROVE  record'[r.key].order = r.order /\ record'[r.key].body = r.body
    BY DEF AnswersLinked
  <2>1. r.key \in Keys
    BY DEF TypeOK
  <2> QED BY <2>1 DEF AnswersLinked, RecordKept
<1> QED BY <1>1, <1>2, <1>3, <1>4, <1>5, <1>6, <1>7

\* A request that goes on to another step with what it has.
LEMMA GotoKept ==
  ASSUME TypeOK, NEW a \in Attempts, NEW s, Busy(a), Goto(a, s),
         s \in OnOrder => attempt[a].step \in OnOrder
  PROVE  \A c \in Attempts : AttemptKept(c)
<1> SUFFICES ASSUME NEW c \in Attempts PROVE AttemptKept(c)
  OBVIOUS
<1>1. CASE c = a
  <2>1. attempt[a] \in AttemptType
    BY DEF TypeOK
  <2>2. attempt'[a] = [attempt[a] EXCEPT !.step = s]
    BY DEF Goto, TypeOK
  <2> QED BY <1>1, <2>1, <2>2 DEF AttemptKept, AttemptType, Busy, At
<1>2. CASE c # a
  BY <1>2 DEF Goto, TypeOK, AttemptKept
<1> QED BY <1>1, <1>2

\* A request that ends.
LEMMA EndKept ==
  ASSUME TypeOK, NEW a \in Attempts, attempt' = [attempt EXCEPT ![a] = NoAttempt]
  PROVE  \A c \in Attempts : AttemptKept(c)
BY DEF TypeOK, AttemptKept, NoAttempt

\* A record that is completed for the order it names, or fails.
LEMMA SettleKept ==
  ASSUME IInv, NEW a \in Attempts, Busy(a), Complete(a) \/ Fail(a)
  PROVE  \A k \in Keys : RecordKept(k)
<1> SUFFICES ASSUME NEW k \in Keys PROVE RecordKept(k)
  OBVIOUS
<1>1. record[k] \in RecordType /\ record[KeyOf(a)].state # "none"
  BY DEF IInv, TypeOK, AttemptsClaimed
<1>2. CASE record'[k] = record[k]
  BY <1>2 DEF RecordKept
<1>3. CASE record'[k] # record[k] /\ Complete(a)
  <2>1. /\ k = KeyOf(a) /\ record[k].order = attempt[a].order
        /\ record'[k] = [record[k] EXCEPT !.state = "completed", !.live = FALSE,
                                          !.stored = attempt[a].order]
    <3>1. Holds(a) /\ record[KeyOf(a)].order = attempt[a].order
      BY <1>3 DEF Complete
    <3>2. record' = [record EXCEPT ![KeyOf(a)].state = "completed", ![KeyOf(a)].live = FALSE,
                                   ![KeyOf(a)].stored = attempt[a].order]
      BY <3>1, <1>3 DEF Complete
    <3> QED BY <3>1, <3>2, <1>3 DEF IInv, TypeOK
  <2> QED BY <1>1, <2>1 DEF RecordKept, RecordType
<1>4. CASE record'[k] # record[k] /\ Fail(a)
  <2>1. /\ k = KeyOf(a)
        /\ record'[k] = [record[k] EXCEPT !.state = "failed", !.live = FALSE]
    <3>1. record' = [record EXCEPT ![KeyOf(a)].state = "failed", ![KeyOf(a)].live = FALSE]
      BY <1>4 DEF Fail
    <3> QED BY <3>1, <1>4 DEF IInv, TypeOK
  <2>2. record[k].stored \in {NoOrder, record[k].order}
    BY DEF IInv, RecordsLinked
  <2> QED BY <1>1, <2>1, <2>2 DEF RecordKept, RecordType
<1> QED BY <1>2, <1>3, <1>4

-----------------------------------------------------------------------------
\* The invariant, step by step

\* It holds at first.
LEMMA IInvInit == Init => IInv
<1> SUFFICES ASSUME Init PROVE IInv
  OBVIOUS
<1>1. TypeOK
  BY TypeOKInit
<1> QED BY <1>1, IdempotencyAssumption
     DEF Init, IInv, BlankRecords, AttemptsClaimed, OneHolder, AttemptsLinked, RecordsLinked,
         OrdersLinked, AnswersLinked, NoRecord, NoAttempt, Busy, At, OnOrder

\* Claiming a new key: nobody else works on it and no order was created under it.
LEMMA ClaimNewInv ==
  ASSUME IInv, TypeOK', NEW a \in Attempts, NEW k \in Keys, NEW b \in Bodies, ClaimNew(a, k, b)
  PROVE  IInv'
<1> USE DEF IInv
<1>1. /\ \A c \in Attempts : Busy(c) => KeyOf(c) # k
      /\ \A r \in answers : r.key # k
      /\ \A o \in Orders : order[o] # "none" => source[o].key # k
  <2>1. record[k].order = NoOrder
    BY DEF BlankRecords, ClaimNew, NoRecord
  <2>2. \A r \in answers : r.order # NoOrder
    BY IdempotencyAssumption DEF TypeOK
  <2> QED BY <2>1, <2>2, IdempotencyAssumption
       DEF AttemptsClaimed, AnswersLinked, OrdersLinked, ClaimNew
<1>2. /\ record'[k] = [state |-> "in_progress", body |-> b, order |-> NoOrder,
                       token |-> 1, live |-> TRUE, stored |-> NoOrder]
      /\ \A j \in Keys : j # k => record'[j] = record[j]
  BY DEF ClaimNew, TypeOK, NoRecord
<1>3. /\ attempt'[a] = [step |-> "intake", key |-> k, body |-> b, token |-> 1, order |-> NoOrder]
      /\ \A c \in Attempts : c # a => attempt'[c] = attempt[c]
  BY DEF ClaimNew, TypeOK
<1>4. BlankRecords'
  <2> SUFFICES ASSUME NEW j \in Keys
               PROVE  /\ record'[j].state = "none" => record'[j] = NoRecord
                      /\ record'[j].state # "none" => record'[j].body \in Bodies
    BY DEF BlankRecords, NoRecord
  <2> QED BY <1>2 DEF BlankRecords
<1>5. AttemptsClaimed'
  <2> SUFFICES ASSUME NEW c \in Attempts, Busy(c)'
               PROVE  /\ attempt'[c].key \in Keys
                      /\ record'[attempt'[c].key].state # "none"
                      /\ attempt'[c].body = record'[attempt'[c].key].body
                      /\ attempt'[c].token <= record'[attempt'[c].key].token
    BY DEF AttemptsClaimed, KeyOf
  <2>1. CASE c = a
    BY <2>1, <1>2, <1>3
  <2>2. CASE c # a
    BY <2>2, <1>1, <1>2, <1>3 DEF AttemptsClaimed, KeyOf, Busy, At
  <2> QED BY <2>1, <2>2
<1>6. OneHolder'
  BY <1>1, <1>3 DEF OneHolder, Busy, At, KeyOf
<1>7. AttemptsLinked'
  <2> SUFFICES ASSUME NEW c \in Attempts, attempt'[c].step \in OnOrder
               PROVE  /\ attempt'[c].order \in Orders
                      /\ record'[attempt'[c].key].order = attempt'[c].order
    BY DEF AttemptsLinked, KeyOf
  <2>1. c # a
    BY <1>3 DEF OnOrder
  <2>2. attempt'[c] = attempt[c] /\ Busy(c)
    BY <2>1, <1>3 DEF OnOrder, Busy, At
  <2>3. attempt[c].key \in Keys /\ attempt[c].key # k
    BY <2>2, <1>1 DEF AttemptsClaimed, KeyOf
  <2> QED BY <2>2, <2>3, <1>2 DEF AttemptsLinked, KeyOf
<1>8. RecordsLinked'
  <2> SUFFICES ASSUME NEW j \in Keys
               PROVE  /\ record'[j].order # NoOrder =>
                           /\ order'[record'[j].order] # "none"
                           /\ source'[record'[j].order] = [key |-> j, body |-> record'[j].body]
                      /\ record'[j].stored \in {NoOrder, record'[j].order}
    BY DEF RecordsLinked
  <2>1. order' = order /\ source' = source
    BY DEF ClaimNew
  <2>2. CASE j = k
    BY <2>2, <1>2
  <2>3. CASE j # k
    BY <2>1, <2>3, <1>2 DEF RecordsLinked
  <2> QED BY <2>2, <2>3
<1>9. OrdersLinked'
  BY <1>1, <1>2 DEF OrdersLinked, ClaimNew
<1>10. AnswersLinked'
  BY <1>1, <1>2 DEF AnswersLinked, ClaimNew, TypeOK
<1> QED BY <1>4, <1>5, <1>6, <1>7, <1>8, <1>9, <1>10

\* Taking a key over: the new token is above every token in use on the key.
LEMMA ReclaimInv ==
  ASSUME IInv, TypeOK', NEW a \in Attempts, NEW k \in Keys, NEW b \in Bodies, Reclaim(a, k, b)
  PROVE  IInv'
<1> USE DEF IInv
<1>1. record[k] \in RecordType /\ record[k].token + 1 \in Nat
  BY DEF TypeOK, RecordType
<1>2. /\ record'[k] = Reclaimed(k)
      /\ \A j \in Keys : j # k => record'[j] = record[j]
  BY DEF Reclaim, TypeOK
<1>3. /\ Reclaimed(k).state = "in_progress"
      /\ Reclaimed(k).token = record[k].token + 1
      /\ Reclaimed(k).body = record[k].body /\ Reclaimed(k).order = record[k].order
      /\ Reclaimed(k).stored = record[k].stored
  BY <1>1 DEF Reclaimed, RecordType
<1>4. /\ attempt'[a].key = k /\ attempt'[a].body = b
      /\ attempt'[a].token = record[k].token + 1
      /\ attempt'[a].order = record[k].order
      /\ attempt'[a].step = IF record[k].order = NoOrder THEN "intake" ELSE "resume"
      /\ \A c \in Attempts : c # a => attempt'[c] = attempt[c]
  BY <1>3 DEF Reclaim, TypeOK
<1>5. record[k].state # "none" /\ record[k].body = b
      /\ order' = order /\ source' = source /\ answers' = answers
  BY DEF Reclaim
<1>6. BlankRecords'
  <2> SUFFICES ASSUME NEW j \in Keys
               PROVE  /\ record'[j].state = "none" => record'[j] = NoRecord
                      /\ record'[j].state # "none" => record'[j].body \in Bodies
    BY DEF BlankRecords, NoRecord
  <2> QED BY <1>2, <1>3, <1>5 DEF BlankRecords
<1>7. AttemptsClaimed'
  <2> SUFFICES ASSUME NEW c \in Attempts, Busy(c)'
               PROVE  /\ attempt'[c].key \in Keys
                      /\ record'[attempt'[c].key].state # "none"
                      /\ attempt'[c].body = record'[attempt'[c].key].body
                      /\ attempt'[c].token <= record'[attempt'[c].key].token
    BY DEF AttemptsClaimed, KeyOf
  <2>1. CASE c = a
    BY <2>1, <1>1, <1>2, <1>3, <1>4, <1>5
  <2>2. CASE c # a
    <3>1. Busy(c) /\ attempt'[c] = attempt[c]
      BY <2>2, <1>4 DEF Busy, At
    <3>2. CASE attempt[c].key = k
      <4>1. attempt[c].token \in Nat /\ record[k].token \in Nat
        BY DEF TypeOK, AttemptType, RecordType
      <4> QED BY <3>1, <3>2, <4>1, <1>2, <1>3 DEF AttemptsClaimed, KeyOf
    <3>3. CASE attempt[c].key # k
      BY <3>1, <3>3, <1>2 DEF AttemptsClaimed, KeyOf
    <3> QED BY <3>2, <3>3
  <2> QED BY <2>1, <2>2
<1>8. OneHolder'
  <2>1. \A c \in Attempts : Busy(c) /\ KeyOf(c) = k => attempt[c].token # record[k].token + 1
    BY <1>1 DEF AttemptsClaimed, TypeOK, AttemptType, RecordType
  <2> QED BY <2>1, <1>4 DEF OneHolder, Busy, At, KeyOf
<1>9. AttemptsLinked'
  <2> SUFFICES ASSUME NEW c \in Attempts, attempt'[c].step \in OnOrder
               PROVE  /\ attempt'[c].order \in Orders
                      /\ record'[attempt'[c].key].order = attempt'[c].order
    BY DEF AttemptsLinked, KeyOf
  <2>1. CASE c = a
    BY <2>1, <1>1, <1>2, <1>3, <1>4 DEF OnOrder, RecordType
  <2>2. CASE c # a
    <3>1. attempt'[c] = attempt[c] /\ Busy(c)
      BY <2>2, <1>4 DEF OnOrder, Busy, At
    <3>2. attempt[c].key \in Keys
      BY <3>1 DEF AttemptsClaimed, KeyOf
    <3> QED BY <3>1, <3>2, <1>2, <1>3 DEF AttemptsLinked, KeyOf
  <2> QED BY <2>1, <2>2
<1>10. RecordsLinked'
  <2> SUFFICES ASSUME NEW j \in Keys
               PROVE  /\ record'[j].order # NoOrder =>
                           /\ order'[record'[j].order] # "none"
                           /\ source'[record'[j].order] = [key |-> j, body |-> record'[j].body]
                      /\ record'[j].stored \in {NoOrder, record'[j].order}
    BY DEF RecordsLinked
  <2> QED BY <1>2, <1>3, <1>5 DEF RecordsLinked
<1>11. OrdersLinked'
  BY <1>2, <1>3, <1>5 DEF OrdersLinked
<1>12. AnswersLinked'
  BY <1>2, <1>3, <1>5 DEF AnswersLinked, TypeOK
<1> QED BY <1>6, <1>7, <1>8, <1>9, <1>10, <1>11, <1>12

\* The intake: the record named no order yet, so no attempt has one of this key.
LEMMA IntakeInv ==
  ASSUME IInv, TypeOK', NEW a \in Attempts, NEW o \in Orders, Intake(a, o)
  PROVE  IInv'
<1> DEFINE k == attempt[a].key
<1> USE DEF IInv
<1>1. /\ k \in Keys /\ Busy(a) /\ attempt[a].body = record[k].body
      /\ record[k].order = NoOrder /\ order[o] = "none" /\ record[k].state # "none"
  BY DEF Intake, Linkable, AttemptsClaimed, Busy, At, KeyOf
<1>2. record[k] \in RecordType /\ attempt[a] \in AttemptType /\ o # NoOrder
  BY <1>1, IdempotencyAssumption DEF TypeOK
<1>3. /\ record'[k] = [record[k] EXCEPT !.order = o]
      /\ \A j \in Keys : j # k => record'[j] = record[j]
  BY <1>1 DEF Intake, TypeOK, KeyOf
<1>4. /\ record'[k].state = record[k].state /\ record'[k].body = record[k].body
      /\ record'[k].order = o /\ record'[k].token = record[k].token
      /\ record'[k].stored = record[k].stored
  BY <1>2, <1>3 DEF RecordType
<1>5. /\ attempt'[a] = [attempt[a] EXCEPT !.step = "begin", !.order = o]
      /\ \A c \in Attempts : c # a => attempt'[c] = attempt[c]
  BY DEF Intake, TypeOK
<1>6. /\ attempt'[a].step = "begin" /\ attempt'[a].order = o /\ attempt'[a].key = k
      /\ attempt'[a].body = attempt[a].body /\ attempt'[a].token = attempt[a].token
  BY <1>2, <1>5 DEF AttemptType
<1>7. /\ source'[o] = [key |-> k, body |-> attempt[a].body] /\ order'[o] = "received"
      /\ \A p \in Orders : p # o => source'[p] = source[p] /\ order'[p] = order[p]
      /\ answers' = answers
  BY DEF Intake, TypeOK, KeyOf
<1>8. \A r \in answers : r.key # k
  <2>1. \A r \in answers : r.order # NoOrder
    BY IdempotencyAssumption DEF TypeOK
  <2> QED BY <2>1, <1>1 DEF AnswersLinked
<1>9. BlankRecords'
  <2> SUFFICES ASSUME NEW j \in Keys
               PROVE  /\ record'[j].state = "none" => record'[j] = NoRecord
                      /\ record'[j].state # "none" => record'[j].body \in Bodies
    BY DEF BlankRecords, NoRecord
  <2> QED BY <1>1, <1>3, <1>4 DEF BlankRecords
<1>10. AttemptsClaimed'
  <2> SUFFICES ASSUME NEW c \in Attempts, Busy(c)'
               PROVE  /\ attempt'[c].key \in Keys
                      /\ record'[attempt'[c].key].state # "none"
                      /\ attempt'[c].body = record'[attempt'[c].key].body
                      /\ attempt'[c].token <= record'[attempt'[c].key].token
    BY DEF AttemptsClaimed, KeyOf
  <2>1. /\ Busy(c) /\ attempt'[c].key = attempt[c].key /\ attempt'[c].body = attempt[c].body
        /\ attempt'[c].token = attempt[c].token
    BY <1>1, <1>5, <1>6 DEF Busy, At
  <2>2. /\ attempt[c].key \in Keys
        /\ record[attempt[c].key].state # "none"
        /\ attempt[c].body = record[attempt[c].key].body
        /\ attempt[c].token <= record[attempt[c].key].token
    BY <2>1 DEF AttemptsClaimed, KeyOf
  <2>3. CASE attempt[c].key = k
    BY <2>1, <2>2, <2>3, <1>4
  <2>4. CASE attempt[c].key # k
    BY <2>1, <2>2, <2>4, <1>3
  <2> QED BY <2>3, <2>4
<1>11. OneHolder'
  <2>1. \A c \in Attempts :
          /\ Busy(c)' => Busy(c)
          /\ attempt'[c].key = attempt[c].key /\ attempt'[c].token = attempt[c].token
    BY <1>1, <1>5, <1>6 DEF Busy, At
  <2> QED BY <2>1 DEF OneHolder, Busy, At, KeyOf
<1>12. AttemptsLinked'
  <2> SUFFICES ASSUME NEW c \in Attempts, attempt'[c].step \in OnOrder
               PROVE  /\ attempt'[c].order \in Orders
                      /\ record'[attempt'[c].key].order = attempt'[c].order
    BY DEF AttemptsLinked, KeyOf
  <2>1. CASE c = a
    BY <2>1, <1>4, <1>6
  <2>2. CASE c # a
    <3>1. attempt'[c] = attempt[c] /\ Busy(c)
      BY <2>2, <1>5 DEF OnOrder, Busy, At
    <3>2. /\ attempt[c].key \in Keys /\ attempt[c].order \in Orders
          /\ record[attempt[c].key].order = attempt[c].order
      BY <3>1 DEF AttemptsClaimed, AttemptsLinked, KeyOf
    <3>3. attempt[c].key # k
      BY <3>2, <1>1, IdempotencyAssumption
    <3> QED BY <3>1, <3>2, <3>3, <1>3
  <2> QED BY <2>1, <2>2
<1>13. RecordsLinked'
  <2> SUFFICES ASSUME NEW j \in Keys
               PROVE  /\ record'[j].order # NoOrder =>
                           /\ order'[record'[j].order] # "none"
                           /\ source'[record'[j].order] = [key |-> j, body |-> record'[j].body]
                      /\ record'[j].stored \in {NoOrder, record'[j].order}
    BY DEF RecordsLinked
  <2>1. CASE j = k
    <3>1. record'[k].stored = NoOrder
      BY <1>1, <1>4 DEF RecordsLinked
    <3>2. /\ order'[record'[k].order] # "none"
          /\ source'[record'[k].order] = [key |-> k, body |-> record'[k].body]
      BY <1>1, <1>4, <1>7
    <3> QED BY <2>1, <3>1, <3>2
  <2>2. CASE j # k
    <3>1. record[j].order \in Orders \cup {NoOrder}
      BY DEF TypeOK, RecordType
    <3>2. /\ record[j].order # NoOrder =>
               /\ order[record[j].order] # "none"
               /\ source[record[j].order] = [key |-> j, body |-> record[j].body]
          /\ record[j].stored \in {NoOrder, record[j].order}
      BY DEF RecordsLinked
    <3>3. record[j].order # NoOrder => record[j].order \in Orders /\ record[j].order # o
      BY <1>1, <3>1, <3>2
    <3>4. record'[j] = record[j]
      BY <1>3, <2>2
    <3> QED BY <3>2, <3>3, <3>4, <1>7
  <2> QED BY <2>1, <2>2
<1>14. OrdersLinked'
  <2> SUFFICES ASSUME NEW p \in Orders, order'[p] # "none"
               PROVE  source'[p].key \in Keys /\ record'[source'[p].key].order = p
    BY DEF OrdersLinked
  <2>1. CASE p = o
    BY <2>1, <1>1, <1>4, <1>7
  <2>2. CASE p # o
    BY <2>2, <1>1, <1>3, <1>7, IdempotencyAssumption DEF OrdersLinked
  <2> QED BY <2>1, <2>2
<1>15. AnswersLinked'
  BY <1>3, <1>7, <1>8 DEF AnswersLinked, TypeOK
<1> QED BY <1>9, <1>10, <1>11, <1>12, <1>13, <1>14, <1>15

\* Every other step keeps the claims and the links.
LEMMA OtherInv ==
  ASSUME IInv, TypeOK',
         \/ \E a \in Attempts, k \in Keys, b \in Bodies : Replay(a, k, b)
         \/ \E a \in Attempts :
              RefuseIntake(a) \/ Begin(a) \/ Invoice(a) \/ Resume(a) \/ Complete(a)
                \/ Reply(a) \/ Fail(a) \/ Crash(a)
         \/ \E k \in Keys : Lapse(k) \/ PruneRecord(k)
         \/ \E o \in Orders : Proceed(o) \/ PruneOrder(o)
         \/ UNCHANGED vars
  PROVE  IInv'
<1>1. record' = record => \A k \in Keys : RecordKept(k)
  BY DEF RecordKept
<1>2. attempt' = attempt => \A a \in Attempts : AttemptKept(a)
  BY DEF AttemptKept
<1>3. ASSUME NEW a \in Attempts, NEW k \in Keys, NEW b \in Bodies, Replay(a, k, b) PROVE IInv'
  <2>1. record[k].stored = record[k].order
    BY <1>3 DEF Replay, Replayable, RecordsLinked, IInv
  <2> QED BY <1>1, <1>2, <1>3, <2>1, KeptInv DEF Replay
<1>4. ASSUME NEW a \in Attempts, RefuseIntake(a) \/ Invoice(a) \/ Resume(a) PROVE IInv'
  <2>1. Busy(a) /\ \E s \in Steps : Goto(a, s) /\ (s \in OnOrder => attempt[a].step \in OnOrder)
    BY <1>4 DEF RefuseIntake, Invoice, Resume, Busy, At, Steps, OnOrder
  <2>2. \A c \in Attempts : AttemptKept(c)
    BY <2>1, GotoKept DEF IInv
  <2> QED BY <1>1, <1>4, <2>2, KeptInv DEF RefuseIntake, Invoice, Resume
<1>5. ASSUME NEW a \in Attempts, Begin(a) PROVE IInv'
  <2>1. Busy(a) /\ (Goto(a, "invoice") \/ Goto(a, "fail")) /\ attempt[a].step \in OnOrder
    BY <1>5 DEF Begin, Busy, At, OnOrder
  <2>2. \A c \in Attempts : AttemptKept(c)
    BY <2>1, GotoKept DEF IInv
  <2>3. \A o \in Orders : order'[o] = "none" <=> order[o] = "none"
    BY <1>5 DEF Begin, TypeOK, IInv
  <2> QED BY <1>1, <1>5, <2>2, <2>3, KeptInv DEF Begin
<1>6. ASSUME NEW a \in Attempts, Complete(a) PROVE IInv'
  <2>1. Busy(a) /\ Goto(a, "reply") /\ attempt[a].step \in OnOrder
    BY <1>6 DEF Complete, Busy, At, OnOrder
  <2>2. \A c \in Attempts : AttemptKept(c)
    BY <2>1, GotoKept DEF IInv
  <2>3. \A k \in Keys : RecordKept(k)
    BY <1>6, <2>1, SettleKept
  <2> QED BY <1>6, <2>2, <2>3, KeptInv DEF Complete
<1>7. ASSUME NEW a \in Attempts, Reply(a) PROVE IInv'
  <2>1. \A c \in Attempts : AttemptKept(c)
    BY <1>7, EndKept DEF Reply, IInv
  <2>2. record[KeyOf(a)].order = attempt[a].order /\ record[KeyOf(a)].body = attempt[a].body
    <3>1. Busy(a) /\ attempt[a].step \in OnOrder
      BY <1>7 DEF Reply, Busy, At, OnOrder
    <3> QED BY <3>1 DEF IInv, AttemptsLinked, AttemptsClaimed
  <2> QED BY <1>1, <1>7, <2>1, <2>2, KeptInv DEF Reply
<1>8. ASSUME NEW a \in Attempts, Fail(a) PROVE IInv'
  <2>1. Busy(a)
    BY <1>8 DEF Fail, Busy, At
  <2>2. (\A c \in Attempts : AttemptKept(c)) /\ (\A k \in Keys : RecordKept(k))
    BY <1>8, <2>1, EndKept, SettleKept DEF Fail, IInv
  <2> QED BY <1>8, <2>2, KeptInv DEF Fail
<1>9. ASSUME NEW a \in Attempts, Crash(a) PROVE IInv'
  <2>1. \A c \in Attempts : AttemptKept(c)
    BY <1>9, EndKept DEF Crash, IInv
  <2> QED BY <1>1, <1>9, <2>1, KeptInv DEF Crash
<1>10. ASSUME NEW k \in Keys, Lapse(k) \/ PruneRecord(k) PROVE IInv'
  <2>1. record[k] \in RecordType /\ record[k].state # "none"
        /\ record[k].stored \in {NoOrder, record[k].order}
    <3>1. record[k].state = "in_progress" \/ record[k].stored # NoOrder
      BY <1>10 DEF Lapse, PruneRecord
    <3>2. record[k].state # "none"
      BY <3>1 DEF IInv, BlankRecords, NoRecord
    <3> QED BY <3>2 DEF IInv, TypeOK, RecordsLinked
  <2>2. /\ \/ record'[k] = [record[k] EXCEPT !.live = FALSE]
           \/ record'[k] = [record[k] EXCEPT !.stored = NoOrder]
        /\ \A j \in Keys : j # k => record'[j] = record[j]
    BY <1>10 DEF Lapse, PruneRecord, TypeOK, IInv
  <2>3. \A j \in Keys : RecordKept(j)
    BY <2>1, <2>2 DEF RecordKept, RecordType
  <2> QED BY <1>2, <1>10, <2>3, KeptInv DEF Lapse, PruneRecord
<1>11. ASSUME NEW o \in Orders, Proceed(o) PROVE IInv'
  <2>1. \A p \in Orders : order'[p] = "none" <=> order[p] = "none"
    BY <1>11 DEF Proceed, TypeOK, IInv
  <2> QED BY <1>1, <1>2, <1>11, <2>1, KeptInv DEF Proceed
<1>12. ASSUME NEW o \in Orders, PruneOrder(o) PROVE IInv'
  <2>1. ASSUME NEW k \in Keys PROVE RecordKept(k)
    <3>1. CASE record[k].order = o
      <4>1. record[k] \in RecordType /\ record[k].state # "none"
        BY <3>1, IdempotencyAssumption DEF TypeOK, BlankRecords, NoRecord, IInv
      <4>2. record'[k] = [record[k] EXCEPT !.stored = NoOrder]
        BY <3>1, <1>12 DEF PruneOrder
      <4> QED BY <4>1, <4>2 DEF RecordKept, RecordType
    <3>2. CASE record[k].order # o
      BY <3>2, <1>12 DEF PruneOrder, RecordKept
    <3> QED BY <3>1, <3>2
  <2> QED BY <1>2, <1>12, <2>1, KeptInv DEF PruneOrder
<1>13. CASE UNCHANGED vars
  BY <1>1, <1>2, <1>13, KeptInv DEF vars
<1> QED BY <1>3, <1>4, <1>5, <1>6, <1>7, <1>8, <1>9, <1>10, <1>11, <1>12, <1>13, Zenon

\* The invariant is inductive.
LEMMA IInvNext == IInv /\ [Next]_vars => IInv'
<1> SUFFICES ASSUME IInv, [Next]_vars PROVE IInv'
  OBVIOUS
<1>1. TypeOK'
  BY TypeOKNext
<1> QED BY <1>1, ClaimNewInv, ReclaimInv, IntakeInv, OtherInv, Zenon DEF Next

\* The invariant holds in every state.
THEOREM Invariant == Spec => []IInv
BY IInvInit, IInvNext, PTL DEF Spec

-----------------------------------------------------------------------------
\* What follows from it

\* The variables keep their types.
THEOREM TypeCorrect == Spec => []TypeOK
<1>1. IInv => TypeOK
  BY DEF IInv
<1> QED BY <1>1, Invariant, PTL

\* One order per key: every order created under a key is the one its record
\* names, whatever retries, takeovers and crashes do (_insert_order_intake).
THEOREM KeyHasOneOrder == Spec => []OneOrderPerKey
<1>1. IInv => OneOrderPerKey
  BY DEF IInv, OrdersLinked, OneOrderPerKey
<1> QED BY <1>1, Invariant, PTL

\* One holder per key: no two requests carry the same claim token
\* (_claim_idempotency).
THEOREM KeyHasOneHolder == Spec => []OneHolder
<1>1. IInv => OneHolder
  BY DEF IInv
<1> QED BY <1>1, Invariant, PTL

\* The link of the record and the body of the order, joined.
LEMMA IInvAnswer == IInv => AnswerIsItsOrder
<1> SUFFICES ASSUME IInv, NEW r \in answers
             PROVE  /\ record[r.key].order = r.order
                    /\ source[r.order] = [key |-> r.key, body |-> r.body]
  BY DEF AnswerIsItsOrder
<1>1. r.key \in Keys /\ r.order # NoOrder
  BY IdempotencyAssumption DEF IInv, TypeOK
<1> QED BY <1>1 DEF IInv, AnswersLinked, RecordsLinked

\* An answer is about the order of its key, created from the very body of the
\* request (checkout).
THEOREM AnswersAgree == Spec => []AnswerIsItsOrder
BY IInvAnswer, Invariant, PTL

\* What a completed record with its response becomes in a step.
LEMMA KeptNext == IInv /\ [Next]_vars =>
  \A k \in Keys : Replayable(k) =>
    record'[k] \in {record[k], [record[k] EXCEPT !.stored = NoOrder]}
<1> SUFFICES ASSUME IInv, [Next]_vars, NEW k \in Keys, Replayable(k)
             PROVE  record'[k] \in {record[k], [record[k] EXCEPT !.stored = NoOrder]}
  OBVIOUS
<1>1. record \in [Keys -> RecordType] /\ record[k].state = "completed"
  BY DEF IInv, TypeOK, Replayable
<1>2. ASSUME NEW a \in Attempts, NEW j \in Keys, NEW b \in Bodies,
             ClaimNew(a, j, b) \/ Replay(a, j, b) \/ Reclaim(a, j, b)
      PROVE  record'[k] = record[k]
  BY <1>1, <1>2 DEF ClaimNew, Replay, Reclaim
<1>3. ASSUME NEW a \in Attempts, NEW o \in Orders, Intake(a, o) PROVE record'[k] = record[k]
  BY <1>1, <1>3 DEF Intake, Linkable, Holds
<1>4. ASSUME NEW a \in Attempts,
             RefuseIntake(a) \/ Begin(a) \/ Invoice(a) \/ Resume(a) \/ Reply(a) \/ Crash(a)
      PROVE  record'[k] = record[k]
  BY <1>4 DEF RefuseIntake, Begin, Invoice, Resume, Reply, Crash
<1>5. ASSUME NEW a \in Attempts, Complete(a) PROVE record'[k] = record[k]
  BY <1>1, <1>5 DEF Complete, Holds
<1>6. ASSUME NEW a \in Attempts, Fail(a) PROVE record'[k] = record[k]
  BY <1>1, <1>6 DEF Fail, Holds
<1>7. ASSUME NEW j \in Keys, Lapse(j) PROVE record'[k] = record[k]
  BY <1>1, <1>7 DEF Lapse
<1>8. ASSUME NEW j \in Keys, PruneRecord(j)
      PROVE  record'[k] \in {record[k], [record[k] EXCEPT !.stored = NoOrder]}
  BY <1>1, <1>8 DEF PruneRecord
<1>9. ASSUME NEW o \in Orders, Proceed(o) PROVE record'[k] = record[k]
  BY <1>9 DEF Proceed
<1>10. ASSUME NEW o \in Orders, PruneOrder(o)
       PROVE  record'[k] \in {record[k], [record[k] EXCEPT !.stored = NoOrder]}
  BY <1>1, <1>10 DEF PruneOrder
<1>11. CASE UNCHANGED vars
  BY <1>11 DEF vars
<1> QED BY <1>2, <1>3, <1>4, <1>5, <1>6, <1>7, <1>8, <1>9, <1>10, <1>11 DEF Next

\* No late attempt fails, relinks or rewrites a completed record: only retention
\* takes its response (_fail_idempotency, _complete_idempotency).
THEOREM CompletedStays == Spec => CompletedIsKept
BY Invariant, KeptNext, PTL DEF Spec, CompletedIsKept

=============================================================================
