---------------------------- MODULE OutboxProofs -----------------------------
(***************************************************************************)
(* Theorems of Outbox for any set of products, collections, profiles,      *)
(* messages, editors and publisher passes.                                 *)
(***************************************************************************)
EXTENDS Outbox, SequenceTheorems, TLAPS

-----------------------------------------------------------------------------
\* Rows

\* A row's fields have their types.
LEMMA RowFields ==
  ASSUME NEW r \in Row
  PROVE  /\ r.agg \in Aggregates /\ r.kind \in {"put", "del", "msg"} /\ r.rev \in Nat
         /\ r.state \in States /\ r.attempts \in 0..MaxAttempts /\ r.token \in Nat
         /\ r.deps \in SUBSET Nat /\ r.accepted \in SUBSET Relays
         /\ r.stamp \in Nat /\ r.error \in {"none", "no_inbox_relays"}
BY DEF Row

\* A row that gives way changes its state and nothing else.
LEMMA GiveWay ==
  ASSUME NEW r \in Row, NEW s \in States
  PROVE  /\ [r EXCEPT !.state = s] \in Row
         /\ [r EXCEPT !.state = s].state = s
         /\ [r EXCEPT !.state = s].agg = r.agg /\ [r EXCEPT !.state = s].kind = r.kind
         /\ [r EXCEPT !.state = s].rev = r.rev /\ [r EXCEPT !.state = s].deps = r.deps
         /\ [r EXCEPT !.state = s].attempts = r.attempts
         /\ [r EXCEPT !.state = s].token = r.token
         /\ [r EXCEPT !.state = s].accepted = r.accepted
         /\ [r EXCEPT !.state = s].stamp = r.stamp
BY DEF Row

\* A function on 1..n with values in S is a sequence of length n.
LEMMA RowSeq ==
  ASSUME NEW S, NEW n \in Nat, NEW f \in [1..n -> S]
  PROVE  f \in Seq(S) /\ Len(f) = n /\ DOMAIN f = 1..n
<1>1. f \in Seq(S)
  BY SeqDef
<1>2. DOMAIN f = 1..Len(f) /\ Len(f) \in Nat
  BY <1>1, LenProperties
<1> QED BY <1>1, <1>2

\* The row an older live intent of the aggregate becomes.
LEMMA SupersedeRows ==
  ASSUME NEW q \in Seq(Row), NEW a, NEW rev \in Nat
  PROVE  LET s == Supersede(q, a, rev) IN
           /\ s \in Seq(Row) /\ Len(s) = Len(q) /\ DOMAIN s = DOMAIN q
           /\ \A i \in DOMAIN q :
                IF q[i].agg = a /\ q[i].rev < rev /\ q[i].state \in LiveStates
                THEN s[i] = [q[i] EXCEPT !.state = "superseded"] ELSE s[i] = q[i]
<1> DEFINE s == Supersede(q, a, rev)
<1>1. Len(q) \in Nat /\ DOMAIN q = 1..Len(q)
  BY LenProperties
<1>2. \A i \in DOMAIN q : q[i] \in Row
  BY <1>1, ElementOfSeq
<1>3. \A i \in DOMAIN q : [q[i] EXCEPT !.state = "superseded"] \in Row
  BY <1>2, GiveWay DEF States
<1>4. s \in [1..Len(q) -> Row]
  BY <1>1, <1>2, <1>3 DEF Supersede
<1>5. s \in Seq(Row) /\ Len(s) = Len(q) /\ DOMAIN s = DOMAIN q
  BY <1>1, <1>4, RowSeq
<1> QED BY <1>5 DEF Supersede

-----------------------------------------------------------------------------
\* What enqueueing does to the table

\* A row that has just been added.
Fresh(e, i) ==
  /\ e[i].state \in {"pending", "superseded"}
  /\ e[i].attempts = 0 /\ e[i].token = 0 /\ e[i].accepted = {}
  /\ e[i].stamp = 0 /\ e[i].deps \subseteq DOMAIN e

\* The old row, or the old live row superseded.
GivesWay(old, new) ==
  \/ new = old
  \/ old.state \in LiveStates /\ new = [old EXCEPT !.state = "superseded"]

\* A row that gives way or stays keeps everything but its state.
LEMMA WayGiven ==
  ASSUME NEW old \in Row, NEW new, GivesWay(old, new)
  PROVE  /\ new \in Row
         /\ new.agg = old.agg /\ new.kind = old.kind /\ new.rev = old.rev
         /\ new.deps = old.deps /\ new.attempts = old.attempts /\ new.token = old.token
         /\ new.accepted = old.accepted /\ new.stamp = old.stamp
         /\ \/ new.state = old.state
            \/ old.state \in LiveStates /\ new.state = "superseded"
<1>1. CASE new = old
  BY <1>1
<1>2. CASE old.state \in LiveStates /\ new = [old EXCEPT !.state = "superseded"]
  <2> DEFINE gone == [old EXCEPT !.state = "superseded"]
  <2>1. /\ gone \in Row /\ gone.state = "superseded"
        /\ gone.agg = old.agg /\ gone.kind = old.kind /\ gone.rev = old.rev
        /\ gone.deps = old.deps /\ gone.attempts = old.attempts /\ gone.token = old.token
        /\ gone.accepted = old.accepted /\ gone.stamp = old.stamp
    BY GiveWay DEF States
  <2>2. new = gone
    BY <1>2
  <2> HIDE DEF gone
  <2> QED BY <1>2, <2>1, <2>2
<1> QED BY <1>1, <1>2 DEF GivesWay

\* The rows of q are there, and what is new is fresh.
Outgrows(q, e) ==
  /\ e \in Seq(Row) /\ Len(q) <= Len(e)
  /\ \A i \in DOMAIN q : GivesWay(q[i], e[i])
  /\ \A i \in DOMAIN e \ DOMAIN q : Fresh(e, i)

\* One intent of a was enqueued on q, unless a live one covers its revision.
Enqueued(q, e, a, kind, rev) ==
  /\ Outgrows(q, e) /\ Len(e) <= Len(q) + 1
  /\ \A i \in DOMAIN q : (q[i].agg # a \/ q[i].rev >= rev) => e[i] = q[i]
  /\ \A i \in DOMAIN q : q[i].agg = a /\ q[i].rev < rev => e[i].state \notin LiveStates
  /\ \A i \in DOMAIN e \ DOMAIN q :
       e[i].agg = a /\ e[i].kind = kind /\ e[i].rev = rev /\ e[i].state = "pending"
  /\ (\A i \in DOMAIN q : q[i].agg = a => q[i].rev < rev) => Len(e) = Len(q) + 1

\* Enqueueing one intent.
LEMMA EnqueueRows ==
  ASSUME NEW q \in Seq(Row), NEW a \in Aggregates, NEW kind \in {"put", "del", "msg"},
         NEW rev \in Nat, NEW needs
  PROVE  Enqueued(q, Enqueue(q, a, kind, rev, needs), a, kind, rev)
<1> DEFINE s == Supersede(q, a, rev)
           deps == UNION {NewestLive(s, n) : n \in needs}
           row == Intent(a, kind, rev, deps)
           e == Enqueue(q, a, kind, rev, needs)
<1>1. Len(q) \in Nat /\ DOMAIN q = 1..Len(q)
  BY LenProperties
<1>2. \A i \in DOMAIN q : q[i] \in Row
  BY <1>1, ElementOfSeq
<1>3. /\ s \in Seq(Row) /\ Len(s) = Len(q) /\ DOMAIN s = DOMAIN q
      /\ \A i \in DOMAIN q :
           IF q[i].agg = a /\ q[i].rev < rev /\ q[i].state \in LiveStates
           THEN s[i] = [q[i] EXCEPT !.state = "superseded"] ELSE s[i] = q[i]
  BY SupersedeRows
<1>4. deps \subseteq DOMAIN q
  BY <1>3 DEF NewestLive
<1> HIDE DEF s, deps
<1>5. /\ row \in Row /\ row.state = "pending" /\ row.attempts = 0 /\ row.token = 0
      /\ row.accepted = {} /\ row.stamp = 0 /\ row.deps = deps
      /\ row.agg = a /\ row.kind = kind /\ row.rev = rev
  <2>1. deps \in SUBSET Nat /\ 0 \in 0..MaxAttempts
    BY <1>1, <1>4, OutboxAssumption
  <2> QED BY <2>1 DEF Intent, Row, States, LiveStates
<1>6. \A i \in DOMAIN q :
        /\ GivesWay(q[i], s[i]) /\ s[i].agg = q[i].agg /\ s[i].rev = q[i].rev
        /\ (q[i].agg # a \/ q[i].rev >= rev) => s[i] = q[i]
        /\ q[i].agg = a /\ q[i].rev < rev => s[i].state \notin LiveStates
  <2> SUFFICES ASSUME NEW i \in DOMAIN q
               PROVE  /\ GivesWay(q[i], s[i]) /\ s[i].agg = q[i].agg /\ s[i].rev = q[i].rev
                      /\ (q[i].agg # a \/ q[i].rev >= rev) => s[i] = q[i]
                      /\ q[i].agg = a /\ q[i].rev < rev => s[i].state \notin LiveStates
    OBVIOUS
  <2>1. q[i] \in Row /\ q[i].rev \in Nat
    BY <1>2, RowFields
  <2>2. /\ [q[i] EXCEPT !.state = "superseded"].state = "superseded"
        /\ [q[i] EXCEPT !.state = "superseded"].agg = q[i].agg
        /\ [q[i] EXCEPT !.state = "superseded"].rev = q[i].rev
    BY <2>1, GiveWay DEF States
  <2>3. CASE q[i].agg = a /\ q[i].rev < rev /\ q[i].state \in LiveStates
    <3>1. s[i] = [q[i] EXCEPT !.state = "superseded"]
      BY <1>3, <2>3
    <3>2. s[i].state = "superseded"
      BY <2>2, <3>1, Zenon
    <3>3. s[i].state \notin LiveStates
      BY <3>2 DEF LiveStates
    <3> QED BY <2>1, <2>2, <2>3, <3>1, <3>3 DEF GivesWay
  <2>4. CASE ~ (q[i].agg = a /\ q[i].rev < rev /\ q[i].state \in LiveStates)
    BY <1>3, <2>1, <2>4 DEF GivesWay
  <2> QED BY <2>3, <2>4
<1> HIDE DEF row
<1>7. CASE Covered(s, a, kind, rev)
  <2>1. e = s
    BY <1>7 DEF Enqueue, s
  <2>2. PICK i \in DOMAIN q : s[i].agg = a /\ s[i].rev = rev
    BY <1>3, <1>7 DEF Covered
  <2>3. q[i].agg = a /\ q[i].rev = rev
    BY <1>6, <2>2
  <2>4. ~ \A j \in DOMAIN q : q[j].agg = a => q[j].rev < rev
    BY <2>3
  <2>5. e \in Seq(Row) /\ Len(e) = Len(q) /\ DOMAIN e = DOMAIN q /\ \A j \in DOMAIN q : e[j] = s[j]
    BY <1>3, <2>1
  <2> HIDE DEF e
  <2>6. Outgrows(q, e)
    BY <1>1, <1>6, <2>5 DEF Outgrows
  <2>7. /\ Len(e) <= Len(q) + 1
        /\ \A j \in DOMAIN q : (q[j].agg # a \/ q[j].rev >= rev) => e[j] = q[j]
        /\ \A j \in DOMAIN q : q[j].agg = a /\ q[j].rev < rev => e[j].state \notin LiveStates
        /\ DOMAIN e \ DOMAIN q = {}
    BY <1>1, <1>6, <2>5
  <2> QED BY <2>4, <2>6, <2>7 DEF e, Enqueued
<1>8. CASE ~ Covered(s, a, kind, rev)
  <2>1. e = Append(s, row)
    BY <1>8 DEF Enqueue, s, row, deps
  <2>2. /\ e \in Seq(Row) /\ Len(e) = Len(q) + 1
        /\ \A i \in 1..Len(q) : e[i] = s[i]
        /\ e[Len(q) + 1] = row
    BY <1>3, <1>5, <2>1, AppendProperties
  <2>3. DOMAIN e = 1..(Len(q) + 1)
    BY <2>2, LenProperties
  <2>4. \A i \in DOMAIN e \ DOMAIN q : i = Len(q) + 1
    BY <1>1, <2>3
  <2>5. \A i \in DOMAIN e \ DOMAIN q : Fresh(e, i)
    BY <1>1, <1>4, <1>5, <2>2, <2>3, <2>4 DEF Fresh
  <2> HIDE DEF e
  <2>6. Outgrows(q, e)
    BY <1>1, <1>6, <2>2, <2>5 DEF Outgrows
  <2> QED BY <1>1, <1>5, <1>6, <2>2, <2>4, <2>6 DEF e, Enqueued
<1> QED BY <1>7, <1>8

\* A second enqueueing in the same transaction.
LEMMA OutgrowsTwice ==
  ASSUME NEW q \in Seq(Row), NEW r, NEW e, Outgrows(q, r), Outgrows(r, e)
  PROVE  Outgrows(q, e)
<1>1. /\ Len(q) \in Nat /\ DOMAIN q = 1..Len(q)
      /\ r \in Seq(Row) /\ Len(r) \in Nat /\ DOMAIN r = 1..Len(r)
      /\ e \in Seq(Row) /\ Len(e) \in Nat /\ DOMAIN e = 1..Len(e)
  BY LenProperties DEF Outgrows
<1>2. DOMAIN q \subseteq DOMAIN r /\ DOMAIN r \subseteq DOMAIN e /\ Len(q) <= Len(e)
  BY <1>1 DEF Outgrows
<1>3. ASSUME NEW i \in DOMAIN r PROVE r[i] \in Row /\ GivesWay(r[i], e[i])
  BY <1>1, ElementOfSeq DEF Outgrows
<1>4. ASSUME NEW i \in DOMAIN q PROVE GivesWay(q[i], e[i])
  <2>1. q[i] \in Row /\ GivesWay(q[i], r[i]) /\ GivesWay(r[i], e[i])
    BY <1>1, <1>2, <1>3, ElementOfSeq DEF Outgrows
  <2>2. r[i].state = q[i].state \/ r[i].state = "superseded"
    BY <2>1, WayGiven
  <2> QED BY <2>1, <2>2 DEF GivesWay, LiveStates
<1>5. ASSUME NEW i \in DOMAIN e \ DOMAIN q PROVE Fresh(e, i)
  <2>1. CASE i \in DOMAIN r
    <3>1. Fresh(r, i) /\ r[i] \in Row /\ GivesWay(r[i], e[i])
      BY <1>3, <1>5, <2>1 DEF Outgrows
    <3>2. /\ e[i].state \in {r[i].state, "superseded"}
          /\ e[i].attempts = r[i].attempts /\ e[i].token = r[i].token
          /\ e[i].accepted = r[i].accepted /\ e[i].stamp = r[i].stamp /\ e[i].deps = r[i].deps
      BY <3>1, WayGiven
    <3> QED BY <1>2, <3>1, <3>2 DEF Fresh
  <2>2. CASE i \notin DOMAIN r
    BY <1>5, <2>2 DEF Outgrows
  <2> QED BY <2>1, <2>2
<1> QED BY <1>1, <1>2, <1>4, <1>5 DEF Outgrows

-----------------------------------------------------------------------------
\* The inductive invariant

Events ==
  [id : Nat, token : Nat, relay : Relays, agg : Aggregates,
   kind : {"put", "del", "msg"}, ver : Nat, stamp : Nat]

\* Dependencies point into the table, a claimed row has an attempt left, and a
\* message has no created_at to keep ahead of.
RowsSound ==
  \A i \in Ids :
    /\ outbox[i].deps \subseteq Ids
    /\ outbox[i].kind = "msg" => outbox[i].stamp = 0
    /\ outbox[i].state = "claimed" => outbox[i].attempts < MaxAttempts

\* Among the rows of an aggregate one has the latest created_at.
StampsBounded ==
  \A i \in Ids : \E k \in Ids :
    /\ outbox[k].agg = outbox[i].agg
    /\ \A j \in Ids : outbox[j].agg = outbox[i].agg => outbox[j].stamp <= outbox[k].stamp

\* Every event was signed for a row, whose dependencies had been published by
\* then, and not after the latest created_at of its aggregate.
WireSound ==
  /\ wire \subseteq Events
  /\ \A x \in wire :
       /\ x.id \in Ids
       /\ x.agg = outbox[x.id].agg /\ x.kind = outbox[x.id].kind
       /\ \A d \in outbox[x.id].deps : outbox[d].state = "published"
       /\ \E k \in Ids : outbox[k].agg = x.agg /\ x.stamp <= outbox[k].stamp

\* A worker's claim is of a row, under a token the row has or had.
ClaimsSound ==
  \A w \in Workers : work[w] # NoWork =>
    /\ work[w].id \in Ids
    /\ work[w].token <= outbox[work[w].id].token

\* No two workers were given the same token of a row.
ClaimsDiffer ==
  \A v, w \in Workers :
    /\ work[v] # NoWork /\ work[w] # NoWork
    /\ work[v].id = work[w].id /\ work[v].token = work[w].token
    => v = w

\* The evidence of a row was received, and a published row has all of it.
EvidenceSound ==
  \A i \in Ids :
    /\ \A r \in outbox[i].accepted : \E x \in received : x.id = i /\ x.relay = r
    /\ outbox[i].state = "published" => Copies(i) \subseteq CopiesOf(outbox[i].accepted)

IInv ==
  /\ TypeOK
  /\ RowsSound /\ StampsBounded /\ WireSound
  /\ ClaimsSound /\ ClaimsDiffer /\ EvidenceSound

-----------------------------------------------------------------------------
\* What a worker, the recovery, the sweep and the retry do to a row

\* Only row i is written, and neither what it announces nor what it waits for.
Writes(i) ==
  /\ i \in Ids /\ outbox' \in Seq(Row) /\ DOMAIN outbox' = Ids
  /\ \A j \in Ids \ {i} : outbox'[j] = outbox[j]
  /\ outbox'[i].agg = outbox[i].agg /\ outbox'[i].kind = outbox[i].kind
  /\ outbox'[i].rev = outbox[i].rev /\ outbox'[i].deps = outbox[i].deps

\* The row written had not ended; its token never falls, and it is claimed only
\* with an attempt left.
Rewrites(i) ==
  /\ Writes(i)
  /\ outbox[i].state \notin {"published", "superseded"}
  /\ outbox[i].token <= outbox'[i].token
  /\ outbox'[i].state = "claimed" => outbox'[i].attempts < MaxAttempts

\* Nothing is signed, and nothing is published without the evidence for it.
Silent(i) ==
  /\ Rewrites(i)
  /\ outbox'[i].accepted = outbox[i].accepted /\ outbox'[i].stamp = outbox[i].stamp
  /\ outbox'[i].state = "published" => Copies(i) \subseteq CopiesOf(outbox[i].accepted)

\* A worker's publication goes on or ends.
WorkGoesOn ==
  /\ work' \in [Workers -> [step : {"idle", "claimed", "sent"}, id : Nat, token : Nat]]
  /\ \A w \in Workers : work'[w] # NoWork =>
       work[w] # NoWork /\ work'[w].id = work[w].id /\ work'[w].token = work[w].token

\* The table is a sequence of rows, numbered from 1.
LEMMA TableRows ==
  ASSUME TypeOK
  PROVE  /\ Len(outbox) \in Nat /\ Ids = 1..Len(outbox) /\ Ids \subseteq Nat
         /\ \A i \in Ids : outbox[i] \in Row
<1>1. outbox \in Seq(Row)
  BY DEF TypeOK
<1>2. Len(outbox) \in Nat /\ DOMAIN outbox = 1..Len(outbox)
  BY <1>1, LenProperties
<1>3. \A i \in Ids : outbox[i] \in Row
  BY <1>1, <1>2, ElementOfSeq DEF Ids
<1> QED BY <1>2, <1>3 DEF Ids

\* Writing one row.
LEMMA WriteRow ==
  ASSUME TypeOK, NEW i \in Ids, NEW r \in Row, outbox' = [outbox EXCEPT ![i] = r],
         r.agg = outbox[i].agg, r.kind = outbox[i].kind, r.rev = outbox[i].rev,
         r.deps = outbox[i].deps
  PROVE  Writes(i) /\ outbox'[i] = r
<1>1. outbox \in Seq(Row) /\ Len(outbox) \in Nat /\ DOMAIN outbox = 1..Len(outbox)
  BY LenProperties DEF TypeOK
<1>2. outbox \in [1..Len(outbox) -> Row]
  BY <1>1, TableRows DEF Ids
<1>3. outbox' \in [1..Len(outbox) -> Row]
  BY <1>2
<1>4. outbox' \in Seq(Row) /\ DOMAIN outbox' = Ids
  BY <1>1, <1>3, RowSeq DEF Ids
<1>5. outbox'[i] = r /\ \A j \in Ids \ {i} : outbox'[j] = outbox[j]
  BY <1>1, <1>2 DEF Ids
<1> QED BY <1>4, <1>5 DEF Writes

\* Claiming a row gives it a token no claim had.
LEMMA ClaimDoes ==
  ASSUME TypeOK, NEW w \in Workers, NEW i \in Ids, Claim(w, i)
  PROVE  /\ Silent(i)
         /\ outbox'[i].token = outbox[i].token + 1 /\ outbox'[i].state = "claimed"
         /\ work' \in [Workers -> [step : {"idle", "claimed", "sent"}, id : Nat, token : Nat]]
         /\ work'[w].id = i /\ work'[w].token = outbox[i].token + 1
         /\ \A v \in Workers \ {w} : work'[v] = work[v]
<1>1. outbox[i] \in Row /\ i \in Nat /\ outbox[i].token \in Nat /\ outbox[i].token + 1 \in Nat
  BY TableRows, RowFields
<1> DEFINE t == outbox[i].token + 1
           r == [outbox[i] EXCEPT !.state = "claimed", !.token = t]
<1>2. outbox' = [outbox EXCEPT ![i] = r]
  BY Zenon DEF Claim
<1>3. /\ r \in Row /\ r.agg = outbox[i].agg /\ r.kind = outbox[i].kind
      /\ r.rev = outbox[i].rev /\ r.deps = outbox[i].deps
      /\ r.state = "claimed" /\ r.attempts = outbox[i].attempts /\ r.token = t
      /\ r.accepted = outbox[i].accepted /\ r.stamp = outbox[i].stamp
  <2>1. "claimed" \in States
    BY DEF States, LiveStates
  <2> HIDE DEF t
  <2> QED BY <1>1, <2>1 DEF Row, t
<1> HIDE DEF r
<1>4. Writes(i) /\ outbox'[i] = r
  BY <1>2, <1>3, WriteRow
<1>5. /\ Silent(i) /\ outbox'[i].token = outbox[i].token + 1
      /\ outbox'[i].state = "claimed"
  BY <1>1, <1>3, <1>4 DEF Claim, Silent, Rewrites
<1>6. work' = [work EXCEPT ![w] = [step |-> "claimed", id |-> i, token |-> t]]
  BY DEF Claim
<1>7. work \in [Workers -> [step : {"idle", "claimed", "sent"}, id : Nat, token : Nat]]
  BY DEF TypeOK
<1>8. /\ work' \in [Workers -> [step : {"idle", "claimed", "sent"}, id : Nat, token : Nat]]
      /\ work'[w].id = i /\ work'[w].token = t
      /\ \A v \in Workers \ {w} : work'[v] = work[v]
  BY <1>1, <1>6, <1>7
<1> QED BY <1>5, <1>8

\* A worker that lets go.
LEMMA LetGo ==
  ASSUME TypeOK, NEW w \in Workers, work' = [work EXCEPT ![w] = NoWork]
  PROVE  WorkGoesOn
<1>1. work \in [Workers -> [step : {"idle", "claimed", "sent"}, id : Nat, token : Nat]]
  BY DEF TypeOK
<1>2. NoWork \in [step : {"idle", "claimed", "sent"}, id : Nat, token : Nat]
  BY DEF NoWork
<1>3. /\ work' \in [Workers -> [step : {"idle", "claimed", "sent"}, id : Nat, token : Nat]]
      /\ work'[w] = NoWork /\ \A v \in Workers \ {w} : work'[v] = work[v]
  BY <1>1, <1>2
<1> QED BY <1>3 DEF WorkGoesOn

\* Settling a claim, whatever the outcome.
LEMMA SettleDoes ==
  ASSUME TypeOK, RowsSound, ClaimsSound, NEW w \in Workers, work[w] # NoWork, Mine(w),
         NEW state \in States, state # "claimed",
         state = "published" => Copies(work[w].id) \subseteq CopiesOf(outbox[work[w].id].accepted),
         NEW error \in {"none", "no_inbox_relays"}, SettleWith(w, state, error)
  PROVE  /\ Silent(work[w].id) /\ WorkGoesOn
         /\ outbox[work[w].id].state = "claimed" /\ outbox'[work[w].id].state = state
<1> DEFINE i == work[w].id
<1>1. i \in Ids
  BY DEF ClaimsSound
<1> HIDE DEF i
<1>2. /\ outbox[i] \in Row /\ outbox[i].state = "claimed" /\ outbox[i].attempts \in 0..MaxAttempts
      /\ outbox[i].token \in Nat
  BY <1>1, TableRows, RowFields DEF Mine, i
<1>3. outbox[i].attempts + 1 \in 0..MaxAttempts
  BY <1>1, <1>2, OutboxAssumption DEF RowsSound
<1> DEFINE k == outbox[i].attempts + 1
           r == [outbox[i] EXCEPT !.state = state, !.attempts = k, !.error = error]
<1>4. outbox' = [outbox EXCEPT ![i] = r]
  BY Zenon DEF SettleWith, i
<1>5. /\ r \in Row /\ r.agg = outbox[i].agg /\ r.kind = outbox[i].kind
      /\ r.rev = outbox[i].rev /\ r.deps = outbox[i].deps
      /\ r.state = state /\ r.token = outbox[i].token
      /\ r.accepted = outbox[i].accepted /\ r.stamp = outbox[i].stamp
  <2>1. k \in 0..MaxAttempts
    BY <1>3
  <2> HIDE DEF k
  <2> QED BY <1>2, <2>1 DEF Row
<1> HIDE DEF r
<1>6. Writes(i) /\ outbox'[i] = r
  BY <1>1, <1>4, <1>5, WriteRow
<1>7. Silent(i)
  BY <1>2, <1>5, <1>6 DEF Silent, Rewrites, i
<1>8. WorkGoesOn
  BY LetGo DEF SettleWith
<1> QED BY <1>2, <1>5, <1>6, <1>7, <1>8 DEF i

\* Blocked, overtaken, without a relay, without a route, failed by an exception:
\* the claim is settled without anything sent; only what has been overtaken is
\* superseded.
LEMMA SettlesDo ==
  ASSUME TypeOK, RowsSound, ClaimsSound, NEW w \in Workers,
         Block(w) \/ Overtake(w) \/ NoTargets(w) \/ NoRoute(w) \/ Fault(w)
  PROVE  LET i == work[w].id IN
           /\ Silent(i) /\ WorkGoesOn
           /\ outbox[i].state = "claimed"
           /\ outbox'[i].state = "superseded" => NewerLive(i) \/ ~ Renders(i)
           /\ UNCHANGED <<content, edit, astray, wire, received>>
<1> DEFINE i == work[w].id
<1>1. work[w] # NoWork /\ Mine(w)
  BY DEF Block, Overtake, NoTargets, NoRoute, Fault, Sendable, Preparing, NoWork
<1>2. CASE Overtake(w)
  <2>0. "superseded" \in States
    BY DEF States
  <2>1. SettleWith(w, "superseded", "none") /\ (NewerLive(i) \/ ~ Renders(i))
    BY <1>2 DEF Overtake, Settle
  <2>2. UNCHANGED <<content, edit, astray, wire, received>>
    BY <2>1 DEF SettleWith
  <2> QED BY <1>1, <2>0, <2>1, <2>2, SettleDoes
<1>3. CASE NoTargets(w)
  <2> DEFINE s == Outcome(i, outbox[i].accepted)
  <2>1. SettleWith(w, s, "none")
    BY <1>3, Zenon DEF NoTargets, Settle
  <2>2. /\ s \in States /\ s \notin {"claimed", "superseded"}
        /\ s = "published" => Copies(i) \subseteq CopiesOf(outbox[i].accepted)
    BY DEF Outcome, States, LiveStates
  <2>3. UNCHANGED <<content, edit, astray, wire, received>>
    BY <2>1 DEF SettleWith
  <2> HIDE DEF s
  <2> QED BY <1>1, <2>1, <2>2, <2>3, SettleDoes
<1>4. CASE Block(w) \/ NoRoute(w) \/ Fault(w)
  <2>0. "pending" \in States /\ "failed" \in States
    BY DEF States, LiveStates
  <2>1. PICK state \in {"pending", "failed"}, error \in {"none", "no_inbox_relays"} :
          SettleWith(w, state, error)
    BY <1>4, Zenon DEF Block, NoRoute, Fault, Settle
  <2>2. UNCHANGED <<content, edit, astray, wire, received>>
    BY <2>1 DEF SettleWith
  <2> QED BY <1>1, <2>0, <2>1, <2>2, SettleDoes
<1> QED BY <1>2, <1>3, <1>4

\* A claim whose lease ran out is taken back under a new token.
LEMMA RecoverDoes ==
  ASSUME TypeOK, NEW i \in Ids, Recover(i)
  PROVE  Silent(i) /\ outbox'[i].state # "superseded"
<1>1. outbox[i] \in Row /\ outbox[i].token \in Nat /\ outbox[i].token + 1 \in Nat
  BY TableRows, RowFields
<1> DEFINE t == outbox[i].token + 1
           s == IF outbox[i].accepted = {} THEN "pending" ELSE "partially_published"
           r == [outbox[i] EXCEPT !.state = s, !.token = t]
<1>2. outbox' = [outbox EXCEPT ![i] = r]
  BY Zenon DEF Recover
<1>3. /\ r \in Row /\ r.agg = outbox[i].agg /\ r.kind = outbox[i].kind
      /\ r.rev = outbox[i].rev /\ r.deps = outbox[i].deps
      /\ r.state = s /\ r.token = t
      /\ r.accepted = outbox[i].accepted /\ r.stamp = outbox[i].stamp
  <2>1. s \in States
    BY DEF States, LiveStates
  <2> HIDE DEF s
  <2> QED BY <1>1, <2>1 DEF Row
<1> HIDE DEF r
<1>4. Writes(i) /\ outbox'[i] = r
  BY <1>2, <1>3, WriteRow
<1> QED BY <1>1, <1>3, <1>4 DEF Recover, Silent, Rewrites

\* A message that is given up.
LEMMA SweepDoes ==
  ASSUME TypeOK, NEW i \in Ids, SweepNoRoute(i)
  PROVE  Silent(i) /\ outbox'[i].state # "superseded"
<1>1. outbox[i] \in Row /\ outbox[i].token \in Nat
  BY TableRows, RowFields
<1> DEFINE r == [outbox[i] EXCEPT !.state = "failed"]
<1>2. outbox' = [outbox EXCEPT ![i] = r]
  BY Zenon DEF SweepNoRoute
<1>3. /\ r \in Row /\ r.agg = outbox[i].agg /\ r.kind = outbox[i].kind
      /\ r.rev = outbox[i].rev /\ r.deps = outbox[i].deps
      /\ r.state = "failed" /\ r.token = outbox[i].token
      /\ r.accepted = outbox[i].accepted /\ r.stamp = outbox[i].stamp
  BY <1>1, GiveWay DEF States
<1> HIDE DEF r
<1>4. Writes(i) /\ outbox'[i] = r
  BY <1>2, <1>3, WriteRow
<1> QED BY <1>1, <1>3, <1>4 DEF SweepNoRoute, Silent, Rewrites

\* A row the merchant requeues.
LEMMA RetryDoes ==
  ASSUME TypeOK, NEW i \in Ids, Retry(i)
  PROVE  Silent(i) /\ outbox'[i].state # "superseded"
<1>1. outbox[i] \in Row /\ outbox[i].token \in Nat
  BY TableRows, RowFields
<1> DEFINE r == [outbox[i] EXCEPT !.state = "pending", !.attempts = 0, !.error = "none"]
<1>2. outbox' = [outbox EXCEPT ![i] = r]
  BY Zenon DEF Retry
<1>3. /\ r \in Row /\ r.agg = outbox[i].agg /\ r.kind = outbox[i].kind
      /\ r.rev = outbox[i].rev /\ r.deps = outbox[i].deps
      /\ r.state = "pending" /\ r.token = outbox[i].token
      /\ r.accepted = outbox[i].accepted /\ r.stamp = outbox[i].stamp
  <2>1. 0 \in 0..MaxAttempts /\ "pending" \in States
    BY OutboxAssumption DEF States, LiveStates
  <2> QED BY <1>1, <2>1 DEF Row
<1> HIDE DEF r
<1>4. Writes(i) /\ outbox'[i] = r
  BY <1>2, <1>3, WriteRow
<1> QED BY <1>1, <1>3, <1>4 DEF Retry, Silent, Rewrites

\* The next created_at of an aggregate with a row is above every one signed.
LEMMA NextStampIsLater ==
  ASSUME TypeOK, StampsBounded, NEW i \in Ids
  PROVE  /\ NextStamp(outbox[i].agg) \in Nat
         /\ \A j \in Ids : outbox[j].agg = outbox[i].agg =>
              outbox[j].stamp < NextStamp(outbox[i].agg)
<1> DEFINE a == outbox[i].agg
           S == StampsOf(a)
           m == CHOOSE s \in S : \A t \in S : t <= s
<1>1. \A j \in Ids : outbox[j].stamp \in Nat
  BY TableRows, RowFields
<1>2. PICK k \in Ids :
        /\ outbox[k].agg = outbox[i].agg
        /\ \A j \in Ids : outbox[j].agg = outbox[i].agg => outbox[j].stamp <= outbox[k].stamp
  BY DEF StampsBounded
<1>3. outbox[k].stamp \in S /\ \A t \in S : t <= outbox[k].stamp
  BY <1>2 DEF StampsOf
<1>4. m \in S /\ \A t \in S : t <= m
  BY <1>3
<1>5. S \subseteq Nat
  BY <1>1 DEF StampsOf
<1>6. \A j \in Ids : outbox[j].agg = a => outbox[j].stamp \in S
  BY DEF StampsOf
<1>7. NextStamp(a) = 1 + m
  BY DEF NextStamp
<1> HIDE DEF m, S
<1> QED BY <1>1, <1>4, <1>5, <1>6, <1>7

\* Signing: the row gets a created_at above those of its aggregate.
LEMMA SendDoes ==
  ASSUME TypeOK, RowsSound, StampsBounded, ClaimsSound, NEW w \in Workers,
         NEW targets \in SUBSET Relays, Send(w, targets)
  PROVE  LET i == work[w].id IN
           /\ Rewrites(i) /\ WorkGoesOn
           /\ outbox'[i].accepted = outbox[i].accepted
           /\ outbox'[i].state = "claimed" /\ outbox[i].state = "claimed"
           /\ DepsPublished(i) /\ targets \subseteq Missing(i)
           /\ wire' = wire \cup {Event(w, relay, outbox'[i].stamp) : relay \in targets}
           /\ IF outbox[i].kind = "msg" THEN outbox'[i].stamp = 0
              ELSE \A j \in Ids : outbox[j].agg = outbox[i].agg =>
                     outbox[j].stamp < outbox'[i].stamp
<1> DEFINE i == work[w].id
           t == IF outbox[i].kind = "msg" THEN 0 ELSE NextStamp(outbox[i].agg)
           r == [outbox[i] EXCEPT !.stamp = t]
<1>0. /\ outbox' = [outbox EXCEPT ![i] = r]
      /\ wire' = wire \cup {Event(w, relay, t) : relay \in targets}
      /\ work' = [work EXCEPT ![w].step = "sent"]
      /\ Preparing(w) /\ DepsPublished(i) /\ targets \subseteq Missing(i)
  BY Zenon DEF Send, Sendable
<1>1. i \in Ids /\ outbox[i].state = "claimed" /\ outbox[i].token = work[w].token
  BY <1>0 DEF ClaimsSound, Preparing, Mine, NoWork
<1>2. outbox[i] \in Row /\ outbox[i].token \in Nat /\ outbox[i].attempts < MaxAttempts
  BY <1>1, TableRows, RowFields DEF RowsSound
<1>3. /\ t \in Nat
      /\ IF outbox[i].kind = "msg" THEN t = 0
         ELSE \A j \in Ids : outbox[j].agg = outbox[i].agg => outbox[j].stamp < t
  BY <1>1, NextStampIsLater
<1>4. /\ r \in Row /\ r.agg = outbox[i].agg /\ r.kind = outbox[i].kind
      /\ r.rev = outbox[i].rev /\ r.deps = outbox[i].deps /\ r.attempts = outbox[i].attempts
      /\ r.state = outbox[i].state /\ r.token = outbox[i].token
      /\ r.accepted = outbox[i].accepted /\ r.stamp = t
  <2> HIDE DEF t, i
  <2> QED BY <1>2, <1>3 DEF Row
<1> HIDE DEF r, t
<1>5. Writes(i) /\ outbox'[i] = r
  BY <1>0, <1>1, <1>4, WriteRow
<1>6. Rewrites(i)
  BY <1>1, <1>2, <1>4, <1>5 DEF Rewrites
<1>7. WorkGoesOn
  <2>1. work \in [Workers -> [step : {"idle", "claimed", "sent"}, id : Nat, token : Nat]]
    BY DEF TypeOK
  <2>2. work[w] # NoWork
    BY <1>0 DEF Preparing, NoWork
  <2>3. /\ [work[w] EXCEPT !.step = "sent"] \in
              [step : {"idle", "claimed", "sent"}, id : Nat, token : Nat]
        /\ [work[w] EXCEPT !.step = "sent"].id = work[w].id
        /\ [work[w] EXCEPT !.step = "sent"].token = work[w].token
    BY <2>1
  <2>4. /\ work' \in [Workers -> [step : {"idle", "claimed", "sent"}, id : Nat, token : Nat]]
        /\ work'[w].id = work[w].id /\ work'[w].token = work[w].token
        /\ \A v \in Workers \ {w} : work'[v] = work[v]
    BY <1>0, <2>1, <2>3
  <2> QED BY <2>2, <2>4 DEF WorkGoesOn
<1>8. t = outbox'[i].stamp
  BY <1>4, <1>5
<1> QED BY <1>0, <1>1, <1>3, <1>4, <1>5, <1>6, <1>7, <1>8

\* The answers to a send: evidence and outcome.
LEMMA FinishDoes ==
  ASSUME TypeOK, RowsSound, WireSound, ClaimsSound, NEW w \in Workers,
         NEW oks \in SUBSET Answerable(w), Finish(w, oks)
  PROVE  LET i == work[w].id IN
           /\ Rewrites(i) /\ WorkGoesOn
           /\ outbox'[i].accepted = outbox[i].accepted \cup oks
           /\ outbox'[i].stamp = outbox[i].stamp
           /\ outbox[i].state = "claimed" /\ outbox'[i].state # "superseded"
           /\ outbox'[i].state = "published" => Copies(i) \subseteq CopiesOf(outbox'[i].accepted)
<1> DEFINE i == work[w].id
           a == outbox[i].accepted \cup oks
           k == outbox[i].attempts + 1
           s == Outcome(i, a)
           r == [outbox[i] EXCEPT !.accepted = a, !.state = s, !.attempts = k, !.error = "none"]
<1>0. /\ outbox' = [outbox EXCEPT ![i] = r]
      /\ work' = [work EXCEPT ![w] = NoWork]
      /\ work[w].step = "sent" /\ Mine(w)
  BY Zenon DEF Finish, Evidence
<1>1. i \in Ids /\ outbox[i].state = "claimed"
  BY <1>0 DEF ClaimsSound, Mine, NoWork
<1>2. /\ outbox[i] \in Row /\ outbox[i].token \in Nat
      /\ outbox[i].attempts \in 0..MaxAttempts /\ outbox[i].attempts < MaxAttempts
      /\ outbox[i].accepted \in SUBSET Relays
  BY <1>1, TableRows, RowFields DEF RowsSound
<1>3. k \in 0..MaxAttempts
  BY <1>2, OutboxAssumption
<1>4. a \in SUBSET Relays
  <2>1. \A x \in received : x.relay \in Relays
    BY DEF TypeOK, WireSound, Events
  <2> QED BY <1>2, <2>1 DEF Answerable
<1>5. s \in States /\ s \notin {"claimed", "superseded"} /\ (s = "published" => Copies(i) \subseteq CopiesOf(a))
  BY DEF Outcome, States, LiveStates
<1>6. /\ r \in Row /\ r.agg = outbox[i].agg /\ r.kind = outbox[i].kind
      /\ r.rev = outbox[i].rev /\ r.deps = outbox[i].deps
      /\ r.state = s /\ r.token = outbox[i].token
      /\ r.accepted = a /\ r.stamp = outbox[i].stamp
  <2> HIDE DEF a, s, k, i
  <2> QED BY <1>2, <1>3, <1>4, <1>5 DEF Row
<1> HIDE DEF r, s
<1>7. Writes(i) /\ outbox'[i] = r
  BY <1>0, <1>1, <1>6, WriteRow
<1>8. Rewrites(i)
  BY <1>1, <1>2, <1>5, <1>6, <1>7 DEF Rewrites
<1>9. WorkGoesOn
  BY <1>0, LetGo
<1> QED BY <1>1, <1>5, <1>6, <1>7, <1>8, <1>9

-----------------------------------------------------------------------------
\* What a change does

Contents == [rev : Nat, ver : Nat, shown : BOOLEAN]

\* The table grows by the intents of a change; no worker and no relay is involved.
Announces ==
  /\ Outgrows(outbox, outbox')
  /\ content' \in [Aggregates -> Contents]
  /\ edit' \in [Editors -> [listing : Listings \cup {NoListing}, seen : Nat]]
  /\ astray' \in [Aggregates -> SUBSET {"stale", "drafted", "retried"}]
  /\ UNCHANGED <<wire, received, work>>

\* The table as it is.
LEMMA OutgrowsItself ==
  ASSUME NEW q \in Seq(Row)
  PROVE  Outgrows(q, q)
<1>1. Len(q) \in Nat
  BY LenProperties
<1> QED BY <1>1 DEF Outgrows, GivesWay

\* What the variables that only changes write contain.
LEMMA ChangeTypes ==
  ASSUME TypeOK
  PROVE  /\ outbox \in Seq(Row) /\ content \in [Aggregates -> Contents]
         /\ \A a \in Aggregates : content[a] \in Contents /\ content[a].rev \in Nat
         /\ edit \in [Editors -> [listing : Listings \cup {NoListing}, seen : Nat]]
         /\ \A e \in Editors : edit[e].seen \in Nat
         /\ astray \in [Aggregates -> SUBSET {"stale", "drafted", "retried"}]
         /\ Products \subseteq Aggregates /\ Collections \subseteq Aggregates
         /\ Profiles \subseteq Aggregates /\ Messages \subseteq Aggregates
         /\ \A p \in Products : Home[p] \in Collections /\ Home[p] # p
<1>1. \A a \in Aggregates : content[a] \in Contents /\ content[a].rev \in Nat
  BY DEF TypeOK, Contents
<1>2. \A e \in Editors : edit[e].seen \in Nat
  BY DEF TypeOK
<1>3. /\ Products \subseteq Aggregates /\ Collections \subseteq Aggregates
      /\ Profiles \subseteq Aggregates /\ Messages \subseteq Aggregates
  BY DEF Aggregates, Listings
<1>4. \A p \in Products : Home[p] \in Collections /\ Home[p] # p
  BY OutboxAssumption
<1> QED BY <1>1, <1>2, <1>3, <1>4 DEF TypeOK, Contents

\* A changed row has its type.
LEMMA ChangedRow ==
  ASSUME NEW row \in Contents, NEW rev \in Nat, NEW shown \in BOOLEAN
  PROVE  /\ Changed(row, rev, shown) \in Contents
         /\ Changed(row, rev, shown).rev = rev
         /\ Changed(row, rev, shown).ver = row.ver + 1
         /\ Changed(row, rev, shown).shown = shown
BY DEF Changed, Contents

\* Two rows changed together.
LEMMA ChangeTwo ==
  ASSUME NEW S, NEW f \in [Aggregates -> S], NEW a \in Aggregates, NEW b \in Aggregates,
         NEW x \in S, NEW y \in S, a # b
  PROVE  LET g == [f EXCEPT ![a] = x, ![b] = y] IN
           /\ g \in [Aggregates -> S] /\ g[a] = x /\ g[b] = y
           /\ \A z \in Aggregates \ {a, b} : g[z] = f[z]
OBVIOUS

\* An editor that is done.
LEMMA EditEnds ==
  ASSUME TypeOK, NEW e \in Editors
  PROVE  [edit EXCEPT ![e] = NoEdit] \in
           [Editors -> [listing : Listings \cup {NoListing}, seen : Nat]]
<1>1. NoEdit \in [listing : Listings \cup {NoListing}, seen : Nat]
  BY DEF NoEdit
<1>2. edit \in [Editors -> [listing : Listings \cup {NoListing}, seen : Nat]]
  BY DEF TypeOK
<1> QED BY <1>1, <1>2

\* One intent on a table.
LEMMA EnqueueGrows ==
  ASSUME NEW q \in Seq(Row), NEW a \in Aggregates, NEW kind \in {"put", "del", "msg"},
         NEW rev \in Nat, NEW needs
  PROVE  Outgrows(q, Enqueue(q, a, kind, rev, needs))
BY EnqueueRows DEF Enqueued

\* The collection's intent, if it has one.
LEMMA RelistGrows ==
  ASSUME TypeOK, NEW c \in Collections, NEW members
  PROVE  Outgrows(outbox, Relist(outbox, c, members))
<1>1. c \in Aggregates /\ content[c].rev + 1 \in Nat /\ outbox \in Seq(Row)
  BY ChangeTypes
<1>2. Outgrows(outbox, Enqueue(outbox, c, "put", content[c].rev + 1, {}))
  BY <1>1, EnqueueGrows
<1>3. Outgrows(outbox, outbox)
  BY <1>1, OutgrowsItself
<1> QED BY <1>2, <1>3 DEF Relist

\* A patch of a product.
LEMMA PatchProductDoes ==
  ASSUME TypeOK, NEW e \in Editors, NEW show \in BOOLEAN, PatchProduct(e, show)
  PROVE  Announces
<1> DEFINE p == edit[e].listing
           c == Home[p]
           members == IF show THEN Members(c) \cup {p} ELSE Members(c) \ {p}
           listed == Relist(outbox, c, members)
<1>1. /\ p \in Products /\ c \in Collections /\ c # p
      /\ p \in Aggregates /\ c \in Aggregates
      /\ content[p] \in Contents /\ content[p].rev + 1 \in Nat
      /\ content[c] \in Contents /\ content[c].rev + 1 \in Nat
      /\ edit[e].seen + 1 \in Nat
  <2>1. p \in Products
    BY DEF PatchProduct
  <2> QED BY <2>1, ChangeTypes
<1>2. /\ outbox' = IF show THEN Enqueue(listed, p, "put", edit[e].seen + 1, {c}) ELSE listed
      /\ content' = [content EXCEPT
           ![p] = Changed(content[p], content[p].rev + 1, show),
           ![c] = Changed(content[c], content[c].rev + 1, members # {})]
      /\ astray' = [astray EXCEPT
           ![p] = astray[p] \cup (IF show THEN Stale(e) ELSE {"drafted"}),
           ![c] = astray[c] \cup (IF members = {} THEN {"drafted"} ELSE {})]
      /\ edit' = [edit EXCEPT ![e] = NoEdit]
      /\ UNCHANGED <<wire, received, work>>
  <2> HIDE DEF members, listed
  <2> QED BY <1>1, ChangeTypes DEF PatchProduct, members, listed
<1> HIDE DEF members, listed, c, p
<1>3. Outgrows(outbox, listed) /\ listed \in Seq(Row)
  BY <1>1, RelistGrows DEF listed, Outgrows
<1>4. Outgrows(outbox, outbox')
  <2>1. Outgrows(listed, Enqueue(listed, p, "put", edit[e].seen + 1, {c}))
    BY <1>1, <1>3, EnqueueGrows
  <2> QED BY <1>2, <1>3, <2>1, ChangeTypes, OutgrowsTwice
<1>5. content' \in [Aggregates -> Contents]
  <2>1. /\ Changed(content[p], content[p].rev + 1, show) \in Contents
        /\ Changed(content[c], content[c].rev + 1, members # {}) \in Contents
    BY <1>1, ChangedRow
  <2> QED BY <1>1, <1>2, <2>1, ChangeTypes, ChangeTwo
<1>6. astray' \in [Aggregates -> SUBSET {"stale", "drafted", "retried"}]
  <2>1. /\ astray[p] \cup (IF show THEN Stale(e) ELSE {"drafted"})
             \in SUBSET {"stale", "drafted", "retried"}
        /\ astray[c] \cup (IF members = {} THEN {"drafted"} ELSE {})
             \in SUBSET {"stale", "drafted", "retried"}
    BY <1>1, ChangeTypes DEF Stale
  <2> QED BY <1>1, <1>2, <2>1, ChangeTypes, ChangeTwo
<1> QED BY <1>2, <1>4, <1>5, <1>6, EditEnds DEF Announces

\* A picture added to a product.
LEMMA AddImageDoes ==
  ASSUME TypeOK, NEW e \in Editors, AddImage(e)
  PROVE  Announces
<1> DEFINE p == edit[e].listing
<1>1. /\ p \in Products /\ p \in Aggregates /\ content[p] \in Contents
      /\ content[p].rev + 1 \in Nat /\ edit[e].seen + 1 \in Nat
  BY ChangeTypes DEF AddImage
<1>2. /\ outbox' = Enqueue(outbox, p, "put", edit[e].seen + 1, {Home[p]})
      /\ content' = [content EXCEPT ![p] = Changed(content[p], content[p].rev + 1, TRUE)]
      /\ astray' = [astray EXCEPT ![p] = astray[p] \cup Stale(e)]
      /\ edit' = [edit EXCEPT ![e] = NoEdit]
      /\ UNCHANGED <<wire, received, work>>
  BY DEF AddImage
<1> HIDE DEF p
<1>3. Outgrows(outbox, outbox')
  BY <1>1, <1>2, ChangeTypes, EnqueueGrows
<1>4. content' \in [Aggregates -> Contents]
  <2>1. Changed(content[p], content[p].rev + 1, TRUE) \in Contents
    BY <1>1, ChangedRow
  <2> QED BY <1>1, <1>2, <2>1, ChangeTypes
<1>5. astray' \in [Aggregates -> SUBSET {"stale", "drafted", "retried"}]
  <2>1. astray[p] \cup Stale(e) \in SUBSET {"stale", "drafted", "retried"}
    BY <1>1, ChangeTypes DEF Stale
  <2> QED BY <1>1, <1>2, <2>1, ChangeTypes
<1> QED BY <1>2, <1>3, <1>4, <1>5, EditEnds DEF Announces

\* A patch of a collection.
LEMMA PatchCollectionDoes ==
  ASSUME TypeOK, NEW e \in Editors, PatchCollection(e)
  PROVE  Announces
<1> DEFINE c == edit[e].listing
<1>1. /\ c \in Collections /\ c \in Aggregates /\ content[c] \in Contents
      /\ edit[e].seen + 1 \in Nat
  BY ChangeTypes DEF PatchCollection
<1>2. /\ outbox' = Enqueue(outbox, c, "put", edit[e].seen + 1, {})
      /\ content' = [content EXCEPT ![c] = Changed(content[c], edit[e].seen + 1, TRUE)]
      /\ astray' = [astray EXCEPT ![c] = astray[c] \cup Stale(e)]
      /\ edit' = [edit EXCEPT ![e] = NoEdit]
      /\ UNCHANGED <<wire, received, work>>
  BY DEF PatchCollection
<1> HIDE DEF c
<1>3. Outgrows(outbox, outbox')
  BY <1>1, <1>2, ChangeTypes, EnqueueGrows
<1>4. content' \in [Aggregates -> Contents]
  <2>1. Changed(content[c], edit[e].seen + 1, TRUE) \in Contents
    BY <1>1, ChangedRow
  <2> QED BY <1>1, <1>2, <2>1, ChangeTypes
<1>5. astray' \in [Aggregates -> SUBSET {"stale", "drafted", "retried"}]
  <2>1. astray[c] \cup Stale(e) \in SUBSET {"stale", "drafted", "retried"}
    BY <1>1, ChangeTypes DEF Stale
  <2> QED BY <1>1, <1>2, <2>1, ChangeTypes
<1> QED BY <1>2, <1>3, <1>4, <1>5, EditEnds DEF Announces

\* A product withdrawn, with its collection republished or withdrawn.
LEMMA WithdrawProductDoes ==
  ASSUME TypeOK, NEW p \in Products, WithdrawProduct(p)
  PROVE  Announces
<1> DEFINE c == Home[p]
           members == Members(c) \ {p}
           listed == IF members = {} THEN Enqueue(outbox, c, "del", content[c].rev + 1, {})
                     ELSE Relist(outbox, c, members)
           needs == IF members = {} THEN {} ELSE {c}
<1>1. /\ c \in Collections /\ c # p /\ p \in Aggregates /\ c \in Aggregates
      /\ content[p] \in Contents /\ content[p].rev + 1 \in Nat
      /\ content[c] \in Contents /\ content[c].rev + 1 \in Nat
  BY ChangeTypes
<1>2. /\ outbox' = Enqueue(listed, p, "del", content[p].rev + 1, needs)
      /\ content' = [content EXCEPT
           ![p] = Changed(content[p], content[p].rev + 1, FALSE),
           ![c] = Changed(content[c], content[c].rev + 1, members # {})]
      /\ UNCHANGED <<edit, astray, wire, received, work>>
  <2> HIDE DEF members, listed
  <2> QED BY <1>1, ChangeTypes DEF WithdrawProduct, members, listed
<1> HIDE DEF members, listed, c, needs
<1>3. Outgrows(outbox, listed) /\ listed \in Seq(Row)
  <2>1. Outgrows(outbox, Enqueue(outbox, c, "del", content[c].rev + 1, {}))
    BY <1>1, ChangeTypes, EnqueueGrows
  <2>2. Outgrows(outbox, Relist(outbox, c, members))
    BY <1>1, RelistGrows
  <2> QED BY <2>1, <2>2 DEF listed, Outgrows
<1>4. Outgrows(outbox, outbox')
  <2>1. Outgrows(listed, Enqueue(listed, p, "del", content[p].rev + 1, needs))
    BY <1>1, <1>3, EnqueueGrows
  <2> QED BY <1>2, <1>3, <2>1, ChangeTypes, OutgrowsTwice
<1>5. content' \in [Aggregates -> Contents]
  <2>1. /\ Changed(content[p], content[p].rev + 1, FALSE) \in Contents
        /\ Changed(content[c], content[c].rev + 1, members # {}) \in Contents
    BY <1>1, ChangedRow
  <2> QED BY <1>1, <1>2, <2>1, ChangeTypes, ChangeTwo
<1> QED BY <1>2, <1>4, <1>5, ChangeTypes DEF Announces

\* Stock that comes back or goes.
LEMMA MoveStockDoes ==
  ASSUME TypeOK, NEW p \in Products, MoveStock(p)
  PROVE  Announces
<1>1. /\ p \in Aggregates /\ content[p] \in Contents /\ content[p].rev + 1 \in Nat
  BY ChangeTypes
<1>2. /\ outbox' = Enqueue(outbox, p, "put", content[p].rev + 1, {Home[p]})
      /\ content' = [content EXCEPT ![p] = Changed(content[p], content[p].rev + 1, TRUE)]
      /\ UNCHANGED <<edit, astray, wire, received, work>>
  BY DEF MoveStock
<1>3. Outgrows(outbox, outbox')
  BY <1>1, <1>2, ChangeTypes, EnqueueGrows
<1>4. content' \in [Aggregates -> Contents]
  <2>1. Changed(content[p], content[p].rev + 1, TRUE) \in Contents
    BY <1>1, ChangedRow
  <2> QED BY <1>1, <1>2, <2>1, ChangeTypes
<1> QED BY <1>2, <1>3, <1>4, ChangeTypes DEF Announces

\* The merchant's profile.
LEMMA EditProfileDoes ==
  ASSUME TypeOK, NEW a \in Profiles, EditProfile(a)
  PROVE  Announces
<1>1. a \in Aggregates /\ content[a] \in Contents /\ content[a].ver + 1 \in Nat
  BY ChangeTypes DEF Contents
<1> DEFINE v == content[a].ver + 1
<1>2. /\ outbox' = Enqueue(outbox, a, "put", 0, {})
      /\ content' = [content EXCEPT ![a] = [content[a] EXCEPT !.ver = v]]
      /\ UNCHANGED <<edit, astray, wire, received, work>>
  BY Zenon DEF EditProfile
<1>3. Outgrows(outbox, outbox')
  BY <1>1, <1>2, ChangeTypes, EnqueueGrows
<1>4. content' \in [Aggregates -> Contents]
  <2>1. [content[a] EXCEPT !.ver = v] \in Contents
    <3>1. v \in Nat
      BY <1>1
    <3> HIDE DEF v
    <3> QED BY <1>1, <3>1 DEF Contents
  <2> HIDE DEF v
  <2> QED BY <1>1, <1>2, <2>1, ChangeTypes
<1> QED BY <1>2, <1>3, <1>4, ChangeTypes DEF Announces

\* A message.
LEMMA SendMessageDoes ==
  ASSUME TypeOK, NEW a \in Messages, SendMessage(a)
  PROVE  Announces
<1>1. a \in Aggregates /\ content[a] \in Contents
  BY ChangeTypes
<1>2. /\ outbox' = Enqueue(outbox, a, "msg", 0, {})
      /\ content' = [content EXCEPT ![a] = [content[a] EXCEPT !.shown = TRUE]]
      /\ UNCHANGED <<edit, astray, wire, received, work>>
  BY Zenon DEF SendMessage
<1>3. Outgrows(outbox, outbox')
  BY <1>1, <1>2, ChangeTypes, EnqueueGrows
<1>4. content' \in [Aggregates -> Contents]
  <2>1. [content[a] EXCEPT !.shown = TRUE] \in Contents
    BY <1>1 DEF Contents
  <2> QED BY <1>1, <1>2, <2>1, ChangeTypes
<1> QED BY <1>2, <1>3, <1>4, ChangeTypes DEF Announces

\* An editor reads.
LEMMA ReadListingDoes ==
  ASSUME TypeOK, NEW e \in Editors, NEW a \in Listings, ReadListing(e, a)
  PROVE  Announces
<1>1. a \in Aggregates /\ content[a].rev \in Nat
  BY ChangeTypes DEF Aggregates
<1>2. /\ edit' = [edit EXCEPT ![e] = [listing |-> a, seen |-> content[a].rev]]
      /\ UNCHANGED <<content, outbox, astray, wire, received, work>>
  BY DEF ReadListing
<1>3. edit' \in [Editors -> [listing : Listings \cup {NoListing}, seen : Nat]]
  BY <1>1, <1>2, ChangeTypes
<1> QED BY <1>2, <1>3, ChangeTypes, OutgrowsItself DEF Announces

-----------------------------------------------------------------------------
\* The invariant is kept

\* A row keeps its created_at or gets one above all of its aggregate; a message
\* has none.
StampMoves(i) ==
  \/ outbox'[i].stamp = outbox[i].stamp
  \/ /\ outbox[i].kind # "msg"
     /\ \A j \in Ids : outbox[j].agg = outbox[i].agg => outbox[j].stamp < outbox'[i].stamp

\* What growing does to the rows, row by row.
LEMMA GrownRows ==
  ASSUME TypeOK, Outgrows(outbox, outbox')
  PROVE  /\ Ids \subseteq Ids'
         /\ \A i \in Ids :
              /\ outbox'[i].agg = outbox[i].agg /\ outbox'[i].kind = outbox[i].kind
              /\ outbox'[i].deps = outbox[i].deps /\ outbox'[i].attempts = outbox[i].attempts
              /\ outbox'[i].token = outbox[i].token /\ outbox'[i].stamp = outbox[i].stamp
              /\ outbox'[i].accepted = outbox[i].accepted
              /\ \/ outbox'[i].state = outbox[i].state
                 \/ outbox[i].state \in LiveStates /\ outbox'[i].state = "superseded"
         /\ \A i \in Ids' \ Ids : Fresh(outbox', i)
<1>1. /\ outbox \in Seq(Row) /\ Len(outbox) \in Nat /\ DOMAIN outbox = 1..Len(outbox)
      /\ outbox' \in Seq(Row) /\ Len(outbox') \in Nat /\ DOMAIN outbox' = 1..Len(outbox')
      /\ Len(outbox) <= Len(outbox')
  BY LenProperties DEF Outgrows, TypeOK
<1>2. Ids \subseteq Ids'
  BY <1>1 DEF Ids
<1>3. \A i \in Ids : outbox[i] \in Row /\ GivesWay(outbox[i], outbox'[i])
  BY TableRows DEF Outgrows, Ids
<1>4. \A i \in Ids' \ Ids : Fresh(outbox', i)
  BY DEF Outgrows, Ids
<1> QED BY <1>2, <1>3, <1>4, WayGiven

\* A change keeps the rows in order.
LEMMA AnnouncingKeepsRows ==
  ASSUME TypeOK, RowsSound, StampsBounded, Announces
  PROVE  RowsSound' /\ StampsBounded'
<1> USE GrownRows DEF Announces
<1>1. RowsSound'
  <2> SUFFICES ASSUME NEW i \in Ids'
               PROVE  /\ outbox'[i].deps \subseteq Ids'
                      /\ outbox'[i].kind = "msg" => outbox'[i].stamp = 0
                      /\ outbox'[i].state = "claimed" => outbox'[i].attempts < MaxAttempts
    BY DEF RowsSound
  <2>1. CASE i \in Ids
    BY <2>1 DEF RowsSound
  <2>2. CASE i \notin Ids
    BY <2>2 DEF Fresh, Ids
  <2> QED BY <2>1, <2>2
<1>2. StampsBounded'
  <2> SUFFICES ASSUME NEW i \in Ids'
               PROVE  \E k \in Ids' :
                        /\ outbox'[k].agg = outbox'[i].agg
                        /\ \A j \in Ids' : outbox'[j].agg = outbox'[i].agg =>
                             outbox'[j].stamp <= outbox'[k].stamp
    BY DEF StampsBounded
  <2>1. \A j \in Ids : outbox[j].stamp \in Nat
    BY TableRows, RowFields
  <2>2. \A j \in Ids' \ Ids : outbox'[j].stamp = 0
    BY DEF Fresh
  <2>3. CASE \E j \in Ids : outbox[j].agg = outbox'[i].agg
    <3>1. PICK k \in Ids :
            /\ outbox[k].agg = outbox'[i].agg
            /\ \A j \in Ids : outbox[j].agg = outbox'[i].agg =>
                 outbox[j].stamp <= outbox[k].stamp
      BY <2>3 DEF StampsBounded
    <3>2. ASSUME NEW j \in Ids', outbox'[j].agg = outbox'[i].agg
          PROVE  outbox'[j].stamp <= outbox'[k].stamp
      <4>1. CASE j \in Ids
        BY <3>1, <3>2, <4>1
      <4>2. CASE j \notin Ids
        BY <2>1, <2>2, <3>1, <4>2
      <4> QED BY <4>1, <4>2
    <3> QED BY <3>1, <3>2
  <2>4. CASE ~ \E j \in Ids : outbox[j].agg = outbox'[i].agg
    <3>1. \A j \in Ids' : outbox'[j].agg = outbox'[i].agg => j \notin Ids
      BY <2>4
    <3> QED BY <2>2, <3>1
  <2> QED BY <2>3, <2>4
<1> QED BY <1>1, <1>2

\* A change keeps the events, the claims and the evidence in order.
LEMMA AnnouncingKeepsTheRest ==
  ASSUME TypeOK, RowsSound, WireSound, ClaimsSound, ClaimsDiffer, EvidenceSound, Announces
  PROVE  WireSound' /\ ClaimsSound' /\ ClaimsDiffer' /\ EvidenceSound'
<1> USE GrownRows DEF Announces
<1>0. "published" \notin LiveStates
  BY DEF LiveStates
<1>1. WireSound'
  <2> SUFFICES ASSUME NEW x \in wire
               PROVE  /\ x.id \in Ids'
                      /\ x.agg = outbox'[x.id].agg /\ x.kind = outbox'[x.id].kind
                      /\ \A d \in outbox'[x.id].deps : outbox'[d].state = "published"
                      /\ \E k \in Ids' : outbox'[k].agg = x.agg /\ x.stamp <= outbox'[k].stamp
    BY DEF WireSound
  <2>1. /\ x.id \in Ids
        /\ x.agg = outbox[x.id].agg /\ x.kind = outbox[x.id].kind
        /\ outbox[x.id].deps \subseteq Ids
        /\ \A d \in outbox[x.id].deps : outbox[d].state = "published"
        /\ \E k \in Ids : outbox[k].agg = x.agg /\ x.stamp <= outbox[k].stamp
    BY DEF WireSound, RowsSound
  <2> QED BY <1>0, <2>1
<1>2. ClaimsSound'
  BY DEF ClaimsSound
<1>3. ClaimsDiffer'
  BY DEF ClaimsDiffer
<1>4. EvidenceSound'
  <2> SUFFICES ASSUME NEW i \in Ids'
               PROVE  /\ \A r \in outbox'[i].accepted :
                           \E x \in received : x.id = i /\ x.relay = r
                      /\ outbox'[i].state = "published" =>
                           (Copies(i))' \subseteq CopiesOf(outbox'[i].accepted)
    BY DEF EvidenceSound
  <2>1. CASE i \in Ids
    BY <1>0, <2>1 DEF EvidenceSound, Copies
  <2>2. CASE i \notin Ids
    BY <2>2 DEF Fresh
  <2> QED BY <2>1, <2>2
<1> QED BY <1>1, <1>2, <1>3, <1>4

\* Writing a row keeps the rows in order.
LEMMA RewritingKeepsRows ==
  ASSUME TypeOK, RowsSound, StampsBounded, NEW i \in Ids, Rewrites(i), StampMoves(i)
  PROVE  RowsSound' /\ StampsBounded'
<1>0. Ids' = Ids
  BY DEF Rewrites, Writes, Ids
<1>1. RowsSound'
  <2> SUFFICES ASSUME NEW j \in Ids
               PROVE  /\ outbox'[j].deps \subseteq Ids
                      /\ outbox'[j].kind = "msg" => outbox'[j].stamp = 0
                      /\ outbox'[j].state = "claimed" => outbox'[j].attempts < MaxAttempts
    BY <1>0 DEF RowsSound
  <2> QED BY DEF RowsSound, Rewrites, Writes, StampMoves
<1>2. StampsBounded'
  <2> SUFFICES ASSUME NEW n \in Ids
               PROVE  \E k \in Ids :
                        /\ outbox'[k].agg = outbox'[n].agg
                        /\ \A j \in Ids : outbox'[j].agg = outbox'[n].agg =>
                             outbox'[j].stamp <= outbox'[k].stamp
    BY <1>0 DEF StampsBounded
  <2>1. \A j \in Ids : outbox[j].stamp \in Nat
    BY TableRows, RowFields
  <2>2. \A j \in Ids : outbox'[j].agg = outbox[j].agg
    BY DEF Rewrites, Writes
  <2>3. \A j \in Ids \ {i} : outbox'[j].stamp = outbox[j].stamp
    BY DEF Rewrites, Writes
  <2>4. PICK k \in Ids :
          /\ outbox[k].agg = outbox[n].agg
          /\ \A j \in Ids : outbox[j].agg = outbox[n].agg => outbox[j].stamp <= outbox[k].stamp
    BY DEF StampsBounded
  <2>5. CASE outbox'[i].stamp = outbox[i].stamp
    BY <2>2, <2>3, <2>4, <2>5
  <2>6. CASE outbox'[i].stamp # outbox[i].stamp /\ outbox[i].agg = outbox[n].agg
    <3>1. \A j \in Ids : outbox[j].agg = outbox[n].agg => outbox[j].stamp < outbox'[i].stamp
      BY <2>6 DEF StampMoves
    <3>2. outbox'[i].stamp \in Nat
      <4>1. outbox' \in Seq(Row) /\ i \in DOMAIN outbox'
        BY <1>0 DEF Rewrites, Writes
      <4>2. outbox'[i] \in Row
        BY <4>1, ElementOfSeq, LenProperties
      <4> QED BY <4>2, RowFields
    <3>3. \A j \in Ids : outbox'[j].agg = outbox'[n].agg => outbox'[j].stamp <= outbox'[i].stamp
      BY <2>1, <2>2, <2>3, <3>1, <3>2
    <3> QED BY <2>2, <2>6, <3>3
  <2>7. CASE outbox[i].agg # outbox[n].agg
    BY <2>2, <2>3, <2>4, <2>7
  <2> QED BY <2>5, <2>6, <2>7
<1> QED BY <1>1, <1>2

\* Later created_at values only push the bound up.
LEMMA StampsRise ==
  ASSUME TypeOK, NEW i \in Ids, Rewrites(i), RowsSound, StampMoves(i)
  PROVE  \A j \in Ids : outbox[j].stamp <= outbox'[j].stamp
<1>1. \A j \in Ids : outbox[j].stamp \in Nat
  BY TableRows, RowFields
<1>2. outbox'[i].stamp \in Nat
  <2>1. outbox' \in Seq(Row) /\ i \in DOMAIN outbox'
    BY DEF Rewrites, Writes
  <2>2. outbox'[i] \in Row
    BY <2>1, ElementOfSeq, LenProperties
  <2> QED BY <2>2, RowFields
<1> QED BY <1>1, <1>2 DEF Rewrites, Writes, StampMoves

\* Writing a row keeps every event already sent in order.
LEMMA RewritingKeepsEvents ==
  ASSUME TypeOK, RowsSound, WireSound, NEW i \in Ids, Rewrites(i), StampMoves(i), NEW x \in wire
  PROVE  /\ x.id \in Ids'
         /\ x.agg = outbox'[x.id].agg /\ x.kind = outbox'[x.id].kind
         /\ \A d \in outbox'[x.id].deps : outbox'[d].state = "published"
         /\ \E k \in Ids' : outbox'[k].agg = x.agg /\ x.stamp <= outbox'[k].stamp
<1>0. Ids' = Ids
  BY DEF Rewrites, Writes, Ids
<1>1. /\ x.id \in Ids
      /\ x.agg = outbox[x.id].agg /\ x.kind = outbox[x.id].kind
      /\ outbox[x.id].deps \subseteq Ids
      /\ \A d \in outbox[x.id].deps : outbox[d].state = "published"
  BY DEF WireSound, RowsSound
<1>2. PICK k \in Ids : outbox[k].agg = x.agg /\ x.stamp <= outbox[k].stamp
  BY DEF WireSound
<1>3. outbox[k].stamp <= outbox'[k].stamp
  BY StampsRise
<1>4. x.stamp \in Nat /\ outbox[k].stamp \in Nat /\ outbox'[k].stamp \in Nat
  <2>1. outbox' \in Seq(Row) /\ k \in DOMAIN outbox'
    BY DEF Rewrites, Writes
  <2>2. outbox'[k] \in Row /\ outbox[k] \in Row
    BY <2>1, ElementOfSeq, LenProperties, TableRows
  <2> QED BY <2>2, RowFields DEF WireSound, Events
<1>5. x.stamp <= outbox'[k].stamp /\ outbox'[k].agg = x.agg
  BY <1>2, <1>3, <1>4 DEF Rewrites, Writes
<1>6. \A d \in outbox[x.id].deps : outbox'[d].state = "published"
  BY <1>1 DEF Rewrites, Writes
<1>7. /\ outbox'[x.id].agg = outbox[x.id].agg /\ outbox'[x.id].kind = outbox[x.id].kind
      /\ outbox'[x.id].deps = outbox[x.id].deps
  BY <1>1 DEF Rewrites, Writes
<1> QED BY <1>0, <1>1, <1>5, <1>6, <1>7

\* Writing a row while no claim is given keeps the claims in order.
LEMMA RewritingKeepsClaims ==
  ASSUME TypeOK, ClaimsSound, ClaimsDiffer, NEW i \in Ids, Rewrites(i),
         WorkGoesOn \/ UNCHANGED work
  PROVE  ClaimsSound' /\ ClaimsDiffer'
<1>0. Ids' = Ids
  BY DEF Rewrites, Writes, Ids
<1>1. \A w \in Workers : work'[w] # NoWork =>
        work[w] # NoWork /\ work'[w].id = work[w].id /\ work'[w].token = work[w].token
  BY DEF WorkGoesOn
<1>2. ClaimsDiffer'
  BY <1>1 DEF ClaimsDiffer
<1>3. ASSUME NEW w \in Workers, work'[w] # NoWork
      PROVE  work'[w].id \in Ids /\ work'[w].token <= outbox'[work'[w].id].token
  <2> DEFINE n == work[w].id
  <2>1. /\ n \in Ids /\ work[w].token <= outbox[n].token
        /\ work'[w].id = n /\ work'[w].token = work[w].token /\ work[w].token \in Nat
    BY <1>1, <1>3 DEF ClaimsSound, TypeOK
  <2> HIDE DEF n
  <2>2. outbox[n].token <= outbox'[n].token
    <3>1. outbox[n].token \in Nat
      BY <2>1, TableRows, RowFields
    <3> QED BY <2>1, <3>1 DEF Rewrites, Writes
  <2>3. outbox[n].token \in Nat /\ outbox'[n].token \in Nat
    <3>1. outbox' \in Seq(Row) /\ n \in DOMAIN outbox'
      BY <2>1 DEF Rewrites, Writes
    <3>2. outbox'[n] \in Row /\ outbox[n] \in Row
      BY <2>1, <3>1, ElementOfSeq, LenProperties, TableRows
    <3> QED BY <3>2, RowFields
  <2> QED BY <2>1, <2>2, <2>3
<1>4. ClaimsSound'
  BY <1>0, <1>3 DEF ClaimsSound
<1> QED BY <1>2, <1>4

\* A claim is given a token that no worker has.
LEMMA ClaimingKeepsClaims ==
  ASSUME TypeOK, ClaimsSound, ClaimsDiffer, NEW w \in Workers, NEW i \in Ids, Claim(w, i)
  PROVE  ClaimsSound' /\ ClaimsDiffer'
<1>0. /\ Silent(i) /\ outbox'[i].token = outbox[i].token + 1
      /\ work'[w].id = i /\ work'[w].token = outbox[i].token + 1
      /\ \A v \in Workers \ {w} : work'[v] = work[v]
  BY ClaimDoes
<1>1. Ids' = Ids /\ \A j \in Ids \ {i} : outbox'[j] = outbox[j]
  BY <1>0 DEF Silent, Rewrites, Writes, Ids
<1>2. \A j \in Ids : outbox[j].token \in Nat
  BY TableRows, RowFields
<1>3. \A v \in Workers \ {w} : work'[v] # NoWork =>
        work'[v].id \in Ids /\ work'[v].token \in Nat
        /\ work'[v].token <= outbox[work'[v].id].token
  BY <1>0 DEF ClaimsSound, TypeOK
<1>4. ClaimsSound'
  <2> SUFFICES ASSUME NEW v \in Workers, work'[v] # NoWork
               PROVE  work'[v].id \in Ids /\ work'[v].token <= outbox'[work'[v].id].token
    BY <1>1 DEF ClaimsSound
  <2>1. CASE v = w
    BY <1>0, <1>2, <2>1
  <2>2. CASE v # w
    BY <1>0, <1>1, <1>2, <1>3, <2>2
  <2> QED BY <2>1, <2>2
<1>5. ClaimsDiffer'
  <2> SUFFICES ASSUME NEW u \in Workers, NEW v \in Workers, work'[u] # NoWork,
                      work'[v] # NoWork, work'[u].id = work'[v].id,
                      work'[u].token = work'[v].token
               PROVE  u = v
    BY DEF ClaimsDiffer
  <2>1. CASE u # w /\ v # w
    BY <1>0, <2>1 DEF ClaimsDiffer
  <2>2. CASE u = w /\ v # w
    BY <1>0, <1>2, <1>3, <2>2
  <2>3. CASE u # w /\ v = w
    BY <1>0, <1>2, <1>3, <2>3
  <2> QED BY <2>1, <2>2, <2>3
<1> QED BY <1>4, <1>5

\* A step that neither signs nor publishes, on a row.
LEMMA SilentKeeps ==
  ASSUME IInv, NEW i \in Ids, Silent(i), UNCHANGED <<wire, received>>
  PROVE  RowsSound' /\ StampsBounded' /\ WireSound' /\ EvidenceSound'
<1>0. Rewrites(i) /\ StampMoves(i) /\ Ids' = Ids
  BY DEF Silent, StampMoves, Rewrites, Writes, Ids
<1>1. RowsSound' /\ StampsBounded'
  BY <1>0, RewritingKeepsRows DEF IInv
<1>2. WireSound'
  BY <1>0, RewritingKeepsEvents DEF IInv, WireSound
<1>3. ASSUME NEW j \in Ids
      PROVE  /\ \A r \in outbox'[j].accepted :
                  \E x \in received' : x.id = j /\ x.relay = r
             /\ outbox'[j].state = "published" =>
                  (Copies(j))' \subseteq CopiesOf(outbox'[j].accepted)
  <2>1. /\ outbox'[j].accepted = outbox[j].accepted /\ outbox'[j].kind = outbox[j].kind
        /\ outbox'[j].state = "published" =>
             outbox[j].state = "published" \/ Copies(j) \subseteq CopiesOf(outbox[j].accepted)
    BY DEF Silent, Rewrites, Writes
  <2> QED BY <2>1 DEF IInv, EvidenceSound, Copies
<1>4. EvidenceSound'
  BY <1>0, <1>3 DEF EvidenceSound
<1> QED BY <1>1, <1>2, <1>4

\* Sending keeps the rows, the events, the claims and the evidence in order.
LEMMA SendKeeps ==
  ASSUME IInv, NEW w \in Workers, NEW targets \in SUBSET Relays, Send(w, targets)
  PROVE  /\ RowsSound' /\ StampsBounded' /\ WireSound'
         /\ ClaimsSound' /\ ClaimsDiffer' /\ EvidenceSound'
<1> DEFINE i == work[w].id
<1>1. /\ Rewrites(i) /\ WorkGoesOn
      /\ outbox'[i].accepted = outbox[i].accepted
      /\ outbox'[i].state = "claimed" /\ outbox[i].state = "claimed"
      /\ DepsPublished(i)
      /\ wire' = wire \cup {Event(w, relay, outbox'[i].stamp) : relay \in targets}
      /\ IF outbox[i].kind = "msg" THEN outbox'[i].stamp = 0
         ELSE \A j \in Ids : outbox[j].agg = outbox[i].agg => outbox[j].stamp < outbox'[i].stamp
  BY SendDoes DEF IInv
<1>2. received' = received /\ content' = content
  BY DEF Send
<1>3. i \in Ids /\ Ids' = Ids
  BY <1>1 DEF Rewrites, Writes, Ids
<1>4. StampMoves(i)
  BY <1>1, <1>3 DEF StampMoves, IInv, RowsSound
<1>5. RowsSound' /\ StampsBounded'
  BY <1>1, <1>3, <1>4, RewritingKeepsRows DEF IInv
<1>6. ClaimsSound' /\ ClaimsDiffer'
  BY <1>1, <1>3, RewritingKeepsClaims DEF IInv
<1>7. WireSound'
  <2>1. \A x \in wire :
          /\ x.id \in Ids'
          /\ x.agg = outbox'[x.id].agg /\ x.kind = outbox'[x.id].kind
          /\ \A d \in outbox'[x.id].deps : outbox'[d].state = "published"
          /\ \E k \in Ids' : outbox'[k].agg = x.agg /\ x.stamp <= outbox'[k].stamp
    BY <1>1, <1>3, <1>4, RewritingKeepsEvents DEF IInv
  <2>2. ASSUME NEW relay \in targets
        PROVE  LET x == Event(w, relay, outbox'[i].stamp) IN
                 /\ x \in Events
                 /\ x.id \in Ids'
                 /\ x.agg = outbox'[x.id].agg /\ x.kind = outbox'[x.id].kind
                 /\ \A d \in outbox'[x.id].deps : outbox'[d].state = "published"
                 /\ \E k \in Ids' : outbox'[k].agg = x.agg /\ x.stamp <= outbox'[k].stamp
    <3> DEFINE x == Event(w, relay, outbox'[i].stamp)
    <3>1. outbox[i] \in Row /\ outbox'[i] \in Row
      <4>1. outbox' \in Seq(Row) /\ i \in DOMAIN outbox'
        BY <1>1, <1>3 DEF Rewrites, Writes
      <4> QED BY <1>3, <4>1, ElementOfSeq, LenProperties, TableRows DEF IInv
    <3>2. /\ outbox[i].agg \in Aggregates /\ outbox[i].kind \in {"put", "del", "msg"}
          /\ outbox'[i].stamp \in Nat
      BY <3>1, RowFields
    <3>3. /\ i \in Nat /\ work[w].token \in Nat
          /\ content[outbox[i].agg].ver \in Nat
      BY <3>2 DEF IInv, TypeOK
    <3>4. relay \in Relays
      OBVIOUS
    <3>5. x = [id |-> i, token |-> work[w].token, relay |-> relay, agg |-> outbox[i].agg,
               kind |-> outbox[i].kind, ver |-> content[outbox[i].agg].ver,
               stamp |-> outbox'[i].stamp]
      BY DEF Event
    <3> HIDE DEF i, x
    <3>6. /\ x \in Events /\ x.id = i /\ x.agg = outbox[i].agg /\ x.kind = outbox[i].kind
          /\ x.stamp = outbox'[i].stamp
      BY <3>2, <3>3, <3>4, <3>5 DEF Events
    <3>7. /\ outbox'[i].agg = outbox[i].agg /\ outbox'[i].kind = outbox[i].kind
          /\ outbox'[i].deps = outbox[i].deps
      BY <1>1 DEF Rewrites, Writes
    <3>8. \A d \in outbox[i].deps : outbox'[d].state = "published"
      <4>1. outbox[i].deps \subseteq Ids
        BY <1>3 DEF IInv, RowsSound
      <4> QED BY <1>1, <4>1 DEF DepsPublished, Rewrites, Writes
    <3>9. \E k \in Ids' : outbox'[k].agg = x.agg /\ x.stamp <= outbox'[k].stamp
      BY <1>3, <3>2, <3>6, <3>7
    <3> QED BY <1>3, <3>6, <3>7, <3>8, <3>9 DEF x
  <2>3. wire \subseteq Events
    BY DEF IInv, WireSound
  <2>4. \A x \in wire' :
          x \in wire \/ \E relay \in targets : x = Event(w, relay, outbox'[i].stamp)
    BY <1>1
  <2> QED BY <2>1, <2>2, <2>3, <2>4 DEF WireSound
<1>8. EvidenceSound'
  <2>1. ASSUME NEW j \in Ids
        PROVE  /\ outbox'[j].accepted = outbox[j].accepted /\ outbox'[j].kind = outbox[j].kind
               /\ outbox'[j].state = outbox[j].state
    BY <1>1 DEF Rewrites, Writes
  <2> QED BY <1>2, <1>3, <2>1 DEF IInv, EvidenceSound, Copies
<1> QED BY <1>5, <1>6, <1>7, <1>8

\* The answers to a send keep them in order.
LEMMA FinishKeeps ==
  ASSUME IInv, NEW w \in Workers, NEW oks \in SUBSET Answerable(w), Finish(w, oks)
  PROVE  /\ RowsSound' /\ StampsBounded' /\ WireSound'
         /\ ClaimsSound' /\ ClaimsDiffer' /\ EvidenceSound'
<1> DEFINE i == work[w].id
<1>1. /\ Rewrites(i) /\ WorkGoesOn
      /\ outbox'[i].accepted = outbox[i].accepted \cup oks
      /\ outbox'[i].stamp = outbox[i].stamp
      /\ outbox'[i].state = "published" => Copies(i) \subseteq CopiesOf(outbox'[i].accepted)
  BY FinishDoes DEF IInv
<1>2. UNCHANGED <<wire, received>>
  BY DEF Finish
<1>3. i \in Ids /\ Ids' = Ids /\ StampMoves(i)
  BY <1>1 DEF Rewrites, Writes, Ids, StampMoves
<1>4. RowsSound' /\ StampsBounded'
  BY <1>1, <1>3, RewritingKeepsRows DEF IInv
<1>5. ClaimsSound' /\ ClaimsDiffer'
  BY <1>1, <1>3, RewritingKeepsClaims DEF IInv
<1>6. WireSound'
  BY <1>1, <1>2, <1>3, RewritingKeepsEvents DEF IInv, WireSound
<1>7. ASSUME NEW j \in Ids
      PROVE  /\ \A r \in outbox'[j].accepted :
                  \E x \in received : x.id = j /\ x.relay = r
             /\ outbox'[j].state = "published" =>
                  (Copies(j))' \subseteq CopiesOf(outbox'[j].accepted)
  <2>1. outbox'[j].kind = outbox[j].kind /\ (Copies(j))' = Copies(j)
    BY <1>1 DEF Rewrites, Writes, Copies
  <2>2. CASE j = i
    <3>1. \A r \in oks : \E x \in received : x.id = i /\ x.relay = r
      BY DEF Answerable
    <3> QED BY <1>1, <1>3, <2>1, <2>2, <3>1 DEF IInv, EvidenceSound
  <2>3. CASE j # i
    <3>1. outbox'[j] = outbox[j]
      BY <1>1, <2>3 DEF Rewrites, Writes
    <3> QED BY <2>1, <3>1 DEF IInv, EvidenceSound
  <2> QED BY <2>2, <2>3
<1>8. EvidenceSound'
  BY <1>2, <1>3, <1>7 DEF EvidenceSound
<1> QED BY <1>4, <1>5, <1>6, <1>8

\* A step that leaves the table and the events alone.
LEMMA QuietKeeps ==
  ASSUME IInv, UNCHANGED <<outbox, wire>>, received \subseteq received', WorkGoesOn \/ UNCHANGED work
  PROVE  /\ RowsSound' /\ StampsBounded' /\ WireSound'
         /\ ClaimsSound' /\ ClaimsDiffer' /\ EvidenceSound'
<1>0. Ids' = Ids
  BY DEF Ids
<1>1. RowsSound' /\ StampsBounded'
  BY <1>0 DEF IInv, RowsSound, StampsBounded
<1>2. WireSound'
  BY <1>0 DEF IInv, WireSound
<1>3. \A w \in Workers : work'[w] # NoWork =>
        work[w] # NoWork /\ work'[w].id = work[w].id /\ work'[w].token = work[w].token
  BY DEF WorkGoesOn
<1>4. ClaimsSound' /\ ClaimsDiffer'
  BY <1>0, <1>3 DEF IInv, ClaimsSound, ClaimsDiffer
<1>5. EvidenceSound'
  <2> SUFFICES ASSUME NEW i \in Ids
               PROVE  /\ \A r \in outbox[i].accepted :
                           \E x \in received' : x.id = i /\ x.relay = r
                      /\ outbox[i].state = "published" =>
                           Copies(i) \subseteq CopiesOf(outbox[i].accepted)
    BY <1>0 DEF EvidenceSound, Copies
  <2> QED BY DEF IInv, EvidenceSound
<1> QED BY <1>1, <1>2, <1>4, <1>5

-----------------------------------------------------------------------------
\* The steps, by what they do

\* A change is announced.
Announcing ==
  \/ \E e \in Editors :
       \/ \E a \in Listings : ReadListing(e, a)
       \/ \E show \in BOOLEAN : PatchProduct(e, show)
       \/ AddImage(e) \/ PatchCollection(e)
  \/ \E p \in Products : WithdrawProduct(p) \/ MoveStock(p)
  \/ \E a \in Profiles : EditProfile(a)
  \/ \E a \in Messages : SendMessage(a)

\* A worker's publication is settled without anything sent.
Settling ==
  \E w \in Workers : Block(w) \/ Overtake(w) \/ NoTargets(w) \/ NoRoute(w) \/ Fault(w)

\* A worker is gone.
Leaving == \E w \in Workers : LoseClaim(w) \/ Crash(w)

\* Every step is one of these.
LEMMA Steps ==
  ASSUME Next
  PROVE  \/ Announcing \/ Settling \/ Leaving
         \/ \E w \in Workers, i \in Ids : Claim(w, i)
         \/ \E w \in Workers, targets \in SUBSET Relays : Send(w, targets)
         \/ \E w \in Workers : \E oks \in SUBSET Answerable(w) : Finish(w, oks)
         \/ \E event \in wire : Deliver(event)
         \/ \E i \in Ids : Recover(i) \/ SweepNoRoute(i)
         \/ \E i \in Ids : Retry(i)
BY Zenon DEF Next, Announcing, Settling, Leaving

\* Every change announces.
LEMMA AnnouncingDoes ==
  ASSUME TypeOK, Announcing
  PROVE  Announces
BY Zenon, ReadListingDoes, PatchProductDoes, AddImageDoes, PatchCollectionDoes,
   WithdrawProductDoes, MoveStockDoes, EditProfileDoes, SendMessageDoes DEF Announcing

\* The types after a step that is no change.
LEMMA RestTypes ==
  ASSUME TypeOK, outbox' \in Seq(Row), UNCHANGED <<content, edit, astray>>,
         received' \subseteq wire',
         work' \in [Workers -> [step : {"idle", "claimed", "sent"}, id : Nat, token : Nat]]
  PROVE  TypeOK'
BY DEF TypeOK

\* The initial states satisfy the invariant.
LEMMA InitIInv == Init => IInv
<1> SUFFICES ASSUME Init PROVE IInv
  OBVIOUS
<1> DEFINE first == DOMAIN Announced
<1>1. /\ first = 1..Len(Announced) /\ Len(Announced) \in Nat
      /\ \A n \in first : Announced[n] \in Listings
  BY OutboxAssumption, LenProperties, ElementOfSeq
<1>2. /\ outbox = [n \in first |-> Announcement(n)] /\ Ids = first
      /\ wire = {AnnouncedEvent(n, relay) : n \in first, relay \in PublicRelays} /\ received = wire
      /\ work = [w \in Workers |-> NoWork] /\ astray = [a \in Aggregates |-> {}]
      /\ edit = [e \in Editors |-> NoEdit]
  BY DEF Init, Ids
<1>3. ASSUME NEW n \in first
      PROVE  /\ Announcement(n) \in Row
             /\ Announcement(n).agg = Announced[n] /\ Announcement(n).kind = "put"
             /\ Announcement(n).state = "published" /\ Announcement(n).stamp = 1
             /\ Announcement(n).accepted = PublicRelays /\ Announcement(n).deps \subseteq first
  <2>1. 1 \in 0..MaxAttempts /\ Announced[n] \in Aggregates
    BY <1>1, OutboxAssumption DEF Aggregates
  <2>2. {m \in 1..n : Announced[n] \in Products /\ Announced[m] = Home[Announced[n]]}
          \subseteq first
    BY <1>1
  <2>3. first \subseteq Nat
    BY <1>1
  <2> DEFINE deps ==
        {m \in 1..n : Announced[n] \in Products /\ Announced[m] = Home[Announced[n]]}
  <2>4. Announcement(n) =
          [agg |-> Announced[n], kind |-> "put", rev |-> 1, state |-> "published",
           attempts |-> 1, token |-> 1, accepted |-> PublicRelays, stamp |-> 1,
           error |-> "none", deps |-> deps]
    BY DEF Announcement
  <2>5. deps \subseteq first /\ deps \in SUBSET Nat
    BY <2>2, <2>3
  <2>6. PublicRelays \subseteq Relays
    BY DEF PublicRelays
  <2> HIDE DEF deps
  <2> QED BY <2>1, <2>4, <2>5, <2>6 DEF Row, States
<1>4. ASSUME NEW n \in first, NEW r \in PublicRelays
      PROVE  /\ AnnouncedEvent(n, r) \in Events
             /\ AnnouncedEvent(n, r).id = n /\ AnnouncedEvent(n, r).relay = r
             /\ AnnouncedEvent(n, r).agg = Announced[n] /\ AnnouncedEvent(n, r).kind = "put"
             /\ AnnouncedEvent(n, r).stamp = 1
  BY <1>1 DEF AnnouncedEvent, Events, Aggregates, PublicRelays
<1>5. outbox \in Seq(Row)
  BY <1>1, <1>2, <1>3, RowSeq
<1>6. content \in [Aggregates -> [rev : Nat, ver : Nat, shown : BOOLEAN]]
  <2> DEFINE rev(a) == IF \E n \in first : Announced[n] = a THEN 1 ELSE 0
  <2>1. \A a : rev(a) \in Nat
    OBVIOUS
  <2>2. content = [a \in Aggregates |->
          [rev |-> rev(a), ver |-> rev(a), shown |-> rev(a) = 1 \/ a \in Profiles]]
    BY DEF Init
  <2> HIDE DEF rev
  <2> QED BY <2>1, <2>2
<1>7. TypeOK
  BY <1>2, <1>5, <1>6 DEF TypeOK, NoEdit, NoWork
<1>8. RowsSound /\ StampsBounded
  BY <1>2, <1>3 DEF RowsSound, StampsBounded
<1>9. WireSound
  <2>1. ASSUME NEW n \in first
        PROVE  /\ \A d \in outbox[n].deps : outbox[d].state = "published"
               /\ outbox[n].agg = Announced[n] /\ outbox[n].kind = "put" /\ outbox[n].stamp = 1
    BY <1>2, <1>3
  <2> QED BY <1>2, <1>4, <2>1 DEF WireSound
<1>10. ClaimsSound /\ ClaimsDiffer
  BY <1>2 DEF ClaimsSound, ClaimsDiffer
<1>11. EvidenceSound
  <2>1. ASSUME NEW n \in first
        PROVE  outbox[n].accepted = PublicRelays /\ Copies(n) = {"public"}
    BY <1>2, <1>3 DEF Copies
  <2>2. \A n \in first : \A r \in PublicRelays : \E x \in received : x.id = n /\ x.relay = r
    BY <1>2, <1>4
  <2>3. first # {} => "public" \in CopiesOf(PublicRelays)
    BY OutboxAssumption DEF CopiesOf, PublicRelays
  <2> SUFFICES ASSUME NEW n \in first
               PROVE  /\ \A r \in outbox[n].accepted : \E x \in received : x.id = n /\ x.relay = r
                      /\ Copies(n) \subseteq CopiesOf(outbox[n].accepted)
    BY <1>2 DEF EvidenceSound
  <2>4. outbox[n].accepted = PublicRelays /\ Copies(n) = {"public"}
    BY <2>1
  <2>5. "public" \in CopiesOf(PublicRelays)
    BY <2>3
  <2> HIDE DEF first
  <2> QED BY <2>2, <2>4, <2>5
<1> QED BY <1>7, <1>8, <1>9, <1>10, <1>11 DEF IInv

\* Every step keeps the invariant.
LEMMA StepIInv ==
  ASSUME IInv, [Next]_vars
  PROVE  IInv'
<1>1. CASE Announcing
  <2>1. Announces
    BY <1>1, AnnouncingDoes DEF IInv
  <2>2. TypeOK'
    BY <2>1 DEF IInv, TypeOK, Announces, Outgrows, Contents
  <2>3. RowsSound' /\ StampsBounded'
    BY <2>1, AnnouncingKeepsRows DEF IInv
  <2>4. WireSound' /\ ClaimsSound' /\ ClaimsDiffer' /\ EvidenceSound'
    BY <2>1, AnnouncingKeepsTheRest DEF IInv
  <2> QED BY <2>2, <2>3, <2>4 DEF IInv
<1>2. CASE Settling
  <2>1. PICK w \in Workers :
          Block(w) \/ Overtake(w) \/ NoTargets(w) \/ NoRoute(w) \/ Fault(w)
    BY <1>2 DEF Settling
  <2>2. /\ Silent(work[w].id) /\ WorkGoesOn
        /\ UNCHANGED <<content, edit, astray, wire, received>>
    BY <2>1, SettlesDo DEF IInv
  <2>3. work[w].id \in Ids /\ Rewrites(work[w].id) /\ outbox' \in Seq(Row)
    BY <2>2 DEF Silent, Rewrites, Writes
  <2>4. TypeOK'
    BY <2>2, <2>3, RestTypes DEF WorkGoesOn, IInv, TypeOK
  <2>5. RowsSound' /\ StampsBounded' /\ WireSound' /\ EvidenceSound'
    BY <2>2, <2>3, SilentKeeps
  <2>6. ClaimsSound' /\ ClaimsDiffer'
    BY <2>2, <2>3, RewritingKeepsClaims DEF IInv
  <2> QED BY <2>4, <2>5, <2>6 DEF IInv
<1>3. CASE Leaving
  <2>1. PICK w \in Workers : LoseClaim(w) \/ Crash(w)
    BY <1>3 DEF Leaving
  <2>2. /\ work' = [work EXCEPT ![w] = NoWork]
        /\ UNCHANGED <<content, edit, outbox, astray, wire, received>>
    BY <2>1 DEF LoseClaim, Crash
  <2>3. WorkGoesOn
    BY <2>2, LetGo DEF IInv
  <2>4. TypeOK'
    BY <2>2, <2>3, RestTypes DEF WorkGoesOn, IInv, TypeOK
  <2>5. /\ RowsSound' /\ StampsBounded' /\ WireSound'
        /\ ClaimsSound' /\ ClaimsDiffer' /\ EvidenceSound'
    BY <2>2, <2>3, QuietKeeps
  <2> QED BY <2>4, <2>5 DEF IInv
<1>4. CASE \E w \in Workers, i \in Ids : Claim(w, i)
  <2>1. PICK w \in Workers, i \in Ids : Claim(w, i)
    BY <1>4
  <2>2. /\ Silent(i)
        /\ work' \in [Workers -> [step : {"idle", "claimed", "sent"}, id : Nat, token : Nat]]
        /\ UNCHANGED <<content, edit, astray, wire, received>>
    BY <2>1, ClaimDoes DEF IInv, Claim
  <2>3. TypeOK'
    BY <2>2, RestTypes DEF Silent, Rewrites, Writes, IInv, TypeOK
  <2>4. RowsSound' /\ StampsBounded' /\ WireSound' /\ EvidenceSound'
    BY <2>2, SilentKeeps
  <2>5. ClaimsSound' /\ ClaimsDiffer'
    BY <2>1, ClaimingKeepsClaims DEF IInv
  <2> QED BY <2>3, <2>4, <2>5 DEF IInv
<1>5. CASE \E w \in Workers, targets \in SUBSET Relays : Send(w, targets)
  <2>1. PICK w \in Workers, targets \in SUBSET Relays : Send(w, targets)
    BY <1>5
  <2>2. Rewrites(work[w].id) /\ WorkGoesOn /\ wire \subseteq wire'
    BY <2>1, SendDoes DEF IInv
  <2>3. UNCHANGED <<content, edit, astray, received>>
    BY <2>1 DEF Send
  <2>4. TypeOK'
    BY <2>2, <2>3, RestTypes DEF Rewrites, Writes, WorkGoesOn, IInv, TypeOK
  <2>5. /\ RowsSound' /\ StampsBounded' /\ WireSound'
        /\ ClaimsSound' /\ ClaimsDiffer' /\ EvidenceSound'
    BY <2>1, SendKeeps
  <2> QED BY <2>4, <2>5 DEF IInv
<1>6. CASE \E w \in Workers : \E oks \in SUBSET Answerable(w) : Finish(w, oks)
  <2>0. PICK w \in Workers : \E oks \in SUBSET Answerable(w) : Finish(w, oks)
    BY <1>6
  <2>1. PICK oks \in SUBSET Answerable(w) : Finish(w, oks)
    BY <2>0
  <2>2. Rewrites(work[w].id) /\ WorkGoesOn
    BY <2>1, FinishDoes DEF IInv
  <2>3. UNCHANGED <<content, edit, astray, wire, received>>
    BY <2>1 DEF Finish
  <2>4. TypeOK'
    BY <2>2, <2>3, RestTypes DEF Rewrites, Writes, WorkGoesOn, IInv, TypeOK
  <2>5. /\ RowsSound' /\ StampsBounded' /\ WireSound'
        /\ ClaimsSound' /\ ClaimsDiffer' /\ EvidenceSound'
    BY <2>1, FinishKeeps
  <2> QED BY <2>4, <2>5 DEF IInv
<1>7. CASE \E event \in wire : Deliver(event)
  <2>1. PICK event \in wire : Deliver(event)
    BY <1>7
  <2>2. /\ received' = received \cup {event}
        /\ UNCHANGED <<content, edit, outbox, astray, wire, work>>
    BY <2>1 DEF Deliver
  <2>3. TypeOK'
    BY <2>2, RestTypes DEF IInv, TypeOK
  <2>4. /\ RowsSound' /\ StampsBounded' /\ WireSound'
        /\ ClaimsSound' /\ ClaimsDiffer' /\ EvidenceSound'
    BY <2>2, QuietKeeps
  <2> QED BY <2>3, <2>4 DEF IInv
<1>8. CASE \E i \in Ids : Recover(i) \/ SweepNoRoute(i)
  <2>1. PICK i \in Ids : Recover(i) \/ SweepNoRoute(i)
    BY <1>8
  <2>2. Silent(i) /\ UNCHANGED <<content, edit, astray, wire, received, work>>
    BY <2>1, RecoverDoes, SweepDoes DEF IInv, Recover, SweepNoRoute
  <2>3. Rewrites(i) /\ outbox' \in Seq(Row)
    BY <2>2 DEF Silent, Rewrites, Writes
  <2>4. TypeOK'
    BY <2>2, <2>3, RestTypes DEF IInv, TypeOK
  <2>5. RowsSound' /\ StampsBounded' /\ WireSound' /\ EvidenceSound'
    BY <2>2, SilentKeeps
  <2>6. ClaimsSound' /\ ClaimsDiffer'
    BY <2>2, <2>3, RewritingKeepsClaims DEF IInv
  <2> QED BY <2>4, <2>5, <2>6 DEF IInv
<1>9. CASE \E i \in Ids : Retry(i)
  <2>1. PICK i \in Ids : Retry(i)
    BY <1>9
  <2>2. Silent(i) /\ UNCHANGED <<content, edit, wire, received, work>>
    BY <2>1, RetryDoes DEF IInv, Retry
  <2>3. Rewrites(i) /\ outbox' \in Seq(Row)
    BY <2>2 DEF Silent, Rewrites, Writes
  <2>4. astray' \in [Aggregates -> SUBSET {"stale", "drafted", "retried"}]
    BY <2>1, TableRows, RowFields DEF Retry, IInv, TypeOK
  <2>5. TypeOK'
    BY <2>2, <2>3, <2>4 DEF IInv, TypeOK
  <2>6. RowsSound' /\ StampsBounded' /\ WireSound' /\ EvidenceSound'
    BY <2>2, SilentKeeps
  <2>7. ClaimsSound' /\ ClaimsDiffer'
    BY <2>2, <2>3, RewritingKeepsClaims DEF IInv
  <2> QED BY <2>5, <2>6, <2>7 DEF IInv
<1>10. CASE UNCHANGED vars
  <2>1. UNCHANGED <<content, edit, outbox, astray, wire, received, work>>
    BY <1>10 DEF vars
  <2>2. TypeOK'
    BY <2>1 DEF IInv, TypeOK
  <2>3. /\ RowsSound' /\ StampsBounded' /\ WireSound'
        /\ ClaimsSound' /\ ClaimsDiffer' /\ EvidenceSound'
    BY <2>1, QuietKeeps
  <2> QED BY <2>2, <2>3 DEF IInv
<1>11. CASE Next
  BY <1>1, <1>2, <1>3, <1>4, <1>5, <1>6, <1>7, <1>8, <1>9, <1>11, Steps, Zenon
<1> QED BY <1>10, <1>11

-----------------------------------------------------------------------------
\* Theorems

\* The invariant holds in every reachable state.
THEOREM Invariant == Spec => []IInv
BY InitIInv, StepIInv, PTL DEF Spec

\* The variables have their types, and no row counts past its attempts, whatever
\* workers, crashes, recoveries, sweeps and retries do to it.
THEOREM TypeCorrect == Spec => []TypeOK
<1>1. IInv => TypeOK
  BY DEF IInv
<1> QED BY <1>1, Invariant, PTL

\* Two workers never hold good claims of one intent: a row is claimed under a
\* token no earlier claim had (claim_batch, recover_stale_claims).
THEOREM ClaimsAreExclusive == Spec => []OneGoodClaim
<1>1. IInv => OneGoodClaim
  BY DEF IInv, ClaimsDiffer, OneGoodClaim, Mine
<1> QED BY <1>1, Invariant, PTL

\* A published intent has reached a relay in each of its copies
\* (publish_intent, _publish_order_msg).
THEOREM PublishedWasReceived == Spec => []PublishedIsDelivered
<1>1. IInv => PublishedIsDelivered
  <2> SUFFICES ASSUME IInv, NEW i \in Ids, outbox[i].state = "published",
                      NEW copy \in Copies(i)
               PROVE  \E x \in received : x.id = i /\ CopyOf[x.relay] = copy
    BY DEF PublishedIsDelivered
  <2>1. PICK r \in outbox[i].accepted : CopyOf[r] = copy
    BY DEF IInv, EvidenceSound, CopiesOf
  <2> QED BY <2>1 DEF IInv, EvidenceSound
<1> QED BY <1>1, Invariant, PTL

\* Whatever has been handed to the transport had its dependencies published
\* first, and they stay published (_deps_published).
THEOREM DependenciesWentFirst == Spec => []DependenciesFirst
<1>1. IInv => DependenciesFirst
  BY DEF IInv, WireSound, DependenciesFirst
<1> QED BY <1>1, Invariant, PTL

\* A row that has ended is not written by any step.
LEMMA EndedRowKept ==
  ASSUME IInv, Next, NEW i \in Ids, outbox[i].state \in {"published", "superseded"}
  PROVE  outbox'[i].state = outbox[i].state
<1>1. CASE Announcing
  <2>1. Announces
    BY <1>1, AnnouncingDoes DEF IInv
  <2>2. outbox[i].state \notin LiveStates
    BY DEF LiveStates
  <2> QED BY <2>1, <2>2, GrownRows DEF IInv, Announces
<1>2. ASSUME NEW n, Rewrites(n) PROVE outbox'[i].state = outbox[i].state
  BY <1>2 DEF Rewrites, Writes
<1>3. CASE Settling
  BY <1>2, <1>3, SettlesDo DEF IInv, Settling, Silent
<1>4. CASE Leaving
  BY <1>4 DEF Leaving, LoseClaim, Crash
<1>5. CASE \E w \in Workers, n \in Ids : Claim(w, n)
  BY <1>2, <1>5, ClaimDoes DEF IInv, Silent
<1>6. CASE \E w \in Workers, targets \in SUBSET Relays : Send(w, targets)
  BY <1>2, <1>6, SendDoes DEF IInv
<1>7. CASE \E w \in Workers : \E oks \in SUBSET Answerable(w) : Finish(w, oks)
  BY <1>2, <1>7, FinishDoes DEF IInv
<1>8. CASE \E event \in wire : Deliver(event)
  BY <1>8 DEF Deliver
<1>9. CASE \E n \in Ids : Recover(n) \/ SweepNoRoute(n)
  BY <1>2, <1>9, RecoverDoes, SweepDoes DEF IInv, Silent
<1>10. CASE \E n \in Ids : Retry(n)
  BY <1>2, <1>10, RetryDoes DEF IInv, Silent
<1> QED BY <1>1, <1>3, <1>4, <1>5, <1>6, <1>7, <1>8, <1>9, <1>10, Steps, Zenon

\* A published or superseded intent is over: no late worker, recovery, sweep or
\* retry reopens it (_cas_state, recover_stale_claims, retry_intent).
THEOREM EndedStaysEnded == Spec => EndedIsFinal
<1>1. IInv /\ [Next]_vars =>
        [\A i \in Ids : outbox[i].state \in {"published", "superseded"} =>
           outbox'[i].state = outbox[i].state]_vars
  BY EndedRowKept
<1> QED BY <1>1, Invariant, PTL DEF Spec, EndedIsFinal

\* Only a send puts events on the wire, and only for relays that have not accepted.
LEMMA SentIsMissing ==
  ASSUME IInv, Next, NEW x \in wire' \ wire
  PROVE  x.relay \notin outbox[x.id].accepted
<1>1. CASE Announcing
  BY <1>1, AnnouncingDoes DEF IInv, Announces
<1>2. CASE Settling
  BY <1>2, SettlesDo DEF IInv, Settling
<1>3. CASE \E w \in Workers, targets \in SUBSET Relays : Send(w, targets)
  <2>1. PICK w \in Workers, targets \in SUBSET Relays : Send(w, targets)
    BY <1>3
  <2>2. LET i == work[w].id IN
          /\ targets \subseteq Missing(i)
          /\ wire' = wire \cup {Event(w, relay, outbox'[i].stamp) : relay \in targets}
    BY <2>1, SendDoes DEF IInv
  <2>3. PICK relay \in targets : x = Event(w, relay, outbox'[work[w].id].stamp)
    BY <2>2
  <2>4. x.id = work[w].id /\ x.relay = relay
    BY <2>3, Zenon DEF Event
  <2> QED BY <2>2, <2>4, Zenon DEF Missing
<1>4. CASE ~ Announcing /\ ~ Settling
        /\ ~ \E w \in Workers, targets \in SUBSET Relays : Send(w, targets)
  BY <1>4, Steps DEF Leaving, LoseClaim, Crash, Claim, Finish, Deliver, Recover,
     SweepNoRoute, Retry
<1> QED BY <1>1, <1>2, <1>3, <1>4

\* A relay that has accepted its copy never gets it again, however often the
\* intent is taken over, retried or sent for its other copy (_accepted_targets).
THEOREM OnlyMissingIsSent == Spec => AcceptedIsNotResent
<1>1. IInv /\ [Next]_vars =>
        [\A x \in wire' \ wire : x.relay \notin outbox[x.id].accepted]_vars
  BY SentIsMissing
<1> QED BY <1>1, Invariant, PTL DEF Spec, AcceptedIsNotResent

-----------------------------------------------------------------------------
\* A listing's intents and events follow its revisions

\* The rows of a are numbered by its revisions, in order; what is live is about
\* the current one, which was not superseded and says what is to be said.
RowsCurrent(a) ==
  \A i \in Ids : outbox[i].agg = a =>
    /\ outbox[i].rev <= content[a].rev
    /\ outbox[i].state \in LiveStates => outbox[i].rev = content[a].rev
    /\ outbox[i].rev = content[a].rev =>
         /\ outbox[i].state # "superseded"
         /\ outbox[i].kind = (IF content[a].shown THEN "put" ELSE "del")
    /\ \A j \in Ids : outbox[j].agg = a /\ i < j => outbox[i].rev < outbox[j].rev

\* If anything was said about a, the current revision was announced.
CurrentAnnounced(a) ==
  (\E i \in Ids : outbox[i].agg = a) =>
    \E i \in Ids : outbox[i].agg = a /\ outbox[i].rev = content[a].rev

\* The events of the current revision carry what a says now, and those of a
\* later intent have a later created_at.
EventsCurrent(a) ==
  \A x \in wire : x.agg = a =>
    /\ outbox[x.id].rev = content[a].rev /\ x.kind = "put" => x.ver = content[a].ver
    /\ \A y \in wire : y.agg = a /\ x.id < y.id => x.stamp < y.stamp

Current(a) == RowsCurrent(a) /\ CurrentAnnounced(a) /\ EventsCurrent(a)

\* It holds of every listing no known exception has come between.
CurrentInv == \A a \in Listings : astray[a] = {} => Current(a)

-----------------------------------------------------------------------------
\* What a change does to the rows of one aggregate

\* Nothing has happened to the rows of a.
SameRows(q, e, a) ==
  /\ \A i \in DOMAIN q : q[i].agg = a => e[i] = q[i]
  /\ \A i \in DOMAIN e \ DOMAIN q : e[i].agg # a

\* One row was added for a, and its older rows are not live.
NewRow(q, e, a, kind, rev) ==
  /\ \E k \in DOMAIN e \ DOMAIN q :
       /\ e[k].agg = a /\ e[k].kind = kind /\ e[k].rev = rev /\ e[k].state = "pending"
       /\ \A j \in DOMAIN e \ DOMAIN q : e[j].agg = a => j = k
  /\ \A i \in DOMAIN q : q[i].agg = a => e[i].state \notin LiveStates

\* Enqueueing for another aggregate leaves the rows of a alone.
LEMMA EnqueueElsewhere ==
  ASSUME NEW q \in Seq(Row), NEW b \in Aggregates, NEW kind \in {"put", "del", "msg"},
         NEW rev \in Nat, NEW needs, NEW a, a # b
  PROVE  SameRows(q, Enqueue(q, b, kind, rev, needs), a)
<1> DEFINE e == Enqueue(q, b, kind, rev, needs)
<1>1. Enqueued(q, e, b, kind, rev)
  BY EnqueueRows
<1> HIDE DEF e
<1> QED BY <1>1 DEF SameRows, Enqueued, e

\* Enqueueing a revision above those of the rows of a adds a row.
LEMMA EnqueueAbove ==
  ASSUME NEW q \in Seq(Row), NEW a \in Aggregates, NEW kind \in {"put", "del", "msg"},
         NEW rev \in Nat, NEW needs, \A i \in DOMAIN q : q[i].agg = a => q[i].rev < rev
  PROVE  NewRow(q, Enqueue(q, a, kind, rev, needs), a, kind, rev)
<1> DEFINE e == Enqueue(q, a, kind, rev, needs)
<1>1. Enqueued(q, e, a, kind, rev)
  BY EnqueueRows
<1> HIDE DEF e
<1>2. /\ Len(e) = Len(q) + 1 /\ Len(q) \in Nat
      /\ DOMAIN q = 1..Len(q) /\ DOMAIN e = 1..Len(e)
  BY <1>1, LenProperties DEF Enqueued, Outgrows
<1>3. Len(q) + 1 \in DOMAIN e \ DOMAIN q /\ \A j \in DOMAIN e \ DOMAIN q : j = Len(q) + 1
  BY <1>2
<1> QED BY <1>1, <1>3 DEF NewRow, Enqueued, e

\* Two enqueueings, of which the first, the second or neither is about a.
LEMMA RowsOfTwo ==
  ASSUME NEW q \in Seq(Row), NEW r, NEW e, Outgrows(q, r), Outgrows(r, e), NEW a,
         NEW kind, NEW rev
  PROVE  /\ SameRows(q, r, a) /\ SameRows(r, e, a) => SameRows(q, e, a)
         /\ SameRows(q, r, a) /\ NewRow(r, e, a, kind, rev) => NewRow(q, e, a, kind, rev)
         /\ NewRow(q, r, a, kind, rev) /\ SameRows(r, e, a) => NewRow(q, e, a, kind, rev)
<1>1. /\ Len(q) \in Nat /\ DOMAIN q = 1..Len(q)
      /\ r \in Seq(Row) /\ Len(r) \in Nat /\ DOMAIN r = 1..Len(r)
      /\ e \in Seq(Row) /\ Len(e) \in Nat /\ DOMAIN e = 1..Len(e)
  BY LenProperties DEF Outgrows
<1>2. DOMAIN q \subseteq DOMAIN r /\ DOMAIN r \subseteq DOMAIN e
  BY <1>1 DEF Outgrows
<1>3. \A i \in DOMAIN q : r[i].agg = q[i].agg
  <2> SUFFICES ASSUME NEW i \in DOMAIN q PROVE r[i].agg = q[i].agg
    OBVIOUS
  <2>1. q[i] \in Row /\ GivesWay(q[i], r[i])
    BY <1>1, ElementOfSeq DEF Outgrows
  <2> QED BY <2>1, WayGiven
<1>4. \A i \in DOMAIN r : e[i].agg = r[i].agg
  <2> SUFFICES ASSUME NEW i \in DOMAIN r PROVE e[i].agg = r[i].agg
    OBVIOUS
  <2>1. r[i] \in Row /\ GivesWay(r[i], e[i])
    BY <1>1, ElementOfSeq DEF Outgrows
  <2> QED BY <2>1, WayGiven
<1>5. SameRows(q, r, a) /\ SameRows(r, e, a) => SameRows(q, e, a)
  BY <1>2, <1>4 DEF SameRows
<1>6. ASSUME SameRows(q, r, a), NewRow(r, e, a, kind, rev)
      PROVE  NewRow(q, e, a, kind, rev)
  <2>1. PICK k \in DOMAIN e \ DOMAIN r :
          /\ e[k].agg = a /\ e[k].kind = kind /\ e[k].rev = rev /\ e[k].state = "pending"
          /\ \A j \in DOMAIN e \ DOMAIN r : e[j].agg = a => j = k
    BY <1>6 DEF NewRow
  <2>2. \A j \in DOMAIN e \ DOMAIN q : e[j].agg = a => j = k
    BY <1>2, <1>4, <1>6, <2>1 DEF SameRows
  <2>3. \A i \in DOMAIN q : q[i].agg = a => e[i].state \notin LiveStates
    BY <1>2, <1>3, <1>6 DEF NewRow
  <2> QED BY <1>2, <2>1, <2>2, <2>3 DEF NewRow
<1>7. ASSUME NewRow(q, r, a, kind, rev), SameRows(r, e, a)
      PROVE  NewRow(q, e, a, kind, rev)
  <2>1. PICK k \in DOMAIN r \ DOMAIN q :
          /\ r[k].agg = a /\ r[k].kind = kind /\ r[k].rev = rev /\ r[k].state = "pending"
          /\ \A j \in DOMAIN r \ DOMAIN q : r[j].agg = a => j = k
    BY <1>7 DEF NewRow
  <2>2. e[k] = r[k]
    BY <1>7, <2>1 DEF SameRows
  <2>3. \A j \in DOMAIN e \ DOMAIN q : e[j].agg = a => j = k
    BY <1>2, <1>4, <1>7, <2>1 DEF SameRows
  <2>4. \A i \in DOMAIN q : q[i].agg = a => e[i].state \notin LiveStates
    BY <1>2, <1>3, <1>7 DEF NewRow, SameRows
  <2> QED BY <1>2, <2>1, <2>2, <2>3, <2>4 DEF NewRow
<1> QED BY <1>5, <1>6, <1>7

\* A change has nothing to do with a.
Untouched(a) ==
  SameRows(outbox, outbox', a) /\ content'[a] = content[a] /\ astray'[a] = astray[a]

\* A change counts the revision of a up and announces what a says then.
Renewed(a) ==
  /\ NewRow(outbox, outbox', a, IF content'[a].shown THEN "put" ELSE "del", content[a].rev + 1)
  /\ content'[a].rev = content[a].rev + 1
  /\ astray[a] = {}

\* A listing a change has nothing to do with stays current.
LEMMA UntouchedStaysCurrent ==
  ASSUME IInv, Announces, NEW a \in Listings, Current(a), Untouched(a)
  PROVE  (Current(a))'
<1>1. /\ Ids \subseteq Ids' /\ \A i \in Ids : outbox'[i].agg = outbox[i].agg
      /\ \A i \in Ids : outbox[i].agg = a => outbox'[i] = outbox[i]
      /\ \A i \in Ids' \ Ids : outbox'[i].agg # a
      /\ content'[a] = content[a] /\ wire' = wire
  BY GrownRows DEF IInv, Announces, Untouched, SameRows, Ids
<1>2. \A i \in Ids' : outbox'[i].agg = a => i \in Ids /\ outbox[i].agg = a
  BY <1>1
<1>3. (RowsCurrent(a))'
  BY <1>1, <1>2 DEF Current, RowsCurrent
<1>4. (CurrentAnnounced(a))'
  BY <1>1, <1>2 DEF Current, CurrentAnnounced
<1>5. (EventsCurrent(a))'
  BY <1>1 DEF Current, EventsCurrent, IInv, WireSound
<1> QED BY <1>3, <1>4, <1>5 DEF Current

\* A listing a change announces stays current.
LEMMA RenewedStaysCurrent ==
  ASSUME IInv, Announces, NEW a \in Listings, Current(a), Renewed(a)
  PROVE  (Current(a))'
<1> DEFINE new == content[a].rev + 1
<1>1. /\ Ids \subseteq Ids' /\ wire' = wire
      /\ \A i \in Ids : outbox'[i].agg = outbox[i].agg /\ outbox'[i].rev = outbox[i].rev
      /\ \A i \in Ids : outbox[i].agg = a => outbox'[i].state \notin LiveStates
      /\ content'[a].rev = new /\ content[a].rev \in Nat
  <2>1. \A i \in Ids : outbox'[i].rev = outbox[i].rev
    BY TableRows, WayGiven DEF IInv, Announces, Outgrows, Ids
  <2>2. content[a].rev \in Nat
    BY ChangeTypes DEF IInv, Aggregates
  <2> QED BY <2>1, <2>2, GrownRows DEF IInv, Announces, Renewed, NewRow, Ids
<1>2. PICK k \in Ids' \ Ids :
        /\ outbox'[k].agg = a /\ outbox'[k].kind = (IF content'[a].shown THEN "put" ELSE "del")
        /\ outbox'[k].rev = new /\ outbox'[k].state = "pending"
        /\ \A j \in Ids' \ Ids : outbox'[j].agg = a => j = k
  BY DEF Renewed, NewRow, Ids
<1>3. \A i \in Ids : outbox[i].agg = a => outbox[i].rev < new
  <2>1. \A i \in Ids : outbox[i].rev \in Nat
    BY TableRows, RowFields DEF IInv
  <2> QED BY <1>1, <2>1 DEF Current, RowsCurrent
<1>4. \A i \in Ids : i < k /\ ~ k < i
  <2>1. Ids = 1..Len(outbox) /\ Len(outbox) \in Nat
    BY TableRows DEF IInv
  <2>2. outbox' \in Seq(Row)
    BY DEF Announces, Outgrows
  <2>3. Ids' = 1..Len(outbox') /\ Len(outbox') \in Nat
    BY <2>2, LenProperties DEF Ids
  <2> QED BY <2>1, <2>3
<1> HIDE DEF new
<1>5. (RowsCurrent(a))'
  <2> SUFFICES ASSUME NEW i \in Ids', outbox'[i].agg = a
               PROVE  /\ outbox'[i].rev <= new
                      /\ outbox'[i].state \in LiveStates => outbox'[i].rev = new
                      /\ outbox'[i].rev = new =>
                           /\ outbox'[i].state # "superseded"
                           /\ outbox'[i].kind = (IF content'[a].shown THEN "put" ELSE "del")
                      /\ \A j \in Ids' : outbox'[j].agg = a /\ i < j =>
                           outbox'[i].rev < outbox'[j].rev
    BY <1>1 DEF RowsCurrent
  <2>0. new \in Nat
    BY <1>1 DEF new
  <2>1. CASE i \in Ids
    <3>1. outbox[i].agg = a /\ outbox'[i].rev = outbox[i].rev /\ outbox[i].rev < new
          /\ outbox[i].rev \in Nat
      BY <1>1, <1>3, <2>1, TableRows, RowFields DEF IInv
    <3>2. \A j \in Ids' : outbox'[j].agg = a /\ i < j => outbox'[i].rev < outbox'[j].rev
      BY <1>1, <1>2, <2>1, <3>1 DEF Current, RowsCurrent
    <3> QED BY <1>1, <2>0, <2>1, <3>1, <3>2
  <2>2. CASE i \notin Ids
    <3>1. i = k
      BY <1>2, <2>2
    <3>2. \A j \in Ids' : outbox'[j].agg = a => ~ k < j
      <4>1. ~ k < k
        <5>1. k \in Nat
          BY LenProperties DEF Announces, Outgrows, Ids
        <5> QED BY <5>1
      <4> QED BY <1>2, <1>4, <4>1
    <3> QED BY <1>2, <2>0, <3>1, <3>2
  <2> QED BY <2>1, <2>2
<1>6. (CurrentAnnounced(a))'
  BY <1>1, <1>2 DEF CurrentAnnounced
<1>7. (EventsCurrent(a))'
  <2>1. \A x \in wire : x.id \in Ids /\ x.agg = outbox[x.id].agg
    BY DEF IInv, WireSound
  <2>2. \A x \in wire : x.agg = a => outbox'[x.id].rev # content'[a].rev
    <3>1. \A i \in Ids : outbox[i].rev \in Nat
      BY TableRows, RowFields DEF IInv
    <3> QED BY <1>1, <1>3, <2>1, <3>1
  <2> QED BY <1>1, <2>2 DEF Current, EventsCurrent
<1> QED BY <1>5, <1>6, <1>7 DEF Current

\* The rows of a current listing are below its next revision.
LEMMA RowsBelow ==
  ASSUME TypeOK, NEW a \in Listings, Current(a)
  PROVE  /\ content[a].rev \in Nat /\ a \in Aggregates
         /\ \A i \in DOMAIN outbox : outbox[i].agg = a => outbox[i].rev < content[a].rev + 1
<1>1. content[a].rev \in Nat /\ a \in Aggregates
  BY ChangeTypes DEF Aggregates
<1>2. \A i \in Ids : outbox[i].rev \in Nat
  BY TableRows, RowFields
<1>3. \A i \in Ids : outbox[i].agg = a => outbox[i].rev <= content[a].rev
  BY DEF Current, RowsCurrent
<1> QED BY <1>1, <1>2, <1>3 DEF Ids

\* A table whose rows of a are the same has its revisions of a.
LEMMA SameBelow ==
  ASSUME TypeOK, NEW a \in Listings, Current(a), NEW r, Outgrows(outbox, r), SameRows(outbox, r, a)
  PROVE  \A i \in DOMAIN r : r[i].agg = a => r[i].rev < content[a].rev + 1
<1> SUFFICES ASSUME NEW i \in DOMAIN r, r[i].agg = a PROVE r[i].rev < content[a].rev + 1
  OBVIOUS
<1>1. i \in DOMAIN outbox
  BY DEF SameRows
<1>2. outbox[i] \in Row /\ GivesWay(outbox[i], r[i])
  BY <1>1, TableRows DEF Ids, Outgrows
<1>3. outbox[i].agg = a
  BY <1>2, WayGiven
<1> QED BY <1>1, <1>3, RowsBelow DEF SameRows

\* The rows of a stay the same on the same table.
LEMMA SameItself ==
  ASSUME NEW q, NEW a
  PROVE  SameRows(q, q, a)
BY DEF SameRows

\* What the republication of a collection does to the rows of a.
LEMMA RelistRows ==
  ASSUME TypeOK, NEW c \in Collections, NEW members, NEW a
  PROVE  /\ a # c => SameRows(outbox, Relist(outbox, c, members), a)
         /\ Current(c) /\ members # {} =>
              NewRow(outbox, Relist(outbox, c, members), c, "put", content[c].rev + 1)
<1> DEFINE e == Enqueue(outbox, c, "put", content[c].rev + 1, {})
<1>1. c \in Aggregates /\ c \in Listings /\ content[c].rev + 1 \in Nat /\ outbox \in Seq(Row)
  BY ChangeTypes DEF Listings
<1>2. a # c => SameRows(outbox, e, a)
  BY <1>1, EnqueueElsewhere
<1>3. Current(c) => NewRow(outbox, e, c, "put", content[c].rev + 1)
  BY <1>1, RowsBelow, EnqueueAbove
<1>4. SameRows(outbox, outbox, a)
  BY SameItself
<1> HIDE DEF e
<1>5. Relist(outbox, c, members) = IF members = {} THEN outbox ELSE e
  BY DEF Relist, e
<1> QED BY <1>2, <1>3, <1>4, <1>5

\* A change that enqueues one intent, of b, whose listing it counts up: it has
\* nothing to do with any other listing.
LEMMA OneEnqueued ==
  ASSUME TypeOK, NEW b \in Aggregates, NEW kind \in {"put", "del", "msg"}, NEW rev \in Nat,
         NEW needs, outbox' = Enqueue(outbox, b, kind, rev, needs), NEW a \in Listings,
         a # b, content'[a] = content[a], astray'[a] = astray[a]
  PROVE  Untouched(a)
<1>1. outbox \in Seq(Row)
  BY DEF TypeOK
<1> QED BY <1>1, EnqueueElsewhere DEF Untouched

\* A change that enqueues the next revision of a.
LEMMA OneRenewed ==
  ASSUME TypeOK, NEW a \in Listings, Current(a), NEW kind \in {"put", "del", "msg"},
         NEW needs, outbox' = Enqueue(outbox, a, kind, content[a].rev + 1, needs),
         content'[a].rev = content[a].rev + 1,
         kind = (IF content'[a].shown THEN "put" ELSE "del"), astray[a] = {}
  PROVE  Renewed(a)
<1>1. outbox \in Seq(Row) /\ content[a].rev + 1 \in Nat /\ a \in Aggregates
  BY RowsBelow DEF TypeOK
<1>2. NewRow(outbox, outbox', a, kind, content[a].rev + 1)
  BY <1>1, RowsBelow, EnqueueAbove
<1> QED BY <1>2 DEF Renewed

\* What a picture, a patched collection or moved stock does to the listing a.
LEMMA OneListingChanges ==
  ASSUME TypeOK, CurrentInv, NEW a \in Listings, astray'[a] = {},
         \/ \E e \in Editors : AddImage(e) \/ PatchCollection(e)
         \/ \E p \in Products : MoveStock(p)
  PROVE  astray[a] = {} /\ (Untouched(a) \/ Renewed(a))
<1>0. a \in Aggregates
  BY DEF Aggregates
<1>1. CASE \E e \in Editors : AddImage(e)
  <2>1. PICK e \in Editors : AddImage(e)
    BY <1>1
  <2> DEFINE p == edit[e].listing
  <2>2. /\ p \in Products /\ p \in Aggregates /\ p \in Listings /\ content[p] \in Contents
        /\ content[p].rev + 1 \in Nat /\ edit[e].seen + 1 \in Nat
    BY <2>1, ChangeTypes DEF AddImage, Listings
  <2>3. /\ outbox' = Enqueue(outbox, p, "put", edit[e].seen + 1, {Home[p]})
        /\ content' = [content EXCEPT ![p] = Changed(content[p], content[p].rev + 1, TRUE)]
        /\ astray' = [astray EXCEPT ![p] = astray[p] \cup Stale(e)]
    BY <2>1 DEF AddImage
  <2>4. Stale(e) = {} => edit[e].seen = content[p].rev
    BY DEF Stale
  <2> HIDE DEF p
  <2>5. CASE a = p
    <3>1. astray'[p] = astray[p] \cup Stale(e) /\ content'[p].rev = content[p].rev + 1
          /\ content'[p].shown = TRUE
      BY <2>2, <2>3, ChangeTypes, ChangedRow
    <3>2. astray[p] = {} /\ edit[e].seen = content[p].rev
      BY <2>4, <2>5, <3>1
    <3>3. Current(p)
      BY <2>2, <3>2 DEF CurrentInv
    <3>4. Renewed(p)
      BY <2>2, <2>3, <3>1, <3>2, <3>3, OneRenewed
    <3> QED BY <2>5, <3>2, <3>4
  <2>6. CASE a # p
    <3>1. astray'[a] = astray[a] /\ content'[a] = content[a]
      BY <1>0, <2>3, <2>6, ChangeTypes
    <3> QED BY <2>2, <2>3, <2>6, <3>1, OneEnqueued
  <2> QED BY <2>5, <2>6
<1>2. CASE \E e \in Editors : PatchCollection(e)
  <2>1. PICK e \in Editors : PatchCollection(e)
    BY <1>2
  <2> DEFINE c == edit[e].listing
  <2>2. /\ c \in Collections /\ c \in Aggregates /\ c \in Listings /\ content[c] \in Contents
        /\ edit[e].seen + 1 \in Nat
    BY <2>1, ChangeTypes DEF PatchCollection, Listings
  <2>3. /\ outbox' = Enqueue(outbox, c, "put", edit[e].seen + 1, {})
        /\ content' = [content EXCEPT ![c] = Changed(content[c], edit[e].seen + 1, TRUE)]
        /\ astray' = [astray EXCEPT ![c] = astray[c] \cup Stale(e)]
    BY <2>1 DEF PatchCollection
  <2>4. Stale(e) = {} => edit[e].seen = content[c].rev
    BY DEF Stale
  <2> HIDE DEF c
  <2>5. CASE a = c
    <3>1. astray'[c] = astray[c] \cup Stale(e) /\ content'[c].rev = edit[e].seen + 1
          /\ content'[c].shown = TRUE
      BY <2>2, <2>3, ChangeTypes, ChangedRow
    <3>2. astray[c] = {} /\ edit[e].seen = content[c].rev
      BY <2>4, <2>5, <3>1
    <3>3. Current(c)
      BY <2>2, <3>2 DEF CurrentInv
    <3>4. Renewed(c)
      BY <2>2, <2>3, <3>1, <3>2, <3>3, OneRenewed
    <3> QED BY <2>5, <3>2, <3>4
  <2>6. CASE a # c
    <3>1. astray'[a] = astray[a] /\ content'[a] = content[a]
      BY <1>0, <2>3, <2>6, ChangeTypes
    <3> QED BY <2>2, <2>3, <2>6, <3>1, OneEnqueued
  <2> QED BY <2>5, <2>6
<1>3. CASE \E p \in Products : MoveStock(p)
  <2>1. PICK p \in Products : MoveStock(p)
    BY <1>3
  <2>2. /\ p \in Aggregates /\ p \in Listings /\ content[p] \in Contents
        /\ content[p].rev + 1 \in Nat
    BY ChangeTypes DEF Listings
  <2>3. /\ outbox' = Enqueue(outbox, p, "put", content[p].rev + 1, {Home[p]})
        /\ content' = [content EXCEPT ![p] = Changed(content[p], content[p].rev + 1, TRUE)]
        /\ astray' = astray
    BY <2>1 DEF MoveStock
  <2>4. CASE a = p
    <3>1. content'[p].rev = content[p].rev + 1 /\ content'[p].shown = TRUE
      BY <2>2, <2>3, ChangeTypes, ChangedRow
    <3>2. Current(p)
      BY <2>2, <2>3, <2>4 DEF CurrentInv
    <3> QED BY <2>2, <2>3, <2>4, <3>1, <3>2, OneRenewed
  <2>5. CASE a # p
    <3>1. content'[a] = content[a]
      BY <1>0, <2>3, <2>5, ChangeTypes
    <3> QED BY <2>2, <2>3, <2>5, <3>1, OneEnqueued
  <2> QED BY <2>4, <2>5
<1> QED BY <1>1, <1>2, <1>3

\* What a reading, the profile or a message does to the listing a.
LEMMA NoListingChanges ==
  ASSUME TypeOK, NEW a \in Listings,
         \/ \E e \in Editors : \E b \in Listings : ReadListing(e, b)
         \/ \E b \in Profiles : EditProfile(b)
         \/ \E b \in Messages : SendMessage(b)
  PROVE  Untouched(a)
<1>0. a \in Aggregates
  BY DEF Aggregates
<1>1. CASE \E e \in Editors : \E b \in Listings : ReadListing(e, b)
  BY <1>1, SameItself DEF ReadListing, Untouched
<1>2. CASE \E b \in Profiles : EditProfile(b)
  <2>1. PICK b \in Profiles : EditProfile(b)
    BY <1>2
  <2>2. b \in Aggregates /\ a # b
    BY OutboxAssumption DEF Aggregates
  <2>3. /\ outbox' = Enqueue(outbox, b, "put", 0, {}) /\ astray' = astray
        /\ content' = [content EXCEPT ![b] = [content[b] EXCEPT !.ver = content[b].ver + 1]]
    BY <2>1, Zenon DEF EditProfile
  <2>4. content'[a] = content[a]
    BY <1>0, <2>2, <2>3, ChangeTypes
  <2> QED BY <2>2, <2>3, <2>4, OneEnqueued
<1>3. CASE \E b \in Messages : SendMessage(b)
  <2>1. PICK b \in Messages : SendMessage(b)
    BY <1>3
  <2>2. b \in Aggregates /\ a # b
    BY OutboxAssumption DEF Aggregates
  <2>3. /\ outbox' = Enqueue(outbox, b, "msg", 0, {}) /\ astray' = astray
        /\ content' = [content EXCEPT ![b] = [content[b] EXCEPT !.shown = TRUE]]
    BY <2>1, Zenon DEF SendMessage
  <2>4. content'[a] = content[a]
    BY <1>0, <2>2, <2>3, ChangeTypes
  <2> QED BY <2>2, <2>3, <2>4, OneEnqueued
<1> QED BY <1>1, <1>2, <1>3

\* What a patch of a product does to the listing a.
LEMMA PatchChanges ==
  ASSUME TypeOK, CurrentInv, NEW e \in Editors, NEW show \in BOOLEAN, PatchProduct(e, show),
         NEW a \in Listings, astray'[a] = {}
  PROVE  astray[a] = {} /\ (Untouched(a) \/ Renewed(a))
<1> DEFINE p == edit[e].listing
           c == Home[p]
           members == IF show THEN Members(c) \cup {p} ELSE Members(c) \ {p}
           listed == Relist(outbox, c, members)
           last == Enqueue(listed, p, "put", edit[e].seen + 1, {c})
<1>0. a \in Aggregates
  BY DEF Aggregates
<1>1. /\ p \in Products /\ c \in Collections /\ c # p
      /\ p \in Aggregates /\ c \in Aggregates /\ p \in Listings /\ c \in Listings
      /\ content[p] \in Contents /\ content[p].rev + 1 \in Nat
      /\ content[c] \in Contents /\ content[c].rev + 1 \in Nat
      /\ edit[e].seen + 1 \in Nat
  <2>1. p \in Products
    BY DEF PatchProduct
  <2> QED BY <2>1, ChangeTypes DEF Listings
<1>2. /\ outbox' = IF show THEN last ELSE listed
      /\ content' = [content EXCEPT
           ![p] = Changed(content[p], content[p].rev + 1, show),
           ![c] = Changed(content[c], content[c].rev + 1, members # {})]
      /\ astray' = [astray EXCEPT
           ![p] = astray[p] \cup (IF show THEN Stale(e) ELSE {"drafted"}),
           ![c] = astray[c] \cup (IF members = {} THEN {"drafted"} ELSE {})]
  <2> HIDE DEF members, listed
  <2> QED BY <1>1, ChangeTypes DEF PatchProduct, members, listed
<1>3. (show => members # {}) /\ (Stale(e) = {} => edit[e].seen = content[p].rev)
  BY DEF Stale
<1>4. /\ Outgrows(outbox, listed) /\ listed \in Seq(Row)
      /\ a # c => SameRows(outbox, listed, a)
      /\ Current(c) /\ members # {} => NewRow(outbox, listed, c, "put", content[c].rev + 1)
  <2> HIDE DEF members, c
  <2>1. Outgrows(outbox, listed)
    BY <1>1, RelistGrows
  <2> QED BY <1>1, <2>1, RelistRows DEF Outgrows
<1> HIDE DEF members, listed, c, p
<1>5. Outgrows(listed, last) /\ (a # p => SameRows(listed, last, a))
  BY <1>1, <1>4, EnqueueGrows, EnqueueElsewhere
<1> HIDE DEF last
<1>6. /\ content'[p] = Changed(content[p], content[p].rev + 1, show)
      /\ content'[c] = Changed(content[c], content[c].rev + 1, members # {})
      /\ a \notin {p, c} => content'[a] = content[a]
      /\ astray'[p] = astray[p] \cup (IF show THEN Stale(e) ELSE {"drafted"})
      /\ astray'[c] = astray[c] \cup (IF members = {} THEN {"drafted"} ELSE {})
      /\ a \notin {p, c} => astray'[a] = astray[a]
  BY <1>0, <1>1, <1>2, ChangeTypes
<1>7. CASE a = p
  <2>1. show /\ Stale(e) = {} /\ astray[p] = {}
    BY <1>6, <1>7
  <2>2. edit[e].seen + 1 = content[p].rev + 1
    BY <1>3, <2>1
  <2>3. Current(p) /\ SameRows(outbox, listed, p)
    BY <1>1, <1>4, <1>7, <2>1 DEF CurrentInv
  <2>4. \A i \in DOMAIN listed : listed[i].agg = p => listed[i].rev < content[p].rev + 1
    BY <1>1, <1>4, <2>3, SameBelow
  <2>5. NewRow(listed, last, p, "put", content[p].rev + 1)
    BY <1>1, <1>4, <2>2, <2>4, EnqueueAbove DEF last
  <2>6. NewRow(outbox, last, p, "put", content[p].rev + 1)
    BY <1>4, <1>5, <2>3, <2>5, ChangeTypes, RowsOfTwo
  <2>7. content'[p].rev = content[p].rev + 1 /\ content'[p].shown = show
    BY <1>1, <1>6 DEF Changed
  <2> QED BY <1>2, <1>7, <2>1, <2>6, <2>7 DEF Renewed
<1>8. CASE a = c
  <2>1. members # {} /\ astray[c] = {}
    BY <1>6, <1>8
  <2>2. Current(c)
    BY <1>1, <2>1 DEF CurrentInv
  <2>3. NewRow(outbox, listed, c, "put", content[c].rev + 1)
    BY <1>4, <2>1, <2>2
  <2>4. NewRow(outbox, last, c, "put", content[c].rev + 1)
    BY <1>1, <1>4, <1>5, <1>8, <2>3, ChangeTypes, RowsOfTwo
  <2>5. content'[c].rev = content[c].rev + 1 /\ content'[c].shown = (members # {})
    BY <1>1, <1>6 DEF Changed
  <2> QED BY <1>2, <1>8, <2>1, <2>3, <2>4, <2>5 DEF Renewed
<1>9. CASE a \notin {p, c}
  <2>1. SameRows(outbox, listed, a) /\ SameRows(listed, last, a)
    BY <1>4, <1>5, <1>9
  <2>2. SameRows(outbox, last, a)
    BY <1>4, <1>5, <2>1, ChangeTypes, RowsOfTwo
  <2> QED BY <1>2, <1>6, <1>9, <2>1, <2>2 DEF Untouched
<1> QED BY <1>7, <1>8, <1>9

\* What a withdrawal does to the listing a.
LEMMA WithdrawalChanges ==
  ASSUME TypeOK, CurrentInv, NEW p \in Products, WithdrawProduct(p),
         NEW a \in Listings, astray'[a] = {}
  PROVE  astray[a] = {} /\ (Untouched(a) \/ Renewed(a))
<1> DEFINE c == Home[p]
           members == Members(c) \ {p}
           gone == Enqueue(outbox, c, "del", content[c].rev + 1, {})
           listed == IF members = {} THEN gone ELSE Relist(outbox, c, members)
           needs == IF members = {} THEN {} ELSE {c}
           kind == IF members # {} THEN "put" ELSE "del"
<1>0. a \in Aggregates
  BY DEF Aggregates
<1>1. /\ c \in Collections /\ c # p
      /\ p \in Aggregates /\ c \in Aggregates /\ p \in Listings /\ c \in Listings
      /\ content[p] \in Contents /\ content[p].rev + 1 \in Nat
      /\ content[c] \in Contents /\ content[c].rev + 1 \in Nat /\ outbox \in Seq(Row)
  BY ChangeTypes DEF Listings
<1>2. /\ outbox' = Enqueue(listed, p, "del", content[p].rev + 1, needs)
      /\ content' = [content EXCEPT
           ![p] = Changed(content[p], content[p].rev + 1, FALSE),
           ![c] = Changed(content[c], content[c].rev + 1, members # {})]
      /\ astray' = astray
  <2> HIDE DEF members, listed
  <2> QED BY <1>1, ChangeTypes DEF WithdrawProduct, members, listed
<1>3. astray[a] = {} /\ Current(a)
  BY <1>2 DEF CurrentInv
<1>4. /\ Outgrows(outbox, listed) /\ listed \in Seq(Row)
      /\ a # c => SameRows(outbox, listed, a)
      /\ a = c => NewRow(outbox, listed, c, kind, content[c].rev + 1)
  <2> HIDE DEF members, c
  <2>1. Outgrows(outbox, gone) /\ (a # c => SameRows(outbox, gone, a))
    BY <1>1, EnqueueGrows, EnqueueElsewhere
  <2>2. a = c => NewRow(outbox, gone, c, "del", content[c].rev + 1)
    BY <1>1, <1>3, RowsBelow, EnqueueAbove
  <2>3. /\ Outgrows(outbox, Relist(outbox, c, members))
        /\ a # c => SameRows(outbox, Relist(outbox, c, members), a)
        /\ a = c /\ members # {} =>
             NewRow(outbox, Relist(outbox, c, members), c, "put", content[c].rev + 1)
    BY <1>1, <1>3, RelistGrows, RelistRows
  <2> HIDE DEF gone
  <2> QED BY <2>1, <2>2, <2>3 DEF Outgrows
<1> HIDE DEF members, listed, c, needs, kind
<1>5. Outgrows(listed, outbox') /\ (a # p => SameRows(listed, outbox', a))
  BY <1>1, <1>2, <1>4, EnqueueGrows, EnqueueElsewhere
<1>6. /\ content'[p] = Changed(content[p], content[p].rev + 1, FALSE)
      /\ content'[c] = Changed(content[c], content[c].rev + 1, members # {})
      /\ a \notin {p, c} => content'[a] = content[a]
  BY <1>0, <1>1, <1>2, ChangeTypes
<1>7. CASE a = p
  <2>1. Current(p) /\ SameRows(outbox, listed, p)
    BY <1>1, <1>3, <1>4, <1>7
  <2>2. \A i \in DOMAIN listed : listed[i].agg = p => listed[i].rev < content[p].rev + 1
    BY <1>1, <1>4, <2>1, SameBelow
  <2>3. NewRow(listed, outbox', p, "del", content[p].rev + 1)
    BY <1>1, <1>2, <1>4, <2>2, EnqueueAbove
  <2>4. NewRow(outbox, outbox', p, "del", content[p].rev + 1)
    BY <1>1, <1>4, <1>5, <2>1, <2>3, RowsOfTwo
  <2>5. content'[p].rev = content[p].rev + 1 /\ content'[p].shown = FALSE
    BY <1>1, <1>6 DEF Changed
  <2> QED BY <1>3, <1>7, <2>4, <2>5 DEF Renewed
<1>8. CASE a = c
  <2>1. NewRow(outbox, outbox', c, kind, content[c].rev + 1)
    BY <1>1, <1>4, <1>5, <1>8, RowsOfTwo
  <2>2. content'[c].rev = content[c].rev + 1 /\ content'[c].shown = (members # {})
    BY <1>1, <1>6 DEF Changed
  <2>3. kind = (IF content'[c].shown THEN "put" ELSE "del")
    BY <2>2 DEF kind
  <2> QED BY <1>3, <1>8, <2>1, <2>2, <2>3 DEF Renewed
<1>9. CASE a \notin {p, c}
  <2>1. SameRows(outbox, listed, a) /\ SameRows(listed, outbox', a)
    BY <1>4, <1>5, <1>9
  <2>2. SameRows(outbox, outbox', a)
    BY <1>1, <1>4, <1>5, <2>1, RowsOfTwo
  <2> QED BY <1>2, <1>3, <1>6, <1>9, <2>2 DEF Untouched
<1> QED BY <1>7, <1>8, <1>9

\* A change keeps the listings current.
LEMMA AnnouncingKeepsCurrent ==
  ASSUME IInv, CurrentInv, Announcing
  PROVE  CurrentInv'
<1> SUFFICES ASSUME NEW a \in Listings, astray'[a] = {}
             PROVE  (Current(a))'
  BY DEF CurrentInv
<1>0. TypeOK
  BY DEF IInv
<1>1. astray[a] = {} /\ (Untouched(a) \/ Renewed(a))
  <2>1. CASE \/ \E e \in Editors : \E b \in Listings : ReadListing(e, b)
             \/ \E b \in Profiles : EditProfile(b)
             \/ \E b \in Messages : SendMessage(b)
    <3>1. Untouched(a)
      BY <1>0, <2>1, NoListingChanges
    <3> QED BY <3>1 DEF Untouched
  <2>2. CASE \/ \E e \in Editors : AddImage(e) \/ PatchCollection(e)
             \/ \E p \in Products : MoveStock(p)
    BY <1>0, <2>2, OneListingChanges
  <2>3. CASE \E e \in Editors : \E show \in BOOLEAN : PatchProduct(e, show)
    BY <1>0, <2>3, PatchChanges
  <2>4. CASE \E p \in Products : WithdrawProduct(p)
    BY <1>0, <2>4, WithdrawalChanges
  <2> QED BY <2>1, <2>2, <2>3, <2>4, Zenon DEF Announcing
<1>2. Announces
  BY <1>0, AnnouncingDoes
<1>3. Current(a)
  BY <1>1 DEF CurrentInv
<1> QED BY <1>1, <1>2, <1>3, UntouchedStaysCurrent, RenewedStaysCurrent

-----------------------------------------------------------------------------
\* What the publisher does to a current listing

\* Nothing newer than the current revision is live, and a current intent has
\* something to render: it is not overtaken.
LEMMA CurrentNotOvertaken ==
  ASSUME IInv, NEW i \in Ids, Current(outbox[i].agg), outbox[i].agg \in Listings,
         outbox[i].rev = content[outbox[i].agg].rev
  PROVE  ~ NewerLive(i) /\ Renders(i)
<1>1. \A j \in Ids : outbox[j].agg = outbox[i].agg =>
        outbox[j].rev \in Nat /\ outbox[i].rev \in Nat /\ outbox[j].rev <= outbox[i].rev
  BY TableRows, RowFields DEF IInv, Current, RowsCurrent
<1>2. ~ NewerLive(i)
  BY <1>1 DEF NewerLive
<1>3. outbox[i].kind = (IF content[outbox[i].agg].shown THEN "put" ELSE "del")
  BY DEF Current, RowsCurrent
<1> QED BY <1>2, <1>3 DEF Renders

\* A live row written without an event sent leaves a listing current.
LEMMA RewritingKeepsCurrent ==
  ASSUME IInv, NEW i \in Ids, Rewrites(i), UNCHANGED <<content, wire>>,
         NEW a \in Listings, Current(a),
         outbox[i].agg = a =>
           /\ outbox[i].state \in LiveStates
           /\ outbox'[i].state = "superseded" => NewerLive(i) \/ ~ Renders(i)
  PROVE  (Current(a))'
<1>1. /\ Ids' = Ids
      /\ \A j \in Ids : /\ outbox'[j].agg = outbox[j].agg /\ outbox'[j].rev = outbox[j].rev
                        /\ outbox'[j].kind = outbox[j].kind
      /\ \A j \in Ids \ {i} : outbox'[j] = outbox[j]
  BY DEF Rewrites, Writes, Ids
<1>2. outbox[i].agg = a /\ outbox[i].rev = content[a].rev => outbox'[i].state # "superseded"
  BY CurrentNotOvertaken
<1>3. (RowsCurrent(a))'
  <2> SUFFICES ASSUME NEW n \in Ids, outbox[n].agg = a
               PROVE  /\ outbox[n].rev <= content[a].rev
                      /\ outbox'[n].state \in LiveStates => outbox[n].rev = content[a].rev
                      /\ outbox[n].rev = content[a].rev =>
                           /\ outbox'[n].state # "superseded"
                           /\ outbox[n].kind = (IF content[a].shown THEN "put" ELSE "del")
                      /\ \A j \in Ids : outbox[j].agg = a /\ n < j => outbox[n].rev < outbox[j].rev
    BY <1>1 DEF RowsCurrent
  <2> QED BY <1>1, <1>2 DEF Current, RowsCurrent
<1>4. (CurrentAnnounced(a))'
  BY <1>1 DEF Current, CurrentAnnounced
<1>5. (EventsCurrent(a))'
  BY <1>1 DEF Current, EventsCurrent, IInv, WireSound
<1> QED BY <1>3, <1>4, <1>5 DEF Current

\* What is sent for a listing is its current revision, with what it says now and
\* with a created_at above every event of its older intents.
LEMMA SendKeepsCurrent ==
  ASSUME IInv, NEW w \in Workers, NEW targets \in SUBSET Relays, Send(w, targets),
         NEW a \in Listings, Current(a)
  PROVE  (Current(a))'
<1> DEFINE i == work[w].id
<1>1. /\ Rewrites(i)
      /\ outbox'[i].state = "claimed" /\ outbox[i].state = "claimed"
      /\ wire' = wire \cup {Event(w, relay, outbox'[i].stamp) : relay \in targets}
      /\ IF outbox[i].kind = "msg" THEN outbox'[i].stamp = 0
         ELSE \A j \in Ids : outbox[j].agg = outbox[i].agg => outbox[j].stamp < outbox'[i].stamp
  BY SendDoes DEF IInv
<1>2. /\ Ids' = Ids /\ i \in Ids
      /\ \A j \in Ids : /\ outbox'[j].agg = outbox[j].agg /\ outbox'[j].rev = outbox[j].rev
                        /\ outbox'[j].kind = outbox[j].kind /\ outbox'[j].state = outbox[j].state
      /\ content' = content
  BY <1>1 DEF Rewrites, Writes, Ids, Send
<1>3. (RowsCurrent(a))'
  BY <1>2 DEF Current, RowsCurrent
<1>4. (CurrentAnnounced(a))'
  BY <1>2 DEF Current, CurrentAnnounced
<1>5. \A relay \in targets :
        LET x == Event(w, relay, outbox'[i].stamp) IN
          /\ x.id = i /\ x.agg = outbox[i].agg /\ x.kind = outbox[i].kind
          /\ x.ver = content[outbox[i].agg].ver /\ x.stamp = outbox'[i].stamp
  BY DEF Event
<1>6. \A x \in wire : /\ x.id \in Ids /\ x.agg = outbox[x.id].agg /\ x.id \in Nat
                      /\ x.stamp \in Nat
  BY DEF IInv, WireSound, Events
<1> HIDE DEF i
<1>7. \A x \in wire' \ wire :
        /\ x.id = i /\ x.agg = outbox[i].agg /\ x.kind = outbox[i].kind
        /\ x.ver = content[outbox[i].agg].ver /\ x.stamp = outbox'[i].stamp
  BY <1>1, <1>5
<1>8. CASE outbox[i].agg # a
  <2>1. \A x \in wire' : x.agg = a => x \in wire
    BY <1>7, <1>8
  <2> QED BY <1>2, <1>3, <1>4, <1>6, <2>1 DEF Current, EventsCurrent
<1>9. CASE outbox[i].agg = a
  <2>1. outbox[i].rev = content[a].rev /\ outbox[i].kind # "msg"
    BY <1>1, <1>2, <1>9 DEF Current, RowsCurrent, LiveStates
  <2>2. \A j \in Ids : outbox[j].agg = a => ~ i < j
    <3>1. \A j \in Ids : outbox[j].rev \in Nat
      BY TableRows, RowFields DEF IInv
    <3> QED BY <1>2, <1>9, <2>1, <3>1 DEF Current, RowsCurrent
  <2>3. \A x \in wire : x.agg = a => x.stamp < outbox'[i].stamp
    <3> SUFFICES ASSUME NEW x \in wire, x.agg = a PROVE x.stamp < outbox'[i].stamp
      OBVIOUS
    <3>1. PICK k \in Ids : outbox[k].agg = a /\ x.stamp <= outbox[k].stamp
      BY DEF IInv, WireSound
    <3>2. outbox[k].stamp < outbox'[i].stamp
      BY <1>1, <1>9, <2>1, <3>1
    <3>3. outbox[k].stamp \in Nat /\ outbox'[i].stamp \in Nat
      <4>1. outbox' \in Seq(Row) /\ i \in DOMAIN outbox'
        BY <1>1, <1>2 DEF Rewrites, Writes
      <4>2. outbox'[i] \in Row /\ outbox[k] \in Row
        BY <4>1, ElementOfSeq, LenProperties, TableRows DEF IInv
      <4> QED BY <4>2, RowFields
    <3> QED BY <1>6, <3>1, <3>2, <3>3
  <2>4. ASSUME NEW x \in wire', x.agg = a
        PROVE  /\ outbox'[x.id].rev = content'[a].rev /\ x.kind = "put" => x.ver = content'[a].ver
               /\ \A y \in wire' : y.agg = a /\ x.id < y.id => x.stamp < y.stamp
    <3>1. CASE x \in wire
      <4>1. ASSUME NEW y \in wire', y.agg = a, x.id < y.id PROVE x.stamp < y.stamp
        <5>1. CASE y \in wire
          BY <2>4, <3>1, <4>1, <5>1 DEF Current, EventsCurrent
        <5>2. CASE y \notin wire
          BY <1>7, <2>3, <2>4, <3>1, <5>2
        <5> QED BY <5>1, <5>2
      <4>2. outbox'[x.id].rev = content'[a].rev /\ x.kind = "put" => x.ver = content'[a].ver
        BY <1>2, <1>6, <2>4, <3>1 DEF Current, EventsCurrent
      <4> QED BY <4>1, <4>2
    <3>2. CASE x \notin wire
      <4>1. x.id = i /\ x.ver = content[a].ver
        BY <1>7, <1>9, <3>2
      <4>2. \A y \in wire' : y.agg = a => ~ x.id < y.id
        <5>1. i \in Nat
          BY <1>2, TableRows DEF IInv
        <5> QED BY <1>6, <1>7, <2>2, <4>1, <5>1
      <4> QED BY <1>2, <4>1, <4>2
    <3> QED BY <3>1, <3>2
  <2>5. (EventsCurrent(a))'
    BY <2>4 DEF EventsCurrent
  <2> QED BY <1>3, <1>4, <2>5 DEF Current
<1> QED BY <1>8, <1>9

\* Every step keeps the listings current.
LEMMA StepCurrent ==
  ASSUME IInv, CurrentInv, [Next]_vars
  PROVE  CurrentInv'
<1>0. "claimed" \in LiveStates /\ "pending" \in LiveStates /\ "partially_published" \in LiveStates
  BY DEF LiveStates
<1>1. ASSUME NEW i \in Ids, Rewrites(i), UNCHANGED <<content, wire, astray>>,
             outbox[i].state \in LiveStates,
             outbox'[i].state = "superseded" => NewerLive(i) \/ ~ Renders(i)
      PROVE  CurrentInv'
  BY <1>1, RewritingKeepsCurrent DEF CurrentInv
<1>2. ASSUME UNCHANGED <<content, outbox, astray, wire>>
      PROVE  CurrentInv'
  <2> SUFFICES ASSUME NEW a \in Listings, astray[a] = {}
               PROVE  (Current(a))'
    BY <1>2 DEF CurrentInv
  <2> QED BY <1>2 DEF CurrentInv, Current, RowsCurrent, CurrentAnnounced, EventsCurrent, Ids
<1>3. CASE Announcing
  BY <1>3, AnnouncingKeepsCurrent
<1>4. CASE Settling
  <2>1. PICK w \in Workers :
          Block(w) \/ Overtake(w) \/ NoTargets(w) \/ NoRoute(w) \/ Fault(w)
    BY <1>4 DEF Settling
  <2>2. /\ Silent(work[w].id) /\ outbox[work[w].id].state = "claimed"
        /\ outbox'[work[w].id].state = "superseded" =>
             NewerLive(work[w].id) \/ ~ Renders(work[w].id)
        /\ UNCHANGED <<content, edit, astray, wire, received>>
    BY <2>1, SettlesDo DEF IInv
  <2>3. Rewrites(work[w].id) /\ work[w].id \in Ids
    BY <2>2 DEF Silent, Rewrites, Writes
  <2> QED BY <1>0, <1>1, <2>2, <2>3
<1>5. CASE Leaving
  BY <1>2, <1>5 DEF Leaving, LoseClaim, Crash
<1>6. CASE \E w \in Workers, i \in Ids : Claim(w, i)
  <2>1. PICK w \in Workers, i \in Ids : Claim(w, i)
    BY <1>6
  <2>2. Silent(i) /\ outbox'[i].state = "claimed"
    BY <2>1, ClaimDoes DEF IInv
  <2>3. outbox[i].state \in LiveStates /\ UNCHANGED <<content, wire, astray>>
    BY <1>0, <2>1 DEF Claim
  <2> QED BY <1>1, <2>2, <2>3 DEF Silent
<1>7. CASE \E w \in Workers, targets \in SUBSET Relays : Send(w, targets)
  <2>1. PICK w \in Workers, targets \in SUBSET Relays : Send(w, targets)
    BY <1>7
  <2>2. astray' = astray
    BY <2>1 DEF Send
  <2> QED BY <2>1, <2>2, SendKeepsCurrent DEF CurrentInv
<1>8. CASE \E w \in Workers : \E oks \in SUBSET Answerable(w) : Finish(w, oks)
  <2>1. PICK w \in Workers : \E oks \in SUBSET Answerable(w) : Finish(w, oks)
    BY <1>8
  <2>2. PICK oks \in SUBSET Answerable(w) : Finish(w, oks)
    BY <2>1
  <2>3. /\ Rewrites(work[w].id) /\ outbox[work[w].id].state = "claimed"
        /\ outbox'[work[w].id].state # "superseded"
    BY <2>2, FinishDoes, Zenon DEF IInv
  <2>4. UNCHANGED <<content, wire, astray>> /\ work[w].id \in Ids
    BY <2>2, <2>3 DEF Finish, Rewrites, Writes
  <2> QED BY <1>0, <1>1, <2>3, <2>4
<1>9. CASE \E event \in wire : Deliver(event)
  BY <1>2, <1>9 DEF Deliver
<1>10. CASE \E i \in Ids : Recover(i) \/ SweepNoRoute(i)
  <2>1. PICK i \in Ids : Recover(i) \/ SweepNoRoute(i)
    BY <1>10
  <2>2. Silent(i) /\ UNCHANGED <<content, wire, astray>> /\ outbox[i].state \in LiveStates
    BY <1>0, <2>1, RecoverDoes, SweepDoes DEF IInv, Recover, SweepNoRoute
  <2>3. outbox'[i].state # "superseded"
    BY <2>1, RecoverDoes, SweepDoes DEF IInv
  <2> QED BY <1>1, <2>2, <2>3 DEF Silent
<1>11. CASE \E i \in Ids : Retry(i)
  <2>1. PICK i \in Ids : Retry(i)
    BY <1>11
  <2>2. Silent(i) /\ outbox'[i].state # "superseded" /\ Rewrites(i)
    BY <2>1, RetryDoes DEF IInv, Silent
  <2>3. UNCHANGED <<content, wire>>
    BY <2>1 DEF Retry
  <2>4. CASE outbox[i].state = "failed"
    <3> SUFFICES ASSUME NEW a \in Listings, astray'[a] = {} PROVE (Current(a))'
      BY DEF CurrentInv
    <3>1. a \in Aggregates /\ astray' = [astray EXCEPT ![outbox[i].agg] = @ \cup {"retried"}]
      BY <2>1, <2>4 DEF Retry, Aggregates
    <3>2. outbox[i].agg # a /\ astray[a] = {}
      BY <3>1 DEF IInv, TypeOK
    <3> QED BY <2>2, <2>3, <3>2, RewritingKeepsCurrent DEF CurrentInv
  <2>5. CASE outbox[i].state # "failed"
    <3>1. outbox[i].state \in LiveStates /\ astray' = astray
      BY <1>0, <2>1, <2>5 DEF Retry
    <3> QED BY <1>1, <2>2, <2>3, <3>1
  <2> QED BY <2>4, <2>5
<1>12. CASE UNCHANGED vars
  BY <1>2, <1>12 DEF vars
<1>13. CASE Next
  BY <1>3, <1>4, <1>5, <1>6, <1>7, <1>8, <1>9, <1>10, <1>11, <1>13, Steps, Zenon
<1> QED BY <1>12, <1>13

\* What was announced before the start is current.
LEMMA InitCurrent == Init => CurrentInv
<1> SUFFICES ASSUME Init, NEW a \in Listings PROVE Current(a)
  BY DEF CurrentInv
<1> DEFINE first == DOMAIN Announced
<1>1. /\ Ids = first /\ outbox = [n \in first |-> Announcement(n)]
      /\ wire = {AnnouncedEvent(n, relay) : n \in first, relay \in PublicRelays}
  BY DEF Init, Ids
<1>2. \A n \in first : /\ outbox[n].agg = Announced[n] /\ outbox[n].rev = 1
                       /\ outbox[n].kind = "put" /\ outbox[n].state = "published"
  BY <1>1 DEF Announcement
<1>3. /\ content[a].rev = (IF \E n \in first : Announced[n] = a THEN 1 ELSE 0)
      /\ content[a].ver = (IF \E n \in first : Announced[n] = a THEN 1 ELSE 0)
      /\ (\E n \in first : Announced[n] = a) => content[a].shown = TRUE
  <2>1. a \in Aggregates
    BY DEF Aggregates
  <2> QED BY <2>1 DEF Init
<1>4. \A m, n \in first : Announced[m] = a /\ Announced[n] = a => m = n
  BY OutboxAssumption
<1>5. \A n \in first : ~ n < n
  <2>1. first \subseteq Nat
    BY OutboxAssumption, LenProperties
  <2> QED BY <2>1
<1> HIDE DEF first
<1>6. RowsCurrent(a)
  <2> SUFFICES ASSUME NEW i \in first, Announced[i] = a
               PROVE  /\ outbox[i].rev <= content[a].rev
                      /\ outbox[i].state \in LiveStates => outbox[i].rev = content[a].rev
                      /\ outbox[i].rev = content[a].rev =>
                           /\ outbox[i].state # "superseded"
                           /\ outbox[i].kind = (IF content[a].shown THEN "put" ELSE "del")
                      /\ \A j \in first : outbox[j].agg = a /\ i < j => outbox[i].rev < outbox[j].rev
    BY <1>1, <1>2 DEF RowsCurrent
  <2> QED BY <1>2, <1>3, <1>4, <1>5
<1>7. CurrentAnnounced(a)
  BY <1>1, <1>2, <1>3 DEF CurrentAnnounced
<1>8. \A x \in wire : x.id \in first /\ x.agg = Announced[x.id] /\ x.ver = 1
  BY <1>1 DEF AnnouncedEvent
<1>9. EventsCurrent(a)
  BY <1>3, <1>4, <1>5, <1>8 DEF EventsCurrent
<1> QED BY <1>6, <1>7, <1>9 DEF Current

\* Once the intents of a current listing have ended, what relays show is current.
LEMMA SettledShows ==
  ASSUME IInv, NEW a \in Listings, Current(a), Settled(a)
  PROVE  Shows(a)
<1>1. PICK k \in Ids : outbox[k].agg = a /\ outbox[k].rev = content[a].rev
  BY DEF Settled, Current, CurrentAnnounced
<1>2. /\ outbox[k].state = "published"
      /\ outbox[k].kind = (IF content[a].shown THEN "put" ELSE "del")
  BY <1>1 DEF Settled, Current, RowsCurrent
<1>3. PICK z \in received : z.id = k
  <2>1. "public" \in Copies(k)
    BY <1>2 DEF Copies
  <2>2. PICK r \in outbox[k].accepted : CopyOf[r] = "public"
    BY <1>1, <1>2, <2>1 DEF IInv, EvidenceSound, CopiesOf
  <2> QED BY <1>1, <2>2 DEF IInv, EvidenceSound
<1>4. \A x \in received : /\ x \in wire /\ x.id \in Ids /\ x.id \in Nat /\ x.stamp \in Nat
                          /\ x.agg = outbox[x.id].agg /\ x.kind = outbox[x.id].kind
  BY DEF IInv, TypeOK, WireSound, Events
<1>5. z.agg = a
  BY <1>1, <1>3, <1>4
<1> SUFFICES ASSUME NEW x \in Newest(a)
             PROVE  IF content[a].shown THEN x.kind = "put" /\ x.ver = content[a].ver
                    ELSE x.kind = "del"
  BY DEF Shows
<1>6. x \in received /\ x.agg = a /\ z.stamp <= x.stamp
  BY <1>3, <1>5 DEF Newest
<1>7. x.id = k
  <2>1. ~ x.id < k
    <3>1. x.id < k => x.stamp < z.stamp
      BY <1>3, <1>4, <1>5, <1>6 DEF Current, EventsCurrent
    <3> QED BY <1>3, <1>4, <1>6, <3>1
  <2>2. ~ k < x.id
    <3>1. \A j \in Ids : outbox[j].rev \in Nat
      BY TableRows, RowFields DEF IInv
    <3>2. outbox[x.id].agg = a /\ outbox[x.id].rev <= content[a].rev
      BY <1>4, <1>6 DEF Current, RowsCurrent
    <3>3. k < x.id => outbox[k].rev < outbox[x.id].rev
      BY <1>1, <1>4, <1>6, <3>2 DEF Current, RowsCurrent
    <3> QED BY <1>1, <1>4, <1>6, <3>1, <3>2, <3>3
  <2>3. k \in Nat
    BY TableRows DEF IInv
  <2> QED BY <1>4, <1>6, <2>1, <2>2, <2>3
<1>8. x.kind = "put" => x.ver = content[a].ver
  BY <1>1, <1>4, <1>6, <1>7 DEF Current, EventsCurrent
<1> QED BY <1>2, <1>4, <1>6, <1>7, <1>8

\* Once a listing's intents have all ended, buyers see what it says now, or its
\* tombstone when it is withdrawn: whatever was superseded in flight, delivered
\* late or sent twice, no older content wins (enqueue_intent, publish_intent).
THEOREM SettledShowsCurrent == Spec => []SettledIsCurrent
<1>1. Init => IInv /\ CurrentInv
  BY InitIInv, InitCurrent
<1>2. IInv /\ CurrentInv /\ [Next]_vars => IInv' /\ CurrentInv'
  BY StepIInv, StepCurrent
<1>3. IInv /\ CurrentInv => SettledIsCurrent
  BY SettledShows DEF CurrentInv, SettledIsCurrent
<1> QED BY <1>1, <1>2, <1>3, PTL DEF Spec

=============================================================================
