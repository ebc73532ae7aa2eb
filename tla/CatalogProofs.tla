---------------------------- MODULE CatalogProofs ----------------------------
(***************************************************************************)
(* Theorems of Catalog for any set of products, collections, options and   *)
(* editors.                                                                *)
(***************************************************************************)
EXTENDS Catalog, SequenceTheorems, FiniteSetTheorems, WellFoundedInduction, TLAPS

-----------------------------------------------------------------------------
\* Sets

\* A set of natural numbers that is not empty has a least element.
LEMMA LeastNumber ==
  ASSUME NEW T \in SUBSET Nat, T # {}
  PROVE  \E m \in T : \A k \in T : m <= k
<1>1. \E m \in T : \A k \in T : ~ (<<k, m>> \in OpToRel(<, Nat))
  BY NatLessThanWellFounded, WFMin
<1>2. PICK m \in T : \A k \in T : ~ (<<k, m>> \in OpToRel(<, Nat))
  BY <1>1
<1>3. \A k \in T : ~ (k < m)
  BY <1>2 DEF OpToRel
<1> QED BY <1>3

\* SetToSeq lists a finite set.
LEMMA SetInSeq ==
  ASSUME NEW S, IsFiniteSet(S)
  PROVE  /\ SetToSeq(S) \in Seq(S)
         /\ \A x \in S : \E i \in 1..Len(SetToSeq(S)) : SetToSeq(S)[i] = x
<1> DEFINE n == Cardinality(S)
<1>1. n \in Nat /\ ExistsBijection(1..n, S)
  BY FS_CardinalityType
<1> DEFINE f == SetToSeq(S)
<1>2. \E g \in [1..n -> S] : IsInjective(g)
  BY <1>1 DEF ExistsBijection, Bijection, Injection
<1>3. f \in [1..n -> S] /\ IsInjective(f)
  BY <1>2 DEF SetToSeq
<1>4. Cardinality(1..n) = n /\ IsFiniteSet(1..n)
  BY <1>1, FS_Interval
<1> HIDE DEF f, n
<1>5. f \in Injection(1..n, S)
  BY <1>3 DEF Injection
<1>6. f \in Surjection(1..n, S)
  BY <1>4, <1>5, FS_Injection DEF n
<1>7. f \in Seq(S) /\ Len(f) = n
  BY <1>1, <1>3, SeqDef, LenProperties
<1>8. \A x \in S : \E i \in 1..Len(f) : f[i] = x
  BY <1>6, <1>7 DEF Surjection
<1> QED BY <1>7, <1>8 DEF f

-----------------------------------------------------------------------------
\* Intents

\* A row's fields have their types.
LEMMA RowFields ==
  ASSUME NEW r \in IntentRow
  PROVE  /\ r.agg \in Listings /\ r.kind \in {"put", "del"} /\ r.rev \in Nat
         /\ r.state \in {"pending", "published", "superseded"} /\ r.deps \in SUBSET Nat
         /\ \A s \in {"pending", "published", "superseded"} :
              /\ [r EXCEPT !.state = s] \in IntentRow
              /\ [r EXCEPT !.state = s].agg = r.agg /\ [r EXCEPT !.state = s].kind = r.kind
              /\ [r EXCEPT !.state = s].rev = r.rev /\ [r EXCEPT !.state = s].deps = r.deps
              /\ [r EXCEPT !.state = s].state = s
BY DEF IntentRow

\* Of the live intents of an aggregate one is the newest.
LEMMA NewestExists ==
  ASSUME NEW q \in Seq(IntentRow), NEW n,
         \E i \in 1..Len(q) : q[i].agg = n /\ q[i].state \in LiveStates
  PROVE  NewestLive(q, n) # {}
<1> DEFINE L == {i \in 1..Len(q) : q[i].agg = n /\ q[i].state \in LiveStates}
           Newer2(j, i) == q[j].rev > q[i].rev \/ (q[j].rev = q[i].rev /\ j > i)
           Above(i) == {j \in L : Newer2(j, i)}
           sizes == {Cardinality(Above(i)) : i \in L}
<1>1. Len(q) \in Nat /\ DOMAIN q = 1..Len(q) /\ \A i \in 1..Len(q) : q[i] \in IntentRow
  BY LenProperties, ElementOfSeq
<1>2. \A i \in L : i \in Nat /\ q[i].rev \in Nat
  <2> SUFFICES ASSUME NEW i \in L PROVE i \in Nat /\ q[i].rev \in Nat
    OBVIOUS
  <2>1. i \in Nat /\ q[i] \in IntentRow
    BY <1>1
  <2> QED BY <2>1, RowFields
<1>3. IsFiniteSet(L)
  <2>1. IsFiniteSet(1..Len(q)) /\ L \in SUBSET (1..Len(q))
    BY <1>1, FS_Interval
  <2> HIDE DEF L
  <2> QED BY <2>1, FS_Subset
<1>4. \A i \in L : IsFiniteSet(Above(i)) /\ Cardinality(Above(i)) \in Nat
  BY <1>3, FS_Subset, FS_CardinalityType
<1>5. PICK i \in L : \A j \in L : Cardinality(Above(i)) <= Cardinality(Above(j))
  <2>1. sizes \in SUBSET Nat /\ sizes # {}
    BY <1>4
  <2>2. PICK m \in sizes : \A k \in sizes : m <= k
    BY <2>1, LeastNumber
  <2> QED BY <2>2
<1>6. Above(i) = {}
  <2> SUFFICES ASSUME NEW j \in Above(i) PROVE FALSE
    OBVIOUS
  <2>1. j \in L
    OBVIOUS
  <2>2. Above(j) \subseteq Above(i) /\ j \notin Above(j)
    BY <1>2, <2>1
  <2>3. Cardinality(Above(j)) <= Cardinality(Above(i)) /\ Above(j) # Above(i)
    BY <1>4, <2>2, FS_Subset
  <2>4. Cardinality(Above(j)) # Cardinality(Above(i))
    <3> HIDE DEF Above
    <3> QED BY <1>4, <2>2, <2>3, FS_Subset
  <2>5. Cardinality(Above(i)) <= Cardinality(Above(j))
    BY <1>5, <2>1
  <2> HIDE DEF Above
  <2> QED BY <1>4, <2>1, <2>3, <2>4, <2>5
<1>7. i \in NewestLive(q, n)
  <2>1. \A j \in L : ~ Newer2(j, i)
    BY <1>6
  <2> QED BY <1>1, <1>2, <2>1 DEF NewestLive
<1> QED BY <1>7

\* What may be said.
Sayings == [agg : Listings, kind : {"put", "del"}, rev : Nat, needs : SUBSET Listings]

\* One thing of each listing.
OneEach(said) == \A t, u \in said : t.agg = u.agg => t = u

\* Row r says t.
Says(r, t) == r.agg = t.agg /\ r.kind = t.kind /\ r.rev = t.rev

SameIntent(r, s) == r.agg = s.agg /\ r.kind = s.kind /\ r.rev = s.rev /\ r.deps = s.deps

\* Something newer than row r is said.
Overtaken(r, said) == \E t \in said : t.agg = r.agg /\ r.rev < t.rev

\* What enqueueing all of said makes of the rows q: r.
Enqueued(q, r, said) ==
  /\ r \in Seq(IntentRow) /\ Len(q) <= Len(r)
  /\ \A i \in 1..Len(q) :
       /\ SameIntent(q[i], r[i])
       /\ r[i].state = IF q[i].state = "pending" /\ Overtaken(q[i], said)
                       THEN "superseded" ELSE q[i].state
  /\ \A i \in 1..Len(r) : i > Len(q) => r[i].state = "pending" /\ \E t \in said : Says(r[i], t)
  /\ \A t \in said : \E i \in 1..Len(r) : r[i].state = "pending" /\ Says(r[i], t)

\* Row i of r waits for an intent of every listing of needs that has one in q.
Awaits(q, r, i, needs) ==
  \A n \in needs :
    (\E j \in 1..Len(q) : q[j].agg = n /\ q[j].state = "pending") =>
      \E j \in r[i].deps : j \in 1..Len(q) /\ r[j].agg = n /\ r[j].state # "published"

\* The only thing said, if it is newer than the rows q, is in a new row, and every new
\* row waits for what it needs.
Bound(q, r, said) ==
  \A t \in said :
    said = {t} /\ (\A i \in 1..Len(q) : q[i].agg = t.agg => q[i].rev < t.rev) =>
      /\ \E i \in 1..Len(r) : i > Len(q) /\ Says(r[i], t)
      /\ \A i \in 1..Len(r) : i > Len(q) => Awaits(q, r, i, t.needs \ {t.agg})

LEMMA EnqueueAllRows ==
  ASSUME NEW q \in Seq(IntentRow), NEW said \in SUBSET Sayings, OneEach(said)
  PROVE  Enqueued(q, EnqueueAll(q, said), said) /\ Bound(q, EnqueueAll(q, said), said)
<1> DEFINE Way(i) == \E t \in said : t.agg = q[i].agg /\ q[i].rev < t.rev /\ q[i].state \in LiveStates
           s == [i \in DOMAIN q |-> IF Way(i) THEN [q[i] EXCEPT !.state = "superseded"] ELSE q[i]]
           new == {t \in said : ~ Covered(s, t.agg, t.kind, t.rev)}
           NewRow(t) == Intent(t.agg, t.kind, t.rev, UNION {NewestLive(s, n) : n \in t.needs})
           rows == {NewRow(t) : t \in new}
           tail == SetToSeq(rows)
           r == s \o tail
<1>1. Len(q) \in Nat /\ DOMAIN q = 1..Len(q) /\ \A i \in 1..Len(q) : q[i] \in IntentRow
  BY LenProperties, ElementOfSeq
<1>2. \A i \in 1..Len(q) : q[i].state \in LiveStates <=> q[i].state = "pending"
  BY <1>1, RowFields DEF LiveStates
<1>3. s \in Seq(IntentRow) /\ Len(s) = Len(q) /\ DOMAIN s = 1..Len(q)
  <2>1. \A i \in 1..Len(q) : [q[i] EXCEPT !.state = "superseded"] \in IntentRow
    BY <1>1, RowFields
  <2>2. s \in [1..Len(q) -> IntentRow]
    BY <1>1, <2>1
  <2> HIDE DEF s
  <2> QED BY <1>1, <2>2, SeqDef, LenProperties
<1>4. \A i \in 1..Len(q) :
        /\ SameIntent(q[i], s[i])
        /\ s[i].state = IF q[i].state = "pending" /\ Overtaken(q[i], said)
                        THEN "superseded" ELSE q[i].state
  <2> SUFFICES ASSUME NEW i \in 1..Len(q)
               PROVE  /\ SameIntent(q[i], s[i])
                      /\ s[i].state = IF q[i].state = "pending" /\ Overtaken(q[i], said)
                                      THEN "superseded" ELSE q[i].state
    OBVIOUS
  <2>1. Way(i) <=> q[i].state = "pending" /\ Overtaken(q[i], said)
    BY <1>2 DEF Overtaken
  <2>2. s[i] = IF Way(i) THEN [q[i] EXCEPT !.state = "superseded"] ELSE q[i]
    BY <1>1
  <2>3. q[i] \in IntentRow
    BY <1>1
  <2> HIDE DEF Way, s
  <2> QED BY <2>1, <2>2, <2>3, RowFields DEF SameIntent
<1>5. \A i \in 1..Len(q) : s[i] \in IntentRow /\ (s[i].state \in LiveStates <=> s[i].state = "pending")
  BY <1>3, ElementOfSeq, RowFields DEF LiveStates
<1>6. \A n : NewestLive(s, n) \subseteq {j \in 1..Len(q) : s[j].agg = n /\ s[j].state = "pending"}
  BY <1>3, <1>5 DEF NewestLive
<1> HIDE DEF s
<1>7. \A t \in said : /\ NewRow(t) \in IntentRow /\ NewRow(t).state = "pending" /\ Says(NewRow(t), t)
                      /\ NewRow(t).deps = UNION {NewestLive(s, n) : n \in t.needs}
  <2> SUFFICES ASSUME NEW t \in said
               PROVE  /\ NewRow(t) \in IntentRow /\ NewRow(t).state = "pending" /\ Says(NewRow(t), t)
                      /\ NewRow(t).deps = UNION {NewestLive(s, n) : n \in t.needs}
    OBVIOUS
  <2> DEFINE deps == UNION {NewestLive(s, n) : n \in t.needs}
  <2>1. deps \in SUBSET Nat
    BY <1>1, <1>6
  <2>2. t.agg \in Listings /\ t.kind \in {"put", "del"} /\ t.rev \in Nat
    BY DEF Sayings
  <2> HIDE DEF deps
  <2>3. NewRow(t) = Intent(t.agg, t.kind, t.rev, deps)
    BY DEF deps
  <2>4. Intent(t.agg, t.kind, t.rev, deps) \in IntentRow
    BY <2>1, <2>2 DEF Intent, IntentRow
  <2> QED BY <2>3, <2>4 DEF Intent, Says, deps
<1>8. IsFiniteSet(rows)
  <2>1. [t \in new |-> t.agg] \in Injection(new, Listings)
    BY DEF OneEach, Injection, IsInjective, Sayings
  <2>2. IsFiniteSet(new)
    BY <2>1, FS_Injection, CatalogAssumption
  <2>3. [t \in new |-> NewRow(t)] \in Surjection(new, rows)
    BY DEF Surjection
  <2> QED BY <2>2, <2>3, FS_Surjection
<1> HIDE DEF NewRow
<1>9. tail \in Seq(rows) /\ \A x \in rows : \E i \in 1..Len(tail) : tail[i] = x
  BY <1>8, SetInSeq
<1>10. rows \subseteq IntentRow
  BY <1>7
<1>11. tail \in Seq(IntentRow) /\ Len(tail) \in Nat /\ \A i \in 1..Len(tail) : tail[i] \in rows
  <2> HIDE DEF rows, tail
  <2>1. Len(tail) \in Nat /\ \A i \in 1..Len(tail) : tail[i] \in rows
    BY <1>9, LenProperties, ElementOfSeq
  <2>2. tail \in [1..Len(tail) -> rows]
    BY <1>9, LenProperties
  <2>3. tail \in [1..Len(tail) -> IntentRow]
    BY <2>1, <2>2, <1>10
  <2> QED BY <2>1, <2>3, SeqDef
<1> HIDE DEF rows, tail
<1>12. r \in Seq(IntentRow) /\ Len(r) = Len(q) + Len(tail)
  <2>1. s \o tail \in Seq(IntentRow) /\ Len(s \o tail) = Len(s) + Len(tail)
    BY <1>3, <1>11, ConcatProperties
  <2> QED BY <2>1, <1>3
<1>13. \A i \in 1..Len(r) : r[i] = IF i <= Len(q) THEN s[i] ELSE tail[i - Len(q)]
  BY <1>1, <1>3, <1>11, ConcatProperties
<1> HIDE DEF r
<1>14. \A t \in new : \E i \in 1..Len(r) : i > Len(q) /\ r[i] = NewRow(t)
  <2> SUFFICES ASSUME NEW t \in new PROVE \E i \in 1..Len(r) : i > Len(q) /\ r[i] = NewRow(t)
    OBVIOUS
  <2>1. PICK k \in 1..Len(tail) : tail[k] = NewRow(t)
    BY <1>9 DEF rows
  <2>2. Len(q) + k \in 1..Len(r) /\ Len(q) + k > Len(q) /\ (Len(q) + k) - Len(q) = k
    BY <1>1, <1>11, <1>12
  <2> DEFINE i == Len(q) + k
  <2>3. i \in 1..Len(r) /\ i > Len(q) /\ ~ (i <= Len(q)) /\ i - Len(q) = k
    BY <1>1, <2>2
  <2> HIDE DEF i
  <2>4. r[i] = tail[k]
    BY <2>3, <1>13
  <2> QED BY <2>1, <2>3, <2>4
<1>15. \A i \in 1..Len(r) : i > Len(q) => \E t \in new : r[i] = NewRow(t)
  <2> SUFFICES ASSUME NEW i \in 1..Len(r), i > Len(q) PROVE \E t \in new : r[i] = NewRow(t)
    OBVIOUS
  <2>1. i - Len(q) \in 1..Len(tail) /\ ~ (i <= Len(q))
    BY <1>1, <1>11, <1>12
  <2> QED BY <2>1, <1>11, <1>13 DEF rows
<1>16. \A i \in 1..Len(q) : i \in 1..Len(r) /\ r[i] = s[i]
  BY <1>1, <1>11, <1>12, <1>13
<1>17. Enqueued(q, r, said)
  <2>1. \A t \in said : \E i \in 1..Len(r) : r[i].state = "pending" /\ Says(r[i], t)
    <3> SUFFICES ASSUME NEW t \in said PROVE \E i \in 1..Len(r) : r[i].state = "pending" /\ Says(r[i], t)
      OBVIOUS
    <3>1. CASE t \in new
      BY <3>1, <1>7, <1>14
    <3>2. CASE t \notin new
      <4>1. PICK i \in 1..Len(q) : /\ s[i].agg = t.agg /\ s[i].rev = t.rev /\ s[i].kind = t.kind
                                   /\ s[i].state \in LiveStates
        BY <3>2, <1>3 DEF Covered
      <4> QED BY <4>1, <1>5, <1>16 DEF Says
    <3> QED BY <3>1, <3>2
  <2>2. Len(q) <= Len(r)
    BY <1>1, <1>11, <1>12
  <2>3. \A i \in 1..Len(r) : i > Len(q) => r[i].state = "pending" /\ \E t \in said : Says(r[i], t)
    BY <1>7, <1>15
  <2> QED BY <2>1, <2>2, <2>3, <1>4, <1>12, <1>16 DEF Enqueued
<1>18. Bound(q, r, said)
  <2> SUFFICES ASSUME NEW t \in said, said = {t},
                      \A i \in 1..Len(q) : q[i].agg = t.agg => q[i].rev < t.rev
               PROVE  /\ \E i \in 1..Len(r) : i > Len(q) /\ Says(r[i], t)
                      /\ \A i \in 1..Len(r) : i > Len(q) => Awaits(q, r, i, t.needs \ {t.agg})
    BY DEF Bound
  <2>1. t \in new
    <3> SUFFICES ASSUME NEW i \in 1..Len(q), s[i].agg = t.agg, s[i].rev = t.rev PROVE FALSE
      BY <1>3 DEF Covered
    <3>1. q[i].agg = t.agg /\ q[i].rev = t.rev
      BY <1>4 DEF SameIntent
    <3>2. q[i].rev < t.rev /\ q[i].rev \in Nat
      BY <3>1, <1>1, RowFields
    <3> QED BY <3>1, <3>2
  <2>2. \E i \in 1..Len(r) : i > Len(q) /\ Says(r[i], t)
    BY <2>1, <1>7, <1>14
  <2>3. ASSUME NEW i \in 1..Len(r), i > Len(q), NEW n \in t.needs \ {t.agg},
               NEW j \in 1..Len(q), q[j].agg = n, q[j].state = "pending"
        PROVE  \E k \in r[i].deps : k \in 1..Len(q) /\ r[k].agg = n /\ r[k].state # "published"
    <3>1. s[j].agg = n /\ s[j].state \in LiveStates
      BY <2>3, <1>4, <1>5 DEF Overtaken, SameIntent
    <3>2. PICK k : k \in NewestLive(s, n)
      BY <3>1, <1>3, NewestExists
    <3>3. k \in 1..Len(q) /\ s[k].agg = n /\ s[k].state = "pending"
      BY <3>2, <1>6
    <3>4. r[i] = NewRow(t)
      BY <2>3, <1>15
    <3>5. k \in r[i].deps
      BY <3>2, <3>4, <1>7
    <3> QED BY <3>3, <3>5, <1>16
  <2> QED BY <2>2, <2>3 DEF Awaits
<1>19. r = EnqueueAll(q, said)
  BY DEF EnqueueAll, r, s, tail, rows, NewRow
<1> QED BY <1>17, <1>18, <1>19

-----------------------------------------------------------------------------
\* Tables

LEMMA TableFields ==
  ASSUME NEW d \in Tables
  PROVE  /\ d.row \in [Listings -> [state : {"none", "live", "deleted"}, rev : Nat, open : BOOLEAN]]
         /\ \A a \in Listings : /\ d.row[a].state \in {"none", "live", "deleted"}
                                /\ d.row[a].rev \in Nat /\ d.row[a].open \in BOOLEAN
         /\ d.members \in SUBSET (Products \X Collections)
         /\ d.ships \in SUBSET (Listings \X (Collections \cup Options))
         /\ d.outbox \in Seq(IntentRow) /\ Len(d.outbox) \in Nat
         /\ DOMAIN d.outbox = 1..Len(d.outbox)
         /\ \A i \in 1..Len(d.outbox) : /\ d.outbox[i] \in IntentRow
                                        /\ d.outbox[i].agg \in Listings
                                        /\ d.outbox[i].rev \in Nat
                                        /\ d.outbox[i].kind \in {"put", "del"}
                                        /\ d.outbox[i].state \in {"pending", "published", "superseded"}
<1>1. d.outbox \in Seq(IntentRow)
  BY DEF Tables
<1>2. \A i \in 1..Len(d.outbox) : d.outbox[i] \in IntentRow
  BY <1>1, ElementOfSeq
<1>3. Len(d.outbox) \in Nat /\ DOMAIN d.outbox = 1..Len(d.outbox)
  BY <1>1, LenProperties
<1>4. \A a \in Listings : d.row[a] \in [state : {"none", "live", "deleted"}, rev : Nat, open : BOOLEAN]
  BY DEF Tables
<1> QED BY <1>1, <1>2, <1>3, <1>4, RowFields DEF Tables

\* What is written into one field leaves the others alone.
LEMMA RowWrites ==
  ASSUME NEW d \in Tables,
         NEW row \in [Listings -> [state : {"none", "live", "deleted"}, rev : Nat, open : BOOLEAN]]
  PROVE  LET e == [d EXCEPT !.row = row] IN
           /\ e \in Tables /\ e.row = row /\ e.members = d.members /\ e.ships = d.ships
           /\ e.outbox = d.outbox
BY DEF Tables

LEMMA OutboxWrites ==
  ASSUME NEW d \in Tables, NEW q \in Seq(IntentRow)
  PROVE  LET e == [d EXCEPT !.outbox = q] IN
           /\ e \in Tables /\ e.row = d.row /\ e.members = d.members /\ e.ships = d.ships
           /\ e.outbox = q
BY DEF Tables

LEMMA MembersWrites ==
  ASSUME NEW d \in Tables, NEW members \in SUBSET (Products \X Collections)
  PROVE  LET e == [d EXCEPT !.members = members] IN
           /\ e \in Tables /\ e.row = d.row /\ e.members = members /\ e.ships = d.ships
           /\ e.outbox = d.outbox
BY DEF Tables

LEMMA ShipsWrites ==
  ASSUME NEW d \in Tables, NEW ships \in SUBSET (Listings \X (Collections \cup Options))
  PROVE  LET e == [d EXCEPT !.ships = ships] IN
           /\ e \in Tables /\ e.row = d.row /\ e.members = d.members /\ e.ships = ships
           /\ e.outbox = d.outbox
BY DEF Tables

\* Everything a rendering reads is the same, but for revisions.
SameShape(d, e) ==
  /\ d.members = e.members /\ d.ships = e.ships
  /\ \A a \in Listings : d.row[a].state = e.row[a].state /\ d.row[a].open = e.row[a].open

LEMMA ShapeReads ==
  ASSUME NEW d, NEW e, SameShape(d, e), NEW a \in Listings
  PROVE  /\ Alive(d, a) <=> Alive(e, a)
         /\ Publishes(d, a) <=> Publishes(e, a)
         /\ Rendering(d, a) = Rendering(e, a)
         /\ CollectionsOf(d, a) = CollectionsOf(e, a) /\ ShipsOf(d, a) = ShipsOf(e, a)
         /\ \A listings \in SUBSET Listings : Publishing(d, listings) = Publishing(e, listings)
<1>1. \A b \in Listings : (Alive(d, b) <=> Alive(e, b)) /\ (Offered(d, b) <=> Offered(e, b))
  BY DEF SameShape, Alive, Offered
<1>2. \A c : MembersOf(d, c) = MembersOf(e, c)
  BY <1>1 DEF SameShape, MembersOf, Listings
<1>3. \A b \in Listings : Publishes(d, b) <=> Publishes(e, b)
  BY <1>1, <1>2 DEF Publishes
<1>4. \A b : CollectionsOf(d, b) = CollectionsOf(e, b) /\ ShipsOf(d, b) = ShipsOf(e, b)
  BY DEF SameShape, CollectionsOf, ShipsOf
<1>5. Rendering(d, a) = Rendering(e, a)
  <2>1. {c \in CollectionsOf(d, a) : Alive(d, c)} = {c \in CollectionsOf(e, a) : Alive(e, c)}
    BY <1>1, <1>4 DEF CollectionsOf, Listings
  <2>2. {x \in ShipsOf(d, a) : Alive(d, x)} = {x \in ShipsOf(e, a) : Alive(e, x)}
    BY <1>1, <1>4 DEF ShipsOf, Listings
  <2> QED BY <1>2, <2>1, <2>2 DEF Rendering
<1>6. \A listings \in SUBSET Listings : Publishing(d, listings) = Publishing(e, listings)
  BY <1>3 DEF Publishing
<1> QED BY <1>1, <1>3, <1>4, <1>5, <1>6

\* The kind of intent a listing calls for, one that is waiting, no tombstone in the
\* way of a listing that is published, no intent beyond the revision of its row.
Kind(d, a) == IF Publishes(d, a) THEN "put" ELSE "del"

Waits(d, a) ==
  \E i \in 1..Len(d.outbox) :
    d.outbox[i].agg = a /\ d.outbox[i].kind = Kind(d, a) /\ d.outbox[i].state = "pending"

NoTombstone(d, a) ==
  Publishes(d, a) =>
    \A i \in 1..Len(d.outbox) :
      d.outbox[i].agg = a /\ d.outbox[i].kind = "del" => d.outbox[i].state # "pending"

Within(d, a) ==
  \A i \in 1..Len(d.outbox) : d.outbox[i].agg = a => d.outbox[i].rev <= d.row[a].rev

Below(d, a, rev) ==
  \A i \in 1..Len(d.outbox) : d.outbox[i].agg = a => d.outbox[i].rev < rev

\* An older row is as it was, or it has given way to something said of S.
StaysOrYields(q, r, S) ==
  /\ Len(q) <= Len(r)
  /\ \A i \in 1..Len(q) :
       /\ SameIntent(q[i], r[i])
       /\ \/ r[i].state = q[i].state
          \/ q[i].state = "pending" /\ r[i].state = "superseded" /\ q[i].agg \in S

\* e is d after S has been said as it should; numbers of O apart.
Tells(d, e, S, O) ==
  /\ e \in Tables /\ SameShape(d, e)
  /\ \A a \in Listings : d.row[a].rev <= e.row[a].rev
  /\ StaysOrYields(d.outbox, e.outbox, S)
  /\ \A i \in 1..Len(e.outbox) : i > Len(d.outbox) =>
       /\ e.outbox[i].state \in {"pending", "superseded"} /\ e.outbox[i].agg \in S
       /\ e.outbox[i].kind = Kind(e, e.outbox[i].agg)
  /\ \A a \in Listings \ O : Within(d, a) => Within(e, a)
  /\ \A a \in S : Waits(e, a)

\* Who is told something keeps what it waits for and is met by no tombstone.
LEMMA TellsKeeps ==
  ASSUME NEW d \in Tables, NEW e, NEW S, NEW O, Tells(d, e, S, O), NEW a \in Listings
  PROVE  /\ Waits(d, a) => Waits(e, a)
         /\ NoTombstone(d, a) => NoTombstone(e, a)
         /\ WasPut(d, a) => WasPut(e, a)
         /\ Kind(d, a) = Kind(e, a)
<1>1. Kind(d, a) = Kind(e, a) /\ (Publishes(d, a) <=> Publishes(e, a))
  BY ShapeReads DEF Kind, Tells
<1>2. /\ Len(d.outbox) \in Nat /\ Len(e.outbox) \in Nat /\ Len(d.outbox) <= Len(e.outbox)
      /\ DOMAIN d.outbox = 1..Len(d.outbox) /\ DOMAIN e.outbox = 1..Len(e.outbox)
  BY TableFields DEF Tells, StaysOrYields
<1>3. Waits(d, a) => Waits(e, a)
  <2>1. CASE a \in S
    BY <2>1 DEF Tells
  <2>2. CASE a \notin S
    <3> SUFFICES ASSUME NEW i \in 1..Len(d.outbox), d.outbox[i].agg = a,
                        d.outbox[i].kind = Kind(d, a), d.outbox[i].state = "pending"
                 PROVE  Waits(e, a)
      BY DEF Waits
    <3>1. e.outbox[i].agg = a /\ e.outbox[i].kind = Kind(d, a) /\ e.outbox[i].state = "pending"
      BY <2>2 DEF Tells, StaysOrYields, SameIntent
    <3> QED BY <3>1, <1>1, <1>2 DEF Waits
  <2> QED BY <2>1, <2>2
<1>4. NoTombstone(d, a) => NoTombstone(e, a)
  <2> SUFFICES ASSUME NoTombstone(d, a), Publishes(e, a), NEW i \in 1..Len(e.outbox),
                      e.outbox[i].agg = a, e.outbox[i].kind = "del"
               PROVE  e.outbox[i].state # "pending"
    BY DEF NoTombstone
  <2>1. i \in 1..Len(d.outbox)
    BY <1>2 DEF Tells, Kind
  <2> QED BY <2>1, <1>1 DEF NoTombstone, Tells, StaysOrYields, SameIntent
<1>5. WasPut(d, a) => WasPut(e, a)
  BY <1>2 DEF WasPut, Tells, StaysOrYields, SameIntent
<1> QED BY <1>1, <1>3, <1>4, <1>5

\* What becomes of older rows in two transformations.
LEMMA StaysTwice ==
  ASSUME NEW q, NEW r, NEW s, NEW S, NEW T,
         Len(q) \in Nat, Len(r) \in Nat, Len(s) \in Nat,
         StaysOrYields(q, r, S), StaysOrYields(r, s, T)
  PROVE  StaysOrYields(q, s, S \cup T)
<1>1. Len(q) <= Len(r) /\ Len(r) <= Len(s)
  BY DEF StaysOrYields
<1>2. ASSUME NEW i \in 1..Len(q)
      PROVE  /\ SameIntent(q[i], s[i])
             /\ \/ s[i].state = q[i].state
                \/ q[i].state = "pending" /\ s[i].state = "superseded" /\ q[i].agg \in S \cup T
  <2>1. i \in 1..Len(r)
    BY <1>1
  <2>2. /\ SameIntent(q[i], r[i])
        /\ \/ r[i].state = q[i].state
           \/ q[i].state = "pending" /\ r[i].state = "superseded" /\ q[i].agg \in S
    BY DEF StaysOrYields
  <2>3. /\ SameIntent(r[i], s[i])
        /\ \/ s[i].state = r[i].state
           \/ r[i].state = "pending" /\ s[i].state = "superseded" /\ r[i].agg \in T
    BY <2>1 DEF StaysOrYields
  <2> QED BY <2>2, <2>3 DEF SameIntent
<1> QED BY <1>1, <1>2 DEF StaysOrYields

\* One telling after another.
LEMMA TellsTwice ==
  ASSUME NEW d \in Tables, NEW e, NEW f, NEW S \in SUBSET Listings, NEW T \in SUBSET Listings,
         NEW O, NEW R, Tells(d, e, S, O), Tells(e, f, T, R)
  PROVE  Tells(d, f, S \cup T, O \cup R)
<1>1. e \in Tables /\ f \in Tables
  BY DEF Tells
<1>2. /\ Len(d.outbox) \in Nat /\ Len(e.outbox) \in Nat /\ Len(f.outbox) \in Nat
      /\ Len(d.outbox) <= Len(e.outbox) /\ Len(e.outbox) <= Len(f.outbox)
  BY <1>1, TableFields DEF Tells, StaysOrYields
<1>3. SameShape(d, f)
  BY DEF Tells, SameShape
<1>4. \A a \in Listings : d.row[a].rev <= f.row[a].rev
  <2> SUFFICES ASSUME NEW a \in Listings PROVE d.row[a].rev <= f.row[a].rev
    OBVIOUS
  <2>1. d.row[a].rev \in Nat /\ e.row[a].rev \in Nat /\ f.row[a].rev \in Nat
    BY <1>1, TableFields
  <2> QED BY <2>1 DEF Tells
<1>5. StaysOrYields(d.outbox, f.outbox, S \cup T)
  <2>1. StaysOrYields(d.outbox, e.outbox, S) /\ StaysOrYields(e.outbox, f.outbox, T)
    BY DEF Tells
  <2> QED BY <1>2, <2>1, StaysTwice
<1>6. ASSUME NEW i \in 1..Len(f.outbox), i > Len(d.outbox)
      PROVE  /\ f.outbox[i].agg \in S \cup T
             /\ f.outbox[i].kind = Kind(f, f.outbox[i].agg)
             /\ f.outbox[i].state \in {"pending", "superseded"}
  <2>1. CASE i > Len(e.outbox)
    BY <2>1 DEF Tells
  <2>2. CASE ~ (i > Len(e.outbox))
    <3>1. i \in 1..Len(e.outbox)
      BY <2>2, <1>2
    <3>2. /\ e.outbox[i].agg \in S
          /\ e.outbox[i].kind = Kind(e, e.outbox[i].agg) /\ SameIntent(e.outbox[i], f.outbox[i])
          /\ f.outbox[i].state \in {"pending", "superseded"}
      BY <3>1, <1>6 DEF Tells, StaysOrYields
    <3>3. Kind(e, e.outbox[i].agg) = Kind(f, e.outbox[i].agg)
      BY <3>2, <1>1, TellsKeeps
    <3> QED BY <3>2, <3>3 DEF SameIntent
  <2> QED BY <2>1, <2>2
<1>7. \A a \in Listings \ (O \cup R) : Within(d, a) => Within(f, a)
  BY DEF Tells
<1>8. \A a \in S \cup T : Waits(f, a)
  BY <1>1, TellsKeeps DEF Tells
<1> QED BY <1>1, <1>3, <1>4, <1>5, <1>6, <1>7, <1>8 DEF Tells

-----------------------------------------------------------------------------
\* What the functions a request calls do to the tables

\* Counting up.
LEMMA CountedTells ==
  ASSUME NEW d \in Tables, NEW listings \in SUBSET Listings, NEW O
  PROVE  LET e == Counted(d, listings) IN
           /\ Tells(d, e, {}, O) /\ e.outbox = d.outbox
           /\ \A a \in Listings : e.row[a].rev = IF a \in listings THEN d.row[a].rev + 1 ELSE d.row[a].rev
           /\ \A a \in listings : Within(d, a) => Below(e, a, e.row[a].rev)
<1> DEFINE row == [a \in Listings |-> IF a \in listings THEN [d.row[a] EXCEPT !.rev = d.row[a].rev + 1] ELSE d.row[a]]
           e == Counted(d, listings)
<1> DEFINE Row == [state : {"none", "live", "deleted"}, rev : Nat, open : BOOLEAN]
<1>0. \A a \in Listings : d.row[a] \in Row
  BY DEF Tables
<1>1. row \in [Listings -> Row]
  <2> SUFFICES ASSUME NEW a \in Listings PROVE row[a] \in Row
    OBVIOUS
  <2>1. d.row[a] \in Row
    BY <1>0
  <2>2. [d.row[a] EXCEPT !.rev = d.row[a].rev + 1] \in Row
    BY <2>1
  <2> QED BY <2>1, <2>2
<1>2. \A a \in Listings : /\ row[a].state = d.row[a].state /\ row[a].open = d.row[a].open
                          /\ row[a].rev = IF a \in listings THEN d.row[a].rev + 1 ELSE d.row[a].rev
  <2> SUFFICES ASSUME NEW a \in Listings
               PROVE  /\ row[a].state = d.row[a].state /\ row[a].open = d.row[a].open
                      /\ row[a].rev = IF a \in listings THEN d.row[a].rev + 1 ELSE d.row[a].rev
    OBVIOUS
  <2> QED BY <1>0
<1>3. e = [d EXCEPT !.row = row]
  BY DEF Counted
<1> HIDE DEF row, e
<1>4. e \in Tables /\ e.row = row /\ e.members = d.members /\ e.ships = d.ships /\ e.outbox = d.outbox
  BY <1>1, <1>3, RowWrites
<1>5. SameShape(d, e)
  BY <1>2, <1>4 DEF SameShape
<1>6. \A a \in Listings : d.row[a].rev <= e.row[a].rev
  <2> SUFFICES ASSUME NEW a \in Listings PROVE d.row[a].rev <= e.row[a].rev
    OBVIOUS
  <2>1. d.row[a].rev \in Nat
    BY TableFields
  <2>2. e.row[a].rev = IF a \in listings THEN d.row[a].rev + 1 ELSE d.row[a].rev
    BY <1>2, <1>4
  <2> QED BY <2>1, <2>2
<1>7. StaysOrYields(d.outbox, e.outbox, {})
  BY <1>4, TableFields DEF StaysOrYields, SameIntent
<1>8. \A a \in Listings : Within(d, a) => Within(e, a)
  <2> SUFFICES ASSUME NEW a \in Listings, Within(d, a), NEW i \in 1..Len(d.outbox), d.outbox[i].agg = a
               PROVE  d.outbox[i].rev <= e.row[a].rev
    BY <1>4 DEF Within
  <2>1. d.outbox[i].rev \in Nat /\ d.row[a].rev \in Nat /\ d.outbox[i].rev <= d.row[a].rev
    BY TableFields DEF Within
  <2> QED BY <2>1, <1>2, <1>4
<1>9. \A a \in listings : Within(d, a) => Below(e, a, e.row[a].rev)
  <2> SUFFICES ASSUME NEW a \in listings, Within(d, a), NEW i \in 1..Len(d.outbox), d.outbox[i].agg = a
               PROVE  d.outbox[i].rev < e.row[a].rev
    BY <1>4 DEF Below
  <2>1. d.outbox[i].rev \in Nat /\ d.row[a].rev \in Nat /\ d.outbox[i].rev <= d.row[a].rev
    BY TableFields DEF Within
  <2> QED BY <2>1, <1>2, <1>4
<1>10. Tells(d, e, {}, O)
  BY <1>4, <1>5, <1>6, <1>7, <1>8, TableFields DEF Tells
<1> QED BY <1>2, <1>4, <1>9, <1>10 DEF e

\* Said as it should be.
Right(d, said, O) ==
  /\ said \in SUBSET Sayings /\ OneEach(said)
  /\ \A t \in said : t.kind = Kind(d, t.agg) /\ (t.agg \notin O => t.rev <= d.row[t.agg].rev)

LEMMA SayTells ==
  ASSUME NEW d \in Tables, NEW said, NEW O, Right(d, said, O)
  PROVE  LET e == Say(d, said) IN
           /\ Tells(d, e, {t.agg : t \in said}, O) /\ e.row = d.row
           /\ Bound(d.outbox, e.outbox, said)
           /\ \A t \in said : Below(d, t.agg, t.rev) => NoTombstone(e, t.agg)
<1> DEFINE e == Say(d, said)
           r == EnqueueAll(d.outbox, said)
           S == {t.agg : t \in said}
<1>1. d.outbox \in Seq(IntentRow) /\ Len(d.outbox) \in Nat
  BY TableFields
<1>2. Enqueued(d.outbox, r, said) /\ Bound(d.outbox, r, said)
  BY <1>1, EnqueueAllRows DEF Right
<1>3. e = [d EXCEPT !.outbox = r] /\ r \in Seq(IntentRow)
  BY <1>2 DEF Say, Enqueued
<1> HIDE DEF e, r
<1>4. e \in Tables /\ e.row = d.row /\ e.members = d.members /\ e.ships = d.ships /\ e.outbox = r
  BY <1>3, OutboxWrites
<1>5. SameShape(d, e)
  BY <1>4 DEF SameShape
<1>6. \A a \in Listings : Kind(d, a) = Kind(e, a) /\ (Publishes(d, a) <=> Publishes(e, a))
  BY <1>5, ShapeReads DEF Kind
<1>7. \A t \in said : t.agg \in Listings /\ t.rev \in Nat /\ t.kind = Kind(e, t.agg)
  BY <1>6 DEF Right, Sayings
<1>8. StaysOrYields(d.outbox, r, S)
  <2>1. \A i \in 1..Len(d.outbox) : Overtaken(d.outbox[i], said) => d.outbox[i].agg \in S
    BY DEF Overtaken
  <2>2. \A i \in 1..Len(d.outbox) :
          \/ r[i].state = d.outbox[i].state
          \/ d.outbox[i].state = "pending" /\ r[i].state = "superseded" /\ d.outbox[i].agg \in S
    BY <1>2, <2>1 DEF Enqueued
  <2> QED BY <1>2, <2>2 DEF Enqueued, StaysOrYields
<1>9. \A i \in 1..Len(r) : i > Len(d.outbox) =>
        /\ r[i].state = "pending" /\ r[i].agg \in S /\ r[i].kind = Kind(e, r[i].agg)
  BY <1>2, <1>7 DEF Enqueued, Says
<1>10. ASSUME NEW a \in Listings \ O, Within(d, a)
       PROVE  Within(e, a)
  <2> SUFFICES ASSUME NEW i \in 1..Len(r), r[i].agg = a
               PROVE  r[i].rev <= d.row[a].rev
    BY <1>4 DEF Within
  <2>1. CASE i > Len(d.outbox)
    BY <2>1, <1>2 DEF Enqueued, Says, Right
  <2>2. CASE ~ (i > Len(d.outbox))
    <3>1. i \in 1..Len(d.outbox)
      BY <2>2, <1>1
    <3> QED BY <3>1, <1>8, <1>10 DEF Within, StaysOrYields, SameIntent
  <2> QED BY <2>1, <2>2
<1>11. \A a \in S : Waits(e, a)
  BY <1>2, <1>4, <1>7 DEF Waits, Enqueued, Says
<1>12. \A a \in Listings : d.row[a].rev <= e.row[a].rev
  BY <1>4, TableFields
<1>13. Tells(d, e, S, O)
  BY <1>4, <1>5, <1>8, <1>9, <1>10, <1>11, <1>12 DEF Tells
<1>14. ASSUME NEW t \in said, Below(d, t.agg, t.rev)
       PROVE  NoTombstone(e, t.agg)
  <2> SUFFICES ASSUME Publishes(e, t.agg), NEW i \in 1..Len(r), r[i].agg = t.agg, r[i].kind = "del"
               PROVE  r[i].state # "pending"
    BY <1>4 DEF NoTombstone
  <2>1. ~ (i > Len(d.outbox))
    BY <1>9 DEF Kind
  <2>2. i \in 1..Len(d.outbox)
    BY <2>1, <1>1
  <2>3. d.outbox[i].agg = t.agg
    BY <2>2, <1>8 DEF StaysOrYields, SameIntent
  <2>4. Overtaken(d.outbox[i], said)
    BY <2>2, <2>3, <1>14 DEF Overtaken, Below
  <2> QED BY <2>2, <2>4, <1>2 DEF Enqueued
<1> QED BY <1>2, <1>4, <1>13, <1>14 DEF e, r

\* Puts and tombstones that are said.
LEMMA PutSays ==
  ASSUME NEW d \in Tables, NEW a \in Listings, NEW rev \in Nat
  PROVE  /\ Put(d, a, rev) \in Sayings /\ Put(d, a, rev).agg = a
         /\ Put(d, a, rev).kind = "put" /\ Put(d, a, rev).rev = rev
BY DEF Put, Sayings, CollectionsOf, ShipsOf, Listings

LEMMA DelSays ==
  ASSUME NEW d \in Tables, NEW a \in Listings, NEW survivors \in SUBSET Listings
  PROVE  /\ Del(d, a, survivors) \in Sayings /\ Del(d, a, survivors).agg = a
         /\ Del(d, a, survivors).kind = "del" /\ Del(d, a, survivors).rev = d.row[a].rev
         /\ Del(d, a, survivors).needs = survivors
BY TableFields DEF Del, Sayings

LEMMA AnnounceTells ==
  ASSUME NEW d \in Tables, NEW a \in Listings, NEW rev \in Nat, NEW O,
         a \notin O => rev <= d.row[a].rev
  PROVE  LET e == Announce(d, a, rev) IN
           /\ Tells(d, e, Publishing(d, {a}), O) /\ e.row = d.row
           /\ Below(d, a, rev) => NoTombstone(e, a)
<1> DEFINE said == {Put(d, b, rev) : b \in Publishing(d, {a})}
           e == Announce(d, a, rev)
<1>1. said = IF Publishes(d, a) THEN {Put(d, a, rev)} ELSE {}
  BY DEF Publishing
<1>2. Right(d, said, O)
  <2>1. Put(d, a, rev) \in Sayings /\ Put(d, a, rev).agg = a /\ Put(d, a, rev).kind = "put"
        /\ Put(d, a, rev).rev = rev
    BY PutSays
  <2> QED BY <1>1, <2>1 DEF Right, OneEach, Kind
<1>3. {t.agg : t \in said} = Publishing(d, {a})
  <2>1. {Put(d, a, rev).agg} = {a}
    BY PutSays
  <2> QED BY <1>1, <2>1 DEF Publishing
<1>4. e = Say(d, said)
  BY DEF Announce
<1> HIDE DEF said, e
<1>5. /\ Tells(d, e, Publishing(d, {a}), O) /\ e.row = d.row
      /\ \A t \in said : Below(d, t.agg, t.rev) => NoTombstone(e, t.agg)
  BY <1>2, <1>3, <1>4, SayTells
<1>6. ASSUME Below(d, a, rev) PROVE NoTombstone(e, a)
  <2>1. CASE Publishes(d, a)
    <3>1. Put(d, a, rev) \in said /\ Put(d, a, rev).agg = a /\ Put(d, a, rev).rev = rev
      BY <2>1, <1>1, PutSays
    <3> QED BY <3>1, <1>5, <1>6
  <2>2. CASE ~ Publishes(d, a)
    BY <2>2, <1>5, ShapeReads DEF NoTombstone, Tells
  <2> QED BY <2>1, <2>2
<1> QED BY <1>5, <1>6 DEF e

LEMMA WithdrawTells ==
  ASSUME NEW d \in Tables, NEW a \in Listings, NEW survivors \in SUBSET Listings, ~ Publishes(d, a)
  PROVE  LET e == Withdraw(d, a, survivors) IN
           /\ Tells(d, e, {a}, {}) /\ e.row = d.row
           /\ Bound(d.outbox, e.outbox, {Del(d, a, survivors)})
<1> DEFINE said == {Del(d, a, survivors)}
<1>1. Right(d, said, {})
  BY DelSays, TableFields DEF Right, OneEach, Kind
<1>2. {t.agg : t \in said} = {a}
  BY DelSays
<1>3. Withdraw(d, a, survivors) = Say(d, said)
  BY DEF Withdraw
<1> HIDE DEF said
<1>4. /\ Tells(d, Say(d, said), {a}, {}) /\ Say(d, said).row = d.row
      /\ Bound(d.outbox, Say(d, said).outbox, said)
  BY <1>1, <1>2, SayTells
<1> QED BY <1>3, <1>4 DEF said

\* Counting up and saying: of whom is published, or of all.
LEMMA CountAndSay ==
  ASSUME NEW d \in Tables, NEW listings \in SUBSET Listings, NEW said,
         LET e == Counted(d, listings) IN
           /\ said \in SUBSET Sayings
           /\ \A t \in said : /\ t.agg \in listings /\ t.kind = Kind(e, t.agg)
                              /\ t.rev = e.row[t.agg].rev
           /\ OneEach(said)
           /\ \A a \in listings : Publishes(e, a) => \E t \in said : t.agg = a
  PROVE  LET f == Say(Counted(d, listings), said) IN
           /\ Tells(d, f, {t.agg : t \in said}, {})
           /\ \A a \in Listings : f.row[a].rev = IF a \in listings THEN d.row[a].rev + 1 ELSE d.row[a].rev
           /\ \A a \in listings : Within(d, a) => NoTombstone(f, a)
<1> DEFINE e == Counted(d, listings)
           f == Say(e, said)
           S == {t.agg : t \in said}
<1>1. /\ Tells(d, e, {}, {}) /\ e.outbox = d.outbox
      /\ \A a \in Listings : e.row[a].rev = IF a \in listings THEN d.row[a].rev + 1 ELSE d.row[a].rev
      /\ \A a \in listings : Within(d, a) => Below(e, a, e.row[a].rev)
  BY CountedTells
<1>2. e \in Tables
  BY <1>1 DEF Tells
<1>3. Right(e, said, {})
  BY <1>2, TableFields DEF Right
<1>4. S \in SUBSET Listings
  OBVIOUS
<1>5. /\ said \in SUBSET Sayings
      /\ \A t \in said : t.agg \in listings /\ t.rev = e.row[t.agg].rev
      /\ \A a \in listings : Publishes(e, a) => \E t \in said : t.agg = a
  OBVIOUS
<1> HIDE DEF e, f, S
<1>6. /\ Tells(e, f, S, {}) /\ f.row = e.row
      /\ \A t \in said : Below(e, t.agg, t.rev) => NoTombstone(f, t.agg)
  BY <1>2, <1>3, SayTells DEF f, S
<1>7. Tells(d, f, {} \cup S, {} \cup {})
  BY <1>1, <1>4, <1>6, TellsTwice
<1>8. Tells(d, f, S, {})
  BY <1>7
<1>9. ASSUME NEW a \in listings, Within(d, a) PROVE NoTombstone(f, a)
  <2>1. CASE Publishes(e, a)
    <3>1. PICK t \in said : t.agg = a
      BY <2>1, <1>5
    <3> QED BY <3>1, <1>1, <1>5, <1>6, <1>9
  <2>2. CASE ~ Publishes(e, a)
    BY <2>2, <1>6, ShapeReads DEF NoTombstone, Tells
  <2> QED BY <2>1, <2>2
<1> QED BY <1>1, <1>6, <1>8, <1>9 DEF e, f, S

LEMMA RepublishTells ==
  ASSUME NEW d \in Tables, NEW listings \in SUBSET Listings
  PROVE  LET f == Republish(d, listings) IN
           /\ Tells(d, f, Publishing(d, listings), {})
           /\ \A a \in Listings : f.row[a].rev = IF a \in listings THEN d.row[a].rev + 1 ELSE d.row[a].rev
           /\ \A a \in listings : Within(d, a) => NoTombstone(f, a)
<1> DEFINE e == Counted(d, listings)
           said == {Put(e, a, e.row[a].rev) : a \in Publishing(e, listings)}
<1>1. e \in Tables /\ SameShape(d, e)
  BY CountedTells DEF Tells
<1>2. Publishing(e, listings) = Publishing(d, listings)
  BY <1>1, ShapeReads DEF Publishing
<1>3. Republish(d, listings) = Say(Counted(d, listings), said)
  BY DEF Republish
<1> HIDE DEF e
<1>4. \A a \in Listings : /\ Put(e, a, e.row[a].rev) \in Sayings /\ Put(e, a, e.row[a].rev).agg = a
                          /\ Put(e, a, e.row[a].rev).kind = "put"
                          /\ Put(e, a, e.row[a].rev).rev = e.row[a].rev
  <2>1. \A a \in Listings : e.row[a].rev \in Nat
    BY <1>1, TableFields
  <2> QED BY <1>1, <2>1, PutSays
<1>5. /\ said \in SUBSET Sayings
      /\ \A t \in said : /\ t.agg \in listings /\ t.kind = Kind(e, t.agg)
                         /\ t.rev = e.row[t.agg].rev
      /\ OneEach(said)
      /\ \A a \in listings : Publishes(e, a) => \E t \in said : t.agg = a
  BY <1>4 DEF OneEach, Kind, Publishing
<1>6. {t.agg : t \in said} = Publishing(d, listings)
  BY <1>2, <1>4 DEF Publishing
<1> HIDE DEF said
<1>7. LET f == Say(Counted(d, listings), said) IN
        /\ Tells(d, f, {t.agg : t \in said}, {})
        /\ \A a \in Listings : f.row[a].rev = IF a \in listings THEN d.row[a].rev + 1 ELSE d.row[a].rev
        /\ \A a \in listings : Within(d, a) => NoTombstone(f, a)
  BY <1>5, CountAndSay DEF e
<1> QED BY <1>3, <1>6, <1>7

LEMMA RefreshTells ==
  ASSUME NEW d \in Tables, NEW listings \in SUBSET Listings
  PROVE  LET f == Refresh(d, listings) IN
           /\ Tells(d, f, listings, {})
           /\ \A a \in Listings : f.row[a].rev = IF a \in listings THEN d.row[a].rev + 1 ELSE d.row[a].rev
           /\ \A a \in listings : Within(d, a) => NoTombstone(f, a)
<1> DEFINE e == Counted(d, listings)
           Said(a) == IF Publishes(e, a) THEN Put(e, a, e.row[a].rev) ELSE Del(e, a, {})
           said == {Said(a) : a \in listings}
<1>1. e \in Tables /\ SameShape(d, e)
  BY CountedTells DEF Tells
<1>3. Refresh(d, listings) = Say(Counted(d, listings), said)
  BY DEF Refresh
<1> HIDE DEF e
<1>4. \A a \in Listings : /\ Said(a) \in Sayings /\ Said(a).agg = a
                          /\ Said(a).kind = Kind(e, a)
                          /\ Said(a).rev = e.row[a].rev
  <2>1. \A a \in Listings : e.row[a].rev \in Nat
    BY <1>1, TableFields
  <2>2. ASSUME NEW a \in Listings
        PROVE  /\ Said(a) \in Sayings /\ Said(a).agg = a
               /\ Said(a).kind = Kind(e, a)
               /\ Said(a).rev = e.row[a].rev
    <3>1. CASE Publishes(e, a)
      BY <3>1, <1>1, <2>1, PutSays DEF Kind
    <3>2. CASE ~ Publishes(e, a)
      BY <3>2, <1>1, <2>1, DelSays DEF Kind
    <3> QED BY <3>1, <3>2
  <2> QED BY <2>2
<1> HIDE DEF Said
<1>5. /\ said \in SUBSET Sayings
      /\ \A t \in said : /\ t.agg \in listings /\ t.kind = Kind(e, t.agg)
                         /\ t.rev = e.row[t.agg].rev
      /\ OneEach(said)
      /\ \A a \in listings : Publishes(e, a) => \E t \in said : t.agg = a
  BY <1>4 DEF OneEach
<1>6. {t.agg : t \in said} = listings
  BY <1>4
<1> HIDE DEF said
<1>7. LET f == Say(Counted(d, listings), said) IN
        /\ Tells(d, f, {t.agg : t \in said}, {})
        /\ \A a \in Listings : f.row[a].rev = IF a \in listings THEN d.row[a].rev + 1 ELSE d.row[a].rev
        /\ \A a \in listings : Within(d, a) => NoTombstone(f, a)
  BY <1>5, CountAndSay DEF e
<1> QED BY <1>3, <1>6, <1>7

-----------------------------------------------------------------------------
\* The invariant of the tables

\* References lead from rows that exist to rows that exist, homes and the options
\* of collections to live ones, and intents are of listings that exist.
Linked(d) ==
  /\ \A m \in d.members : d.row[m[1]].state # "none" /\ Alive(d, m[2])
  /\ \A s \in d.ships :
       /\ d.row[s[1]].state # "none" /\ d.row[s[2]].state # "none"
       /\ \/ s[1] \in Products
          \/ s[1] \in Collections /\ s[2] \in Options /\ Alive(d, s[2])
  /\ \A i \in 1..Len(d.outbox) : d.row[d.outbox[i].agg].state # "none"

\* What relays show of a is right or will be.
Shown(d, a) ==
  /\ NoTombstone(d, a)
  /\ \/ Waits(d, a)
     \/ IF Publishes(d, a) THEN relay[a] = Rendering(d, a) ELSE relay[a].said # "listing"

\* left and out are the listings set apart.
Holds(d, left, out) ==
  /\ d \in Tables /\ Linked(d)
  /\ \A a \in Listings \ out : Within(d, a)
  /\ \A a \in Listings : relay[a].said = "listing" => WasPut(d, a)
  /\ \A e \in Editors : edit[e].listing \in Listings => d.row[edit[e].listing].state # "none"
  /\ \A a \in Listings \ (left \cup out) : Shown(d, a)

LEMMA TellsLinked ==
  ASSUME NEW d \in Tables, NEW e, NEW S \in SUBSET Listings, NEW O, Tells(d, e, S, O), Linked(d),
         \A a \in S : d.row[a].state # "none"
  PROVE  Linked(e)
<1>1. e \in Tables
  BY DEF Tells
<1>2. \A a \in Listings : d.row[a].state = e.row[a].state /\ (Alive(d, a) <=> Alive(e, a))
  BY DEF Tells, SameShape, Alive
<1>3. \A m \in e.members : m \in d.members /\ m[1] \in Listings /\ m[2] \in Listings
  BY <1>1, TableFields DEF Tells, SameShape, Listings
<1>4. \A s \in e.ships : s \in d.ships /\ s[1] \in Listings /\ s[2] \in Listings
  BY <1>1, TableFields DEF Tells, SameShape, Listings
<1>5. ASSUME NEW i \in 1..Len(e.outbox) PROVE e.row[e.outbox[i].agg].state # "none"
  <2>1. CASE i > Len(d.outbox)
    BY <2>1, <1>1, <1>2 DEF Tells
  <2>2. CASE ~ (i > Len(d.outbox))
    <3>1. i \in 1..Len(d.outbox)
      BY <2>2, <1>1, TableFields
    <3>2. e.outbox[i].agg = d.outbox[i].agg /\ d.outbox[i].agg \in Listings
      BY <3>1, TableFields DEF Tells, StaysOrYields, SameIntent
    <3> QED BY <3>1, <3>2, <1>2 DEF Linked
  <2> QED BY <2>1, <2>2
<1> QED BY <1>2, <1>3, <1>4, <1>5 DEF Linked

\* a says the same with the tables d and e.
Same(d, e, a) ==
  /\ Publishes(d, a) <=> Publishes(e, a)
  /\ Publishes(e, a) => Rendering(d, a) = Rendering(e, a)

LEMMA SameReads ==
  ASSUME NEW d, NEW e, NEW a \in Listings,
         d.row[a].state = e.row[a].state, d.row[a].open = e.row[a].open,
         a \in Collections => MembersOf(d, a) = MembersOf(e, a),
         a \notin Collections =>
           \A c \in Collections : (<<a, c>> \in d.members /\ Alive(d, c)) <=>
                                  (<<a, c>> \in e.members /\ Alive(e, c)),
         \A x \in Collections \cup Options : (<<a, x>> \in d.ships /\ Alive(d, x)) <=>
                                             (<<a, x>> \in e.ships /\ Alive(e, x))
  PROVE  Same(d, e, a)
<1>1. Publishes(d, a) <=> Publishes(e, a)
  BY DEF Publishes, Offered, Alive
<1>2. {x \in ShipsOf(d, a) : Alive(d, x)} = {x \in ShipsOf(e, a) : Alive(e, x)}
  BY DEF ShipsOf
<1>3. a \notin Collections =>
        {c \in CollectionsOf(d, a) : Alive(d, c)} = {c \in CollectionsOf(e, a) : Alive(e, c)}
  BY DEF CollectionsOf
<1>4. Rendering(d, a) = Rendering(e, a)
  BY <1>2, <1>3 DEF Rendering
<1> QED BY <1>1, <1>4 DEF Same

\* With more set apart.
LEMMA HoldsApart ==
  ASSUME NEW d, NEW left, NEW out, NEW more, NEW most, Holds(d, left, out),
         left \subseteq more, out \subseteq most
  PROVE  Holds(d, more, most)
BY DEF Holds

\* A request changes the rows d to e, says S, and leaves f.  Every listing that is
\* not set apart is said, and no tombstone of it stays; or says the same; or is not
\* published and was never seen.
Covers(d, e, f, S, a) ==
  \/ a \in S /\ NoTombstone(f, a)
  \/ Same(d, e, a)
  \/ ~ Publishes(e, a) /\ relay[a].said # "listing"

LEMMA Transacts ==
  ASSUME NEW left, NEW out, NEW d, Holds(d, left, out),
         NEW e \in Tables, NEW f, NEW S \in SUBSET Listings,
         e.outbox = d.outbox, Linked(e),
         \A a \in Listings \ out : d.row[a].rev <= e.row[a].rev \/ d.row[a].state = "none",
         \A a \in Listings : d.row[a].state # "none" => e.row[a].state # "none",
         Tells(e, f, S, out),
         \A a \in S : e.row[a].state # "none",
         \A a \in Listings \ (left \cup out) : Covers(d, e, f, S, a)
  PROVE  Holds(f, left, out)
<1>1. d \in Tables /\ f \in Tables
  BY DEF Holds, Tells
<1>2. Linked(f)
  BY TellsLinked
<1>3. ASSUME NEW a \in Listings \ out PROVE Within(f, a)
  <2>1. Within(d, a)
    BY DEF Holds
  <2>2. Within(e, a)
    <3> SUFFICES ASSUME NEW i \in 1..Len(e.outbox), e.outbox[i].agg = a
                 PROVE  e.outbox[i].rev <= e.row[a].rev
      BY DEF Within
    <3>1. d.outbox[i].rev <= d.row[a].rev /\ d.row[a].state # "none"
      BY <2>1 DEF Within, Holds, Linked
    <3>2. d.outbox[i].rev \in Nat /\ d.row[a].rev \in Nat /\ e.row[a].rev \in Nat
      BY <1>1, TableFields
    <3> QED BY <3>1, <3>2
  <2> QED BY <2>2 DEF Tells
<1>4. \A a \in Listings : relay[a].said = "listing" => WasPut(f, a)
  <2>1. \A a \in Listings : WasPut(d, a) => WasPut(e, a)
    BY DEF WasPut
  <2> QED BY <2>1, TellsKeeps DEF Holds
<1>5. ASSUME NEW a \in Listings \ (left \cup out) PROVE Shown(f, a)
  <2>1. Shown(d, a)
    BY DEF Holds
  <2>2. (Publishes(e, a) <=> Publishes(f, a)) /\ Rendering(e, a) = Rendering(f, a)
    BY ShapeReads DEF Tells
  <2>3. CASE a \in S /\ NoTombstone(f, a)
    BY <2>3 DEF Shown, Tells
  <2>4. CASE Same(d, e, a)
    <3>1. NoTombstone(e, a)
      BY <2>1, <2>4 DEF NoTombstone, Shown, Same
    <3>2. Waits(d, a) => Waits(e, a)
      BY <2>4 DEF Waits, Kind, Same
    <3>3. NoTombstone(f, a) /\ (Waits(d, a) => Waits(f, a))
      BY <3>1, <3>2, TellsKeeps
    <3> QED BY <3>3, <2>1, <2>2, <2>4 DEF Shown, Same
  <2>5. CASE ~ Publishes(e, a) /\ relay[a].said # "listing"
    BY <2>5, <2>2 DEF Shown, NoTombstone
  <2> QED BY <2>3, <2>4, <2>5 DEF Covers
<1>6. \A e1 \in Editors : edit[e1].listing \in Listings => f.row[edit[e1].listing].state # "none"
  BY DEF Holds, Tells, SameShape
<1> QED BY <1>1, <1>2, <1>3, <1>4, <1>5, <1>6 DEF Holds

LEMMA TellsApart ==
  ASSUME NEW d, NEW e, NEW S, NEW O, NEW R, Tells(d, e, S, O), O \subseteq R
  PROVE  Tells(d, e, S, R)
BY DEF Tells

\* Nothing is said.
LEMMA TellsNothing ==
  ASSUME NEW d \in Tables, NEW O
  PROVE  Tells(d, d, {}, O)
BY TableFields DEF Tells, SameShape, StaysOrYields, SameIntent

-----------------------------------------------------------------------------
\* Survivors before tombstones

\* What a says names x, once a is published.
Names(d, a, x) == x \in CollectionsOf(d, a) \cup MembersOf(d, a) \cup ShipsOf(d, a)

\* From some tombstone of x on, every one waits for an intent of a.
Held(d, x, a) ==
  \E i \in 1..Len(d.outbox) :
    /\ d.outbox[i].agg = x /\ d.outbox[i].kind = "del"
    /\ \A j \in 1..Len(d.outbox) :
         j >= i /\ d.outbox[j].agg = x /\ d.outbox[j].kind = "del" =>
           /\ d.outbox[j].state # "published"
           /\ \E n \in d.outbox[j].deps :
                n \in 1..Len(d.outbox) /\ d.outbox[n].agg = a /\ d.outbox[n].state # "published"

\* What a transaction from d to f does for the dead: they stay so, nothing is said of
\* them, and who has died waits for every survivor.
Carries(d, f, out) ==
  /\ StaysOrYields(d.outbox, f.outbox, Listings)
  /\ \A x \in Listings : /\ d.row[x].state = "deleted" => f.row[x].state = "deleted"
                         /\ f.row[x].state = "deleted" => d.row[x].state # "none"
  /\ \A i \in 1..Len(f.outbox) :
       i > Len(d.outbox) /\ f.outbox[i].agg \notin out => d.row[f.outbox[i].agg].state # "deleted"
  /\ \A x \in Listings \ out : Alive(d, x) /\ ~ Alive(f, x) =>
       \A a \in Listings : Publishes(f, a) /\ Names(d, a, x) => Held(f, x, a)

LEMMA HeldStays ==
  ASSUME NEW d \in Tables, NEW f \in Tables, StaysOrYields(d.outbox, f.outbox, Listings),
         NEW x, NEW a, Held(d, x, a),
         \A i \in 1..Len(f.outbox) : i > Len(d.outbox) => f.outbox[i].agg # x
  PROVE  Held(f, x, a)
<1>1. PICK i \in 1..Len(d.outbox) :
        /\ d.outbox[i].agg = x /\ d.outbox[i].kind = "del"
        /\ \A j \in 1..Len(d.outbox) :
             j >= i /\ d.outbox[j].agg = x /\ d.outbox[j].kind = "del" =>
               /\ d.outbox[j].state # "published"
               /\ \E n \in d.outbox[j].deps :
                    n \in 1..Len(d.outbox) /\ d.outbox[n].agg = a /\ d.outbox[n].state # "published"
  BY DEF Held
<1>2. /\ Len(d.outbox) \in Nat /\ Len(f.outbox) \in Nat /\ Len(d.outbox) <= Len(f.outbox)
      /\ \A j \in 1..Len(d.outbox) :
           /\ j \in 1..Len(f.outbox) /\ SameIntent(d.outbox[j], f.outbox[j])
           /\ d.outbox[j].state # "published" => f.outbox[j].state # "published"
  BY TableFields DEF StaysOrYields
<1>3. ASSUME NEW j \in 1..Len(f.outbox), j >= i, f.outbox[j].agg = x, f.outbox[j].kind = "del"
      PROVE  /\ f.outbox[j].state # "published"
             /\ \E n \in f.outbox[j].deps :
                  n \in 1..Len(f.outbox) /\ f.outbox[n].agg = a /\ f.outbox[n].state # "published"
  <2>1. j \in 1..Len(d.outbox)
    BY <1>2, <1>3
  <2>2. d.outbox[j].agg = x /\ d.outbox[j].kind = "del" /\ d.outbox[j].deps = f.outbox[j].deps
    BY <2>1, <1>2, <1>3 DEF SameIntent
  <2>3. PICK n \in d.outbox[j].deps :
          n \in 1..Len(d.outbox) /\ d.outbox[n].agg = a /\ d.outbox[n].state # "published"
    BY <2>1, <2>2, <1>1, <1>3
  <2>4. n \in 1..Len(f.outbox) /\ f.outbox[n].agg = a /\ f.outbox[n].state # "published"
    BY <2>3, <1>2 DEF SameIntent
  <2> QED BY <2>1, <2>2, <2>3, <2>4, <1>1, <1>2, <1>3
<1>4. i \in 1..Len(f.outbox) /\ f.outbox[i].agg = x /\ f.outbox[i].kind = "del"
  BY <1>1, <1>2 DEF SameIntent
<1> QED BY <1>3, <1>4 DEF Held

\* A request changes the rows d to e, says S, and leaves f.
LEMMA Carried ==
  ASSUME NEW d \in Tables, NEW e \in Tables, NEW f, NEW S \in SUBSET Listings, NEW O, NEW out,
         e.outbox = d.outbox, Tells(e, f, S, O),
         \A x \in Listings : /\ d.row[x].state = "deleted" => e.row[x].state = "deleted"
                             /\ e.row[x].state = "deleted" => d.row[x].state # "none",
         \A x \in S \ out : d.row[x].state # "deleted",
         \A x \in Listings \ out : Alive(d, x) /\ ~ Alive(e, x) =>
           \A a \in Listings : Publishes(e, a) /\ Names(d, a, x) => Held(f, x, a)
  PROVE  Carries(d, f, out)
<1>1. \A a \in Listings : /\ e.row[a].state = f.row[a].state
                          /\ Alive(e, a) <=> Alive(f, a)
                          /\ Publishes(e, a) <=> Publishes(f, a)
  BY ShapeReads DEF Tells, SameShape
<1>2. StaysOrYields(d.outbox, f.outbox, Listings)
  BY DEF Tells, StaysOrYields
<1>3. \A i \in 1..Len(f.outbox) : i > Len(d.outbox) => f.outbox[i].agg \in S
  BY DEF Tells
<1> QED BY <1>1, <1>2, <1>3 DEF Carries

\* Nobody dies.
LEMMA Spared ==
  ASSUME NEW d \in Tables, NEW e \in Tables, NEW f, NEW S \in SUBSET Listings, NEW O, NEW out,
         e.outbox = d.outbox, Tells(e, f, S, O),
         \A x \in Listings : \/ e.row[x].state = d.row[x].state
                             \/ d.row[x].state = "none" /\ e.row[x].state = "live",
         \A x \in S : d.row[x].state # "deleted"
  PROVE  Carries(d, f, out)
<1>1. \A x \in Listings : Alive(d, x) => Alive(e, x)
  BY DEF Alive
<1>2. \A x \in Listings : /\ d.row[x].state = "deleted" => e.row[x].state = "deleted"
                          /\ e.row[x].state = "deleted" => d.row[x].state # "none"
  OBVIOUS
<1> QED BY <1>1, <1>2, Carried

\* The tombstone of x waits for each of its survivors that waits.
LEMMA WithdrawHeld ==
  ASSUME NEW d \in Tables, NEW x \in Listings, NEW survivors \in SUBSET Listings, ~ Publishes(d, x),
         Below(d, x, d.row[x].rev), NEW a \in survivors, a # x, Waits(d, a)
  PROVE  Held(Withdraw(d, x, survivors), x, a)
<1> DEFINE t == Del(d, x, survivors)
           f == Withdraw(d, x, survivors)
<1>1. /\ Tells(d, f, {x}, {}) /\ Bound(d.outbox, f.outbox, {t})
  BY WithdrawTells
<1>2. t.agg = x /\ t.kind = "del" /\ t.rev = d.row[x].rev /\ t.needs = survivors
  BY DelSays
<1> HIDE DEF f, t
<1>3. /\ Len(d.outbox) \in Nat /\ Len(f.outbox) \in Nat /\ Len(d.outbox) <= Len(f.outbox)
      /\ \A j \in 1..Len(d.outbox) : j \in 1..Len(f.outbox)
  <2>1. f \in Tables
    BY <1>1 DEF Tells
  <2> QED BY <2>1, <1>1, TableFields DEF Tells, StaysOrYields
<1>4. /\ \E i \in 1..Len(f.outbox) : i > Len(d.outbox) /\ Says(f.outbox[i], t)
      /\ \A i \in 1..Len(f.outbox) : i > Len(d.outbox) =>
           Awaits(d.outbox, f.outbox, i, t.needs \ {t.agg})
  <2>1. \A i \in 1..Len(d.outbox) : d.outbox[i].agg = t.agg => d.outbox[i].rev < t.rev
    BY <1>2 DEF Below
  <2> QED BY <2>1, <1>1 DEF Bound
<1>5. PICK i \in 1..Len(f.outbox) : i > Len(d.outbox) /\ Says(f.outbox[i], t)
  BY <1>4
<1>6. ASSUME NEW j \in 1..Len(f.outbox), j >= i
      PROVE  /\ f.outbox[j].state # "published"
             /\ \E n \in f.outbox[j].deps :
                  n \in 1..Len(f.outbox) /\ f.outbox[n].agg = a /\ f.outbox[n].state # "published"
  <2>1. j > Len(d.outbox)
    BY <1>3, <1>5, <1>6
  <2>2. \E k \in 1..Len(d.outbox) : d.outbox[k].agg = a /\ d.outbox[k].state = "pending"
    BY DEF Waits
  <2>3. a \in t.needs \ {t.agg}
    BY <1>2
  <2>4. \E n \in f.outbox[j].deps :
          n \in 1..Len(d.outbox) /\ f.outbox[n].agg = a /\ f.outbox[n].state # "published"
    BY <2>1, <2>2, <2>3, <1>4 DEF Awaits
  <2> QED BY <2>1, <2>4, <1>1, <1>3 DEF Tells
<1>7. f.outbox[i].agg = x /\ f.outbox[i].kind = "del"
  BY <1>2, <1>5 DEF Says
<1> QED BY <1>6, <1>7 DEF Held, f

-----------------------------------------------------------------------------
\* Rows that are written

RowOf(state, rev, open) == [state |-> state, rev |-> rev, open |-> open]

LEMMA RowSet ==
  ASSUME NEW d \in Tables, NEW a \in Listings,
         NEW r \in [state : {"none", "live", "deleted"}, rev : Nat, open : BOOLEAN]
  PROVE  LET e == [d EXCEPT !.row[a] = r] IN
           /\ e \in Tables /\ e.row = [d.row EXCEPT ![a] = r] /\ e.row[a] = r
           /\ \A b \in Listings : b # a => e.row[b] = d.row[b]
           /\ e.members = d.members /\ e.ships = d.ships /\ e.outbox = d.outbox
BY DEF Tables

LEMMA StateSet ==
  ASSUME NEW d \in Tables, NEW a \in Listings, NEW state \in {"none", "live", "deleted"}
  PROVE  LET e == [d EXCEPT !.row[a].state = state] IN
           /\ e \in Tables /\ e.row[a] = RowOf(state, d.row[a].rev, d.row[a].open)
           /\ \A b \in Listings : b # a => e.row[b] = d.row[b]
           /\ e.members = d.members /\ e.ships = d.ships /\ e.outbox = d.outbox
BY DEF Tables, RowOf

LEMMA RevSet ==
  ASSUME NEW d \in Tables, NEW a \in Listings, NEW rev \in Nat
  PROVE  LET e == [d EXCEPT !.row[a].rev = rev] IN
           /\ e \in Tables /\ e.row[a] = RowOf(d.row[a].state, rev, d.row[a].open)
           /\ \A b \in Listings : b # a => e.row[b] = d.row[b]
           /\ e.members = d.members /\ e.ships = d.ships /\ e.outbox = d.outbox
BY DEF Tables, RowOf

LEMMA OpenSet ==
  ASSUME NEW d \in Tables, NEW a \in Listings, NEW open \in BOOLEAN
  PROVE  LET e == [d EXCEPT !.row[a].open = open] IN
           /\ e \in Tables /\ e.row[a] = RowOf(d.row[a].state, d.row[a].rev, open)
           /\ \A b \in Listings : b # a => e.row[b] = d.row[b]
           /\ e.members = d.members /\ e.ships = d.ships /\ e.outbox = d.outbox
BY DEF Tables, RowOf

\* The members and the shipping of one listing are replaced.
LEMMA DetailedDoes ==
  ASSUME NEW d \in Tables, NEW p \in Listings, NEW content \in Contents,
         content.members # Keep => p \in Products
  PROVE  LET e == Detailed(d, p, content) IN
           /\ e \in Tables /\ e.row = d.row /\ e.outbox = d.outbox
           /\ \A m \in e.members :
                \/ m \in d.members
                \/ content.members # Keep /\ m[1] = p /\ m[2] \in content.members /\ m[2] \in Collections
           /\ \A m \in d.members : m[1] # p => m \in e.members
           /\ \A s \in e.ships :
                \/ s \in d.ships
                \/ content.ships # Keep /\ s[1] = p /\ s[2] \in content.ships
           /\ \A s \in d.ships : s[1] # p => s \in e.ships
<1> DEFINE members == IF content.members = Keep THEN d.members
                      ELSE {m \in d.members : m[1] # p} \cup ({p} \X content.members)
           ships == IF content.ships = Keep THEN d.ships
                    ELSE {s \in d.ships : s[1] # p} \cup ({p} \X content.ships)
           g == [d EXCEPT !.members = members]
           e == Detailed(d, p, content)
<1>1. /\ content.members \in {Keep} \cup SUBSET Collections
      /\ content.ships \in {Keep} \cup SUBSET (Collections \cup Options)
  BY CatalogAssumption
<1>2. members \in SUBSET (Products \X Collections)
  <2>1. d.members \in SUBSET (Products \X Collections)
    BY TableFields
  <2>2. CASE content.members = Keep
    BY <2>1, <2>2
  <2>3. CASE content.members # Keep
    <3>1. content.members \in SUBSET Collections /\ p \in Products
      BY <2>3, <1>1
    <3>2. {p} \X content.members \in SUBSET (Products \X Collections)
      BY <3>1
    <3> QED BY <2>1, <2>3, <3>2
  <2> QED BY <2>2, <2>3
<1>3. ships \in SUBSET (Listings \X (Collections \cup Options))
  <2>1. d.ships \in SUBSET (Listings \X (Collections \cup Options))
    BY TableFields
  <2>2. CASE content.ships = Keep
    BY <2>1, <2>2
  <2>3. CASE content.ships # Keep
    <3>1. content.ships \in SUBSET (Collections \cup Options)
      BY <2>3, <1>1
    <3>2. {p} \X content.ships \in SUBSET (Listings \X (Collections \cup Options))
      BY <3>1
    <3> QED BY <2>1, <2>3, <3>2
  <2> QED BY <2>2, <2>3
<1>4. e = [g EXCEPT !.ships = ships]
  BY DEF Detailed, Tables
<1>5. /\ \A m \in members :
           \/ m \in d.members
           \/ content.members # Keep /\ m[1] = p /\ m[2] \in content.members /\ m[2] \in Collections
      /\ \A m \in d.members : m[1] # p => m \in members
  <2>1. ASSUME content.members # Keep, NEW m \in {p} \X content.members
        PROVE  m[1] = p /\ m[2] \in content.members /\ m[2] \in Collections
    <3>1. content.members \in SUBSET Collections
      BY <2>1, <1>1
    <3> QED BY <2>1, <3>1
  <2> QED BY <2>1
<1>6. /\ \A s \in ships :
           \/ s \in d.ships
           \/ content.ships # Keep /\ s[1] = p /\ s[2] \in content.ships
      /\ \A s \in d.ships : s[1] # p => s \in ships
  OBVIOUS
<1> HIDE DEF members, ships, e
<1>7. g \in Tables /\ g.row = d.row /\ g.members = members /\ g.ships = d.ships /\ g.outbox = d.outbox
  BY <1>2, MembersWrites
<1> HIDE DEF g
<1>8. e \in Tables /\ e.row = g.row /\ e.members = g.members /\ e.ships = ships /\ e.outbox = g.outbox
  BY <1>3, <1>4, <1>7, ShipsWrites
<1> QED BY <1>5, <1>6, <1>7, <1>8 DEF e

-----------------------------------------------------------------------------
\* Requests that create and patch

\* Nothing is known of a row that is not there.
LEMMA NoRow ==
  ASSUME NEW d, NEW left, NEW out, Holds(d, left, out), NEW a \in Listings, d.row[a].state = "none"
  PROVE  /\ \A i \in 1..Len(d.outbox) : d.outbox[i].agg # a
         /\ relay[a].said # "listing"
         /\ \A m \in d.members : m[1] # a /\ m[2] # a
         /\ \A s \in d.ships : s[1] # a /\ s[2] # a
<1>1. d \in Tables /\ Linked(d) /\ (relay[a].said = "listing" => WasPut(d, a))
  BY DEF Holds
<1>2. DOMAIN d.outbox = 1..Len(d.outbox)
  BY <1>1, TableFields
<1>3. \A i \in 1..Len(d.outbox) : d.outbox[i].agg # a
  BY <1>1 DEF Linked
<1>4. relay[a].said # "listing"
  BY <1>1, <1>2, <1>3 DEF WasPut
<1>5. \A m \in d.members : m[1] # a /\ m[2] # a
  BY <1>1 DEF Linked, Alive
<1>6. \A s \in d.ships : s[1] # a /\ s[2] # a
  BY <1>1 DEF Linked
<1> QED BY <1>3, <1>4, <1>5, <1>6

\* The listings that a product is in are said anew, then the product.
LEMMA RepublishAnnounce ==
  ASSUME NEW d \in Tables, NEW listings \in SUBSET Listings, NEW p \in Listings, p \notin listings,
         NEW rev \in Nat, NEW O, p \notin O => rev <= d.row[p].rev
  PROVE  LET f == Announce(Republish(d, listings), p, rev) IN
           /\ Tells(d, f, Publishing(d, listings \cup {p}), O)
           /\ \A a \in listings : Within(d, a) => NoTombstone(f, a)
           /\ Below(d, p, rev) => NoTombstone(f, p)
<1> DEFINE e == Republish(d, listings)
           f == Announce(e, p, rev)
<1>1. /\ Tells(d, e, Publishing(d, listings), {})
      /\ \A a \in Listings : e.row[a].rev = IF a \in listings THEN d.row[a].rev + 1 ELSE d.row[a].rev
      /\ \A a \in listings : Within(d, a) => NoTombstone(e, a)
  BY RepublishTells
<1> HIDE DEF e
<1>2. e \in Tables
  BY <1>1 DEF Tells
<1>3. p \notin O => rev <= e.row[p].rev
  BY <1>1
<1>4. /\ Tells(e, f, Publishing(e, {p}), O)
      /\ Below(e, p, rev) => NoTombstone(f, p)
  BY <1>2, <1>3, AnnounceTells
<1> HIDE DEF f
<1>5. Publishing(e, {p}) = Publishing(d, {p})
  BY <1>1, ShapeReads DEF Tells
<1>6. Publishing(d, listings) \in SUBSET Listings /\ Publishing(d, {p}) \in SUBSET Listings
  BY DEF Publishing
<1>7. Tells(d, f, Publishing(d, listings) \cup Publishing(d, {p}), {} \cup O)
  BY <1>1, <1>4, <1>5, <1>6, TellsTwice
<1>8. /\ Publishing(d, listings) \cup Publishing(d, {p}) = Publishing(d, listings \cup {p})
      /\ {} \cup O = O
  BY DEF Publishing
<1>9. Tells(d, f, Publishing(d, listings \cup {p}), O)
  BY <1>7, <1>8
<1>10. \A a \in listings : Within(d, a) => NoTombstone(f, a)
  BY <1>1, <1>2, <1>4, TellsKeeps
<1>11. Below(d, p, rev) => Below(e, p, rev)
  <2> SUFFICES ASSUME Below(d, p, rev), NEW i \in 1..Len(e.outbox), e.outbox[i].agg = p
               PROVE  e.outbox[i].rev < rev
    BY DEF Below
  <2>1. ~ (i > Len(d.outbox))
    BY <1>1 DEF Tells, Publishing
  <2>2. i \in 1..Len(d.outbox)
    BY <2>1, <1>2, TableFields
  <2> QED BY <2>2, <1>1 DEF Tells, StaysOrYields, SameIntent, Below
<1> QED BY <1>4, <1>9, <1>10, <1>11 DEF e, f

LEMMA InsertedDoes ==
  ASSUME db \in Tables, NEW a \in Listings, NEW open \in BOOLEAN, db.row[a].state = "none"
  PROVE  LET d == Inserted(a, open) IN
           /\ d \in Tables /\ d.row[a] = RowOf("live", 0, open)
           /\ \A b \in Listings : b # a => d.row[b] = db.row[b]
           /\ d.members = db.members /\ d.ships = db.ships /\ d.outbox = db.outbox
<1>1. RowOf("live", 0, open) \in [state : {"none", "live", "deleted"}, rev : Nat, open : BOOLEAN]
  BY DEF RowOf
<1>2. Inserted(a, open) = [db EXCEPT !.row[a] = RowOf("live", 0, open)]
  BY DEF Inserted, RowOf
<1> HIDE DEF RowOf
<1> QED BY <1>1, <1>2, RowSet

\* A product that is created.
LEMMA CreateProductHolds ==
  ASSUME Holds(db, astray.left, astray.outdated),
         NEW p \in Products, NEW open \in BOOLEAN, NEW content \in Contents,
         db.row[p].state = "none", Acceptable(open, content)
  PROVE  LET d == Detailed(Inserted(p, open), p, content) IN
           LET f == Announce(Republish(d, CollectionsOf(d, p)), p, 0) IN
             Holds(f, astray.left, astray.outdated) /\ Carries(db, f, astray.outdated)
<1> DEFINE i == Inserted(p, open)
           d == Detailed(i, p, content)
           cs == CollectionsOf(d, p)
           f == Announce(Republish(d, cs), p, 0)
           S == Publishing(d, cs \cup {p})
<1>1. db \in Tables /\ p \in Listings
  BY DEF Holds, Listings
<1>2. /\ i \in Tables /\ i.row[p] = RowOf("live", 0, open)
      /\ \A b \in Listings : b # p => i.row[b] = db.row[b]
      /\ i.members = db.members /\ i.ships = db.ships /\ i.outbox = db.outbox
  BY <1>1, InsertedDoes
<1> HIDE DEF i
<1>3. /\ d \in Tables /\ d.row = i.row /\ d.outbox = i.outbox
      /\ \A m \in d.members :
           \/ m \in i.members
           \/ content.members # Keep /\ m[1] = p /\ m[2] \in content.members /\ m[2] \in Collections
      /\ \A m \in i.members : m[1] # p => m \in d.members
      /\ \A s \in d.ships :
           \/ s \in i.ships
           \/ content.ships # Keep /\ s[1] = p /\ s[2] \in content.ships
      /\ \A s \in i.ships : s[1] # p => s \in d.ships
  BY <1>1, <1>2, DetailedDoes
<1> HIDE DEF d
<1>4. /\ \A a \in Listings : a # p => d.row[a] = db.row[a]
      /\ d.row[p].state = "live" /\ d.row[p].rev = 0
  BY <1>2, <1>3 DEF RowOf
<1>5. /\ \A j \in 1..Len(db.outbox) : db.outbox[j].agg # p
      /\ relay[p].said # "listing"
      /\ \A m \in db.members : m[1] # p /\ m[2] # p
      /\ \A s \in db.ships : s[1] # p /\ s[2] # p
  BY <1>1, NoRow
<1>6. p \notin Collections /\ p \notin Options
  BY CatalogAssumption
<1>7. cs \in SUBSET Listings /\ p \notin cs
  BY <1>6 DEF CollectionsOf, Listings
<1>8. /\ Tells(d, f, S, astray.outdated)
      /\ \A a \in cs : Within(d, a) => NoTombstone(f, a)
      /\ Below(d, p, 0) => NoTombstone(f, p)
  <2>1. 0 \in Nat /\ (p \notin astray.outdated => 0 <= d.row[p].rev)
    BY <1>4
  <2> HIDE DEF cs
  <2> QED BY <1>1, <1>3, <1>7, <2>1, RepublishAnnounce
<1>9. Linked(d)
  <2>1. ASSUME NEW m \in d.members PROVE d.row[m[1]].state # "none" /\ Alive(d, m[2])
    <3>1. m[1] \in Listings /\ m[2] \in Collections /\ m[2] \in Listings
      BY <1>3, TableFields DEF Listings
    <3>2. CASE m \in db.members
      BY <3>1, <3>2, <1>4, <1>5 DEF Holds, Linked, Alive
    <3>3. CASE content.members # Keep /\ m[1] = p /\ m[2] \in content.members
      <4>1. Alive(db, m[2])
        BY <3>3 DEF Acceptable, Resolves
      <4> QED BY <4>1, <3>1, <3>3, <1>4, <1>6 DEF Alive
    <3> QED BY <3>2, <3>3, <1>2, <1>3
  <2>2. ASSUME NEW s \in d.ships
        PROVE  /\ d.row[s[1]].state # "none" /\ d.row[s[2]].state # "none"
               /\ \/ s[1] \in Products
                  \/ s[1] \in Collections /\ s[2] \in Options /\ Alive(d, s[2])
    <3>1. s[1] \in Listings /\ s[2] \in Listings
      BY <1>3, TableFields DEF Listings
    <3>2. CASE s \in db.ships
      BY <3>1, <3>2, <1>4, <1>5 DEF Holds, Linked, Alive
    <3>3. CASE content.ships # Keep /\ s[1] = p /\ s[2] \in content.ships
      <4>1. db.row[s[2]].state # "none"
        BY <3>3 DEF Acceptable
      <4> QED BY <4>1, <3>1, <3>3, <1>4
    <3> QED BY <3>2, <3>3, <1>2, <1>3
  <2>3. \A j \in 1..Len(d.outbox) : d.row[d.outbox[j].agg].state # "none"
    BY <1>1, <1>2, <1>3, <1>4, <1>5, TableFields DEF Holds, Linked
  <2> QED BY <2>1, <2>2, <2>3 DEF Linked
<1>10. S \in SUBSET Listings /\ \A a \in S : d.row[a].state # "none"
  BY <1>1, <1>7 DEF Publishing, Publishes, Offered, Alive
<1>11. ASSUME NEW a \in Listings \ (astray.left \cup astray.outdated)
       PROVE  Covers(db, d, f, S, a)
  <2>1. CASE a = p
    <3>1. NoTombstone(f, p)
      BY <1>2, <1>3, <1>5, <1>8 DEF Below
    <3> QED BY <2>1, <3>1, <1>5 DEF Covers, Publishing
  <2>2. CASE a \in cs
    <3>1. Within(d, a)
      BY <2>2, <1>2, <1>3, <1>4, <1>7 DEF Holds, Within
    <3>2. CASE Publishes(d, a)
      BY <2>2, <3>1, <3>2, <1>8 DEF Covers, Publishing
    <3>3. CASE ~ Publishes(d, a)
      <4>1. \A x \in Products : <<x, a>> \in db.members => <<x, a>> \in d.members /\ x # p
        BY <1>2, <1>3, <1>5
      <4>2. MembersOf(db, a) \subseteq MembersOf(d, a)
        BY <4>1, <1>4 DEF MembersOf, Offered, Alive, Listings
      <4>3. ~ Publishes(db, a)
        BY <2>2, <3>3, <4>2, <1>4, <1>7 DEF Publishes, Offered, Alive
      <4> QED BY <3>3, <4>3 DEF Covers, Same
    <3> QED BY <3>2, <3>3
  <2>3. CASE a # p /\ a \notin cs
    <3>1. d.row[a] = db.row[a]
      BY <2>3, <1>4
    <3>2. a \in Collections => MembersOf(db, a) = MembersOf(d, a)
      <4> SUFFICES ASSUME a \in Collections, NEW x \in Products
                   PROVE  (<<x, a>> \in db.members /\ Offered(db, x)) <=>
                          (<<x, a>> \in d.members /\ Offered(d, x))
        BY DEF MembersOf
      <4>1. CASE x = p
        BY <4>1, <2>3, <1>5 DEF CollectionsOf
      <4>2. CASE x # p
        BY <4>2, <1>2, <1>3, <1>4 DEF Offered, Alive, Listings
      <4> QED BY <4>1, <4>2
    <3>3. \A c \in Collections : (<<a, c>> \in db.members /\ Alive(db, c)) <=>
                                 (<<a, c>> \in d.members /\ Alive(d, c))
      BY <2>3, <1>2, <1>3, <1>4, <1>6 DEF Alive, Listings
    <3>4. \A x \in Collections \cup Options : (<<a, x>> \in db.ships /\ Alive(db, x)) <=>
                                              (<<a, x>> \in d.ships /\ Alive(d, x))
      BY <2>3, <1>2, <1>3, <1>4, <1>6 DEF Alive, Listings
    <3>5. Same(db, d, a)
      BY <3>1, <3>2, <3>3, <3>4, SameReads
    <3> QED BY <3>5 DEF Covers
  <2> QED BY <2>1, <2>2, <2>3
<1>12. \A a \in Listings : /\ db.row[a].rev <= d.row[a].rev \/ db.row[a].state = "none"
                           /\ db.row[a].state # "none" => d.row[a].state # "none"
  <2>1. \A a \in Listings : db.row[a].rev \in Nat
    BY <1>1, TableFields
  <2> QED BY <2>1, <1>4
<1>13. Holds(f, astray.left, astray.outdated)
  <2> HIDE DEF f, S
  <2> QED BY <1>2, <1>3, <1>8, <1>9, <1>10, <1>11, <1>12, Transacts
<1>14. Carries(db, f, astray.outdated)
  <2>1. \A x \in Listings : \/ d.row[x].state = db.row[x].state
                            \/ db.row[x].state = "none" /\ d.row[x].state = "live"
    BY <1>4
  <2>2. \A x \in S : db.row[x].state # "deleted"
    BY <1>1, <1>4, <1>10 DEF Publishing, Publishes, Offered, Alive
  <2> HIDE DEF f, S
  <2> QED BY <2>1, <2>2, <1>1, <1>2, <1>3, <1>8, <1>10, Spared
<1> QED BY <1>13, <1>14 DEF i, d, cs, f

\* What a patch leaves behind is read off the rows that it has changed.
LEMMA LeftBehindReads ==
  ASSUME NEW d, NEW f, SameShape(d, f), NEW p \in Products
  PROVE  LeftBehind(p, f) = LeftBehind(p, d)
<1>1. p \in Listings /\ CollectionsOf(d, p) \in SUBSET Listings
  BY DEF Listings, CollectionsOf
<1>2. CollectionsOf(f, p) = CollectionsOf(d, p)
  BY <1>1, ShapeReads
<1>3. \A a \in {p} \cup CollectionsOf(d, p) : Publishes(d, a) <=> Publishes(f, a)
  BY <1>1, ShapeReads
<1> QED BY <1>2, <1>3 DEF LeftBehind

\* A product that is patched.
LEMMA PatchProductHolds ==
  ASSUME Holds(db, astray.left, astray.outdated),
         NEW p \in Products, NEW seen \in Nat, NEW open \in BOOLEAN, NEW content \in Contents,
         db.row[p].state # "none", Acceptable(open, content),
         NEW left, left = astray.left \cup LeftBehind(p, PatchedProduct(p, seen, open, content)),
         NEW out, out = astray.outdated \cup (IF seen = db.row[p].rev THEN {} ELSE {p})
  PROVE  LET f == PatchedProduct(p, seen, open, content) IN
           Holds(f, left, out) /\ Carries(db, f, out)
<1> DEFINE k == Counted(db, {p})
           i == [k EXCEPT !.row[p].open = open]
           d == Detailed(i, p, content)
           cs == CollectionsOf(d, p)
           f == Announce(Republish(d, cs), p, seen + 1)
           S == Publishing(d, cs \cup {p})
<1>0. f = PatchedProduct(p, seen, open, content)
  BY DEF PatchedProduct
<1>1. db \in Tables /\ p \in Listings /\ db.row[p].rev \in Nat
  BY TableFields DEF Holds, Listings
<1>2. /\ k \in Tables /\ k.members = db.members /\ k.ships = db.ships /\ k.outbox = db.outbox
      /\ \A a \in Listings : /\ k.row[a].state = db.row[a].state /\ k.row[a].open = db.row[a].open
                             /\ k.row[a].rev = IF a \in {p} THEN db.row[a].rev + 1 ELSE db.row[a].rev
  <2>1. {p} \in SUBSET Listings
    BY <1>1
  <2>2. /\ Tells(db, k, {}, {}) /\ k.outbox = db.outbox
        /\ \A a \in Listings : k.row[a].rev = IF a \in {p} THEN db.row[a].rev + 1 ELSE db.row[a].rev
    BY <1>1, <2>1, CountedTells
  <2> HIDE DEF k
  <2> QED BY <2>2 DEF Tells, SameShape
<1> HIDE DEF k
<1>3. /\ i \in Tables /\ i.row[p] = RowOf(k.row[p].state, k.row[p].rev, open)
      /\ \A b \in Listings : b # p => i.row[b] = k.row[b]
      /\ i.members = k.members /\ i.ships = k.ships /\ i.outbox = k.outbox
  BY <1>1, <1>2, OpenSet
<1> HIDE DEF i
<1>4. /\ d \in Tables /\ d.row = i.row /\ d.outbox = i.outbox
      /\ \A m \in d.members :
           \/ m \in i.members
           \/ content.members # Keep /\ m[1] = p /\ m[2] \in content.members /\ m[2] \in Collections
      /\ \A m \in i.members : m[1] # p => m \in d.members
      /\ \A s \in d.ships :
           \/ s \in i.ships
           \/ content.ships # Keep /\ s[1] = p /\ s[2] \in content.ships
      /\ \A s \in i.ships : s[1] # p => s \in d.ships
  BY <1>1, <1>3, DetailedDoes
<1> HIDE DEF d
<1>5. /\ \A a \in Listings : /\ d.row[a].state = db.row[a].state
                             /\ a # p => d.row[a].open = db.row[a].open /\ d.row[a].rev = db.row[a].rev
      /\ d.row[p].rev = db.row[p].rev + 1
  BY <1>1, <1>2, <1>3, <1>4 DEF RowOf
<1>6. p \notin Collections /\ p \notin Options
  BY CatalogAssumption
<1>7. cs \in SUBSET Listings /\ p \notin cs
  BY <1>6 DEF CollectionsOf, Listings
<1>8. /\ Tells(d, f, S, out)
      /\ \A a \in cs : Within(d, a) => NoTombstone(f, a)
      /\ Below(d, p, seen + 1) => NoTombstone(f, p)
  <2>1. seen + 1 \in Nat /\ (p \notin out => seen + 1 <= d.row[p].rev)
    BY <1>1, <1>5
  <2> HIDE DEF cs
  <2> QED BY <1>1, <1>4, <1>7, <2>1, RepublishAnnounce
<1>9. Linked(d)
  <2>1. ASSUME NEW m \in d.members PROVE d.row[m[1]].state # "none" /\ Alive(d, m[2])
    <3>1. m[1] \in Listings /\ m[2] \in Collections /\ m[2] \in Listings
      BY <1>4, TableFields DEF Listings
    <3>2. CASE m \in db.members
      BY <3>1, <3>2, <1>5 DEF Holds, Linked, Alive
    <3>3. CASE content.members # Keep /\ m[1] = p /\ m[2] \in content.members
      <4>1. Alive(db, m[2])
        BY <3>3 DEF Acceptable, Resolves
      <4> QED BY <4>1, <3>1, <3>3, <1>5 DEF Alive
    <3> QED BY <3>2, <3>3, <1>2, <1>3, <1>4
  <2>2. ASSUME NEW s \in d.ships
        PROVE  /\ d.row[s[1]].state # "none" /\ d.row[s[2]].state # "none"
               /\ \/ s[1] \in Products
                  \/ s[1] \in Collections /\ s[2] \in Options /\ Alive(d, s[2])
    <3>1. s[1] \in Listings /\ s[2] \in Listings
      BY <1>4, TableFields DEF Listings
    <3>2. CASE s \in db.ships
      BY <3>1, <3>2, <1>5 DEF Holds, Linked, Alive
    <3>3. CASE content.ships # Keep /\ s[1] = p /\ s[2] \in content.ships
      <4>1. db.row[s[2]].state # "none"
        BY <3>3 DEF Acceptable
      <4> QED BY <4>1, <3>1, <3>3, <1>5
    <3> QED BY <3>2, <3>3, <1>2, <1>3, <1>4
  <2>3. \A j \in 1..Len(d.outbox) : d.row[d.outbox[j].agg].state # "none"
    BY <1>1, <1>2, <1>3, <1>4, <1>5, TableFields DEF Holds, Linked
  <2> QED BY <2>1, <2>2, <2>3 DEF Linked
<1>10. S \in SUBSET Listings /\ \A a \in S : d.row[a].state # "none"
  BY <1>1, <1>7 DEF Publishing, Publishes, Offered, Alive
<1>11. \A a \in Listings \ out : Within(db, a)
  BY DEF Holds
<1>12. \A a \in LeftBehind(p, d) : a \in left
  <2>1. LeftBehind(p, f) = LeftBehind(p, d)
    BY <1>8, LeftBehindReads DEF Tells
  <2> QED BY <2>1, <1>0
<1>13. ASSUME NEW a \in Listings \ (left \cup out)
       PROVE  Covers(db, d, f, S, a)
  <2>1. a \notin LeftBehind(p, d) /\ Within(db, a)
    BY <1>11, <1>12
  <2>2. CASE a = p
    <3>1. CASE Publishes(d, p)
      <4>1. seen + 1 = db.row[p].rev + 1
        BY <2>2
      <4>2. Below(d, p, seen + 1)
        <5> SUFFICES ASSUME NEW j \in 1..Len(db.outbox), db.outbox[j].agg = p
                     PROVE  db.outbox[j].rev < seen + 1
          BY <1>2, <1>3, <1>4 DEF Below
        <5>1. db.outbox[j].rev \in Nat /\ db.outbox[j].rev <= db.row[p].rev
          BY <1>1, <2>1, <2>2, TableFields DEF Within
        <5> QED BY <5>1, <4>1, <1>1
      <4> QED BY <2>2, <3>1, <4>2, <1>8 DEF Covers, Publishing
    <3>2. CASE ~ Publishes(d, p)
      BY <2>1, <2>2, <3>2 DEF LeftBehind, Covers, Same
    <3> QED BY <3>1, <3>2
  <2>3. CASE a \in cs
    <3>1. Within(d, a)
      BY <2>1, <2>3, <1>2, <1>3, <1>4, <1>5, <1>7 DEF Within
    <3>2. CASE Publishes(d, a)
      BY <2>3, <3>1, <3>2, <1>8 DEF Covers, Publishing
    <3>3. CASE ~ Publishes(d, a)
      BY <2>1, <2>3, <3>3 DEF LeftBehind, Covers, Same
    <3> QED BY <3>2, <3>3
  <2>4. CASE a # p /\ a \notin cs
    <3>1. d.row[a].state = db.row[a].state /\ d.row[a].open = db.row[a].open
      BY <2>4, <1>5
    <3>2. a \in Collections => MembersOf(db, a) = MembersOf(d, a)
      <4> SUFFICES ASSUME a \in Collections, NEW x \in Products
                   PROVE  (<<x, a>> \in db.members /\ Offered(db, x)) <=>
                          (<<x, a>> \in d.members /\ Offered(d, x))
        BY DEF MembersOf
      <4>1. CASE x = p
        BY <4>1, <2>1, <2>4 DEF CollectionsOf, LeftBehind
      <4>2. CASE x # p
        <5>1. x \in Listings
          BY DEF Listings
        <5> QED BY <4>2, <5>1, <1>2, <1>3, <1>4, <1>5 DEF Offered, Alive
      <4> QED BY <4>1, <4>2
    <3>3. \A c \in Collections : (<<a, c>> \in db.members /\ Alive(db, c)) <=>
                                 (<<a, c>> \in d.members /\ Alive(d, c))
      BY <2>4, <1>2, <1>3, <1>4, <1>5 DEF Alive, Listings
    <3>4. \A x \in Collections \cup Options : (<<a, x>> \in db.ships /\ Alive(db, x)) <=>
                                              (<<a, x>> \in d.ships /\ Alive(d, x))
      BY <2>4, <1>2, <1>3, <1>4, <1>5 DEF Alive, Listings
    <3>5. Same(db, d, a)
      BY <3>1, <3>2, <3>3, <3>4, SameReads
    <3> QED BY <3>5 DEF Covers
  <2> QED BY <2>2, <2>3, <2>4
<1>14. \A a \in Listings : /\ db.row[a].rev <= d.row[a].rev \/ db.row[a].state = "none"
                           /\ db.row[a].state # "none" => d.row[a].state # "none"
  <2>1. \A a \in Listings : db.row[a].rev \in Nat
    BY <1>1, TableFields
  <2> QED BY <2>1, <1>5
<1>15. Holds(f, left, out)
  <2> HIDE DEF f, S
  <2>1. Holds(db, left, out)
    BY HoldsApart
  <2> QED BY <2>1, <1>2, <1>3, <1>4, <1>8, <1>9, <1>10, <1>13, <1>14, Transacts
<1>16. Carries(db, f, out)
  <2>1. \A x \in S : db.row[x].state # "deleted"
    BY <1>5, <1>10 DEF Publishing, Publishes, Offered, Alive
  <2> HIDE DEF f, S
  <2> QED BY <2>1, <1>1, <1>2, <1>3, <1>4, <1>5, <1>8, <1>10, Spared
<1> QED BY <1>0, <1>15, <1>16

\* The revision of a patched row, read at seen.
LEMMA RenumberedHolds ==
  ASSUME NEW out, Holds(db, astray.left, out), NEW a \in Listings, NEW seen \in Nat,
         a \notin out => seen = db.row[a].rev, db.row[a].state # "none"
  PROVE  LET d == [db EXCEPT !.row[a].rev = seen + 1] IN
           /\ d \in Tables /\ Linked(d) /\ SameShape(db, d)
           /\ d.members = db.members /\ d.ships = db.ships /\ d.outbox = db.outbox
           /\ \A b \in Listings : b # a => d.row[b].rev = db.row[b].rev
           /\ d.row[a].rev = seen + 1
           /\ \A b \in Listings \ out : db.row[b].rev <= d.row[b].rev
           /\ a \notin out => Below(d, a, seen + 1)
<1> DEFINE d == [db EXCEPT !.row[a].rev = seen + 1]
<1>1. db \in Tables /\ \A b \in Listings : db.row[b].rev \in Nat
  BY TableFields DEF Holds
<1>2. /\ d \in Tables /\ d.row[a] = RowOf(db.row[a].state, seen + 1, db.row[a].open)
      /\ \A b \in Listings : b # a => d.row[b] = db.row[b]
      /\ d.members = db.members /\ d.ships = db.ships /\ d.outbox = db.outbox
  <2>1. seen + 1 \in Nat
    OBVIOUS
  <2> QED BY <1>1, <2>1, RevSet
<1> HIDE DEF d
<1>3. SameShape(db, d)
  BY <1>2 DEF SameShape, RowOf
<1>4. /\ \A b \in Listings : b # a => d.row[b].rev = db.row[b].rev
      /\ d.row[a].rev = seen + 1
  BY <1>2 DEF RowOf
<1>5. \A b \in Listings \ out : db.row[b].rev <= d.row[b].rev
  BY <1>1, <1>4
<1>6. Linked(d)
  <2>1. Linked(db)
    BY DEF Holds
  <2>2. \A b \in Listings : db.row[b].state = d.row[b].state /\ (Alive(db, b) <=> Alive(d, b))
    BY <1>3 DEF SameShape, Alive
  <2>3. \A m \in db.members : m[1] \in Listings /\ m[2] \in Listings
    BY <1>1, TableFields DEF Listings
  <2>4. \A s \in db.ships : s[1] \in Listings /\ s[2] \in Listings
    BY <1>1, TableFields DEF Listings
  <2>5. \A i \in 1..Len(db.outbox) : db.outbox[i].agg \in Listings
    BY <1>1, TableFields
  <2> QED BY <1>2, <2>1, <2>2, <2>3, <2>4, <2>5 DEF Linked
<1>7. ASSUME a \notin out PROVE Below(d, a, seen + 1)
  <2> SUFFICES ASSUME NEW i \in 1..Len(db.outbox), db.outbox[i].agg = a
               PROVE  db.outbox[i].rev < seen + 1
    BY <1>2 DEF Below
  <2>1. db.outbox[i].rev \in Nat /\ db.outbox[i].rev <= db.row[a].rev
    BY <1>1, <1>7, TableFields DEF Within, Holds
  <2> QED BY <2>1, <1>7
<1> QED BY <1>2, <1>3, <1>4, <1>5, <1>6, <1>7 DEF d

LEMMA ShapeSame ==
  ASSUME NEW d, NEW e, SameShape(d, e), NEW a \in Listings
  PROVE  Same(d, e, a)
BY ShapeReads DEF Same

\* A collection that is patched.
LEMMA PatchCollectionHolds ==
  ASSUME NEW out, Holds(db, astray.left, out), NEW c \in Collections, NEW seen \in Nat,
         c \notin out => seen = db.row[c].rev, db.row[c].state # "none", NEW content \in Contents,
         content.members = Keep,
         content.ships # Keep => content.ships \subseteq Options /\ Resolves(content.ships)
  PROVE  LET d == Detailed([db EXCEPT !.row[c].rev = seen + 1], c, content) IN
           LET f == Announce(d, c, seen + 1) IN
             Holds(f, astray.left, out) /\ Carries(db, f, out)
<1> DEFINE r == [db EXCEPT !.row[c].rev = seen + 1]
           d == Detailed(r, c, content)
           f == Announce(d, c, seen + 1)
           S == Publishing(d, {c})
<1>1. db \in Tables /\ c \in Listings
  BY DEF Holds, Listings
<1>2. /\ r \in Tables /\ Linked(r) /\ SameShape(db, r)
      /\ r.members = db.members /\ r.ships = db.ships /\ r.outbox = db.outbox
      /\ r.row[c].rev = seen + 1
      /\ \A b \in Listings \ out : db.row[b].rev <= r.row[b].rev
      /\ c \notin out => Below(r, c, seen + 1)
  BY <1>1, RenumberedHolds
<1> HIDE DEF r
<1>3. /\ d \in Tables /\ d.row = r.row /\ d.outbox = r.outbox
      /\ \A m \in d.members : m \in r.members
      /\ \A m \in r.members : m[1] # c => m \in d.members
      /\ \A s \in d.ships :
           \/ s \in r.ships
           \/ content.ships # Keep /\ s[1] = c /\ s[2] \in content.ships
      /\ \A s \in r.ships : s[1] # c => s \in d.ships
  BY <1>1, <1>2, DetailedDoes
<1> HIDE DEF d
<1>4. /\ Tells(d, f, S, out)
      /\ Below(d, c, seen + 1) => NoTombstone(f, c)
  <2>1. seen + 1 \in Nat /\ (c \notin out => seen + 1 <= d.row[c].rev)
    BY <1>2, <1>3
  <2> QED BY <1>1, <1>3, <2>1, AnnounceTells
<1>5. Linked(d)
  <2>1. \A m \in d.members : d.row[m[1]].state # "none" /\ Alive(d, m[2])
    BY <1>2, <1>3 DEF Linked, Alive
  <2>2. ASSUME NEW s \in d.ships
        PROVE  /\ d.row[s[1]].state # "none" /\ d.row[s[2]].state # "none"
               /\ \/ s[1] \in Products
                  \/ s[1] \in Collections /\ s[2] \in Options /\ Alive(d, s[2])
    <3>1. CASE s \in r.ships
      BY <3>1, <1>2, <1>3 DEF Linked, Alive
    <3>2. CASE content.ships # Keep /\ s[1] = c /\ s[2] \in content.ships
      <4>1. Alive(db, s[2]) /\ s[2] \in Options /\ s[2] \in Listings
        BY <3>2 DEF Resolves, Listings
      <4> QED BY <4>1, <3>2, <1>1, <1>2, <1>3 DEF Alive, SameShape
    <3> QED BY <3>1, <3>2, <1>3
  <2>3. \A j \in 1..Len(d.outbox) : d.row[d.outbox[j].agg].state # "none"
    BY <1>2, <1>3 DEF Linked
  <2> QED BY <2>1, <2>2, <2>3 DEF Linked
<1>6. \A a \in Listings : /\ db.row[a].state = d.row[a].state /\ db.row[a].open = d.row[a].open
                          /\ (Alive(db, a) <=> Alive(d, a)) /\ (Offered(db, a) <=> Offered(d, a))
  BY <1>2, <1>3 DEF SameShape, Alive, Offered
<1>7. \A a \in Collections : MembersOf(db, a) = MembersOf(d, a)
  <2> SUFFICES ASSUME NEW a \in Collections, NEW x \in Products
               PROVE  (<<x, a>> \in db.members /\ Offered(db, x)) <=>
                      (<<x, a>> \in d.members /\ Offered(d, x))
    BY DEF MembersOf
  <2>1. x # c /\ x \in Listings
    BY CatalogAssumption DEF Listings
  <2> QED BY <2>1, <1>2, <1>3, <1>6
<1>8. ASSUME NEW a \in Listings \ (astray.left \cup out)
      PROVE  Covers(db, d, f, S, a)
  <2>1. CASE a = c
    <3>1. CASE Publishes(d, c)
      BY <2>1, <3>1, <1>2, <1>3, <1>4 DEF Covers, Publishing, Below
    <3>2. CASE ~ Publishes(d, c)
      <4>1. ~ Publishes(db, c)
        BY <3>2, <1>1, <1>6, <1>7 DEF Publishes
      <4> QED BY <2>1, <3>2, <4>1 DEF Covers, Same
    <3> QED BY <3>1, <3>2
  <2>2. CASE a # c
    <3>1. \A b \in Collections : (<<a, b>> \in db.members /\ Alive(db, b)) <=>
                                 (<<a, b>> \in d.members /\ Alive(d, b))
      BY <2>2, <1>2, <1>3, <1>6 DEF Listings
    <3>2. \A x \in Collections \cup Options : (<<a, x>> \in db.ships /\ Alive(db, x)) <=>
                                              (<<a, x>> \in d.ships /\ Alive(d, x))
      BY <2>2, <1>2, <1>3, <1>6 DEF Listings
    <3>3. Same(db, d, a)
      BY <3>1, <3>2, <1>6, <1>7, SameReads
    <3> QED BY <3>3 DEF Covers
  <2> QED BY <2>1, <2>2
<1>9. /\ \A a \in Listings \ out : db.row[a].rev <= d.row[a].rev \/ db.row[a].state = "none"
      /\ \A a \in Listings : db.row[a].state # "none" => d.row[a].state # "none"
  BY <1>2, <1>3, <1>6
<1>10. S \in SUBSET Listings /\ \A a \in S : d.row[a].state # "none"
  BY <1>1 DEF Publishing, Publishes, Offered, Alive
<1>11. Holds(f, astray.left, out)
  <2> HIDE DEF f, S
  <2> QED BY <1>2, <1>3, <1>4, <1>5, <1>8, <1>9, <1>10, Transacts
<1>12. Carries(db, f, out)
  <2>1. \A x \in S : db.row[x].state # "deleted"
    BY <1>6, <1>10 DEF Publishing, Publishes, Offered, Alive
  <2> HIDE DEF f, S
  <2> QED BY <2>1, <1>1, <1>2, <1>3, <1>4, <1>6, <1>10, Spared
<1> QED BY <1>11, <1>12 DEF r, d, f

\* A collection that is created.
LEMMA CreateCollectionHolds ==
  ASSUME Holds(db, astray.left, astray.outdated), NEW c \in Collections, db.row[c].state = "none",
         NEW options \in SUBSET Options, Resolves(options)
  PROVE  LET f == [Inserted(c, TRUE) EXCEPT !.ships = @ \cup ({c} \X options)] IN
           Holds(f, astray.left, astray.outdated) /\ Carries(db, f, astray.outdated)
<1> DEFINE i == Inserted(c, TRUE)
           ships == i.ships \cup ({c} \X options)
           d == [i EXCEPT !.ships = ships]
<1>1. db \in Tables /\ c \in Listings
  BY DEF Holds, Listings
<1>2. /\ i \in Tables /\ i.row[c] = RowOf("live", 0, TRUE)
      /\ \A b \in Listings : b # c => i.row[b] = db.row[b]
      /\ i.members = db.members /\ i.ships = db.ships /\ i.outbox = db.outbox
  BY <1>1, InsertedDoes
<1> HIDE DEF i
<1>3. ships \in SUBSET (Listings \X (Collections \cup Options))
  <2>1. i.ships \in SUBSET (Listings \X (Collections \cup Options))
    BY <1>2, TableFields
  <2>2. {c} \X options \in SUBSET (Listings \X (Collections \cup Options))
    BY <1>1
  <2> QED BY <2>1, <2>2
<1>4. d \in Tables /\ d.row = i.row /\ d.members = db.members /\ d.ships = ships /\ d.outbox = db.outbox
  BY <1>2, <1>3, ShipsWrites
<1>5. \A s \in ships : s \in db.ships \/ (s[1] = c /\ s[2] \in options)
  BY <1>2
<1>6. \A s \in db.ships : s \in ships
  BY <1>2
<1> HIDE DEF d, ships
<1>7. /\ \A j \in 1..Len(db.outbox) : db.outbox[j].agg # c
      /\ relay[c].said # "listing"
      /\ \A m \in db.members : m[1] # c /\ m[2] # c
      /\ \A s \in db.ships : s[1] # c /\ s[2] # c
  BY <1>1, NoRow
<1>8. \A a \in Listings : /\ a # c => d.row[a] = db.row[a] /\ (Alive(db, a) <=> Alive(d, a))
                          /\ d.row[c].state = "live"
  BY <1>2, <1>4 DEF Alive, RowOf
<1>9. Linked(d)
  <2>1. \A m \in d.members : d.row[m[1]].state # "none" /\ Alive(d, m[2])
    <3>1. \A m \in d.members : m[1] \in Listings /\ m[2] \in Listings
      BY <1>4, TableFields DEF Listings
    <3> QED BY <3>1, <1>4, <1>7, <1>8 DEF Linked, Holds
  <2>2. ASSUME NEW s \in d.ships
        PROVE  /\ d.row[s[1]].state # "none" /\ d.row[s[2]].state # "none"
               /\ \/ s[1] \in Products
                  \/ s[1] \in Collections /\ s[2] \in Options /\ Alive(d, s[2])
    <3>1. s[1] \in Listings /\ s[2] \in Listings
      BY <1>4, TableFields DEF Listings
    <3>2. CASE s \in db.ships
      BY <3>1, <3>2, <1>7, <1>8 DEF Linked, Holds
    <3>3. CASE s[1] = c /\ s[2] \in options
      <4>1. Alive(db, s[2]) /\ s[2] # c
        BY <3>3, CatalogAssumption DEF Resolves
      <4>2. Alive(d, s[2])
        BY <3>1, <4>1, <1>8
      <4> QED BY <3>1, <3>3, <4>2, <1>8 DEF Alive
    <3> QED BY <3>2, <3>3, <1>4, <1>5
  <2>3. \A j \in 1..Len(d.outbox) : d.row[d.outbox[j].agg].state # "none"
    BY <1>1, <1>4, <1>7, <1>8, TableFields DEF Holds, Linked
  <2> QED BY <2>1, <2>2, <2>3 DEF Linked
<1>10. ASSUME NEW a \in Listings \ (astray.left \cup astray.outdated)
       PROVE  Covers(db, d, d, {}, a)
  <2>1. CASE a = c
    <3>1. MembersOf(d, c) = {}
      BY <1>4, <1>7 DEF MembersOf
    <3> QED BY <2>1, <3>1, <1>7 DEF Covers, Publishes
  <2>2. CASE a # c
    <3>1. d.row[a].state = db.row[a].state /\ d.row[a].open = db.row[a].open
      BY <2>2, <1>8
    <3>2. a \in Collections => MembersOf(db, a) = MembersOf(d, a)
      <4>1. \A x \in Products : Offered(db, x) <=> Offered(d, x)
        BY <1>8, CatalogAssumption DEF Offered, Alive, Listings
      <4> QED BY <4>1, <1>4 DEF MembersOf
    <3>3. \A b \in Collections : (<<a, b>> \in db.members /\ Alive(db, b)) <=>
                                 (<<a, b>> \in d.members /\ Alive(d, b))
      BY <1>4, <1>7, <1>8 DEF Listings
    <3>4. \A x \in Collections \cup Options : (<<a, x>> \in db.ships /\ Alive(db, x)) <=>
                                              (<<a, x>> \in d.ships /\ Alive(d, x))
      BY <2>2, <1>4, <1>5, <1>6, <1>7, <1>8 DEF Listings
    <3>5. Same(db, d, a)
      BY <3>1, <3>2, <3>3, <3>4, SameReads
    <3> QED BY <3>5 DEF Covers
  <2> QED BY <2>1, <2>2
<1>11. \A a \in Listings : /\ db.row[a].rev <= d.row[a].rev \/ db.row[a].state = "none"
                           /\ db.row[a].state # "none" => d.row[a].state # "none"
  <2>1. \A a \in Listings : db.row[a].rev \in Nat
    BY <1>1, TableFields
  <2> QED BY <2>1, <1>8
<1>12. Tells(d, d, {}, astray.outdated)
  BY <1>4, TellsNothing
<1>13. Holds(d, astray.left, astray.outdated)
  BY <1>4, <1>9, <1>10, <1>11, <1>12, Transacts
<1>14. Carries(db, d, astray.outdated)
  <2>1. \A x \in Listings : \/ d.row[x].state = db.row[x].state
                            \/ db.row[x].state = "none" /\ d.row[x].state = "live"
    BY <1>8
  <2> QED BY <2>1, <1>1, <1>4, <1>12, Spared
<1> QED BY <1>13, <1>14 DEF i, d, ships

\* A shipping option that is created.
LEMMA CreateShippingHolds ==
  ASSUME Holds(db, astray.left, astray.outdated), NEW o \in Options, db.row[o].state = "none",
         NEW active \in BOOLEAN
  PROVE  LET f == Announce(Inserted(o, active), o, 0) IN
           Holds(f, astray.left, astray.outdated) /\ Carries(db, f, astray.outdated)
<1> DEFINE d == Inserted(o, active)
           f == Announce(d, o, 0)
           S == Publishing(d, {o})
<1>1. db \in Tables /\ o \in Listings
  BY DEF Holds, Listings
<1>2. /\ d \in Tables /\ d.row[o] = RowOf("live", 0, active)
      /\ \A b \in Listings : b # o => d.row[b] = db.row[b]
      /\ d.members = db.members /\ d.ships = db.ships /\ d.outbox = db.outbox
  BY <1>1, InsertedDoes
<1> HIDE DEF d
<1>3. /\ \A j \in 1..Len(db.outbox) : db.outbox[j].agg # o
      /\ relay[o].said # "listing"
      /\ \A m \in db.members : m[1] # o /\ m[2] # o
      /\ \A s \in db.ships : s[1] # o /\ s[2] # o
  BY <1>1, NoRow
<1>4. /\ Tells(d, f, S, astray.outdated)
      /\ Below(d, o, 0) => NoTombstone(f, o)
  <2>1. 0 \in Nat /\ (o \notin astray.outdated => 0 <= d.row[o].rev)
    BY <1>2 DEF RowOf
  <2> QED BY <1>1, <1>2, <2>1, AnnounceTells
<1>5. d.row[o].state = "live" /\ \A a \in Listings : a # o => (Alive(db, a) <=> Alive(d, a))
  BY <1>2 DEF Alive, RowOf
<1>6. Linked(d)
  <2>1. \A m \in d.members : m[1] \in Listings /\ m[2] \in Listings
    BY <1>2, TableFields DEF Listings
  <2>2. \A s \in d.ships : s[1] \in Listings /\ s[2] \in Listings
    BY <1>2, TableFields DEF Listings
  <2>3. \A j \in 1..Len(d.outbox) : d.outbox[j].agg \in Listings
    BY <1>2, TableFields
  <2> QED BY <1>2, <1>3, <1>5, <2>1, <2>2, <2>3 DEF Linked, Holds
<1>7. ASSUME NEW a \in Listings \ (astray.left \cup astray.outdated)
      PROVE  Covers(db, d, f, S, a)
  <2>1. CASE a = o
    BY <2>1, <1>2, <1>3, <1>4 DEF Covers, Publishing, Below
  <2>2. CASE a # o
    <3>1. d.row[a].state = db.row[a].state /\ d.row[a].open = db.row[a].open
      BY <2>2, <1>2
    <3>2. a \in Collections => MembersOf(db, a) = MembersOf(d, a)
      <4>1. \A x \in Products : Offered(db, x) <=> Offered(d, x)
        BY <1>2, CatalogAssumption DEF Offered, Alive, Listings
      <4> QED BY <4>1, <1>2 DEF MembersOf
    <3>3. \A b \in Collections : (<<a, b>> \in db.members /\ Alive(db, b)) <=>
                                 (<<a, b>> \in d.members /\ Alive(d, b))
      BY <1>2, <1>3, <1>5 DEF Listings
    <3>4. \A x \in Collections \cup Options : (<<a, x>> \in db.ships /\ Alive(db, x)) <=>
                                              (<<a, x>> \in d.ships /\ Alive(d, x))
      BY <1>2, <1>3, <1>5 DEF Listings
    <3>5. Same(db, d, a)
      BY <3>1, <3>2, <3>3, <3>4, SameReads
    <3> QED BY <3>5 DEF Covers
  <2> QED BY <2>1, <2>2
<1>8. \A a \in Listings : /\ db.row[a].rev <= d.row[a].rev \/ db.row[a].state = "none"
                          /\ db.row[a].state # "none" => d.row[a].state # "none"
  <2>1. \A a \in Listings : db.row[a].rev \in Nat
    BY <1>1, TableFields
  <2> QED BY <2>1, <1>2, <1>5
<1>9. S \in SUBSET Listings /\ \A a \in S : d.row[a].state # "none"
  BY <1>1 DEF Publishing, Publishes, Offered, Alive
<1>10. Holds(f, astray.left, astray.outdated)
  <2> HIDE DEF f, S
  <2> QED BY <1>2, <1>4, <1>6, <1>7, <1>8, <1>9, Transacts
<1>11. Carries(db, f, astray.outdated)
  <2>1. \A x \in Listings : \/ d.row[x].state = db.row[x].state
                            \/ db.row[x].state = "none" /\ d.row[x].state = "live"
    BY <1>2, <1>5
  <2>2. \A x \in S : db.row[x].state # "deleted"
    BY DEF Publishing
  <2> HIDE DEF f, S
  <2> QED BY <2>1, <2>2, <1>1, <1>2, <1>4, <1>9, Spared
<1> QED BY <1>10, <1>11 DEF d, f

\* A shipping option that is patched: the option, its collections, its products.
LEMMA PatchShippingHolds ==
  ASSUME Holds(db, astray.left, astray.outdated), NEW o \in Options, NEW seen \in Nat,
         NEW active \in BOOLEAN, db.row[o].state # "none",
         NEW left, left = astray.left \cup (IF active THEN {} ELSE {o}),
         NEW out, out = astray.outdated \cup (IF seen = db.row[o].rev THEN {} ELSE {o})
  PROVE  LET r == [db EXCEPT !.row[o].rev = seen + 1]
             d == Announce([r EXCEPT !.row[o].open = active], o, seen + 1)
             g == Republish(d, ShippingBy(db, o) \cap Collections)
             f == Republish(g, ShippingBy(db, o) \cap Products)
         IN Holds(f, left, out) /\ Carries(db, f, out)
<1> DEFINE r == [db EXCEPT !.row[o].rev = seen + 1]
           i == [r EXCEPT !.row[o].open = active]
           d == Announce(i, o, seen + 1)
           cs == ShippingBy(db, o) \cap Collections
           g == Republish(d, cs)
           ps == ShippingBy(db, o) \cap Products
           f == Republish(g, ps)
           S == Publishing(i, {o}) \cup Publishing(i, cs) \cup Publishing(i, ps)
<1>1. db \in Tables /\ o \in Listings
  BY DEF Holds, Listings
<1>2. Holds(db, astray.left, out) /\ Holds(db, left, out)
  BY HoldsApart
<1>3. /\ r \in Tables /\ Linked(r) /\ SameShape(db, r)
      /\ r.members = db.members /\ r.ships = db.ships /\ r.outbox = db.outbox
      /\ \A b \in Listings : b # o => r.row[b].rev = db.row[b].rev
      /\ r.row[o].rev = seen + 1
      /\ \A b \in Listings \ out : db.row[b].rev <= r.row[b].rev
      /\ o \notin out => Below(r, o, seen + 1)
  BY <1>1, <1>2, RenumberedHolds
<1> HIDE DEF r
<1>4. /\ i \in Tables /\ i.row[o] = RowOf(r.row[o].state, r.row[o].rev, active)
      /\ \A b \in Listings : b # o => i.row[b] = r.row[b]
      /\ i.members = r.members /\ i.ships = r.ships /\ i.outbox = r.outbox
  BY <1>1, <1>3, OpenSet
<1> HIDE DEF i
<1>5. /\ \A a \in Listings : /\ i.row[a].state = db.row[a].state /\ i.row[a].rev = r.row[a].rev
                             /\ a # o => i.row[a].open = db.row[a].open
      /\ i.row[o].open = active
  BY <1>3, <1>4 DEF RowOf, SameShape
<1>6. cs \in SUBSET Listings /\ ps \in SUBSET Listings
  BY DEF Listings
<1> HIDE DEF cs, ps
<1>7. /\ Tells(i, d, Publishing(i, {o}), out)
      /\ Below(i, o, seen + 1) => NoTombstone(d, o)
  <2>1. seen + 1 \in Nat /\ (o \notin out => seen + 1 <= i.row[o].rev)
    BY <1>1, <1>3, <1>5
  <2> QED BY <1>1, <1>4, <2>1, AnnounceTells
<1> HIDE DEF d
<1>8. d \in Tables /\ Tells(d, g, Publishing(d, cs), {})
  <2>1. d \in Tables
    BY <1>7 DEF Tells
  <2> QED BY <1>6, <2>1, RepublishTells
<1> HIDE DEF g
<1>9. g \in Tables /\ Tells(g, f, Publishing(g, ps), {})
  <2>1. g \in Tables
    BY <1>8 DEF Tells
  <2> QED BY <1>6, <2>1, RepublishTells
<1> HIDE DEF f
<1>10. Publishing(d, cs) = Publishing(i, cs) /\ Publishing(g, ps) = Publishing(i, ps)
  <2>1. \A L \in SUBSET Listings : Publishing(d, L) = Publishing(i, L)
    BY <1>1, <1>7, ShapeReads DEF Tells
  <2>2. \A L \in SUBSET Listings : Publishing(g, L) = Publishing(d, L)
    BY <1>1, <1>8, ShapeReads DEF Tells
  <2> QED BY <1>6, <2>1, <2>2
<1>11. /\ Publishing(i, {o}) \in SUBSET Listings /\ Publishing(i, cs) \in SUBSET Listings
       /\ Publishing(i, ps) \in SUBSET Listings
  BY <1>1, <1>6 DEF Publishing
<1>12. Tells(i, f, S, out)
  <2>1. Tells(i, g, Publishing(i, {o}) \cup Publishing(i, cs), out \cup {})
    BY <1>4, <1>7, <1>8, <1>10, <1>11, TellsTwice
  <2>2. Tells(i, f, (Publishing(i, {o}) \cup Publishing(i, cs)) \cup Publishing(i, ps), (out \cup {}) \cup {})
    BY <2>1, <1>4, <1>9, <1>10, <1>11, TellsTwice
  <2>3. (out \cup {}) \cup {} = out
    OBVIOUS
  <2> QED BY <2>2, <2>3
<1>13. \A a \in Listings : Alive(db, a) <=> Alive(i, a)
  BY <1>5 DEF Alive
<1>14. Linked(i)
  <2>1. \A m \in db.members : m[1] \in Listings /\ m[2] \in Listings
    BY <1>1, TableFields DEF Listings
  <2>2. \A s \in db.ships : s[1] \in Listings /\ s[2] \in Listings
    BY <1>1, TableFields DEF Listings
  <2>3. \A j \in 1..Len(db.outbox) : db.outbox[j].agg \in Listings
    BY <1>1, TableFields
  <2>4. /\ Linked(db) /\ i.members = db.members /\ i.ships = db.ships /\ i.outbox = db.outbox
        /\ \A a \in Listings : i.row[a].state = db.row[a].state
    BY <1>2, <1>3, <1>4, <1>5 DEF Holds
  <2>5. \A m \in i.members : i.row[m[1]].state # "none" /\ Alive(i, m[2])
    BY <1>13, <2>1, <2>4 DEF Linked
  <2>6. \A s \in i.ships :
          /\ i.row[s[1]].state # "none" /\ i.row[s[2]].state # "none"
          /\ \/ s[1] \in Products
             \/ s[1] \in Collections /\ s[2] \in Options /\ Alive(i, s[2])
    BY <1>13, <2>2, <2>4 DEF Linked
  <2>7. \A j \in 1..Len(i.outbox) : i.row[i.outbox[j].agg].state # "none"
    BY <2>3, <2>4 DEF Linked
  <2> QED BY <2>5, <2>6, <2>7 DEF Linked
<1>15. ASSUME NEW a \in Listings \ (left \cup out)
       PROVE  Covers(db, i, f, S, a)
  <2>1. CASE a = o
    <3>1. CASE Publishes(i, o)
      <4>1. Below(i, o, seen + 1)
        BY <2>1, <1>3, <1>4 DEF Below
      <4>2. NoTombstone(d, o)
        BY <4>1, <1>7
      <4>3. NoTombstone(f, o)
        BY <4>2, <1>1, <1>8, <1>9, TellsKeeps
      <4> QED BY <2>1, <3>1, <4>3 DEF Covers, Publishing
    <3>2. CASE ~ Publishes(i, o)
      <4>1. active
        BY <2>1
      <4>2. o \notin Collections
        BY CatalogAssumption
      <4>3. ~ Publishes(db, o)
        BY <3>2, <4>1, <4>2, <1>1, <1>5, <1>13 DEF Publishes, Offered
      <4> QED BY <2>1, <3>2, <4>3 DEF Covers, Same
    <3> QED BY <3>1, <3>2
  <2>2. CASE a # o
    <3>1. i.row[a].state = db.row[a].state /\ i.row[a].open = db.row[a].open
      BY <2>2, <1>5
    <3>2. a \in Collections => MembersOf(db, a) = MembersOf(i, a)
      <4>1. \A x \in Products : Offered(db, x) <=> Offered(i, x)
        BY <1>5, <1>13, CatalogAssumption DEF Offered, Listings
      <4> QED BY <4>1, <1>3, <1>4 DEF MembersOf
    <3>3. \A b \in Collections : (<<a, b>> \in db.members /\ Alive(db, b)) <=>
                                 (<<a, b>> \in i.members /\ Alive(i, b))
      BY <1>3, <1>4, <1>13 DEF Listings
    <3>4. \A x \in Collections \cup Options : (<<a, x>> \in db.ships /\ Alive(db, x)) <=>
                                              (<<a, x>> \in i.ships /\ Alive(i, x))
      BY <1>3, <1>4, <1>13 DEF Listings
    <3>5. Same(db, i, a)
      BY <3>1, <3>2, <3>3, <3>4, SameReads
    <3> QED BY <3>5 DEF Covers
  <2> QED BY <2>1, <2>2
<1>16. S \in SUBSET Listings /\ \A a \in S : i.row[a].state # "none" /\ db.row[a].state # "deleted"
  BY <1>5, <1>11 DEF Publishing, Publishes, Offered, Alive
<1>17. /\ \A a \in Listings \ out : db.row[a].rev <= i.row[a].rev \/ db.row[a].state = "none"
       /\ \A a \in Listings : db.row[a].state # "none" => i.row[a].state # "none"
  BY <1>3, <1>5
<1>18. Holds(f, left, out)
  <2> HIDE DEF S
  <2> QED BY <1>2, <1>3, <1>4, <1>12, <1>14, <1>15, <1>16, <1>17, Transacts
<1>19. Carries(db, f, out)
  <2> HIDE DEF S
  <2> QED BY <1>1, <1>3, <1>4, <1>5, <1>12, <1>16, Spared
<1> QED BY <1>18, <1>19 DEF r, i, d, cs, g, ps, f

-----------------------------------------------------------------------------
\* Requests that delete

\* e has lost rows that d has: they refer to nothing and nothing to them.
Fewer(d, e) ==
  /\ e.members \subseteq d.members /\ e.ships \subseteq d.ships
  /\ \A m \in d.members : Alive(e, m[1]) /\ Alive(e, m[2]) => m \in e.members
  /\ \A s \in d.ships : Alive(e, s[1]) /\ Alive(e, s[2]) => s \in e.ships
  /\ \A a \in Listings : /\ d.row[a].open = e.row[a].open
                         /\ Alive(e, a) => Alive(d, a)
                         /\ d.row[a].state # "none" => e.row[a].state # "none"

LEMMA FewerReads ==
  ASSUME NEW d, NEW e, Fewer(d, e), NEW a \in Listings
  PROVE  /\ Publishes(e, a) => Publishes(d, a)
         /\ \A x \in Listings : Alive(e, a) /\ Alive(e, x) /\ Names(d, a, x) => Names(e, a, x)
<1>1. \A b \in Listings : Offered(e, b) => Offered(d, b)
  BY DEF Fewer, Offered
<1>2. \A b \in Listings : Offered(d, b) /\ Alive(e, b) => Offered(e, b)
  BY DEF Fewer, Offered
<1>3. MembersOf(e, a) \subseteq MembersOf(d, a)
  BY <1>1 DEF MembersOf, Fewer, Listings
<1>4. ASSUME NEW x \in Listings, Alive(e, a), Alive(e, x), Names(d, a, x)
      PROVE  Names(e, a, x)
  BY <1>2, <1>4 DEF Names, CollectionsOf, MembersOf, ShipsOf, Fewer
<1> QED BY <1>1, <1>3, <1>4 DEF Publishes

LEMMA DeletedDoes ==
  ASSUME NEW d \in Tables, Linked(d), NEW a \in Listings, d.row[a].state # "none"
  PROVE  LET e == Deleted(d, a) IN
           /\ e \in Tables /\ Linked(e) /\ Fewer(d, e) /\ e.outbox = d.outbox
           /\ \A b \in Listings : b # a => e.row[b] = d.row[b]
           /\ e.row[a].state = "deleted" /\ e.row[a].rev = d.row[a].rev + 1
           /\ Within(d, a) => Below(e, a, e.row[a].rev)
           /\ \A m \in d.members : m[1] # a /\ m[2] # a => m \in e.members
           /\ \A s \in d.ships : s[1] # a /\ s[2] # a => s \in e.ships
<1> DEFINE members == {m \in d.members : a \notin {m[1], m[2]}}
           ships == {s \in d.ships : a \notin {s[1], s[2]}}
           g == [d EXCEPT !.members = members]
           u == Unlinked(d, a)
           k == Counted(u, {a})
           e == [k EXCEPT !.row[a].state = "deleted"]
<1>1. /\ d.members \in SUBSET (Products \X Collections)
      /\ d.ships \in SUBSET (Listings \X (Collections \cup Options))
      /\ d.row[a].rev \in Nat
  BY TableFields
<1>2. members \in SUBSET (Products \X Collections) /\ ships \in SUBSET (Listings \X (Collections \cup Options))
  BY <1>1
<1>3. u = [g EXCEPT !.ships = ships]
  BY DEF Unlinked, Tables
<1>4. /\ \A m \in members : m \in d.members /\ m[1] # a /\ m[2] # a
      /\ \A m \in d.members : m[1] # a /\ m[2] # a => m \in members
      /\ \A s \in ships : s \in d.ships /\ s[1] # a /\ s[2] # a
      /\ \A s \in d.ships : s[1] # a /\ s[2] # a => s \in ships
  OBVIOUS
<1> HIDE DEF members, ships, u
<1>5. g \in Tables /\ g.row = d.row /\ g.members = members /\ g.ships = d.ships /\ g.outbox = d.outbox
  BY <1>2, MembersWrites
<1> HIDE DEF g
<1>6. u \in Tables /\ u.row = d.row /\ u.members = members /\ u.ships = ships /\ u.outbox = d.outbox
  <2>1. u \in Tables /\ u.row = g.row /\ u.members = g.members /\ u.ships = ships /\ u.outbox = g.outbox
    BY <1>2, <1>3, <1>5, ShipsWrites
  <2> QED BY <2>1, <1>5
<1>7. /\ k \in Tables /\ SameShape(u, k) /\ k.outbox = u.outbox
      /\ \A b \in Listings : k.row[b].rev = IF b \in {a} THEN u.row[b].rev + 1 ELSE u.row[b].rev
  <2>1. {a} \in SUBSET Listings
    OBVIOUS
  <2>2. /\ Tells(u, k, {}, {}) /\ k.outbox = u.outbox
        /\ \A b \in Listings : k.row[b].rev = IF b \in {a} THEN u.row[b].rev + 1 ELSE u.row[b].rev
    BY <1>6, <2>1, CountedTells
  <2> HIDE DEF k
  <2> QED BY <2>2 DEF Tells
<1>8. \A b \in Listings : b # a => k.row[b] = u.row[b]
  BY DEF Counted
<1> HIDE DEF k
<1>9. /\ e \in Tables /\ e.row[a] = RowOf("deleted", k.row[a].rev, k.row[a].open)
      /\ \A b \in Listings : b # a => e.row[b] = k.row[b]
      /\ e.members = k.members /\ e.ships = k.ships /\ e.outbox = k.outbox
  BY <1>7, StateSet
<1>10. e = Deleted(d, a)
  BY DEF Deleted, k, u
<1> HIDE DEF e
<1>11. /\ e.outbox = d.outbox /\ e.members = members /\ e.ships = ships
       /\ \A b \in Listings : b # a => e.row[b] = d.row[b]
       /\ e.row[a].state = "deleted" /\ e.row[a].rev = d.row[a].rev + 1
       /\ e.row[a].open = d.row[a].open
  BY <1>6, <1>7, <1>8, <1>9 DEF RowOf, SameShape
<1>12. Fewer(d, e)
  <2>1. \A b \in Listings : Alive(e, b) => b # a /\ Alive(d, b)
    BY <1>11 DEF Alive
  <2>2. ~ Alive(e, a)
    BY <1>11 DEF Alive
  <2>3. \A b \in Listings : d.row[b].open = e.row[b].open /\ (d.row[b].state # "none" => e.row[b].state # "none")
    BY <1>11
  <2>4. \A m \in d.members : Alive(e, m[1]) /\ Alive(e, m[2]) => m \in e.members
    BY <2>2, <1>4, <1>11
  <2>5. \A s \in d.ships : Alive(e, s[1]) /\ Alive(e, s[2]) => s \in e.ships
    BY <2>2, <1>4, <1>11
  <2> QED BY <2>1, <2>3, <2>4, <2>5, <1>4, <1>11 DEF Fewer
<1>13. Linked(e)
  <2>1. \A m \in e.members : /\ m \in d.members /\ m[1] \in Listings /\ m[2] \in Listings
                             /\ m[1] # a /\ m[2] # a
    BY <1>1, <1>4, <1>11 DEF Listings
  <2>2. \A s \in e.ships : /\ s \in d.ships /\ s[1] \in Listings /\ s[2] \in Listings
                           /\ s[1] # a /\ s[2] # a
    BY <1>1, <1>4, <1>11 DEF Listings
  <2>3. \A j \in 1..Len(d.outbox) : d.outbox[j].agg \in Listings
    BY TableFields
  <2> QED BY <2>1, <2>2, <2>3, <1>11 DEF Linked, Alive
<1>14. ASSUME Within(d, a) PROVE Below(e, a, e.row[a].rev)
  <2> SUFFICES ASSUME NEW j \in 1..Len(d.outbox), d.outbox[j].agg = a
               PROVE  d.outbox[j].rev < d.row[a].rev + 1
    BY <1>11 DEF Below
  <2>1. d.outbox[j].rev \in Nat /\ d.outbox[j].rev <= d.row[a].rev
    BY <1>14, TableFields DEF Within
  <2> QED BY <2>1, <1>1
<1> QED BY <1>4, <1>9, <1>10, <1>11, <1>12, <1>13, <1>14

\* A listing x dies, S is said of the others, and its tombstone waits for those of S
\* that are published.
LEMMA Deletes ==
  ASSUME NEW d, NEW left, NEW out, Holds(d, left, out),
         NEW x \in Listings, d.row[x].state # "none", Alive(d, x) \/ x \in out,
         NEW f, NEW S \in SUBSET Listings, x \notin S, Tells(Deleted(d, x), f, S, {}),
         \A a \in S : Alive(d, a),
         \A a \in Listings \ (left \cup out) : a # x => Covers(d, Deleted(d, x), f, S, a),
         NEW needs \in SUBSET S,
         \A a \in Listings : Publishes(Deleted(d, x), a) /\ Names(d, a, x) => a \in needs
  PROVE  Holds(Withdraw(f, x, needs), left, out) /\ Carries(d, Withdraw(f, x, needs), out)
<1> DEFINE e == Deleted(d, x)
           g == Withdraw(f, x, needs)
           T == S \cup {x}
<1>1. d \in Tables /\ Linked(d)
  BY DEF Holds
<1>2. /\ e \in Tables /\ Linked(e) /\ Fewer(d, e) /\ e.outbox = d.outbox
      /\ \A b \in Listings : b # x => e.row[b] = d.row[b]
      /\ e.row[x].state = "deleted" /\ e.row[x].rev = d.row[x].rev + 1
      /\ Within(d, x) => Below(e, x, e.row[x].rev)
  BY <1>1, DeletedDoes
<1>3. /\ Tells(e, f, S, {})
      /\ \A a \in Listings \ (left \cup out) : a # x => Covers(d, e, f, S, a)
      /\ \A a \in Listings : Publishes(e, a) /\ Names(d, a, x) => a \in needs
  OBVIOUS
<1> HIDE DEF e
<1>4. f \in Tables /\ ~ Publishes(f, x) /\ f.row[x].state = "deleted"
  BY <1>2, <1>3 DEF Tells, SameShape, Publishes, Offered, Alive
<1>5. Tells(f, g, {x}, {})
  BY <1>4, WithdrawTells
<1>6. Tells(e, g, T, out)
  <2>1. {x} \in SUBSET Listings
    OBVIOUS
  <2>2. Tells(e, g, S \cup {x}, {} \cup {})
    <3> HIDE DEF g
    <3> QED BY <2>1, <1>2, <1>3, <1>5, TellsTwice
  <2>3. Tells(e, g, T, {})
    BY <2>2
  <2> HIDE DEF T, g
  <2> QED BY <2>3, TellsApart
<1> HIDE DEF g
<1>7. g \in Tables /\ g.row[x].state = "deleted"
  BY <1>2, <1>6 DEF Tells, SameShape
<1>8. ASSUME NEW a \in Listings \ (left \cup out)
      PROVE  Covers(d, e, g, T, a)
  <2>1. CASE a = x
    <3>1. ~ Publishes(g, x)
      BY <1>7 DEF Publishes, Offered, Alive
    <3> QED BY <2>1, <3>1 DEF Covers, NoTombstone
  <2>2. CASE a # x
    <3>1. Covers(d, e, f, S, a)
      BY <2>2, <1>3
    <3>2. NoTombstone(f, a) => NoTombstone(g, a)
      BY <1>4, <1>5, TellsKeeps
    <3> QED BY <3>1, <3>2 DEF Covers
  <2> QED BY <2>1, <2>2
<1>9. T \in SUBSET Listings /\ \A a \in T : e.row[a].state # "none"
  BY <1>2 DEF Alive
<1>10. \A a \in Listings : /\ d.row[a].rev <= e.row[a].rev
                           /\ d.row[a].state # "none" => e.row[a].state # "none"
  <2>1. \A a \in Listings : d.row[a].rev \in Nat
    BY <1>1, TableFields
  <2> QED BY <2>1, <1>2
<1>11. Holds(g, left, out)
  <2> HIDE DEF T
  <2> QED BY <1>2, <1>6, <1>8, <1>9, <1>10, Transacts
<1>12. Carries(d, g, out)
  <2>1. \A a \in Listings : /\ d.row[a].state = "deleted" => e.row[a].state = "deleted"
                            /\ e.row[a].state = "deleted" => d.row[a].state # "none"
    BY <1>2
  <2>2. \A a \in T \ out : d.row[a].state # "deleted"
    BY DEF Alive
  <2>3. ASSUME NEW y \in Listings \ out, Alive(d, y), ~ Alive(e, y),
               NEW a \in Listings, Publishes(e, a), Names(d, a, y)
        PROVE  Held(g, y, a)
    <3>1. y = x
      BY <2>3, <1>2 DEF Alive
    <3>2. a \in needs /\ a \in S /\ a # x
      BY <2>3, <3>1, <1>3
    <3>3. Waits(f, a)
      BY <3>2, <1>3 DEF Tells
    <3>4. Below(f, x, f.row[x].rev)
      <4> SUFFICES ASSUME NEW j \in 1..Len(f.outbox), f.outbox[j].agg = x
                   PROVE  f.outbox[j].rev < f.row[x].rev
        BY DEF Below
      <4>1. Below(e, x, e.row[x].rev)
        BY <2>3, <3>1, <1>2 DEF Holds
      <4>2. ~ (j > Len(e.outbox))
        BY <1>3 DEF Tells
      <4>3. j \in 1..Len(e.outbox)
        BY <4>2, <1>2, <1>4, TableFields
      <4>4. f.outbox[j].rev < e.row[x].rev
        BY <4>1, <4>3, <1>3 DEF Tells, StaysOrYields, SameIntent, Below
      <4>5. f.outbox[j].rev \in Nat /\ e.row[x].rev \in Nat /\ f.row[x].rev \in Nat
        BY <1>2, <1>4, TableFields
      <4>6. e.row[x].rev <= f.row[x].rev
        BY <1>3 DEF Tells
      <4> QED BY <4>4, <4>5, <4>6
    <3>5. needs \in SUBSET Listings
      OBVIOUS
    <3> QED BY <3>1, <3>2, <3>3, <3>4, <3>5, <1>4, WithdrawHeld DEF g
  <2> HIDE DEF T
  <2> QED BY <2>1, <2>2, <2>3, <1>1, <1>2, <1>6, <1>9, Carried
<1> QED BY <1>11, <1>12 DEF g

\* Nothing is done.
LEMMA NothingCarries ==
  ASSUME NEW d \in Tables, NEW out
  PROVE  Carries(d, d, out)
<1>1. Tells(d, d, {}, out)
  BY TellsNothing
<1> QED BY <1>1, Spared

\* A product that is deleted.
LEMMA ProductDeletedHolds ==
  ASSUME NEW d, NEW left, NEW out, Holds(d, left, out), NEW p \in Products
  PROVE  /\ Holds(ProductDeleted(d, p), left, out) /\ Carries(d, ProductDeleted(d, p), out)
         /\ Fewer(d, ProductDeleted(d, p))
<1>1. CASE Alive(d, p)
  <2> DEFINE cs == CollectionsOf(d, p)
             e == Deleted(d, p)
             f == Refresh(e, cs)
             needs == Publishing(f, cs)
             g == Withdraw(f, p, needs)
  <2>1. ProductDeleted(d, p) = g
    BY <1>1 DEF ProductDeleted
  <2>2. d \in Tables /\ Linked(d) /\ p \in Listings /\ d.row[p].state # "none" /\ p \notin Collections /\ p \notin Options
    BY <1>1, CatalogAssumption DEF Holds, Alive, Listings
  <2>3. /\ e \in Tables /\ Linked(e) /\ Fewer(d, e) /\ e.outbox = d.outbox
        /\ \A b \in Listings : b # p => e.row[b] = d.row[b]
        /\ e.row[p].state = "deleted" /\ e.row[p].rev = d.row[p].rev + 1
        /\ \A m \in d.members : m[1] # p /\ m[2] # p => m \in e.members
        /\ \A s \in d.ships : s[1] # p /\ s[2] # p => s \in e.ships
    BY <2>2, DeletedDoes
  <2>4. cs \in SUBSET Listings /\ p \notin cs /\ \A a \in cs : Alive(d, a)
    BY <2>2 DEF CollectionsOf, Listings, Linked
  <2> HIDE DEF e
  <2>5. /\ Tells(e, f, cs, {})
        /\ \A a \in cs : Within(e, a) => NoTombstone(f, a)
    <3> HIDE DEF cs
    <3> QED BY <2>3, <2>4, RefreshTells
  <2> HIDE DEF f
  <2>6. ASSUME NEW a \in Listings \ (left \cup out), a # p
        PROVE  Covers(d, e, f, cs, a)
    <3>1. CASE a \in cs
      <4>1. Within(e, a)
        BY <2>3, <2>6 DEF Holds, Within
      <4> QED BY <3>1, <4>1, <2>5 DEF Covers
    <3>2. CASE a \notin cs
      <4>1. d.row[a].state = e.row[a].state /\ d.row[a].open = e.row[a].open
        BY <2>3, <2>6
      <4>2. \A b \in Listings : b # p => (Offered(d, b) <=> Offered(e, b)) /\ (Alive(d, b) <=> Alive(e, b))
        BY <2>3 DEF Offered, Alive
      <4>3. \A b \in Products, c \in Collections : b # p => (<<b, c>> \in d.members <=> <<b, c>> \in e.members)
        BY <2>2, <2>3 DEF Fewer
      <4>4. a \in Collections => MembersOf(d, a) = MembersOf(e, a)
        <5> SUFFICES ASSUME a \in Collections, NEW b \in Products
                     PROVE  (<<b, a>> \in d.members /\ Offered(d, b)) <=>
                            (<<b, a>> \in e.members /\ Offered(e, b))
          BY DEF MembersOf
        <5>1. CASE b = p
          <6>1. <<p, a>> \notin d.members
            BY <3>2 DEF CollectionsOf
          <6> QED BY <5>1, <6>1, <2>3 DEF Fewer
        <5>2. CASE b # p
          BY <5>2, <4>2, <4>3 DEF Listings
        <5> QED BY <5>1, <5>2
      <4>5. \A c \in Collections : (<<a, c>> \in d.members /\ Alive(d, c)) <=>
                                   (<<a, c>> \in e.members /\ Alive(e, c))
        BY <2>2, <2>3, <2>6, <4>2 DEF Fewer, Listings
      <4>6. \A x \in Collections \cup Options : (<<a, x>> \in d.ships /\ Alive(d, x)) <=>
                                                (<<a, x>> \in e.ships /\ Alive(e, x))
        BY <2>2, <2>3, <2>6, <4>2 DEF Fewer, Listings
      <4>7. Same(d, e, a)
        BY <4>1, <4>4, <4>5, <4>6, SameReads
      <4> QED BY <4>7 DEF Covers
    <3> QED BY <3>1, <3>2
  <2>7. needs \in SUBSET cs
    BY DEF Publishing
  <2>8. ASSUME NEW a \in Listings, Publishes(e, a), Names(d, a, p)
        PROVE  a \in needs
    <3>1. <<p, a>> \in d.members
      BY <2>2, <2>8 DEF Names, CollectionsOf, MembersOf, ShipsOf
    <3>2. a \in cs
      BY <3>1, <2>2, TableFields DEF CollectionsOf
    <3>3. Publishes(f, a)
      BY <2>5, <2>8, ShapeReads DEF Tells
    <3> QED BY <3>2, <3>3 DEF Publishing
  <2>9. Holds(g, left, out) /\ Carries(d, g, out)
    <3> HIDE DEF cs, needs
    <3> QED BY <1>1, <2>2, <2>4, <2>5, <2>6, <2>7, <2>8, Deletes DEF e
  <2>10. Fewer(d, g)
    <3>1. Tells(f, g, {p}, {})
      <4>1. f \in Tables /\ ~ Publishes(f, p)
        BY <2>2, <2>3, <2>5 DEF Tells, SameShape, Publishes, Offered, Alive
      <4>2. needs \in SUBSET Listings
        BY <2>4, <2>7
      <4> HIDE DEF needs
      <4> QED BY <2>2, <4>1, <4>2, WithdrawTells
    <3> HIDE DEF g
    <3>2. /\ e.members = g.members /\ e.ships = g.ships
          /\ \A a \in Listings : e.row[a].state = g.row[a].state /\ e.row[a].open = g.row[a].open
      BY <3>1, <2>5 DEF Tells, SameShape
    <3>3. \A m \in d.members : m[1] \in Listings /\ m[2] \in Listings
      BY <2>2, TableFields DEF Listings
    <3>4. \A s \in d.ships : s[1] \in Listings /\ s[2] \in Listings
      BY <2>2, TableFields DEF Listings
    <3>5. \A a \in Listings : Alive(e, a) <=> Alive(g, a)
      BY <3>2 DEF Alive
    <3> QED BY <3>2, <3>3, <3>4, <3>5, <2>3 DEF Fewer
  <2> QED BY <2>1, <2>9, <2>10
<1>2. CASE ~ Alive(d, p)
  <2>1. ProductDeleted(d, p) = d
    BY <1>2 DEF ProductDeleted
  <2>2. Carries(d, d, out)
    BY NothingCarries DEF Holds
  <2> QED BY <2>1, <2>2 DEF Fewer
<1> QED BY <1>1, <1>2

LEMMA FewerTwice ==
  ASSUME NEW d \in Tables, NEW e, NEW f, Fewer(d, e), Fewer(e, f)
  PROVE  Fewer(d, f)
<1>1. \A m \in d.members : m[1] \in Listings /\ m[2] \in Listings
  BY TableFields DEF Listings
<1>2. \A s \in d.ships : s[1] \in Listings /\ s[2] \in Listings
  BY TableFields DEF Listings
<1> QED BY <1>1, <1>2 DEF Fewer

\* One deletion after another.
LEMMA CarriesTwice ==
  ASSUME NEW d \in Tables, NEW e \in Tables, NEW f \in Tables, NEW out,
         Carries(d, e, out), Carries(e, f, out), Fewer(d, e), Fewer(e, f)
  PROVE  Carries(d, f, out)
<1>1. /\ Len(d.outbox) \in Nat /\ Len(e.outbox) \in Nat /\ Len(f.outbox) \in Nat
      /\ Len(d.outbox) <= Len(e.outbox) /\ Len(e.outbox) <= Len(f.outbox)
  BY TableFields DEF Carries, StaysOrYields
<1>2. StaysOrYields(d.outbox, f.outbox, Listings)
  <2>1. StaysOrYields(d.outbox, e.outbox, Listings) /\ StaysOrYields(e.outbox, f.outbox, Listings)
    BY DEF Carries
  <2>2. StaysOrYields(d.outbox, f.outbox, Listings \cup Listings)
    BY <1>1, <2>1, StaysTwice
  <2> QED BY <2>2
<1>3. ASSUME NEW i \in 1..Len(f.outbox), i > Len(d.outbox), f.outbox[i].agg \notin out
      PROVE  d.row[f.outbox[i].agg].state # "deleted"
  <2>1. f.outbox[i].agg \in Listings
    BY TableFields
  <2>2. CASE i > Len(e.outbox)
    BY <2>1, <2>2, <1>3 DEF Carries
  <2>3. CASE ~ (i > Len(e.outbox))
    <3>1. i \in 1..Len(e.outbox)
      BY <2>3, <1>1
    <3>2. e.outbox[i].agg = f.outbox[i].agg
      BY <3>1 DEF Carries, StaysOrYields, SameIntent
    <3> QED BY <3>1, <3>2, <1>3 DEF Carries
  <2> QED BY <2>2, <2>3
<1>4. ASSUME NEW x \in Listings \ out, Alive(d, x), ~ Alive(f, x),
             NEW a \in Listings, Publishes(f, a), Names(d, a, x)
      PROVE  Held(f, x, a)
  <2>1. Publishes(e, a)
    BY <1>4, FewerReads
  <2>2. CASE Alive(e, x)
    <3>1. Names(e, a, x)
      BY <2>1, <2>2, <1>4, FewerReads DEF Publishes, Offered
    <3> QED BY <2>2, <3>1, <1>4 DEF Carries
  <2>3. CASE ~ Alive(e, x)
    <3>1. Held(e, x, a)
      BY <2>1, <2>3, <1>4 DEF Carries
    <3>2. e.row[x].state = "deleted"
      <4>1. e.row[x].state # "none" /\ e.row[x].state \in {"none", "live", "deleted"}
        BY <1>4, TableFields DEF Fewer, Alive
      <4> QED BY <4>1, <2>3 DEF Alive
    <3>3. \A i \in 1..Len(f.outbox) : i > Len(e.outbox) => f.outbox[i].agg # x
      BY <3>2, <1>4 DEF Carries
    <3> QED BY <3>1, <3>3, HeldStays DEF Carries
  <2> QED BY <2>2, <2>3
<1>5. \A x \in Listings : /\ d.row[x].state = "deleted" => f.row[x].state = "deleted"
                          /\ f.row[x].state = "deleted" => d.row[x].state # "none"
  <2> SUFFICES ASSUME NEW x \in Listings
               PROVE  /\ d.row[x].state = "deleted" => f.row[x].state = "deleted"
                      /\ f.row[x].state = "deleted" => d.row[x].state # "none"
    OBVIOUS
  <2>1. /\ d.row[x].state = "deleted" => e.row[x].state = "deleted"
        /\ e.row[x].state = "deleted" => f.row[x].state = "deleted"
        /\ e.row[x].state = "deleted" => d.row[x].state # "none"
        /\ f.row[x].state = "deleted" => e.row[x].state # "none"
    BY DEF Carries
  <2>2. e.row[x].state \in {"none", "live", "deleted"} /\ (Alive(e, x) => Alive(d, x))
    BY TableFields DEF Fewer
  <2> QED BY <2>1, <2>2 DEF Alive
<1> QED BY <1>2, <1>3, <1>4, <1>5 DEF Carries

\* What a bulk deletion has done after n of its products.
Deleting(d, ids, m, f) ==
  f = [n \in 0..m |-> IF n = 0 THEN d ELSE ProductDeleted(f[n - 1], ids[n])]

LEMMA DeletingExists ==
  ASSUME NEW d, NEW ids, NEW m \in Nat
  PROVE  \E f : Deleting(d, ids, m, f)
<1> DEFINE T == {k \in Nat : ~ \E f : Deleting(d, ids, k, f)}
<1>1. SUFFICES ASSUME T # {} PROVE FALSE
  OBVIOUS
<1>2. PICK k \in T : \A j \in T : k <= j
  BY <1>1, LeastNumber
<1>3. CASE k = 0
  <2> DEFINE f == [n \in 0..0 |-> d]
  <2>1. f = [n \in 0..0 |-> IF n = 0 THEN d ELSE ProductDeleted(f[n - 1], ids[n])]
    OBVIOUS
  <2> HIDE DEF f
  <2> QED BY <2>1, <1>2, <1>3 DEF Deleting
<1>4. CASE k # 0
  <2>1. k - 1 \in Nat /\ k - 1 \notin T
    BY <1>2, <1>4
  <2>2. PICK g : Deleting(d, ids, k - 1, g)
    BY <2>1
  <2> DEFINE f == [n \in 0..k |-> IF n = k THEN ProductDeleted(g[k - 1], ids[k]) ELSE g[n]]
  <2>3. /\ DOMAIN g = 0..(k - 1)
        /\ \A n \in 0..(k - 1) : g[n] = IF n = 0 THEN d ELSE ProductDeleted(g[n - 1], ids[n])
    BY <2>2 DEF Deleting
  <2>4. \A n \in 0..k : f[n] = IF n = 0 THEN d ELSE ProductDeleted(f[n - 1], ids[n])
    <3> SUFFICES ASSUME NEW n \in 0..k
                 PROVE  f[n] = IF n = 0 THEN d ELSE ProductDeleted(f[n - 1], ids[n])
      OBVIOUS
    <3>1. CASE n = k
      <4>1. k - 1 \in 0..k /\ k - 1 # k
        BY <1>4
      <4>2. f[k - 1] = g[k - 1]
        BY <4>1
      <4> QED BY <3>1, <4>2, <1>4
    <3>2. CASE n # k
      <4>1. n \in 0..(k - 1)
        BY <3>2
      <4>2. f[n] = g[n]
        BY <3>2
      <4>3. n # 0 => f[n - 1] = g[n - 1]
        BY <4>1
      <4> HIDE DEF f
      <4> QED BY <4>1, <4>2, <4>3, <2>3
    <3> QED BY <3>1, <3>2
  <2>5. f = [n \in 0..k |-> f[n]]
    OBVIOUS
  <2> HIDE DEF f
  <2>6. f = [n \in 0..k |-> IF n = 0 THEN d ELSE ProductDeleted(f[n - 1], ids[n])]
    BY <2>4, <2>5
  <2> QED BY <2>6, <1>2 DEF Deleting
<1> QED BY <1>3, <1>4

LEMMA AllDeletedReads ==
  ASSUME NEW d, NEW ids \in Seq(Products)
  PROVE  \E f : /\ f[0] = d /\ AllDeleted(d, ids) = f[Len(ids)]
                /\ \A n \in 1..Len(ids) : f[n] = ProductDeleted(f[n - 1], ids[n])
<1> DEFINE m == Len(ids)
           f == CHOOSE g : Deleting(d, ids, m, g)
<1>1. m \in Nat
  BY LenProperties
<1>2. AllDeleted(d, ids) = f[m]
  BY DEF AllDeleted, Deleting
<1> HIDE DEF m
<1>3. \E g : Deleting(d, ids, m, g)
  BY <1>1, DeletingExists
<1>4. Deleting(d, ids, m, f)
  BY <1>3
<1> HIDE DEF f
<1>5. \A n \in 0..m : f[n] = IF n = 0 THEN d ELSE ProductDeleted(f[n - 1], ids[n])
  BY <1>4 DEF Deleting
<1>6. f[0] = d
  BY <1>1, <1>5
<1>7. \A n \in 1..m : f[n] = ProductDeleted(f[n - 1], ids[n])
  BY <1>1, <1>5
<1> QED BY <1>2, <1>6, <1>7 DEF m

\* Products that are deleted one after the other.
LEMMA AllDeletedHolds ==
  ASSUME NEW d, NEW left, NEW out, Holds(d, left, out), NEW ids \in Seq(Products)
  PROVE  Holds(AllDeleted(d, ids), left, out) /\ Carries(d, AllDeleted(d, ids), out)
<1>1. PICK f : /\ f[0] = d /\ AllDeleted(d, ids) = f[Len(ids)]
               /\ \A n \in 1..Len(ids) : f[n] = ProductDeleted(f[n - 1], ids[n])
  BY AllDeletedReads
<1> DEFINE Good(n) == Holds(f[n], left, out) /\ Carries(d, f[n], out) /\ Fewer(d, f[n])
           T == {n \in 0..Len(ids) : ~ Good(n)}
<1>2. Len(ids) \in Nat /\ \A n \in 1..Len(ids) : ids[n] \in Products
  BY LenProperties, ElementOfSeq
<1>3. T = {}
  <2>1. SUFFICES ASSUME T # {} PROVE FALSE
    OBVIOUS
  <2>2. T \in SUBSET Nat
    BY <1>2
  <2> HIDE DEF T
  <2>3. PICK k \in T : \A j \in T : k <= j
    BY <2>1, <2>2, LeastNumber
  <2>4. k \in 0..Len(ids) /\ ~ Good(k)
    BY DEF T
  <2>5. CASE k = 0
    <3>1. Carries(d, d, out)
      BY NothingCarries DEF Holds
    <3>2. Fewer(d, d)
      BY DEF Fewer
    <3> QED BY <3>1, <3>2, <2>4, <2>5, <1>1
  <2>6. CASE k # 0
    <3>1. k - 1 \in 0..Len(ids) /\ k \in 1..Len(ids) /\ ~ (k <= k - 1)
      BY <1>2, <2>4, <2>6
    <3>2. Good(k - 1)
      BY <3>1, <2>3 DEF T
    <3> DEFINE b == f[k - 1]
    <3>3. f[k] = ProductDeleted(b, ids[k]) /\ ids[k] \in Products
      BY <3>1, <1>1, <1>2
    <3> HIDE DEF b
    <3>4. Holds(b, left, out) /\ Carries(d, b, out) /\ Fewer(d, b)
      BY <3>2 DEF b
    <3>5. Holds(f[k], left, out) /\ Carries(b, f[k], out) /\ Fewer(b, f[k])
      BY <3>3, <3>4, ProductDeletedHolds
    <3>6. d \in Tables /\ b \in Tables /\ f[k] \in Tables
      BY <3>4, <3>5 DEF Holds
    <3>7. Carries(d, f[k], out) /\ Fewer(d, f[k])
      BY <3>4, <3>5, <3>6, CarriesTwice, FewerTwice
    <3> QED BY <3>5, <3>7, <2>4
  <2> QED BY <2>5, <2>6
<1>4. Good(Len(ids))
  <2>1. Len(ids) \in 0..Len(ids)
    BY <1>2
  <2> QED BY <2>1, <1>3
<1> QED BY <1>1, <1>4

\* A collection that is deleted.
LEMMA DeleteCollectionHolds ==
  ASSUME Holds(db, astray.left, astray.outdated), NEW c \in Collections, Alive(db, c)
  PROVE  LET survivors == {p \in {p \in Products : <<p, c>> \in db.members} \cup ShippingBy(db, c) :
                             Alive(db, p)}
             d == Republish(Deleted(db, c), survivors)
             f == Withdraw(d, c, Publishing(d, survivors))
         IN Holds(f, astray.left, astray.outdated) /\ Carries(db, f, astray.outdated)
<1> DEFINE survivors == {p \in {p \in Products : <<p, c>> \in db.members} \cup ShippingBy(db, c) :
                           Alive(db, p)}
           e == Deleted(db, c)
           d == Republish(e, survivors)
           needs == Publishing(d, survivors)
           S == Publishing(e, survivors)
           f == Withdraw(d, c, needs)
<1>1. db \in Tables /\ Linked(db) /\ c \in Listings /\ db.row[c].state # "none"
  BY DEF Holds, Alive, Listings
<1>2. /\ e \in Tables /\ Linked(e) /\ Fewer(db, e) /\ e.outbox = db.outbox
      /\ \A b \in Listings : b # c => e.row[b] = db.row[b]
      /\ e.row[c].state = "deleted" /\ e.row[c].rev = db.row[c].rev + 1
      /\ \A m \in db.members : m[1] # c /\ m[2] # c => m \in e.members
      /\ \A s \in db.ships : s[1] # c /\ s[2] # c => s \in e.ships
  BY <1>1, DeletedDoes
<1>3. /\ survivors \in SUBSET Listings
      /\ \A a \in survivors : Alive(db, a)
      /\ \A a \in Listings : Alive(db, a) /\ (<<a, c>> \in db.members \/ <<a, c>> \in db.ships) => a \in survivors
  <2>1. db.members \in SUBSET (Products \X Collections)
    BY <1>1, TableFields
  <2> QED BY <2>1 DEF ShippingBy, Listings
<1>4. c \notin Products /\ c \notin Options
  BY CatalogAssumption
<1> HIDE DEF e, survivors
<1>5. /\ Tells(e, d, S, {})
      /\ \A a \in survivors : Within(e, a) => NoTombstone(d, a)
  BY <1>2, <1>3, RepublishTells
<1> HIDE DEF d
<1>6. needs = S
  BY <1>1, <1>3, <1>5, ShapeReads DEF Tells
<1>7. /\ S \in SUBSET Listings /\ c \notin S
      /\ \A a \in S : Alive(db, a) /\ a \in survivors
  BY <1>2, <1>3 DEF Publishing, Publishes, Offered, Alive
<1>8. ASSUME NEW a \in Listings \ (astray.left \cup astray.outdated), a # c
      PROVE  Covers(db, e, d, S, a)
  <2>1. \A b \in Listings : b # c => (Offered(db, b) <=> Offered(e, b)) /\ (Alive(db, b) <=> Alive(e, b))
    BY <1>2 DEF Offered, Alive
  <2>2. a \in Collections => MembersOf(db, a) = MembersOf(e, a)
    <3> SUFFICES ASSUME a \in Collections, NEW b \in Products
                 PROVE  (<<b, a>> \in db.members /\ Offered(db, b)) <=>
                        (<<b, a>> \in e.members /\ Offered(e, b))
      BY DEF MembersOf
    <3>1. b # c /\ b \in Listings
      BY <1>4 DEF Listings
    <3> QED BY <3>1, <2>1, <1>2, <1>8 DEF Fewer
  <2>3. Publishes(db, a) <=> Publishes(e, a)
    BY <2>1, <2>2, <1>8 DEF Publishes
  <2>4. CASE a \in survivors /\ Publishes(e, a)
    <3>1. Within(e, a)
      BY <1>2, <1>8 DEF Holds, Within
    <3> QED BY <2>4, <3>1, <1>5 DEF Covers, Publishing
  <2>5. CASE ~ Publishes(e, a)
    BY <2>3, <2>5 DEF Covers, Same
  <2>6. CASE Publishes(e, a) /\ a \notin survivors
    <3>1. <<a, c>> \notin db.members /\ <<a, c>> \notin db.ships
      BY <2>3, <2>6, <1>3 DEF Publishes, Offered
    <3>2. db.row[a].state = e.row[a].state /\ db.row[a].open = e.row[a].open
      BY <1>2, <1>8
    <3>3. \A b \in Collections : (<<a, b>> \in db.members /\ Alive(db, b)) <=>
                                 (<<a, b>> \in e.members /\ Alive(e, b))
      <4> SUFFICES ASSUME NEW b \in Collections
                   PROVE  (<<a, b>> \in db.members /\ Alive(db, b)) <=>
                          (<<a, b>> \in e.members /\ Alive(e, b))
        OBVIOUS
      <4>1. b \in Listings
        BY DEF Listings
      <4>2. CASE b = c
        BY <4>2, <3>1, <1>2 DEF Fewer
      <4>3. CASE b # c
        BY <4>1, <4>3, <2>1, <1>2, <1>8 DEF Fewer
      <4> QED BY <4>2, <4>3
    <3>4. \A b \in Collections \cup Options : (<<a, b>> \in db.ships /\ Alive(db, b)) <=>
                                              (<<a, b>> \in e.ships /\ Alive(e, b))
      <4> SUFFICES ASSUME NEW b \in Collections \cup Options
                   PROVE  (<<a, b>> \in db.ships /\ Alive(db, b)) <=>
                          (<<a, b>> \in e.ships /\ Alive(e, b))
        OBVIOUS
      <4>1. b \in Listings
        BY DEF Listings
      <4>2. CASE b = c
        BY <4>2, <3>1, <1>2 DEF Fewer
      <4>3. CASE b # c
        BY <4>1, <4>3, <2>1, <1>2, <1>8 DEF Fewer
      <4> QED BY <4>2, <4>3
    <3>5. Same(db, e, a)
      BY <3>2, <3>3, <3>4, <2>2, SameReads
    <3> QED BY <3>5 DEF Covers
  <2> QED BY <2>4, <2>5, <2>6
<1>9. ASSUME NEW a \in Listings, Publishes(e, a), Names(db, a, c)
      PROVE  a \in needs
  <2>1. Alive(db, a)
    BY <1>2, <1>9 DEF Publishes, Offered, Fewer
  <2>2. <<a, c>> \in db.members \/ <<a, c>> \in db.ships
    BY <1>4, <1>9 DEF Names, CollectionsOf, MembersOf, ShipsOf
  <2> QED BY <2>1, <2>2, <1>3, <1>6, <1>9 DEF Publishing
<1>10. needs \in SUBSET S
  BY <1>6
<1>11. Holds(f, astray.left, astray.outdated) /\ Carries(db, f, astray.outdated)
  <2> HIDE DEF S, needs
  <2> QED BY <1>1, <1>5, <1>7, <1>8, <1>9, <1>10, Deletes DEF e
<1> QED BY <1>11 DEF f, needs, d, e, survivors

\* A shipping option that is deleted.
LEMMA DeleteShippingHolds ==
  ASSUME NEW out, Holds(db, astray.left, out), NEW o \in Options,
         db.row[o].state # "none", Alive(db, o) \/ o \in out
  PROVE  Holds(ShippingDeleted(o), astray.left, out) /\ Carries(db, ShippingDeleted(o), out)
<1> DEFINE ps == {p \in ShippingBy(db, o) \cap Products : Alive(db, p)}
           cs == ShippingBy(db, o) \cap Collections
           e == Deleted(db, o)
           h == Republish(e, ps)
           d == Republish(h, cs)
           needs == Publishing(d, ps \cup cs)
           S == Publishing(e, ps) \cup Publishing(e, cs)
           f == Withdraw(d, o, needs)
<1>0. f = ShippingDeleted(o)
  BY DEF ShippingDeleted
<1>1. db \in Tables /\ Linked(db) /\ o \in Listings
  BY DEF Holds, Listings
<1>2. /\ e \in Tables /\ Linked(e) /\ Fewer(db, e) /\ e.outbox = db.outbox
      /\ \A b \in Listings : b # o => e.row[b] = db.row[b]
      /\ e.row[o].state = "deleted" /\ e.row[o].rev = db.row[o].rev + 1
      /\ \A m \in db.members : m[1] # o /\ m[2] # o => m \in e.members
      /\ \A s \in db.ships : s[1] # o /\ s[2] # o => s \in e.ships
  BY <1>1, DeletedDoes
<1>3. /\ ps \in SUBSET Listings /\ cs \in SUBSET Listings
      /\ \A a \in Listings : Alive(db, a) /\ <<a, o>> \in db.ships => a \in ps \cup cs
  <2>1. \A s \in db.ships : s[1] \in Products \cup Collections
    BY <1>1 DEF Linked
  <2> QED BY <2>1 DEF ShippingBy, Listings
<1>4. o \notin Products /\ o \notin Collections
  BY CatalogAssumption
<1> HIDE DEF e, ps, cs
<1>5. /\ h \in Tables /\ Tells(e, h, Publishing(e, ps), {})
      /\ \A a \in ps : Within(e, a) => NoTombstone(h, a)
  <2>1. /\ Tells(e, h, Publishing(e, ps), {})
        /\ \A a \in ps : Within(e, a) => NoTombstone(h, a)
    BY <1>2, <1>3, RepublishTells
  <2> QED BY <2>1 DEF Tells
<1> HIDE DEF h
<1>6. /\ Tells(h, d, Publishing(h, cs), {})
      /\ \A a \in cs : Within(h, a) => NoTombstone(d, a)
  BY <1>3, <1>5, RepublishTells
<1> HIDE DEF d
<1>7. Publishing(h, cs) = Publishing(e, cs)
  BY <1>1, <1>3, <1>5, ShapeReads DEF Tells
<1>8. /\ Publishing(e, ps) \in SUBSET Listings /\ Publishing(e, cs) \in SUBSET Listings
      /\ S \in SUBSET Listings
  BY <1>3 DEF Publishing
<1>9. Tells(e, d, S, {})
  <2>1. Tells(e, d, Publishing(e, ps) \cup Publishing(e, cs), {} \cup {})
    BY <1>2, <1>5, <1>6, <1>7, <1>8, TellsTwice
  <2>2. {} \cup {} = {}
    OBVIOUS
  <2> QED BY <2>1, <2>2
<1>10. needs = S
  <2>1. Publishing(d, ps \cup cs) = Publishing(e, ps \cup cs)
    <3>1. ps \cup cs \in SUBSET Listings
      BY <1>3
    <3> QED BY <1>1, <1>9, <3>1, ShapeReads DEF Tells
  <2> QED BY <2>1 DEF Publishing
<1>11. /\ o \notin S
       /\ \A a \in S : Alive(db, a) /\ a \in ps \cup cs
  BY <1>2, <1>3 DEF Publishing, Publishes, Offered, Alive, Fewer
<1>12. ASSUME NEW a \in Listings \ (astray.left \cup out), a # o
       PROVE  Covers(db, e, d, S, a)
  <2>1. \A b \in Listings : b # o => (Offered(db, b) <=> Offered(e, b)) /\ (Alive(db, b) <=> Alive(e, b))
    BY <1>2 DEF Offered, Alive
  <2>2. a \in Collections => MembersOf(db, a) = MembersOf(e, a)
    <3> SUFFICES ASSUME a \in Collections, NEW b \in Products
                 PROVE  (<<b, a>> \in db.members /\ Offered(db, b)) <=>
                        (<<b, a>> \in e.members /\ Offered(e, b))
      BY DEF MembersOf
    <3>1. b # o /\ b \in Listings
      BY <1>4 DEF Listings
    <3> QED BY <3>1, <2>1, <1>2, <1>12 DEF Fewer
  <2>3. Publishes(db, a) <=> Publishes(e, a)
    BY <2>1, <2>2, <1>12 DEF Publishes
  <2>4. CASE a \in ps \cup cs /\ Publishes(e, a)
    <3>1. Within(e, a)
      BY <1>2, <1>12 DEF Holds, Within
    <3>2. Within(h, a)
      BY <3>1, <1>5 DEF Tells
    <3>3. NoTombstone(d, a)
      <4>1. CASE a \in cs
        BY <4>1, <3>2, <1>6
      <4>2. CASE a \in ps
        BY <4>2, <3>1, <1>5, <1>6, TellsKeeps
      <4> QED BY <4>1, <4>2, <2>4
    <3> QED BY <2>4, <3>3 DEF Covers, Publishing
  <2>5. CASE ~ Publishes(e, a)
    BY <2>3, <2>5 DEF Covers, Same
  <2>6. CASE Publishes(e, a) /\ a \notin ps \cup cs
    <3>1. <<a, o>> \notin db.ships
      BY <2>3, <2>6, <1>3 DEF Publishes, Offered
    <3>2. db.row[a].state = e.row[a].state /\ db.row[a].open = e.row[a].open
      BY <1>2, <1>12
    <3>3. \A b \in Collections : (<<a, b>> \in db.members /\ Alive(db, b)) <=>
                                 (<<a, b>> \in e.members /\ Alive(e, b))
      <4> SUFFICES ASSUME NEW b \in Collections
                   PROVE  (<<a, b>> \in db.members /\ Alive(db, b)) <=>
                          (<<a, b>> \in e.members /\ Alive(e, b))
        OBVIOUS
      <4>1. b \in Listings /\ b # o
        BY <1>4 DEF Listings
      <4> QED BY <4>1, <2>1, <1>2, <1>12 DEF Fewer
    <3>4. \A b \in Collections \cup Options : (<<a, b>> \in db.ships /\ Alive(db, b)) <=>
                                              (<<a, b>> \in e.ships /\ Alive(e, b))
      <4> SUFFICES ASSUME NEW b \in Collections \cup Options
                   PROVE  (<<a, b>> \in db.ships /\ Alive(db, b)) <=>
                          (<<a, b>> \in e.ships /\ Alive(e, b))
        OBVIOUS
      <4>1. b \in Listings
        BY DEF Listings
      <4>2. CASE b = o
        BY <4>2, <3>1, <1>2 DEF Fewer
      <4>3. CASE b # o
        BY <4>1, <4>3, <2>1, <1>2, <1>12 DEF Fewer
      <4> QED BY <4>2, <4>3
    <3>5. Same(db, e, a)
      BY <3>2, <3>3, <3>4, <2>2, SameReads
    <3> QED BY <3>5 DEF Covers
  <2> QED BY <2>4, <2>5, <2>6
<1>13. ASSUME NEW a \in Listings, Publishes(e, a), Names(db, a, o)
       PROVE  a \in needs
  <2>1. Alive(db, a)
    BY <1>2, <1>13 DEF Publishes, Offered, Fewer
  <2>2. <<a, o>> \in db.ships
    BY <1>4, <1>13 DEF Names, CollectionsOf, MembersOf, ShipsOf
  <2> QED BY <2>1, <2>2, <1>3, <1>10, <1>13 DEF Publishing
<1>14. needs \in SUBSET S
  BY <1>10
<1>15. Holds(f, astray.left, out) /\ Carries(db, f, out)
  <2> HIDE DEF S, needs
  <2> QED BY <1>1, <1>8, <1>9, <1>11, <1>12, <1>13, <1>14, Deletes DEF e
<1> QED BY <1>0, <1>15

-----------------------------------------------------------------------------
\* Requests about many products

\* d is db with other members and other drafts among the products ps; cs has the
\* collections that ps are or were in.
LEMMA BulkHolds ==
  ASSUME Holds(db, astray.left, astray.outdated), NEW d \in Tables, Linked(d),
         d.outbox = db.outbox, d.ships = db.ships,
         NEW ps \in SUBSET Products, \A p \in ps : Alive(db, p), NEW cs \in SUBSET Collections,
         \A a \in Listings : /\ d.row[a].state = db.row[a].state /\ d.row[a].rev = db.row[a].rev
                             /\ a \notin ps => d.row[a].open = db.row[a].open,
         \A m \in db.members : m[1] \notin ps => m \in d.members,
         \A m \in d.members : m[1] \notin ps => m \in db.members,
         \A m \in db.members \cup d.members : m[1] \in ps => m[2] \in cs
  PROVE  Holds(Bulk(d, ps, cs), astray.left, astray.outdated)
         /\ Carries(db, Bulk(d, ps, cs), astray.outdated)
<1> DEFINE live == {c \in cs : Alive(d, c)}
           k == Counted(d, ps)
           e == Refresh(k, live)
           gone == {p \in ps : db.row[p].open /\ ~ e.row[p].open /\ WasPut(e, p)}
           said == {Del(e, p, Publishing(e, live)) : p \in gone}
                   \cup {Put(e, p, e.row[p].rev) : p \in Publishing(e, ps)}
           f == Say(e, said)
           T == gone \cup Publishing(d, ps)
           S == live \cup T
<1>0. f = Bulk(d, ps, cs)
  BY DEF Bulk
<1>1. /\ db \in Tables /\ ps \in SUBSET Listings /\ live \in SUBSET Listings
      /\ ps \cap live = {}
      /\ \A a \in Listings : Alive(db, a) <=> Alive(d, a)
  BY CatalogAssumption DEF Holds, Listings, Alive
<1>2. /\ Tells(d, k, {}, {}) /\ k.outbox = d.outbox
      /\ \A a \in ps : Within(d, a) => Below(k, a, k.row[a].rev)
  BY <1>1, CountedTells
<1> HIDE DEF k, live
<1>3. k \in Tables
  BY <1>2 DEF Tells
<1>4. /\ Tells(k, e, live, {})
      /\ \A a \in Listings : e.row[a].rev = IF a \in live THEN k.row[a].rev + 1 ELSE k.row[a].rev
      /\ \A a \in live : Within(k, a) => NoTombstone(e, a)
  BY <1>1, <1>3, RefreshTells
<1> HIDE DEF e
<1>5. e \in Tables /\ Tells(d, e, live, {})
  <2>1. e \in Tables
    BY <1>4 DEF Tells
  <2>2. Tells(d, e, {} \cup live, {} \cup {})
    BY <1>1, <1>2, <1>4, TellsTwice
  <2>3. {} \cup live = live /\ {} \cup {} = {}
    OBVIOUS
  <2> QED BY <2>1, <2>2, <2>3
<1>6. /\ \A a \in Listings : /\ d.row[a].state = e.row[a].state /\ d.row[a].open = e.row[a].open
                             /\ Publishes(d, a) <=> Publishes(e, a)
      /\ Publishing(e, ps) = Publishing(d, ps)
  <2>1. \A a \in Listings : Publishes(d, a) <=> Publishes(e, a)
    BY <1>5, ShapeReads DEF Tells
  <2> QED BY <2>1, <1>1, <1>5 DEF Tells, SameShape, Publishing
<1>7. /\ \A p \in gone : p \in ps /\ ~ Publishes(e, p) /\ ~ e.row[p].open
      /\ \A p \in Publishing(e, ps) : p \in ps /\ Publishes(e, p) /\ e.row[p].open
  BY DEF Publishing, Publishes, Offered
<1>8. Publishing(e, live) \in SUBSET Listings
  BY <1>1 DEF Publishing
<1>9. /\ \A p \in ps : /\ Put(e, p, e.row[p].rev) \in Sayings /\ Put(e, p, e.row[p].rev).agg = p
                       /\ Put(e, p, e.row[p].rev).kind = "put" /\ Put(e, p, e.row[p].rev).rev = e.row[p].rev
                       /\ Del(e, p, Publishing(e, live)) \in Sayings
                       /\ Del(e, p, Publishing(e, live)).agg = p
                       /\ Del(e, p, Publishing(e, live)).kind = "del"
                       /\ Del(e, p, Publishing(e, live)).rev = e.row[p].rev
  <2>1. \A p \in ps : p \in Listings /\ e.row[p].rev \in Nat
    BY <1>1, <1>5, TableFields
  <2>2. ASSUME NEW p \in ps
        PROVE  /\ Put(e, p, e.row[p].rev) \in Sayings /\ Put(e, p, e.row[p].rev).agg = p
               /\ Put(e, p, e.row[p].rev).kind = "put" /\ Put(e, p, e.row[p].rev).rev = e.row[p].rev
               /\ Del(e, p, Publishing(e, live)) \in Sayings
               /\ Del(e, p, Publishing(e, live)).agg = p
               /\ Del(e, p, Publishing(e, live)).kind = "del"
               /\ Del(e, p, Publishing(e, live)).rev = e.row[p].rev
    <3>1. e \in Tables /\ p \in Listings /\ e.row[p].rev \in Nat /\ Publishing(e, live) \in SUBSET Listings
      BY <2>1, <1>5, <1>8
    <3> QED BY <3>1, PutSays, DelSays
  <2> QED BY <2>2
<1> HIDE DEF gone
<1>10. /\ \A t \in said : /\ t \in Sayings /\ t.agg \in ps /\ t.rev = e.row[t.agg].rev
                          /\ \/ t.agg \in gone /\ t = Del(e, t.agg, Publishing(e, live))
                             \/ t.agg \in Publishing(e, ps) /\ t = Put(e, t.agg, e.row[t.agg].rev)
       /\ \A p \in gone \cup Publishing(e, ps) : \E t \in said : t.agg = p
  BY <1>7, <1>9
<1> HIDE DEF said
<1>11. Right(e, said, {})
  <2>1. \A t \in said : t.kind = Kind(e, t.agg)
    BY <1>7, <1>9, <1>10 DEF Kind
  <2>2. OneEach(said)
    BY <1>7, <1>10 DEF OneEach
  <2>3. \A t \in said : t.rev <= e.row[t.agg].rev
    <3>1. \A t \in said : e.row[t.agg].rev \in Nat
      BY <1>1, <1>5, <1>10, TableFields
    <3> QED BY <3>1, <1>10
  <2> QED BY <2>1, <2>2, <2>3, <1>10 DEF Right
<1>12. {t.agg : t \in said} = T
  BY <1>6, <1>10
<1>13. /\ Tells(e, f, T, {})
       /\ \A t \in said : Below(e, t.agg, t.rev) => NoTombstone(f, t.agg)
  BY <1>5, <1>11, <1>12, SayTells
<1> HIDE DEF f
<1>14. T \in SUBSET Listings /\ S \in SUBSET Listings /\ T \subseteq ps
  BY <1>1, <1>6, <1>7
<1>15. Tells(d, f, S, {})
  <2>1. Tells(d, f, live \cup T, {} \cup {})
    BY <1>1, <1>5, <1>13, <1>14, TellsTwice
  <2>2. {} \cup {} = {}
    OBVIOUS
  <2> QED BY <2>1, <2>2
<1>16. ASSUME NEW p \in ps \ astray.outdated, Publishes(d, p)
       PROVE  NoTombstone(f, p)
  <2>1. p \in Listings /\ p \notin live
    BY <1>1
  <2>2. Within(d, p)
    BY <1>16, <2>1 DEF Holds, Within
  <2>3. Below(k, p, k.row[p].rev)
    BY <1>2, <1>16, <2>2
  <2>4. Below(e, p, e.row[p].rev)
    <3> SUFFICES ASSUME NEW j \in 1..Len(e.outbox), e.outbox[j].agg = p
                 PROVE  e.outbox[j].rev < e.row[p].rev
      BY DEF Below
    <3>1. ~ (j > Len(k.outbox))
      BY <2>1, <1>4 DEF Tells
    <3>2. j \in 1..Len(k.outbox)
      BY <3>1, <1>3, <1>5, TableFields
    <3>3. e.row[p].rev = k.row[p].rev
      BY <2>1, <1>4
    <3> QED BY <3>2, <3>3, <2>3, <1>4 DEF Tells, StaysOrYields, SameIntent, Below
  <2>5. PICK t \in said : t.agg = p
    BY <1>6, <1>10, <1>16 DEF Publishing
  <2> QED BY <2>4, <2>5, <1>10, <1>13
<1>17. ASSUME NEW a \in Listings \ (astray.left \cup astray.outdated)
       PROVE  Covers(db, d, f, S, a)
  <2>1. CASE a \in ps
    <3>1. CASE Publishes(d, a)
      BY <2>1, <3>1, <1>16, <1>17 DEF Covers, Publishing
    <3>2. CASE ~ Publishes(d, a)
      <4>1. CASE a \in gone
        <5>1. ~ Publishes(f, a)
          BY <3>2, <1>15, ShapeReads DEF Tells
        <5> QED BY <4>1, <5>1 DEF Covers, NoTombstone
      <4>2. CASE a \notin gone
        <5>1. ~ d.row[a].open
          <6>1. a \notin Collections /\ Alive(d, a)
            BY <2>1, <1>1, CatalogAssumption
          <6>2. ~ Offered(d, a)
            BY <3>2, <6>1 DEF Publishes
          <6> QED BY <6>1, <6>2 DEF Offered
        <5>2. CASE db.row[a].open
          <6>1. ~ WasPut(e, a)
            BY <2>1, <4>2, <5>1, <5>2, <1>6 DEF gone
          <6>2. ~ WasPut(db, a)
            <7>1. ~ WasPut(d, a)
              BY <6>1, <1>5, TellsKeeps
            <7> QED BY <7>1 DEF WasPut
          <6>3. relay[a].said # "listing"
            BY <6>2 DEF Holds
          <6> QED BY <3>2, <6>3 DEF Covers
        <5>3. CASE ~ db.row[a].open
          BY <3>2, <5>3 DEF Covers, Same, Publishes, Offered
        <5> QED BY <5>2, <5>3
      <4> QED BY <4>1, <4>2
    <3> QED BY <3>1, <3>2
  <2>2. CASE a \in cs
    <3>1. CASE Alive(d, a)
      <4>1. a \in live
        BY <2>2, <3>1 DEF live
      <4>2. Within(k, a)
        <5>1. Within(d, a)
          BY <1>17 DEF Holds, Within
        <5> QED BY <5>1, <1>2 DEF Tells
      <4>3. NoTombstone(f, a)
        BY <4>1, <4>2, <1>4, <1>5, <1>13, TellsKeeps
      <4> QED BY <4>1, <4>3 DEF Covers
    <3>2. CASE ~ Alive(d, a)
      BY <3>2, <1>1 DEF Covers, Same, Publishes, Offered
    <3> QED BY <3>1, <3>2
  <2>3. CASE a \notin ps /\ a \notin cs
    <3>1. d.row[a].state = db.row[a].state /\ d.row[a].open = db.row[a].open
      BY <2>3
    <3>2. a \in Collections => MembersOf(db, a) = MembersOf(d, a)
      <4> SUFFICES ASSUME a \in Collections, NEW x \in Products
                   PROVE  (<<x, a>> \in db.members /\ Offered(db, x)) <=>
                          (<<x, a>> \in d.members /\ Offered(d, x))
        BY DEF MembersOf
      <4>1. CASE x \in ps
        BY <4>1, <2>3
      <4>2. CASE x \notin ps
        <5>1. x \in Listings
          BY DEF Listings
        <5>2. Offered(db, x) <=> Offered(d, x)
          BY <4>2, <5>1, <1>1 DEF Offered
        <5>3. <<x, a>> \in db.members <=> <<x, a>> \in d.members
          BY <4>2
        <5> QED BY <5>2, <5>3
      <4> QED BY <4>1, <4>2
    <3>3. \A c \in Collections : (<<a, c>> \in db.members /\ Alive(db, c)) <=>
                                 (<<a, c>> \in d.members /\ Alive(d, c))
      BY <2>3, <1>1 DEF Listings
    <3>4. \A x \in Collections \cup Options : (<<a, x>> \in db.ships /\ Alive(db, x)) <=>
                                              (<<a, x>> \in d.ships /\ Alive(d, x))
      BY <1>1 DEF Listings
    <3>5. Same(db, d, a)
      BY <3>1, <3>2, <3>3, <3>4, SameReads
    <3> QED BY <3>5 DEF Covers
  <2> QED BY <2>1, <2>2, <2>3
<1>18. \A a \in S : Alive(db, a) /\ Alive(d, a)
  <2>1. \A a \in live : Alive(d, a)
    BY DEF live
  <2> QED BY <2>1, <1>1, <1>14
<1>19. \A a \in Listings : /\ db.row[a].rev <= d.row[a].rev
                           /\ db.row[a].state # "none" => d.row[a].state # "none"
  <2>1. \A a \in Listings : db.row[a].rev \in Nat
    BY <1>1, TableFields
  <2> QED BY <2>1
<1>20. Tells(d, f, S, astray.outdated)
  <2> HIDE DEF S
  <2> QED BY <1>15, TellsApart
<1>21. \A a \in S : d.row[a].state # "none" /\ db.row[a].state # "deleted"
  BY <1>18 DEF Alive
<1>22. Holds(f, astray.left, astray.outdated)
  <2> HIDE DEF S
  <2> QED BY <1>14, <1>17, <1>19, <1>20, <1>21, Transacts
<1>23. Carries(db, f, astray.outdated)
  <2> HIDE DEF S
  <2> QED BY <1>1, <1>14, <1>15, <1>21, Spared
<1> QED BY <1>0, <1>22, <1>23

\* Everything is said again.
LEMMA PublishAllHolds ==
  ASSUME Holds(db, astray.left, astray.outdated)
  PROVE  LET again == {a \in Listings : Alive(db, a)}
             d == Say(db, {[agg |-> a, kind |-> "put", rev |-> db.row[a].rev, needs |-> {}] :
                             a \in again})
             left == {a \in again : ~ Publishes(db, a)
                       /\ \E i \in DOMAIN db.outbox :
                            db.outbox[i].agg = a /\ d.outbox[i] # db.outbox[i]}
         IN Holds(d, astray.left \cup left, astray.outdated) /\ Carries(db, d, astray.outdated)
<1> DEFINE again == {a \in Listings : Alive(db, a)}
           Again(a) == [agg |-> a, kind |-> "put", rev |-> db.row[a].rev, needs |-> {}]
           said == {Again(a) : a \in again}
           q == db.outbox
           r == EnqueueAll(q, said)
           d == Say(db, said)
           left == {a \in again : ~ Publishes(db, a)
                     /\ \E i \in DOMAIN db.outbox : db.outbox[i].agg = a /\ d.outbox[i] # db.outbox[i]}
<1>1. /\ db \in Tables /\ \A a \in Listings : db.row[a].rev \in Nat
      /\ q \in Seq(IntentRow) /\ Len(q) \in Nat /\ DOMAIN q = 1..Len(q)
      /\ \A i \in 1..Len(q) : q[i].agg \in Listings
  BY TableFields DEF Holds
<1>2. said \in SUBSET Sayings
  BY <1>1 DEF Sayings
<1>3. \A t \in said : t.agg \in again /\ t.kind = "put" /\ t.rev = db.row[t.agg].rev
  OBVIOUS
<1>4. \A a \in again : \E t \in said : t.agg = a
  <2>1. \A a \in again : Again(a) \in said /\ Again(a).agg = a
    OBVIOUS
  <2> QED BY <2>1
<1>5. OneEach(said)
  BY DEF OneEach
<1>6. d = [db EXCEPT !.outbox = r]
  BY DEF Say
<1> HIDE DEF said, d, again
<1>7. Enqueued(q, r, said)
  BY <1>1, <1>2, <1>5, EnqueueAllRows
<1> HIDE DEF r, q
<1>8. /\ d \in Tables /\ d.row = db.row /\ d.members = db.members /\ d.ships = db.ships
      /\ d.outbox = r /\ Len(r) \in Nat
  <2>1. r \in Seq(IntentRow)
    BY <1>7 DEF Enqueued
  <2>2. d \in Tables /\ d.row = db.row /\ d.members = db.members /\ d.ships = db.ships /\ d.outbox = r
    BY <1>1, <1>6, <2>1, OutboxWrites
  <2> QED BY <2>2, TableFields
<1>9. /\ SameShape(db, d)
      /\ \A a \in Listings : /\ Kind(db, a) = Kind(d, a) /\ (Publishes(db, a) <=> Publishes(d, a))
                             /\ Rendering(db, a) = Rendering(d, a) /\ (Alive(db, a) <=> Alive(d, a))
  <2>1. SameShape(db, d)
    BY <1>8 DEF SameShape
  <2> QED BY <2>1, ShapeReads DEF Kind
<1>10. \A i \in 1..Len(r) : i > Len(q) =>
         /\ r[i].agg \in again /\ r[i].kind = "put" /\ r[i].rev = db.row[r[i].agg].rev
  BY <1>3, <1>7 DEF Enqueued, Says
<1>11. \A i \in 1..Len(q) : i \in 1..Len(r)
  BY <1>1, <1>7, <1>8 DEF Enqueued
<1>12. again \in SUBSET Listings /\ \A a \in again : Alive(db, a)
  BY DEF again
<1>13. Linked(d)
  <2>1. Linked(db)
    BY DEF Holds
  <2>2. ASSUME NEW i \in 1..Len(r) PROVE db.row[r[i].agg].state # "none"
    <3>1. CASE i > Len(q)
      BY <3>1, <1>10, <1>12 DEF Alive
    <3>2. CASE ~ (i > Len(q))
      <4>1. i \in 1..Len(q)
        BY <3>2, <1>1, <1>8
      <4> QED BY <4>1, <2>1, <1>7 DEF Linked, Enqueued, SameIntent, q
    <3> QED BY <3>1, <3>2
  <2> QED BY <2>1, <2>2, <1>8 DEF Linked, Alive
<1>14. ASSUME NEW a \in Listings \ astray.outdated PROVE Within(d, a)
  <2> SUFFICES ASSUME NEW i \in 1..Len(r), r[i].agg = a
               PROVE  r[i].rev <= db.row[a].rev
    BY <1>8 DEF Within
  <2>1. CASE i > Len(q)
    <3>1. r[i].rev = db.row[a].rev
      BY <2>1, <1>10
    <3> QED BY <3>1, <1>1
  <2>2. CASE ~ (i > Len(q))
    <3>1. i \in 1..Len(q)
      BY <2>2, <1>1, <1>8
    <3>2. Within(db, a)
      BY DEF Holds
    <3> QED BY <3>1, <3>2, <1>7 DEF Within, Enqueued, SameIntent, q
  <2> QED BY <2>1, <2>2
<1>15. \A a \in Listings : relay[a].said = "listing" => WasPut(d, a)
  <2>1. DOMAIN r = 1..Len(r)
    BY <1>8, TableFields
  <2>2. \A a \in Listings : WasPut(db, a) => WasPut(d, a)
    BY <2>1, <1>1, <1>7, <1>8, <1>11 DEF WasPut, Enqueued, SameIntent, q
  <2> QED BY <2>2 DEF Holds
<1>16. ASSUME NEW a \in Listings \ (astray.left \cup left \cup astray.outdated)
       PROVE  Shown(d, a)
  <2>1. Shown(db, a)
    BY DEF Holds
  <2>2. NoTombstone(d, a)
    <3> SUFFICES ASSUME Publishes(d, a), NEW i \in 1..Len(r), r[i].agg = a, r[i].kind = "del"
                 PROVE  r[i].state # "pending"
      BY <1>8 DEF NoTombstone
    <3>1. ~ (i > Len(q))
      BY <1>10
    <3>2. i \in 1..Len(q)
      BY <3>1, <1>1, <1>8
    <3>3. q[i].state # "pending"
      BY <3>2, <2>1, <1>7, <1>9 DEF Shown, NoTombstone, Enqueued, SameIntent, q
    <3> QED BY <3>2, <3>3, <1>7 DEF Enqueued
  <2>3. CASE Publishes(db, a)
    <3>1. a \in again
      BY <2>3 DEF again, Publishes, Offered
    <3>2. PICK t \in said : t.agg = a
      BY <3>1, <1>4
    <3>3. PICK i \in 1..Len(r) : r[i].state = "pending" /\ Says(r[i], t)
      BY <1>7 DEF Enqueued
    <3>4. Kind(d, a) = "put"
      BY <2>3, <1>9 DEF Kind
    <3>5. Waits(d, a)
      BY <3>2, <3>3, <3>4, <1>3, <1>8 DEF Says, Waits
    <3> QED BY <2>2, <3>5 DEF Shown
  <2>4. CASE ~ Publishes(db, a)
    <3>1. CASE Waits(db, a)
      <4>1. PICK i \in 1..Len(q) : q[i].agg = a /\ q[i].kind = Kind(db, a) /\ q[i].state = "pending"
        BY <3>1 DEF Waits, q
      <4>2. r[i] = q[i] \/ ~ Overtaken(q[i], said)
        <5>1. CASE a \in again
          <6>1. ~ (db.outbox[i].agg = a /\ d.outbox[i] # db.outbox[i])
            BY <5>1, <2>4, <4>1, <1>1, <1>16 DEF q
          <6> QED BY <6>1, <4>1, <1>8 DEF q
        <5>2. CASE a \notin again
          BY <5>2, <4>1, <1>3 DEF Overtaken
        <5> QED BY <5>1, <5>2
      <4>3. r[i].state = "pending" /\ r[i].agg = a /\ r[i].kind = Kind(d, a)
        BY <4>1, <4>2, <1>7, <1>9 DEF Enqueued, SameIntent
      <4>4. Waits(d, a)
        BY <4>3, <1>8, <1>11 DEF Waits
      <4> QED BY <2>2, <4>4 DEF Shown
    <3>2. CASE ~ Waits(db, a)
      BY <3>2, <2>1, <2>2, <2>4, <1>9 DEF Shown
    <3> QED BY <3>1, <3>2
  <2> QED BY <2>3, <2>4
<1>17. Holds(d, astray.left \cup left, astray.outdated)
  <2>1. \A e \in Editors : edit[e].listing \in Listings => d.row[edit[e].listing].state # "none"
    BY <1>8 DEF Holds
  <2>2. \A a \in Listings \ ((astray.left \cup left) \cup astray.outdated) : Shown(d, a)
    BY <1>16
  <2> HIDE DEF left
  <2> QED BY <2>1, <2>2, <1>8, <1>13, <1>14, <1>15 DEF Holds
<1>18. Carries(db, d, astray.outdated)
  <2>1. StaysOrYields(q, r, Listings)
    <3>1. \A i \in 1..Len(q) :
            \/ r[i].state = q[i].state
            \/ q[i].state = "pending" /\ r[i].state = "superseded" /\ q[i].agg \in Listings
      BY <1>1, <1>7 DEF Enqueued
    <3> QED BY <3>1, <1>7 DEF Enqueued, StaysOrYields
  <2>2. \A x \in Listings : d.row[x] = db.row[x] /\ (Alive(db, x) <=> Alive(d, x))
    BY <1>8, <1>9
  <2>3. \A i \in 1..Len(r) : i > Len(q) => db.row[r[i].agg].state # "deleted"
    BY <1>10, <1>12 DEF Alive
  <2> QED BY <2>1, <2>2, <2>3, <1>8 DEF Carries, q
<1> QED BY <1>17, <1>18 DEF d, left, said, again

\* Prices and visibility: nothing a listing refers to.
LEMMA BulkTouchHolds ==
  ASSUME Holds(db, astray.left, astray.outdated), NEW ps \in SUBSET Products, Lockable(ps)
  PROVE  LET f == Bulk(db, ps, CollectionsOfAll(ps)) IN
           Holds(f, astray.left, astray.outdated) /\ Carries(db, f, astray.outdated)
<1>1. db \in Tables /\ Linked(db) /\ \A p \in ps : Alive(db, p)
  BY DEF Holds, Lockable
<1>2. CollectionsOfAll(ps) \in SUBSET Collections
  BY DEF CollectionsOfAll, CollectionsOf
<1>3. \A m \in db.members : m[1] \in ps => m[2] \in CollectionsOfAll(ps)
  BY <1>1, TableFields DEF CollectionsOfAll, CollectionsOf
<1> QED BY <1>1, <1>2, <1>3, BulkHolds

\* The rows of ps are made drafts or published.
LEMMA OpensRows ==
  ASSUME Holds(db, astray.left, astray.outdated), NEW ps \in SUBSET Products, NEW open \in BOOLEAN
  PROVE  LET d == [db EXCEPT !.row = [a \in Listings |->
                                IF a \in ps THEN [@[a] EXCEPT !.open = open] ELSE @[a]]]
         IN /\ d \in Tables /\ Linked(d)
            /\ d.outbox = db.outbox /\ d.ships = db.ships /\ d.members = db.members
            /\ \A a \in Listings : /\ d.row[a].state = db.row[a].state /\ d.row[a].rev = db.row[a].rev
                                   /\ a \notin ps => d.row[a].open = db.row[a].open
<1> DEFINE row == [a \in Listings |-> IF a \in ps THEN [db.row[a] EXCEPT !.open = open] ELSE db.row[a]]
           d == [db EXCEPT !.row = row]
<1>1. /\ db \in Tables /\ Linked(db)
      /\ \A a \in Listings : db.row[a] \in [state : {"none", "live", "deleted"}, rev : Nat, open : BOOLEAN]
  BY TableFields DEF Holds
<1>2. row \in [Listings -> [state : {"none", "live", "deleted"}, rev : Nat, open : BOOLEAN]]
  BY <1>1
<1>3. \A a \in Listings : /\ row[a].state = db.row[a].state /\ row[a].rev = db.row[a].rev
                          /\ a \notin ps => row[a].open = db.row[a].open
  BY <1>1
<1>4. d = [db EXCEPT !.row = [a \in Listings |->
                        IF a \in ps THEN [@[a] EXCEPT !.open = open] ELSE @[a]]]
  BY <1>1 DEF Tables
<1> HIDE DEF row
<1>5. /\ d \in Tables /\ d.row = row /\ d.members = db.members /\ d.ships = db.ships
      /\ d.outbox = db.outbox
  BY <1>1, <1>2, RowWrites
<1> HIDE DEF d
<1>6. Linked(d)
  <2>1. \A m \in db.members : m[1] \in Listings /\ m[2] \in Listings
    BY <1>1, TableFields DEF Listings
  <2>2. \A s \in db.ships : s[1] \in Listings /\ s[2] \in Listings
    BY <1>1, TableFields DEF Listings
  <2>3. \A j \in 1..Len(db.outbox) : db.outbox[j].agg \in Listings
    BY <1>1, TableFields
  <2> QED BY <1>1, <1>3, <1>5, <2>1, <2>2, <2>3 DEF Linked, Alive
<1> QED BY <1>3, <1>4, <1>5, <1>6

LEMMA BulkPublishHolds ==
  ASSUME Holds(db, astray.left, astray.outdated), NEW ps \in SUBSET Products, Lockable(ps)
  PROVE  LET d == [db EXCEPT !.row = [a \in Listings |->
                                IF a \in ps THEN [@[a] EXCEPT !.open = TRUE] ELSE @[a]]]
             f == Bulk(d, ps, CollectionsOfAll(ps))
         IN Holds(f, astray.left, astray.outdated) /\ Carries(db, f, astray.outdated)
<1> DEFINE d == [db EXCEPT !.row = [a \in Listings |->
                              IF a \in ps THEN [@[a] EXCEPT !.open = TRUE] ELSE @[a]]]
<1>1. /\ d \in Tables /\ Linked(d)
      /\ d.outbox = db.outbox /\ d.ships = db.ships /\ d.members = db.members
      /\ \A a \in Listings : /\ d.row[a].state = db.row[a].state /\ d.row[a].rev = db.row[a].rev
                             /\ a \notin ps => d.row[a].open = db.row[a].open
  BY OpensRows
<1> HIDE DEF d
<1>2. \A p \in ps : Alive(db, p)
  BY DEF Lockable
<1>3. CollectionsOfAll(ps) \in SUBSET Collections
  BY DEF CollectionsOfAll, CollectionsOf
<1>4. \A m \in db.members : m[1] \in ps => m[2] \in CollectionsOfAll(ps)
  <2>1. db.members \in SUBSET (Products \X Collections)
    BY TableFields DEF Holds
  <2> QED BY <2>1 DEF CollectionsOfAll, CollectionsOf
<1>5. Holds(Bulk(d, ps, CollectionsOfAll(ps)), astray.left, astray.outdated)
      /\ Carries(db, Bulk(d, ps, CollectionsOfAll(ps)), astray.outdated)
  BY <1>1, <1>2, <1>3, <1>4, BulkHolds
<1> QED BY <1>5 DEF d

LEMMA BulkDraftHolds ==
  ASSUME Holds(db, astray.left, astray.outdated), NEW ps \in SUBSET Products, Lockable(ps)
  PROVE  LET d == [db EXCEPT !.row = [a \in Listings |->
                                IF a \in ps THEN [@[a] EXCEPT !.open = FALSE] ELSE @[a]],
                             !.members = {m \in @ : m[1] \notin ps}]
             f == Bulk(d, ps, CollectionsOfAll(ps))
         IN Holds(f, astray.left, astray.outdated) /\ Carries(db, f, astray.outdated)
<1> DEFINE g == [db EXCEPT !.row = [a \in Listings |->
                              IF a \in ps THEN [@[a] EXCEPT !.open = FALSE] ELSE @[a]]]
           members == {m \in db.members : m[1] \notin ps}
           d == [g EXCEPT !.members = members]
<1>1. db \in Tables /\ db.members \in SUBSET (Products \X Collections)
  BY TableFields DEF Holds
<1>2. d = [db EXCEPT !.row = [a \in Listings |->
                        IF a \in ps THEN [@[a] EXCEPT !.open = FALSE] ELSE @[a]],
                     !.members = {m \in @ : m[1] \notin ps}]
  BY <1>1 DEF Tables
<1>3. /\ g \in Tables /\ Linked(g)
      /\ g.outbox = db.outbox /\ g.ships = db.ships /\ g.members = db.members
      /\ \A a \in Listings : /\ g.row[a].state = db.row[a].state /\ g.row[a].rev = db.row[a].rev
                             /\ a \notin ps => g.row[a].open = db.row[a].open
  BY OpensRows
<1>4. /\ members \in SUBSET (Products \X Collections) /\ members \subseteq db.members
      /\ \A m \in db.members : m[1] \notin ps => m \in members
      /\ \A m \in members : m[1] \notin ps
  BY <1>1
<1> HIDE DEF g, members
<1>5. d \in Tables /\ d.row = g.row /\ d.members = members /\ d.ships = g.ships /\ d.outbox = g.outbox
  BY <1>3, <1>4, MembersWrites
<1> HIDE DEF d
<1>6. Linked(d)
  BY <1>3, <1>4, <1>5 DEF Linked, Alive
<1>7. \A p \in ps : Alive(db, p)
  BY DEF Lockable
<1>8. CollectionsOfAll(ps) \in SUBSET Collections
  BY DEF CollectionsOfAll, CollectionsOf
<1>9. \A m \in db.members \cup d.members : m[1] \in ps => m[2] \in CollectionsOfAll(ps)
  BY <1>1, <1>4, <1>5 DEF CollectionsOfAll, CollectionsOf
<1>10. Holds(Bulk(d, ps, CollectionsOfAll(ps)), astray.left, astray.outdated)
       /\ Carries(db, Bulk(d, ps, CollectionsOfAll(ps)), astray.outdated)
  BY <1>3, <1>4, <1>5, <1>6, <1>7, <1>8, <1>9, BulkHolds
<1> QED BY <1>2, <1>10

LEMMA BulkMoveHolds ==
  ASSUME Holds(db, astray.left, astray.outdated), NEW ps \in SUBSET Products, Lockable(ps),
         NEW c \in Collections, Resolves({c})
  PROVE  LET d == [db EXCEPT !.members = {m \in @ : m[1] \notin ps} \cup (ps \X {c})]
             f == Bulk(d, ps, Touched(ps, c))
         IN Holds(f, astray.left, astray.outdated) /\ Carries(db, f, astray.outdated)
<1> DEFINE members == {m \in db.members : m[1] \notin ps} \cup (ps \X {c})
           d == [db EXCEPT !.members = members]
<1>1. db \in Tables /\ Linked(db) /\ db.members \in SUBSET (Products \X Collections)
  BY TableFields DEF Holds
<1>2. d = [db EXCEPT !.members = {m \in @ : m[1] \notin ps} \cup (ps \X {c})]
  BY <1>1 DEF Tables
<1>3. /\ members \in SUBSET (Products \X Collections)
      /\ \A m \in db.members : m[1] \notin ps => m \in members
      /\ \A m \in members : m \in db.members \/ (m[1] \in ps /\ m[2] = c)
      /\ \A m \in members : m[1] \in ps => m[2] = c
  <2>1. ps \X {c} \in SUBSET (Products \X Collections)
    OBVIOUS
  <2> QED BY <1>1, <2>1
<1> HIDE DEF members
<1>4. d \in Tables /\ d.row = db.row /\ d.members = members /\ d.ships = db.ships /\ d.outbox = db.outbox
  BY <1>1, <1>3, MembersWrites
<1> HIDE DEF d
<1>5. Alive(db, c) /\ \A p \in ps : Alive(db, p)
  BY DEF Resolves, Lockable
<1>6. Linked(d)
  BY <1>1, <1>3, <1>4, <1>5 DEF Linked, Alive
<1>7. Touched(ps, c) \in SUBSET Collections
  BY DEF Touched, CollectionsOfAll, CollectionsOf
<1>8. \A m \in db.members \cup d.members : m[1] \in ps => m[2] \in Touched(ps, c)
  BY <1>1, <1>3, <1>4 DEF Touched, CollectionsOfAll, CollectionsOf
<1>9. \A m \in d.members : m[1] \notin ps => m \in db.members
  BY <1>3, <1>4
<1>10. \A a \in Listings : /\ d.row[a].state = db.row[a].state /\ d.row[a].rev = db.row[a].rev
                           /\ a \notin ps => d.row[a].open = db.row[a].open
  BY <1>4
<1>11. Holds(Bulk(d, ps, Touched(ps, c)), astray.left, astray.outdated)
       /\ Carries(db, Bulk(d, ps, Touched(ps, c)), astray.outdated)
  BY <1>3, <1>4, <1>5, <1>6, <1>7, <1>8, <1>9, <1>10, BulkHolds
<1> QED BY <1>2, <1>11

-----------------------------------------------------------------------------
\* The inductive invariant

\* Who named a deleted listing does so no more, or its tombstones wait for it.
Mourned ==
  \A x \in Listings \ astray.outdated : db.row[x].state = "deleted" =>
    \A a \in named[x] : x \notin relay[a].members \cup relay[a].ships \/ Held(db, x, a)

IInv == TypeOK /\ Holds(db, astray.left, astray.outdated) /\ Mourned

LEMMA InitInv == Init => IInv
<1> SUFFICES ASSUME Init PROVE IInv
  OBVIOUS
<1> DEFINE first == {OnSale[n] : n \in DOMAIN OnSale}
           rows == [a \in Listings |->
                      [state |-> IF a \in first THEN "live" ELSE "none", rev |-> 0, open |-> a \in first]]
           q == [n \in DOMAIN OnSale |-> [Intent(OnSale[n], "put", 0, {}) EXCEPT !.state = "published"]]
<1>1. /\ Len(OnSale) \in Nat /\ DOMAIN OnSale = 1..Len(OnSale)
      /\ \A n \in 1..Len(OnSale) : OnSale[n] \in Listings
  BY CatalogAssumption, LenProperties, ElementOfSeq
<1>2. first = Range(OnSale) /\ first \in SUBSET Listings
  BY <1>1 DEF Range
<1>3. /\ db.row = rows /\ db.members = SaleMembers /\ db.ships = SaleShips /\ db.outbox = q
      /\ db = [row |-> rows, members |-> SaleMembers, ships |-> SaleShips, outbox |-> q]
  BY DEF Init
<1>4. \A n \in 1..Len(OnSale) :
        /\ q[n] \in IntentRow /\ q[n].agg = OnSale[n] /\ q[n].kind = "put" /\ q[n].rev = 0
        /\ q[n].state = "published"
  BY <1>1 DEF Intent, IntentRow
<1>5. q \in Seq(IntentRow) /\ Len(q) = Len(OnSale) /\ DOMAIN q = 1..Len(OnSale)
  <2>1. q \in [1..Len(OnSale) -> IntentRow]
    BY <1>1, <1>4
  <2> HIDE DEF q
  <2> QED BY <2>1, <1>1, SeqDef, LenProperties
<1>6. \A a \in Listings : /\ rows[a].state = (IF a \in first THEN "live" ELSE "none")
                          /\ rows[a].rev = 0 /\ rows[a].open = (a \in first)
  OBVIOUS
<1>7. rows \in [Listings -> [state : {"none", "live", "deleted"}, rev : Nat, open : BOOLEAN]]
  OBVIOUS
<1> HIDE DEF first, rows, q
<1>8. db \in Tables
  <2>1. SaleMembers \in SUBSET (Products \X Collections)
    BY CatalogAssumption
  <2>2. SaleShips \in SUBSET (Listings \X (Collections \cup Options))
    BY CatalogAssumption DEF Listings
  <2> QED BY <2>1, <2>2, <1>3, <1>5, <1>7 DEF Tables
<1>9. \A a \in Listings : Alive(db, a) <=> a \in first
  BY <1>3, <1>6 DEF Alive
<1>10. Linked(db)
  <2>1. \A m \in SaleMembers : /\ m[1] \in first /\ m[2] \in first /\ m[1] \in Listings /\ m[2] \in Listings
    BY <1>2, CatalogAssumption
  <2>2. \A s \in SaleShips : /\ s[1] \in first /\ s[2] \in first /\ s[1] \in Listings /\ s[2] \in Listings
                             /\ \/ s[1] \in Products
                                \/ s[1] \in Collections /\ s[2] \in Options
    BY <1>2, CatalogAssumption
  <2>3. \A n \in 1..Len(q) : q[n].agg \in first /\ q[n].agg \in Listings
    BY <1>1, <1>4, <1>5 DEF first
  <2> QED BY <2>1, <2>2, <2>3, <1>3, <1>6, <1>9 DEF Linked, Alive
<1>11. \A a \in Listings : Publishes(db, a) <=> a \in first
  <2> SUFFICES ASSUME NEW a \in Listings PROVE Publishes(db, a) <=> a \in first
    OBVIOUS
  <2>1. \A b \in Listings : Offered(db, b) <=> b \in first
    BY <1>3, <1>6, <1>9 DEF Offered
  <2>2. CASE a \in Collections /\ a \in first
    <3>1. PICK m \in SaleMembers : m[2] = a
      BY <2>2, <1>2, CatalogAssumption
    <3>2. m = <<m[1], a>> /\ m[1] \in Products /\ m[1] \in first
      BY <3>1, <1>2, CatalogAssumption
    <3>3. Offered(db, m[1])
      BY <3>2, <2>1 DEF Listings
    <3>4. m[1] \in MembersOf(db, a)
      BY <3>2, <3>3, <1>3 DEF MembersOf
    <3> QED BY <3>4, <2>1, <2>2 DEF Publishes
  <2>3. CASE ~ (a \in Collections /\ a \in first)
    BY <2>1, <2>3 DEF Publishes
  <2> QED BY <2>2, <2>3
<1>12. \A a \in Listings : /\ relay[a] = IF a \in first THEN Rendering(db, a) ELSE Unknown
  BY DEF Init, first
<1>13. \A a \in Listings : WasPut(db, a) <=> a \in first
  BY <1>1, <1>3, <1>4, <1>5 DEF WasPut, first
<1>14. \A a \in Listings : Shown(db, a)
  <2>1. \A a \in Listings : NoTombstone(db, a)
    BY <1>3, <1>4, <1>5 DEF NoTombstone
  <2>2. \A a \in Listings : a \notin first => relay[a].said # "listing"
    BY <1>12 DEF Unknown
  <2> QED BY <2>1, <2>2, <1>11, <1>12 DEF Shown
<1>15. Holds(db, astray.left, astray.outdated)
  <2>1. \A a \in Listings : Within(db, a)
    BY <1>3, <1>4, <1>5, <1>6 DEF Within
  <2>2. \A a \in Listings : relay[a].said = "listing" => WasPut(db, a)
    BY <1>12, <1>13 DEF Unknown
  <2>3. \A e \in Editors : edit[e].listing \notin Listings
    BY CatalogAssumption DEF Init, NoEdit
  <2> QED BY <2>1, <2>2, <2>3, <1>8, <1>10, <1>14 DEF Holds
<1>16. TypeOK
  <2>1. \A a \in Listings : relay[a] \in [said : {"nothing", "listing", "gone"},
                                          members : SUBSET Listings, ships : SUBSET Listings]
    <3>1. Unknown \in [said : {"nothing", "listing", "gone"},
                       members : SUBSET Listings, ships : SUBSET Listings]
      BY DEF Unknown
    <3>2. \A a \in Listings : Rendering(db, a) \in [said : {"nothing", "listing", "gone"},
                                                    members : SUBSET Listings, ships : SUBSET Listings]
      BY DEF Rendering, MembersOf, CollectionsOf, ShipsOf, Listings
    <3> QED BY <3>1, <3>2, <1>12
  <2>2. relay = [a \in Listings |-> relay[a]]
    BY DEF Init
  <2>3. edit \in [Editors -> [listing : Listings \cup {NoListing}, seen : Nat]]
    BY DEF Init, NoEdit
  <2>4. /\ astray \in [left : SUBSET Listings, outdated : SUBSET Listings]
        /\ named \in [Listings -> SUBSET Listings]
        /\ changes \in 0..MaxChanges
    BY CatalogAssumption DEF Init
  <2>5. relay \in [Listings -> [said : {"nothing", "listing", "gone"},
                               members : SUBSET Listings, ships : SUBSET Listings]]
    BY <2>1, <2>2
  <2> QED BY <2>3, <2>4, <2>5, <1>8 DEF TypeOK
<1>17. Mourned
  BY DEF Mourned, Init
<1> QED BY <1>15, <1>16, <1>17 DEF IInv

-----------------------------------------------------------------------------
\* Every step keeps it

\* What an editor works on stays, or it has answered.
LEMMA Editing ==
  ASSUME IInv, edit' = edit \/ \E e \in Editors : Answer(e)
  PROVE  /\ edit' \in [Editors -> [listing : Listings \cup {NoListing}, seen : Nat]]
         /\ \A e \in Editors : edit'[e] = edit[e] \/ edit'[e].listing \notin Listings
<1>1. edit \in [Editors -> [listing : Listings \cup {NoListing}, seen : Nat]]
  BY DEF IInv, TypeOK
<1>2. CASE edit' = edit
  BY <1>1, <1>2
<1>3. CASE \E e \in Editors : Answer(e)
  <2>1. PICK e \in Editors : edit' = [edit EXCEPT ![e] = NoEdit]
    BY <1>3 DEF Answer
  <2>2. NoEdit \in [listing : Listings \cup {NoListing}, seen : Nat] /\ NoEdit.listing \notin Listings
    BY CatalogAssumption DEF NoEdit
  <2> HIDE DEF NoEdit
  <2> QED BY <1>1, <2>1, <2>2
<1> QED BY <1>2, <1>3

\* A transaction that leaves d, with left and out set apart.
LEMMA CommitKeeps ==
  ASSUME IInv, NEW d, Commit(d), NEW left \in SUBSET Listings, NEW out \in SUBSET Listings,
         astray' = [left |-> astray.left \cup left, outdated |-> astray.outdated \cup out],
         Holds(d, astray.left \cup left, astray.outdated \cup out),
         Carries(db, d, astray.outdated \cup out),
         (edit' = edit /\ Begin) \/ \E e \in Editors : Answer(e)
  PROVE  IInv'
<1> DEFINE apart == astray.outdated \cup out
<1>1. /\ TypeOK /\ Holds(db, astray.left, astray.outdated) /\ Mourned
      /\ db \in Tables /\ d \in Tables
  BY DEF IInv, Holds
<1>2. /\ db' = d /\ relay' = relay
      /\ named' = [x \in Listings |->
           IF Alive(db, x) /\ ~ Alive(d, x)
           THEN {a \in Publishing(d, Listings) :
                   x \in CollectionsOf(db, a) \cup MembersOf(db, a) \cup ShipsOf(db, a)}
           ELSE named[x]]
  BY DEF Commit
<1>3. /\ edit' \in [Editors -> [listing : Listings \cup {NoListing}, seen : Nat]]
      /\ \A e \in Editors : edit'[e] = edit[e] \/ edit'[e].listing \notin Listings
  BY Editing
<1>4. astray'.left = astray.left \cup left /\ astray'.outdated = apart
  OBVIOUS
<1>5. TypeOK'
  <2>1. named' \in [Listings -> SUBSET Listings]
    <3>1. named \in [Listings -> SUBSET Listings]
      BY <1>1 DEF TypeOK
    <3>2. Publishing(d, Listings) \in SUBSET Listings
      BY DEF Publishing
    <3> QED BY <3>1, <3>2, <1>2
  <2>2. astray' \in [left : SUBSET Listings, outdated : SUBSET Listings]
    BY <1>1 DEF TypeOK
  <2>3. changes' \in 0..MaxChanges
    BY <1>1, CatalogAssumption DEF TypeOK, Begin, Answer
  <2> QED BY <2>1, <2>2, <2>3, <1>1, <1>2, <1>3 DEF TypeOK
<1>6. Holds(db, astray.left, astray.outdated)'
  <2>1. \A e \in Editors : edit'[e].listing \in Listings => d.row[edit'[e].listing].state # "none"
    BY <1>3 DEF Holds
  <2>2. \A a \in Listings \ (astray'.left \cup astray'.outdated) :
          /\ NoTombstone(d, a)
          /\ \/ Waits(d, a)
             \/ IF Publishes(d, a) THEN relay'[a] = Rendering(d, a) ELSE relay'[a].said # "listing"
    BY <1>2, <1>4 DEF Holds, Shown
  <2> QED BY <2>1, <2>2, <1>2, <1>4 DEF Holds, Shown
<1>7. Mourned'
  <2> SUFFICES ASSUME NEW x \in Listings \ apart, d.row[x].state = "deleted", NEW a \in named'[x]
               PROVE  x \notin relay[a].members \cup relay[a].ships \/ Held(d, x, a)
    BY <1>2, <1>4 DEF Mourned
  <2>1. CASE Alive(db, x)
    <3>1. ~ Alive(d, x)
      BY DEF Alive
    <3>2. a \in Publishing(d, Listings) /\ Names(db, a, x)
      BY <2>1, <3>1, <1>2 DEF Names
    <3>3. a \in Listings /\ Publishes(d, a)
      BY <3>2 DEF Publishing
    <3> QED BY <2>1, <3>1, <3>2, <3>3 DEF Carries
  <2>2. CASE ~ Alive(db, x)
    <3>1. db.row[x].state = "deleted"
      <4>1. db.row[x].state # "none" /\ db.row[x].state \in {"none", "live", "deleted"}
        BY <1>1, TableFields DEF Carries
      <4> QED BY <4>1, <2>2 DEF Alive
    <3>2. a \in named[x]
      BY <2>2, <1>2
    <3>3. CASE Held(db, x, a)
      <4>1. \A i \in 1..Len(d.outbox) : i > Len(db.outbox) => d.outbox[i].agg # x
        BY <3>1 DEF Carries
      <4> QED BY <3>3, <4>1, <1>1, HeldStays DEF Carries
    <3> QED BY <3>1, <3>2, <3>3, <1>1 DEF Mourned
  <2> QED BY <2>1, <2>2
<1> QED BY <1>5, <1>6, <1>7 DEF IInv

\* One that sets nothing apart.
LEMMA CommitKeepsAll ==
  ASSUME IInv, NEW d, Commit(d), UNCHANGED astray,
         Holds(d, astray.left, astray.outdated), Carries(db, d, astray.outdated),
         (edit' = edit /\ Begin) \/ \E e \in Editors : Answer(e)
  PROVE  IInv'
<1>1. /\ astray = [left |-> astray.left, outdated |-> astray.outdated]
      /\ astray.left \in SUBSET Listings /\ astray.outdated \in SUBSET Listings
  BY DEF IInv, TypeOK
<1>2. /\ astray.left \cup {} = astray.left /\ astray.outdated \cup {} = astray.outdated
      /\ {} \in SUBSET Listings
  OBVIOUS
<1> QED BY <1>1, <1>2, CommitKeeps

LEMMA AtomicallyKeeps ==
  ASSUME IInv, NEW d, Atomically(d),
         Holds(d, astray.left, astray.outdated), Carries(db, d, astray.outdated)
  PROVE  IInv'
BY CommitKeepsAll DEF Atomically

\* The row an editor has read.
LEMMA ReadRow ==
  ASSUME IInv, NEW e \in Editors, edit[e].listing \in Listings
  PROVE  /\ edit[e].seen \in Nat /\ db.row[edit[e].listing].state # "none"
         /\ Stale(e) = (IF edit[e].seen = db.row[edit[e].listing].rev THEN {} ELSE {edit[e].listing})
         /\ Stale(e) \in SUBSET Listings
BY DEF IInv, TypeOK, Holds, Stale

LEMMA PatchProductKeeps ==
  ASSUME IInv, NEW e \in Editors, NEW open \in BOOLEAN, NEW content \in Contents,
         PatchProduct(e, open, content)
  PROVE  IInv'
<1> DEFINE p == edit[e].listing
           d == PatchedProduct(p, edit[e].seen, open, content)
<1>1. /\ p \in Products /\ p \in Listings /\ Acceptable(open, content) /\ Commit(d)
      /\ Failing(LeftBehind(p, d), Stale(e)) /\ Answer(e)
  BY DEF PatchProduct, Listings
<1>2. /\ edit[e].seen \in Nat /\ db.row[p].state # "none"
      /\ Stale(e) = (IF edit[e].seen = db.row[p].rev THEN {} ELSE {p})
      /\ Stale(e) \in SUBSET Listings
  BY <1>1, ReadRow
<1>3. Holds(db, astray.left, astray.outdated)
  BY DEF IInv
<1> HIDE DEF p
<1>4. /\ Holds(d, astray.left \cup LeftBehind(p, d), astray.outdated \cup Stale(e))
      /\ Carries(db, d, astray.outdated \cup Stale(e))
  BY <1>1, <1>2, <1>3, PatchProductHolds
<1>5. LeftBehind(p, d) \in SUBSET Listings
  BY <1>1 DEF LeftBehind, CollectionsOf, Listings
<1> HIDE DEF d
<1> QED BY <1>1, <1>2, <1>4, <1>5, CommitKeeps DEF Failing

LEMMA PatchCollectionKeeps ==
  ASSUME IInv, NEW e \in Editors, NEW content \in Contents, PatchCollection(e, content)
  PROVE  IInv'
<1> DEFINE c == edit[e].listing
           seen == edit[e].seen
           d == Detailed([db EXCEPT !.row[c].rev = seen + 1], c, content)
           f == Announce(d, c, seen + 1)
           out == astray.outdated \cup Stale(e)
<1>1. /\ c \in Collections /\ c \in Listings /\ content.members = Keep
      /\ content.ships # Keep => content.ships \subseteq Options /\ Resolves(content.ships)
      /\ Commit(f) /\ Failing({}, Stale(e)) /\ Answer(e)
  BY DEF PatchCollection, Renumbered, Listings
<1>2. /\ seen \in Nat /\ db.row[c].state # "none"
      /\ Stale(e) = (IF seen = db.row[c].rev THEN {} ELSE {c})
      /\ Stale(e) \in SUBSET Listings
  BY <1>1, ReadRow
<1>3. Holds(db, astray.left, out) /\ (c \notin out => seen = db.row[c].rev)
  <2>1. Holds(db, astray.left, astray.outdated)
    BY DEF IInv
  <2> QED BY <2>1, <1>2, HoldsApart
<1> HIDE DEF c, seen, out
<1>4. Holds(f, astray.left, out) /\ Carries(db, f, out)
  BY <1>1, <1>2, <1>3, PatchCollectionHolds
<1> HIDE DEF f
<1>5. astray.left \cup {} = astray.left /\ {} \in SUBSET Listings
  OBVIOUS
<1> QED BY <1>1, <1>2, <1>4, <1>5, CommitKeeps DEF Failing, out

LEMMA PatchShippingKeeps ==
  ASSUME IInv, NEW e \in Editors, NEW active \in BOOLEAN, PatchShipping(e, active)
  PROVE  IInv'
<1> DEFINE o == edit[e].listing
           seen == edit[e].seen
           r == [db EXCEPT !.row[o].rev = seen + 1]
           d == Announce([r EXCEPT !.row[o].open = active], o, seen + 1)
           g == Republish(d, ShippingBy(db, o) \cap Collections)
           f == Republish(g, ShippingBy(db, o) \cap Products)
           more == IF active THEN {} ELSE {o}
<1>1. /\ o \in Options /\ o \in Listings /\ Commit(f) /\ Failing(more, Stale(e)) /\ Answer(e)
  BY DEF PatchShipping, Renumbered, Listings
<1>2. /\ seen \in Nat /\ db.row[o].state # "none"
      /\ Stale(e) = (IF seen = db.row[o].rev THEN {} ELSE {o})
      /\ Stale(e) \in SUBSET Listings
  BY <1>1, ReadRow
<1>3. Holds(db, astray.left, astray.outdated)
  BY DEF IInv
<1> HIDE DEF o, seen
<1>4. /\ Holds(f, astray.left \cup more, astray.outdated \cup Stale(e))
      /\ Carries(db, f, astray.outdated \cup Stale(e))
  BY <1>1, <1>2, <1>3, PatchShippingHolds
<1>5. more \in SUBSET Listings
  BY <1>1
<1> HIDE DEF f, more
<1> QED BY <1>1, <1>2, <1>4, <1>5, CommitKeeps DEF Failing

LEMMA DeleteProductKeeps ==
  ASSUME IInv, NEW e \in Editors, DeleteProduct(e)
  PROVE  IInv'
<1> DEFINE d == ProductDeleted(db, edit[e].listing)
<1>1. edit[e].listing \in Products /\ Commit(d) /\ Answer(e) /\ UNCHANGED astray
  BY DEF DeleteProduct
<1>2. Holds(d, astray.left, astray.outdated) /\ Carries(db, d, astray.outdated)
  BY <1>1, ProductDeletedHolds DEF IInv
<1> HIDE DEF d
<1> QED BY <1>1, <1>2, CommitKeepsAll

LEMMA DeleteCollectionKeeps ==
  ASSUME IInv, NEW e \in Editors, NEW strip \in BOOLEAN, DeleteCollection(e, strip)
  PROVE  IInv'
<1> DEFINE c == edit[e].listing
           survivors == {p \in {p \in Products : <<p, c>> \in db.members} \cup ShippingBy(db, c) :
                           Alive(db, p)}
           d == Republish(Deleted(db, c), survivors)
           f == Withdraw(d, c, Publishing(d, survivors))
<1>1. /\ c \in Collections /\ Commit(IF Alive(db, c) THEN f ELSE db) /\ Answer(e) /\ UNCHANGED astray
  BY DEF DeleteCollection
<1>2. Holds(db, astray.left, astray.outdated)
  BY DEF IInv
<1> HIDE DEF c
<1>3. CASE Alive(db, c)
  <2>1. Holds(f, astray.left, astray.outdated) /\ Carries(db, f, astray.outdated)
    BY <1>1, <1>2, <1>3, DeleteCollectionHolds
  <2> HIDE DEF f
  <2> QED BY <2>1, <1>1, <1>3, CommitKeepsAll
<1>4. CASE ~ Alive(db, c)
  <2>1. Carries(db, db, astray.outdated)
    BY <1>2, NothingCarries DEF Holds
  <2> HIDE DEF f
  <2> QED BY <2>1, <1>1, <1>2, <1>4, CommitKeepsAll
<1> QED BY <1>3, <1>4

LEMMA DeleteShippingKeeps ==
  ASSUME IInv, NEW e \in Editors, NEW strip \in BOOLEAN, DeleteShipping(e, strip)
  PROVE  IInv'
<1> DEFINE o == edit[e].listing
           f == ShippingDeleted(o)
           more == IF Alive(db, o) THEN {} ELSE {o}
           out == astray.outdated \cup more
<1>1. /\ o \in Options /\ o \in Listings /\ Commit(f) /\ Answer(e) /\ Failing({}, more)
  BY DEF DeleteShipping, Listings
<1>2. db.row[o].state # "none"
  BY <1>1, ReadRow
<1>3. Holds(db, astray.left, out) /\ (Alive(db, o) \/ o \in out)
  <2>1. Holds(db, astray.left, astray.outdated)
    BY DEF IInv
  <2> QED BY <2>1, HoldsApart
<1>4. more \in SUBSET Listings
  BY <1>1
<1> HIDE DEF o, more, out
<1>5. Holds(f, astray.left, out) /\ Carries(db, f, out)
  BY <1>1, <1>2, <1>3, DeleteShippingHolds
<1> HIDE DEF f
<1>6. astray.left \cup {} = astray.left /\ {} \in SUBSET Listings
  OBVIOUS
<1> QED BY <1>1, <1>4, <1>5, <1>6, CommitKeeps DEF Failing, out

LEMMA CreateProductKeeps ==
  ASSUME IInv, NEW p \in Products, NEW open \in BOOLEAN, NEW content \in Contents,
         CreateProduct(p, open, content)
  PROVE  IInv'
<1> DEFINE d == Detailed(Inserted(p, open), p, content)
           f == Announce(Republish(d, CollectionsOf(d, p)), p, 0)
<1>1. db.row[p].state = "none" /\ Acceptable(open, content) /\ Atomically(f)
  BY DEF CreateProduct
<1>2. Holds(f, astray.left, astray.outdated) /\ Carries(db, f, astray.outdated)
  BY <1>1, CreateProductHolds DEF IInv
<1> HIDE DEF f
<1> QED BY <1>1, <1>2, AtomicallyKeeps

LEMMA CreateCollectionKeeps ==
  ASSUME IInv, NEW c \in Collections, NEW options \in SUBSET Options, CreateCollection(c, options)
  PROVE  IInv'
<1> DEFINE f == [Inserted(c, TRUE) EXCEPT !.ships = @ \cup ({c} \X options)]
<1>1. db.row[c].state = "none" /\ Resolves(options) /\ Atomically(f)
  BY DEF CreateCollection
<1>2. Holds(f, astray.left, astray.outdated) /\ Carries(db, f, astray.outdated)
  BY <1>1, CreateCollectionHolds DEF IInv
<1> HIDE DEF f
<1> QED BY <1>1, <1>2, AtomicallyKeeps

LEMMA CreateShippingKeeps ==
  ASSUME IInv, NEW o \in Options, NEW active \in BOOLEAN, CreateShipping(o, active)
  PROVE  IInv'
<1> DEFINE f == Announce(Inserted(o, active), o, 0)
<1>1. db.row[o].state = "none" /\ Atomically(f)
  BY DEF CreateShipping
<1>2. Holds(f, astray.left, astray.outdated) /\ Carries(db, f, astray.outdated)
  BY <1>1, CreateShippingHolds DEF IInv
<1> HIDE DEF f
<1> QED BY <1>1, <1>2, AtomicallyKeeps

LEMMA BulkKeeps ==
  ASSUME IInv, NEW ps \in SUBSET Products
  PROVE  /\ \A ids \in SetToSeqs(ps) : BulkDelete(ids) => IInv'
         /\ BulkTouch(ps) => IInv'
         /\ BulkDraft(ps) => IInv'
         /\ BulkPublish(ps) => IInv'
         /\ \A c \in Collections : BulkMove(ps, c) => IInv'
<1>1. Holds(db, astray.left, astray.outdated)
  BY DEF IInv
<1>2. ASSUME NEW ids \in SetToSeqs(ps), BulkDelete(ids) PROVE IInv'
  <2>1. ids \in Seq(Products)
    <3>1. ids \in [1..Cardinality(ps) -> ps]
      BY DEF SetToSeqs
    <3>2. Cardinality(ps) \in Nat
      <4>1. IsFiniteSet(Listings) /\ ps \in SUBSET Listings
        BY CatalogAssumption DEF Listings
      <4> QED BY <4>1, FS_Subset, FS_CardinalityType
    <3> QED BY <3>1, <3>2, SeqDef
  <2> DEFINE f == AllDeleted(db, ids)
  <2>2. Holds(f, astray.left, astray.outdated) /\ Carries(db, f, astray.outdated)
    BY <2>1, <1>1, AllDeletedHolds
  <2>3. Atomically(f)
    BY <1>2 DEF BulkDelete
  <2> HIDE DEF f
  <2> QED BY <2>2, <2>3, AtomicallyKeeps
<1>3. ASSUME BulkTouch(ps) PROVE IInv'
  <2> DEFINE f == Bulk(db, ps, CollectionsOfAll(ps))
  <2>1. Lockable(ps) /\ Atomically(f)
    BY <1>3 DEF BulkTouch
  <2>2. Holds(f, astray.left, astray.outdated) /\ Carries(db, f, astray.outdated)
    BY <2>1, <1>1, BulkTouchHolds
  <2> HIDE DEF f
  <2> QED BY <2>1, <2>2, AtomicallyKeeps
<1>4. ASSUME BulkDraft(ps) PROVE IInv'
  <2> DEFINE d == [db EXCEPT !.row = [a \in Listings |->
                                IF a \in ps THEN [@[a] EXCEPT !.open = FALSE] ELSE @[a]],
                             !.members = {m \in @ : m[1] \notin ps}]
             f == Bulk(d, ps, CollectionsOfAll(ps))
  <2>1. Lockable(ps) /\ Atomically(f)
    BY <1>4 DEF BulkDraft
  <2>2. Holds(f, astray.left, astray.outdated) /\ Carries(db, f, astray.outdated)
    BY <2>1, <1>1, BulkDraftHolds
  <2> HIDE DEF f
  <2> QED BY <2>1, <2>2, AtomicallyKeeps
<1>5. ASSUME BulkPublish(ps) PROVE IInv'
  <2> DEFINE d == [db EXCEPT !.row = [a \in Listings |->
                                IF a \in ps THEN [@[a] EXCEPT !.open = TRUE] ELSE @[a]]]
             f == Bulk(d, ps, CollectionsOfAll(ps))
  <2>1. Lockable(ps) /\ Atomically(f)
    BY <1>5 DEF BulkPublish
  <2>2. Holds(f, astray.left, astray.outdated) /\ Carries(db, f, astray.outdated)
    BY <2>1, <1>1, BulkPublishHolds
  <2> HIDE DEF f
  <2> QED BY <2>1, <2>2, AtomicallyKeeps
<1>6. ASSUME NEW c \in Collections, BulkMove(ps, c) PROVE IInv'
  <2> DEFINE d == [db EXCEPT !.members = {m \in @ : m[1] \notin ps} \cup (ps \X {c})]
             f == Bulk(d, ps, Touched(ps, c))
  <2>1. Lockable(ps) /\ Resolves({c}) /\ Atomically(f)
    BY <1>6 DEF BulkMove
  <2>2. Holds(f, astray.left, astray.outdated) /\ Carries(db, f, astray.outdated)
    BY <2>1, <1>1, BulkMoveHolds
  <2> HIDE DEF f
  <2> QED BY <2>1, <2>2, AtomicallyKeeps
<1> QED BY <1>2, <1>3, <1>4, <1>5, <1>6

LEMMA PublishAllKeeps ==
  ASSUME IInv, PublishAll
  PROVE  IInv'
<1> DEFINE again == {a \in Listings : Alive(db, a)}
           d == Say(db, {[agg |-> a, kind |-> "put", rev |-> db.row[a].rev, needs |-> {}] :
                           a \in again})
           left == {a \in again : ~ Publishes(db, a)
                     /\ \E i \in DOMAIN db.outbox :
                          db.outbox[i].agg = a /\ d.outbox[i] # db.outbox[i]}
<1>1. Begin /\ Commit(d) /\ Failing(left, {}) /\ UNCHANGED edit
  BY DEF PublishAll
<1>2. Holds(d, astray.left \cup left, astray.outdated) /\ Carries(db, d, astray.outdated)
  BY PublishAllHolds DEF IInv
<1>3. left \in SUBSET Listings /\ astray.outdated \cup {} = astray.outdated /\ {} \in SUBSET Listings
  OBVIOUS
<1> HIDE DEF d, left
<1> QED BY <1>1, <1>2, <1>3, CommitKeeps DEF Failing

LEMMA ReadKeeps ==
  ASSUME IInv, NEW e \in Editors, NEW a \in Listings, Read(e, a)
  PROVE  IInv'
<1>1. /\ Alive(db, a) /\ edit' = [edit EXCEPT ![e] = [listing |-> a, seen |-> db.row[a].rev]]
      /\ db' = db /\ relay' = relay /\ astray' = astray /\ named' = named
      /\ changes < MaxChanges /\ changes' = changes + 1
  BY DEF Read, Begin
<1>2. /\ edit \in [Editors -> [listing : Listings \cup {NoListing}, seen : Nat]]
      /\ db.row[a].rev \in Nat /\ Holds(db, astray.left, astray.outdated)
  BY TableFields DEF IInv, TypeOK
<1>3. [listing |-> a, seen |-> db.row[a].rev] \in [listing : Listings \cup {NoListing}, seen : Nat]
  BY <1>2
<1>4. /\ edit' \in [Editors -> [listing : Listings \cup {NoListing}, seen : Nat]]
      /\ \A e1 \in Editors : edit'[e1] = edit[e1] \/ edit'[e1].listing = a
  BY <1>1, <1>2, <1>3
<1>5. \A e1 \in Editors : edit'[e1].listing \in Listings => db.row[edit'[e1].listing].state # "none"
  BY <1>1, <1>2, <1>4 DEF Holds, Alive
<1>6. Holds(db, astray.left, astray.outdated)'
  BY <1>1, <1>2, <1>5 DEF Holds, Shown
<1>7. TypeOK'
  <2>1. changes' \in 0..MaxChanges
    BY <1>1, CatalogAssumption DEF IInv, TypeOK
  <2> QED BY <2>1, <1>1, <1>4 DEF IInv, TypeOK
<1>8. Mourned'
  BY <1>1 DEF IInv, Mourned
<1> QED BY <1>6, <1>7, <1>8 DEF IInv

LEMMA RefuseKeeps ==
  ASSUME IInv, NEW e \in Editors, Refuse(e)
  PROVE  IInv'
<1>1. /\ Answer(e)
      /\ db' = db /\ relay' = relay /\ astray' = astray /\ named' = named /\ changes' = changes
  BY DEF Refuse, Answer
<1>2. /\ edit' \in [Editors -> [listing : Listings \cup {NoListing}, seen : Nat]]
      /\ \A e1 \in Editors : edit'[e1] = edit[e1] \/ edit'[e1].listing \notin Listings
  BY <1>1, Editing
<1>3. Holds(db, astray.left, astray.outdated)
  BY DEF IInv
<1>4. \A e1 \in Editors : edit'[e1].listing \in Listings => db.row[edit'[e1].listing].state # "none"
  BY <1>2, <1>3 DEF Holds
<1>5. Holds(db, astray.left, astray.outdated)'
  BY <1>1, <1>3, <1>4 DEF Holds, Shown
<1>6. TypeOK'
  BY <1>1, <1>2 DEF IInv, TypeOK
<1>7. Mourned'
  BY <1>1 DEF IInv, Mourned
<1> QED BY <1>5, <1>6, <1>7 DEF IInv

\* An intent ends.
LEMMA Settles ==
  ASSUME db \in Tables, NEW i \in 1..Len(db.outbox), NEW state \in {"published", "superseded"}
  PROVE  LET e == [db EXCEPT !.outbox[i].state = state] IN
           /\ e \in Tables /\ SameShape(db, e) /\ e.row = db.row /\ e.members = db.members /\ e.ships = db.ships
           /\ Len(e.outbox) = Len(db.outbox)
           /\ \A j \in 1..Len(db.outbox) :
                /\ SameIntent(db.outbox[j], e.outbox[j])
                /\ e.outbox[j].state = IF j = i THEN state ELSE db.outbox[j].state
<1> DEFINE q == db.outbox
           r == [q EXCEPT ![i].state = state]
           e == [db EXCEPT !.outbox = r]
<1>1. /\ q \in Seq(IntentRow) /\ Len(q) \in Nat /\ DOMAIN q = 1..Len(q)
      /\ \A j \in 1..Len(q) : q[j] \in IntentRow
  BY TableFields
<1>2. [q[i] EXCEPT !.state = state] \in IntentRow
  BY <1>1, RowFields
<1>3. r = [q EXCEPT ![i] = [q[i] EXCEPT !.state = state]]
  OBVIOUS
<1>4. [db EXCEPT !.outbox[i].state = state] = e
  BY DEF Tables
<1>5. \A j \in 1..Len(q) : r[j] = IF j = i THEN [q[i] EXCEPT !.state = state] ELSE q[j]
  BY <1>1, <1>3
<1> HIDE DEF q
<1>6. r \in Seq(IntentRow) /\ Len(r) = Len(q)
  <2>1. q \in [1..Len(q) -> IntentRow]
    BY <1>1, LenProperties
  <2>2. r \in [1..Len(q) -> IntentRow]
    BY <1>2, <1>3, <2>1
  <2> HIDE DEF r
  <2> QED BY <1>1, <2>2, SeqDef, LenProperties
<1> HIDE DEF r
<1>7. e \in Tables /\ e.row = db.row /\ e.members = db.members /\ e.ships = db.ships /\ e.outbox = r
  BY <1>6, OutboxWrites
<1>8. \A j \in 1..Len(q) : /\ SameIntent(q[j], r[j])
                           /\ r[j].state = IF j = i THEN state ELSE q[j].state
  <2> SUFFICES ASSUME NEW j \in 1..Len(q)
               PROVE  SameIntent(q[j], r[j]) /\ r[j].state = IF j = i THEN state ELSE q[j].state
    OBVIOUS
  <2>1. CASE j = i
    <3>1. q[i] \in IntentRow /\ r[j] = [q[i] EXCEPT !.state = state] /\ q[j] = q[i]
      BY <2>1, <1>1, <1>5
    <3>2. state \in {"pending", "published", "superseded"}
      OBVIOUS
    <3> DEFINE u == q[i]
               v == [u EXCEPT !.state = state]
    <3>3. u \in IntentRow /\ r[j] = v /\ q[j] = u
      BY <3>1
    <3> HIDE DEF u
    <3>4. v.agg = u.agg /\ v.kind = u.kind /\ v.rev = u.rev /\ v.deps = u.deps /\ v.state = state
      BY <3>2, <3>3, RowFields
    <3> HIDE DEF v
    <3> QED BY <2>1, <3>3, <3>4 DEF SameIntent
  <2>2. CASE j # i
    BY <2>2, <1>5 DEF SameIntent
  <2> QED BY <2>1, <2>2
<1> QED BY <1>4, <1>6, <1>7, <1>8 DEF q, SameShape

\* What ending an intent leaves as it is.
LEMMA SettledKeeps ==
  ASSUME IInv, NEW i \in 1..Len(db.outbox), NEW state \in {"published", "superseded"},
         NEW e, e = [db EXCEPT !.outbox[i].state = state]
  PROVE  /\ e \in Tables /\ Linked(e)
         /\ \A a \in Listings \ astray.outdated : Within(e, a)
         /\ \A a : WasPut(db, a) => WasPut(e, a)
         /\ \A a \in Listings : NoTombstone(db, a) => NoTombstone(e, a)
         /\ \A a \in Listings : a # db.outbox[i].agg /\ Waits(db, a) => Waits(e, a)
<1>1. /\ db \in Tables /\ Holds(db, astray.left, astray.outdated) /\ Len(db.outbox) \in Nat
      /\ DOMAIN db.outbox = 1..Len(db.outbox)
  BY TableFields DEF IInv, Holds
<1>2. /\ e \in Tables /\ SameShape(db, e) /\ e.row = db.row /\ e.members = db.members /\ e.ships = db.ships
      /\ Len(e.outbox) = Len(db.outbox)
      /\ \A j \in 1..Len(db.outbox) :
           /\ SameIntent(db.outbox[j], e.outbox[j])
           /\ e.outbox[j].state = IF j = i THEN state ELSE db.outbox[j].state
  BY <1>1, Settles
<1>3. DOMAIN e.outbox = 1..Len(db.outbox)
  BY <1>2, TableFields
<1>4. \A a \in Listings : Kind(db, a) = Kind(e, a) /\ (Publishes(db, a) <=> Publishes(e, a))
  BY <1>2, ShapeReads DEF Kind
<1>5. Linked(e)
  BY <1>1, <1>2 DEF Holds, Linked, Alive, SameIntent
<1>6. \A a \in Listings \ astray.outdated : Within(e, a)
  BY <1>1, <1>2 DEF Holds, Within, SameIntent
<1>7. \A a : WasPut(db, a) => WasPut(e, a)
  BY <1>1, <1>2, <1>3 DEF WasPut, SameIntent
<1>8. \A a \in Listings : NoTombstone(db, a) => NoTombstone(e, a)
  <2> SUFFICES ASSUME NEW a \in Listings, NoTombstone(db, a)
               PROVE  NoTombstone(e, a)
    OBVIOUS
  <2>1. \A j \in 1..Len(db.outbox) :
          e.outbox[j].state = "pending" => db.outbox[j].state = "pending"
    BY <1>2
  <2> SUFFICES ASSUME Publishes(e, a), NEW j \in 1..Len(e.outbox),
                      e.outbox[j].agg = a, e.outbox[j].kind = "del"
               PROVE  e.outbox[j].state # "pending"
    BY DEF NoTombstone
  <2>2. j \in 1..Len(db.outbox) /\ SameIntent(db.outbox[j], e.outbox[j]) /\ Publishes(db, a)
    BY <1>2, <1>4
  <2>3. db.outbox[j].agg = a /\ db.outbox[j].kind = "del"
    BY <2>2 DEF SameIntent
  <2>4. db.outbox[j].state # "pending"
    BY <2>2, <2>3 DEF NoTombstone
  <2> QED BY <2>1, <2>2, <2>4
<1>9. \A a \in Listings : a # db.outbox[i].agg /\ Waits(db, a) => Waits(e, a)
  BY <1>2, <1>4 DEF Waits, SameIntent
<1> QED BY <1>2, <1>5, <1>6, <1>7, <1>8, <1>9

LEMMA GiveWayKeeps ==
  ASSUME IInv, NEW i \in DOMAIN db.outbox, GiveWay(i)
  PROVE  IInv'
<1> DEFINE e == [db EXCEPT !.outbox[i].state = "superseded"]
           b == db.outbox[i].agg
<1>1. /\ db \in Tables /\ Holds(db, astray.left, astray.outdated) /\ i \in 1..Len(db.outbox)
      /\ DOMAIN db.outbox = 1..Len(db.outbox)
      /\ b \in Listings /\ db.outbox[i].rev \in Nat
  BY TableFields DEF IInv, Holds
<1>2. /\ db' = e /\ relay' = relay /\ edit' = edit /\ astray' = astray /\ named' = named
      /\ changes' = changes
  BY DEF GiveWay, Settle
<1>3. /\ e \in Tables /\ SameShape(db, e) /\ e.row = db.row /\ Len(e.outbox) = Len(db.outbox)
      /\ \A j \in 1..Len(db.outbox) :
           /\ SameIntent(db.outbox[j], e.outbox[j])
           /\ e.outbox[j].state = IF j = i THEN "superseded" ELSE db.outbox[j].state
  BY <1>1, Settles
<1>4. /\ Linked(e)
      /\ \A a \in Listings \ astray.outdated : Within(e, a)
      /\ \A a : WasPut(db, a) => WasPut(e, a)
      /\ \A a \in Listings : NoTombstone(db, a) => NoTombstone(e, a)
      /\ \A a \in Listings : a # b /\ Waits(db, a) => Waits(e, a)
  BY <1>1, SettledKeeps
<1> HIDE DEF e
<1>5. \A a \in Listings : /\ Kind(db, a) = Kind(e, a) /\ (Publishes(db, a) <=> Publishes(e, a))
                          /\ Rendering(db, a) = Rendering(e, a)
  BY <1>3, ShapeReads DEF Kind
<1>6. Waits(db, b) => Waits(e, b)
  <2> SUFFICES ASSUME NEW j \in 1..Len(db.outbox), db.outbox[j].agg = b,
                      db.outbox[j].kind = Kind(db, b), db.outbox[j].state = "pending"
               PROVE  Waits(e, b)
    BY DEF Waits
  <2>1. CASE j # i
    BY <2>1, <1>1, <1>3, <1>5 DEF Waits, SameIntent
  <2>2. CASE j = i
    <3>1. Newer(i)
      BY <2>2 DEF GiveWay, Kind
    <3>2. PICK k \in 1..Len(db.outbox) :
            /\ db.outbox[k].agg = b /\ db.outbox[k].kind = db.outbox[i].kind
            /\ db.outbox[k].rev > db.outbox[i].rev /\ db.outbox[k].state = "pending"
      BY <3>1, <1>1 DEF Newer, Waiting
    <3>3. k # i
      BY <3>2, <1>1
    <3> QED BY <2>2, <3>2, <3>3, <1>1, <1>3, <1>5 DEF Waits, SameIntent
  <2> QED BY <2>1, <2>2
<1>7. \A a \in Listings \ (astray.left \cup astray.outdated) : Shown(e, a)
  BY <1>1, <1>4, <1>5, <1>6 DEF Holds, Shown
<1>8. Holds(db, astray.left, astray.outdated)'
  <2>1. Holds(e, astray.left, astray.outdated)
    BY <1>1, <1>3, <1>4, <1>7 DEF Holds
  <2> QED BY <2>1, <1>2 DEF Holds, Shown
<1>9. Mourned'
  <2> SUFFICES ASSUME NEW x \in Listings \ astray.outdated, e.row[x].state = "deleted", NEW a \in named[x]
               PROVE  x \notin relay[a].members \cup relay[a].ships \/ Held(e, x, a)
    BY <1>2 DEF Mourned
  <2>1. Held(db, x, a) => Held(e, x, a)
    <3>1. db.outbox[i].state = "pending"
      BY DEF GiveWay, Waiting
    <3>2. StaysOrYields(db.outbox, e.outbox, Listings)
      BY <3>1, <1>1, <1>3, TableFields DEF StaysOrYields
    <3>3. \A j \in 1..Len(e.outbox) : ~ (j > Len(db.outbox))
      BY <1>3, TableFields
    <3> QED BY <3>2, <3>3, <1>1, <1>3, HeldStays
  <2> QED BY <2>1, <1>3 DEF IInv, Mourned
<1>10. TypeOK'
  BY <1>2, <1>3 DEF IInv, TypeOK
<1> QED BY <1>8, <1>9, <1>10 DEF IInv

LEMMA PublishKeeps ==
  ASSUME IInv, NEW i \in DOMAIN db.outbox, Publish(i)
  PROVE  IInv'
<1> DEFINE e == [db EXCEPT !.outbox[i].state = "published"]
           b == db.outbox[i].agg
           shown == IF db.outbox[i].kind = "put" THEN Rendering(db, b) ELSE Gone
<1>1. /\ db \in Tables /\ Holds(db, astray.left, astray.outdated) /\ i \in 1..Len(db.outbox)
      /\ DOMAIN db.outbox = 1..Len(db.outbox)
      /\ b \in Listings /\ db.outbox[i].kind \in {"put", "del"}
  BY TableFields DEF IInv, Holds
<1>2. /\ db' = e /\ relay' = [relay EXCEPT ![b] = shown]
      /\ edit' = edit /\ astray' = astray /\ named' = named /\ changes' = changes
  BY DEF Publish, Settle
<1>3. /\ db.outbox[i].state = "pending" /\ (db.outbox[i].kind = "put" => Publishes(db, b))
      /\ \A n \in db.outbox[i].deps : db.outbox[n].state = "published"
  BY DEF Publish, Waiting, Free
<1>4. /\ e \in Tables /\ SameShape(db, e) /\ e.row = db.row /\ Len(e.outbox) = Len(db.outbox)
      /\ \A j \in 1..Len(db.outbox) :
           /\ SameIntent(db.outbox[j], e.outbox[j])
           /\ e.outbox[j].state = IF j = i THEN "published" ELSE db.outbox[j].state
  BY <1>1, Settles
<1>5. /\ Linked(e)
      /\ \A a \in Listings \ astray.outdated : Within(e, a)
      /\ \A a : WasPut(db, a) => WasPut(e, a)
      /\ \A a \in Listings : NoTombstone(db, a) => NoTombstone(e, a)
      /\ \A a \in Listings : a # b /\ Waits(db, a) => Waits(e, a)
  BY <1>1, SettledKeeps
<1> HIDE DEF e
<1>6. \A a \in Listings : /\ Kind(db, a) = Kind(e, a) /\ (Publishes(db, a) <=> Publishes(e, a))
                          /\ Rendering(db, a) = Rendering(e, a)
  BY <1>4, ShapeReads DEF Kind
<1>7. /\ relay \in [Listings -> [said : {"nothing", "listing", "gone"},
                                 members : SUBSET Listings, ships : SUBSET Listings]]
      /\ shown \in [said : {"nothing", "listing", "gone"},
                    members : SUBSET Listings, ships : SUBSET Listings]
  <2>1. Gone \in [said : {"nothing", "listing", "gone"}, members : SUBSET Listings, ships : SUBSET Listings]
    BY DEF Gone
  <2>2. Rendering(db, b) \in [said : {"nothing", "listing", "gone"},
                              members : SUBSET Listings, ships : SUBSET Listings]
    BY DEF Rendering, MembersOf, CollectionsOf, ShipsOf, Listings
  <2> QED BY <2>1, <2>2 DEF IInv, TypeOK
<1>8. /\ shown.said = "listing" <=> db.outbox[i].kind = "put"
      /\ db.outbox[i].kind = "put" => shown = Rendering(db, b)
      /\ \A x \in Listings : ~ Alive(db, x) => x \notin shown.members \cup shown.ships
  <2>1. Rendering(db, b).said = "listing" /\ Gone.said = "gone" /\ Gone.members = {} /\ Gone.ships = {}
    BY DEF Rendering, Gone
  <2>2. \A x \in Listings : ~ Alive(db, x) => x \notin Rendering(db, b).members \cup Rendering(db, b).ships
    BY DEF Rendering, MembersOf, Offered
  <2> QED BY <2>1, <2>2
<1> HIDE DEF shown
<1>9. relay'[b] = shown /\ \A a \in Listings : a # b => relay'[a] = relay[a]
  BY <1>1, <1>2, <1>7
<1>10. \A a \in Listings : relay'[a].said = "listing" => WasPut(e, a)
  <2>1. ASSUME relay'[b].said = "listing" PROVE WasPut(e, b)
    <3>1. db.outbox[i].kind = "put"
      BY <2>1, <1>8, <1>9
    <3>2. WasPut(db, b)
      BY <3>1, <1>1 DEF WasPut
    <3> QED BY <3>2, <1>5
  <2> QED BY <2>1, <1>1, <1>5, <1>9 DEF Holds
<1>11. ASSUME NEW a \in Listings \ (astray.left \cup astray.outdated)
       PROVE  /\ NoTombstone(e, a)
              /\ \/ Waits(e, a)
                 \/ IF Publishes(e, a) THEN relay'[a] = Rendering(e, a) ELSE relay'[a].said # "listing"
  <2>1. NoTombstone(db, a) /\ Shown(db, a)
    BY <1>1 DEF Holds, Shown
  <2>2. CASE a = b
    <3>1. CASE db.outbox[i].kind = "put"
      BY <2>1, <2>2, <3>1, <1>3, <1>5, <1>6, <1>8, <1>9
    <3>2. CASE db.outbox[i].kind = "del"
      <4>1. ~ Publishes(db, b)
        BY <2>1, <2>2, <3>2, <1>1, <1>3 DEF NoTombstone
      <4>2. relay'[a].said # "listing"
        BY <2>2, <3>2, <1>8, <1>9
      <4> QED BY <2>1, <2>2, <4>1, <4>2, <1>5, <1>6
    <3> QED BY <3>1, <3>2, <1>1
  <2>3. CASE a # b
    BY <2>1, <2>3, <1>5, <1>6, <1>9 DEF Shown
  <2> QED BY <2>2, <2>3
<1>12. Holds(db, astray.left, astray.outdated)'
  <2>1. \A e1 \in Editors : edit[e1].listing \in Listings => e.row[edit[e1].listing].state # "none"
    BY <1>1, <1>4 DEF Holds
  <2> QED BY <2>1, <1>2, <1>4, <1>5, <1>10, <1>11 DEF Holds, Shown
<1>13. Mourned'
  <2> SUFFICES ASSUME NEW x \in Listings \ astray.outdated, e.row[x].state = "deleted", NEW a \in named[x]
               PROVE  x \notin relay'[a].members \cup relay'[a].ships \/ Held(e, x, a)
    BY <1>2 DEF Mourned
  <2>1. a \in Listings /\ ~ Alive(db, x)
    BY <1>4 DEF IInv, TypeOK, Alive
  <2>2. CASE a = b
    BY <2>1, <2>2, <1>8, <1>9
  <2>3. CASE a # b /\ ~ Held(db, x, a)
    BY <2>1, <2>3, <1>4, <1>9 DEF IInv, Mourned
  <2>4. CASE a # b /\ Held(db, x, a)
    <3>1. PICK k \in 1..Len(db.outbox) :
            /\ db.outbox[k].agg = x /\ db.outbox[k].kind = "del"
            /\ \A j \in 1..Len(db.outbox) :
                 j >= k /\ db.outbox[j].agg = x /\ db.outbox[j].kind = "del" =>
                   /\ db.outbox[j].state # "published"
                   /\ \E n \in db.outbox[j].deps :
                        n \in 1..Len(db.outbox) /\ db.outbox[n].agg = a /\ db.outbox[n].state # "published"
      BY <2>4 DEF Held
    <3>2. ASSUME NEW j \in 1..Len(db.outbox), j >= k, db.outbox[j].agg = x, db.outbox[j].kind = "del"
          PROVE  /\ e.outbox[j].state # "published"
                 /\ \E n \in e.outbox[j].deps :
                      n \in 1..Len(db.outbox) /\ e.outbox[n].agg = a /\ e.outbox[n].state # "published"
      <4>1. PICK n \in db.outbox[j].deps :
              n \in 1..Len(db.outbox) /\ db.outbox[n].agg = a /\ db.outbox[n].state # "published"
        BY <3>1, <3>2
      <4>2. db.outbox[j].state # "published" /\ j # i /\ n # i
        BY <2>4, <3>1, <3>2, <4>1, <1>3
      <4> QED BY <4>1, <4>2, <1>4 DEF SameIntent
    <3>3. e.outbox[k].agg = x /\ e.outbox[k].kind = "del" /\ k \in 1..Len(e.outbox)
      BY <3>1, <1>4 DEF SameIntent
    <3>4. \A j \in 1..Len(e.outbox) :
            j >= k /\ e.outbox[j].agg = x /\ e.outbox[j].kind = "del" =>
              /\ e.outbox[j].state # "published"
              /\ \E n \in e.outbox[j].deps :
                   n \in 1..Len(e.outbox) /\ e.outbox[n].agg = a /\ e.outbox[n].state # "published"
      BY <3>2, <1>4 DEF SameIntent
    <3> QED BY <3>3, <3>4 DEF Held
  <2> QED BY <2>2, <2>3, <2>4
<1>14. TypeOK'
  <2>1. relay' \in [Listings -> [said : {"nothing", "listing", "gone"},
                                members : SUBSET Listings, ships : SUBSET Listings]]
    BY <1>1, <1>2, <1>7
  <2> QED BY <2>1, <1>2, <1>4 DEF IInv, TypeOK
<1> QED BY <1>12, <1>13, <1>14 DEF IInv

LEMMA Step == IInv /\ [Next]_vars => IInv'
<1> SUFFICES ASSUME IInv, [Next]_vars PROVE IInv'
  OBVIOUS
<1>1. CASE UNCHANGED vars
  <2>1. /\ db' = db /\ edit' = edit /\ relay' = relay /\ astray' = astray /\ named' = named
        /\ changes' = changes
    BY <1>1 DEF vars
  <2>2. TypeOK'
    BY <2>1 DEF IInv, TypeOK
  <2>3. Holds(db, astray.left, astray.outdated)'
    BY <2>1 DEF IInv, Holds, Shown
  <2>4. Mourned'
    BY <2>1 DEF IInv, Mourned
  <2> QED BY <2>2, <2>3, <2>4 DEF IInv
<1>2. ASSUME NEW e \in Editors,
             \/ \E a \in Listings : Read(e, a)
             \/ \E open \in BOOLEAN, content \in Contents : PatchProduct(e, open, content)
             \/ \E content \in Contents : PatchCollection(e, content)
             \/ \E active \in BOOLEAN : PatchShipping(e, active)
             \/ DeleteProduct(e)
             \/ \E strip \in BOOLEAN : DeleteCollection(e, strip) \/ DeleteShipping(e, strip)
             \/ Refuse(e)
      PROVE  IInv'
  BY <1>2, ReadKeeps, PatchProductKeeps, PatchCollectionKeeps, PatchShippingKeeps,
     DeleteProductKeeps, DeleteCollectionKeeps, DeleteShippingKeeps, RefuseKeeps
<1>3. ASSUME NEW p \in Products, NEW open \in BOOLEAN, NEW content \in Contents,
             CreateProduct(p, open, content)
      PROVE  IInv'
  BY <1>3, CreateProductKeeps
<1>4. ASSUME NEW c \in Collections, NEW options \in SUBSET Options, CreateCollection(c, options)
      PROVE  IInv'
  BY <1>4, CreateCollectionKeeps
<1>5. ASSUME NEW o \in Options, NEW active \in BOOLEAN, CreateShipping(o, active)
      PROVE  IInv'
  BY <1>5, CreateShippingKeeps
<1>6. ASSUME NEW ps \in SUBSET Products,
             \/ \E ids \in SetToSeqs(ps) : BulkDelete(ids)
             \/ BulkTouch(ps) \/ BulkDraft(ps) \/ BulkPublish(ps)
             \/ \E c \in Collections : BulkMove(ps, c)
      PROVE  IInv'
  BY <1>6, BulkKeeps
<1>7. CASE PublishAll
  BY <1>7, PublishAllKeeps
<1>8. ASSUME NEW i \in DOMAIN db.outbox, GiveWay(i) \/ Publish(i)
      PROVE  IInv'
  BY <1>8, GiveWayKeeps, PublishKeeps
<1> QED BY <1>1, <1>2, <1>3, <1>4, <1>5, <1>6, <1>7, <1>8 DEF Next

-----------------------------------------------------------------------------
\* Theorems

\* The tables and the intents have their types in every state.
THEOREM TypeCorrect == Spec => []TypeOK
<1>1. IInv => TypeOK
  BY DEF IInv
<1> QED BY <1>1, InitInv, Step, PTL DEF Spec

\* However readings and deletions interleave, no product has a deleted collection as
\* a home and no collection offers a deleted option (Resolves under the lock of the
\* shop, deletions that strip what refers to a row).
THEOREM ReferencesAlwaysResolve == Spec => []ReferencesResolve
<1>1. IInv => ReferencesResolve
  BY CatalogAssumption DEF IInv, Holds, Linked, ReferencesResolve
<1> QED BY <1>1, InitInv, Step, PTL DEF Spec

\* Once the intents of a listing have ended, relays show what it refers to, or do not
\* show it, unless a request has left it behind.
THEOREM SettledIsAlwaysShown == Spec => []SettledIsShown
<1>1. IInv => SettledIsShown
  <2> SUFFICES ASSUME IInv, NEW a \in Listings \ (astray.left \cup astray.outdated), Settled(a)
               PROVE  IF Publishes(db, a) THEN relay[a] = Rendering(db, a)
                      ELSE relay[a].said # "listing"
    BY DEF SettledIsShown
  <2>1. Shown(db, a) /\ DOMAIN db.outbox = 1..Len(db.outbox)
    BY TableFields DEF IInv, Holds
  <2>2. ~ Waits(db, a)
    BY <2>1 DEF Settled, Waiting, Waits
  <2> QED BY <2>1, <2>2 DEF Shown
<1> QED BY <1>1, InitInv, Step, PTL DEF Spec

\* No tombstone is out before what is said anew of the listings that named what it
\* withdraws, whatever other requests come between.
THEOREM SurvivorsAlwaysFirst == Spec => []SurvivorsFirst
<1>1. IInv => SurvivorsFirst
  <2> SUFFICES ASSUME IInv, NEW x \in Listings \ astray.outdated, db.row[x].state = "deleted",
                      Withdrawn(x), NEW a \in named[x]
               PROVE  x \notin relay[a].members \cup relay[a].ships
    BY DEF SurvivorsFirst, NamedNoMore
  <2>1. DOMAIN db.outbox = 1..Len(db.outbox)
    BY TableFields DEF IInv, Holds
  <2>2. PICK i \in Tombstones(x) :
          db.outbox[i].state = "published" /\ \A j \in Tombstones(x) : j <= i
    BY DEF Withdrawn
  <2>3. SUFFICES ASSUME Held(db, x, a) PROVE FALSE
    BY DEF IInv, Mourned
  <2>4. PICK k \in 1..Len(db.outbox) :
          /\ db.outbox[k].agg = x /\ db.outbox[k].kind = "del"
          /\ \A j \in 1..Len(db.outbox) :
               j >= k /\ db.outbox[j].agg = x /\ db.outbox[j].kind = "del" =>
                 db.outbox[j].state # "published"
    BY <2>3 DEF Held
  <2>5. k \in Tombstones(x) /\ i \in 1..Len(db.outbox) /\ db.outbox[i].agg = x /\ db.outbox[i].kind = "del"
    BY <2>1, <2>4 DEF Tombstones
  <2>6. Len(db.outbox) \in Nat
    BY TableFields DEF IInv, Holds
  <2>7. k <= i
    BY <2>2, <2>5
  <2> QED BY <2>2, <2>4, <2>5, <2>6, <2>7
<1> QED BY <1>1, InitInv, Step, PTL DEF Spec

==============================================================================
