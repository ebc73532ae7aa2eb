------------------------------- MODULE Catalog -------------------------------
(***************************************************************************)
(* The listings of a shop and the references between them                  *)
(* (services/catalog.py): products are members of collections, products    *)
(* and collections offer shipping options, and products offer the shipping *)
(* of whole collections.  Each change, in its own transaction, counts      *)
(* revisions up and enqueues what has to be said anew of every listing it  *)
(* touches: survivors first, then the tombstone of what is withdrawn.      *)
(*                                                                         *)
(* A listing says what it refers to; the rest of its content goes out with *)
(* it.  Outbox has the publisher and what can happen to a publication;     *)
(* here an intent is rendered, sent and settled in one step, once what it  *)
(* depends on is published, or it is given up.                             *)
(***************************************************************************)
EXTENDS Intents, SequencesExt

CONSTANTS
  Products, Collections, Options,  \* rows, of which some do not exist yet
  Editors,     \* requests that read a row before they write
  NoListing,   \* what an idle editor works on
  Keep,        \* a field that a patch leaves alone
  Contents,    \* what a request may set: collections and shipping of a listing
  OnSale,      \* the listings published before the start, in that order
  SaleMembers, SaleShips,  \* and their references
  MaxChanges   \* bound of the model: requests that are begun

Listings == Products \cup Collections \cup Options

ASSUME CatalogAssumption ==
  /\ IsFiniteSet(Listings) /\ NoListing \notin Listings
  /\ Products \cap Collections = {} /\ Products \cap Options = {} /\ Collections \cap Options = {}
  /\ Contents \subseteq [members : {Keep} \cup SUBSET Collections,
                        ships : {Keep} \cup SUBSET (Collections \cup Options)]
  /\ OnSale \in Seq(Listings)
  /\ SaleMembers \subseteq Range(OnSale) \X Range(OnSale)
  /\ SaleMembers \subseteq Products \X Collections
  /\ SaleShips \subseteq Range(OnSale) \X Range(OnSale)
  /\ SaleShips \subseteq (Products \X (Collections \cup Options)) \cup (Collections \X Options)
  /\ \A c \in Range(OnSale) \cap Collections : \E m \in SaleMembers : m[2] = c
  /\ MaxChanges \in Nat

VARIABLES
  db,      \* the tables: the row of each listing (state, revision, and whether
           \* it is open: not a draft, active), product_collections, the three
           \* tables of shipping references, outbox_events
  edit,    \* the row each editor has read and not written yet
  relay,   \* what the relays show of each listing
  astray,  \* history: listings that requests have left behind, and those that
           \* were numbered from an outdated reading
  named,   \* history: who named a deleted listing and is still published
  changes  \* how many requests were begun

vars == <<db, edit, relay, astray, named, changes>>

NoEdit == [listing |-> NoListing, seen |-> 0]

\* What relays show of a listing never announced, and of a withdrawn one.
Unknown == [said |-> "nothing", members |-> {}, ships |-> {}]
Gone == [said |-> "gone", members |-> {}, ships |-> {}]

-----------------------------------------------------------------------------
\* Reading the tables d

Alive(d, a) == d.row[a].state = "live"

Offered(d, a) == Alive(d, a) /\ d.row[a].open

\* _collections_of_product.
CollectionsOf(d, p) == {c \in Collections : <<p, c>> \in d.members}

\* _collection_member_d_tags.
MembersOf(d, c) == {p \in Products : <<p, c>> \in d.members /\ Offered(d, p)}

\* _product_shipping_refs, and the options of a collection.
ShipsOf(d, a) == {x \in Collections \cup Options : <<a, x>> \in d.ships}

\* Who names x in a table of shipping references.
ShippingBy(d, x) == {a \in Listings : <<a, x>> \in d.ships}

\* A collection without a member on sale is not published.
Publishes(d, a) == Offered(d, a) /\ (a \in Collections => MembersOf(d, a) # {})

\* render_intent: what the listing would say now.
Rendering(d, a) ==
  [said |-> "listing",
   members |-> IF a \in Collections THEN MembersOf(d, a)
               ELSE {c \in CollectionsOf(d, a) : Alive(d, c)},
   ships |-> {x \in ShipsOf(d, a) : Alive(d, x)}]

-----------------------------------------------------------------------------
\* Writing them

\* What to say of a listing, under which revision, after which others.  A
\* tombstone waits for what is said anew of the survivors.
Put(d, a, rev) ==
  [agg |-> a, kind |-> "put", rev |-> rev, needs |-> CollectionsOf(d, a) \cup ShipsOf(d, a)]

Del(d, a, survivors) ==
  [agg |-> a, kind |-> "del", rev |-> d.row[a].rev, needs |-> survivors]

\* enqueue_intent for each of them, none of which waits for another.
EnqueueAll(q, said) ==
  LET s == [i \in DOMAIN q |->
              IF \E t \in said : t.agg = q[i].agg /\ q[i].rev < t.rev /\ q[i].state \in LiveStates
              THEN [q[i] EXCEPT !.state = "superseded"] ELSE q[i]]
      new == {t \in said : ~ Covered(s, t.agg, t.kind, t.rev)}
  IN s \o SetToSeq({Intent(t.agg, t.kind, t.rev, UNION {NewestLive(s, n) : n \in t.needs}) : t \in new})

Say(d, said) == [d EXCEPT !.outbox = EnqueueAll(@, said)]

Publishing(d, listings) == {a \in listings : Publishes(d, a)}

\* _enqueue_product, _enqueue_collection, _enqueue_shipping.
Announce(d, a, rev) == Say(d, {Put(d, b, rev) : b \in Publishing(d, {a})})

Withdraw(d, a, survivors) == Say(d, {Del(d, a, survivors)})

Counted(d, listings) ==
  [d EXCEPT !.row = [a \in Listings |->
     IF a \in listings THEN [d.row[a] EXCEPT !.rev = d.row[a].rev + 1] ELSE d.row[a]]]

\* The revisions are counted up and the listings said anew.
Republish(d, listings) ==
  LET e == Counted(d, listings) IN
    Say(e, {Put(e, a, e.row[a].rev) : a \in Publishing(e, listings)})

\* A collection that has lost its last member is withdrawn instead.
Refresh(d, collections) ==
  LET e == Counted(d, collections) IN
    Say(e, {IF Publishes(e, c) THEN Put(e, c, e.row[c].rev) ELSE Del(e, c, {}) :
              c \in collections})

\* The rows that refer to a are gone.
Unlinked(d, a) ==
  [d EXCEPT !.members = {m \in @ : a \notin {m[1], m[2]}},
            !.ships = {s \in @ : a \notin {s[1], s[2]}}]

Deleted(d, a) == [Counted(Unlinked(d, a), {a}) EXCEPT !.row[a].state = "deleted"]

\* Mutant: membership in a deleted collection is let through.
Resolves_Any(refs) == TRUE

\* Collections of a membership and options of a collection must exist; what a
\* product names as its shipping is not looked at.
Resolves(refs) == \A x \in refs : Alive(db, x)

\* _replace_product_details, for the keys that the request has.
Detailed(d, p, content) ==
  [d EXCEPT
     !.members = IF content.members = Keep THEN @
                 ELSE {m \in @ : m[1] # p} \cup ({p} \X content.members),
     !.ships = IF content.ships = Keep THEN @
               ELSE {s \in @ : s[1] # p} \cup ({p} \X content.ships)]

\* What it refuses: a draft in a collection, or a collection that is not there; as
\* shipping it takes any row there ever was.
Acceptable(open, content) ==
  /\ content.members # Keep =>
       (open \/ content.members = {}) /\ Resolves(content.members)
  /\ content.ships # Keep => \A x \in content.ships : db.row[x].state # "none"

Begin == changes < MaxChanges /\ changes' = changes + 1

\* A transaction with these tables commits.
Commit(d) ==
  /\ db' = d
  /\ named' = [x \in Listings |->
       IF Alive(db, x) /\ ~ Alive(d, x)
       THEN {a \in Publishing(d, Listings) : x \in CollectionsOf(db, a) \cup MembersOf(db, a) \cup ShipsOf(db, a)}
       ELSE named[x]]
  /\ UNCHANGED relay

\* A request that reads what it needs in its transaction.
Atomically(d) == Begin /\ Commit(d) /\ UNCHANGED <<edit, astray>>

-----------------------------------------------------------------------------
\* Requests

\* The owner's row is read and found not deleted; the transaction is later.
Read(e, a) ==
  /\ edit[e] = NoEdit
  /\ Begin
  /\ Alive(db, a)
  /\ edit' = [edit EXCEPT ![e] = [listing |-> a, seen |-> db.row[a].rev]]
  /\ UNCHANGED <<db, relay, astray, named>>

Answer(e) ==
  /\ edit' = [edit EXCEPT ![e] = NoEdit]
  /\ UNCHANGED changes

\* A 4xx answer.
Refuse(e) ==
  /\ edit[e] # NoEdit
  /\ Answer(e)
  /\ UNCHANGED <<db, relay, astray, named>>

Inserted(a, open) ==
  [db EXCEPT !.row[a] = [state |-> "live", rev |-> 0, open |-> open]]

\* create_product.
CreateProduct(p, open, content) ==
  LET d == Detailed(Inserted(p, open), p, content) IN
    /\ db.row[p].state = "none"
    /\ Acceptable(open, content)
    /\ Atomically(Announce(Republish(d, CollectionsOf(d, p)), p, 0))

\* Mutant: the collections of the product are not said anew.
PatchedProduct_Alone(p, seen, open, content) ==
  LET d == Detailed([Counted(db, {p}) EXCEPT !.row[p].open = open], p, content) IN
    Announce(d, p, seen + 1)

\* patch_product: the row, whatever has become of it, then the collections it is
\* in now, then itself, numbered from the reading.
PatchedProduct(p, seen, open, content) ==
  LET d == Detailed([Counted(db, {p}) EXCEPT !.row[p].open = open], p, content) IN
    Announce(Republish(d, CollectionsOf(d, p)), p, seen + 1)

\* These listings are left behind, those numbered from an outdated reading.
Failing(left, outdated) ==
  astray' = [left |-> astray.left \cup left, outdated |-> astray.outdated \cup outdated]

\* The reading is outdated.
Stale(e) == IF edit[e].seen = db.row[edit[e].listing].rev THEN {} ELSE {edit[e].listing}

\* Left behind: the collections the product was taken out of, and when it is made
\* a draft, itself and what it leaves empty.
LeftBehind(p, d) ==
  (CollectionsOf(db, p) \ CollectionsOf(d, p)) \cup
  {a \in {p} \cup CollectionsOf(d, p) : Publishes(db, a) /\ ~ Publishes(d, a)}

PatchProduct(e, open, content) ==
  LET p == edit[e].listing
      d == PatchedProduct(p, edit[e].seen, open, content)
  IN
    /\ p \in Products
    /\ Acceptable(open, content)
    /\ Commit(d)
    /\ Failing(LeftBehind(p, d), Stale(e))
    /\ Answer(e)

\* _delete_product_locked.
ProductDeleted(d, p) ==
  LET e == Deleted(d, p)
      f == Refresh(e, CollectionsOf(d, p))
  IN IF Alive(d, p) THEN Withdraw(f, p, Publishing(f, CollectionsOf(d, p))) ELSE d

DeleteProduct(e) ==
  LET p == edit[e].listing IN
    /\ p \in Products
    /\ Commit(ProductDeleted(db, p))
    /\ Answer(e)
    /\ UNCHANGED astray

\* bulk_products locks its rows.
Lockable(ps) == ps # {} /\ \A p \in ps : Alive(db, p)

\* In the order of the request.
AllDeleted(d, ids) ==
  LET after[n \in 0..Len(ids)] ==
        IF n = 0 THEN d ELSE ProductDeleted(after[n - 1], ids[n])
  IN after[Len(ids)]

BulkDelete(ids) ==
  /\ Lockable(Range(ids))
  /\ Atomically(AllDeleted(db, ids))

\* The other actions: d has the changed rows, cs the collections they are or were
\* in.  A product made a draft is withdrawn if it was ever announced.
WasPut(d, p) == \E i \in DOMAIN d.outbox : d.outbox[i].agg = p /\ d.outbox[i].kind = "put"

Bulk(d, ps, cs) ==
  LET live == {c \in cs : Alive(d, c)}
      e == Refresh(Counted(d, ps), live)
      out == {p \in ps : db.row[p].open /\ ~ e.row[p].open /\ WasPut(e, p)}
  IN Say(e, {Del(e, p, Publishing(e, live)) : p \in out}
            \cup {Put(e, p, e.row[p].rev) : p \in Publishing(e, ps)})

CollectionsOfAll(ps) == UNION {CollectionsOf(db, p) : p \in ps}

\* Prices and visibility.
BulkTouch(ps) ==
  /\ Lockable(ps)
  /\ Atomically(Bulk(db, ps, CollectionsOfAll(ps)))

BulkDraft(ps) ==
  LET d == [db EXCEPT !.row = [a \in Listings |->
                        IF a \in ps THEN [@[a] EXCEPT !.open = FALSE] ELSE @[a]],
                      !.members = {m \in @ : m[1] \notin ps}]
  IN
    /\ Lockable(ps)
    /\ Atomically(Bulk(d, ps, CollectionsOfAll(ps)))

BulkPublish(ps) ==
  LET d == [db EXCEPT !.row = [a \in Listings |->
                        IF a \in ps THEN [@[a] EXCEPT !.open = TRUE] ELSE @[a]]]
  IN
    /\ Lockable(ps)
    /\ Atomically(Bulk(d, ps, CollectionsOfAll(ps)))

Touched(ps, c) == CollectionsOfAll(ps) \cup {c}

BulkMove(ps, c) ==
  LET d == [db EXCEPT !.members = {m \in @ : m[1] \notin ps} \cup (ps \X {c})] IN
    /\ Lockable(ps) /\ \A p \in ps : Offered(db, p)
    /\ Resolves({c})
    /\ Atomically(Bulk(d, ps, Touched(ps, c)))

\* create_collection: nothing to say before it has a member.
CreateCollection(c, options) ==
  /\ db.row[c].state = "none"
  /\ Resolves(options)
  /\ Atomically([Inserted(c, TRUE) EXCEPT !.ships = @ \cup ({c} \X options)])

\* The revision that patch_collection and patch_shipping write is the reading's
\* plus one.
Renumbered(d, e) == [d EXCEPT !.row[edit[e].listing].rev = edit[e].seen + 1]

PatchCollection(e, content) ==
  LET c == edit[e].listing
      d == Detailed(Renumbered(db, e), c, content)
  IN
    /\ c \in Collections
    /\ content.members = Keep /\ (content.ships # Keep =>
         content.ships \subseteq Options /\ Resolves(content.ships))
    /\ Commit(Announce(d, c, edit[e].seen + 1))
    /\ Failing({}, Stale(e))
    /\ Answer(e)

\* _delete_collection_locked: refused as long as it is referred to, unless the
\* references are to be stripped.
DeleteCollection(e, strip) ==
  LET c == edit[e].listing
      referring == {p \in Products : <<p, c>> \in db.members} \cup ShippingBy(db, c)
      survivors == {p \in referring : Alive(db, p)}
      d == Republish(Deleted(db, c), survivors)
  IN
    /\ c \in Collections
    /\ strip \/ referring = {}
    /\ Commit(IF Alive(db, c) THEN Withdraw(d, c, Publishing(d, survivors)) ELSE db)
    /\ Answer(e)
    /\ UNCHANGED astray

CreateShipping(o, active) ==
  /\ db.row[o].state = "none"
  /\ Atomically(Announce(Inserted(o, active), o, 0))

\* patch_shipping: the option, then the collections that offer it, then the
\* products.
PatchShipping(e, active) ==
  LET o == edit[e].listing
      d == Announce([Renumbered(db, e) EXCEPT !.row[o].open = active], o, edit[e].seen + 1)
      f == Republish(d, ShippingBy(db, o) \cap Collections)
  IN
    /\ o \in Options
    /\ Commit(Republish(f, ShippingBy(db, o) \cap Products))
    /\ Failing(IF active THEN {} ELSE {o}, Stale(e))
    /\ Answer(e)

\* Mutant: the tombstone waits for nobody.
ShippingDeleted_AtOnce(o) ==
  LET products == {p \in ShippingBy(db, o) \cap Products : Alive(db, p)}
      d == Republish(Deleted(db, o), products)
  IN Withdraw(Republish(d, ShippingBy(db, o) \cap Collections), o, {})

\* The survivors of a deleted option are its products and its collections; the
\* option is not looked at again.
ShippingDeleted(o) ==
  LET products == {p \in ShippingBy(db, o) \cap Products : Alive(db, p)}
      collections == ShippingBy(db, o) \cap Collections
      d == Republish(Republish(Deleted(db, o), products), collections)
  IN Withdraw(d, o, Publishing(d, products \cup collections))

DeleteShipping(e, strip) ==
  LET o == edit[e].listing IN
    /\ o \in Options
    /\ strip \/ ShippingBy(db, o) = {}
    /\ Commit(ShippingDeleted(o))
    /\ Answer(e)
    /\ Failing({}, IF Alive(db, o) THEN {} ELSE {o})

\* publish of services/merchant.py says everything again, under the revision it
\* has and in no order; the tombstone of a draft gives way to it.
PublishAll ==
  LET again == {a \in Listings : Alive(db, a)}
      d == Say(db, {[agg |-> a, kind |-> "put", rev |-> db.row[a].rev, needs |-> {}] :
                      a \in again})
  IN
    /\ Begin /\ Commit(d)
    /\ Failing({a \in again : ~ Publishes(db, a)
                  /\ \E i \in DOMAIN db.outbox :
                       db.outbox[i].agg = a /\ d.outbox[i] # db.outbox[i]}, {})
    /\ UNCHANGED edit

-----------------------------------------------------------------------------
\* The publisher, as far as listings can tell

Waiting(i) == db.outbox[i].state = "pending"

Free(i) == \A n \in db.outbox[i].deps : db.outbox[n].state = "published"

Newer(i) ==
  \E j \in DOMAIN db.outbox :
    /\ db.outbox[j].agg = db.outbox[i].agg /\ db.outbox[j].kind = db.outbox[i].kind
    /\ db.outbox[j].rev > db.outbox[i].rev /\ Waiting(j)

Settle(i, state) == db' = [db EXCEPT !.outbox[i].state = state]

\* A newer intent, or nothing to say.
GiveWay(i) ==
  /\ Waiting(i) /\ Free(i)
  /\ Newer(i) \/ (db.outbox[i].kind = "put" /\ ~ Publishes(db, db.outbox[i].agg))
  /\ Settle(i, "superseded")
  /\ UNCHANGED <<edit, relay, astray, named, changes>>

Publish(i) ==
  LET a == db.outbox[i].agg IN
    /\ Waiting(i) /\ Free(i) /\ ~ Newer(i)
    /\ db.outbox[i].kind = "put" => Publishes(db, a)
    /\ Settle(i, "published")
    /\ relay' = [relay EXCEPT ![a] =
         IF db.outbox[i].kind = "put" THEN Rendering(db, a) ELSE Gone]
    /\ UNCHANGED <<edit, astray, named, changes>>

-----------------------------------------------------------------------------

Init ==
  LET first == {OnSale[n] : n \in DOMAIN OnSale} IN
  /\ db = [row |-> [a \in Listings |->
                      [state |-> IF a \in first THEN "live" ELSE "none", rev |-> 0,
                       open |-> a \in first]],
           members |-> SaleMembers,
           ships |-> SaleShips,
           outbox |-> [n \in DOMAIN OnSale |->
                         [Intent(OnSale[n], "put", 0, {}) EXCEPT !.state = "published"]]]
  /\ edit = [e \in Editors |-> NoEdit]
  /\ relay = [a \in Listings |-> IF a \in first THEN Rendering(db, a) ELSE Unknown]
  /\ astray = [left |-> {}, outdated |-> {}]
  /\ named = [a \in Listings |-> {}]
  /\ changes = 0

Next ==
  \/ \E e \in Editors :
       \/ \E a \in Listings : Read(e, a)
       \/ \E open \in BOOLEAN, content \in Contents : PatchProduct(e, open, content)
       \/ \E content \in Contents : PatchCollection(e, content)
       \/ \E active \in BOOLEAN : PatchShipping(e, active)
       \/ DeleteProduct(e)
       \/ \E strip \in BOOLEAN : DeleteCollection(e, strip) \/ DeleteShipping(e, strip)
       \/ Refuse(e)
  \/ \E p \in Products, open \in BOOLEAN, content \in Contents :
       CreateProduct(p, open, content)
  \/ \E c \in Collections, options \in SUBSET Options : CreateCollection(c, options)
  \/ \E o \in Options, active \in BOOLEAN : CreateShipping(o, active)
  \/ \E ps \in SUBSET Products :
       \/ \E ids \in SetToSeqs(ps) : BulkDelete(ids)
       \/ BulkTouch(ps) \/ BulkDraft(ps) \/ BulkPublish(ps)
       \/ \E c \in Collections : BulkMove(ps, c)
  \/ PublishAll
  \/ \E i \in DOMAIN db.outbox : GiveWay(i) \/ Publish(i)

Spec == Init /\ [][Next]_vars

-----------------------------------------------------------------------------
\* Properties

IntentRow ==
  [agg : Listings, kind : {"put", "del"}, rev : Nat,
   state : {"pending", "published", "superseded"}, attempts : {0}, token : {0},
   deps : SUBSET Nat, accepted : {{}}, stamp : {0}, error : {"none"}]

Tables ==
  [row : [Listings -> [state : {"none", "live", "deleted"}, rev : Nat, open : BOOLEAN]],
   members : SUBSET (Products \X Collections),
   ships : SUBSET (Listings \X (Collections \cup Options)),
   outbox : Seq(IntentRow)]

TypeOK ==
  /\ db \in Tables
  /\ edit \in [Editors -> [listing : Listings \cup {NoListing}, seen : Nat]]
  /\ relay \in [Listings -> [said : {"nothing", "listing", "gone"},
                            members : SUBSET Listings, ships : SUBSET Listings]]
  /\ astray \in [left : SUBSET Listings, outdated : SUBSET Listings]
  /\ named \in [Listings -> SUBSET Listings]
  /\ changes \in 0..MaxChanges

\* Nothing about a is waiting.
Settled(a) == \A i \in DOMAIN db.outbox : db.outbox[i].agg = a => ~ Waiting(i)

\* Once the intents of a listing have all ended, relays show what it refers to
\* now, or its tombstone if it was shown and is not any more: every change of a
\* row that a listing names says that listing anew.  Set apart are listings a
\* request has left behind (a patch that takes a product out of a collection or
\* makes it a draft, an option that is switched off, a stale revision, a tombstone
\* that publish puts out of force).
SettledIsShown ==
  \A a \in Listings \ (astray.left \cup astray.outdated) : Settled(a) =>
    IF Publishes(db, a) THEN relay[a] = Rendering(db, a)
    ELSE relay[a].said # "listing"

Tombstones(x) == {i \in DOMAIN db.outbox : db.outbox[i].agg = x /\ db.outbox[i].kind = "del"}

\* The last tombstone of x is published.
Withdrawn(x) ==
  \E i \in Tombstones(x) :
    db.outbox[i].state = "published" /\ \A j \in Tombstones(x) : j <= i

\* No buyer is sent to x by a listing that was on sale when x was deleted.
NamedNoMore(x) == \A a \in named[x] : x \notin relay[a].members \cup relay[a].ships

\* The tombstone of a deleted listing comes after what is said anew of those that
\* named it, also when another change comes between (_delete_product_locked,
\* _delete_collection_locked, delete_shipping).  Set apart are listings numbered
\* from an outdated reading, or deleted again from one.
SurvivorsFirst ==
  \A x \in Listings \ astray.outdated :
    db.row[x].state = "deleted" /\ Withdrawn(x) => NamedNoMore(x)

\* What the comment on ordered republication in catalog.py says without exception:
\* the tombstone waits for every survivor.
TombstonesLast ==
  \A x \in Listings : db.row[x].state = "deleted" /\ Withdrawn(x) => NamedNoMore(x)

\* What catalog.py says of changes without those exceptions: every publishable one
\* enqueues an intent.
EveryChangeIsShown ==
  \A a \in Listings : Settled(a) =>
    IF Publishes(db, a) THEN relay[a] = Rendering(db, a)
    ELSE relay[a].said # "listing"

\* The reference tables name no deleted collection as a home and no deleted
\* option of a collection, however readings and deletions interleave.
ReferencesResolve ==
  /\ \A m \in db.members : Alive(db, m[2])
  /\ \A s \in db.ships : s[1] \in Collections => Alive(db, s[2])

=============================================================================
