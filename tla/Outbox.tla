------------------------------- MODULE Outbox -------------------------------
(***************************************************************************)
(* The transactional outbox of services/outbox.py: intents enqueued with   *)
(* the change they announce, superseded by newer ones, ordered by          *)
(* dependency edges, claimed under a lease and a fencing token, rendered   *)
(* from current state, signed, sent to relays and settled on the relays'   *)
(* answers.  The changes are those of services/catalog.py on products and  *)
(* the collections that list them, the merchant's profile, and order       *)
(* messages, which go out as a recipient and a sender copy.                *)
(*                                                                         *)
(* A copy goes to the relays of its class that have not accepted it, those *)
(* routed to at the moment, and needs one that does.  A public relay keeps *)
(* the event with the newest created_at of an address.  A worker's claim,  *)
(* its two publication transactions and the send between them are separate *)
(* steps.                                                                  *)
(***************************************************************************)
EXTENDS Intents

CONSTANTS
  Products, Collections, Profiles, Messages,  \* aggregates
  Home,         \* Home[p]: the collection that lists product p
  Editors,      \* requests that change a listing
  NoListing,    \* what an idle editor works on
  Announced,    \* the listings published before the start, in that order
  Workers,      \* publisher passes
  Relays,       \* one for each copy it may be asked to take: the evidence is
  CopyOf,       \* kept by url and delivery_copy
  MaxAttempts,  \* OUTBOX_MAX_ATTEMPTS
  MaxIntents, MaxToken  \* bounds of the model: rows, and claims of a row

Listings == Products \cup Collections
Aggregates == Listings \cup Profiles \cup Messages

ASSUME OutboxAssumption ==
  /\ Home \in [Products -> Collections]
  /\ Products \cap Collections = {} /\ Listings \cap (Profiles \cup Messages) = {}
  /\ NoListing \notin Listings
  /\ Announced \in Seq(Listings)
  /\ \A m, n \in DOMAIN Announced : Announced[m] = Announced[n] => m = n
  /\ DOMAIN Announced # {} => \E r \in Relays : CopyOf[r] = "public"
  /\ CopyOf \in [Relays -> {"public", "recipient", "sender"}]
  /\ MaxAttempts \in Nat \ {0} /\ MaxIntents \in Nat /\ MaxToken \in Nat

VARIABLES
  content,   \* each aggregate: its revision column, the version of what it
             \* says, and whether there is something to show
  edit,      \* what each editor has read and not written yet
  outbox,    \* outbox_events, in order of creation
  astray,    \* history: what has come between a listing and its intents
  wire,      \* events handed to the transport
  received,  \* those a relay has taken in
  work       \* the publication each worker is in

vars == <<content, edit, outbox, astray, wire, received, work>>

States == LiveStates \cup {"published", "superseded", "failed"}

NoEdit == [listing |-> NoListing, seen |-> 0]
NoWork == [step |-> "idle", id |-> 0, token |-> 0]

Ids == DOMAIN outbox

Live(i) == outbox[i].state \in LiveStates

-----------------------------------------------------------------------------
\* The changes that are announced (services/catalog.py, merchant.py,
\* order_messages.py)

Members(c) == {p \in Products : Home[p] = c /\ content[p].shown}

\* The collection is republished, and bound, before the product that names it;
\* one that has lost its last member is not published.
Relist(q, c, members) ==
  IF members = {} THEN q ELSE Enqueue(q, c, "put", content[c].rev + 1, {})

\* A row that has changed: its revision and what it says.
Changed(row, rev, shown) == [rev |-> rev, ver |-> row.ver + 1, shown |-> shown]

\* patch_product, add_product_image and patch_collection read the row before
\* their transaction...
ReadListing(e, a) ==
  /\ edit[e] = NoEdit
  /\ edit' = [edit EXCEPT ![e] = [listing |-> a, seen |-> content[a].rev]]
  /\ UNCHANGED <<content, outbox, astray, wire, received, work>>

\* ...and number the intent from that reading.
Stale(e) == IF edit[e].seen = content[edit[e].listing].rev THEN {} ELSE {"stale"}

\* The collection follows; a patch that makes the product a draft enqueues
\* nothing for the product itself.
PatchProduct(e, show) ==
  LET p == edit[e].listing
      c == Home[p]
      members == IF show THEN Members(c) \cup {p} ELSE Members(c) \ {p}
      listed == Relist(outbox, c, members)
  IN
  /\ edit[e].listing \in Products
  /\ show \/ content[p].shown
  /\ outbox' = IF show THEN Enqueue(listed, p, "put", edit[e].seen + 1, {c}) ELSE listed
  /\ Len(outbox') <= MaxIntents
  /\ content' = [content EXCEPT
       ![p] = Changed(@, @.rev + 1, show),
       ![c] = Changed(@, @.rev + 1, members # {})]
  /\ astray' = [astray EXCEPT ![p] = @ \cup (IF show THEN Stale(e) ELSE {"drafted"}),
                              ![c] = @ \cup (IF members = {} THEN {"drafted"} ELSE {})]
  /\ edit' = [edit EXCEPT ![e] = NoEdit]
  /\ UNCHANGED <<wire, received, work>>

AddImage(e) ==
  LET p == edit[e].listing IN
  /\ p \in Products
  /\ content[p].shown
  /\ outbox' = Enqueue(outbox, p, "put", edit[e].seen + 1, {Home[p]})
  /\ Len(outbox') <= MaxIntents
  /\ content' = [content EXCEPT ![p] = Changed(@, @.rev + 1, TRUE)]
  /\ astray' = [astray EXCEPT ![p] = @ \cup Stale(e)]
  /\ edit' = [edit EXCEPT ![e] = NoEdit]
  /\ UNCHANGED <<wire, received, work>>

\* patch_collection writes the revision it computed, not a counted-up one; an
\* empty collection gets no intent.
PatchCollection(e) ==
  LET c == edit[e].listing IN
  /\ c \in Collections
  /\ Members(c) # {}
  /\ outbox' = Enqueue(outbox, c, "put", edit[e].seen + 1, {})
  /\ Len(outbox') <= MaxIntents
  /\ content' = [content EXCEPT ![c] = Changed(@, edit[e].seen + 1, TRUE)]
  /\ astray' = [astray EXCEPT ![c] = @ \cup Stale(e)]
  /\ edit' = [edit EXCEPT ![e] = NoEdit]
  /\ UNCHANGED <<wire, received, work>>

\* delete_product and the bulk draft, which lock the row: a tombstone that waits
\* for the surviving collection; an emptied collection gets a tombstone too.
WithdrawProduct(p) ==
  LET c == Home[p]
      members == Members(c) \ {p}
      listed == IF members = {} THEN Enqueue(outbox, c, "del", content[c].rev + 1, {})
                ELSE Relist(outbox, c, members)
  IN
  /\ content[p].shown
  /\ outbox' = Enqueue(listed, p, "del", content[p].rev + 1,
                       IF members = {} THEN {} ELSE {c})
  /\ Len(outbox') <= MaxIntents
  /\ content' = [content EXCEPT
       ![p] = Changed(@, @.rev + 1, FALSE),
       ![c] = Changed(@, @.rev + 1, members # {})]
  /\ UNCHANGED <<edit, astray, wire, received, work>>

\* release_reservations, the settlement and the exception accept: the revision
\* is counted up and read in one transaction (enqueue_stock_projection).
MoveStock(p) ==
  /\ content[p].shown
  /\ outbox' = Enqueue(outbox, p, "put", content[p].rev + 1, {Home[p]})
  /\ Len(outbox') <= MaxIntents
  /\ content' = [content EXCEPT ![p] = Changed(@, @.rev + 1, TRUE)]
  /\ UNCHANGED <<edit, astray, wire, received, work>>

\* update_merchant and import_nsec: the profile's intents have revision 0.
EditProfile(a) ==
  /\ outbox' = Enqueue(outbox, a, "put", 0, {})
  /\ Len(outbox') <= MaxIntents
  /\ content[a].ver < MaxIntents
  /\ content' = [content EXCEPT ![a].ver = @ + 1]
  /\ UNCHANGED <<edit, astray, wire, received, work>>

\* enqueue_order_msg: one intent per message, immune to supersession.
SendMessage(a) ==
  /\ ~ content[a].shown
  /\ outbox' = Enqueue(outbox, a, "msg", 0, {})
  /\ Len(outbox') <= MaxIntents
  /\ content' = [content EXCEPT ![a].shown = TRUE]
  /\ UNCHANGED <<edit, astray, wire, received, work>>

-----------------------------------------------------------------------------
\* The publisher

Copies(i) == IF outbox[i].kind = "msg" THEN {"recipient", "sender"} ELSE {"public"}

CopiesOf(relays) == {CopyOf[r] : r \in relays}

\* Mutant: every relay gets its copy again.
Missing_All(i) == {r \in Relays : CopyOf[r] \in Copies(i)}

\* The relays of a copy without accepted evidence.
Missing(i) == {r \in Relays : CopyOf[r] \in Copies(i)} \ outbox[i].accepted

\* claim_batch, one row at a time.
Claim(w, i) ==
  /\ work[w] = NoWork
  /\ outbox[i].state \in {"pending", "partially_published"}
  /\ outbox[i].attempts < MaxAttempts
  /\ outbox[i].token < MaxToken
  /\ outbox' = [outbox EXCEPT ![i].state = "claimed", ![i].token = @ + 1]
  /\ work' = [work EXCEPT ![w] = [step |-> "claimed", id |-> i, token |-> outbox[i].token + 1]]
  /\ UNCHANGED <<content, edit, astray, wire, received>>

\* Mutant: the claim is taken for granted.
Mine_Unfenced(w) == outbox[work[w].id].state # "superseded"

\* The guard of _publication_transaction and of _cas_state.  A worker whose
\* lease has run out stops there: to the row that is the same as Crash.
Mine(w) ==
  outbox[work[w].id].state = "claimed" /\ outbox[work[w].id].token = work[w].token

\* Mutant: no dependency is looked at.
DepsPublished_Always(i) == TRUE

DepsPublished(i) == \A d \in outbox[i].deps : outbox[d].state = "published"

NewerLive(i) ==
  \E j \in Ids : /\ outbox[j].agg = outbox[i].agg /\ outbox[j].kind = outbox[i].kind
                 /\ outbox[j].rev > outbox[i].rev /\ Live(j)

\* render_intent builds from current state; nothing is left to say about a
\* listing that is not shown.  A tombstone is built from its address alone.
Renders(i) ==
  \/ outbox[i].kind # "put"
  \/ content[outbox[i].agg].shown

\* One _cas_state: the row moves, an attempt is counted, the worker is free.
SettleWith(w, state, error) ==
  /\ LET i == work[w].id IN
       outbox' = [outbox EXCEPT ![i].state = state, ![i].attempts = @ + 1, ![i].error = error]
  /\ work' = [work EXCEPT ![w] = NoWork]
  /\ UNCHANGED <<content, edit, astray, wire, received>>

Settle(w, state) == SettleWith(w, state, "none")

\* The first publication transaction of w's claim is to run, and finds it live.
Preparing(w) == work[w].step = "claimed" /\ Mine(w)

Block(w) ==
  /\ Preparing(w)
  /\ ~ DepsPublished(work[w].id)
  /\ Settle(w, "pending")

\* A newer intent, or nothing to render.
Overtake(w) ==
  /\ Preparing(w)
  /\ DepsPublished(work[w].id)
  /\ NewerLive(work[w].id) \/ ~ Renders(work[w].id)
  /\ Settle(w, "superseded")

Sendable(w) ==
  /\ Preparing(w)
  /\ DepsPublished(work[w].id)
  /\ ~ NewerLive(work[w].id)
  /\ Renders(work[w].id)

Exhausted(i) == outbox[i].attempts + 1 >= MaxAttempts

\* Mutant: one accepted copy is enough.
Outcome_AnyCopy(i, accepted) ==
  IF accepted # {} THEN "published"
  ELSE IF Exhausted(i) THEN "failed" ELSE "pending"

Outcome(i, accepted) ==
  IF Copies(i) \subseteq CopiesOf(accepted) THEN "published"
  ELSE IF Exhausted(i) THEN "failed"
  ELSE IF accepted # {} THEN "partially_published" ELSE "pending"

\* No relay to send to is configured or routed: the evidence decides alone.
NoTargets(w) ==
  LET i == work[w].id IN
  /\ Sendable(w)
  /\ outbox[i].kind = "msg" => "recipient" \in CopiesOf(outbox[i].accepted)
  /\ Settle(w, Outcome(i, outbox[i].accepted))

\* The buyer has no inbox relay: wait for one, or give up 48 hours after the
\* message was written.
NoRoute(w) ==
  /\ Sendable(w)
  /\ outbox[work[w].id].kind = "msg"
  /\ "recipient" \notin CopiesOf(outbox[work[w].id].accepted)
  /\ \/ SettleWith(w, "pending", "no_inbox_relays")
     \/ SettleWith(w, "failed", "no_inbox_relays")

StampsOf(a) == {outbox[j].stamp : j \in {k \in Ids : outbox[k].agg = a}}

\* Mutant: every event is signed with the time of day.
NextStamp_Clock(a) == 1

\* created_at = max(now, latest + 1) over everything signed for the address;
\* the merchant's row lock makes that a sequence.
NextStamp(a) == 1 + CHOOSE s \in StampsOf(a) : \A t \in StampsOf(a) : t <= s

Event(w, relay, stamp) ==
  LET row == outbox[work[w].id] IN
    [id |-> work[w].id, token |-> work[w].token, relay |-> relay, agg |-> row.agg,
     kind |-> row.kind, ver |-> content[row.agg].ver, stamp |-> stamp]

\* The end of the first transaction and the call of the transport: the relays of
\* the moment that miss their copy are the targets.  Without an accepted
\* recipient copy a message waits for a route to the buyer (NoRoute).
Send(w, targets) ==
  LET i == work[w].id
      stamp == IF outbox[i].kind = "msg" THEN 0 ELSE NextStamp(outbox[i].agg) IN
  /\ Sendable(w)
  /\ targets # {} /\ targets \subseteq Missing(i)
  /\ outbox[i].kind = "msg" => "recipient" \in CopiesOf(targets \cup outbox[i].accepted)
  /\ outbox' = [outbox EXCEPT ![i].stamp = stamp]
  /\ wire' = wire \cup {Event(w, relay, stamp) : relay \in targets}
  /\ work' = [work EXCEPT ![w].step = "sent"]
  /\ UNCHANGED <<content, edit, astray, received>>

\* A relay takes an event in, now or long after the send has timed out, unless
\* it already has a newer one for the address; a tie may go either way.
Deliver(event) ==
  /\ event \in wire \ received
  /\ CopyOf[event.relay] = "public" =>
       \A x \in received :
         x.agg = event.agg /\ x.relay = event.relay => x.stamp <= event.stamp
  /\ received' = received \cup {event}
  /\ UNCHANGED <<content, edit, outbox, astray, wire, work>>

\* The relays that have taken in w's send: any of them may have answered OK.
Answerable(w) ==
  {event.relay : event \in {x \in received : x.id = work[w].id /\ x.token = work[w].token}}

\* relay_publications after the answers to w's send.
Evidence(w, oks) == outbox[work[w].id].accepted \cup oks

\* The second transaction: evidence and outcome commit together.
Finish(w, oks) ==
  LET i == work[w].id
      accepted == Evidence(w, oks) IN
  /\ work[w].step = "sent" /\ Mine(w)
  /\ oks \subseteq Answerable(w)
  /\ outbox' = [outbox EXCEPT
       ![i].accepted = accepted, ![i].state = Outcome(i, accepted),
       ![i].attempts = @ + 1, ![i].error = "none"]
  /\ work' = [work EXCEPT ![w] = NoWork]
  /\ UNCHANGED <<content, edit, astray, wire, received>>

\* The row was superseded or taken over.
LoseClaim(w) ==
  /\ work[w] # NoWork
  /\ ~ Mine(w)
  /\ work' = [work EXCEPT ![w] = NoWork]
  /\ UNCHANGED <<content, edit, outbox, astray, wire, received>>

\* An exception: worker_tick requeues the row.
Fault(w) ==
  /\ work[w] # NoWork
  /\ Mine(w)
  /\ Settle(w, "pending")

Crash(w) ==
  /\ work[w] # NoWork
  /\ work' = [work EXCEPT ![w] = NoWork]
  /\ UNCHANGED <<content, edit, outbox, astray, wire, received>>

\* CLAIM_LEASE_S pass without an outcome; recover_stale_claims lets the durable
\* evidence decide the state.
Recover(i) ==
  /\ outbox[i].state = "claimed"
  /\ outbox[i].token < MaxToken
  /\ outbox' = [outbox EXCEPT
       ![i].state = IF outbox[i].accepted = {} THEN "pending" ELSE "partially_published",
       ![i].token = @ + 1]
  /\ UNCHANGED <<content, edit, astray, wire, received, work>>

\* refresh_stale_peer_relays, every quarter of an hour: a message that found no
\* route at its last attempt is given up 48 hours after it was written, without
\* a claim.
SweepNoRoute(i) ==
  /\ outbox[i].kind = "msg"
  /\ outbox[i].state \in {"pending", "partially_published"}
  /\ outbox[i].error = "no_inbox_relays"
  /\ outbox' = [outbox EXCEPT ![i].state = "failed"]
  /\ UNCHANGED <<content, edit, astray, wire, received, work>>

\* Mutant: whatever is not in flight is requeued.
Retry_AnyState(i) ==
  /\ outbox[i].state \notin {"pending", "claimed"}
  /\ outbox' = [outbox EXCEPT ![i].state = "pending", ![i].attempts = 0,
                              ![i].error = "none"]
  /\ astray' = IF outbox[i].state = "failed"
               THEN [astray EXCEPT ![outbox[i].agg] = @ \cup {"retried"}] ELSE astray
  /\ UNCHANGED <<content, edit, wire, received, work>>

\* retry_intent: the merchant requeues from the order page.
Retry(i) ==
  /\ outbox[i].state \in {"failed", "partially_published"}
  /\ outbox' = [outbox EXCEPT ![i].state = "pending", ![i].attempts = 0,
                              ![i].error = "none"]
  /\ astray' = IF outbox[i].state = "failed"
               THEN [astray EXCEPT ![outbox[i].agg] = @ \cup {"retried"}] ELSE astray
  /\ UNCHANGED <<content, edit, wire, received, work>>

PublicRelays == {r \in Relays : CopyOf[r] = "public"}

\* The row and the events of the nth listing announced before the start.
Announcement(n) ==
  LET a == Announced[n] IN
    [agg |-> a, kind |-> "put", rev |-> 1, state |-> "published", attempts |-> 1,
     token |-> 1, accepted |-> PublicRelays, stamp |-> 1, error |-> "none",
     deps |-> {m \in 1..n : a \in Products /\ Announced[m] = Home[a]}]

AnnouncedEvent(n, relay) ==
  [id |-> n, token |-> 1, relay |-> relay, agg |-> Announced[n], kind |-> "put",
   ver |-> 1, stamp |-> 1]

Init ==
  LET first == DOMAIN Announced
      rev(a) == IF \E n \in first : Announced[n] = a THEN 1 ELSE 0
  IN
  /\ content = [a \in Aggregates |->
       [rev |-> rev(a), ver |-> rev(a), shown |-> rev(a) = 1 \/ a \in Profiles]]
  /\ edit = [e \in Editors |-> NoEdit]
  /\ outbox = [n \in first |-> Announcement(n)]
  /\ astray = [a \in Aggregates |-> {}]
  /\ wire = {AnnouncedEvent(n, relay) : n \in first, relay \in PublicRelays}
  /\ received = wire
  /\ work = [w \in Workers |-> NoWork]

Next ==
  \/ \E e \in Editors :
       \/ \E a \in Listings : ReadListing(e, a)
       \/ \E show \in BOOLEAN : PatchProduct(e, show)
       \/ AddImage(e) \/ PatchCollection(e)
  \/ \E p \in Products : WithdrawProduct(p) \/ MoveStock(p)
  \/ \E a \in Profiles : EditProfile(a)
  \/ \E a \in Messages : SendMessage(a)
  \/ \E w \in Workers, i \in Ids : Claim(w, i)
  \/ \E w \in Workers :
       \/ Block(w) \/ Overtake(w) \/ NoTargets(w) \/ NoRoute(w)
       \/ \E targets \in SUBSET Relays : Send(w, targets)
       \/ \E oks \in SUBSET Answerable(w) : Finish(w, oks)
       \/ LoseClaim(w) \/ Fault(w) \/ Crash(w)
  \/ \E event \in wire : Deliver(event)
  \/ \E i \in Ids : Recover(i) \/ SweepNoRoute(i) \/ Retry(i)

Spec == Init /\ [][Next]_vars

-----------------------------------------------------------------------------
\* Properties

Row ==
  [agg : Aggregates, kind : {"put", "del", "msg"}, rev : Nat, state : States,
   attempts : 0..MaxAttempts, token : Nat, deps : SUBSET Nat,
   accepted : SUBSET Relays, stamp : Nat,
   error : {"none", "no_inbox_relays"}]

\* The variables have their types; a row never counts past OUTBOX_MAX_ATTEMPTS.
TypeOK ==
  /\ content \in [Aggregates -> [rev : Nat, ver : Nat, shown : BOOLEAN]]
  /\ edit \in [Editors -> [listing : Listings \cup {NoListing}, seen : Nat]]
  /\ outbox \in Seq(Row)
  /\ astray \in [Aggregates -> SUBSET {"stale", "drafted", "retried"}]
  /\ received \subseteq wire
  /\ work \in [Workers -> [step : {"idle", "claimed", "sent"}, id : Nat, token : Nat]]

\* What buyers find of a listing or a profile: of all that the relays have taken
\* in, the events with the newest created_at.
Newest(a) ==
  {x \in received : x.agg = a /\ \A y \in received : y.agg = a => y.stamp <= x.stamp}

\* Nothing about a is waiting, in flight or given up.
Settled(a) ==
  /\ \E i \in Ids : outbox[i].agg = a
  /\ \A i \in Ids : outbox[i].agg = a => outbox[i].state \in {"published", "superseded"}

Shows(a) ==
  \A x \in Newest(a) :
    IF content[a].shown THEN x.kind = "put" /\ x.ver = content[a].ver ELSE x.kind = "del"

\* Once a listing's intents have all ended, buyers see what it says now, or its
\* tombstone when it is withdrawn: whatever was superseded in flight, delivered
\* late or sent twice, no older content wins (enqueue_intent, publish_intent).
\* Three known ways around the revisions are set apart: an edit numbered from a
\* stale reading, a patch into a draft, and the retry of a failed intent.
SettledIsCurrent == \A a \in Listings : astray[a] = {} /\ Settled(a) => Shows(a)

\* What catalog.py and outbox.py say without those exceptions: every publishable
\* change counts the revision up, so no outdated content is left standing.
EditsAreShown == \A a \in Listings : astray[a] \subseteq {"stale"} /\ Settled(a) => Shows(a)

\* A published intent has reached a relay in each of its copies, across crashes,
\* takeovers and retries (publish_intent, _publish_order_msg).
PublishedIsDelivered ==
  \A i \in Ids : outbox[i].state = "published" =>
    \A copy \in Copies(i) : \E x \in received : x.id = i /\ CopyOf[x.relay] = copy

\* A product is announced only after the collection intents it was bound to
\* have been published (_deps_published).
DependenciesFirst ==
  \A x \in wire : \A d \in outbox[x.id].deps : outbox[d].state = "published"

\* A relay that has accepted its copy, to the knowledge of the row, never gets
\* it again, however often the intent is taken over, retried by hand or sent for
\* the sake of its other copy (_accepted_targets).  A relay of the same class
\* that has not answered does.
AcceptedIsNotResent ==
  [][\A x \in wire' \ wire : x.relay \notin outbox[x.id].accepted]_vars

\* A published or superseded intent is over: no late worker, sweep or retry
\* reopens it (_cas_state, recover_stale_claims, retry_intent).
EndedIsFinal ==
  [][\A i \in Ids : outbox[i].state \in {"published", "superseded"} =>
       outbox'[i].state = outbox[i].state]_vars

\* Two workers never send for the same intent under claims that are both good
\* (claim_batch, recover_stale_claims).
OneGoodClaim ==
  \A v, w \in Workers : work[v] # NoWork /\ work[w] # NoWork
    /\ Mine(v) /\ Mine(w) /\ work[v].id = work[w].id => v = w

\* What _publish_order_msg says of the whole class (outbox.py, "the accepted class
\* is never resent"): a copy that one relay has accepted goes out to none again.
AcceptedClassIsNotResent ==
  [][\A x \in wire' \ wire : CopyOf[x.relay] \notin CopiesOf(outbox[x.id].accepted)]_vars

\* What the specification says of the edges: an intent is never held back by a
\* superseded one, it is rebound to the replacement or rebuilt (publish_intent).
DependenciesRebind ==
  [][\A w \in Workers : Block(w) =>
       \A d \in outbox[work[w].id].deps : outbox[d].state # "superseded"]_vars

\* What the specification says of attempts: an intent that has used them up is
\* marked failed, so one that waits can still be claimed (_cas_state).
WaitingIsClaimable ==
  \A i \in Ids : outbox[i].state \in {"pending", "partially_published"} =>
    outbox[i].attempts < MaxAttempts

=============================================================================
