------------------------------ MODULE Activation ------------------------------
(***************************************************************************)
(* A merchant's life (services/merchant.py, services/storefront_mode.py)   *)
(* and what publications make of it (_maybe_activate_merchant and          *)
(* _maybe_update_inbox_state of services/outbox.py): the shop opens when a *)
(* profile is published, its Nostr inbox when the kind-10050 event is and  *)
(* closes when its tombstone is.  Each request of the admin reads the      *)
(* merchant's row first and writes in a later transaction.                 *)
(*                                                                         *)
(* Outbox has the publisher in full; here an intent is sent from current   *)
(* state and then settled, as far as the merchant's row can tell.          *)
(***************************************************************************)
EXTENDS Integers, Sequences, FiniteSets

CONSTANTS
  Admins,       \* requests of the merchant under way at a time
  NoRequest,    \* no request
  Operations,   \* what they may ask for
  Modes,        \* storefront modes they may ask for
  Relays,       \* relay urls
  Configs,      \* the relay sets they may save: a direction for each url
  Starters,     \* the starter sets of relays, for listings and for the inbox
  MaxIntents    \* bound of the model: intents per merchant

Directions == {"none", "public", "inbox", "both"}

ASSUME ActivationAssumption ==
  /\ Configs \subseteq [Relays -> Directions]
  /\ Starters \in [{"public", "inbox"} -> [Relays -> Directions]]
  /\ Modes \subseteq {"full", "showcase", "browse_only", "nostr_only"}
  /\ MaxIntents \in Nat

VARIABLES
  merchant,  \* its row: state, inbox_state, and the storefront mode
  relays,    \* relay_configs: the direction of each enabled relay
  intents,   \* outbox_events of merchant_profile and merchant, oldest first
  request,   \* what each request is about to write
  wish,      \* history: what enable_inbox or disable_inbox said last
  astray     \* history: what has come between that and the inbox

adminVars == <<merchant, relays, intents, request, wish, astray>>

\* Storefront modes in which orders come in by message only.
INBOX_GATED_MODES == {"showcase", "nostr_only"}

NoMerchant == [state |-> "none", inbox |-> "off", mode |-> "full"]

Serving(directions) == {r \in Relays : relays[r] \in directions}
InboxRelays == Serving({"inbox", "both"})
PublicRelays == Serving({"public", "both"})

\* ensure_default_relays, ensure_default_inbox_relays: only a merchant without
\* any relay gets some.
Seeded(direction) == IF Serving(Directions \ {"none"}) = {} THEN Starters[direction] ELSE relays

Live(i) == intents[i].state \in {"pending", "sent"}

InboxKinds == {"announce", "withdraw"}

-----------------------------------------------------------------------------
\* Intents

\* enqueue_intent: older live intents of the aggregate give way; a live one of
\* the same revision and kind stands for the new one.
Enqueue(aggregate, kind, rev) ==
  LET rest == [i \in DOMAIN intents |->
        IF intents[i].kind \in aggregate /\ intents[i].rev < rev /\ Live(i)
        THEN [intents[i] EXCEPT !.state = "superseded"] ELSE intents[i]]
  IN
    IF \E i \in DOMAIN intents : intents[i].kind = kind /\ intents[i].rev = rev /\ Live(i)
    THEN rest
    ELSE Append(rest, [kind |-> kind, rev |-> rev, state |-> "pending"])

\* The three profile events of publish stand as one, with revision 0.
EnqueueProfile == Enqueue({"profile"}, "profile", 0)

\* Mutant: every change of the inbox is the first one.
InboxRevision_Fixed == 1

\* _inbox_revision: one more than any the inbox has had.
InboxRevision ==
  1 + Cardinality({i \in DOMAIN intents : intents[i].kind \in InboxKinds})

-----------------------------------------------------------------------------
\* The admin's requests

\* What a request is refused for when the row it has read is looked at.
Permits(row, op) ==
  CASE op = "disable" -> row.inbox # "off"
    [] op \in INBOX_GATED_MODES -> row.inbox = "active"
    [] op \in Modes \ INBOX_GATED_MODES -> TRUE
    [] OTHER -> row.state # "deactivating"

\* get_merchant_row and the checks; the rest of the request is a later
\* transaction, or another 4xx answer.
Read(a, op) ==
  /\ request[a] = NoRequest
  /\ merchant.state # "none" /\ Permits(merchant, op)
  /\ request' = [request EXCEPT ![a] = op]
  /\ UNCHANGED <<merchant, relays, intents, wish, astray>>

Answer(a) == request' = [request EXCEPT ![a] = NoRequest]

Refuse(a) ==
  /\ request[a] # NoRequest
  /\ Answer(a)
  /\ UNCHANGED <<merchant, relays, intents, wish, astray>>

\* create_merchant: the row and its key.
CreateMerchant ==
  /\ merchant.state = "none"
  /\ merchant' = [merchant EXCEPT !.state = "draft"]
  /\ UNCHANGED <<relays, intents, request, wish, astray>>

\* patch_merchant without relays: the profile is published again.
EditProfile(a) ==
  /\ request[a] = "edit"
  /\ intents' = EnqueueProfile
  /\ Len(intents') <= MaxIntents
  /\ Answer(a)
  /\ UNCHANGED <<merchant, relays, wish, astray>>

\* import_nsec: so it is, under another key; the inbox is not announced again.
ImportKey(a) ==
  /\ request[a] = "import"
  /\ intents' = EnqueueProfile
  /\ Len(intents') <= MaxIntents
  /\ Answer(a)
  /\ UNCHANGED <<merchant, relays, wish, astray>>

\* _replace_relay_configs.
SaveRelays(a, config) ==
  /\ request[a] = "relays"
  /\ relays' = config
  /\ Answer(a)
  /\ UNCHANGED <<merchant, intents, wish, astray>>

\* publish, with the starter set of public relays.
Publish(a) ==
  /\ request[a] = "publish"
  /\ relays' = Seeded("public")
  /\ intents' = EnqueueProfile
  /\ Len(intents') <= MaxIntents
  /\ merchant' = [merchant EXCEPT !.state =
       IF @ = "draft" THEN "publication_pending" ELSE @]
  /\ Answer(a)
  /\ UNCHANGED <<wish, astray>>

\* begin_deactivation: no order was open when the request looked.  The
\* tombstones it enqueues for the listings carry no address and change no row
\* here; nothing moves the merchant on from "deactivating".
BeginDeactivation(a) ==
  /\ request[a] = "deactivate"
  /\ merchant' = [merchant EXCEPT !.state = "deactivating"]
  /\ Answer(a)
  /\ UNCHANGED <<relays, intents, wish, astray>>

\* enable_inbox, with the starter set of inbox relays; some relay must be one.
EnableInbox(a) ==
  /\ request[a] = "enable"
  /\ relays' = Seeded("inbox")
  /\ \E r \in Relays : relays'[r] \in {"inbox", "both"}
  /\ merchant' = [merchant EXCEPT !.inbox = "pending"]
  /\ intents' = Enqueue(InboxKinds, "announce", InboxRevision)
  /\ Len(intents') <= MaxIntents
  /\ wish' = "on"
  /\ Answer(a)
  /\ UNCHANGED astray

\* disable_inbox; nothing to do for an inbox that was off.
DisableInbox(a) ==
  /\ request[a] = "disable"
  /\ merchant' = [merchant EXCEPT !.inbox = "deactivating"]
  /\ intents' = Enqueue(InboxKinds, "withdraw", InboxRevision)
  /\ Len(intents') <= MaxIntents
  /\ wish' = "off"
  /\ Answer(a)
  /\ UNCHANGED <<relays, astray>>

\* set_mode, confirmed: the gate was passed by the row the route has read.
SetMode(a, mode) ==
  /\ request[a] = mode
  /\ merchant' = [merchant EXCEPT !.mode = mode]
  /\ Answer(a)
  /\ UNCHANGED <<relays, intents, wish, astray>>

-----------------------------------------------------------------------------
\* Publications

\* A 10050 event needs an inbox relay to name; a newer live one of its kind
\* takes its place.
Renders(i) ==
  /\ intents[i].kind = "announce" => InboxRelays # {}
  /\ ~ \E j \in DOMAIN intents :
         intents[j].kind = intents[i].kind /\ intents[j].rev > intents[i].rev /\ Live(j)

\* publish_targets: the inbox is announced on its own relays too.
Targets(i) == IF intents[i].kind = "profile" THEN PublicRelays ELSE PublicRelays \cup InboxRelays

Send(i) ==
  /\ intents[i].state = "pending" /\ Renders(i)
  /\ Targets(i) # {}
  /\ intents' = [intents EXCEPT ![i].state = "sent"]
  /\ UNCHANGED <<merchant, relays, request, wish, astray>>

\* Nothing to say: the merchant's row is not told.
Drop(i) ==
  /\ intents[i].state = "pending" /\ ~ Renders(i)
  /\ intents' = [intents EXCEPT ![i].state = "superseded"]
  /\ astray' = IF intents[i].kind = "announce" THEN astray \cup {"unrendered"} ELSE astray
  /\ UNCHANGED <<merchant, relays, request, wish>>

\* Mutant: a failed tombstone leaves the inbox as it is.
InboxAfter_Silent(kind, outcome) ==
  CASE kind = "announce" /\ outcome = "published" -> "active"
    [] kind = "announce" /\ outcome = "failed" -> "error"
    [] kind = "withdraw" /\ outcome = "published" -> "off"
    [] OTHER -> merchant.inbox

\* _maybe_update_inbox_state, whatever the inbox has become.
InboxAfter(kind, outcome) ==
  CASE kind = "announce" /\ outcome = "published" -> "active"
    [] kind = "withdraw" /\ outcome = "published" -> "off"
    [] kind \in InboxKinds /\ outcome = "failed" -> "error"
    [] OTHER -> merchant.inbox

\* _maybe_activate_merchant.
StateAfter(kind, outcome) ==
  IF kind = "profile" /\ outcome = "published" /\ merchant.state = "publication_pending"
  THEN "active" ELSE merchant.state

\* The relays' answers, or what stands for them when nothing could be sent.
Settle(i, outcome) ==
  /\ IF outcome = "published" THEN intents[i].state = "sent" ELSE Live(i)
  /\ intents' = [intents EXCEPT ![i].state = outcome]
  /\ merchant' = [merchant EXCEPT !.inbox = InboxAfter(intents[i].kind, outcome),
                                  !.state = StateAfter(intents[i].kind, outcome)]
  /\ UNCHANGED <<relays, request, wish, astray>>

\* retry_intent.
Retry(i) ==
  /\ intents[i].state = "failed"
  /\ intents' = [intents EXCEPT ![i].state = "pending"]
  /\ astray' = IF intents[i].kind \in InboxKinds THEN astray \cup {"retried"} ELSE astray
  /\ UNCHANGED <<merchant, relays, request, wish>>

AdminInit ==
  /\ merchant = NoMerchant
  /\ relays = [r \in Relays |-> "none"]
  /\ intents = <<>>
  /\ request = [a \in Admins |-> NoRequest]
  /\ wish = "off"
  /\ astray = {}

AdminNext ==
  \/ CreateMerchant
  \/ \E a \in Admins :
       \/ \E op \in Operations \cup Modes : Read(a, op)
       \/ Refuse(a) \/ EditProfile(a) \/ ImportKey(a) \/ Publish(a) \/ BeginDeactivation(a)
       \/ EnableInbox(a) \/ DisableInbox(a)
       \/ \E config \in Configs : SaveRelays(a, config)
       \/ \E mode \in Modes : SetMode(a, mode)
  \/ \E i \in DOMAIN intents :
       \/ Send(i) \/ Drop(i) \/ Retry(i)
       \/ \E outcome \in {"published", "failed", "pending"} : Settle(i, outcome)

AdminSpec == AdminInit /\ [][AdminNext]_adminVars

-----------------------------------------------------------------------------
\* Properties

\* The variables have their types.
AdminTypeOK ==
  /\ merchant \in
       [state : {"none", "draft", "publication_pending", "active", "deactivating"},
        inbox : {"off", "pending", "active", "error", "deactivating"},
        mode : {"full", "showcase", "browse_only", "nostr_only"}]
  /\ relays \in [Relays -> Directions]
  /\ intents \in Seq([kind : InboxKinds \cup {"profile"}, rev : Nat,
                      state : {"pending", "sent", "published", "superseded", "failed"}])
  /\ request \in [Admins -> Operations \cup Modes \cup {NoRequest}]
  /\ wish \in {"on", "off"}
  /\ astray \subseteq {"retried", "unrendered"}

\* Once nothing of the inbox is left to publish, it is as the merchant has asked
\* last or shows an error: no publication that was under way when the wish
\* changed settles the row for the old one, and no failed tombstone leaves the
\* inbox looking healthy (_inbox_revision, _maybe_update_inbox_state).  Two ways
\* around it are set apart: the retry of a failed intent, and a 10050 event that
\* has no relay left to name.
LastWishWins ==
  (astray = {} /\ \A i \in DOMAIN intents : Live(i) => intents[i].kind \notin InboxKinds)
    => merchant.inbox \in (IF wish = "on" THEN {"active", "error"} ELSE {"off", "error"})

\* What set_mode promises: a shop without a web checkout has its inbox.
ModeNeedsInbox == merchant.mode \in INBOX_GATED_MODES => merchant.inbox = "active"

=============================================================================
