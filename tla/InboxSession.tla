----------------------------- MODULE InboxSession -----------------------------
(***************************************************************************)
(* How the buyers' gift wraps get from the relays to inbox_events (the     *)
(* session half of services/inbox.py and services/transport.py): one       *)
(* session per process, merchant and inbox relay while the inbox is        *)
(* active, opened with a since that overlaps the last completed session,   *)
(* fed by the relay with what it has stored and what comes in, until the   *)
(* end of the stored events moves the relay's cursor.  What was admitted   *)
(* goes on in Inbox; who may have an inbox is Activation's.                *)
(*                                                                         *)
(* A wrap's created_at lies up to Back before the moment a relay takes it. *)
(***************************************************************************)
EXTENDS Activation

CONSTANTS
  Listeners,   \* processes, each with its own client
  Events,      \* gift wraps for the merchant
  Back,        \* how far created_at is shifted into the past
  Overlap,     \* RESYNC_OVERLAP_S
  Backtrack,   \* FIRST_SESSION_BACKTRACK_S
  MaxTime      \* bound of the model

\* No event is older than the first session on its relay asks for: what came in
\* longer before it than the backtrack is never asked for.
ASSUME SessionAssumption ==
  /\ Back \in Nat /\ Overlap \in Nat /\ Backtrack \in Nat /\ MaxTime \in Nat \ {0}
  /\ Back <= Overlap /\ Backtrack >= MaxTime + Back

VARIABLES
  clock,     \* seconds; the first is 1
  stored,    \* on each relay: when an event came in (0: not yet), its created_at
  cursor,    \* relay_cursors: last_completed_session_start, 0 if there is none
  session,   \* InboxRuntime of each process, per relay
  targets,   \* the relays relay_manager keeps connected
  admitted,  \* inbox_events
  lost       \* history: events the handler took and did not admit

sessionVars == <<clock, stored, cursor, session, targets, admitted, lost>>
vars == <<adminVars, sessionVars>>

NotStored == [at |-> 0, made |-> 0]

\* step: "none"; "opening", in _sessions; "asked", the REQ is on the wire;
\* "open", in _by_sub; "deaf", in _sessions, but nothing comes of it any more.
\* stock: stored events the relay has yet to send before it says EOSE.
NoSession ==
  [step |-> "none", start |-> 0, since |-> 0, stock |-> {}, fresh |-> {},
   eose |-> FALSE, again |-> FALSE]

Pairs == Listeners \X Relays

\* reconcile wants a session of the merchant on r.
Desired(r) == merchant.inbox = "active" /\ r \in InboxRelays

Listens(p, r) == session[p, r].step \in {"asked", "open"}

-----------------------------------------------------------------------------
\* The relay

\* What a REQ with this since is answered with.
Stock(r, since) == {e \in Events : stored[r][e].at > 0 /\ stored[r][e].made >= since}

\* The relay takes e in and passes it on to the subscriptions it matches.
Store(r, e, made) ==
  /\ stored[r][e] = NotStored
  /\ made \in (clock - Back)..clock
  /\ stored' = [stored EXCEPT ![r][e] = [at |-> clock, made |-> made]]
  /\ session' = [x \in Pairs |->
       IF x[2] = r /\ Listens(x[1], r) /\ session[x].since <= made
       THEN [session[x] EXCEPT !.fresh = @ \cup {e}] ELSE session[x]]
  /\ UNCHANGED <<adminVars, clock, cursor, targets, admitted, lost>>

Tick ==
  /\ clock < MaxTime
  /\ clock' = clock + 1
  /\ UNCHANGED <<adminVars, stored, cursor, session, targets, admitted, lost>>

-----------------------------------------------------------------------------
\* Sessions

\* Mutant: a session goes on where the last one began.
Since_NoOverlap(r) == IF cursor[r] > 0 THEN cursor[r] ELSE clock - Backtrack

\* _cursor_since.
Since(r) == IF cursor[r] > 0 THEN cursor[r] - Overlap ELSE clock - Backtrack

\* reconcile opens what is missing: the session is registered first...
Open(p, r) ==
  /\ Desired(r) /\ session[p, r].step = "none"
  /\ session' = [session EXCEPT ![<<p, r>>] =
       [NoSession EXCEPT !.step = "opening", !.start = clock, !.since = Since(r)]]
  /\ UNCHANGED <<adminVars, clock, stored, cursor, targets, admitted, lost>>

\* ...then connected; an exception leaves it registered...
OpenFails(p, r) ==
  /\ session[p, r].step = "opening"
  /\ session' = [session EXCEPT ![<<p, r>>].step = "deaf"]
  /\ UNCHANGED <<adminVars, clock, stored, cursor, targets, admitted, lost>>

\* The REQ reaches the relay, which starts with its stock.
Asked(p, r) ==
  [session[p, r] EXCEPT !.stock = Stock(r, session[p, r].since), !.fresh = {}, !.eose = TRUE]

Ask(p, r) ==
  /\ session[p, r].step = "opening"
  /\ session' = [session EXCEPT ![<<p, r>>] = [Asked(p, r) EXCEPT !.step = "asked"]]
  /\ UNCHANGED <<adminVars, clock, stored, cursor, targets, admitted, lost>>

\* ...and only when subscribe_to has returned does the handler know the id.
Register(p, r) ==
  /\ session[p, r].step = "asked"
  /\ session' = [session EXCEPT ![<<p, r>>].step = "open"]
  /\ UNCHANGED <<adminVars, clock, stored, cursor, targets, admitted, lost>>

\* An AUTH answer on a connection that survived: the REQ once more, with the
\* same since, under an id to be registered.
Resubscribe(p, r) ==
  /\ session[p, r].step = "open" /\ ~ session[p, r].again
  /\ session' = [session EXCEPT ![<<p, r>>] = [Asked(p, r) EXCEPT !.step = "asked", !.again = TRUE]]
  /\ UNCHANGED <<adminVars, clock, stored, cursor, targets, admitted, lost>>

\* The connection breaks and the client repeats its REQ.
Reconnect(p, r) ==
  /\ session[p, r].step = "open"
  /\ session' = [session EXCEPT ![<<p, r>>] = Asked(p, r)]
  /\ UNCHANGED <<adminVars, clock, stored, cursor, targets, admitted, lost>>

\* on_event: an id that is not known is ignored; admit_event may refuse the
\* event for its rate, or fail, and the handler goes on.
HandleEvent(p, r, e) ==
  /\ Listens(p, r) /\ e \in session[p, r].stock \cup session[p, r].fresh
  /\ session' = [session EXCEPT ![<<p, r>>].stock = @ \ {e}, ![<<p, r>>].fresh = @ \ {e}]
  /\ \/ session[p, r].step = "open" /\ admitted' = admitted \cup {e} /\ UNCHANGED lost
     \/ lost' = lost \cup {e} /\ UNCHANGED admitted
  /\ UNCHANGED <<adminVars, clock, stored, cursor, targets>>

\* Mutant: the cursor is set to the end of the session's stock.
HandleEose_Now(p, r) ==
  /\ Listens(p, r) /\ session[p, r].stock = {} /\ session[p, r].eose
  /\ session' = [session EXCEPT ![<<p, r>>].eose = FALSE]
  /\ cursor' = IF session[p, r].step = "open" THEN [cursor EXCEPT ![r] = clock] ELSE cursor
  /\ UNCHANGED <<adminVars, clock, stored, targets, admitted, lost>>

\* The stock has been sent: eose_and_advance_cursor, from whatever value.
HandleEose(p, r) ==
  /\ Listens(p, r) /\ session[p, r].stock = {} /\ session[p, r].eose
  /\ session' = [session EXCEPT ![<<p, r>>].eose = FALSE]
  /\ cursor' = IF session[p, r].step = "open"
               THEN [cursor EXCEPT ![r] = session[p, r].start] ELSE cursor
  /\ UNCHANGED <<adminVars, clock, stored, targets, admitted, lost>>

\* Mutant: the session of a closed subscription is not forgotten.
Closed_Kept(p, r) ==
  /\ session[p, r].step = "open"
  /\ session' = [session EXCEPT
       ![<<p, r>>].stock = {}, ![<<p, r>>].fresh = {}, ![<<p, r>>].eose = FALSE]
  /\ UNCHANGED <<adminVars, clock, stored, cursor, targets, admitted, lost>>

\* The relay has CLOSED the subscription.
Closed(p, r) ==
  /\ session[p, r].step = "open"
  /\ session' = [session EXCEPT ![<<p, r>>] = NoSession]
  /\ UNCHANGED <<adminVars, clock, stored, cursor, targets, admitted, lost>>

\* Has it done so before the id was known, nobody is told.
ClosedUnheard(p, r) ==
  /\ session[p, r].step = "asked"
  /\ session' = [session EXCEPT ![<<p, r>>] = [NoSession EXCEPT !.step = "deaf"]]
  /\ UNCHANGED <<adminVars, clock, stored, cursor, targets, admitted, lost>>

\* reconcile closes what is not wanted any more.
Close(p, r) ==
  /\ session[p, r].step \in {"open", "deaf"} /\ ~ Desired(r)
  /\ session' = [session EXCEPT ![<<p, r>>] = NoSession]
  /\ UNCHANGED <<adminVars, clock, stored, cursor, targets, admitted, lost>>

\* sync_relays of relay_manager removes relays that have ceased to be public;
\* an inbox session on the same connection stays registered.
SyncRelays(p) ==
  /\ targets[p] # PublicRelays
  /\ targets' = [targets EXCEPT ![p] = PublicRelays]
  /\ session' = [x \in Pairs |->
       IF x[1] = p /\ x[2] \in targets[p] \ PublicRelays /\ Listens(p, x[2])
       THEN [NoSession EXCEPT !.step = "deaf"] ELSE session[x]]
  /\ UNCHANGED <<adminVars, clock, stored, cursor, admitted, lost>>

\* The process dies and starts afresh.
Die(p) ==
  /\ session' = [x \in Pairs |-> IF x[1] = p THEN NoSession ELSE session[x]]
  /\ targets' = [targets EXCEPT ![p] = {}]
  /\ UNCHANGED <<adminVars, clock, stored, cursor, admitted, lost>>

Init ==
  /\ AdminInit
  /\ clock = 1
  /\ stored = [r \in Relays |-> [e \in Events |-> NotStored]]
  /\ cursor = [r \in Relays |-> 0]
  /\ session = [x \in Pairs |-> NoSession]
  /\ targets = [p \in Listeners |-> {}]
  /\ admitted = {}
  /\ lost = {}

SessionNext ==
  \/ \E r \in Relays, e \in Events, made \in (1 - Back)..MaxTime : Store(r, e, made)
  \/ Tick
  \/ \E p \in Listeners, r \in Relays :
       \/ Open(p, r) \/ OpenFails(p, r) \/ Ask(p, r) \/ Register(p, r)
       \/ Resubscribe(p, r) \/ Reconnect(p, r) \/ Closed(p, r) \/ ClosedUnheard(p, r)
       \/ Close(p, r) \/ HandleEose(p, r) \/ \E e \in Events : HandleEvent(p, r, e)
  \/ \E p \in Listeners : SyncRelays(p) \/ Die(p)

Next == (AdminNext /\ UNCHANGED sessionVars) \/ SessionNext

Spec == Init /\ [][Next]_vars

\* inbox_listener's loop survives exceptions; the relay goes on sending, also
\* when the connection breaks again and again.
FairSpec ==
  /\ Spec
  /\ \A p \in Listeners, r \in Relays :
       /\ SF_vars(Open(p, r)) /\ SF_vars(Close(p, r))
       /\ SF_vars(Ask(p, r)) /\ SF_vars(Register(p, r))
       /\ \A e \in Events : SF_vars(session[p, r].step = "open" /\ HandleEvent(p, r, e))

-----------------------------------------------------------------------------
\* Properties

\* The variables have their types.
TypeOK ==
  /\ AdminTypeOK
  /\ clock \in 1..MaxTime
  /\ stored \in [Relays -> [Events -> [at : 0..MaxTime, made : (0 - Back)..MaxTime]]]
  /\ cursor \in [Relays -> 0..MaxTime]
  /\ session \in [Pairs ->
       [step : {"none", "opening", "asked", "open", "deaf"}, start : 0..MaxTime,
        since : (0 - Backtrack - Overlap)..MaxTime, stock : SUBSET Events,
        fresh : SUBSET Events, eose : BOOLEAN, again : BOOLEAN]]
  /\ targets \in [Listeners -> SUBSET Relays]
  /\ admitted \subseteq Events /\ lost \subseteq Events

\* The cursor leaves nothing behind: what a relay had before the committed start
\* of a session was admitted, or the handler had it in hands and did not admit it
\* (RESYNC_OVERLAP_S, eose_and_advance_cursor).  So the next session's since
\* skips nothing else, whichever process's session commits last.
CursorCoversStored ==
  \A r \in Relays, e \in Events :
    0 < stored[r][e].at /\ stored[r][e].at < cursor[r] => e \in admitted \cup lost

\* What the module's description says: every delivered event is durably admitted
\* before the cursor is committed.
NothingIsLost ==
  \A r \in Relays, e \in Events :
    0 < stored[r][e].at /\ stored[r][e].at < cursor[r] => e \in admitted

\* An event on a relay of an inbox that stays active is taken in by a process, in
\* whatever order connections break and subscriptions are closed, unless a session
\* of that relay has gone deaf.
EventArrives ==
  \A r \in Relays, e \in Events :
    (stored[r][e].at > 0 /\ Desired(r))
      ~> \/ e \in admitted \cup lost \/ ~ Desired(r)
         \/ \E p \in Listeners : session[p, r].step = "deaf"

\* What the comment in reconcile says of a session that failed to open: the next
\* tick retries.
FailedOpenIsRetried ==
  \A p \in Listeners, r \in Relays :
    session[p, r].step = "deaf" ~> session[p, r].step # "deaf" \/ ~ Desired(r)

=============================================================================
