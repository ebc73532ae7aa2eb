---------------------------- MODULE SessionProofs ----------------------------
(***************************************************************************)
(* Theorems of Activation and InboxSession, for any relays, processes and  *)
(* events: the inbox settles as the merchant has asked last, and the       *)
(* cursor of a relay leaves nothing behind.                                *)
(***************************************************************************)
EXTENDS InboxSession, FiniteSetTheorems, TLAPS

-----------------------------------------------------------------------------
\* Sessions and cursors: the invariant

Moments == 0..MaxTime

SessionType ==
  [step : {"none", "opening", "asked", "open", "deaf"}, start : Moments,
   since : (0 - Backtrack - Overlap)..MaxTime, stock : SUBSET Events,
   fresh : SUBSET Events, eose : BOOLEAN, again : BOOLEAN]

\* What the types of the sessions come to, as far as the cursor is concerned.
SessionTypes ==
  /\ clock \in 1..MaxTime
  /\ stored \in [Relays -> [Events -> [at : Moments, made : (0 - Back)..MaxTime]]]
  /\ cursor \in [Relays -> Moments]
  /\ session \in [Pairs -> SessionType]
  /\ targets \in [Listeners -> SUBSET Relays]
  /\ admitted \subseteq Events /\ lost \subseteq Events

\* No event came in later than now, none says it was made more than Back before.
StoredInTime ==
  \A r \in Relays, e \in Events :
    /\ stored[r][e].at <= clock
    /\ stored[r][e].at > 0 => stored[r][e].made >= stored[r][e].at - Back

UnderWay == {"opening", "asked", "open"}

\* Cursors and sessions start in the past.
StartedBefore ==
  /\ \A r \in Relays : cursor[r] <= clock
  /\ \A x \in Pairs : session[x].step \in UnderWay => session[x].start <= clock

Handled == admitted \cup lost

\* What r had before a moment and nobody has handled.
Waiting(r, e, moment) ==
  0 < stored[r][e].at /\ stored[r][e].at < moment /\ e \notin Handled

\* A session under way asks for all that waited when it began: its since lies far
\* enough before the cursor that it has read.
AsksFarEnough ==
  \A x \in Pairs : session[x].step \in UnderWay =>
    \A e \in Events : Waiting(x[2], e, session[x].start) =>
      stored[x[2]][e].made >= session[x].since

\* Until it has seen the end of the stored events, what waited is in its stock.
StockComplete ==
  \A x \in Pairs : session[x].step \in {"asked", "open"} /\ session[x].eose =>
    \A e \in Events : Waiting(x[2], e, session[x].start) => e \in session[x].stock

NothingWaits == \A r \in Relays, e \in Events : ~ Waiting(r, e, cursor[r])

CursorInv ==
  /\ SessionTypes
  /\ StoredInTime
  /\ StartedBefore
  /\ AsksFarEnough
  /\ StockComplete
  /\ NothingWaits

\* Every process starts without a session, every relay without an event.
LEMMA CursorInit == Init => CursorInv
<1> SUFFICES ASSUME Init PROVE CursorInv
  OBVIOUS
<1>1. SessionTypes
  <2>1. NoSession \in SessionType
    BY SessionAssumption DEF NoSession, SessionType, Moments
  <2>2. NotStored \in [at : Moments, made : (0 - Back)..MaxTime]
    BY SessionAssumption DEF NotStored, Moments
  <2> QED BY <2>1, <2>2, SessionAssumption DEF Init, SessionTypes, Moments
<1>2. StoredInTime /\ NothingWaits
  BY SessionAssumption DEF Init, StoredInTime, NothingWaits, Waiting, NotStored
<1>3. StartedBefore /\ AsksFarEnough /\ StockComplete
  BY DEF Init, StartedBefore, AsksFarEnough, StockComplete, NoSession, UnderWay
<1> QED BY <1>1, <1>2, <1>3 DEF CursorInv

-----------------------------------------------------------------------------
\* Sessions and cursors: the steps

\* A session that is over, goes on, or is answered with its stock once more.
Kept(x) ==
  \/ session'[x].step \in {"none", "deaf"}
  \/ /\ session[x].step \in UnderWay
     /\ session'[x].start = session[x].start /\ session'[x].since = session[x].since
     /\ session'[x].step \in {"asked", "open"} /\ session'[x].eose =>
          \/ /\ session[x].step \in {"asked", "open"} /\ session[x].eose
             /\ session[x].stock \subseteq session'[x].stock \cup Handled'
          \/ Stock(x[2], session[x].since) \subseteq session'[x].stock

\* While time, relays and cursors stand still, steps of that kind keep the
\* invariant.
LEMMA KeptKeeps ==
  ASSUME CursorInv, SessionTypes', UNCHANGED <<clock, stored, cursor>>,
         admitted \subseteq admitted', lost \subseteq lost',
         \A x \in Pairs : Kept(x) \/ session'[x] = session[x]
  PROVE  CursorInv'
<1> USE DEF CursorInv
<1>1. \A r, e, m : Waiting(r, e, m)' => Waiting(r, e, m)
  BY DEF Waiting, Handled
<1>2. StoredInTime' /\ NothingWaits'
  <2>1. StoredInTime'
    BY DEF StoredInTime
  <2>2. \A r \in Relays, e \in Events : ~ Waiting(r, e, cursor[r])'
    BY <1>1 DEF NothingWaits, Waiting
  <2> QED BY <2>1, <2>2 DEF NothingWaits
<1>3. ASSUME NEW x \in Pairs, NEW e \in Events,
             session'[x].step \in UnderWay,
             Waiting(x[2], e, session[x].start)'
      PROVE  /\ stored'[x[2]][e].made >= session'[x].since
             /\ session'[x].step \in {"asked", "open"} /\ session'[x].eose => e \in session'[x].stock
  <2>1. /\ session[x].step \in UnderWay
        /\ session'[x].start = session[x].start /\ session'[x].since = session[x].since
    BY <1>3 DEF Kept, UnderWay
  <2>2. Waiting(x[2], e, session[x].start) /\ e \notin Handled'
    BY <1>3, <2>1 DEF Waiting, Handled
  <2>3. stored[x[2]][e].made >= session[x].since
    BY <2>1, <2>2 DEF AsksFarEnough
  <2>4. ASSUME session'[x].step \in {"asked", "open"}, session'[x].eose
        PROVE  e \in session'[x].stock
    <3>1. session[x].step \in {"asked", "open"} /\ session[x].eose => e \in session[x].stock
      BY <2>2 DEF StockComplete
    <3>2. e \in Stock(x[2], session[x].since)
      BY <2>2, <2>3 DEF Stock, Waiting
    <3> QED BY <1>3, <2>2, <2>4, <3>1, <3>2 DEF Kept, UnderWay
  <2> QED BY <2>1, <2>3, <2>4
<1>4. AsksFarEnough' /\ StockComplete'
  BY <1>3 DEF AsksFarEnough, StockComplete, UnderWay
<1>5. StartedBefore'
  BY DEF StartedBefore, Kept, UnderWay
<1> QED BY <1>2, <1>4, <1>5

\* Sessions of one pair, changed in place.
LEMMA OneSession ==
  ASSUME SessionTypes, NEW x \in Pairs, NEW s \in SessionType,
         session' = [session EXCEPT ![x] = s]
  PROVE  /\ session' \in [Pairs -> SessionType]
         /\ session'[x] = s
         /\ \A y \in Pairs \ {x} : session'[y] = session[y]
BY DEF SessionTypes

\* The types of what a session is set to.
LEMMA SessionValues ==
  ASSUME SessionTypes, NEW x \in Pairs
  PROVE  /\ NoSession \in SessionType
         /\ [NoSession EXCEPT !.step = "deaf"] \in SessionType
         /\ session[x] \in SessionType
<1>1. NoSession \in SessionType
  BY SessionAssumption DEF NoSession, SessionType, Moments
<1>2. session[x] \in SessionType
  BY DEF SessionTypes
<1> QED BY <1>1, <1>2 DEF SessionType

\* The relay's stock is made of events.
LEMMA StockEvents == \A r, since : Stock(r, since) \subseteq Events
BY DEF Stock

\* A session that closes, fails or goes deaf keeps the invariant.
LEMMA EndKeeps ==
  ASSUME CursorInv, NEW p \in Listeners, NEW r \in Relays,
         OpenFails(p, r) \/ Closed(p, r) \/ ClosedUnheard(p, r) \/ Close(p, r)
  PROVE  CursorInv'
<1> DEFINE x == <<p, r>>
<1>1. x \in Pairs /\ SessionTypes
  BY DEF Pairs, CursorInv
<1>2. PICK s \in SessionType :
        s.step \in {"none", "deaf"} /\ session' = [session EXCEPT ![x] = s]
  <2>1. CASE OpenFails(p, r)
    <3>1. [session[x] EXCEPT !.step = "deaf"] \in SessionType
      BY <1>1, SessionValues DEF SessionType
    <3>2. [session[x] EXCEPT !.step = "deaf"].step = "deaf"
      BY <1>1, SessionValues DEF SessionType
    <3>3. session' = [session EXCEPT ![x] = [session[x] EXCEPT !.step = "deaf"]]
      BY <2>1, <1>1 DEF OpenFails, SessionTypes
    <3> QED BY <3>1, <3>2, <3>3
  <2>2. CASE Closed(p, r) \/ Close(p, r)
    BY <2>2, <1>1, SessionValues DEF Closed, Close, NoSession
  <2>3. CASE ClosedUnheard(p, r)
    BY <2>3, <1>1, SessionValues DEF ClosedUnheard, NoSession
  <2> QED BY <2>1, <2>2, <2>3
<1>3. UNCHANGED <<clock, stored, cursor, targets, admitted, lost>>
  BY DEF OpenFails, Closed, ClosedUnheard, Close
<1>4. SessionTypes' /\ \A y \in Pairs : Kept(y) \/ session'[y] = session[y]
  <2> HIDE DEF x
  <2>1. /\ session' \in [Pairs -> SessionType] /\ session'[x] = s
        /\ \A y \in Pairs \ {x} : session'[y] = session[y]
    BY <1>1, <1>2, OneSession
  <2> QED BY <1>1, <1>2, <1>3, <2>1 DEF SessionTypes, Kept
<1> QED BY <1>3, <1>4, KeptKeeps

\* So does one whose request reaches the relay, for the first time or again.
LEMMA AskKeeps ==
  ASSUME CursorInv, NEW p \in Listeners, NEW r \in Relays,
         Ask(p, r) \/ Register(p, r) \/ Resubscribe(p, r) \/ Reconnect(p, r)
  PROVE  CursorInv'
<1> DEFINE x == <<p, r>>
<1>1. x \in Pairs /\ x[2] = r /\ SessionTypes /\ session[x] \in SessionType
  BY SessionValues DEF Pairs, CursorInv
<1>2. PICK s \in SessionType :
        /\ session' = [session EXCEPT ![x] = s]
        /\ session[x].step \in UnderWay
        /\ s.start = session[x].start /\ s.since = session[x].since
        /\ \/ s.stock = Stock(r, session[x].since)
           \/ session[x].step = "asked" /\ s.stock = session[x].stock /\ s.eose = session[x].eose
  <2>1. /\ Asked(p, r) \in SessionType
        /\ Asked(p, r).start = session[x].start /\ Asked(p, r).since = session[x].since
        /\ Asked(p, r).stock = Stock(r, session[x].since)
    BY <1>1, StockEvents DEF Asked, SessionType
  <2>2. CASE Ask(p, r)
    <3> DEFINE s == [Asked(p, r) EXCEPT !.step = "asked"]
    <3>1. /\ s \in SessionType /\ s.start = session[x].start /\ s.since = session[x].since
          /\ s.stock = Stock(r, session[x].since)
      <4> HIDE DEF x
      <4> QED BY <2>1 DEF SessionType
    <3>2. session' = [session EXCEPT ![x] = s] /\ session[x].step \in UnderWay
      BY <2>2 DEF Ask, UnderWay
    <3> QED BY <3>1, <3>2
  <2>3. CASE Resubscribe(p, r)
    <3> DEFINE s == [Asked(p, r) EXCEPT !.step = "asked", !.again = TRUE]
    <3>1. /\ s \in SessionType /\ s.start = session[x].start /\ s.since = session[x].since
          /\ s.stock = Stock(r, session[x].since)
      <4> HIDE DEF x
      <4> QED BY <2>1 DEF SessionType
    <3>2. session' = [session EXCEPT ![x] = s] /\ session[x].step \in UnderWay
      BY <2>3 DEF Resubscribe, UnderWay
    <3> QED BY <3>1, <3>2
  <2>4. CASE Reconnect(p, r)
    BY <2>1, <2>4 DEF Reconnect, UnderWay
  <2>5. CASE Register(p, r)
    <3> DEFINE s == [session[x] EXCEPT !.step = "open"]
    <3>1. /\ s \in SessionType /\ s.start = session[x].start /\ s.since = session[x].since
          /\ s.stock = session[x].stock /\ s.eose = session[x].eose
      BY <1>1 DEF SessionType
    <3>2. session' = [session EXCEPT ![x] = s] /\ session[x].step = "asked"
      BY <2>5, <1>1 DEF Register, SessionTypes
    <3> QED BY <3>1, <3>2 DEF UnderWay
  <2> QED BY <2>2, <2>3, <2>4, <2>5
<1>3. UNCHANGED <<clock, stored, cursor, targets, admitted, lost>>
  BY DEF Ask, Register, Resubscribe, Reconnect
<1>4. SessionTypes' /\ \A y \in Pairs : Kept(y) \/ session'[y] = session[y]
  <2> HIDE DEF x
  <2>1. /\ session' \in [Pairs -> SessionType] /\ session'[x] = s
        /\ \A y \in Pairs \ {x} : session'[y] = session[y]
    BY <1>1, <1>2, OneSession
  <2>2. Kept(x)
    BY <1>1, <1>2, <2>1 DEF Kept, UnderWay
  <2> QED BY <1>1, <1>3, <2>1, <2>2 DEF SessionTypes
<1> QED BY <1>3, <1>4, KeptKeeps

\* Taking an event out of a session's stock admits it or loses it.
LEMMA HandleKeeps ==
  ASSUME CursorInv, NEW p \in Listeners, NEW r \in Relays, NEW e \in Events,
         HandleEvent(p, r, e)
  PROVE  CursorInv'
<1> DEFINE x == <<p, r>>
           s == [session[x] EXCEPT !.stock = @ \ {e}, !.fresh = @ \ {e}]
<1>1. x \in Pairs /\ SessionTypes /\ session[x] \in SessionType
  BY SessionValues DEF Pairs, CursorInv
<1>2. /\ s \in SessionType /\ s.start = session[x].start /\ s.since = session[x].since
      /\ s.step = session[x].step /\ s.eose = session[x].eose /\ s.stock = session[x].stock \ {e}
  <2> HIDE DEF x
  <2> QED BY <1>1 DEF SessionType
<1>3. session' = [session EXCEPT ![x] = s]
  BY <1>1 DEF HandleEvent, SessionTypes
<1>4. /\ session[x].step \in {"asked", "open"} /\ e \in Handled'
      /\ admitted \subseteq admitted' /\ lost \subseteq lost'
      /\ admitted' \subseteq Events /\ lost' \subseteq Events
      /\ UNCHANGED <<clock, stored, cursor, targets>>
  BY <1>1 DEF HandleEvent, Listens, Handled, SessionTypes
<1>5. SessionTypes' /\ \A y \in Pairs : Kept(y) \/ session'[y] = session[y]
  <2> HIDE DEF x, s
  <2>1. /\ session' \in [Pairs -> SessionType] /\ session'[x] = s
        /\ \A y \in Pairs \ {x} : session'[y] = session[y]
    BY <1>1, <1>2, <1>3, OneSession
  <2>2. session[x].stock \subseteq session'[x].stock \cup Handled'
    BY <1>2, <1>4, <2>1
  <2>3. /\ session'[x].start = session[x].start /\ session'[x].since = session[x].since
        /\ session'[x].step = session[x].step /\ session'[x].eose = session[x].eose
    BY <1>2, <2>1
  <2>4. Kept(x)
    BY <1>4, <2>2, <2>3 DEF Kept, UnderWay
  <2> QED BY <1>1, <1>4, <2>1, <2>4 DEF SessionTypes
<1> QED BY <1>4, <1>5, KeptKeeps

\* A process that dies, or drops the connections of relays no longer public.
LEMMA ProcessKeeps ==
  ASSUME CursorInv, NEW p \in Listeners, SyncRelays(p) \/ Die(p)
  PROVE  CursorInv'
<1>1. /\ UNCHANGED <<clock, stored, cursor, admitted, lost>>
      /\ targets' = [targets EXCEPT ![p] = PublicRelays] \/ targets' = [targets EXCEPT ![p] = {}]
  BY DEF SyncRelays, Die
<1>2. targets' \in [Listeners -> SUBSET Relays]
  <2>1. PublicRelays \subseteq Relays
    BY DEF PublicRelays, Serving
  <2> QED BY <1>1, <2>1 DEF CursorInv, SessionTypes
<1>3. /\ session' \in [Pairs -> SessionType]
      /\ \A x \in Pairs : session'[x].step \in {"none", "deaf"} \/ session'[x] = session[x]
  <2>1. CASE SyncRelays(p)
    <3> DEFINE away(x) == x[1] = p /\ x[2] \in targets[p] \ PublicRelays /\ Listens(p, x[2])
               deaf == [NoSession EXCEPT !.step = "deaf"]
    <3>1. session' = [x \in Pairs |-> IF away(x) THEN deaf ELSE session[x]]
      BY <2>1 DEF SyncRelays
    <3>2. deaf.step = "deaf"
      BY DEF NoSession
    <3>3. \A x \in Pairs : deaf \in SessionType /\ session[x] \in SessionType
      BY SessionValues DEF CursorInv
    <3> HIDE DEF away, deaf
    <3> QED BY <3>1, <3>2, <3>3
  <2>2. CASE Die(p)
    <3>1. session' = [x \in Pairs |-> IF x[1] = p THEN NoSession ELSE session[x]]
      BY <2>2 DEF Die
    <3>2. NoSession.step = "none"
      BY DEF NoSession
    <3>3. \A x \in Pairs : NoSession \in SessionType /\ session[x] \in SessionType
      BY SessionValues DEF CursorInv
    <3> QED BY <3>1, <3>2, <3>3
  <2> QED BY <2>1, <2>2
<1>4. SessionTypes' /\ \A x \in Pairs : Kept(x) \/ session'[x] = session[x]
  BY <1>1, <1>2, <1>3 DEF CursorInv, SessionTypes, Kept
<1> QED BY <1>1, <1>4, KeptKeeps

\* A session begins behind whatever its relay has kept from before: the cursor's
\* own session covered the rest.
LEMMA OpenKeeps ==
  ASSUME CursorInv, NEW p \in Listeners, NEW r \in Relays, Open(p, r)
  PROVE  CursorInv'
<1> DEFINE x == <<p, r>>
           s == [NoSession EXCEPT !.step = "opening", !.start = clock, !.since = Since(r)]
<1>1. x \in Pairs /\ x[2] = r /\ SessionTypes /\ clock \in Moments
  BY SessionAssumption DEF Pairs, CursorInv, SessionTypes, Moments
<1>2. Since(r) \in (0 - Backtrack - Overlap)..MaxTime
  BY <1>1, SessionAssumption DEF Since, SessionTypes, Moments
<1>3. /\ s \in SessionType /\ s.step = "opening" /\ s.start = clock /\ s.since = Since(r)
  BY <1>1, <1>2 DEF NoSession, SessionType
<1>4. /\ session' = [session EXCEPT ![x] = s]
      /\ UNCHANGED <<clock, stored, cursor, targets, admitted, lost>>
  BY DEF Open
<1>5. ASSUME NEW e \in Events, Waiting(r, e, clock)
      PROVE  stored[r][e].made >= Since(r)
  <2>1. /\ stored[r][e].at \in Moments /\ stored[r][e].made \in Int
        /\ stored[r][e].at > 0 /\ stored[r][e].made >= stored[r][e].at - Back
        /\ cursor[r] \in Moments
    BY <1>1, <1>5, SessionAssumption DEF SessionTypes, CursorInv, StoredInTime, Waiting, Moments
  <2>2. stored[r][e].at >= cursor[r]
    BY <1>5, <2>1, SessionAssumption DEF CursorInv, NothingWaits, Waiting, Moments
  <2> QED BY <1>1, <2>1, <2>2, SessionAssumption DEF Since, Moments, SessionTypes
<1> HIDE DEF x, s
<1>6. /\ session' \in [Pairs -> SessionType] /\ session'[x] = s
      /\ \A y \in Pairs \ {x} : session'[y] = session[y]
  BY <1>1, <1>3, <1>4, OneSession
<1>7. \A q, e, m : Waiting(q, e, m)' <=> Waiting(q, e, m)
  BY <1>4 DEF Waiting, Handled
<1>8. SessionTypes' /\ StoredInTime' /\ NothingWaits'
  BY <1>1, <1>4, <1>6, <1>7 DEF CursorInv, SessionTypes, StoredInTime, NothingWaits, Waiting
<1>9. StartedBefore'
  BY <1>1, <1>3, <1>4, <1>6 DEF CursorInv, StartedBefore, Moments
<1>10. AsksFarEnough'
  <2> SUFFICES ASSUME NEW y \in Pairs, NEW e \in Events, session'[y].step \in UnderWay,
                      Waiting(y[2], e, session[y].start)'
               PROVE  stored'[y[2]][e].made >= session'[y].since
    BY DEF AsksFarEnough
  <2>1. CASE y = x
    <3>1. Waiting(r, e, clock)
      BY <1>1, <1>3, <1>4, <1>6, <2>1 DEF Waiting, Handled
    <3> QED BY <1>1, <1>3, <1>4, <1>5, <1>6, <2>1, <3>1
  <2>2. CASE y # x
    <3>1. session'[y] = session[y] /\ Waiting(y[2], e, session[y].start)
      BY <1>4, <1>6, <2>2 DEF Waiting, Handled
    <3> QED BY <1>4, <3>1 DEF CursorInv, AsksFarEnough
  <2> QED BY <2>1, <2>2
<1>11. StockComplete'
  <2> SUFFICES ASSUME NEW y \in Pairs, NEW e \in Events, session'[y].step \in {"asked", "open"},
                      session'[y].eose, Waiting(y[2], e, session[y].start)'
               PROVE  e \in session'[y].stock
    BY DEF StockComplete
  <2>1. y # x
    BY <1>3, <1>6
  <2>2. session'[y] = session[y] /\ Waiting(y[2], e, session[y].start)
    BY <1>4, <1>6, <2>1 DEF Waiting, Handled
  <2> QED BY <2>2 DEF CursorInv, StockComplete
<1> QED BY <1>8, <1>9, <1>10, <1>11 DEF CursorInv

\* The end of the stored events moves the cursor to the start of the session:
\* nothing that waited then waits now.
LEMMA EoseKeeps ==
  ASSUME CursorInv, NEW p \in Listeners, NEW r \in Relays, HandleEose(p, r)
  PROVE  CursorInv'
<1> DEFINE x == <<p, r>>
           s == [session[x] EXCEPT !.eose = FALSE]
<1>1. x \in Pairs /\ x[2] = r /\ SessionTypes /\ session[x] \in SessionType
  BY SessionValues DEF Pairs, CursorInv
<1>2. /\ session[x].step \in {"asked", "open"} /\ session[x].eose /\ session[x].stock = {}
      /\ UNCHANGED <<clock, stored, targets, admitted, lost>>
  BY DEF HandleEose, Listens
<1>3. session' = [session EXCEPT ![x] = s]
  BY <1>1 DEF HandleEose, SessionTypes
<1>4. cursor' = cursor \/ cursor' = [cursor EXCEPT ![r] = session[x].start]
  BY DEF HandleEose
<1>5. /\ s \in SessionType /\ s.step = session[x].step /\ s.start = session[x].start
      /\ s.since = session[x].since /\ s.eose = FALSE
  <2> HIDE DEF x
  <2> QED BY <1>1 DEF SessionType
<1>6. session[x].start \in Moments /\ session[x].start <= clock
  BY <1>1, <1>2 DEF CursorInv, StartedBefore, SessionType, UnderWay
<1>7. \A e \in Events : ~ Waiting(r, e, session[x].start)
  BY <1>1, <1>2 DEF CursorInv, StockComplete
<1> HIDE DEF x, s
<1>8. /\ session' \in [Pairs -> SessionType] /\ session'[x] = s
      /\ \A y \in Pairs \ {x} : session'[y] = session[y]
  BY <1>1, <1>3, <1>5, OneSession
<1>9. /\ cursor' \in [Relays -> Moments]
      /\ \A q \in Relays : cursor'[q] = cursor[q] \/ (q = r /\ cursor'[q] = session[x].start)
  BY <1>1, <1>4, <1>6 DEF SessionTypes
<1>10. SessionTypes' /\ StoredInTime' /\ StartedBefore'
  <2>1. SessionTypes' /\ StoredInTime'
    BY <1>1, <1>2, <1>8, <1>9 DEF CursorInv, SessionTypes, StoredInTime
  <2>2. \A q \in Relays : cursor'[q] <= clock'
    BY <1>2, <1>6, <1>9 DEF CursorInv, StartedBefore
  <2>3. \A y \in Pairs : session'[y].step \in UnderWay => session'[y].start <= clock'
    BY <1>2, <1>5, <1>8 DEF CursorInv, StartedBefore
  <2> QED BY <2>1, <2>2, <2>3 DEF StartedBefore
<1>11. NothingWaits'
  <2> SUFFICES ASSUME NEW q \in Relays, NEW e \in Events, Waiting(q, e, cursor[q])'
               PROVE  FALSE
    BY DEF NothingWaits
  <2>1. Waiting(q, e, cursor'[q])
    BY <1>2 DEF Waiting, Handled
  <2> QED BY <1>7, <1>9, <2>1 DEF CursorInv, NothingWaits
<1>12. ASSUME NEW y \in Pairs, NEW e \in Events, session'[y].step \in UnderWay,
              Waiting(y[2], e, session[y].start)'
       PROVE  /\ session'[y].step = session[y].step /\ session'[y].since = session[y].since
              /\ Waiting(y[2], e, session[y].start)
              /\ session'[y] = session[y] \/ ~ session'[y].eose
  <2>1. session'[y].start = session[y].start
    BY <1>5, <1>8
  <2>2. Waiting(y[2], e, session[y].start)
    BY <1>2, <1>12, <2>1 DEF Waiting, Handled
  <2> QED BY <1>5, <1>8, <2>2
<1>13. AsksFarEnough' /\ StockComplete'
  <2>1. AsksFarEnough'
    BY <1>2, <1>12 DEF CursorInv, AsksFarEnough
  <2>2. StockComplete'
    BY <1>12 DEF CursorInv, StockComplete, UnderWay
  <2> QED BY <2>1, <2>2
<1> QED BY <1>10, <1>11, <1>13 DEF CursorInv

\* What comes in now waits for sessions that begin later.
LEMMA StoreKeeps ==
  ASSUME CursorInv, NEW r \in Relays, NEW e \in Events, NEW made \in (1 - Back)..MaxTime,
         Store(r, e, made)
  PROVE  CursorInv'
<1> USE DEF CursorInv
<1> DEFINE heard(x) == x[2] = r /\ Listens(x[1], r) /\ session[x].since <= made
           more(x) == [session[x] EXCEPT !.fresh = @ \cup {e}]
<1>1. /\ session' = [x \in Pairs |-> IF heard(x) THEN more(x) ELSE session[x]]
      /\ UNCHANGED <<clock, cursor, targets, admitted, lost>>
      /\ made \in (clock - Back)..clock
  BY DEF Store
<1>2. ASSUME NEW x \in Pairs
      PROVE  /\ more(x) \in SessionType
             /\ more(x).step = session[x].step /\ more(x).start = session[x].start
             /\ more(x).since = session[x].since /\ more(x).stock = session[x].stock
             /\ more(x).eose = session[x].eose
  <2>1. session[x] \in SessionType
    BY SessionValues
  <2> QED BY <2>1 DEF SessionType
<1> HIDE DEF heard, more
<1>3. \A x \in Pairs :
        /\ session'[x] \in SessionType
        /\ session'[x].step = session[x].step /\ session'[x].start = session[x].start
        /\ session'[x].since = session[x].since /\ session'[x].stock = session[x].stock
        /\ session'[x].eose = session[x].eose
  <2>1. \A x \in Pairs : session[x] \in SessionType
    BY SessionValues
  <2> QED BY <1>1, <1>2, <2>1
<1>4. session' \in [Pairs -> SessionType]
  BY <1>1, <1>3
<1>5. clock \in Moments /\ clock > 0 /\ made \in (0 - Back)..MaxTime
  BY SessionAssumption DEF SessionTypes, Moments
<1>6. /\ stored' \in [Relays -> [Events -> [at : Moments, made : (0 - Back)..MaxTime]]]
      /\ \A q \in Relays, d \in Events :
           \/ stored'[q][d] = stored[q][d]
           \/ stored'[q][d].at = clock /\ stored'[q][d].made = made
  <2> DEFINE said == [at |-> clock, made |-> made]
  <2>1. said \in [at : Moments, made : (0 - Back)..MaxTime] /\ said.at = clock /\ said.made = made
    BY <1>5
  <2>2. stored' = [stored EXCEPT ![r] = [stored[r] EXCEPT ![e] = said]]
    BY DEF Store, SessionTypes
  <2> HIDE DEF said
  <2>3. [stored[r] EXCEPT ![e] = said] \in [Events -> [at : Moments, made : (0 - Back)..MaxTime]]
    BY <2>1 DEF SessionTypes
  <2> QED BY <2>1, <2>2, <2>3 DEF SessionTypes
<1>7. SessionTypes'
  BY <1>1, <1>4, <1>6 DEF SessionTypes
<1>8. StoredInTime'
  <2> SUFFICES ASSUME NEW q \in Relays, NEW d \in Events
               PROVE  /\ stored'[q][d].at <= clock
                      /\ stored'[q][d].at > 0 => stored'[q][d].made >= stored'[q][d].at - Back
    BY <1>1 DEF StoredInTime
  <2>1. /\ stored[q][d].at <= clock
        /\ stored[q][d].at > 0 => stored[q][d].made >= stored[q][d].at - Back
    BY DEF StoredInTime
  <2>2. made >= clock - Back /\ clock <= clock
    BY <1>1, <1>5, SessionAssumption DEF Moments
  <2> QED BY <1>6, <2>1, <2>2
<1>9. StartedBefore'
  BY <1>1, <1>3 DEF StartedBefore
<1>10. ASSUME NEW q \in Relays, NEW d \in Events, NEW m \in Moments, m <= clock,
              stored'[q][d].at < m
       PROVE  stored'[q][d] = stored[q][d]
  <2>1. stored'[q][d].at # clock
    BY <1>5, <1>6, <1>10, SessionAssumption DEF Moments
  <2> QED BY <1>6, <2>1
<1>11. NothingWaits'
  <2> SUFFICES ASSUME NEW q \in Relays, NEW d \in Events, Waiting(q, d, cursor[q])'
               PROVE  FALSE
    BY DEF NothingWaits
  <2>1. 0 < stored'[q][d].at /\ stored'[q][d].at < cursor[q] /\ d \notin Handled
    BY <1>1 DEF Waiting, Handled
  <2>2. cursor[q] \in Moments /\ cursor[q] <= clock
    BY DEF StartedBefore, SessionTypes
  <2>3. stored'[q][d] = stored[q][d]
    BY <1>10, <2>1, <2>2
  <2> QED BY <2>1, <2>3 DEF NothingWaits, Waiting
<1>12. ASSUME NEW x \in Pairs, NEW d \in Events, session'[x].step \in UnderWay,
              Waiting(x[2], d, session[x].start)'
       PROVE  /\ Waiting(x[2], d, session[x].start) /\ stored'[x[2]][d] = stored[x[2]][d]
  <2>1. /\ session[x].step \in UnderWay /\ session'[x].start = session[x].start
        /\ session[x].start \in Moments /\ session[x].start <= clock /\ x[2] \in Relays
    <3>1. session[x] \in SessionType
      BY SessionValues
    <3> QED BY <1>3, <1>12, <3>1 DEF StartedBefore, Pairs, SessionType
  <2> DEFINE m == session[x].start
  <2>2. m \in Moments /\ m <= clock
    BY <2>1
  <2>3. 0 < stored'[x[2]][d].at /\ stored'[x[2]][d].at < m /\ d \notin Handled'
    BY <1>12, <2>1 DEF Waiting
  <2>4. stored'[x[2]][d] = stored[x[2]][d]
    BY <1>10, <2>1, <2>2, <2>3
  <2> QED BY <1>1, <2>3, <2>4 DEF Waiting, Handled
<1>13. AsksFarEnough' /\ StockComplete'
  <2>1. AsksFarEnough'
    BY <1>3, <1>12 DEF AsksFarEnough
  <2>2. StockComplete'
    <3> SUFFICES ASSUME NEW x \in Pairs, NEW d \in Events,
                        session'[x].step \in {"asked", "open"}, session'[x].eose,
                        Waiting(x[2], d, session[x].start)'
                 PROVE  d \in session'[x].stock
      BY DEF StockComplete
    <3>1. Waiting(x[2], d, session[x].start)
      BY <1>12 DEF UnderWay
    <3>2. session[x].eose /\ session[x].step \in {"asked", "open"}
      BY <1>3
    <3> QED BY <1>3, <3>1, <3>2 DEF StockComplete
  <2> QED BY <2>1, <2>2
<1> QED BY <1>7, <1>8, <1>9, <1>11, <1>13

\* Time passes.
LEMMA TickKeeps ==
  ASSUME CursorInv, Tick
  PROVE  CursorInv'
<1> USE DEF CursorInv
<1>1. /\ UNCHANGED <<stored, cursor, session, targets, admitted, lost>>
      /\ clock' = clock + 1 /\ clock < MaxTime
  BY DEF Tick
<1>2. SessionTypes'
  BY <1>1, SessionAssumption DEF SessionTypes
<1>3. StoredInTime'
  <2> SUFFICES ASSUME NEW r \in Relays, NEW e \in Events
               PROVE  stored[r][e].at <= clock'
    BY <1>1 DEF StoredInTime
  <2>1. stored[r][e].at \in Moments /\ stored[r][e].at <= clock
    BY DEF StoredInTime, SessionTypes
  <2> QED BY <1>1, <2>1, SessionAssumption DEF SessionTypes, Moments
<1>4. StartedBefore'
  <2>1. ASSUME NEW m \in Moments, m <= clock
        PROVE  m <= clock'
    BY <1>1, <2>1, SessionAssumption DEF SessionTypes, Moments
  <2>2. \A r \in Relays : cursor[r] \in Moments
    BY DEF SessionTypes
  <2>3. \A x \in Pairs : session[x].start \in Moments
    BY DEF SessionTypes, SessionType
  <2> QED BY <1>1, <2>1, <2>2, <2>3 DEF StartedBefore
<1>5. AsksFarEnough' /\ StockComplete' /\ NothingWaits'
  BY <1>1 DEF AsksFarEnough, StockComplete, NothingWaits, Waiting, Handled
<1> QED BY <1>2, <1>3, <1>4, <1>5

\* Every step keeps the invariant; those of the merchant do not touch it.
LEMMA CursorStep == CursorInv /\ [Next]_vars => CursorInv'
<1> SUFFICES ASSUME CursorInv, [Next]_vars
             PROVE  CursorInv'
  OBVIOUS
<1>1. ASSUME UNCHANGED sessionVars
      PROVE  CursorInv'
  BY <1>1 DEF sessionVars, CursorInv, SessionTypes, StoredInTime, StartedBefore, AsksFarEnough,
              StockComplete, NothingWaits, Waiting, Handled
<1>2. ASSUME SessionNext
      PROVE  CursorInv'
  BY <1>2, StoreKeeps, TickKeeps, OpenKeeps, EndKeeps, AskKeeps, HandleKeeps, EoseKeeps,
     ProcessKeeps DEF SessionNext
<1> QED BY <1>1, <1>2 DEF Next, vars

\* The invariant holds in every reachable state.
THEOREM CursorInvariant == Spec => []CursorInv
BY CursorInit, CursorStep, PTL DEF Spec

\* What a relay had before the committed start of a session was admitted or in
\* the handler's hands: the next session's since skips nothing else, whichever
\* process commits last (_cursor_since, eose_and_advance_cursor).
THEOREM CursorLeavesNothing == Spec => []CursorCoversStored
<1>1. CursorInv => CursorCoversStored
  BY DEF CursorInv, NothingWaits, Waiting, Handled, CursorCoversStored
<1> QED BY <1>1, CursorInvariant, PTL

-----------------------------------------------------------------------------
\* The merchant's wish: the invariant

IntentType ==
  [kind : InboxKinds \cup {"profile"}, rev : Nat,
   state : {"pending", "sent", "published", "superseded", "failed"}]

\* The intents of the inbox among those of the merchant.
Inbox == {i \in DOMAIN intents : intents[i].kind \in InboxKinds}

Latest(i) == i \in Inbox /\ \A j \in Inbox : j <= i

\* The revisions of the inbox count up, and the next one is beyond all.
RevisionsOrdered ==
  /\ \A i \in Inbox : intents[i].rev <= Cardinality(Inbox)
  /\ \A i, j \in Inbox : i < j => intents[i].rev < intents[j].rev

\* The last intent of the inbox is the merchant's wish.
Wished(i) == intents[i].kind = (IF wish = "on" THEN "announce" ELSE "withdraw")

\* It is under way, or the row says what has become of it.
Told(i) ==
  \/ Live(i)
  \/ /\ intents[i].state = "published"
     /\ merchant.inbox = (IF wish = "on" THEN "active" ELSE "off")
  \/ intents[i].state = "failed" /\ merchant.inbox = "error"

WishCarried ==
  \/ Inbox = {} /\ wish = "off" /\ merchant.inbox = "off"
  \/ \E i \in Inbox : Latest(i) /\ Wished(i) /\ Told(i)

WishInv ==
  /\ AdminTypeOK
  /\ RevisionsOrdered
  /\ astray = {} => WishCarried /\ \A i \in Inbox : Live(i) => Latest(i)

\* The invariant is what the runs check.
LEMMA WishParts == WishInv => LastWishWins
<1> SUFFICES ASSUME WishInv, astray = {},
                    \A i \in DOMAIN intents : Live(i) => intents[i].kind \notin InboxKinds
             PROVE  merchant.inbox \in (IF wish = "on" THEN {"active", "error"} ELSE {"off", "error"})
  BY DEF LastWishWins
<1>1. \A i \in Inbox : ~ Live(i)
  BY DEF Inbox
<1> QED BY <1>1 DEF WishInv, WishCarried, Told

\* A merchant that does not exist has wished for nothing.
LEMMA WishInit == AdminInit => WishInv
<1> SUFFICES ASSUME AdminInit PROVE WishInv
  OBVIOUS
<1>1. AdminTypeOK
  BY DEF AdminInit, AdminTypeOK, NoMerchant, Directions
<1>2. Inbox = {}
  BY DEF AdminInit, Inbox
<1> QED BY <1>1, <1>2 DEF AdminInit, WishInv, RevisionsOrdered, WishCarried, NoMerchant

-----------------------------------------------------------------------------
\* The merchant's wish: the steps

Outcomes == {"pending", "sent", "published", "superseded", "failed"}

\* A list of intents of which some states were changed is one of intents.
LEMMA SameLength ==
  ASSUME intents \in Seq(IntentType), NEW f, DOMAIN f = DOMAIN intents,
         f = [i \in DOMAIN intents |-> f[i]],
         \A i \in DOMAIN intents : f[i] \in IntentType
  PROVE  f \in Seq(IntentType) /\ Len(f) = Len(intents)
<1>1. DOMAIN intents = 1..Len(intents) /\ Len(intents) \in Nat
  OBVIOUS
<1>2. f \in [1..Len(intents) -> IntentType]
  BY <1>1
<1> QED BY <1>1, <1>2

\* Setting the state of one intent.
LEMMA SetState ==
  ASSUME intents \in Seq(IntentType), NEW i \in DOMAIN intents, NEW s \in Outcomes,
         intents' = [intents EXCEPT ![i].state = s]
  PROVE  /\ intents' \in Seq(IntentType) /\ DOMAIN intents' = DOMAIN intents
         /\ intents'[i].kind = intents[i].kind /\ intents'[i].rev = intents[i].rev
         /\ intents'[i].state = s
         /\ \A j \in DOMAIN intents : j # i => intents'[j] = intents[j]
<1> DEFINE new == [intents[i] EXCEPT !.state = s]
<1>1. intents[i] \in IntentType
  OBVIOUS
<1>2. new \in IntentType /\ new.kind = intents[i].kind /\ new.rev = intents[i].rev /\ new.state = s
  BY <1>1 DEF IntentType, Outcomes
<1>3. intents' = [intents EXCEPT ![i] = new]
  OBVIOUS
<1> HIDE DEF new
<1>4. /\ DOMAIN intents' = DOMAIN intents /\ intents'[i] = new
      /\ \A j \in DOMAIN intents : j # i => intents'[j] = intents[j]
  BY <1>3
<1>5. intents' \in Seq(IntentType)
  BY <1>2, <1>3
<1> QED BY <1>2, <1>4, <1>5

\* What an enqueued intent does to the others: older live ones of its aggregate
\* give way.
LEMMA EnqueueFacts ==
  ASSUME intents \in Seq(IntentType), NEW aggregate, NEW kind \in InboxKinds \cup {"profile"},
         NEW rev \in Nat, intents' = Enqueue(aggregate, kind, rev)
  PROVE  /\ intents' \in Seq(IntentType)
         /\ \A i \in DOMAIN intents :
              /\ i \in DOMAIN intents'
              /\ intents'[i].kind = intents[i].kind /\ intents'[i].rev = intents[i].rev
              /\ intents[i].kind \notin aggregate => intents'[i] = intents[i]
              /\ intents[i].kind \in aggregate /\ intents[i].rev < rev =>
                   intents'[i].state \notin {"pending", "sent"}
         /\ \/ /\ DOMAIN intents' = DOMAIN intents
               /\ \E i \in DOMAIN intents : intents[i].kind = kind /\ intents[i].rev = rev
            \/ /\ DOMAIN intents' = 1..(Len(intents) + 1)
               /\ intents'[Len(intents) + 1] = [kind |-> kind, rev |-> rev, state |-> "pending"]
<1> DEFINE gone(i) == intents[i].kind \in aggregate /\ intents[i].rev < rev /\ Live(i)
           left(i) == [intents[i] EXCEPT !.state = "superseded"]
           rest == [i \in DOMAIN intents |-> IF gone(i) THEN left(i) ELSE intents[i]]
           new == [kind |-> kind, rev |-> rev, state |-> "pending"]
<1>1. \/ /\ \E i \in DOMAIN intents : intents[i].kind = kind /\ intents[i].rev = rev /\ Live(i)
         /\ intents' = rest
      \/ intents' = Append(rest, new)
  BY DEF Enqueue
<1>2. ASSUME NEW i \in DOMAIN intents
      PROVE  /\ left(i) \in IntentType /\ left(i).kind = intents[i].kind
             /\ left(i).rev = intents[i].rev /\ left(i).state = "superseded"
  <2>1. intents[i] \in IntentType
    OBVIOUS
  <2> QED BY <2>1 DEF IntentType
<1> HIDE DEF left
<1>3. rest \in Seq(IntentType) /\ Len(rest) = Len(intents) /\ DOMAIN rest = DOMAIN intents
  <2>1. \A i \in DOMAIN intents : rest[i] \in IntentType
    BY <1>2
  <2>2. DOMAIN rest = DOMAIN intents /\ rest = [i \in DOMAIN intents |-> rest[i]]
    OBVIOUS
  <2> HIDE DEF rest
  <2> QED BY <2>1, <2>2, SameLength
<1>4. \A i \in DOMAIN intents :
        /\ rest[i].kind = intents[i].kind /\ rest[i].rev = intents[i].rev
        /\ intents[i].kind \notin aggregate => rest[i] = intents[i]
        /\ intents[i].kind \in aggregate /\ intents[i].rev < rev =>
             rest[i].state \notin {"pending", "sent"}
  BY <1>2 DEF Live
<1>5. new \in IntentType
  BY DEF IntentType
<1> HIDE DEF rest, new
<1>6. CASE intents' = rest
  <2>1. intents' \in Seq(IntentType) /\ DOMAIN intents' = DOMAIN intents
    BY <1>3, <1>6
  <2>2. intents' # Append(rest, new)
    <3>1. Len(Append(rest, new)) = Len(rest) + 1 /\ Len(rest) \in Nat
      BY <1>3, <1>5
    <3> QED BY <1>6, <3>1
  <2>3. \E i \in DOMAIN intents : intents[i].kind = kind /\ intents[i].rev = rev
    BY <1>1, <2>2
  <2>4. \A i \in DOMAIN intents :
          /\ intents'[i].kind = intents[i].kind /\ intents'[i].rev = intents[i].rev
          /\ intents[i].kind \notin aggregate => intents'[i] = intents[i]
          /\ intents[i].kind \in aggregate /\ intents[i].rev < rev =>
               intents'[i].state \notin {"pending", "sent"}
    BY <1>4, <1>6
  <2> QED BY <2>1, <2>3, <2>4
<1>7. CASE intents' = Append(rest, new)
  <2>1. /\ intents' \in Seq(IntentType) /\ DOMAIN intents' = 1..(Len(intents) + 1)
        /\ intents'[Len(intents) + 1] = new
        /\ \A i \in DOMAIN intents : i \in DOMAIN intents' /\ intents'[i] = rest[i]
    BY <1>3, <1>5, <1>7
  <2> QED BY <1>4, <2>1 DEF new
<1> QED BY <1>1, <1>6, <1>7

\* A request that has been answered, and one that is about to write.
LEMMA RequestKept ==
  ASSUME AdminTypeOK, NEW a \in Admins, NEW op \in Operations \cup Modes \cup {NoRequest},
         request' = [request EXCEPT ![a] = op]
  PROVE  request' \in [Admins -> Operations \cup Modes \cup {NoRequest}]
BY DEF AdminTypeOK

\* The starter sets are relays with directions.
LEMMA SeededType ==
  ASSUME AdminTypeOK, NEW direction \in {"public", "inbox"}
  PROVE  Seeded(direction) \in [Relays -> Directions]
BY ActivationAssumption DEF AdminTypeOK, Seeded

\* What a step must do to leave the wish where it is: the inbox has the same
\* intents, none comes to life again, and the row says what becomes of the last.
LEMMA WishKept ==
  ASSUME WishInv, AdminTypeOK', wish' = wish, Inbox' = Inbox,
         \A i \in Inbox : intents'[i].kind = intents[i].kind /\ intents'[i].rev = intents[i].rev,
         astray' = {} =>
           /\ astray = {}
           /\ Inbox = {} => merchant'.inbox = merchant.inbox
           /\ \A i \in Inbox : Live(i)' => Live(i)
           /\ \A i \in Inbox : Latest(i) /\ Wished(i) /\ Told(i) => Told(i)'
  PROVE  WishInv'
<1>1. RevisionsOrdered'
  BY DEF WishInv, RevisionsOrdered
<1>2. \A i \in Inbox : Latest(i)' <=> Latest(i)
  BY DEF Latest
<1>3. \A i \in Inbox : Wished(i)' <=> Wished(i)
  BY DEF Wished
<1>4. ASSUME astray' = {}
      PROVE  WishCarried' /\ \A i \in Inbox' : Live(i)' => Latest(i)'
  <2>1. \A i \in Inbox' : Live(i)' => Latest(i)'
    BY <1>2, <1>4 DEF WishInv
  <2>2. CASE Inbox = {} /\ wish = "off" /\ merchant.inbox = "off"
    BY <1>4, <2>2 DEF WishCarried
  <2>3. CASE \E i \in Inbox : Latest(i) /\ Wished(i) /\ Told(i)
    <3>1. PICK i \in Inbox : Latest(i) /\ Wished(i) /\ Told(i)
      BY <2>3
    <3>2. Told(i)'
      BY <1>4, <3>1
    <3>3. i \in Inbox' /\ Latest(i)' /\ Wished(i)'
      BY <1>2, <1>3, <3>1
    <3>4. (\E j \in Inbox : Latest(j) /\ Wished(j) /\ Told(j))'
      BY <3>2, <3>3
    <3> QED BY <1>4, <2>1, <3>4 DEF WishCarried
  <2>4. WishCarried
    BY <1>4 DEF WishInv
  <2> QED BY <2>1, <2>2, <2>3, <2>4 DEF WishCarried
<1> QED BY <1>1, <1>4 DEF WishInv

\* What does not touch the intents, the wish and the inbox changes nothing.
LEMMA ElsewhereKeeps ==
  ASSUME WishInv, AdminTypeOK', UNCHANGED <<intents, wish, astray>>,
         merchant'.inbox = merchant.inbox
  PROVE  WishInv'
<1>1. Inbox' = Inbox
  BY DEF Inbox
<1>2. \A i \in Inbox : (Live(i)' <=> Live(i)) /\ (Told(i)' <=> Told(i))
  BY DEF Live, Told
<1> QED BY <1>1, <1>2, WishKept

\* The type of the merchant's row.
MerchantType ==
  [state : {"none", "draft", "publication_pending", "active", "deactivating"},
   inbox : {"off", "pending", "active", "error", "deactivating"},
   mode : {"full", "showcase", "browse_only", "nostr_only"}]

\* Requests that leave the intents alone.
LEMMA PlainStep ==
  ASSUME WishInv,
         \/ CreateMerchant
         \/ \E a \in Admins :
              \/ \E op \in Operations \cup Modes : Read(a, op)
              \/ Refuse(a) \/ BeginDeactivation(a)
              \/ \E config \in Configs : SaveRelays(a, config)
              \/ \E mode \in Modes : SetMode(a, mode)
  PROVE  WishInv'
<1> USE DEF MerchantType
<1> DEFINE Requests == [Admins -> Operations \cup Modes \cup {NoRequest}]
<1>1. AdminTypeOK
  BY DEF WishInv
<1>2. UNCHANGED <<intents, wish, astray>>
  BY DEF CreateMerchant, Read, Refuse, BeginDeactivation, SaveRelays, SetMode
<1>3. relays' \in [Relays -> Directions]
  BY <1>1, ActivationAssumption
     DEF CreateMerchant, Read, Refuse, BeginDeactivation, SaveRelays, SetMode, AdminTypeOK
<1>4. request' \in Requests
  <2>1. \/ request' = request
        \/ \E a \in Admins, op \in Operations \cup Modes \cup {NoRequest} :
             request' = [request EXCEPT ![a] = op]
    BY DEF CreateMerchant, Read, Refuse, BeginDeactivation, SaveRelays, SetMode, Answer
  <2>2. request \in Requests
    BY <1>1 DEF AdminTypeOK
  <2> QED BY <1>1, <2>1, <2>2, RequestKept
<1>5. merchant' \in MerchantType /\ merchant'.inbox = merchant.inbox
  <2>1. merchant \in MerchantType
    BY <1>1 DEF AdminTypeOK
  <2>2. \/ merchant' = merchant
        \/ merchant' = [merchant EXCEPT !.state = "draft"]
        \/ merchant' = [merchant EXCEPT !.state = "deactivating"]
        \/ \E mode \in Modes : merchant' = [merchant EXCEPT !.mode = mode]
    BY DEF CreateMerchant, Read, Refuse, BeginDeactivation, SaveRelays, SetMode
  <2> QED BY <2>1, <2>2, ActivationAssumption
<1>6. AdminTypeOK'
  BY <1>1, <1>2, <1>3, <1>4, <1>5 DEF AdminTypeOK
<1> QED BY <1>2, <1>5, <1>6, ElsewhereKeeps

\* The profile's events are not the inbox's.
LEMMA ProfileStep ==
  ASSUME WishInv, NEW a \in Admins, EditProfile(a) \/ ImportKey(a) \/ Publish(a)
  PROVE  WishInv'
<1> USE DEF MerchantType
<1>1. AdminTypeOK /\ intents \in Seq(IntentType)
  BY DEF WishInv, AdminTypeOK, IntentType
<1>2. intents' = Enqueue({"profile"}, "profile", 0) /\ UNCHANGED <<wish, astray>>
  BY DEF EditProfile, ImportKey, Publish, EnqueueProfile
<1>3. /\ intents' \in Seq(IntentType)
      /\ \A i \in DOMAIN intents :
           /\ i \in DOMAIN intents' /\ intents'[i].kind = intents[i].kind
           /\ intents[i].kind \notin {"profile"} => intents'[i] = intents[i]
      /\ \/ DOMAIN intents' = DOMAIN intents
         \/ /\ DOMAIN intents' = 1..(Len(intents) + 1)
            /\ intents'[Len(intents) + 1] = [kind |-> "profile", rev |-> 0, state |-> "pending"]
  <2>1. "profile" \in InboxKinds \cup {"profile"} /\ 0 \in Nat
    OBVIOUS
  <2> DEFINE all == {"profile"}
  <2>2. intents' = Enqueue(all, "profile", 0)
    BY <1>2
  <2> HIDE DEF all
  <2>3. /\ intents' \in Seq(IntentType)
        /\ \A i \in DOMAIN intents :
             /\ i \in DOMAIN intents' /\ intents'[i].kind = intents[i].kind
             /\ intents[i].kind \notin all => intents'[i] = intents[i]
        /\ \/ DOMAIN intents' = DOMAIN intents
           \/ /\ DOMAIN intents' = 1..(Len(intents) + 1)
              /\ intents'[Len(intents) + 1] = [kind |-> "profile", rev |-> 0, state |-> "pending"]
    BY <1>1, <2>1, <2>2, EnqueueFacts
  <2> QED BY <2>3 DEF all
<1>4. relays' \in [Relays -> Directions]
  BY <1>1, SeededType DEF EditProfile, ImportKey, Publish, AdminTypeOK
<1>5. request' \in [Admins -> Operations \cup Modes \cup {NoRequest}]
  BY <1>1, RequestKept DEF EditProfile, ImportKey, Publish, Answer
<1>6. merchant' \in MerchantType /\ merchant'.inbox = merchant.inbox
  <2>1. merchant \in MerchantType
    BY <1>1 DEF AdminTypeOK
  <2>2. merchant' = merchant \/ merchant' = [merchant EXCEPT !.state = "publication_pending"]
    BY <2>1 DEF EditProfile, ImportKey, Publish
  <2> QED BY <2>1, <2>2
<1>7. AdminTypeOK'
  BY <1>1, <1>2, <1>3, <1>4, <1>5, <1>6 DEF AdminTypeOK, IntentType
<1>8. Inbox' = Inbox
  <2>1. DOMAIN intents = 1..Len(intents) /\ Len(intents) \in Nat
    BY <1>1
  <2>2. \A i \in DOMAIN intents' : i \notin DOMAIN intents => intents'[i].kind = "profile"
    BY <1>3, <2>1
  <2> QED BY <1>3, <2>2 DEF Inbox, InboxKinds
<1>9. \A i \in Inbox : intents'[i] = intents[i]
  BY <1>3 DEF Inbox, InboxKinds
<1>10. \A i \in Inbox : (Live(i)' <=> Live(i)) /\ (Told(i)' <=> Told(i))
  BY <1>2, <1>6, <1>9 DEF Live, Told
<1> QED BY <1>2, <1>6, <1>7, <1>8, <1>9, <1>10, WishKept

\* The inbox has finitely many intents.
LEMMA InboxFinite ==
  ASSUME intents \in Seq(IntentType)
  PROVE  IsFiniteSet(Inbox) /\ Cardinality(Inbox) \in Nat
<1>1. Inbox \subseteq 1..Len(intents) /\ Len(intents) \in Nat
  BY DEF Inbox
<1>2. IsFiniteSet(1..Len(intents))
  BY <1>1, FS_Interval
<1> QED BY <1>1, <1>2, FS_Subset, FS_CardinalityType

\* A change of the inbox has a revision of its own: it puts an end to all that
\* was under way, and is the one the row will be settled by.
LEMMA WishChanges ==
  ASSUME WishInv, AdminTypeOK', NEW kind \in InboxKinds,
         intents' = Enqueue(InboxKinds, kind, InboxRevision),
         kind = (IF wish' = "on" THEN "announce" ELSE "withdraw")
  PROVE  WishInv'
<1>1. intents \in Seq(IntentType) /\ AdminTypeOK /\ RevisionsOrdered
  BY DEF WishInv, AdminTypeOK, IntentType
<1>2. PICK n \in Nat : n = Len(intents) + 1
  BY <1>1
<1>3. IsFiniteSet(Inbox) /\ Cardinality(Inbox) \in Nat
  BY <1>1, InboxFinite
<1>4. PICK rev \in Nat : rev = Cardinality(Inbox) + 1
  BY <1>3
<1>5. \A i \in Inbox : intents[i].rev \in Nat /\ intents[i].rev < rev
  <2>1. \A i \in DOMAIN intents : intents[i] \in IntentType
    BY <1>1
  <2>2. \A i \in DOMAIN intents : intents[i].rev \in Nat
    BY <2>1 DEF IntentType
  <2> QED BY <1>1, <1>3, <1>4, <2>2 DEF RevisionsOrdered, Inbox
<1>6. intents' = Enqueue(InboxKinds, kind, rev)
  BY <1>3, <1>4 DEF InboxRevision, Inbox
<1>7. ~ \E i \in DOMAIN intents : intents[i].kind = kind /\ intents[i].rev = rev
  <2> SUFFICES ASSUME NEW i \in DOMAIN intents, intents[i].kind = kind, intents[i].rev = rev
               PROVE  FALSE
    OBVIOUS
  <2>1. i \in Inbox
    BY DEF Inbox
  <2> QED BY <1>4, <1>5, <2>1
<1>8. /\ \A i \in DOMAIN intents :
           /\ i \in DOMAIN intents'
           /\ intents'[i].kind = intents[i].kind /\ intents'[i].rev = intents[i].rev
           /\ intents[i].kind \in InboxKinds /\ intents[i].rev < rev =>
                intents'[i].state \notin {"pending", "sent"}
      /\ DOMAIN intents' = 1..n
      /\ intents'[n] = [kind |-> kind, rev |-> rev, state |-> "pending"]
  <2>1. kind \in InboxKinds \cup {"profile"}
    OBVIOUS
  <2> DEFINE aggregate == InboxKinds
  <2>2. intents' = Enqueue(aggregate, kind, rev) /\ intents \in Seq(IntentType)
    BY <1>1, <1>6
  <2> HIDE DEF aggregate
  <2>3. /\ intents' \in Seq(IntentType)
        /\ \A i \in DOMAIN intents :
             /\ i \in DOMAIN intents'
             /\ intents'[i].kind = intents[i].kind /\ intents'[i].rev = intents[i].rev
             /\ intents[i].kind \notin aggregate => intents'[i] = intents[i]
             /\ intents[i].kind \in aggregate /\ intents[i].rev < rev =>
                  intents'[i].state \notin {"pending", "sent"}
        /\ \/ /\ DOMAIN intents' = DOMAIN intents
              /\ \E i \in DOMAIN intents : intents[i].kind = kind /\ intents[i].rev = rev
           \/ /\ DOMAIN intents' = 1..(Len(intents) + 1)
              /\ intents'[Len(intents) + 1] = [kind |-> kind, rev |-> rev, state |-> "pending"]
    BY <2>1, <2>2, EnqueueFacts, ZenonT(40)
  <2> QED BY <1>2, <1>7, <2>3 DEF aggregate
<1>9. DOMAIN intents = 1..Len(intents) /\ Len(intents) \in Nat /\ n \in Nat /\ n \notin Inbox
  BY <1>1, <1>2 DEF Inbox
<1>10. /\ intents'[n].kind = kind /\ intents'[n].rev = rev /\ intents'[n].state = "pending"
      /\ n \in DOMAIN intents'
  BY <1>2, <1>8, <1>9
<1>11. Inbox' = Inbox \cup {n}
  <2>1. \A i : i \in DOMAIN intents' <=> i \in DOMAIN intents \/ i = n
    BY <1>2, <1>8, <1>9
  <2> QED BY <1>8, <1>10, <2>1 DEF Inbox
<1>12. Cardinality(Inbox') = rev
  BY <1>3, <1>4, <1>9, <1>11, FS_AddElement
<1>13. \A i \in Inbox : i \in 1..Len(intents) /\ i < n /\ ~ Live(i)'
  BY <1>2, <1>5, <1>8, <1>9 DEF Inbox, Live
<1>14. RevisionsOrdered'
  <2>1. \A i \in Inbox : intents'[i].rev = intents[i].rev
    BY <1>8 DEF Inbox
  <2>2. \A i \in Inbox' : intents'[i].rev <= Cardinality(Inbox')
    BY <1>4, <1>5, <1>10, <1>11, <1>12, <2>1
  <2>3. ASSUME NEW i \in Inbox', NEW j \in Inbox', i < j
        PROVE  intents'[i].rev < intents'[j].rev
    <3>1. i \in Inbox
      BY <1>9, <1>11, <1>13, <2>3
    <3>2. CASE j \in Inbox
      BY <1>1, <2>1, <2>3, <3>1, <3>2 DEF RevisionsOrdered
    <3>3. CASE j = n
      BY <1>5, <1>10, <2>1, <3>1, <3>3
    <3> QED BY <1>11, <3>2, <3>3
  <2> QED BY <2>2, <2>3 DEF RevisionsOrdered
<1>15. Latest(n)'
  BY <1>9, <1>11, <1>13 DEF Latest
<1>16. Wished(n)' /\ Told(n)'
  BY <1>10 DEF Wished, Told, Live
<1>17. WishCarried'
  BY <1>11, <1>15, <1>16 DEF WishCarried
<1>18. \A i \in Inbox' : Live(i)' => Latest(i)'
  BY <1>11, <1>13, <1>15
<1> QED BY <1>14, <1>17, <1>18 DEF WishInv

\* enable_inbox and disable_inbox.
LEMMA InboxStep ==
  ASSUME WishInv, NEW a \in Admins, EnableInbox(a) \/ DisableInbox(a)
  PROVE  WishInv'
<1> USE DEF MerchantType
<1>1. AdminTypeOK /\ intents \in Seq(IntentType)
  BY DEF WishInv, AdminTypeOK, IntentType
<1>2. relays' \in [Relays -> Directions]
  BY <1>1, SeededType DEF EnableInbox, DisableInbox, AdminTypeOK
<1>3. request' \in [Admins -> Operations \cup Modes \cup {NoRequest}]
  BY <1>1, RequestKept DEF EnableInbox, DisableInbox, Answer
<1>4. merchant' \in MerchantType
  <2>1. merchant \in MerchantType
    BY <1>1 DEF AdminTypeOK
  <2> QED BY <2>1 DEF EnableInbox, DisableInbox
<1>5. PICK kind \in InboxKinds :
        /\ intents' = Enqueue(InboxKinds, kind, InboxRevision)
        /\ wish' = (IF kind = "announce" THEN "on" ELSE "off")
  BY DEF EnableInbox, DisableInbox, InboxKinds
<1>6. intents' \in Seq(IntentType)
  <2>1. kind \in InboxKinds \cup {"profile"} /\ InboxRevision \in Nat
    BY <1>1, InboxFinite DEF InboxRevision, Inbox
  <2> DEFINE aggregate == InboxKinds
             rev == InboxRevision
  <2>2. intents' = Enqueue(aggregate, kind, rev) /\ rev \in Nat
    BY <1>5, <2>1
  <2> HIDE DEF aggregate, rev
  <2> QED BY <1>1, <2>1, <2>2, EnqueueFacts
<1>7. astray' = astray
  BY DEF EnableInbox, DisableInbox
<1>8. AdminTypeOK'
  BY <1>1, <1>2, <1>3, <1>4, <1>5, <1>6, <1>7 DEF AdminTypeOK, IntentType
<1>9. kind = (IF wish' = "on" THEN "announce" ELSE "withdraw")
  BY <1>5 DEF InboxKinds
<1> QED BY <1>5, <1>8, <1>9, WishChanges

\* An intent's new state: no other intent of the inbox is touched.
LEMMA IntentSet ==
  ASSUME WishInv, NEW i \in DOMAIN intents, NEW s \in Outcomes,
         intents' = [intents EXCEPT ![i].state = s]
  PROVE  /\ intents' \in Seq(IntentType) /\ Inbox' = Inbox
         /\ intents'[i].state = s
         /\ \A j \in Inbox : intents'[j].kind = intents[j].kind /\ intents'[j].rev = intents[j].rev
         /\ \A j \in Inbox : j # i => intents'[j] = intents[j]
<1>1. intents \in Seq(IntentType)
  BY DEF WishInv, AdminTypeOK, IntentType
<1>2. /\ intents' \in Seq(IntentType) /\ DOMAIN intents' = DOMAIN intents
      /\ intents'[i].kind = intents[i].kind /\ intents'[i].rev = intents[i].rev
      /\ intents'[i].state = s
      /\ \A j \in DOMAIN intents : j # i => intents'[j] = intents[j]
  BY <1>1, SetState
<1>3. \A j \in DOMAIN intents : intents'[j].kind = intents[j].kind /\ intents'[j].rev = intents[j].rev
  BY <1>2
<1> QED BY <1>2, <1>3 DEF Inbox

\* A publication that ends sets the inbox only for the last wish.
LEMMA PublicationStep ==
  ASSUME WishInv, NEW i \in DOMAIN intents,
         \/ Send(i) \/ Drop(i) \/ Retry(i)
         \/ \E outcome \in {"published", "failed", "pending"} : Settle(i, outcome)
  PROVE  WishInv'
<1> USE DEF MerchantType
<1>1. AdminTypeOK /\ RevisionsOrdered
  BY DEF WishInv
<1>2. PICK s \in Outcomes : intents' = [intents EXCEPT ![i].state = s]
  BY DEF Send, Drop, Retry, Settle, Outcomes
<1>3. /\ intents' \in Seq(IntentType) /\ Inbox' = Inbox
      /\ intents'[i].state = s
      /\ \A j \in Inbox : intents'[j].kind = intents[j].kind /\ intents'[j].rev = intents[j].rev
      /\ \A j \in Inbox : j # i => intents'[j] = intents[j]
  BY <1>2, IntentSet
<1>4. merchant' \in MerchantType
  <2>1. CASE merchant' = merchant
    BY <1>1, <2>1 DEF AdminTypeOK
  <2>2. ASSUME NEW outcome \in {"published", "failed", "pending"}, Settle(i, outcome)
        PROVE  merchant' \in MerchantType
    <3> DEFINE b == InboxAfter(intents[i].kind, outcome)
               t == StateAfter(intents[i].kind, outcome)
    <3>1. b \in {"off", "pending", "active", "error", "deactivating"}
      BY <1>1 DEF InboxAfter, AdminTypeOK
    <3>2. t \in {"none", "draft", "publication_pending", "active", "deactivating"}
      BY <1>1 DEF StateAfter, AdminTypeOK
    <3>3. merchant' = [merchant EXCEPT !.inbox = b, !.state = t]
      BY <2>2 DEF Settle
    <3> HIDE DEF b, t
    <3> QED BY <1>1, <3>1, <3>2, <3>3 DEF AdminTypeOK
  <2> QED BY <2>1, <2>2 DEF Send, Drop, Retry
<1>5. AdminTypeOK'
  <2>1. UNCHANGED <<relays, request, wish>>
    BY DEF Send, Drop, Retry, Settle
  <2>2. astray' \subseteq {"retried", "unrendered"}
    BY <1>1 DEF Send, Drop, Retry, Settle, AdminTypeOK
  <2> QED BY <1>1, <1>3, <1>4, <2>1, <2>2 DEF AdminTypeOK, IntentType
<1>6. wish' = wish /\ (astray' = {} => astray = {})
  BY <1>1 DEF Send, Drop, Retry, Settle, AdminTypeOK
<1>7. i \notin Inbox => merchant'.inbox = merchant.inbox
  <2>1. CASE merchant' = merchant
    BY <2>1
  <2>2. ASSUME NEW outcome \in {"published", "failed", "pending"}, Settle(i, outcome), i \notin Inbox
        PROVE  merchant'.inbox = merchant.inbox
    <3>1. intents[i].kind \notin InboxKinds
      BY <2>2 DEF Inbox
    <3>2. InboxAfter(intents[i].kind, outcome) = merchant.inbox
      BY <3>1 DEF InboxAfter, InboxKinds
    <3> QED BY <1>1, <2>2, <3>2 DEF Settle, AdminTypeOK
  <2> QED BY <2>1, <2>2 DEF Send, Drop, Retry
<1>8. ASSUME astray' = {}, i \in Inbox
      PROVE  /\ Live(i) /\ Latest(i)
             /\ \/ Live(i)' /\ merchant'.inbox = merchant.inbox
                \/ /\ s = "published"
                   /\ merchant'.inbox = (IF intents[i].kind = "announce" THEN "active" ELSE "off")
                \/ s = "failed" /\ merchant'.inbox = "error"
  <2>1. astray = {} /\ intents[i].kind \in InboxKinds
    BY <1>6, <1>8 DEF Inbox
  <2>2. ~ Retry(i)
    BY <1>8, <2>1 DEF Retry
  <2>3. Live(i) /\ Latest(i)
    BY <1>8, <2>1, <2>2 DEF Send, Drop, Settle, Live, WishInv
  <2>4. ~ Drop(i)
    <3> SUFFICES ASSUME Drop(i) PROVE FALSE
      OBVIOUS
    <3>1. intents[i].kind # "announce"
      BY <1>8 DEF Drop
    <3>2. PICK j \in DOMAIN intents :
            intents[j].kind = intents[i].kind /\ intents[j].rev > intents[i].rev
      BY <3>1 DEF Drop, Renders
    <3>3. j \in Inbox
      BY <2>1, <3>2 DEF Inbox
    <3>4. i \in Nat /\ j \in Nat /\ intents[i].rev \in Nat /\ intents[j].rev \in Nat
      <4>1. intents \in Seq(IntentType)
        BY <1>1 DEF AdminTypeOK, IntentType
      <4>2. DOMAIN intents \subseteq Nat /\ \A k \in DOMAIN intents : intents[k] \in IntentType
        BY <4>1
      <4>3. i \in DOMAIN intents /\ j \in DOMAIN intents
        BY <3>2
      <4> QED BY <4>2, <4>3 DEF IntentType
    <3>5. j <= i
      BY <2>3, <3>3 DEF Latest
    <3>6. j < i
      BY <3>2, <3>4, <3>5
    <3> QED BY <1>1, <1>8, <3>2, <3>3, <3>4, <3>6 DEF RevisionsOrdered
  <2>5. CASE Send(i)
    <3>1. "sent" \in Outcomes /\ intents' = [intents EXCEPT ![i].state = "sent"]
      BY <2>5 DEF Send, Outcomes
    <3>2. intents'[i].state = "sent"
      BY <3>1, IntentSet
    <3> QED BY <2>3, <2>5, <3>2 DEF Send, Live
  <2>6. ASSUME NEW outcome \in {"published", "failed", "pending"}, Settle(i, outcome)
        PROVE  /\ s = outcome
               /\ \/ outcome = "pending" /\ merchant'.inbox = merchant.inbox
                  \/ /\ outcome = "published"
                     /\ merchant'.inbox = (IF intents[i].kind = "announce" THEN "active" ELSE "off")
                  \/ outcome = "failed" /\ merchant'.inbox = "error"
    <3>1. outcome \in Outcomes /\ intents' = [intents EXCEPT ![i].state = outcome]
      BY <2>6 DEF Settle, Outcomes
    <3>2. intents'[i].state = outcome
      BY <3>1, IntentSet
    <3>3. merchant'.inbox = InboxAfter(intents[i].kind, outcome)
      BY <1>1, <2>6 DEF Settle, AdminTypeOK
    <3> QED BY <1>3, <2>1, <3>2, <3>3 DEF InboxAfter, InboxKinds
  <2>7. CASE \E outcome \in {"published", "failed", "pending"} : Settle(i, outcome)
    BY <1>3, <2>3, <2>6, <2>7 DEF Live
  <2> QED BY <2>2, <2>4, <2>5, <2>7
<1>9. ASSUME astray' = {}, NEW j \in Inbox
      PROVE  /\ Live(j)' => Live(j)
             /\ Latest(j) /\ Wished(j) /\ Told(j) => Told(j)'
  <2>1. CASE j = i
    <3>1. Live(j)
      BY <1>8, <1>9, <2>1
    <3>2. Wished(j) => Told(j)'
      BY <1>3, <1>6, <1>8, <1>9, <2>1 DEF Wished, Told
    <3> QED BY <3>1, <3>2
  <2>2. CASE j # i /\ i \notin Inbox
    BY <1>3, <1>6, <1>7, <2>2 DEF Live, Told
  <2>3. CASE j # i /\ i \in Inbox
    <3>1. ~ Latest(j)
      <4>1. Latest(i) /\ DOMAIN intents \subseteq Nat
        BY <1>1, <1>8, <1>9, <2>3 DEF AdminTypeOK
      <4> QED BY <2>3, <4>1 DEF Latest, Inbox
    <3> QED BY <1>3, <2>3, <3>1 DEF Live
  <2> QED BY <2>1, <2>2, <2>3
<1>10. Inbox = {} => merchant'.inbox = merchant.inbox
  BY <1>7
<1> QED BY <1>3, <1>5, <1>6, <1>9, <1>10, WishKept

\* Every step of the merchant's life keeps the invariant.
LEMMA WishStep == WishInv /\ [AdminNext]_adminVars => WishInv'
<1> SUFFICES ASSUME WishInv, [AdminNext]_adminVars
             PROVE  WishInv'
  OBVIOUS
<1>1. ASSUME UNCHANGED adminVars
      PROVE  WishInv'
  <2>1. AdminTypeOK'
    BY <1>1 DEF adminVars, WishInv, AdminTypeOK
  <2> QED BY <1>1, <2>1, ElsewhereKeeps DEF adminVars
<1>2. CASE CreateMerchant
  BY <1>2, PlainStep
<1>3. ASSUME NEW a \in Admins,
             \/ \E op \in Operations \cup Modes : Read(a, op)
             \/ Refuse(a) \/ BeginDeactivation(a)
             \/ \E config \in Configs : SaveRelays(a, config)
             \/ \E mode \in Modes : SetMode(a, mode)
      PROVE  WishInv'
  BY <1>3, PlainStep
<1>4. ASSUME NEW a \in Admins, EditProfile(a) \/ ImportKey(a) \/ Publish(a)
      PROVE  WishInv'
  BY <1>4, ProfileStep
<1>5. ASSUME NEW a \in Admins, EnableInbox(a) \/ DisableInbox(a)
      PROVE  WishInv'
  BY <1>5, InboxStep
<1>6. ASSUME NEW i \in DOMAIN intents,
             \/ Send(i) \/ Drop(i) \/ Retry(i)
             \/ \E outcome \in {"published", "failed", "pending"} : Settle(i, outcome)
      PROVE  WishInv'
  BY <1>6, PublicationStep
<1>7. CASE AdminNext
  BY <1>2, <1>3, <1>4, <1>5, <1>6, <1>7 DEF AdminNext
<1> QED BY <1>1, <1>7

-----------------------------------------------------------------------------
\* The merchant's wish: the theorems

\* The invariant holds in every reachable state of a merchant's life.
THEOREM WishInvariant == AdminSpec => []WishInv
BY WishInit, WishStep, PTL DEF AdminSpec

\* Once nothing of the inbox is left to publish, the row is as the merchant has
\* asked last or shows an error, whatever was under way when the wish changed
\* (_inbox_revision, _maybe_update_inbox_state).
THEOREM InboxSettlesAsWished == AdminSpec => []LastWishWins
BY WishInvariant, WishParts, PTL

\* The sessions of the inbox add nothing to the merchant's life but reads of it.
THEOREM SessionsOnlyRead == Spec => AdminSpec
<1>1. Init => AdminInit
  BY DEF Init
<1>2. SessionNext => UNCHANGED adminVars
  <2>1. ASSUME NEW r \in Relays, NEW e \in Events, NEW made \in (1 - Back)..MaxTime,
               Store(r, e, made)
        PROVE  UNCHANGED adminVars
    BY <2>1 DEF Store
  <2>2. ASSUME NEW p \in Listeners, NEW r \in Relays,
               \/ Open(p, r) \/ OpenFails(p, r) \/ Ask(p, r) \/ Register(p, r)
               \/ Resubscribe(p, r) \/ Reconnect(p, r) \/ Closed(p, r) \/ ClosedUnheard(p, r)
               \/ Close(p, r) \/ HandleEose(p, r) \/ \E e \in Events : HandleEvent(p, r, e)
        PROVE  UNCHANGED adminVars
    BY <2>2 DEF Open, OpenFails, Ask, Register, Resubscribe, Reconnect, Closed, ClosedUnheard,
                Close, HandleEose, HandleEvent
  <2>3. ASSUME NEW p \in Listeners, SyncRelays(p) \/ Die(p)
        PROVE  UNCHANGED adminVars
    BY <2>3 DEF SyncRelays, Die
  <2>4. Tick => UNCHANGED adminVars
    BY DEF Tick
  <2> QED BY <2>1, <2>2, <2>3, <2>4 DEF SessionNext
<1>3. [Next]_vars => [AdminNext]_adminVars
  BY <1>2 DEF Next, vars
<1> QED BY <1>1, <1>3, PTL DEF Spec, AdminSpec

\* So the wish wins beside any number of processes that listen.
THEOREM WishWinsBesideSessions == Spec => []LastWishWins
BY SessionsOnlyRead, InboxSettlesAsWished, PTL

===============================================================================
