----------------------------- MODULE InboxProofs ------------------------------
(***************************************************************************)
(* Theorems of TaskLease and Inbox for any set of processes, tasks,        *)
(* messages, wraps and orders.                                             *)
(***************************************************************************)
EXTENDS Inbox, TLAPS

-----------------------------------------------------------------------------
\* Leases and turns

Turns == {"none", "current", "stale", "done"}
LeaseRow == [holder : Processes \cup {Nobody}, live : BOOLEAN]

\* A new holder: its pass is current, another one that was is stale.
LEMMA TakeTurns ==
  ASSUME LeaseTypeOK, NEW p \in Processes, NEW t \in Tasks, Take(p, t)
  PROVE  /\ LeaseTypeOK' /\ turn'[p][t] = "current"
         /\ \A q \in Processes, u \in Tasks : u # t => turn'[q][u] = turn[q][u]
         /\ \A q \in Processes \ {p} :
              turn'[q][t] = (IF turn[q][t] = "current" THEN "stale" ELSE turn[q][t])
<1>1. turn \in [Processes -> [Tasks -> Turns]] /\ lease \in [Tasks -> LeaseRow]
  BY DEF LeaseTypeOK, Turns, LeaseRow
<1>2. [holder |-> p, live |-> TRUE] \in LeaseRow
  BY DEF LeaseRow
<1>3. lease' \in [Tasks -> LeaseRow]
  BY <1>1, <1>2 DEF Take
<1>4. \A q \in Processes :
        /\ [turn[q] EXCEPT ![t] = "current"] \in [Tasks -> Turns]
        /\ [turn[q] EXCEPT ![t] = "stale"] \in [Tasks -> Turns]
  BY <1>1 DEF Turns
<1>5. turn' = [q \in Processes |->
        IF q = p THEN [turn[q] EXCEPT ![t] = "current"]
        ELSE IF turn[q][t] = "current" THEN [turn[q] EXCEPT ![t] = "stale"]
        ELSE turn[q]]
  BY DEF Take
<1>6. turn' \in [Processes -> [Tasks -> Turns]]
  BY <1>1, <1>4, <1>5
<1>7. turn'[p][t] = "current" /\ \A u \in Tasks : u # t => turn'[p][u] = turn[p][u]
  BY <1>1, <1>5
<1>8. \A q \in Processes \ {p} :
        /\ turn'[q][t] = (IF turn[q][t] = "current" THEN "stale" ELSE turn[q][t])
        /\ \A u \in Tasks : u # t => turn'[q][u] = turn[q][u]
  BY <1>1, <1>5
<1> QED BY <1>3, <1>6, <1>7, <1>8 DEF LeaseTypeOK, Turns, LeaseRow, Take

\* One cell of the table of turns.
LEMMA TurnCell ==
  ASSUME LeaseTypeOK, NEW p \in Processes, NEW t \in Tasks, NEW s \in Turns,
         turn' = [turn EXCEPT ![p][t] = s]
  PROVE  /\ turn' \in [Processes -> [Tasks -> Turns]] /\ turn'[p][t] = s
         /\ \A q \in Processes, u \in Tasks : q # p \/ u # t => turn'[q][u] = turn[q][u]
<1>1. turn \in [Processes -> [Tasks -> Turns]]
  BY DEF LeaseTypeOK, Turns
<1> QED BY <1>1

\* A pass that ends.
LEMMA LeaveTurns ==
  ASSUME LeaseTypeOK, NEW p \in Processes, NEW t \in Tasks, Leave(p, t)
  PROVE  /\ LeaseTypeOK' /\ turn'[p][t] = "none"
         /\ \A q \in Processes, u \in Tasks : q # p \/ u # t => turn'[q][u] = turn[q][u]
BY TurnCell DEF Leave, LeaseTypeOK, Turns

\* A process that dies.
LEMMA RestartTurns ==
  ASSUME LeaseTypeOK, NEW p \in Processes, Restart(p)
  PROVE  /\ LeaseTypeOK' /\ \A t \in Tasks : turn'[p][t] = "none"
         /\ \A q \in Processes \ {p} : turn'[q] = turn[q]
<1>1. turn \in [Processes -> [Tasks -> Turns]] /\ lease \in [Tasks -> LeaseRow]
  BY DEF LeaseTypeOK, Turns, LeaseRow
<1>2. Idle \in [Tasks -> Turns] /\ \A t \in Tasks : Idle[t] = "none"
  BY DEF Idle, Turns
<1>3. /\ turn' \in [Processes -> [Tasks -> Turns]] /\ turn'[p] = Idle
      /\ \A q \in Processes \ {p} : turn'[q] = turn[q]
  BY <1>1, <1>2 DEF Restart
<1>4. lease' \in [Tasks -> LeaseRow]
  <2>1. \A t \in Tasks : [lease[t] EXCEPT !.holder = Nobody] \in LeaseRow
    BY <1>1 DEF LeaseRow
  <2> QED BY <1>1, <2>1 DEF Restart
<1> QED BY <1>2, <1>3, <1>4 DEF Restart, LeaseTypeOK, Turns, LeaseRow

\* A lease that runs out.
LEMMA LapseTurns ==
  ASSUME LeaseTypeOK, NEW t \in Tasks, Lapse(t)
  PROVE  LeaseTypeOK' /\ turn' = turn
<1>1. [holder |-> Nobody, live |-> FALSE] \in LeaseRow /\ lease \in [Tasks -> LeaseRow]
  BY DEF LeaseRow, LeaseTypeOK
<1>2. lease' \in [Tasks -> LeaseRow]
  BY <1>1 DEF Lapse
<1> QED BY <1>2 DEF Lapse, LeaseTypeOK, LeaseRow

\* Every step of the leases keeps their types.
LEMMA LeaseTypes ==
  ASSUME LeaseTypeOK, Reconciliation \in Tasks, [LeaseNext]_leaseVars
  PROVE  LeaseTypeOK'
<1>1. ASSUME NEW p \in Processes, NEW t \in Tasks, Acquire(p, t) PROVE LeaseTypeOK'
  BY <1>1, TakeTurns DEF Acquire
<1>2. ASSUME NEW p \in Processes, Complete(p) PROVE LeaseTypeOK'
  <2>1. turn' \in [Processes -> [Tasks -> Turns]]
    BY <1>2, TurnCell DEF Complete, Turns
  <2> QED BY <1>2, <2>1 DEF Complete, LeaseTypeOK, Turns
<1>3. ASSUME NEW p \in Processes, MarkReady(p) PROVE LeaseTypeOK'
  <2>1. turn' \in [Processes -> [Tasks -> Turns]]
    BY <1>3, TurnCell DEF MarkReady, Turns
  <2> QED BY <1>3, <2>1 DEF MarkReady, LeaseTypeOK, Turns
<1>4. ASSUME NEW p \in Processes, NoticeComplete(p) PROVE LeaseTypeOK'
  BY <1>4 DEF NoticeComplete, LeaseTypeOK
<1>5. CASE UNCHANGED leaseVars
  BY <1>5 DEF leaseVars, LeaseTypeOK
<1> QED BY <1>1, <1>2, <1>3, <1>4, <1>5, LeaveTurns, LapseTurns, RestartTurns
        DEF LeaseNext, LeaseStep, ReadyStep

\* A step makes no pass stale that may write.
LEMMA FencedNotStale ==
  ASSUME LeaseTypeOK, Reconciliation \in Tasks, LeaseNext,
         NEW p \in Processes, NEW t \in Tasks, Fenced(p, t)
  PROVE  turn'[p][t] # "stale"
<1>1. turn[p][t] = "current" /\ lease[t].live /\ lease[t].holder = p
  BY DEF Fenced
<1>2. ASSUME NEW q \in Processes, NEW u \in Tasks, Acquire(q, u)
      PROVE  turn'[p][t] # "stale"
  <2>1. u = t => q = p
    BY <1>1, <1>2 DEF Acquire
  <2> QED BY <1>1, <1>2, <2>1, TakeTurns DEF Acquire
<1>3. ASSUME NEW q \in Processes, NEW u \in Tasks, Leave(q, u)
      PROVE  turn'[p][t] # "stale"
  BY <1>1, <1>3, LeaveTurns
<1>4. ASSUME NEW u \in Tasks, Lapse(u) PROVE turn'[p][t] # "stale"
  BY <1>1, <1>4, LapseTurns
<1>5. ASSUME NEW q \in Processes, Complete(q) \/ MarkReady(q) \/ NoticeComplete(q)
      PROVE  turn'[p][t] # "stale"
  BY <1>1, <1>5, TurnCell DEF Complete, MarkReady, NoticeComplete, Turns
<1>6. ASSUME NEW q \in Processes, Restart(q) PROVE turn'[p][t] # "stale"
  BY <1>1, <1>6, RestartTurns
<1> QED BY <1>2, <1>3, <1>4, <1>5, <1>6 DEF LeaseNext, LeaseStep, ReadyStep

\* The types of the leases, from the start.
LEMMA LeaseInitTypes == LeaseInit => LeaseTypeOK
BY DEF LeaseInit, LeaseTypeOK, Idle

-----------------------------------------------------------------------------
\* The inductive invariant of the intake

\* The steps of a pass that has begun to dispatch its row.
Dispatching == {"taken", "begin", "reject", "ask", "cancel", "mark", "drop", "refuse", "reply"}
Steps == {"idle", "listed"} \cup Dispatching

RowType == [rumor : Rumors \cup {NoRumor},
            state : Ended \cup {"none", "received", "validated"},
            keyed : BOOLEAN, muted : BOOLEAN]
JobType == [step : Steps, wrap : Wraps \cup {NoWrap}, late : BOOLEAN]
OrderType == [state : ORDER_STATES \cup {"none"}, by : Rumors \cup {NoRumor}]

\* TypeOK without its clause about the rumor ids, which OneRow has in full.
Types ==
  /\ LeaseTypeOK
  /\ row \in [Wraps -> RowType]
  /\ blocked \subseteq Senders
  /\ order \in [Orders -> OrderType]
  /\ told \in [Rumors -> 0..2] /\ asked \subseteq Orders /\ taken \in [Wraps -> 0..2]
  /\ resumed \subseteq Orders /\ replies \subseteq Wraps
  /\ job \in [Passes -> JobType]
  /\ unasked \in [Processes -> SUBSET Orders]

Dispatches(d) == job[d].step \in Dispatching

\* A task has one pass whose token is the row's; a pass that works on a row has
\* been given a token, and one that comes late to its row has lost it.
JobsSound ==
  /\ \A t \in Tasks : \A p, q \in Processes :
       turn[p][t] = "current" /\ turn[q][t] = "current" => p = q
  /\ \A d \in Passes :
       /\ At(d, "idle") => job[d] = NoJob
       /\ ~ At(d, "idle") =>
            job[d].wrap \in Wraps /\ turn[d[1]][d[2]] \in {"current", "stale"}
       /\ job[d].late => turn[d[1]][d[2]] = "stale"

\* A rumor id, once given, stays with its row unless the author is muted.
Holds(w) == row[w].keyed \/ taken[w] > 0

RowsSound ==
  \A w \in Wraps :
    /\ row[w].rumor = NoRumor => row[w].state = "none" /\ taken[w] = 0
    /\ row[w].state = "none" => ~ row[w].keyed /\ ~ row[w].muted
    /\ row[w].state \in {"validated", "processed", "quarantined"} => row[w].keyed
    /\ taken[w] > 0 => row[w].keyed \/ Author[row[w].rumor] \in blocked
    /\ w \in replies => taken[w] > 0

\* A rumor id belongs to one row, also when that row has been deleted since.
OneRow ==
  \A w, x \in Wraps : Holds(w) /\ Holds(x) /\ row[w].rumor = row[x].rumor => w = x

\* What is dispatched has a rumor id or was deleted; while a row was taken once,
\* one pass dispatches it.
WorkSound ==
  /\ \A d \in Passes :
       /\ ~ At(d, "idle") => Rumor(d) \in Rumors
       /\ Dispatches(d) =>
            /\ taken[job[d].wrap] > 0
            /\ row[job[d].wrap].keyed \/ row[job[d].wrap].state = "none"
  /\ \A d, e \in Passes :
       Dispatches(d) /\ Dispatches(e) /\ job[d].wrap = job[e].wrap /\ taken[job[d].wrap] = 1
         => d = e

\* What is recorded or ordered came from a row that was taken, and not yet from
\* one that was taken just now for the first time.
SourcesSound ==
  /\ \A r \in Rumors : told[r] > 0 => \E w \in Wraps : row[w].rumor = r /\ taken[w] > 0
  /\ \A o \in Orders :
       /\ order[o].state = "none" <=> order[o].by = NoRumor
       /\ order[o].by # NoRumor =>
            \E w \in Wraps : row[w].rumor = order[o].by /\ taken[w] > 0
  /\ \A d \in Passes :
       At(d, "taken") /\ taken[job[d].wrap] = 1 =>
         told[Rumor(d)] = 0 /\ order[OrderOf(d)].by # Rumor(d)
  /\ RecordedOnce

\* The message has taken effect.
Took(r) ==
  /\ Kind[r] = "order" => order[About[r]].state # "none"
  /\ Kind[r] = "dm" => told[r] > 0

\* Each step of a dispatch stands on the ones before it.
EffectsSound ==
  /\ \A d \in Passes :
       /\ At(d, "mark") => Took(Rumor(d))
       /\ job[d].step \in {"begin", "reject", "ask"} =>
            /\ Kind[Rumor(d)] = "order"
            /\ order[OrderOf(d)].state # "none" /\ order[OrderOf(d)].by = Rumor(d)
       /\ At(d, "cancel") => Kind[Rumor(d)] = "cancel"
  /\ \A w \in Wraps : row[w].state = "processed" => Took(row[w].rumor)

IInv == Types /\ JobsSound /\ RowsSound /\ OneRow /\ WorkSound /\ SourcesSound /\ EffectsSound

\* The order the message of a row taken once has placed, untouched by others.
Own(w) == /\ taken[w] = 1 /\ About[row[w].rumor] \notin resumed
          /\ order[About[row[w].rumor]].by = row[w].rumor

\* A refusal is on its way only when the order is closed, or about to be.
RefusalsSound ==
  /\ \A d \in Passes : Dispatches(d) /\ Own(job[d].wrap) =>
       /\ At(d, "reject") => order[OrderOf(d)].state \in {"received", "rejected", "cancelled"}
       /\ job[d].step \in {"refuse", "reply"} =>
            order[OrderOf(d)].state \in {"rejected", "cancelled"}
  /\ \A w \in replies, d \in Passes : taken[w] = 1 => ~ (Dispatches(d) /\ job[d].wrap = w)
  /\ RejectedIsRejected

-----------------------------------------------------------------------------
\* What the steps do to the jobs and the rows

\* A pass goes on with its row: only its step changes.
LEMMA GoDoes ==
  ASSUME job \in [Passes -> JobType], NEW d \in Passes, NEW s \in Steps, Go(d, s)
  PROVE  /\ job' \in [Passes -> JobType]
         /\ job'[d].step = s /\ job'[d].wrap = job[d].wrap /\ job'[d].late = job[d].late
         /\ \A e \in Passes \ {d} : job'[e] = job[e]
<1> DEFINE j == [job[d] EXCEPT !.step = s]
<1>1. /\ j \in JobType /\ j.step = s /\ j.wrap = job[d].wrap /\ j.late = job[d].late
  BY DEF JobType
<1>2. job' = [job EXCEPT ![d] = j]
  BY DEF Go
<1> HIDE DEF j
<1> QED BY <1>1, <1>2

\* A pass takes a row.
LEMMA InHandDoes ==
  ASSUME job \in [Passes -> JobType], NEW d \in Passes, NEW w \in Wraps, NEW s \in Steps,
         InHand(d, w, s)
  PROVE  /\ job' \in [Passes -> JobType]
         /\ job'[d].step = s /\ job'[d].wrap = w /\ job'[d].late = FALSE
         /\ \A e \in Passes \ {d} : job'[e] = job[e]
<1> DEFINE j == [step |-> s, wrap |-> w, late |-> FALSE]
<1>1. j \in JobType /\ j.step = s /\ j.wrap = w /\ j.late = FALSE
  BY DEF JobType
<1>2. job' = [job EXCEPT ![d] = j]
  BY DEF InHand
<1> HIDE DEF j
<1> QED BY <1>1, <1>2

\* A pass without a row is idle.
LEMMA NoJobDoes ==
  /\ NoJob \in JobType /\ NoJob.step = "idle" /\ NoJob.wrap = NoWrap /\ NoJob.late = FALSE
  /\ "idle" \notin Dispatching
BY DEF NoJob, JobType, Steps, Dispatching

\* A pass lets go of its row.
LEMMA DropDoes ==
  ASSUME job \in [Passes -> JobType], NEW d \in Passes, job' = [job EXCEPT ![d] = NoJob]
  PROVE  /\ job' \in [Passes -> JobType] /\ job'[d] = NoJob
         /\ \A e \in Passes \ {d} : job'[e] = job[e]
BY NoJobDoes

\* A pass writes its row: the other passes of its task that have it come late.
LEMMA WriteDoes ==
  ASSUME job \in [Passes -> JobType], row \in [Wraps -> RowType], NEW d \in Passes,
         job[d].wrap \in Wraps, NEW now \in RowType, NEW next \in JobType, Write(d, now, next)
  PROVE  /\ job' \in [Passes -> JobType] /\ job'[d] = next
         /\ \A e \in Passes \ {d} :
              /\ job'[e].step = job[e].step /\ job'[e].wrap = job[e].wrap
              /\ job'[e].late # job[e].late =>
                   job'[e].late /\ job[e].wrap = job[d].wrap /\ e[2] = d[2]
         /\ row' \in [Wraps -> RowType] /\ row'[job[d].wrap] = now
         /\ \A w \in Wraps \ {job[d].wrap} : row'[w] = row[w]
<1> DEFINE after(e) == [job[e] EXCEPT !.late = TRUE]
<1>1. \A e \in Passes : /\ after(e) \in JobType /\ after(e).step = job[e].step
                        /\ after(e).wrap = job[e].wrap /\ after(e).late
  BY DEF JobType
<1>2. /\ row' = [row EXCEPT ![job[d].wrap] = now]
      /\ job' = [e \in Passes |->
           IF e = d THEN next
           ELSE IF job[e].wrap = job[d].wrap /\ e[2] = d[2] THEN after(e) ELSE job[e]]
  BY DEF Write
<1> HIDE DEF after
<1>3. row' \in [Wraps -> RowType] /\ row'[job[d].wrap] = now
      /\ \A w \in Wraps \ {job[d].wrap} : row'[w] = row[w]
  BY <1>2
<1>4. job' \in [Passes -> JobType] /\ job'[d] = next
  BY <1>1, <1>2
<1>5. \A e \in Passes \ {d} :
        job'[e] = IF job[e].wrap = job[d].wrap /\ e[2] = d[2] THEN after(e) ELSE job[e]
  BY <1>2
<1> QED BY <1>1, <1>3, <1>4, <1>5

\* A mark changes the state of a row that is there.
LEMMA MarkedDoes ==
  ASSUME NEW r \in RowType, NEW s \in Ended \cup {"validated"}
  PROVE  /\ Marked(r, s) \in RowType /\ Marked(r, s).rumor = r.rumor
         /\ Marked(r, s).keyed = r.keyed
         /\ r.state = "none" => Marked(r, s) = r
         /\ r.state # "none" => Marked(r, s).state = s /\ Marked(r, s).muted = FALSE
BY DEF Marked, RowType

\* A deleted row keeps nothing but its content.
LEMMA DeletedDoes ==
  ASSUME NEW r \in RowType
  PROVE  /\ Deleted(r) \in RowType /\ Deleted(r).rumor = r.rumor
         /\ Deleted(r).keyed = FALSE /\ Deleted(r).state = "none" /\ Deleted(r).muted = FALSE
BY DEF Deleted, NoRow, RowType

\* The row a write leaves behind: the one it found, an ended one, none, or one that
\* has been given its rumor id.
Rewritten(d, w) ==
  /\ row'[w].rumor = row[w].rumor
  /\ \/ row'[w] = row[w]
     \/ /\ row[w].state # "none" /\ row'[w].state \in Ended /\ row'[w].keyed = row[w].keyed
        /\ row'[w].state \in {"processed", "quarantined"} => Dispatches(d)
     \/ /\ row'[w].state = "none" /\ ~ row'[w].keyed /\ ~ row'[w].muted
        /\ Author[row[w].rumor] \in blocked
     \/ /\ row'[w].state = "validated" /\ row'[w].keyed
        /\ ~ Known(row[w].rumor) /\ Author[row[w].rumor] \notin blocked
  /\ row'[w] # row[w] /\ row'[w].state = "processed" => Took(row[w].rumor)

\* Pass d writes the row w it has in hand, and is done with it or answers the buyer.
Rewrites(d, w) ==
  /\ ~ At(d, "idle") /\ job[d].wrap = w /\ w \in Wraps
  /\ MayWrite(d) /\ UNCHANGED leaseVars
  /\ UNCHANGED <<blocked, order, told, asked, replies, history, unasked>>
  /\ row' \in [Wraps -> RowType] /\ \A x \in Wraps \ {w} : row'[x] = row[x]
  /\ Rewritten(d, w)
  /\ job' \in [Passes -> JobType]
  /\ \A e \in Passes \ {d} :
       /\ job'[e].step = job[e].step /\ job'[e].wrap = job[e].wrap
       /\ job'[e].late # job[e].late => job'[e].late /\ job[e].wrap = w /\ e[2] = d[2]
  /\ \/ job'[d] = NoJob
     \/ /\ At(d, "refuse") /\ job'[d].step = "reply"
        /\ job'[d].wrap = w /\ job'[d].late = job[d].late

\* The transaction that looks a message up writes one row, its own.
LEMMA ProcessRewrites ==
  ASSUME Types, JobsSound, WorkSound, NEW d \in Passes, MayWrite(d), ProcessReceived(d)
  PROVE  \E w \in Wraps : Rewrites(d, w)
<1> DEFINE w == job[d].wrap
<1>1. /\ w \in Wraps /\ row[w] \in RowType /\ ~ At(d, "idle")
  BY DEF Types, JobsSound, ProcessReceived, At
<1>2. PICK now \in IF row[w].state = "none" THEN {row[w]}
                   ELSE {Refused(w)} \cup
                        IF Author[row[w].rumor] \in blocked THEN Muted(w) ELSE {Deduplicated(w)} :
        Write(d, now, NoJob)
  BY Zenon DEF ProcessReceived
<1> DEFINE Ok(r) ==
      /\ r \in RowType /\ r.rumor = row[w].rumor
      /\ \/ r = row[w]
         \/ row[w].state # "none" /\ r.state \in {"rejected", "duplicate"} /\ r.keyed = row[w].keyed
         \/ r.state = "none" /\ ~ r.keyed /\ ~ r.muted /\ Author[row[w].rumor] \in blocked
         \/ /\ r.state = "validated" /\ r.keyed
            /\ ~ Known(row[w].rumor) /\ Author[row[w].rumor] \notin blocked
      /\ r.state = "processed" => r = row[w]
<1>3. Ok(now)
  <2>1. CASE row[w].state = "none"
    BY <1>1, <1>2, <2>1
  <2>2. CASE row[w].state # "none" /\ now = Refused(w)
    <3>1. "rejected" \in Ended \cup {"validated"}
      BY DEF Ended
    <3> QED BY <1>1, <2>2, <3>1, MarkedDoes DEF Refused
  <2>3. CASE /\ row[w].state # "none" /\ Author[row[w].rumor] \in blocked
             /\ now = [row[w] EXCEPT !.state = "rejected", !.muted = TRUE]
    BY <1>1, <2>3 DEF RowType, Ended
  <2>4. CASE /\ row[w].state # "none" /\ Author[row[w].rumor] \in blocked
             /\ now = Deleted(row[w])
    BY <1>1, <2>4, DeletedDoes
  <2>5. CASE /\ row[w].state # "none" /\ Author[row[w].rumor] \notin blocked
             /\ Known(row[w].rumor) /\ now = Marked(row[w], "duplicate")
    <3>1. "duplicate" \in Ended \cup {"validated"}
      BY DEF Ended
    <3> QED BY <1>1, <2>5, <3>1, MarkedDoes
  <2>6. CASE /\ row[w].state # "none" /\ Author[row[w].rumor] \notin blocked
             /\ ~ Known(row[w].rumor)
             /\ now = [Marked(row[w], "validated") EXCEPT !.keyed = TRUE]
    <3> DEFINE m == Marked(row[w], "validated")
    <3>1. m \in RowType /\ m.rumor = row[w].rumor /\ m.state = "validated"
      BY <1>1, <2>6, MarkedDoes
    <3>2. now = [m EXCEPT !.keyed = TRUE]
      BY <2>6
    <3> HIDE DEF m
    <3> QED BY <2>6, <3>1, <3>2 DEF RowType
  <2>7. row[w].state = "none" \/ now = Refused(w)
        \/ (Author[row[w].rumor] \in blocked /\ now \in Muted(w))
        \/ (Author[row[w].rumor] \notin blocked /\ now = Deduplicated(w))
    BY <1>2
  <2>8. now \in Muted(w) =>
          \/ now = [row[w] EXCEPT !.state = "rejected", !.muted = TRUE]
          \/ now = Deleted(row[w])
    BY DEF Muted
  <2>9. now = Deduplicated(w) =>
          \/ Known(row[w].rumor) /\ now = Marked(row[w], "duplicate")
          \/ ~ Known(row[w].rumor) /\ now = [Marked(row[w], "validated") EXCEPT !.keyed = TRUE]
    BY DEF Deduplicated
  <2> HIDE DEF Ok
  <2> QED BY <2>1, <2>2, <2>3, <2>4, <2>5, <2>6, <2>7, <2>8, <2>9
<1> HIDE DEF w
<1>4. /\ job' \in [Passes -> JobType] /\ job'[d] = NoJob
      /\ \A e \in Passes \ {d} :
           /\ job'[e].step = job[e].step /\ job'[e].wrap = job[e].wrap
           /\ job'[e].late # job[e].late => job'[e].late /\ job[e].wrap = w /\ e[2] = d[2]
      /\ row' \in [Wraps -> RowType] /\ row'[w] = now
      /\ \A x \in Wraps \ {w} : row'[x] = row[x]
  BY <1>1, <1>2, <1>3, WriteDoes, NoJobDoes DEF w, Types
<1>5. Rewritten(d, w)
  BY <1>3, <1>4 DEF Rewritten, Ended
<1>6. Rewrites(d, w)
  BY <1>1, <1>4, <1>5 DEF Rewrites, ProcessReceived, w
<1> QED BY <1>1, <1>6

\* Every mark of a dispatch.
LEMMA MarkRewrites ==
  ASSUME Types, JobsSound, WorkSound, EffectsSound, NEW d \in Passes, MayWrite(d),
         Quarantine(d) \/ SenderCopy(d) \/ Mark(d)
  PROVE  \E w \in Wraps : Rewrites(d, w)
<1> DEFINE w == job[d].wrap
<1>1. w \in Wraps /\ row[w] \in RowType /\ ~ At(d, "idle") /\ Dispatches(d)
  BY DEF Types, JobsSound, Quarantine, SenderCopy, Mark, At, Handling, Dispatches, Dispatching
<1>2. PICK s \in {"processed", "rejected", "quarantined"},
           next \in {NoJob, [job[d] EXCEPT !.step = "reply"]} :
        /\ Write(d, Marked(row[w], s), next)
        /\ s = "processed" => Took(row[w].rumor)
        /\ next = NoJob \/ At(d, "refuse")
  <2>1. CASE Quarantine(d)
    BY <2>1 DEF Quarantine, End
  <2>2. CASE SenderCopy(d)
    BY <2>2 DEF SenderCopy, End, Handling, Took, Rumor
  <2>3. CASE Mark(d)
    <3>1. At(d, "mark") => Took(row[w].rumor)
      BY DEF EffectsSound, Rumor
    <3> QED BY <2>3, <3>1 DEF Mark, End
  <2> QED BY <2>1, <2>2, <2>3
<1>11. PICK now : now = Marked(row[w], s)
  OBVIOUS
<1>3. /\ now \in RowType /\ now.rumor = row[w].rumor /\ now.keyed = row[w].keyed
      /\ row[w].state = "none" => now = row[w]
      /\ row[w].state # "none" => now.state = s
  BY <1>1, <1>2, <1>11, MarkedDoes DEF Ended
<1>4. /\ next \in JobType
      /\ next = NoJob \/ (next.step = "reply" /\ next.wrap = w /\ next.late = job[d].late)
  BY <1>2, NoJobDoes DEF Types, JobType, Steps, Dispatching
<1>5. Write(d, now, next)
  BY <1>2, <1>11
<1>10. job \in [Passes -> JobType] /\ row \in [Wraps -> RowType] /\ w = job[d].wrap
  BY DEF Types
<1> HIDE DEF w
<1>6. /\ job' \in [Passes -> JobType] /\ job'[d] = next
      /\ \A e \in Passes \ {d} :
           /\ job'[e].step = job[e].step /\ job'[e].wrap = job[e].wrap
           /\ job'[e].late # job[e].late => job'[e].late /\ job[e].wrap = w /\ e[2] = d[2]
      /\ row' \in [Wraps -> RowType] /\ row'[w] = now
      /\ \A x \in Wraps \ {w} : row'[x] = row[x]
  BY <1>1, <1>3, <1>4, <1>5, <1>10, WriteDoes
<1>7. Rewritten(d, w)
  BY <1>1, <1>2, <1>3, <1>6 DEF Rewritten, Ended
<1>8. UNCHANGED leaseVars /\ UNCHANGED <<blocked, order, told, asked, replies, history, unasked>>
  BY DEF Quarantine, SenderCopy, Mark
<1>9. Rewrites(d, w)
  BY <1>1, <1>2, <1>4, <1>6, <1>7, <1>8 DEF Rewrites, w
<1> QED BY <1>1, <1>9

-----------------------------------------------------------------------------
\* Leases, turns and jobs

\* A pass is a process and a task.
LEMMA PassParts ==
  ASSUME NEW d \in Passes
  PROVE  /\ d[1] \in Processes /\ d[2] \in Drains /\ d[2] \in Tasks
         /\ \A e \in Passes : e[1] = d[1] /\ e[2] = d[2] => e = d
<1>1. Passes \subseteq Processes \X Drains /\ Drains \subseteq Tasks
  BY InboxAssumption
<1> QED BY <1>1

\* What a pass may become while the leases stand still.
JobMoves(e) ==
  \/ job'[e] = job[e] \/ job'[e] = NoJob
  \/ /\ job'[e].step # "idle" /\ job'[e].wrap \in Wraps
     /\ turn[e[1]][e[2]] \in {"current", "stale"}
     /\ job'[e].late => turn[e[1]][e[2]] = "stale"

\* Jobs that move so keep to the tokens of their passes.
LEMMA JobsMove ==
  ASSUME JobsSound, UNCHANGED turn, \A e \in Passes : JobMoves(e)
  PROVE  JobsSound'
<1>1. ASSUME NEW e \in Passes
      PROVE  /\ At(e, "idle")' => job'[e] = NoJob
             /\ ~ At(e, "idle")' =>
                  job'[e].wrap \in Wraps /\ turn[e[1]][e[2]] \in {"current", "stale"}
             /\ job'[e].late => turn[e[1]][e[2]] = "stale"
  BY NoJobDoes DEF JobMoves, JobsSound, At
<1> QED BY <1>1 DEF JobsSound, At

\* A write makes only those late that have lost their lease.
LEMMA RewriteJobs ==
  ASSUME Types, JobsSound, NEW d \in Passes, NEW w \in Wraps, Rewrites(d, w)
  PROVE  JobsSound'
<1>1. turn[d[1]][d[2]] = "current" /\ UNCHANGED turn
  BY DEF Rewrites, MayWrite, Fenced, leaseVars
<1>2. ASSUME NEW e \in Passes \ {d} PROVE JobMoves(e)
  <2>1. /\ job'[e].step = job[e].step /\ job'[e].wrap = job[e].wrap
        /\ job'[e].late # job[e].late => job'[e].late /\ job[e].wrap = w /\ e[2] = d[2]
        /\ job'[e] \in JobType /\ job[e] \in JobType
    BY DEF Rewrites, Types
  <2>2. CASE job'[e].late = job[e].late
    <3>1. job'[e] = job[e]
      BY <2>1, <2>2 DEF JobType
    <3> QED BY <3>1 DEF JobMoves
  <2>3. CASE job'[e].late # job[e].late
    <3>1. job[e].step # "idle"
      BY <2>1, <2>3, NoJobDoes, InboxAssumption DEF JobsSound, At
    <3>2. job[e].wrap \in Wraps /\ turn[e[1]][e[2]] \in {"current", "stale"}
      BY <3>1 DEF JobsSound, At
    <3>3. turn[e[1]][e[2]] # "current"
      BY <1>1, <2>1, <2>3, PassParts DEF JobsSound
    <3> QED BY <2>1, <3>1, <3>2, <3>3 DEF JobMoves
  <2> QED BY <2>2, <2>3
<1>3. JobMoves(d)
  <2>1. /\ ~ At(d, "idle") /\ job[d].wrap \in Wraps
        /\ job[d].late => turn[d[1]][d[2]] = "stale"
    BY DEF Rewrites, JobsSound
  <2> QED BY <1>1, <2>1 DEF Rewrites, JobMoves
<1> QED BY <1>1, <1>2, <1>3, JobsMove

\* A pass that may write takes the next step on its row, or a row.
LEMMA GoJobs ==
  ASSUME Types, JobsSound, NEW d \in Passes, UNCHANGED turn, MayWrite(d),
         \/ ~ At(d, "idle") /\ \E s \in Dispatching : Go(d, s)
         \/ \E w \in Wraps, s \in {"listed", "taken"} : InHand(d, w, s)
  PROVE  JobsSound' /\ job' \in [Passes -> JobType]
<1>1. turn[d[1]][d[2]] = "current"
  BY DEF MayWrite, Fenced
<1>2. job \in [Passes -> JobType] /\ "idle" \notin Dispatching /\ Dispatching \subseteq Steps
      /\ {"listed", "taken"} \subseteq Steps \ {"idle"}
  BY DEF Types, Steps, Dispatching
<1>3. ASSUME ~ At(d, "idle"), NEW s \in Dispatching, Go(d, s)
      PROVE  (\A e \in Passes : JobMoves(e)) /\ job' \in [Passes -> JobType]
  BY <1>1, <1>2, <1>3, GoDoes DEF JobMoves, JobsSound
<1>4. ASSUME NEW w \in Wraps, NEW s \in {"listed", "taken"}, InHand(d, w, s)
      PROVE  (\A e \in Passes : JobMoves(e)) /\ job' \in [Passes -> JobType]
  <2>1. s \in Steps /\ s # "idle"
    BY <1>2
  <2>2. /\ job' \in [Passes -> JobType]
        /\ job'[d].step = s /\ job'[d].wrap = w /\ job'[d].late = FALSE
        /\ \A e \in Passes \ {d} : job'[e] = job[e]
    BY <1>2, <1>4, <2>1, InHandDoes
  <2> QED BY <1>1, <2>1, <2>2 DEF JobMoves
<1> QED BY <1>3, <1>4, JobsMove

\* A pass lets go of its row.
LEMMA DropJobs ==
  ASSUME Types, JobsSound, NEW d \in Passes, UNCHANGED turn, job' = [job EXCEPT ![d] = NoJob]
  PROVE  JobsSound' /\ job' \in [Passes -> JobType]
<1>1. job \in [Passes -> JobType]
  BY DEF Types
<1>2. \A e \in Passes : JobMoves(e)
  BY <1>1, DropDoes DEF JobMoves
<1> QED BY <1>1, <1>2, DropDoes, JobsMove

\* A process dies with its jobs.
LEMMA DieJobs ==
  ASSUME Types, JobsSound, NEW p \in Processes, Die(p)
  PROVE  JobsSound' /\ job' \in [Passes -> JobType] /\ LeaseTypeOK'
<1>1. /\ LeaseTypeOK' /\ \A t \in Tasks : turn'[p][t] = "none"
      /\ \A q \in Processes \ {p} : turn'[q] = turn[q]
  BY RestartTurns DEF Types, Die
<1>2. job' = [d \in Passes |-> IF d[1] = p THEN NoJob ELSE job[d]] /\ job \in [Passes -> JobType]
  BY DEF Die, Types
<1>3. job' \in [Passes -> JobType]
  BY <1>2, NoJobDoes
<1>4. \A d \in Passes : job'[d] = IF d[1] = p THEN NoJob ELSE job[d]
  BY <1>2
<1>5. ASSUME NEW d \in Passes
      PROVE  /\ At(d, "idle")' => job'[d] = NoJob
             /\ ~ At(d, "idle")' =>
                  job'[d].wrap \in Wraps /\ turn'[d[1]][d[2]] \in {"current", "stale"}
             /\ job'[d].late => turn'[d[1]][d[2]] = "stale"
  BY <1>1, <1>4, PassParts, NoJobDoes DEF JobsSound, At
<1>6. \A t \in Tasks : \A q, r \in Processes :
        turn'[q][t] = "current" /\ turn'[r][t] = "current" => q = r
  BY <1>1 DEF JobsSound
<1> QED BY <1>1, <1>3, <1>5, <1>6 DEF JobsSound, At

\* The leases move, the jobs do not.
LEMMA LeaseJobs ==
  ASSUME Types, JobsSound, UNCHANGED job,
         \/ \E d \in Passes : Acquire(d[1], d[2])
         \/ \E t \in Drains : Lapse(t)
         \/ \E d \in Passes : Free(d) /\ Leave(d[1], d[2])
  PROVE  JobsSound' /\ LeaseTypeOK'
<1>1. LeaseTypeOK
  BY DEF Types
<1>2. ASSUME NEW d \in Passes, Acquire(d[1], d[2]) PROVE JobsSound' /\ LeaseTypeOK'
  <2> DEFINE p == d[1]
             t == d[2]
  <2>1. p \in Processes /\ t \in Tasks
    BY PassParts
  <2>2. turn[p][t] = "none" /\ Take(p, t)
    BY <1>2 DEF Acquire
  <2> HIDE DEF p, t
  <2>3. /\ LeaseTypeOK' /\ turn'[p][t] = "current"
        /\ \A q \in Processes, u \in Tasks : u # t => turn'[q][u] = turn[q][u]
        /\ \A q \in Processes \ {p} :
             turn'[q][t] = (IF turn[q][t] = "current" THEN "stale" ELSE turn[q][t])
    BY <1>1, <2>1, <2>2, TakeTurns
  <2>4. \A u \in Tasks : \A q, r \in Processes :
          turn'[q][u] = "current" /\ turn'[r][u] = "current" => q = r
    BY <2>1, <2>3 DEF JobsSound
  <2>5. ASSUME NEW e \in Passes
        PROVE  /\ ~ At(e, "idle") => turn'[e[1]][e[2]] \in {"current", "stale"}
               /\ job[e].late => turn'[e[1]][e[2]] = "stale"
    <3>1. e[1] \in Processes /\ e[2] \in Tasks
      BY PassParts
    <3>2. /\ ~ At(e, "idle") => turn[e[1]][e[2]] \in {"current", "stale"}
          /\ job[e].late => turn[e[1]][e[2]] = "stale"
      BY DEF JobsSound
    <3>3. CASE e[1] = p /\ e[2] = t
      <4>1. At(e, "idle") /\ ~ job[e].late
        BY <2>2, <3>2, <3>3, NoJobDoes DEF JobsSound
      <4> QED BY <4>1
    <3>4. CASE e[1] # p \/ e[2] # t
      BY <2>3, <3>1, <3>2, <3>4
    <3> QED BY <3>3, <3>4
  <2> QED BY <2>3, <2>4, <2>5 DEF JobsSound, At
<1>3. ASSUME NEW t \in Drains, Lapse(t) PROVE JobsSound' /\ LeaseTypeOK'
  <2>1. t \in Tasks
    BY InboxAssumption
  <2> QED BY <1>1, <1>3, <2>1, LapseTurns DEF JobsSound, At
<1>4. ASSUME NEW d \in Passes, Free(d), Leave(d[1], d[2]) PROVE JobsSound' /\ LeaseTypeOK'
  <2>1. d[1] \in Processes /\ d[2] \in Tasks /\ \A e \in Passes : e[1] = d[1] /\ e[2] = d[2] => e = d
    BY PassParts
  <2>2. /\ LeaseTypeOK' /\ turn'[d[1]][d[2]] = "none"
        /\ \A q \in Processes, u \in Tasks : q # d[1] \/ u # d[2] => turn'[q][u] = turn[q][u]
    BY <1>1, <1>4, <2>1, LeaveTurns
  <2>3. \A u \in Tasks : \A q, r \in Processes :
          turn'[q][u] = "current" /\ turn'[r][u] = "current" => q = r
    BY <2>1, <2>2 DEF JobsSound
  <2>4. At(d, "idle") /\ ~ job[d].late
    BY <1>4, NoJobDoes DEF Free, JobsSound
  <2>5. ASSUME NEW e \in Passes
        PROVE  /\ ~ At(e, "idle") => turn'[e[1]][e[2]] \in {"current", "stale"}
               /\ job[e].late => turn'[e[1]][e[2]] = "stale"
    BY <2>1, <2>2, <2>4, PassParts DEF JobsSound
  <2> QED BY <2>2, <2>3, <2>5 DEF JobsSound, At
<1> QED BY <1>2, <1>3, <1>4

-----------------------------------------------------------------------------
\* Rows, records and effects

Content == RowsSound /\ OneRow /\ WorkSound /\ SourcesSound /\ EffectsSound

\* Nothing happens to the messages, but for answers; passes may give up.
Quiet ==
  /\ UNCHANGED <<row, order, told, history>> /\ blocked \subseteq blocked'
  /\ \A w \in Wraps : w \in replies' => taken[w] > 0
  /\ \A d \in Passes :
       \/ job'[d].step = "idle"
       \/ job'[d].step = job[d].step /\ job'[d].wrap = job[d].wrap

\* Where nothing happens to the messages the invariant stays.
LEMMA QuietKept ==
  ASSUME Content, Quiet
  PROVE  Content' /\ (RefusalsSound /\ UNCHANGED replies => RefusalsSound')
<1>1. UNCHANGED <<row, order, told, taken, resumed>>
  BY DEF Quiet, history
<1>2. \A d \in Passes : ~ At(d, "idle")' =>
        /\ job'[d].step = job[d].step /\ job'[d].wrap = job[d].wrap /\ ~ At(d, "idle")
        /\ Rumor(d)' = Rumor(d) /\ OrderOf(d)' = OrderOf(d)
  BY <1>1 DEF Quiet, At, Rumor, OrderOf
<1>3. \A d \in Passes : Dispatches(d)' => Dispatches(d) /\ ~ At(d, "idle")'
  BY <1>2, NoJobDoes DEF Dispatches, At
<1>4. RowsSound'
  BY <1>1 DEF Content, RowsSound, Quiet
<1>5. OneRow'
  BY <1>1 DEF Content, OneRow, Holds
<1>6. WorkSound'
  BY <1>1, <1>2, <1>3 DEF Content, WorkSound
<1>7. SourcesSound'
  <2>1. \A d \in Passes : At(d, "taken")' => At(d, "taken") /\ ~ At(d, "idle")'
    BY <1>2 DEF At
  <2>2. RecordedOnce'
    BY <1>1 DEF Content, SourcesSound, RecordedOnce
  <2>3. \A d \in Passes : At(d, "taken")' /\ taken'[job'[d].wrap] = 1 =>
          told'[Rumor(d)'] = 0 /\ order'[OrderOf(d)'].by # Rumor(d)'
    BY <1>1, <1>2, <2>1 DEF Content, SourcesSound
  <2> QED BY <1>1, <2>2, <2>3 DEF Content, SourcesSound
<1>8. EffectsSound'
  <2>1. \A r : Took(r)' <=> Took(r)
    BY <1>1 DEF Took
  <2>2. \A d \in Passes : At(d, "mark")' \/ At(d, "cancel")'
          \/ job'[d].step \in {"begin", "reject", "ask"} => ~ At(d, "idle")'
    BY DEF At
  <2> QED BY <1>1, <1>2, <2>1, <2>2 DEF Content, EffectsSound, At
<1>9. ASSUME RefusalsSound, UNCHANGED replies PROVE RefusalsSound'
  <2>1. \A w : Own(w)' <=> Own(w)
    BY <1>1 DEF Own
  <2>2. RejectedIsRejected'
    BY <1>1, <1>9 DEF RefusalsSound, RejectedIsRejected
  <2> QED BY <1>1, <1>2, <1>3, <1>9, <2>1, <2>2 DEF RefusalsSound, At
<1> QED BY <1>4, <1>5, <1>6, <1>7, <1>8, <1>9 DEF Content

\* Orders move on, but are not forgotten and keep the message that placed them.
OrdersKept ==
  \A o \in Orders :
    /\ order'[o].by = order[o].by
    /\ order'[o].state = "none" <=> order[o].state = "none"

\* What is left to do fits the message.
Fits(s, r) ==
  /\ s = "mark" => Took(r)
  /\ s \in {"begin", "reject", "ask"} =>
       Kind[r] = "order" /\ order[About[r]].state # "none" /\ order[About[r]].by = r
  /\ s = "cancel" => Kind[r] = "cancel"

\* A pass gives up, stays where it is, or goes on with its row.
Goes(d) ==
  \/ job'[d].step = "idle"
  \/ job'[d].step = job[d].step /\ job'[d].wrap = job[d].wrap
  \/ /\ Dispatches(d) /\ job'[d].step \in Dispatching \ {"taken"}
     /\ job'[d].wrap = job[d].wrap

\* What stays true of rows and jobs, whatever happens to orders and records.
LEMMA GoRows ==
  ASSUME RowsSound, OneRow, WorkSound, UNCHANGED <<row, blocked, replies, taken>>,
         \A d \in Passes : Goes(d)
  PROVE  /\ RowsSound' /\ OneRow' /\ WorkSound'
         /\ \A d \in Passes : ~ At(d, "idle")' => ~ At(d, "idle") /\ Rumor(d)' = Rumor(d)
         /\ \A d \in Passes : Dispatches(d)' => Dispatches(d) /\ job'[d].wrap = job[d].wrap
         /\ \A d \in Passes : At(d, "taken")' => At(d, "taken") /\ job'[d].wrap = job[d].wrap
<1>1. \A d \in Passes :
        /\ ~ At(d, "idle")' => ~ At(d, "idle") /\ job'[d].wrap = job[d].wrap
        /\ Dispatches(d)' => Dispatches(d) /\ ~ At(d, "idle")'
        /\ At(d, "taken")' => At(d, "taken") /\ ~ At(d, "idle")'
  BY NoJobDoes DEF Goes, At, Dispatches
<1>2. \A d \in Passes : ~ At(d, "idle")' => Rumor(d)' = Rumor(d)
  BY <1>1 DEF Rumor
<1>3. RowsSound' /\ OneRow'
  BY DEF RowsSound, OneRow, Holds
<1>4. WorkSound'
  BY <1>1, <1>2 DEF WorkSound
<1> QED BY <1>1, <1>2, <1>3, <1>4

\* A pass that fits what it goes on with keeps what is known of the effects.
LEMMA GoEffects ==
  ASSUME WorkSound, EffectsSound, UNCHANGED row, \A r \in Rumors : Took(r) => Took(r)',
         OrdersKept \/ (\A o \in Orders : order[o].state # "none" => order'[o] = order[o]),
         \A w \in Wraps : row[w].state = "processed" => row[w].rumor \in Rumors,
         \A d \in Passes : Goes(d),
         \A d \in Passes :
           ~ At(d, "idle")' /\ (job'[d].step # job[d].step \/ job'[d].wrap # job[d].wrap)
             => Fits(job[d].step, Rumor(d))'
  PROVE  EffectsSound'
<1>1. ASSUME NEW d \in Passes, ~ At(d, "idle")'
      PROVE  Fits(job[d].step, Rumor(d))'
  <2>1. CASE job'[d].step # job[d].step \/ job'[d].wrap # job[d].wrap
    BY <1>1, <2>1
  <2>2. CASE job'[d].step = job[d].step /\ job'[d].wrap = job[d].wrap
    <3>1. Rumor(d)' = Rumor(d) /\ ~ At(d, "idle") /\ Rumor(d) \in Rumors
      BY <1>1, <2>2 DEF Rumor, At, WorkSound
    <3>2. About[Rumor(d)] \in Orders
      BY <3>1, InboxAssumption
    <3>3. Fits(job[d].step, Rumor(d))
      BY DEF EffectsSound, Fits, At, OrderOf
    <3> QED BY <2>2, <3>1, <3>2, <3>3 DEF Fits, OrdersKept
  <2> QED BY <2>1, <2>2
<1>2. ASSUME NEW w \in Wraps, row'[w].state = "processed" PROVE Took(row[w].rumor)'
  BY <1>2 DEF EffectsSound
<1>3. \A d \in Passes : /\ At(d, "mark")' => ~ At(d, "idle")'
                        /\ At(d, "cancel")' => ~ At(d, "idle")'
                        /\ job'[d].step \in {"begin", "reject", "ask"} => ~ At(d, "idle")'
  BY DEF At
<1>4. \A d \in Passes : /\ At(d, "mark")' => Took(Rumor(d))'
                        /\ At(d, "cancel")' => Kind[Rumor(d)'] = "cancel"
  BY <1>1, <1>3 DEF Fits, At
<1>5. \A d \in Passes : job'[d].step \in {"begin", "reject", "ask"} =>
        /\ Kind[Rumor(d)'] = "order" /\ order'[OrderOf(d)'].state # "none"
        /\ order'[OrderOf(d)'].by = Rumor(d)'
  BY <1>1, <1>3 DEF Fits, OrderOf
<1> QED BY <1>2, <1>4, <1>5 DEF EffectsSound

\* Only passes that were there before stand before their first effect.
StillTaken ==
  \A d \in Passes : At(d, "taken")' => At(d, "taken") /\ job'[d].wrap = job[d].wrap

\* A step that records nothing leaves the sources as they were.
LEMMA GoSources ==
  ASSUME SourcesSound, UNCHANGED <<row, told, taken>>, OrdersKept, StillTaken, WorkSound
  PROVE  SourcesSound'
<1>1. RecordedOnce'
  BY DEF SourcesSound, RecordedOnce
<1>2. ASSUME NEW d \in Passes, At(d, "taken")', taken'[job'[d].wrap] = 1
      PROVE  told'[Rumor(d)'] = 0 /\ order'[OrderOf(d)'].by # Rumor(d)'
  <2>1. At(d, "taken") /\ Rumor(d)' = Rumor(d) /\ taken[job[d].wrap] = 1 /\ Rumor(d) \in Rumors
    BY <1>2 DEF StillTaken, Rumor, WorkSound, At
  <2>2. About[Rumor(d)] \in Orders
    BY <2>1, InboxAssumption
  <2> QED BY <2>1, <2>2 DEF SourcesSound, OrderOf, OrdersKept
<1>3. \A o \in Orders :
        /\ (order'[o].state = "none") <=> (order'[o].by = NoRumor)
        /\ order'[o].by # NoRumor =>
             \E w \in Wraps : row'[w].rumor = order'[o].by /\ taken'[w] > 0
  BY DEF SourcesSound, OrdersKept
<1>4. \A r \in Rumors : told'[r] > 0 => \E w \in Wraps : row'[w].rumor = r /\ taken'[w] > 0
  BY DEF SourcesSound
<1> QED BY <1>1, <1>2, <1>3, <1>4 DEF SourcesSound

\* Of two passes that hold the same message, taken once, one is the other.
LEMMA SameRumor ==
  ASSUME Types, RowsSound, OneRow, WorkSound, NEW d \in Passes, NEW e \in Passes,
         Dispatches(d), Dispatches(e), JobsSound,
         Rumor(d) = Rumor(e), taken[job[d].wrap] = 1 \/ taken[job[e].wrap] = 1
  PROVE  d = e
<1>1. job[d].wrap \in Wraps /\ job[e].wrap \in Wraps
  BY NoJobDoes DEF JobsSound, Dispatches, At
<1>2. job[d].wrap = job[e].wrap
  BY <1>1 DEF WorkSound, OneRow, Holds, Rumor
<1> QED BY <1>2 DEF WorkSound

\* A record is made of a message that had none, unless it was taken twice.
LEMMA TellSources ==
  ASSUME Types, JobsSound, RowsSound, OneRow, WorkSound, SourcesSound,
         NEW d \in Passes, At(d, "taken"), ~ At(d, "taken")', StillTaken,
         UNCHANGED <<row, taken, order>>, told' = [told EXCEPT ![Rumor(d)] = More(@)]
  PROVE  /\ SourcesSound' /\ told' \in [Rumors -> 0..2]
         /\ told'[Rumor(d)] > 0 /\ \A r \in Rumors : told[r] > 0 => told'[r] > 0
<1>1. /\ Rumor(d) \in Rumors /\ Dispatches(d) /\ taken[job[d].wrap] > 0 /\ job[d].wrap \in Wraps
      /\ taken[job[d].wrap] \in 0..2
  BY DEF WorkSound, Types, JobsSound, At, Dispatches, Dispatching
<1>2. told \in [Rumors -> 0..2] /\ More(told[Rumor(d)]) \in 1..2
  BY <1>1 DEF Types, More
<1>3. /\ told' \in [Rumors -> 0..2] /\ told'[Rumor(d)] = More(told[Rumor(d)])
      /\ told'[Rumor(d)] > 0
      /\ \A r \in Rumors \ {Rumor(d)} : told'[r] = told[r]
  BY <1>1, <1>2
<1>4. RecordedOnce'
  <2>1. taken[job[d].wrap] = 1 => told'[Rumor(d)] = 1
    BY <1>3 DEF SourcesSound, More
  <2>2. taken[job[d].wrap] = 1 \/ taken[job[d].wrap] > 1
    BY <1>1
  <2>3. row[job[d].wrap].rumor = Rumor(d)
    BY DEF Rumor
  <2>4. told'[Rumor(d)] <= 1 \/ \E w \in Wraps : row[w].rumor = Rumor(d) /\ taken[w] > 1
    BY <1>1, <2>1, <2>2, <2>3
  <2> QED BY <1>3, <2>4 DEF SourcesSound, RecordedOnce
<1>5. ASSUME NEW e \in Passes, At(e, "taken")', taken'[job'[e].wrap] = 1
      PROVE  told'[Rumor(e)'] = 0 /\ order'[OrderOf(e)'].by # Rumor(e)'
  <2>1. /\ At(e, "taken") /\ Rumor(e)' = Rumor(e) /\ taken[job[e].wrap] = 1
        /\ Rumor(e) \in Rumors /\ Dispatches(e) /\ OrderOf(e)' = OrderOf(e)
    BY <1>5 DEF StillTaken, Rumor, OrderOf, WorkSound, At, Dispatches, Dispatching
  <2>2. d # e
    BY <1>5
  <2>3. Rumor(e) # Rumor(d)
    BY <1>1, <2>1, <2>2, SameRumor
  <2> QED BY <1>3, <2>1, <2>3 DEF SourcesSound
<1>6. \A r \in Rumors : told'[r] > 0 => \E w \in Wraps : row'[w].rumor = r /\ taken'[w] > 0
  <2>1. row[job[d].wrap].rumor = Rumor(d)
    BY DEF Rumor
  <2> QED BY <1>1, <1>3, <2>1 DEF SourcesSound
<1>7. \A o \in Orders :
        /\ (order'[o].state = "none") <=> (order'[o].by = NoRumor)
        /\ order'[o].by # NoRumor =>
             \E w \in Wraps : row'[w].rumor = order'[o].by /\ taken'[w] > 0
  BY DEF SourcesSound
<1> QED BY <1>3, <1>4, <1>5, <1>6, <1>7 DEF SourcesSound

\* An order is placed by a message that placed none, unless it was taken twice.
LEMMA PlaceSources ==
  ASSUME Types, JobsSound, RowsSound, OneRow, WorkSound, SourcesSound,
         NEW d \in Passes, At(d, "taken"), ~ At(d, "taken")', StillTaken,
         UNCHANGED <<row, taken, told>>, order[OrderOf(d)].state = "none",
         order' = [order EXCEPT ![OrderOf(d)] = [state |-> "received", by |-> Rumor(d)]]
  PROVE  /\ SourcesSound' /\ order' \in [Orders -> OrderType]
         /\ order'[OrderOf(d)].state = "received" /\ order'[OrderOf(d)].by = Rumor(d)
         /\ \A o \in Orders \ {OrderOf(d)} : order'[o] = order[o]
<1>1. /\ Rumor(d) \in Rumors /\ Dispatches(d) /\ taken[job[d].wrap] > 0 /\ job[d].wrap \in Wraps
  BY DEF WorkSound, Types, JobsSound, At, Dispatches, Dispatching
<1>2. OrderOf(d) \in Orders /\ Rumor(d) # NoRumor /\ row[job[d].wrap].rumor = Rumor(d)
  BY <1>1, InboxAssumption DEF OrderOf, Rumor
<1> DEFINE new == [state |-> "received", by |-> Rumor(d)]
<1>3. new \in OrderType /\ new.state = "received" /\ new.by = Rumor(d)
  BY <1>1 DEF OrderType, ORDER_STATES
<1>4. order' = [order EXCEPT ![OrderOf(d)] = new] /\ order \in [Orders -> OrderType]
  BY DEF Types
<1> HIDE DEF new
<1>5. /\ order' \in [Orders -> OrderType]
      /\ order'[OrderOf(d)] = new
      /\ \A o \in Orders \ {OrderOf(d)} : order'[o] = order[o]
  BY <1>2, <1>3, <1>4
<1>6. ASSUME NEW e \in Passes, At(e, "taken")', taken'[job'[e].wrap] = 1
      PROVE  told'[Rumor(e)'] = 0 /\ order'[OrderOf(e)'].by # Rumor(e)'
  <2>1. /\ At(e, "taken") /\ Rumor(e)' = Rumor(e) /\ taken[job[e].wrap] = 1
        /\ Rumor(e) \in Rumors /\ Dispatches(e) /\ OrderOf(e)' = OrderOf(e)
    BY <1>6 DEF StillTaken, Rumor, OrderOf, WorkSound, At, Dispatches, Dispatching
  <2>2. d # e
    BY <1>6
  <2>3. Rumor(e) # Rumor(d)
    BY <1>1, <2>1, <2>2, SameRumor
  <2>4. OrderOf(e) \in Orders
    BY <2>1, InboxAssumption DEF OrderOf
  <2> QED BY <1>3, <1>5, <2>1, <2>3, <2>4 DEF SourcesSound
<1>7. \A o \in Orders :
        /\ (order'[o].state = "none") <=> (order'[o].by = NoRumor)
        /\ order'[o].by # NoRumor =>
             \E w \in Wraps : row'[w].rumor = order'[o].by /\ taken'[w] > 0
  BY <1>1, <1>2, <1>3, <1>5 DEF SourcesSound
<1>8. RecordedOnce'
  BY DEF SourcesSound, RecordedOnce
<1>9. \A r \in Rumors : told'[r] > 0 => \E w \in Wraps : row'[w].rumor = r /\ taken'[w] > 0
  BY DEF SourcesSound
<1> QED BY <1>3, <1>5, <1>6, <1>7, <1>8, <1>9 DEF SourcesSound

\* A row is written by the pass that has it in hand.
LEMMA RewriteKept ==
  ASSUME Types, JobsSound, Content, NEW d \in Passes, NEW w \in Wraps, Rewrites(d, w)
  PROVE  Content' /\ (RefusalsSound => RefusalsSound')
<1>1. /\ UNCHANGED <<blocked, order, told, asked, replies, taken, resumed>>
      /\ job[d].wrap = w /\ ~ At(d, "idle") /\ \A x \in Wraps \ {w} : row'[x] = row[x]
  BY DEF Rewrites, history
<1>2. /\ row'[w].rumor = row[w].rumor
      /\ \/ row'[w] = row[w]
         \/ /\ row[w].state # "none" /\ row'[w].state \in Ended /\ row'[w].keyed = row[w].keyed
            /\ row'[w].state \in {"processed", "quarantined"} => Dispatches(d)
         \/ /\ row'[w].state = "none" /\ ~ row'[w].keyed /\ ~ row'[w].muted
            /\ Author[row[w].rumor] \in blocked
         \/ /\ row'[w].state = "validated" /\ row'[w].keyed
            /\ ~ Known(row[w].rumor) /\ Author[row[w].rumor] \notin blocked
      /\ row'[w] # row[w] /\ row'[w].state = "processed" => Took(row[w].rumor)
  BY DEF Rewrites, Rewritten
<1>3. \A x \in Wraps : row'[x].rumor = row[x].rumor
  BY <1>1, <1>2
<1>4. \A e \in Passes : ~ At(e, "idle")' =>
        /\ ~ At(e, "idle") /\ job'[e].wrap = job[e].wrap
        /\ job'[e].step = job[e].step \/ (At(e, "refuse") /\ job'[e].step = "reply")
  BY <1>1, NoJobDoes DEF Rewrites, At
<1>5. \A e \in Passes : ~ At(e, "idle")' =>
        Rumor(e)' = Rumor(e) /\ Rumor(e) \in Rumors /\ OrderOf(e)' = OrderOf(e) /\ job[e].wrap \in Wraps
  BY <1>3, <1>4 DEF Rumor, OrderOf, Content, WorkSound, JobsSound
<1>6. \A e \in Passes : Dispatches(e)' => Dispatches(e) /\ ~ At(e, "idle")'
  BY <1>4, NoJobDoes DEF Dispatches, Dispatching, At
<1>7. row[w].rumor \in Rumors
  BY <1>1 DEF Content, WorkSound, Rumor
<1>8. RowsSound'
  <2>1. Dispatches(d) => row[w].keyed \/ row[w].state = "none"
    BY <1>1 DEF Content, WorkSound
  <2>2. ASSUME NEW x \in Wraps
        PROVE  /\ row'[x].rumor = NoRumor => row'[x].state = "none" /\ taken[x] = 0
               /\ row'[x].state = "none" => ~ row'[x].keyed /\ ~ row'[x].muted
               /\ row'[x].state \in {"validated", "processed", "quarantined"} => row'[x].keyed
               /\ taken[x] > 0 => row'[x].keyed \/ Author[row'[x].rumor] \in blocked
               /\ x \in replies => taken[x] > 0
    <3>1. CASE x # w
      BY <1>1, <3>1 DEF Content, RowsSound
    <3>2. CASE x = w
      <4>1. row'[w].rumor # NoRumor
        BY <1>2, <1>7, InboxAssumption
      <4> QED BY <1>2, <2>1, <3>2, <4>1 DEF Content, RowsSound, Ended
    <3> QED BY <3>1, <3>2
  <2> QED BY <1>1, <2>2 DEF RowsSound
<1>9. OneRow'
  <2>1. \A x \in Wraps : Holds(x)' => \/ Holds(x)
                                     \/ /\ x = w /\ ~ Known(row[w].rumor)
                                        /\ Author[row[w].rumor] \notin blocked
    BY <1>1, <1>2 DEF Holds
  <2>2. ~ Known(row[w].rumor) /\ Author[row[w].rumor] \notin blocked =>
          \A x \in Wraps : row[x].rumor = row[w].rumor => ~ Holds(x)
    BY <1>7 DEF Known, Holds, Content, RowsSound
  <2> QED BY <1>3, <2>1, <2>2 DEF Content, OneRow
<1>10. WorkSound'
  <2>1. ASSUME NEW e \in Passes, Dispatches(e)'
        PROVE  taken[job'[e].wrap] > 0
               /\ (row'[job'[e].wrap].keyed \/ row'[job'[e].wrap].state = "none")
    <3>1. Dispatches(e) /\ job'[e].wrap = job[e].wrap /\ job[e].wrap \in Wraps
      BY <1>4, <1>5, <1>6, <2>1
    <3>2. taken[job[e].wrap] > 0 /\ (row[job[e].wrap].keyed \/ row[job[e].wrap].state = "none")
      BY <3>1 DEF Content, WorkSound
    <3>3. row[w].keyed => row'[w].keyed \/ row'[w].state = "none"
      BY <1>2
    <3>4. row[w].state = "none" => row'[w].keyed \/ row'[w].state = "none"
      BY <1>2
    <3> QED BY <1>1, <3>1, <3>2, <3>3, <3>4
  <2> QED BY <1>1, <1>4, <1>5, <1>6, <2>1 DEF Content, WorkSound
<1>11. SourcesSound'
  <2>1. OrdersKept /\ StillTaken
    BY <1>1, <1>4 DEF OrdersKept, StillTaken, At
  <2>2. RecordedOnce'
    BY <1>1, <1>3 DEF Content, SourcesSound, RecordedOnce
  <2>3. \A e \in Passes : At(e, "taken")' /\ taken'[job'[e].wrap] = 1 =>
          told'[Rumor(e)'] = 0 /\ order'[OrderOf(e)'].by # Rumor(e)'
    <3>1. \A e \in Passes : At(e, "taken")' => ~ At(e, "idle")'
      BY DEF At
    <3> QED BY <1>1, <1>5, <2>1, <3>1 DEF Content, SourcesSound, StillTaken
  <2>4. \A o \in Orders :
          /\ (order'[o].state = "none") <=> (order'[o].by = NoRumor)
          /\ order'[o].by # NoRumor =>
               \E x \in Wraps : row'[x].rumor = order'[o].by /\ taken'[x] > 0
    BY <1>1, <1>3 DEF Content, SourcesSound
  <2>5. \A r \in Rumors : told'[r] > 0 => \E x \in Wraps : row'[x].rumor = r /\ taken'[x] > 0
    BY <1>1, <1>3 DEF Content, SourcesSound
  <2> QED BY <2>2, <2>3, <2>4, <2>5 DEF SourcesSound
<1>12. EffectsSound'
  <2>1. \A r : Took(r)' <=> Took(r)
    BY <1>1 DEF Took
  <2>2. \A e \in Passes : /\ At(e, "mark")' => ~ At(e, "idle")' /\ At(e, "mark")
                          /\ At(e, "cancel")' => ~ At(e, "idle")' /\ At(e, "cancel")
                          /\ job'[e].step \in {"begin", "reject", "ask"} =>
                               ~ At(e, "idle")' /\ job[e].step \in {"begin", "reject", "ask"}
    BY <1>4 DEF At
  <2>3. \A x \in Wraps : row'[x].state = "processed" => Took(row'[x].rumor)
    <3>1. ASSUME NEW x \in Wraps, row'[x].state = "processed", x # w PROVE Took(row'[x].rumor)
      BY <1>1, <3>1 DEF Content, EffectsSound
    <3>2. ASSUME row'[w].state = "processed", row'[w] # row[w] PROVE Took(row'[w].rumor)
      BY <1>2, <3>2
    <3>3. ASSUME row'[w].state = "processed", row'[w] = row[w] PROVE Took(row'[w].rumor)
      BY <3>3 DEF Content, EffectsSound
    <3> QED BY <3>1, <3>2, <3>3
  <2> QED BY <1>1, <1>5, <2>1, <2>2, <2>3 DEF Content, EffectsSound
<1>13. ASSUME RefusalsSound PROVE RefusalsSound'
  <2>1. \A x \in Wraps : Own(x)' <=> Own(x)
    BY <1>1, <1>3 DEF Own
  <2>2. RejectedIsRejected'
    <3>1. replies \subseteq Wraps
      BY DEF Types
    <3> QED BY <1>1, <1>3, <1>13, <3>1 DEF RefusalsSound, RejectedIsRejected
  <2>3. ASSUME NEW e \in Passes, Dispatches(e)', Own(job[e].wrap)'
        PROVE  /\ At(e, "reject")' => order'[OrderOf(e)'].state \in {"received", "rejected", "cancelled"}
               /\ job'[e].step \in {"refuse", "reply"} =>
                    order'[OrderOf(e)'].state \in {"rejected", "cancelled"}
    <3>1. /\ Dispatches(e) /\ ~ At(e, "idle")' /\ job'[e].wrap = job[e].wrap /\ job[e].wrap \in Wraps
          /\ OrderOf(e)' = OrderOf(e)
          /\ job'[e].step = job[e].step \/ (At(e, "refuse") /\ job'[e].step = "reply")
      BY <1>4, <1>5, <1>6, <2>3
    <3>2. Own(job[e].wrap)
      BY <2>1, <2>3, <3>1
    <3> QED BY <1>1, <1>13, <3>1, <3>2 DEF RefusalsSound, At
  <2>4. \A x \in replies', e \in Passes : taken'[x] = 1 => ~ (Dispatches(e)' /\ job'[e].wrap = x)
    BY <1>1, <1>4, <1>6, <1>13 DEF RefusalsSound
  <2> QED BY <2>2, <2>3, <2>4 DEF RefusalsSound
<1> QED BY <1>8, <1>9, <1>10, <1>11, <1>12, <1>13 DEF Content

\* A message is admitted in a row nobody has in hand.
LEMMA AdmitKept ==
  ASSUME Types, JobsSound, Content, NEW w \in Wraps, NEW r \in Rumors, Admit(w, r)
  PROVE  /\ Content' /\ (RefusalsSound => RefusalsSound')
         /\ row' \in [Wraps -> RowType]
<1>1. /\ UNCHANGED <<blocked, order, told, asked, replies, taken, resumed, job>>
      /\ \A d \in Passes : job[d].wrap # w
      /\ row[w] \in {NoRow, [NoRow EXCEPT !.rumor = r]}
  BY DEF Admit, history
<1>2. /\ ~ row[w].keyed /\ row[w].state = "none" /\ row[w].rumor \in {r, NoRumor}
      /\ row[w] \in RowType /\ row \in [Wraps -> RowType]
  BY <1>1 DEF NoRow, Types
<1> DEFINE new == [row[w] EXCEPT !.rumor = r, !.state = "received"]
<1>3. /\ new \in RowType /\ new.rumor = r /\ new.state = "received" /\ ~ new.keyed
      /\ row' = [row EXCEPT ![w] = new]
  BY <1>2 DEF RowType, Admit
<1> HIDE DEF new
<1>4. /\ row' \in [Wraps -> RowType] /\ row'[w] = new /\ \A x \in Wraps \ {w} : row'[x] = row[x]
  BY <1>2, <1>3
<1>5. row[w].rumor = NoRumor => taken[w] = 0
  BY DEF Content, RowsSound
<1>6. \A x \in Wraps : taken[x] > 0 => row'[x].rumor = row[x].rumor
  BY <1>2, <1>3, <1>4, <1>5
<1>7. \A x \in Wraps : Holds(x)' => Holds(x) /\ row'[x].rumor = row[x].rumor
  BY <1>1, <1>3, <1>4, <1>6 DEF Holds
<1>8. RowsSound'
  <2>1. ASSUME NEW x \in Wraps
        PROVE  /\ row'[x].rumor = NoRumor => row'[x].state = "none" /\ taken[x] = 0
               /\ row'[x].state = "none" => ~ row'[x].keyed /\ ~ row'[x].muted
               /\ row'[x].state \in {"validated", "processed", "quarantined"} => row'[x].keyed
               /\ taken[x] > 0 => row'[x].keyed \/ Author[row'[x].rumor] \in blocked
               /\ x \in replies => taken[x] > 0
    <3>1. CASE x # w
      BY <1>4, <3>1 DEF Content, RowsSound
    <3>2. CASE x = w
      BY <1>2, <1>3, <1>4, <1>6, <3>2, InboxAssumption DEF Content, RowsSound
    <3> QED BY <3>1, <3>2
  <2> QED BY <1>1, <2>1 DEF RowsSound
<1>9. OneRow'
  BY <1>7 DEF Content, OneRow
<1>10. \A d \in Passes : ~ At(d, "idle") =>
         /\ job[d].wrap \in Wraps /\ row'[job[d].wrap] = row[job[d].wrap]
         /\ Rumor(d)' = Rumor(d) /\ OrderOf(d)' = OrderOf(d)
  BY <1>1, <1>4 DEF JobsSound, Rumor, OrderOf
<1>11. \A d \in Passes : Dispatches(d) => ~ At(d, "idle")
  BY NoJobDoes DEF Dispatches, At
<1>12. WorkSound'
  BY <1>1, <1>10, <1>11 DEF Content, WorkSound, At, Dispatches
<1>13. SourcesSound'
  <2>1. RecordedOnce'
    BY <1>1, <1>6 DEF Content, SourcesSound, RecordedOnce, Types
  <2>2. \A d \in Passes : At(d, "taken")' /\ taken'[job'[d].wrap] = 1 =>
          told'[Rumor(d)'] = 0 /\ order'[OrderOf(d)'].by # Rumor(d)'
    <3>1. \A d \in Passes : At(d, "taken") => ~ At(d, "idle")
      BY DEF At
    <3> QED BY <1>1, <1>10, <3>1 DEF Content, SourcesSound, At
  <2>3. \A o \in Orders :
          /\ (order'[o].state = "none") <=> (order'[o].by = NoRumor)
          /\ order'[o].by # NoRumor =>
               \E x \in Wraps : row'[x].rumor = order'[o].by /\ taken'[x] > 0
    BY <1>1, <1>6 DEF Content, SourcesSound
  <2>4. \A q \in Rumors : told'[q] > 0 => \E x \in Wraps : row'[x].rumor = q /\ taken'[x] > 0
    BY <1>1, <1>6 DEF Content, SourcesSound
  <2> QED BY <2>1, <2>2, <2>3, <2>4 DEF SourcesSound
<1>14. EffectsSound'
  <2>1. \A q : Took(q)' <=> Took(q)
    BY <1>1 DEF Took
  <2>2. \A x \in Wraps : row'[x].state = "processed" => x # w
    BY <1>3, <1>4
  <2>3. \A d \in Passes : At(d, "mark") \/ At(d, "cancel")
          \/ job[d].step \in {"begin", "reject", "ask"} => ~ At(d, "idle")
    BY DEF At
  <2> QED BY <1>1, <1>4, <1>10, <2>1, <2>2, <2>3 DEF Content, EffectsSound, At
<1>15. ASSUME RefusalsSound PROVE RefusalsSound'
  <2>1. \A x \in Wraps : Own(x)' => Own(x) /\ row'[x].rumor = row[x].rumor
    BY <1>1, <1>6 DEF Own
  <2>2. RejectedIsRejected'
    <3>1. ASSUME NEW x \in replies
          PROVE  row'[x].rumor = row[x].rumor
      BY <1>6, <3>1 DEF Content, RowsSound, Types
    <3> QED BY <1>1, <1>15, <3>1 DEF RefusalsSound, RejectedIsRejected
  <2> QED BY <1>1, <1>10, <1>11, <1>15, <2>1, <2>2 DEF RefusalsSound, At, Dispatches
<1> QED BY <1>4, <1>8, <1>9, <1>12, <1>13, <1>14, <1>15 DEF Content

\* A pass takes a row.
LEMMA TakeKept ==
  ASSUME Types, JobsSound, Content, NEW d \in Passes, NEW w \in Wraps,
         TakeReceived(d, w) \/ TakeRow(d, w)
  PROVE  /\ Content' /\ (RefusalsSound => RefusalsSound')
         /\ taken' \in [Wraps -> 0..2]
<1> USE DEF Types
<1>1. /\ UNCHANGED <<row, blocked, order, told, asked, replies, resumed>> /\ At(d, "idle")
      /\ row[w].rumor \in Rumors
  <2>1. row[w].state # "none" /\ row[w].rumor \in Rumors \cup {NoRumor}
    BY DEF TakeReceived, TakeRow, RowType
  <2> QED BY <2>1 DEF TakeReceived, TakeRow, Free, Content, RowsSound
<1>2. PICK s \in {"listed", "taken"} :
        /\ InHand(d, w, s)
        /\ s = "listed" => taken' = taken
        /\ s = "taken" => /\ row[w].keyed /\ taken' = [taken EXCEPT ![w] = More(@)]
  BY DEF TakeReceived, TakeRow, Content, RowsSound
<1>3. /\ job'[d].step = s /\ job'[d].wrap = w /\ \A e \in Passes \ {d} : job'[e] = job[e]
  BY <1>2, InHandDoes DEF Steps, Dispatching
<1>4. /\ taken' \in [Wraps -> 0..2] /\ \A x \in Wraps \ {w} : taken'[x] = taken[x]
      /\ s = "listed" => taken'[w] = taken[w]
      /\ s = "taken" => taken'[w] = More(taken[w])
  BY <1>2 DEF More
<1>5. /\ \A x \in Wraps : taken'[x] >= taken[x]
      /\ s = "taken" => taken'[w] > 0 /\ (taken'[w] = 1 => taken[w] = 0)
  BY <1>4 DEF More
<1>6. \A x \in Wraps : taken[x] > 0 => taken'[x] > 0
  BY <1>4, <1>5
<1>7. \A x \in Wraps : Holds(x)' => Holds(x)
  BY <1>1, <1>2, <1>4 DEF Holds
<1>8. RowsSound'
  <2>1. ASSUME NEW x \in Wraps
        PROVE  /\ row[x].rumor = NoRumor => taken'[x] = 0
               /\ taken'[x] > 0 => row[x].keyed \/ Author[row[x].rumor] \in blocked
               /\ x \in replies => taken'[x] > 0
    BY <1>1, <1>2, <1>4, <1>6, InboxAssumption DEF Content, RowsSound
  <2> QED BY <1>1, <2>1 DEF Content, RowsSound
<1>9. OneRow'
  BY <1>1, <1>7 DEF Content, OneRow
<1>10. \A e \in Passes \ {d} : /\ Rumor(e)' = Rumor(e) /\ OrderOf(e)' = OrderOf(e)
                               /\ Dispatches(e)' = Dispatches(e)
                               /\ \A p \in Steps : At(e, p)' = At(e, p)
  BY <1>1, <1>3 DEF Rumor, OrderOf, Dispatches, At
<1>11. Rumor(d)' = row[w].rumor /\ OrderOf(d)' = About[row[w].rumor]
  BY <1>1, <1>3 DEF Rumor, OrderOf
<1>12. Dispatches(d)' <=> s = "taken"
  BY <1>3 DEF Dispatches, Dispatching
<1>13. \A e \in Passes \ {d} : Dispatches(e) => job[e].wrap \in Wraps /\ taken[job[e].wrap] > 0
  BY NoJobDoes DEF Dispatches, At, JobsSound, Content, WorkSound
<1>14. \A e \in Passes \ {d} : Dispatches(e) /\ taken'[job[e].wrap] = 1 =>
         job[e].wrap # w \/ s = "listed"
  BY <1>2, <1>5, <1>13
<1>15. \A e \in Passes \ {d} : Dispatches(e) /\ taken'[job[e].wrap] = 1 => taken[job[e].wrap] = 1
  BY <1>4, <1>13, <1>14
<1>16. WorkSound'
  <2>1. ASSUME NEW e \in Passes
        PROVE  /\ ~ At(e, "idle")' => Rumor(e)' \in Rumors
               /\ Dispatches(e)' =>
                    /\ taken'[job'[e].wrap] > 0
                    /\ row'[job'[e].wrap].keyed \/ row'[job'[e].wrap].state = "none"
    <3>1. CASE e = d
      BY <1>1, <1>2, <1>3, <1>5, <1>11, <1>12, <3>1
    <3>2. CASE e # d
      BY <1>1, <1>3, <1>6, <1>10, <1>13, <3>2 DEF Content, WorkSound, At, Steps
    <3> QED BY <3>1, <3>2
  <2>2. ASSUME NEW e \in Passes, NEW f \in Passes, Dispatches(e)', Dispatches(f)',
               job'[e].wrap = job'[f].wrap, taken'[job'[e].wrap] = 1
        PROVE  e = f
    <3>1. CASE e # d /\ f # d
      BY <1>3, <1>10, <1>15, <2>2, <3>1 DEF Content, WorkSound
    <3>2. CASE e = d /\ f # d
      BY <1>3, <1>10, <1>12, <1>14, <2>2, <3>2
    <3>3. CASE e # d /\ f = d
      BY <1>3, <1>10, <1>12, <1>14, <2>2, <3>3
    <3> QED BY <3>1, <3>2, <3>3
  <2> QED BY <2>1, <2>2 DEF WorkSound
<1>17. SourcesSound'
  <2>1. RecordedOnce'
    <3>1. \A x \in Wraps : taken[x] > 1 => taken'[x] > 1
      BY <1>4, <1>5
    <3> QED BY <1>1, <3>1 DEF Content, SourcesSound, RecordedOnce
  <2>2. ASSUME NEW e \in Passes, At(e, "taken")', taken'[job'[e].wrap] = 1
        PROVE  told'[Rumor(e)'] = 0 /\ order'[OrderOf(e)'].by # Rumor(e)'
    <3>1. CASE e # d
      <4>1. At(e, "taken") /\ Dispatches(e)
        BY <1>3, <2>2, <3>1 DEF At, Dispatches, Dispatching
      <4> QED BY <1>1, <1>3, <1>10, <1>15, <2>2, <3>1, <4>1 DEF Content, SourcesSound
    <3>2. CASE e = d
      <4>1. s = "taken" /\ taken[w] = 0 /\ row[w].keyed
        BY <1>2, <1>3, <1>5, <2>2, <3>2 DEF At
      <4>2. \A x \in Wraps : row[x].rumor = row[w].rumor => ~ (taken[x] > 0)
        BY <4>1 DEF Content, OneRow, Holds
      <4>3. told[row[w].rumor] = 0
        BY <1>1, <4>2 DEF Content, SourcesSound
      <4>4. order[About[row[w].rumor]].by # row[w].rumor
        BY <1>1, <4>2, InboxAssumption DEF Content, SourcesSound
      <4> QED BY <1>1, <1>11, <3>2, <4>3, <4>4
    <3> QED BY <3>1, <3>2
  <2>3. \A o \in Orders :
          /\ (order'[o].state = "none") <=> (order'[o].by = NoRumor)
          /\ order'[o].by # NoRumor =>
               \E x \in Wraps : row'[x].rumor = order'[o].by /\ taken'[x] > 0
    BY <1>1, <1>6 DEF Content, SourcesSound
  <2>4. \A q \in Rumors : told'[q] > 0 => \E x \in Wraps : row'[x].rumor = q /\ taken'[x] > 0
    BY <1>1, <1>6 DEF Content, SourcesSound
  <2> QED BY <2>1, <2>2, <2>3, <2>4 DEF SourcesSound
<1>18. EffectsSound'
  <2>1. \A q : Took(q)' <=> Took(q)
    BY <1>1 DEF Took
  <2> QED BY <1>1, <1>3, <1>10, <2>1 DEF Content, EffectsSound, At, Steps, Dispatching
<1>19. ASSUME RefusalsSound PROVE RefusalsSound'
  <2>1. \A x \in Wraps : taken'[x] = 1 =>
          taken[x] = 1 \/ (x = w /\ taken[x] = 0 /\ s = "taken")
    BY <1>4, <1>5
  <2>2. \A x \in Wraps : Own(x)' => Own(x) \/ (x = w /\ taken[x] = 0)
    BY <1>1, <2>1 DEF Own
  <2>3. RejectedIsRejected'
    <3>1. \A x \in replies : x \in Wraps /\ taken[x] > 0
      BY DEF Content, RowsSound
    <3> QED BY <1>1, <1>19, <2>1, <3>1 DEF RefusalsSound, RejectedIsRejected
  <2>4. ASSUME NEW e \in Passes, Dispatches(e)', Own(job[e].wrap)' , e # d
        PROVE  /\ At(e, "reject")' => order'[OrderOf(e)'].state \in {"received", "rejected", "cancelled"}
               /\ job'[e].step \in {"refuse", "reply"} =>
                    order'[OrderOf(e)'].state \in {"rejected", "cancelled"}
    <3>1. Dispatches(e) /\ Own(job[e].wrap)
      BY <1>3, <1>10, <1>13, <2>2, <2>4 DEF Own
    <3> QED BY <1>1, <1>3, <1>10, <1>19, <2>4, <3>1 DEF RefusalsSound, At
  <2>5. ASSUME NEW x \in replies', NEW e \in Passes, taken'[x] = 1, Dispatches(e)', job'[e].wrap = x
        PROVE  FALSE
    <3>1. x \in Wraps /\ x \in replies /\ taken[x] > 0
      BY <1>1 DEF Content, RowsSound
    <3>2. taken[x] = 1
      BY <2>1, <2>5, <3>1
    <3>3. CASE e # d
      BY <1>3, <1>10, <1>19, <2>5, <3>1, <3>2, <3>3 DEF RefusalsSound
    <3>4. CASE e = d
      BY <1>3, <1>5, <1>12, <2>5, <3>2, <3>4
    <3> QED BY <3>3, <3>4
  <2>6. ~ At(d, "reject")' /\ job'[d].step \notin {"refuse", "reply"}
    BY <1>3 DEF At
  <2> QED BY <1>3, <2>3, <2>4, <2>5, <2>6 DEF RefusalsSound
<1> QED BY <1>4, <1>8, <1>9, <1>16, <1>17, <1>18, <1>19 DEF Content

\* What a row's own order may do without breaking an answer.
Safe(w) ==
  Own(w)' =>
    LET o == About[row[w].rumor] IN
      /\ Own(w)
      /\ order[o].state \in {"rejected", "cancelled"} =>
           order'[o].state \in {"rejected", "cancelled"}
      /\ order[o].state = "received" =>
           order'[o].state \in {"received", "rejected", "cancelled"}

\* What a pass goes on with fits its own order.
Answers(d) ==
  Own(job[d].wrap)' =>
    /\ job'[d].step = "reject" =>
         order'[OrderOf(d)].state \in {"received", "rejected", "cancelled"}
    /\ job'[d].step \in {"refuse", "reply"} =>
         order'[OrderOf(d)].state \in {"rejected", "cancelled"}

\* A step after which each dispatch answers truly keeps the answers true.
LEMMA GoRefusals ==
  ASSUME Types, RefusalsSound, UNCHANGED <<row, taken, replies>>,
         \A w \in replies : Safe(w),
         \A d \in Passes : Dispatches(d)' =>
           /\ Dispatches(d) /\ job'[d].wrap = job[d].wrap
           /\ (job'[d].step = job[d].step /\ Safe(job[d].wrap)) \/ Answers(d)
  PROVE  RefusalsSound'
<1>1. RejectedIsRejected'
  <2>1. ASSUME NEW w \in replies, taken[w] = 1, About[row[w].rumor] \notin resumed',
               order'[About[row[w].rumor]].by = row[w].rumor
        PROVE  order'[About[row[w].rumor]].state \in {"rejected", "cancelled"}
    <3>1. Own(w)'
      BY <2>1 DEF Own
    <3>2. Own(w)
      BY <2>1, <3>1 DEF Safe
    <3> QED BY <2>1, <3>1, <3>2 DEF Safe, RefusalsSound, RejectedIsRejected, Own
  <2> QED BY <2>1 DEF RejectedIsRejected
<1>2. ASSUME NEW d \in Passes, Dispatches(d)', Own(job[d].wrap)'
      PROVE  /\ At(d, "reject")' => order'[OrderOf(d)'].state \in {"received", "rejected", "cancelled"}
             /\ job'[d].step \in {"refuse", "reply"} =>
                  order'[OrderOf(d)'].state \in {"rejected", "cancelled"}
  <2>1. /\ Dispatches(d) /\ job'[d].wrap = job[d].wrap
        /\ (job'[d].step = job[d].step /\ Safe(job[d].wrap)) \/ Answers(d)
    BY <1>2
  <2>2. OrderOf(d)' = OrderOf(d) /\ OrderOf(d) = About[row[job[d].wrap].rumor]
    BY <2>1 DEF OrderOf, Rumor
  <2>3. CASE Answers(d)
    BY <1>2, <2>1, <2>2, <2>3 DEF Answers, At, Own
  <2>4. CASE job'[d].step = job[d].step /\ Safe(job[d].wrap)
    BY <1>2, <2>1, <2>2, <2>4 DEF Safe, RefusalsSound, At, Own
  <2> QED BY <2>1, <2>3, <2>4
<1>3. \A w \in replies', d \in Passes : taken'[w] = 1 => ~ (Dispatches(d)' /\ job'[d].wrap = w)
  BY DEF RefusalsSound
<1> QED BY <1>1, <1>2, <1>3 DEF RefusalsSound

\* A row taken once is in the hands of its pass alone, and is not answered yet.
LEMMA Alone ==
  ASSUME Types, JobsSound, Content, RefusalsSound, NEW d \in Passes, Dispatches(d),
         NEW w \in Wraps, taken[w] = 1, row[w].rumor = Rumor(d)
  PROVE  w \notin replies /\ \A e \in Passes \ {d} : Dispatches(e) => job[e].wrap # w
<1>1. job[d].wrap \in Wraps /\ taken[job[d].wrap] > 0
  BY NoJobDoes DEF JobsSound, Dispatches, At, Content, WorkSound
<1>2. w = job[d].wrap
  BY <1>1 DEF Content, OneRow, Holds, Rumor
<1> QED BY <1>2 DEF RefusalsSound, Content, WorkSound

\* The order another actor moves: one that opens it leaves a trace.
LEMMA MoveRefusals ==
  ASSUME Types, JobsSound, Content, RefusalsSound, <<"cancelled", "confirmed">> \notin Moves,
         NEW o \in Orders, NEW state \in ORDER_STATES, MoveOrder(o, state),
         order'[o].state = state, \A x \in Orders \ {o} : order'[x] = order[x],
         OrdersKept
  PROVE  RefusalsSound'
<1>1. /\ UNCHANGED <<row, blocked, told, replies, taken, job>> /\ <<order[o].state, state>> \in Moves
      /\ resumed' = IF order[o].state = "received" THEN resumed \cup {o} ELSE resumed
  BY DEF MoveOrder
<1>2. order[o].state \notin {"rejected", "cancelled"}
  BY <1>1, InboxAssumption DEF ORDER_TRANSITIONS
<1>3. ASSUME NEW w \in Wraps, row[w].rumor \in Rumors PROVE Safe(w)
  <2>1. About[row[w].rumor] \in Orders
    BY <1>3, InboxAssumption
  <2> QED BY <1>1, <1>2, <2>1 DEF Safe, Own, OrdersKept
<1>4. \A w \in replies : w \in Wraps /\ row[w].rumor \in Rumors
  BY DEF Types, RowType, Content, RowsSound
<1>5. \A d \in Passes : Dispatches(d) => job[d].wrap \in Wraps /\ row[job[d].wrap].rumor \in Rumors
  BY NoJobDoes DEF JobsSound, Content, WorkSound, Dispatches, At, Rumor
<1> QED BY <1>1, <1>3, <1>4, <1>5, GoRefusals DEF Dispatches

\* The other actors move an order.
LEMMA MoveKept ==
  ASSUME Types, JobsSound, Content, NEW o \in Orders, NEW state \in ORDER_STATES,
         MoveOrder(o, state)
  PROVE  /\ Content' /\ order' \in [Orders -> OrderType] /\ resumed' \subseteq Orders
         /\ RefusalsSound /\ <<"cancelled", "confirmed">> \notin Moves => RefusalsSound'
<1>1. UNCHANGED <<row, blocked, told, replies, taken, job>> /\ resumed' \subseteq Orders
  BY DEF MoveOrder, Types
<1>2. order' = [order EXCEPT ![o].state = state] /\ order \in [Orders -> OrderType]
  BY DEF MoveOrder, Types
<1>3. <<order[o].state, state>> \in Moves
  BY DEF MoveOrder
<1>4. order[o].state # "none" /\ state # "none"
  BY <1>3, InboxAssumption DEF ORDER_TRANSITIONS
<1>5. /\ order' \in [Orders -> OrderType] /\ order'[o].state = state /\ order'[o].by = order[o].by
      /\ \A x \in Orders \ {o} : order'[x] = order[x]
  BY <1>2 DEF OrderType
<1>6. OrdersKept
  BY <1>4, <1>5 DEF OrdersKept
<1>7. StillTaken /\ \A d \in Passes : Goes(d)
  BY <1>1 DEF StillTaken, Goes, At
<1>8. RowsSound' /\ OneRow' /\ WorkSound'
  BY <1>1, <1>7, GoRows DEF Content
<1>9. SourcesSound'
  BY <1>1, <1>6, <1>7, GoSources DEF Content
<1>10. EffectsSound'
  <2>1. ASSUME NEW r \in Rumors, Took(r) PROVE Took(r)'
    <3>1. About[r] \in Orders
      BY InboxAssumption
    <3> QED BY <1>1, <1>6, <2>1, <3>1 DEF Took, OrdersKept
  <2>2. \A w \in Wraps : row[w].state = "processed" => row[w].rumor \in Rumors
    BY DEF Types, RowType, Content, RowsSound
  <2> QED BY <1>1, <1>6, <1>7, <2>1, <2>2, GoEffects DEF Content
<1>11. RefusalsSound /\ <<"cancelled", "confirmed">> \notin Moves => RefusalsSound'
  BY <1>5, <1>6, MoveRefusals
<1> QED BY <1>1, <1>5, <1>8, <1>9, <1>10, <1>11 DEF Content

\* A pass goes on with its row: one lemma for all steps that move no record.
LEMMA GoKept ==
  ASSUME Types, JobsSound, Content, NEW d \in Passes, Dispatches(d),
         NEW s \in Dispatching \ {"taken"}, Go(d, s),
         UNCHANGED <<row, blocked, told, replies, taken, resumed>>, OrdersKept,
         Fits(s, Rumor(d))'
  PROVE  /\ Content' /\ job' \in [Passes -> JobType]
         /\ RefusalsSound /\ (\A w \in Wraps : w \in replies \/ (\E e \in Passes \ {d} :
              Dispatches(e) /\ job[e].wrap = w) => Safe(w)) /\ Answers(d) => RefusalsSound'
<1>1. /\ job' \in [Passes -> JobType]
      /\ job'[d].step = s /\ job'[d].wrap = job[d].wrap
      /\ \A e \in Passes \ {d} : job'[e] = job[e]
  BY GoDoes DEF Types, Steps
<1>2. StillTaken /\ \A e \in Passes : Goes(e)
  BY <1>1 DEF StillTaken, Goes, At
<1>3. RowsSound' /\ OneRow' /\ WorkSound'
  BY <1>2, GoRows DEF Content
<1>4. SourcesSound'
  BY <1>2, GoSources DEF Content
<1>5. EffectsSound'
  <2>1. ASSUME NEW r \in Rumors, Took(r) PROVE Took(r)'
    <3>1. About[r] \in Orders
      BY InboxAssumption
    <3> QED BY <2>1, <3>1 DEF Took, OrdersKept
  <2>2. \A w \in Wraps : row[w].state = "processed" => row[w].rumor \in Rumors
    BY DEF Types, RowType, Content, RowsSound
  <2>3. \A e \in Passes :
          ~ At(e, "idle")' /\ (job'[e].step # job[e].step \/ job'[e].wrap # job[e].wrap)
            => Fits(job[e].step, Rumor(e))'
    BY <1>1 DEF Fits, Rumor
  <2> QED BY <1>2, <2>1, <2>2, <2>3, GoEffects DEF Content
<1>6. ASSUME RefusalsSound, Answers(d),
             \A w \in Wraps : w \in replies \/ (\E e \in Passes \ {d} :
               Dispatches(e) /\ job[e].wrap = w) => Safe(w)
      PROVE  RefusalsSound'
  <2>1. \A w \in replies : Safe(w)
    BY <1>6 DEF Types
  <2>2. ASSUME NEW e \in Passes, Dispatches(e)'
        PROVE  /\ Dispatches(e) /\ job'[e].wrap = job[e].wrap
               /\ (job'[e].step = job[e].step /\ Safe(job[e].wrap)) \/ Answers(e)
    <3>1. CASE e = d
      BY <1>1, <1>6, <3>1
    <3>2. CASE e # d
      <4>1. Dispatches(e) /\ job'[e] = job[e]
        BY <1>1, <2>2, <3>2 DEF Dispatches
      <4>2. job[e].wrap \in Wraps
        BY <4>1, NoJobDoes DEF JobsSound, Dispatches, At
      <4> QED BY <1>6, <3>2, <4>1, <4>2
    <3> QED BY <3>1, <3>2
  <2> QED BY <1>6, <2>1, <2>2, GoRefusals
<1> QED BY <1>1, <1>3, <1>4, <1>5, <1>6 DEF Content

\* What a dispatch does to its order: nothing, or a move that leaves it an order.
LEMMA OrderMoves ==
  ASSUME Types, NEW o \in Orders, NEW state \in ORDER_STATES,
         order[o].state # "none", order' = [order EXCEPT ![o].state = state]
  PROVE  /\ order' \in [Orders -> OrderType] /\ order'[o].state = state
         /\ \A x \in Orders \ {o} : order'[x] = order[x]
         /\ OrdersKept
<1>1. order \in [Orders -> OrderType]
  BY DEF Types
<1>2. /\ order' \in [Orders -> OrderType] /\ order'[o].state = state /\ order'[o].by = order[o].by
      /\ \A x \in Orders \ {o} : order'[x] = order[x]
  BY <1>1 DEF OrderType
<1>3. state # "none"
  BY DEF ORDER_STATES
<1> QED BY <1>2, <1>3 DEF OrdersKept

\* Where a pass stands and what it works on.
LEMMA InWork ==
  ASSUME Types, JobsSound, Content, NEW d \in Passes, ~ At(d, "idle"), ~ At(d, "listed")
  PROVE  /\ Dispatches(d) /\ Rumor(d) \in Rumors /\ OrderOf(d) \in Orders
         /\ job[d].wrap \in Wraps /\ Rumor(d) = row[job[d].wrap].rumor
<1>1. job[d].step \in Steps
  BY DEF Types, JobType
<1> QED BY <1>1, InboxAssumption DEF JobsSound, Content, WorkSound, At, Dispatches, Steps, OrderOf, Rumor

\* The steps of a dispatch that leave the orders and the records as they are.
LEMMA IdleSteps ==
  ASSUME Types, JobsSound, Content, NEW d \in Passes, ~ At(d, "idle"), ~ At(d, "listed"),
         NEW s \in Dispatching \ {"taken"}, Go(d, s),
         UNCHANGED <<row, blocked, told, replies, taken, resumed, order>>,
         Fits(s, Rumor(d)),
         s \in {"refuse", "reply"} => At(d, "taken"),
         s = "reject" => order[OrderOf(d)].state = "received"
  PROVE  Content' /\ job' \in [Passes -> JobType] /\ (RefusalsSound => RefusalsSound')
<1>1. /\ Dispatches(d) /\ Rumor(d) \in Rumors /\ OrderOf(d) \in Orders
      /\ job[d].wrap \in Wraps /\ Rumor(d) = row[job[d].wrap].rumor
  BY InWork
<1>2. OrdersKept
  BY DEF OrdersKept
<1>3. Rumor(d)' = Rumor(d) /\ job'[d].step = s
  BY GoDoes DEF Rumor, Types, Steps
<1>4. Fits(s, Rumor(d))'
  BY <1>3 DEF Fits, Took
<1>5. \A w \in Wraps : Safe(w)
  BY DEF Safe, Own
<1>6. Answers(d)
  <2>1. CASE s \in {"refuse", "reply"}
    <3>1. taken[job[d].wrap] = 1 => order[OrderOf(d)].by # Rumor(d)
      BY <2>1 DEF Content, SourcesSound
    <3>2. ~ Own(job[d].wrap)
      BY <1>1, <3>1 DEF Own, OrderOf
    <3>3. ~ Own(job[d].wrap)'
      BY <3>2, <1>3, GoDoes DEF Own, Types, Steps
    <3> QED BY <3>3 DEF Answers, Own
  <2>2. CASE s \notin {"refuse", "reply"}
    BY <1>3, <2>2 DEF Answers
  <2> QED BY <2>1, <2>2
<1> QED BY <1>1, <1>2, <1>4, <1>5, <1>6, GoKept

\* The steps of a dispatch that change no order and record nothing.
LEMMA IdleStepsKept ==
  ASSUME Types, JobsSound, Content, NEW d \in Passes,
         \/ RefuseOrder(d) \/ RefuseIntake(d) \/ AskPayment(d) \/ HandleStatus(d)
         \/ InsertOrder(d) /\ order[OrderOf(d)].state # "none"
         \/ BeginSaga(d) /\ order' = order
         \/ (HandleReceipt(d) \/ HandleDm(d)) /\ told' = told
  PROVE  /\ Content' /\ job' \in [Passes -> JobType]
         /\ RefusalsSound => RefusalsSound'
<1>1. /\ Rumor(d) \in Rumors => About[Rumor(d)] = OrderOf(d)
      /\ At(d, "begin") \/ At(d, "ask") =>
           /\ Kind[Rumor(d)] = "order"
           /\ order[OrderOf(d)].state # "none" /\ order[OrderOf(d)].by = Rumor(d)
  BY DEF Content, EffectsSound, At, OrderOf
<1>2. PICK s \in Dispatching \ {"taken"} :
        /\ Go(d, s) /\ ~ At(d, "idle") /\ ~ At(d, "listed")
        /\ UNCHANGED <<row, blocked, told, replies, taken, resumed, order>>
        /\ s \in {"refuse", "reply"} => At(d, "taken")
        /\ s = "reject" => order[OrderOf(d)].state = "received"
        /\ Fits(s, Rumor(d))
  <2> USE DEF Handling, At, Dispatching, history
  <2>1. CASE RefuseOrder(d)
    <3>1. PICK s \in {"refuse", "drop"} : Go(d, s)
      BY <2>1 DEF RefuseOrder
    <3> QED BY <2>1, <3>1 DEF RefuseOrder, Fits
  <2>2. CASE RefuseIntake(d)
    BY <2>2 DEF RefuseIntake, Fits
  <2>3. CASE AskPayment(d)
    <3>1. Took(Rumor(d))
      BY <1>1, <2>3 DEF AskPayment, Took, OrderOf
    <3> QED BY <2>3, <3>1 DEF AskPayment, Fits
  <2>4. CASE HandleStatus(d)
    <3>1. Took(Rumor(d))
      BY <2>4 DEF HandleStatus, Took
    <3> QED BY <2>4, <3>1 DEF HandleStatus, Fits
  <2>5. CASE InsertOrder(d) /\ order[OrderOf(d)].state # "none"
    <3>1. Took(Rumor(d))
      BY <2>5 DEF InsertOrder, Took, OrderOf
    <3> QED BY <2>5, <3>1 DEF InsertOrder, Fits
  <2>6. CASE BeginSaga(d) /\ order' = order
    <3>1. At(d, "begin") /\ order[OrderOf(d)].state = "received"
          /\ UNCHANGED <<row, blocked, told, replies, taken, resumed>>
          /\ \E s \in {"ask", "mark", "reject"} : Go(d, s)
      BY <2>6 DEF BeginSaga
    <3>2. PICK s \in {"ask", "mark", "reject"} : Go(d, s)
      BY <3>1
    <3>3. Took(Rumor(d))
      BY <1>1, <3>1 DEF Took, OrderOf
    <3>4. Fits(s, Rumor(d))
      BY <1>1, <3>1, <3>3 DEF Fits, OrderOf
    <3> QED BY <2>6, <3>1, <3>2, <3>4
  <2>7. CASE HandleReceipt(d) /\ told' = told
    <3>1. Took(Rumor(d))
      BY <2>7 DEF HandleReceipt, Took
    <3> QED BY <2>7, <3>1 DEF HandleReceipt, Fits
  <2>8. CASE HandleDm(d) /\ told' = told
    <3>1. PICK s \in {"mark", "drop"} : Go(d, s) /\ (s = "mark" => told' = [told EXCEPT ![Rumor(d)] = More(@)])
      BY <2>8 DEF HandleDm
    <3>2. s = "mark" => Took(Rumor(d))
      <4>1. s = "mark" => told[Rumor(d)] > 0
        BY <2>8, <3>1, InWork DEF Types, More, HandleDm
      <4> QED BY <2>8, <4>1 DEF HandleDm, Took
    <3> QED BY <2>8, <3>1, <3>2 DEF HandleDm, Fits
  <2> QED BY <2>1, <2>2, <2>3, <2>4, <2>5, <2>6, <2>7, <2>8
<1> QED BY <1>2, IdleSteps

\* The saga begins with an order of the pass's own: nobody waits for its answer.
LEMMA BeginKept ==
  ASSUME Types, JobsSound, Content, NEW d \in Passes, BeginSaga(d), order' # order
  PROVE  /\ Content' /\ job' \in [Passes -> JobType] /\ order' \in [Orders -> OrderType]
         /\ RefusalsSound => RefusalsSound'
<1> DEFINE o == OrderOf(d)
<1>1. /\ At(d, "begin") /\ order[o].state = "received"
      /\ UNCHANGED <<row, blocked, told, replies, taken, resumed>>
  BY DEF BeginSaga, history
<1>2. PICK state \in ORDER_STATES, s \in {"ask", "mark"} :
        order' = [order EXCEPT ![o].state = state] /\ Go(d, s)
  BY DEF BeginSaga, ORDER_STATES
<1>3. /\ Dispatches(d) /\ Rumor(d) \in Rumors /\ o \in Orders
      /\ job[d].wrap \in Wraps /\ Rumor(d) = row[job[d].wrap].rumor
  BY <1>1, InWork DEF At
<1>4. Kind[Rumor(d)] = "order" /\ order[o].by = Rumor(d) /\ o = About[Rumor(d)]
  BY <1>1 DEF Content, EffectsSound, At, OrderOf
<1> HIDE DEF o
<1>5. /\ order' \in [Orders -> OrderType] /\ OrdersKept
      /\ \A x \in Orders \ {o} : order'[x] = order[x]
      /\ order'[o].state # "none" /\ order'[o].by = Rumor(d)
  BY <1>1, <1>2, <1>3, <1>4, OrderMoves DEF OrdersKept
<1>6. Rumor(d)' = Rumor(d) /\ job'[d].step = s
  BY <1>1, <1>2, GoDoes DEF Rumor, Types, Steps, Dispatching
<1>7. Fits(s, Rumor(d))'
  BY <1>4, <1>5, <1>6 DEF Fits, Took
<1>8. ASSUME RefusalsSound, NEW w \in Wraps,
             w \in replies \/ (\E e \in Passes \ {d} : Dispatches(e) /\ job[e].wrap = w)
      PROVE  Safe(w)
  <2>1. ~ (taken[w] = 1 /\ row[w].rumor = Rumor(d))
    BY <1>3, <1>8, Alone
  <2>2. taken[w] = 1 => row[w].rumor \in Rumors
    BY DEF Types, RowType, Content, RowsSound
  <2>3. ASSUME Own(w)' PROVE About[row[w].rumor] \in Orders \ {o}
    <3>1. taken[w] = 1 /\ order'[About[row[w].rumor]].by = row[w].rumor
      BY <1>1, <2>3 DEF Own
    <3> QED BY <1>5, <2>1, <2>2, <3>1, InboxAssumption
  <2>4. Own(w)' => Own(w)
    BY <1>1, <1>5, <2>3 DEF Own
  <2> QED BY <1>5, <2>3, <2>4 DEF Safe
<1>9. Answers(d)
  BY <1>6 DEF Answers
<1>10. s \in Dispatching \ {"taken"}
  BY DEF Dispatching
<1> QED BY <1>1, <1>2, <1>3, <1>5, <1>7, <1>8, <1>9, <1>10, GoKept

\* The order is rejected or cancelled, if it may still be.
LEMMA CloseKept ==
  ASSUME Types, JobsSound, Content, NEW d \in Passes, RejectOrder(d) \/ CancelOrder(d)
  PROVE  /\ Content' /\ job' \in [Passes -> JobType] /\ order' \in [Orders -> OrderType]
         /\ RefusalsSound => RefusalsSound'
<1> DEFINE o == OrderOf(d)
<1>1. /\ At(d, "reject") \/ At(d, "cancel")
      /\ UNCHANGED <<row, blocked, told, replies, taken, resumed>>
  BY DEF RejectOrder, CancelOrder, history
<1>2. PICK s \in {"refuse", "mark"} :
        /\ Go(d, s)
        /\ s = "refuse" => At(d, "reject")
        /\ s = "refuse" => order' =
             IF order[o].state = "received" THEN [order EXCEPT ![o].state = "rejected"] ELSE order
        /\ s = "mark" => At(d, "cancel")
        /\ s = "mark" => order' =
             IF <<order[o].state, "cancelled">> \in ORDER_TRANSITIONS
             THEN [order EXCEPT ![o].state = "cancelled"] ELSE order
  BY DEF RejectOrder, CancelOrder
<1>3. /\ Dispatches(d) /\ Rumor(d) \in Rumors /\ o \in Orders
      /\ job[d].wrap \in Wraps /\ Rumor(d) = row[job[d].wrap].rumor
  BY <1>1, InWork DEF At
<1>4. o = About[Rumor(d)]
  BY DEF OrderOf
<1> HIDE DEF o
<1>5. /\ order' \in [Orders -> OrderType] /\ OrdersKept
      /\ \A x \in Orders \ {o} : order'[x] = order[x]
      /\ order'[o] # order[o] => /\ order'[o].state \in {"rejected", "cancelled"}
                                 /\ order[o].state \notin {"rejected", "cancelled"}
      /\ s = "refuse" /\ order[o].state = "received" => order'[o].state = "rejected"
  <2>1. CASE order' = order
    <3>1. s = "refuse" /\ order[o].state = "received" => order'[o].state = "rejected"
      BY <1>2, <1>3, OrderMoves DEF ORDER_STATES
    <3> QED BY <2>1, <3>1 DEF Types, OrdersKept
  <2>2. CASE order' # order
    <3>1. PICK state \in {"rejected", "cancelled"} :
            /\ order' = [order EXCEPT ![o].state = state]
            /\ s = "refuse" => state = "rejected"
            /\ order[o].state \notin {"none", "rejected", "cancelled"}
      <4>1. s = "refuse" => order' = [order EXCEPT ![o].state = "rejected"]
                            /\ order[o].state \notin {"none", "rejected", "cancelled"}
        BY <1>2, <2>2
      <4>2. s = "mark" => order' = [order EXCEPT ![o].state = "cancelled"]
                          /\ order[o].state \notin {"none", "rejected", "cancelled"}
        BY <1>2, <2>2 DEF ORDER_TRANSITIONS
      <4> QED BY <1>2, <4>1, <4>2
    <3>2. state \in ORDER_STATES
      BY DEF ORDER_STATES
    <3>3. /\ order' \in [Orders -> OrderType] /\ order'[o].state = state
          /\ \A x \in Orders \ {o} : order'[x] = order[x]
          /\ OrdersKept
      BY <1>3, <3>1, <3>2, OrderMoves
    <3> QED BY <1>3, <3>1, <3>3
  <2> QED BY <2>1, <2>2
<1>6. Rumor(d)' = Rumor(d) /\ job'[d].step = s /\ job'[d].wrap = job[d].wrap
  BY <1>1, <1>2, GoDoes DEF Rumor, Types, Steps, Dispatching
<1>7. Fits(s, Rumor(d))'
  BY <1>2, <1>6 DEF Fits, Took, Content, EffectsSound
<1>8. ASSUME NEW w \in Wraps, row[w].rumor \in Rumors PROVE Safe(w)
  <2>1. About[row[w].rumor] \in Orders
    BY <1>8, InboxAssumption
  <2> QED BY <1>1, <1>5, <2>1 DEF Safe, Own, OrdersKept
<1>9. \A w \in Wraps : w \in replies \/ (\E e \in Passes \ {d} : Dispatches(e) /\ job[e].wrap = w)
        => row[w].rumor \in Rumors
  <2>1. \A w \in Wraps : taken[w] > 0 => row[w].rumor \in Rumors
    BY DEF Types, RowType, Content, RowsSound
  <2> QED BY <2>1 DEF Content, RowsSound, WorkSound
<1>10. ASSUME RefusalsSound PROVE Answers(d)
  <2>1. CASE s = "mark"
    BY <1>6, <2>1 DEF Answers
  <2>2. CASE s = "refuse"
    <3>1. Own(job[d].wrap)' => Own(job[d].wrap)
      BY <1>1, <1>3, <1>4, <1>5, <1>6 DEF Own, OrdersKept
    <3>2. Own(job[d].wrap) => order[o].state \in {"received", "rejected", "cancelled"}
      BY <1>2, <1>3, <1>10, <2>2 DEF RefusalsSound, o
    <3>3. Own(job[d].wrap) => order'[o].state \in {"rejected", "cancelled"}
      BY <1>5, <2>2, <3>2
    <3> QED BY <1>6, <2>2, <3>1, <3>3 DEF Answers, o
  <2> QED BY <2>1, <2>2
<1>11. s \in Dispatching \ {"taken"}
  BY DEF Dispatching
<1>12. Content' /\ job' \in [Passes -> JobType]
  BY <1>1, <1>2, <1>3, <1>5, <1>7, <1>11, GoKept
<1>13. ASSUME RefusalsSound PROVE RefusalsSound'
  BY <1>1, <1>2, <1>3, <1>5, <1>7, <1>8, <1>9, <1>10, <1>11, <1>13, GoKept
<1> QED BY <1>5, <1>12, <1>13

\* A message places its order.
LEMMA PlaceKept ==
  ASSUME Types, JobsSound, Content, NEW d \in Passes, InsertOrder(d),
         order[OrderOf(d)].state = "none"
  PROVE  /\ Content' /\ job' \in [Passes -> JobType] /\ order' \in [Orders -> OrderType]
         /\ RefusalsSound => RefusalsSound'
<1> DEFINE o == OrderOf(d)
<1>1. /\ At(d, "taken") /\ Kind[Rumor(d)] = "order" /\ Go(d, "begin")
      /\ order' = [order EXCEPT ![OrderOf(d)] = [state |-> "received", by |-> Rumor(d)]]
      /\ UNCHANGED <<row, blocked, told, replies, taken, resumed>>
  BY DEF InsertOrder, Handling, history
<1>2. /\ Dispatches(d) /\ Rumor(d) \in Rumors /\ o \in Orders
      /\ job[d].wrap \in Wraps /\ Rumor(d) = row[job[d].wrap].rumor
  BY <1>1, InWork DEF At
<1>3. o = About[Rumor(d)]
  BY DEF OrderOf
<1>4. /\ job' \in [Passes -> JobType]
      /\ job'[d].step = "begin" /\ job'[d].wrap = job[d].wrap
      /\ \A e \in Passes \ {d} : job'[e] = job[e]
  BY <1>1, GoDoes DEF Types, Steps, Dispatching
<1>5. StillTaken /\ ~ At(d, "taken")' /\ \A e \in Passes : Goes(e)
  BY <1>2, <1>4 DEF StillTaken, Goes, At, Dispatching
<1>6. RowsSound' /\ OneRow' /\ WorkSound'
  BY <1>1, <1>5, GoRows DEF Content
<1>7. /\ SourcesSound' /\ order' \in [Orders -> OrderType]
      /\ order'[o].state = "received" /\ order'[o].by = Rumor(d)
      /\ \A x \in Orders \ {o} : order'[x] = order[x]
  BY <1>1, <1>5, PlaceSources DEF Content
<1>8. order[o].state = "none"
  OBVIOUS
<1> HIDE DEF o
<1>9. EffectsSound'
  <2>1. ASSUME NEW r \in Rumors, Took(r) PROVE Took(r)'
    <3>1. About[r] \in Orders
      BY InboxAssumption
    <3> QED BY <1>1, <1>7, <1>8, <2>1, <3>1 DEF Took
  <2>2. \A w \in Wraps : row[w].state = "processed" => row[w].rumor \in Rumors
    BY DEF Types, RowType, Content, RowsSound
  <2>3. Rumor(d)' = Rumor(d)
    BY <1>1, <1>4 DEF Rumor
  <2>4. \A e \in Passes :
          ~ At(e, "idle")' /\ (job'[e].step # job[e].step \/ job'[e].wrap # job[e].wrap)
            => Fits(job[e].step, Rumor(e))'
    BY <1>1, <1>3, <1>4, <1>7, <2>3 DEF Fits
  <2>5. \A x \in Orders : order[x].state # "none" => order'[x] = order[x]
    BY <1>7, <1>8
  <2> QED BY <1>1, <1>5, <2>1, <2>2, <2>4, <2>5, GoEffects DEF Content
<1>10. ASSUME RefusalsSound PROVE RefusalsSound'
  <2>1. ASSUME NEW w \in Wraps,
               w \in replies \/ (\E e \in Passes \ {d} : Dispatches(e) /\ job[e].wrap = w)
        PROVE  Safe(w)
    <3>1. ~ (taken[w] = 1 /\ row[w].rumor = Rumor(d))
      BY <1>2, <1>10, <2>1, Alone
    <3>2. taken[w] = 1 => row[w].rumor \in Rumors
      BY DEF Types, RowType, Content, RowsSound
    <3>3. ASSUME Own(w)' PROVE About[row[w].rumor] \in Orders \ {o}
      <4>1. taken[w] = 1 /\ order'[About[row[w].rumor]].by = row[w].rumor
        BY <1>1, <3>3 DEF Own
      <4> QED BY <1>7, <3>1, <3>2, <4>1, InboxAssumption
    <3>4. Own(w)' => Own(w)
      BY <1>1, <1>7, <3>3 DEF Own
    <3> QED BY <1>7, <3>3, <3>4 DEF Safe
  <2>2. ASSUME NEW e \in Passes, Dispatches(e)'
        PROVE  /\ Dispatches(e) /\ job'[e].wrap = job[e].wrap
               /\ (job'[e].step = job[e].step /\ Safe(job[e].wrap)) \/ Answers(e)
    <3>1. CASE e = d
      BY <1>2, <1>4, <3>1 DEF Answers
    <3>2. CASE e # d
      <4>1. Dispatches(e) /\ job'[e] = job[e]
        BY <1>4, <2>2, <3>2 DEF Dispatches
      <4>2. job[e].wrap \in Wraps
        BY <4>1, NoJobDoes DEF JobsSound, Dispatches, At
      <4> QED BY <2>1, <3>2, <4>1, <4>2
    <3> QED BY <3>1, <3>2
  <2>3. \A w \in replies : Safe(w)
    BY <2>1 DEF Types
  <2> QED BY <1>1, <1>10, <2>2, <2>3, GoRefusals
<1> QED BY <1>4, <1>6, <1>7, <1>9, <1>10 DEF Content

\* A receipt or a message of a conversation is recorded.
LEMMA TellKept ==
  ASSUME Types, JobsSound, Content, NEW d \in Passes, At(d, "taken"), Go(d, "mark"),
         Kind[Rumor(d)] # "order", told' = [told EXCEPT ![Rumor(d)] = More(@)],
         UNCHANGED <<row, blocked, order, replies, taken, resumed>>
  PROVE  /\ Content' /\ job' \in [Passes -> JobType] /\ told' \in [Rumors -> 0..2]
         /\ RefusalsSound => RefusalsSound'
<1>1. /\ Dispatches(d) /\ Rumor(d) \in Rumors
      /\ job[d].wrap \in Wraps /\ Rumor(d) = row[job[d].wrap].rumor
  BY InWork DEF At
<1>2. /\ job' \in [Passes -> JobType]
      /\ job'[d].step = "mark" /\ job'[d].wrap = job[d].wrap
      /\ \A e \in Passes \ {d} : job'[e] = job[e]
  BY GoDoes DEF Types, Steps, Dispatching
<1>3. StillTaken /\ ~ At(d, "taken")' /\ \A e \in Passes : Goes(e)
  BY <1>1, <1>2 DEF StillTaken, Goes, At, Dispatching
<1>4. RowsSound' /\ OneRow' /\ WorkSound'
  BY <1>3, GoRows DEF Content
<1>5. /\ SourcesSound' /\ told' \in [Rumors -> 0..2]
      /\ told'[Rumor(d)] > 0 /\ \A r \in Rumors : told[r] > 0 => told'[r] > 0
  BY <1>3, TellSources DEF Content
<1>6. EffectsSound'
  <2>1. \A r \in Rumors : Took(r) => Took(r)'
    BY <1>5 DEF Took
  <2>2. \A w \in Wraps : row[w].state = "processed" => row[w].rumor \in Rumors
    BY DEF Types, RowType, Content, RowsSound
  <2>3. Rumor(d)' = Rumor(d)
    BY <1>2 DEF Rumor
  <2>4. \A e \in Passes :
          ~ At(e, "idle")' /\ (job'[e].step # job[e].step \/ job'[e].wrap # job[e].wrap)
            => Fits(job[e].step, Rumor(e))'
    BY <1>2, <1>5, <2>3 DEF Fits, Took
  <2> QED BY <1>3, <2>1, <2>2, <2>4, GoEffects DEF Content
<1>7. ASSUME RefusalsSound PROVE RefusalsSound'
  <2>1. \A w : Safe(w)
    BY DEF Safe, Own
  <2>2. ASSUME NEW e \in Passes, Dispatches(e)'
        PROVE  /\ Dispatches(e) /\ job'[e].wrap = job[e].wrap
               /\ (job'[e].step = job[e].step /\ Safe(job[e].wrap)) \/ Answers(e)
    BY <1>1, <1>2, <2>1, <2>2 DEF Answers, Dispatches
  <2> QED BY <1>7, <2>1, <2>2, GoRefusals
<1> QED BY <1>2, <1>4, <1>5, <1>6, <1>7 DEF Content

\* The buyer is told of a rejection, and the pass is done with the row.
LEMMA ReplyKept ==
  ASSUME Types, JobsSound, Content, NEW d \in Passes, Reply(d)
  PROVE  /\ Content' /\ replies' \subseteq Wraps
         /\ RefusalsSound => RefusalsSound'
<1> DEFINE w == job[d].wrap
<1>1. /\ At(d, "reply") /\ UNCHANGED <<row, blocked, order, told, taken, resumed>>
      /\ replies \subseteq replies' /\ replies' \subseteq replies \cup {w}
      /\ job' = [job EXCEPT ![d] = NoJob]
  BY DEF Reply, history
<1>2. /\ Dispatches(d) /\ Rumor(d) \in Rumors /\ w \in Wraps
      /\ Rumor(d) = row[w].rumor /\ taken[w] > 0
  BY <1>1, InWork DEF At, Content, WorkSound
<1>3. job'[d] = NoJob /\ \A e \in Passes \ {d} : job'[e] = job[e]
  BY <1>1, DropDoes DEF Types
<1>4. \A x \in Wraps : x \in replies' => taken[x] > 0
  BY <1>1, <1>2 DEF Content, RowsSound
<1>5. Quiet
  BY <1>1, <1>3, <1>4, NoJobDoes DEF Quiet, history
<1>6. \A e \in Passes : Dispatches(e)' => e # d /\ Dispatches(e) /\ job'[e] = job[e]
  BY <1>3, NoJobDoes DEF Dispatches
<1>7. OrderOf(d) = About[row[w].rumor]
  BY DEF OrderOf, Rumor
<1> HIDE DEF w
<1>8. ASSUME RefusalsSound PROVE RefusalsSound'
  <2>1. ASSUME NEW x \in replies', taken[x] = 1, About[row[x].rumor] \notin resumed,
               order[About[row[x].rumor]].by = row[x].rumor
        PROVE  order[About[row[x].rumor]].state \in {"rejected", "cancelled"}
    <3>1. CASE x \in replies
      BY <1>8, <2>1, <3>1 DEF RefusalsSound, RejectedIsRejected
    <3>2. CASE x = w
      <4>1. Own(w)
        BY <2>1, <3>2 DEF Own
      <4> QED BY <1>1, <1>2, <1>7, <1>8, <3>2, <4>1 DEF RefusalsSound, At, w
    <3> QED BY <1>1, <3>1, <3>2
  <2>2. RejectedIsRejected'
    BY <1>1, <2>1 DEF RejectedIsRejected
  <2>3. ASSUME NEW x \in replies', NEW e \in Passes, taken[x] = 1, Dispatches(e)', job'[e].wrap = x
        PROVE  FALSE
    <3>1. e # d /\ Dispatches(e) /\ job[e].wrap = x
      BY <1>6, <2>3
    <3>2. CASE x \in replies
      BY <1>8, <2>3, <3>1, <3>2 DEF RefusalsSound
    <3>3. CASE x = w
      BY <1>2, <2>3, <3>1, <3>3 DEF Content, WorkSound, w
    <3> QED BY <1>1, <3>1, <3>2, <3>3
  <2>4. ASSUME NEW e \in Passes, Dispatches(e)', Own(job[e].wrap)'
        PROVE  /\ At(e, "reject")' => order'[OrderOf(e)'].state \in {"received", "rejected", "cancelled"}
               /\ job'[e].step \in {"refuse", "reply"} =>
                    order'[OrderOf(e)'].state \in {"rejected", "cancelled"}
    <3>1. Dispatches(e) /\ job'[e] = job[e] /\ OrderOf(e)' = OrderOf(e) /\ Own(job[e].wrap)
      BY <1>1, <1>6, <2>4 DEF OrderOf, Rumor, Own
    <3> QED BY <1>1, <1>8, <3>1 DEF RefusalsSound, At
  <2> QED BY <1>1, <2>2, <2>3, <2>4 DEF RefusalsSound
<1>9. Content'
  BY <1>5, QuietKept
<1>10. replies' \subseteq Wraps
  BY <1>1, <1>2 DEF Types
<1> QED BY <1>8, <1>9, <1>10

-----------------------------------------------------------------------------
\* Every step keeps the invariant

\* What a step has to keep; an answer stays true where nobody confirms an order
\* that was cancelled.
Kept ==
  /\ IInv'
  /\ RefusalsSound /\ <<"cancelled", "confirmed">> \notin Moves => RefusalsSound'

\* Steps of a pass do not touch the leases.
LEMMA SameTypes ==
  ASSUME Types, UNCHANGED leaseVars
  PROVE  LeaseTypeOK' /\ UNCHANGED turn
BY DEF Types, LeaseTypeOK, leaseVars

\* Rows are written by the passes that may.
LEMMA WriteStep ==
  ASSUME IInv, NEW d \in Passes, MayWrite(d),
         ProcessReceived(d) \/ Quarantine(d) \/ SenderCopy(d) \/ Mark(d)
  PROVE  Kept
<1>1. Types /\ JobsSound /\ Content /\ WorkSound /\ EffectsSound
  BY DEF IInv, Content
<1>2. PICK w \in Wraps : Rewrites(d, w)
  BY <1>1, ProcessRewrites, MarkRewrites
<1>3. JobsSound' /\ Content' /\ (RefusalsSound => RefusalsSound')
  BY <1>1, <1>2, RewriteJobs, RewriteKept
<1>4. Types'
  BY <1>1, <1>2, SameTypes DEF Rewrites, Types, history
<1> QED BY <1>3, <1>4 DEF Kept, IInv, Content

\* The steps that only touch an order, a record or the list of requests.
LEMMA EffectStep ==
  ASSUME IInv, NEW d \in Passes, MayWrite(d),
         \/ RefuseOrder(d) \/ RefuseIntake(d) \/ InsertOrder(d) \/ BeginSaga(d)
         \/ RejectOrder(d) \/ AskPayment(d) \/ HandleStatus(d) \/ CancelOrder(d)
         \/ HandleReceipt(d) \/ HandleDm(d)
  PROVE  Kept
<1>1. Types /\ JobsSound /\ Content
  BY DEF IInv, Content
<1>2. /\ ~ At(d, "idle") /\ \E s \in Dispatching : Go(d, s)
      /\ UNCHANGED leaseVars /\ UNCHANGED <<row, blocked, replies, history, unasked>>
      /\ asked' = asked \/ AskPayment(d)
  <2> USE DEF Handling, At, Dispatching
  <2>1. CASE RefuseOrder(d) \/ RefuseIntake(d)
    BY <2>1 DEF RefuseOrder, RefuseIntake
  <2>2. CASE InsertOrder(d)
    BY <2>2 DEF InsertOrder
  <2>3. CASE BeginSaga(d)
    BY <2>3 DEF BeginSaga
  <2>4. CASE RejectOrder(d) \/ AskPayment(d) \/ HandleStatus(d) \/ CancelOrder(d)
    BY <2>4 DEF RejectOrder, AskPayment, HandleStatus, CancelOrder
  <2>5. CASE HandleReceipt(d) \/ HandleDm(d)
    BY <2>5 DEF HandleReceipt, HandleDm
  <2> QED BY <2>1, <2>2, <2>3, <2>4, <2>5
<1>3. JobsSound' /\ job' \in [Passes -> JobType] /\ LeaseTypeOK'
  BY <1>1, <1>2, GoJobs, SameTypes
<1>4. asked' \subseteq Orders
  <2>1. AskPayment(d) => asked' = asked \cup {OrderOf(d)} /\ OrderOf(d) \in Orders
    BY <1>1, InWork DEF AskPayment, At
  <2> QED BY <1>1, <1>2, <2>1 DEF Types
<1>5. /\ Content' /\ order' \in [Orders -> OrderType] /\ told' \in [Rumors -> 0..2]
      /\ RefusalsSound => RefusalsSound'
  <2>1. CASE RefuseOrder(d) \/ RefuseIntake(d) \/ AskPayment(d) \/ HandleStatus(d)
    BY <1>1, <2>1, IdleStepsKept DEF RefuseOrder, RefuseIntake, AskPayment, HandleStatus, Types
  <2>2. CASE InsertOrder(d) /\ order[OrderOf(d)].state # "none"
    BY <1>1, <2>2, IdleStepsKept DEF InsertOrder, Types
  <2>3. CASE InsertOrder(d) /\ order[OrderOf(d)].state = "none"
    BY <1>1, <2>3, PlaceKept DEF InsertOrder, Types
  <2>4. CASE BeginSaga(d)
    BY <1>1, <2>4, IdleStepsKept, BeginKept DEF BeginSaga, Types
  <2>5. CASE RejectOrder(d) \/ CancelOrder(d)
    BY <1>1, <2>5, CloseKept DEF RejectOrder, CancelOrder, Types
  <2>6. CASE (HandleReceipt(d) \/ HandleDm(d)) /\ told' = told
    BY <1>1, <2>6, IdleStepsKept DEF HandleReceipt, HandleDm, Types
  <2>7. CASE (HandleReceipt(d) \/ HandleDm(d)) /\ told' # told
    <3>1. /\ At(d, "taken") /\ Go(d, "mark") /\ Kind[Rumor(d)] # "order"
          /\ told' = [told EXCEPT ![Rumor(d)] = More(@)]
          /\ UNCHANGED <<row, blocked, order, replies, taken, resumed>>
      BY <2>7 DEF HandleReceipt, HandleDm, Handling, history
    <3> QED BY <1>1, <3>1, TellKept DEF Types
  <2> QED BY <2>1, <2>2, <2>3, <2>4, <2>5, <2>6, <2>7
<1>6. Types'
  BY <1>1, <1>2, <1>3, <1>4, <1>5 DEF Types, history
<1> QED BY <1>3, <1>5, <1>6 DEF Kept, IInv, Content

\* A pass takes a row, answers, gives up, or is over.
LEMMA PassStep ==
  ASSUME IInv, NEW d \in Passes,
         \/ MayWrite(d) /\ \E w \in Wraps : TakeReceived(d, w) \/ TakeRow(d, w)
         \/ Reply(d) \/ Fail(d)
  PROVE  Kept
<1>1. Types /\ JobsSound /\ Content
  BY DEF IInv, Content
<1>2. ASSUME MayWrite(d), NEW w \in Wraps, TakeReceived(d, w) \/ TakeRow(d, w) PROVE Kept
  <2>1. /\ \E s \in {"listed", "taken"} : InHand(d, w, s)
        /\ UNCHANGED leaseVars
        /\ UNCHANGED <<row, blocked, order, told, asked, replies, resumed, unasked>>
    BY <1>2 DEF TakeReceived, TakeRow
  <2>2. JobsSound' /\ job' \in [Passes -> JobType] /\ LeaseTypeOK'
    BY <1>1, <1>2, <2>1, GoJobs, SameTypes
  <2>3. Content' /\ (RefusalsSound => RefusalsSound') /\ taken' \in [Wraps -> 0..2]
    BY <1>1, <1>2, TakeKept
  <2>4. Types'
    BY <1>1, <2>1, <2>2, <2>3 DEF Types
  <2> QED BY <2>2, <2>3, <2>4 DEF Kept, IInv, Content
<1>3. CASE Reply(d)
  <2>1. /\ job' = [job EXCEPT ![d] = NoJob] /\ UNCHANGED leaseVars
        /\ UNCHANGED <<row, blocked, order, told, asked, history, unasked>>
    BY <1>3 DEF Reply
  <2>2. JobsSound' /\ job' \in [Passes -> JobType] /\ LeaseTypeOK'
    BY <1>1, <2>1, DropJobs, SameTypes
  <2>3. Content' /\ (RefusalsSound => RefusalsSound') /\ replies' \subseteq Wraps
    BY <1>1, <1>3, ReplyKept
  <2>4. Types'
    BY <1>1, <2>1, <2>2, <2>3 DEF Types, history
  <2> QED BY <2>2, <2>3, <2>4 DEF Kept, IInv, Content
<1>4. CASE Fail(d)
  <2>1. /\ job' = [job EXCEPT ![d] = NoJob] /\ UNCHANGED leaseVars
        /\ UNCHANGED <<row, blocked, order, told, asked, replies, history, unasked>>
    BY <1>4 DEF Fail
  <2>2. JobsSound' /\ job' \in [Passes -> JobType] /\ LeaseTypeOK'
    BY <1>1, <2>1, DropJobs, SameTypes
  <2>3. Quiet
    BY <1>1, <2>1, DropDoes, NoJobDoes DEF Quiet, Types, Content, RowsSound
  <2>4. Content' /\ (RefusalsSound => RefusalsSound')
    BY <1>1, <2>1, <2>3, QuietKept
  <2>5. Types'
    BY <1>1, <2>1, <2>2 DEF Types, history
  <2> QED BY <2>2, <2>4, <2>5 DEF Kept, IInv, Content
<1> QED BY <1>2, <1>3, <1>4

\* The steps around the passes.
LEMMA OuterStep ==
  ASSUME IInv,
         \/ \E w \in Wraps : Mute(w) \/ \E r \in Rumors : Admit(w, r)
         \/ \E o \in Orders, state \in ORDER_STATES : MoveOrder(o, state)
         \/ \E p \in Processes : Die(p) \/ \E o \in Orders : PassOver(p, o)
         \/ \E p \in Processes : ListUnasked(p) \/ \E o \in Orders : AskAgain(p, o)
  PROVE  Kept
<1>1. Types /\ JobsSound /\ Content
  BY DEF IInv, Content
<1>2. ASSUME UNCHANGED leaseVars, UNCHANGED job PROVE JobsSound' /\ LeaseTypeOK'
  BY <1>1, <1>2, SameTypes DEF JobsSound, At
<1>3. ASSUME NEW w \in Wraps, Mute(w) PROVE Kept
  <2>1. /\ blocked' = blocked \cup {Author[row[w].rumor]} /\ UNCHANGED leaseVars
        /\ UNCHANGED <<row, order, told, asked, replies, history, job, unasked>>
    BY <1>3 DEF Mute
  <2>2. row[w].rumor \in Rumors
    BY <1>1, <1>3 DEF Mute, Content, RowsSound, Types, RowType
  <2>3. blocked' \subseteq Senders
    BY <1>1, <2>1, <2>2 DEF Types, Senders
  <2>4. Quiet
    BY <1>1, <2>1 DEF Quiet, Content, RowsSound
  <2>5. Types'
    BY <1>1, <1>2, <2>1, <2>3 DEF Types, history
  <2> QED BY <1>1, <1>2, <2>1, <2>4, <2>5, QuietKept DEF Kept, IInv, Content
<1>4. ASSUME NEW w \in Wraps, NEW r \in Rumors, Admit(w, r) PROVE Kept
  <2>1. UNCHANGED leaseVars /\ UNCHANGED <<blocked, order, told, asked, replies, history, job, unasked>>
    BY <1>4 DEF Admit
  <2>2. Content' /\ (RefusalsSound => RefusalsSound') /\ row' \in [Wraps -> RowType]
    BY <1>1, <1>4, AdmitKept
  <2>3. Types'
    BY <1>1, <1>2, <2>1, <2>2 DEF Types, history
  <2> QED BY <1>1, <1>2, <2>1, <2>2, <2>3 DEF Kept, IInv, Content
<1>5. ASSUME NEW o \in Orders, NEW state \in ORDER_STATES, MoveOrder(o, state) PROVE Kept
  <2>1. UNCHANGED leaseVars /\ UNCHANGED <<row, blocked, told, asked, replies, taken, job, unasked>>
    BY <1>5 DEF MoveOrder
  <2>2. /\ Content' /\ order' \in [Orders -> OrderType] /\ resumed' \subseteq Orders
        /\ RefusalsSound /\ <<"cancelled", "confirmed">> \notin Moves => RefusalsSound'
    BY <1>1, <1>5, MoveKept
  <2>3. Types'
    BY <1>1, <1>2, <2>1, <2>2 DEF Types
  <2> QED BY <1>1, <1>2, <2>1, <2>2, <2>3 DEF Kept, IInv, Content
<1>6. ASSUME NEW p \in Processes, Die(p) PROVE Kept
  <2>1. /\ unasked' = [unasked EXCEPT ![p] = {}]
        /\ job' = [d \in Passes |-> IF d[1] = p THEN NoJob ELSE job[d]]
        /\ UNCHANGED <<row, blocked, order, told, asked, replies, history>>
    BY <1>6 DEF Die
  <2>2. JobsSound' /\ job' \in [Passes -> JobType] /\ LeaseTypeOK'
    BY <1>1, <1>6, DieJobs
  <2>3. Quiet
    BY <1>1, <2>1, NoJobDoes DEF Quiet, Content, RowsSound
  <2>4. unasked' \in [Processes -> SUBSET Orders]
    BY <1>1, <2>1 DEF Types
  <2>5. Types'
    BY <1>1, <2>1, <2>2, <2>4 DEF Types, history
  <2> QED BY <1>1, <2>1, <2>2, <2>3, <2>5, QuietKept DEF Kept, IInv, Content
<1>7. ASSUME NEW p \in Processes,
             ListUnasked(p) \/ \E o \in Orders : PassOver(p, o) \/ AskAgain(p, o)
      PROVE  Kept
  <2>1. /\ UNCHANGED leaseVars /\ UNCHANGED <<row, blocked, order, told, replies, history, job>>
        /\ unasked' \in [Processes -> SUBSET Orders] /\ asked' \subseteq Orders
    BY <1>1, <1>7 DEF ListUnasked, PassOver, AskAgain, Unasked, Types
  <2>2. Quiet
    BY <1>1, <2>1 DEF Quiet, Content, RowsSound
  <2>3. Types'
    BY <1>1, <1>2, <2>1 DEF Types, history
  <2> QED BY <1>1, <1>2, <2>1, <2>2, <2>3, QuietKept DEF Kept, IInv, Content
<1> QED BY <1>3, <1>4, <1>5, <1>6, <1>7

\* The leases move alone.
LEMMA LeasesStep ==
  ASSUME IInv, UNCHANGED intake,
         \/ \E d \in Passes : Acquire(d[1], d[2])
         \/ \E t \in Drains : Lapse(t)
         \/ \E d \in Passes : Free(d) /\ Leave(d[1], d[2])
         \/ UNCHANGED leaseVars
  PROVE  Kept
<1>1. Types /\ JobsSound /\ Content
  BY DEF IInv, Content
<1>2. UNCHANGED <<row, blocked, order, told, asked, replies, taken, resumed, job, unasked>>
  BY DEF intake, history
<1>3. JobsSound' /\ LeaseTypeOK'
  <2>1. CASE UNCHANGED leaseVars
    BY <1>1, <1>2, <2>1, SameTypes DEF JobsSound, At
  <2> QED BY <1>1, <1>2, <2>1, LeaseJobs
<1>4. Types'
  BY <1>1, <1>2, <1>3 DEF Types
<1>5. Quiet
  BY <1>1, <1>2 DEF Quiet, history, Content, RowsSound
<1> QED BY <1>1, <1>2, <1>3, <1>4, <1>5, QuietKept DEF Kept, IInv, Content

\* Every step keeps the invariant.
LEMMA Step == ASSUME IInv, [Next]_vars PROVE Kept
<1>1. CASE UNCHANGED vars
  BY <1>1, LeasesStep DEF vars
<1>2. CASE Next
  <2>1. CASE \/ \E w \in Wraps : Mute(w) \/ \E r \in Rumors : Admit(w, r)
             \/ \E o \in Orders, state \in ORDER_STATES : MoveOrder(o, state)
             \/ \E p \in Processes : Die(p) \/ \E o \in Orders : PassOver(p, o)
             \/ \E p \in Reconcilers : ListUnasked(p) \/ \E o \in Orders : AskAgain(p, o)
    BY <2>1, OuterStep DEF Reconcilers
  <2>2. CASE \E t \in Drains : Lapse(t) /\ UNCHANGED intake
    BY <2>2, LeasesStep
  <2>3. ASSUME NEW d \in Passes,
               \/ Acquire(d[1], d[2]) /\ UNCHANGED intake
               \/ /\ MayWrite(d)
                  /\ \/ \E w \in Wraps : TakeReceived(d, w) \/ TakeRow(d, w)
                     \/ ProcessReceived(d) \/ Effect(d) \/ Mark(d) \/ Reply(d)
               \/ Fail(d) \/ EndPass(d)
        PROVE  Kept
    <3>1. CASE Acquire(d[1], d[2]) /\ UNCHANGED intake
      BY <3>1, LeasesStep
    <3>2. CASE MayWrite(d) /\ \E w \in Wraps : TakeReceived(d, w) \/ TakeRow(d, w)
      BY <3>2, PassStep
    <3>3. CASE MayWrite(d) /\ ProcessReceived(d)
      BY <3>3, WriteStep
    <3>4. CASE MayWrite(d) /\ Effect(d)
      BY <3>4, WriteStep, EffectStep DEF Effect
    <3>5. CASE MayWrite(d) /\ Mark(d)
      BY <3>5, WriteStep
    <3>6. CASE Reply(d) \/ Fail(d)
      BY <3>6, PassStep
    <3>7. CASE EndPass(d)
      BY <3>7, LeasesStep DEF EndPass
    <3> QED BY <2>3, <3>1, <3>2, <3>3, <3>4, <3>5, <3>6, <3>7
  <2> QED BY <1>2, <2>1, <2>2, <2>3 DEF Next
<1> QED BY <1>1, <1>2

\* The intake starts empty.
LEMMA InitHolds == Init => IInv /\ RefusalsSound
<1> SUFFICES ASSUME Init PROVE IInv /\ RefusalsSound
  OBVIOUS
<1>1. /\ \A w \in Wraps : row[w] = NoRow /\ taken[w] = 0
      /\ \A d \in Passes : job[d] = NoJob
      /\ \A o \in Orders : order[o].state = "none" /\ order[o].by = NoRumor
      /\ \A r \in Rumors : told[r] = 0
      /\ blocked = {} /\ replies = {} /\ asked = {} /\ resumed = {}
      /\ \A p \in Processes, t \in Tasks : turn[p][t] = "none"
  BY DEF Init, LeaseInit, Idle
<1>2. /\ NoRow \in RowType /\ NoRow.rumor = NoRumor /\ NoRow.state = "none"
      /\ NoRow.keyed = FALSE /\ NoRow.muted = FALSE
      /\ [state |-> "none", by |-> NoRumor] \in OrderType
  BY DEF NoRow, RowType, OrderType
<1>3. Types
  BY <1>2, NoJobDoes, LeaseInitTypes DEF Init, Types
<1>4. \A d \in Passes : At(d, "idle") /\ ~ Dispatches(d) /\ ~ job[d].late
  BY <1>1, NoJobDoes DEF At, Dispatches
<1>5. JobsSound
  BY <1>1, <1>4, PassParts DEF JobsSound
<1>6. RowsSound /\ OneRow
  BY <1>1, <1>2 DEF RowsSound, OneRow, Holds
<1>7. WorkSound
  BY <1>4 DEF WorkSound
<1>8. SourcesSound
  BY <1>1, <1>4 DEF SourcesSound, RecordedOnce, At
<1>9. EffectsSound
  BY <1>1, <1>2, <1>4 DEF EffectsSound, At
<1>10. RefusalsSound
  BY <1>1, <1>4 DEF RefusalsSound, RejectedIsRejected
<1> QED BY <1>3, <1>5, <1>6, <1>7, <1>8, <1>9, <1>10 DEF IInv

-----------------------------------------------------------------------------
\* Theorems

\* The inductive invariant: leases and jobs, rows and the messages in them, what
\* was recorded and ordered, and what each pass goes on with.
THEOREM Invariant == Spec => []IInv
<1>1. IInv /\ [Next]_vars => IInv'
  BY Step DEF Kept
<1>2. Init => IInv
  BY InitHolds
<1> QED BY <1>1, <1>2, PTL DEF Spec

\* The variables have their types, and a rumor id is given to one row.
THEOREM TypeCorrect == Spec => []TypeOK
<1>1. ASSUME IInv PROVE TypeOK
  <2>1. \A w \in Wraps : row[w].state \in {"validated", "processed", "quarantined"} => row[w].keyed
    BY <1>1 DEF IInv, RowsSound
  <2>2. \A w, x \in Wraps :
          row[w].keyed /\ row[x].keyed /\ row[w].rumor = row[x].rumor => w = x
    BY <1>1 DEF IInv, OneRow, Holds
  <2> QED BY <1>1, <2>1, <2>2
          DEF IInv, Types, TypeOK, RowType, OrderType, JobType, Steps, Dispatching
<1> QED BY <1>1, Invariant, PTL

\* A message is recorded once, however many wraps bring it and whatever crashes
\* and takes over, unless the dispatch of its row was begun twice.
THEOREM RecordedAtMostOnce == Spec => []RecordedOnce
<1>1. IInv => RecordedOnce
  BY DEF IInv, SourcesSound
<1> QED BY <1>1, Invariant, PTL

\* A message that counts as processed has taken effect: its order exists, or it is
\* in a conversation.
THEOREM ProcessedHasEffect == Spec => []ProcessedTookEffect
<1>1. ASSUME IInv PROVE ProcessedTookEffect
  <2>1. ASSUME NEW w \in Wraps, row[w].state = "processed" PROVE Took(row[w].rumor)
    BY <1>1, <2>1 DEF IInv, EffectsSound
  <2> QED BY <2>1 DEF ProcessedTookEffect, Took
<1> QED BY <1>1, Invariant, PTL

\* A buyer who is told of a rejection has no order alive that the message placed,
\* unless its dispatch was begun twice or another worker claimed the order.  An
\* order that is cancelled before it has an invoice cannot be paid, so nobody is
\* taken to confirm a cancelled order here; OrderSaga has the late payments.
THEOREM RejectionIsTrue ==
  ASSUME <<"cancelled", "confirmed">> \notin Moves
  PROVE  Spec => []RejectedIsRejected
<1>1. IInv /\ RefusalsSound /\ [Next]_vars => (IInv /\ RefusalsSound)'
  BY Step DEF Kept
<1>2. Init => IInv /\ RefusalsSound
  BY InitHolds
<1>3. RefusalsSound => RejectedIsRejected
  BY DEF RefusalsSound
<1> QED BY <1>1, <1>2, <1>3, PTL DEF Spec

\* The pass whose job changes when a row does.
LEMMA WriterIsFenced ==
  ASSUME IInv, [Next]_vars, NEW w \in Wraps, row'[w] # row[w], row[w].state # "none"
  PROVE  \E d \in Passes : job[d].wrap = w /\ ~ job[d].late /\ job'[d] # job[d]
<1>1. Types /\ JobsSound /\ WorkSound /\ EffectsSound
  BY DEF IInv
<1>2. ASSUME NEW d \in Passes, NEW x \in Wraps, Rewrites(d, x)
      PROVE  job[d].wrap = w /\ ~ job[d].late /\ job'[d] # job[d]
  <2>1. x = w /\ job[d].wrap = w /\ ~ At(d, "idle")
    BY <1>2 DEF Rewrites
  <2>2. turn[d[1]][d[2]] = "current"
    BY <1>2 DEF Rewrites, MayWrite, Fenced
  <2>3. ~ job[d].late
    BY <1>1, <2>2 DEF JobsSound
  <2>4. job'[d].step # job[d].step
    BY <1>2, <2>1, NoJobDoes DEF Rewrites, At
  <2> QED BY <2>1, <2>3, <2>4
<1>3. ASSUME NEW d \in Passes, MayWrite(d),
             ProcessReceived(d) \/ Quarantine(d) \/ SenderCopy(d) \/ Mark(d)
      PROVE  \E e \in Passes : job[e].wrap = w /\ ~ job[e].late /\ job'[e] # job[e]
  BY <1>1, <1>2, <1>3, ProcessRewrites, MarkRewrites
<1>4. ~ UNCHANGED row
  OBVIOUS
<1>5. ASSUME NEW x \in Wraps, NEW r \in Rumors, Admit(x, r) PROVE FALSE
  <2>1. row[x].state = "none"
    BY <1>5 DEF Admit, NoRow
  <2>2. \A y \in Wraps \ {x} : row'[y] = row[y]
    BY <1>1, <1>5 DEF Admit, Types
  <2> QED BY <2>1, <2>2
<1>6. ~ UNCHANGED intake /\ ~ UNCHANGED vars
  BY <1>4 DEF intake, vars
<1>7. Next
  BY <1>6
<1>8. \A x \in Wraps : ~ Mute(x)
  BY <1>4 DEF Mute
<1>9. \A o, s : ~ MoveOrder(o, s)
  BY <1>4 DEF MoveOrder
<1>10. \A p, o : ~ Die(p) /\ ~ PassOver(p, o) /\ ~ ListUnasked(p) /\ ~ AskAgain(p, o)
  BY <1>4 DEF Die, PassOver, ListUnasked, AskAgain
<1>11. \A d, x : ~ TakeReceived(d, x) /\ ~ TakeRow(d, x)
  BY <1>4 DEF TakeReceived, TakeRow
<1>12. \A d : ~ Reply(d) /\ ~ Fail(d) /\ ~ EndPass(d)
  BY <1>4, <1>6 DEF Reply, Fail, EndPass
<1>13. \A d : Effect(d) => Quarantine(d) \/ SenderCopy(d)
  BY <1>4 DEF Effect, RefuseOrder, RefuseIntake, InsertOrder, BeginSaga, RejectOrder,
              AskPayment, HandleStatus, CancelOrder, HandleReceipt, HandleDm
<1>14. \E d \in Passes :
         MayWrite(d) /\ (ProcessReceived(d) \/ Quarantine(d) \/ SenderCopy(d) \/ Mark(d))
  BY <1>5, <1>6, <1>7, <1>8, <1>9, <1>10, <1>11, <1>12, <1>13 DEF Next
<1> QED BY <1>3, <1>14

\* A pass that lost its lease to another of its task cannot undo what that one did
\* to a row it has in hand itself: the fence around every mark.
THEOREM LatePassFenced == Spec => LatePassIsFenced
<1>1. IInv /\ [Next]_vars =>
        [\A w \in Wraps : row'[w] # row[w] /\ row[w].state # "none" =>
           \E d \in Passes : job[d].wrap = w /\ ~ job[d].late /\ job'[d] # job[d]]_vars
  BY WriterIsFenced
<1> QED BY <1>1, Invariant, PTL DEF Spec, LatePassIsFenced

\* The two tasks of the intake keep to the leases of services/tasks.py: every
\* behaviour of Inbox is one of TaskLease.
THEOREM LeasesAreKept == Spec => LeaseSpec
<1>1. Init => LeaseInit
  BY DEF Init
<1>2. ASSUME [Next]_vars PROVE [LeaseNext]_leaseVars
  <2>1. \A d \in Passes : d[1] \in Processes /\ d[2] \in Tasks
    BY PassParts
  <2>2. \A d \in Passes : Acquire(d[1], d[2]) \/ EndPass(d) => LeaseNext
    BY <2>1 DEF LeaseNext, LeaseStep, EndPass
  <2>3. \A t \in Drains : Lapse(t) => LeaseNext
    BY InboxAssumption DEF LeaseNext, LeaseStep
  <2>4. \A p \in Processes : Die(p) => LeaseNext
    BY DEF LeaseNext, Die
  <2>5. \A d : Effect(d) \/ ProcessReceived(d) \/ Mark(d) \/ Reply(d) \/ Fail(d) => UNCHANGED leaseVars
    BY DEF Effect, RefuseOrder, RefuseIntake, InsertOrder, BeginSaga, RejectOrder,
           AskPayment, HandleStatus, CancelOrder, HandleReceipt, HandleDm, Quarantine,
           SenderCopy, ProcessReceived, Mark, Reply, Fail
  <2>6. \A d, w : TakeReceived(d, w) \/ TakeRow(d, w) => UNCHANGED leaseVars
    BY DEF TakeReceived, TakeRow
  <2>7. \A w, r : Mute(w) \/ Admit(w, r) => UNCHANGED leaseVars
    BY DEF Mute, Admit
  <2>8. \A p, o, s : MoveOrder(o, s) \/ PassOver(p, o) \/ ListUnasked(p) \/ AskAgain(p, o)
          => UNCHANGED leaseVars
    BY DEF MoveOrder, PassOver, ListUnasked, AskAgain
  <2>9. UNCHANGED vars => UNCHANGED leaseVars
    BY DEF vars
  <2> QED BY <1>2, <2>2, <2>3, <2>4, <2>5, <2>6, <2>7, <2>8, <2>9 DEF Next
<1> QED BY <1>1, <1>2, PTL DEF Spec, LeaseSpec

\* A pass under a live lease is never made stale: what it has begun it may commit
\* until the lease lapses, whatever the other processes do (_acquire_lease).
THEOREM LiveLeaseKept == LeaseSpec => LiveLeaseIsKept
<1>1. Reconciliation \in Tasks
  BY InboxAssumption DEF Drains
<1>2. LeaseTypeOK /\ [LeaseNext]_leaseVars => LeaseTypeOK'
  BY <1>1, LeaseTypes
<1>3. LeaseTypeOK /\ [LeaseNext]_leaseVars =>
        [\A p \in Processes, t \in Tasks : Fenced(p, t) => turn'[p][t] # "stale"]_leaseVars
  BY <1>1, FencedNotStale
<1> QED BY <1>2, <1>3, LeaseInitTypes, PTL DEF LeaseSpec, LiveLeaseIsKept

=============================================================================
