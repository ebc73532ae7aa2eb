-------------------------- MODULE EmailQueueProofs ---------------------------
(***************************************************************************)
(* Theorems of EmailQueue for any set of processes and mails.              *)
(***************************************************************************)
EXTENDS EmailQueue, TLAPS

-----------------------------------------------------------------------------
\* The inductive invariant

HandSteps == {"none", "claimed", "prepared", "late", "sending", "taken", "refused"}

MailType == [state : Ended \cup {"none", "pending", "claimed"},
             holder : Processes \cup {Nobody}, live : BOOLEAN, attempts : 0..MaxAttempts]

\* The process is about to hand the mail to SMTP, or does.
Engaged(p, m) == hand[p][m] \in {"prepared", "sending"}

\* Whoever is engaged with a mail holds its row, unless the row has ended
\* under its hands.
EngagedHolds ==
  \A m \in Mails, p \in Processes : Engaged(p, m) =>
    MayWrite(p, m) \/ mail[m].state \in Ended

\* One process at most is engaged with a mail, its end notwithstanding.
OneEngaged ==
  \A m \in Mails, p, q \in Processes : Engaged(p, m) /\ Engaged(q, m) => p = q

\* With a mail that SMTP has taken nobody is engaged, and its row has ended or is
\* held by the pass that is to write so.
TakenIsHeld ==
  \A m \in took :
    /\ \A p \in Processes : ~ Engaged(p, m)
    /\ \/ mail[m].state \in Ended
       \/ \E p \in Processes : MayWrite(p, m) /\ At(p, m, "taken")

IInv == TypeOK /\ EngagedHolds /\ OneEngaged /\ TakenIsHeld

-----------------------------------------------------------------------------
\* One cell of the table of hands

\* Writing a cell keeps the others.
LEMMA HandCell ==
  ASSUME TypeOK, NEW p \in Processes, NEW m \in Mails, NEW s \in HandSteps,
         hand' = [hand EXCEPT ![p][m] = s]
  PROVE  /\ hand' \in [Processes -> [Mails -> HandSteps]]
         /\ hand'[p][m] = s
         /\ \A q \in Processes, n \in Mails : q # p \/ n # m => hand'[q][n] = hand[q][n]
BY DEF TypeOK, HandSteps

\* The rows a step may write are well typed.
LEMMA RowTypes ==
  ASSUME TypeOK, NEW m \in Mails
  PROVE  /\ mail[m] \in MailType
         /\ Released(m) \in MailType /\ Released(m).state = "pending"
         /\ [mail[m] EXCEPT !.state = "pending"] \in MailType
         /\ [mail[m] EXCEPT !.state = "suppressed"] \in MailType
         /\ [mail[m] EXCEPT !.live = FALSE] \in MailType
         /\ \A s \in Ended : Over(s) \in MailType /\ Over(s).state = s
<1>1. mail[m] \in MailType
  BY DEF TypeOK, MailType
<1>2. NoMail \in MailType
  BY EmailAssumption DEF NoMail, MailType
<1> QED BY <1>1, <1>2 DEF MailType, Released, Over, Ended

\* The initial queue is empty.
LEMMA IInvInit == Init => IInv
BY EmailAssumption
DEF Init, IInv, TypeOK, EngagedHolds, OneEngaged, TakenIsHeld, Engaged, NoMail

-----------------------------------------------------------------------------
\* What the rest of the system does to the queue

\* A step that leaves the hands alone and takes no row from who holds it, other
\* than by ending it.
LEMMA QueueInv ==
  ASSUME IInv, TypeOK', UNCHANGED <<hand, took>>,
         \A m \in Mails :
           \/ mail'[m] = mail[m]
           \/ mail'[m].state \in Ended
           \/ mail[m].state \notin Ended /\ \A p \in Processes : ~ MayWrite(p, m)
  PROVE  IInv'
<1> USE DEF IInv
<1>1. EngagedHolds'
  BY DEF EngagedHolds, Engaged, MayWrite
<1>2. OneEngaged'
  BY DEF OneEngaged, Engaged
<1>3. TakenIsHeld'
  BY DEF TakenIsHeld, Engaged, MayWrite, At, TypeOK
<1> QED BY <1>1, <1>2, <1>3

\* Queueing a mail.
LEMMA EnqueueInv ==
  ASSUME IInv, NEW m \in Mails, Enqueue(m) \/ EnqueueTest(m) PROVE IInv'
<1>1. /\ mail' = [mail EXCEPT ![m] = [mail[m] EXCEPT !.state = "pending"]]
      /\ UNCHANGED <<order, hand, took>> /\ mail[m] = NoMail
  BY DEF Enqueue, EnqueueTest, IInv, TypeOK
<1>2. TypeOK'
  BY <1>1, RowTypes DEF IInv, TypeOK, MailType
<1>3. mail[m].state = "none"
  BY <1>1 DEF NoMail
<1> QED BY <1>1, <1>2, <1>3, QueueInv DEF IInv, TypeOK, Ended, MayWrite

\* Ending the buyer's mails at an opt-out.
LEMMA OptOutInv == ASSUME IInv, OptOut PROVE IInv'
<1>1. \A m \in Mails : mail'[m] \in {mail[m], [mail[m] EXCEPT !.state = "suppressed"]}
  BY DEF OptOut
<1>2. \A m \in Mails : [mail[m] EXCEPT !.state = "suppressed"].state = "suppressed"
  BY RowTypes DEF IInv, MailType
<1>3. TypeOK'
  <2>1. DOMAIN mail' = Mails /\ mail' = [m \in Mails |-> mail'[m]]
    BY DEF OptOut
  <2>2. mail' \in [Mails -> MailType]
    BY <1>1, <2>1, RowTypes DEF IInv
  <2>3. \A m \in Mails : mail'[m].state = "claimed" => mail'[m].holder # Nobody
    BY <1>1, <1>2 DEF IInv, TypeOK
  <2> QED BY <2>2, <2>3 DEF OptOut, IInv, TypeOK, MailType
<1> QED BY <1>1, <1>2, <1>3, QueueInv DEF OptOut, Ended

\* Ending the mails of an old order.
LEMMA PruneInv == ASSUME IInv, Prune PROVE IInv'
<1>1. \A m \in Mails : mail'[m] \in {mail[m], Over("sent"), Over("suppressed")}
  BY DEF Prune
<1>2. TypeOK'
  <2>1. mail' \in [Mails -> MailType]
    BY RowTypes DEF Prune, IInv, Ended
  <2>2. \A m \in Mails : mail'[m].state = "claimed" => mail'[m].holder # Nobody
    BY <1>1, RowTypes DEF IInv, TypeOK, Ended
  <2> QED BY <2>1, <2>2 DEF Prune, IInv, TypeOK, MailType, HandSteps
<1>3. Over("sent").state = "sent" /\ Over("suppressed").state = "suppressed"
  BY DEF Over, NoMail
<1> QED BY <1>1, <1>2, <1>3, QueueInv DEF Prune, Ended

\* Giving back a claim that has run out.
LEMMA RecoverInv == ASSUME IInv, NEW m \in Mails, Recover(m) PROVE IInv'
<1>1. TypeOK'
  BY RowTypes DEF Recover, IInv, TypeOK, MailType
<1> QED BY <1>1, QueueInv DEF Recover, IInv, TypeOK, MayWrite, Ended

-----------------------------------------------------------------------------
\* A pass

\* Nobody holds the rows that are claimed; the pass starts with empty hands.
LEMMA ClaimBatchInv ==
  ASSUME IInv, NEW p \in Processes, NEW due \in SUBSET Mails, ClaimBatch(p, due) PROVE IInv'
<1> USE DEF IInv
<1>1. \A m \in Mails :
        /\ m \in due => /\ mail[m].state = "pending"
                       /\ mail'[m] = [mail[m] EXCEPT !.state = "claimed", !.holder = p,
                                                     !.live = TRUE]
        /\ m \notin due => mail'[m] = mail[m]
  BY DEF ClaimBatch
<1>2. \A m \in Mails :
        /\ hand'[p][m] \in {"none", "claimed"} /\ hand[p][m] = "none"
        /\ \A q \in Processes : q # p => hand'[q][m] = hand[q][m]
  BY DEF ClaimBatch, TypeOK, At
<1>3. TypeOK'
  <2>1. ASSUME NEW m \in Mails
        PROVE  /\ mail'[m] \in MailType
               /\ mail'[m].state = "claimed" => mail'[m].holder # Nobody
    <3>1. mail[m] \in MailType
      BY RowTypes
    <3>2. [mail[m] EXCEPT !.state = "claimed", !.holder = p, !.live = TRUE] \in MailType
      BY <3>1 DEF MailType
    <3>3. [mail[m] EXCEPT !.state = "claimed", !.holder = p, !.live = TRUE].holder = p
      BY <3>1 DEF MailType
    <3>4. CASE m \in due
      <4>1. mail'[m] = [mail[m] EXCEPT !.state = "claimed", !.holder = p, !.live = TRUE]
        BY <1>1, <3>4, Zenon
      <4> QED BY <4>1, <3>2, <3>3, EmailAssumption, Zenon
    <3>5. CASE m \notin due
      BY <1>1, <3>1, <3>5 DEF TypeOK
    <3> QED BY <3>4, <3>5
  <2>2. mail' = [m \in Mails |-> mail'[m]]
    BY DEF ClaimBatch
  <2>3. mail' \in [Mails -> MailType]
    BY <2>1, <2>2
  <2>4. hand' \in [Processes -> [Mails -> HandSteps]]
    BY DEF ClaimBatch, TypeOK, HandSteps
  <2> QED BY <2>1, <2>3, <2>4 DEF ClaimBatch, TypeOK, MailType, HandSteps
<1>4. \A m \in Mails, q \in Processes : Engaged(q, m)' => Engaged(q, m) /\ m \notin due
  BY <1>1, <1>2 DEF Engaged, EngagedHolds, MayWrite, Ended
<1>5. EngagedHolds'
  BY <1>1, <1>4 DEF EngagedHolds, MayWrite
<1>6. OneEngaged'
  BY <1>4 DEF OneEngaged
<1>7. TakenIsHeld'
  <2> SUFFICES ASSUME NEW m \in took
               PROVE  /\ \A q \in Processes : ~ Engaged(q, m)'
                      /\ \/ mail'[m].state \in Ended
                         \/ \E q \in Processes : MayWrite(q, m)' /\ At(q, m, "taken")'
    BY DEF TakenIsHeld, ClaimBatch
  <2>1. m \in Mails /\ m \notin due /\ mail'[m] = mail[m]
    BY <1>1 DEF TakenIsHeld, TypeOK, MayWrite, Ended
  <2>2. \A q \in Processes : ~ Engaged(q, m)'
    BY <1>4, <2>1 DEF TakenIsHeld
  <2>3. \A q \in Processes : MayWrite(q, m) /\ At(q, m, "taken") =>
          MayWrite(q, m)' /\ At(q, m, "taken")'
    BY <1>2, <2>1 DEF MayWrite, At
  <2> QED BY <2>1, <2>2, <2>3 DEF TakenIsHeld
<1> QED BY <1>3, <1>5, <1>6, <1>7

\* A step of a pass on one row: what it may do to the row and to its cell.
LEMMA CellInv ==
  ASSUME IInv, TypeOK', NEW p \in Processes, NEW m \in Mails, NEW s \in HandSteps,
         hand' = [hand EXCEPT ![p][m] = s],
         \A n \in Mails : n # m => mail'[n] = mail[n],
         \/ mail'[m] = mail[m]
         \/ mail'[m].state \in Ended
         \/ MayWrite(p, m) /\ m \notin took' /\ s \notin {"prepared", "sending"},
         took' \subseteq took \cup {m},
         s \in {"prepared", "sending"} =>
           /\ Engaged(p, m) \/ (MayWrite(p, m) /\ m \notin took)
           /\ mail'[m] = mail[m] /\ took' = took,
         m \in took' =>
           \/ Engaged(p, m) /\ s = "taken" /\ mail'[m] = mail[m]
           \/ m \in took /\ ~ At(p, m, "taken")
           \/ m \in took /\ mail'[m].state \in Ended
  PROVE  IInv'
<1> USE DEF IInv
<1>1. /\ hand'[p][m] = s
      /\ \A q \in Processes, n \in Mails : q # p \/ n # m => hand'[q][n] = hand[q][n]
  BY DEF TypeOK, HandSteps
<1>2. \A q \in Processes, n \in Mails : n # m =>
        /\ Engaged(q, n)' <=> Engaged(q, n)
        /\ MayWrite(q, n)' <=> MayWrite(q, n)
        /\ At(q, n, "taken")' <=> At(q, n, "taken")
  BY <1>1 DEF Engaged, MayWrite, At
<1>3. \A q \in Processes : q # p => (Engaged(q, m)' <=> Engaged(q, m))
  BY <1>1 DEF Engaged
<1>4. Engaged(p, m)' <=> s \in {"prepared", "sending"}
  BY <1>1 DEF Engaged
<1>5. ASSUME mail'[m].state \notin Ended, NEW q \in Processes, Engaged(q, m)'
      PROVE  mail'[m] = mail[m] /\ MayWrite(q, m)
  BY <1>3, <1>4, <1>5 DEF EngagedHolds, MayWrite, Ended, Engaged
<1>6. EngagedHolds'
  BY <1>2, <1>5 DEF EngagedHolds, MayWrite
<1>7. OneEngaged'
  <2> SUFFICES ASSUME NEW n \in Mails, NEW q \in Processes, NEW r \in Processes,
                      Engaged(q, n)', Engaged(r, n)'
               PROVE  q = r
    BY DEF OneEngaged
  <2>1. CASE n # m
    BY <1>2, <2>1 DEF OneEngaged
  <2>2. CASE n = m
    <3>1. \A c \in Processes : Engaged(c, m) /\ MayWrite(p, m) => c = p
      BY DEF EngagedHolds, MayWrite, Ended
    <3> QED BY <1>3, <1>4, <2>2, <3>1 DEF OneEngaged
  <2> QED BY <2>1, <2>2
<1>8. TakenIsHeld'
  <2> SUFFICES ASSUME NEW n \in took'
               PROVE  /\ \A q \in Processes : ~ Engaged(q, n)'
                      /\ \/ mail'[n].state \in Ended
                         \/ \E q \in Processes : MayWrite(q, n)' /\ At(q, n, "taken")'
    BY DEF TakenIsHeld
  <2>1. CASE n # m
    BY <1>2, <2>1 DEF TakenIsHeld, TypeOK
  <2>2. CASE n = m /\ m \in took
    BY <1>1, <1>3, <1>4, <2>2 DEF TakenIsHeld, MayWrite, At, Engaged, TypeOK
  <2>3. CASE n = m /\ m \notin took
    BY <1>1, <1>3, <1>4, <2>3 DEF TakenIsHeld, OneEngaged, EngagedHolds, MayWrite, At, Engaged
  <2> QED BY <2>1, <2>2, <2>3
<1> QED BY <1>6, <1>7, <1>8

\* The steps of a pass are such steps.
LEMMA PassInv ==
  ASSUME IInv, NEW p \in Processes, NEW m \in Mails, Pass(p, m) PROVE IInv'
<1> USE DEF IInv
<1>1. ASSUME LoseClaim(p, m) PROVE IInv'
  <2>1. TypeOK'
    BY <1>1, HandCell DEF LoseClaim, Drop, TypeOK, HandSteps
  <2> QED BY <1>1, <2>1, CellInv DEF LoseClaim, Drop, At, HandSteps
<1>2. ASSUME Suppress(p, m) PROVE IInv'
  <2>1. mail' = [mail EXCEPT ![m] = [mail[m] EXCEPT !.state = "suppressed"]]
    BY <1>2 DEF Suppress, TypeOK
  <2>3. mail'[m].state = "suppressed"
    BY <2>1, RowTypes DEF TypeOK, MailType
  <2>2. TypeOK'
    <3>1. mail' \in [Mails -> MailType]
      BY <2>1, RowTypes DEF TypeOK, MailType
    <3>2. \A n \in Mails : mail'[n].state = "claimed" => mail'[n].holder # Nobody
      BY <2>1, <2>3 DEF TypeOK
    <3>3. hand' \in [Processes -> [Mails -> HandSteps]]
      BY <1>2, HandCell DEF Suppress, Drop, HandSteps
    <3> QED BY <1>2, <3>1, <3>2, <3>3 DEF Suppress, TypeOK, MailType, HandSteps
  <2> QED BY <1>2, <2>1, <2>2, <2>3, CellInv DEF Suppress, Drop, At, HandSteps, Ended, TypeOK
<1>3. ASSUME Defer(p, m) PROVE IInv'
  <2>1. TypeOK'
    <3>1. mail' \in [Mails -> MailType]
      BY <1>3, RowTypes DEF Defer, TypeOK, MailType
    <3>2. \A n \in Mails : mail'[n].state = "claimed" => mail'[n].holder # Nobody
      BY <1>3, RowTypes DEF Defer, TypeOK
    <3>3. hand' \in [Processes -> [Mails -> HandSteps]]
      BY <1>3, HandCell DEF Defer, Drop, HandSteps
    <3> QED BY <1>3, <3>1, <3>2, <3>3 DEF Defer, TypeOK, MailType, HandSteps
  <2>2. m \notin took
    BY <1>3 DEF Defer, TakenIsHeld, MayWrite, At, Ended
  <2>3. /\ hand' = [hand EXCEPT ![p][m] = "none"] /\ took' = took
        /\ \A n \in Mails : n # m => mail'[n] = mail[n]
        /\ MayWrite(p, m) /\ hand[p][m] = "claimed"
    BY <1>3 DEF Defer, Drop, At, TypeOK
  <2> QED BY <2>1, <2>2, <2>3, CellInv DEF HandSteps
<1>4. ASSUME Prepare(p, m) PROVE IInv'
  <2>1. TypeOK'
    BY <1>4, HandCell DEF Prepare, TypeOK, HandSteps
  <2>2. m \notin took
    BY <1>4 DEF Prepare, TakenIsHeld, MayWrite, At, Ended
  <2> QED BY <1>4, <2>1, <2>2, CellInv DEF Prepare, HandSteps
<1>5. ASSUME Begin(p, m) PROVE IInv'
  <2>1. TypeOK'
    BY <1>5, HandCell DEF Begin, TypeOK, HandSteps
  <2> QED BY <1>5, <2>1, CellInv DEF Begin, At, Engaged, TakenIsHeld, HandSteps
<1>6. ASSUME GiveUp(p, m) PROVE IInv'
  <2>1. TypeOK'
    BY <1>6, HandCell DEF GiveUp, Drop, TypeOK, HandSteps
  <2> QED BY <1>6, <2>1, CellInv DEF GiveUp, Drop, At, HandSteps
<1>7. ASSUME NEW s \in {"taken", "refused"}, Answer(p, m, s) PROVE IInv'
  <2>1. TypeOK'
    BY <1>7, HandCell DEF Answer, TypeOK, HandSteps
  <2>2. Engaged(p, m) /\ m \notin took
    BY <1>7 DEF Answer, At, Engaged, TakenIsHeld
  <2> QED BY <1>7, <2>1, <2>2, CellInv DEF Answer, HandSteps
<1>8. ASSUME Record(p, m) PROVE IInv'
  <2> DEFINE s == hand[p][m]
  <2>1. s \in {"taken", "refused"} /\ MayWrite(p, m)
    BY <1>8 DEF Record, At
  <2>2. /\ Recorded(m, s) \in MailType
        /\ Recorded(m, s).state \in {"sent", "failed", "pending"}
        /\ s = "taken" => Recorded(m, s).state = "sent"
    <3>1. CASE Recorded(m, s) \in {Over("sent"), Over("failed")} /\ (s = "taken" => Recorded(m, s) = Over("sent"))
      BY <3>1, RowTypes DEF Ended
    <3>2. CASE /\ s = "refused" /\ ~ (mail[m].attempts + 1 >= MaxAttempts)
               /\ Recorded(m, s) = [Released(m) EXCEPT !.attempts = @ + 1]
      <4>1. Released(m) \in MailType /\ Released(m).state = "pending"
            /\ Released(m).attempts = mail[m].attempts
        BY RowTypes DEF Released, MailType
      <4>2. Released(m).attempts + 1 \in 0..MaxAttempts
        BY <3>2, <4>1, EmailAssumption DEF MailType
      <4>3. [Released(m) EXCEPT !.attempts = Released(m).attempts + 1] \in MailType
        BY <4>1, <4>2, Zenon DEF MailType
      <4> QED BY <3>2, <4>1, <4>3 DEF MailType
    <3> QED BY <2>1, <3>1, <3>2 DEF Recorded
  <2>3. mail' = [mail EXCEPT ![m] = Recorded(m, s)] /\ UNCHANGED <<order, took>> /\ Drop(p, m)
    BY <1>8 DEF Record
  <2>4. TypeOK'
    BY <2>2, <2>3, HandCell DEF Drop, TypeOK, HandSteps, MailType
  <2>5. s = "refused" => m \notin took
    BY <2>1 DEF TakenIsHeld, MayWrite, At, Ended
  <2>6. /\ hand' = [hand EXCEPT ![p][m] = "none"] /\ took' = took
        /\ \A n \in Mails : n # m => mail'[n] = mail[n]
        /\ s = "taken" => mail'[m].state = "sent"
        /\ mail'[m].state \in {"sent", "failed", "pending"}
    BY <2>2, <2>3 DEF Drop, TypeOK
  <2>7. CASE s = "taken"
    BY <2>4, <2>6, <2>7, CellInv DEF HandSteps, Ended
  <2>8. CASE s = "refused"
    BY <2>1, <2>4, <2>5, <2>6, <2>8, CellInv DEF HandSteps, Ended
  <2> QED BY <2>1, <2>7, <2>8
<1> QED BY <1>1, <1>2, <1>3, <1>4, <1>5, <1>6, <1>7, <1>8 DEF Pass

-----------------------------------------------------------------------------
\* What goes wrong

\* An exception drops the row; what SMTP has taken is forgotten.
LEMMA RaiseInv ==
  ASSUME IInv, NEW p \in Processes, NEW m \in Mails, Raise(p, m) PROVE IInv'
<1>1. TypeOK'
  BY HandCell DEF Raise, Drop, IInv, TypeOK, HandSteps
<1>2. /\ hand' = [hand EXCEPT ![p][m] = "none"] /\ mail' = mail /\ took' \subseteq took
      /\ m \in took' => m \in took /\ ~ At(p, m, "taken")
  BY DEF Raise, Drop, Unrecorded
<1> QED BY <1>1, <1>2, CellInv DEF HandSteps

\* The end of a claim ends the wait of its holder.
LEMMA LapseInv ==
  ASSUME IInv, NEW m \in Mails, Lapse(m) PROVE IInv'
<1> DEFINE p == mail[m].holder
<1>1. p \in Processes /\ MayWrite(p, m)
  <2>1. mail[m] \in MailType
    BY RowTypes DEF IInv
  <2> QED BY <2>1 DEF Lapse, IInv, TypeOK, MailType, MayWrite
<1> HIDE DEF p
<1>2. PICK s \in HandSteps \ {"prepared", "sending"} : hand' = [hand EXCEPT ![p][m] = s]
  <2>1. CASE At(p, m, "prepared")
    <3>1. ~ At(p, m, "sending")
      BY <2>1 DEF At
    <3>2. hand' = [hand EXCEPT ![p][m] = "late"]
      BY <2>1, <3>1 DEF Lapse, p
    <3> QED BY <3>2 DEF HandSteps
  <2>2. CASE At(p, m, "sending")
    <3>1. ~ At(p, m, "prepared")
      BY <2>2 DEF At
    <3> QED BY <2>2, <3>1 DEF Lapse, HandSteps, p
  <2>3. CASE ~ At(p, m, "prepared") /\ ~ At(p, m, "sending")
    <3>1. hand' = hand /\ hand = [hand EXCEPT ![p][m] = hand[p][m]]
      BY <1>1, <2>3 DEF Lapse, IInv, TypeOK, p
    <3>2. hand[p][m] \in HandSteps \ {"prepared", "sending"}
      BY <1>1, <2>3 DEF IInv, TypeOK, At, HandSteps
    <3> QED BY <3>1, <3>2
  <2> QED BY <2>1, <2>2, <2>3
<1>3. /\ mail' = [mail EXCEPT ![m] = [mail[m] EXCEPT !.live = FALSE]]
      /\ took' = took \ ({m} \cap Unrecorded(p)) /\ order' = order
  BY DEF Lapse, IInv, TypeOK, p
<1>4. m \notin took'
  <2>1. m \in took => At(p, m, "taken")
    BY DEF IInv, TakenIsHeld, MayWrite, Lapse, Ended, p
  <2> QED BY <1>3, <2>1 DEF Unrecorded
<1>5. TypeOK'
  <2>1. mail' \in [Mails -> MailType]
    BY <1>3, RowTypes DEF IInv, TypeOK, MailType
  <2>2. \A n \in Mails : mail'[n].state = "claimed" => mail'[n].holder # Nobody
    <3>1. [mail[m] EXCEPT !.live = FALSE].holder = p
      BY RowTypes DEF IInv, MailType, p
    <3> QED BY <1>1, <1>3, <3>1, EmailAssumption DEF IInv, TypeOK
  <2>3. hand' \in [Processes -> [Mails -> HandSteps]]
    BY <1>1, <1>2, HandCell DEF IInv
  <2> QED BY <1>3, <2>1, <2>2, <2>3 DEF IInv, TypeOK, MailType, HandSteps
<1>6. took' \subseteq took /\ \A n \in Mails : n # m => mail'[n] = mail[n]
  BY <1>3 DEF IInv, TypeOK
<1> QED BY <1>1, <1>2, <1>4, <1>5, <1>6, CellInv

\* A process that dies has empty hands.
LEMMA DieInv ==
  ASSUME IInv, NEW p \in Processes, Die(p) PROVE IInv'
<1> USE DEF IInv
<1>1. /\ mail' = mail /\ order' = order /\ took' = took \ Unrecorded(p)
      /\ \A m \in Mails : hand'[p][m] = "none"
      /\ \A q \in Processes, m \in Mails : q # p => hand'[q][m] = hand[q][m]
  BY DEF Die, TypeOK
<1>2. TypeOK'
  BY DEF Die, TypeOK
<1>3. \A q \in Processes, m \in Mails : Engaged(q, m)' => Engaged(q, m)
  BY <1>1 DEF Engaged
<1>4. EngagedHolds'
  BY <1>1, <1>3 DEF EngagedHolds, MayWrite
<1>5. OneEngaged'
  BY <1>3 DEF OneEngaged
<1>6. TakenIsHeld'
  <2> SUFFICES ASSUME NEW m \in took'
               PROVE  /\ \A q \in Processes : ~ Engaged(q, m)'
                      /\ \/ mail'[m].state \in Ended
                         \/ \E q \in Processes : MayWrite(q, m)' /\ At(q, m, "taken")'
    BY DEF TakenIsHeld
  <2>1. m \in Mails /\ m \in took /\ ~ At(p, m, "taken")
    BY <1>1 DEF Unrecorded, TypeOK
  <2>2. \A q \in Processes : MayWrite(q, m) /\ At(q, m, "taken") =>
          MayWrite(q, m)' /\ At(q, m, "taken")'
    BY <1>1, <2>1 DEF MayWrite, At
  <2> QED BY <1>1, <1>3, <2>1, <2>2 DEF TakenIsHeld
<1> QED BY <1>2, <1>4, <1>5, <1>6

-----------------------------------------------------------------------------
\* The theorems

\* The invariant is inductive.
LEMMA IInvNext == IInv /\ [Next]_vars => IInv'
<1> SUFFICES ASSUME IInv, [Next]_vars PROVE IInv'
  OBVIOUS
<1>1. CASE UNCHANGED vars
  BY <1>1 DEF vars, IInv, TypeOK, EngagedHolds, OneEngaged, TakenIsHeld, Engaged, MayWrite, At
<1> QED BY <1>1, EnqueueInv, LapseInv, RecoverInv, OptOutInv, PruneInv, ClaimBatchInv, PassInv,
           RaiseInv, DieInv, Zenon DEF Next

\* The invariant holds in every state.
THEOREM Invariant == Spec => []IInv
BY IInvInit, IInvNext, PTL DEF Spec

\* The variables keep their types.
THEOREM TypeCorrect == Spec => []TypeOK
<1>1. IInv => TypeOK
  BY DEF IInv
<1> QED BY <1>1, Invariant, PTL

\* However many processes there are, no mail is in the hands of SMTP for two of
\* them at a time (_send).
THEOREM OneSenderAtATime == Spec => []OneSender
<1>1. IInv => OneSender
  BY DEF IInv, OneEngaged, OneSender, Engaged, At
<1> QED BY <1>1, Invariant, PTL

\* What SMTP has taken is not handed over again while the pass that has to write
\* so lives and has time (_send, _leased_write).
THEOREM TakenStaysOnce == Spec => []TakenOnce
<1>1. IInv => TakenOnce
  BY DEF IInv, TakenIsHeld, TakenOnce, Engaged, At
<1> QED BY <1>1, Invariant, PTL

\* A row that has ended stays so in a step.
LEMMA EndedNext ==
  IInv /\ [Next]_vars => \A m \in Mails : mail[m].state \in Ended => mail'[m].state \in Ended
<1> SUFFICES ASSUME IInv, [Next]_vars, NEW m \in Mails, mail[m].state \in Ended
             PROVE  mail'[m].state \in Ended
  OBVIOUS
<1>1. mail \in [Mails -> MailType] /\ mail[m] # NoMail
      /\ mail[m].state # "pending" /\ mail[m].state # "claimed"
  BY RowTypes DEF IInv, TypeOK, MailType, NoMail, Ended
<1>2. ASSUME NEW n \in Mails, Enqueue(n) \/ EnqueueTest(n) \/ Lapse(n) \/ Recover(n)
      PROVE  mail'[m] = mail[m]
  BY <1>1, <1>2 DEF Enqueue, EnqueueTest, Lapse, Recover
<1>3. CASE OptOut
  BY <1>1, <1>3 DEF OptOut
<1>4. CASE Prune
  <2>1. mail'[m] \in {mail[m], Over("sent"), Over("suppressed")}
    BY <1>4 DEF Prune
  <2> QED BY <2>1, RowTypes DEF IInv, Ended
<1>5. ASSUME NEW p \in Processes, NEW due \in SUBSET Mails, ClaimBatch(p, due)
      PROVE  mail'[m] = mail[m]
  BY <1>1, <1>5 DEF ClaimBatch
<1>6. ASSUME NEW p \in Processes, NEW n \in Mails, Pass(p, n) PROVE mail'[m] = mail[m]
  BY <1>1, <1>6
  DEF Pass, LoseClaim, Suppress, Defer, Prepare, Begin, GiveUp, Record, Answer, MayWrite
<1>7. ASSUME NEW p \in Processes, NEW n \in Mails, Raise(p, n) PROVE mail'[m] = mail[m]
  BY <1>7 DEF Raise
<1>8. ASSUME NEW p \in Processes, Die(p) PROVE mail'[m] = mail[m]
  BY <1>8 DEF Die
<1>9. CASE UNCHANGED vars
  BY <1>9 DEF vars
<1> QED BY <1>2, <1>3, <1>4, <1>5, <1>6, <1>7, <1>8, <1>9 DEF Next

\* What an opt-out, the pruner or an answer has ended is never queued again by a
\* pass that comes later (_leased_write).
THEOREM EndedForGood == Spec => EndedStays
BY Invariant, EndedNext, PTL DEF Spec, EndedStays

=============================================================================
