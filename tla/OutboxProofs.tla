---------------------------- MODULE OutboxProofs ----------------------------
(***************************************************************************)
(* Proofs about Outbox, for any set of messages and any bounds.            *)
(***************************************************************************)
EXTENDS Outbox, TLAPS

(* A client_send_id is named by a submission.                              *)
LEMMA KeyType == \A s \in Submissions : Key(s) \in Submissions
  BY BoundsAssumption, MessagesAssumption DEF Key, Submissions

(* A message with a Message-ID has one key.                                *)
LEMMA KeyNormal ==
  \A s \in Submissions, m \in WithMessageId, n \in 1..MaxSubmits :
    n # 1 => Key(s) # <<m, n>>
  BY DEF Key, Submissions

(* A message that has been submitted names its latest submission.          *)
LEMMA LatestType ==
  ASSUME TypeOK, NEW m \in Messages, tries[m] > 0
  PROVE  Latest(m) \in Submissions
<1>1. tries[m] \in 1..MaxSubmits
  BY BoundsAssumption DEF TypeOK
<1>2. QED BY <1>1 DEF Latest, Submissions

LEMMA InitTypeOK == Init => TypeOK
<1> SUFFICES ASSUME Init PROVE TypeOK
  OBVIOUS
<1>1. rows \in [Submissions -> [status : RowStatus, attempts : Nat]]
  BY DEF Init, RowStatus
<1>2. call \in [Callers -> {"none", "wire", "busy", "ok", "transient", "permanent"}]
  BY DEF Init
<1>3. tries \in [Messages -> 0..MaxSubmits]
  BY BoundsAssumption DEF Init
<1>4. stops \in 0..MaxStops /\ retries \in 0..MaxRetries /\ dbErrors \in 0..MaxDbErrors
  BY BoundsAssumption DEF Init
<1>5. up \in BOOLEAN /\ noticing \in BOOLEAN
  BY DEF Init
<1> QED BY <1>1, <1>2, <1>3, <1>4, <1>5 DEF Init, TypeOK

(* What an action leaves of the type invariant to show.                    *)
LEMMA TypeStep == TypeOK /\ CallersWait /\ [Next]_vars => TypeOK'
<1> SUFFICES ASSUME TypeOK, CallersWait, [Next]_vars PROVE TypeOK'
  OBVIOUS
<1> USE BoundsAssumption, WorkerAssumption, NoRowAssumption
    DEF TypeOK, RowStatus, bridgeVars, storeVars, worldVars, boundVars
<1>1. ASSUME NEW m \in Messages, Submit(m) PROVE TypeOK'
  BY <1>1 DEF Submit, Callers
<1>2. ASSUME NEW m \in Messages, SmtpStep(m) PROVE TypeOK'
  <2>1. CASE DirectSent(m) BY <2>1 DEF DirectSent, DirectAnswer, NoteOutgoing, Callers
  <2>2. CASE DirectQueued(m)
    <3>1. Latest(m) \in Submissions
      BY <2>2, LatestType DEF DirectQueued, DirectAnswer, CallersWait
    <3>2. QED BY <2>2, <3>1 DEF DirectQueued, DirectAnswer, NoteOutgoing, Callers
  <2>3. CASE DirectQueueFails(m)
    BY <2>3 DEF DirectQueueFails, DirectAnswer, DbWriteFails, Callers
  <2>4. CASE DirectRejected(m)
    BY <2>4 DEF DirectRejected, DirectAnswer, Callers
  <2>5. CASE Reply(m)
    <3>1. Latest(m) \in Submissions
      BY <2>5, LatestType DEF Reply, CallersWait
    <3>2. QED BY <2>5, <3>1 DEF Reply
  <2> QED BY <1>2, <2>1, <2>2, <2>3, <2>4, <2>5 DEF SmtpStep
<1>3. ASSUME NEW m \in Messages, AppendSentCopy(m) PROVE TypeOK'
  <2>1. Key(Latest(m)) \in Submissions
    BY <1>3, LatestType, KeyType DEF AppendSentCopy, CallersWait
  <2>2. QED BY <1>3, <2>1 DEF AppendSentCopy
<1>4. ASSUME NEW m \in Messages, ForgetRecent(m) PROVE TypeOK'
  BY <1>4 DEF ForgetRecent
<1>5. ASSUME NEW s \in Submissions, SyncSentCopy(s) PROVE TypeOK'
  BY <1>5 DEF SyncSentCopy
<1>6. ASSUME NEW s \in Submissions, ProcessOne(s)
      PROVE  /\ rows' \in [Submissions -> [status : RowStatus, attempts : Nat]]
             /\ cooling' \subseteq Submissions
             /\ workerRow' \in Submissions \cup {NoRow}
             /\ call' \in [Callers -> {"none", "wire", "busy", "ok", "transient", "permanent"}]
             /\ dbErrors' \in 0..MaxDbErrors
  BY <1>6 DEF ProcessOne, SetStatus, Settle, DbWriteFails, Callers
<1>7. ASSUME NEW s \in Submissions, TakeTrigger(s) PROVE TypeOK'
  BY <1>6, <1>7 DEF TakeTrigger
<1>8. ASSUME NEW s \in Submissions, RequestRetry(s) PROVE TypeOK'
  BY <1>8 DEF RequestRetry
<1>9. ASSUME NEW s \in Submissions, TimePasses(s) PROVE TypeOK'
  BY <1>9 DEF TimePasses
<1>10. CASE Tick
  BY <1>10 DEF Tick, Idle
<1>11. CASE WorkerStep
  <2>1. CASE RowSent
    BY <2>1 DEF RowSent, WorkerAnswer, Settle, SetStatus, DbWriteFails, Callers
  <2>2. CASE RowPutBack
    BY <2>2 DEF RowPutBack, WorkerAnswer, DbWriteFails, Callers
  <2>3. CASE RowFailed
    BY <2>3 DEF RowFailed, WorkerAnswer, Settle, SetStatus, DbWriteFails, Callers
  <2>4. CASE ReportFailedSend
    BY <2>4 DEF ReportFailedSend, CallersWait
  <2>5. ASSUME NEW s \in Submissions, VisitRow(s) PROVE TypeOK'
    BY <1>6, <2>5 DEF VisitRow
  <2> QED BY <1>11, <2>1, <2>2, <2>3, <2>4, <2>5 DEF WorkerStep
<1>12. ASSUME NEW a \in Callers, call[a] = "wire" PROVE CallKey(a) \in Submissions
  BY <1>12, LatestType, KeyType DEF CallKey, CallersWait, Callers
<1>13. CASE NetworkStep
  <2>1. ASSUME NEW a \in Callers, CallFailsEarly(a) PROVE TypeOK'
    BY <2>1 DEF CallFailsEarly, Answer
  <2>2. ASSUME NEW a \in Callers, CallArrives(a) PROVE TypeOK'
    BY <2>2, <1>12 DEF CallArrives, Answer
  <2>3. ASSUME NEW a \in Callers, CallTimesOut(a) PROVE TypeOK'
    BY <2>3, <1>12 DEF CallTimesOut, Answer
  <2>4. ASSUME NEW k \in Submissions, StrayArrives(k) PROVE TypeOK'
    BY <2>4 DEF StrayArrives
  <2>5. ASSUME NEW k \in Submissions, NEW result \in {"ok", "transient", "permanent"},
               ServerFinishes(k, result)
        PROVE  TypeOK'
    BY <2>5 DEF ServerFinishes
  <2> QED BY <1>13, <2>1, <2>2, <2>3, <2>4, <2>5 DEF NetworkStep
<1>14. ASSUME NEW processEnds \in BOOLEAN, Stop(processEnds) PROVE TypeOK'
  <2>1. strays' \subseteq Submissions
    <3>1. PICK lost \in SUBSET {CallKey(a) : a \in {c \in Callers : call[c] = "wire"}} :
            strays' = strays \cup lost
      BY <1>14 DEF Stop
    <3>2. lost \subseteq Submissions
      BY <1>12, <3>1
    <3>3. QED BY <3>1, <3>2
  <2>2. smtp' \in [Messages ->
           {"draft", "direct", "replying", "accepted", "rejected", "unsure"}]
    BY <1>14 DEF Stop
  <2>3. recent' \subseteq Messages
    BY <1>14 DEF Stop
  <2>4. stops' \in 0..MaxStops
    BY <1>14 DEF Stop
  <2>5. /\ up' \in BOOLEAN /\ noticing' \in BOOLEAN
        /\ workerRow' \in Submissions \cup {NoRow}
        /\ call' \in [Callers -> {"none", "wire", "busy", "ok", "transient", "permanent"}]
        /\ todo' \subseteq Submissions /\ triggers' \subseteq Submissions
    BY <1>14 DEF Stop
  <2>6. UNCHANGED <<rows, cooling, synced, appended, tries, accepted, server, copies,
                    notified, retries, dbErrors>>
    BY <1>14 DEF Stop
  <2>7. QED BY <2>1, <2>2, <2>3, <2>4, <2>5, <2>6
<1>15. CASE Start
  BY <1>15 DEF Start
<1>16. CASE UNCHANGED vars
  BY <1>16 DEF vars
<1> QED
  BY <1>1, <1>2, <1>3, <1>4, <1>5, <1>7, <1>8, <1>9, <1>10, <1>11, <1>13, <1>14, <1>15,
     <1>16 DEF Next

-----------------------------------------------------------------------------
(* A caller waits only while its handler does.                             *)
LEMMA CallersWaitStep == IInv /\ TypeOK' /\ [Next]_vars => CallersWait'
<1> SUFFICES ASSUME IInv, TypeOK', [Next]_vars PROVE CallersWait'
  OBVIOUS
<1>0. TypeOK /\ CallersWait
  BY DEF IInv
<1> USE <1>0, WorkerAssumption, NoRowAssumption
    DEF TypeOK, CallersWait, bridgeVars, storeVars, worldVars
<1>1. ASSUME NEW m \in Messages, Submit(m) PROVE CallersWait'
  BY <1>1 DEF Submit, Callers
<1>2. ASSUME NEW m \in Messages, SmtpStep(m) PROVE CallersWait'
  <2>1. CASE Reply(m)
    BY <2>1 DEF Reply
  <2>2. ASSUME NEW result, NEW state, DirectAnswer(m, result, state), state # "draft",
               workerRow # NoRow /\ ~noticing => rows'[workerRow].status = "sending"
        PROVE  CallersWait'
    BY <2>2 DEF DirectAnswer, Callers
  <2>3. CASE DirectQueued(m)
    <3>1. rows[Latest(m)].status = "none"
      BY <2>3 DEF DirectQueued, DirectAnswer, IInv, RowsFresh
    <3>2. workerRow # NoRow /\ ~noticing => rows'[workerRow].status = "sending"
      BY <2>3, <3>1 DEF DirectQueued
    <3>3. QED BY <2>2, <2>3, <3>2 DEF DirectQueued
  <2>4. CASE DirectSent(m) \/ DirectQueueFails(m) \/ DirectRejected(m)
    BY <2>2, <2>4 DEF DirectSent, DirectQueueFails, DirectRejected, DbWriteFails
  <2> QED BY <1>2, <2>1, <2>3, <2>4 DEF SmtpStep
<1>3. ASSUME NEW s \in Submissions, ProcessOne(s), Idle, UNCHANGED <<up, smtp, noticing, tries>>
      PROVE  CallersWait'
  <2>1. CASE UNCHANGED <<workerRow, call>>
    BY <1>3, <2>1 DEF Idle
  <2>2. CASE /\ SetStatus(s, "sending")
             /\ workerRow' = s
             /\ call' = [call EXCEPT ![Worker] = "wire"]
    <3>1. rows'[s].status = "sending" /\ s # NoRow
      BY <2>2 DEF SetStatus, Submissions
    <3>2. \A m \in Messages : call'[m] = call[m]
      BY <2>2 DEF Callers
    <3>3. QED BY <1>3, <2>2, <3>1, <3>2 DEF Idle
  <2> QED BY <1>3, <2>1, <2>2 DEF ProcessOne
<1>4. ASSUME NEW s \in Submissions, TakeTrigger(s) PROVE CallersWait'
  BY <1>3, <1>4 DEF TakeTrigger
<1>5. CASE Tick
  BY <1>5 DEF Tick, Idle
<1>6. CASE WorkerStep
  <2>1. ASSUME NEW s \in Submissions, VisitRow(s) PROVE CallersWait'
    BY <1>3, <2>1 DEF VisitRow
  <2>2. CASE RowSent BY <2>2 DEF RowSent, WorkerAnswer, Callers
  <2>3. CASE RowPutBack BY <2>3 DEF RowPutBack, WorkerAnswer, Callers
  <2>4. CASE RowFailed BY <2>4 DEF RowFailed, WorkerAnswer, Callers
  <2>5. CASE ReportFailedSend BY <2>5 DEF ReportFailedSend
  <2> QED BY <1>6, <2>1, <2>2, <2>3, <2>4, <2>5 DEF WorkerStep
<1>7. CASE NetworkStep
  <2>1. ASSUME NEW a \in Callers, CallFailsEarly(a) \/ CallArrives(a) \/ CallTimesOut(a)
        PROVE  CallersWait'
    BY <2>1 DEF CallFailsEarly, CallArrives, CallTimesOut, Answer, Callers
  <2>2. ASSUME NEW k \in Submissions, StrayArrives(k) PROVE CallersWait'
    BY <2>2 DEF StrayArrives
  <2>3. ASSUME NEW k \in Submissions, NEW result \in {"ok", "transient", "permanent"},
               ServerFinishes(k, result)
        PROVE  CallersWait'
    BY <2>3 DEF ServerFinishes, Callers
  <2> QED BY <1>7, <2>1, <2>2, <2>3 DEF NetworkStep
<1>8. ASSUME NEW processEnds \in BOOLEAN, Stop(processEnds) PROVE CallersWait'
  BY <1>8 DEF Stop, Callers
<1>9. CASE Start
  BY <1>9 DEF Start
<1>10. ASSUME UNCHANGED <<call, smtp, tries, workerRow, noticing, rows, up>> PROVE CallersWait'
  BY <1>10
<1>11. ASSUME NEW m \in Messages, AppendSentCopy(m) \/ ForgetRecent(m) PROVE CallersWait'
  BY <1>10, <1>11 DEF AppendSentCopy, ForgetRecent
<1>12. ASSUME NEW s \in Submissions, SyncSentCopy(s) \/ RequestRetry(s) \/ TimePasses(s)
       PROVE  CallersWait'
  BY <1>10, <1>12 DEF SyncSentCopy, RequestRetry, TimePasses
<1>13. CASE UNCHANGED vars
  BY <1>10, <1>13 DEF vars
<1> QED
  BY <1>1, <1>2, <1>4, <1>5, <1>6, <1>7, <1>8, <1>9, <1>11, <1>12, <1>13 DEF Next

-----------------------------------------------------------------------------
(* What can change a row: its SMTP handler, process_one, the answer to the *)
(* worker's call, and a tick or start that reclaims it.                    *)
Reclaimed(s) ==
  rows[s].status = "sending" /\ rows'[s] = [rows[s] EXCEPT !.status = "pending"]

LEMMA RowStep ==
  ASSUME IInv, [Next]_vars, NEW s \in Submissions, rows'[s] # rows[s]
  PROVE  \/ \E m \in Messages : DirectQueued(m) /\ s = Latest(m)
         \/ ProcessOne(s) /\ (s \in triggers \/ DueForAutomaticSend(s))
         \/ s = workerRow /\ (RowSent \/ RowPutBack \/ RowFailed)
         \/ Reclaimed(s)
<1>0. TypeOK /\ CallersWait
  BY DEF IInv
<1>1. ~UNCHANGED rows
  OBVIOUS
<1> USE <1>1 DEF bridgeVars, storeVars
<1>2. ASSUME NEW m \in Messages, SmtpStep(m)
      PROVE  DirectQueued(m) /\ s = Latest(m)
  <2>1. DirectQueued(m)
    BY <1>2 DEF SmtpStep, DirectSent, DirectQueueFails, DirectRejected, Reply, DbWriteFails
  <2>2. rows' = [rows EXCEPT ![Latest(m)] = [status |-> "pending", attempts |-> 0]]
    BY <2>1 DEF DirectQueued
  <2>3. QED BY <1>0, <2>1, <2>2 DEF TypeOK
<1>3. ASSUME NEW m \in Messages, Submit(m) \/ AppendSentCopy(m) \/ ForgetRecent(m)
      PROVE  FALSE
  BY <1>3 DEF Submit, AppendSentCopy, ForgetRecent
<1>4. ASSUME NEW x \in Submissions, ProcessOne(x) PROVE x = s
  BY <1>0, <1>4 DEF ProcessOne, SetStatus, Settle, DbWriteFails, TypeOK
<1>5. ASSUME NEW x \in Submissions,
             SyncSentCopy(x) \/ RequestRetry(x) \/ TimePasses(x)
      PROVE  FALSE
  BY <1>5 DEF SyncSentCopy, RequestRetry, TimePasses
<1>6. ASSUME NEW x \in Submissions, TakeTrigger(x) PROVE ProcessOne(s) /\ s \in triggers
  BY <1>4, <1>6 DEF TakeTrigger
<1>7. CASE Tick
  BY <1>0, <1>7 DEF Tick, Reclaimed, TypeOK
<1>8. CASE Start
  BY <1>0, <1>8 DEF Start, Reclaimed, TypeOK
<1>9. ASSUME NEW x \in Submissions, VisitRow(x)
      PROVE  ProcessOne(s) /\ DueForAutomaticSend(s)
  BY <1>4, <1>9 DEF VisitRow
<1>10. ASSUME RowSent \/ RowPutBack \/ RowFailed PROVE s = workerRow
  BY <1>0, <1>10 DEF RowSent, RowPutBack, RowFailed, Settle, SetStatus, DbWriteFails, TypeOK
<1>11. ~ReportFailedSend
  BY DEF ReportFailedSend
<1>12. ~NetworkStep
  BY DEF NetworkStep, CallFailsEarly, CallArrives, CallTimesOut, StrayArrives,
         ServerFinishes
<1>13. ASSUME NEW processEnds \in BOOLEAN PROVE ~Stop(processEnds)
  BY DEF Stop
<1>14. ~UNCHANGED vars
  BY DEF vars
<1> QED
  BY <1>2, <1>3, <1>5, <1>6, <1>7, <1>8, <1>9, <1>10, <1>11, <1>12, <1>13, <1>14
  DEF Next, WorkerStep

(* Only a queueing SMTP handler makes a row, and no row disappears.        *)
Made(s) == rows[s].status # "none"

LEMMA RowsMade ==
  ASSUME IInv, [Next]_vars
  PROVE  \/ \A s \in Submissions : Made(s)' <=> Made(s)
         \/ \E m \in Messages : DirectQueued(m)
<1> SUFFICES ASSUME NEW s \in Submissions, rows'[s] # rows[s],
                    ~\E m \in Messages : DirectQueued(m)
             PROVE  Made(s)' <=> Made(s)
  BY DEF Made
<1>0. TypeOK /\ CallersWait
  BY DEF IInv
<1> USE <1>0, NoRowAssumption DEF TypeOK, Made
<1>1. CASE ProcessOne(s)
  BY <1>1 DEF ProcessOne, SetStatus, Settle, DbWriteFails
<1>2. CASE s = workerRow /\ (RowSent \/ RowPutBack \/ RowFailed)
  BY <1>2 DEF RowSent, RowPutBack, RowFailed, WorkerAnswer, Settle, SetStatus,
              DbWriteFails, CallersWait
<1>3. CASE Reclaimed(s)
  BY <1>3 DEF Reclaimed
<1> QED BY <1>1, <1>2, <1>3, RowStep

(* A submission whose handler has not answered has no row yet.             *)
LEMMA RowsFreshStep == IInv /\ TypeOK' /\ [Next]_vars => RowsFresh'
<1> SUFFICES ASSUME IInv, TypeOK', [Next]_vars PROVE RowsFresh'
  OBVIOUS
<1>0. TypeOK /\ CallersWait /\ RowsFresh
  BY DEF IInv
<1>1. CASE \E m \in Messages : DirectQueued(m)
  <2>1. PICK m \in Messages : DirectQueued(m)
    BY <1>1
  <2>2. /\ smtp[m] = "direct" /\ smtp' = [smtp EXCEPT ![m] = "replying"]
        /\ rows' = [rows EXCEPT ![<<m, tries[m]>>] = [status |-> "pending", attempts |-> 0]]
        /\ tries' = tries
    BY <2>1 DEF DirectQueued, DirectAnswer, worldVars, Latest
  <2>3. tries[m] \in 1..MaxSubmits
    BY <1>0, <2>2 DEF CallersWait, TypeOK
  <2>4. ASSUME NEW x \in Messages, NEW n \in 1..MaxSubmits, n > tries[x]
        PROVE  rows'[<<x, n>>].status = "none"
    <3>1. <<x, n>> # <<m, tries[m]>> /\ <<x, n>> \in Submissions
      BY <2>3, <2>4 DEF Submissions
    <3>2. QED BY <1>0, <2>2, <2>4, <3>1 DEF RowsFresh, TypeOK
  <2>5. ASSUME NEW x \in Messages, smtp'[x] = "direct"
        PROVE  rows'[<<x, tries[x]>>].status = "none"
    <3>1. x # m /\ smtp[x] = "direct"
      BY <1>0, <2>2, <2>5 DEF TypeOK
    <3>2. rows[<<x, tries[x]>>].status = "none" /\ <<x, tries[x]>> \in Submissions
      BY <1>0, <3>1, LatestType DEF RowsFresh, CallersWait, Latest
    <3>3. QED BY <1>0, <2>2, <3>1, <3>2 DEF TypeOK
  <2>6. QED BY <2>2, <2>4, <2>5 DEF RowsFresh, Latest
<1>2. CASE \A s \in Submissions : Made(s)' <=> Made(s)
  <2>1. ASSUME NEW m \in Messages, NEW n \in 1..MaxSubmits
        PROVE  rows'[<<m, n>>].status = "none" <=> rows[<<m, n>>].status = "none"
    BY <1>2 DEF Made, Submissions
  <2>2. ASSUME UNCHANGED tries, \A m \in Messages : smtp'[m] = "direct" => smtp[m] = "direct"
        PROVE  RowsFresh'
    <3>1. \A m \in Messages, n \in 1..MaxSubmits :
            n > tries'[m] => rows'[<<m, n>>].status = "none"
      BY <1>0, <2>1, <2>2 DEF RowsFresh
    <3>2. ASSUME NEW m \in Messages, smtp'[m] = "direct"
          PROVE  rows'[<<m, tries'[m]>>].status = "none"
      <4>1. tries[m] \in 1..MaxSubmits
        BY <1>0, <2>2, <3>2 DEF CallersWait, TypeOK
      <4>2. QED BY <1>0, <2>1, <2>2, <3>2, <4>1 DEF RowsFresh, Latest
    <3>3. QED BY <3>1, <3>2 DEF RowsFresh, Latest
  <2>3. ASSUME NEW m \in Messages, Submit(m) PROVE RowsFresh'
    <3>1. /\ tries' = [tries EXCEPT ![m] = tries[m] + 1]
          /\ tries[m] \in 0..MaxSubmits /\ tries[m] < MaxSubmits
          /\ smtp' = [smtp EXCEPT ![m] = "direct"]
          /\ smtp[m] \in {"draft", "unsure", "rejected", "accepted"}
      BY <1>0, <2>3 DEF Submit, TypeOK
    <3>2. ASSUME NEW x \in Messages, NEW n \in 1..MaxSubmits, n > tries'[x]
          PROVE  rows'[<<x, n>>].status = "none"
      <4>1. n > tries[x]
        BY <1>0, <3>1, <3>2 DEF TypeOK
      <4>2. QED BY <1>0, <2>1, <4>1 DEF RowsFresh
    <3>3. ASSUME NEW x \in Messages, smtp'[x] = "direct"
          PROVE  rows'[<<x, tries'[x]>>].status = "none"
      <4>1. CASE x = m
        <5>1. tries'[m] = tries[m] + 1 /\ tries'[m] \in 1..MaxSubmits
          BY <1>0, <3>1, BoundsAssumption DEF TypeOK
        <5>2. QED BY <1>0, <2>1, <4>1, <5>1, <3>1 DEF RowsFresh
      <4>2. CASE x # m
        <5>1. smtp[x] = "direct" /\ tries'[x] = tries[x]
          BY <1>0, <3>1, <3>3, <4>2 DEF TypeOK
        <5>2. tries[x] \in 1..MaxSubmits
          BY <1>0, <5>1 DEF CallersWait, TypeOK
        <5>3. QED BY <1>0, <2>1, <5>1, <5>2 DEF RowsFresh, Latest
      <4>3. QED BY <4>1, <4>2
    <3>4. QED BY <3>2, <3>3 DEF RowsFresh, Latest
  <2> USE <1>0 DEF TypeOK, bridgeVars, worldVars
  <2>4. ASSUME NEW m \in Messages, SmtpStep(m) PROVE RowsFresh'
    BY <2>2, <2>4 DEF SmtpStep, DirectSent, DirectQueued, DirectQueueFails,
                      DirectRejected, DirectAnswer, Reply
  <2>5. ASSUME NEW m \in Messages, AppendSentCopy(m) \/ ForgetRecent(m) PROVE RowsFresh'
    BY <2>2, <2>5 DEF AppendSentCopy, ForgetRecent
  <2>6. ASSUME NEW s \in Submissions,
               SyncSentCopy(s) \/ TakeTrigger(s) \/ RequestRetry(s) \/ TimePasses(s)
        PROVE  RowsFresh'
    BY <2>2, <2>6 DEF SyncSentCopy, TakeTrigger, RequestRetry, TimePasses
  <2>7. CASE Tick
    BY <2>2, <2>7 DEF Tick
  <2>8. CASE WorkerStep
    BY <2>2, <2>8 DEF WorkerStep, RowSent, RowPutBack, RowFailed, WorkerAnswer,
                      ReportFailedSend, VisitRow
  <2>9. CASE NetworkStep
    BY <2>2, <2>9 DEF NetworkStep, CallFailsEarly, CallArrives, CallTimesOut,
                      StrayArrives, ServerFinishes
  <2>10. ASSUME NEW processEnds \in BOOLEAN, Stop(processEnds) PROVE RowsFresh'
    BY <2>2, <2>10 DEF Stop
  <2>11. CASE Start
    BY <2>2, <2>11 DEF Start
  <2>12. CASE UNCHANGED vars
    BY <2>2, <2>12 DEF vars
  <2> QED
    BY <2>3, <2>4, <2>5, <2>6, <2>7, <2>8, <2>9, <2>10, <2>11, <2>12 DEF Next
<1> QED BY <1>1, <1>2, RowsMade

-----------------------------------------------------------------------------
(* The key of a call is a submission, and one that Key can give.           *)
LEMMA CallKeyType ==
  ASSUME TypeOK, CallersWait, NEW a \in Callers, call[a] # "none"
  PROVE  /\ CallKey(a) \in Submissions
         /\ \A m \in WithMessageId, n \in 1..MaxSubmits : n # 1 => CallKey(a) # <<m, n>>
<1>1. CASE a = Worker
  <2>1. workerRow \in Submissions
    BY <1>1 DEF TypeOK, CallersWait
  <2>2. QED BY <1>1, <2>1, KeyType, KeyNormal DEF CallKey
<1>2. CASE a \in Messages
  <2>1. Latest(a) \in Submissions
    BY <1>2, LatestType DEF CallersWait
  <2>2. CallKey(a) = Key(Latest(a))
    BY <1>2, WorkerAssumption DEF CallKey
  <2>3. QED BY <2>1, <2>2, KeyType, KeyNormal
<1> QED BY <1>1, <1>2 DEF Callers

(* Nothing but the network and a stop touches what the API knows.          *)
LEMMA ServerQuiet ==
  ASSUME [Next]_vars
  PROVE  \/ NetworkStep
         \/ \E processEnds \in BOOLEAN : Stop(processEnds)
         \/ UNCHANGED <<server, strays, copies>>
<1> USE DEF bridgeVars, storeVars, worldVars, boundVars
<1>1. ASSUME NEW m \in Messages,
             Submit(m) \/ SmtpStep(m) \/ AppendSentCopy(m) \/ ForgetRecent(m)
      PROVE  UNCHANGED <<server, strays, copies>>
  BY <1>1 DEF Submit, SmtpStep, DirectSent, DirectQueued, DirectQueueFails,
              DirectRejected, DirectAnswer, Reply, AppendSentCopy, ForgetRecent
<1>2. ASSUME NEW s \in Submissions,
             SyncSentCopy(s) \/ TakeTrigger(s) \/ RequestRetry(s) \/ TimePasses(s)
      PROVE  UNCHANGED <<server, strays, copies>>
  BY <1>2 DEF SyncSentCopy, TakeTrigger, RequestRetry, TimePasses
<1>3. CASE Tick \/ WorkerStep \/ Start
  BY <1>3 DEF Tick, WorkerStep, RowSent, RowPutBack, RowFailed, WorkerAnswer,
              ReportFailedSend, VisitRow, Start
<1>4. CASE UNCHANGED vars
  BY <1>4 DEF vars
<1> QED BY <1>1, <1>2, <1>3, <1>4 DEF Next

(* The API sends what it records as done, under keys Key can give.         *)
LEMMA ServerRecordStep == IInv /\ [Next]_vars => ServerRecord'
<1> SUFFICES ASSUME IInv, [Next]_vars PROVE ServerRecord'
  OBVIOUS
<1>0. TypeOK /\ CallersWait /\ ServerRecord
  BY DEF IInv
<1> USE <1>0
<1>1. \A m \in WithMessageId, n \in 1..MaxSubmits : <<m, n>> \in Submissions
  BY MessagesAssumption DEF Submissions
<1>2. CASE NetworkStep
  <2>1. ASSUME NEW a \in Callers, CallFailsEarly(a) PROVE ServerRecord'
    BY <2>1 DEF CallFailsEarly, ServerRecord, worldVars
  <2>2. ASSUME NEW a \in Callers, CallArrives(a) PROVE ServerRecord'
    <3>1. /\ CallKey(a) \in Submissions
          /\ \A m \in WithMessageId, n \in 1..MaxSubmits :
               n # 1 => CallKey(a) # <<m, n>>
      BY <2>2, CallKeyType DEF CallArrives
    <3>2. server' = IF server[CallKey(a)] = "new"
                    THEN [server EXCEPT ![CallKey(a)] = "busy"] ELSE server
      BY <2>2 DEF CallArrives
    <3>3. UNCHANGED <<strays, copies>>
      BY <2>2 DEF CallArrives
    <3>4. \A k \in Submissions : server'[k] = "done" <=> server[k] = "done"
      BY <3>1, <3>2 DEF TypeOK
    <3>5. \A k \in Submissions : copies'[k] = IF server'[k] = "done" THEN 1 ELSE 0
      BY <3>3, <3>4 DEF ServerRecord
    <3>6. ASSUME NEW m \in WithMessageId, NEW n \in 1..MaxSubmits, n # 1
          PROVE  server'[<<m, n>>] = "new" /\ <<m, n>> \notin strays'
      BY <1>1, <3>1, <3>2, <3>3, <3>6 DEF ServerRecord, TypeOK
    <3>7. QED BY <3>5, <3>6 DEF ServerRecord
  <2>3. ASSUME NEW a \in Callers, CallTimesOut(a) PROVE ServerRecord'
    <3>1. /\ CallKey(a) \in Submissions
          /\ \A m \in WithMessageId, n \in 1..MaxSubmits :
               n # 1 => CallKey(a) # <<m, n>>
      BY <2>3, CallKeyType DEF CallTimesOut
    <3>2. UNCHANGED <<server, copies>> /\ strays' \subseteq strays \cup {CallKey(a)}
      BY <2>3 DEF CallTimesOut
    <3>3. QED BY <3>1, <3>2 DEF ServerRecord
  <2>4. ASSUME NEW k \in Submissions, StrayArrives(k) PROVE ServerRecord'
    BY <1>1, <2>4 DEF StrayArrives, ServerRecord, TypeOK
  <2>5. ASSUME NEW k \in Submissions, NEW result \in {"ok", "transient", "permanent"},
               ServerFinishes(k, result)
        PROVE  ServerRecord'
    BY <1>1, <2>5 DEF ServerFinishes, ServerRecord, TypeOK
  <2> QED BY <1>2, <2>1, <2>2, <2>3, <2>4, <2>5 DEF NetworkStep
<1>3. ASSUME NEW processEnds \in BOOLEAN, Stop(processEnds) PROVE ServerRecord'
  <2>1. PICK lost \in SUBSET {CallKey(a) : a \in {c \in Callers : call[c] = "wire"}} :
          strays' = strays \cup lost
    BY <1>3 DEF Stop
  <2>2. ASSUME NEW m \in WithMessageId, NEW n \in 1..MaxSubmits, n # 1
        PROVE  <<m, n>> \notin lost
    <3>1. \A a \in Callers : call[a] = "wire" => CallKey(a) # <<m, n>>
      BY <2>2, CallKeyType
    <3>2. QED BY <2>1, <3>1
  <2>3. UNCHANGED <<server, copies>>
    BY <1>3 DEF Stop
  <2>4. QED BY <2>1, <2>2, <2>3 DEF ServerRecord
<1>4. CASE UNCHANGED <<server, strays, copies>>
  BY <1>4 DEF ServerRecord
<1> QED BY <1>2, <1>3, <1>4, ServerQuiet

(* What has gone out stays out, and goes out once.                         *)
LEMMA CopiesStay ==
  ASSUME IInv, [Next]_vars, NEW k \in Submissions, copies[k] = 1
  PROVE  copies'[k] = 1
<1>1. TypeOK /\ ServerRecord
  BY DEF IInv
<1>2. CASE NetworkStep
  <2>1. ASSUME NEW x \in Submissions, NEW result, ServerFinishes(x, result)
        PROVE  copies'[k] = 1
    BY <1>1, <2>1 DEF ServerFinishes, ServerRecord, TypeOK
  <2>2. QED BY <1>2, <2>1 DEF NetworkStep, CallFailsEarly, CallArrives, CallTimesOut,
                              StrayArrives, worldVars
<1>3. QED BY <1>2, ServerQuiet DEF Stop

-----------------------------------------------------------------------------
(* A caller is told "ok" for the key it called with, and only of a key     *)
(* that has gone out.                                                      *)
LEMMA CallOk ==
  ASSUME IInv, [Next]_vars, NEW a \in Callers, call'[a] = "ok"
  PROVE  /\ CallKey(a)' = CallKey(a)
         /\ call[a] = "ok" \/ copies'[CallKey(a)] = 1
<1> DEFINE Goal == CallKey(a)' = CallKey(a) /\ (call[a] = "ok" \/ copies'[CallKey(a)] = 1)
<1>0. TypeOK /\ CallersWait /\ ServerRecord
  BY DEF IInv
<1> USE <1>0, WorkerAssumption, NoRowAssumption
    DEF TypeOK, bridgeVars, storeVars, worldVars, boundVars
<1>1. ASSUME UNCHANGED <<call, tries, workerRow>> PROVE Goal
  BY <1>1 DEF CallKey, Latest
<1>2. ASSUME NEW m \in Messages, Submit(m) PROVE Goal
  BY <1>2 DEF Submit, CallKey, Latest, Callers
<1>3. ASSUME NEW m \in Messages, SmtpStep(m) PROVE Goal
  BY <1>3 DEF SmtpStep, DirectSent, DirectQueued, DirectQueueFails, DirectRejected,
              DirectAnswer, Reply, CallKey, Latest, Callers
<1>4. ASSUME NEW m \in Messages, AppendSentCopy(m) \/ ForgetRecent(m) PROVE Goal
  BY <1>1, <1>4 DEF AppendSentCopy, ForgetRecent
<1>5. ASSUME NEW s \in Submissions, SyncSentCopy(s) \/ RequestRetry(s) \/ TimePasses(s)
      PROVE  Goal
  BY <1>1, <1>5 DEF SyncSentCopy, RequestRetry, TimePasses
<1>6. ASSUME NEW s \in Submissions, ProcessOne(s), UNCHANGED tries PROVE Goal
  <2>1. CASE UNCHANGED <<workerRow, call>>
    BY <1>1, <1>6, <2>1
  <2>2. CASE workerRow' = s /\ call' = [call EXCEPT ![Worker] = "wire"]
    BY <1>6, <2>2 DEF CallKey, Latest, Callers
  <2> QED BY <1>6, <2>1, <2>2 DEF ProcessOne
<1>7. ASSUME NEW s \in Submissions, TakeTrigger(s) \/ VisitRow(s) PROVE Goal
  BY <1>1, <1>6, <1>7 DEF TakeTrigger, VisitRow
<1>8. CASE Tick \/ Start
  BY <1>1, <1>8 DEF Tick, Start
<1>9. CASE RowSent \/ RowPutBack \/ RowFailed
  <2>1. UNCHANGED tries /\ call' = [call EXCEPT ![Worker] = "none"]
    BY <1>9 DEF RowSent, RowPutBack, RowFailed, WorkerAnswer
  <2>2. a # Worker
    BY <2>1
  <2>3. QED BY <2>1, <2>2 DEF CallKey, Latest, Callers
<1>10. CASE ReportFailedSend
  BY <1>10 DEF ReportFailedSend, CallersWait, CallKey, Latest
<1>11. CASE NetworkStep
  <2>0. CallKey(a)' = CallKey(a)
    BY <1>11 DEF NetworkStep, CallFailsEarly, CallArrives, CallTimesOut, StrayArrives,
                 ServerFinishes, CallKey, Latest
  <2>1. ASSUME NEW b \in Callers, CallFailsEarly(b) \/ CallTimesOut(b) PROVE call[a] = "ok"
    BY <2>1 DEF CallFailsEarly, CallTimesOut, Answer
  <2>2. ASSUME NEW b \in Callers, CallArrives(b), call[a] # "ok"
        PROVE  copies'[CallKey(a)] = 1
    <3>1. CallKey(b) \in Submissions
      BY <2>2, CallKeyType DEF CallArrives
    <3>2. a = b /\ server[CallKey(b)] = "done"
      BY <2>2, <3>1 DEF CallArrives, Answer
    <3>3. QED BY <2>2, <3>1, <3>2 DEF CallArrives, ServerRecord
  <2>3. ASSUME NEW k \in Submissions, StrayArrives(k) PROVE call[a] = "ok"
    BY <2>3 DEF StrayArrives
  <2>4. ASSUME NEW k \in Submissions, NEW result \in {"ok", "transient", "permanent"},
               ServerFinishes(k, result), call[a] # "ok"
        PROVE  copies'[CallKey(a)] = 1
    <3>1. CallKey(a) = k /\ result = "ok"
      BY <2>4 DEF ServerFinishes
    <3>2. copies[k] = 0
      BY <2>4 DEF ServerFinishes, ServerRecord
    <3>3. QED BY <2>4, <3>1, <3>2 DEF ServerFinishes
  <2> QED BY <1>11, <2>0, <2>1, <2>2, <2>3, <2>4 DEF NetworkStep
<1>12. ASSUME NEW processEnds \in BOOLEAN, Stop(processEnds) PROVE Goal
  BY <1>12 DEF Stop
<1>13. CASE UNCHANGED vars
  BY <1>1, <1>13 DEF vars
<1> QED
  BY <1>2, <1>3, <1>4, <1>5, <1>7, <1>8, <1>9, <1>10, <1>11, <1>12, <1>13
  DEF Next, WorkerStep

(* The local Sent folder grows, by what went out or by the user's copy.    *)
LEMMA SentFolderStep ==
  ASSUME IInv, [Next]_vars
  PROVE  /\ appended \subseteq appended'
         /\ \A k \in synced' : k \in synced \/ (k \in Submissions /\ copies[k] = 1)
<1>0. TypeOK /\ ServerRecord
  BY DEF IInv
<1> USE DEF bridgeVars, storeVars, worldVars, boundVars
<1>1. ASSUME NEW m \in Messages,
             Submit(m) \/ SmtpStep(m) \/ AppendSentCopy(m) \/ ForgetRecent(m)
      PROVE  appended \subseteq appended' /\ UNCHANGED synced
  BY <1>1 DEF Submit, SmtpStep, DirectSent, DirectQueued, DirectQueueFails,
              DirectRejected, DirectAnswer, Reply, AppendSentCopy, ForgetRecent
<1>2. ASSUME NEW s \in Submissions, SyncSentCopy(s)
      PROVE  UNCHANGED appended /\ synced' = synced \cup {s} /\ copies[s] = 1
  BY <1>0, <1>2 DEF SyncSentCopy, ServerRecord
<1>3. ASSUME NEW s \in Submissions, TakeTrigger(s) \/ RequestRetry(s) \/ TimePasses(s)
      PROVE  UNCHANGED <<appended, synced>>
  BY <1>3 DEF TakeTrigger, RequestRetry, TimePasses
<1>4. ASSUME Tick \/ WorkerStep \/ Start PROVE UNCHANGED <<appended, synced>>
  BY <1>4 DEF Tick, WorkerStep, RowSent, RowPutBack, RowFailed, WorkerAnswer,
              ReportFailedSend, VisitRow, Start
<1>5. ASSUME NetworkStep PROVE UNCHANGED <<appended, synced>>
  BY <1>5 DEF NetworkStep, CallFailsEarly, CallArrives, CallTimesOut, StrayArrives,
              ServerFinishes
<1>6. ASSUME NEW processEnds \in BOOLEAN, Stop(processEnds)
      PROVE  UNCHANGED <<appended, synced>>
  BY <1>6 DEF Stop
<1>7. ASSUME UNCHANGED vars PROVE UNCHANGED <<appended, synced>>
  BY <1>7 DEF vars
<1>8. /\ appended \subseteq appended'
      /\ \/ UNCHANGED synced
         \/ \E s \in Submissions : synced' = synced \cup {s} /\ copies[s] = 1
  BY <1>1, <1>2, <1>3, <1>4, <1>5, <1>6, <1>7 DEF Next
<1> QED BY <1>8

(* What the bridge takes for sent was sent.                                *)
LEMMA EvidenceHoldsStep == IInv /\ TypeOK' /\ CallersWait' /\ [Next]_vars => EvidenceHolds'
<1> SUFFICES ASSUME IInv, TypeOK', CallersWait', [Next]_vars PROVE EvidenceHolds'
  OBVIOUS
<1>0. TypeOK /\ CallersWait /\ EvidenceHolds
  BY DEF IInv
<1>1. ASSUME NEW a \in Callers, call'[a] = "ok" PROVE (copies[CallKey(a)] = 1)'
  <2>0. CallKey(a)' = CallKey(a)
    BY <1>1, CallOk
  <2>1. CASE call[a] = "ok"
    <3>1. CallKey(a) \in Submissions
      BY <1>0, <2>1, CallKeyType
    <3>2. copies[CallKey(a)] = 1
      BY <1>0, <2>1, WorkerAssumption DEF EvidenceHolds, CallKey, Callers
    <3>3. QED BY <2>0, <3>1, <3>2, CopiesStay
  <2>2. CASE call[a] # "ok"
    BY <1>1, <2>0, <2>2, CallOk
  <2>3. QED BY <2>1, <2>2
<1>2. ASSUME NEW k \in synced' PROVE copies'[k] = 1
  BY <1>0, <1>2, SentFolderStep, CopiesStay DEF EvidenceHolds, TypeOK
<1>3. ASSUME NEW m \in Messages, call'[m] = "ok"
      PROVE  copies'[Key(Latest(m))'] = 1
  <2>1. (copies[CallKey(m)] = 1)'
    BY <1>1, <1>3 DEF Callers
  <2>2. QED BY <2>1, WorkerAssumption DEF CallKey
<1>4. ASSUME call'[Worker] = "ok" PROVE copies'[Key(workerRow)'] = 1
  <2>1. (copies[CallKey(Worker)] = 1)'
    BY <1>1, <1>4 DEF Callers
  <2>2. QED BY <2>1 DEF CallKey
<1>5. QED BY <1>2, <1>3, <1>4 DEF EvidenceHolds

(* Once backed, a 250 stays backed.                                        *)
LEMMA BackedStays ==
  ASSUME IInv, [Next]_vars, NEW s \in Submissions, Backed(s)
  PROVE  Backed(s)'
<1>1. CASE copies[Key(s)] = 1
  BY <1>1, KeyType, CopiesStay DEF Backed
<1>2. CASE Made(s)
  <2>1. CASE \A x \in Submissions : Made(x)' <=> Made(x)
    BY <1>2, <2>1 DEF Backed, Made
  <2>2. ASSUME NEW m \in Messages, DirectQueued(m) PROVE Made(s)'
    <3>1. rows' = [rows EXCEPT ![Latest(m)] = [status |-> "pending", attempts |-> 0]]
      BY <2>2 DEF DirectQueued
    <3>2. QED BY <1>2, <3>1 DEF Made, IInv, TypeOK
  <2>3. QED BY <2>1, <2>2, RowsMade DEF Backed, Made
<1>3. QED BY <1>1, <1>2 DEF Backed, Made

(* A 250 is on its way only from a handler that sent or queued.            *)
LEMMA ReplyStep ==
  ASSUME IInv, [Next]_vars
  PROVE  /\ \A m \in Messages : smtp'[m] = "replying" =>
              /\ tries'[m] = tries[m]
              /\ smtp[m] = "replying" \/ DirectSent(m) \/ DirectQueued(m)
         /\ \A s \in accepted' :
              s \in accepted \/ \E m \in Messages : smtp[m] = "replying" /\ s = Latest(m)
<1> DEFINE Replies == \A m \in Messages : smtp'[m] = "replying" =>
                        /\ tries'[m] = tries[m]
                        /\ smtp[m] = "replying" \/ DirectSent(m) \/ DirectQueued(m)
           Accepts == \A s \in accepted' : s \in accepted
                        \/ \E m \in Messages : smtp[m] = "replying" /\ s = Latest(m)
<1>0. TypeOK
  BY DEF IInv
<1> USE <1>0 DEF TypeOK, bridgeVars, storeVars, worldVars, boundVars
<1>1. ASSUME UNCHANGED <<smtp, tries, accepted>> PROVE Replies /\ Accepts
  BY <1>1
<1>2. ASSUME NEW m \in Messages, Submit(m) PROVE Replies /\ Accepts
  BY <1>2 DEF Submit
<1>3. ASSUME NEW m \in Messages, DirectSent(m) \/ DirectQueued(m) PROVE Replies /\ Accepts
  BY <1>3 DEF DirectSent, DirectQueued, DirectAnswer
<1>4. ASSUME NEW m \in Messages, DirectQueueFails(m) \/ DirectRejected(m)
      PROVE  Replies /\ Accepts
  BY <1>4 DEF DirectQueueFails, DirectRejected, DirectAnswer
<1>5. ASSUME NEW m \in Messages, Reply(m) PROVE Replies /\ Accepts
  BY <1>5 DEF Reply
<1>6. ASSUME NEW m \in Messages, AppendSentCopy(m) \/ ForgetRecent(m)
      PROVE  Replies /\ Accepts
  BY <1>1, <1>6 DEF AppendSentCopy, ForgetRecent
<1>7. ASSUME NEW s \in Submissions,
             SyncSentCopy(s) \/ TakeTrigger(s) \/ RequestRetry(s) \/ TimePasses(s)
      PROVE  Replies /\ Accepts
  BY <1>1, <1>7 DEF SyncSentCopy, TakeTrigger, RequestRetry, TimePasses
<1>8. ASSUME Tick \/ WorkerStep \/ Start PROVE UNCHANGED <<smtp, tries, accepted>>
  BY <1>8 DEF Tick, WorkerStep, RowSent, RowPutBack, RowFailed, WorkerAnswer,
              ReportFailedSend, VisitRow, Start
<1>9. ASSUME NetworkStep PROVE UNCHANGED <<smtp, tries, accepted>>
  BY <1>9 DEF NetworkStep, CallFailsEarly, CallArrives, CallTimesOut, StrayArrives,
              ServerFinishes
<1>10. ASSUME NEW processEnds \in BOOLEAN, Stop(processEnds) PROVE Replies /\ Accepts
  BY <1>10 DEF Stop
<1>11. ASSUME UNCHANGED vars PROVE UNCHANGED <<smtp, tries, accepted>>
  BY <1>11 DEF vars
<1>12. Replies /\ Accepts
  BY <1>1, <1>2, <1>3, <1>4, <1>5, <1>6, <1>7, <1>8, <1>9, <1>10, <1>11 DEF Next, SmtpStep
<1> QED BY <1>12

(* A 250, given or on its way, is backed by a row or by a sent message.    *)
LEMMA RepliesBackedStep == IInv /\ CallersWait' /\ [Next]_vars => RepliesBacked'
<1> SUFFICES ASSUME IInv, CallersWait', [Next]_vars PROVE RepliesBacked'
  OBVIOUS
<1>0. TypeOK /\ CallersWait /\ EvidenceHolds /\ RepliesBacked
  BY DEF IInv
<1>1. ASSUME NEW m \in Messages, smtp[m] # "draft" PROVE Latest(m) \in Submissions
  BY <1>0, <1>1, LatestType DEF CallersWait
<1>2. ASSUME NEW m \in Messages, smtp'[m] = "replying" PROVE Backed(Latest(m))'
  <2>1. Latest(m)' = Latest(m)
    BY <1>2, ReplyStep DEF Latest
  <2>2. CASE smtp[m] = "replying"
    BY <1>0, <1>1, <2>1, <2>2, BackedStays DEF RepliesBacked, Backed
  <2>3. CASE DirectSent(m)
    <3>1. Backed(Latest(m)) /\ smtp[m] = "direct"
      BY <1>0, <2>3 DEF DirectSent, DirectAnswer, EvidenceHolds, Backed
    <3>2. QED BY <1>1, <2>1, <3>1, BackedStays DEF Backed
  <2>4. CASE DirectQueued(m)
    <3>1. /\ rows' = [rows EXCEPT ![Latest(m)] = [status |-> "pending", attempts |-> 0]]
          /\ smtp[m] = "direct"
      BY <2>4 DEF DirectQueued, DirectAnswer
    <3>2. rows'[Latest(m)].status = "pending"
      BY <1>0, <1>1, <3>1 DEF TypeOK
    <3>3. QED BY <2>1, <3>2 DEF Backed
  <2>5. QED BY <1>2, <2>2, <2>3, <2>4, ReplyStep
<1>3. ASSUME NEW s \in accepted' PROVE Backed(s)'
  <2>1. s \in Submissions /\ Backed(s)
    BY <1>0, <1>1, <1>3, ReplyStep DEF RepliesBacked, TypeOK
  <2>2. QED BY <2>1, BackedStays
<1>4. QED BY <1>2, <1>3 DEF RepliesBacked

-----------------------------------------------------------------------------
(* A row ends as sent on evidence: the Sent folder, or the API's answer.   *)
LEMMA SentMeansDeliveredStep == IInv /\ [Next]_vars => SentMeansDelivered'
<1> SUFFICES ASSUME IInv, [Next]_vars,
                    NEW s \in Submissions, rows'[s].status = "sent"
             PROVE  copies'[Key(s)] = 1 \/ Key(s) \in appended'
  BY DEF SentMeansDelivered
<1>0. TypeOK /\ CallersWait /\ EvidenceHolds /\ SentMeansDelivered
  BY DEF IInv
<1>1. SUFFICES copies[Key(s)] = 1 \/ Key(s) \in appended
  BY KeyType, CopiesStay, SentFolderStep
<1>2. CASE rows'[s] = rows[s]
  BY <1>0, <1>2 DEF SentMeansDelivered
<1>3. CASE ProcessOne(s)
  <2>1. SentCopyExists(s) \/ rows[s].status = "sent"
    BY <1>0, <1>3 DEF ProcessOne, SetStatus, Settle, DbWriteFails, TypeOK
  <2>2. QED BY <1>0, <2>1 DEF SentCopyExists, EvidenceHolds, SentMeansDelivered
<1>4. CASE s = workerRow /\ (RowSent \/ RowPutBack \/ RowFailed)
  <2>1. rows[s].status = "sending"
    BY <1>0, <1>4, NoRowAssumption
    DEF RowSent, RowPutBack, RowFailed, WorkerAnswer, CallersWait
  <2>2. RowSent
    BY <1>0, <1>4, <2>1
    DEF RowPutBack, RowFailed, WorkerAnswer, Settle, SetStatus, DbWriteFails, TypeOK
  <2>3. QED BY <1>0, <1>4, <2>2 DEF RowSent, WorkerAnswer, EvidenceHolds
<1>5. CASE \E m \in Messages : DirectQueued(m) /\ s = Latest(m)
  BY <1>0, <1>5 DEF DirectQueued, TypeOK
<1>6. CASE Reclaimed(s)
  BY <1>6, <1>0 DEF Reclaimed, TypeOK
<1>7. QED BY <1>2, <1>3, <1>4, <1>5, <1>6, RowStep

(* No attempt is counted beyond the last but one.                          *)
LEMMA NoStrandedRowStep == IInv /\ [Next]_vars => NoStrandedRow'
<1> SUFFICES ASSUME IInv, [Next]_vars, NEW s \in Submissions
             PROVE  rows'[s].attempts < MaxAttempts
  BY DEF NoStrandedRow
<1>0. TypeOK /\ NoStrandedRow
  BY DEF IInv
<1> USE <1>0, BoundsAssumption DEF TypeOK, NoStrandedRow
<1>1. CASE rows'[s] = rows[s]
  BY <1>1
<1>2. CASE ProcessOne(s)
  BY <1>2 DEF ProcessOne, SetStatus, Settle, DbWriteFails
<1>3. CASE s = workerRow /\ (RowSent \/ RowFailed)
  BY <1>3 DEF RowSent, RowFailed, Settle, SetStatus, DbWriteFails
<1>4. CASE s = workerRow /\ RowPutBack
  BY <1>4 DEF RowPutBack, LastAttempt, DbWriteFails
<1>5. CASE \E m \in Messages : DirectQueued(m) /\ s = Latest(m)
  BY <1>5 DEF DirectQueued
<1>6. CASE Reclaimed(s)
  BY <1>6 DEF Reclaimed
<1>7. QED BY <1>1, <1>2, <1>3, <1>4, <1>5, <1>6, RowStep

(* The invariant is inductive.                                             *)
LEMMA InitIInv == Init => IInv
<1> SUFFICES ASSUME Init PROVE IInv
  OBVIOUS
<1>1. TypeOK
  BY InitTypeOK
<1>2. CallersWait
  BY DEF Init, CallersWait, Callers
<1>3. \A s \in Submissions : rows[s].status = "none" /\ rows[s].attempts = 0
  BY DEF Init
<1>4. RowsFresh
  <2>1. ASSUME NEW m \in Messages, NEW n \in 1..MaxSubmits
        PROVE  rows[<<m, n>>].status = "none"
    BY <1>3 DEF Submissions
  <2>2. QED BY <2>1 DEF RowsFresh, Init
<1>5. ServerRecord
  BY MessagesAssumption DEF Init, ServerRecord, Submissions
<1>6. EvidenceHolds
  BY DEF Init, EvidenceHolds, Callers
<1>7. RepliesBacked
  BY DEF Init, RepliesBacked
<1>8. SentMeansDelivered /\ NoStrandedRow
  BY <1>3, BoundsAssumption DEF SentMeansDelivered, NoStrandedRow
<1>9. QED BY <1>1, <1>2, <1>4, <1>5, <1>6, <1>7, <1>8 DEF IInv

LEMMA StepIInv == IInv /\ [Next]_vars => IInv'
<1> SUFFICES ASSUME IInv, [Next]_vars PROVE IInv'
  OBVIOUS
<1>1. TypeOK'
  BY TypeStep DEF IInv
<1>2. CallersWait'
  BY <1>1, CallersWaitStep
<1>3. QED
  BY <1>1, <1>2, RowsFreshStep, ServerRecordStep, EvidenceHoldsStep, RepliesBackedStep,
     SentMeansDeliveredStep, NoStrandedRowStep
  DEF IInv

LEMMA AlwaysIInv == Spec => []IInv
  BY InitIInv, StepIInv, PTL DEF Spec

-----------------------------------------------------------------------------
(* Every variable of the outbox keeps its type.                            *)
THEOREM TypeCorrect == Spec => []TypeOK
<1>1. IInv => TypeOK
  BY DEF IInv
<1> QED BY <1>1, AlwaysIInv, PTL

(* A message goes out at most once per client_send_id, and a message with a*)
(* Message-ID under one of them only (send_idempotency_key).               *)
THEOREM NeverTwice == Spec => []AtMostOnce
<1>1. IInv => AtMostOnce
  <2> SUFFICES ASSUME IInv PROVE AtMostOnce
    OBVIOUS
  <2>1. ServerRecord
    BY DEF IInv
  <2>2. \A m \in WithMessageId, n \in 1..MaxSubmits : <<m, n>> \in Submissions
    BY MessagesAssumption DEF Submissions
  <2>3. QED BY <2>1, <2>2 DEF ServerRecord, AtMostOnce
<1> QED BY <1>1, AlwaysIInv, PTL

(* Mail answered with 250 is sent, waits, failed visibly, or has the mail  *)
(* app's own copy for evidence (the DATA handler and process_one).         *)
THEOREM NothingLost == Spec => []AcceptedNotLost
<1>1. IInv => AcceptedNotLost
  <2> SUFFICES ASSUME IInv, NEW s \in accepted, copies[Key(s)] # 1
               PROVE  \/ rows[s].status \in {"pending", "sending", "failed"}
                      \/ rows[s].status = "sent" /\ Key(s) \in appended
    BY DEF AcceptedNotLost
  <2>1. s \in Submissions /\ rows[s].status \in RowStatus
    BY DEF IInv, TypeOK
  <2>2. rows[s].status # "none"
    BY DEF IInv, RepliesBacked, Backed
  <2>3. rows[s].status = "sent" => Key(s) \in appended
    BY <2>1 DEF IInv, SentMeansDelivered
  <2>4. QED BY <2>1, <2>2, <2>3 DEF RowStatus
<1> QED BY <1>1, AlwaysIInv, PTL

(* process_one marks a row sent on evidence only.                          *)
THEOREM SentOnEvidence == Spec => []SentMeansDelivered
<1>1. IInv => SentMeansDelivered
  BY DEF IInv
<1> QED BY <1>1, AlwaysIInv, PTL

(* outbox_bump_attempt never leaves a row that no tick will send.          *)
THEOREM AttemptsLeft == Spec => []NoStrandedRow
<1>1. IInv => NoStrandedRow
  BY DEF IInv
<1> QED BY <1>1, AlwaysIInv, PTL

(* The tick arm skips failed rows: only a trigger sends one again.         *)
THEOREM FailedWaitsForUser == Spec => FailedStaysPut
<1>1. ASSUME IInv, [Next]_vars, NEW s \in Submissions,
             rows[s].status = "failed", rows'[s].status # "failed"
      PROVE  s \in triggers
  <2>0. TypeOK /\ CallersWait /\ RowsFresh
    BY <1>1 DEF IInv
  <2>1. ~\E m \in Messages : DirectQueued(m) /\ s = Latest(m)
    BY <1>1, <2>0 DEF RowsFresh, DirectQueued, DirectAnswer
  <2>2. ~(s = workerRow /\ (RowSent \/ RowPutBack \/ RowFailed))
    BY <1>1, <2>0, NoRowAssumption
    DEF RowSent, RowPutBack, RowFailed, WorkerAnswer, CallersWait
  <2>3. ~Reclaimed(s)
    BY <1>1 DEF Reclaimed
  <2>4. QED BY <1>1, <2>1, <2>2, <2>3, RowStep DEF DueForAutomaticSend
<1>2. IInv /\ [Next]_vars =>
        [\A s \in Submissions :
           rows[s].status = "failed" /\ rows'[s].status # "failed" => s \in triggers]_vars
  BY <1>1
<1> QED BY <1>2, AlwaysIInv, PTL DEF Spec, FailedStaysPut

-----------------------------------------------------------------------------
(* The outbox implements MailPromise.                                      *)
fates == [s \in Submissions |-> Fate(rows[s].status)]

(* When at most row s changes, only the fate of s does.                    *)
LEMMA FateOf ==
  ASSUME TypeOK, TypeOK', NEW s \in Submissions,
         \A x \in Submissions : x # s => rows'[x].status = rows[x].status
  PROVE  fates' = [fates EXCEPT ![s] = Fate(rows'[s].status)]
  BY DEF fates

LEMMA FatesSame ==
  ASSUME TypeOK, TypeOK',
         \A x \in Submissions : Fate(rows'[x].status) = Fate(rows[x].status)
  PROVE  fates' = fates
  BY DEF fates

(* process_one up to its call: close the row, try it again, or nothing.    *)
LEMMA ProcessOneKept ==
  ASSUME IInv, TypeOK', NEW s \in Submissions, ProcessOne(s),
         UNCHANGED <<copies, appended>>
  PROVE  [Promise!Next]_(Promise!vars)
<1>0. TypeOK /\ EvidenceHolds
  BY DEF IInv
<1>1. \A x \in Submissions : x # s => rows'[x].status = rows[x].status
  BY <1>0 DEF ProcessOne, SetStatus, Settle, DbWriteFails, TypeOK
<1>2. fates' = [fates EXCEPT ![s] = Fate(rows'[s].status)]
  BY <1>0, <1>1, FateOf
<1>3. CASE rows'[s].status = rows[s].status
  <2>1. fates' = fates
    BY <1>0, <1>1, <1>3, FatesSame
  <2>2. QED BY <2>1 DEF Promise!vars, fates
<1>4. CASE rows'[s].status # rows[s].status
  <2>1. rows[s].status \in {"pending", "failed"}
    BY <1>4 DEF ProcessOne, DbWriteFails
  <2>2. fates[s] = Fate(rows[s].status) /\ fates[s] \in {"waiting", "failed"}
    BY <2>1 DEF fates, Fate
  <2>3. \/ SentCopyExists(s) /\ rows'[s].status = "sent"
        \/ rows'[s].status = "sending"
    BY <1>0, <1>4 DEF ProcessOne, SetStatus, Settle, DbWriteFails, TypeOK
  <2>4. CASE SentCopyExists(s) /\ rows'[s].status = "sent"
    <3>1. copies[Key(s)] = 1 \/ Key(s) \in appended
      BY <1>0, <2>4 DEF SentCopyExists, EvidenceHolds
    <3>2. Fate(rows'[s].status) = "sent"
      BY <2>4 DEF Fate
    <3>3. Promise!Close(s)
      BY <1>2, <2>2, <3>1, <3>2 DEF Promise!Close, fates
    <3>4. QED BY <3>3 DEF Promise!Next
  <2>5. CASE rows'[s].status = "sending"
    <3>1. Fate(rows'[s].status) = "waiting"
      BY <2>5 DEF Fate
    <3>2. CASE rows[s].status = "pending"
      <4>1. fates' = fates
        BY <1>0, <1>1, <2>5, <3>2, FatesSame DEF Fate
      <4>2. QED BY <4>1 DEF Promise!vars, fates
    <3>3. CASE rows[s].status = "failed"
      <4>1. Promise!TryAgain(s)
        BY <1>2, <2>2, <3>1, <3>3 DEF Promise!TryAgain, fates, Fate
      <4>2. QED BY <4>1 DEF Promise!Next
    <3>4. QED BY <2>1, <3>2, <3>3
  <2>6. QED BY <2>3, <2>4, <2>5
<1>5. QED BY <1>3, <1>4

(* The answer to the worker's call: close the row, give up, or nothing.    *)
LEMMA AnswerKept ==
  ASSUME IInv, TypeOK', RowSent \/ RowPutBack \/ RowFailed
  PROVE  [Promise!Next]_(Promise!vars)
<1>0. TypeOK /\ CallersWait /\ EvidenceHolds
  BY DEF IInv
<1> DEFINE s == workerRow
<1>1. s \in Submissions /\ rows[s].status = "sending" /\ UNCHANGED <<copies, appended>>
  BY <1>0, NoRowAssumption
  DEF RowSent, RowPutBack, RowFailed, WorkerAnswer, CallersWait, TypeOK, worldVars
<1>2. \A x \in Submissions : x # s => rows'[x].status = rows[x].status
  BY <1>0, <1>1 DEF RowSent, RowPutBack, RowFailed, SetStatus, Settle, DbWriteFails, TypeOK
<1>3. fates' = [fates EXCEPT ![s] = Fate(rows'[s].status)] /\ fates[s] = "waiting"
  BY <1>0, <1>1, <1>2, FateOf DEF fates, Fate
<1>4. CASE rows'[s].status \in {"pending", "sending"}
  <2>1. fates' = fates
    BY <1>0, <1>1, <1>2, <1>4, FatesSame DEF Fate
  <2>2. QED BY <1>1, <2>1 DEF Promise!vars, fates
<1>5. CASE RowSent /\ rows'[s].status = "sent"
  <2>1. copies[Key(s)] = 1
    BY <1>0, <1>5 DEF RowSent, WorkerAnswer, EvidenceHolds
  <2>2. Promise!Close(s)
    BY <1>1, <1>3, <1>5, <2>1 DEF Promise!Close, fates, Fate
  <2>3. QED BY <1>1, <2>2 DEF Promise!Next
<1>6. CASE rows'[s].status = "failed"
  <2>1. Promise!GiveUp(s)
    BY <1>1, <1>3, <1>6 DEF Promise!GiveUp, fates, Fate
  <2>2. QED BY <1>1, <2>1 DEF Promise!Next
<1>7. \/ rows'[s].status \in {"pending", "sending"}
      \/ RowSent /\ rows'[s].status = "sent"
      \/ rows'[s].status = "failed"
  BY <1>0, <1>1 DEF RowSent, RowPutBack, RowFailed, SetStatus, Settle, DbWriteFails, TypeOK
<1>8. QED BY <1>4, <1>5, <1>6, <1>7

LEMMA PromiseInit == Init => Promise!Init
  BY DEF Init, Promise!Init, Fate

(* Every step is a step of MailPromise, or changes nothing it sees.        *)
LEMMA PromiseStep ==
  ASSUME IInv, TypeOK', [Next]_vars
  PROVE  [Promise!Next]_(Promise!vars)
<1> DEFINE Goal == [Promise!Next]_(Promise!vars)
<1>0. TypeOK /\ CallersWait /\ ServerRecord
  BY DEF IInv
<1> USE DEF bridgeVars, storeVars, worldVars, boundVars
<1>1. ASSUME UNCHANGED <<rows, copies, appended>> PROVE Goal
  BY <1>1 DEF Promise!vars
<1>2. ASSUME NEW m \in Messages, DirectQueued(m) PROVE Goal
  <2>1. /\ Latest(m) \in Submissions /\ rows[Latest(m)].status = "none"
        /\ rows' = [rows EXCEPT ![Latest(m)] = [status |-> "pending", attempts |-> 0]]
        /\ UNCHANGED <<copies, appended>>
    BY <1>0, <1>2, LatestType DEF DirectQueued, DirectAnswer, CallersWait, IInv, RowsFresh
  <2>2. /\ \A x \in Submissions : x # Latest(m) => rows'[x].status = rows[x].status
        /\ rows'[Latest(m)].status = "pending"
    BY <1>0, <2>1 DEF TypeOK
  <2>3. fates' = [fates EXCEPT ![Latest(m)] = Fate(rows'[Latest(m)].status)]
    BY <1>0, <2>1, <2>2, FateOf
  <2>4. Promise!TakeOver(Latest(m))
    BY <2>1, <2>2, <2>3 DEF Promise!TakeOver, fates, Fate
  <2>5. QED BY <2>1, <2>4 DEF Promise!Next
<1>3. ASSUME NEW m \in Messages, SmtpStep(m) PROVE Goal
  BY <1>1, <1>2, <1>3
  DEF SmtpStep, DirectSent, DirectQueueFails, DirectRejected, DirectAnswer, DbWriteFails, Reply
<1>4. ASSUME NEW m \in Messages, AppendSentCopy(m) PROVE Goal
  <2>1. Key(Latest(m)) \in Submissions
    BY <1>0, <1>4, LatestType, KeyType DEF AppendSentCopy, CallersWait
  <2>2. Promise!Keep(Key(Latest(m)))
    BY <1>4 DEF AppendSentCopy, Promise!Keep
  <2>3. QED BY <2>1, <2>2 DEF Promise!Next
<1>5. ASSUME NEW m \in Messages, Submit(m) \/ ForgetRecent(m) PROVE Goal
  BY <1>1, <1>5 DEF Submit, ForgetRecent
<1>6. ASSUME NEW s \in Submissions, SyncSentCopy(s) \/ RequestRetry(s) \/ TimePasses(s)
      PROVE  Goal
  BY <1>1, <1>6 DEF SyncSentCopy, RequestRetry, TimePasses
<1>7. ASSUME NEW s \in Submissions, TakeTrigger(s) \/ VisitRow(s) PROVE Goal
  <2>1. UNCHANGED <<copies, appended>> /\ (ProcessOne(s) \/ UNCHANGED rows)
    BY <1>7 DEF TakeTrigger, VisitRow
  <2>2. QED BY <1>1, <2>1, ProcessOneKept
<1>8. CASE Tick \/ Start
  <2>1. /\ UNCHANGED <<copies, appended>>
        /\ \A x \in Submissions : Fate(rows'[x].status) = Fate(rows[x].status)
    BY <1>0, <1>8 DEF Tick, Start, TypeOK, Fate
  <2>2. fates' = fates
    BY <1>0, <2>1, FatesSame
  <2>3. QED BY <2>1, <2>2 DEF Promise!vars, fates
<1>9. CASE RowSent \/ RowPutBack \/ RowFailed
  BY <1>9, AnswerKept
<1>10. CASE ReportFailedSend
  BY <1>1, <1>10 DEF ReportFailedSend
<1>11. CASE NetworkStep
  <2>1. ASSUME NEW a \in Callers, CallFailsEarly(a) \/ CallArrives(a) \/ CallTimesOut(a)
        PROVE  Goal
    BY <1>1, <2>1 DEF CallFailsEarly, CallArrives, CallTimesOut
  <2>2. ASSUME NEW k \in Submissions, StrayArrives(k) PROVE Goal
    BY <1>1, <2>2 DEF StrayArrives
  <2>3. ASSUME NEW k \in Submissions, NEW result \in {"ok", "transient", "permanent"},
               ServerFinishes(k, result)
        PROVE  Goal
    <3>1. CASE result = "ok"
      <4>1. copies[k] = 0
        BY <1>0, <2>3 DEF ServerFinishes, ServerRecord
      <4>2. Promise!GoOut(k)
        BY <1>0, <2>3, <3>1, <4>1 DEF ServerFinishes, Promise!GoOut, TypeOK
      <4>3. QED BY <4>2 DEF Promise!Next
    <3>2. CASE result # "ok"
      BY <1>1, <2>3, <3>2 DEF ServerFinishes
    <3>3. QED BY <3>1, <3>2
  <2> QED BY <1>11, <2>1, <2>2, <2>3 DEF NetworkStep
<1>12. ASSUME NEW processEnds \in BOOLEAN, Stop(processEnds) PROVE Goal
  BY <1>1, <1>12 DEF Stop
<1>13. CASE UNCHANGED vars
  BY <1>1, <1>13 DEF vars
<1> QED
  BY <1>3, <1>4, <1>5, <1>6, <1>7, <1>8, <1>9, <1>10, <1>11, <1>12, <1>13
  DEF Next, WorkerStep

(* Every behaviour of the outbox is one MailPromise allows: mail taken     *)
(* over stays until it is closed on evidence or given up on.               *)
THEOREM OutboxKeepsPromise == Spec => PromiseKept
<1>1. IInv /\ IInv' /\ [Next]_vars => [Promise!Next]_(Promise!vars)
  BY PromiseStep DEF IInv
<1> QED BY <1>1, PromiseInit, AlwaysIInv, PTL DEF Spec, PromiseKept, Promise!Spec
=============================================================================
