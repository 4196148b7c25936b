------------------------------- MODULE Outbox -------------------------------
(***************************************************************************)
(* Outgoing mail, from the end of an SMTP DATA command to the Aster API.   *)
(*                                                                         *)
(* The SMTP handler sends a message directly.  When that fails in a way    *)
(* that may pass, it stores a row in the SQLite table "outbox" and answers *)
(* 250, and one worker task retries the row until it is sent or given up.  *)
(* Every attempt for one stored message carries one client_send_id, and    *)
(* the Aster API (external) sends a client_send_id at most once.           *)
(*                                                                         *)
(* A submission <<m, n>> is the n-th time the mail app hands message m to  *)
(* the bridge.  It makes at most one row, so rows are named by submissions *)
(* and not by SQLite row ids.  The order in which a tick visits rows       *)
(* (queued_at) is abstracted to any order.                                 *)
(***************************************************************************)
EXTENDS Naturals

CONSTANTS
  Messages,       (* messages written in the mail app                      *)
  WithMessageId,  (* those whose mail app wrote a Message-ID header        *)
  Worker,         (* the outbox loop, as a caller of the API               *)
  NoRow,          (* the worker is on no row                               *)
  MaxAttempts,    (* MAX_ATTEMPTS                                          *)
  HasKeys,        (* the session holds the identity key and the passphrase *)
  SavesToSent,    (* the mail app APPENDs its own copy to Sent             *)
  MaxSubmits,     (* bound: submissions of one message                     *)
  MaxStops,       (* bound: stops and crashes of the bridge                *)
  MaxRetries,     (* bound: "try again" requests of the user               *)
  MaxDbErrors     (* bound: failing writes to the outbox table             *)

ASSUME MessagesAssumption == WithMessageId \subseteq Messages
ASSUME WorkerAssumption == Worker \notin Messages
ASSUME NoRowAssumption == NoRow \notin Messages \X (1..MaxSubmits)
ASSUME BoundsAssumption ==
  /\ MaxAttempts \in Nat \ {0}
  /\ MaxSubmits \in Nat \ {0}
  /\ MaxStops \in Nat /\ MaxRetries \in Nat /\ MaxDbErrors \in Nat
ASSUME FlagsAssumption == HasKeys \in BOOLEAN /\ SavesToSent \in BOOLEAN

Submissions == Messages \X (1..MaxSubmits)

VARIABLES
  (* volatile state of the bridge *)
  up,        \* the runtime is running
  smtp,      \* where the mail app's latest submission of a message stands
  call,      \* the API call each caller is waiting for
  workerRow, \* the row process_one is working on, or NoRow
  noticing,  \* the worker has marked the row failed and owes the notice
  todo,      \* rows of the current tick still to visit
  triggers,  \* the outbox trigger channel
  recent,    \* RECENT_SENDS, the messages note_outgoing_message remembers
  (* state in SQLite *)
  rows,      \* the outbox table
  cooling,   \* rows in "pending" or "sending" whose last_attempt_at is too
             \* recent for the backoff or the reclaim to be over
  synced,    \* Message-IDs in the local Sent folder, stored by the API
  appended,  \* Message-IDs in the local Sent folder, stored by APPEND
  (* the mail app and the Aster API *)
  tries,     \* submissions made of each message
  accepted,  \* submissions the mail app saw answered with 250
  server,    \* what the API knows of a client_send_id
  strays,    \* abandoned calls that may still reach the API
  copies,    \* messages the API has sent out, by client_send_id
  notified,  \* submissions with a failure notice in the inbox
  (* bounds *)
  stops, retries, dbErrors

bridgeVars == <<up, smtp, call, workerRow, noticing, todo, triggers, recent>>
storeVars  == <<rows, cooling, synced, appended>>
worldVars  == <<tries, accepted, server, strays, copies, notified>>
boundVars  == <<stops, retries, dbErrors>>
vars == <<bridgeVars, storeVars, worldVars, boundVars>>

(* Mutant: the key also covers something new in each submission.           *)
KeyPerSubmission(s) == s

(* send_idempotency_key: a digest of envelope and message.  A message that *)
(* has a Message-ID gives the same key each time it is submitted; one that *)
(* has none gets a random Message-ID from with_message_id on every         *)
(* submission, and the row keeps the message with that header.             *)
Key(s) == IF s[1] \in WithMessageId THEN <<s[1], 1>> ELSE s

Latest(m) == <<m, tries[m]>>

CallKey(a) == IF a = Worker THEN Key(workerRow) ELSE Key(Latest(a))

Callers == Messages \cup {Worker}

(* Mutant: a failed row is due again when its last attempt is old enough.  *)
DueThoughFailed(s) ==
  /\ rows[s].attempts < MaxAttempts
  /\ rows[s].attempts = 0 \/ s \notin cooling

(* ready_to_retry and due_for_automatic_send: a first attempt is due at    *)
(* once, a later one when its backoff has passed.                          *)
DueForAutomaticSend(s) ==
  /\ rows[s].status # "failed"
  /\ rows[s].attempts < MaxAttempts
  /\ rows[s].attempts = 0 \/ s \notin cooling

(* Mutant: having handed the message to the API before counts as well.     *)
SentCopyOrRecent(s) == Key(s) \in synced \cup appended \/ s[1] \in recent

(* sent_copy_exists: the local Sent folder has the row's Message-ID.       *)
SentCopyExists(s) == Key(s) \in synced \cup appended

SetStatus(s, status) == rows' = [rows EXCEPT ![s].status = status]

(* outbox_mark_sent and outbox_mark_failed: the row waits for nothing more.*)
Settle(s, status) == SetStatus(s, status) /\ cooling' = cooling \ {s}

(* A write to the outbox table fails; its caller only logs that.           *)
DbWriteFails ==
  /\ dbErrors < MaxDbErrors
  /\ dbErrors' = dbErrors + 1
  /\ UNCHANGED <<rows, cooling>>

Init ==
  /\ up = TRUE
  /\ smtp = [m \in Messages |-> "draft"]
  /\ call = [a \in Callers |-> "none"]
  /\ workerRow = NoRow
  /\ noticing = FALSE
  /\ todo = {} /\ triggers = {} /\ recent = {}
  /\ rows = [s \in Submissions |-> [status |-> "none", attempts |-> 0]]
  /\ cooling = {} /\ synced = {} /\ appended = {}
  /\ tries = [m \in Messages |-> 0]
  /\ accepted = {}
  /\ server = [k \in Submissions |-> "new"]
  /\ strays = {}
  /\ copies = [k \in Submissions |-> 0]
  /\ notified = {}
  /\ stops = 0 /\ retries = 0 /\ dbErrors = 0

-----------------------------------------------------------------------------
(* The SMTP handler at the end of DATA.                                    *)

(* The mail app submits a message: for the first time, because it saw no   *)
(* 250 the last time, or because a notice asked the user to send it again. *)
Submit(m) ==
  /\ up /\ tries[m] < MaxSubmits
  /\ \/ smtp[m] \in {"draft", "unsure", "rejected"}
     \/ smtp[m] = "accepted" /\ Latest(m) \in notified
  /\ tries' = [tries EXCEPT ![m] = @ + 1]
  /\ smtp' = [smtp EXCEPT ![m] = "direct"]
  /\ call' = [call EXCEPT ![m] = "wire"]
  /\ UNCHANGED <<up, workerRow, noticing, todo, triggers, recent, storeVars,
                 accepted, server, strays, copies, notified, boundVars>>

(* session_stores_sent_copy: with its keys the session seals a Sent copy   *)
(* into the send call, and the mail app's own copy will not be needed.     *)
NoteOutgoing(m) ==
  recent' = IF HasKeys THEN recent \cup {m} ELSE recent

DirectAnswer(m, result, state) ==
  /\ smtp[m] = "direct" /\ call[m] = result
  /\ call' = [call EXCEPT ![m] = "none"]
  /\ smtp' = [smtp EXCEPT ![m] = state]
  /\ UNCHANGED <<up, workerRow, noticing, todo, triggers, synced, appended,
                 worldVars, stops, retries>>

DirectSent(m) ==
  /\ DirectAnswer(m, "ok", "replying")
  /\ NoteOutgoing(m)
  /\ UNCHANGED <<rows, cooling, dbErrors>>

(* Mutant: the row gets a status that no query of the worker selects.      *)
DirectQueuedAsQueued(m) ==
  /\ DirectAnswer(m, "transient", "replying")
  /\ rows' = [rows EXCEPT ![Latest(m)] = [status |-> "queued", attempts |-> 0]]
  /\ NoteOutgoing(m)
  /\ UNCHANGED <<cooling, dbErrors>>

(* outbox_insert, then note_outgoing_message, then "250 OK queued".        *)
DirectQueued(m) ==
  /\ DirectAnswer(m, "transient", "replying")
  /\ rows' = [rows EXCEPT ![Latest(m)] = [status |-> "pending", attempts |-> 0]]
  /\ NoteOutgoing(m)
  /\ UNCHANGED <<cooling, dbErrors>>

(* Mutant: the error of the insert is dropped and the answer is still 250. *)
DirectQueueErrorDropped(m) ==
  /\ DirectAnswer(m, "transient", "replying")
  /\ DbWriteFails
  /\ UNCHANGED recent

(* The insert fails: 451, and the mail app keeps the message.              *)
DirectQueueFails(m) ==
  /\ DirectAnswer(m, "transient", "unsure")
  /\ DbWriteFails
  /\ UNCHANGED recent

DirectRejected(m) ==
  /\ DirectAnswer(m, "permanent", "rejected")
  /\ UNCHANGED <<recent, rows, cooling, dbErrors>>

(* The 250 reaches the mail app.                                           *)
Reply(m) ==
  /\ smtp[m] = "replying"
  /\ smtp' = [smtp EXCEPT ![m] = "accepted"]
  /\ accepted' = accepted \cup {Latest(m)}
  /\ UNCHANGED <<up, call, workerRow, noticing, todo, triggers, recent,
                 storeVars, tries, server, strays, copies, notified, boundVars>>

-----------------------------------------------------------------------------
(* The Sent folder.                                                        *)

(* IMAP APPEND of the mail app's own copy.  The handler keeps it unless    *)
(* the local Sent folder has that Message-ID or the bridge remembers       *)
(* sending the message; storing it needs the identity key.  A copy without *)
(* a Message-ID can never match an outbox row (every row has one) and is   *)
(* left out.                                                               *)
AppendSentCopy(m) ==
  /\ up /\ SavesToSent /\ HasKeys
  /\ smtp[m] = "accepted" /\ m \in WithMessageId
  /\ ~SentCopyExists(Latest(m)) /\ m \notin recent
  /\ appended' = appended \cup {Key(Latest(m))}
  /\ UNCHANGED <<bridgeVars, rows, cooling, synced, worldVars, boundVars>>

(* A sync pass finds the Sent copy the API stored with the send.           *)
SyncSentCopy(k) ==
  /\ up /\ HasKeys
  /\ copies[k] > 0 /\ k \notin synced
  /\ synced' = synced \cup {k}
  /\ UNCHANGED <<bridgeVars, rows, cooling, appended, worldVars, boundVars>>

(* RECENT_SEND_TTL_SECS passes, or RECENT_SEND_CAP later sends push it out.*)
ForgetRecent(m) ==
  /\ m \in recent
  /\ recent' = recent \ {m}
  /\ UNCHANGED <<up, smtp, call, workerRow, noticing, todo, triggers,
                 storeVars, worldVars, boundVars>>

-----------------------------------------------------------------------------
(* The worker task, run_outbox_loop.                                       *)

Idle == up /\ workerRow = NoRow

(* Mutant: the tick does not reclaim rows.                                 *)
TickWithoutReclaim ==
  /\ Idle /\ todo = {}
  /\ todo' = {s \in Submissions : rows[s].status \in {"pending", "failed", "sending"}}
  /\ UNCHANGED <<up, smtp, call, workerRow, noticing, triggers, recent, storeVars,
                 worldVars, boundVars>>

(* The tick arm: reclaim rows left in "sending" for STALE_SENDING_SECS,    *)
(* then visit the table as it is now.  A reclaimed row may still have to   *)
(* wait: its backoff can be longer than STALE_SENDING_SECS.                *)
Tick ==
  /\ Idle /\ todo = {}
  /\ LET stale == {s \in Submissions : rows[s].status = "sending" /\ s \notin cooling}
     IN  /\ rows' = [s \in Submissions |->
                       IF s \in stale THEN [rows[s] EXCEPT !.status = "pending"] ELSE rows[s]]
         /\ \E waiting \in SUBSET stale : cooling' = cooling \cup waiting
  /\ todo' = {s \in Submissions : rows[s].status \in {"pending", "failed", "sending"}}
  /\ UNCHANGED <<up, smtp, call, workerRow, noticing, triggers, recent, synced,
                 appended, worldVars, boundVars>>

(* process_one up to its first await: claim the row, look for a Sent copy, *)
(* start the call.  Nothing can run between the claim and the call.        *)
ProcessOne(s) ==
  \/ /\ rows[s].status \notin {"pending", "failed"}
     /\ UNCHANGED <<rows, cooling, workerRow, call, dbErrors>>
  \/ /\ DbWriteFails
     /\ UNCHANGED <<workerRow, call>>
  \/ /\ rows[s].status \in {"pending", "failed"}
     /\ SentCopyExists(s)
     /\ \/ Settle(s, "sent") /\ UNCHANGED dbErrors
        \/ /\ dbErrors < MaxDbErrors /\ dbErrors' = dbErrors + 1
           /\ SetStatus(s, "sending") /\ cooling' = cooling \cup {s}
     /\ UNCHANGED <<workerRow, call>>
  \/ /\ rows[s].status \in {"pending", "failed"}
     /\ ~SentCopyExists(s)
     /\ SetStatus(s, "sending")
     /\ cooling' = cooling \cup {s}
     /\ workerRow' = s
     /\ call' = [call EXCEPT ![Worker] = "wire"]
     /\ UNCHANGED dbErrors

(* The next row of the tick.  Only this task changes a row, so the row is  *)
(* still what the tick listed.                                             *)
VisitRow(s) ==
  /\ Idle /\ s \in todo
  /\ todo' = todo \ {s}
  /\ IF DueForAutomaticSend(s)
     THEN ProcessOne(s)
     ELSE UNCHANGED <<rows, cooling, workerRow, call, dbErrors>>
  /\ UNCHANGED <<up, smtp, noticing, triggers, recent, synced, appended,
                 worldVars, stops, retries>>

(* The trigger arm: a failed row is sent too, whatever its attempts.       *)
TakeTrigger(s) ==
  /\ Idle /\ todo = {} /\ s \in triggers
  /\ triggers' = triggers \ {s}
  /\ IF rows[s].status = "sent"
     THEN UNCHANGED <<rows, cooling, workerRow, call, dbErrors>>
     ELSE ProcessOne(s)
  /\ UNCHANGED <<up, smtp, noticing, todo, recent, synced, appended,
                 worldVars, stops, retries>>

(* The rest of process_one: what the answer does to the row.               *)
WorkerAnswer(result) ==
  /\ workerRow # NoRow /\ ~noticing /\ call[Worker] = result
  /\ call' = [call EXCEPT ![Worker] = "none"]
  /\ UNCHANGED <<up, smtp, todo, triggers, recent, synced, appended,
                 worldVars, stops, retries>>

(* Mutant: 409 "still being sent" is taken for sent.                       *)
RowSentOnConflict ==
  /\ WorkerAnswer("ok") \/ WorkerAnswer("transient")
  /\ \/ Settle(workerRow, "sent") /\ UNCHANGED dbErrors
     \/ DbWriteFails
  /\ workerRow' = NoRow
  /\ UNCHANGED noticing

RowSent ==
  /\ WorkerAnswer("ok")
  /\ \/ Settle(workerRow, "sent") /\ UNCHANGED dbErrors
     \/ DbWriteFails
  /\ workerRow' = NoRow
  /\ UNCHANGED noticing

(* Mutant: off by one in the limit of attempts.                            *)
LastAttemptTooLate(s) == rows[s].attempts + 1 > MaxAttempts

LastAttempt(s) == rows[s].attempts + 1 >= MaxAttempts

RowPutBack ==
  /\ WorkerAnswer("transient")
  /\ ~LastAttempt(workerRow)
  /\ \/ /\ rows' = [rows EXCEPT ![workerRow] =
                      [status |-> "pending", attempts |-> @.attempts + 1]]
        /\ cooling' = cooling \cup {workerRow}
        /\ UNCHANGED dbErrors
     \/ DbWriteFails
  /\ workerRow' = NoRow
  /\ UNCHANGED noticing

RowFailed ==
  /\ \/ WorkerAnswer("permanent")
     \/ WorkerAnswer("transient") /\ LastAttempt(workerRow)
  /\ \/ Settle(workerRow, "failed") /\ UNCHANGED dbErrors
     \/ DbWriteFails
  /\ noticing' = TRUE
  /\ UNCHANGED workerRow

(* report_failed_send stores the notice in the inbox through the API, for  *)
(* which it needs the identity key; a failure is only logged.              *)
ReportFailedSend ==
  /\ noticing
  /\ \/ HasKeys /\ notified' = notified \cup {workerRow}
     \/ UNCHANGED notified
  /\ noticing' = FALSE
  /\ workerRow' = NoRow
  /\ UNCHANGED <<up, smtp, call, todo, triggers, recent, storeVars, tries,
                 accepted, server, strays, copies, boundVars>>

(* "Try again" in the window, "outbox retry" on the command line, and the  *)
(* command line's drain before a stop: send the row's id to the channel.   *)
RequestRetry(s) ==
  /\ up /\ retries < MaxRetries
  /\ rows[s].status # "none"
  /\ triggers' = triggers \cup {s}
  /\ retries' = retries + 1
  /\ UNCHANGED <<up, smtp, call, workerRow, noticing, todo, recent, storeVars,
                 worldVars, stops, dbErrors>>

(* A row's backoff, or STALE_SENDING_SECS for a row in "sending", passes.  *)
TimePasses(s) ==
  /\ s \in cooling
  /\ cooling' = cooling \ {s}
  /\ UNCHANGED <<bridgeVars, rows, synced, appended, worldVars, boundVars>>

-----------------------------------------------------------------------------
(* The network and the Aster API, POST /bridge/v1/send (external).         *)

Answer(a, result) == call' = [call EXCEPT ![a] = result]

(* The payload cannot be built, or no connection is made.                  *)
CallFailsEarly(a) ==
  /\ call[a] = "wire"
  /\ \E result \in {"transient", "permanent"} : Answer(a, result)
  /\ UNCHANGED <<up, smtp, workerRow, noticing, todo, triggers, recent,
                 storeVars, worldVars, boundVars>>

(* The call reaches the API: a client_send_id it is working on is a 409    *)
(* "still being sent", one it has sent is answered as sent.                *)
CallArrives(a) ==
  /\ call[a] = "wire"
  /\ LET k == CallKey(a)
     IN  /\ Answer(a, CASE server[k] = "new"  -> "busy"
                        [] server[k] = "busy" -> "transient"
                        [] server[k] = "done" -> "ok")
         /\ server' = IF server[k] = "new" THEN [server EXCEPT ![k] = "busy"] ELSE server
  /\ UNCHANGED <<up, smtp, workerRow, noticing, todo, triggers, recent,
                 storeVars, tries, accepted, strays, copies, notified, boundVars>>

(* The caller gives up (SEND_MAIL_TIMEOUT) or loses the connection, with   *)
(* the request on the way, in work or answered.                            *)
CallTimesOut(a) ==
  /\ call[a] \in {"wire", "busy", "ok"}
  /\ Answer(a, "transient")
  /\ strays' = IF call[a] = "wire" THEN strays \cup {CallKey(a)} ELSE strays
  /\ UNCHANGED <<up, smtp, workerRow, noticing, todo, triggers, recent,
                 storeVars, tries, accepted, server, copies, notified, boundVars>>

StrayArrives(k) ==
  /\ k \in strays
  /\ strays' = strays \ {k}
  /\ server' = IF server[k] = "new" THEN [server EXCEPT ![k] = "busy"] ELSE server
  /\ UNCHANGED <<bridgeVars, storeVars, tries, accepted, copies, notified, boundVars>>

(* The API finishes with a client_send_id and answers whoever still waits. *)
ServerFinishes(k, result) ==
  /\ server[k] = "busy"
  /\ server' = [server EXCEPT ![k] = IF result = "ok" THEN "done" ELSE "new"]
  /\ copies' = IF result = "ok" THEN [copies EXCEPT ![k] = @ + 1] ELSE copies
  /\ call' = [a \in Callers |->
                IF call[a] = "busy" /\ CallKey(a) = k THEN result ELSE call[a]]
  /\ UNCHANGED <<up, smtp, workerRow, noticing, todo, triggers, recent,
                 storeVars, tries, accepted, strays, notified, boundVars>>

-----------------------------------------------------------------------------
(* Stops, crashes and starts.                                              *)

(* Every task is dropped where it waits.  A stop keeps the process and so  *)
(* RECENT_SENDS; the end of the process loses it too.                      *)
Stop(processEnds) ==
  /\ up /\ stops < MaxStops
  /\ up' = FALSE
  /\ smtp' = [m \in Messages |->
                IF smtp[m] \in {"direct", "replying"} THEN "unsure" ELSE smtp[m]]
  /\ call' = [a \in Callers |-> "none"]
  /\ \E lost \in SUBSET {CallKey(a) : a \in {c \in Callers : call[c] = "wire"}} :
       strays' = strays \cup lost
  /\ workerRow' = NoRow /\ noticing' = FALSE
  /\ todo' = {} /\ triggers' = {}
  /\ recent' = IF processEnds THEN {} ELSE recent
  /\ stops' = stops + 1
  /\ UNCHANGED <<storeVars, tries, accepted, server, copies, notified,
                 retries, dbErrors>>

(* BridgeRuntime::start and the first lines of run_outbox_loop:            *)
(* outbox_reset_stale_sending(0).                                          *)
Start ==
  /\ ~up
  /\ up' = TRUE
  /\ rows' = [s \in Submissions |->
                IF rows[s].status = "sending"
                THEN [rows[s] EXCEPT !.status = "pending"] ELSE rows[s]]
  /\ UNCHANGED <<smtp, call, workerRow, noticing, todo, triggers, recent,
                 cooling, synced, appended, worldVars, boundVars>>

-----------------------------------------------------------------------------
SmtpStep(m) ==
  \/ DirectSent(m) \/ DirectQueued(m) \/ DirectQueueFails(m)
  \/ DirectRejected(m) \/ Reply(m)

WorkerStep ==
  \/ RowSent \/ RowPutBack \/ RowFailed \/ ReportFailedSend
  \/ \E s \in Submissions : VisitRow(s)

NetworkStep ==
  \/ \E a \in Callers : CallFailsEarly(a) \/ CallArrives(a) \/ CallTimesOut(a)
  \/ \E k \in Submissions : StrayArrives(k)
  \/ \E k \in Submissions, result \in {"ok", "transient", "permanent"} :
       ServerFinishes(k, result)

Next ==
  \/ \E m \in Messages :
       \/ Submit(m) \/ SmtpStep(m) \/ AppendSentCopy(m) \/ ForgetRecent(m)
  \/ \E s \in Submissions :
       \/ SyncSentCopy(s) \/ TakeTrigger(s) \/ RequestRetry(s) \/ TimePasses(s)
  \/ Tick
  \/ WorkerStep
  \/ NetworkStep
  \/ \E processEnds \in BOOLEAN : Stop(processEnds)
  \/ Start

Spec == Init /\ [][Next]_vars

(* What the runtime keeps doing: the handlers and the worker go on when    *)
(* they can, a call is answered or times out, time passes, and a stopped   *)
(* bridge is started again.  Nothing is assumed of the mail app, of the    *)
(* user, or of the API sending anything.                                   *)
Fairness ==
  /\ \A m \in Messages : WF_vars(SmtpStep(m))
  /\ WF_vars(WorkerStep)
  /\ WF_vars(Tick)
  /\ \A a \in Callers : WF_vars(CallArrives(a) \/ CallTimesOut(a))
  /\ \A s \in Submissions : WF_vars(TimePasses(s))
  /\ WF_vars(Start)

FairSpec == Spec /\ Fairness

-----------------------------------------------------------------------------
(* Properties.                                                             *)

RowStatus == {"none", "pending", "sending", "sent", "failed"}

TypeOK ==
  /\ up \in BOOLEAN /\ noticing \in BOOLEAN
  /\ smtp \in [Messages ->
        {"draft", "direct", "replying", "accepted", "rejected", "unsure"}]
  /\ call \in [Callers -> {"none", "wire", "busy", "ok", "transient", "permanent"}]
  /\ workerRow \in Submissions \cup {NoRow}
  /\ todo \subseteq Submissions /\ triggers \subseteq Submissions
  /\ recent \subseteq Messages
  /\ rows \in [Submissions -> [status : RowStatus, attempts : Nat]]
  /\ cooling \subseteq Submissions
  /\ synced \subseteq Submissions /\ appended \subseteq Submissions
  /\ tries \in [Messages -> 0..MaxSubmits]
  /\ accepted \subseteq Submissions
  /\ server \in [Submissions -> {"new", "busy", "done"}]
  /\ strays \subseteq Submissions
  /\ copies \in [Submissions -> Nat]
  /\ notified \subseteq Submissions
  /\ stops \in 0..MaxStops /\ retries \in 0..MaxRetries
  /\ dbErrors \in 0..MaxDbErrors

(* "A retried send never goes out twice": over lost answers, restarts,     *)
(* late requests, user retries and, when the mail app writes a Message-ID, *)
(* its own new submissions, a message goes out at most once.               *)
AtMostOnce ==
  /\ \A k \in Submissions : copies[k] <= 1
  /\ \A m \in WithMessageId, n \in 1..MaxSubmits : n # 1 => copies[<<m, n>>] = 0

(* Mail answered with 250 is sent out, or its row can still be sent or was *)
(* given up on, or its own copy is in the Sent folder (the worker takes    *)
(* that for proof that it was sent).                                       *)
AcceptedNotLost ==
  \A s \in accepted :
    \/ copies[Key(s)] = 1
    \/ rows[s].status \in {"pending", "sending", "failed"}
    \/ rows[s].status = "sent" /\ Key(s) \in appended

(* A row ends as "sent" only when the API sent the message, or when the    *)
(* mail app had stored its own copy.                                       *)
SentMeansDelivered ==
  \A s \in Submissions :
    rows[s].status = "sent" => copies[Key(s)] = 1 \/ Key(s) \in appended

(* Every row has attempts left, also a failed one the user sends again: no *)
(* row waits for a tick that will always skip it.                          *)
NoStrandedRow == \A s \in Submissions : rows[s].attempts < MaxAttempts

(* A row given up on goes out again only when the user asks for it.        *)
FailedStaysPut ==
  [][\A s \in Submissions :
       rows[s].status = "failed" /\ rows'[s].status # "failed" => s \in triggers]_vars

(* Every row ends: it is sent or given up on, over stops, stuck rows and   *)
(* an API that never answers.                                              *)
RowsSettle ==
  \A s \in Submissions :
    rows[s].status \in {"pending", "sending"} ~> rows[s].status \in {"sent", "failed"}

(* The inductive invariant behind the properties above.  A caller waits    *)
(* only while its handler does; the worker's row is claimed until the      *)
(* answer is written down; nothing runs while the bridge is stopped.       *)
CallersWait ==
  /\ \A m \in Messages : call[m] # "none" => smtp[m] = "direct"
  /\ \A m \in Messages : smtp[m] # "draft" => tries[m] > 0
  /\ workerRow = NoRow => call[Worker] = "none" /\ ~noticing
  /\ noticing => call[Worker] = "none"
  /\ workerRow # NoRow /\ ~noticing => rows[workerRow].status = "sending"
  /\ ~up => workerRow = NoRow

(* A submission whose handler has not answered has no row yet.             *)
RowsFresh ==
  /\ \A m \in Messages, n \in 1..MaxSubmits :
       n > tries[m] => rows[<<m, n>>].status = "none"
  /\ \A m \in Messages :
       smtp[m] = "direct" => rows[Latest(m)].status = "none"

(* The API sends what it records as done, under keys Key can give.         *)
ServerRecord ==
  /\ \A k \in Submissions : copies[k] = IF server[k] = "done" THEN 1 ELSE 0
  /\ \A m \in WithMessageId, n \in 1..MaxSubmits :
       n # 1 => server[<<m, n>>] = "new" /\ <<m, n>> \notin strays

(* What the bridge takes for sent was sent.                                *)
EvidenceHolds ==
  /\ \A m \in Messages : call[m] = "ok" => copies[Key(Latest(m))] = 1
  /\ call[Worker] = "ok" => copies[Key(workerRow)] = 1
  /\ \A k \in synced : copies[k] = 1

(* A 250, given or on its way, is backed by a row or by a sent message.    *)
Backed(s) == copies[Key(s)] = 1 \/ rows[s].status # "none"

RepliesBacked ==
  /\ \A m \in Messages : smtp[m] = "replying" => Backed(Latest(m))
  /\ \A s \in accepted : Backed(s)

IInv ==
  /\ TypeOK /\ CallersWait /\ RowsFresh /\ ServerRecord /\ EvidenceHolds
  /\ RepliesBacked /\ SentMeansDelivered /\ NoStrandedRow

(* The outbox implements MailPromise: a row's status is its fate.          *)
Fate(status) == IF status \in {"pending", "sending"} THEN "waiting" ELSE status

Promise == INSTANCE MailPromise
             WITH fate <- [s \in Submissions |-> Fate(rows[s].status)],
                  out <- copies, kept <- appended

(* Every step of the bridge, the mail app and the API is a step MailPromise*)
(* allows.                                                                 *)
PromiseKept == Promise!Spec

(* The log line of process_one: a row found as "already delivered" went    *)
(* out.                                                                    *)
SentMeansSent ==
  \A s \in Submissions : rows[s].status = "sent" => copies[Key(s)] = 1
=============================================================================
