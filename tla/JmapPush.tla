----------------------------- MODULE JmapPush ------------------------------
(***************************************************************************)
(* How JMAP clients hear of changes: whoever changes mail records it,      *)
(* reads the new states and broadcasts them; an event source or WebSocket  *)
(* connection takes them from a channel of bounded length and, when it was *)
(* too slow, sends the states of that moment instead.                      *)
(***************************************************************************)
EXTENDS Naturals, Sequences

CONSTANTS
  PushWriters,     \* sync pass, JMAP methods, IMAP sessions
  Listeners,       \* event source and WebSocket connections
  ChannelRoom,     \* capacity of the broadcast channel
  MaxRecords       \* bound on changes

ASSUME PushAssumption == ChannelRoom \in Nat \ {0} /\ MaxRecords \in Nat

VARIABLES
  states,          \* jmap_state: the counters of Email and Mailbox
  records,         \* changes recorded so far (bound)
  writer,          \* what a writer is doing
  carried,         \* the states it has read to announce
  phase,           \* what a connection is doing
  queue,           \* announcements a connection has not taken yet
  lagged,          \* it lost some of them
  heard,           \* the highest states its client was told
  missed           \* observation only: a change no announcement to it covers

pushVars == <<states, records, writer, carried, phase, queue, lagged, heard, missed>>

PushTypes == {"Email", "Mailbox"}
NoStates == [t \in PushTypes |-> 0]
Higher(a, b) == [t \in PushTypes |-> IF a[t] >= b[t] THEN a[t] ELSE b[t]]

PushInit ==
  /\ states = NoStates /\ records = 0
  /\ writer = [w \in PushWriters |-> "idle"]
  /\ carried = [w \in PushWriters |-> NoStates]
  /\ phase = [l \in Listeners |-> "away"]
  /\ queue = [l \in Listeners |-> <<>>]
  /\ lagged = [l \in Listeners |-> FALSE]
  /\ heard = [l \in Listeners |-> NoStates]
  /\ missed = [l \in Listeners |-> FALSE]

Bumps(t) == states' = [states EXCEPT ![t] = @ + 1]

(* The change is in the log (jmap_record_..._batch) and the counter is up. *)
Records(w) ==
  /\ writer[w] = "idle" /\ records < MaxRecords
  /\ records' = records + 1 /\ Bumps("Email")
  /\ writer' = [writer EXCEPT ![w] = "recorded"]
  /\ UNCHANGED <<carried, phase, queue, lagged, heard, missed>>

(* apply_tag_keywords when a later tag fails: what was changed is recorded and
   the method rejects the update without announcing it. *)
RecordsSilently ==
  /\ records < MaxRecords /\ records' = records + 1 /\ Bumps("Email")
  /\ missed' = [l \in Listeners |-> missed[l] \/ phase[l] # "away"]
  /\ UNCHANGED <<writer, carried, phase, queue, lagged, heard>>

(* jmap_state_get; jmap_state_bump of Mailbox follows where counts changed. *)
ReadsState(w) ==
  /\ writer[w] = "recorded"
  /\ carried' = [carried EXCEPT ![w] = [NoStates EXCEPT !["Email"] = states["Email"]]]
  /\ writer' = [writer EXCEPT ![w] = "read"]
  /\ UNCHANGED <<states, records, phase, queue, lagged, heard, missed>>

BumpsMailbox(w) ==
  /\ writer[w] = "read" /\ Bumps("Mailbox")
  /\ carried' = [carried EXCEPT ![w]["Mailbox"] = states["Mailbox"] + 1]
  /\ writer' = [writer EXCEPT ![w] = "bumped"]
  /\ UNCHANGED <<records, phase, queue, lagged, heard, missed>>

(* broadcaster.send: a receiver whose channel is full loses the oldest one; a
   connection between its first event and its subscription is not told. *)
Sends(w) ==
  /\ writer[w] \in {"read", "bumped"} /\ writer' = [writer EXCEPT ![w] = "idle"]
  /\ queue' = [l \in Listeners |->
       IF phase[l] # "live" THEN queue[l]
       ELSE IF Len(queue[l]) = ChannelRoom THEN Append(Tail(queue[l]), carried[w])
       ELSE Append(queue[l], carried[w])]
  /\ lagged' = [l \in Listeners |->
       lagged[l] \/ (phase[l] = "live" /\ Len(queue[l]) = ChannelRoom)]
  /\ missed' = [l \in Listeners |->
       missed[l] \/ (phase[l] = "snapshot" /\ Higher(heard[l], carried[w]) # heard[l])]
  /\ UNCHANGED <<states, records, carried, phase, heard>>

(* eventsource: the first event carries every state; the subscription follows. *)
SseConnects(l) ==
  /\ phase[l] = "away" /\ phase' = [phase EXCEPT ![l] = "snapshot"]
  /\ heard' = [heard EXCEPT ![l] = states]
  /\ missed' = [missed EXCEPT ![l] = FALSE]
  /\ UNCHANGED <<states, records, writer, carried, queue, lagged>>

(* The WebSocket subscribes, and its client fetches its states after that. *)
WsConnects(l) ==
  /\ phase[l] = "away" /\ phase' = [phase EXCEPT ![l] = "live"]
  /\ heard' = [heard EXCEPT ![l] = states]
  /\ missed' = [missed EXCEPT ![l] = FALSE]
  /\ UNCHANGED <<states, records, writer, carried, queue, lagged>>

SseSubscribes(l) ==
  /\ phase[l] = "snapshot" /\ phase' = [phase EXCEPT ![l] = "live"]
  /\ UNCHANGED <<states, records, writer, carried, queue, lagged, heard, missed>>

(* Mutant: a connection that was too slow goes on with what is left. *)
LagMut(l) == UNCHANGED heard
(* Lagged: the states of that moment are sent. *)
Lag(l) == heard' = [heard EXCEPT ![l] = Higher(@, states)]

Takes(l) ==
  /\ phase[l] = "live"
  /\ \/ /\ lagged[l] /\ lagged' = [lagged EXCEPT ![l] = FALSE]
        /\ Lag(l) /\ UNCHANGED queue
     \/ /\ ~lagged[l] /\ queue[l] # <<>>
        /\ heard' = [heard EXCEPT ![l] = Higher(@, Head(queue[l]))]
        /\ queue' = [queue EXCEPT ![l] = Tail(@)] /\ UNCHANGED lagged
  /\ missed' = [missed EXCEPT ![l] = @ /\ heard'[l] # states]
  /\ UNCHANGED <<states, records, writer, carried, phase>>

Disconnects(l) ==
  /\ phase[l] # "away" /\ phase' = [phase EXCEPT ![l] = "away"]
  /\ queue' = [queue EXCEPT ![l] = <<>>] /\ lagged' = [lagged EXCEPT ![l] = FALSE]
  /\ UNCHANGED <<states, records, writer, carried, heard, missed>>

PushNext ==
  \/ RecordsSilently
  \/ \E w \in PushWriters : Records(w) \/ ReadsState(w) \/ BumpsMailbox(w) \/ Sends(w)
  \/ \E l \in Listeners :
       SseConnects(l) \/ WsConnects(l) \/ SseSubscribes(l) \/ Takes(l) \/ Disconnects(l)

PushSpec == PushInit /\ [][PushNext]_pushVars

-----------------------------------------------------------------------------
(* Properties *)

(* The writer has the current state of that type, or is yet to read it. *)
Announces(w, t) ==
  \/ t = "Email" /\ writer[w] = "recorded"
  \/ writer[w] \in {"read", "bumped"} /\ carried[w][t] >= states[t]

(* A connection with nothing left to take has been told the current states, or
   a writer is about to announce them: whatever the order in which writers read
   and send, and however many announcements a slow connection lost.  The two
   ways to miss one are named: a change announced between the first event of an
   event source and its subscription, and one recorded without announcement.
   (eventsource, send_loop, email::set, run_sync_pass.) *)
ClientsHear ==
  \A l \in Listeners, t \in PushTypes :
    phase[l] = "live" /\ queue[l] = <<>> /\ ~lagged[l] /\ ~missed[l]
      => heard[l][t] >= states[t] \/ \E w \in PushWriters : Announces(w, t)
=============================================================================
