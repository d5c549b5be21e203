------------------------------ MODULE Delivery ------------------------------
(***************************************************************************)
(* How a message that is in the table reaches the sockets of one node:     *)
(* the notification on the LISTEN connection and its dispatch              *)
(* (src/postgres/postgres.service.ts), the batches of 30 ms and the        *)
(* broadcast (src/chat/chat-ws.service.ts), and the history that a         *)
(* join_room with last_seen_seq reads (src/chat/chat.service.ts),          *)
(* composed with the node of RoomSockets.                                  *)
(*                                                                         *)
(* Messages are posted on any node.  RoomMessages shows that they commit   *)
(* in the order of seq, without gap, and are announced in that order, so   *)
(* here the table of a room is the number of its messages.                 *)
(***************************************************************************)
EXTENDS RoomSockets, SequencesExt

CONSTANTS
    HistoryLimit,  \* LIMIT of the history query (100)
    Slow,          \* bound: sockets that may be over the backpressure threshold
    MaxMessages    \* bound: messages posted to a room

ASSUME DeliveryAssumption ==
    /\ HistoryLimit \in Nat \ {0}
    /\ Slow \subseteq Sockets
    /\ MaxMessages \in Nat
    /\ None \notin Nat

VARIABLES
    committed,   \* the messages of a room are 1..committed[r]
    wire,        \* notifications on the LISTEN connection, oldest first
    buffers,     \* roomMessageBatchBuffers; <<>> stands for an absent key
    flushTimer,  \* roomMessageBatchFlushTimer is set
    sending,     \* what the setImmediate callback of a room has to send, to whom
    wanted,      \* last_seen_seq of the join a handler works on, until it is answered
    history,     \* the last history frame of a socket for a room, while the room has
                 \* been listened on since
    heard,       \* seq of the live messages sent to a socket, in order
    skipped      \* (socket, room): a batch was withheld from the socket

deliveryVars == <<committed, wire, buffers, flushTimer, sending, wanted, history, heard, skipped>>
allVars == <<vars, deliveryVars>>

Seqs == 1..MaxMessages
NoBatch == [to |-> {}, batch |-> <<>>]
History == [after : 0..MaxMessages, upto : 0..MaxMessages]

DeliveryTypeOK ==
    /\ committed \in [Rooms -> 0..MaxMessages]
    /\ wire \in Seq([room : Rooms, seq : Seqs])
    /\ buffers \in [Rooms -> Seq(Seqs)]
    /\ flushTimer \in BOOLEAN
    /\ sending \in [Rooms -> [to : SUBSET Sockets, batch : Seq(Seqs)]]
    /\ wanted \in [Callers -> 0..MaxMessages \cup {None}]
    /\ history \in [Sockets \X Rooms -> History \cup {None}]
    /\ heard \in [Sockets \X Rooms -> Seq(Seqs)]
    /\ skipped \subseteq Sockets \X Rooms

DeliveryInit ==
    /\ Init
    /\ committed = [r \in Rooms |-> 0]
    /\ wire = <<>>
    /\ buffers = [r \in Rooms |-> <<>>]
    /\ flushTimer = FALSE
    /\ sending = [r \in Rooms |-> NoBatch]
    /\ wanted = [h \in Callers |-> None]
    /\ history = [p \in Sockets \X Rooms |-> None]
    /\ heard = [p \in Sockets \X Rooms |-> <<>>]
    /\ skipped = {}

-----------------------------------------------------------------------------
(* The way of a message *)

\* A message commits, on any node; the server notifies who listens.
Post(r) ==
    /\ committed[r] < MaxMessages
    /\ committed' = [committed EXCEPT ![r] = @ + 1]
    /\ wire' = IF r \in listened
               THEN Append(wire, [room |-> r, seq |-> committed[r] + 1]) ELSE wire
    /\ UNCHANGED <<vars, buffers, flushTimer, sending, wanted, history, heard, skipped>>

Unshifts ==  \* mutant of Notified
    /\ wire # <<>>
    /\ wire' = Tail(wire)
    /\ buffers' = [buffers EXCEPT ![Head(wire).room] = <<Head(wire).seq>> \o @]
    /\ flushTimer' = TRUE
    /\ UNCHANGED <<vars, committed, sending, wanted, history, heard, skipped>>

\* The "notification" event, emitted to enqueueRoomMessage: the message waits in
\* the buffer of its room and a timer is running.  A client that is dropped, or
\* a service that is destroyed, has no listeners left.
Notified ==
    /\ wire # <<>>
    /\ wire' = Tail(wire)
    /\ IF destroyed \/ reconnect = "ending"
       THEN UNCHANGED <<buffers, flushTimer>>
       ELSE /\ buffers' = [buffers EXCEPT ![Head(wire).room] = Append(@, Head(wire).seq)]
            /\ flushTimer' = TRUE
    /\ UNCHANGED <<vars, committed, sending, wanted, history, heard, skipped>>

\* broadcastToRoom, without the sockets of S that are over the threshold.
Targets(r, S) == {s \in roomSockets[r] : conn[s] = "open"} \ S

ClearsWhatItSent ==  \* mutant of Flush
    /\ flushTimer
    /\ \A r \in Rooms : sending[r] = NoBatch
    /\ \E S \in SUBSET Slow :
          /\ sending' = [r \in Rooms |->
                IF buffers[r] = <<>> \/ Targets(r, S) = {} THEN NoBatch
                ELSE [to |-> Targets(r, S), batch |-> buffers[r]]]
          /\ skipped' = skipped \cup {p \in S \X Rooms : buffers[p[2]] # <<>>}
          /\ buffers' = [r \in Rooms |-> IF Targets(r, S) = {} THEN buffers[r] ELSE <<>>]
    /\ flushTimer' = FALSE
    /\ UNCHANGED <<vars, committed, wire, wanted, history, heard>>

\* flushRoomMessageBatches, in a turn of the timer: the callbacks of setImmediate
\* run before the next turn of timers.
Flush ==
    /\ flushTimer
    /\ \A r \in Rooms : sending[r] = NoBatch
    /\ \E S \in SUBSET Slow :
          /\ sending' = [r \in Rooms |->
                IF buffers[r] = <<>> \/ Targets(r, S) = {} THEN NoBatch
                ELSE [to |-> Targets(r, S), batch |-> buffers[r]]]
          /\ skipped' = skipped \cup {p \in S \X Rooms : buffers[p[2]] # <<>>}
    /\ buffers' = [r \in Rooms |-> <<>>]
    /\ flushTimer' = FALSE
    /\ UNCHANGED <<vars, committed, wire, wanted, history, heard>>

\* The callback of setImmediate; what is sent to a socket that has closed since
\* is dropped by it.
Send(r) ==
    /\ sending[r] # NoBatch
    /\ heard' = [p \in Sockets \X Rooms |->
          IF p[2] = r /\ p[1] \in sending[r].to /\ conn[p[1]] = "open"
          THEN heard[p] \o sending[r].batch ELSE heard[p]]
    /\ sending' = [sending EXCEPT ![r] = NoBatch]
    /\ UNCHANGED <<vars, committed, wire, buffers, flushTimer, wanted, history, skipped>>

-----------------------------------------------------------------------------
(* join_room with last_seen_seq *)

\* The client asks, by a number, for what follows a message it may know of, or
\* for nothing (RoomMessages has the last_seen_seq that is refused).
Join(h, s, r) ==
    /\ JoinFrame(h, s, r)
    /\ \E k \in 0..committed[r] \cup {None} : wanted' = [wanted EXCEPT ![h] = k]
    /\ history' = [history EXCEPT ![<<s, r>>] = None]
    /\ UNCHANGED <<committed, wire, buffers, flushTimer, sending, heard, skipped>>

CursorFromLimit(after, last) ==  \* mutant of Page
    [after |-> after, upto |-> after + HistoryLimit]

\* The messages the query returns are after + 1 .. upto.
Page(after, last) ==
    [after |-> after, upto |-> IF last < after + HistoryLimit THEN last ELSE after + HistoryLimit]

ReadsFirst(h) ==  \* mutant of ReadHistory
    LET p == <<handler[h].sock, handler[h].room>> IN
    /\ handler[h].pc = "member"
    /\ wanted[h] # None
    /\ history' = [history EXCEPT ![p] =
                      IF conn[p[1]] = "open" THEN Page(wanted[h], committed[p[2]]) ELSE @]
    /\ wanted' = [wanted EXCEPT ![h] = None]
    /\ UNCHANGED <<vars, committed, wire, buffers, flushTimer, sending, heard, skipped>>

\* The history query of handleJoinRoom and the frame it answers with, which comes
\* after subscribeToRoomChannel.
ReadHistory(h) ==
    LET p == <<handler[h].sock, handler[h].room>> IN
    /\ handler[h].pc = "presence"
    /\ wanted[h] # None
    /\ history' = [history EXCEPT ![p] =
                      IF conn[p[1]] = "open" THEN Page(wanted[h], committed[p[2]]) ELSE @]
    /\ wanted' = [wanted EXCEPT ![h] = None]
    /\ UNCHANGED <<vars, committed, wire, buffers, flushTimer, sending, heard, skipped>>

\* The presence row is written once the history is answered; the history query
\* itself may fail like any other.
Handle(h) ==
    /\ \/ HandlerStep(h) /\ (handler[h].pc = "presence" => wanted[h] = None)
       \/ DbFails(h) /\ (wanted[h] # None => UNCHANGED presence)
    /\ wanted' = IF handler'[h] = Idle THEN [wanted EXCEPT ![h] = None] ELSE wanted
    /\ UNCHANGED <<committed, wire, buffers, flushTimer, sending, history, heard, skipped>>

Leave(h, s, r) == LeaveFrame(h, s, r) /\ UNCHANGED deliveryVars

\* The notifications on a connection are lost with it; the onModuleDestroy of
\* ChatWsService, which is called with that of the listen client, clears the timer.
Listen ==
    /\ Listening
    /\ wire' = IF client' = "open" THEN wire ELSE <<>>
    /\ flushTimer' = (flushTimer /\ destroyed' = destroyed)
    /\ history' = [p \in Sockets \X Rooms |->
                      IF p[2] \in listened \ listened' THEN None ELSE history[p]]
    /\ UNCHANGED <<committed, buffers, sending, wanted, heard, skipped>>

-----------------------------------------------------------------------------
DeliveryStep ==
    \/ \E r \in Rooms : Post(r) \/ Send(r)
    \/ Notified
    \/ Flush
    \/ \E h \in Callers : ReadHistory(h) \/ Handle(h)
    \/ \E h \in Callers, s \in Sockets, r \in Rooms : Join(h, s, r) \/ Leave(h, s, r)
    \/ Around /\ UNCHANGED deliveryVars
    \/ Listen

DeliveryNext ==
    \/ \E r \in drops : Drop(r) /\ UNCHANGED deliveryVars
    \/ drops = {} /\ DeliveryStep

DeliverySpec == DeliveryInit /\ [][DeliveryNext]_allVars

-----------------------------------------------------------------------------
(* Properties *)

\* No socket is sent a live message of a room twice or after a later one, whatever
\* buffers, timers, reconnects and repeated joins there were.  It is what the load
\* tests count as seq_duplicates and seq_out_of_order.
LiveInOrder ==
    \A p \in Sockets \X Rooms : \A i, j \in DOMAIN heard[p] : i < j => heard[p][i] < heard[p][j]

\* No message is forgotten in a buffer: while there is one, the timer that flushes
\* it is running.
BufferedIsScheduled ==
    (\E r \in Rooms : buffers[r] # <<>>) => flushTimer \/ destroyed

\* On the way to a socket that is in the room.
OnItsWay(q, s, r) ==
    \/ \E i \in DOMAIN wire : wire[i] = [room |-> r, seq |-> q]
    \/ q \in ToSet(buffers[r])
    \/ s \in sending[r].to /\ q \in ToSet(sending[r].batch)

\* src/README.md:24, gapless history: a client that was told joined_room, and was
\* sent the whole history after its last_seen_seq, gets every message that is not
\* in that history live, unless the LISTEN connection was lost or closed, the
\* room was unsubscribed or the socket was over the backpressure threshold.
NothingMissed ==
    faults = 0 /\ ~destroyed => \A p \in (asked \cap acked) \ skipped :
        (history[p] # None /\ history[p].upto < history[p].after + HistoryLimit) =>
            \A q \in history[p].upto + 1 .. committed[p[2]] :
                q \in ToSet(heard[p]) \/ OnItsWay(q, p[1], p[2])

=============================================================================
