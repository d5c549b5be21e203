----------------------------- MODULE RoomSockets -----------------------------
(***************************************************************************)
(* One application node: the WebSocket layer (src/chat/chat-ws.service.ts) *)
(* with the join_room and leave_room handlers of ChatService               *)
(* (src/chat/chat.service.ts), composed with the LISTEN client             *)
(* (ListenClient).  It tracks which sockets a room's broadcasts go to,     *)
(* which rooms are subscribed, and which presence rows are in the table.   *)
(*                                                                         *)
(* "message" events start handlers that are not serialised: two frames of  *)
(* one socket may be in progress together.  A handler is one of Callers;   *)
(* an action is its code from one await to the next.  The read of the      *)
(* history in handleJoinRoom changes nothing here and is part of the step  *)
(* that ends with the presence row.                                        *)
(***************************************************************************)
EXTENDS ListenClient, FiniteSets

CONSTANTS
    Sockets,      \* connections clients open to this node
    Users,        \* user ids
    UserOf,       \* UserOf[s]: the user whose token socket s presents
    None,         \* no socket, no room
    Events,       \* bound: what the environment does in this instance
    MaxDbFaults   \* bound: pool queries that are rejected

EventKinds == {"join_room", "leave_room", "http", "refuse", "close", "vanish", "heartbeat",
               "sweep", "shutdown"}

ASSUME SocketAssumption ==
    /\ UserOf \in [Sockets -> Users]
    /\ None \notin Sockets \cup Rooms
    /\ Events \subseteq EventKinds
    /\ MaxDbFaults \in Nat

VARIABLES
    conn,         \* new, open, terminated (its close event is due), closed
    alive,        \* isAlive
    reachable,    \* the client is still there to answer a ping
    roomSockets,  \* roomSockets; {} stands for an absent key
    userSockets,  \* userSockets; {} stands for an absent key
    drops,        \* rooms whose unsubscribe is due in the present turn
    handler,      \* frames being handled
    members,      \* table room_members
    presence,     \* table presence, by its key (user, room)
    stale,        \* its rows whose last_seen is over a minute old
    asked,        \* (socket, room): its last join_room or leave_room is a join
    acked,        \* (socket, room): joined_room was sent, no leave_room since
    dbFaults      \* pool queries rejected so far

registry == <<roomSockets, userSockets, drops>>
tables == <<members, presence, stale>>
told == <<asked, acked>>
nodeVars == <<conn, alive, reachable, registry, handler, tables, told, dbFaults>>
vars == <<listenVars, nodeVars>>

Idle == [pc |-> "idle", sock |-> None, room |-> None]
Handler == [pc : {"idle", "member", "subscribe", "presence", "delete", "unsubscribe"},
            sock : Sockets \cup {None}, room : Rooms \cup {None}]

NodeTypeOK ==
    /\ TypeOK
    /\ conn \in [Sockets -> {"new", "open", "terminated", "closed"}]
    /\ alive \in [Sockets -> BOOLEAN]
    /\ reachable \in [Sockets -> BOOLEAN]
    /\ roomSockets \in [Rooms -> SUBSET Sockets]
    /\ userSockets \in [Users -> SUBSET Sockets]
    /\ drops \subseteq Rooms
    /\ handler \in [Callers -> Handler]
    /\ members \subseteq Users \X Rooms
    /\ presence \subseteq Users \X Rooms
    /\ stale \subseteq presence
    /\ asked \subseteq Sockets \X Rooms
    /\ acked \subseteq Sockets \X Rooms
    /\ dbFaults \in 0..MaxDbFaults

Init ==
    /\ ListenInit
    /\ conn = [s \in Sockets |-> "new"]
    /\ alive = [s \in Sockets |-> FALSE]
    /\ reachable = [s \in Sockets |-> TRUE]
    /\ roomSockets = [r \in Rooms |-> {}]
    /\ userSockets = [u \in Users |-> {}]
    /\ drops = {}
    /\ handler = [h \in Callers |-> Idle]
    /\ members \in SUBSET (Users \X Rooms)
    /\ presence = {}
    /\ stale = {}
    /\ asked = {}
    /\ acked = {}
    /\ dbFaults = 0

-----------------------------------------------------------------------------
(* Connections *)

\* handleConnection with a valid token.
Connect(s) ==
    /\ conn[s] = "new"
    /\ conn' = [conn EXCEPT ![s] = "open"]
    /\ alive' = [alive EXCEPT ![s] = TRUE]
    /\ userSockets' = [userSockets EXCEPT ![UserOf[s]] = @ \cup {s}]
    /\ UNCHANGED <<listenVars, reachable, roomSockets, drops, handler, tables, told, dbFaults>>

\* handleConnection without one: the socket is closed and never registered.
ConnectRefused(s) ==
    /\ "refuse" \in Events
    /\ conn[s] = "new"
    /\ conn' = [conn EXCEPT ![s] = "closed"]
    /\ UNCHANGED <<listenVars, alive, reachable, registry, handler, tables, told, dbFaults>>

DropsSharedRooms(D) ==  \* mutant of CleanupSockets
    /\ userSockets' = [u \in Users |-> userSockets[u] \ D]
    /\ roomSockets' = [r \in Rooms |-> roomSockets[r] \ D]
    /\ drops' = {r \in Rooms : roomSockets[r] \cap D # {}}
    /\ asked' = {p \in asked : p[1] \notin D}
    /\ acked' = {p \in acked : p[1] \notin D}

\* cleanupSocket for each socket of D.  The unsubscribes of the rooms it
\* empties are called in the same turn, by Drop.
CleanupSockets(D) ==
    /\ userSockets' = [u \in Users |-> userSockets[u] \ D]
    /\ roomSockets' = [r \in Rooms |-> roomSockets[r] \ D]
    /\ drops' = {r \in Rooms : roomSockets[r] \cap D # {} /\ roomSockets[r] \subseteq D}
    /\ asked' = {p \in asked : p[1] \notin D}
    /\ acked' = {p \in acked : p[1] \notin D}

\* unsubscribeFromRoomChannel, whose promise is only given a catch.
Drop(r) ==
    /\ r \in drops
    /\ Unsubscribe("detached", r)
    /\ drops' = drops \ {r}
    /\ UNCHANGED <<conn, alive, reachable, roomSockets, userSockets, handler, tables, told, dbFaults>>

\* The "close" event, the last one of a socket.
Close(s) ==
    /\ conn[s] = "terminated" \/ (conn[s] = "open" /\ "close" \in Events)
    /\ conn' = [conn EXCEPT ![s] = "closed"]
    /\ CleanupSockets({s})
    /\ UNCHANGED <<listenVars, alive, reachable, handler, tables, dbFaults>>

\* The "error" event; "close" follows.
SocketError(s) ==
    /\ "close" \in Events
    /\ conn[s] = "open"
    /\ conn' = [conn EXCEPT ![s] = "terminated"]
    /\ CleanupSockets({s})
    /\ UNCHANGED <<listenVars, alive, reachable, handler, tables, dbFaults>>

Clients == {s \in Sockets : conn[s] \in {"open", "terminated"}}

PingsOnly ==  \* mutant of Heartbeat
    LET silent == {s \in Clients : ~alive[s]} IN
    /\ ~destroyed
    /\ Clients # {}
    /\ conn' = [s \in Sockets |-> IF s \in silent THEN "terminated" ELSE conn[s]]
    /\ CleanupSockets(silent)
    /\ UNCHANGED <<listenVars, alive, reachable, handler, tables, dbFaults>>

\* startHeartbeat: every interval, the clients that have not answered since the
\* last one are cleaned up and terminated, the others are pinged.  The module
\* clears the interval when it is destroyed; Nest destroys it and the LISTEN
\* client together.
Heartbeat ==
    LET silent == {s \in Clients : ~alive[s]} IN
    /\ "heartbeat" \in Events
    /\ ~destroyed
    /\ Clients # {}
    /\ conn' = [s \in Sockets |-> IF s \in silent THEN "terminated" ELSE conn[s]]
    /\ alive' = [s \in Sockets |-> IF s \in Clients THEN FALSE ELSE alive[s]]
    /\ CleanupSockets(silent)
    /\ UNCHANGED <<listenVars, reachable, handler, tables, dbFaults>>

Pong(s) ==
    /\ conn[s] = "open"
    /\ reachable[s]
    /\ ~alive[s]
    /\ alive' = [alive EXCEPT ![s] = TRUE]
    /\ UNCHANGED <<listenVars, conn, reachable, registry, handler, tables, told, dbFaults>>

\* The client is gone without a closing handshake.
Vanish(s) ==
    /\ "vanish" \in Events
    /\ conn[s] = "open"
    /\ reachable[s]
    /\ reachable' = [reachable EXCEPT ![s] = FALSE]
    /\ UNCHANGED <<listenVars, conn, alive, registry, handler, tables, told, dbFaults>>

-----------------------------------------------------------------------------
(* join_room *)

\* Frames that were buffered may still be handled after terminate().
Receives(s) == conn[s] \in {"open", "terminated"} /\ reachable[s]

\* Bounds the joins: those that are counted, those that will be, and one for an
\* UNLISTEN that fails and restores the count.
JoinsAllowed(r) ==
    counts[r] + Cardinality({h \in Callers : handler[h].pc = "member" /\ handler[h].room = r})
        < MaxSubscribers - 1

\* handleFrame, join_room: the socket is added to the room, then awaits the
\* membership query.
JoinFrame(h, s, r) ==
    /\ "join_room" \in Events
    /\ handler[h] = Idle
    /\ Receives(s)
    /\ JoinsAllowed(r)
    /\ roomSockets' = [roomSockets EXCEPT ![r] = @ \cup {s}]
    /\ asked' = asked \cup {<<s, r>>}
    /\ handler' = [handler EXCEPT ![h] = [pc |-> "member", sock |-> s, room |-> r]]
    /\ UNCHANGED <<listenVars, conn, alive, reachable, userSockets, drops, tables, acked, dbFaults>>

IsMember(h) == <<UserOf[handler[h].sock], handler[h].room>> \in members

\* A frame reaches the client only while its socket is open.
Tell(pairs, h) ==
    pairs \cup {p \in {<<handler[h].sock, handler[h].room>>} : conn[p[1]] = "open"}

JoinUnawaited(h) ==  \* mutant of JoinMember
    /\ handler[h].pc = "member"
    /\ IsMember(h)
    /\ Subscribe(h, handler[h].room)
    /\ handler' = [handler EXCEPT ![h].pc = "presence"]
    /\ UNCHANGED <<conn, alive, reachable, registry, tables, told, dbFaults>>

JoinMember(h) ==
    /\ handler[h].pc = "member"
    /\ IsMember(h)
    /\ Subscribe(h, handler[h].room)
    /\ handler' = [handler EXCEPT ![h].pc = "subscribe"]
    /\ UNCHANGED <<conn, alive, reachable, registry, tables, told, dbFaults>>

\* An error frame is sent; the socket stays among those of the room.
JoinNotMember(h) ==
    /\ handler[h].pc = "member"
    /\ ~IsMember(h)
    /\ handler' = [handler EXCEPT ![h] = Idle]
    /\ UNCHANGED <<listenVars, conn, alive, reachable, registry, tables, told, dbFaults>>

\* subscribeToRoomChannel has settled.  A rejection ends the handler: the
\* "message" listener logs it and the client is told nothing.
JoinSubscribed(h) ==
    /\ handler[h].pc = "subscribe"
    /\ handler' = [handler EXCEPT ![h] = IF promise[h] = "ok"
                                         THEN [@ EXCEPT !.pc = "presence"] ELSE Idle]
    /\ Resume(h)
    /\ UNCHANGED <<counts, queue, toVisit, connVars>>
    /\ UNCHANGED <<conn, alive, reachable, registry, tables, told, dbFaults>>

Upsert(row) == presence' = presence \cup {row} /\ stale' = stale \ {row}
Delete(row) == presence' = presence \ {row} /\ stale' = stale \ {row}

Row(h) == <<UserOf[handler[h].sock], handler[h].room>>

RegistersLast(h) ==  \* mutant of JoinPresence
    /\ handler[h].pc = "presence"
    /\ Upsert(Row(h))
    /\ roomSockets' = [roomSockets EXCEPT ![handler[h].room] = @ \cup {handler[h].sock}]
    /\ acked' = Tell(acked, h)
    /\ handler' = [handler EXCEPT ![h] = Idle]
    /\ UNCHANGED <<listenVars, conn, alive, reachable, userSockets, drops, members, asked, dbFaults>>

JoinPresence(h) ==
    /\ handler[h].pc = "presence"
    /\ Upsert(Row(h))
    /\ acked' = Tell(acked, h)
    /\ handler' = [handler EXCEPT ![h] = Idle]
    /\ UNCHANGED <<listenVars, conn, alive, reachable, registry, members, asked, dbFaults>>

-----------------------------------------------------------------------------
(* leave_room *)

\* handleFrame, leave_room: removeSocketFromRoom, whose unsubscribe of a room
\* it empties is called in the same turn, then awaits the DELETE.
LeaveFrame(h, s, r) ==
    /\ "leave_room" \in Events
    /\ handler[h] = Idle
    /\ Receives(s)
    /\ roomSockets' = [roomSockets EXCEPT ![r] = @ \ {s}]
    /\ drops' = IF roomSockets[r] # {} /\ roomSockets[r] \ {s} = {} THEN {r} ELSE {}
    /\ asked' = asked \ {<<s, r>>}
    /\ acked' = acked \ {<<s, r>>}
    /\ handler' = [handler EXCEPT ![h] = [pc |-> "delete", sock |-> s, room |-> r]]
    /\ UNCHANGED <<listenVars, conn, alive, reachable, userSockets, tables, dbFaults>>

\* The presence row is deleted; handleLeaveRoom then unsubscribes as well.
LeaveDelete(h) ==
    /\ handler[h].pc = "delete"
    /\ Delete(Row(h))
    /\ Unsubscribe(h, handler[h].room)
    /\ handler' = [handler EXCEPT ![h].pc = "unsubscribe"]
    /\ UNCHANGED <<conn, alive, reachable, registry, members, told, dbFaults>>

LeaveDone(h) ==
    /\ handler[h].pc = "unsubscribe"
    /\ Resume(h)
    /\ handler' = [handler EXCEPT ![h] = Idle]
    /\ UNCHANGED <<counts, queue, toVisit, connVars>>
    /\ UNCHANGED <<conn, alive, reachable, registry, tables, told, dbFaults>>

-----------------------------------------------------------------------------
(* The database *)

\* A pool query is rejected (no free connection, statement timeout, connection
\* lost after it took effect): the handler ends, the client is told nothing.
DbFails(h) ==
    /\ dbFaults < MaxDbFaults
    /\ handler[h].pc \in {"member", "presence", "delete"}
    /\ \/ UNCHANGED <<presence, stale>>
       \/ handler[h].pc = "presence" /\ Upsert(Row(h))
       \/ handler[h].pc = "delete" /\ Delete(Row(h))
    /\ dbFaults' = dbFaults + 1
    /\ handler' = [handler EXCEPT ![h] = Idle]
    /\ UNCHANGED <<listenVars, conn, alive, reachable, registry, members, told>>

\* POST /rooms/:id/join and /leave: RoomsService.joinRoom and leaveRoom.
HttpJoin(u, r) ==
    /\ "http" \in Events
    /\ members' = members \cup {<<u, r>>}
    /\ UNCHANGED <<listenVars, conn, alive, reachable, registry, handler, presence, stale, told, dbFaults>>

HttpLeave(u, r) ==
    /\ "http" \in Events
    /\ members' = members \ {<<u, r>>}
    /\ UNCHANGED <<listenVars, conn, alive, reachable, registry, handler, presence, stale, told, dbFaults>>

\* A minute passes over a presence row.
Ages(row) ==
    /\ "sweep" \in Events
    /\ row \in presence \ stale
    /\ stale' = stale \cup {row}
    /\ UNCHANGED <<listenVars, conn, alive, reachable, registry, handler, members, presence, told, dbFaults>>

\* sweepStalePresence, on a timer that ends with the module.
Sweep ==
    /\ ~destroyed
    /\ stale # {}
    /\ presence' = presence \ stale
    /\ stale' = {}
    /\ UNCHANGED <<listenVars, conn, alive, reachable, registry, handler, members, told, dbFaults>>

-----------------------------------------------------------------------------
HandlerStep(h) ==
    \/ JoinMember(h)
    \/ JoinNotMember(h)
    \/ JoinSubscribed(h)
    \/ JoinPresence(h)
    \/ LeaveDelete(h)
    \/ LeaveDone(h)

\* What happens to sockets and tables from outside, and on timers.
Around ==
    \/ \E s \in Sockets : Connect(s) \/ ConnectRefused(s) \/ Close(s) \/ SocketError(s)
    \/ \E s \in Sockets : Pong(s) \/ Vanish(s)
    \/ Heartbeat
    \/ \E u \in Users, r \in Rooms : HttpJoin(u, r) \/ HttpLeave(u, r)
    \/ \E row \in presence : Ages(row)
    \/ Sweep

\* The LISTEN client goes on by itself.
Listening ==
    /\ Internally
    /\ destroyed' # destroyed => "shutdown" \in Events
    /\ UNCHANGED nodeVars

Step ==
    \/ \E h \in Callers : HandlerStep(h) \/ DbFails(h)
    \/ \E h \in Callers, s \in Sockets, r \in Rooms : JoinFrame(h, s, r) \/ LeaveFrame(h, s, r)
    \/ Around
    \/ Listening

\* The unsubscribes of a cleanup belong to its turn: nothing comes in between.
Next ==
    \/ \E r \in drops : Drop(r)
    \/ drops = {} /\ Step

Spec == Init /\ [][Next]_vars

\* Queries are answered, the heartbeat fires until it is cleared and a terminated
\* socket closes; clients owe nothing.  A step that waits for a turn of its own
\* is disabled while another turn lasts, hence strong fairness.
Turn(A) == drops = {} /\ A

Fairness ==
    /\ \A h \in Callers : SF_vars(Turn(HandlerStep(h)))
    /\ \A r \in Rooms : WF_vars(Drop(r))
    /\ \A s \in Sockets : SF_vars(Turn(conn[s] = "terminated" /\ Close(s)))
    /\ SF_vars(Turn(Heartbeat))
    /\ SF_vars(Turn(Reply /\ UNCHANGED nodeVars))

FairSpec == Spec /\ Fairness

-----------------------------------------------------------------------------
(* Properties *)

\* A socket that has had its "close" event is in no room and in no user's set,
\* whatever handlers were in progress: no continuation after an await puts it
\* back, and the cleanup of the close event undoes frames handled after an
\* earlier cleanup by the heartbeat or the "error" event.
ClosedNotRegistered ==
    \A s \in Sockets : conn[s] = "closed" =>
        /\ \A r \in Rooms : s \notin roomSockets[r]
        /\ \A u \in Users : s \notin userSockets[u]

\* A client whose last request about the room was to join, that was sent
\* joined_room since it last left and is still connected is a target of the
\* room's broadcasts, and its node is subscribed to the room (until the module
\* is destroyed).
AckedIsServed ==
    ~destroyed => \A p \in asked \cap acked : p[1] \in roomSockets[p[2]] /\ counts[p[2]] > 0

\* (The property ListenSpec: the handlers use the listen client as it is meant to
\* be used, one awaited call at a time and at most MaxSubscribers counted, so what
\* is proved of ListenClient for callers that do as they please holds here.)

\* A client that vanished without closing is cleaned up by the heartbeat: its
\* socket is closed and leaves every room, unless the module is destroyed first,
\* which clears the heartbeat.
VanishedIsCleanedUp ==
    \A s \in Sockets : ~reachable[s] ~>
        \/ conn[s] = "closed" /\ \A r \in Rooms : s \notin roomSockets[r]
        \/ destroyed

\* As long as no connection breaks and no query fails, a join_room or leave_room
\* frame is worked off: its handler does not wait for ever.
HandlersFinish ==
    \A h \in Callers : handler[h] # Idle ~> handler[h] = Idle

=============================================================================
