----------------------------- MODULE Indicators -----------------------------
(***************************************************************************)
(* Presence and typing in one room, between nodes: the rows that the       *)
(* handlers of src/chat/chat.service.ts write, the triggers that announce  *)
(* them (db/migrations/001_init.sql), the broadcasts each node makes of    *)
(* the notifications (src/chat/chat-ws.service.ts), and the sweep of       *)
(* presence, which is what a crashed node relies on.                       *)
(*                                                                         *)
(* Both channels are listened on for as long as a connection lasts, so     *)
(* the LISTEN client is here but up or down.  A write is known by its      *)
(* number in the order of the commits.                                     *)
(***************************************************************************)
EXTENDS Integers, Sequences, FiniteSets

CONSTANTS
    Nodes,
    Sockets, NodeOf,  \* connections, and the node each is made to
    Users, UserOf,
    Callers,          \* frames in progress at once
    None,             \* no socket, no node
    Slow,             \* bound: sockets that may be over the backpressure threshold
    Lossy,            \* bound: nodes whose LISTEN connection may break
    Mortal,           \* nodes that may crash; another one stays
    MaxWrites         \* bound: rows written

ASSUME IndicatorsAssumption ==
    /\ NodeOf \in [Sockets -> Nodes]
    /\ UserOf \in [Sockets -> Users]
    /\ None \notin Sockets \cup Nodes
    /\ IsFiniteSet(Callers)
    /\ Nodes \ Mortal # {}
    /\ MaxWrites \in Nat

VARIABLES
    open,       \* sockets that are open; how they connect is in RoomSockets
    room,       \* roomSockets of the room, on all nodes
    row,        \* tables presence and typing: the write that made a user's row, or 0
    node,       \* presence.node_id
    stale,      \* users whose last_seen is over a minute old
    writes,     \* number of the last write
    up,         \* nodes whose LISTEN connection works
    wire,       \* wire[n]: notifications on the way to n
    handler,
    crashed,    \* nodes that are gone
    shown,      \* history: shown[s]: the last write a client was sent, by kind and user
    since       \* history: since[s]: the write after which s is owed all others

rows == <<row, node, stale, writes>>
flow == <<wire, shown>>
vars == <<open, room, rows, up, flow, handler, crashed, since>>

Kinds == {"presence", "typing"}
Idle == [pc |-> "idle", sock |-> None]
Nothing == [k \in Kinds |-> [u \in Users |-> 0]]
Note == [kind : Kinds, user : Users, write : 1..MaxWrites]

IndicatorsTypeOK ==
    /\ open \subseteq Sockets
    /\ room \subseteq open
    /\ row \in [Kinds -> [Users -> 0..MaxWrites]]
    /\ node \in [Users -> Nodes \cup {None}]
    /\ stale \subseteq {u \in Users : row["presence"][u] # 0}
    /\ writes \in 0..MaxWrites
    /\ up \subseteq Nodes /\ crashed \subseteq Nodes
    /\ wire \in [Nodes -> Seq(Note)]
    /\ handler \in [Callers -> [pc : {"idle", "join", "present", "leave", "check", "type", "stop"},
                                sock : Sockets \cup {None}]]
    /\ shown \in [Sockets -> [Kinds -> [Users -> 0..MaxWrites]]]
    /\ since \in [Sockets -> 0..MaxWrites]

Init ==
    /\ open = Sockets
    /\ room = {}
    /\ row = Nothing
    /\ node = [u \in Users |-> None]
    /\ stale = {}
    /\ writes = 0
    /\ up = Nodes
    /\ wire = [n \in Nodes |-> <<>>]
    /\ handler = [h \in Callers |-> Idle]
    /\ crashed = {}
    /\ shown = [s \in Sockets |-> Nothing]
    /\ since = [s \in Sockets |-> 0]

-----------------------------------------------------------------------------
(* Frames *)

\* Sockets are taken out of the room's set; what they are owed ends with that.
Leaves(S) ==
    /\ room' = room \ S
    /\ since' = [s \in Sockets |-> IF s \in S THEN 0 ELSE since[s]]
    /\ shown' = [s \in Sockets |-> IF s \in S THEN Nothing ELSE shown[s]]

KeepsInRoom(s) ==  \* mutant of Close
    /\ s \in open
    /\ open' = open \ {s}
    /\ UNCHANGED <<room, rows, up, flow, handler, crashed, since>>

\* The close event: the rows of the user stay.
Close(s) ==
    /\ s \in open
    /\ open' = open \ {s}
    /\ Leaves({s})
    /\ UNCHANGED <<rows, up, wire, handler, crashed>>

\* A frame that passes its validation.
Begins(h, s, c) ==
    /\ handler[h] = Idle
    /\ s \in open
    /\ handler' = [handler EXCEPT ![h] = [pc |-> c, sock |-> s]]
    /\ UNCHANGED <<open, rows, up, wire, crashed>>

\* The bound MaxWrites, of what frames in progress may still write.
WriteAllowed ==
    writes + Cardinality({h \in Callers : handler[h].pc \in {"join", "present", "check", "type"}})
        < MaxWrites

JoinFrame(h, s) ==
    /\ WriteAllowed
    /\ room' = room \cup {s}
    /\ since' = IF s \in room THEN since ELSE [since EXCEPT ![s] = writes]
    /\ Begins(h, s, "join")
    /\ UNCHANGED shown

LeaveFrame(h, s) ==
    /\ Begins(h, s, "leave")
    /\ Leaves({s})

TypingStart(h, s) ==
    /\ WriteAllowed
    /\ Begins(h, s, "check")
    /\ UNCHANGED <<room, since, shown>>

TypingStop(h, s) ==
    /\ Begins(h, s, "stop")
    /\ UNCHANGED <<room, since, shown>>

-----------------------------------------------------------------------------
(* Queries *)

User(h) == UserOf[handler[h].sock]

\* The membership query of join_room or typing_start, whose outcome RoomSockets has,
\* and the LISTEN of join_room.  Who is not a member gets an error frame.
CheckMember(h) ==
    /\ handler[h].pc \in {"join", "check"}
    /\ \/ handler' = [handler EXCEPT ![h] = Idle]
       \/ handler' = [handler EXCEPT ![h].pc = IF @ = "join" THEN "present" ELSE "type"]
    /\ UNCHANGED <<open, room, rows, up, flow, crashed, since>>

OnInsert(k, u) == row[k][u] = 0  \* mutant of Fires

\* The triggers on_presence_change and on_typing_change, AFTER INSERT OR UPDATE.
Fires(k, u) == TRUE

Upsert(k, h) ==
    LET u == User(h)
        note == [kind |-> k, user |-> u, write |-> writes + 1]
    IN /\ writes' = writes + 1
       /\ row' = [row EXCEPT ![k][u] = writes + 1]
       /\ node' = IF k = "presence" THEN [node EXCEPT ![u] = NodeOf[handler[h].sock]] ELSE node
       /\ stale' = IF k = "presence" THEN stale \ {u} ELSE stale
       /\ wire' = [n \in Nodes |-> IF n \in up /\ Fires(k, u)
                                   THEN Append(wire[n], note) ELSE wire[n]]

Delete(k, u) ==
    /\ row' = [row EXCEPT ![k][u] = 0]
    /\ stale' = IF k = "presence" THEN stale \ {u} ELSE stale
    /\ node' = IF k = "presence" THEN [node EXCEPT ![u] = None] ELSE node
    /\ UNCHANGED <<writes, wire>>

\* The upsert of join_room or typing_start, the DELETE of leave_room or typing_stop;
\* or the query is rejected, before or after it took effect.
Execute(h) ==
    /\ handler[h].pc \in {"present", "type", "leave", "stop"}
    /\ \/ handler[h].pc = "present" /\ Upsert("presence", h)
       \/ handler[h].pc = "type" /\ Upsert("typing", h)
       \/ handler[h].pc = "leave" /\ Delete("presence", User(h))
       \/ handler[h].pc = "stop" /\ Delete("typing", User(h))
       \/ UNCHANGED <<rows, wire>>
    /\ handler' = [handler EXCEPT ![h] = Idle]
    /\ UNCHANGED <<open, room, up, shown, crashed, since>>

-----------------------------------------------------------------------------
(* Notifications *)

Later(a, b) == IF a > b THEN a ELSE b

\* The notification handler, broadcastToRoom and its setImmediate callback, which
\* Delivery has as two steps: no property here tells a socket that leaves in between.
Notified(n) ==
    /\ wire[n] # <<>>
    /\ wire' = [wire EXCEPT ![n] = Tail(@)]
    /\ \E skip \in SUBSET Slow :
          LET note == Head(wire[n])
              local == {s \in room : NodeOf[s] = n}
          IN /\ shown' = [s \in Sockets |->
                    IF s \in local \ skip
                    THEN [shown[s] EXCEPT ![note.kind][note.user] = note.write] ELSE shown[s]]
             /\ since' = [s \in Sockets |-> IF s \in local \cap skip
                                            THEN Later(since[s], note.write) ELSE since[s]]
    /\ UNCHANGED <<open, room, rows, up, handler, crashed>>

\* The LISTEN connection breaks: what is on it, and all until it is back, is lost.
Lost(n) ==
    /\ n \in up \cap Lossy
    /\ up' = up \ {n}
    /\ wire' = [wire EXCEPT ![n] = <<>>]
    /\ UNCHANGED <<open, room, rows, shown, handler, crashed, since>>

Reconnected(n) ==
    /\ n \notin up \cup crashed
    /\ up' = up \cup {n}
    /\ since' = [s \in Sockets |-> IF s \in room /\ NodeOf[s] = n THEN writes ELSE since[s]]
    /\ UNCHANGED <<open, room, rows, flow, handler, crashed>>

-----------------------------------------------------------------------------
(* Crash and sweep *)

\* A node is gone with its sockets and handlers.
Crash(n) ==
    LET gone == {s \in Sockets : NodeOf[s] = n} IN
    /\ n \in Mortal \ crashed
    /\ crashed' = crashed \cup {n}
    /\ open' = open \ gone
    /\ Leaves(gone)
    /\ handler' = [h \in Callers |-> IF handler[h].sock \in gone THEN Idle ELSE handler[h]]
    /\ up' = up \ {n}
    /\ wire' = [wire EXCEPT ![n] = <<>>]
    /\ UNCHANGED rows

\* A minute passes over a presence row.
Ages(u) ==
    /\ row["presence"][u] # 0 /\ u \notin stale
    /\ stale' = stale \cup {u}
    /\ UNCHANGED <<open, room, row, node, writes, up, flow, handler, crashed, since>>

OwnRows(n) == {u \in stale : node[u] = n}  \* mutant of Swept

\* Rows are removed regardless of node_id.
Swept(n) == stale

\* sweepStalePresence, on the timer of each node.
Sweep(n) ==
    /\ n \notin crashed
    /\ Swept(n) # {}
    /\ row' = [row EXCEPT !["presence"] = [u \in Users |-> IF u \in Swept(n) THEN 0 ELSE @[u]]]
    /\ stale' = stale \ Swept(n)
    /\ node' = [u \in Users |-> IF u \in Swept(n) THEN None ELSE node[u]]
    /\ UNCHANGED <<open, room, writes, up, flow, handler, crashed, since>>

-----------------------------------------------------------------------------
Next ==
    \/ \E s \in Sockets : Close(s)
    \/ \E h \in Callers, s \in Sockets :
          JoinFrame(h, s) \/ LeaveFrame(h, s) \/ TypingStart(h, s) \/ TypingStop(h, s)
    \/ \E h \in Callers : CheckMember(h) \/ Execute(h)
    \/ \E n \in Nodes : Notified(n) \/ Lost(n) \/ Reconnected(n) \/ Crash(n) \/ Sweep(n)
    \/ \E u \in Users : Ages(u)

Spec == Init /\ [][Next]_vars

\* Time passes, and the timer of a node that is there fires.
FairSpec ==
    /\ Spec
    /\ \A u \in Users : WF_vars(Ages(u))
    /\ \A n \in Nodes : WF_vars(Sweep(n))

-----------------------------------------------------------------------------
(* Properties *)

OnItsWay(s, k, u, w) ==
    \E i \in 1..Len(wire[NodeOf[s]]) :
        wire[NodeOf[s]][i] = [kind |-> k, user |-> u, write |-> w]

\* On whichever node a row is written, or written again, every client in the room
\* has been sent what it holds, or it is on its way: unless the client's socket was
\* skipped for backpressure, or its node had lost its LISTEN connection, since then.
NewestShown ==
    \A s \in room, k \in Kinds, u \in Users :
        (NodeOf[s] \in up /\ row[k][u] > since[s])
            => (shown[s][k][u] = row[k][u] \/ OnItsWay(s, k, u, row[k][u]))

Absent(u) == \A s \in room : UserOf[s] # u

\* Whether a client left, closed, or was on a node that crashed, and in whatever order
\* its join and its leave were executed: a user who is in the room no more is in the
\* presence table no more in the end.
AbsentIsSwept ==
    \A u \in Users : [](Absent(u) /\ row["presence"][u] # 0
                            => <>(row["presence"][u] = 0 \/ ~Absent(u)))

=============================================================================
