---------------------------- MODULE RoomMessages ----------------------------
(***************************************************************************)
(* Messages of a room in the database: the send_message handler            *)
(* (ChatService.handleSendMessage), POST and GET /rooms/:id/messages       *)
(* (ChatController), the catch-up read of handleJoinRoom, RoomsService,    *)
(* and the triggers of db/migrations that give a message its seq and       *)
(* announce it.  Handlers of all nodes meet here.                          *)
(*                                                                         *)
(* An INSERT is a transaction of its own.  Its BEFORE trigger updates the  *)
(* room's row of room_sequences, and so holds that row until the end of    *)
(* the transaction; its AFTER trigger calls pg_notify, which the server    *)
(* delivers at commit, in commit order.                                    *)
(***************************************************************************)
EXTENDS Naturals, Sequences, FiniteSets, SequencesExt

CONSTANTS
    Rooms,        \* room ids
    Users,        \* user ids
    Readers,      \* the users that catch up when they join
    Pagers,       \* the users that page back through a room
    Senders,      \* handlers that post, on any node
    None,         \* nobody, no room
    PageSize,     \* LIMIT of a read
    MaxMessages,  \* bound: messages of one room
    MaxFaults     \* bound: queries that fail

\* What the code tells apart of a content: it has no characters; its JSON fits
\* in a NOTIFY payload; it does not, though it is at most MAX_MESSAGE_LENGTH
\* long; it is longer than that.
Sizes == {"empty", "fits", "overflows", "too_long"}

ASSUME MessageAssumption ==
    /\ Readers \cup Pagers \subseteq Users
    /\ None \notin Rooms \cup Users \cup Senders
    /\ PageSize \in Nat \ {0}
    /\ MaxMessages \in Nat
    /\ MaxFaults \in Nat

Message == [seq : 1..MaxMessages, user : Users, size : Sizes]

VARIABLES
    rooms,     \* table rooms
    members,   \* table room_members
    nextSeq,   \* table room_sequences; 0 stands for an absent row
    lock,      \* the transaction that holds a row of room_sequences
    messages,  \* table messages, by room
    channel,   \* notifications sent on the channel of a room
    sender,    \* handlers that post
    cursor,    \* the last_seen_seq of a reader that catches up
    form,      \* what it is in the frame: a number, or a string
    got,       \* the messages it was sent so far
    pages,     \* what a reader that pages back through a room has seen
    faults     \* queries failed so far

roomVars == <<rooms, members>>
storeVars == <<nextSeq, lock, messages, channel>>
readVars == <<cursor, form, got, pages>>
vars == <<roomVars, storeVars, sender, readVars, faults>>

Idle == [pc |-> "idle", user |-> None, room |-> None, size |-> "fits", seq |-> 0]
Sender == [pc : {"idle", "check", "insert", "locked"},
           user : Users \cup {None}, room : Rooms \cup {None}, size : Sizes, seq : Nat]

Forms == {"number", "string"}

\* GET /rooms/:id/messages page by page; next is 0 when next_cursor is null.
NoPages == [room |-> None, seqs |-> {}, next |-> 0]

StoreTypeOK ==
    /\ rooms \subseteq Rooms
    /\ members \subseteq Users \X Rooms
    /\ nextSeq \in [Rooms -> Nat]
    /\ lock \in [Rooms -> Senders \cup {None}]
    /\ messages \in [Rooms -> SUBSET Message]
    /\ channel \in [Rooms -> Seq(Message)]
    /\ sender \in [Senders -> Sender]
    /\ faults \in 0..MaxFaults

TypeOK ==
    /\ StoreTypeOK
    /\ cursor \in [Readers -> [Rooms -> Nat]]
    /\ form \in [Readers -> [Rooms -> Forms]]
    /\ got \in [Readers -> [Rooms -> Seq(Message)]]
    /\ pages \in [Pagers -> [room : Rooms \cup {None}, seqs : SUBSET Nat, next : Nat]]

Init ==
    /\ rooms = {}
    /\ members = {}
    /\ nextSeq = [r \in Rooms |-> 0]
    /\ lock = [r \in Rooms |-> None]
    /\ messages = [r \in Rooms |-> {}]
    /\ channel = [r \in Rooms |-> <<>>]
    /\ sender = [s \in Senders |-> Idle]
    /\ cursor = [u \in Readers |-> [r \in Rooms |-> 0]]
    /\ form = [u \in Readers |-> [r \in Rooms |-> "number"]]
    /\ got = [u \in Readers |-> [r \in Rooms |-> <<>>]]
    /\ pages = [u \in Pagers |-> NoPages]
    /\ faults = 0

-----------------------------------------------------------------------------
(* Rooms *)

SeqFromZero(r) ==  \* mutant of CreateRoom
    /\ r \notin rooms
    /\ rooms' = rooms \cup {r}
    /\ UNCHANGED <<nextSeq, members, lock, messages, channel, sender, readVars, faults>>

\* createRoom, with the trigger that gives the room its row of room_sequences.
\* Nobody is made a member of the room, its creator included.
CreateRoom(r) ==
    /\ r \notin rooms
    /\ rooms' = rooms \cup {r}
    /\ nextSeq' = [nextSeq EXCEPT ![r] = 1]
    /\ UNCHANGED <<members, lock, messages, channel, sender, readVars, faults>>

\* Rooms are never deleted, so joinRoom finds in its INSERT what getRoom found.
JoinRoom(u, r) ==
    /\ r \in rooms
    /\ members' = members \cup {<<u, r>>}
    /\ UNCHANGED <<rooms, storeVars, sender, readVars, faults>>

LeaveRoom(u, r) ==
    /\ members' = members \ {<<u, r>>}
    /\ UNCHANGED <<rooms, storeVars, sender, readVars, faults>>

-----------------------------------------------------------------------------
(* Posting *)

\* The checks of the frame or of the body: at most MAX_MESSAGE_LENGTH
\* characters and, over HTTP, at least one.
LengthAccepted(via, size) == size # "too_long" /\ (via = "http" => size # "empty")

Request(s, via, u, r, size) ==
    /\ sender[s].pc = "idle"
    /\ LengthAccepted(via, size)
    /\ sender' = [sender EXCEPT ![s] = [pc |-> "check", user |-> u, room |-> r,
                                        size |-> size, seq |-> 0]]
    /\ UNCHANGED <<roomVars, storeVars, readVars, faults>>

Finish(s) == sender' = [sender EXCEPT ![s] = Idle]

Unchecked(s) ==  \* mutant of CheckMember
    /\ sender[s].pc = "check"
    /\ sender' = [sender EXCEPT ![s].pc = "insert"]
    /\ UNCHANGED <<roomVars, storeVars, readVars, faults>>

CheckMember(s) ==
    /\ sender[s].pc = "check"
    /\ IF <<sender[s].user, sender[s].room>> \in members
       THEN sender' = [sender EXCEPT ![s].pc = "insert"]
       ELSE Finish(s)
    /\ UNCHANGED <<roomVars, storeVars, readVars, faults>>

ReadsWithoutLock(s) ==  \* mutant of AssignSeq
    LET r == sender[s].room IN
    /\ sender[s].pc = "insert"
    /\ nextSeq[r] <= MaxMessages
    /\ lock' = [lock EXCEPT ![r] = s]
    /\ sender' = [sender EXCEPT ![s].pc = "locked", ![s].seq = nextSeq[r]]
    /\ UNCHANGED <<roomVars, nextSeq, messages, channel, readVars, faults>>

FreesRowEarly(s) ==  \* mutant of AssignSeq
    LET r == sender[s].room IN
    /\ sender[s].pc = "insert"
    /\ lock[r] = None
    /\ nextSeq[r] <= MaxMessages
    /\ nextSeq' = [nextSeq EXCEPT ![r] = @ + 1]
    /\ sender' = [sender EXCEPT ![s].pc = "locked", ![s].seq = nextSeq[r]]
    /\ UNCHANGED <<roomVars, lock, messages, channel, readVars, faults>>

\* assign_room_sequence: waits for the row, then reads and advances it.
AssignSeq(s) ==
    LET r == sender[s].room IN
    /\ sender[s].pc = "insert"
    /\ lock[r] = None
    /\ nextSeq[r] <= MaxMessages
    /\ lock' = [lock EXCEPT ![r] = s]
    /\ sender' = [sender EXCEPT ![s].pc = "locked", ![s].seq = nextSeq[r]]
    /\ UNCHANGED <<roomVars, nextSeq, messages, channel, readVars, faults>>

\* The transaction ends: its row and its notification appear together, and the
\* row of room_sequences is free with its new value.
Committed(s) ==
    LET r == sender[s].room
        m == [seq |-> sender[s].seq, user |-> sender[s].user, size |-> sender[s].size]
    IN  /\ messages' = [messages EXCEPT ![r] = @ \cup {m}]
        /\ channel' = [channel EXCEPT ![r] = Append(@, m)]
        /\ nextSeq' = [nextSeq EXCEPT ![r] = sender[s].seq + 1]
        /\ lock' = [lock EXCEPT ![r] = None]

KeepsSeq(s) ==  \* mutant of RolledBack
    /\ lock' = [r \in Rooms |-> IF lock[r] = s THEN None ELSE lock[r]]
    /\ nextSeq' = [r \in Rooms |-> IF lock[r] = s THEN nextSeq[r] + 1 ELSE nextSeq[r]]
    /\ UNCHANGED <<messages, channel>>

KeepsRow(s) == UNCHANGED <<lock, nextSeq, messages, channel>>  \* mutant of RolledBack

RolledBack(s) ==
    /\ lock' = [r \in Rooms |-> IF lock[r] = s THEN None ELSE lock[r]]
    /\ UNCHANGED <<nextSeq, messages, channel>>

Commit(s) ==
    /\ sender[s].pc = "locked"
    /\ sender[s].size # "overflows"
    /\ Committed(s)
    /\ Finish(s)
    /\ UNCHANGED <<roomVars, readVars, faults>>

\* pg_notify raises an error for a payload of 8000 bytes or more.
PayloadTooLong(s) ==
    /\ sender[s].pc = "locked"
    /\ sender[s].size = "overflows"
    /\ RolledBack(s)
    /\ Finish(s)
    /\ UNCHANGED <<roomVars, readVars, faults>>

\* A query fails: no free connection, statement timeout, connection or server
\* lost.  The INSERT is rolled back, or was committed and nobody was told.
QueryFails(s) ==
    /\ faults < MaxFaults
    /\ faults' = faults + 1
    /\ sender[s].pc # "idle"
    /\ \/ RolledBack(s)
       \/ sender[s].pc = "locked" /\ sender[s].size # "overflows" /\ Committed(s)
    /\ Finish(s)
    /\ UNCHANGED <<roomVars, readVars>>

-----------------------------------------------------------------------------
(* Reading *)

Seqs(r) == {m.seq : m \in messages[r]}

\* ORDER BY seq ASC LIMIT PageSize, and DESC.
FirstOf(S) == {x \in S : Cardinality({y \in S : y < x}) < PageSize}
LastOf(S) == {x \in S : Cardinality({y \in S : y > x}) < PageSize}

\* ORDER BY seq: the i-th row has i - 1 rows before it.
InOrder(M) == [i \in 1..Cardinality(M) |->
                  CHOOSE m \in M : Cardinality({x \in M : x.seq < m.seq}) = i - 1]

\* isOptionalNumber: a frame with another last_seen_seq is answered with
\* invalid_payload, before the socket is added to the room or anything is read.
Accepted(u, r) == form[u][r] = "number"

FromCursor(u, r, kept) ==  \* mutant of CatchUp
    LET page == FirstOf({q \in Seqs(r) : q >= cursor[u][r]})
        rows == InOrder({m \in messages[r] : m.seq \in page})
    IN  /\ Accepted(u, r)
        /\ <<u, r>> \in members
        /\ page # {}
        /\ got' = [got EXCEPT ![u][r] = @ \o rows]
        /\ cursor' = [cursor EXCEPT ![u][r] = Last(rows).seq]
        /\ form' = [form EXCEPT ![u][r] = kept]
        /\ UNCHANGED <<roomVars, storeVars, sender, pages, faults>>

\* handleJoinRoom with last_seen_seq.  The client goes on from next_cursor, which
\* is a string: seq is a BIGINT, and pg returns those as text.  It either keeps
\* it as it came or makes a number of it.  The membership query before changes
\* nothing and is part of the step.
CatchUp(u, r, kept) ==
    LET page == FirstOf({q \in Seqs(r) : q > cursor[u][r]})
        rows == InOrder({m \in messages[r] : m.seq \in page})
    IN  /\ Accepted(u, r)
        /\ <<u, r>> \in members
        /\ page # {}
        /\ got' = [got EXCEPT ![u][r] = @ \o rows]
        /\ cursor' = [cursor EXCEPT ![u][r] = Last(rows).seq]
        /\ form' = [form EXCEPT ![u][r] = kept]
        /\ UNCHANGED <<roomVars, storeVars, sender, pages, faults>>

\* next_cursor of getMessages: null after a page that is not full.
Older(page) == IF Cardinality(page) = PageSize THEN CHOOSE q \in page : \A p \in page : q <= p
                                               ELSE 0

FirstPage(u, r) ==
    LET page == LastOf(Seqs(r)) IN
    /\ <<u, r>> \in members
    /\ pages' = [pages EXCEPT ![u] = [room |-> r, seqs |-> page, next |-> Older(page)]]
    /\ UNCHANGED <<roomVars, storeVars, sender, cursor, form, got, faults>>

SkipsOne(u) ==  \* mutant of NextPage
    LET p == pages[u]
        page == LastOf({q \in Seqs(p.room) : q < p.next - 1})
    IN  /\ p.next > 0
        /\ <<u, p.room>> \in members
        /\ pages' = [pages EXCEPT ![u].seqs = @ \cup page, ![u].next = Older(page)]
        /\ UNCHANGED <<roomVars, storeVars, sender, cursor, form, got, faults>>

NextPage(u) ==
    LET p == pages[u]
        page == LastOf({q \in Seqs(p.room) : q < p.next})
    IN  /\ p.next > 0
        /\ <<u, p.room>> \in members
        /\ pages' = [pages EXCEPT ![u].seqs = @ \cup page, ![u].next = Older(page)]
        /\ UNCHANGED <<roomVars, storeVars, sender, cursor, form, got, faults>>

-----------------------------------------------------------------------------
SenderStep(s) ==
    \/ CheckMember(s)
    \/ AssignSeq(s)
    \/ Commit(s)
    \/ PayloadTooLong(s)

Next ==
    \/ \E r \in Rooms : CreateRoom(r)
    \/ \E u \in Users, r \in Rooms : JoinRoom(u, r) \/ LeaveRoom(u, r)
    \/ \E s \in Senders, via \in {"ws", "http"}, u \in Users, r \in Rooms, size \in Sizes :
          Request(s, via, u, r, size)
    \/ \E s \in Senders : SenderStep(s) \/ QueryFails(s)
    \/ \E u \in Readers, r \in Rooms, kept \in Forms : CatchUp(u, r, kept)
    \/ \E u \in Pagers, r \in Rooms : FirstPage(u, r)
    \/ \E u \in Pagers : NextPage(u)

Spec == Init /\ [][Next]_vars

\* Transactions run to their end and a waiting INSERT gets the row in its turn.
Fairness == \A s \in Senders : SF_vars(SenderStep(s))

FairSpec == Spec /\ Fairness

-----------------------------------------------------------------------------
(* Properties *)

\* A row of room_sequences is held by one transaction at a time, which holds no
\* other and has read the row's present value: what assign_room_sequence gives
\* out cannot be given out again before the transaction ends.
RowHeldByOne ==
    /\ \A s \in Senders : sender[s].pc = "locked" =>
          lock[sender[s].room] = s /\ sender[s].seq = nextSeq[sender[s].room]
    /\ \A r \in Rooms : lock[r] # None =>
          sender[lock[r]].pc = "locked" /\ sender[lock[r]].room = r

\* A message that has come as far as its INSERT is for a room that exists and
\* has its row of room_sequences, without which it would get no seq.
InsertFindsRow ==
    /\ \A r \in Rooms : r \in rooms <=> nextSeq[r] > 0
    /\ \A p \in members : p[2] \in rooms
    /\ \A s \in Senders : sender[s].pc \in {"insert", "locked"} => sender[s].room \in rooms

\* "Per-room monotonic seq for gapless history": however inserts of one room
\* overlap, wait for each other, fail and roll back, the committed messages
\* carry 1, 2, ... n without gap or duplicate, and n + 1 is the next one.
GaplessSeq ==
    \A r \in Rooms :
        /\ Seqs(r) = {q \in 1..nextSeq[r] : q < nextSeq[r]}
        /\ \A m, n \in messages[r] : m.seq = n.seq => m = n

\* Listeners of a room's channel are sent each committed message once, in the
\* order of seq (the load test's "seq_out_of_order" and "seq_duplicates").
NotifiedInOrder ==
    \A r \in Rooms :
        /\ {channel[r][i] : i \in DOMAIN channel[r]} = messages[r]
        /\ \A i \in DOMAIN channel[r] : channel[r][i].seq = i

\* A client that catches up has every message up to its cursor, in order: none
\* is committed behind it.  It goes from page to page if it makes a number of
\* next_cursor each time; one that sends it as it came stays where it is.
CatchUpSkipsNothing ==
    \A u \in Readers, r \in Rooms :
        /\ Len(got[u][r]) = cursor[u][r]
        /\ \A i \in DOMAIN got[u][r] : got[u][r][i].seq = i

\* A client that pages back from the newest message misses none in between,
\* and when next_cursor is null it has come to the first.
PagesAreContiguous ==
    \A u \in Pagers : pages[u].room # None =>
        \E top \in 0..nextSeq[pages[u].room] :
            pages[u].seqs = (IF pages[u].next = 0 THEN 1 ELSE pages[u].next)..top

\* Waiting for the row of a room ends: no request to post is left hanging, as
\* long as the room is not at its bound.
PostsFinish ==
    \A s \in Senders :
        sender[s].pc # "idle" ~>
            sender[s].pc = "idle" \/ \E r \in Rooms : nextSeq[r] > MaxMessages

\* The rooms implement MessageLog: the log is the table in the order of seq.
Log == INSTANCE MessageLog
    WITH Entries <- Message,
         log <- [r \in Rooms |-> InOrder(messages[r])],
         announced <- channel,
         read <- got

\* Posting is one step of the log, with its announcement, and what a reader was
\* sent is always a beginning of it.
LogSpec == Log!Spec

\* "Max message content length (characters) for HTTP and WebSocket": a message
\* of a member that is within the limit is stored unless a query fails.
AcceptedIsStored ==
    [][\A s \in Senders :
          sender[s].pc = "locked" /\ sender'[s].pc = "idle" /\ faults' = faults
              => messages'[sender[s].room] # messages[sender[s].room]]_vars

=============================================================================
