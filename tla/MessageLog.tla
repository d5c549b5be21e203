------------------------------ MODULE MessageLog ------------------------------
(***************************************************************************)
(* What rooms promise about messages: each room is one log, a message is   *)
(* appended and announced on the room's channel in a single step, and what *)
(* a reader has fetched is at all times the beginning of the log ("gapless *)
(* history", README.md).  RoomMessages implements it.                      *)
(***************************************************************************)
EXTENDS Naturals, Sequences

CONSTANTS Rooms, Readers, Entries

VARIABLES
    log,        \* log[r]: the messages of room r
    announced,  \* announced[r]: what listeners of r's channel are sent
    read        \* read[u][r]: what u has fetched of room r

vars == <<log, announced, read>>

Init ==
    /\ log = [r \in Rooms |-> <<>>]
    /\ announced = [r \in Rooms |-> <<>>]
    /\ read = [u \in Readers |-> [r \in Rooms |-> <<>>]]

Post(r, e) ==
    /\ log' = [log EXCEPT ![r] = Append(@, e)]
    /\ announced' = [announced EXCEPT ![r] = Append(@, e)]
    /\ UNCHANGED read

Fetch(u, r, n) ==
    /\ n >= Len(read[u][r])
    /\ read' = [read EXCEPT ![u][r] = SubSeq(log[r], 1, n)]
    /\ UNCHANGED <<log, announced>>

Next ==
    \/ \E r \in Rooms, e \in Entries : Post(r, e)
    \/ \E u \in Readers, r \in Rooms : \E n \in 0..Len(log[r]) : Fetch(u, r, n)

Spec == Init /\ [][Next]_vars

=============================================================================
