----------------------------- MODULE MCDelivery -----------------------------
(* Delivery for TLC. *)
EXTENDS Delivery

CONSTANTS s1, s2, u1

OneUser == s1 :> u1 @@ s2 :> u1

\* Bounds: the connection breaks, or the module is destroyed, only while s1 is alone
\* on the node; s1 is not followed once it is closed.
LostWhileAlone ==
    faults > 0 \/ destroyed => conn[s2] = "new" /\ ~(faults > 0 /\ destroyed)
FirstStays == conn[s1] # "closed"

=============================================================================
