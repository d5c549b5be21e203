---------------------------- MODULE MCIndicators ----------------------------
(* Indicators for TLC: two devices on two nodes. *)
EXTENDS Indicators, TLC

CONSTANTS s1, s2, n1, n2, u1

TwoNodes == s1 :> n1 @@ s2 :> n2
OneUser == s1 :> u1 @@ s2 :> u1

=============================================================================
