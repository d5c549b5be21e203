--------------------------- MODULE MCListenClient ---------------------------
(* ListenClient for TLC; ListenClient.cfg gives the instance.  No symmetry: a *)
(* run with a liveness property may not use it.                               *)
EXTENDS ListenClient

=============================================================================
