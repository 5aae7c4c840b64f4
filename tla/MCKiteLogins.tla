---------------------------- MODULE MCKiteLogins ----------------------------
(***************************************************************************)
(* KiteLogins for TLC.  The email typed is not that of the Kite account,   *)
(* the case the callback only warns of.  The global app is one of two, so  *)
(* every lookup can name the right app, the wrong one or none.  Nothing is *)
(* permuted, as liveness is checked.                                       *)
(***************************************************************************)
EXTENDS KiteLogins

=============================================================================
