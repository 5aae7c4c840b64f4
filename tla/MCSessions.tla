----------------------------- MODULE MCSessions -----------------------------
(***************************************************************************)
(* A small instance of Sessions.  A cookie outlives a bearer, a bearer an  *)
(* MFA cookie; four keys allow a rotation whatever two tokens of former    *)
(* keys their holders still keep; two users differ in their Kite sessions. *)
(***************************************************************************)
EXTENDS Sessions, TLC

Symmetry == Permutations(Keys) \cup Permutations(Users)
=============================================================================
