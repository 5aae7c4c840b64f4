-------------------------- MODULE MCAuthCodeStore --------------------------
(***************************************************************************)
(* A small instance of AuthCodeStore: three codes for two places, so that  *)
(* the store fills up while codes remain to be drawn.  Its cfg names the   *)
(* values; no symmetry, since the run checks a liveness property.          *)
(***************************************************************************)
EXTENDS AuthCodeStore
=============================================================================
