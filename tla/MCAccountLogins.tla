-------------------------- MODULE MCAccountLogins --------------------------
(***************************************************************************)
(* AccountLogins for TLC.  One account is enough: logins meet in the       *)
(* cookies, which name none, and otherwise in the account they are for.    *)
(* Three states leave a fresh one for every answer.                        *)
(***************************************************************************)
EXTENDS AccountLogins, TLC

Symmetry == Permutations(Users) \cup Permutations(Tabs) \cup Permutations(Redirects)
            \cup Permutations(States)
=============================================================================
