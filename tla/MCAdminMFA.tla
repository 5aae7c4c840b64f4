----------------------------- MODULE MCAdminMFA -----------------------------
(***************************************************************************)
(* AdminMFA for TLC: two admins who share a browser with two tabs.  Three  *)
(* secrets and three tokens leave a fresh one for every form.              *)
(***************************************************************************)
EXTENDS AdminMFA, TLC

Symmetry == Permutations(Admins) \cup Permutations(Secrets)
            \cup Permutations(Tabs) \cup Permutations(CsrfTokens)
=============================================================================
