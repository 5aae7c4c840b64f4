----------------------------- MODULE MCOAuthFlow -----------------------------
(***************************************************************************)
(* Small instances of OAuthFlow.                                           *)
(***************************************************************************)
EXTENDS OAuthFlow, TLC

Symmetry ==
    UNION {Permutations(S) :
        S \in {Workers, Codes, Challenges, Elsewhere, Users \ Elsewhere, Logins,
               URIs, KiteKeys}}

\* A bound: the pages a browser has been sent to.
FewOffers == Cardinality(offers) <= 2
=============================================================================
