---------------------------- MODULE OneTimeCodes ----------------------------
(***************************************************************************)
(* What the authorization-code store promises its callers, with no map,    *)
(* clock, capacity or sweeper: a code is issued once, may be redeemed once *)
(* while it lives, and when it has lapsed nothing brings it back.          *)
(* AuthCodeStore implements this module.                                   *)
(***************************************************************************)
CONSTANT Codes

VARIABLE status

Init == status = [c \in Codes |-> "unissued"]

\* A code that is drawn lives, unless its caller was held up for so long that
\* the deadline it had computed is already past.
Issue(c) ==
    /\ status[c] = "unissued"
    /\ \E s \in {"live", "lapsed"} : status' = [status EXCEPT ![c] = s]

Redeem(c) ==
    /\ status[c] = "live"
    /\ status' = [status EXCEPT ![c] = "redeemed"]

\* Time passes, or the process restarts: some live codes lapse.
Lapse ==
    \E S \in SUBSET {c \in Codes : status[c] = "live"} :
        status' = [c \in Codes |-> IF c \in S THEN "lapsed" ELSE status[c]]

Next == Lapse \/ \E c \in Codes : Issue(c) \/ Redeem(c)

Spec == Init /\ [][Next]_status
=============================================================================
