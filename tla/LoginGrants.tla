---------------------------- MODULE LoginGrants ----------------------------
(***************************************************************************)
(* What the OAuth server promises the users and clients it stands between, *)
(* with no requests, codes, stores, pages, crashes or repeated messages: a *)
(* client is granted a token for a login that its own browser brought to   *)
(* its attempt, one per login, or for a user who was logged in already.    *)
(* OAuthFlow implements this module.                                       *)
(***************************************************************************)
EXTENDS Integers, FiniteSets

CONSTANTS Attempts, Flows, Apps, ServerApps, Users, Logins, Cookie, None

VARIABLES
    asked,    \* per attempt, what its client has asked for
    logins,   \* per login at Kite, who made it under which app
    brought,  \* the logins, and the cookies, brought to an attempt
    cookies,  \* the users the server knows in their browsers
    consent,  \* the users whose consent is on record
    tokens    \* the tokens granted

vars == <<asked, logins, brought, cookies, consent, tokens>>

Init ==
    /\ asked = [a \in Attempts |-> None]
    /\ logins = [t \in Logins |-> None]
    /\ brought = {}
    /\ cookies \subseteq Users
    /\ consent = {}
    /\ tokens = {}

Ask(a, flow) ==
    /\ asked[a] = None
    /\ asked' = [asked EXCEPT ![a] = flow]
    /\ UNCHANGED <<logins, brought, cookies, consent, tokens>>

LogIn(t) ==
    /\ logins[t] = None
    /\ \E app \in Apps, u \in Users :
           logins' = [logins EXCEPT ![t] = [app |-> app, user |-> u, spent |-> FALSE]]
    /\ UNCHANGED <<asked, brought, cookies, consent, tokens>>

\* A browser comes with a login, or with a user's cookie, to an attempt.
Bring(a, t, u) ==
    brought' = brought \cup {[ch |-> a, login |-> t, sub |-> u]}

BringLogin(t, a) ==
    /\ logins[t] # None
    /\ asked[a] # None
    /\ Bring(a, t, logins[t].user)
    /\ UNCHANGED <<asked, logins, cookies, consent, tokens>>

BringCookie(u, a) ==
    /\ u \in cookies
    /\ asked[a] # None
    /\ Bring(a, Cookie, u)
    /\ UNCHANGED <<asked, logins, cookies, consent, tokens>>

\* Kite says, once, who made the login; the answer may come to nothing.
Spend(t) ==
    /\ logins[t] # None
    /\ ~logins[t].spent
    /\ logins' = [logins EXCEPT ![t].spent = TRUE]

\* The cookie and the consent of a user whose login Kite has vouched for.
Record(t) ==
    /\ logins[t] # None
    /\ logins[t].spent
    /\ cookies' = cookies \cup {logins[t].user}
    /\ consent' = consent \cup {logins[t].user}
    /\ UNCHANGED <<asked, logins, brought, tokens>>

\* What was brought to the attempt pays out, to the attempt's own client.
Grant(b, deferred) ==
    tokens' = tokens \cup {[sub |-> b.sub, aud |-> asked[b.ch].client, ch |-> b.ch,
                            login |-> b.login, deferred |-> deferred,
                            nth |-> Cardinality(tokens) + 1]}

\* For a login that had no token yet: either Kite vouched for it before, under
\* the client's app or one of the server's, and the consent is on record; or
\* Kite does so now, under the client's app.
GrantForLogin(b) ==
    /\ b.login # Cookie
    /\ \A j \in tokens : j.login # b.login
    /\ \/ /\ logins[b.login].spent
          /\ logins[b.login].app \in ServerApps \cup {asked[b.ch].client}
          /\ b.sub \in consent
          /\ Grant(b, FALSE)
          /\ UNCHANGED logins
       \/ /\ Spend(b.login)
          /\ logins[b.login].app = asked[b.ch].client
          /\ Grant(b, TRUE)
    /\ UNCHANGED <<asked, brought, cookies, consent>>

GrantByCookie(b) ==
    /\ b.login = Cookie
    /\ Grant(b, FALSE)
    /\ UNCHANGED <<asked, logins, brought, cookies, consent>>

Next ==
    \/ \E a \in Attempts, flow \in Flows : Ask(a, flow)
    \/ \E t \in Logins : LogIn(t)
    \/ \E t \in Logins, a \in Attempts : BringLogin(t, a)
    \/ \E u \in Users, a \in Attempts : BringCookie(u, a)
    \/ \E t \in Logins : Spend(t) /\ UNCHANGED <<asked, brought, cookies, consent, tokens>>
    \/ \E t \in Logins : Record(t)
    \/ \E b \in brought : GrantForLogin(b) \/ GrantByCookie(b)

Spec == Init /\ [][Next]_vars
=============================================================================
