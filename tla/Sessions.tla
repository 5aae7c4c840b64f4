------------------------------ MODULE Sessions ------------------------------
(***************************************************************************)
(* The tokens of the JWT manager (jwt.go) and the sessions they carry      *)
(* (middleware.go): dashboard cookies, MCP bearer tokens, the short-lived  *)
(* MFA cookie, the silent renewal of a bearer from a dashboard cookie, and *)
(* the rotation of the signing key over restarts as jwt.go documents it.   *)
(*                                                                         *)
(* Time is relative: left is the time to a deadline, age the time since    *)
(* the user last proved who he is (to Kite, to Google, with a password).   *)
(* A token is accepted while left > 0, a code while left >= 0.  Key names  *)
(* are reused once no token carries them: a fresh key is a random one.     *)
(***************************************************************************)
EXTENDS Integers, FiniteSets, Sequences

CONSTANTS
    Users,
    Keys,        \* the signing secrets an operator may generate
    NoKey,       \* the empty previousSecret
    NoToken,     \* a request without the bearer header or the cookie
    BearerLife,  \* tokenExpiry, of the MCP bearer tokens
    CookieLife,  \* dashboardTokenExpiry
    MfaLife,     \* adminMFATokenExpiry
    CodeTTL,     \* the lifetime of an authorization code
    Wait,        \* how long the operator keeps the previous key
    MaxTokens,   \* bound: the tokens their holders keep at a time
    MaxCodes     \* bound: the codes in flight at a time

\* The operator waits until all tokens of the previous key have expired
\* (jwt.go, step 4), and an MFA cookie lasts no longer than a bearer's code
\* and bearer together.
ASSUME SessionAssumption ==
    /\ NoKey \notin Keys
    /\ BearerLife \in Nat \ {0}
    /\ CookieLife \in Nat \ {0}
    /\ MfaLife \in Nat \ {0}
    /\ CodeTTL \in Nat
    /\ MfaLife <= CodeTTL + BearerLife
    /\ Wait \in Nat
    /\ Wait >= BearerLife
    /\ Wait >= CookieLife
    /\ Wait >= MfaLife

VARIABLES
    secret,    \* the key that signs
    previous,  \* accepted when verifying only; NoKey when not set
    waited,    \* the operator's clock since he set previous
    tokens,    \* the tokens their holders keep, expired ones included
    codes,     \* s.entries of the code store: the codes not yet redeemed
    fresh      \* the users whose Kite token still works

vars == <<secret, previous, waited, tokens, codes, fresh>>

\* The audiences; "client" stands for the id of a registered client.
Audiences == {"client", "dashboard", "admin-mfa"}

Longest == CookieLife + CodeTTL + BearerLife

\* Claims, with the key of the signature.  age and revoked are history, and
\* belong to the login the token descends from: how long ago it was, and
\* whether the operator has revoked all sessions since.
Token == [sub : Users, aud : Audiences, key : Keys, left : Nat,
          age : 0..Longest, revoked : BOOLEAN]

ASSUME NoTokenAssumption == NoToken \notin Token

Code == [sub : Users, left : Nat \cup {-1}, age : 0..Longest, revoked : BOOLEAN]

-----------------------------------------------------------------------------
\* Verification

\* One signature, the deadline, and the one audience the parser is told of.
ParseWithKey(t, key, audiences) ==
    /\ t.key = key
    /\ t.left > 0
    /\ audiences # <<>> => t.aud = audiences[1]

\* Mistake: the second chance is forgotten.
ValidatePrimary(t, audiences) ==
    /\ ParseWithKey(t, secret, audiences)
    /\ Len(audiences) > 1 => \E i \in DOMAIN audiences : audiences[i] = t.aud

\* ValidateToken: the primary key, else the previous one; then the loop over
\* all the audiences, which the parser has narrowed to the first.
ValidateToken(t, audiences) ==
    /\ \/ ParseWithKey(t, secret, audiences)
       \/ previous # NoKey /\ ParseWithKey(t, previous, audiences)
    /\ Len(audiences) > 1 => \E i \in DOMAIN audiences : audiences[i] = t.aud

\* The bearer middleware: any audience but the dashboard's, and a Kite token
\* that still works.
RequireAuth(t) ==
    /\ ValidateToken(t, <<>>)
    /\ t.aud # "dashboard"
    /\ t.sub \in fresh

Dashboard(t) == t # NoToken /\ ValidateToken(t, <<"dashboard">>)

\* The browser middleware: the token whose subject the request acts for.
RequireAuthBrowser(bearer, cookie) ==
    IF Dashboard(bearer) THEN bearer
    ELSE IF Dashboard(cookie) THEN cookie
    ELSE NoToken

-----------------------------------------------------------------------------
\* Tokens

\* Mistake: the key of the rotation slot signs.
GeneratedPrevious(from, aud, life) ==
    [sub |-> from.sub, aud |-> aud, key |-> previous, left |-> life,
     age |-> from.age, revoked |-> from.revoked]

\* GenerateTokenWithExpiry; from is what the holder showed to get the token.
Generated(from, aud, life) ==
    [sub |-> from.sub, aud |-> aud, key |-> secret, left |-> life,
     age |-> from.age, revoked |-> from.revoked]

NewCode(from) ==
    [sub |-> from.sub, left |-> CodeTTL, age |-> from.age, revoked |-> from.revoked]

\* What a user shows who proves his identity here and now.
Proof(u) == [sub |-> u, age |-> 0, revoked |-> FALSE]

Init ==
    /\ secret \in Keys
    /\ previous = NoKey
    /\ waited = 0
    /\ tokens = {}
    /\ codes = {}
    /\ fresh = {}

\* A login in the browser sets the dashboard cookie: through Kite, which also
\* renews the Kite token, or through Google or the admin password.
Login(u, kite) ==
    /\ Cardinality(tokens) < MaxTokens
    /\ tokens' = tokens \cup {Generated(Proof(u), "dashboard", CookieLife)}
    /\ fresh' = IF kite THEN fresh \cup {u} ELSE fresh
    /\ UNCHANGED <<secret, previous, waited, codes>>

\* The OAuth callback sets the cookie and hands out a code as well.
OAuthLogin(u) ==
    /\ Cardinality(tokens) < MaxTokens
    /\ Cardinality(codes) < MaxCodes
    /\ tokens' = tokens \cup {Generated(Proof(u), "dashboard", CookieLife)}
    /\ codes' = codes \cup {NewCode(Proof(u))}
    /\ fresh' = fresh \cup {u}
    /\ UNCHANGED <<secret, previous, waited>>

\* Mistake: the silent renewal counts as a login and renews the cookie too.
ShortCircuitRenews(t) ==
    /\ Dashboard(t)
    /\ t.sub \in fresh
    /\ Cardinality(codes) < MaxCodes
    /\ codes' = codes \cup {NewCode(t)}
    /\ tokens' = (tokens \ {t}) \cup {Generated(t, "dashboard", CookieLife)}
    /\ UNCHANGED <<secret, previous, waited, fresh>>

\* A client asks for authorization in a browser with a dashboard session.
ShortCircuit(t) ==
    /\ Dashboard(t)
    /\ t.sub \in fresh
    /\ Cardinality(codes) < MaxCodes
    /\ codes' = codes \cup {NewCode(t)}
    /\ UNCHANGED <<secret, previous, waited, tokens, fresh>>

\* The token endpoint consumes a code, expired or not, and mints a bearer.
Redeem(c) ==
    /\ Cardinality(tokens) < MaxTokens
    /\ codes' = codes \ {c}
    /\ tokens' = IF c.left >= 0
                 THEN tokens \cup {Generated(c, "client", BearerLife)}
                 ELSE tokens
    /\ UNCHANGED <<secret, previous, waited, fresh>>

\* An admin passes the second factor within a dashboard session.
MintAdminMFA(bearer, cookie) ==
    LET session == RequireAuthBrowser(bearer, cookie) IN
    /\ session # NoToken
    /\ Cardinality(tokens) < MaxTokens
    /\ tokens' = tokens \cup {Generated(session, "admin-mfa", MfaLife)}
    /\ UNCHANGED <<secret, previous, waited, codes, fresh>>

\* A holder loses or drops a token; a browser overwrites its cookie.
Forget(t) ==
    /\ tokens' = tokens \ {t}
    /\ UNCHANGED <<secret, previous, waited, codes, fresh>>

\* Kite ends the trading session of a user, daily at about six.
KiteExpires(u) ==
    /\ fresh' = fresh \ {u}
    /\ UNCHANGED <<secret, previous, waited, tokens, codes>>

-----------------------------------------------------------------------------
\* Restarts and keys

Unused == Keys \ ({secret, previous} \cup {t.key : t \in tokens})

SetPreviousSecret(p) == previous' = p

\* Mistake: the codes outlive the process.
SurvivingAll(inFlight) == inFlight

\* The codes a new process still knows: its store starts as an empty map.
Surviving(inFlight) == {}

Restart ==
    /\ codes' = Surviving(codes)
    /\ UNCHANGED <<secret, previous, waited, tokens, fresh>>

\* Steps 1 to 3 of the documented rotation, once the last one is complete.
Rotate(key) ==
    /\ previous = NoKey
    /\ secret' = key
    /\ SetPreviousSecret(secret)
    /\ waited' = 0
    /\ codes' = Surviving(codes)
    /\ UNCHANGED <<tokens, fresh>>

\* Step 4, "after all live JWTs have expired".
CompleteRotation ==
    /\ previous # NoKey
    /\ waited = Wait
    /\ SetPreviousSecret(NoKey)
    /\ codes' = Surviving(codes)
    /\ UNCHANGED <<secret, waited, tokens, fresh>>

Revoked(X) == {[x EXCEPT !.revoked = TRUE] : x \in X}

\* A new key without a fallback: "rotation = invalidation".
Revoke(key) ==
    /\ secret' = key
    /\ SetPreviousSecret(NoKey)
    /\ tokens' = Revoked(tokens)
    /\ codes' = Surviving(Revoked(codes))
    /\ UNCHANGED <<waited, fresh>>

Older(x) == [x EXCEPT !.age = IF @ = Longest THEN Longest ELSE @ + 1]

\* One unit of time.
Advance ==
    /\ waited' = IF waited = Wait THEN Wait ELSE waited + 1
    /\ tokens' = {[Older(t) EXCEPT !.left = IF @ = 0 THEN 0 ELSE @ - 1] : t \in tokens}
    /\ codes' = {[Older(c) EXCEPT !.left = IF @ = -1 THEN -1 ELSE @ - 1] : c \in codes}
    /\ UNCHANGED <<secret, previous, fresh>>

Next ==
    \/ \E u \in Users, kite \in BOOLEAN : Login(u, kite)
    \/ \E u \in Users : OAuthLogin(u)
    \/ \E t \in tokens : ShortCircuit(t)
    \/ \E c \in codes : Redeem(c)
    \/ \E bearer, cookie \in tokens \cup {NoToken} : MintAdminMFA(bearer, cookie)
    \/ \E t \in tokens : Forget(t)
    \/ \E u \in Users : KiteExpires(u)
    \/ Restart
    \/ \E key \in Unused : Rotate(key)
    \/ CompleteRotation
    \/ \E key \in Unused : Revoke(key)
    \/ Advance

Spec == Init /\ [][Next]_vars

-----------------------------------------------------------------------------

TypeOK ==
    /\ secret \in Keys
    /\ previous \in Keys \cup {NoKey}
    /\ waited \in 0..Wait
    /\ tokens \in SUBSET Token
    /\ codes \in SUBSET Code
    /\ fresh \in SUBSET Users

\* Every session that has neither expired nor been revoked goes on through
\* any number of documented rotations, at any moment of them: the bearer
\* while Kite's token works, the dashboard cookie without that condition.
LiveSessionsSurvive ==
    \A t \in tokens :
        t.left > 0 /\ ~t.revoked =>
            /\ t.aud = "client" /\ t.sub \in fresh => RequireAuth(t)
            /\ t.aud = "dashboard" => RequireAuthBrowser(NoToken, t) = t

\* A rotation without a fallback ends every session of a login made before
\* it, and nothing handed out before it (a code, a cookie) brings one back.
RevocationEndsSessions ==
    \A t \in tokens :
        t.revoked => ~RequireAuth(t) /\ RequireAuthBrowser(t, t) = NoToken

\* The silent renewal prolongs no session for ever: what the middleware lets
\* through goes back to a login at most a cookie, a code and a bearer ago
\* ("click Kite once a week at most").
SessionEndsInTime ==
    \A t \in tokens :
        /\ RequireAuth(t) => t.age < Longest
        /\ RequireAuthBrowser(NoToken, t) = t => t.age < CookieLife

-----------------------------------------------------------------------------
\* The inductive invariant.

\* A live token carries one of the two keys; one of the previous key expires
\* before the operator has waited long enough to drop it.
KeysKept ==
    \A t \in tokens :
        t.left > 0 /\ ~t.revoked =>
            \/ t.key = secret
            \/ t.key = previous /\ waited + t.left <= Wait

KeysDropped == \A t \in tokens : t.revoked => t.key \notin {secret, previous}

CodesOfLiveLogins == \A c \in codes : ~c.revoked

\* The age a token of each kind can reach, plus one.
Limit == [aud \in Audiences |->
    CASE aud = "client" -> Longest - 1
      [] aud = "dashboard" -> CookieLife
      [] aud = "admin-mfa" -> CookieLife - 1 + MfaLife]

LifeBounded ==
    \A t \in tokens :
        /\ t.left <= Wait
        /\ t.left > 0 => t.age + t.left <= Limit[t.aud]

CodeLifeBounded ==
    \A c \in codes : c.left >= 0 => c.age + c.left < CookieLife + CodeTTL

SessionInv ==
    /\ TypeOK
    /\ KeysKept
    /\ KeysDropped
    /\ CodesOfLiveLogins
    /\ LifeBounded
    /\ CodeLifeBounded
=============================================================================
