--------------------------- MODULE SessionsProofs ---------------------------
(***************************************************************************)
(* For every lifetime, every number of users, keys and tokens: the types,  *)
(* that documented rotations end no session, that a revocation ends all,   *)
(* and that no chain of silent renewals outlives its bound.                *)
(***************************************************************************)
EXTENDS Sessions, TLAPS

\* With several audiences only the first decides: the parser is given that
\* one, and a token that passes the parser passes the loop.
THEOREM OnlyFirstAudience ==
    ASSUME NEW t, NEW audiences \in Seq(Audiences), audiences # <<>>
    PROVE  ValidateToken(t, audiences) <=>
             /\ t.key = secret \/ (previous # NoKey /\ t.key = previous)
             /\ t.left > 0
             /\ t.aud = audiences[1]
<1>1. Len(audiences) > 1 => 1 \in DOMAIN audiences
  OBVIOUS
<1> QED
  BY <1>1 DEF ValidateToken, ParseWithKey

\* The same for no audience at all, as the bearer middleware calls it.
LEMMA AnyAudience ==
    ASSUME NEW t
    PROVE  ValidateToken(t, <<>>) <=>
             /\ t.key = secret \/ (previous # NoKey /\ t.key = previous)
             /\ t.left > 0
<1>1. Len(<<>>) = 0
  OBVIOUS
<1> QED
  BY <1>1 DEF ValidateToken, ParseWithKey

\* A dashboard session is a token of that audience, signed and in time.
LEMMA DashboardMeans ==
    ASSUME NEW t, t # NoToken
    PROVE  Dashboard(t) <=>
             /\ t.key = secret \/ (previous # NoKey /\ t.key = previous)
             /\ t.left > 0
             /\ t.aud = "dashboard"
<1>1. <<"dashboard">> \in Seq(Audiences) /\ <<"dashboard">> # <<>>
  BY DEF Audiences
<1>2. <<"dashboard">>[1] = "dashboard"
  OBVIOUS
<1> QED
  BY <1>1, <1>2, OnlyFirstAudience DEF Dashboard

-----------------------------------------------------------------------------
\* What the operators that make and change tokens return.

\* How long a session of each audience may last.
LEMMA LimitValues ==
    /\ Longest \in Nat
    /\ Limit["client"] = Longest - 1
    /\ Limit["dashboard"] = CookieLife
    /\ Limit["admin-mfa"] = CookieLife - 1 + MfaLife
    /\ CookieLife < Longest
    /\ \A aud \in Audiences : Limit[aud] \in Int /\ Limit[aud] < Longest
  BY SessionAssumption DEF Limit, Longest, Audiences

\* A token generated for the holder of a live login, with an age that the
\* limit of its kind allows, satisfies every part of the invariant.
LEMMA GeneratedGood ==
    ASSUME SessionInv,
           NEW from, from.sub \in Users, from.age \in 0..Longest, from.revoked = FALSE,
           NEW aud \in Audiences,
           NEW life \in Nat, life <= Wait, from.age + life <= Limit[aud],
           UNCHANGED <<secret, previous, waited>>,
           tokens' = tokens \cup {Generated(from, aud, life)}
    PROVE  /\ tokens' \in SUBSET Token
           /\ KeysKept'
           /\ KeysDropped'
           /\ LifeBounded'
<1> DEFINE g == Generated(from, aud, life)
<1>1. /\ g \in Token
      /\ g.key = secret /\ g.left = life /\ g.age = from.age
      /\ g.aud = aud /\ g.revoked = FALSE
  BY DEF Generated, Token, SessionInv, TypeOK
<1>2. tokens' \in SUBSET Token
  BY <1>1 DEF SessionInv, TypeOK
<1>3. KeysKept'
  BY <1>1 DEF SessionInv, KeysKept
<1>4. KeysDropped'
  BY <1>1 DEF SessionInv, KeysDropped
<1>5. LifeBounded'
  BY <1>1 DEF SessionInv, LifeBounded
<1> QED
  BY <1>2, <1>3, <1>4, <1>5

\* The same for a code.
LEMMA NewCodeGood ==
    ASSUME SessionInv,
           NEW from, from.sub \in Users, from.age \in 0..Longest, from.revoked = FALSE,
           from.age < CookieLife,
           codes' = codes \cup {NewCode(from)}
    PROVE  codes' \in SUBSET Code /\ CodesOfLiveLogins' /\ CodeLifeBounded'
<1> DEFINE c == NewCode(from)
<1>1. /\ c \in Code
      /\ c.left = CodeTTL /\ c.age = from.age /\ c.revoked = FALSE
  BY SessionAssumption DEF NewCode, Code
<1>2. c.age + c.left < CookieLife + CodeTTL
  BY <1>1, SessionAssumption, LimitValues
<1> QED
  BY <1>1, <1>2 DEF SessionInv, TypeOK, CodesOfLiveLogins, CodeLifeBounded

\* The one who has just logged in.
LEMMA ProofGood ==
    ASSUME NEW u \in Users
    PROVE  /\ Proof(u).sub \in Users
           /\ Proof(u).age = 0 /\ Proof(u).age \in 0..Longest
           /\ Proof(u).revoked = FALSE
           /\ Proof(u).age < CookieLife
           /\ Proof(u).age + CookieLife <= Limit["dashboard"]
  BY SessionAssumption, LimitValues DEF Proof

\* A token the browser middleware accepts belongs to a login that nobody has
\* revoked and that is younger than a cookie.
LEMMA SessionGood ==
    ASSUME SessionInv, NEW t \in tokens, Dashboard(t)
    PROVE  /\ t.sub \in Users /\ t.age \in 0..Longest
           /\ t.revoked = FALSE
           /\ t.age < CookieLife
<1>1. t \in Token /\ t # NoToken
  BY NoTokenAssumption DEF SessionInv, TypeOK
<1>2. /\ t.key = secret \/ t.key = previous
      /\ t.left > 0
      /\ t.aud = "dashboard"
  BY <1>1, DashboardMeans
<1>3. t.revoked = FALSE
  BY <1>1, <1>2 DEF SessionInv, KeysDropped, Token
<1>4. t.age + t.left <= CookieLife
  BY <1>2, LimitValues DEF SessionInv, LifeBounded
<1> QED
  BY <1>1, <1>2, <1>3, <1>4, SessionAssumption DEF Token

-----------------------------------------------------------------------------

\* The invariant holds initially.
LEMMA InitInv == Init => SessionInv
  BY SessionAssumption
  DEF Init, SessionInv, TypeOK, KeysKept, KeysDropped, CodesOfLiveLogins,
      LifeBounded, CodeLifeBounded

\* Fewer tokens or codes satisfy what more of them did.
LEMMA FewerGood ==
    ASSUME SessionInv, tokens' \subseteq tokens, codes' \subseteq codes,
           fresh' \in SUBSET Users, UNCHANGED <<secret, previous, waited>>
    PROVE  SessionInv'
  BY DEF SessionInv, TypeOK, KeysKept, KeysDropped, CodesOfLiveLogins,
         LifeBounded, CodeLifeBounded

\* The logins.
LEMMA LoginInv ==
    ASSUME SessionInv, NEW u \in Users
    PROVE  /\ \A kite \in BOOLEAN : Login(u, kite) => SessionInv'
           /\ OAuthLogin(u) => SessionInv'
<1> USE ProofGood, SessionAssumption
<1>1. ASSUME NEW kite \in BOOLEAN, Login(u, kite)
      PROVE  SessionInv'
  <2>1. "dashboard" \in Audiences
    BY DEF Audiences
  <2>2. /\ UNCHANGED <<secret, previous, waited, codes>>
        /\ tokens' = tokens \cup {Generated(Proof(u), "dashboard", CookieLife)}
        /\ fresh' \in SUBSET Users
    BY <1>1 DEF Login, SessionInv, TypeOK
  <2>3. /\ tokens' \in SUBSET Token
        /\ KeysKept' /\ KeysDropped' /\ LifeBounded'
    BY <2>1, <2>2, GeneratedGood
  <2> QED
    BY <2>2, <2>3 DEF SessionInv, TypeOK, CodesOfLiveLogins, CodeLifeBounded
<1>2. ASSUME OAuthLogin(u)
      PROVE  SessionInv'
  <2>1. "dashboard" \in Audiences
    BY DEF Audiences
  <2>2. /\ UNCHANGED <<secret, previous, waited>>
        /\ tokens' = tokens \cup {Generated(Proof(u), "dashboard", CookieLife)}
        /\ codes' = codes \cup {NewCode(Proof(u))}
        /\ fresh' \in SUBSET Users
    BY <1>2 DEF OAuthLogin, SessionInv, TypeOK
  <2>3. /\ tokens' \in SUBSET Token
        /\ KeysKept' /\ KeysDropped' /\ LifeBounded'
    BY <2>1, <2>2, GeneratedGood
  <2>4. codes' \in SUBSET Code /\ CodesOfLiveLogins' /\ CodeLifeBounded'
    BY <2>2, NewCodeGood
  <2> QED
    BY <2>2, <2>3, <2>4 DEF SessionInv, TypeOK
<1> QED
  BY <1>1, <1>2

\* The silent renewal: the code is of an age a cookie may have.
LEMMA ShortCircuitInv ==
    ASSUME SessionInv, NEW t \in tokens, ShortCircuit(t)
    PROVE  SessionInv'
<1>1. /\ UNCHANGED <<secret, previous, waited, tokens, fresh>>
      /\ codes' = codes \cup {NewCode(t)}
      /\ Dashboard(t)
  BY DEF ShortCircuit
<1>2. codes' \in SUBSET Code /\ CodesOfLiveLogins' /\ CodeLifeBounded'
  BY <1>1, SessionGood, NewCodeGood
<1> QED
  BY <1>1, <1>2 DEF SessionInv, TypeOK, KeysKept, KeysDropped, LifeBounded

\* The token endpoint: a code that still lives leaves room for a bearer.
LEMMA RedeemInv ==
    ASSUME SessionInv, NEW c \in codes, Redeem(c)
    PROVE  SessionInv'
<1>1. UNCHANGED <<secret, previous, waited, fresh>> /\ codes' = codes \ {c}
  BY DEF Redeem
<1>2. CASE c.left < 0
  <2>1. c.left \in Int
    BY DEF SessionInv, TypeOK, Code
  <2>2. tokens' = tokens
    BY <1>2, <2>1 DEF Redeem
  <2> QED
    BY <1>1, <2>2, FewerGood DEF SessionInv, TypeOK
<1>3. CASE c.left >= 0
  <2>1. /\ c.sub \in Users /\ c.age \in 0..Longest /\ c.revoked = FALSE
        /\ c.left \in Nat \cup {-1}
    BY DEF SessionInv, TypeOK, Code, CodesOfLiveLogins
  <2>2. c.age + BearerLife <= Limit["client"]
    BY <1>3, <2>1, SessionAssumption, LimitValues
    DEF SessionInv, CodeLifeBounded, Longest
  <2>3. tokens' = tokens \cup {Generated(c, "client", BearerLife)}
    BY <1>3 DEF Redeem
  <2>4. /\ tokens' \in SUBSET Token
        /\ KeysKept' /\ KeysDropped' /\ LifeBounded'
    BY <1>1, <2>1, <2>2, <2>3, GeneratedGood, SessionAssumption DEF Audiences
  <2> QED
    BY <1>1, <2>4 DEF SessionInv, TypeOK, CodesOfLiveLogins, CodeLifeBounded
<1> QED
  BY <1>2, <1>3 DEF SessionInv, TypeOK, Code

\* The second factor: whichever of its two tokens the request acts for.
LEMMA MintInv ==
    ASSUME SessionInv, NEW bearer \in tokens \cup {NoToken},
           NEW cookie \in tokens \cup {NoToken}, MintAdminMFA(bearer, cookie)
    PROVE  SessionInv'
<1> DEFINE session == RequireAuthBrowser(bearer, cookie)
<1>1. session \in tokens /\ Dashboard(session)
  BY DEF MintAdminMFA, RequireAuthBrowser, Dashboard
<1>2. /\ UNCHANGED <<secret, previous, waited, codes, fresh>>
      /\ tokens' = tokens \cup {Generated(session, "admin-mfa", MfaLife)}
  BY DEF MintAdminMFA
<1> HIDE DEF session
<1>3. /\ session.sub \in Users /\ session.age \in 0..Longest
      /\ session.revoked = FALSE
      /\ session.age < CookieLife
  BY <1>1, SessionGood
<1>4. session.age + MfaLife <= Limit["admin-mfa"]
  BY <1>3, SessionAssumption, LimitValues
<1>5. /\ tokens' \in SUBSET Token
      /\ KeysKept' /\ KeysDropped' /\ LifeBounded'
  BY <1>2, <1>3, <1>4, GeneratedGood, SessionAssumption DEF Audiences
<1> QED
  BY <1>2, <1>5 DEF SessionInv, TypeOK, CodesOfLiveLogins, CodeLifeBounded

-----------------------------------------------------------------------------

\* The operator's steps.  A documented rotation finds every live token under
\* the one key there is, and completes when none of the former key lives.
LEMMA KeysInv ==
    ASSUME SessionInv
    PROVE  /\ Restart => SessionInv'
           /\ \A key \in Unused : Rotate(key) => SessionInv'
           /\ CompleteRotation => SessionInv'
           /\ \A key \in Unused : Revoke(key) => SessionInv'
<1> USE DEF SetPreviousSecret, Surviving
<1>1. Restart => SessionInv'
  BY FewerGood DEF Restart, SessionInv, TypeOK
<1>2. ASSUME NEW key \in Unused, Rotate(key)
      PROVE  SessionInv'
  <2>1. /\ previous = NoKey /\ secret' = key /\ previous' = secret
        /\ waited' = 0 /\ codes' = {} /\ tokens' = tokens /\ fresh' = fresh
    BY <1>2 DEF Rotate
  <2>2. key \in Keys /\ \A t \in tokens : t.key # key
    BY DEF Unused
  <2>3. TypeOK'
    BY <2>1, <2>2, SessionAssumption DEF SessionInv, TypeOK
  <2>4. KeysKept'
    <3> SUFFICES ASSUME NEW t \in tokens, t.left > 0, ~t.revoked
                 PROVE  t.key = previous' /\ waited' + t.left <= Wait
      BY <2>1 DEF KeysKept
    <3>1. t \in Token
      BY DEF SessionInv, TypeOK
    <3>2. t.key = secret
      BY <2>1, <3>1, SessionAssumption DEF SessionInv, KeysKept, Token
    <3>3. t.left <= Wait
      BY DEF SessionInv, LifeBounded
    <3> QED
      BY <2>1, <3>1, <3>2, <3>3, SessionAssumption DEF Token
  <2>5. KeysDropped'
    BY <2>1, <2>2 DEF SessionInv, KeysDropped
  <2> QED
    BY <2>1, <2>3, <2>4, <2>5
    DEF SessionInv, CodesOfLiveLogins, CodeLifeBounded, LifeBounded
<1>3. ASSUME CompleteRotation
      PROVE  SessionInv'
  <2>1. /\ waited = Wait /\ previous' = NoKey /\ codes' = {}
        /\ UNCHANGED <<secret, waited, tokens, fresh>>
    BY <1>3 DEF CompleteRotation
  <2>2. TypeOK'
    BY <2>1 DEF SessionInv, TypeOK
  <2>3. KeysKept'
    <3> SUFFICES ASSUME NEW t \in tokens, t.left > 0, ~t.revoked
                 PROVE  t.key = secret
      BY <2>1 DEF KeysKept
    <3>1. t \in Token
      BY DEF SessionInv, TypeOK
    <3> QED
      BY <2>1, <3>1, SessionAssumption DEF SessionInv, KeysKept, Token
  <2>4. KeysDropped'
    <3>1. \A t \in tokens : t.key # NoKey
      BY SessionAssumption DEF SessionInv, TypeOK, Token
    <3> QED
      BY <2>1, <3>1 DEF SessionInv, KeysDropped
  <2> QED
    BY <2>1, <2>2, <2>3, <2>4
    DEF SessionInv, CodesOfLiveLogins, CodeLifeBounded, LifeBounded
<1>4. ASSUME NEW key \in Unused, Revoke(key)
      PROVE  SessionInv'
  <2>1. /\ secret' = key /\ previous' = NoKey /\ codes' = {}
        /\ tokens' = Revoked(tokens) /\ UNCHANGED <<waited, fresh>>
    BY <1>4 DEF Revoke
  <2>2. key \in Keys /\ \A t \in tokens : t.key # key
    BY DEF Unused
  <2>3. \A t \in tokens' :
          /\ t \in Token /\ t.revoked = TRUE /\ t.key # key
          /\ t.left <= Wait
          /\ t.left > 0 => t.age + t.left <= Limit[t.aud]
    BY <2>1, <2>2 DEF Revoked, SessionInv, TypeOK, Token, LifeBounded
  <2>4. \A t \in tokens' : t.key # NoKey
    BY <2>3, SessionAssumption DEF Token
  <2> QED
    BY <2>1, <2>2, <2>3, <2>4
    DEF SessionInv, TypeOK, KeysKept, KeysDropped, CodesOfLiveLogins,
        LifeBounded, CodeLifeBounded
<1> QED
  BY <1>1, <1>2, <1>3, <1>4

\* Time: what is left shrinks as the age grows, and so does the rest of the
\* operator's wait.
LEMMA AdvanceInv ==
    ASSUME SessionInv, Advance
    PROVE  SessionInv'
<1> DEFINE NextToken(t) == [Older(t) EXCEPT !.left = IF @ = 0 THEN 0 ELSE @ - 1]
           NextCode(c) == [Older(c) EXCEPT !.left = IF @ = -1 THEN -1 ELSE @ - 1]
<1>1. /\ UNCHANGED <<secret, previous, fresh>>
      /\ waited' = IF waited = Wait THEN Wait ELSE waited + 1
      /\ tokens' = {NextToken(t) : t \in tokens}
      /\ codes' = {NextCode(c) : c \in codes}
  BY DEF Advance
<1>2. waited' \in 0..Wait /\ waited' <= waited + 1
  BY <1>1, SessionAssumption DEF SessionInv, TypeOK
<1>3. ASSUME NEW t \in tokens
      PROVE  /\ NextToken(t) \in Token
             /\ NextToken(t).key = t.key /\ NextToken(t).aud = t.aud
             /\ NextToken(t).revoked = t.revoked
             /\ NextToken(t).left = IF t.left = 0 THEN 0 ELSE t.left - 1
             /\ NextToken(t).age = IF t.age = Longest THEN Longest ELSE t.age + 1
  <2>1. t \in Token /\ t.age \in 0..Longest /\ t.left \in Nat
    BY DEF SessionInv, TypeOK, Token
  <2>2. (IF t.age = Longest THEN Longest ELSE t.age + 1) \in 0..Longest
    BY <2>1, LimitValues
  <2>3. (IF t.left = 0 THEN 0 ELSE t.left - 1) \in Nat
    BY <2>1
  <2>4. Older(t) = [t EXCEPT !.age = IF t.age = Longest THEN Longest ELSE t.age + 1]
    BY DEF Older
  <2>5. Older(t).left = t.left
    BY <2>1, <2>4 DEF Token
  <2> QED
    BY <2>1, <2>2, <2>3, <2>4, <2>5 DEF Token
<1>4. ASSUME NEW c \in codes
      PROVE  /\ NextCode(c) \in Code
             /\ NextCode(c).revoked = c.revoked
             /\ NextCode(c).left = IF c.left = -1 THEN -1 ELSE c.left - 1
             /\ NextCode(c).age = IF c.age = Longest THEN Longest ELSE c.age + 1
  <2>1. c \in Code /\ c.age \in 0..Longest /\ c.left \in Nat \cup {-1}
    BY DEF SessionInv, TypeOK, Code
  <2>2. (IF c.age = Longest THEN Longest ELSE c.age + 1) \in 0..Longest
    BY <2>1, LimitValues
  <2>3. (IF c.left = -1 THEN -1 ELSE c.left - 1) \in Nat \cup {-1}
    BY <2>1
  <2>4. Older(c) = [c EXCEPT !.age = IF c.age = Longest THEN Longest ELSE c.age + 1]
    BY DEF Older
  <2>5. Older(c).left = c.left
    BY <2>1, <2>4 DEF Code
  <2> QED
    BY <2>1, <2>2, <2>3, <2>4, <2>5 DEF Code
<1> HIDE DEF NextToken, NextCode
<1>5. TypeOK'
  BY <1>1, <1>2, <1>3, <1>4 DEF SessionInv, TypeOK
<1>6. KeysKept'
  <2> SUFFICES ASSUME NEW t \in tokens, NextToken(t).left > 0, ~NextToken(t).revoked
               PROVE  \/ NextToken(t).key = secret
                      \/ /\ NextToken(t).key = previous
                         /\ waited' + NextToken(t).left <= Wait
    BY <1>1 DEF KeysKept
  <2>1. t.left \in Nat
    BY DEF SessionInv, TypeOK, Token
  <2>2. t.left > 0 /\ ~t.revoked /\ NextToken(t).left = t.left - 1
    BY <1>3, <2>1
  <2>3. t.key = secret \/ (t.key = previous /\ waited + t.left <= Wait)
    BY <2>2 DEF SessionInv, KeysKept
  <2> QED
    BY <1>2, <1>3, <2>1, <2>2, <2>3, SessionAssumption DEF SessionInv, TypeOK
<1>7. KeysDropped'
  BY <1>1, <1>3 DEF SessionInv, KeysDropped
<1>8. CodesOfLiveLogins'
  BY <1>1, <1>4 DEF SessionInv, CodesOfLiveLogins
<1>9. LifeBounded'
  <2> SUFFICES ASSUME NEW t \in tokens
               PROVE  /\ NextToken(t).left <= Wait
                      /\ NextToken(t).left > 0 =>
                           NextToken(t).age + NextToken(t).left <= Limit[t.aud]
    BY <1>1, <1>3 DEF LifeBounded
  <2>1. t.left \in Nat /\ t.age \in 0..Longest /\ t.aud \in Audiences
    BY DEF SessionInv, TypeOK, Token
  <2>2. t.left <= Wait /\ (t.left > 0 => t.age + t.left <= Limit[t.aud])
    BY DEF SessionInv, LifeBounded
  <2> QED
    BY <1>3, <2>1, <2>2, LimitValues, SessionAssumption
<1>10. CodeLifeBounded'
  <2> SUFFICES ASSUME NEW c \in codes, NextCode(c).left >= 0
               PROVE  NextCode(c).age + NextCode(c).left < CookieLife + CodeTTL
    BY <1>1 DEF CodeLifeBounded
  <2>1. c.left \in Nat \cup {-1} /\ c.age \in 0..Longest
    BY DEF SessionInv, TypeOK, Code
  <2>2. c.left >= 0 => c.age + c.left < CookieLife + CodeTTL
    BY DEF SessionInv, CodeLifeBounded
  <2> QED
    BY <1>4, <2>1, <2>2, LimitValues, SessionAssumption
<1> QED
  BY <1>5, <1>6, <1>7, <1>8, <1>9, <1>10 DEF SessionInv

\* Every step keeps the invariant.
LEMMA NextInv == SessionInv /\ [Next]_vars => SessionInv'
<1> SUFFICES ASSUME SessionInv, [Next]_vars PROVE SessionInv'
  OBVIOUS
<1>1. CASE \E u \in Users, kite \in BOOLEAN : Login(u, kite)
  BY <1>1, LoginInv
<1>2. CASE \E u \in Users : OAuthLogin(u)
  BY <1>2, LoginInv
<1>3. CASE \E t \in tokens : ShortCircuit(t)
  BY <1>3, ShortCircuitInv
<1>4. CASE \E c \in codes : Redeem(c)
  BY <1>4, RedeemInv
<1>5. CASE \E bearer, cookie \in tokens \cup {NoToken} : MintAdminMFA(bearer, cookie)
  BY <1>5, MintInv
<1>6. CASE \E t \in tokens : Forget(t)
  BY <1>6, FewerGood DEF Forget, SessionInv, TypeOK
<1>7. CASE \E u \in Users : KiteExpires(u)
  BY <1>7, FewerGood DEF KiteExpires, SessionInv, TypeOK
<1>8. CASE Restart \/ CompleteRotation \/ \E key \in Unused : Rotate(key) \/ Revoke(key)
  BY <1>8, KeysInv
<1>9. CASE Advance
  BY <1>9, AdvanceInv
<1>10. CASE UNCHANGED vars
  BY <1>10, FewerGood DEF vars, SessionInv, TypeOK
<1> QED
  BY <1>1, <1>2, <1>3, <1>4, <1>5, <1>6, <1>7, <1>8, <1>9, <1>10 DEF Next

\* It is an invariant of the specification.
LEMMA InvHolds == Spec => []SessionInv
  BY InitInv, NextInv, PTL DEF Spec

-----------------------------------------------------------------------------

\* The variables stay in their types.
THEOREM TypeCorrect == Spec => []TypeOK
<1>1. SessionInv => TypeOK
  BY DEF SessionInv
<1> QED
  BY <1>1, InvHolds, PTL

\* A documented rotation never ends a session: a live token carries one of
\* the two keys, so ValidateToken accepts it by the one or by the other.
THEOREM RotationEndsNoSession == Spec => []LiveSessionsSurvive
<1>1. SessionInv => LiveSessionsSurvive
  <2> SUFFICES ASSUME SessionInv, NEW t \in tokens, t.left > 0, ~t.revoked
               PROVE  /\ t.aud = "client" /\ t.sub \in fresh => RequireAuth(t)
                      /\ t.aud = "dashboard" => RequireAuthBrowser(NoToken, t) = t
    BY DEF LiveSessionsSurvive
  <2>1. t \in Token /\ t # NoToken
    BY NoTokenAssumption DEF SessionInv, TypeOK
  <2>2. t.key = secret \/ (previous # NoKey /\ t.key = previous)
    BY <2>1, SessionAssumption DEF SessionInv, KeysKept, Token
  <2>3. ValidateToken(t, <<>>)
    BY <2>2, AnyAudience
  <2>4. t.aud = "dashboard" => Dashboard(t)
    BY <2>1, <2>2, DashboardMeans
  <2> QED
    BY <2>3, <2>4 DEF RequireAuth, RequireAuthBrowser, Dashboard
<1> QED
  BY <1>1, InvHolds, PTL

\* A rotation without a fallback ends all: no token of before it carries a
\* key the process still knows, and no code of before it is still stored.
THEOREM RevocationEndsAll == Spec => []RevocationEndsSessions
<1>1. SessionInv => RevocationEndsSessions
  <2> SUFFICES ASSUME SessionInv, NEW t \in tokens, t.revoked
               PROVE  ~RequireAuth(t) /\ RequireAuthBrowser(t, t) = NoToken
    BY DEF RevocationEndsSessions
  <2>1. t.key # secret /\ t.key # previous
    BY DEF SessionInv, KeysDropped
  <2>2. t # NoToken
    BY NoTokenAssumption DEF SessionInv, TypeOK
  <2> QED
    BY <2>1, <2>2, AnyAudience, DashboardMeans DEF RequireAuth, RequireAuthBrowser
<1> QED
  BY <1>1, InvHolds, PTL

\* No chain of renewals outlives a cookie, a code and a bearer.
THEOREM SessionsEndInTime == Spec => []SessionEndsInTime
<1>1. SessionInv => SessionEndsInTime
  <2> SUFFICES ASSUME SessionInv, NEW t \in tokens
               PROVE  /\ RequireAuth(t) => t.age < Longest
                      /\ RequireAuthBrowser(NoToken, t) = t => t.age < CookieLife
    BY DEF SessionEndsInTime
  <2>1. t \in Token /\ t # NoToken
    BY NoTokenAssumption DEF SessionInv, TypeOK
  <2>2. t.left > 0 => t.age + t.left <= Limit[t.aud]
    BY DEF SessionInv, LifeBounded
  <2>3. RequireAuth(t) => t.age < Longest
    BY <2>1, <2>2, AnyAudience, LimitValues DEF RequireAuth, Token
  <2>4. RequireAuthBrowser(NoToken, t) = t => Dashboard(t)
    BY <2>1 DEF RequireAuthBrowser, Dashboard
  <2> QED
    BY <2>3, <2>4, SessionGood
<1> QED
  BY <1>1, InvHolds, PTL
=============================================================================
