--------------------------- MODULE AdminMFAProofs ---------------------------
(***************************************************************************)
(* For any number of admins, tabs, secrets and tokens and any window: the  *)
(* types, that no admin is locked out, that the gate lets through only who *)
(* typed a code within the window, and that redirects end.                 *)
(***************************************************************************)
EXTENDS AdminMFA, TLAPS

\* A tab with nothing in it.
LEMMA BlankType == Blank \in Tab
  BY DEF Blank, Tab, Pages, MaxHops

\* An answer before the handler has filled it in.
LEMMA AnswerType ==
    ASSUME NEW t \in Tabs, tabs[t] \in Tab
    PROVE  AnswerTo(t) \in Tab
<1>1. tabs[t].hops \in 0..MaxHops + 1
  BY DEF Tab
<1> DEFINE hops == tabs[t].hops
<1>2. AnswerTo(t) = [Blank EXCEPT !.pc = "answer", !.hops = hops]
  BY DEF AnswerTo
<1> HIDE DEF hops
<1> QED
  BY <1>1, <1>2, BlankType DEF hops, Tab

\* How many redirects may have led to each page.
LEMMA HopsValues ==
    /\ HopsTo["gate"] = 1 /\ HopsTo["verify"] = 2 /\ HopsTo["enroll"] = 3
    /\ HopsTo["page"] = 3 /\ HopsTo["verifyForm"] = 3 /\ HopsTo["enrollForm"] = 3
    /\ \A what \in Posts : HopsTo[what] = 0
  BY DEF HopsTo, Pages, Paths, Posts

\* A step that puts a good record into one tab keeps the invariant, as long
\* as the codes the other tabs carry stay known, and the time since a code was
\* accepted does not grow.
LEMMA TabStep ==
    ASSUME MfaInv, NEW t \in Tabs, NEW x \in Tab,
           tabs' = [tabs EXCEPT ![t] = x],
           UNCHANGED <<session, csrf, mfa>>,
           totp' \in [Admins -> Secrets \cup {None}],
           app' \in SUBSET Secrets,
           proof' \in [Admins -> 0..MfaLife],
           EnrolledSecretIsHeld',
           \A u \in Admins : proof'[u] <= proof[u],
           \A z \in Tabs : tabs[z].code \in app => tabs[z].code \in app',
           TabGood(x)'
    PROVE  MfaInv'
<1>1. TypeOK'
  BY DEF MfaInv, TypeOK
<1>2. ASSUME NEW c \in MfaCookie \cup {None}, CookieGood(c)
      PROVE  CookieGood(c)'
  <2> SUFFICES ASSUME c # None, c.left > 0
               PROVE  proof'[c.sub] + c.left <= MfaLife
    BY DEF CookieGood
  <2>1. c.sub \in Admins /\ c.left \in 0..MfaLife
    BY DEF MfaCookie
  <2>2. proof[c.sub] \in 0..MfaLife /\ proof'[c.sub] \in 0..MfaLife
    BY <2>1 DEF MfaInv, TypeOK
  <2> QED
    BY <1>2, <2>1, <2>2, MfaAssumption DEF CookieGood
<1>3. CookieGood(mfa)'
  BY <1>2 DEF MfaInv, TypeOK, CookieGood, HasTOTP
<1>4. ASSUME NEW z \in Tabs
      PROVE  TabGood(tabs[z])'
  <2>1. CASE z = t
    BY <2>1 DEF MfaInv, TypeOK, TabGood, CookieGood
  <2>2. CASE z # t
    <3>1. tabs'[z] = tabs[z] /\ tabs[z] \in Tab /\ TabGood(tabs[z])
      BY <2>2 DEF MfaInv, TypeOK
    <3>2. CookieGood(tabs[z].mfa)'
      BY <1>2, <3>1 DEF Tab, TabGood, CookieGood
    <3> QED
      BY <3>1, <3>2 DEF TabGood
  <2> QED
    BY <2>1, <2>2
<1> QED
  BY <1>1, <1>3, <1>4 DEF MfaInv

-----------------------------------------------------------------------------
\* The answers of the server are good records.

\* A redirect, or the page behind the gate.
LEMMA AnswerInv ==
    ASSUME MfaInv, NEW t \in Tabs, NEW what \in Paths \cup {"page"},
           Answer(t, what),
           UNCHANGED <<session, totp, app, csrf, mfa, proof>>,
           tabs[t].hops <= HopsTo[what] - (IF what \in Paths THEN 1 ELSE 0)
    PROVE  MfaInv'
<1>1. tabs[t] \in Tab
  BY DEF MfaInv, TypeOK
<1>2. PICK x \in Tab : x = [AnswerTo(t) EXCEPT !.what = what]
  <2>1. [AnswerTo(t) EXCEPT !.what = what] \in Tab
    BY <1>1, BlankType DEF AnswerTo, Blank, Tab, Pages, Paths
  <2> QED
    BY <2>1
<1>3. /\ x.mfa = None /\ x.code = None /\ x.what = what /\ x.pc = "answer"
      /\ x.hops = tabs[t].hops
  BY <1>2 DEF AnswerTo, Blank
<1>4. tabs' = [tabs EXCEPT ![t] = x]
  BY <1>2 DEF Answer
<1>5. TabGood(x)'
  BY <1>3 DEF TabGood, CookieGood, Posts, Paths
<1>6. TypeOK /\ EnrolledSecretIsHeld'
  BY DEF MfaInv, EnrolledSecretIsHeld, HasTOTP
<1>7. \A u \in Admins : proof[u] <= proof[u]
  BY <1>6 DEF TypeOK
<1> QED
  BY <1>2, <1>4, <1>5, <1>6, <1>7, TabStep DEF TypeOK

\* A form.  No redirect comes after it, so any number may have come before.
LEMMA RenderInv ==
    ASSUME MfaInv, NEW t \in Tabs, NEW form \in {"verifyForm", "enrollForm"},
           NEW secret \in Secrets \cup {None},
           Render(t, form, secret),
           UNCHANGED <<session, totp, csrf, mfa, proof>>,
           app' \in SUBSET Secrets,
           EnrolledSecretIsHeld',
           \A z \in Tabs : tabs[z].code \in app => tabs[z].code \in app',
           tabs[t].hops <= 3
    PROVE  MfaInv'
<1>1. PICK token \in NewCsrf(t) :
        tabs' = [tabs EXCEPT ![t] =
            [AnswerTo(t) EXCEPT !.what = form, !.csrf = token, !.secret = secret]]
  BY DEF Render
<1>2. token \in CsrfTokens /\ tabs[t] \in Tab
  BY DEF NewCsrf, MfaInv, TypeOK
<1>3. PICK x \in Tab :
        x = [AnswerTo(t) EXCEPT !.what = form, !.csrf = token, !.secret = secret]
  <2>1. [AnswerTo(t) EXCEPT !.what = form, !.csrf = token, !.secret = secret] \in Tab
    BY <1>2, BlankType DEF AnswerTo, Blank, Tab, Pages
  <2> QED
    BY <2>1
<1>4. /\ x.mfa = None /\ x.code = None /\ x.what = form /\ x.pc = "answer"
      /\ x.hops = tabs[t].hops
  BY <1>3 DEF AnswerTo, Blank
<1>5. tabs' = [tabs EXCEPT ![t] = x]
  BY <1>1, <1>3
<1>6. tabs[t].hops \in 0..MaxHops + 1
  BY <1>2 DEF Tab
<1>7. TabGood(x)'
  BY <1>4, <1>6, HopsValues DEF TabGood, CookieGood, Posts, Paths, MaxHops
<1>8. TypeOK
  BY DEF MfaInv
<1>9. \A u \in Admins : proof[u] <= proof[u]
  BY <1>8 DEF TypeOK
<1> QED
  BY <1>3, <1>5, <1>7, <1>8, <1>9, TabStep DEF TypeOK

\* The cookie of a code accepted just now, for the secret that is enrolled.
LEMMA LetThroughInv ==
    ASSUME MfaInv, NEW t \in Tabs, tabs[t].as \in Admins, tabs[t].hops = 0,
           LetThrough(t), Accepted(tabs[t].as, tabs[t].code),
           UNCHANGED <<session, app, csrf, mfa>>,
           totp' \in [Admins -> Secrets \cup {None}],
           EnrolledSecretIsHeld',
           totp'[tabs[t].as] = tabs[t].code
    PROVE  MfaInv'
<1> PICK u \in Admins : u = tabs[t].as
  OBVIOUS
<1>1. tabs[t] \in Tab /\ proof \in [Admins -> 0..MfaLife]
  BY DEF MfaInv, TypeOK
<1>2. PICK c \in MfaCookie :
        /\ c = MintAdminMFAToken(u)
        /\ c.sub = u /\ c.left = MfaLife
  <2>1. MintAdminMFAToken(u) \in MfaCookie
    BY MfaAssumption DEF MintAdminMFAToken, MfaCookie
  <2>2. MintAdminMFAToken(u).sub = u /\ MintAdminMFAToken(u).left = MfaLife
    BY DEF MintAdminMFAToken
  <2> QED
    BY <2>1, <2>2
<1>3. PICK x \in Tab : x = [AnswerTo(t) EXCEPT !.what = "gate", !.mfa = c]
  <2>1. [AnswerTo(t) EXCEPT !.what = "gate", !.mfa = c] \in Tab
    <3>1. AnswerTo(t) \in Tab
      BY <1>1, AnswerType
    <3> QED
      BY <3>1, <1>2 DEF Tab, Paths
  <2> QED
    BY <2>1
<1>4. /\ x.mfa = c /\ x.code = None /\ x.what = "gate" /\ x.pc = "answer"
      /\ x.hops = 0
  BY <1>3 DEF AnswerTo, Blank
<1>5. tabs' = [tabs EXCEPT ![t] = x]
  BY <1>2, <1>3 DEF LetThrough
<1>6. /\ proof' \in [Admins -> 0..MfaLife] /\ proof'[u] = 0
      /\ \A v \in Admins : proof'[v] <= proof[v]
  BY <1>1, MfaAssumption DEF Accepted
<1>7. TabGood(x)'
  BY <1>2, <1>4, <1>6, HopsValues, MfaAssumption
  DEF TabGood, CookieGood, Posts, Paths
<1>8. TypeOK
  BY DEF MfaInv
<1> QED
  BY <1>3, <1>5, <1>6, <1>7, <1>8, TabStep DEF TypeOK

-----------------------------------------------------------------------------
\* One lemma per actor.

\* The invariant holds initially.
LEMMA InitInv == Init => MfaInv
<1> SUFFICES ASSUME Init PROVE MfaInv
  OBVIOUS
<1>1. TypeOK
  BY BlankType, MfaAssumption DEF Init, TypeOK
<1>2. EnrolledSecretIsHeld /\ CookieGood(mfa)
  BY DEF Init, EnrolledSecretIsHeld, HasTOTP, CookieGood
<1>3. ASSUME NEW t \in Tabs
      PROVE  TabGood(tabs[t])
  BY DEF Init, Blank, TabGood, CookieGood, Posts
<1> QED
  BY <1>1, <1>2, <1>3 DEF MfaInv

\* The gate.
LEMMA GateInv ==
    ASSUME MfaInv, NEW t \in Tabs, RequireAdminMFA(t)
    PROVE  MfaInv'
<1> DEFINE what == IF Vouches(mfa, session) THEN "page"
                   ELSE IF HasTOTP(session) THEN "verify" ELSE "enroll"
<1>1. /\ tabs[t].pc = "server" /\ tabs[t].what = "gate"
      /\ Answer(t, what)
      /\ UNCHANGED <<session, totp, app, csrf, mfa, proof>>
  BY DEF RequireAdminMFA, Serving
<1>2. what \in {"page", "verify", "enroll"}
  OBVIOUS
<1>3. tabs[t].hops \in Int /\ tabs[t].hops <= 1
  BY <1>1, HopsValues DEF MfaInv, TypeOK, TabGood, Tab, MaxHops
<1> HIDE DEF what
<1>4. tabs[t].hops <= HopsTo[what] - (IF what \in Paths THEN 1 ELSE 0)
  BY <1>2, <1>3, HopsValues DEF Paths
<1> QED
  BY <1>1, <1>2, <1>4, AnswerInv DEF Paths

\* GET of the two forms.  The fresh secret is in nobody's app, and nobody
\* has enrolled it or computed a code from it.
LEMMA GetInv ==
    ASSUME MfaInv, NEW t \in Tabs
    PROVE  /\ VerifyGet(t) => MfaInv'
           /\ EnrollGet(t) => MfaInv'
<1>1. ASSUME VerifyGet(t)
      PROVE  MfaInv'
  <2>1. /\ tabs[t].pc = "server" /\ tabs[t].what = "verify"
        /\ UNCHANGED <<session, totp, app, csrf, mfa, proof>>
    BY <1>1 DEF VerifyGet, Serving
  <2>2. tabs[t].hops \in Int /\ tabs[t].hops <= 2
    BY <2>1, HopsValues DEF MfaInv, TypeOK, TabGood, Tab, MaxHops
  <2>3. CASE HasTOTP(session)
    <3>1. Render(t, "verifyForm", None)
      BY <1>1, <2>3 DEF VerifyGet
    <3>2. app' \in SUBSET Secrets /\ EnrolledSecretIsHeld'
      BY <2>1 DEF MfaInv, TypeOK, EnrolledSecretIsHeld, HasTOTP
    <3> QED
      BY <2>1, <2>2, <3>1, <3>2, RenderInv
  <2>4. CASE ~HasTOTP(session)
    <3>1. Answer(t, "enroll")
      BY <1>1, <2>4 DEF VerifyGet
    <3>2. tabs[t].hops <= HopsTo["enroll"] - 1
      BY <2>2, HopsValues
    <3> QED
      BY <2>1, <3>1, <3>2, AnswerInv DEF Paths
  <2> QED
    BY <2>3, <2>4
<1>2. ASSUME EnrollGet(t)
      PROVE  MfaInv'
  <2>1. PICK secret \in NewSecrets :
          /\ Render(t, "enrollForm", secret)
          /\ app' = app \ {secret}
    BY <1>2 DEF EnrollGet
  <2>2. /\ tabs[t].pc = "server" /\ tabs[t].what = "enroll"
        /\ UNCHANGED <<session, totp, csrf, mfa, proof>>
    BY <1>2 DEF EnrollGet, Serving
  <2>3. /\ secret \in Secrets
        /\ \A u \in Admins : totp[u] # secret
        /\ \A z \in Tabs : tabs[z].code # secret
    BY DEF NewSecrets
  <2>4. tabs[t].hops <= 3
    BY <2>2, HopsValues DEF MfaInv, TabGood
  <2>5. app' \in SUBSET Secrets /\ EnrolledSecretIsHeld'
    BY <2>1, <2>2, <2>3 DEF MfaInv, TypeOK, EnrolledSecretIsHeld, HasTOTP
  <2>6. \A z \in Tabs : tabs[z].code \in app => tabs[z].code \in app'
    BY <2>1, <2>3
  <2> QED
    BY <2>1, <2>2, <2>3, <2>4, <2>5, <2>6, RenderInv
<1> QED
  BY <1>1, <1>2

\* A posted form is of a known admin, and its first answer.
LEMMA PostFields ==
    ASSUME MfaInv, NEW t \in Tabs, tabs[t].what \in Posts
    PROVE  /\ tabs[t] \in Tab
           /\ tabs[t].pc = "server"
           /\ tabs[t].as \in Admins
           /\ tabs[t].hops = 0
<1>1. tabs[t] \in Tab /\ TabGood(tabs[t])
  BY DEF MfaInv, TypeOK
<1>2. tabs[t].hops \in 0..MaxHops + 1
  BY <1>1 DEF Tab
<1> QED
  BY <1>1, <1>2, HopsValues DEF TabGood, Tab, MaxHops

\* Verification.
LEMMA VerifyInv ==
    ASSUME MfaInv, NEW t \in Tabs
    PROVE  /\ VerifyPost(t) => MfaInv'
           /\ CheckCode(t) => MfaInv'
<1>1. ASSUME VerifyPost(t)
      PROVE  MfaInv'
  <2>1. /\ tabs[t].what = "postVerify"
        /\ UNCHANGED <<session, totp, app, csrf, mfa, proof>>
    BY <1>1 DEF VerifyPost, Serving
  <2>2. /\ tabs[t] \in Tab /\ tabs[t].pc = "server"
        /\ tabs[t].as \in Admins /\ tabs[t].hops = 0
    BY <2>1, PostFields DEF Posts
  <2>3. app' \in SUBSET Secrets /\ EnrolledSecretIsHeld'
    BY <2>1 DEF MfaInv, TypeOK, EnrolledSecretIsHeld, HasTOTP
  <2>4. CASE Answer(t, "enroll")
    BY <2>1, <2>2, <2>4, HopsValues, AnswerInv DEF Paths
  <2>5. CASE Render(t, "verifyForm", None)
    BY <2>1, <2>2, <2>3, <2>5, RenderInv
  <2>6. CASE tabs' = [tabs EXCEPT ![t].what = "checkCode"]
    <3>1. PICK x \in Tab : x = [tabs[t] EXCEPT !.what = "checkCode"]
      <4>1. [tabs[t] EXCEPT !.what = "checkCode"] \in Tab
        BY <2>2 DEF Tab, Posts
      <4> QED
        BY <4>1
    <3>2. /\ x.mfa = tabs[t].mfa /\ x.code = tabs[t].code
          /\ x.what = "checkCode" /\ x.pc = "server"
          /\ x.as = tabs[t].as /\ x.hops = 0
      BY <2>2, <3>1 DEF Tab
    <3>3. TabGood(tabs[t])
      BY DEF MfaInv
    <3>4. TabGood(x)
      BY <2>2, <3>2, <3>3, HopsValues, MfaAssumption DEF TabGood, Posts
    <3>5. TabGood(x)'
      BY <2>1, <3>4 DEF TabGood, CookieGood
    <3>6. tabs' = [tabs EXCEPT ![t] = x]
      BY <2>6, <3>1
    <3>7. \A u \in Admins : proof[u] <= proof[u]
      BY DEF MfaInv, TypeOK
    <3> QED
      BY <2>1, <2>3, <3>5, <3>6, <3>7, TabStep DEF MfaInv, TypeOK
  <2> QED
    BY <1>1, <2>4, <2>5, <2>6 DEF VerifyPost
<1>2. ASSUME CheckCode(t)
      PROVE  MfaInv'
  <2>1. /\ tabs[t].what = "checkCode"
        /\ UNCHANGED <<session, totp, app, csrf, mfa>>
    BY <1>2 DEF CheckCode, Serving
  <2>2. tabs[t].as \in Admins /\ tabs[t].hops = 0
    BY <2>1, PostFields DEF Posts
  <2>3. /\ totp' \in [Admins -> Secrets \cup {None}]
        /\ app' \in SUBSET Secrets /\ EnrolledSecretIsHeld'
    BY <2>1 DEF MfaInv, TypeOK, EnrolledSecretIsHeld, HasTOTP
  <2>4. CASE /\ CodeOf(tabs[t].as, tabs[t].code)
             /\ LetThrough(t) /\ Accepted(tabs[t].as, tabs[t].code)
    BY <2>1, <2>2, <2>3, <2>4, LetThroughInv DEF CodeOf
  <2>5. CASE Render(t, "verifyForm", None) /\ UNCHANGED proof
    BY <2>1, <2>2, <2>3, <2>5, RenderInv
  <2> QED
    BY <1>2, <2>4, <2>5 DEF CheckCode
<1> QED
  BY <1>1, <1>2

\* Enrolment: the code that is verified shows that an app has the secret.
LEMMA EnrollInv ==
    ASSUME MfaInv, NEW t \in Tabs, EnrollPost(t)
    PROVE  MfaInv'
<1>1. /\ tabs[t].what = "postEnroll"
      /\ UNCHANGED <<session, app, csrf, mfa>>
  BY DEF EnrollPost, Serving
<1>2. /\ tabs[t] \in Tab /\ tabs[t].as \in Admins /\ tabs[t].hops = 0
  BY <1>1, PostFields DEF Posts
<1>3. tabs[t].code # None => tabs[t].code \in app
  BY DEF MfaInv, TabGood
<1>4. CASE /\ tabs[t].code # None /\ tabs[t].code = tabs[t].secret
           /\ totp' = [totp EXCEPT ![tabs[t].as] = tabs[t].secret]
           /\ LetThrough(t) /\ Accepted(tabs[t].as, tabs[t].code)
  <2>1. /\ tabs[t].secret \in Secrets /\ tabs[t].secret \in app
        /\ tabs[t].secret # None
    BY <1>2, <1>3, <1>4 DEF Tab
  <2>2. /\ totp' \in [Admins -> Secrets \cup {None}]
        /\ totp'[tabs[t].as] = tabs[t].secret
        /\ \A u \in Admins : totp'[u] \in {totp[u], tabs[t].secret}
    BY <1>2, <1>4, <2>1 DEF MfaInv, TypeOK
  <2>3. EnrolledSecretIsHeld'
    BY <1>1, <2>1, <2>2 DEF MfaInv, EnrolledSecretIsHeld, HasTOTP
  <2> QED
    BY <1>1, <1>2, <1>4, <2>2, <2>3, LetThroughInv
<1>5. CASE /\ Render(t, "enrollForm", tabs[t].secret)
           /\ UNCHANGED <<totp, proof>>
  <2>1. /\ app' \in SUBSET Secrets /\ EnrolledSecretIsHeld'
    BY <1>1, <1>5 DEF MfaInv, TypeOK, EnrolledSecretIsHeld, HasTOTP
  <2>2. tabs[t].secret \in Secrets \cup {None}
    BY <1>2 DEF Tab
  <2> QED
    BY <1>1, <1>2, <1>5, <2>1, <2>2, RenderInv
<1> QED
  BY <1>4, <1>5 DEF EnrollPost

\* A request without a form, after so many redirects.
LEMMA AsksGood ==
    ASSUME NEW path \in Paths
    PROVE  /\ Asks(path) \in Tab
           /\ Asks(path).pc = "server" /\ Asks(path).what = path
           /\ Asks(path).mfa = None /\ Asks(path).code = None
           /\ Asks(path).hops = 0
<1>1. Asks(path) \in Tab
  BY BlankType DEF Asks, Tab
<1> QED
  BY <1>1 DEF Asks, Blank

\* The user.
LEMMA UserInv ==
    ASSUME MfaInv, NEW t \in Tabs
    PROVE  /\ \A path \in Paths : Open(t, path) => MfaInv'
           /\ \A code \in Secrets \cup {None} : Submit(t, code) => MfaInv'
<1>1. \A u \in Admins : proof[u] <= proof[u]
  BY DEF MfaInv, TypeOK
<1>2. ASSUME NEW path \in Paths, Open(t, path)
      PROVE  MfaInv'
  <2>1. /\ tabs' = [tabs EXCEPT ![t] = Asks(path)]
        /\ UNCHANGED <<session, totp, app, csrf, mfa, proof>>
    BY <1>2 DEF Open
  <2>2. PICK x \in Tab : x = Asks(path)
    BY AsksGood
  <2>3. TabGood(x)'
    BY <2>2, AsksGood, HopsValues DEF TabGood, CookieGood, Posts, Paths
  <2>4. EnrolledSecretIsHeld'
    BY <2>1 DEF MfaInv, EnrolledSecretIsHeld, HasTOTP
  <2> QED
    BY <1>1, <2>1, <2>2, <2>3, <2>4, TabStep DEF MfaInv, TypeOK
<1>3. ASSUME NEW code \in Secrets \cup {None}, Submit(t, code)
      PROVE  MfaInv'
  <2>1. PICK what \in {"postVerify", "postEnroll"}, ok \in BOOLEAN :
          tabs' = [tabs EXCEPT ![t] =
              [Blank EXCEPT !.pc = "server", !.what = what, !.as = session,
                            !.secret = tabs[t].secret, !.code = code, !.ok = ok]]
    BY <1>3 DEF Submit
  <2>2. /\ app' = app \cup ({code} \ {None})
        /\ UNCHANGED <<session, totp, csrf, mfa, proof>>
    BY <1>3 DEF Submit
  <2>3. tabs[t].secret \in Secrets \cup {None} /\ session \in Admins
    BY DEF MfaInv, TypeOK, Tab
  <2>4. PICK x \in Tab :
          x = [Blank EXCEPT !.pc = "server", !.what = what, !.as = session,
                            !.secret = tabs[t].secret, !.code = code, !.ok = ok]
    <3>1. [Blank EXCEPT !.pc = "server", !.what = what, !.as = session,
                        !.secret = tabs[t].secret, !.code = code, !.ok = ok] \in Tab
      BY <2>3, BlankType DEF Blank, Tab, Posts
    <3> QED
      BY <3>1
  <2>5. /\ x.mfa = None /\ x.code = code /\ x.pc = "server" /\ x.what = what
        /\ x.as = session /\ x.hops = 0
    BY <2>4 DEF Blank
  <2>6. TabGood(x)'
    BY <2>2, <2>3, <2>5, HopsValues, MfaAssumption DEF TabGood, CookieGood, Posts
  <2>7. app' \in SUBSET Secrets /\ EnrolledSecretIsHeld'
    BY <2>2 DEF MfaInv, TypeOK, EnrolledSecretIsHeld, HasTOTP
  <2>8. tabs' = [tabs EXCEPT ![t] = x]
    BY <2>1, <2>4
  <2> QED
    BY <1>1, <2>2, <2>4, <2>6, <2>7, <2>8, TabStep DEF MfaInv, TypeOK
<1> QED
  BY <1>2, <1>3

\* The browser: the cookie of an answer moves from the tab to the jar, and a
\* redirect counts one more.
LEMMA ReceiveInv ==
    ASSUME MfaInv, NEW t \in Tabs, Receive(t)
    PROVE  MfaInv'
<1>1. /\ tabs[t].pc = "answer"
      /\ csrf' = IF tabs[t].csrf # None THEN tabs[t].csrf ELSE csrf
      /\ mfa' = IF tabs[t].mfa # None THEN tabs[t].mfa ELSE mfa
      /\ tabs' = [tabs EXCEPT ![t] =
            IF tabs[t].what \in Paths
            THEN [Asks(tabs[t].what) EXCEPT
                     !.hops = IF tabs[t].hops > MaxHops THEN tabs[t].hops
                                                        ELSE tabs[t].hops + 1]
            ELSE [tabs[t] EXCEPT !.pc = "user", !.mfa = None, !.hops = 0]]
      /\ UNCHANGED <<session, totp, app, proof>>
  BY DEF Receive
<1>2. /\ tabs[t] \in Tab /\ TabGood(tabs[t]) /\ tabs \in [Tabs -> Tab]
  BY DEF MfaInv, TypeOK
<1>3. tabs[t].what \notin Posts
  BY <1>1, <1>2 DEF TabGood
<1>4. PICK x \in Tab :
        /\ tabs' = [tabs EXCEPT ![t] = x]
        /\ x.mfa = None
        /\ x.code # None => x.code = tabs[t].code
        /\ x.what \notin Posts
        /\ x.pc \in {"user", "server"}
        /\ x.pc = "user" => x.hops = 0
        /\ x.pc = "server" => x.hops <= HopsTo[x.what]
  <2>1. CASE tabs[t].what \in Paths
    <3>1. tabs[t].hops \in Nat /\ tabs[t].hops <= HopsTo[tabs[t].what] - 1
      BY <1>1, <1>2, <2>1 DEF TabGood, Tab, MaxHops
    <3>2. HopsTo[tabs[t].what] \in Nat /\ HopsTo[tabs[t].what] <= 3
      BY <2>1, HopsValues DEF Paths
    <3> DEFINE x == [Asks(tabs[t].what) EXCEPT !.hops = tabs[t].hops + 1]
    <3>3. tabs' = [tabs EXCEPT ![t] = x]
      <4>1. tabs[t].hops <= MaxHops /\ ~(tabs[t].hops > MaxHops)
        BY <3>1, <3>2 DEF MaxHops
      <4> QED
        BY <1>1, <2>1, <4>1
    <3>4. x \in Tab
      <4>1. tabs[t].hops + 1 \in 0..MaxHops + 1
        BY <3>1, <3>2 DEF MaxHops
      <4> QED
        BY <2>1, <4>1, AsksGood DEF Tab
    <3>5. /\ x.mfa = None /\ x.code = None /\ x.what = tabs[t].what
          /\ x.pc = "server" /\ x.hops = tabs[t].hops + 1
      BY <2>1, AsksGood DEF Asks, Blank
    <3>6. HopsTo[x.what] = HopsTo[tabs[t].what] /\ x.hops <= HopsTo[x.what]
      BY <3>1, <3>2, <3>5
    <3>7. x.what \notin Posts /\ x.pc # "user"
      BY <1>3, <3>5
    <3> HIDE DEF x
    <3> QED
      BY <3>3, <3>4, <3>5, <3>6, <3>7
  <2>2. CASE tabs[t].what \notin Paths
    <3> DEFINE x == [tabs[t] EXCEPT !.pc = "user", !.mfa = None, !.hops = 0]
    <3>1. tabs' = [tabs EXCEPT ![t] = x]
      BY <1>1, <2>2
    <3>2. x \in Tab
      <4>1. 0 \in 0..MaxHops + 1
        BY DEF MaxHops
      <4>2. tabs[t] \in Tab
        BY <1>2
      <4> QED
        BY <4>1, <4>2 DEF Tab
    <3>3. /\ x.mfa = None /\ x.code = tabs[t].code /\ x.what = tabs[t].what
          /\ x.pc = "user" /\ x.hops = 0
      BY <1>2 DEF Tab
    <3> HIDE DEF x
    <3> QED
      BY <1>3, <3>1, <3>2, <3>3
  <2> QED
    BY <2>1, <2>2
<1>5. TypeOK'
  BY <1>1, <1>2, <1>4 DEF MfaInv, TypeOK, Tab
<1>6. EnrolledSecretIsHeld'
  BY <1>1 DEF MfaInv, EnrolledSecretIsHeld, HasTOTP
<1>7. CookieGood(mfa)'
  BY <1>1, <1>2 DEF MfaInv, TabGood, CookieGood
<1>8. ASSUME NEW z \in Tabs
      PROVE  TabGood(tabs[z])'
  <2>1. CASE z = t
    <3>1. tabs'[z] = x
      BY <1>2, <1>4, <2>1
    <3>2. x.code # None => x.code \in app'
      BY <1>1, <1>2, <1>4 DEF TabGood
    <3> QED
      BY <1>4, <3>1, <3>2 DEF TabGood, CookieGood
  <2>2. CASE z # t
    <3>1. tabs'[z] = tabs[z] /\ TabGood(tabs[z])
      BY <1>4, <2>2 DEF MfaInv, TypeOK
    <3>2. CookieGood(tabs[z].mfa)'
      BY <1>1, <3>1 DEF TabGood, CookieGood
    <3>3. tabs[z].code # None => tabs[z].code \in app'
      BY <1>1, <3>1 DEF TabGood
    <3> QED
      BY <3>1, <3>2, <3>3 DEF TabGood
  <2> QED
    BY <2>1, <2>2
<1> QED
  BY <1>5, <1>6, <1>7, <1>8 DEF MfaInv

\* The user store, elsewhere: the cookies and the times stay as they are.
LEMMA StoreInv ==
    ASSUME MfaInv, NEW u \in Admins
    PROVE  /\ EnrollElsewhere(u) => MfaInv'
           /\ ClearTOTPSecret(u) => MfaInv'
<1>1. ASSUME EnrollElsewhere(u)
      PROVE  MfaInv'
  <2>1. PICK secret \in NewSecrets :
          /\ totp' = [totp EXCEPT ![u] = secret]
          /\ app' = app \cup {secret}
    BY <1>1 DEF EnrollElsewhere
  <2>2. secret \in Secrets /\ UNCHANGED <<session, csrf, mfa, tabs, proof>>
    BY <1>1 DEF EnrollElsewhere, NewSecrets
  <2>3. TypeOK'
    BY <2>1, <2>2 DEF MfaInv, TypeOK
  <2>4. EnrolledSecretIsHeld'
    BY <2>1, <2>2 DEF MfaInv, TypeOK, EnrolledSecretIsHeld, HasTOTP
  <2>5. CookieGood(mfa)'
    BY <2>2 DEF MfaInv, CookieGood
  <2>6. ASSUME NEW z \in Tabs
        PROVE  TabGood(tabs[z])'
    <3>1. TabGood(tabs[z])
      BY DEF MfaInv, TypeOK
    <3>2. CookieGood(tabs[z].mfa)'
      BY <2>2, <3>1 DEF TabGood, CookieGood
    <3> QED
      BY <2>1, <2>2, <3>1, <3>2 DEF TabGood
  <2> QED
    BY <2>3, <2>4, <2>5, <2>6 DEF MfaInv
<1>2. ASSUME ClearTOTPSecret(u)
      PROVE  MfaInv'
  <2>1. totp' = [totp EXCEPT ![u] = None]
    BY <1>2 DEF ClearTOTPSecret
  <2>2. UNCHANGED <<session, app, csrf, mfa, tabs, proof>>
    BY <1>2 DEF ClearTOTPSecret
  <2>3. TypeOK' /\ EnrolledSecretIsHeld'
    BY <2>1, <2>2 DEF MfaInv, TypeOK, EnrolledSecretIsHeld, HasTOTP
  <2>4. CookieGood(mfa)' /\ \A t \in Tabs : TabGood(tabs[t])'
    BY <2>2 DEF MfaInv, TabGood, CookieGood
  <2> QED
    BY <2>3, <2>4 DEF MfaInv
<1> QED
  BY <1>1, <1>2

\* Another session in the browser touches none of this.
LEMMA SwitchInv ==
    ASSUME MfaInv, NEW u \in Admins, SwitchSession(u)
    PROVE  MfaInv'
<1>1. session' = u /\ UNCHANGED <<totp, app, csrf, mfa, tabs, proof>>
  BY DEF SwitchSession
<1>2. TypeOK' /\ EnrolledSecretIsHeld'
  BY <1>1 DEF MfaInv, TypeOK, EnrolledSecretIsHeld, HasTOTP
<1>3. CookieGood(mfa)' /\ \A t \in Tabs : TabGood(tabs[t])'
  BY <1>1 DEF MfaInv, TabGood, CookieGood
<1> QED
  BY <1>2, <1>3 DEF MfaInv

\* Time: a cookie loses the tick that its code gains.
LEMMA AdvanceInv ==
    ASSUME MfaInv, Advance
    PROVE  MfaInv'
<1>1. /\ mfa' = Older(mfa)
      /\ tabs' = [t \in Tabs |-> [tabs[t] EXCEPT !.mfa = Older(tabs[t].mfa)]]
      /\ proof' = [v \in Admins |-> IF proof[v] = MfaLife THEN MfaLife ELSE proof[v] + 1]
      /\ UNCHANGED <<session, totp, app, csrf>>
  BY DEF Advance
<1>2. proof \in [Admins -> 0..MfaLife]
  BY DEF MfaInv, TypeOK
<1>3. proof' \in [Admins -> 0..MfaLife]
  BY <1>1, <1>2, MfaAssumption
<1>4. ASSUME NEW c \in MfaCookie \cup {None}, CookieGood(c)
      PROVE  /\ Older(c) \in MfaCookie \cup {None}
             /\ \A d : d = Older(c) => CookieGood(d)'
  <2>1. CASE c # None /\ c.left > 0
    <3>1. c.sub \in Admins /\ c.left \in 0..MfaLife /\ c \in MfaCookie
      BY <2>1 DEF MfaCookie
    <3>2. c.left - 1 \in 0..MfaLife
      BY <2>1, <3>1, MfaAssumption
    <3>3. /\ Older(c) \in MfaCookie
          /\ Older(c).sub = c.sub /\ Older(c).left = c.left - 1
      BY <2>1, <3>1, <3>2 DEF Older, MfaCookie
    <3>4. proof[c.sub] + c.left <= MfaLife
      BY <1>4, <2>1 DEF CookieGood
    <3>5. proof'[c.sub] = proof[c.sub] + 1
      BY <1>1, <1>2, <2>1, <3>1, <3>4, MfaAssumption
    <3>6. proof'[c.sub] + (c.left - 1) <= MfaLife
      BY <1>2, <3>1, <3>4, <3>5, MfaAssumption
    <3> QED
      BY <1>1, <1>4, <2>1, <3>3, <3>6 DEF CookieGood
  <2>2. CASE ~(c # None /\ c.left > 0)
    <3>1. Older(c) = c
      BY <2>2 DEF Older
    <3> QED
      BY <1>1, <1>4, <2>2, <3>1 DEF CookieGood
  <2> QED
    BY <2>1, <2>2
<1>5. EnrolledSecretIsHeld'
  BY <1>1 DEF MfaInv, EnrolledSecretIsHeld, HasTOTP
<1>6. PICK e \in MfaCookie \cup {None} : e = mfa' /\ CookieGood(e)'
  BY <1>1, <1>4 DEF MfaInv, TypeOK
<1>7. CookieGood(mfa)'
  BY <1>6 DEF CookieGood
<1>8. ASSUME NEW z \in Tabs
      PROVE  tabs'[z] \in Tab /\ TabGood(tabs[z])'
  <2>1. tabs[z] \in Tab /\ TabGood(tabs[z])
    BY DEF MfaInv, TypeOK
  <2>2. PICK d \in MfaCookie \cup {None} : d = Older(tabs[z].mfa) /\ CookieGood(d)'
    BY <1>4, <2>1 DEF Tab, TabGood
  <2>3. PICK x \in Tab : x = [tabs[z] EXCEPT !.mfa = d]
    <3>1. [tabs[z] EXCEPT !.mfa = d] \in Tab
      BY <2>1 DEF Tab
    <3> QED
      BY <3>1
  <2>4. tabs'[z] = x
    BY <1>1, <2>2, <2>3
  <2>5. /\ x.mfa = d /\ x.code = tabs[z].code /\ x.what = tabs[z].what
        /\ x.pc = tabs[z].pc /\ x.as = tabs[z].as /\ x.hops = tabs[z].hops
    BY <2>1, <2>3 DEF Tab
  <2>6. CookieGood(x.mfa)'
    BY <2>2, <2>5 DEF CookieGood
  <2>7. TabGood(x)'
    BY <1>1, <2>1, <2>5, <2>6 DEF TabGood
  <2> QED
    BY <2>4, <2>7 DEF TabGood, CookieGood
<1>9. TypeOK'
  BY <1>1, <1>3, <1>6, <1>8 DEF MfaInv, TypeOK
<1> QED
  BY <1>5, <1>7, <1>8, <1>9 DEF MfaInv

-----------------------------------------------------------------------------
\* The invariant, and what follows from it.

\* It is inductive.
LEMMA NextInv == MfaInv /\ [Next]_vars => MfaInv'
<1> SUFFICES ASSUME MfaInv, [Next]_vars PROVE MfaInv'
  OBVIOUS
<1>1. ASSUME NEW t \in Tabs, Serve(t)
      PROVE  MfaInv'
  BY <1>1, GateInv, GetInv, VerifyInv, EnrollInv DEF Serve
<1>2. CASE UNCHANGED vars
  <2>1. UNCHANGED <<session, totp, app, csrf, mfa, tabs, proof>>
    BY <1>2 DEF vars
  <2>2. TypeOK' /\ EnrolledSecretIsHeld'
    BY <2>1 DEF MfaInv, TypeOK, EnrolledSecretIsHeld, HasTOTP
  <2>3. CookieGood(mfa)' /\ \A t \in Tabs : TabGood(tabs[t])'
    BY <2>1 DEF MfaInv, TabGood, CookieGood
  <2> QED
    BY <2>2, <2>3 DEF MfaInv
<1> QED
  BY <1>1, <1>2, UserInv, SwitchInv, ReceiveInv, StoreInv, AdvanceInv DEF Next

\* It is an invariant of the specification.
LEMMA InvHolds == Spec => []MfaInv
<1> QED
  BY InitInv, NextInv, PTL DEF Spec

\* The types hold; in particular every cookie names an admin
\* (MintAdminMFAToken in handlers_admin_mfa.go).
THEOREM TypeCorrect == Spec => []TypeOK
<1>1. MfaInv => TypeOK
  BY DEF MfaInv
<1> QED
  BY <1>1, InvHolds, PTL

\* No admin is locked out by a form: the secret that handlers_admin_mfa.go
\* enrols was verified first, so an app has it.
THEOREM NobodyLockedOut == Spec => []EnrolledSecretIsHeld
<1>1. MfaInv => EnrolledSecretIsHeld
  BY DEF MfaInv
<1> QED
  BY <1>1, InvHolds, PTL

\* The redirects between the gate, verification and enrolment end.
THEOREM RedirectsAreBounded == Spec => []RedirectsEnd
<1>1. MfaInv => RedirectsEnd
  <2> SUFFICES ASSUME MfaInv, NEW t \in Tabs
               PROVE  tabs[t].hops <= MaxHops
    BY DEF RedirectsEnd
  <2>1. tabs[t] \in Tab /\ TabGood(tabs[t])
    BY DEF MfaInv, TypeOK
  <2>2. tabs[t].what \in Pages \cup Paths \cup Posts
    BY <2>1 DEF Tab
  <2>3. HopsTo[tabs[t].what] \in 0..3
    BY <2>2, HopsValues DEF Pages, Paths
  <2>4. tabs[t].pc \in {"user", "server", "answer"} /\ tabs[t].hops \in 0..MaxHops + 1
    BY <2>1 DEF Tab
  <2> QED
    BY <2>1, <2>3, <2>4 DEF TabGood, MaxHops
<1> QED
  BY <1>1, InvHolds, PTL

\* RequireAdminMFA runs the inner handler only for an admin whose secret in
\* the store a code has matched within the life of the cookie.
THEOREM GateIsRecent == Spec => GateNeedsRecentCode
<1>1. MfaInv /\ [Next]_vars =>
        [\A t \in Tabs :
            RequireAdminMFA(t) /\ tabs'[t].what = "page" => proof[session] < MfaLife]_vars
  <2> SUFFICES ASSUME MfaInv, NEW t \in Tabs, RequireAdminMFA(t),
                      tabs'[t].what = "page"
               PROVE  proof[session] < MfaLife
    OBVIOUS
  <2> DEFINE what == IF Vouches(mfa, session) THEN "page"
                     ELSE IF HasTOTP(session) THEN "verify" ELSE "enroll"
  <2>1. tabs' = [tabs EXCEPT ![t] = [AnswerTo(t) EXCEPT !.what = what]]
    BY DEF RequireAdminMFA, Answer
  <2>2. tabs \in [Tabs -> Tab]
    BY DEF MfaInv, TypeOK
  <2>3. [AnswerTo(t) EXCEPT !.what = what].what = what
    BY DEF AnswerTo, Blank
  <2>4. what = "page"
    <3> HIDE DEF what
    <3> QED
      BY <2>1, <2>2, <2>3
  <2>5. Vouches(mfa, session)
    BY <2>4
  <2>6. /\ mfa # None /\ mfa.left > 0 /\ mfa.sub = session
        /\ CookieGood(mfa) /\ mfa \in MfaCookie
    BY <2>5 DEF Vouches, MfaInv, TypeOK
  <2>7. mfa.left \in 0..MfaLife /\ proof[session] \in 0..MfaLife
    BY <2>6 DEF MfaInv, TypeOK, MfaCookie
  <2> QED
    BY <2>6, <2>7, MfaAssumption DEF CookieGood
<1> QED
  BY <1>1, InvHolds, PTL DEF Spec, GateNeedsRecentCode
=============================================================================
