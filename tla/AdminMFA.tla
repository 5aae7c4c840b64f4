------------------------------ MODULE AdminMFA ------------------------------
(***************************************************************************)
(* The second factor of administrators (handlers_admin_mfa.go): the gate   *)
(* before admin pages, enrolment and verification, as one browser with     *)
(* several tabs meets them while the user store changes elsewhere.         *)
(*                                                                         *)
(* A request is served in the steps at which it touches the user store; a  *)
(* request without a form takes its cookies along when it is served, a     *)
(* form when it is submitted.  Answers wait until the browser receives     *)
(* them, in any order over the tabs, and set their cookies then.           *)
(* The cookies belong to the browser, the forms to their tabs.             *)
(*                                                                         *)
(* A code stands for the secret it was computed from; one that is mistyped *)
(* or out of its time step is None.  The names of secrets and CSRF tokens  *)
(* are reused once nothing carries them: fresh ones are random.            *)
(***************************************************************************)
EXTENDS Integers

CONSTANTS
    Admins,
    Tabs,
    Secrets,     \* the TOTP secrets GenerateTOTPSecret may return
    CsrfTokens,  \* the values generateCSRFToken may return
    MfaLife,     \* adminMFATokenExpiry
    None         \* no secret, token, cookie or code

ASSUME MfaAssumption ==
    /\ MfaLife \in Nat \ {0}
    /\ None \notin Admins \cup Secrets \cup CsrfTokens

VARIABLES
    session,  \* whose dashboard cookie the browser holds: email-in-ctx
    totp,     \* user store: per admin the enrolled secret
    app,      \* the secrets in the authenticator apps of the people
    csrf,     \* the cookie csrf_token_admin_mfa
    mfa,      \* the cookie kite_admin_mfa
    tabs,     \* per tab: what it shows, or the request or answer under way
    proof     \* history: per admin the time since a code was accepted that fits
              \* the secret the store then held for him

vars == <<session, totp, app, csrf, mfa, tabs, proof>>

\* A form leads to the gate, to verification and to enrolment.
MaxHops == 3

Pages == {"page", "verifyForm", "enrollForm"}
Paths == {"gate", "verify", "enroll"}
Posts == {"postVerify", "checkCode", "postEnroll"}

\* An MFA token, and how long it is still valid.
MfaCookie == [sub : Admins, left : 0..MfaLife]

\* pc says who is to move: the user before the page what, the server with the
\* request what for the admin as, the browser with an answer that brings a
\* page or redirects to a path.  ok: the CSRF cookie matched the posted form.
\* hops is history: the redirects the browser has followed since the click.
Tab == [pc : {"user", "server", "answer"},
        what : Pages \cup Paths \cup Posts,
        as : Admins \cup {None},
        csrf : CsrfTokens \cup {None},
        secret : Secrets \cup {None},
        code : Secrets \cup {None},
        ok : BOOLEAN,
        mfa : MfaCookie \cup {None},
        hops : 0..MaxHops + 1]

Blank == [pc |-> "user", what |-> "page", as |-> None, csrf |-> None,
          secret |-> None, code |-> None, ok |-> FALSE, mfa |-> None, hops |-> 0]

HasTOTP(u) == totp[u] # None

NewCsrf(t) ==
    CsrfTokens \ ({csrf} \cup {tabs[x].csrf : x \in Tabs \ {t}})

NewSecrets ==
    Secrets \ ({totp[u] : u \in Admins} \cup {tabs[t].secret : t \in Tabs}
               \cup {tabs[t].code : t \in Tabs})

Init ==
    /\ session \in Admins
    /\ totp \in [Admins -> {None}]
    /\ app = {}
    /\ csrf = None
    /\ mfa = None
    /\ tabs = [t \in Tabs |-> Blank]
    /\ proof = [u \in Admins |-> MfaLife]

-----------------------------------------------------------------------------
\* The user

Asks(path) == [Blank EXCEPT !.pc = "server", !.what = path]

\* A link, a bookmark, the reload button.
Open(t, path) ==
    /\ tabs[t].pc = "user"
    /\ tabs' = [tabs EXCEPT ![t] = Asks(path)]
    /\ UNCHANGED <<session, totp, app, csrf, mfa, proof>>

\* The user types a code: of a secret in his app, of the one the form shows
\* him, which he has then scanned, or none that fits any.
Submit(t, code) ==
    LET form == tabs[t] IN
    /\ form.pc = "user"
    /\ form.what \in {"verifyForm", "enrollForm"}
    /\ code \in app \cup {form.secret, None}
    /\ app' = app \cup ({code} \ {None})
    /\ tabs' = [tabs EXCEPT ![t] =
           [Blank EXCEPT !.pc = "server",
                         !.what = IF form.what = "verifyForm" THEN "postVerify"
                                                              ELSE "postEnroll",
                         !.as = session,
                         !.secret = form.secret,
                         !.code = code,
                         !.ok = (csrf # None /\ csrf = form.csrf)]]
    /\ UNCHANGED <<session, totp, csrf, mfa, proof>>

\* Another admin logs in, in the same browser; the tabs stay as they are.
SwitchSession(u) ==
    /\ session' = u
    /\ UNCHANGED <<totp, app, csrf, mfa, tabs, proof>>

-----------------------------------------------------------------------------
\* The server

Serving(t, what) == tabs[t].pc = "server" /\ tabs[t].what = what

AnswerTo(t) == [Blank EXCEPT !.pc = "answer", !.hops = tabs[t].hops]

Answer(t, what) == tabs' = [tabs EXCEPT ![t] = [AnswerTo(t) EXCEPT !.what = what]]

\* serveAdminMFAEnrollForm and serveAdminMFAVerifyForm: the page, and a new
\* token in it and in the cookie the answer sets.
Render(t, form, secret) ==
    \E token \in NewCsrf(t) :
        tabs' = [tabs EXCEPT ![t] =
            [AnswerTo(t) EXCEPT !.what = form, !.csrf = token, !.secret = secret]]

MintAdminMFAToken(u) == [sub |-> u, left |-> MfaLife]

\* Mistake: the subject is taken from a context that has none.
LetThroughNobody(t) ==
    tabs' = [tabs EXCEPT ![t] =
        [AnswerTo(t) EXCEPT !.what = "gate", !.mfa = MintAdminMFAToken(Blank.as)]]

\* The cookie, and a redirect to where the user wanted to go.
LetThrough(t) ==
    tabs' = [tabs EXCEPT ![t] =
        [AnswerTo(t) EXCEPT !.what = "gate", !.mfa = MintAdminMFAToken(tabs[t].as)]]

\* Mistake: the subject of the cookie is not compared.
VouchesForAnyone(cookie, u) == cookie # None /\ cookie.left > 0

\* The cookie speaks for u now.
Vouches(cookie, u) == cookie # None /\ cookie.left > 0 /\ cookie.sub = u

RequireAdminMFA(t) ==
    /\ Serving(t, "gate")
    /\ Answer(t, IF Vouches(mfa, session) THEN "page"
                 ELSE IF HasTOTP(session) THEN "verify" ELSE "enroll")
    /\ UNCHANGED <<session, totp, app, csrf, mfa, proof>>

VerifyGet(t) ==
    /\ Serving(t, "verify")
    /\ IF HasTOTP(session) THEN Render(t, "verifyForm", None) ELSE Answer(t, "enroll")
    /\ UNCHANGED <<session, totp, app, csrf, mfa, proof>>

\* Mistake: as verification sends those who are not enrolled to enrolment,
\* enrolment sends those who are to verification.
EnrollGetOnce(t) ==
    /\ Serving(t, "enroll")
    /\ IF HasTOTP(session) THEN Answer(t, "verify") /\ UNCHANGED app
       ELSE \E secret \in NewSecrets :
                Render(t, "enrollForm", secret) /\ app' = app \ {secret}
    /\ UNCHANGED <<session, totp, csrf, mfa, proof>>

EnrollGet(t) ==
    /\ Serving(t, "enroll")
    /\ \E secret \in NewSecrets :
           /\ Render(t, "enrollForm", secret)
           /\ app' = app \ {secret}
    /\ UNCHANGED <<session, totp, csrf, mfa, proof>>

\* The first half of the POST: HasTOTP, then the CSRF token.
VerifyPost(t) ==
    /\ Serving(t, "postVerify")
    /\ IF ~HasTOTP(tabs[t].as) THEN Answer(t, "enroll")
       ELSE IF ~tabs[t].ok THEN Render(t, "verifyForm", None)
       ELSE tabs' = [tabs EXCEPT ![t].what = "checkCode"]
    /\ UNCHANGED <<session, totp, app, csrf, mfa, proof>>

\* The code, when there is one, belongs to the secret of u.
CodeOf(u, code) == code # None /\ code = totp[u]

\* After the step that settles totp': the code of the request is accepted.
Accepted(u, code) ==
    proof' = [proof EXCEPT ![u] = IF totp'[u] = code THEN 0 ELSE proof[u]]

\* The second half: VerifyTOTP, which may fail for reasons of its own.
CheckCode(t) ==
    /\ Serving(t, "checkCode")
    /\ UNCHANGED <<session, totp, app, csrf, mfa>>
    /\ \/ /\ CodeOf(tabs[t].as, tabs[t].code)
          /\ LetThrough(t)
          /\ Accepted(tabs[t].as, tabs[t].code)
       \/ /\ Render(t, "verifyForm", None)
          /\ UNCHANGED proof

\* Mistake: the secret is saved before the code is verified.
EnrollPostSavesFirst(t) ==
    LET post == tabs[t] IN
    /\ Serving(t, "postEnroll")
    /\ \/ /\ post.ok
          /\ totp' = [totp EXCEPT ![post.as] = post.secret]
          /\ IF post.code # None /\ post.code = post.secret
             THEN LetThrough(t) /\ Accepted(post.as, post.code)
             ELSE Render(t, "enrollForm", post.secret) /\ UNCHANGED proof
       \/ /\ Render(t, "enrollForm", post.secret)
          /\ UNCHANGED <<totp, proof>>
    /\ UNCHANGED <<session, app, csrf, mfa>>

\* Mistake: the cookie is minted although the store refused the secret.
EnrollPostUnsaved(t) ==
    LET post == tabs[t] IN
    /\ Serving(t, "postEnroll")
    /\ \/ /\ post.ok
          /\ post.code # None
          /\ post.code = post.secret
          /\ totp' \in {totp, [totp EXCEPT ![post.as] = post.secret]}
          /\ LetThrough(t)
          /\ Accepted(post.as, post.code)
       \/ /\ Render(t, "enrollForm", post.secret)
          /\ UNCHANGED <<totp, proof>>
    /\ UNCHANGED <<session, app, csrf, mfa>>

\* The CSRF token and the code against the posted secret, then SetTOTPSecret,
\* which may refuse.  A refused form comes back with the same secret.
EnrollPost(t) ==
    LET post == tabs[t] IN
    /\ Serving(t, "postEnroll")
    /\ \/ /\ post.ok
          /\ post.code # None
          /\ post.code = post.secret
          /\ totp' = [totp EXCEPT ![post.as] = post.secret]
          /\ LetThrough(t)
          /\ Accepted(post.as, post.code)
       \/ /\ Render(t, "enrollForm", post.secret)
          /\ UNCHANGED <<totp, proof>>
    /\ UNCHANGED <<session, app, csrf, mfa>>

Serve(t) ==
    \/ RequireAdminMFA(t)
    \/ VerifyGet(t)
    \/ EnrollGet(t)
    \/ VerifyPost(t)
    \/ CheckCode(t)
    \/ EnrollPost(t)

-----------------------------------------------------------------------------
\* The browser, the store, and time

\* An answer arrives: its cookies are set, its page shown or its redirect
\* followed.
Receive(t) ==
    LET answer == tabs[t] IN
    /\ answer.pc = "answer"
    /\ csrf' = IF answer.csrf # None THEN answer.csrf ELSE csrf
    /\ mfa' = IF answer.mfa # None THEN answer.mfa ELSE mfa
    /\ tabs' = [tabs EXCEPT ![t] =
           IF answer.what \in Paths
           THEN [Asks(answer.what) EXCEPT
                     !.hops = IF answer.hops > MaxHops THEN answer.hops
                                                       ELSE answer.hops + 1]
           ELSE [answer EXCEPT !.pc = "user", !.mfa = None, !.hops = 0]]
    /\ UNCHANGED <<session, totp, app, proof>>

\* On another device the admin enrols anew.
EnrollElsewhere(u) ==
    /\ \E secret \in NewSecrets :
           /\ totp' = [totp EXCEPT ![u] = secret]
           /\ app' = app \cup {secret}
    /\ UNCHANGED <<session, csrf, mfa, tabs, proof>>

\* Another administrator resets the second factor of u.  The cookies stay.
ClearTOTPSecret(u) ==
    /\ totp' = [totp EXCEPT ![u] = None]
    /\ UNCHANGED <<session, app, csrf, mfa, tabs, proof>>

Older(cookie) ==
    IF cookie # None /\ cookie.left > 0 THEN [cookie EXCEPT !.left = @ - 1] ELSE cookie

Advance ==
    /\ mfa' = Older(mfa)
    /\ tabs' = [t \in Tabs |-> [tabs[t] EXCEPT !.mfa = Older(@)]]
    /\ proof' = [u \in Admins |-> IF proof[u] = MfaLife THEN MfaLife ELSE proof[u] + 1]
    /\ UNCHANGED <<session, totp, app, csrf>>

Next ==
    \/ \E t \in Tabs, path \in Paths : Open(t, path)
    \/ \E t \in Tabs, code \in Secrets \cup {None} : Submit(t, code)
    \/ \E u \in Admins : SwitchSession(u)
    \/ \E t \in Tabs : Serve(t)
    \/ \E t \in Tabs : Receive(t)
    \/ \E u \in Admins : EnrollElsewhere(u)
    \/ \E u \in Admins : ClearTOTPSecret(u)
    \/ Advance

Spec == Init /\ [][Next]_vars

-----------------------------------------------------------------------------

TypeOK ==
    /\ session \in Admins
    /\ totp \in [Admins -> Secrets \cup {None}]
    /\ app \in SUBSET Secrets
    /\ csrf \in CsrfTokens \cup {None}
    /\ mfa \in MfaCookie \cup {None}
    /\ tabs \in [Tabs -> Tab]
    /\ proof \in [Admins -> 0..MfaLife]

\* Nobody is locked out: an enrolled secret is in an authenticator app,
\* whichever forms were open, refused, submitted again or overtaken.
EnrolledSecretIsHeld == \A u \in Admins : HasTOTP(u) => totp[u] \in app

\* The inner handler runs only for an admin whose secret in the store a code
\* has matched in the last fifteen minutes: neither another admin's code nor
\* one for a secret that was never saved opens the gate for him, whoever used
\* the browser and whatever was refused in between.
GateNeedsRecentCode ==
    [][\A t \in Tabs :
          RequireAdminMFA(t) /\ tabs'[t].what = "page" => proof[session] < MfaLife]_vars

\* handlers_admin_mfa.go:20: the gate checks that the "user has TOTP enrolled
\* (else redirect to /auth/admin-mfa/enroll)" and that the cookie is valid, and
\* "Only when all three hold does the request reach the inner handler".
GateNeedsEnrolment ==
    [][\A t \in Tabs :
          RequireAdminMFA(t) /\ tabs'[t].what = "page" => HasTOTP(session)]_vars

\* Every click ends at a page or a form after three redirects at most, of a
\* submitted form to the gate, verification and enrolment: they do not go
\* round, however the store changes between them.
RedirectsEnd == \A t \in Tabs : tabs[t].hops <= MaxHops

-----------------------------------------------------------------------------
\* The inductive invariant.

\* How many redirects may have led to a request; an answer that redirects
\* has one fewer behind it.
HopsTo == [what \in Pages \cup Paths \cup Posts |->
    CASE what = "gate" -> 1
      [] what = "verify" -> 2
      [] what \in Posts -> 0
      [] OTHER -> 3]

\* A cookie is no younger than the code that earned it.
CookieGood(c) ==
    c # None /\ c.left > 0 => proof[c.sub] + c.left <= MfaLife

\* A code under way was computed by an app that still knows its secret, and a
\* posted form carries the admin who posted it.
TabGood(x) ==
    /\ CookieGood(x.mfa)
    /\ x.code # None => x.code \in app
    /\ x.what \in Posts => x.pc = "server" /\ x.as # None
    /\ x.pc = "user" => x.hops = 0
    /\ x.pc = "server" => x.hops <= HopsTo[x.what]
    /\ x.pc = "answer" =>
          x.hops <= HopsTo[x.what] - (IF x.what \in Paths THEN 1 ELSE 0)

MfaInv ==
    /\ TypeOK
    /\ EnrolledSecretIsHeld
    /\ CookieGood(mfa)
    /\ \A t \in Tabs : TabGood(tabs[t])
=============================================================================
