----------------------------- MODULE KiteLogins -----------------------------
(***************************************************************************)
(* The browser login through Kite (handlers_browser.go): the login page,   *)
(* the form for the email, Kite, and the callback, in one browser with     *)
(* several tabs, while credentials change elsewhere.                       *)
(*                                                                         *)
(* The form and the callback each look up the Kite app of the email; what  *)
(* they share travels through Kite in the signed target of the login URL.  *)
(* A request takes its cookies along when it is served, a form when it is  *)
(* submitted.  Answers wait until the browser receives them, in any order  *)
(* over the tabs, or are lost, and set their cookies on arrival.  A token  *)
(* is fresh, so the browser's one matches the form it came with, if any.   *)
(***************************************************************************)
EXTENDS Integers

CONSTANTS
    Emails,      \* the emails that are typed or linked
    Accounts,    \* the emails of those who may log in at Kite
    Keys,        \* Kite apps; a key stands for its secret too
    GlobalKey,   \* config.KiteAPIKey
    Tabs,
    None

\* The server has an app of its own, for logins whose target is not valid.
ASSUME KiteAssumption == GlobalKey \in Keys

VARIABLES
    credentials,  \* exchanger: the app of every email
    registry,     \* key registry: the app registered for every email
    session,      \* whose dashboard cookie the browser holds
    csrf,         \* the cookie csrf_token: the tab whose form has this token
    tabs          \* per tab: what it shows, or the request or answer under way

vars == <<credentials, registry, session, csrf, tabs>>

Shown == {"start", "page", "choice", "form", "kite", "missing", "refused", "lost"}
Calls == {"visit", "loginChoice", "browserLogin", "postLogin", "callback", "exchange"}

\* pc says who is to move: the user before the page what, the server at the
\* call what, the browser with an answer that brings a page or, to a call,
\* redirects.  email is typed, or the one in the signed target; ok that the
\* posted token matched; key the app of the login URL and of the request
\* token, until that is exchanged, and who its account; app the one the
\* callback found; grants the account whose session the answer sets.
\* found and changed are history: where the form found the key, and that the
\* credentials of the email have changed since.
Tab == [pc : {"user", "server", "answer"},
        what : Shown \cup Calls,
        email : Emails \cup {None},
        ok : BOOLEAN,
        key : Keys \cup {None},
        who : Accounts \cup {None},
        app : Keys \cup {None},
        grants : Accounts \cup {None},
        found : {"credentials", "registry", None},
        changed : BOOLEAN]

Blank == [pc |-> "user", what |-> "start", email |-> None, ok |-> FALSE,
          key |-> None, who |-> None,
          app |-> None, grants |-> None, found |-> None, changed |-> FALSE]

Init ==
    /\ credentials \in [Emails -> Keys \cup {None}]
    /\ registry \in [Emails -> Keys \cup {None}]
    /\ session = None
    /\ csrf = None
    /\ tabs = [t \in Tabs |-> Blank]

-----------------------------------------------------------------------------
\* The user

Requests(call, email) ==
    [Blank EXCEPT !.pc = "server", !.what = call, !.email = email]

\* A protected page, from wherever he is; from the login page on to the form,
\* or to the form at once by a link that names the email.
Visit(t) ==
    /\ tabs[t].pc = "user"
    /\ tabs' = [tabs EXCEPT ![t] = Requests("visit", None)]
    /\ UNCHANGED <<credentials, registry, session, csrf>>

ChooseKite(t, email) ==
    /\ tabs[t].pc = "user" /\ tabs[t].what \in {"choice", "form"}
    /\ tabs' = [tabs EXCEPT ![t] = Requests("browserLogin", email)]
    /\ UNCHANGED <<credentials, registry, session, csrf>>

Submit(t, email) ==
    /\ tabs[t].pc = "user" /\ tabs[t].what = "form"
    /\ tabs' = [tabs EXCEPT ![t] =
           [Requests("postLogin", email) EXCEPT !.ok = (csrf = t)]]
    /\ UNCHANGED <<credentials, registry, session, csrf>>

\* Kite sends whoever logs in there back with a request token.  If it takes
\* too long, the signature of the target has expired.
ReturnFromKite(t, target) ==
    /\ tabs[t].pc = "user" /\ tabs[t].what = "kite"
    /\ \E account \in Accounts :
           tabs' = [tabs EXCEPT ![t] =
               [target EXCEPT !.pc = "server", !.what = "callback",
                              !.key = tabs[t].key, !.who = account]]
    /\ UNCHANGED <<credentials, registry, session, csrf>>

LogInAtKite(t) == ReturnFromKite(t, tabs[t])

LogInTooLate(t) == ReturnFromKite(t, Blank)

\* The reload button, with the request token of before.
Reload(t) ==
    /\ tabs[t].pc = "user" /\ tabs[t].what \in {"missing", "refused", "lost"}
    /\ tabs' = [tabs EXCEPT ![t].pc = "server", ![t].what = "callback"]
    /\ UNCHANGED <<credentials, registry, session, csrf>>

-----------------------------------------------------------------------------
\* The server

Serving(t, what) == tabs[t].pc = "server" /\ tabs[t].what = what

Answer(t, what) == tabs' = [tabs EXCEPT ![t].pc = "answer", ![t].what = what]

RequireAuthBrowser(t) ==
    /\ Serving(t, "visit")
    /\ Answer(t, IF session # None THEN "page" ELSE "loginChoice")
    /\ UNCHANGED <<credentials, registry, session, csrf>>

\* Whoever has a valid cookie skips the login page.
HandleLoginChoice(t) ==
    /\ Serving(t, "loginChoice")
    /\ Answer(t, IF session # None THEN "visit" ELSE "choice")
    /\ UNCHANGED <<credentials, registry, session, csrf>>

\* serveBrowserLoginForm: the page, a new token in it and in the cookie.
Render(t) == tabs' = [tabs EXCEPT ![t] = [Blank EXCEPT !.pc = "answer", !.what = "form"]]

\* Mistake: the registry first.
FoundInRegistry(email) ==
    IF registry[email] # None THEN <<"registry", registry[email]>>
    ELSE <<"credentials", credentials[email]>>

\* The credentials first, then the registry.
Found(email) ==
    IF credentials[email] # None THEN <<"credentials", credentials[email]>>
    ELSE <<"registry", registry[email]>>

\* GenerateBrowserLoginURL for the app of the email, or the form once more.
ToKite(t) ==
    LET email == tabs[t].email IN
    IF email # None /\ Found(email)[2] # None
    THEN tabs' = [tabs EXCEPT ![t] =
             [Blank EXCEPT !.pc = "answer", !.what = "kite", !.email = email,
                           !.found = Found(email)[1], !.key = Found(email)[2]]]
    ELSE Render(t)

BrowserLoginGet(t) ==
    /\ Serving(t, "browserLogin")
    /\ ToKite(t)
    /\ UNCHANGED <<credentials, registry, session, csrf>>

BrowserLoginPost(t) ==
    /\ Serving(t, "postLogin")
    /\ IF tabs[t].ok THEN ToKite(t) ELSE Render(t)
    /\ UNCHANGED <<credentials, registry, session, csrf>>

\* Mistake: the global app for everybody.
AuthCallbackGlobal(t) ==
    /\ Serving(t, "callback")
    /\ tabs' = [tabs EXCEPT ![t].what = "exchange", ![t].app = GlobalKey]
    /\ UNCHANGED <<credentials, registry, session, csrf>>

\* Without a valid target ExchangeRequestToken takes the global app.
AuthCallback(t) ==
    /\ Serving(t, "callback")
    /\ LET email == tabs[t].email
           app == IF email = None THEN GlobalKey ELSE credentials[email]
       IN IF app = None THEN Answer(t, "missing")
          ELSE tabs' = [tabs EXCEPT ![t].what = "exchange", ![t].app = app]
    /\ UNCHANGED <<credentials, registry, session, csrf>>

\* The answer of a callback after which the request token is worth nothing.
Spent(tab, what) ==
    [Blank EXCEPT !.pc = "answer", !.what = what, !.email = tab.email]

\* Mistake: the session is for the email of the target.
ExchangeForTarget(t) ==
    /\ Serving(t, "exchange")
    /\ tabs[t].app = tabs[t].key
    /\ tabs' = [tabs EXCEPT ![t] = [Spent(tabs[t], "visit") EXCEPT !.grants = tabs[t].email]]
    /\ UNCHANGED <<credentials, registry, session, csrf>>

\* Kite exchanges a token once, and for its own app only; the answer sets the
\* cookie and redirects to the page.
Exchange(t) ==
    /\ Serving(t, "exchange")
    /\ tabs[t].app = tabs[t].key
    /\ tabs' = [tabs EXCEPT ![t] = [Spent(tabs[t], "visit") EXCEPT !.grants = tabs[t].who]]
    /\ UNCHANGED <<credentials, registry, session, csrf>>

\* Any other token is refused; and the call may fail, before Kite has spent
\* the token or after.
ExchangeFails(t) ==
    /\ Serving(t, "exchange")
    /\ tabs' \in {[tabs EXCEPT ![t] = Spent(tabs[t], "refused")],
                  [tabs EXCEPT ![t].pc = "answer", ![t].what = "refused", ![t].app = None]}
    /\ UNCHANGED <<credentials, registry, session, csrf>>

Serve(t) ==
    \/ RequireAuthBrowser(t)
    \/ HandleLoginChoice(t)
    \/ BrowserLoginGet(t)
    \/ BrowserLoginPost(t)
    \/ AuthCallback(t)
    \/ Exchange(t)
    \/ ExchangeFails(t)

-----------------------------------------------------------------------------
\* The browser, the credentials, and time

\* A login URL, a failed login and a form stay in the tab; else nothing does.
After(answer) ==
    CASE answer.what \in Calls -> Requests(answer.what, None)
      [] answer.what \in {"page", "choice"} -> [Blank EXCEPT !.what = answer.what]
      [] OTHER -> [answer EXCEPT !.pc = "user"]

Receive(t) ==
    LET answer == tabs[t] IN
    /\ answer.pc = "answer"
    /\ session' = IF answer.grants # None THEN answer.grants ELSE session
    /\ csrf' = IF answer.what = "form" THEN t ELSE csrf
    /\ tabs' = [tabs EXCEPT ![t] = After(answer)]
    /\ UNCHANGED <<credentials, registry>>

\* The connection breaks.  A callback can be loaded again.
Lose(t) ==
    /\ tabs[t].pc = "answer"
    /\ tabs' = [tabs EXCEPT ![t] =
           IF @.what \in {"missing", "refused"} \/ @.grants # None
           THEN [@ EXCEPT !.pc = "user", !.what = "lost", !.grants = None]
           ELSE Blank]
    /\ UNCHANGED <<credentials, registry, session, csrf>>

\* The user connects another app through his MCP client, or his are removed.
ChangeCredentials(email, app) ==
    /\ credentials[email] # app
    /\ credentials' = [credentials EXCEPT ![email] = app]
    /\ tabs' = [t \in Tabs |->
           IF tabs[t].found # None /\ tabs[t].email = email
           THEN [tabs[t] EXCEPT !.changed = TRUE] ELSE tabs[t]]
    /\ UNCHANGED <<registry, session, csrf>>

ChangeRegistry(email, app) ==
    /\ registry[email] # app
    /\ registry' = [registry EXCEPT ![email] = app]
    /\ UNCHANGED <<credentials, session, csrf, tabs>>

Expire ==
    /\ session # None
    /\ session' = None
    /\ UNCHANGED <<credentials, registry, csrf, tabs>>

Clicks(t) ==
    \/ Visit(t)
    \/ \E email \in Emails \cup {None} : ChooseKite(t, email) \/ Submit(t, email)
    \/ LogInAtKite(t)
    \/ LogInTooLate(t)
    \/ Reload(t)

Disturb ==
    \/ \E email \in Emails, app \in Keys \cup {None} :
           ChangeCredentials(email, app) \/ ChangeRegistry(email, app)
    \/ Expire
    \/ \E t \in Tabs : Lose(t)

Next ==
    \/ \E t \in Tabs : Clicks(t)
    \/ \E t \in Tabs : Serve(t)
    \/ \E t \in Tabs : Receive(t)
    \/ Disturb

Spec == Init /\ [][Next]_vars

\* Requests are served and answered.  In one tab the user takes what leads on,
\* and what fails now and then succeeds at last.
PersistentTab == CHOOSE t \in Tabs : TRUE

GoesOn(t) ==
    \/ tabs[t].what \in {"start", "missing", "refused", "lost"} /\ Visit(t)
    \/ tabs[t].what = "choice" /\ ChooseKite(t, None)
    \/ \E email \in Emails : Submit(t, email)
    \/ LogInAtKite(t)

Fairness ==
    /\ \A t \in Tabs : WF_vars(Serve(t)) /\ WF_vars(Receive(t))
    /\ WF_vars(GoesOn(PersistentTab))
    /\ SF_vars(Exchange(PersistentTab))

FairSpec == Spec /\ Fairness

-----------------------------------------------------------------------------

TypeOK ==
    /\ credentials \in [Emails -> Keys \cup {None}]
    /\ registry \in [Emails -> Keys \cup {None}]
    /\ session \in Accounts \cup {None}
    /\ csrf \in Tabs \cup {None}
    /\ tabs \in [Tabs -> Tab]

\* The callback uses the app that the form sent the user to, unless his
\* credentials have changed since; and it finds none only if they have, or if
\* the form found the app in the registry, where the callback does not look.
LookupsAgree ==
    \A t \in Tabs : LET tab == tabs[t] IN
        tab.found # None /\ ~tab.changed =>
            /\ tab.what = "exchange" => tab.app = tab.key
            /\ tab.pc = "answer" /\ tab.what = "missing" => tab.found = "registry"

\* Once the user only goes on in one tab, with credentials, while the other
\* tabs rest and nothing is lost or changed any more, he gets in: forms of
\* other tabs invalidate his only once, and no answer leads round.
Calm ==
    <>[][/\ ~Disturb
         /\ \A t \in Tabs : Clicks(t) => t = PersistentTab /\ GoesOn(t)]_vars

PersistentUserGetsIn ==
    Calm /\ <>[](\A email \in Emails : credentials[email] # None)
        => []<>(tabs[PersistentTab].what = "page")

-----------------------------------------------------------------------------
\* The inductive invariant: what the form found is still what the callback
\* would find, and what it did find, as long as the credentials stay.

LookupGood(x) ==
    x.found # None =>
        /\ x.email # None
        /\ x.key # None
        /\ ~x.changed =>
              /\ x.found = "credentials" => credentials[x.email] = x.key
              /\ x.found = "registry" => credentials[x.email] = None
              /\ x.what = "exchange" => x.app = x.key
              /\ x.pc = "answer" /\ x.what = "missing" => x.found = "registry"

KiteInv ==
    /\ TypeOK
    /\ \A t \in Tabs : LookupGood(tabs[t])
=============================================================================
