--------------------------- MODULE AccountLogins ---------------------------
(***************************************************************************)
(* The logins that the user store decides: with a Google account           *)
(* (google_sso.go) and with an admin password (handlers_admin.go), in one  *)
(* browser with several tabs, while the store is administered elsewhere.   *)
(*                                                                         *)
(* The cookies google_oauth_state and csrf_token_admin belong to the       *)
(* browser, everything else to the tab.  A request reads its cookies when  *)
(* it is served, a form when it is submitted, and is then served one call  *)
(* at a time: to Google, to the user store.  Answers wait until the        *)
(* browser receives them, in any order over the tabs, or are lost, and set *)
(* their cookies on arrival.  A CSRF token is fresh, so the one in the     *)
(* cookie matches the form it came with, if that is still open.            *)
(*                                                                         *)
(* What a granted login sets is the session of module Sessions.  Linking   *)
(* a new user to the admin who registered his app writes a field of the    *)
(* user that nothing here reads.                                           *)
(***************************************************************************)
EXTENDS Integers

CONSTANTS
    Users,
    Tabs,
    Redirects,   \* the relative paths a login may lead to
    States,      \* the values HandleGoogleLogin may draw
    None

ASSUME AccountAssumption == None \notin Users \cup Redirects \cup States

VARIABLES
    users,   \* user store: role and status of every email
    google,  \* the cookie google_oauth_state: state|redirect
    csrf,    \* the cookie csrf_token_admin: the tab whose form has this token
    tabs     \* per tab: what it shows, or the request or answer under way

vars == <<users, google, csrf, tabs>>

Account == [role : {"none", "trader", "admin"},
            status : {"none", "active", "suspended"}]

Missing == [role |-> "none", status |-> "none"]

StateCookie == [state : States, redirect : Redirects]

Shown == {"page", "consent", "loginForm", "landed", "denied", "failed", "lost"}
Calls == {"googleLogin", "callback", "exchange", "googleStatus",
          "adminLogin", "postAdmin", "status", "password"}

\* pc says who is to move: the user before the page what, the server at the
\* call what, the browser with an answer that brings a page or, to
\* "adminLogin", redirects.  state and as are the query of the callback, the
\* user None when Google reports an error; spent: its code was exchanged.
\* to is the redirect of the state cookie, ok that the posted token matched
\* and no check has failed, clear that the answer clears the state cookie.
\* want is the redirect in the hidden field of the password form, and for a
\* login with Google history: the one it was asked for.  held is history: what
\* the account has been, in what the login asks about, while it was decided.
Tab == [pc : {"user", "server", "answer"},
        what : Shown \cup Calls,
        want : Redirects \cup {None},
        state : States \cup {None},
        as : Users \cup {None},
        spent : BOOLEAN,
        to : Redirects \cup {None},
        ok : BOOLEAN,
        clear : BOOLEAN,
        held : SUBSET {"none", "trader", "admin", "active", "suspended", "mismatch"}]

Blank == [pc |-> "user", what |-> "page", want |-> None, state |-> None,
          as |-> None, spent |-> FALSE, to |-> None,
          ok |-> FALSE, clear |-> FALSE, held |-> {}]

\* What the login in a tab asks about an account.
Holds(tab, account) ==
    {account.status} \cup (IF tab.state = None THEN {account.role} ELSE {})

Init ==
    /\ users \in [Users -> {Missing, [role |-> "admin", status |-> "active"]}]
    /\ google = None
    /\ csrf = None
    /\ tabs = [t \in Tabs |-> Blank]

-----------------------------------------------------------------------------
\* The user

\* A click on one of the two logins, from whatever the tab shows.
Click(t, login, redirect) ==
    /\ tabs[t].pc = "user"
    /\ tabs' = [tabs EXCEPT ![t] =
           [Blank EXCEPT !.pc = "server", !.what = login, !.want = redirect]]
    /\ UNCHANGED <<users, google, csrf>>

\* At Google the user picks an account, or turns back: None.
Consent(t, u) ==
    /\ tabs[t].pc = "user" /\ tabs[t].what = "consent"
    /\ tabs' = [tabs EXCEPT ![t].pc = "server", ![t].what = "callback",
                            ![t].as = u, ![t].spent = FALSE]
    /\ UNCHANGED <<users, google, csrf>>

\* The reload button on an error page, whose address is the callback's.
Reload(t) ==
    /\ tabs[t].pc = "user" /\ tabs[t].what \in {"denied", "failed", "lost"}
    /\ tabs' = [tabs EXCEPT ![t].pc = "server", ![t].what = "callback"]
    /\ UNCHANGED <<users, google, csrf>>

\* The back button, to Google's page of this attempt.
Back(t) ==
    /\ tabs[t].pc = "user"
    /\ tabs[t].what \in {"landed", "denied", "failed", "lost"}
    /\ tabs[t].state # None
    /\ tabs' = [tabs EXCEPT ![t].what = "consent"]
    /\ UNCHANGED <<users, google, csrf>>

Submit(t, u) ==
    /\ tabs[t].pc = "user" /\ tabs[t].what = "loginForm"
    /\ tabs' = [tabs EXCEPT ![t] =
           [Blank EXCEPT !.pc = "server", !.what = "postAdmin", !.as = u,
                         !.want = tabs[t].want,
                         !.ok = (csrf = t)]]
    /\ UNCHANGED <<users, google, csrf>>

-----------------------------------------------------------------------------
\* Login with Google

Serving(t, what) == tabs[t].pc = "server" /\ tabs[t].what = what

\* Mistake: a failed draw goes unnoticed.
GoogleLoginUndrawn(t) ==
    /\ Serving(t, "googleLogin")
    /\ tabs' = [tabs EXCEPT ![t].pc = "answer", ![t].what = "consent"]
    /\ UNCHANGED <<users, google, csrf>>

HandleGoogleLogin(t) ==
    /\ Serving(t, "googleLogin")
    /\ \E s \in States \ ({tabs[x].state : x \in Tabs}
                          \cup {c.state : c \in {google} \ {None}}) :
           tabs' = [tabs EXCEPT ![t].pc = "answer", ![t].what = "consent",
                                ![t].state = s]
    /\ UNCHANGED <<users, google, csrf>>

\* Mistake: the answer leaves the state cookie alone.
AnswerOnly(t, what, spent) ==
    tabs' = [tabs EXCEPT ![t].pc = "answer", ![t].what = what, ![t].spent = spent]

\* The answers of the callback after it has read the state cookie.
AnswerAndClear(t, what, spent) ==
    tabs' = [tabs EXCEPT ![t].pc = "answer", ![t].what = what,
                         ![t].spent = spent, ![t].clear = TRUE]

\* Mistake: the state is not compared with the cookie's.
CallbackAnyState(t) ==
    /\ Serving(t, "callback")
    /\ tabs' = [tabs EXCEPT ![t] =
           IF google = None
           THEN [@ EXCEPT !.pc = "answer", !.what = "failed"]
           ELSE IF @.as = None
           THEN [Blank EXCEPT !.pc = "answer", !.what = "adminLogin",
                              !.want = google.redirect, !.clear = TRUE]
           ELSE [@ EXCEPT !.what = "exchange", !.to = google.redirect]]
    /\ UNCHANGED <<users, google, csrf>>

\* No cookie; an error from Google, which leads to the password login with
\* the redirect of the cookie; a state that is not the cookie's; or the code.
HandleGoogleCallback(t) ==
    /\ Serving(t, "callback")
    /\ tabs' = [tabs EXCEPT ![t] =
           IF google = None
           THEN [@ EXCEPT !.pc = "answer", !.what = "failed"]
           ELSE IF @.as = None
           THEN [Blank EXCEPT !.pc = "answer", !.what = "adminLogin",
                              !.want = google.redirect, !.clear = TRUE]
           ELSE IF @.state # google.state
           THEN [@ EXCEPT !.pc = "answer", !.what = "failed", !.clear = TRUE]
           ELSE [@ EXCEPT !.what = "exchange", !.to = google.redirect]]
    /\ UNCHANGED <<users, google, csrf>>

\* The requests that are being served for u note what is so of him from now on.
Noting(u, account) ==
    [t \in Tabs |-> IF tabs[t].pc = "server" /\ tabs[t].as = u
                    THEN [tabs[t] EXCEPT !.held = @ \cup Holds(tabs[t], account)]
                    ELSE tabs[t]]

\* Whoever is missing becomes a trader; whoever is there stays as he is.
EnsureGoogleUser(u) ==
    IF users[u] = Missing THEN [role |-> "trader", status |-> "active"] ELSE users[u]

\* Mistake: nobody creates the user before his status is asked for.
ExchangeOnly(t) ==
    /\ Serving(t, "exchange")
    /\ \/ /\ ~tabs[t].spent
          /\ tabs' = [tabs EXCEPT ![t].what = "googleStatus", ![t].spent = TRUE,
                                  ![t].held = Holds(tabs[t], users[tabs[t].as])]
       \/ \E spent \in {tabs[t].spent, TRUE} : AnswerAndClear(t, "failed", spent)
    /\ UNCHANGED <<users, google, csrf>>

\* The code for a token, once, the token for a verified email, and the email
\* for a user.  The first two may fail, or time out when Google has already
\* spent the code.
Exchange(t) ==
    LET u == tabs[t].as
        account == EnsureGoogleUser(u)
    IN /\ Serving(t, "exchange")
       /\ \/ /\ ~tabs[t].spent
             /\ users' = [users EXCEPT ![u] = account]
             /\ tabs' = [Noting(u, account) EXCEPT
                           ![t].what = "googleStatus", ![t].spent = TRUE,
                           ![t].held = Holds(tabs[t], account)]
          \/ /\ \E spent \in {tabs[t].spent, TRUE} : AnswerAndClear(t, "failed", spent)
             /\ UNCHANGED users
       /\ UNCHANGED <<google, csrf>>

GoogleStatus(t) ==
    /\ Serving(t, "googleStatus")
    /\ AnswerAndClear(t, IF users[tabs[t].as].status = "active" THEN "landed" ELSE "denied", TRUE)
    /\ UNCHANGED <<users, google, csrf>>

-----------------------------------------------------------------------------
\* Login with the admin password

\* serveAdminLoginForm: the page, a new token in it and in the cookie.
Render(t, form) ==
    tabs' = [tabs EXCEPT ![t] = [form EXCEPT !.pc = "answer", !.what = "loginForm"]]

AdminLoginGet(t) ==
    /\ Serving(t, "adminLogin")
    /\ Render(t, tabs[t])
    /\ UNCHANGED <<users, google, csrf>>

\* The token, then GetRole.
AdminLoginPost(t) ==
    /\ Serving(t, "postAdmin")
    /\ IF tabs[t].ok
       THEN tabs' = [tabs EXCEPT ![t].what = "status",
                                 ![t].ok = (users[tabs[t].as].role = "admin"),
                                 ![t].held = Holds(tabs[t], users[tabs[t].as])]
       ELSE Render(t, [tabs[t] EXCEPT !.as = None])
    /\ UNCHANGED <<users, google, csrf>>

\* Mistake: the second verdict overwrites the first.
GetStatusOnly(t) ==
    /\ Serving(t, "status")
    /\ tabs' = [tabs EXCEPT ![t].what = "password",
                            ![t].ok = (users[tabs[t].as].status = "active")]
    /\ UNCHANGED <<users, google, csrf>>

GetStatus(t) ==
    /\ Serving(t, "status")
    /\ tabs' = [tabs EXCEPT ![t].what = "password",
                            ![t].ok = (@ /\ users[tabs[t].as].status = "active")]
    /\ UNCHANGED <<users, google, csrf>>

\* VerifyPassword matches or not; a missing user has no password.  The
\* refused form names no reason.
VerifyPassword(t) ==
    /\ Serving(t, "password")
    /\ \E match \in BOOLEAN :
           /\ match => users[tabs[t].as] # Missing
           /\ IF match /\ tabs[t].ok
              THEN tabs' = [tabs EXCEPT ![t].pc = "answer", ![t].what = "landed",
                                        ![t].to = tabs[t].want]
              ELSE Render(t, IF match THEN tabs[t]
                             ELSE [tabs[t] EXCEPT !.held = @ \cup {"mismatch"}])
    /\ UNCHANGED <<users, google, csrf>>

Serve(t) ==
    \/ HandleGoogleLogin(t)
    \/ HandleGoogleCallback(t)
    \/ Exchange(t)
    \/ GoogleStatus(t)
    \/ AdminLoginGet(t)
    \/ AdminLoginPost(t)
    \/ GetStatus(t)
    \/ VerifyPassword(t)

-----------------------------------------------------------------------------
\* The browser and the administration

\* What the tab shows once its answer is there.
After(answer) ==
    CASE answer.what = "adminLogin" -> [answer EXCEPT !.pc = "server", !.clear = FALSE]
      [] answer.what = "landed" ->
            [Blank EXCEPT !.what = "landed", !.state = answer.state, !.want = answer.want]
      [] answer.what = "loginForm" ->
            [Blank EXCEPT !.what = "loginForm", !.want = answer.want]
      [] OTHER -> [answer EXCEPT !.pc = "user", !.clear = FALSE, !.to = None, !.held = {}]

Receive(t) ==
    LET answer == tabs[t] IN
    /\ answer.pc = "answer"
    /\ google' = IF answer.clear THEN None
                 ELSE IF answer.what = "consent"
                 THEN [state |-> answer.state, redirect |-> answer.want]
                 ELSE google
    /\ csrf' = IF answer.what = "loginForm" THEN t ELSE csrf
    /\ tabs' = [tabs EXCEPT ![t] = After(answer)]
    /\ UNCHANGED users

\* The connection breaks before the answer is there.  A callback with a code
\* can be loaded again; of other requests nothing remains.
Lose(t) ==
    /\ tabs[t].pc = "answer"
    /\ tabs' = [tabs EXCEPT ![t] =
           IF @.as # None /\ @.state # None
           THEN [@ EXCEPT !.pc = "user", !.what = "lost", !.clear = FALSE,
                          !.to = None, !.held = {}]
           ELSE Blank]
    /\ UNCHANGED <<users, google, csrf>>

\* After five minutes the browser drops the state cookie.
StateExpires ==
    /\ google # None
    /\ google' = None
    /\ UNCHANGED <<users, csrf, tabs>>

\* An administrator creates, promotes, demotes, suspends or reinstates u.
Administer(u, account) ==
    /\ account # users[u]
    /\ users' = [users EXCEPT ![u] = account]
    /\ tabs' = Noting(u, account)
    /\ UNCHANGED <<google, csrf>>

Next ==
    \/ \E t \in Tabs, login \in {"googleLogin", "adminLogin"}, r \in Redirects :
           Click(t, login, r)
    \/ \E t \in Tabs, u \in Users \cup {None} : Consent(t, u)
    \/ \E t \in Tabs : Reload(t)
    \/ \E t \in Tabs : Back(t)
    \/ \E t \in Tabs, u \in Users : Submit(t, u)
    \/ \E t \in Tabs : Serve(t)
    \/ \E t \in Tabs : Receive(t)
    \/ \E t \in Tabs : Lose(t)
    \/ StateExpires
    \/ \E u \in Users, role \in {"trader", "admin"}, status \in {"active", "suspended"} :
           Administer(u, [role |-> role, status |-> status])

Spec == Init /\ [][Next]_vars

-----------------------------------------------------------------------------

TypeOK ==
    /\ users \in [Users -> Account]
    /\ google \in StateCookie \cup {None}
    /\ csrf \in Tabs \cup {None}
    /\ tabs \in [Tabs -> Tab]

\* A login with Google ends where its own tab was headed, although all tabs
\* share the one state cookie and the answers of Google come in any order.  (Who
\* turns back at Google goes on to the password form with the redirect of the
\* cookie, which may be another tab's.)
RedirectOfAttempt ==
    \A t \in Tabs : tabs[t].pc = "answer" /\ tabs[t].what = "landed"
                        => tabs[t].to = tabs[t].want

\* An attempt whose callback was answered cannot be taken up again by reload
\* or by the back button: its state is in no cookie any more.
AnsweredStateIsGone ==
    \A t \in Tabs :
        /\ tabs[t].pc = "user"
        /\ tabs[t].what \in {"landed", "denied", "failed"}
        /\ google # None
        => google.state # tabs[t].state

\* Who gets in was active at some instant of the request, and an admin at
\* some instant if it was the password login.  It need not be the same
\* instant: the store is asked twice.
GrantsAreEarned ==
    \A t \in Tabs : tabs[t].pc = "answer" /\ tabs[t].what = "landed" =>
        /\ "active" \in tabs[t].held
        /\ tabs[t].state = None => "admin" \in tabs[t].held

\* Who is turned away was, at some instant of the request, what he was turned
\* away for.  With Google that is suspension only: a new user gets in.
DenialsHaveCause ==
    \A t \in Tabs : tabs[t].pc = "answer" =>
        /\ tabs[t].what = "denied" => "suspended" \in tabs[t].held
        /\ tabs[t].what = "loginForm" /\ tabs[t].as # None =>
               tabs[t].held \cap {"none", "trader", "suspended", "mismatch"} # {}

-----------------------------------------------------------------------------
\* The inductive invariant.

\* The user store knows a user altogether or not at all.
Whole(account) ==
    \/ account = Missing
    \/ account.role # "none" /\ account.status # "none"

Deciding == {"googleStatus", "status", "password"}

\* What a request carries at each of its calls, and an answer with it.
Carries(x) ==
    /\ x.state # None => x.want # None
    /\ x.what = "googleLogin" => x.state = None /\ x.want # None
    /\ x.pc = "answer" /\ x.what = "consent" => x.state # None
    /\ x.what \in {"exchange", "googleStatus"} =>
          x.pc = "server" /\ x.as # None /\ x.state # None /\ x.to = x.want
    /\ x.what \in {"postAdmin", "status", "password"} =>
          x.pc = "server" /\ x.as # None /\ x.state = None
    /\ x.what = "adminLogin" => x.as = None
    /\ x.pc = "answer" /\ x.what = "landed" => x.to = x.want
    /\ x.pc = "user" => ~x.clear

\* What the verdict will rest on has been noted.
Founded(x) ==
    /\ x.what = "googleStatus" => users[x.as].status # "none"
    /\ x.what \in Deciding => Holds(x, users[x.as]) \subseteq x.held
    /\ x.what = "status" =>
          IF x.ok THEN "admin" \in x.held ELSE x.held \cap {"none", "trader"} # {}
    /\ x.what = "password" =>
          IF x.ok THEN {"admin", "active"} \subseteq x.held
                  ELSE x.held \cap {"none", "trader", "suspended"} # {}
    /\ x.pc = "answer" =>
          /\ x.what = "landed" =>
                "active" \in x.held /\ (x.state = None => "admin" \in x.held)
          /\ x.what = "denied" => "suspended" \in x.held
          /\ x.what = "loginForm" /\ x.as # None =>
                x.held \cap {"none", "trader", "suspended", "mismatch"} # {}

\* What the state cookie says of an attempt: its own redirect, as long as the
\* attempt is not answered.
Cookie(x) ==
    google # None =>
        /\ x.state = google.state => x.want = google.redirect
        /\ x.what \in {"landed", "denied", "failed"} /\ ~x.clear =>
              x.state # google.state

AccountInv ==
    /\ TypeOK
    /\ \A u \in Users : Whole(users[u])
    /\ \A t \in Tabs : Carries(tabs[t]) /\ Founded(tabs[t]) /\ Cookie(tabs[t])
    /\ \A t, z \in Tabs : t # z /\ tabs[t].state # None => tabs[t].state # tabs[z].state
=============================================================================
