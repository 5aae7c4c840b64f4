------------------------ MODULE AccountLoginsProofs ------------------------
(***************************************************************************)
(* For any number of tabs, accounts, redirects and states: the types, that *)
(* a login with Google ends where it was headed, that an answered attempt  *)
(* is over, and that every verdict rests on what the account has been.     *)
(***************************************************************************)
EXTENDS AccountLogins, TLAPS

Held == {"none", "trader", "admin", "active", "suspended", "mismatch"}

\* A tab with nothing in it.
LEMMA BlankType == Blank \in Tab
  BY DEF Blank, Tab, Shown

\* Facts on tab t that the actions start from.
LEMMA TabFacts ==
    ASSUME AccountInv, NEW t \in Tabs
    PROVE  /\ tabs[t] \in Tab
           /\ Carries(tabs[t]) /\ Founded(tabs[t]) /\ Cookie(tabs[t])
           /\ google \in StateCookie \cup {None}
           /\ users \in [Users -> Account]
  BY DEF AccountInv, TypeOK

\* What a tab holds of an account.
LEMMA HoldsType ==
    ASSUME NEW account \in Account, NEW x
    PROVE  Holds(x, account) \subseteq Held
  BY DEF Holds, Account, Held

\* A step that puts a good record into one tab, while the store and the state
\* cookie stay, keeps the invariant.
LEMMA TabStep ==
    ASSUME AccountInv, NEW t \in Tabs, NEW x \in Tab,
           Carries(x), Founded(x), Cookie(x),
           x.state = None \/ \A z \in Tabs \ {t} : tabs[z].state # x.state,
           tabs' = [tabs EXCEPT ![t] = x],
           UNCHANGED <<users, google>>,
           csrf' \in Tabs \cup {None}
    PROVE  AccountInv'
<1>1. TypeOK'
  BY DEF AccountInv, TypeOK
<1>2. ASSUME NEW z \in Tabs
      PROVE  (Carries(tabs[z]) /\ Founded(tabs[z]) /\ Cookie(tabs[z]))'
  <2>1. tabs'[z] = IF z = t THEN x ELSE tabs[z]
    BY DEF AccountInv, TypeOK
  <2>2. Carries(tabs'[z]) /\ Founded(tabs'[z]) /\ Cookie(tabs'[z])
    BY <2>1 DEF AccountInv
  <2>3. PICK y : y = tabs'[z]
    OBVIOUS
  <2>4. Founded(y)' /\ Cookie(y)'
    BY <2>2, <2>3 DEF Founded, Cookie
  <2> QED
    BY <2>2, <2>3, <2>4 DEF Carries, Founded, Cookie
<1>3. ASSUME NEW y \in Tabs, NEW z \in Tabs, y # z, tabs'[y].state # None
      PROVE  tabs'[y].state # tabs'[z].state
  <2>1. /\ tabs'[y] = IF y = t THEN x ELSE tabs[y]
        /\ tabs'[z] = IF z = t THEN x ELSE tabs[z]
    BY DEF AccountInv, TypeOK
  <2> QED
    BY <1>3, <2>1 DEF AccountInv
<1> QED
  BY <1>1, <1>2, <1>3 DEF AccountInv

\* The same, for a record that keeps the state of the tab.
LEMMA SameState ==
    ASSUME AccountInv, NEW t \in Tabs, NEW x \in Tab, x.state = tabs[t].state
    PROVE  x.state = None \/ \A z \in Tabs \ {t} : tabs[z].state # x.state
  BY DEF AccountInv

\* A tab without an attempt.
LEMMA NoState ==
    ASSUME AccountInv, NEW x \in Tab, x.state = None
    PROVE  Cookie(x)
  BY AccountAssumption DEF Cookie, AccountInv, TypeOK, StateCookie

\* A step of one tab alone, which keeps its attempt or has none.
LEMMA KeepStep ==
    ASSUME AccountInv, NEW t \in Tabs, NEW x \in Tab,
           Carries(x), Founded(x), Cookie(x),
           x.state = tabs[t].state \/ x.state = None,
           tabs' = [tabs EXCEPT ![t] = x],
           UNCHANGED <<users, google, csrf>>
    PROVE  AccountInv'
  BY SameState, TabStep DEF AccountInv, TypeOK

\* An attempt that goes on, or whose answer clears the cookie.
LEMMA SameAttempt ==
    ASSUME AccountInv, NEW t \in Tabs, NEW x \in Tab,
           x.state = tabs[t].state, x.want = tabs[t].want,
           x.what \in {"landed", "denied", "failed"} => x.clear
    PROVE  Cookie(x)
  BY DEF AccountInv, Cookie

-----------------------------------------------------------------------------
\* The user

\* A click on a login button.
LEMMA ClickInv ==
    ASSUME AccountInv, NEW t \in Tabs, NEW login \in {"googleLogin", "adminLogin"},
           NEW redirect \in Redirects, Click(t, login, redirect)
    PROVE  AccountInv'
<1>1. PICK x \in Tab :
        /\ x = [Blank EXCEPT !.pc = "server", !.what = login, !.want = redirect]
        /\ x.pc = "server" /\ x.what = login /\ x.want = redirect
        /\ x.state = None /\ x.as = None
  <2> DEFINE y == [Blank EXCEPT !.pc = "server", !.what = login, !.want = redirect]
  <2>1. y \in Tab
    BY BlankType DEF Tab, Calls
  <2>2. /\ y.pc = "server" /\ y.what = login /\ y.want = redirect
        /\ y.state = None /\ y.as = None
    BY DEF Blank
  <2> QED
    BY <2>1, <2>2
<1>2. Carries(x) /\ Founded(x)
  BY <1>1, AccountAssumption DEF Carries, Founded, Deciding
<1>3. Cookie(x)
  BY <1>1, NoState
<1> QED
  BY <1>1, <1>2, <1>3, KeepStep DEF Click

\* Google's consent page.
LEMMA ConsentInv ==
    ASSUME AccountInv, NEW t \in Tabs, NEW u \in Users \cup {None}, Consent(t, u)
    PROVE  AccountInv'
<1> DEFINE y == [tabs[t] EXCEPT !.pc = "server", !.what = "callback",
                                !.as = u, !.spent = FALSE]
<1>1. tabs[t] \in Tab /\ Carries(tabs[t])
  BY TabFacts
<1>2. y \in Tab
  BY <1>1 DEF Tab, Calls
<1>3. /\ y.pc = "server" /\ y.what = "callback"
      /\ y.state = tabs[t].state /\ y.want = tabs[t].want
  BY <1>1 DEF Tab
<1>4. tabs' = [tabs EXCEPT ![t] = y]
  BY DEF Consent, AccountInv, TypeOK
<1> HIDE DEF y
<1>5. Carries(y) /\ Founded(y)
  BY <1>1, <1>3 DEF Carries, Founded, Deciding
<1>6. Cookie(y)
  BY <1>2, <1>3, SameAttempt
<1> QED
  BY <1>2, <1>3, <1>4, <1>5, <1>6, KeepStep DEF Consent

\* A reload.
LEMMA ReloadInv == ASSUME AccountInv, NEW t \in Tabs, Reload(t) PROVE AccountInv'
<1> DEFINE y == [tabs[t] EXCEPT !.pc = "server", !.what = "callback"]
<1>1. tabs[t] \in Tab /\ Carries(tabs[t])
  BY TabFacts
<1>2. y \in Tab
  BY <1>1 DEF Tab, Calls
<1>3. /\ y.pc = "server" /\ y.what = "callback"
      /\ y.state = tabs[t].state /\ y.want = tabs[t].want
  BY <1>1 DEF Tab
<1>4. tabs' = [tabs EXCEPT ![t] = y]
  BY DEF Reload, AccountInv, TypeOK
<1> HIDE DEF y
<1>5. Carries(y) /\ Founded(y)
  BY <1>1, <1>3 DEF Carries, Founded, Deciding
<1>6. Cookie(y)
  BY <1>2, <1>3, SameAttempt
<1> QED
  BY <1>2, <1>3, <1>4, <1>5, <1>6, KeepStep DEF Reload

\* The back button.
LEMMA BackInv == ASSUME AccountInv, NEW t \in Tabs, Back(t) PROVE AccountInv'
<1> DEFINE y == [tabs[t] EXCEPT !.what = "consent"]
<1>1. tabs[t] \in Tab /\ Carries(tabs[t])
  BY TabFacts
<1>2. y \in Tab
  BY <1>1 DEF Tab, Shown
<1>3. /\ y.pc = "user" /\ y.what = "consent" /\ y.clear = tabs[t].clear
      /\ y.state = tabs[t].state /\ y.want = tabs[t].want
  BY <1>1 DEF Tab, Back
<1>4. tabs' = [tabs EXCEPT ![t] = y]
  BY DEF Back
<1> HIDE DEF y
<1>5. Carries(y) /\ Founded(y)
  BY <1>1, <1>3 DEF Carries, Founded, Deciding, Back
<1>6. Cookie(y)
  BY <1>2, <1>3, SameAttempt
<1> QED
  BY <1>2, <1>3, <1>4, <1>5, <1>6, KeepStep DEF Back

\* The submission of the password form.
LEMMA SubmitInv ==
    ASSUME AccountInv, NEW t \in Tabs, NEW u \in Users, Submit(t, u)
    PROVE  AccountInv'
<1> DEFINE y == [Blank EXCEPT !.pc = "server", !.what = "postAdmin", !.as = u,
                              !.want = tabs[t].want, !.ok = (csrf = t)]
<1>1. tabs[t].want \in Redirects \cup {None}
  BY TabFacts DEF Tab
<1>2. y \in Tab
  BY <1>1, BlankType DEF Tab, Calls
<1>3. /\ y.pc = "server" /\ y.what = "postAdmin" /\ y.as = u /\ y.state = None
  BY DEF Blank
<1>4. tabs' = [tabs EXCEPT ![t] = y]
  BY DEF Submit
<1> HIDE DEF y
<1>5. Carries(y) /\ Founded(y)
  BY <1>3, AccountAssumption DEF Carries, Founded, Deciding
<1>6. Cookie(y)
  BY <1>2, <1>3, NoState
<1> QED
  BY <1>2, <1>3, <1>4, <1>5, <1>6, KeepStep DEF Submit

-----------------------------------------------------------------------------
\* Login with Google

\* The new state is that of no tab and not the cookie's.
LEMMA HandleGoogleLoginInv ==
    ASSUME AccountInv, NEW t \in Tabs, HandleGoogleLogin(t)
    PROVE  AccountInv'
<1>1. PICK s \in States \ ({tabs[x].state : x \in Tabs}
                           \cup {c.state : c \in {google} \ {None}}) :
        tabs' = [tabs EXCEPT ![t].pc = "answer", ![t].what = "consent", ![t].state = s]
  BY DEF HandleGoogleLogin
<1> DEFINE y == [tabs[t] EXCEPT !.pc = "answer", !.what = "consent", !.state = s]
<1>2. tabs[t] \in Tab /\ Carries(tabs[t]) /\ tabs[t].what = "googleLogin"
  BY TabFacts DEF HandleGoogleLogin, Serving
<1>3. y \in Tab
  BY <1>2 DEF Tab, Shown
<1>4. /\ y.pc = "answer" /\ y.what = "consent" /\ y.state = s
      /\ y.want = tabs[t].want /\ y.want # None
  BY <1>2 DEF Tab, Carries
<1>5. tabs' = [tabs EXCEPT ![t] = y]
  BY <1>1 DEF AccountInv, TypeOK
<1> HIDE DEF y
<1>6. Carries(y) /\ Founded(y)
  BY <1>4, AccountAssumption DEF Carries, Founded, Deciding
<1>7. Cookie(y)
  BY <1>4 DEF Cookie
<1>8. \A z \in Tabs \ {t} : tabs[z].state # y.state
  BY <1>4
<1> QED
  BY <1>3, <1>5, <1>6, <1>7, <1>8, TabStep DEF HandleGoogleLogin, AccountInv, TypeOK

\* An answer after which the attempt is over.
LEMMA AnswerAndClearInv ==
    ASSUME AccountInv, NEW t \in Tabs, NEW what \in {"landed", "denied", "failed"},
           NEW spent \in BOOLEAN, AnswerAndClear(t, what, spent),
           UNCHANGED <<users, google, csrf>>,
           tabs[t].what \in {"exchange", "googleStatus"},
           what = "landed" => "active" \in tabs[t].held,
           what = "denied" => "suspended" \in tabs[t].held
    PROVE  AccountInv'
<1> DEFINE y == [tabs[t] EXCEPT !.pc = "answer", !.what = what,
                                !.spent = spent, !.clear = TRUE]
<1>1. tabs[t] \in Tab /\ Carries(tabs[t])
  BY TabFacts
<1>2. y \in Tab
  BY <1>1 DEF Tab, Shown
<1>3. /\ y.pc = "answer" /\ y.what = what /\ y.clear /\ y.state = tabs[t].state
      /\ y.want = tabs[t].want /\ y.to = tabs[t].to /\ y.held = tabs[t].held
  BY <1>1 DEF Tab
<1>4. tabs' = [tabs EXCEPT ![t] = y]
  BY DEF AnswerAndClear, AccountInv, TypeOK
<1> HIDE DEF y
<1>5. Carries(y)
  BY <1>1, <1>3 DEF Carries
<1>6. Founded(y)
  BY <1>1, <1>3 DEF Founded, Carries, Deciding
<1>7. Cookie(y)
  BY <1>2, <1>3, SameAttempt
<1> QED
  BY <1>2, <1>3, <1>4, <1>5, <1>6, <1>7, KeepStep

\* The callback up to its exchange with Google.
LEMMA HandleGoogleCallbackInv ==
    ASSUME AccountInv, NEW t \in Tabs, HandleGoogleCallback(t)
    PROVE  AccountInv'
<1>1. /\ tabs[t] \in Tab /\ Carries(tabs[t]) /\ Cookie(tabs[t])
      /\ tabs[t].pc = "server" /\ tabs[t].what = "callback"
      /\ google # None => google \in StateCookie
  BY TabFacts DEF HandleGoogleCallback, Serving
<1>2. CASE google = None
  <2> DEFINE y == [tabs[t] EXCEPT !.pc = "answer", !.what = "failed"]
  <2>1. y \in Tab
    BY <1>1 DEF Tab, Shown
  <2>2. /\ y.pc = "answer" /\ y.what = "failed"
        /\ y.state = tabs[t].state /\ y.want = tabs[t].want
    BY <1>1 DEF Tab
  <2>3. tabs' = [tabs EXCEPT ![t] = y]
    BY <1>2 DEF HandleGoogleCallback, AccountInv, TypeOK
  <2> HIDE DEF y
  <2>4. Carries(y) /\ Founded(y) /\ Cookie(y)
    BY <1>1, <1>2, <2>2 DEF Carries, Founded, Cookie, Deciding
  <2> QED
    BY <2>1, <2>2, <2>3, <2>4, KeepStep DEF HandleGoogleCallback
<1>3. CASE google # None /\ tabs[t].as = None
  <2> DEFINE y == [Blank EXCEPT !.pc = "answer", !.what = "adminLogin",
                                !.want = google.redirect, !.clear = TRUE]
  <2>1. google.redirect \in Redirects
    BY <1>1, <1>3 DEF StateCookie
  <2>2. y \in Tab
    BY <2>1, BlankType DEF Tab, Calls
  <2>3. y.pc = "answer" /\ y.what = "adminLogin" /\ y.state = None /\ y.as = None
    BY DEF Blank
  <2>4. tabs' = [tabs EXCEPT ![t] = y]
    BY <1>3 DEF HandleGoogleCallback, AccountInv, TypeOK
  <2> HIDE DEF y
  <2>5. Carries(y) /\ Founded(y)
    BY <2>3 DEF Carries, Founded, Deciding
  <2>6. Cookie(y)
    BY <2>2, <2>3, NoState
  <2> QED
    BY <2>2, <2>3, <2>4, <2>5, <2>6, KeepStep DEF HandleGoogleCallback
<1>4. CASE google # None /\ tabs[t].as # None /\ tabs[t].state # google.state
  <2> DEFINE y == [tabs[t] EXCEPT !.pc = "answer", !.what = "failed", !.clear = TRUE]
  <2>1. y \in Tab
    BY <1>1 DEF Tab, Shown
  <2>2. /\ y.pc = "answer" /\ y.what = "failed" /\ y.clear
        /\ y.state = tabs[t].state /\ y.want = tabs[t].want
    BY <1>1 DEF Tab
  <2>3. tabs' = [tabs EXCEPT ![t] = y]
    BY <1>4 DEF HandleGoogleCallback, AccountInv, TypeOK
  <2> HIDE DEF y
  <2>4. Carries(y) /\ Founded(y)
    BY <1>1, <2>2 DEF Carries, Founded, Deciding
  <2>5. Cookie(y)
    BY <2>1, <2>2, SameAttempt
  <2> QED
    BY <2>1, <2>2, <2>3, <2>4, <2>5, KeepStep DEF HandleGoogleCallback
<1>5. CASE google # None /\ tabs[t].as # None /\ tabs[t].state = google.state
  <2> DEFINE y == [tabs[t] EXCEPT !.what = "exchange", !.to = google.redirect]
  <2>1. google.redirect \in Redirects /\ google.state \in States
    BY <1>1, <1>5 DEF StateCookie
  <2>2. google.redirect = tabs[t].want
    BY <1>1, <1>5 DEF Cookie
  <2>3. y \in Tab
    BY <1>1, <2>1 DEF Tab, Calls
  <2>4. /\ y.pc = "server" /\ y.what = "exchange" /\ y.to = tabs[t].want
        /\ y.as = tabs[t].as /\ y.state = tabs[t].state /\ y.want = tabs[t].want
    BY <1>1, <2>2 DEF Tab
  <2>5. tabs' = [tabs EXCEPT ![t] = y]
    BY <1>5 DEF HandleGoogleCallback, AccountInv, TypeOK
  <2> HIDE DEF y
  <2>6. Carries(y) /\ Founded(y)
    BY <1>1, <1>5, <2>1, <2>4, AccountAssumption DEF Carries, Founded, Deciding
  <2>7. Cookie(y)
    BY <2>3, <2>4, SameAttempt
  <2> QED
    BY <2>3, <2>4, <2>5, <2>6, <2>7, KeepStep DEF HandleGoogleCallback
<1> QED
  BY <1>2, <1>3, <1>4, <1>5

\* The callback looks at the status of the account.
LEMMA GoogleStatusInv ==
    ASSUME AccountInv, NEW t \in Tabs, GoogleStatus(t)
    PROVE  AccountInv'
<1> DEFINE status == users[tabs[t].as].status
<1>1. /\ tabs[t] \in Tab /\ Carries(tabs[t]) /\ Founded(tabs[t])
      /\ users \in [Users -> Account] /\ tabs[t].what = "googleStatus"
  BY TabFacts DEF GoogleStatus, Serving
<1>2. tabs[t].as \in Users
  BY <1>1 DEF Tab, Carries
<1>3. status \in {"active", "suspended"} /\ status \in tabs[t].held
  BY <1>1, <1>2 DEF Account, Founded, Deciding, Holds
<1>4. AnswerAndClear(t, IF status = "active" THEN "landed" ELSE "denied", TRUE)
  BY DEF GoogleStatus
<1> QED
  BY <1>1, <1>3, <1>4, AnswerAndClearInv DEF GoogleStatus

-----------------------------------------------------------------------------
\* Login with the admin password

\* The form shown again to somebody says so for a reason.
LEMMA RenderInv ==
    ASSUME AccountInv, NEW t \in Tabs, NEW form \in Tab, Render(t, form),
           UNCHANGED <<users, google, csrf>>,
           form.state = tabs[t].state, form.want = tabs[t].want,
           form.as # None =>
               form.held \cap {"none", "trader", "suspended", "mismatch"} # {}
    PROVE  AccountInv'
<1> DEFINE y == [form EXCEPT !.pc = "answer", !.what = "loginForm"]
<1>1. Carries(tabs[t])
  BY TabFacts
<1>2. y \in Tab
  BY DEF Tab, Shown
<1>3. /\ y.pc = "answer" /\ y.what = "loginForm" /\ y.as = form.as
      /\ y.state = tabs[t].state /\ y.want = tabs[t].want /\ y.held = form.held
  BY DEF Tab
<1>4. tabs' = [tabs EXCEPT ![t] = y]
  BY DEF Render
<1> HIDE DEF y
<1>5. Carries(y) /\ Founded(y)
  BY <1>1, <1>3 DEF Carries, Founded, Deciding
<1>6. Cookie(y)
  BY <1>2, <1>3, SameAttempt
<1> QED
  BY <1>2, <1>3, <1>4, <1>5, <1>6, KeepStep

\* The password form.
LEMMA AdminLoginGetInv ==
    ASSUME AccountInv, NEW t \in Tabs, AdminLoginGet(t)
    PROVE  AccountInv'
<1>1. tabs[t] \in Tab /\ tabs[t].as = None
  BY TabFacts DEF AdminLoginGet, Serving, Carries
<1> QED
  BY <1>1, RenderInv DEF AdminLoginGet

\* What all three calls of the password login find.
LEMMA PostFacts ==
    ASSUME AccountInv, NEW t \in Tabs,
           tabs[t].what \in {"postAdmin", "status", "password"}
    PROVE  /\ tabs[t].as \in Users
           /\ tabs[t].as # None /\ tabs[t].state = None
           /\ users[tabs[t].as] \in Account
  BY TabFacts DEF Carries, Tab

\* The password handler checks the form token.
LEMMA AdminLoginPostInv ==
    ASSUME AccountInv, NEW t \in Tabs, AdminLoginPost(t)
    PROVE  AccountInv'
<1> DEFINE account == users[tabs[t].as]
<1>1. /\ tabs[t] \in Tab /\ tabs[t].pc = "server" /\ tabs[t].what = "postAdmin"
      /\ tabs[t].as \in Users /\ tabs[t].as # None /\ tabs[t].state = None
      /\ account \in Account
  BY TabFacts, PostFacts DEF AdminLoginPost, Serving
<1>2. CASE tabs[t].ok
  <2> DEFINE held == Holds(tabs[t], account)
             y == [tabs[t] EXCEPT !.what = "status", !.ok = (account.role = "admin"),
                                  !.held = held]
  <2>1. held \subseteq Held
    BY <1>1, HoldsType
  <2>2. y \in Tab
    BY <1>1, <2>1 DEF Tab, Calls, Held
  <2>3. /\ y.pc = "server" /\ y.what = "status" /\ y.ok = (account.role = "admin")
        /\ y.as = tabs[t].as /\ y.state = None /\ y.held = held
    BY <1>1 DEF Tab
  <2>4. tabs' = [tabs EXCEPT ![t] = y]
    BY <1>2 DEF AdminLoginPost, AccountInv, TypeOK
  <2>5. held = {account.status, account.role}
    BY <1>1 DEF Holds
  <2>6. Holds(y, account) = held
    BY <2>3, <2>5 DEF Holds
  <2>7. account.role \in {"none", "trader", "admin"}
    BY <1>1 DEF Account
  <2> HIDE DEF y, held, account
  <2>8. Carries(y)
    BY <1>1, <2>3 DEF Carries
  <2>9. Founded(y)
    BY <1>1, <2>3, <2>5, <2>6, <2>7 DEF Founded, Deciding, account
  <2> QED
    BY <2>2, <2>3, <2>4, <2>8, <2>9, NoState, KeepStep DEF AdminLoginPost
<1>3. CASE ~tabs[t].ok
  <2> DEFINE form == [tabs[t] EXCEPT !.as = None]
  <2>1. form \in Tab
    BY <1>1 DEF Tab
  <2>2. form.as = None /\ form.state = tabs[t].state /\ form.want = tabs[t].want
    BY <1>1 DEF Tab
  <2>3. Render(t, form)
    BY <1>3 DEF AdminLoginPost
  <2> HIDE DEF form
  <2> QED
    BY <2>1, <2>2, <2>3, RenderInv DEF AdminLoginPost
<1> QED
  BY <1>2, <1>3

\* It looks at the status of the account.
LEMMA GetStatusInv ==
    ASSUME AccountInv, NEW t \in Tabs, GetStatus(t)
    PROVE  AccountInv'
<1> DEFINE account == users[tabs[t].as]
           y == [tabs[t] EXCEPT !.what = "password",
                                !.ok = (@ /\ account.status = "active")]
<1>1. /\ tabs[t] \in Tab /\ tabs[t].pc = "server" /\ tabs[t].what = "status"
      /\ tabs[t].as \in Users /\ tabs[t].as # None /\ tabs[t].state = None
      /\ account \in Account /\ Founded(tabs[t])
  BY TabFacts, PostFacts DEF GetStatus, Serving
<1>2. y \in Tab
  BY <1>1 DEF Tab, Calls
<1>3. /\ y.pc = "server" /\ y.what = "password" /\ y.as = tabs[t].as
      /\ y.state = None /\ y.held = tabs[t].held
      /\ y.ok = (tabs[t].ok /\ account.status = "active")
  BY <1>1 DEF Tab
<1>4. tabs' = [tabs EXCEPT ![t] = y]
  BY DEF GetStatus, AccountInv, TypeOK
<1>5. Holds(y, account) = {account.status, account.role}
      /\ Holds(tabs[t], account) = {account.status, account.role}
  BY <1>1, <1>3 DEF Holds
<1>6. {account.status, account.role} \subseteq tabs[t].held
  BY <1>1, <1>5 DEF Founded, Deciding
<1>7. account.status \in {"none", "active", "suspended"}
  BY <1>1 DEF Account
<1>8. IF tabs[t].ok THEN "admin" \in tabs[t].held
                    ELSE tabs[t].held \cap {"none", "trader"} # {}
  BY <1>1 DEF Founded
<1> HIDE DEF y
<1>9. Carries(y)
  BY <1>1, <1>3 DEF Carries
<1>10. IF y.ok THEN {"admin", "active"} \subseteq y.held
               ELSE y.held \cap {"none", "trader", "suspended"} # {}
  BY <1>3, <1>6, <1>7, <1>8
<1>11. Founded(y)
  BY <1>3, <1>5, <1>6, <1>10 DEF Founded, Deciding
<1> QED
  BY <1>2, <1>3, <1>4, <1>9, <1>11, NoState, KeepStep DEF GetStatus

\* It looks at the password.
LEMMA VerifyPasswordInv ==
    ASSUME AccountInv, NEW t \in Tabs, VerifyPassword(t)
    PROVE  AccountInv'
<1>1. /\ tabs[t] \in Tab /\ tabs[t].pc = "server" /\ tabs[t].what = "password"
      /\ tabs[t].as # None /\ tabs[t].state = None /\ Founded(tabs[t])
  BY TabFacts, PostFacts DEF VerifyPassword, Serving
<1>2. IF tabs[t].ok THEN {"admin", "active"} \subseteq tabs[t].held
                    ELSE tabs[t].held \cap {"none", "trader", "suspended"} # {}
  BY <1>1 DEF Founded
<1>3. PICK match \in BOOLEAN :
        IF match /\ tabs[t].ok
        THEN tabs' = [tabs EXCEPT ![t].pc = "answer", ![t].what = "landed",
                                  ![t].to = tabs[t].want]
        ELSE Render(t, IF match THEN tabs[t]
                       ELSE [tabs[t] EXCEPT !.held = @ \cup {"mismatch"}])
  BY DEF VerifyPassword
<1>4. CASE match /\ tabs[t].ok
  <2> DEFINE y == [tabs[t] EXCEPT !.pc = "answer", !.what = "landed",
                                  !.to = tabs[t].want]
  <2>1. y \in Tab
    BY <1>1 DEF Tab, Shown
  <2>2. /\ y.pc = "answer" /\ y.what = "landed" /\ y.to = y.want
        /\ y.state = None /\ y.held = tabs[t].held
    BY <1>1 DEF Tab
  <2>3. tabs' = [tabs EXCEPT ![t] = y]
    BY <1>3, <1>4 DEF AccountInv, TypeOK
  <2> HIDE DEF y
  <2>4. Carries(y) /\ Founded(y)
    BY <1>2, <1>4, <2>2 DEF Carries, Founded, Deciding
  <2> QED
    BY <2>1, <2>2, <2>3, <2>4, NoState, KeepStep DEF VerifyPassword
<1>5. CASE match /\ ~tabs[t].ok
  <2>1. tabs[t].held \cap {"none", "trader", "suspended", "mismatch"} # {}
    BY <1>2, <1>5
  <2>2. Render(t, tabs[t])
    BY <1>3, <1>5
  <2> QED
    BY <1>1, <2>1, <2>2, RenderInv DEF VerifyPassword
<1>6. CASE ~match
  <2> DEFINE form == [tabs[t] EXCEPT !.held = @ \cup {"mismatch"}]
  <2>1. form \in Tab
    BY <1>1 DEF Tab
  <2>2. /\ form.state = tabs[t].state /\ form.want = tabs[t].want
        /\ "mismatch" \in form.held
    BY <1>1 DEF Tab
  <2>3. Render(t, form)
    BY <1>3, <1>6
  <2> HIDE DEF form
  <2> QED
    BY <2>1, <2>2, <2>3, RenderInv DEF VerifyPassword
<1> QED
  BY <1>4, <1>5, <1>6

-----------------------------------------------------------------------------
\* Changes of the user store

\* A request that is being served notes the change, every other tab does not
\* depend on it.
LEMMA NotingTab ==
    ASSUME AccountInv, NEW u \in Users, NEW account \in Account,
           account.role # "none", account.status # "none",
           users' = [users EXCEPT ![u] = account], google' = google,
           NEW z \in Tabs, NEW y, y = Noting(u, account)[z]
    PROVE  /\ y \in Tab /\ y.state = tabs[z].state
           /\ Carries(y) /\ Founded(y)' /\ Cookie(y)'
<1>1. /\ tabs[z] \in Tab /\ users \in [Users -> Account]
      /\ Carries(tabs[z]) /\ Founded(tabs[z]) /\ Cookie(tabs[z])
  BY TabFacts
<1>2. \A v \in Users : users'[v] = IF v = u THEN account ELSE users[v]
  BY <1>1
<1>3. tabs[z].what \in Deciding =>
        tabs[z].pc = "server" /\ tabs[z].as \in Users
  BY <1>1 DEF Carries, Deciding, Tab
<1>4. CASE tabs[z].pc = "server" /\ tabs[z].as = u
  <2>1. y = [tabs[z] EXCEPT !.held = @ \cup Holds(tabs[z], account)]
    BY <1>4 DEF Noting
  <2>2. y \in Tab
    BY <1>1, <2>1, HoldsType DEF Tab, Held
  <2>3. /\ y.pc = "server" /\ y.what = tabs[z].what /\ y.want = tabs[z].want
        /\ y.state = tabs[z].state /\ y.as = u /\ y.to = tabs[z].to
        /\ y.ok = tabs[z].ok /\ y.clear = tabs[z].clear
        /\ y.held = tabs[z].held \cup Holds(tabs[z], account)
    BY <1>1, <1>4, <2>1 DEF Tab
  <2>4. Carries(y)
    BY <1>1, <1>4, <2>3 DEF Carries
  <2>5. Cookie(y)'
    BY <1>1, <2>3 DEF Cookie
  <2>6. users'[y.as] = account /\ Holds(y, account) \subseteq y.held
    BY <1>2, <2>3 DEF Holds
  <2>7. Founded(y)'
    BY <1>1, <2>3, <2>6 DEF Founded, Deciding
  <2> QED
    BY <2>2, <2>3, <2>4, <2>5, <2>7
<1>5. CASE ~(tabs[z].pc = "server" /\ tabs[z].as = u)
  <2>1. y = tabs[z]
    BY <1>5 DEF Noting
  <2>2. y.what \in Deciding => users'[y.as] = users[y.as]
    BY <1>2, <1>3, <1>5, <2>1
  <2>3. Founded(y)'
    BY <1>1, <2>1, <2>2 DEF Founded, Deciding
  <2>4. Cookie(y)'
    BY <1>1, <2>1 DEF Cookie
  <2> QED
    BY <1>1, <2>1, <2>3, <2>4
<1> QED
  BY <1>4, <1>5

\* A step that changes the user store and leaves a good record in every tab.
LEMMA StoreStep ==
    ASSUME AccountInv, NEW u \in Users, NEW account \in Account,
           account.role # "none", account.status # "none",
           users' = [users EXCEPT ![u] = account], UNCHANGED <<google, csrf>>,
           NEW next \in [Tabs -> Tab], tabs' = next,
           \A z \in Tabs : next[z].state = tabs[z].state,
           \A z \in Tabs : Carries(next[z]) /\ Founded(next[z])' /\ Cookie(next[z])'
    PROVE  AccountInv'
<1>1. TypeOK'
  BY DEF AccountInv, TypeOK
<1>2. ASSUME NEW v \in Users PROVE Whole(users[v])'
  BY DEF AccountInv, TypeOK, Whole
<1>3. ASSUME NEW z \in Tabs
      PROVE  (Carries(tabs[z]) /\ Founded(tabs[z]) /\ Cookie(tabs[z]))'
  BY DEF Carries, Founded, Cookie
<1>4. ASSUME NEW y \in Tabs, NEW z \in Tabs, y # z, tabs'[y].state # None
      PROVE  tabs'[y].state # tabs'[z].state
  BY <1>4 DEF AccountInv
<1> QED
  BY <1>1, <1>2, <1>3, <1>4 DEF AccountInv

\* An administrator changes an account meanwhile.
LEMMA AdministerInv ==
    ASSUME AccountInv, NEW u \in Users, NEW role \in {"trader", "admin"},
           NEW status \in {"active", "suspended"},
           Administer(u, [role |-> role, status |-> status])
    PROVE  AccountInv'
<1> DEFINE account == [role |-> role, status |-> status]
           next == Noting(u, account)
<1>1. account \in Account /\ account.role # "none" /\ account.status # "none"
  BY DEF Account
<1>2. users' = [users EXCEPT ![u] = account] /\ tabs' = next
      /\ UNCHANGED <<google, csrf>>
  BY DEF Administer
<1> HIDE DEF account
<1>3. ASSUME NEW z \in Tabs, NEW y, y = next[z]
      PROVE  /\ y \in Tab /\ y.state = tabs[z].state
             /\ Carries(y) /\ Founded(y)' /\ Cookie(y)'
  BY <1>1, <1>2, <1>3, NotingTab
<1>4. PICK f : f = next
  OBVIOUS
<1>5. f \in [Tabs -> Tab]
  BY <1>3, <1>4 DEF Noting
<1>6. \A z \in Tabs : /\ f[z].state = tabs[z].state /\ Carries(f[z])
                      /\ Founded(f[z])' /\ Cookie(f[z])'
  BY <1>3, <1>4
<1> QED
  BY <1>1, <1>2, <1>4, <1>5, <1>6, StoreStep

\* The exchange with Google and the account that it may provision.
LEMMA ExchangeInv ==
    ASSUME AccountInv, NEW t \in Tabs, Exchange(t)
    PROVE  AccountInv'
<1> DEFINE u == tabs[t].as
           account == EnsureGoogleUser(u)
<1>1. /\ tabs[t] \in Tab /\ tabs[t].pc = "server" /\ tabs[t].what = "exchange"
      /\ u \in Users /\ u # None /\ tabs[t].state # None
      /\ tabs[t].to = tabs[t].want /\ tabs[t].want # None
  BY TabFacts DEF Exchange, Serving, Carries, Tab
<1>2. CASE /\ users' = [users EXCEPT ![u] = account]
           /\ tabs' = [Noting(u, account) EXCEPT
                         ![t].what = "googleStatus", ![t].spent = TRUE,
                         ![t].held = Holds(tabs[t], account)]
  <2>1. account \in Account /\ account.role # "none" /\ account.status # "none"
    BY <1>1 DEF EnsureGoogleUser, Account, Whole, Missing, AccountInv, TypeOK
  <2>2. UNCHANGED <<google, csrf>>
    BY DEF Exchange
  <2>3. ASSUME NEW z \in Tabs, NEW y, y = Noting(u, account)[z]
        PROVE  /\ y \in Tab /\ y.state = tabs[z].state
               /\ Carries(y) /\ Founded(y)' /\ Cookie(y)'
    BY <1>1, <1>2, <2>1, <2>2, <2>3, NotingTab
  <2> DEFINE held == Holds(tabs[t], account)
             before == Noting(u, account)[t]
             y == [before EXCEPT !.what = "googleStatus", !.spent = TRUE, !.held = held]
             next == [z \in Tabs |-> IF z = t THEN y ELSE Noting(u, account)[z]]
  <2>4. before \in Tab /\ before = [tabs[t] EXCEPT !.held = @ \cup held]
    BY <1>1, <2>3 DEF Noting
  <2>5. y \in Tab
    BY <2>1, <2>4, HoldsType DEF Tab, Calls, Held
  <2>6. /\ y.pc = "server" /\ y.what = "googleStatus" /\ y.as = u /\ y.held = held
        /\ y.state = tabs[t].state /\ y.want = tabs[t].want /\ y.to = tabs[t].to
    BY <1>1, <2>4 DEF Tab
  <2>7. tabs' = next
    BY <1>2 DEF Noting
  <2>8. Holds(y, account) = held
    BY <2>6 DEF Holds
  <2>9. users'[u] = account
    BY <1>1, <1>2, TabFacts
  <2> HIDE DEF y, held, account, before, next
  <2>10. PICK r : r = y
    OBVIOUS
  <2>11. Carries(r)
    BY <1>1, <2>6, <2>10 DEF Carries
  <2>12. Founded(r)'
    BY <2>1, <2>6, <2>8, <2>9, <2>10 DEF Founded, Deciding
  <2>13. Cookie(r)'
    BY <2>2, <2>5, <2>6, <2>10, SameAttempt DEF Cookie
  <2>14. PICK f : f = next
    OBVIOUS
  <2>15. f \in [Tabs -> Tab]
    BY <2>3, <2>5, <2>14 DEF next
  <2>16. \A z \in Tabs : /\ f[z].state = tabs[z].state /\ Carries(f[z])
                         /\ Founded(f[z])' /\ Cookie(f[z])'
    <3> SUFFICES ASSUME NEW z \in Tabs
                 PROVE  /\ f[z].state = tabs[z].state /\ Carries(f[z])
                        /\ Founded(f[z])' /\ Cookie(f[z])'
      OBVIOUS
    <3>1. CASE z = t
      <4>1. f[z] = r
        BY <2>10, <2>14, <3>1 DEF next
      <4> QED
        BY <2>6, <2>10, <2>11, <2>12, <2>13, <3>1, <4>1
    <3>2. CASE z # t
      BY <2>3, <2>14, <3>2 DEF next
    <3> QED
      BY <3>1, <3>2
  <2> QED
    BY <1>1, <1>2, <2>1, <2>2, <2>7, <2>14, <2>15, <2>16, StoreStep
<1>3. CASE /\ \E spent \in {tabs[t].spent, TRUE} : AnswerAndClear(t, "failed", spent)
           /\ UNCHANGED users
  <2>1. tabs[t].spent \in BOOLEAN
    BY <1>1 DEF Tab
  <2> QED
    BY <1>1, <1>3, <2>1, AnswerAndClearInv DEF Exchange
<1> QED
  BY <1>2, <1>3 DEF Exchange

-----------------------------------------------------------------------------
\* The browser

\* What a tab shows after an answer belongs to the attempt, or to none.
LEMMA AfterFacts ==
    ASSUME AccountInv, NEW t \in Tabs, tabs[t].pc = "answer",
           NEW x, x = After(tabs[t])
    PROVE  /\ x \in Tab /\ Carries(x) /\ Founded(x)
           /\ x.what = tabs[t].what
           /\ \/ x.state = None
              \/ x.state = tabs[t].state /\ x.want = tabs[t].want
<1>1. tabs[t] \in Tab /\ Carries(tabs[t])
  BY TabFacts
<1>2. CASE tabs[t].what = "adminLogin"
  <2>1. x = [tabs[t] EXCEPT !.pc = "server", !.clear = FALSE]
    BY <1>2 DEF After
  <2>2. x \in Tab
    BY <1>1, <2>1 DEF Tab
  <2>3. /\ x.pc = "server" /\ x.what = "adminLogin" /\ x.as = tabs[t].as
        /\ x.state = tabs[t].state /\ x.want = tabs[t].want
    BY <1>1, <1>2, <2>1 DEF Tab
  <2> QED
    BY <1>1, <1>2, <2>2, <2>3 DEF Carries, Founded, Deciding
<1>3. CASE tabs[t].what = "landed"
  <2>1. x = [Blank EXCEPT !.what = "landed", !.state = tabs[t].state,
                          !.want = tabs[t].want]
    BY <1>3 DEF After
  <2>2. x \in Tab
    BY <1>1, <2>1, BlankType DEF Tab, Shown
  <2>3. /\ x.pc = "user" /\ x.what = "landed" /\ ~x.clear
        /\ x.state = tabs[t].state /\ x.want = tabs[t].want
    BY <2>1 DEF Blank
  <2> QED
    BY <1>1, <1>3, <2>2, <2>3 DEF Carries, Founded, Deciding
<1>4. CASE tabs[t].what = "loginForm"
  <2>1. x = [Blank EXCEPT !.what = "loginForm", !.want = tabs[t].want]
    BY <1>4 DEF After
  <2>2. x \in Tab
    BY <1>1, <2>1, BlankType DEF Tab, Shown
  <2>3. x.pc = "user" /\ x.what = "loginForm" /\ ~x.clear /\ x.state = None
    BY <2>1 DEF Blank
  <2> QED
    BY <1>1, <1>4, <2>2, <2>3 DEF Carries, Founded, Deciding
<1>5. CASE tabs[t].what \notin {"adminLogin", "landed", "loginForm"}
  <2>1. x = [tabs[t] EXCEPT !.pc = "user", !.clear = FALSE, !.to = None, !.held = {}]
    BY <1>5 DEF After
  <2>2. x \in Tab
    BY <1>1, <2>1 DEF Tab
  <2>3. /\ x.pc = "user" /\ x.what = tabs[t].what /\ ~x.clear
        /\ x.state = tabs[t].state /\ x.want = tabs[t].want
    BY <1>1, <2>1 DEF Tab
  <2> QED
    BY <1>1, <1>5, <2>2, <2>3 DEF Carries, Founded, Deciding
<1> QED
  BY <1>2, <1>3, <1>4, <1>5

\* The answer to a new attempt makes the cookie its own; one that ends an
\* attempt leaves no cookie with its state.
LEMMA ReceiveInv ==
    ASSUME AccountInv, NEW t \in Tabs, Receive(t)
    PROVE  AccountInv'
<1>1. /\ tabs[t] \in Tab /\ Carries(tabs[t]) /\ Cookie(tabs[t])
      /\ tabs[t].pc = "answer"
  BY TabFacts DEF Receive
<1>2. PICK x : x = After(tabs[t])
  OBVIOUS
<1>3. /\ x \in Tab /\ Carries(x) /\ Founded(x) /\ x.what = tabs[t].what
      /\ \/ x.state = None
         \/ x.state = tabs[t].state /\ x.want = tabs[t].want
  BY <1>1, <1>2, AfterFacts
<1>4. tabs' = [tabs EXCEPT ![t] = x] /\ users' = users
  BY <1>2 DEF Receive
<1>5. \A z \in Tabs : tabs'[z] = IF z = t THEN x ELSE tabs[z]
  BY <1>4 DEF AccountInv, TypeOK
<1>6. google' \in StateCookie \cup {None}
  BY <1>1 DEF Receive, AccountInv, TypeOK, StateCookie, Carries, Tab
<1>7. TypeOK'
  BY <1>3, <1>4, <1>6 DEF Receive, AccountInv, TypeOK
<1>8. ASSUME NEW z \in Tabs PROVE (Carries(tabs[z]) /\ Founded(tabs[z]))'
  <2>1. PICK y : y = tabs'[z]
    OBVIOUS
  <2>2. Carries(y) /\ Founded(y)
    BY <1>3, <1>5, <2>1 DEF AccountInv
  <2>3. Founded(y)'
    BY <1>4, <2>2 DEF Founded
  <2> QED
    BY <2>1, <2>2, <2>3 DEF Carries, Founded
<1>9. ASSUME NEW y \in Tabs, NEW z \in Tabs, y # z, tabs'[y].state # None
      PROVE  tabs'[y].state # tabs'[z].state
  BY <1>3, <1>5, <1>9 DEF AccountInv
<1>10. ASSUME NEW z \in Tabs, google' # None
       PROVE  /\ tabs'[z].state = google'.state => tabs'[z].want = google'.redirect
              /\ tabs'[z].what \in {"landed", "denied", "failed"} /\ ~tabs'[z].clear =>
                    tabs'[z].state # google'.state
  <2>1. ~tabs[t].clear
    BY <1>10 DEF Receive
  <2>2. CASE tabs[t].what = "consent"
    <3>1. google' = [state |-> tabs[t].state, redirect |-> tabs[t].want]
      BY <2>1, <2>2 DEF Receive
    <3>2. google'.state = tabs[t].state /\ google'.redirect = tabs[t].want
      BY <3>1
    <3>3. tabs[t].state # None
      BY <1>1, <2>2 DEF Carries
    <3> QED
      BY <1>3, <1>5, <2>2, <3>2, <3>3 DEF AccountInv
  <2>3. CASE tabs[t].what # "consent"
    <3>1. google' = google
      BY <2>1, <2>3 DEF Receive
    <3>2. google.state \in States /\ google.state # None
      BY <1>6, <1>10, <3>1, AccountAssumption DEF StateCookie
    <3>3. CASE z = t
      BY <1>1, <1>3, <1>5, <1>10, <2>1, <3>1, <3>2, <3>3 DEF Cookie
    <3>4. CASE z # t
      BY <1>5, <1>10, <3>1, <3>4 DEF AccountInv, Cookie
    <3> QED
      BY <3>3, <3>4
  <2> QED
    BY <2>2, <2>3
<1>11. ASSUME NEW z \in Tabs
       PROVE  (Carries(tabs[z]) /\ Founded(tabs[z]) /\ Cookie(tabs[z]))'
  BY <1>8, <1>10 DEF Carries, Founded, Cookie
<1>12. \A v \in Users : Whole(users[v])'
  BY <1>4 DEF AccountInv, Whole
<1> QED
  BY <1>7, <1>9, <1>11, <1>12 DEF AccountInv

\* The answer is lost.
LEMMA LoseInv == ASSUME AccountInv, NEW t \in Tabs, Lose(t) PROVE AccountInv'
<1>1. /\ tabs[t] \in Tab /\ Carries(tabs[t]) /\ Cookie(tabs[t])
      /\ tabs[t].pc = "answer"
  BY TabFacts DEF Lose
<1>2. CASE tabs[t].as # None /\ tabs[t].state # None
  <2> DEFINE y == [tabs[t] EXCEPT !.pc = "user", !.what = "lost", !.clear = FALSE,
                                  !.to = None, !.held = {}]
  <2>1. y \in Tab
    BY <1>1 DEF Tab, Shown
  <2>2. /\ y.pc = "user" /\ y.what = "lost" /\ ~y.clear
        /\ y.state = tabs[t].state /\ y.want = tabs[t].want
    BY <1>1 DEF Tab
  <2>3. tabs' = [tabs EXCEPT ![t] = y]
    BY <1>2 DEF Lose, AccountInv, TypeOK
  <2> HIDE DEF y
  <2>4. Carries(y) /\ Founded(y)
    BY <1>1, <2>2 DEF Carries, Founded, Deciding
  <2>5. Cookie(y)
    BY <2>1, <2>2, SameAttempt
  <2> QED
    BY <2>1, <2>2, <2>3, <2>4, <2>5, KeepStep DEF Lose
<1>3. CASE ~(tabs[t].as # None /\ tabs[t].state # None)
  <2>1. Blank.pc = "user" /\ Blank.what = "page" /\ ~Blank.clear /\ Blank.state = None
    BY DEF Blank
  <2>2. tabs' = [tabs EXCEPT ![t] = Blank]
    BY <1>3 DEF Lose, AccountInv, TypeOK
  <2>3. Carries(Blank) /\ Founded(Blank)
    BY <2>1 DEF Carries, Founded, Deciding
  <2> QED
    BY <2>1, <2>2, <2>3, BlankType, NoState, KeepStep DEF Lose
<1> QED
  BY <1>2, <1>3

\* The state cookie runs out.
LEMMA StateExpiresInv == ASSUME AccountInv, StateExpires PROVE AccountInv'
<1>1. TypeOK'
  BY DEF StateExpires, AccountInv, TypeOK
<1>2. \A u \in Users : Whole(users[u])'
  BY DEF StateExpires, AccountInv, Whole
<1>3. ASSUME NEW z \in Tabs
      PROVE  (Carries(tabs[z]) /\ Founded(tabs[z]) /\ Cookie(tabs[z]))'
  <2>1. Carries(tabs[z]) /\ Founded(tabs[z])
    BY DEF AccountInv
  <2> QED
    BY <2>1 DEF StateExpires, Carries, Founded, Cookie
<1>4. \A y, z \in Tabs : y # z /\ tabs'[y].state # None => tabs'[y].state # tabs'[z].state
  BY DEF StateExpires, AccountInv
<1> QED
  BY <1>1, <1>2, <1>3, <1>4 DEF AccountInv

-----------------------------------------------------------------------------
\* The invariant

\* The invariant holds initially.
LEMMA InitInv == Init => AccountInv
<1> SUFFICES ASSUME Init PROVE AccountInv
  OBVIOUS
<1>1. /\ Missing \in Account /\ Whole(Missing)
      /\ [role |-> "admin", status |-> "active"] \in Account
      /\ Whole([role |-> "admin", status |-> "active"])
  BY DEF Account, Missing, Whole
<1>2. TypeOK /\ \A u \in Users : Whole(users[u])
  BY <1>1, BlankType DEF Init, TypeOK
<1>3. /\ Blank.pc = "user" /\ Blank.what = "page" /\ ~Blank.clear
      /\ Blank.state = None
  BY DEF Blank
<1>4. Carries(Blank) /\ Founded(Blank) /\ Cookie(Blank)
  BY <1>3 DEF Carries, Founded, Cookie, Deciding, Init
<1>5. \A t \in Tabs : tabs[t] = Blank
  BY DEF Init
<1> QED
  BY <1>2, <1>3, <1>4, <1>5 DEF AccountInv

\* It is inductive.
LEMMA StepInv == AccountInv /\ [Next]_vars => AccountInv'
<1> SUFFICES ASSUME AccountInv, [Next]_vars PROVE AccountInv'
  OBVIOUS
<1>1. CASE \E t \in Tabs, login \in {"googleLogin", "adminLogin"}, r \in Redirects :
               Click(t, login, r)
  BY <1>1, ClickInv
<1>2. CASE \E t \in Tabs, u \in Users \cup {None} : Consent(t, u)
  BY <1>2, ConsentInv
<1>3. CASE \E t \in Tabs : Reload(t) \/ Back(t)
  BY <1>3, ReloadInv, BackInv
<1>4. CASE \E t \in Tabs, u \in Users : Submit(t, u)
  BY <1>4, SubmitInv
<1>5. CASE \E t \in Tabs : Serve(t)
  BY <1>5, HandleGoogleLoginInv, HandleGoogleCallbackInv, ExchangeInv, GoogleStatusInv,
     AdminLoginGetInv, AdminLoginPostInv, GetStatusInv, VerifyPasswordInv DEF Serve
<1>6. CASE \E t \in Tabs : Receive(t) \/ Lose(t)
  BY <1>6, ReceiveInv, LoseInv
<1>7. CASE StateExpires
  BY <1>7, StateExpiresInv
<1>8. CASE \E u \in Users, role \in {"trader", "admin"},
              status \in {"active", "suspended"} :
               Administer(u, [role |-> role, status |-> status])
  BY <1>8, AdministerInv
<1>9. CASE UNCHANGED vars
  BY <1>9 DEF vars, AccountInv, TypeOK, Carries, Founded, Cookie, Whole
<1> QED
  BY <1>1, <1>2, <1>3, <1>4, <1>5, <1>6, <1>7, <1>8, <1>9 DEF Next

\* In every state of every run the states of the attempts are distinct, the
\* cookie with the state of an attempt has its redirect, and what a verdict
\* will rest on was noted of the account.
THEOREM AccountInvariant == Spec => []AccountInv
  BY InitInv, StepInv, PTL DEF Spec

\* The store, the cookies and the tabs keep their types.
THEOREM TypeCorrect == Spec => []TypeOK
<1>1. AccountInv => TypeOK
  BY DEF AccountInv
<1> QED
  BY <1>1, AccountInvariant, PTL

\* A login with Google ends where its own tab was headed, however many tabs
\* share the cookie and whatever the order of the answers.
THEOREM LandsWhereHeaded == Spec => []RedirectOfAttempt
<1>1. AccountInv => RedirectOfAttempt
  BY DEF AccountInv, Carries, RedirectOfAttempt
<1> QED
  BY <1>1, AccountInvariant, PTL

\* The state of an answered attempt is in no cookie: neither reload nor the
\* back button takes it up again.
THEOREM AnsweredOnce == Spec => []AnsweredStateIsGone
<1>1. AccountInv => AnsweredStateIsGone
  BY DEF AccountInv, Carries, Cookie, AnsweredStateIsGone
<1> QED
  BY <1>1, AccountInvariant, PTL

\* Nobody is let in who was not active, and with the password not admin, at
\* some instant of the request, whatever the administration does meanwhile.
THEOREM GrantsEarned == Spec => []GrantsAreEarned
<1>1. AccountInv => GrantsAreEarned
  BY DEF AccountInv, Founded, GrantsAreEarned
<1> QED
  BY <1>1, AccountInvariant, PTL

\* Nobody is turned away who was never, during the request, what he is turned
\* away for.
THEOREM DenialsCaused == Spec => []DenialsHaveCause
<1>1. AccountInv => DenialsHaveCause
  BY DEF AccountInv, Founded, DenialsHaveCause
<1> QED
  BY <1>1, AccountInvariant, PTL
=============================================================================
