-------------------------- MODULE KiteLoginsProofs --------------------------
(***************************************************************************)
(* For any number of tabs, emails, accounts and apps: the types, and that  *)
(* the form and the callback of a login agree on its Kite app.             *)
(***************************************************************************)
EXTENDS KiteLogins, TLAPS

\* A tab with nothing in it.
LEMMA BlankType == Blank \in Tab
  BY DEF Blank, Tab, Shown

\* A request carries nothing that was looked up.
LEMMA RequestType ==
    ASSUME NEW call \in Calls, NEW email \in Emails \cup {None}
    PROVE  /\ Requests(call, email) \in Tab
           /\ Requests(call, email).found = None
  BY BlankType DEF Requests, Blank, Tab

\* A step that puts a good record into one tab, while the credentials stay,
\* keeps the invariant.
LEMMA TabStep ==
    ASSUME KiteInv, NEW t \in Tabs, NEW x \in Tab, LookupGood(x),
           tabs' = [tabs EXCEPT ![t] = x],
           UNCHANGED <<credentials, registry>>,
           session' \in Accounts \cup {None},
           csrf' \in Tabs \cup {None}
    PROVE  KiteInv'
<1>1. TypeOK'
  BY DEF KiteInv, TypeOK
<1>2. ASSUME NEW z \in Tabs
      PROVE  LookupGood(tabs[z])'
  <2>1. tabs'[z] = IF z = t THEN x ELSE tabs[z]
    BY DEF KiteInv, TypeOK
  <2>2. LookupGood(tabs'[z])
    BY <2>1 DEF KiteInv
  <2> QED
    BY <2>2 DEF LookupGood
<1> QED
  BY <1>1, <1>2 DEF KiteInv

\* A tab of which no lookup is remembered is good.
LEMMA NoLookup ==
    ASSUME NEW x, x.found = None
    PROVE  LookupGood(x)
  BY DEF LookupGood

-----------------------------------------------------------------------------
\* The user

\* A visit to a protected page.
LEMMA VisitInv == ASSUME KiteInv, NEW t \in Tabs, Visit(t) PROVE KiteInv'
<1>1. Requests("visit", None) \in Tab /\ LookupGood(Requests("visit", None))
  BY RequestType, NoLookup DEF Calls
<1> QED
  BY <1>1, TabStep DEF Visit, KiteInv, TypeOK

\* The choice of Kite on the login page.
LEMMA ChooseKiteInv ==
    ASSUME KiteInv, NEW t \in Tabs, NEW email \in Emails \cup {None},
           ChooseKite(t, email)
    PROVE  KiteInv'
<1>1. /\ Requests("browserLogin", email) \in Tab
      /\ LookupGood(Requests("browserLogin", email))
  BY RequestType, NoLookup DEF Calls
<1> QED
  BY <1>1, TabStep DEF ChooseKite, KiteInv, TypeOK

\* The submission of the email form.
LEMMA SubmitInv ==
    ASSUME KiteInv, NEW t \in Tabs, NEW email \in Emails \cup {None},
           Submit(t, email)
    PROVE  KiteInv'
<1>1. /\ Requests("postLogin", email) \in Tab
      /\ Requests("postLogin", email).found = None
  BY RequestType DEF Calls
<1>2. PICK x \in Tab : /\ x = [Requests("postLogin", email) EXCEPT !.ok = (csrf = t)]
                       /\ x.found = None
  <2>1. [Requests("postLogin", email) EXCEPT !.ok = (csrf = t)] \in Tab
    BY <1>1 DEF Tab
  <2>2. [Requests("postLogin", email) EXCEPT !.ok = (csrf = t)].found = None
    BY <1>1 DEF Tab
  <2> QED
    BY <2>1, <2>2
<1> QED
  BY <1>2, NoLookup, TabStep DEF Submit, KiteInv, TypeOK

\* The target of the URL is what the form remembered, or there is none.
LEMMA ReturnInv ==
    ASSUME KiteInv, NEW t \in Tabs,
           LogInAtKite(t) \/ LogInTooLate(t)
    PROVE  KiteInv'
<1>1. tabs[t] \in Tab /\ LookupGood(tabs[t])
  BY DEF KiteInv, TypeOK
<1>2. PICK target \in Tab :
        /\ ReturnFromKite(t, target)
        /\ target = tabs[t] \/ target.found = None
  BY <1>1, BlankType DEF LogInAtKite, LogInTooLate, Blank
<1>3. PICK account \in Accounts :
        tabs' = [tabs EXCEPT ![t] =
            [target EXCEPT !.pc = "server", !.what = "callback",
                           !.key = tabs[t].key, !.who = account]]
  BY <1>2 DEF ReturnFromKite
<1>4. PICK x \in Tab :
        x = [target EXCEPT !.pc = "server", !.what = "callback",
                           !.key = tabs[t].key, !.who = account]
  <2>1. [target EXCEPT !.pc = "server", !.what = "callback",
                       !.key = tabs[t].key, !.who = account] \in Tab
    BY <1>1 DEF Tab, Calls
  <2> QED
    BY <2>1
<1>5. /\ x.found = target.found /\ x.email = target.email /\ x.what = "callback"
      /\ x.changed = target.changed /\ x.key = tabs[t].key
  BY <1>4 DEF Tab
<1>6. LookupGood(x)
  BY <1>1, <1>2, <1>5 DEF LookupGood
<1> QED
  BY <1>2, <1>3, <1>4, <1>6, TabStep DEF ReturnFromKite, KiteInv, TypeOK

\* A step that leaves what was found, typed and signed as it is.
LEMMA SameLookup ==
    ASSUME KiteInv, NEW t \in Tabs, NEW pc \in {"user", "server", "answer"},
           NEW what \in Shown \cup Calls, what \notin {"exchange", "missing"},
           tabs' = [tabs EXCEPT ![t].pc = pc, ![t].what = what],
           UNCHANGED <<credentials, registry, session, csrf>>
    PROVE  KiteInv'
<1>1. tabs[t] \in Tab /\ LookupGood(tabs[t])
  BY DEF KiteInv, TypeOK
<1>2. PICK x \in Tab : x = [tabs[t] EXCEPT !.pc = pc, !.what = what]
  <2>1. [tabs[t] EXCEPT !.pc = pc, !.what = what] \in Tab
    BY <1>1 DEF Tab
  <2> QED
    BY <2>1
<1>3. /\ x.found = tabs[t].found /\ x.email = tabs[t].email /\ x.what = what
      /\ x.changed = tabs[t].changed /\ x.key = tabs[t].key
  BY <1>1, <1>2 DEF Tab
<1>4. LookupGood(x)
  BY <1>1, <1>3 DEF LookupGood
<1>5. tabs' = [tabs EXCEPT ![t] = x]
  BY <1>2 DEF KiteInv, TypeOK
<1> QED
  BY <1>4, <1>5, TabStep DEF KiteInv, TypeOK

\* A reload.
LEMMA ReloadInv == ASSUME KiteInv, NEW t \in Tabs, Reload(t) PROVE KiteInv'
<1>1. "callback" \in Shown \cup Calls /\ "callback" \notin {"exchange", "missing"}
  BY DEF Calls
<1>2. /\ tabs' = [tabs EXCEPT ![t].pc = "server", ![t].what = "callback"]
      /\ UNCHANGED <<credentials, registry, session, csrf>>
  BY DEF Reload
<1> QED
  BY <1>1, <1>2, SameLookup

-----------------------------------------------------------------------------
\* The server

\* The middleware and the login page.
LEMMA PageInv ==
    ASSUME KiteInv, NEW t \in Tabs,
           RequireAuthBrowser(t) \/ HandleLoginChoice(t)
    PROVE  KiteInv'
<1>1. PICK what \in Shown \cup Calls :
        what \notin {"exchange", "missing"} /\ Answer(t, what)
  BY DEF RequireAuthBrowser, HandleLoginChoice, Shown, Calls
<1> QED
  BY <1>1, SameLookup DEF RequireAuthBrowser, HandleLoginChoice, Answer

\* The form as the answer.
LEMMA RenderInv ==
    ASSUME KiteInv, NEW t \in Tabs, Render(t),
           UNCHANGED <<credentials, registry, session, csrf>>
    PROVE  KiteInv'
<1>1. PICK x \in Tab : /\ x = [Blank EXCEPT !.pc = "answer", !.what = "form"]
                       /\ x.found = None
  <2>1. [Blank EXCEPT !.pc = "answer", !.what = "form"] \in Tab
    BY BlankType DEF Tab, Shown
  <2>2. [Blank EXCEPT !.pc = "answer", !.what = "form"].found = None
    BY DEF Blank
  <2> QED
    BY <2>1, <2>2
<1> QED
  BY <1>1, NoLookup, TabStep DEF Render, KiteInv, TypeOK

\* Where the lookup is made: what it found, and where.
LEMMA ToKiteInv ==
    ASSUME KiteInv, NEW t \in Tabs, ToKite(t),
           UNCHANGED <<credentials, registry, session, csrf>>
    PROVE  KiteInv'
<1> DEFINE email == tabs[t].email
           place == Found(email)[1]
           key == Found(email)[2]
           y == [Blank EXCEPT !.pc = "answer", !.what = "kite", !.email = email,
                              !.found = place, !.key = key]
<1>1. CASE email # None /\ key # None
  <2>1. tabs' = [tabs EXCEPT ![t] = y]
    BY <1>1 DEF ToKite
  <2>2. email \in Emails
    BY <1>1 DEF KiteInv, TypeOK, Tab
  <2>3. /\ credentials[email] \in Keys \cup {None}
        /\ registry[email] \in Keys \cup {None}
    BY <2>2 DEF KiteInv, TypeOK
  <2>4. \/ /\ place = "credentials" /\ key = credentials[email]
        \/ /\ place = "registry" /\ key = registry[email] /\ credentials[email] = None
    BY DEF Found
  <2>5. place \in {"credentials", "registry"} /\ key \in Keys
    BY <1>1, <2>3, <2>4
  <2> HIDE DEF place, key
  <2>6. y \in Tab
    BY <2>2, <2>5, BlankType DEF Tab, Shown
  <2>7. /\ y.found = place /\ y.email = email /\ y.key = key /\ y.what = "kite"
    BY DEF Blank
  <2>8. LookupGood(y)
    BY <1>1, <2>4, <2>7 DEF LookupGood
  <2> QED
    BY <2>1, <2>6, <2>8, TabStep DEF KiteInv, TypeOK
<1>2. CASE ~(email # None /\ key # None)
  BY <1>2, RenderInv DEF ToKite
<1> QED
  BY <1>1, <1>2

\* The two handlers of the login form.
LEMMA LoginFormInv ==
    ASSUME KiteInv, NEW t \in Tabs,
           BrowserLoginGet(t) \/ BrowserLoginPost(t)
    PROVE  KiteInv'
  BY ToKiteInv, RenderInv DEF BrowserLoginGet, BrowserLoginPost

\* Where the second lookup is made.
LEMMA AuthCallbackInv ==
    ASSUME KiteInv, NEW t \in Tabs, AuthCallback(t)
    PROVE  KiteInv'
<1> DEFINE email == tabs[t].email
           app == IF email = None THEN GlobalKey ELSE credentials[email]
           miss == [tabs[t] EXCEPT !.pc = "answer", !.what = "missing"]
           go == [tabs[t] EXCEPT !.what = "exchange", !.app = app]
<1>1. tabs[t] \in Tab /\ LookupGood(tabs[t])
  BY DEF KiteInv, TypeOK
<1>2. app \in Keys \cup {None}
  BY <1>1, KiteAssumption DEF KiteInv, TypeOK, Tab
<1>3. tabs[t].found \in {"credentials", "registry", None}
  BY <1>1 DEF Tab
<1>4. CASE app = None
  <2>1. tabs' = [tabs EXCEPT ![t] = miss]
    BY <1>4 DEF AuthCallback, Answer, KiteInv, TypeOK
  <2>2. miss \in Tab
    BY <1>1 DEF Tab, Shown
  <2>3. /\ miss.found = tabs[t].found /\ miss.email = email /\ miss.key = tabs[t].key
        /\ miss.what = "missing" /\ miss.changed = tabs[t].changed
    BY <1>1 DEF Tab
  <2>4. LookupGood(miss)
    BY <1>1, <1>3, <1>4, <2>3 DEF LookupGood
  <2> QED
    BY <2>1, <2>2, <2>4, TabStep DEF AuthCallback, KiteInv, TypeOK
<1>5. CASE app # None
  <2>1. tabs' = [tabs EXCEPT ![t] = go]
    BY <1>5 DEF AuthCallback, KiteInv, TypeOK
  <2>2. go \in Tab
    BY <1>1, <1>2 DEF Tab, Calls
  <2>3. /\ go.found = tabs[t].found /\ go.email = email /\ go.key = tabs[t].key
        /\ go.what = "exchange" /\ go.changed = tabs[t].changed /\ go.app = app
    BY <1>1 DEF Tab
  <2>4. LookupGood(go)
    BY <1>1, <1>3, <1>5, <2>3 DEF LookupGood
  <2> QED
    BY <2>1, <2>2, <2>4, TabStep DEF AuthCallback, KiteInv, TypeOK
<1> QED
  BY <1>4, <1>5

\* What a callback answers after which the request token is worth nothing.
LEMMA SpentType ==
    ASSUME KiteInv, NEW t \in Tabs, NEW what \in Shown \cup Calls
    PROVE  /\ Spent(tabs[t], what) \in Tab
           /\ Spent(tabs[t], what).found = None
<1>1. tabs[t].email \in Emails \cup {None}
  BY DEF KiteInv, TypeOK, Tab
<1>2. Spent(tabs[t], what) \in Tab
  BY <1>1, BlankType DEF Spent, Tab
<1> QED
  BY <1>2 DEF Spent, Blank

\* The callback whose exchange succeeds.
LEMMA ExchangeInv == ASSUME KiteInv, NEW t \in Tabs, Exchange(t) PROVE KiteInv'
<1>1. tabs[t].who \in Accounts \cup {None}
  BY DEF KiteInv, TypeOK, Tab
<1>2. PICK x \in Tab : /\ x = [Spent(tabs[t], "visit") EXCEPT !.grants = tabs[t].who]
                       /\ x.found = None
  <2>1. Spent(tabs[t], "visit") \in Tab /\ Spent(tabs[t], "visit").found = None
    BY SpentType DEF Calls
  <2>2. [Spent(tabs[t], "visit") EXCEPT !.grants = tabs[t].who] \in Tab
    BY <1>1, <2>1 DEF Tab
  <2>3. [Spent(tabs[t], "visit") EXCEPT !.grants = tabs[t].who].found = None
    BY <2>1 DEF Tab
  <2> QED
    BY <2>2, <2>3
<1> QED
  BY <1>2, NoLookup, TabStep DEF Exchange, KiteInv, TypeOK

\* The callback whose exchange fails.
LEMMA ExchangeFailsInv ==
    ASSUME KiteInv, NEW t \in Tabs, ExchangeFails(t)
    PROVE  KiteInv'
<1>1. CASE tabs' = [tabs EXCEPT ![t] = Spent(tabs[t], "refused")]
  <2>1. /\ Spent(tabs[t], "refused") \in Tab
        /\ LookupGood(Spent(tabs[t], "refused"))
    BY SpentType, NoLookup DEF Shown
  <2> QED
    BY <1>1, <2>1, TabStep DEF ExchangeFails, KiteInv, TypeOK
<1>2. CASE tabs' = [tabs EXCEPT ![t].pc = "answer", ![t].what = "refused",
                                ![t].app = None]
  <2> DEFINE y == [tabs[t] EXCEPT !.pc = "answer", !.what = "refused", !.app = None]
  <2>1. tabs[t] \in Tab /\ LookupGood(tabs[t])
    BY DEF KiteInv, TypeOK
  <2>2. y \in Tab
    BY <2>1 DEF Tab, Shown
  <2>3. /\ y.found = tabs[t].found /\ y.email = tabs[t].email /\ y.key = tabs[t].key
        /\ y.what = "refused" /\ y.changed = tabs[t].changed
    BY <2>1 DEF Tab
  <2>4. LookupGood(y)
    BY <2>1, <2>3 DEF LookupGood
  <2>5. tabs' = [tabs EXCEPT ![t] = y]
    BY <1>2 DEF KiteInv, TypeOK
  <2> QED
    BY <2>2, <2>4, <2>5, TabStep DEF ExchangeFails, KiteInv, TypeOK
<1> QED
  BY <1>1, <1>2 DEF ExchangeFails

-----------------------------------------------------------------------------
\* The browser and the credentials

\* The answer reaches the browser.
LEMMA ReceiveInv == ASSUME KiteInv, NEW t \in Tabs, Receive(t) PROVE KiteInv'
<1>1. tabs[t] \in Tab /\ LookupGood(tabs[t])
  BY DEF KiteInv, TypeOK
<1>2. After(tabs[t]) \in Tab /\ LookupGood(After(tabs[t]))
  <2>1. CASE tabs[t].what \in Calls
    <3>1. After(tabs[t]) = Requests(tabs[t].what, None)
      BY <2>1 DEF After, Calls
    <3> QED
      BY <2>1, <3>1, RequestType, NoLookup
  <2>2. CASE tabs[t].what \in {"page", "choice"}
    <3>1. After(tabs[t]) = [Blank EXCEPT !.what = tabs[t].what]
      BY <2>2 DEF After, Calls
    <3>2. [Blank EXCEPT !.what = tabs[t].what] \in Tab
      BY <2>2, BlankType DEF Tab, Shown
    <3>3. [Blank EXCEPT !.what = tabs[t].what].found = None
      BY DEF Blank
    <3> QED
      BY <3>1, <3>2, <3>3, NoLookup
  <2>3. CASE tabs[t].what \notin Calls \cup {"page", "choice"}
    <3> DEFINE y == [tabs[t] EXCEPT !.pc = "user"]
    <3>1. After(tabs[t]) = y
      BY <2>3 DEF After
    <3>2. y \in Tab
      BY <1>1 DEF Tab
    <3>3. /\ y.found = tabs[t].found /\ y.email = tabs[t].email /\ y.key = tabs[t].key
          /\ y.what = tabs[t].what /\ y.changed = tabs[t].changed /\ y.pc = "user"
          /\ y.app = tabs[t].app
      BY <1>1 DEF Tab
    <3>4. LookupGood(y)
      BY <1>1, <3>3 DEF LookupGood
    <3> QED
      BY <3>1, <3>2, <3>4
  <2> QED
    BY <2>1, <2>2, <2>3
<1>3. session' \in Accounts \cup {None} /\ csrf' \in Tabs \cup {None}
  BY <1>1 DEF Receive, KiteInv, TypeOK, Tab
<1>4. tabs' = [tabs EXCEPT ![t] = After(tabs[t])]
  BY DEF Receive
<1> QED
  BY <1>2, <1>3, <1>4, TabStep DEF Receive

\* The answer is lost.
LEMMA LoseInv == ASSUME KiteInv, NEW t \in Tabs, Lose(t) PROVE KiteInv'
<1> DEFINE y == [tabs[t] EXCEPT !.pc = "user", !.what = "lost", !.grants = None]
<1>1. tabs[t] \in Tab /\ LookupGood(tabs[t])
  BY DEF KiteInv, TypeOK
<1>2. y \in Tab
  BY <1>1 DEF Tab, Shown
<1>3. /\ y.found = tabs[t].found /\ y.email = tabs[t].email /\ y.key = tabs[t].key
      /\ y.what = "lost" /\ y.changed = tabs[t].changed
  BY <1>1 DEF Tab
<1>4. LookupGood(y)
  BY <1>1, <1>3 DEF LookupGood
<1>5. Blank \in Tab /\ LookupGood(Blank)
  BY BlankType, NoLookup DEF Blank
<1>6. PICK x \in {y, Blank} : tabs' = [tabs EXCEPT ![t] = x]
  BY DEF Lose, KiteInv, TypeOK
<1> HIDE DEF y
<1>7. x \in Tab /\ LookupGood(x)
  BY <1>2, <1>4, <1>5
<1> QED
  BY <1>6, <1>7, TabStep DEF Lose, KiteInv, TypeOK

\* Whoever looked the email up before is marked; others looked up another one.
LEMMA ChangeCredentialsInv ==
    ASSUME KiteInv, NEW email \in Emails, NEW app \in Keys \cup {None},
           ChangeCredentials(email, app)
    PROVE  KiteInv'
<1>1. ASSUME NEW z \in Tabs
      PROVE  tabs'[z] \in Tab /\ LookupGood(tabs[z])'
  <2> DEFINE y == [tabs[z] EXCEPT !.changed = TRUE]
  <2>1. tabs[z] \in Tab /\ LookupGood(tabs[z])
    BY DEF KiteInv, TypeOK
  <2>2. CASE tabs[z].found # None /\ tabs[z].email = email
    <3>1. tabs'[z] = y
      BY <2>2 DEF ChangeCredentials
    <3>2. y \in Tab
      BY <2>1 DEF Tab
    <3>3. /\ y.changed /\ y.found = tabs[z].found /\ y.email = tabs[z].email
          /\ y.key = tabs[z].key
      BY <2>1 DEF Tab
    <3> HIDE DEF y
    <3>4. y.email # None /\ y.key # None
      BY <2>1, <2>2, <3>3 DEF LookupGood
    <3> QED
      BY <3>1, <3>2, <3>3, <3>4 DEF LookupGood
  <2>3. CASE ~(tabs[z].found # None /\ tabs[z].email = email)
    <3>1. tabs'[z] = tabs[z]
      BY <2>3 DEF ChangeCredentials
    <3>2. CASE tabs[z].found = None
      BY <2>1, <3>1, <3>2 DEF LookupGood
    <3>3. CASE tabs[z].found # None
      <4>1. tabs[z].email \in Emails \ {email}
        BY <2>1, <2>3, <3>3 DEF LookupGood, Tab
      <4>2. credentials'[tabs[z].email] = credentials[tabs[z].email]
        BY <4>1 DEF ChangeCredentials, KiteInv, TypeOK
      <4> QED
        BY <2>1, <3>1, <4>2 DEF LookupGood
    <3> QED
      BY <3>2, <3>3
  <2> QED
    BY <2>2, <2>3
<1>2. tabs' \in [Tabs -> Tab]
  BY <1>1 DEF ChangeCredentials
<1>3. credentials' \in [Emails -> Keys \cup {None}]
  BY DEF ChangeCredentials, KiteInv, TypeOK
<1> QED
  BY <1>1, <1>2, <1>3 DEF ChangeCredentials, KiteInv, TypeOK

\* The registry changes under the requests.
LEMMA ChangeRegistryInv ==
    ASSUME KiteInv, NEW email \in Emails, NEW app \in Keys \cup {None},
           ChangeRegistry(email, app)
    PROVE  KiteInv'
  BY DEF ChangeRegistry, KiteInv, TypeOK, LookupGood

\* The session cookie runs out.
LEMMA ExpireInv == ASSUME KiteInv, Expire PROVE KiteInv'
  BY DEF Expire, KiteInv, TypeOK, LookupGood

-----------------------------------------------------------------------------

\* The invariant holds initially.
LEMMA InitInv == Init => KiteInv
<1> SUFFICES ASSUME Init PROVE KiteInv
  OBVIOUS
<1>1. TypeOK
  BY BlankType DEF Init, TypeOK
<1>2. ASSUME NEW t \in Tabs PROVE LookupGood(tabs[t])
  <2>1. tabs[t] = Blank /\ Blank.found = None
    BY DEF Init, Blank
  <2> QED
    BY <2>1, NoLookup
<1> QED
  BY <1>1, <1>2 DEF KiteInv

\* It is inductive.
LEMMA StepInv == KiteInv /\ [Next]_vars => KiteInv'
<1> SUFFICES ASSUME KiteInv, [Next]_vars PROVE KiteInv'
  OBVIOUS
<1>1. ASSUME NEW t \in Tabs, Clicks(t) PROVE KiteInv'
  BY <1>1, VisitInv, ChooseKiteInv, SubmitInv, ReturnInv, ReloadInv DEF Clicks
<1>2. ASSUME NEW t \in Tabs, Serve(t) PROVE KiteInv'
  BY <1>2, PageInv, LoginFormInv, AuthCallbackInv, ExchangeInv, ExchangeFailsInv
     DEF Serve
<1>3. ASSUME NEW t \in Tabs, Receive(t) PROVE KiteInv'
  BY <1>3, ReceiveInv
<1>4. CASE Disturb
  BY <1>4, ChangeCredentialsInv, ChangeRegistryInv, ExpireInv, LoseInv DEF Disturb
<1>5. CASE UNCHANGED vars
  BY <1>5 DEF vars, KiteInv, TypeOK, LookupGood
<1> QED
  BY <1>1, <1>2, <1>3, <1>4, <1>5 DEF Next

\* The invariant holds with fairness or without.
THEOREM KiteInvariant == Spec => []KiteInv
  BY InitInv, StepInv, PTL DEF Spec

\* Type correctness of the browser login.
THEOREM TypeCorrect == Spec => []TypeOK
<1>1. KiteInv => TypeOK
  BY DEF KiteInv
<1> QED
  BY <1>1, KiteInvariant, PTL

\* The form and the callback of a login agree on its Kite app
\* (handlers_browser.go 50 and 189), unless the credentials of the email have
\* changed since or only the registry knew it.
THEOREM LookupsAlwaysAgree == Spec => []LookupsAgree
<1>1. KiteInv => LookupsAgree
  BY DEF KiteInv, LookupGood, LookupsAgree
<1> QED
  BY <1>1, KiteInvariant, PTL
=============================================================================
