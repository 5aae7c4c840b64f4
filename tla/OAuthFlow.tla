----------------------------- MODULE OAuthFlow -----------------------------
(***************************************************************************)
(* The OAuth endpoints over the two stores: /oauth/register, /oauth/       *)
(* authorize, /oauth/email-lookup, the Kite callback and /oauth/token.     *)
(*                                                                         *)
(* A worker is the goroutine of one HTTP request.  A step of a worker ends *)
(* where the code touches state it shares with the others: a critical      *)
(* section of a store, an exchange with Kite, the answer.  A code enters   *)
(* its store with all its lifetime: a late Generate looks like one that    *)
(* time followed at once.  What a callback to the embedding program or the *)
(* configuration decides (a stored secret, a registry entry, the token     *)
(* checker) may be either, every time it is asked.  Browsers, MCP          *)
(* clients, Kite and the other logins are the environment.  What they hold *)
(* (a signed state, a request token, a code, a cookie) they may use late,  *)
(* twice or never, and in any combination: nothing joins a request token   *)
(* to the signed state that comes with it.                                 *)
(*                                                                         *)
(* One challenge stands for one authorization attempt of a client: the     *)
(* client id and redirect URI the signed state carries are flows[ch].      *)
(***************************************************************************)
EXTENDS Integers, FiniteSets

CONSTANTS
    DcrIds, KiteKeys, URIs, Workers, NoEntry, NoSave,
    MaxClients, MaxRedirectURIs, MaxClock, MaxStall, SaveOutcomes,
    Codes, MaxAuthCodes, TTL, CleanupPeriod,
    Challenges,  \* the PKCE pairs; a client knows the verifiers of its own
    Users,       \* the emails of those who may log in at Kite
    Elsewhere,   \* those of them whose browser has a cookie of another login
    RegistryKeys, \* the Kite apps of the key registry
    GlobalKey,   \* the server's own Kite app
    Logins,      \* the request tokens Kite may issue
    Cookie,      \* what stands in the place of a login for the short circuit
    None         \* no email, login, code or flow

VARIABLES
    entries, left, drawn, redeemed, ticker, tickReady, done, sweeping,
    clients, db, saving, issued, clock, serving, excused,
    req,      \* per worker: the request it is serving
    told,     \* the ids /oauth/register has answered with
    flows,    \* what the client asks for under each challenge
    offers,   \* the signed states handed out, and where the browser was sent
    kite,     \* Kite: per request token the login it stands for
    brought,  \* history: the logins that requests brought to an attempt
    cookies,  \* the users whose browser holds a dashboard cookie
    consent,  \* the users the consent recorder was called for
    sent,     \* the codes a redirect has delivered to the client
    jwts      \* history: the bearer tokens minted, numbered

Ids == DcrIds \cup KiteKeys

\* The Kite apps, named by their API keys.
ServerApps == RegistryKeys \cup {GlobalKey}
Apps == KiteKeys \cup ServerApps

Flow == [client : Ids, uri : URIs]

\* A signed oauthState; the email lookup has put in the RegistryKey, if any.
State == [ch : Challenges, registry : RegistryKeys \cup {None}]

\* The redirect to an app's login page, or (to = None) the email prompt.
Offer == [state : State, to : Ids \cup Apps \cup {None}]

Login == [app : Apps, user : Users, spent : BOOLEAN]

Brought == [ch : Challenges, login : Logins \cup {Cookie}, sub : Users]

\* An AuthCodeEntry.  With no Email it carries the RequestToken login; with
\* one, login is history: where the email comes from.
CodeEntry == [ch : Challenges, email : Users \cup {None}, login : Logins \cup {Cookie}]

Jwt == [sub : Users, aud : Ids, ch : Challenges,
        login : Logins \cup {Cookie}, deferred : BOOLEAN,
        nth : 1..Cardinality(Codes)]

AuthCodes == INSTANCE AuthCodeStore WITH Entries <- CodeEntry
Clients == INSTANCE ClientStore WITH Callers <- Workers

ASSUME FlowAssumption ==
    /\ IsFiniteSet(Ids) /\ IsFiniteSet(URIs) /\ IsFiniteSet(Codes)
    /\ DcrIds \cap KiteKeys = {}
    /\ MaxClients \in Nat \ {0} /\ MaxRedirectURIs \in Nat \ {0}
    /\ MaxClock \in Nat /\ MaxStall \in Nat
    /\ SaveOutcomes \subseteq {"ok", "error"}
    /\ MaxAuthCodes \in Nat \ {0} /\ TTL \in Nat /\ CleanupPeriod \in Nat \ {0}
    /\ NoEntry \notin Clients!Entry /\ NoEntry \notin CodeEntry
    /\ NoSave \notin Clients!Rows
    /\ Elsewhere \subseteq Users
    /\ Cookie \notin Logins \cup {None}
    /\ None \notin Users \cup Logins \cup Codes \cup Challenges \cup Ids \cup Apps
    /\ None \notin Flow /\ None \notin Login

codeVars == <<entries, left, drawn, redeemed, ticker, tickReady, done, sweeping>>
clientVars == <<clients, db, saving, issued, clock, serving, excused>>
grantVars == <<cookies, consent, sent, jwts>>
vars == <<codeVars, clientVars, req, told, flows, offers, kite, brought, grantVars>>

NoRequest == [pc |-> "idle", ch |-> None, id |-> None, login |-> None,
              email |-> None, code |-> None]

\* The worker's goroutine is at pc; its SaveClient, if any, has returned.
At(w, pc) == req[w].pc = pc /\ serving /\ saving[w] = NoSave

Goto(w, pc) == req' = [req EXCEPT ![w].pc = pc]
Answer(w) == req' = [req EXCEPT ![w] = NoRequest]
Asked(w) == flows[req[w].ch]
KiteClient(id) == id \in Clients!Known /\ clients[id].kite

Init ==
    /\ AuthCodes!Init
    /\ Clients!Init
    /\ req = [w \in Workers |-> NoRequest]
    /\ told = {}
    /\ flows = [ch \in Challenges |-> None]
    /\ offers = {}
    /\ kite = [t \in Logins |-> None]
    /\ brought = {}
    /\ cookies = Elsewhere
    /\ consent = {}
    /\ sent = {}
    /\ jwts = {}

-----------------------------------------------------------------------------
\* POST /oauth/register

Register(w, id, u) ==
    /\ At(w, "idle")
    /\ Clients!Register(w, id, {u})
    /\ req' = [req EXCEPT ![w] = [NoRequest EXCEPT !.pc = "registered", !.id = id]]
    /\ UNCHANGED <<codeVars, told, flows, offers, kite, brought, grantVars>>

\* The client learns its id when the row has been saved, or not been saved.
AnswerRegister(w) ==
    /\ At(w, "registered")
    /\ told' = told \cup {req[w].id}
    /\ Answer(w)
    /\ UNCHANGED <<codeVars, clientVars, flows, offers, kite, brought, grantVars>>

-----------------------------------------------------------------------------
\* GET /oauth/authorize

\* A client asks under a challenge of its own, perhaps not for the first time;
\* the handler looks the id up.
Authorize(w, ch, flow) ==
    /\ At(w, "idle")
    /\ flows[ch] \in {None, flow}
    /\ flows' = [flows EXCEPT ![ch] = flow]
    /\ req' = [req EXCEPT ![w] = [NoRequest EXCEPT
           !.pc = IF flow.client \in Clients!Known THEN "isKite" ELSE "autoRegister",
           !.ch = ch]]
    /\ UNCHANGED <<codeVars, clientVars, told, offers, kite, brought, grantVars>>

AutoRegister(w) ==
    /\ At(w, "autoRegister")
    /\ Clients!RegisterKiteClient(w, Asked(w).client, {Asked(w).uri})
    /\ Goto(w, "validate")
    /\ UNCHANGED <<codeVars, told, flows, offers, kite, brought, grantVars>>

IsKite(w) ==
    /\ At(w, "isKite")
    /\ Goto(w, IF KiteClient(Asked(w).client) THEN "addURI" ELSE "validate")
    /\ UNCHANGED <<codeVars, clientVars, told, flows, offers, kite, brought, grantVars>>

AddURI(w) ==
    /\ At(w, "addURI")
    /\ Clients!AddRedirectURI(w, Asked(w).client, Asked(w).uri)
    /\ Goto(w, "validate")
    /\ UNCHANGED <<codeVars, told, flows, offers, kite, brought, grantVars>>

Valid(flow) ==
    flow.client \in Clients!Known /\ flow.uri \in clients[flow.client].uris

\* ValidateRedirectURI; on a mismatch the answer is 400.
Validate(w) ==
    /\ At(w, "validate")
    /\ IF Valid(Asked(w)) THEN Goto(w, "route") ELSE Answer(w)
    /\ UNCHANGED <<codeVars, clientVars, told, flows, offers, kite, brought, grantVars>>

\* shortCircuitFromDashboard fires for the user u whose cookie the browser
\* sends, if kiteTokenChecker (a callback, which may say either) approves.
ShortCircuit(w, u, c) ==
    /\ At(w, "route")
    /\ u \in cookies
    /\ AuthCodes!Generate(c, [ch |-> req[w].ch, email |-> u, login |-> Cookie], TTL)
    /\ brought' = brought \cup {[ch |-> req[w].ch, login |-> Cookie, sub |-> u]}
    /\ sent' = sent \cup {c}
    /\ Answer(w)
    /\ UNCHANGED <<clientVars, told, flows, offers, kite, cookies, consent, jwts>>

\* redirectToKiteLogin and serveEmailPrompt hand the signed state to the browser.
HandOut(state, to) == offers' = offers \cup {[state |-> state, to |-> to]}

\* The state of a first request, before any email lookup.
Plain(ch) == [ch |-> ch, registry |-> None]

\* Mistake: the server's key serves a Kite client too.
RouteAnyToGlobal(w) ==
    /\ At(w, "route")
    /\ \E app \in {Asked(w).client, GlobalKey} : HandOut(Plain(req[w].ch), app)
    /\ Answer(w)
    /\ UNCHANGED <<codeVars, clientVars, told, flows, kite, brought, grantVars>>

\* No cookie, no approval or no room for a code: Kite login under the client's
\* own key; else the email prompt, if the key registry has entries; else the
\* server's key, or 400 if it has none.
Route(w) ==
    /\ At(w, "route")
    /\ IF KiteClient(Asked(w).client)
       THEN HandOut(Plain(req[w].ch), Asked(w).client)
       ELSE \/ \E to \in {None, GlobalKey} : HandOut(Plain(req[w].ch), to)
            \/ UNCHANGED offers
    /\ Answer(w)
    /\ UNCHANGED <<codeVars, clientVars, told, flows, kite, brought, grantVars>>

\* What a browser may bring: the signed states differ in nothing that says
\* whether they went out in a prompt or in a redirect, or to which app.
Signed == {o.state : o \in offers}

\* POST /oauth/email-lookup finds the email in the registry and goes on to the
\* login page of its app; any other outcome hands out no new state.
EmailLookup(w, state, key) ==
    /\ At(w, "idle")
    /\ HandOut([state EXCEPT !.registry = key], key)
    /\ UNCHANGED <<codeVars, clientVars, req, told, flows, kite, brought, grantVars>>

-----------------------------------------------------------------------------
\* Kite

\* A user logs in at the page of an app.  The redirects of Route lead there,
\* those of the browser login too, and whoever knows the API key.
KiteLogin(t, app, u) ==
    /\ kite[t] = None
    /\ kite' = [kite EXCEPT ![t] = [app |-> app, user |-> u, spent |-> FALSE]]
    /\ UNCHANGED <<codeVars, clientVars, req, told, flows, offers, brought, grantVars>>

\* Kite honours a request token once, under the app it was issued for, if the
\* secret is right: the exchanger then answers with the user's email.
ExchangeOk(t, app) ==
    /\ kite[t].app = app
    /\ ~kite[t].spent
    /\ kite' = [kite EXCEPT ![t].spent = TRUE]

\* Whatever the reason for an error; one that lost Kite's answer came too late.
ExchangeFails(t, app) == UNCHANGED kite \/ ExchangeOk(t, app)

-----------------------------------------------------------------------------
\* HandleKiteOAuthCallback

\* Whose key exchanges the login: the client's own, as the client store knows
\* it by now; else the one the state names; else the server's.
ExchangeKey(state) ==
    IF KiteClient(flows[state.ch].client) THEN flows[state.ch].client
    ELSE IF state.registry # None THEN state.registry ELSE GlobalKey

\* A browser comes from Kite, perhaps again (a reload).  Request token and
\* signed state are two parameters of the URL.
Callback(w, t, state) ==
    /\ At(w, "idle")
    /\ kite[t] # None
    /\ req' = [req EXCEPT ![w] = [NoRequest EXCEPT
           !.pc = IF KiteClient(flows[state.ch].client) THEN "ownKey" ELSE "serverKey",
           !.ch = state.ch,
           !.login = t,
           !.id = ExchangeKey(state)]]
    /\ brought' = brought \cup {[ch |-> state.ch, login |-> t, sub |-> kite[t].user]}
    /\ UNCHANGED <<codeVars, clientVars, told, flows, offers, kite, grantVars>>

\* The exchange, with the stored secret of the key; the email is known.
CallbackExchange(w) ==
    /\ At(w, "ownKey") \/ At(w, "serverKey")
    /\ ExchangeOk(req[w].login, req[w].id)
    /\ req' = [req EXCEPT ![w].pc = "generate", ![w].id = None,
                          ![w].email = kite[req[w].login].user]
    /\ UNCHANGED <<codeVars, clientVars, told, flows, offers, brought, grantVars>>

\* Mistake: the email is taken though the exchange failed.
DeferExchangeNamed(w) ==
    /\ At(w, "ownKey")
    /\ ExchangeFails(req[w].login, req[w].id)
    /\ req' = [req EXCEPT ![w].pc = "generate", ![w].id = None,
                          ![w].email = kite[req[w].login].user]
    /\ UNCHANGED <<codeVars, clientVars, told, flows, offers, brought, grantVars>>

\* With the client's own key a failure, or no stored secret, only defers the
\* exchange to the token endpoint.
DeferExchange(w) ==
    /\ At(w, "ownKey")
    /\ ExchangeFails(req[w].login, req[w].id)
    /\ req' = [req EXCEPT ![w].pc = "generate", ![w].id = None]
    /\ UNCHANGED <<codeVars, clientVars, told, flows, offers, brought, grantVars>>

\* With another key it ends the flow: 500.
RefuseCallback(w) ==
    /\ At(w, "serverKey")
    /\ ExchangeFails(req[w].login, req[w].id)
    /\ Answer(w)
    /\ UNCHANGED <<codeVars, clientVars, told, flows, offers, brought, grantVars>>

\* Mistake: the code leaves before the consent is recorded.
GenerateCodeAndSend(w, c) ==
    /\ At(w, "generate")
    /\ AuthCodes!Generate(c, [ch |-> req[w].ch, email |-> req[w].email,
                              login |-> req[w].login], TTL)
    /\ req' = [req EXCEPT ![w].pc = "redirect", ![w].code = c]
    /\ sent' = sent \cup {c}
    /\ UNCHANGED <<clientVars, told, flows, offers, kite, brought, cookies, consent, jwts>>

GenerateCode(w, c) ==
    /\ At(w, "generate")
    /\ AuthCodes!Generate(c, [ch |-> req[w].ch, email |-> req[w].email,
                              login |-> req[w].login], TTL)
    /\ req' = [req EXCEPT ![w].pc = "redirect", ![w].code = c]
    /\ UNCHANGED <<clientVars, told, flows, offers, kite, brought, grantVars>>

\* ErrAuthCodeStoreFull: 500, and the login is lost.
NoRoom(w) ==
    /\ At(w, "generate")
    /\ AuthCodes!Full
    /\ Answer(w)
    /\ UNCHANGED <<codeVars, clientVars, told, flows, offers, kite, brought, grantVars>>

\* SetAuthCookie and the consent recorder, if the email is known; the redirect.
Redirect(w) ==
    /\ At(w, "redirect")
    /\ LET known == {req[w].email} \ {None} IN
       /\ cookies' = cookies \cup known
       /\ consent' = consent \cup known
    /\ sent' = sent \cup {req[w].code}
    /\ Answer(w)
    /\ UNCHANGED <<codeVars, clientVars, told, flows, offers, kite, brought, jwts>>

-----------------------------------------------------------------------------
\* POST /oauth/token

\* A client presents a code it was sent with a verifier of its own.  Get is
\* the only look at the client; secretOK says if the secret sent is its own.
Token(w, c, ch, id, secretOK) ==
    /\ At(w, "idle")
    /\ c \in sent
    /\ flows[ch] # None
    /\ IF id \in Clients!Known /\ (clients[id].kite \/ secretOK)
       THEN req' = [req EXCEPT ![w] = [NoRequest EXCEPT
                !.pc = "consume", !.ch = ch, !.id = id, !.code = c]]
       ELSE UNCHANGED req
    /\ UNCHANGED <<codeVars, clientVars, told, flows, offers, kite, brought, grantVars>>

\* Mistake: only the client is compared.
MatchesClient(w, e) == flows[e.ch].client = req[w].id

\* Mistake: only the PKCE challenge is compared.
MatchesChallenge(w, e) == e.ch = req[w].ch

\* The client and PKCE checks on the entry that Consume returned.
Matches(w, e) == flows[e.ch].client = req[w].id /\ e.ch = req[w].ch

\* Mistake: the subject is the entry's Email even when the exchange was deferred.
MintFromEntry(w, e, user) ==
    jwts' = jwts \cup {[sub |-> e.email, aud |-> req[w].id, ch |-> req[w].ch,
                        login |-> e.login, deferred |-> e.email = None,
                        nth |-> Cardinality(jwts) + 1]}

Mint(w, e, user) ==
    jwts' = jwts \cup {[sub |-> user, aud |-> req[w].id, ch |-> req[w].ch,
                        login |-> e.login, deferred |-> e.email = None,
                        nth |-> Cardinality(jwts) + 1]}

\* The code is gone even if it is then refused.
ConsumeCode(w) ==
    /\ At(w, "consume")
    /\ AuthCodes!Consume(req[w].code)
    /\ LET e == entries[req[w].code] IN
       IF ~AuthCodes!Redeemable(req[w].code) \/ ~Matches(w, e)
       THEN Answer(w) /\ UNCHANGED jwts
       ELSE IF e.email # None
       THEN Answer(w) /\ Mint(w, e, e.email)
       ELSE /\ req' = [req EXCEPT ![w].pc = "deferred", ![w].login = e.login]
            /\ UNCHANGED jwts
    /\ UNCHANGED <<clientVars, told, flows, offers, kite, brought, cookies, consent, sent>>

\* The deferred exchange, with the secret the client sent or the stored one.
DeferredExchange(w) ==
    /\ At(w, "deferred")
    /\ ExchangeOk(req[w].login, req[w].id)
    /\ Mint(w, [email |-> None, login |-> req[w].login], kite[req[w].login].user)
    /\ Answer(w)
    /\ UNCHANGED <<codeVars, clientVars, told, flows, offers, brought, cookies, consent, sent>>

\* No secret, or Kite refuses: 400.
RefuseToken(w) ==
    /\ At(w, "deferred")
    /\ ExchangeFails(req[w].login, req[w].id)
    /\ Answer(w)
    /\ UNCHANGED <<codeVars, clientVars, told, flows, offers, brought, grantVars>>

-----------------------------------------------------------------------------
\* The rest of the process

SaveClient(w) ==
    /\ Clients!Save(w)
    /\ UNCHANGED <<codeVars, req, told, flows, offers, kite, brought, grantVars>>

\* Codes, map and requests die with the process; the JWT key, the signing key,
\* the browsers and Kite do not.
Crash ==
    /\ Clients!Crash
    /\ AuthCodes!Restart
    /\ req' = [w \in Workers |-> NoRequest]
    /\ UNCHANGED <<told, flows, offers, kite, brought, grantVars>>

Start ==
    /\ Clients!LoadFromDB
    /\ UNCHANGED <<codeVars, req, told, flows, offers, kite, brought, grantVars>>

Time ==
    /\ AuthCodes!Advance \/ AuthCodes!Sweep
    /\ UNCHANGED <<clientVars, req, told, flows, offers, kite, brought, grantVars>>

WorkerStep(w) ==
    \/ AnswerRegister(w)
    \/ AutoRegister(w) \/ IsKite(w) \/ AddURI(w) \/ Validate(w)
    \/ \E u \in Users, c \in Codes : ShortCircuit(w, u, c)
    \/ Route(w)
    \/ CallbackExchange(w) \/ DeferExchange(w) \/ RefuseCallback(w)
    \/ \E c \in Codes : GenerateCode(w, c)
    \/ NoRoom(w) \/ Redirect(w)
    \/ ConsumeCode(w) \/ DeferredExchange(w) \/ RefuseToken(w)
    \/ SaveClient(w)

NewRequest(w) ==
    \/ \E id \in DcrIds, u \in URIs : Register(w, id, u)
    \/ \E ch \in Challenges, flow \in Flow :
           /\ flow.client \in KiteKeys \cup told
           /\ Authorize(w, ch, flow)
    \/ \E state \in Signed, key \in RegistryKeys : EmailLookup(w, state, key)
    \/ \E t \in Logins, state \in Signed : Callback(w, t, state)
    \/ \E c \in Codes, ch \in Challenges, id \in Ids, ok \in BOOLEAN :
           Token(w, c, ch, id, ok)

Next ==
    \/ \E w \in Workers : WorkerStep(w) \/ NewRequest(w)
    \/ \E t \in Logins, app \in Apps, u \in Users : KiteLogin(t, app, u)
    \/ Crash
    \/ Start
    \/ Time

Spec == Init /\ [][Next]_vars

-----------------------------------------------------------------------------

Request == [pc : {"idle", "registered", "autoRegister", "isKite", "addURI", "validate",
                  "route", "ownKey", "serverKey",
                  "generate", "redirect", "consume", "deferred"},
            ch : Challenges \cup {None}, id : Ids \cup Apps \cup {None},
            login : Logins \cup {Cookie, None}, email : Users \cup {None},
            code : Codes \cup {None}]

TypeOK ==
    /\ AuthCodes!TypeOK
    /\ Clients!TypeOK
    /\ req \in [Workers -> Request]
    /\ flows \in [Challenges -> Flow \cup {None}]
    /\ told \subseteq DcrIds
    /\ offers \subseteq Offer
    /\ kite \in [Logins -> Login \cup {None}]
    /\ brought \subseteq Brought
    /\ cookies \subseteq Users /\ consent \subseteq Users
    /\ sent \subseteq Codes
    /\ jwts \subseteq Jwt

\* A bearer token names the client of an attempt and the user whose login, or
\* whose own cookie, some request brought to that attempt; no other tab's
\* login or attempt gets mixed in, and it takes the attempt's verifier.
JwtIdentity ==
    \A j \in jwts :
        /\ flows[j.ch].client = j.aud
        /\ [ch |-> j.ch, login |-> j.login, sub |-> j.sub] \in brought

\* However often the browser repeats the callback and the client the token
\* request, and whatever crashes between, one Kite login yields one token.
OneJwtPerLogin ==
    \A i, j \in jwts : i.login = j.login /\ i.login # Cookie => i = j

\* Whose token came from a callback that knew the email, that user's consent
\* was recorded before the code left the server.
ConsentUnlessDeferred ==
    \A j \in jwts : ~j.deferred /\ j.login # Cookie => j.sub \in consent

\* SetConsentRecorder: "The Handler invokes it once per successful OAuth
\* callback, after the email is known".
ConsentForEveryLogin ==
    \A j \in jwts : j.login # Cookie => j.sub \in consent

\* IsKiteAPIKey is "true if client_id is a user's Kite API key".
KiteKindTruthful ==
    \A id \in Clients!Known : clients[id].kite => id \in KiteKeys

\* A login under a user's own Kite app gives a token to that key's client and
\* to no other, whatever state came with it and however often the client was
\* forgotten between. (A login under an app of the server's serves any client.)
KeyLoginsStay ==
    \A j \in jwts :
        j.login # Cookie => kite[j.login].app \in ServerApps \cup {j.aud}

\* As long as no client is evicted, whoever asks under a Kite key is sent to the
\* login page of that very app: not to the server's, not to the email prompt.
OwnAppOffered ==
    \A o \in offers :
        o.state.registry = None /\ flows[o.state.ch].client \in KiteKeys
            => o.to = flows[o.state.ch].client

Grants == INSTANCE LoginGrants WITH
    Attempts <- Challenges, Flows <- Flow,
    asked <- flows, logins <- kite, tokens <- jwts

\* The handlers, stores, crashes and retries together keep what LoginGrants
\* promises: each step grants at most one token, to the client of an attempt,
\* for a user Kite has vouched for and for a login that had none and was
\* brought to that attempt.
ImplementsLoginGrants == Grants!Spec

-----------------------------------------------------------------------------
\* The inductive invariant of the flow, beside those of the two stores.

HasFlow(ch) == ch \in Challenges /\ flows[ch] # None

\* The request token stands for a login, and a callback brought it to ch.
LoginFor(t, ch) ==
    /\ t \in Logins
    /\ kite[t] # None
    /\ [ch |-> ch, login |-> t, sub |-> kite[t].user] \in brought

\* Kite has honoured t, under an app with which a callback for ch may ask.
HonouredFor(t, ch) ==
    kite[t].spent /\ kite[t].app \in ServerApps \cup {flows[ch].client}

\* Only ids that were drawn and answered, or Kite keys, are asked for.
ClientsAreTold ==
    /\ told \subseteq issued
    /\ \A ch \in Challenges : HasFlow(ch) => flows[ch].client \in KiteKeys \cup told

\* Signed states and what was brought are of attempts that some client made.
OffersFounded ==
    /\ \A o \in offers : HasFlow(o.state.ch)
    /\ \A b \in brought :
           /\ HasFlow(b.ch)
           /\ b.login # Cookie => LoginFor(b.login, b.ch) /\ kite[b.login].user = b.sub

\* What a request carries at each point of its handler belongs together.
RequestFounded(r) ==
    /\ r.pc # "idle" => serving
    /\ r.pc = "registered" => r.id \in issued
    /\ r.pc \notin {"idle", "registered"} => HasFlow(r.ch)
    /\ r.pc \in {"ownKey", "serverKey"} =>
           LoginFor(r.login, r.ch) /\ r.email = None
    /\ r.pc = "ownKey" => r.id = flows[r.ch].client
    /\ r.pc = "serverKey" => r.id \in ServerApps
    /\ r.pc \in {"generate", "redirect"} =>
           /\ LoginFor(r.login, r.ch) /\ r.email \in {None, kite[r.login].user}
           /\ r.email # None => HonouredFor(r.login, r.ch)
    /\ r.pc = "redirect" =>
           /\ r.code \in drawn
           /\ r.code \in AuthCodes!Stored => entries[r.code].email = r.email
    /\ r.pc = "consume" => r.code \in sent /\ r.id \in Ids
    /\ r.pc = "deferred" =>
           LoginFor(r.login, r.ch) /\ r.id \in Ids /\ flows[r.ch].client = r.id

RequestsFounded == \A w \in Workers : RequestFounded(req[w])

\* A stored code is of one attempt and one user; one that was sent out after
\* a callback names a user whose consent was recorded, if it names any.
EntryFounded(e) ==
    /\ HasFlow(e.ch)
    /\ IF e.login = Cookie
       THEN [ch |-> e.ch, login |-> Cookie, sub |-> e.email] \in brought
       ELSE /\ LoginFor(e.login, e.ch)
            /\ e.email \in {None, kite[e.login].user}
            /\ e.email # None => HonouredFor(e.login, e.ch)

CodesFounded ==
    /\ sent \subseteq drawn
    /\ \A c \in AuthCodes!Stored :
           /\ EntryFounded(entries[c])
           /\ c \in sent /\ entries[c].login # Cookie =>
                  entries[c].email \in consent \cup {None}

TokenFounded(j) ==
    /\ HasFlow(j.ch) /\ flows[j.ch].client = j.aud
    /\ [ch |-> j.ch, login |-> j.login, sub |-> j.sub] \in brought
    /\ j.login # Cookie => kite[j.login].app \in ServerApps \cup {j.aud}
    /\ ~j.deferred /\ j.login # Cookie => j.sub \in consent

TokensFounded == \A j \in jwts : TokenFounded(j)

\* Who holds the one exchange that Kite grants per login: a request that is
\* about to store a code with the email, a stored code with it, or a token.
HeldByRequests(t) ==
    {w \in Workers : req[w].pc = "generate" /\ req[w].email # None /\ req[w].login = t}

HeldByCodes(t) ==
    {c \in AuthCodes!Stored : entries[c].email # None /\ entries[c].login = t}

HeldByTokens(t) == {j \in jwts : j.login = t}

\* At most one of them, and none before Kite has spent the login.
OneHolderOf(t) ==
    LET w == HeldByRequests(t)
        c == HeldByCodes(t)
        j == HeldByTokens(t)
    IN  /\ \A x, y \in w : x = y
        /\ \A x, y \in c : x = y
        /\ \A x, y \in j : x = y
        /\ (w = {} /\ c = {}) \/ (w = {} /\ j = {}) \/ (c = {} /\ j = {})
        /\ w # {} \/ c # {} \/ j # {} => kite[t] # None /\ kite[t].spent

OneHolder == \A t \in Logins : OneHolderOf(t)

\* Every token, and every deferred request, has cost a code of its own.
Deferred == {w \in Workers : req[w].pc = "deferred"}

TokensCostCodes ==
    /\ IsFiniteSet(jwts) /\ IsFiniteSet(Deferred)
    /\ Cardinality(jwts) + Cardinality(Deferred) <= Cardinality(redeemed)

FlowInv ==
    /\ TypeOK
    /\ ClientsAreTold
    /\ OffersFounded
    /\ RequestsFounded
    /\ CodesFounded
    /\ TokensFounded
    /\ OneHolder
    /\ TokensCostCodes

\* OwnAppOffered holds as long as no registered client is evicted; then, a
\* client that passed Validate is still there at Route.
NoEviction ==
    [][serving /\ serving' => Clients!Known \subseteq Clients!Known']_vars

OwnPagesOnly ==
    /\ \A w \in Workers : req[w].pc = "route" => Asked(w).client \in Clients!Known
    /\ OwnAppOffered
=============================================================================

