# TLA+ models of kite-mcp-oauth

The repository is the OAuth 2.1 front of a Kite (Zerodha) MCP server: MCP
clients authorize at it, users log in at Kite, and the server answers with
bearer tokens of its own. It is one Go package, 2.7 thousand lines without the
tests. State lives in two in-memory stores, a table of clients that outlives
the process, signed values that browsers carry, and JWTs. All handlers are
called concurrently by `net/http`.

This directory holds the models, the TLC configurations that check them and the
TLAPS proofs. All file references are to `src/`.

## 1. Inventory

| Component | Source | State | Operations | Hard part |
|---|---|---|---|---|
| Authorization code store | `stores.go` 13-107 | map code -> entry with a deadline, `done` channel, ticker | `Generate`, `Consume`, `cleanup`, `Close` | one-time use against expiry and sweep, capacity, ticks that are dropped |
| Client store | `stores.go` 109-347 | map id -> entry, rows in the database | `Register`, `RegisterKiteClient`, `AddRedirectURI`, `evictOldest`, `LoadFromDB`, reads | saves happen after the unlock, fail silently, get lost in a crash; eviction; reload |
| OAuth endpoints | `handlers.go` 273-314, `handlers_oauth.go` | none of their own; a signed `oauthState` in the browser | `Register`, `Authorize`, `HandleEmailLookup`, `Token` | several store accesses per request, each a critical section of its own |
| Kite callback | `handlers_callback.go` | none | `HandleKiteOAuthCallback`: own key, registry key, server key; immediate or deferred exchange | request token and signed state come separately; repeated callbacks, a failing exchange, a full code store, restarts in between |
| JWT manager | `jwt.go` | two keys | `GenerateToken`, `ValidateToken`, `SetPreviousSecret` | rotation over restarts, audiences |
| Middleware | `middleware.go` | cookie `kite_jwt` | `RequireAuth`, `RequireAuthBrowser`, `SetAuthCookie` | which token opens which gate, how long renewals go on |
| Browser login | `handlers_browser.go` | signed target, CSRF cookie | login form, login choice, callback | form and callback look up credentials in different places |
| Admin password login | `handlers_admin.go` | CSRF cookie | `HandleAdminLogin` | role, status, password read separately |
| Admin MFA | `handlers_admin_mfa.go` | cookie `kite_admin_mfa`, CSRF cookie, TOTP secret in the user store | enrol, verify, `RequireAdminMFA` | a cookie that outlives the enrolment, two tabs |
| Google SSO | `google_sso.go` | state cookie | `HandleGoogleLogin`, `HandleGoogleCallback` | two tabs share the cookie, effects before the status check |
| Configuration | `config.go` | none | `Validate` | none |
| Metadata, templates, JSON | `handlers.go` | none | formatting | none |

How they interact. Every handler is a method of `Handler`, which owns the two
stores, the JWT manager and the signer, and reaches the embedding program by
callbacks: `KiteExchanger` (credentials and the exchange with Kite),
`KeyRegistry`, `AdminUserStore`, `KiteTokenChecker`, `ConsentRecorder`,
`ClientPersister`. A login runs through four HTTP requests: `Authorize` puts the
attempt (client, redirect URI, PKCE challenge) into a signed state and sends the
browser to Kite, perhaps by way of the email prompt; Kite sends it back to the
callback with a request token; the callback puts an authorization code into the
store and redirects; the client redeems the code at `Token`. Between any two of
them the server may restart, which empties both stores; the client table and the
keys survive. The callback also sets the dashboard cookie, and with it a later
`Authorize` skips Kite altogether (`shortCircuitFromDashboard`). So do the browser
login, Google SSO and the admin password login (`SetAuthCookie`).

What makes each component correct:

- Code store: a code is honoured at most once and only while it lives; the map
  keeps within its capacity; a full map empties itself.
- Client store: the cap on redirect URIs holds in memory, in flight and in the
  database; the table agrees with the memory; only room-making evicts; a second
  registration does not overwrite the first.
- Endpoints and callback: a token names the client of an attempt and a user whose
  login was brought to it; a login under a user's own Kite app serves that key's
  client only; a login yields one token; consent is recorded before the code
  leaves; a Kite key's user is sent to the login page of that app.
- JWT manager and middleware: a session survives each documented rotation of the
  key, ends with a rotation that has no fallback, and is not renewed for ever.
- Admin MFA: the gate opens only after a recent code; nobody ends up with a
  secret that no app holds; the redirects of gate and forms end.
- Google and password login: a login ends where its own tab was headed; an
  answered attempt is over; verdicts are founded on what the account was.
- Browser login: form and callback agree on the Kite app; who goes on gets in.

The full list of hazards, each with its line and the properties that cover it or
the reason why none does, is in `PROJECT.json`.

## 2. Modules

| Module | What it is |
|---|---|
| `OneTimeCodes` | Abstract specification of the code store: each code is unissued, live, redeemed or lapsed. |
| `AuthCodeStore` | The code store as it is coded. |
| `AuthCodeStoreProofs` | Its invariants and the refinement of `OneTimeCodes`, proved. |
| `ClientStore` | The client store, the saves outside the lock, the table, crash and reload. |
| `ClientStoreProofs` | Its types, URI cap, write-through, evictions and registrations, proved. |
| `LoginGrants` | Abstract specification of the flow: logins, and the tokens granted for them. |
| `OAuthFlow` | The handlers over `AuthCodes == INSTANCE AuthCodeStore` and `Clients == INSTANCE ClientStore`. |
| `OAuthFlowProofs` | Its properties and the refinement of `LoginGrants`, proved over the theorems of the two stores. |
| `Sessions` | Tokens, keys, middleware: the sessions that all logins end in. |
| `SessionsProofs` | Its properties, proved; what `ValidateToken` does with several audiences. |
| `AdminMFA` | The second factor of administrators, in one browser with several tabs. |
| `AdminMFAProofs` | Its properties, proved. |
| `AccountLogins` | The logins the user store decides: Google and the admin password. |
| `AccountLoginsProofs` | Its properties, proved. |
| `KiteLogins` | The browser login through Kite. |
| `KiteLoginsProofs` | Its safety property, proved. |
| `MC*` | The instances TLC checks: symmetry sets; the values are in the `.cfg` files. |

The definitions whose comment begins with "Mistake:" are wrong variants of the
definition that follows them, each a bug someone could write there. No
specification uses them. `PROJECT.json` ("mutants") pairs each property with a
variant under which TLC finds it violated.

### AuthCodeStore

`entries` is `s.entries`; `left[c]` is the time until `ExpiresAt`, `-1` when it
is past, so that time has no bound. Each operation holds `s.mu` throughout and is
one action. `Generate` reads the clock before it gets the lock: the lifetime of
a code at its insertion is any value up to `TTL`, expired included. `Advance` is
a unit of time together with the ticker, whose channel holds one tick and drops
the next if it is not read. `Sweep`, `CleanupExit` are the two branches of the
`select`; when both are ready Go picks either. `Close` does not stop `Generate`.
`drawn` and `redeemed` are history: what `randomHex` returned (256 bits: never
twice) and what `Consume` answered with.

### ClientStore

`clients` is `s.clients`, `db` the table. Each operation changes the map in one
critical section and captures a row; `saving[p]` is that row until `Save(p)`,
which succeeds or fails. Other callers and a `Crash` may come before it. A nil
persister is `SaveOutcomes = {"error"}`. `LoadFromDB` runs once at startup,
before requests are served (`serving`), and may fail. `created` is the
`time.Now()` taken before the lock, at most `MaxStall` old when the lock is got.
`Insert` evicts one oldest client if the map is full; of equal stamps the map's
iteration order picks. Redirect URIs are sets: a duplicate in a registration
counts against the cap in the code, which only makes the cap stricter.
`excused` is history for one property, see below.

### OAuthFlow

A worker is the goroutine of one request; `req[w].pc` says where it is between
two accesses to shared state. `Authorize` is split into the look-up, the
registration or the added URI, the redirect check, and the routing, as the code
takes the lock anew for each; the callback into the kind of the client, the
exchange, the code, and the answer; `Token` into the look at the client, the
consumption of the code with all checks on it, and the deferred exchange. A
`SaveClient` must return before its worker goes on.

What is signed or hashed is abstract: one `challenge` stands for one attempt, and
`flows[ch]` is the client and redirect URI its signed state carries. `offers` has
the signed states handed out, with the registry key the email lookup has put in
and the page the browser was sent to. The browser may present what it holds at any
later time, any number of times, also after a restart: `offers`, `kite`, `cookies`
and `sent` only grow.

Request token and signed state are independent. `HandleKiteOAuthCallback` takes
them as two parameters of the URL (`handlers_callback.go` 14 and 20-42), and no
cookie or nonce joins them. So `KiteLogin` lets any user log in at any app, with or
without an attempt, and `Callback(w, t, state)` takes any login that was made and
any state that was handed out, from a redirect or out of a prompt. What a callback
brought together is recorded in the history variable `brought`: this login (or, in
the short circuit, this user's cookie) to this attempt. The properties speak of
what was brought; that the user meant the attempt his login is brought to is not
something the code could know.

Kite honours a request token once and only under the app that issued it. Other
answers are free at every call: whether a secret is stored, whether the registry
knows the email, whether the token checker approves, whether an exchange fails
(before or after Kite has spent the request token).

The users in `Elsewhere` hold a dashboard cookie from the start, of any login
without the Kite callback (`handlers_browser.go` 70, `google_sso.go` 217,
`handlers_admin.go` 74). These record no consent. A client that such a cookie
serves gets a token whose user has no consent event, without a "successful OAuth
callback"; the properties about consent are therefore about tokens that descend
from a callback (`login # Cookie`).

`LoginGrants` knows no requests, codes, stores or crashes. A client asks, a user
logs in at an app of Kite, the login or a user's cookie is brought to an attempt
(`Bring`), Kite vouches for the login once (`Spend`), cookie and consent are
recorded, and a token is granted for what was brought, to the client of that
attempt: by cookie, or for a login that has none, either vouched for before under
the client's app or one of the server's, with the consent on record, or vouched
for just now under the client's app.

Simplifications: a code enters the store with its whole lifetime, since
an older one equals a new one and time steps; a client's authorization
attempts each have a challenge of their own (PKCE); the registry's keys have at
least eight characters, which `HandleEmailLookup` (line 299) enforces by slicing
before the callback (line 120) does; client ids differ from the reserved
audiences; the JWT key and the signer survive a restart.

### How the login modules fit together

`OAuthFlow`, `KiteLogins`, `AccountLogins` and `AdminMFA` stop where a token is
minted; `Sessions` begins there, with one action for each way a token comes to
be, and follows it through expiry, renewal, restarts and changes of the key.
`OAuthFlow` has who may get which token, `Sessions` how long it is good for.
The modules share no state: in the code they meet in the cookie `kite_jwt` and
the code store only, and `Sessions` has both.

### Sessions

`left` is the time to a deadline, so time has no bound; `age` is the time since
the login a token descends from, and stops at `Longest`. `secret` and `previous`
are the two keys. `Rotate` is steps 1 to 3 of the comment `jwt.go` 17-25,
`CompleteRotation` step 4, `Revoke` lines 27-28; each is a restart, which
empties the code store. The operator acts as documented: a rotation begins
when the last one is complete, and the previous key goes after `Wait`, which is
at least each lifetime. `SetPreviousSecret` is called at startup only.
`ShortCircuit` is `shortCircuitFromDashboard`, the silent renewal. `fresh` is
what the token checker answers; it is taken to be configured. Client ids are
taken to differ from the reserved audiences. A login at Kite that is under way
during a rotation is a login after it. When the exchange is deferred the
callback sets no cookie: that is `OAuthLogin` and `Forget`.

`RequireAuth` refuses the audience `dashboard` by name and accepts any other,
`admin-mfa` included, where the comment `handlers_admin_mfa.go` 35-37 speaks of
scopes that exclude each other. The properties are stated for what it accepts.

### AdminMFA, AccountLogins, KiteLogins

One browser with several tabs. Cookies belong to the browser, everything else
to a tab: the page the user looks at (`pc` is `"user"`), the request and the
call the handler is at (`"server"`), or the answer on its way (`"answer"`). A
handler is one step for each call to the user store, the credentials, Google or
Kite; cookies are read when a request is served (with a form: when it is
submitted) and set when the answer is received. Answers of different tabs arrive
in any order. In the last two modules they may be lost. Random values (CSRF
tokens, states, secrets) are fresh against all that are still held anywhere.

- `AdminMFA`: `app` is what the authenticator apps hold; a user types a code of
  such a secret, of the one on the form, which he then has scanned, or a wrong
  one. The store may refuse to save or to verify. Other devices enrol,
  other administrators clear. The form does not name a session: rendered for one
  admin it may be posted as another. Left out: that a form posted to
  verification by an admin whose secret is gone loses its redirect (`156` reads
  the query, the form has it in its body).
- `AccountLogins`: `google` is the cookie `google_oauth_state`. `Reload` and
  `Back` take an attempt up again. `held` is history: what the account has been
  while a login was decided. Role, status and password are separate reads, so an
  admin who gets in need not have been active and an admin at one instant. An
  error answer of Google clears the cookie and takes its redirect before the
  state is compared (`135`): the user who turned back goes on to the password
  form with the redirect of the tab that set the cookie last, and that tab's
  attempt is over. `RedirectOfAttempt` is therefore about logins that Google
  granted. Left out: the link to the admin who registered the app (`196`-`207`), a
  field nothing here reads; a handler without user store or Google configuration.
- `KiteLogins`: `credentials` is `GetCredentials`, `registry` is
  `GetByEmail`; both may change at any time. The redirect travels in the signed
  target of its own attempt and is left out. That Kite names another email than
  the target is only logged, and the session is for Kite's. The callback looks
  only at `GetCredentials`: a user whom only the registry knows is sent to Kite
  and refused on return. `LookupsAgree` states that this is the only way, besides a
  change in the meantime, that form and callback disagree.

## 3. Runs

| Run | Configuration | States | What it asks |
|---|---|---|---|
| `auth_codes` | 3 codes, 2 places, `TTL` 2, period 2 | 3,348 | `TypeOK`, `Capacity`, `SpentStaysSpent`, `ImplementsOneTimeCodes`, `CapacityRecovers` |
| `clients` | 3 clients, 1 place, 3 URIs, cap 2, 2 callers, failing saves, 2 instants; ids and URIs in play at most 4 | 147,118 | `TypeOK`, `UriCap`, `WriteThroughUnlessRaced`, `RegistrationIsStable`, `EvictsForRoom` |
| `client_write_through` | 1 client, 3 URIs, 2 callers, all saves succeed | violation | `WriteThrough` |
| `oauth_kite` | 2 Kite keys, 1 worker, 2 attempts, 2 users, one with a cookie, 1 login, 2 codes, 1 place | 472,872 | `TypeOK`, `JwtIdentity`, `KeyLoginsStay`, `OneJwtPerLogin`, `OwnAppOffered`, `ImplementsLoginGrants` |
| `oauth_dcr` | 1 registered client and 1 Kite key for one place, 2 workers, 1 attempt, 1 user, 1 login at any of 3 apps, at most 2 signed states handed out, 2 codes, 1 place | 1,384,842 | `KeyLoginsStay`, `OneJwtPerLogin`, `ConsentUnlessDeferred` |
| `oauth_consent` | 1 worker, 1 Kite key | violation | `ConsentForEveryLogin` |
| `oauth_kite_kind` | 1 worker, 1 registered client, 1 Kite key, 1 place | violation | `KiteKindTruthful` |
| `sessions` | 2 users, 4 keys, lifetimes 2, 3, 1, code 1, 2 tokens, 1 code | 175,548 | `TypeOK`, `LiveSessionsSurvive`, `RevocationEndsSessions`, `SessionEndsInTime` |
| `admin_mfa` | 2 admins, 2 tabs, 3 secrets, 3 CSRF tokens, lifetime 1 | 246,102 | `TypeOK`, `EnrolledSecretIsHeld`, `RedirectsEnd`, `GateNeedsRecentCode` |
| `admin_mfa_gate` | 2 admins, 1 tab, 2 secrets, 2 CSRF tokens, lifetime 1 | violation | `GateNeedsEnrolment` |
| `account_logins` | 1 account, 2 tabs, 2 redirects, 3 states | 395,053 | `TypeOK`, `RedirectOfAttempt`, `AnsweredStateIsGone`, `GrantsAreEarned`, `DenialsHaveCause` |
| `kite_logins` | 1 email, 1 Kite account, 2 apps, 2 tabs | 229,434 | `TypeOK`, `LookupsAgree`, `PersistentUserGetsIn` |

### What the properties say

- `SpentStaysSpent`, `Capacity`: one-time use and the bound, in every order of
  the store's operations.
- `ImplementsOneTimeCodes`: with the mapping `Status`, every behaviour of the
  store is one of `OneTimeCodes`: only a live code is redeemed, a redeemed or
  lapsed one stays so. Expiry, `Consume` of a dead code, the sweep and the
  restart are lapses or stutters.
- `CapacityRecovers`: a full store takes codes again unless it is closed.
- `UriCap`: the cap in all three places a list of URIs can be.
- `WriteThroughUnlessRaced`: the row agrees with the memory for every client but
  those of which a save failed or two saves were in flight at once (`excused`).
  It makes precise when the documented write-through does hold.
- `EvictsForRoom`: a client leaves only for another, when the map is full, one
  at a time, an oldest one; a reload that overfilled the map does not make it
  grow further.
- `RegistrationIsStable`: kind and URIs of a registered client are not undone by
  the second of two racing registrations.
- `JwtIdentity`: the audience is the client of the attempt whose verifier was
  shown, the subject a user whose login, or whose own cookie, some request brought
  to that attempt; no other attempt's login, code or cookie gets mixed in.
- `KeyLoginsStay`: a login under a user's own Kite app gives a token to that key's
  client only. Nothing ties the state to the login, and the callback asks anew
  whether the client is a Kite key, so it holds only because Kite honours the
  login under its own app, and each branch asks under a key of its own. A login
  under an app of the server's serves any client, a Kite key's too: after a restart
  that loaded no clients, the callback of that key's attempt asks under the
  server's app (`handlers_callback.go` 121).
- `OneJwtPerLogin`: however often the callback and the token request are
  repeated, one Kite login yields one token.
- `ConsentUnlessDeferred`: consent was recorded before the token, whenever the
  callback knew the email.
- `ImplementsLoginGrants`: every behaviour of the flow is one of `LoginGrants`. It
  binds what the invariants say one by one: each step mints at most one token, for
  a login that had none, after Kite and the consent, and takes nothing back.
- `OwnAppOffered`: `Authorize` sends whoever asks under a Kite key to the login
  page of that app. It is checked with room for each client. If an eviction falls
  between `ValidateRedirectURI` (`handlers_oauth.go` 60) and `IsKiteClient` (90),
  the user is sent to the prompt or to the server's app, and the property fails
  (with two Kite keys and `MaxClients` 1); no document says which is meant, so
  it stays a note. That an eviction is the only way is proved (`OwnPages`).
- `LiveSessionsSurvive`: through any number of documented rotations, at each step
  of them. It needs that only the new key signs and that the operator waits.
- `RevocationEndsSessions`: neither a code in flight nor a renewal brings a
  revoked session back.
- `SessionEndsInTime`: a renewal yields a code, never a cookie, so the chain from
  a login ends after a cookie, a code and a bearer.
- `EnrolledSecretIsHeld`: whichever forms are open, refused, posted twice or
  overtaken by an enrolment elsewhere, the store holds no secret that no app has.
- `GateNeedsRecentCode`: a page behind the gate is shown only for an admin whose
  secret in the store a code has matched within the lifetime of the cookie. A code
  that fits the form opens nothing if the store refused the secret; one that fits
  a secret enrolled anew does open the gate, without the old factor.
- `RedirectsEnd`: at most three redirects after a click, though gate,
  verification and enrolment each ask the store anew.
- `RedirectOfAttempt`, `AnsweredStateIsGone`: tabs that share a state cookie spoil
  each other's attempts but never mix them up, and an answered one is over.
- `GrantsAreEarned`, `DenialsHaveCause`: a verdict names only what was so at some
  instant of the request; a new Google user is never denied for being new. They
  permit a verdict composed of several instants, which the code does give.
- `LookupsAgree`, `PersistentUserGetsIn`: see above and "Fairness".

### What the violations show

1. `WriteThrough`. `stores.go` 156: "SetPersister enables write-through
   persistence". The saves of two requests may reach the database in the other
   order, and the older row stays, with no save having failed.
2. `ConsentForEveryLogin`. `handlers.go` 191: "The Handler invokes it once per
   successful OAuth callback, after the email is known". When the exchange is
   deferred the callback does not know the email, and `Token`, which learns it,
   does not record.
3. `KiteKindTruthful`. `stores.go` 132: "true if client_id is a user's Kite API
   key". `Authorize` takes any id it does not find for one, a registered client
   that was evicted or not reloaded included.
4. `GateNeedsEnrolment`. `handlers_admin_mfa.go` 20-24: the gate checks that the
   "user has TOTP enrolled (else redirect to /auth/admin-mfa/enroll)", and "Only
   when all three hold does the request reach the inner handler". It asks the store
   only when the cookie does not open the gate (229). An admin whose second factor
   was cleared goes on until his cookie expires.

### Bounds, and why they are enough

- Codes: three over two places: a full store, a place freed by each of the three
  ways (consumed, swept, lost), and a code drawn after it. In the flow two codes
  over one place: the second login finds the store full, or comes after.
- `TTL` and period 2 in `auth_codes`: a code may be live at one tick and dead at
  the next, and a tick may be dropped. In the flow runs `TTL` 0: a code may
  expire at any time after it was stored, which contains every longer lifetime.
- Two callers or workers (`clients`, `oauth_dcr`): every interleaving of two
  requests; the properties relate at most two requests. `oauth_kite` has one
  worker: its question is which logins, states, codes and verifiers are brought
  together, in every order of requests; the two attempts, keys and users are what
  can be mixed up. One login, since each property is about one, or about two tokens
  of one.
- `clients`: the constraint `FewIdsOrUris` keeps ids and URIs in play at four
  together. Three ids with one URI: a reload may bring back two rows where there is
  room for one, and a third id is inserted after it. Two ids with two URIs: lists
  that grow while the other client evicts. One id with three URIs: the cap. Two
  instants with `MaxStall` 1: stamps out of order and equal stamps.
- In the flow runs `MaxClock` is 0: all stamps are equal and eviction
  picks any client, more than the code allows, so what holds there holds for any
  times.
- `sessions`: lifetimes that differ, so that each kind of token can be the last one
  alive; two tokens and a code, since the properties speak of one token, and a
  chain has at most a cookie, a code and a bearer at once; four keys, so that one
  is unused whatever the two tokens carry.
- Two tabs: a property of these modules relates at most two attempts; a third
  could do to the shared cookies only what one of them can do later. Three
  secrets, tokens and states: a fresh one for each answer. One account and one
  email: tabs meet in the cookies, which name none, or in the account itself. In
  `kite_logins` two apps, one of them the server's: a lookup finds the right
  app, the wrong one or none.
- `MfaLife` 1: a cookie is valid or is not; an older one has expired.
- Crashes are not bounded, nor is time.
- `oauth_dcr` has one attempt and one user: its question is what eviction,
  re-registration and a second request do to a flow; two attempts are in
  `oauth_kite`. A login may be made at the Kite key's app, at one of the registry or
  at the server's. The constraint `FewOffers` goes no further once three
  pages have been handed out: two are a login prompt and the page its email lookup
  leads to, the pages of one client before and after it was forgotten, or those of
  two clients to be mixed up. That nothing more comes of more workers, logins, keys or cookies
  is what the proofs are for.

Deadlock is checked in every run.

### Fairness

Two properties need it. For `CapacityRecovers`, `FairSpec` has `WF(Advance)`:
time does not stop; and `WF(Sweep)`: the cleanup goroutine, once its ticker's channel is
ready, is eventually run by the Go scheduler. Nothing is assumed of callers,
`Close` or restarts: no client need ever redeem a code. The flow has no fairness;
users and clients may leave at any point.

`PersistentUserGetsIn` in `KiteLogins` is about a user who does not leave. Its
fairness: requests are served and answers arrive (`WF` of `Serve` and
`Receive`, per tab, the handlers having no loops and no locks); in one tab the user takes
the step that leads on (`WF(GoesOn)`); and the exchange with Kite, which may fail any
number of times, succeeds at last if it is tried again and again (`SF(Exchange)`).
The premise `Calm` says that from some point on the other tabs rest and
nothing is lost or changed. No answer of the server may then send him round.

## 4. Proofs

All theorems hold for every value of the constants that the named assumptions
admit (`StoreAssumption`, `ClientAssumption`, `FlowAssumption`,
`SessionAssumption`, `MfaAssumption`, `AccountAssumption`, `KiteAssumption`); TLC
evaluates them in each run.

`AuthCodeStoreProofs`. `SpentStaysSpent` is not inductive: nothing in it forbids
`Generate` to draw a code that was redeemed. `StoreInv` adds `StoredWereDrawn`,
that stored and redeemed codes are among the drawn ones, and is inductive
(`InitInv`, `StoreStep`, one case per action). The capacity needs facts about
finite sets: an insertion adds at most one (`StoredAfter`), a deletion none
(`FewerStored`). `TypeCorrect`, `NeverOverCapacity` and `OneTimeUse` follow.
`KeepsPromise` is the refinement: under `StoreInv` each step maps to a step of
`OneTimeCodes` or leaves `Status` as it was (`StepKeepsPromise`).

`ClientStoreProofs`. The cap on `clients` alone is not inductive, since a reload
takes entries from `db`, and `db` takes them from `saving`; the invariant
has all three, with the types. `ClientTypeCorrect` and `NeverPastUriCap`
follow.

`WriteThroughUnlessRaced` speaks of clients with no save in flight; whether it
holds when the last save returns depends on what was in flight. `SaveInv` adds:
for a client that is not excused at most one row is under way, and it is what the
memory holds (`InFlightAgrees`); a reload finds neither clients nor saves
(`EmptyUntilServing`), so that what it reads is what the memory then has; an id
that was never drawn has no row (`DrawnFirst`), so that `Register` cannot meet
one; and a Kite key is one wherever it occurs (`KiteKeysAreKite`), so that a
second registration of it changes no kind. `RegistrationIsStable` then follows
step by step. `EvictsForRoom` needs the cardinality of a map that one insertion
and one eviction have changed (`RoomForAll` and the lemmas before it).

`OAuthFlowProofs`. Each step of a handler is a step of the specifications of the
two stores or leaves them alone (`ClientsFollow`, `CodesFollow`); so `Spec`
implies both (`UsesClientStore`, `UsesAuthCodeStore`), and what is proved of the
stores holds under the handlers (`CodesKeepTheirPromise`, `ClientsWrittenThrough`).
`FlowInv` is inductive together with `StoreInv` and `ClientInv`. Its parts:

- What a request, a stored code or a token carries belongs together: an attempt, a
  login that a callback brought to it, that login's user, and, where the email is
  known, that Kite honoured the login under an app with which a callback for the
  attempt may ask (`RequestsFounded`, `CodesFounded`, `TokensFounded`). It stays so
  since nothing it rests on is taken back (`StepGrows`): Kite does not forget a
  login, what was brought stays so, a drawn code is not stored anew, cookies and
  consents only grow. None of it assumes that a login was made for the attempt.
- Of one login at most one of a request, a stored code and a token holds the
  answer Kite gave (`OneHolder`), and none before Kite gave it. `OneJwtPerLogin`
  alone is not inductive, because a second code for the same login may be on its
  way; that there is none rests on `spent` being set once and on the code store
  honouring a code once, and the proof follows the answer from the exchange into
  the code and from the code into the token (`GenerateHolder`, `ConsumeHolder`,
  `ExchangeHolder`).
- Every token and every deferred request has cost a code (`TokensCostCodes`),
  which bounds the numbers of the tokens.

`JwtIdentity`, `KeyLoginsStay`, `OneJwtPerLogin`, `ConsentUnlessDeferred` and
`TypeOK` follow in a few lines each. `GrantsLogins` is the refinement of `LoginGrants`: the step that mints
on a code is a grant because the code, the one holder, leaves no token for its
login, and because a code that was sent after a callback has its consent and was
paid for under an app the grant allows.

`OwnPages` has a temporal premise, `NoEviction`: no registered client leaves a
serving process. Then what passed `ValidateRedirectURI` is still known when it is
routed, and `OwnPagesOnly` is invariant. `OwnPagesWithRoom` removes the premise where
the ids fit into the map, since a client leaves only a full one (`EvictsForRoom`).

`SessionsProofs`. That a live session survives says nothing of how long the
previous key is needed. `SessionInv` adds: a live token carries one of the two
keys, and one of the previous key expires before the operator has waited long
enough (`KeysKept`); a revoked one carries neither, and no code of a revoked
login is left (`KeysDropped`, `CodesOfLiveLogins`); age and remaining life of a
token or code together stay within what its kind allows (`LifeBounded`,
`CodeLifeBounded`). The proof goes by action; a token of the next state was
there before or is a new one. `OnlyFirstAudience` is about the helper alone:
with several audiences `ValidateToken` accepts the first one only (`jwt.go` 104),
where its comment (line 89) says "at least one". No caller passes more than one.

`AdminMFAProofs`. `MfaInv` adds to the properties what is so of requests and
answers under way: a code comes from an app that still holds its secret, a
cookie, in an answer or in the browser, is no younger than the code that earned it, a request has at most as
many redirects behind it as its place in gate, verification, enrolment allows
(`HopsTo`). `GateNeedsRecentCode` is an action property, and follows in one step
from `CookieGood`.

`AccountLoginsProofs`. `RedirectOfAttempt` speaks of an answer, the cookie that
decides it is read two steps before and may be any tab's. `AccountInv` adds that
no two attempts have one state, so that a cookie with the state of an attempt has
its redirect, and that a tab with an answered attempt finds another state in the
cookie (`Cookie`); what a request carries from call to call (`Carries`); and
that the grounds of the verdict to come are in `held` (`Founded`), which every
change of the user store keeps up (`NotingTab`). One lemma per action shows which
record the action puts into its tab; `TabStep` and `StoreStep` do the rest.

`KiteLoginsProofs`. `LookupsAgree` compares what two reads of the credentials
found. `KiteInv` adds what lies between: what the form found is still what the
callback would find, until the credentials of the email change (`LookupGood`).

Only model-checked: `CapacityRecovers` and `PersistentUserGetsIn`, which are
liveness under fairness and beyond the prover. All other properties of passing runs
are theorems.

## 5. Not modelled

`Config.Validate`, the metadata documents,
templates and JSON answers are pure formatting or a single check. HTTP parsing
and body limits, logging, cryptography (signatures are taken to be sound, random
values never to repeat) and the embedding program behind the interfaces are
outside: they appear as the environment's choices.

## 6. Plan

Done: the code store, the client store, the flow over both, the sessions, the
second factor, the two kinds of browser login, and proofs of every safety property
of all of them, in this order because the flow is what the program is for, and rests
on the two stores.

Next: an abstract specification of the sessions beside the one of the grants;
`OwnAppOffered` under a premise weaker than `NoEviction`, which names only the clients
whose requests stand between `ValidateRedirectURI` and `IsKiteClient`; what the first three
disagreements do not spoil, such as the kind of a registered client as long as the
map has room for it.
