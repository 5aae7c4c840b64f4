-------------------------- MODULE OAuthFlowProofs --------------------------
(***************************************************************************)
(* For every number of requests, clients, attempts, logins and codes:      *)
(* FlowInv is an invariant of OAuthFlow, and with it the types, whom a     *)
(* bearer token names, one token per Kite login, the consent before it,    *)
(* the Kite app of the login behind it, and that LoginGrants is            *)
(* implemented.                                                            *)
(*                                                                         *)
(* The proof is built on those of the two stores.  Under every handler the *)
(* stores take a step of their own specification (ClientsFollow,           *)
(* CodesFollow), so what is proved of them holds here; a code that is      *)
(* honoured once, above all.  What is left to show of a step is that it    *)
(* takes nothing back (StepGrows), that the one request it moves carries   *)
(* what belongs together (RequestsStep), and where the one exchange that   *)
(* Kite grants per login goes (HolderStep).                                *)
(***************************************************************************)
EXTENDS OAuthFlow, FiniteSetTheorems, TLAPS

\* The stores with what is proved about them.
AC == INSTANCE AuthCodeStoreProofs WITH Entries <- CodeEntry
CL == INSTANCE ClientStoreProofs WITH Callers <- Workers

\* An instance counts with operators of its own names.
LEMMA SameFinite ==
    \A S : /\ AC!IsFiniteSet(S) <=> IsFiniteSet(S)
          /\ CL!IsFiniteSet(S) <=> IsFiniteSet(S)
  BY DEF AC!IsFiniteSet, CL!IsFiniteSet, IsFiniteSet

\* The assumptions of the stores are among those of the flow.
LEMMA CodesAssumed == AC!StoreAssumption
  BY FlowAssumption, SameFinite DEF AC!StoreAssumption

\* The assumption of the client store.
LEMMA ClientsAssumed == CL!ClientAssumption
  BY FlowAssumption, SameFinite DEF CL!ClientAssumption, CL!Ids, Ids, CL!Entry,
     CL!Rows, Clients!Entry, Clients!Rows, Clients!Ids

-----------------------------------------------------------------------------
\* What OAuthFlow calls Clients!X and AuthCodes!X is CL!X and AC!X.

\* Cardinalities.
LEMMA SameCardinality ==
    \A S : /\ CL!Cardinality(S) = Cardinality(S)
          /\ Clients!Cardinality(S) = Cardinality(S)
          /\ AC!Cardinality(S) = Cardinality(S)
          /\ AuthCodes!Cardinality(S) = Cardinality(S)
  BY DEF CL!Cardinality, Clients!Cardinality, AC!Cardinality, AuthCodes!Cardinality,
     Cardinality

\* The ids, the registered clients, the initial states and the types.
LEMMA SameClients ==
    /\ Clients!Ids = Ids /\ CL!Ids = Ids
    /\ Clients!Known = CL!Known /\ Clients!Known' = CL!Known'
    /\ Clients!Init <=> CL!Init
    /\ Clients!TypeOK <=> CL!TypeOK
  BY DEF Clients!Ids, CL!Ids, Ids, Clients!Known, CL!Known, Clients!Init, CL!Init,
     Clients!TypeOK, CL!TypeOK, Clients!Entry, CL!Entry, Clients!Rows, CL!Rows

\* What a request captures for its save.
LEMMA SameCapture ==
    ASSUME NEW p, NEW id, NEW row
    PROVE  Clients!Capture(p, id, row) <=> CL!Capture(p, id, row)
  BY DEF Clients!Capture, CL!Capture, Clients!PendingFor, CL!PendingFor

\* The insertion, with the eviction that makes room for it.
LEMMA SameInsert ==
    ASSUME NEW p, NEW id, NEW row
    PROVE  Clients!Insert(p, id, row) <=> CL!Insert(p, id, row)
<1>1. Clients!Oldest = CL!Oldest
  BY DEF Clients!Oldest, CL!Oldest, Clients!Known, CL!Known, Clients!Ids, CL!Ids
<1>2. Clients!Cardinality(Clients!Known) = CL!Cardinality(CL!Known)
  BY SameClients, SameCardinality
<1>3. Clients!Ids = CL!Ids
  BY SameClients
<1> QED
  BY <1>1, <1>2, <1>3, SameCapture DEF Clients!Insert, CL!Insert

\* The operations of the client store that the handlers call.
LEMMA SameClientSteps ==
    ASSUME NEW w, NEW id, NEW u
    PROVE  /\ Clients!Register(w, id, {u}) <=> CL!Register(w, id, {u})
           /\ Clients!RegisterKiteClient(w, id, {u}) <=> CL!RegisterKiteClient(w, id, {u})
           /\ Clients!AddRedirectURI(w, id, u) <=> CL!AddRedirectURI(w, id, u)
           /\ Clients!Save(w) <=> CL!Save(w)
           /\ Clients!Crash <=> CL!Crash
           /\ Clients!LoadFromDB <=> CL!LoadFromDB
<1> Clients!Stamps = CL!Stamps
  BY DEF Clients!Stamps, CL!Stamps
<1>1. Clients!Register(w, id, {u}) <=> CL!Register(w, id, {u})
  BY SameInsert, SameCardinality DEF Clients!Register, CL!Register, Clients!Idle, CL!Idle
<1>2. Clients!RegisterKiteClient(w, id, {u}) <=> CL!RegisterKiteClient(w, id, {u})
  BY SameClients, SameInsert DEF Clients!RegisterKiteClient, CL!RegisterKiteClient,
     Clients!Idle, CL!Idle
<1>3. Clients!AddRedirectURI(w, id, u) <=> CL!AddRedirectURI(w, id, u)
  BY SameClients, SameCapture, SameCardinality
     DEF Clients!AddRedirectURI, CL!AddRedirectURI, Clients!Idle, CL!Idle
<1> QED
  BY <1>1, <1>2, <1>3, SameClients DEF Clients!Save, CL!Save, Clients!Crash, CL!Crash,
     Clients!LoadFromDB, CL!LoadFromDB

\* The operations of the authorization code store, and what they look at.
LEMMA SameCodes ==
    ASSUME NEW c, NEW e, NEW life
    PROVE  /\ AuthCodes!Stored = AC!Stored /\ AuthCodes!Stored' = AC!Stored'
           /\ AuthCodes!Init <=> AC!Init
           /\ AuthCodes!TypeOK <=> AC!TypeOK
           /\ AuthCodes!Redeemable(c) <=> AC!Redeemable(c)
           /\ AuthCodes!Generate(c, e, life) <=> AC!Generate(c, e, life)
           /\ AuthCodes!Consume(c) <=> AC!Consume(c)
           /\ AuthCodes!Advance <=> AC!Advance
           /\ AuthCodes!Sweep <=> AC!Sweep
           /\ AuthCodes!Restart <=> AC!Restart
<1>1. AuthCodes!Stored = AC!Stored /\ AuthCodes!Stored' = AC!Stored'
  BY DEF AuthCodes!Stored, AC!Stored
<1>2. AuthCodes!Init <=> AC!Init
  BY DEF AuthCodes!Init, AC!Init
<1>3. AuthCodes!TypeOK <=> AC!TypeOK
  BY DEF AuthCodes!TypeOK, AC!TypeOK, AuthCodes!Life, AC!Life
<1>4. AuthCodes!Redeemable(c) <=> AC!Redeemable(c)
  BY <1>1 DEF AuthCodes!Redeemable, AC!Redeemable, AuthCodes!Expired, AC!Expired
<1>5. AuthCodes!Generate(c, e, life) <=> AC!Generate(c, e, life)
  BY <1>1, SameCardinality DEF AuthCodes!Generate, AC!Generate, AuthCodes!Full, AC!Full,
     AuthCodes!timerVars, AC!timerVars
<1>6. AuthCodes!Consume(c) <=> AC!Consume(c)
  BY <1>4 DEF AuthCodes!Consume, AC!Consume, AuthCodes!timerVars, AC!timerVars
<1>7. AuthCodes!Sweep <=> AC!Sweep
  BY DEF AuthCodes!Sweep, AC!Sweep, AuthCodes!Expired, AC!Expired
<1>8. (AuthCodes!Advance <=> AC!Advance) /\ (AuthCodes!Restart <=> AC!Restart)
  BY DEF AuthCodes!Advance, AC!Advance, AuthCodes!Restart, AC!Restart
<1> QED
  BY <1>1, <1>2, <1>3, <1>4, <1>5, <1>6, <1>7, <1>8

-----------------------------------------------------------------------------
\* The stores under the flow

\* A request that is at a call to the client store asks for an id that was
\* drawn, or for a Kite key.
LEMMA AskedFor ==
    ASSUME FlowInv, NEW w \in Workers,
           req[w].pc \in {"autoRegister", "isKite", "addURI", "validate", "route"}
    PROVE  /\ req[w].ch \in Challenges
           /\ Asked(w) \in Flow
           /\ Asked(w).client \in KiteKeys \cup issued
           /\ Asked(w).uri \in URIs
<1>1. HasFlow(req[w].ch)
  BY DEF FlowInv, RequestsFounded, RequestFounded
<1>2. Asked(w) \in Flow
  BY <1>1 DEF FlowInv, TypeOK, HasFlow, Asked
<1> QED
  BY <1>1, <1>2 DEF FlowInv, ClientsAreTold, HasFlow, Asked, Flow

\* Whatever a handler does to the clients is a step of the client store.
LEMMA ClientsFollow ==
    ASSUME FlowInv, [Next]_vars
    PROVE  [CL!Next]_(CL!vars)
<1>1. ASSUME NEW w \in Workers, AutoRegister(w)
      PROVE  CL!Next
  <2>1. CL!RegisterKiteClient(w, Asked(w).client, {Asked(w).uri})
    BY <1>1, SameClientSteps DEF AutoRegister
  <2>2. Asked(w).client \in KiteKeys \cup issued /\ Asked(w).uri \in URIs
    BY <1>1, AskedFor DEF AutoRegister, At
  <2> QED
    BY <2>1, <2>2 DEF CL!Next
<1>2. ASSUME NEW w \in Workers, AddURI(w)
      PROVE  CL!Next
  <2>1. CL!AddRedirectURI(w, Asked(w).client, Asked(w).uri)
    BY <1>2, SameClientSteps DEF AddURI
  <2>2. Asked(w).client \in KiteKeys \cup issued /\ Asked(w).uri \in URIs
    BY <1>2, AskedFor DEF AddURI, At
  <2> QED
    BY <2>1, <2>2 DEF CL!Next
<1>3. ASSUME NEW w \in Workers, SaveClient(w)
      PROVE  CL!Next
  BY <1>3, SameClientSteps DEF SaveClient, CL!Next
<1>4. ASSUME NEW w \in Workers, NEW id \in DcrIds, NEW u \in URIs, Register(w, id, u)
      PROVE  CL!Next
  <2>1. CL!Register(w, id, {u}) /\ {u} \in SUBSET URIs
    BY <1>4, SameClientSteps DEF Register
  <2> QED
    BY <2>1 DEF CL!Next
<1>5. CASE Crash \/ Start
  BY <1>5, SameClientSteps DEF Crash, Start, CL!Next
<1>6. CASE UNCHANGED clientVars
  BY <1>6 DEF clientVars, CL!vars
<1>7. ASSUME NEW w \in Workers, WorkerStep(w)
      PROVE  CL!Next \/ UNCHANGED clientVars
  BY <1>1, <1>2, <1>3, <1>7 DEF WorkerStep, AnswerRegister, IsKite,
     Validate, ShortCircuit, Route, CallbackExchange, DeferExchange, RefuseCallback,
     GenerateCode, NoRoom, Redirect, ConsumeCode, DeferredExchange, RefuseToken
<1>8. ASSUME NEW w \in Workers, NewRequest(w)
      PROVE  CL!Next \/ UNCHANGED clientVars
  BY <1>4, <1>8 DEF NewRequest, Authorize, EmailLookup, Callback, Token
<1> QED
  BY <1>5, <1>6, <1>7, <1>8 DEF Next, KiteLogin, Time, vars

\* A code is stored for an attempt and a user, or for a request token.
LEMMA EntryIsCode ==
    ASSUME FlowInv, NEW w \in Workers
    PROVE  /\ req[w].pc = "generate" =>
                 [ch |-> req[w].ch, email |-> req[w].email, login |-> req[w].login]
                     \in CodeEntry
           /\ \A u \in Users : req[w].pc = "route" =>
                 [ch |-> req[w].ch, email |-> u, login |-> Cookie] \in CodeEntry
<1>1. req[w] \in Request
  BY DEF FlowInv, TypeOK
<1>2. req[w].pc \in {"generate", "route"} => req[w].ch \in Challenges
  BY DEF FlowInv, RequestsFounded, RequestFounded, HasFlow
<1>3. req[w].pc = "generate" => req[w].login \in Logins
  BY DEF FlowInv, RequestsFounded, RequestFounded, LoginFor
<1> QED
  BY <1>1, <1>2, <1>3 DEF CodeEntry, Request

\* Whatever a handler does to the codes is a step of their store.
LEMMA CodesFollow ==
    ASSUME FlowInv, [Next]_vars
    PROVE  [AC!Next]_(AC!vars)
<1>1. ASSUME NEW c \in Codes, NEW e \in CodeEntry, AuthCodes!Generate(c, e, TTL)
      PROVE  AC!Next
  <2>1. AC!Generate(c, e, TTL) /\ TTL \in AC!Life
    BY <1>1, SameCodes, FlowAssumption DEF AC!Life
  <2> QED
    BY <2>1 DEF AC!Next
<1>2. ASSUME NEW c \in Codes, AuthCodes!Consume(c)
      PROVE  AC!Next
  BY <1>2, SameCodes DEF AC!Next
<1>3. ASSUME NEW w \in Workers, NEW u \in Users, NEW c \in Codes, ShortCircuit(w, u, c)
      PROVE  AC!Next
  BY <1>1, <1>3, EntryIsCode DEF ShortCircuit, At
<1>4. ASSUME NEW w \in Workers, NEW c \in Codes, GenerateCode(w, c)
      PROVE  AC!Next
  BY <1>1, <1>4, EntryIsCode DEF GenerateCode, At
<1>5. ASSUME NEW w \in Workers, ConsumeCode(w)
      PROVE  AC!Next
  <2>1. req[w].code \in Codes
    BY <1>5 DEF ConsumeCode, At, FlowInv, RequestsFounded, RequestFounded, TypeOK
  <2> QED
    BY <1>2, <1>5, <2>1 DEF ConsumeCode
<1>6. CASE Crash \/ Time
  BY <1>6, SameCodes DEF Crash, Time, AC!Next
<1>7. CASE UNCHANGED codeVars
  BY <1>7 DEF codeVars, AC!vars, AC!timerVars
<1>8. ASSUME NEW w \in Workers, WorkerStep(w)
      PROVE  AC!Next \/ UNCHANGED codeVars
  BY <1>3, <1>4, <1>5, <1>8 DEF WorkerStep, AnswerRegister, AutoRegister, IsKite,
     AddURI, Validate, Route, CallbackExchange, DeferExchange, RefuseCallback,
     NoRoom, Redirect, DeferredExchange, RefuseToken, SaveClient
<1>9. ASSUME NEW w \in Workers, NewRequest(w)
      PROVE  UNCHANGED codeVars
  BY <1>9 DEF NewRequest, Register, Authorize, EmailLookup, Callback, Token
<1> QED
  BY <1>6, <1>7, <1>8, <1>9 DEF Next, KiteLogin, Start, vars

\* So the stores keep their invariants under the flow.
LEMMA StoresKept ==
    ASSUME FlowInv, AC!StoreInv, CL!ClientInv, [Next]_vars
    PROVE  /\ AC!StoreInv' /\ CL!ClientInv'
           /\ AuthCodes!TypeOK' /\ Clients!TypeOK'
<1>1. AC!StoreInv' /\ AC!TypeOK'
  BY CodesFollow, CodesAssumed, AC!StoreStep DEF AC!StoreInv
<1>2. CL!ClientInv'
  BY ClientsFollow, ClientsAssumed, CL!ClientStep
<1>3. CL!TypeOK'
  BY <1>2 DEF CL!ClientInv, CL!TypeOK, CL!CappedEntry, CL!Rows
<1>4. AuthCodes!TypeOK' /\ Clients!TypeOK'
  BY <1>1, <1>3 DEF AuthCodes!TypeOK, AC!TypeOK, AuthCodes!Life, AC!Life,
     Clients!TypeOK, CL!TypeOK, Clients!Ids, CL!Ids, Clients!Entry, CL!Entry,
     Clients!Rows, CL!Rows
<1> QED
  BY <1>1, <1>2, <1>4

-----------------------------------------------------------------------------
\* What no step takes back

\* An exchange marks the login as spent and leaves the rest.
LEMMA ExchangeSpends ==
    ASSUME FlowInv, NEW t \in Logins, NEW app, kite[t] # None, ExchangeOk(t, app)
    PROVE  /\ kite' \in [Logins -> Login \cup {None}]
           /\ ~kite[t].spent /\ kite'[t].spent
           /\ kite'[t] # None
           /\ kite[t].app = app /\ kite'[t].app = app
           /\ kite'[t].user = kite[t].user
           /\ \A o \in Logins \ {t} : kite'[o] = kite[o]
<1>1. kite \in [Logins -> Login \cup {None}] /\ kite[t] \in Login
  BY DEF FlowInv, TypeOK
<1>2. kite' = [kite EXCEPT ![t] = [kite[t] EXCEPT !.spent = TRUE]]
  BY DEF ExchangeOk
<1>3. /\ [kite[t] EXCEPT !.spent = TRUE] \in Login
      /\ [kite[t] EXCEPT !.spent = TRUE].spent
      /\ [kite[t] EXCEPT !.spent = TRUE].app = kite[t].app
      /\ [kite[t] EXCEPT !.spent = TRUE].user = kite[t].user
  BY <1>1 DEF Login
<1> QED
  BY <1>1, <1>2, <1>3, FlowAssumption DEF ExchangeOk

\* What Kite knows of a login stays, and a spent one stays spent.
KiteKeeps ==
    \A t \in Logins : kite[t] # None =>
        /\ kite'[t] # None
        /\ kite'[t].app = kite[t].app /\ kite'[t].user = kite[t].user
        /\ kite[t].spent => kite'[t].spent

\* An exchange, also a failed one, keeps what Kite knows.
LEMMA SpendingKeeps ==
    ASSUME FlowInv, NEW t \in Logins, NEW app, kite[t] # None,
           ExchangeOk(t, app) \/ ExchangeFails(t, app)
    PROVE  kite' \in [Logins -> Login \cup {None}] /\ KiteKeeps
<1>1. CASE ExchangeOk(t, app)
  BY <1>1, ExchangeSpends DEF KiteKeeps
<1>2. CASE UNCHANGED kite
  BY <1>2 DEF FlowInv, TypeOK, KiteKeeps
<1> QED
  BY <1>1, <1>2 DEF ExchangeFails

\* A request at an exchange has a login of Kite in hand.
LEMMA InHand ==
    ASSUME FlowInv, NEW w \in Workers,
           req[w].pc \in {"ownKey", "serverKey", "generate", "redirect", "deferred"}
    PROVE  /\ req[w].login \in Logins /\ kite[req[w].login] # None
           /\ kite[req[w].login] \in Login
           /\ LoginFor(req[w].login, req[w].ch)
<1>1. LoginFor(req[w].login, req[w].ch)
  BY DEF FlowInv, RequestsFounded, RequestFounded
<1> QED
  BY <1>1 DEF LoginFor, FlowInv, TypeOK

\* So does every step.
LEMMA KiteStep ==
    ASSUME FlowInv, [Next]_vars
    PROVE  kite' \in [Logins -> Login \cup {None}] /\ KiteKeeps
<1>1. ASSUME NEW t \in Logins, NEW app \in Apps, NEW u \in Users, KiteLogin(t, app, u)
      PROVE  kite' \in [Logins -> Login \cup {None}] /\ KiteKeeps
  <2>1. [app |-> app, user |-> u, spent |-> FALSE] \in Login
    BY DEF Login
  <2> QED
    BY <1>1, <2>1 DEF KiteLogin, FlowInv, TypeOK, KiteKeeps
<1>2. ASSUME NEW w \in Workers,
             \/ CallbackExchange(w) \/ DeferExchange(w) \/ RefuseCallback(w)
             \/ DeferredExchange(w) \/ RefuseToken(w)
      PROVE  kite' \in [Logins -> Login \cup {None}] /\ KiteKeeps
  <2>1. req[w].pc \in {"ownKey", "serverKey", "deferred"}
    BY <1>2 DEF CallbackExchange, DeferExchange, RefuseCallback, DeferredExchange,
       RefuseToken, At
  <2>2. req[w].login \in Logins /\ kite[req[w].login] # None
    BY <2>1, InHand
  <2>3. \E a : ExchangeOk(req[w].login, a) \/ ExchangeFails(req[w].login, a)
    BY <1>2 DEF CallbackExchange, DeferExchange, RefuseCallback, DeferredExchange,
       RefuseToken
  <2> QED
    BY <2>2, <2>3, SpendingKeeps
<1>3. CASE UNCHANGED kite
  BY <1>3 DEF FlowInv, TypeOK, KiteKeeps
<1>4. ASSUME NEW w \in Workers, WorkerStep(w)
      PROVE  kite' \in [Logins -> Login \cup {None}] /\ KiteKeeps
  BY <1>2, <1>3, <1>4 DEF WorkerStep, AnswerRegister, AutoRegister, IsKite,
     AddURI, Validate, ShortCircuit, Route, GenerateCode, NoRoom, Redirect,
     ConsumeCode, SaveClient
<1>5. ASSUME NEW w \in Workers, NewRequest(w)
      PROVE  UNCHANGED kite
  BY <1>5 DEF NewRequest, Register, Authorize, EmailLookup, Callback, Token
<1> QED
  BY <1>1, <1>3, <1>4, <1>5 DEF Next, Crash, Start, Time, vars

\* A code that was drawn before the step is stored after it only as it was.
DrawnKeep ==
    /\ drawn \subseteq drawn'
    /\ \A c \in drawn \cap AuthCodes!Stored' :
           c \in AuthCodes!Stored /\ entries'[c] = entries[c]

\* No step revives or rewrites a code that was drawn before.
LEMMA CodesStep ==
    ASSUME FlowInv, [Next]_vars
    PROVE  DrawnKeep
<1> USE DEF DrawnKeep, AuthCodes!Stored
<1>0. entries \in [Codes -> CodeEntry \cup {NoEntry}]
  BY DEF FlowInv, TypeOK, AuthCodes!TypeOK
<1>1. ASSUME NEW c \in Codes, NEW e \in CodeEntry, NEW life \in AC!Life,
             AC!Generate(c, e, life)
      PROVE  DrawnKeep
  BY <1>0, <1>1 DEF AC!Generate
<1>2. ASSUME NEW c \in Codes, AC!Consume(c)
      PROVE  DrawnKeep
  BY <1>0, <1>2 DEF AC!Consume
<1>3. CASE AC!Sweep \/ AC!Restart
  BY <1>3 DEF AC!Sweep, AC!Restart
<1>4. CASE UNCHANGED <<entries, drawn>>
  BY <1>4
<1> QED
  BY <1>1, <1>2, <1>3, <1>4, CodesFollow
     DEF AC!Next, AC!Advance, AC!Close, AC!CleanupExit, AC!vars

Grows ==
    /\ \A ch \in Challenges : flows[ch] # None => flows'[ch] = flows[ch]
    /\ KiteKeeps
    /\ DrawnKeep
    /\ issued \subseteq issued' /\ told \subseteq told' /\ brought \subseteq brought'
    /\ cookies \subseteq cookies' /\ consent \subseteq consent' /\ sent \subseteq sent'

\* A new authorization gives its challenge a flow that stays.
LEMMA AuthorizeAsks ==
    ASSUME FlowInv, NEW w \in Workers, NEW ch \in Challenges, NEW flow \in Flow,
           Authorize(w, ch, flow)
    PROVE  /\ flows' \in [Challenges -> Flow \cup {None}]
           /\ flows'[ch] = flow /\ flow # None
           /\ flows[ch] \in {None, flow}
           /\ \A o \in Challenges \ {ch} : flows'[o] = flows[o]
  BY FlowAssumption DEF Authorize, FlowInv, TypeOK

\* An attempt that was asked for keeps its client and redirect URI.
LEMMA FlowsStep ==
    ASSUME FlowInv, [Next]_vars
    PROVE  /\ flows' \in [Challenges -> Flow \cup {None}]
           /\ \A ch \in Challenges : flows[ch] # None => flows'[ch] = flows[ch]
<1>1. ASSUME NEW w \in Workers, NEW ch \in Challenges, NEW flow \in Flow,
             Authorize(w, ch, flow)
      PROVE  /\ flows' \in [Challenges -> Flow \cup {None}]
             /\ \A o \in Challenges : flows[o] # None => flows'[o] = flows[o]
  BY <1>1, AuthorizeAsks
<1>2. ASSUME UNCHANGED flows
      PROVE  /\ flows' \in [Challenges -> Flow \cup {None}]
             /\ \A o \in Challenges : flows[o] # None => flows'[o] = flows[o]
  BY <1>2 DEF FlowInv, TypeOK
<1>3. ASSUME NEW w \in Workers, WorkerStep(w)
      PROVE  UNCHANGED flows
  BY <1>3 DEF WorkerStep, AnswerRegister, AutoRegister, IsKite, AddURI, Validate,
     ShortCircuit, Route, CallbackExchange, DeferExchange, RefuseCallback, GenerateCode,
     NoRoom, Redirect, ConsumeCode, DeferredExchange, RefuseToken, SaveClient
<1>4. ASSUME NEW w \in Workers, NewRequest(w)
      PROVE  \/ UNCHANGED flows
             \/ \E ch \in Challenges, flow \in Flow : Authorize(w, ch, flow)
  BY <1>4 DEF NewRequest, Register, EmailLookup, Callback, Token
<1> QED
  BY <1>1, <1>2, <1>3, <1>4 DEF Next, KiteLogin, Crash, Start, Time, vars

\* Only Register draws an id.
LEMMA IssuedStep ==
    ASSUME FlowInv, [Next]_vars
    PROVE  issued \subseteq issued'
  BY ClientsFollow DEF CL!Next, CL!Register, CL!RegisterKiteClient, CL!AddRedirectURI,
     CL!Save, CL!Crash, CL!LoadFromDB, CL!Tick, CL!vars

\* Ids, cookies, consents and codes are handed out and never taken back.
LEMMA HandedOut ==
    ASSUME FlowInv, [Next]_vars
    PROVE  /\ told \subseteq told' /\ told' \subseteq DcrIds
           /\ cookies \subseteq cookies' /\ cookies' \subseteq Users
           /\ consent \subseteq consent' /\ consent' \subseteq Users
           /\ sent \subseteq sent' /\ sent' \subseteq Codes
           /\ told' \subseteq told \cup issued
<1>t. /\ told \subseteq DcrIds /\ cookies \subseteq Users /\ consent \subseteq Users
      /\ sent \subseteq Codes /\ issued \subseteq DcrIds
      /\ req \in [Workers -> Request]
  BY DEF FlowInv, TypeOK, Clients!TypeOK
<1>1. ASSUME NEW w \in Workers, AnswerRegister(w)
      PROVE  told \subseteq told' /\ told' \subseteq told \cup issued
  <2>1. req[w].id \in issued
    BY <1>1 DEF AnswerRegister, At, FlowInv, RequestsFounded, RequestFounded
  <2> QED
    BY <1>1, <2>1 DEF AnswerRegister
<1>2. ASSUME NEW w \in Workers, Redirect(w)
      PROVE  /\ cookies \subseteq cookies' /\ cookies' \subseteq Users
             /\ consent \subseteq consent' /\ consent' \subseteq Users
             /\ sent \subseteq sent' /\ sent' \subseteq Codes
  <2>1. req[w].email \in Users \cup {None}
    BY <1>t DEF Request
  <2>2. req[w].code \in Codes
    <3>1. req[w].code \in drawn
      BY <1>2 DEF Redirect, At, FlowInv, RequestsFounded, RequestFounded
    <3> QED
      BY <3>1 DEF FlowInv, TypeOK, AuthCodes!TypeOK
  <2> QED
    BY <1>t, <1>2, <2>1, <2>2 DEF Redirect
<1>3. ASSUME NEW w \in Workers, WorkerStep(w)
      PROVE  \/ AnswerRegister(w) /\ UNCHANGED <<cookies, consent, sent>>
             \/ Redirect(w) /\ UNCHANGED told
             \/ \E u \in Users, c \in Codes : ShortCircuit(w, u, c)
             \/ UNCHANGED <<told, cookies, consent, sent>>
  BY <1>3 DEF WorkerStep, AnswerRegister, AutoRegister, IsKite, AddURI, Validate,
     Route, CallbackExchange, DeferExchange, RefuseCallback, GenerateCode, NoRoom,
     Redirect, ConsumeCode, DeferredExchange, RefuseToken, SaveClient, grantVars
<1>4. ASSUME NEW w \in Workers, NewRequest(w)
      PROVE  UNCHANGED <<told, cookies, consent, sent>>
  BY <1>4 DEF NewRequest, Register, Authorize, EmailLookup, Callback, Token, grantVars
<1>5. ASSUME NEW w \in Workers, WorkerStep(w)
      PROVE  /\ told \subseteq told' /\ told' \subseteq told \cup issued
             /\ cookies \subseteq cookies' /\ cookies' \subseteq Users
             /\ consent \subseteq consent' /\ consent' \subseteq Users
             /\ sent \subseteq sent' /\ sent' \subseteq Codes
  <2>1. ASSUME NEW u \in Users, NEW c \in Codes, ShortCircuit(w, u, c)
        PROVE  UNCHANGED <<told, cookies, consent>> /\ sent' = sent \cup {c}
    BY <2>1 DEF ShortCircuit
  <2> QED
    BY <1>t, <1>1, <1>2, <1>3, <1>5, <2>1
<1>6. [Next]_vars => \/ \E w \in Workers : WorkerStep(w) \/ NewRequest(w)
                     \/ UNCHANGED <<told, cookies, consent, sent>>
  BY DEF Next, KiteLogin, Crash, Start, Time, vars, grantVars
<1> QED
  BY <1>t, <1>4, <1>5, <1>6

\* A signed state that a browser can bring is of an attempt that was made.
LEMMA SignedFounded ==
    ASSUME FlowInv, NEW state \in Signed
    PROVE  state \in State /\ HasFlow(state.ch)
  BY DEF Signed, FlowInv, TypeOK, OffersFounded, Offer

\* The two ways something is brought to an attempt.
LEMMA Bringing ==
    ASSUME FlowInv, [Next]_vars
    PROVE  \/ brought' = brought
           \/ \E w \in Workers, u \in Users, c \in Codes : ShortCircuit(w, u, c)
           \/ \E w \in Workers, t \in Logins, state \in Signed : Callback(w, t, state)
<1>1. ASSUME NEW w \in Workers, WorkerStep(w)
      PROVE  \/ brought' = brought
             \/ \E u \in Users, c \in Codes : ShortCircuit(w, u, c)
  BY <1>1 DEF WorkerStep, AnswerRegister, AutoRegister, IsKite, AddURI, Validate, Route,
     CallbackExchange, DeferExchange, RefuseCallback, GenerateCode, NoRoom, Redirect,
     ConsumeCode, DeferredExchange, RefuseToken, SaveClient
<1>2. ASSUME NEW w \in Workers, NewRequest(w)
      PROVE  \/ brought' = brought
             \/ \E t \in Logins, state \in Signed : Callback(w, t, state)
  BY <1>2 DEF NewRequest, Register, Authorize, EmailLookup, Token
<1> QED
  BY <1>1, <1>2 DEF Next, KiteLogin, Crash, Start, Time, vars

\* What the two bring.
LEMMA Brings ==
    ASSUME FlowInv, NEW w \in Workers
    PROVE  /\ \A u \in Users, c \in Codes : ShortCircuit(w, u, c) =>
                 /\ HasFlow(req[w].ch) /\ u \in cookies
                 /\ brought' = brought \cup {[ch |-> req[w].ch, login |-> Cookie, sub |-> u]}
           /\ \A t \in Logins, state \in Signed : Callback(w, t, state) =>
                 /\ HasFlow(state.ch) /\ kite[t] # None /\ kite[t].user \in Users
                 /\ brought' = brought \cup
                        {[ch |-> state.ch, login |-> t, sub |-> kite[t].user]}
<1>1. ASSUME NEW u \in Users, NEW c \in Codes, ShortCircuit(w, u, c)
      PROVE  HasFlow(req[w].ch)
  BY <1>1 DEF ShortCircuit, At, FlowInv, RequestsFounded, RequestFounded
<1>2. ASSUME NEW t \in Logins, NEW state \in Signed, Callback(w, t, state)
      PROVE  HasFlow(state.ch) /\ kite[t] # None /\ kite[t].user \in Users
  BY <1>2, SignedFounded DEF Callback, FlowInv, TypeOK, Login
<1> QED
  BY <1>1, <1>2 DEF ShortCircuit, Callback

\* What was brought to an attempt stays; anything new is of an attempt that was
\* made, and of a login that Kite knows, if it is not a cookie.
LEMMA BroughtStep ==
    ASSUME FlowInv, [Next]_vars
    PROVE  /\ brought \subseteq brought' /\ brought' \subseteq Brought
           /\ \A b \in brought' :
                  \/ b \in brought
                  \/ HasFlow(b.ch) /\ b.login = Cookie
                  \/ /\ HasFlow(b.ch) /\ b.login \in Logins
                     /\ kite[b.login] # None /\ kite[b.login].user = b.sub
<1>0. brought \subseteq Brought
  BY DEF FlowInv, TypeOK
<1>1. CASE brought' = brought
  BY <1>0, <1>1
<1>2. ASSUME NEW w \in Workers, NEW u \in Users, NEW c \in Codes, ShortCircuit(w, u, c)
      PROVE  /\ brought \subseteq brought' /\ brought' \subseteq Brought
             /\ \A b \in brought' :
                    b \in brought \/ (HasFlow(b.ch) /\ b.login = Cookie)
  <2> DEFINE new == [ch |-> req[w].ch, login |-> Cookie, sub |-> u]
  <2>1. HasFlow(req[w].ch) /\ brought' = brought \cup {new}
    BY <1>2, Brings
  <2>2. new \in Brought
    BY <2>1 DEF Brought, HasFlow
  <2>3. new.ch = req[w].ch /\ new.login = Cookie
    OBVIOUS
  <2> HIDE DEF new
  <2> QED
    BY <1>0, <2>1, <2>2, <2>3
<1>3. ASSUME NEW w \in Workers, NEW t \in Logins, NEW state \in Signed,
             Callback(w, t, state)
      PROVE  /\ brought \subseteq brought' /\ brought' \subseteq Brought
             /\ \A b \in brought' :
                    \/ b \in brought
                    \/ /\ HasFlow(b.ch) /\ b.login \in Logins
                       /\ kite[b.login] # None /\ kite[b.login].user = b.sub
  <2> DEFINE new == [ch |-> state.ch, login |-> t, sub |-> kite[t].user]
  <2>1. /\ HasFlow(state.ch) /\ brought' = brought \cup {new}
        /\ kite[t] # None /\ kite[t].user \in Users
    BY <1>3, Brings
  <2>2. new \in Brought
    BY <2>1 DEF Brought, HasFlow
  <2>3. new.ch = state.ch /\ new.login = t /\ new.sub = kite[t].user
    OBVIOUS
  <2> HIDE DEF new
  <2> QED
    BY <1>0, <2>1, <2>2, <2>3
<1> QED
  BY <1>1, <1>2, <1>3, Bringing

\* No step takes back what requests, codes and tokens are founded on.
LEMMA StepGrows ==
    ASSUME FlowInv, [Next]_vars
    PROVE  Grows
  BY KiteStep, CodesStep, FlowsStep, IssuedStep, HandedOut, BroughtStep DEF Grows

-----------------------------------------------------------------------------
\* Clients and offers

\* Every client asked for was told its id or is a Kite key.
LEMMA ClientsStayTold ==
    ASSUME FlowInv, [Next]_vars
    PROVE  ClientsAreTold'
<1>1. told' \subseteq issued'
  BY HandedOut, IssuedStep DEF FlowInv, ClientsAreTold
<1>2. told \subseteq told'
  BY HandedOut
<1>3. ASSUME NEW ch \in Challenges, HasFlow(ch)', flows'[ch] = flows[ch]
      PROVE  flows'[ch].client \in KiteKeys \cup told'
  BY <1>2, <1>3 DEF FlowInv, ClientsAreTold, HasFlow
<1>4. ASSUME NEW w \in Workers, NEW ch \in Challenges, NEW flow \in Flow,
             flow.client \in KiteKeys \cup told, Authorize(w, ch, flow)
      PROVE  ClientsAreTold'
  BY <1>1, <1>2, <1>3, <1>4, AuthorizeAsks DEF ClientsAreTold
<1>5. CASE UNCHANGED flows
  BY <1>1, <1>3, <1>5 DEF ClientsAreTold
<1>6. ASSUME NEW w \in Workers, WorkerStep(w)
      PROVE  UNCHANGED flows
  BY <1>6 DEF WorkerStep, AnswerRegister, AutoRegister, IsKite, AddURI, Validate,
     ShortCircuit, Route, CallbackExchange, DeferExchange, RefuseCallback, GenerateCode,
     NoRoom, Redirect, ConsumeCode, DeferredExchange, RefuseToken, SaveClient
<1>7. ASSUME NEW w \in Workers, NewRequest(w)
      PROVE  \/ UNCHANGED flows
             \/ \E ch \in Challenges, flow \in Flow :
                    flow.client \in KiteKeys \cup told /\ Authorize(w, ch, flow)
  BY <1>7 DEF NewRequest, Register, EmailLookup, Callback, Token
<1> QED
  BY <1>4, <1>5, <1>6, <1>7 DEF Next, KiteLogin, Crash, Start, Time, vars

\* A flow that is there stays there.
LEMMA FlowStays ==
    ASSUME FlowInv, [Next]_vars, NEW ch, HasFlow(ch)
    PROVE  HasFlow(ch)' /\ flows'[ch] = flows[ch]
  BY FlowsStep DEF HasFlow

\* What Route hands to the browser is of the attempt of its request.
LEMMA RouteOffers ==
    ASSUME FlowInv, NEW w \in Workers, Route(w)
    PROVE  /\ HasFlow(req[w].ch)
           /\ \/ offers' = offers
              \/ \E to \in Ids \cup Apps \cup {None} :
                     offers' = offers \cup {[state |-> Plain(req[w].ch), to |-> to]}
<1>1. req[w].pc = "route"
  BY DEF Route, At
<1>2. HasFlow(req[w].ch)
  BY <1>1 DEF FlowInv, RequestsFounded, RequestFounded
<1>3. Asked(w).client \in Ids
  BY <1>1, AskedFor DEF Flow
<1> QED
  BY <1>2, <1>3 DEF Route, HandOut, Apps, ServerApps

\* A new offer of an attempt that was made leaves all offers founded.
LEMMA NewOffer ==
    ASSUME FlowInv, NEW state \in State, HasFlow(state.ch),
           NEW to \in Ids \cup Apps \cup {None},
           offers' = offers \cup {[state |-> state, to |-> to]}
    PROVE  /\ offers' \subseteq Offer
           /\ \A o \in offers' : HasFlow(o.state.ch)
<1> DEFINE new == [state |-> state, to |-> to]
<1>1. new \in Offer /\ new.state = state
  BY DEF Offer
<1>2. offers' = offers \cup {new}
  OBVIOUS
<1> HIDE DEF new
<1> QED
  BY <1>1, <1>2 DEF FlowInv, TypeOK, OffersFounded

\* Signed states, and what was brought, are of attempts that were made.
LEMMA OffersStep ==
    ASSUME FlowInv, [Next]_vars
    PROVE  offers' \subseteq Offer /\ OffersFounded'
<1> DEFINE Good == offers' \subseteq Offer /\ \A o \in offers' : HasFlow(o.state.ch)
<1>1. ASSUME offers' = offers
      PROVE  Good
  BY <1>1 DEF FlowInv, TypeOK, OffersFounded
<1>2. ASSUME NEW w \in Workers, Route(w)
      PROVE  Good
  <2>1. HasFlow(req[w].ch)
    BY <1>2, RouteOffers
  <2>2. Plain(req[w].ch) \in State /\ Plain(req[w].ch).ch = req[w].ch
    BY <2>1 DEF HasFlow, Plain, State
  <2> QED
    BY <1>1, <1>2, <2>1, <2>2, RouteOffers, NewOffer
<1>3. ASSUME NEW w \in Workers, NEW state \in Signed, NEW key \in RegistryKeys,
             EmailLookup(w, state, key)
      PROVE  Good
  <2>1. state \in State /\ HasFlow(state.ch)
    BY SignedFounded
  <2>2. /\ [state EXCEPT !.registry = key] \in State
        /\ [state EXCEPT !.registry = key].ch = state.ch
    BY <2>1 DEF State
  <2>3. key \in Apps
    BY DEF Apps, ServerApps
  <2> QED
    BY <1>3, <2>1, <2>2, <2>3, NewOffer DEF EmailLookup, HandOut
<1>4. ASSUME NEW w \in Workers, WorkerStep(w)
      PROVE  Route(w) \/ offers' = offers
  BY <1>4 DEF WorkerStep, AnswerRegister, AutoRegister, IsKite, AddURI, Validate,
     ShortCircuit, CallbackExchange, DeferExchange, RefuseCallback, GenerateCode,
     NoRoom, Redirect, ConsumeCode, DeferredExchange, RefuseToken, SaveClient
<1>5. ASSUME NEW w \in Workers, NewRequest(w)
      PROVE  \/ offers' = offers
             \/ \E state \in Signed, key \in RegistryKeys : EmailLookup(w, state, key)
  BY <1>5 DEF NewRequest, Register, Authorize, Callback, Token
<1>6. Good
  BY <1>1, <1>2, <1>3, <1>4, <1>5 DEF Next, KiteLogin, Crash, Start, Time, vars
<1>7. \A o \in offers' : HasFlow(o.state.ch)'
  BY <1>6, FlowStays
<1>8. ASSUME NEW b \in brought'
      PROVE  /\ HasFlow(b.ch)'
             /\ b.login # Cookie =>
                    LoginFor(b.login, b.ch)' /\ kite'[b.login].user = b.sub
  <2>1. /\ HasFlow(b.ch)
        /\ b.login # Cookie => /\ b.login \in Logins
                               /\ kite[b.login] # None /\ kite[b.login].user = b.sub
    BY BroughtStep DEF FlowInv, OffersFounded, LoginFor
  <2>2. HasFlow(b.ch)'
    BY <2>1, FlowStays
  <2>3. b.login # Cookie =>
            b.login \in Logins /\ kite'[b.login] # None /\ kite'[b.login].user = b.sub
    BY <2>1, KiteStep DEF KiteKeeps
  <2>4. b = [ch |-> b.ch, login |-> b.login, sub |-> b.sub]
    BY BroughtStep DEF Brought
  <2> QED
    BY <2>2, <2>3, <2>4 DEF LoginFor
<1> QED
  BY <1>6, <1>7, <1>8 DEF OffersFounded

-----------------------------------------------------------------------------
\* Requests

\* The worker w moves on to a founded request; the others stand still.
Moved(w) ==
    /\ req' \in [Workers -> Request]
    /\ \A v \in Workers \ {w} : req'[v] = req[v]
    /\ RequestFounded(req[w])'

\* It comes neither from an exchange nor from a code without an email.
Unheld(w) == req'[w].pc \notin {"generate", "deferred"}

\* A request that does not move stays founded.
LEMMA RequestStays ==
    ASSUME FlowInv, [Next]_vars, serving => serving',
           NEW v \in Workers, req'[v] = req[v]
    PROVE  RequestFounded(req[v])'
<1>1. RequestFounded(req[v])
  BY DEF FlowInv, RequestsFounded
<1>2. Grows
  BY StepGrows
<1> QED
  BY <1>1, <1>2 DEF RequestFounded, Grows, KiteKeeps, DrawnKeep, HasFlow, LoginFor,
     HonouredFor

\* So it is enough to look at the request that moves.
LEMMA MovedFounded ==
    ASSUME FlowInv, [Next]_vars, serving => serving', NEW w \in Workers, Moved(w)
    PROVE  req' \in [Workers -> Request] /\ RequestsFounded'
  BY RequestStays DEF Moved, RequestsFounded

\* An answered request leaves the worker idle.
LEMMA AnswerMoves ==
    ASSUME FlowInv, NEW w \in Workers, Answer(w)
    PROVE  Moved(w) /\ Unheld(w)
<1>1. NoRequest \in Request /\ NoRequest.pc = "idle"
  BY DEF NoRequest, Request
<1>2. req' = [req EXCEPT ![w] = NoRequest] /\ req \in [Workers -> Request]
  BY DEF Answer, FlowInv, TypeOK
<1>3. req'[w].pc = "idle"
  BY <1>1, <1>2
<1>4. RequestFounded(req[w])'
  BY <1>3 DEF RequestFounded
<1> QED
  BY <1>1, <1>2, <1>3, <1>4 DEF Moved, Unheld

\* Between the calls to the client store a request keeps its attempt.
LEMMA GotoMoves ==
    ASSUME FlowInv, [Next]_vars, NEW w \in Workers, serving',
           req[w].pc \in {"autoRegister", "isKite", "addURI", "validate"},
           NEW pc \in {"addURI", "validate", "route"}, Goto(w, pc)
    PROVE  Moved(w) /\ Unheld(w)
<1>1. req \in [Workers -> Request] /\ req[w] \in Request
  BY DEF FlowInv, TypeOK
<1>2. /\ req' \in [Workers -> Request]
      /\ \A v \in Workers \ {w} : req'[v] = req[v]
      /\ req'[w].pc = pc /\ req'[w].ch = req[w].ch
  BY <1>1 DEF Goto, Request
<1>3. HasFlow(req[w].ch)
  BY DEF FlowInv, RequestsFounded, RequestFounded
<1>4. req[w].ch \in Challenges /\ flows'[req[w].ch] # None
  BY <1>3, FlowStays DEF HasFlow
<1>5. RequestFounded(req[w])'
  BY <1>2, <1>4 DEF RequestFounded, HasFlow
<1> QED
  BY <1>2, <1>5 DEF Moved, Unheld

\* The fields of a request that has just begun.
LEMMA NewRequestFields ==
    ASSUME FlowInv, NEW w \in Workers, NEW r \in Request, req' = [req EXCEPT ![w] = r]
    PROVE  /\ req' \in [Workers -> Request] /\ req'[w] = r
           /\ \A v \in Workers \ {w} : req'[v] = req[v]
  BY DEF FlowInv, TypeOK

\* A registration carries the id that it drew.
LEMMA RegisterMoves ==
    ASSUME FlowInv, NEW w \in Workers, NEW id \in DcrIds, NEW u \in URIs,
           Register(w, id, u)
    PROVE  Moved(w) /\ Unheld(w)
<1> DEFINE r == [NoRequest EXCEPT !.pc = "registered", !.id = id]
<1>1. r \in Request /\ r.pc = "registered" /\ r.id = id
  BY DEF NoRequest, Request, Ids
<1>2. req' = [req EXCEPT ![w] = r]
  BY DEF Register
<1> HIDE DEF r
<1>3. req'[w] = r /\ req' \in [Workers -> Request]
      /\ \A v \in Workers \ {w} : req'[v] = req[v]
  BY <1>1, <1>2, NewRequestFields
<1>4. id \in issued' /\ serving'
  BY SameClientSteps DEF Register, At, CL!Register
<1>5. RequestFounded(req[w])'
  BY <1>1, <1>3, <1>4 DEF RequestFounded
<1> QED
  BY <1>1, <1>3, <1>5 DEF Moved, Unheld

\* An authorization carries the attempt it began.
LEMMA AuthorizeMoves ==
    ASSUME FlowInv, NEW w \in Workers, NEW ch \in Challenges, NEW flow \in Flow,
           Authorize(w, ch, flow)
    PROVE  Moved(w) /\ Unheld(w)
<1> DEFINE r == [NoRequest EXCEPT
              !.pc = IF flow.client \in Clients!Known THEN "isKite" ELSE "autoRegister",
              !.ch = ch]
<1>1. r \in Request /\ r.pc \in {"isKite", "autoRegister"} /\ r.ch = ch
  BY DEF NoRequest, Request
<1>2. req' = [req EXCEPT ![w] = r]
  BY DEF Authorize
<1> HIDE DEF r
<1>3. req'[w] = r /\ req' \in [Workers -> Request]
      /\ \A v \in Workers \ {w} : req'[v] = req[v]
  BY <1>1, <1>2, NewRequestFields
<1>4. flows'[ch] # None
  BY AuthorizeAsks
<1>5. serving'
  BY DEF Authorize, At, clientVars
<1>6. RequestFounded(req[w])'
  BY <1>1, <1>3, <1>4, <1>5 DEF RequestFounded, HasFlow
<1> QED
  BY <1>1, <1>3, <1>6 DEF Moved, Unheld

\* A callback carries the login of its request token, brought to the attempt of
\* its signed state, and the key to exchange it with.
LEMMA CallbackMoves ==
    ASSUME FlowInv, NEW w \in Workers, NEW t \in Logins, NEW state \in Signed,
           Callback(w, t, state)
    PROVE  Moved(w) /\ Unheld(w)
<1> DEFINE r == [NoRequest EXCEPT
              !.pc = IF KiteClient(flows[state.ch].client) THEN "ownKey" ELSE "serverKey",
              !.ch = state.ch,
              !.login = t,
              !.id = ExchangeKey(state)]
<1>1. /\ kite[t] # None /\ HasFlow(state.ch) /\ state \in State
      /\ [ch |-> state.ch, login |-> t, sub |-> kite[t].user] \in brought'
  BY Brings, SignedFounded
<1>2. flows[state.ch].client \in Ids
  BY <1>1 DEF HasFlow, FlowInv, TypeOK, Flow
<1>3. /\ ExchangeKey(state) \in Ids \cup Apps
      /\ IF KiteClient(flows[state.ch].client)
         THEN ExchangeKey(state) = flows[state.ch].client
         ELSE ExchangeKey(state) \in ServerApps
  BY <1>1, <1>2 DEF ExchangeKey, State, Apps, ServerApps
<1>4. /\ r \in Request /\ r.pc \in {"ownKey", "serverKey"}
      /\ r.ch = state.ch /\ r.login = t /\ r.email = None
      /\ r.pc = "ownKey" => r.id = flows[state.ch].client
      /\ r.pc = "serverKey" => r.id \in ServerApps
  BY <1>1, <1>3 DEF NoRequest, Request, HasFlow
<1>5. req' = [req EXCEPT ![w] = r]
  BY DEF Callback
<1> HIDE DEF r
<1>6. req'[w] = r /\ req' \in [Workers -> Request]
      /\ \A v \in Workers \ {w} : req'[v] = req[v]
  BY <1>4, <1>5, NewRequestFields
<1>7. serving' /\ UNCHANGED <<flows, kite>>
  BY DEF Callback, At, clientVars
<1>8. RequestFounded(req[w])'
  BY <1>1, <1>4, <1>6, <1>7 DEF RequestFounded, HasFlow, LoginFor
<1> QED
  BY <1>4, <1>6, <1>8 DEF Moved, Unheld

\* A token request carries a code that was sent out.
LEMMA TokenMoves ==
    ASSUME FlowInv, [Next]_vars, NEW w \in Workers, NEW c \in Codes,
           NEW ch \in Challenges, NEW id \in Ids, NEW ok \in BOOLEAN,
           Token(w, c, ch, id, ok)
    PROVE  Moved(w) /\ Unheld(w)
<1> DEFINE r == [NoRequest EXCEPT !.pc = "consume", !.ch = ch, !.id = id, !.code = c]
<1>1. /\ r \in Request /\ r.pc = "consume"
      /\ r.ch = ch /\ r.id = id /\ r.code = c
  BY DEF NoRequest, Request
<1>2. /\ c \in sent' /\ flows'[ch] # None /\ serving'
      /\ req' = [req EXCEPT ![w] = r] \/ req' = req
  BY DEF Token, At, clientVars, grantVars
<1> HIDE DEF r
<1>3. CASE req' = [req EXCEPT ![w] = r]
  <2>1. req'[w] = r /\ req' \in [Workers -> Request]
        /\ \A v \in Workers \ {w} : req'[v] = req[v]
    BY <1>1, <1>3, NewRequestFields
  <2>2. RequestFounded(req[w])'
    BY <1>1, <1>2, <2>1 DEF RequestFounded, HasFlow
  <2> QED
    BY <1>1, <2>1, <2>2 DEF Moved, Unheld
<1>4. CASE req' = req
  <2>1. req[w].pc = "idle"
    BY DEF Token, At
  <2> QED
    BY <1>2, <1>4, <2>1, RequestStays DEF Moved, Unheld, FlowInv, TypeOK
<1> QED
  BY <1>2, <1>3, <1>4

\* The exchange succeeded: the email is the one Kite answered with, under an app
\* that may serve the attempt.
LEMMA ExchangeMoves ==
    ASSUME FlowInv, NEW w \in Workers, CallbackExchange(w)
    PROVE  /\ Moved(w)
           /\ req'[w].pc = "generate" /\ req'[w].login = req[w].login
           /\ req'[w].email = kite[req[w].login].user /\ req'[w].email # None
<1>1. req \in [Workers -> Request] /\ req[w] \in Request
  BY DEF FlowInv, TypeOK
<1>2. /\ req[w].pc \in {"ownKey", "serverKey"} /\ serving'
      /\ ExchangeOk(req[w].login, req[w].id)
      /\ flows' = flows /\ brought' = brought
  BY DEF CallbackExchange, At, clientVars
<1>3. /\ req[w].login \in Logins /\ kite[req[w].login] # None
      /\ kite[req[w].login] \in Login /\ LoginFor(req[w].login, req[w].ch)
  BY <1>2, InHand
<1>4. kite[req[w].login].user \in Users
  BY <1>3 DEF Login
<1>5. /\ HasFlow(req[w].ch)
      /\ req[w].id \in ServerApps \cup {flows[req[w].ch].client}
  BY <1>2 DEF FlowInv, RequestsFounded, RequestFounded
<1> DEFINE r == [req[w] EXCEPT !.pc = "generate", !.id = None,
                               !.email = kite[req[w].login].user]
<1>6. req' = [req EXCEPT ![w] = r]
  BY <1>1 DEF CallbackExchange
<1>7. /\ r \in Request
      /\ r.pc = "generate" /\ r.ch = req[w].ch
      /\ r.login = req[w].login /\ r.email = kite[req[w].login].user
  BY <1>1, <1>4 DEF Request
<1> HIDE DEF r
<1>8. /\ req' \in [Workers -> Request] /\ req'[w] = r
      /\ \A v \in Workers \ {w} : req'[v] = req[v]
  BY <1>6, <1>7, NewRequestFields
<1>9. /\ kite'[req[w].login] # None
      /\ kite'[req[w].login].user = kite[req[w].login].user
      /\ kite'[req[w].login].spent
      /\ kite'[req[w].login].app = req[w].id
  BY <1>2, <1>3, ExchangeSpends
<1>10. RequestFounded(req[w])'
  BY <1>2, <1>3, <1>5, <1>7, <1>8, <1>9
     DEF RequestFounded, HasFlow, LoginFor, HonouredFor
<1> QED
  BY <1>4, <1>7, <1>8, <1>10, FlowAssumption DEF Moved

\* A callback that defers the exchange goes on without the email.
LEMMA DeferMoves ==
    ASSUME FlowInv, [Next]_vars, NEW w \in Workers, DeferExchange(w)
    PROVE  /\ Moved(w)
           /\ req'[w].pc = "generate" /\ req'[w].email = None
<1>1. req \in [Workers -> Request] /\ req[w] \in Request
  BY DEF FlowInv, TypeOK
<1>2. req[w].pc = "ownKey" /\ flows' = flows /\ brought' = brought /\ serving'
  BY DEF DeferExchange, At, clientVars
<1>3. HasFlow(req[w].ch) /\ LoginFor(req[w].login, req[w].ch) /\ req[w].email = None
  BY <1>2 DEF FlowInv, RequestsFounded, RequestFounded
<1> DEFINE r == [req[w] EXCEPT !.pc = "generate", !.id = None]
<1>4. req' = [req EXCEPT ![w] = r]
  BY <1>1 DEF DeferExchange
<1>5. /\ r \in Request
      /\ r.pc = "generate" /\ r.ch = req[w].ch
      /\ r.login = req[w].login /\ r.email = None
  BY <1>1, <1>3 DEF Request
<1> HIDE DEF r
<1>6. /\ req' \in [Workers -> Request] /\ req'[w] = r
      /\ \A v \in Workers \ {w} : req'[v] = req[v]
  BY <1>4, <1>5, NewRequestFields
<1>7. /\ kite'[req[w].login] # None
      /\ kite'[req[w].login].user = kite[req[w].login].user
  BY <1>3, KiteStep DEF LoginFor, KiteKeeps
<1>8. RequestFounded(req[w])'
  BY <1>2, <1>3, <1>5, <1>6, <1>7 DEF RequestFounded, HasFlow, LoginFor
<1> QED
  BY <1>5, <1>6, <1>8 DEF Moved

\* Generate stores the entry under a code that was never drawn.
LEMMA GenerateStores ==
    ASSUME FlowInv, NEW c \in Codes, NEW e \in CodeEntry, AuthCodes!Generate(c, e, TTL)
    PROVE  /\ c \notin drawn /\ drawn' = drawn \cup {c} /\ redeemed' = redeemed
           /\ entries'[c] = e
           /\ \A d \in Codes \ {c} : entries'[d] = entries[d]
           /\ AuthCodes!Stored' = AuthCodes!Stored \cup {c}
<1>1. entries \in [Codes -> CodeEntry \cup {NoEntry}]
  BY DEF FlowInv, TypeOK, AuthCodes!TypeOK
<1> QED
  BY <1>1, FlowAssumption DEF AuthCodes!Generate, AuthCodes!Stored

\* Consume takes the code out; one that it honours was never honoured before.
LEMMA ConsumeTakes ==
    ASSUME FlowInv, AC!StoreInv, NEW c \in Codes, AuthCodes!Consume(c)
    PROVE  /\ AuthCodes!Stored' = AuthCodes!Stored \ {c}
           /\ \A d \in Codes \ {c} : entries'[d] = entries[d]
           /\ drawn' = drawn
           /\ redeemed' = IF AuthCodes!Redeemable(c) THEN redeemed \cup {c} ELSE redeemed
           /\ AuthCodes!Redeemable(c) =>
                  c \in AuthCodes!Stored /\ c \notin redeemed /\ entries[c] \in CodeEntry
<1>1. entries \in [Codes -> CodeEntry \cup {NoEntry}]
  BY DEF FlowInv, TypeOK, AuthCodes!TypeOK
<1>2. redeemed \cap AuthCodes!Stored = {}
  BY SameCodes DEF AC!StoreInv, AC!SpentStaysSpent
<1> QED
  BY <1>1, <1>2, FlowAssumption DEF AuthCodes!Consume, AuthCodes!Stored,
     AuthCodes!Redeemable

\* A callback keeps with its code the email that the code names.
LEMMA GenerateMoves ==
    ASSUME FlowInv, NEW w \in Workers, NEW c \in Codes, GenerateCode(w, c)
    PROVE  /\ Moved(w) /\ Unheld(w)
           /\ req'[w].code = c /\ req'[w].email = req[w].email
<1> DEFINE e == [ch |-> req[w].ch, email |-> req[w].email, login |-> req[w].login]
<1>1. req \in [Workers -> Request] /\ req[w] \in Request
  BY DEF FlowInv, TypeOK
<1>2. /\ At(w, "generate") /\ AuthCodes!Generate(c, e, TTL)
      /\ flows' = flows /\ kite' = kite /\ brought' = brought /\ serving'
  BY DEF GenerateCode, At, clientVars
<1>3. e \in CodeEntry /\ e.email = req[w].email
  BY <1>2, EntryIsCode DEF At
<1> HIDE DEF e
<1>4. c \in drawn' /\ entries'[c].email = req[w].email
  BY <1>2, <1>3, GenerateStores
<1>5. [req[w] EXCEPT !.pc = "redirect", !.code = c] \in Request
  BY <1>1 DEF Request
<1>6. req' = [req EXCEPT ![w] = [req[w] EXCEPT !.pc = "redirect", !.code = c]]
  BY <1>1 DEF GenerateCode
<1>7. /\ req' \in [Workers -> Request]
      /\ \A v \in Workers \ {w} : req'[v] = req[v]
      /\ req'[w] = [req[w] EXCEPT !.pc = "redirect", !.code = c]
  BY <1>1, <1>5, <1>6
<1>8. /\ req'[w].pc = "redirect" /\ req'[w].code = c /\ req'[w].ch = req[w].ch
      /\ req'[w].email = req[w].email /\ req'[w].login = req[w].login
  BY <1>1, <1>7 DEF Request
<1>9. /\ HasFlow(req[w].ch) /\ LoginFor(req[w].login, req[w].ch)
      /\ req[w].email \in {None, kite[req[w].login].user}
      /\ req[w].email # None => HonouredFor(req[w].login, req[w].ch)
  BY <1>2 DEF At, FlowInv, RequestsFounded, RequestFounded
<1>10. RequestFounded(req[w])'
  BY <1>2, <1>4, <1>8, <1>9 DEF RequestFounded, HasFlow, LoginFor, HonouredFor
<1> QED
  BY <1>7, <1>8, <1>10 DEF Moved, Unheld

\* What the token endpoint makes of a code.
LEMMA ConsumeOutcomes ==
    ASSUME FlowInv, AC!StoreInv, NEW w \in Workers, ConsumeCode(w),
           NEW e, e = entries[req[w].code]
    PROVE  /\ req[w].code \in Codes /\ req[w].code \in sent
           /\ AuthCodes!Consume(req[w].code)
           /\ \/ Answer(w) /\ jwts' = jwts
              \/ /\ e \in CodeEntry /\ EntryFounded(e)
                 /\ req[w].code \in AuthCodes!Stored
                 /\ redeemed' = redeemed \cup {req[w].code}
                 /\ req[w].code \notin redeemed
                 /\ flows[e.ch].client = req[w].id /\ e.ch = req[w].ch
                 /\ \/ e.email # None /\ Answer(w) /\ Mint(w, e, e.email)
                    \/ /\ e.email = None /\ jwts' = jwts
                       /\ req' = [req EXCEPT ![w].pc = "deferred", ![w].login = e.login]
<1>1. req[w].code \in sent /\ AuthCodes!Consume(req[w].code)
  BY DEF ConsumeCode, At, FlowInv, RequestsFounded, RequestFounded
<1>2. req[w].code \in Codes
  BY <1>1 DEF FlowInv, TypeOK
<1>3. CASE ~AuthCodes!Redeemable(req[w].code) \/ ~Matches(w, e)
  BY <1>1, <1>2, <1>3 DEF ConsumeCode
<1>4. CASE AuthCodes!Redeemable(req[w].code) /\ Matches(w, e)
  <2>1. /\ req[w].code \in AuthCodes!Stored /\ e \in CodeEntry
        /\ redeemed' = redeemed \cup {req[w].code} /\ req[w].code \notin redeemed
    BY <1>1, <1>2, <1>4, ConsumeTakes
  <2>2. EntryFounded(e)
    BY <2>1 DEF FlowInv, CodesFounded
  <2>3. \/ e.email # None /\ Answer(w) /\ Mint(w, e, e.email)
        \/ /\ e.email = None /\ jwts' = jwts
           /\ req' = [req EXCEPT ![w].pc = "deferred", ![w].login = e.login]
    BY <1>4 DEF ConsumeCode
  <2> QED
    BY <1>1, <1>2, <1>4, <2>1, <2>2, <2>3 DEF Matches
<1> QED
  BY <1>3, <1>4

\* A code without an email leaves the request with its login.
LEMMA DeferredMoves ==
    ASSUME FlowInv, NEW w \in Workers, req[w].pc = "consume",
           NEW e \in CodeEntry, EntryFounded(e), e.email = None,
           flows[e.ch].client = req[w].id, e.ch = req[w].ch,
           UNCHANGED <<flows, kite, brought>>, serving',
           req' = [req EXCEPT ![w].pc = "deferred", ![w].login = e.login]
    PROVE  /\ Moved(w)
           /\ req'[w].pc = "deferred"
<1>1. req \in [Workers -> Request] /\ req[w] \in Request
  BY DEF FlowInv, TypeOK
<1>2. e.login # Cookie
  BY FlowAssumption DEF EntryFounded, FlowInv, TypeOK, Brought
<1>3. LoginFor(e.login, e.ch) /\ HasFlow(e.ch)
  BY <1>2 DEF EntryFounded
<1>4. [req[w] EXCEPT !.pc = "deferred", !.login = e.login] \in Request
  BY <1>1 DEF Request, CodeEntry
<1>5. req' = [req EXCEPT ![w] = [req[w] EXCEPT !.pc = "deferred", !.login = e.login]]
  BY <1>1
<1>6. /\ req' \in [Workers -> Request]
      /\ \A v \in Workers \ {w} : req'[v] = req[v]
      /\ req'[w] = [req[w] EXCEPT !.pc = "deferred", !.login = e.login]
  BY <1>1, <1>4, <1>5
<1>7. /\ req'[w].pc = "deferred" /\ req'[w].login = e.login
      /\ req'[w].ch = req[w].ch /\ req'[w].id = req[w].id
  BY <1>1, <1>6 DEF Request
<1>8. req[w].id \in Ids
  BY DEF FlowInv, RequestsFounded, RequestFounded
<1>9. HasFlow(req[w].ch)' /\ flows'[req'[w].ch].client = req'[w].id
  BY <1>3, <1>7 DEF HasFlow
<1>10. LoginFor(req[w].login, req[w].ch)'
  <2>1. kite' = kite /\ brought' = brought /\ LoginFor(e.login, req'[w].ch)
    BY <1>3, <1>7
  <2> QED
    BY <1>7, <2>1, Zenon DEF LoginFor
<1>11. RequestFounded(req[w])'
  BY <1>7, <1>8, <1>9, <1>10 DEF RequestFounded
<1> QED
  BY <1>6, <1>7, <1>11 DEF Moved

\* Consume ends the request, or leaves it with a code that costs an exchange.
LEMMA ConsumeMoves ==
    ASSUME FlowInv, AC!StoreInv, NEW w \in Workers, ConsumeCode(w)
    PROVE  /\ Moved(w)
           /\ \/ Unheld(w)
              \/ /\ req'[w].pc = "deferred" /\ jwts' = jwts
                 /\ redeemed' = redeemed \cup {req[w].code}
                 /\ req[w].code \notin redeemed
<1>1. PICK e : e = entries[req[w].code]
  OBVIOUS
<1>2. UNCHANGED <<flows, kite, brought>> /\ serving' /\ req[w].pc = "consume"
  BY DEF ConsumeCode, At, clientVars
<1> QED
  BY <1>1, <1>2, ConsumeOutcomes, AnswerMoves, DeferredMoves

\* No request ends the process.
LEMMA ServingStays ==
    ASSUME NEW w \in Workers, WorkerStep(w) \/ NewRequest(w)
    PROVE  serving' = serving
<1>1. CASE AutoRegister(w) \/ AddURI(w) \/ SaveClient(w)
  BY <1>1, SameClientSteps DEF AutoRegister, AddURI, SaveClient,
     CL!RegisterKiteClient, CL!AddRedirectURI, CL!Save
<1>2. ASSUME NEW id \in DcrIds, NEW u \in URIs, Register(w, id, u)
      PROVE  serving' = serving
  BY <1>2, SameClientSteps DEF Register, CL!Register
<1>3. CASE UNCHANGED clientVars
  BY <1>3 DEF clientVars
<1>4. CASE WorkerStep(w)
  BY <1>1, <1>3, <1>4 DEF WorkerStep, AnswerRegister, IsKite, Validate, ShortCircuit,
     Route, CallbackExchange, DeferExchange, RefuseCallback, GenerateCode, NoRoom,
     Redirect, ConsumeCode, DeferredExchange, RefuseToken
<1>5. CASE NewRequest(w)
  BY <1>2, <1>3, <1>5 DEF NewRequest, Authorize, EmailLookup, Callback, Token
<1> QED
  BY <1>4, <1>5

\* Every step of a handler leaves its request founded.
LEMMA WorkerMoves ==
    ASSUME FlowInv, AC!StoreInv, [Next]_vars, NEW w \in Workers, WorkerStep(w)
    PROVE  /\ Moved(w)
           /\ \/ Unheld(w) \/ req' = req
              \/ CallbackExchange(w) \/ DeferExchange(w) \/ ConsumeCode(w)
<1>1. CASE \/ AnswerRegister(w) \/ Route(w) \/ NoRoom(w) \/ Redirect(w)
           \/ DeferredExchange(w) \/ RefuseToken(w)
           \/ RefuseCallback(w)
           \/ \E u \in Users, c \in Codes : ShortCircuit(w, u, c)
  BY <1>1, AnswerMoves DEF AnswerRegister, Route, NoRoom, Redirect, DeferredExchange,
     RefuseToken, RefuseCallback, ShortCircuit
<1>2. CASE AutoRegister(w) \/ IsKite(w) \/ AddURI(w) \/ Validate(w)
  <2>1. serving'
    BY <1>2, ServingStays DEF AutoRegister, IsKite, AddURI, Validate, At
  <2>2. \/ Answer(w)
        \/ \E pc \in {"addURI", "validate", "route"} : Goto(w, pc)
    BY <1>2 DEF AutoRegister, IsKite, AddURI, Validate
  <2>3. req[w].pc \in {"autoRegister", "isKite", "addURI", "validate"}
    BY <1>2 DEF AutoRegister, IsKite, AddURI, Validate, At
  <2> QED
    BY <2>1, <2>2, <2>3, AnswerMoves, GotoMoves
<1>3. CASE CallbackExchange(w)
  BY <1>3, ExchangeMoves
<1>4. CASE SaveClient(w)
  <2>1. req' = req
    BY <1>4 DEF SaveClient
  <2> QED
    BY <2>1, ServingStays, RequestStays DEF Moved, FlowInv, TypeOK
<1> QED
  BY <1>1, <1>2, <1>3, <1>4, DeferMoves, GenerateMoves, ConsumeMoves DEF WorkerStep

\* So does every new request.
LEMMA NewMoves ==
    ASSUME FlowInv, [Next]_vars, NEW w \in Workers, NewRequest(w)
    PROVE  Moved(w) /\ Unheld(w)
<1>1. CASE \E state \in Signed, key \in RegistryKeys : EmailLookup(w, state, key)
  <2>1. req' = req /\ req[w].pc = "idle"
    BY <1>1 DEF EmailLookup, At
  <2> QED
    BY <2>1, ServingStays, RequestStays DEF Moved, Unheld, FlowInv, TypeOK
<1> QED
  BY <1>1, RegisterMoves, AuthorizeMoves, CallbackMoves, TokenMoves DEF NewRequest

\* All requests stay founded.
LEMMA RequestsStep ==
    ASSUME FlowInv, AC!StoreInv, [Next]_vars
    PROVE  req' \in [Workers -> Request] /\ RequestsFounded'
<1>1. ASSUME NEW w \in Workers, WorkerStep(w) \/ NewRequest(w)
      PROVE  req' \in [Workers -> Request] /\ RequestsFounded'
  <2>1. Moved(w) /\ serving' = serving
    BY <1>1, WorkerMoves, NewMoves, ServingStays
  <2> QED
    BY <2>1, MovedFounded
<1>2. ASSUME UNCHANGED req, serving => serving'
      PROVE  req' \in [Workers -> Request] /\ RequestsFounded'
  BY <1>2, RequestStays DEF FlowInv, TypeOK, RequestsFounded
<1>3. CASE Crash
  <2>1. NoRequest \in Request /\ NoRequest.pc = "idle"
    BY DEF NoRequest, Request
  <2>2. \A w \in Workers : req'[w].pc = "idle"
    BY <1>3, <2>1 DEF Crash
  <2>3. req' \in [Workers -> Request]
    BY <1>3, <2>1 DEF Crash
  <2> QED
    BY <2>2, <2>3 DEF RequestsFounded, RequestFounded
<1>4. CASE Start
  BY <1>2, <1>4, SameClientSteps DEF Start, CL!LoadFromDB
<1>5. CASE \/ Time \/ UNCHANGED vars
           \/ \E t \in Logins, app \in Apps, u \in Users : KiteLogin(t, app, u)
  BY <1>2, <1>5 DEF Time, KiteLogin, vars, clientVars
<1> QED
  BY <1>1, <1>3, <1>4, <1>5 DEF Next

-----------------------------------------------------------------------------
\* Codes

\* A stored code stays founded.
LEMMA EntryStays ==
    ASSUME FlowInv, Grows, NEW e, EntryFounded(e)
    PROVE  EntryFounded(e)'
  BY DEF EntryFounded, Grows, KiteKeeps, HasFlow, LoginFor, HonouredFor

\* The user of a cookie gets a code.
LEMMA ShortCircuitStores ==
    ASSUME FlowInv, NEW w \in Workers, NEW u \in Users, NEW c \in Codes,
           ShortCircuit(w, u, c)
    PROVE  /\ c \notin drawn /\ drawn' = drawn \cup {c}
           /\ AuthCodes!Stored' = AuthCodes!Stored \cup {c}
           /\ \A d \in Codes \ {c} : entries'[d] = entries[d]
           /\ entries'[c].login = Cookie /\ entries'[c].email = u
           /\ entries'[c].ch = req[w].ch
           /\ u \in cookies /\ HasFlow(req[w].ch)
<1> DEFINE e == [ch |-> req[w].ch, email |-> u, login |-> Cookie]
<1>1. /\ AuthCodes!Generate(c, e, TTL) /\ u \in cookies
      /\ req[w].pc = "route"
  BY DEF ShortCircuit, At
<1>2. e \in CodeEntry /\ e.ch = req[w].ch /\ e.email = u /\ e.login = Cookie
  BY <1>1, EntryIsCode
<1>3. HasFlow(req[w].ch)
  BY <1>1 DEF FlowInv, RequestsFounded, RequestFounded
<1> HIDE DEF e
<1> QED
  BY <1>1, <1>2, <1>3, GenerateStores

\* The callback stores what Kite has answered, if it has.
LEMMA CallbackStores ==
    ASSUME FlowInv, NEW w \in Workers, NEW c \in Codes, GenerateCode(w, c)
    PROVE  /\ c \notin drawn /\ drawn' = drawn \cup {c}
           /\ AuthCodes!Stored' = AuthCodes!Stored \cup {c}
           /\ \A d \in Codes \ {c} : entries'[d] = entries[d]
           /\ entries'[c].login = req[w].login /\ entries'[c].email = req[w].email
           /\ entries'[c].ch = req[w].ch
           /\ req[w].login \in Logins /\ HasFlow(req[w].ch)
           /\ LoginFor(req[w].login, req[w].ch)
           /\ req[w].email \in {None, kite[req[w].login].user}
           /\ req[w].email # None => HonouredFor(req[w].login, req[w].ch)
           /\ req[w].pc = "generate"
<1> DEFINE e == [ch |-> req[w].ch, email |-> req[w].email, login |-> req[w].login]
<1>1. AuthCodes!Generate(c, e, TTL) /\ req[w].pc = "generate"
  BY DEF GenerateCode, At
<1>2. e \in CodeEntry /\ e.ch = req[w].ch /\ e.email = req[w].email
      /\ e.login = req[w].login
  BY <1>1, EntryIsCode
<1>3. /\ HasFlow(req[w].ch) /\ LoginFor(req[w].login, req[w].ch)
      /\ req[w].email \in {None, kite[req[w].login].user}
      /\ req[w].email # None => HonouredFor(req[w].login, req[w].ch)
  BY <1>1 DEF FlowInv, RequestsFounded, RequestFounded
<1> HIDE DEF e
<1> QED
  BY <1>1, <1>2, <1>3, GenerateStores DEF LoginFor

\* Stored codes were drawn.
LEMMA StoredDrawn ==
    ASSUME AC!StoreInv
    PROVE  AuthCodes!Stored \subseteq drawn /\ AuthCodes!Stored \subseteq Codes
  BY SameCodes DEF AC!StoreInv, AC!StoredWereDrawn, AuthCodes!Stored

\* The two ways a code comes into the store.
LEMMA NewCode ==
    ASSUME FlowInv, AC!StoreInv, [Next]_vars, NEW c \in Codes,
           c \in AuthCodes!Stored', c \notin drawn
    PROVE  \E w \in Workers : \/ \E u \in Users : ShortCircuit(w, u, c)
                             \/ GenerateCode(w, c)
<1>1. c \notin AuthCodes!Stored
  BY StoredDrawn
<1>2. CASE UNCHANGED codeVars
  BY <1>1, <1>2 DEF codeVars, AuthCodes!Stored
<1>3. CASE AuthCodes!Restart \/ AuthCodes!Sweep \/ AuthCodes!Advance
  BY <1>1, <1>3 DEF AuthCodes!Restart, AuthCodes!Sweep, AuthCodes!Advance,
     AuthCodes!Stored
<1>4. ASSUME NEW w \in Workers, ConsumeCode(w)
      PROVE  FALSE
  <2>1. PICK e : e = entries[req[w].code]
    OBVIOUS
  <2>2. req[w].code \in Codes /\ AuthCodes!Consume(req[w].code)
    BY <1>4, <2>1, ConsumeOutcomes
  <2> QED
    BY <1>1, <2>2, ConsumeTakes
<1>5. ASSUME NEW w \in Workers, NEW u \in Users, NEW d \in Codes, ShortCircuit(w, u, d)
      PROVE  c = d
  BY <1>1, <1>5, ShortCircuitStores
<1>6. ASSUME NEW w \in Workers, NEW d \in Codes, GenerateCode(w, d)
      PROVE  c = d
  BY <1>1, <1>6, CallbackStores
<1>7. ASSUME NEW w \in Workers, WorkerStep(w)
      PROVE  \/ UNCHANGED codeVars \/ ConsumeCode(w)
             \/ \E u \in Users, d \in Codes : ShortCircuit(w, u, d)
             \/ \E d \in Codes : GenerateCode(w, d)
  BY <1>7 DEF WorkerStep, AnswerRegister, AutoRegister, IsKite, AddURI, Validate,
     Route, CallbackExchange, DeferExchange, RefuseCallback, NoRoom, Redirect,
     DeferredExchange, RefuseToken, SaveClient
<1>8. ASSUME NEW w \in Workers, NewRequest(w)
      PROVE  UNCHANGED codeVars
  BY <1>8 DEF NewRequest, Register, Authorize, EmailLookup, Callback, Token
<1> QED
  BY <1>2, <1>3, <1>4, <1>5, <1>6, <1>7, <1>8 DEF Next, KiteLogin, Crash,
     Start, Time, vars

\* The two ways a code is sent out.
SentBy(w, c) ==
    \/ \E u \in Users : c \in Codes /\ ShortCircuit(w, u, c)
    \/ Redirect(w) /\ c = req[w].code

\* Nothing else sends a code.
LEMMA NewlySent ==
    ASSUME FlowInv, [Next]_vars, NEW c, c \in sent', c \notin sent
    PROVE  \E w \in Workers : SentBy(w, c)
<1>1. ASSUME NEW w \in Workers, WorkerStep(w)
      PROVE  SentBy(w, c)
  <2>1. \/ sent' = sent \/ Redirect(w)
        \/ \E u \in Users, d \in Codes : ShortCircuit(w, u, d)
    BY <1>1 DEF WorkerStep, AnswerRegister, AutoRegister, IsKite, AddURI, Validate,
       Route, CallbackExchange, DeferExchange, RefuseCallback, GenerateCode, NoRoom,
       ConsumeCode, DeferredExchange, RefuseToken, SaveClient, grantVars
  <2>2. Redirect(w) => c = req[w].code
    BY DEF Redirect
  <2>3. \A u \in Users, d \in Codes : ShortCircuit(w, u, d) => c = d
    BY DEF ShortCircuit
  <2> QED
    BY <2>1, <2>2, <2>3 DEF SentBy
<1>2. ASSUME NEW w \in Workers, NewRequest(w)
      PROVE  sent' = sent
  BY <1>2 DEF NewRequest, Register, Authorize, EmailLookup, Callback, Token, grantVars
<1>3. ASSUME NEW t \in Logins, NEW app \in Apps, NEW u \in Users, KiteLogin(t, app, u)
      PROVE  sent' = sent
  BY <1>3 DEF KiteLogin, grantVars
<1>4. CASE Crash \/ Start \/ Time \/ UNCHANGED vars
  BY <1>4 DEF Crash, Start, Time, vars, grantVars
<1> QED
  BY <1>1, <1>2, <1>3, <1>4 DEF Next

\* All stored codes stay founded, and those sent out have their consent.
LEMMA CodesStepFounded ==
    ASSUME FlowInv, AC!StoreInv, [Next]_vars
    PROVE  CodesFounded'
<1>1. Grows
  BY StepGrows
<1>2. sent \subseteq drawn /\ drawn \subseteq drawn'
  BY <1>1 DEF FlowInv, CodesFounded, Grows, DrawnKeep
<1>3. ASSUME NEW w \in Workers, Redirect(w)
      PROVE  /\ req[w].code \in drawn
             /\ req[w].code \in AuthCodes!Stored =>
                    entries[req[w].code].email \in consent' \cup {None}
  BY <1>3 DEF Redirect, At, FlowInv, RequestsFounded, RequestFounded
<1>4. sent' \subseteq drawn'
  <2>1. ASSUME NEW c, NEW w \in Workers, SentBy(w, c)
        PROVE  c \in drawn'
    <3>1. ASSUME NEW u \in Users, c \in Codes, ShortCircuit(w, u, c)
          PROVE  c \in drawn'
      BY <3>1, ShortCircuitStores
    <3> QED
      BY <1>2, <1>3, <2>1, <3>1 DEF SentBy
  <2>2. ASSUME NEW c, c \in sent', c \notin sent
        PROVE  c \in drawn'
    BY <2>1, <2>2, NewlySent
  <2> QED
    BY <1>2, <2>2
<1>5. ASSUME NEW c \in Codes, c \in AuthCodes!Stored', c \in drawn
      PROVE  /\ EntryFounded(entries[c])'
             /\ c \in sent' /\ entries'[c].login # Cookie =>
                    entries'[c].email \in consent' \cup {None}
  <2>1. c \in AuthCodes!Stored /\ entries'[c] = entries[c]
    BY <1>1, <1>5 DEF Grows, DrawnKeep
  <2>2. PICK e : e = entries[c]
    OBVIOUS
  <2>3. EntryFounded(e)'
    BY <1>1, <2>1, <2>2, EntryStays DEF FlowInv, CodesFounded
  <2>4. EntryFounded(entries[c])'
    BY <2>1, <2>2, <2>3 DEF EntryFounded
  <2>5. CASE c \in sent
    BY <1>1, <2>1, <2>4, <2>5 DEF FlowInv, CodesFounded, Grows
  <2>6. ASSUME c \in sent', c \notin sent
        PROVE  entries'[c].email \in consent' \cup {None}
    <3>1. ASSUME NEW w \in Workers, SentBy(w, c)
          PROVE  entries'[c].email \in consent' \cup {None}
      <4>1. \A u \in Users : ~ShortCircuit(w, u, c)
        BY <1>5, ShortCircuitStores
      <4> QED
        BY <1>3, <2>1, <3>1, <4>1 DEF SentBy
    <3> QED
      BY <2>6, <3>1, NewlySent
  <2> QED
    BY <2>4, <2>5, <2>6
<1>6. ASSUME NEW c \in Codes, c \in AuthCodes!Stored', c \notin drawn
      PROVE  /\ EntryFounded(entries[c])'
             /\ c \in sent' /\ entries'[c].login # Cookie =>
                    entries'[c].email \in consent' \cup {None}
  <2>1. ASSUME NEW w \in Workers, NEW u \in Users, ShortCircuit(w, u, c)
        PROVE  /\ EntryFounded(entries[c])'
               /\ c \in sent' /\ entries'[c].login # Cookie =>
                      entries'[c].email \in consent' \cup {None}
    <3>1. /\ entries'[c].login = Cookie /\ entries'[c].email = u
          /\ entries'[c].ch = req[w].ch /\ HasFlow(req[w].ch)
      BY <2>1, ShortCircuitStores
    <3>2. /\ req[w].ch \in Challenges /\ flows'[req[w].ch] # None
          /\ [ch |-> req[w].ch, login |-> Cookie, sub |-> u] \in brought'
      BY <2>1, <3>1, FlowStays, Brings DEF HasFlow
    <3>3. EntryFounded(entries[c])'
      BY <3>1, <3>2 DEF EntryFounded, HasFlow
    <3> QED
      BY <3>1, <3>2, <3>3
  <2>2. ASSUME NEW w \in Workers, GenerateCode(w, c)
        PROVE  /\ EntryFounded(entries[c])'
               /\ c \in sent' /\ entries'[c].login # Cookie =>
                      entries'[c].email \in consent' \cup {None}
    <3>1. /\ entries'[c].login = req[w].login /\ entries'[c].email = req[w].email
          /\ entries'[c].ch = req[w].ch
          /\ req[w].login \in Logins /\ HasFlow(req[w].ch)
          /\ LoginFor(req[w].login, req[w].ch)
          /\ req[w].email \in {None, kite[req[w].login].user}
          /\ req[w].email # None => HonouredFor(req[w].login, req[w].ch)
      BY <2>2, CallbackStores
    <3>2. UNCHANGED <<flows, kite, brought>> /\ sent' = sent /\ c \notin sent
      BY <1>2, <1>6, <2>2 DEF GenerateCode, grantVars
    <3>3. req[w].login # Cookie
      BY <3>1, FlowAssumption
    <3> QED
      BY <3>1, <3>2, <3>3 DEF EntryFounded, HasFlow, LoginFor, HonouredFor
  <2> QED
    BY <1>6, <2>1, <2>2, NewCode
<1> QED
  BY <1>4, <1>5, <1>6 DEF CodesFounded, AuthCodes!Stored

-----------------------------------------------------------------------------
\* Tokens

\* A redeemed code is so for good.
LEMMA RedeemedGrows ==
    ASSUME FlowInv, [Next]_vars
    PROVE  redeemed \subseteq redeemed'
  BY CodesFollow DEF AC!Next, AC!Generate, AC!Consume, AC!Sweep, AC!Advance, AC!Close,
     AC!CleanupExit, AC!Restart, AC!vars, AC!timerVars

\* No token, no new deferred request.
Quiet == jwts' = jwts /\ Deferred' \subseteq Deferred /\ redeemed \subseteq redeemed'

\* Only the two steps of the token endpoint add a token or a deferred request.
LEMMA TokenSteps ==
    ASSUME FlowInv, AC!StoreInv, [Next]_vars
    PROVE  Quiet \/ \E w \in Workers : ConsumeCode(w) \/ DeferredExchange(w)
<1>1. redeemed \subseteq redeemed'
  BY RedeemedGrows
<1>2. ASSUME NEW w \in Workers, WorkerStep(w), ~ConsumeCode(w), ~DeferredExchange(w)
      PROVE  jwts' = jwts
  BY <1>2 DEF WorkerStep, AnswerRegister, AutoRegister, IsKite, AddURI, Validate,
     ShortCircuit, Route, CallbackExchange, DeferExchange, RefuseCallback, GenerateCode,
     NoRoom, Redirect, RefuseToken, SaveClient, grantVars
<1>3. ASSUME NEW w \in Workers, NewRequest(w)
      PROVE  jwts' = jwts
  BY <1>3 DEF NewRequest, Register, Authorize, EmailLookup, Callback, Token, grantVars
<1>4. ASSUME NEW w \in Workers, WorkerStep(w) \/ NewRequest(w), ~ConsumeCode(w)
      PROVE  Deferred' \subseteq Deferred
  <2>1. \/ req' = req
        \/ Moved(w) /\ req'[w].pc # "deferred"
    BY <1>4, WorkerMoves, NewMoves, ExchangeMoves, DeferMoves DEF Unheld
  <2> QED
    BY <2>1 DEF Moved, Deferred
<1>5. CASE Crash
  <2>1. \A w \in Workers : req'[w].pc = "idle"
    BY <1>5 DEF Crash, NoRequest
  <2> QED
    BY <1>1, <1>5, <2>1 DEF Crash, grantVars, Quiet, Deferred
<1>6. CASE UNCHANGED <<req, jwts>>
  BY <1>1, <1>6 DEF Quiet, Deferred
<1>7. CASE \/ Start \/ Time \/ UNCHANGED vars
           \/ \E t \in Logins, app \in Apps, u \in Users : KiteLogin(t, app, u)
  BY <1>6, <1>7 DEF Start, Time, KiteLogin, vars, grantVars
<1>8. ASSUME NEW w \in Workers, WorkerStep(w) \/ NewRequest(w)
      PROVE  Quiet \/ ConsumeCode(w) \/ DeferredExchange(w)
  BY <1>1, <1>2, <1>3, <1>4, <1>8 DEF Quiet
<1> QED
  BY <1>5, <1>7, <1>8 DEF Next

\* A worker mints a token on a code that names its user.
MintedOnCode(w, e, j) ==
    /\ req[w].code \in AuthCodes!Stored /\ e = entries[req[w].code]
    /\ req[w].code \in sent /\ req[w].code \notin redeemed
    /\ redeemed' = redeemed \cup {req[w].code}
    /\ EntryFounded(e) /\ e \in CodeEntry /\ e.email # None
    /\ Answer(w)
    /\ jwts' = jwts \cup {j}
    /\ j = [sub |-> e.email, aud |-> flows[e.ch].client, ch |-> e.ch,
            login |-> e.login, deferred |-> FALSE, nth |-> Cardinality(jwts) + 1]

\* The code names no user: the request is left with its login.
LeftDeferred(w) ==
    /\ jwts' = jwts
    /\ req[w].code \notin redeemed
    /\ redeemed' = redeemed \cup {req[w].code}
    /\ Moved(w) /\ req'[w].pc = "deferred"

\* The outcomes of ConsumeCode, as far as tokens are concerned.
LEMMA ConsumeKinds ==
    ASSUME FlowInv, AC!StoreInv, [Next]_vars, NEW w \in Workers, ConsumeCode(w)
    PROVE  Quiet \/ LeftDeferred(w) \/ \E e, j : MintedOnCode(w, e, j)
<1>1. PICK e : e = entries[req[w].code]
  OBVIOUS
<1>2. CASE Answer(w) /\ jwts' = jwts
  <2>1. Moved(w) /\ req'[w].pc # "deferred"
    BY <1>2, AnswerMoves DEF Unheld
  <2> QED
    BY <1>2, <2>1, RedeemedGrows DEF Quiet, Moved, Deferred
<1>3. ASSUME e \in CodeEntry, EntryFounded(e), req[w].code \in AuthCodes!Stored,
             redeemed' = redeemed \cup {req[w].code}, req[w].code \notin redeemed,
             flows[e.ch].client = req[w].id, e.ch = req[w].ch,
             e.email # None, Answer(w), Mint(w, e, e.email)
      PROVE  \E j : MintedOnCode(w, e, j)
  <2> DEFINE j == [sub |-> e.email, aud |-> flows[e.ch].client, ch |-> e.ch,
                   login |-> e.login, deferred |-> FALSE, nth |-> Cardinality(jwts) + 1]
  <2>1. jwts' = jwts \cup {j}
    BY <1>3 DEF Mint
  <2>2. req[w].code \in sent
    BY <1>1, ConsumeOutcomes
  <2> QED
    BY <1>1, <1>3, <2>1, <2>2 DEF MintedOnCode
<1>4. CASE /\ e.email = None /\ jwts' = jwts
           /\ e \in CodeEntry /\ EntryFounded(e)
           /\ redeemed' = redeemed \cup {req[w].code} /\ req[w].code \notin redeemed
           /\ flows[e.ch].client = req[w].id /\ e.ch = req[w].ch
           /\ req' = [req EXCEPT ![w].pc = "deferred", ![w].login = e.login]
  <2>1. UNCHANGED <<flows, kite, brought>> /\ serving' /\ req[w].pc = "consume"
    BY DEF ConsumeCode, At, clientVars
  <2> QED
    BY <1>4, <2>1, DeferredMoves DEF LeftDeferred
<1> QED
  BY <1>1, <1>2, <1>3, <1>4, ConsumeOutcomes

\* A worker mints a token on the exchange of its login.
MintedOnExchange(w, j) ==
    /\ Answer(w)
    /\ redeemed' = redeemed
    /\ HasFlow(req[w].ch)
    /\ req[w].login \in Logins /\ kite[req[w].login] \in Login
    /\ kite[req[w].login] # None
    /\ ~kite[req[w].login].spent /\ kite'[req[w].login].spent
    /\ LoginFor(req[w].login, req[w].ch)
    /\ kite[req[w].login].app = flows[req[w].ch].client
    /\ jwts' = jwts \cup {j}
    /\ j = [sub |-> kite[req[w].login].user, aud |-> flows[req[w].ch].client,
            ch |-> req[w].ch, login |-> req[w].login, deferred |-> TRUE,
            nth |-> Cardinality(jwts) + 1]

\* The deferred exchange spends the login and mints.
LEMMA ExchangeMints ==
    ASSUME FlowInv, NEW w \in Workers, DeferredExchange(w)
    PROVE  req[w].pc = "deferred" /\ \E j : MintedOnExchange(w, j)
<1> DEFINE j == [sub |-> kite[req[w].login].user, aud |-> flows[req[w].ch].client,
                 ch |-> req[w].ch, login |-> req[w].login, deferred |-> TRUE,
                 nth |-> Cardinality(jwts) + 1]
<1>1. req[w].pc = "deferred"
  BY DEF DeferredExchange, At
<1>2. /\ req[w].login \in Logins /\ kite[req[w].login] # None
      /\ kite[req[w].login] \in Login
      /\ LoginFor(req[w].login, req[w].ch)
  BY <1>1, InHand
<1>3. HasFlow(req[w].ch) /\ flows[req[w].ch].client = req[w].id
  BY <1>1 DEF FlowInv, RequestsFounded, RequestFounded
<1>4. /\ ~kite[req[w].login].spent /\ kite'[req[w].login].spent
      /\ kite[req[w].login].app = req[w].id
  BY <1>2, ExchangeSpends DEF DeferredExchange
<1>5. jwts' = jwts \cup {j}
  BY <1>3 DEF DeferredExchange, Mint
<1>6. Answer(w) /\ redeemed' = redeemed
  BY DEF DeferredExchange, codeVars
<1> QED
  BY <1>1, <1>2, <1>3, <1>4, <1>5, <1>6 DEF MintedOnExchange

\* The counts, with what each step costs.
LEMMA CountsAreNat ==
    ASSUME FlowInv
    PROVE  /\ IsFiniteSet(jwts) /\ IsFiniteSet(Deferred) /\ IsFiniteSet(redeemed)
           /\ Cardinality(jwts) \in Nat /\ Cardinality(Deferred) \in Nat
           /\ Cardinality(redeemed) \in Nat
           /\ Cardinality(jwts) + Cardinality(Deferred) <= Cardinality(redeemed)
<1>1. redeemed \in SUBSET Codes /\ IsFiniteSet(Codes)
  BY FlowAssumption DEF FlowInv, TypeOK, AuthCodes!TypeOK
<1>2. IsFiniteSet(redeemed)
  BY <1>1, FS_Subset
<1> QED
  BY <1>2, FS_CardinalityType DEF FlowInv, TokensCostCodes

\* No more codes are redeemed than there are.
LEMMA RedeemedWithin ==
    ASSUME FlowInv, AC!StoreInv, CL!ClientInv, [Next]_vars
    PROVE  /\ IsFiniteSet(redeemed') /\ Cardinality(redeemed') \in Nat
           /\ Cardinality(Codes) \in Nat
           /\ Cardinality(redeemed) <= Cardinality(redeemed')
           /\ Cardinality(redeemed') <= Cardinality(Codes)
<1>1. redeemed' \in SUBSET Codes /\ IsFiniteSet(Codes)
  BY FlowAssumption, StoresKept DEF AuthCodes!TypeOK
<1>2. IsFiniteSet(redeemed') /\ Cardinality(redeemed') <= Cardinality(Codes)
  BY <1>1, FS_Subset
<1>3. redeemed \in SUBSET redeemed'
  BY RedeemedGrows
<1> QED
  BY <1>1, <1>2, <1>3, FS_Subset, FS_CardinalityType

\* One more code redeemed, by a token or by a request left deferred.
LEMMA OneMoreRedeemed ==
    ASSUME FlowInv, AC!StoreInv, CL!ClientInv, [Next]_vars, NEW c, c \notin redeemed,
           redeemed' = redeemed \cup {c}
    PROVE  Cardinality(redeemed') = Cardinality(redeemed) + 1
  BY CountsAreNat, FS_AddElement

\* One element more counts one more at most.
LEMMA OneMore ==
    ASSUME NEW S, IsFiniteSet(S), NEW x
    PROVE  /\ IsFiniteSet(S \cup {x}) /\ Cardinality(S \cup {x}) \in Nat
           /\ Cardinality(S \cup {x}) <= Cardinality(S) + 1
<1>1. Cardinality(S) \in Nat
  BY FS_CardinalityType
<1>2. IsFiniteSet(S \cup {x})
  BY FS_AddElement
<1>3. Cardinality(S \cup {x}) \in {Cardinality(S), Cardinality(S) + 1}
  BY FS_AddElement
<1> QED
  BY <1>1, <1>2, <1>3

\* One more token.
LEMMA OneMoreToken ==
    ASSUME FlowInv, NEW j, jwts' = jwts \cup {j}, j.nth = Cardinality(jwts) + 1
    PROVE  /\ IsFiniteSet(jwts') /\ Cardinality(jwts') \in Nat
           /\ Cardinality(jwts') <= Cardinality(jwts) + 1
<1>1. IsFiniteSet(jwts)
  BY CountsAreNat
<1> QED
  BY <1>1, OneMore

\* Where nothing is minted or deferred, the counts stay in proportion.
LEMMA QuietCounts ==
    ASSUME FlowInv, AC!StoreInv, CL!ClientInv, [Next]_vars, Quiet
    PROVE  TokensCostCodes'
<1>1. IsFiniteSet(Deferred') /\ Cardinality(Deferred') <= Cardinality(Deferred)
  BY CountsAreNat, FS_Subset DEF Quiet
<1>2. Cardinality(Deferred') \in Nat
  BY <1>1, FS_CardinalityType
<1>3. IsFiniteSet(jwts') /\ Cardinality(jwts') = Cardinality(jwts)
  BY CountsAreNat DEF Quiet
<1> QED
  BY <1>1, <1>2, <1>3, CountsAreNat, RedeemedWithin DEF TokensCostCodes

\* A deferred request has cost a code.
LEMMA DeferredCounts ==
    ASSUME FlowInv, AC!StoreInv, CL!ClientInv, [Next]_vars, NEW w \in Workers,
           LeftDeferred(w)
    PROVE  TokensCostCodes'
<1>1. Deferred' \subseteq Deferred \cup {w}
  BY DEF LeftDeferred, Moved, Deferred
<1>2. /\ IsFiniteSet(Deferred \cup {w})
      /\ Cardinality(Deferred \cup {w}) <= Cardinality(Deferred) + 1
      /\ Cardinality(Deferred \cup {w}) \in Nat
  <2>1. IsFiniteSet(Deferred)
    BY CountsAreNat
  <2> QED
    BY <2>1, OneMore
<1>3. IsFiniteSet(Deferred') /\ Cardinality(Deferred') <= Cardinality(Deferred \cup {w})
  BY <1>1, <1>2, FS_Subset
<1>4. Cardinality(Deferred') \in Nat
  BY <1>3, FS_CardinalityType
<1>5. Cardinality(redeemed') = Cardinality(redeemed) + 1
  BY OneMoreRedeemed DEF LeftDeferred
<1>6. IsFiniteSet(jwts') /\ Cardinality(jwts') = Cardinality(jwts)
  BY CountsAreNat DEF LeftDeferred
<1> QED
  BY <1>2, <1>3, <1>4, <1>5, <1>6, CountsAreNat DEF TokensCostCodes

\* The answer of a request leaves the deferred ones without it.
LEMMA AnsweredDeferred ==
    ASSUME FlowInv, NEW w \in Workers, Answer(w)
    PROVE  Deferred' \subseteq Deferred \ {w}
<1>1. Moved(w) /\ req'[w].pc # "deferred"
  BY AnswerMoves DEF Unheld
<1> QED
  BY <1>1 DEF Moved, Deferred

\* A token minted on a code has cost that code.
LEMMA CodeMintCounts ==
    ASSUME FlowInv, AC!StoreInv, CL!ClientInv, [Next]_vars, NEW w \in Workers,
           NEW e, NEW j, MintedOnCode(w, e, j)
    PROVE  TokensCostCodes' /\ j.nth \in 1..Cardinality(Codes)
<1>1. Deferred' \in SUBSET Deferred
  BY AnsweredDeferred DEF MintedOnCode
<1>2. IsFiniteSet(Deferred') /\ Cardinality(Deferred') <= Cardinality(Deferred)
  BY <1>1, CountsAreNat, FS_Subset
<1>3. Cardinality(Deferred') \in Nat
  BY <1>2, FS_CardinalityType
<1>4. Cardinality(redeemed') = Cardinality(redeemed) + 1
  BY OneMoreRedeemed DEF MintedOnCode
<1>5. /\ IsFiniteSet(jwts') /\ Cardinality(jwts') \in Nat
      /\ Cardinality(jwts') <= Cardinality(jwts) + 1
  BY OneMoreToken DEF MintedOnCode
<1>6. TokensCostCodes'
  BY <1>2, <1>3, <1>4, <1>5, CountsAreNat DEF TokensCostCodes
<1>7. j.nth = Cardinality(jwts) + 1
  BY DEF MintedOnCode
<1> QED
  BY <1>4, <1>6, <1>7, CountsAreNat, RedeemedWithin

\* A token minted on a deferred exchange takes the place of its request.
LEMMA ExchangeMintCounts ==
    ASSUME FlowInv, AC!StoreInv, CL!ClientInv, [Next]_vars, NEW w \in Workers,
           req[w].pc = "deferred", NEW j, MintedOnExchange(w, j)
    PROVE  TokensCostCodes' /\ j.nth \in 1..Cardinality(Codes)
<1>1. Deferred' \in SUBSET (Deferred \ {w}) /\ w \in Deferred
  BY AnsweredDeferred DEF MintedOnExchange, Deferred
<1>2. /\ IsFiniteSet(Deferred \ {w})
      /\ Cardinality(Deferred \ {w}) = Cardinality(Deferred) - 1
      /\ Cardinality(Deferred \ {w}) \in Nat
  BY <1>1, CountsAreNat, FS_RemoveElement, FS_CardinalityType
<1>3. IsFiniteSet(Deferred') /\ Cardinality(Deferred') <= Cardinality(Deferred \ {w})
  BY <1>1, <1>2, FS_Subset
<1>4. Cardinality(Deferred') \in Nat
  BY <1>3, FS_CardinalityType
<1>5. /\ IsFiniteSet(jwts') /\ Cardinality(jwts') \in Nat
      /\ Cardinality(jwts') <= Cardinality(jwts) + 1
  BY OneMoreToken DEF MintedOnExchange
<1>6. redeemed' = redeemed
  BY DEF MintedOnExchange
<1>7. TokensCostCodes'
  BY <1>2, <1>3, <1>4, <1>5, <1>6, CountsAreNat DEF TokensCostCodes
<1>8. j.nth = Cardinality(jwts) + 1
  BY DEF MintedOnExchange
<1> QED
  BY <1>2, <1>6, <1>7, <1>8, CountsAreNat, RedeemedWithin

\* What a token says stays true.
LEMMA TokenStays ==
    ASSUME FlowInv, Grows, NEW j, TokenFounded(j)
    PROVE  TokenFounded(j)'
<1>1. j.login # Cookie => j.login \in Logins /\ kite[j.login] # None
  BY DEF TokenFounded, FlowInv, OffersFounded, LoginFor
<1> QED
  BY <1>1 DEF TokenFounded, Grows, KiteKeeps, HasFlow

\* The type of a token, field by field.
LEMMA IsJwt ==
    ASSUME NEW sub \in Users, NEW aud \in Ids, NEW ch \in Challenges,
           NEW login \in Logins \cup {Cookie}, NEW deferred \in BOOLEAN,
           NEW nth \in 1..Cardinality(Codes)
    PROVE  [sub |-> sub, aud |-> aud, ch |-> ch, login |-> login,
            deferred |-> deferred, nth |-> nth] \in Jwt
  BY DEF Jwt

\* A token minted on a code names what the code names.
LEMMA CodeMintFounded ==
    ASSUME FlowInv, NEW w \in Workers, NEW e, NEW j,
           MintedOnCode(w, e, j), j.nth \in 1..Cardinality(Codes)
    PROVE  TokenFounded(j) /\ j \in Jwt
<1>1. /\ j.sub = e.email /\ j.aud = flows[e.ch].client /\ j.ch = e.ch
      /\ j.login = e.login /\ j.deferred = FALSE
  BY DEF MintedOnCode
<1>2. /\ EntryFounded(e) /\ e \in CodeEntry /\ e.email # None
      /\ e.login # Cookie => e.email \in consent
  BY DEF MintedOnCode, FlowInv, CodesFounded
<1>3. HasFlow(e.ch) /\ flows[e.ch] \in Flow
  BY <1>2 DEF EntryFounded, HasFlow, FlowInv, TypeOK
<1>4. TokenFounded(j)
  BY <1>1, <1>2, <1>3 DEF TokenFounded, EntryFounded, LoginFor, HonouredFor
<1>5. /\ e.email \in Users /\ flows[e.ch].client \in Ids /\ e.ch \in Challenges
      /\ e.login \in Logins \cup {Cookie}
  BY <1>2, <1>3 DEF CodeEntry, Flow
<1>6. j = [sub |-> e.email, aud |-> flows[e.ch].client, ch |-> e.ch,
           login |-> e.login, deferred |-> FALSE, nth |-> j.nth]
  BY DEF MintedOnCode
<1>7. j \in Jwt
  BY <1>5, <1>6, IsJwt
<1> QED
  BY <1>4, <1>7

\* A token minted on a deferred exchange names what Kite answers.
LEMMA ExchangeMintFounded ==
    ASSUME FlowInv, NEW w \in Workers, NEW j,
           MintedOnExchange(w, j), j.nth \in 1..Cardinality(Codes)
    PROVE  TokenFounded(j) /\ j \in Jwt
<1> DEFINE t == req[w].login
           ch == req[w].ch
<1>1. /\ j.sub = kite[t].user /\ j.aud = flows[ch].client /\ j.ch = ch
      /\ j.login = t /\ j.deferred = TRUE
  BY DEF MintedOnExchange
<1>2. /\ HasFlow(ch) /\ t \in Logins /\ kite[t] \in Login /\ kite[t] # None
      /\ LoginFor(t, ch) /\ kite[t].app = flows[ch].client
  BY DEF MintedOnExchange
<1>3. flows[ch] \in Flow /\ ch \in Challenges
  BY <1>2 DEF HasFlow, FlowInv, TypeOK
<1>4. j = [sub |-> kite[t].user, aud |-> flows[ch].client, ch |-> ch,
           login |-> t, deferred |-> TRUE, nth |-> j.nth]
  BY DEF MintedOnExchange
<1> HIDE DEF t, ch
<1>5. TokenFounded(j)
  BY <1>1, <1>2, FlowAssumption DEF TokenFounded, LoginFor
<1>6. kite[t].user \in Users /\ flows[ch].client \in Ids
  BY <1>2, <1>3 DEF Login, Flow
<1>7. j \in Jwt
  BY <1>2, <1>3, <1>4, <1>6, IsJwt
<1> QED
  BY <1>5, <1>7

\* Tokens are typed, founded and paid for with a code.
LEMMA TokensStep ==
    ASSUME FlowInv, AC!StoreInv, CL!ClientInv, [Next]_vars
    PROVE  jwts' \subseteq Jwt /\ TokensFounded' /\ TokensCostCodes'
<1>1. jwts \subseteq Jwt /\ \A j \in jwts : TokenFounded(j)
  BY DEF FlowInv, TypeOK, TokensFounded
<1>2. ASSUME NEW j \in jwts
      PROVE  TokenFounded(j)'
  BY <1>1, TokenStays, StepGrows
<1>3. ASSUME jwts' = jwts
      PROVE  jwts' \subseteq Jwt /\ TokensFounded'
  BY <1>1, <1>2, <1>3 DEF TokensFounded
<1>4. ASSUME NEW j, jwts' = jwts \cup {j}, TokenFounded(j), j \in Jwt
      PROVE  jwts' \subseteq Jwt /\ TokensFounded'
  <2>1. TokenFounded(j)'
    BY <1>4, TokenStays, StepGrows
  <2> QED
    BY <1>1, <1>2, <1>4, <2>1 DEF TokensFounded
<1>5. CASE Quiet
  BY <1>3, <1>5, QuietCounts DEF Quiet
<1>6. ASSUME NEW w \in Workers, ConsumeCode(w)
      PROVE  jwts' \subseteq Jwt /\ TokensFounded' /\ TokensCostCodes'
  <2>1. CASE LeftDeferred(w)
    BY <1>3, <2>1, DeferredCounts DEF LeftDeferred
  <2>2. ASSUME NEW e, NEW j, MintedOnCode(w, e, j)
        PROVE  jwts' \subseteq Jwt /\ TokensFounded' /\ TokensCostCodes'
    <3>1. TokensCostCodes' /\ j.nth \in 1..Cardinality(Codes)
      BY <2>2, CodeMintCounts
    <3>2. TokenFounded(j) /\ j \in Jwt /\ jwts' = jwts \cup {j}
      BY <2>2, <3>1, CodeMintFounded DEF MintedOnCode
    <3> QED
      BY <1>4, <3>1, <3>2
  <2> QED
    BY <1>5, <1>6, <2>1, <2>2, ConsumeKinds
<1>7. ASSUME NEW w \in Workers, DeferredExchange(w)
      PROVE  jwts' \subseteq Jwt /\ TokensFounded' /\ TokensCostCodes'
  <2>1. PICK j : MintedOnExchange(w, j)
    BY <1>7, ExchangeMints
  <2>2. TokensCostCodes' /\ j.nth \in 1..Cardinality(Codes)
    BY <1>7, <2>1, ExchangeMints, ExchangeMintCounts
  <2>3. TokenFounded(j) /\ j \in Jwt /\ jwts' = jwts \cup {j}
    BY <2>1, <2>2, ExchangeMintFounded DEF MintedOnExchange
  <2> QED
    BY <1>4, <2>2, <2>3
<1> QED
  BY <1>5, <1>6, <1>7, TokenSteps

-----------------------------------------------------------------------------
\* One holder per login

\* What the invariant says of one login.
LEMMA HolderIsOne ==
    ASSUME FlowInv, NEW t \in Logins
    PROVE  OneHolderOf(t)
  BY DEF FlowInv, OneHolder

\* Holders that only go away leave at most one.
LEMMA FewerHolders ==
    ASSUME FlowInv, [Next]_vars, NEW t \in Logins,
           HeldByRequests(t)' \subseteq HeldByRequests(t),
           HeldByCodes(t)' \subseteq HeldByCodes(t),
           HeldByTokens(t)' \subseteq HeldByTokens(t)
    PROVE  OneHolderOf(t)'
<1>1. kite[t] # None /\ kite[t].spent => kite'[t] # None /\ kite'[t].spent
  BY KiteStep DEF KiteKeeps
<1>2. OneHolderOf(t)
  BY HolderIsOne
<1> QED
  BY <1>1, <1>2 DEF OneHolderOf

\* A holder that is alone is one.
LEMMA NewHolder ==
    ASSUME NEW t \in Logins, NEW x, kite'[t] # None, kite'[t].spent,
           \/ /\ HeldByRequests(t)' \subseteq {x}
              /\ HeldByCodes(t)' = {} /\ HeldByTokens(t)' = {}
           \/ /\ HeldByCodes(t)' \subseteq {x}
              /\ HeldByRequests(t)' = {} /\ HeldByTokens(t)' = {}
           \/ /\ HeldByTokens(t)' \subseteq {x}
              /\ HeldByRequests(t)' = {} /\ HeldByCodes(t)' = {}
    PROVE  OneHolderOf(t)'
  BY DEF OneHolderOf

\* A login that Kite has not spent has no holder.
LEMMA UnspentUnheld ==
    ASSUME FlowInv, NEW t \in Logins, ~kite[t].spent
    PROVE  HeldByRequests(t) = {} /\ HeldByCodes(t) = {} /\ HeldByTokens(t) = {}
  BY HolderIsOne DEF OneHolderOf

\* Only an exchange of the callback adds a request.
LEMMA MovedHold ==
    ASSUME NEW w \in Workers, NEW t \in Logins, Moved(w),
           Unheld(w) \/ req'[w].pc = "deferred" \/ req'[w].email = None
    PROVE  HeldByRequests(t)' \subseteq HeldByRequests(t) \ {w}
  BY DEF Moved, Unheld, HeldByRequests

\* Any other step adds none.
LEMMA RequestsHold ==
    ASSUME FlowInv, AC!StoreInv, [Next]_vars, NEW t \in Logins,
           \A w \in Workers : ~CallbackExchange(w)
    PROVE  HeldByRequests(t)' \subseteq HeldByRequests(t)
<1>1. CASE req' = req
  BY <1>1 DEF HeldByRequests
<1>2. ASSUME NEW w \in Workers, WorkerStep(w) \/ NewRequest(w)
      PROVE  HeldByRequests(t)' \subseteq HeldByRequests(t)
  <2>1. Moved(w)
    BY <1>2, WorkerMoves, NewMoves
  <2>2. req' = req \/ Unheld(w) \/ req'[w].pc = "deferred" \/ req'[w].email = None
    BY <1>2, WorkerMoves, NewMoves, DeferMoves, ConsumeMoves
  <2> QED
    BY <1>1, <2>1, <2>2, MovedHold
<1>3. CASE Crash
  <2>1. \A w \in Workers : req'[w].pc = "idle"
    BY <1>3 DEF Crash, NoRequest
  <2> QED
    BY <2>1 DEF HeldByRequests
<1> QED
  BY <1>1, <1>2, <1>3 DEF Next, Start, Time, KiteLogin, vars

\* Only the callback adds a code.
LEMMA CodesHold ==
    ASSUME FlowInv, AC!StoreInv, [Next]_vars, NEW t \in Logins,
           \A w \in Workers, c \in Codes : ~GenerateCode(w, c)
    PROVE  HeldByCodes(t)' \subseteq HeldByCodes(t)
<1>1. ASSUME NEW c \in Codes, c \in AuthCodes!Stored', entries'[c].email # None,
             entries'[c].login = t
      PROVE  c \in HeldByCodes(t)
  <2>1. CASE c \in drawn
    BY <1>1, <2>1, CodesStep DEF DrawnKeep, HeldByCodes
  <2>2. ASSUME NEW w \in Workers, NEW u \in Users, ShortCircuit(w, u, c)
        PROVE  FALSE
    BY <1>1, <2>2, ShortCircuitStores, FlowAssumption
  <2> QED
    BY <1>1, <2>1, <2>2, NewCode
<1> QED
  BY <1>1 DEF HeldByCodes, AuthCodes!Stored

\* The exchange of the callback makes its request the holder.
LEMMA SpendHolder ==
    ASSUME FlowInv, [Next]_vars, NEW t \in Logins, NEW w \in Workers,
           CallbackExchange(w)
    PROVE  OneHolderOf(t)'
<1>1. /\ Moved(w) /\ req'[w].login = req[w].login
  BY ExchangeMoves
<1>2. HeldByCodes(t)' = HeldByCodes(t) /\ HeldByTokens(t)' = HeldByTokens(t)
  BY DEF CallbackExchange, codeVars, grantVars, HeldByCodes, HeldByTokens,
     AuthCodes!Stored
<1>3. CASE req[w].login = t
  <2>1. kite[t] # None
    BY <1>3, InHand DEF CallbackExchange, At
  <2>2. ~kite[t].spent /\ kite'[t].spent /\ kite'[t] # None
    BY <1>3, <2>1, ExchangeSpends DEF CallbackExchange
  <2>3. HeldByRequests(t)' \subseteq HeldByRequests(t) \cup {w}
    BY <1>1 DEF Moved, HeldByRequests
  <2> QED
    BY <1>2, <2>2, <2>3, UnspentUnheld, NewHolder
<1>4. CASE req[w].login # t
  <2>1. HeldByRequests(t)' \subseteq HeldByRequests(t)
    BY <1>1, <1>4 DEF Moved, HeldByRequests
  <2> QED
    BY <1>2, <2>1, FewerHolders
<1> QED
  BY <1>3, <1>4

\* GenerateCode hands the hold on to the code.
LEMMA GenerateHolder ==
    ASSUME FlowInv, [Next]_vars, NEW t \in Logins, NEW w \in Workers, NEW c \in Codes,
           GenerateCode(w, c)
    PROVE  OneHolderOf(t)'
<1>1. HeldByRequests(t)' \subseteq HeldByRequests(t) \ {w}
  BY GenerateMoves, MovedHold
<1>2. HeldByTokens(t)' = HeldByTokens(t)
  BY DEF GenerateCode, grantVars, HeldByTokens
<1>3. /\ AuthCodes!Stored' = AuthCodes!Stored \cup {c}
      /\ \A d \in Codes \ {c} : entries'[d] = entries[d]
      /\ entries'[c].login = req[w].login /\ entries'[c].email = req[w].email
      /\ req[w].pc = "generate"
  BY CallbackStores
<1>4. HeldByCodes(t)' \subseteq HeldByCodes(t) \cup {c}
  BY <1>3 DEF HeldByCodes, AuthCodes!Stored
<1>5. CASE w \in HeldByRequests(t)
  <2>1. /\ HeldByRequests(t) = {w} /\ HeldByCodes(t) = {} /\ HeldByTokens(t) = {}
        /\ kite[t] # None /\ kite[t].spent
    BY <1>5, HolderIsOne DEF OneHolderOf
  <2>2. kite' = kite
    BY DEF GenerateCode
  <2> QED
    BY <1>1, <1>2, <1>4, <2>1, <2>2, NewHolder
<1>6. CASE w \notin HeldByRequests(t)
  <2>1. ~(req[w].email # None /\ req[w].login = t)
    BY <1>3, <1>6 DEF HeldByRequests
  <2>2. HeldByCodes(t)' \subseteq HeldByCodes(t)
    BY <1>3, <2>1 DEF HeldByCodes, AuthCodes!Stored
  <2> QED
    BY <1>1, <1>2, <2>2, FewerHolders
<1> QED
  BY <1>5, <1>6

\* ConsumeCode hands it on to the token, or lets it go.
LEMMA ConsumeHolder ==
    ASSUME FlowInv, AC!StoreInv, [Next]_vars, NEW t \in Logins, NEW w \in Workers,
           ConsumeCode(w)
    PROVE  OneHolderOf(t)'
<1>1. HeldByRequests(t)' \subseteq HeldByRequests(t)
  BY ConsumeMoves, MovedHold
<1>2. PICK e : e = entries[req[w].code]
  OBVIOUS
<1>3. req[w].code \in Codes /\ AuthCodes!Consume(req[w].code)
  BY <1>2, ConsumeOutcomes
<1>4. HeldByCodes(t)' \subseteq HeldByCodes(t) \ {req[w].code}
  BY <1>3, ConsumeTakes DEF HeldByCodes, AuthCodes!Stored
<1>5. CASE jwts' = jwts
  <2>1. HeldByTokens(t)' = HeldByTokens(t)
    BY <1>5 DEF HeldByTokens
  <2> QED
    BY <1>1, <1>4, <2>1, FewerHolders
<1>6. ASSUME NEW d, NEW j, MintedOnCode(w, d, j)
      PROVE  OneHolderOf(t)'
  <2>1. /\ req[w].code \in AuthCodes!Stored /\ d = entries[req[w].code]
        /\ d.email # None /\ jwts' = jwts \cup {j} /\ j.login = d.login
    BY <1>6 DEF MintedOnCode
  <2>2. CASE d.login = t
    <3>1. req[w].code \in HeldByCodes(t)
      BY <2>1, <2>2 DEF HeldByCodes
    <3>2. /\ HeldByRequests(t) = {} /\ HeldByTokens(t) = {}
          /\ HeldByCodes(t) = {req[w].code} /\ kite[t] # None /\ kite[t].spent
      BY <3>1, HolderIsOne DEF OneHolderOf
    <3>3. HeldByTokens(t)' \subseteq HeldByTokens(t) \cup {j}
      BY <2>1 DEF HeldByTokens
    <3>4. kite'[t] # None /\ kite'[t].spent
      BY <3>2, KiteStep DEF KiteKeeps
    <3> QED
      BY <1>1, <1>4, <3>2, <3>3, <3>4, NewHolder
  <2>3. CASE d.login # t
    <3>1. HeldByTokens(t)' \subseteq HeldByTokens(t)
      BY <2>1, <2>3 DEF HeldByTokens
    <3> QED
      BY <1>1, <1>4, <3>1, FewerHolders
  <2> QED
    BY <2>2, <2>3
<1> QED
  BY <1>5, <1>6, ConsumeKinds DEF Quiet, LeftDeferred

\* The deferred exchange makes the token the holder.
LEMMA ExchangeHolder ==
    ASSUME FlowInv, AC!StoreInv, [Next]_vars, NEW t \in Logins, NEW w \in Workers,
           DeferredExchange(w)
    PROVE  OneHolderOf(t)'
<1>1. PICK j : MintedOnExchange(w, j)
  BY ExchangeMints
<1>2. HeldByRequests(t)' \subseteq HeldByRequests(t)
  BY <1>1, AnswerMoves, MovedHold DEF MintedOnExchange
<1>3. HeldByCodes(t)' = HeldByCodes(t)
  BY DEF DeferredExchange, codeVars, HeldByCodes, AuthCodes!Stored
<1>4. jwts' = jwts \cup {j} /\ j.login = req[w].login
  BY <1>1 DEF MintedOnExchange
<1>5. CASE req[w].login = t
  <2>1. ~kite[t].spent /\ kite[t] # None /\ kite'[t].spent
    BY <1>1, <1>5 DEF MintedOnExchange
  <2>2. kite'[t] # None
    BY <2>1, KiteStep DEF KiteKeeps
  <2>3. HeldByTokens(t)' \subseteq HeldByTokens(t) \cup {j}
    BY <1>4 DEF HeldByTokens
  <2> QED
    BY <1>2, <1>3, <2>1, <2>2, <2>3, UnspentUnheld, NewHolder
<1>6. CASE req[w].login # t
  <2>1. HeldByTokens(t)' \subseteq HeldByTokens(t)
    BY <1>4, <1>6 DEF HeldByTokens
  <2> QED
    BY <1>2, <1>3, <2>1, FewerHolders
<1> QED
  BY <1>5, <1>6

\* No step leaves a login with two holders.
LEMMA HolderStep ==
    ASSUME FlowInv, AC!StoreInv, [Next]_vars
    PROVE  OneHolder'
<1>1. ASSUME NEW t \in Logins
      PROVE  OneHolderOf(t)'
  <2>1. ASSUME NEW w \in Workers, CallbackExchange(w)
        PROVE  OneHolderOf(t)'
    BY <2>1, SpendHolder
  <2>2. CASE /\ \A w \in Workers : ~CallbackExchange(w)
             /\ \A w \in Workers, c \in Codes : ~GenerateCode(w, c)
             /\ \A w \in Workers : ~ConsumeCode(w) /\ ~DeferredExchange(w)
    <3>1. HeldByTokens(t)' = HeldByTokens(t)
      BY <2>2, TokenSteps DEF Quiet, HeldByTokens
    <3> QED
      BY <2>2, <3>1, RequestsHold, CodesHold, FewerHolders
  <2> QED
    BY <2>1, <2>2, GenerateHolder, ConsumeHolder, ExchangeHolder
<1> QED
  BY <1>1 DEF OneHolder

-----------------------------------------------------------------------------
\* The invariant

AllInv == FlowInv /\ AC!StoreInv /\ CL!ClientInv

\* The invariant is inductive.
LEMMA FlowStep ==
    ASSUME AllInv, [Next]_vars
    PROVE  AllInv'
<1> USE DEF AllInv
<1>1. /\ AC!StoreInv' /\ CL!ClientInv'
      /\ AuthCodes!TypeOK' /\ Clients!TypeOK'
  BY StoresKept
<1>2. req' \in [Workers -> Request] /\ RequestsFounded'
  BY RequestsStep
<1>3. /\ flows' \in [Challenges -> Flow \cup {None}]
      /\ kite' \in [Logins -> Login \cup {None}]
      /\ told' \subseteq DcrIds /\ cookies' \subseteq Users
      /\ consent' \subseteq Users /\ sent' \subseteq Codes
  BY FlowsStep, KiteStep, HandedOut
<1>4. /\ offers' \subseteq Offer /\ brought' \subseteq Brought
      /\ OffersFounded'
  BY OffersStep, BroughtStep
<1>5. jwts' \subseteq Jwt /\ TokensFounded' /\ TokensCostCodes'
  BY TokensStep
<1>6. TypeOK'
  BY <1>1, <1>2, <1>3, <1>4, <1>5 DEF TypeOK
<1>7. ClientsAreTold' /\ CodesFounded' /\ OneHolder'
  BY ClientsStayTold, CodesStepFounded, HolderStep
<1> QED
  BY <1>1, <1>2, <1>4, <1>5, <1>6, <1>7 DEF FlowInv

\* It holds initially.
LEMMA FlowInit ==
    ASSUME Init
    PROVE  AllInv
<1>1. AC!StoreInv /\ AuthCodes!TypeOK
  <2>1. AC!Init
    BY SameCodes DEF Init
  <2>2. AC!StoreInv
    BY <2>1, CodesAssumed, AC!InitInv
  <2> QED
    BY <2>2, SameCodes DEF AC!StoreInv
<1>2. CL!ClientInv /\ Clients!TypeOK
  <2>1. CL!Init
    BY SameClients DEF Init
  <2>2. CL!ClientInv
    BY <2>1, ClientsAssumed, CL!InitTyped
  <2>3. CL!TypeOK
    BY <2>2 DEF CL!ClientInv, CL!TypeOK, CL!CappedEntry, CL!Rows
  <2> QED
    BY <2>2, <2>3, SameClients
<1>3. \A w \in Workers : req[w] = NoRequest
  BY DEF Init
<1>4. NoRequest \in Request /\ NoRequest.pc = "idle"
  BY DEF NoRequest, Request
<1>5. TypeOK
  BY <1>1, <1>2, <1>4, FlowAssumption DEF Init, TypeOK
<1>6. ClientsAreTold /\ OffersFounded
  BY DEF Init, ClientsAreTold, OffersFounded, HasFlow
<1>7. RequestsFounded
  BY <1>3, <1>4 DEF RequestsFounded, RequestFounded
<1>8. AuthCodes!Stored = {}
  BY DEF Init, AuthCodes!Init, AuthCodes!Stored
<1>9. CodesFounded /\ TokensFounded
  BY <1>8 DEF Init, CodesFounded, TokensFounded
<1>10. OneHolder
  <2>1. ASSUME NEW t \in Logins
        PROVE  HeldByRequests(t) = {} /\ HeldByCodes(t) = {} /\ HeldByTokens(t) = {}
    BY <1>3, <1>4, <1>8 DEF Init, HeldByRequests, HeldByCodes, HeldByTokens
  <2> QED
    BY <2>1 DEF OneHolder, OneHolderOf
<1>11. TokensCostCodes
  <2>1. Deferred = {} /\ jwts = {} /\ redeemed = {}
    BY <1>3, <1>4 DEF Init, Deferred, AuthCodes!Init
  <2>2. IsFiniteSet({}) /\ Cardinality({}) = 0
    BY FS_EmptySet
  <2> QED
    BY <2>1, <2>2 DEF TokensCostCodes
<1> QED
  BY <1>1, <1>2, <1>5, <1>6, <1>7, <1>9, <1>10, <1>11 DEF AllInv, FlowInv

\* The inductive invariant of the flow, together with those of its stores.
THEOREM FlowInvariant == Spec => [](FlowInv /\ AC!StoreInv /\ CL!ClientInv)
<1>1. Init => AllInv
  BY FlowInit
<1>2. AllInv /\ [Next]_vars => AllInv'
  BY FlowStep
<1>3. AllInv => FlowInv /\ AC!StoreInv /\ CL!ClientInv
  BY DEF AllInv
<1> QED
  BY <1>1, <1>2, <1>3, PTL DEF Spec

-----------------------------------------------------------------------------
\* What it means for the tokens

\* OAuthFlow is type correct; a token's number shows that there are never more
\* tokens than codes.
THEOREM TypeCorrect == Spec => []TypeOK
<1>1. FlowInv => TypeOK
  BY DEF FlowInv
<1> QED
  BY FlowInvariant, <1>1, PTL

\* Through crashes, reloads, repeated callbacks and repeated token requests, a
\* bearer token names the client of an attempt and a user whose login, or whose
\* cookie, was brought to the attempt whose verifier was shown.
THEOREM TokensNameTheirUser == Spec => []JwtIdentity
<1>1. FlowInv => JwtIdentity
  BY DEF FlowInv, TokensFounded, TokenFounded, JwtIdentity
<1> QED
  BY FlowInvariant, <1>1, PTL

\* Whatever signed state comes with a login under a user's own Kite app, and
\* whatever the client store has forgotten by then, its token is for that key.
THEOREM LoginsStayWithTheirKey == Spec => []KeyLoginsStay
<1>1. FlowInv => KeyLoginsStay
  BY DEF FlowInv, TokensFounded, TokenFounded, KeyLoginsStay
<1> QED
  BY FlowInvariant, <1>1, PTL

\* One Kite login yields one token, whether its exchange was made by the
\* callback or deferred to the token endpoint.
THEOREM OneTokenPerLogin == Spec => []OneJwtPerLogin
<1>1. FlowInv => OneJwtPerLogin
  <2> SUFFICES ASSUME FlowInv, NEW i \in jwts, NEW j \in jwts, i.login = j.login,
                      i.login # Cookie
               PROVE  i = j
    BY DEF OneJwtPerLogin
  <2>1. i.login \in Logins
    BY DEF FlowInv, TypeOK, Jwt
  <2>2. i \in HeldByTokens(i.login) /\ j \in HeldByTokens(i.login)
    BY DEF HeldByTokens
  <2> QED
    BY <2>1, <2>2, HolderIsOne DEF OneHolderOf
<1> QED
  BY FlowInvariant, <1>1, PTL

\* The consent of a token's user was recorded before, unless the callback did
\* not learn the email.
THEOREM ConsentFirst == Spec => []ConsentUnlessDeferred
<1>1. FlowInv => ConsentUnlessDeferred
  BY DEF FlowInv, TokensFounded, TokenFounded, ConsentUnlessDeferred
<1> QED
  BY FlowInvariant, <1>1, PTL

-----------------------------------------------------------------------------
\* What it means for the users: LoginGrants

\* LoginGrants counts as OAuthFlow does.
LEMMA SameGrantCardinality == \A S : Grants!Cardinality(S) = Cardinality(S)
  BY DEF Grants!Cardinality, Cardinality

\* What LoginGrants speaks of stays the same.
Unseen == UNCHANGED <<flows, kite, brought, cookies, consent, jwts>>

\* A client asks, perhaps not for the first time.
LEMMA AuthorizeGrants ==
    ASSUME FlowInv, NEW w \in Workers, NEW ch \in Challenges, NEW flow \in Flow,
           Authorize(w, ch, flow)
    PROVE  [Grants!Next]_(Grants!vars)
<1>1. /\ flows \in [Challenges -> Flow \cup {None}] /\ flows[ch] \in {None, flow}
      /\ flows' = [flows EXCEPT ![ch] = flow]
      /\ UNCHANGED <<kite, brought, cookies, consent, jwts>>
  BY DEF Authorize, FlowInv, TypeOK, grantVars
<1>2. CASE flows[ch] = None
  BY <1>1, <1>2 DEF Grants!Ask, Grants!Next
<1>3. CASE flows[ch] = flow
  BY <1>1, <1>3 DEF Grants!vars
<1> QED
  BY <1>1, <1>2, <1>3

\* A user logs in at Kite.
LEMMA KiteLoginGrants ==
    ASSUME FlowInv, NEW t \in Logins, NEW app \in Apps, NEW u \in Users,
           KiteLogin(t, app, u)
    PROVE  Grants!Next
<1>1. Grants!LogIn(t)
  BY DEF KiteLogin, Grants!LogIn, grantVars
<1> QED
  BY <1>1 DEF Grants!Next

\* A callback brings a login to the attempt of its signed state.
LEMMA CallbackGrants ==
    ASSUME FlowInv, NEW w \in Workers, NEW t \in Logins, NEW state \in Signed,
           Callback(w, t, state)
    PROVE  Grants!Next
<1>1. /\ HasFlow(state.ch) /\ kite[t] # None
      /\ brought' = brought \cup {[ch |-> state.ch, login |-> t, sub |-> kite[t].user]}
  BY Brings
<1>2. Grants!BringLogin(t, state.ch)
  BY <1>1 DEF Callback, Grants!BringLogin, Grants!Bring, HasFlow, grantVars
<1> QED
  BY <1>1, <1>2 DEF Grants!Next, HasFlow

\* The short circuit brings a user's cookie to the attempt of its request.
LEMMA ShortCircuitGrants ==
    ASSUME FlowInv, NEW w \in Workers, NEW u \in Users, NEW c \in Codes,
           ShortCircuit(w, u, c)
    PROVE  Grants!Next
<1>1. /\ HasFlow(req[w].ch) /\ u \in cookies
      /\ brought' = brought \cup {[ch |-> req[w].ch, login |-> Cookie, sub |-> u]}
  BY Brings
<1>2. Grants!BringCookie(u, req[w].ch)
  BY <1>1 DEF ShortCircuit, Grants!BringCookie, Grants!Bring, HasFlow
<1> QED
  BY <1>1, <1>2 DEF Grants!Next, HasFlow

\* Kite answers an exchange, or the answer is lost, or Kite was not reached.
LEMMA ExchangeGrants ==
    ASSUME FlowInv, NEW t \in Logins, kite[t] # None, NEW app,
           ExchangeOk(t, app) \/ ExchangeFails(t, app),
           UNCHANGED <<flows, brought, cookies, consent, jwts>>
    PROVE  [Grants!Next]_(Grants!vars)
<1>1. CASE UNCHANGED kite
  BY <1>1 DEF Grants!vars
<1>2. CASE ExchangeOk(t, app)
  <2>1. Grants!Spend(t)
    BY <1>2 DEF ExchangeOk, Grants!Spend
  <2> QED
    BY <2>1 DEF Grants!Next
<1> QED
  BY <1>1, <1>2 DEF ExchangeFails

\* The callback records cookie and consent of the user whom Kite named.
LEMMA RedirectGrants ==
    ASSUME FlowInv, NEW w \in Workers, Redirect(w)
    PROVE  [Grants!Next]_(Grants!vars)
<1>1. /\ req[w].pc = "redirect" /\ UNCHANGED <<flows, kite, brought, jwts>>
      /\ cookies' = cookies \cup ({req[w].email} \ {None})
      /\ consent' = consent \cup ({req[w].email} \ {None})
  BY DEF Redirect, At
<1>2. CASE req[w].email = None
  BY <1>1, <1>2 DEF Grants!vars
<1>3. CASE req[w].email # None
  <2>1. /\ req[w].login \in Logins /\ kite[req[w].login] # None
        /\ kite[req[w].login].spent /\ req[w].email = kite[req[w].login].user
    BY <1>1, <1>3 DEF FlowInv, RequestsFounded, RequestFounded, LoginFor, HonouredFor
  <2>2. {req[w].email} \ {None} = {kite[req[w].login].user}
    BY <1>3, <2>1
  <2>3. Grants!Record(req[w].login)
    BY <1>1, <2>1, <2>2 DEF Grants!Record
  <2> QED
    BY <2>1, <2>3 DEF Grants!Next
<1> QED
  BY <1>2, <1>3

\* A token on a code is a grant: by a cookie, or for a login that Kite vouched
\* for, whose user's consent is on record and which has no token; both were
\* brought to the attempt of the code.
LEMMA CodeMintGrants ==
    ASSUME FlowInv, NEW w \in Workers, NEW e, NEW j, MintedOnCode(w, e, j),
           UNCHANGED <<flows, kite, brought, cookies, consent>>
    PROVE  Grants!Next
<1> DEFINE n == Cardinality(jwts) + 1
           b == [ch |-> e.ch, login |-> e.login, sub |-> e.email]
<1>1. /\ EntryFounded(e) /\ e \in CodeEntry /\ e.email # None
      /\ req[w].code \in AuthCodes!Stored /\ e = entries[req[w].code]
      /\ jwts' = jwts \cup {[sub |-> e.email, aud |-> flows[e.ch].client,
             ch |-> e.ch, login |-> e.login, deferred |-> FALSE, nth |-> n]}
  BY DEF MintedOnCode
<1>2. n = Grants!Cardinality(jwts) + 1
  BY SameGrantCardinality
<1>3. b \in brought
  BY <1>1 DEF EntryFounded, LoginFor
<1>4. b.ch = e.ch /\ b.login = e.login /\ b.sub = e.email
  OBVIOUS
<1> HIDE DEF n, b
<1>5. Grants!Grant(b, FALSE)
  BY <1>1, <1>2, <1>4 DEF Grants!Grant
<1>6. CASE e.login = Cookie
  <2>1. Grants!GrantByCookie(b)
    BY <1>4, <1>5, <1>6 DEF Grants!GrantByCookie
  <2> QED
    BY <1>3, <2>1 DEF Grants!Next
<1>7. CASE e.login # Cookie
  <2>1. /\ e.login \in Logins /\ kite[e.login] # None /\ kite[e.login].user = e.email
        /\ HonouredFor(e.login, e.ch)
    BY <1>1, <1>7 DEF EntryFounded, LoginFor
  <2>2. req[w].code \in HeldByCodes(e.login)
    BY <1>1 DEF HeldByCodes
  <2>3. HeldByTokens(e.login) = {}
    BY <2>1, <2>2, HolderIsOne DEF OneHolderOf
  <2>4. \A i \in jwts : i.login # e.login
    BY <2>3 DEF HeldByTokens
  <2>5. e.email \in consent
    BY <1>1, <1>7 DEF MintedOnCode, FlowInv, CodesFounded
  <2>6. Grants!GrantForLogin(b)
    BY <1>4, <1>5, <1>7, <2>1, <2>4, <2>5 DEF Grants!GrantForLogin, HonouredFor
  <2> QED
    BY <1>3, <2>6 DEF Grants!Next
<1> QED
  BY <1>6, <1>7

\* A token on a deferred exchange is one too: Kite vouches for the login now,
\* under the client's own app.
LEMMA ExchangeMintGrants ==
    ASSUME FlowInv, NEW w \in Workers, DeferredExchange(w)
    PROVE  Grants!Next
<1> DEFINE t == req[w].login
           ch == req[w].ch
           n == Cardinality(jwts) + 1
           b == [ch |-> ch, login |-> t, sub |-> kite[t].user]
<1>1. PICK j : MintedOnExchange(w, j)
  BY ExchangeMints
<1>2. /\ ExchangeOk(t, req[w].id)
      /\ UNCHANGED <<flows, brought, cookies, consent>>
  BY DEF DeferredExchange
<1>3. /\ t \in Logins /\ kite[t] # None /\ ~kite[t].spent
      /\ LoginFor(t, ch) /\ kite[t].app = flows[ch].client
      /\ jwts' = jwts \cup {[sub |-> kite[t].user, aud |-> flows[ch].client,
             ch |-> ch, login |-> t, deferred |-> TRUE, nth |-> n]}
  BY <1>1 DEF MintedOnExchange
<1>4. n = Grants!Cardinality(jwts) + 1
  BY SameGrantCardinality
<1>5. b \in brought /\ b.ch = ch /\ b.login = t /\ b.sub = kite[t].user
  BY <1>3 DEF LoginFor
<1> HIDE DEF t, ch, n, b
<1>6. \A i \in jwts : i.login # t
  BY <1>3, UnspentUnheld DEF HeldByTokens
<1>7. Grants!Spend(t)
  BY <1>2, <1>3 DEF ExchangeOk, Grants!Spend
<1>8. Grants!Grant(b, TRUE)
  BY <1>3, <1>4, <1>5 DEF Grants!Grant
<1>9. Grants!GrantForLogin(b)
  BY <1>2, <1>3, <1>5, <1>6, <1>7, <1>8, FlowAssumption DEF Grants!GrantForLogin
<1> QED
  BY <1>5, <1>9 DEF Grants!Next

\* Every step of a handler grants what LoginGrants allows, or is unseen.
LEMMA WorkerGrants ==
    ASSUME FlowInv, AC!StoreInv, [Next]_vars, NEW w \in Workers, WorkerStep(w)
    PROVE  [Grants!Next]_(Grants!vars)
<1>1. CASE \/ CallbackExchange(w) \/ DeferExchange(w) \/ RefuseCallback(w)
           \/ RefuseToken(w)
  <2>1. req[w].pc \in {"ownKey", "serverKey", "deferred"}
    BY <1>1 DEF CallbackExchange, DeferExchange, RefuseCallback, RefuseToken, At
  <2>2. req[w].login \in Logins /\ kite[req[w].login] # None
    BY <2>1, InHand
  <2>3. /\ \E app : ExchangeOk(req[w].login, app) \/ ExchangeFails(req[w].login, app)
        /\ UNCHANGED <<flows, brought, cookies, consent, jwts>>
    BY <1>1 DEF CallbackExchange, DeferExchange, RefuseCallback, RefuseToken, grantVars
  <2> QED
    BY <2>2, <2>3, ExchangeGrants
<1>2. CASE Unseen
  BY <1>2 DEF Unseen, Grants!vars
<1>3. CASE ConsumeCode(w)
  <2>1. UNCHANGED <<flows, kite, brought, cookies, consent>>
    BY <1>3 DEF ConsumeCode
  <2>2. CASE Quiet \/ LeftDeferred(w)
    BY <1>2, <2>1, <2>2 DEF Quiet, LeftDeferred, Unseen
  <2>3. ASSUME NEW e, NEW j, MintedOnCode(w, e, j)
        PROVE  Grants!Next
    BY <2>1, <2>3, CodeMintGrants
  <2> QED
    BY <1>3, <2>2, <2>3, ConsumeKinds
<1>4. \/ Unseen \/ Redirect(w) \/ ConsumeCode(w) \/ DeferredExchange(w)
      \/ CallbackExchange(w) \/ DeferExchange(w) \/ RefuseCallback(w)
      \/ RefuseToken(w)
      \/ \E u \in Users, c \in Codes : ShortCircuit(w, u, c)
  BY DEF Unseen, WorkerStep, AnswerRegister, AutoRegister, IsKite, AddURI, Validate,
     Route, GenerateCode, NoRoom, SaveClient, grantVars
<1> QED
  BY <1>1, <1>2, <1>3, <1>4, RedirectGrants, ExchangeMintGrants, ShortCircuitGrants

\* So does every other step.
LEMMA GrantsStep ==
    ASSUME FlowInv, AC!StoreInv, [Next]_vars
    PROVE  [Grants!Next]_(Grants!vars)
<1>1. ASSUME NEW w \in Workers, NewRequest(w)
      PROVE  [Grants!Next]_(Grants!vars)
  <2>1. \/ Unseen
        \/ \E ch \in Challenges, flow \in Flow : Authorize(w, ch, flow)
        \/ \E t \in Logins, state \in Signed : Callback(w, t, state)
    BY <1>1 DEF Unseen, NewRequest, Register, EmailLookup, Token, grantVars
  <2> QED
    BY <2>1, AuthorizeGrants, CallbackGrants DEF Unseen, Grants!vars
<1>2. CASE Crash \/ Start \/ Time \/ UNCHANGED vars
  BY <1>2 DEF Crash, Start, Time, vars, grantVars, Grants!vars
<1> QED
  BY <1>1, <1>2, WorkerGrants, KiteLoginGrants DEF Next

\* OAuthFlow implements LoginGrants: whatever the handlers, stores, crashes and
\* retries do, each step grants at most one token, to the client of an attempt,
\* for a user Kite has vouched for and a login that had none and was brought to
\* that attempt, or by a cookie that was.
THEOREM GrantsLogins == Spec => ImplementsLoginGrants
<1>1. Init => Grants!Init
  BY FlowAssumption DEF Init, Grants!Init
<1>2. FlowInv /\ AC!StoreInv /\ [Next]_vars => [Grants!Next]_(Grants!vars)
  BY GrantsStep
<1> QED
  BY <1>1, <1>2, FlowInvariant, PTL DEF Spec, ImplementsLoginGrants, Grants!Spec

-----------------------------------------------------------------------------
\* What it means for the stores

\* The handlers use the client store as its specification says, so that all
\* that is proved of the store holds under them.
THEOREM UsesClientStore == Spec => CL!Spec
<1>1. Init => CL!Init
  BY SameClients DEF Init
<1>2. FlowInv /\ [Next]_vars => [CL!Next]_(CL!vars)
  BY ClientsFollow
<1> QED
  BY <1>1, <1>2, FlowInvariant, PTL DEF Spec, CL!Spec

\* The same of the authorization code store.
THEOREM UsesAuthCodeStore == Spec => AC!Spec
<1>1. Init => AC!Init
  BY SameCodes DEF Init
<1>2. FlowInv /\ [Next]_vars => [AC!Next]_(AC!vars)
  BY CodesFollow
<1> QED
  BY <1>1, <1>2, FlowInvariant, PTL DEF Spec, AC!Spec

\* So the codes that the handlers exchange are one-time codes.
THEOREM CodesKeepTheirPromise == Spec => AC!ImplementsOneTimeCodes
  BY UsesAuthCodeStore, CodesAssumed, AC!KeepsPromise

\* And the rows of their clients are written through, but for races.
THEOREM ClientsWrittenThrough == Spec => [](CL!SaveInv /\ CL!WriteThroughUnlessRaced)
<1>1. CL!Spec => [](CL!ClientInv /\ CL!SaveInv)
  BY ClientsAssumed, CL!SaveInvariant
<1>2. CL!SaveInv => CL!WriteThroughUnlessRaced
  BY DEF CL!SaveInv
<1> QED
  BY <1>1, <1>2, UsesClientStore, PTL

-----------------------------------------------------------------------------
\* Kite keys and their login pages

\* A request is routed only after Validate found its client.
LEMMA RoutedByValidate ==
    ASSUME FlowInv, [Next]_vars, NEW v \in Workers, req'[v].pc = "route"
    PROVE  \/ req'[v] = req[v]
           \/ /\ Validate(v) /\ Valid(Asked(v))
              /\ req'[v].ch = req[v].ch /\ HasFlow(req[v].ch)
<1>t. req \in [Workers -> Request] /\ \A w \in Workers : req[w] \in Request
  BY DEF FlowInv, TypeOK
<1>n. NoRequest \in Request /\ NoRequest.pc = "idle"
  BY DEF NoRequest, Request
<1>1. ASSUME NEW w \in Workers, Answer(w)
      PROVE  req'[v] = req[v]
  BY <1>t, <1>n, <1>1 DEF Answer
<1>2. ASSUME NEW w \in Workers, NEW pc, pc # "route", Goto(w, pc)
      PROVE  req'[v] = req[v]
  BY <1>t, <1>2 DEF Goto, Request
<1>3. ASSUME NEW w \in Workers, Validate(w)
      PROVE  \/ req'[v] = req[v]
             \/ /\ Validate(v) /\ Valid(Asked(v))
                /\ req'[v].ch = req[v].ch /\ HasFlow(req[v].ch)
  <2>1. CASE Answer(w)
    BY <1>1, <2>1
  <2>2. CASE Valid(Asked(w)) /\ Goto(w, "route")
    <3>1. HasFlow(req[w].ch)
      BY <1>3 DEF Validate, At, FlowInv, RequestsFounded, RequestFounded
    <3>2. req'[w].ch = req[w].ch /\ \A o \in Workers \ {w} : req'[o] = req[o]
      BY <1>t, <2>2 DEF Goto, Request
    <3> QED
      BY <1>3, <2>2, <3>1, <3>2
  <2> QED
    BY <1>3, <2>1, <2>2 DEF Validate
<1>4. ASSUME NEW w \in Workers, Moved(w), req'[w].pc # "route"
      PROVE  req'[v] = req[v]
  BY <1>4 DEF Moved
<1>5. ASSUME NEW w \in Workers, WorkerStep(w), ~Validate(w)
      PROVE  req'[v] = req[v]
  <2>1. CASE \/ AnswerRegister(w) \/ Route(w) \/ NoRoom(w) \/ Redirect(w)
             \/ DeferredExchange(w) \/ RefuseToken(w)
             \/ RefuseCallback(w)
             \/ \E u \in Users, c \in Codes : ShortCircuit(w, u, c)
    BY <1>1, <2>1 DEF AnswerRegister, Route, NoRoom, Redirect, DeferredExchange,
       RefuseToken, RefuseCallback, ShortCircuit
  <2>2. CASE AutoRegister(w) \/ IsKite(w) \/ AddURI(w)
    BY <1>2, <2>2 DEF AutoRegister, IsKite, AddURI
  <2>3. CASE CallbackExchange(w) \/ DeferExchange(w)
    BY <1>4, <2>3, ExchangeMoves, DeferMoves
  <2>4. ASSUME NEW c \in Codes, GenerateCode(w, c)
        PROVE  req'[v] = req[v]
    <3>1. req' = [req EXCEPT ![w].pc = "redirect", ![w].code = c]
      BY <2>4 DEF GenerateCode
    <3> QED
      BY <1>t, <3>1 DEF Request
  <2>5. CASE ConsumeCode(w)
    <3>1. Answer(w) \/ \E l : req' = [req EXCEPT ![w].pc = "deferred", ![w].login = l]
      BY <2>5 DEF ConsumeCode
    <3> QED
      BY <1>1, <1>t, <3>1 DEF Request
  <2>6. CASE SaveClient(w)
    BY <2>6 DEF SaveClient
  <2> QED
    BY <1>5, <2>1, <2>2, <2>3, <2>4, <2>5, <2>6 DEF WorkerStep
<1>6. ASSUME NEW w \in Workers, NEW r \in Request, r.pc # "route",
             req' = [req EXCEPT ![w] = r]
      PROVE  req'[v] = req[v]
  BY <1>t, <1>6
<1>7. ASSUME NEW w \in Workers, NewRequest(w)
      PROVE  req'[v] = req[v]
  <2>1. ASSUME NEW id \in DcrIds, NEW u \in URIs, Register(w, id, u)
        PROVE  req'[v] = req[v]
    <3>1. [NoRequest EXCEPT !.pc = "registered", !.id = id].pc = "registered"
      BY <1>n DEF Request
    <3> QED
      BY <1>t, <2>1, <3>1 DEF Register
  <2>2. ASSUME NEW ch \in Challenges, NEW flow \in Flow, Authorize(w, ch, flow)
        PROVE  req'[v] = req[v]
    <3> DEFINE pc == IF flow.client \in Clients!Known THEN "isKite" ELSE "autoRegister"
    <3>1. [NoRequest EXCEPT !.pc = pc, !.ch = ch].pc = pc /\ pc # "route"
      BY <1>n DEF Request
    <3> QED
      BY <1>t, <2>2, <3>1 DEF Authorize
  <2>3. CASE \E state \in Signed, key \in RegistryKeys : EmailLookup(w, state, key)
    BY <2>3 DEF EmailLookup
  <2>4. ASSUME NEW t \in Logins, NEW state \in Signed, Callback(w, t, state)
        PROVE  req'[v] = req[v]
    <3> DEFINE pc == IF KiteClient(flows[state.ch].client) THEN "ownKey" ELSE "serverKey"
               r == [NoRequest EXCEPT !.pc = pc, !.ch = state.ch, !.login = t,
                                      !.id = ExchangeKey(state)]
    <3>1. r.pc = pc /\ pc # "route"
      BY <1>n DEF Request
    <3>2. req' = [req EXCEPT ![w] = r]
      BY <2>4 DEF Callback
    <3> QED
      BY <1>t, <3>1, <3>2
  <2>5. ASSUME NEW c \in Codes, NEW ch \in Challenges, NEW id \in Ids, NEW ok \in BOOLEAN,
               Token(w, c, ch, id, ok)
        PROVE  req'[v] = req[v]
    <3>1. [NoRequest EXCEPT !.pc = "consume", !.ch = ch, !.id = id, !.code = c].pc
              = "consume"
      BY <1>n DEF Request
    <3> QED
      BY <1>t, <2>5, <3>1 DEF Token
  <2> QED
    BY <1>7, <2>1, <2>2, <2>3, <2>4, <2>5 DEF NewRequest
<1>8. CASE Crash
  BY <1>8, <1>n DEF Crash
<1> QED
  BY <1>3, <1>5, <1>7, <1>8 DEF Next, Start, Time, KiteLogin, vars

\* A Kite key that is registered is registered as one.
LEMMA KeysAreKite ==
    ASSUME CL!SaveInv, NEW id \in KiteKeys, id \in Clients!Known
    PROVE  KiteClient(id)
  BY SameClients DEF CL!SaveInv, CL!KiteKeysAreKite, KiteClient, CL!Known

KeepsClients == serving /\ serving' => Clients!Known \subseteq Clients!Known'

\* Without an eviction, the client is still there when the request is routed.
LEMMA RoutedKnown ==
    ASSUME FlowInv, RequestsFounded', OwnPagesOnly, KeepsClients, [Next]_vars,
           NEW v \in Workers, req'[v].pc = "route"
    PROVE  flows'[req'[v].ch].client \in Clients!Known'
<1>1. serving'
  BY DEF RequestsFounded, RequestFounded
<1>2. CASE req'[v] = req[v]
  <2>1. HasFlow(req[v].ch) /\ serving
    BY <1>2 DEF FlowInv, RequestsFounded, RequestFounded
  <2>2. flows[req[v].ch].client \in Clients!Known
    BY <1>2 DEF OwnPagesOnly, Asked
  <2> QED
    BY <1>1, <1>2, <2>1, <2>2, FlowStays DEF KeepsClients
<1>3. CASE /\ Validate(v) /\ Valid(Asked(v))
           /\ req'[v].ch = req[v].ch /\ HasFlow(req[v].ch)
  <2>1. flows[req[v].ch].client \in Clients!Known
    BY <1>3 DEF Valid, Asked
  <2>2. UNCHANGED <<clients, flows>>
    BY <1>3 DEF Validate, clientVars
  <2> QED
    BY <1>3, <2>1, <2>2 DEF Clients!Known, Clients!Ids
<1> QED
  BY <1>2, <1>3, RoutedByValidate

\* Route sends a Kite key's client to the page of that key only.
LEMMA RouteOwn ==
    ASSUME FlowInv, CL!SaveInv, OwnPagesOnly, NEW w \in Workers, Route(w)
    PROVE  /\ HasFlow(req[w].ch)
           /\ flows[req[w].ch].client \in KiteKeys =>
                  offers' = offers \cup
                      {[state |-> Plain(req[w].ch), to |-> flows[req[w].ch].client]}
<1>1. HasFlow(req[w].ch)
  BY RouteOffers
<1>2. Asked(w).client \in Clients!Known
  BY DEF Route, At, OwnPagesOnly
<1>3. Asked(w).client \in KiteKeys => KiteClient(Asked(w).client)
  BY <1>2, KeysAreKite
<1> QED
  BY <1>1, <1>3 DEF Route, HandOut, Asked

\* So whoever asks under it is sent nowhere else.
LEMMA OwnOffersStep ==
    ASSUME FlowInv, CL!SaveInv, OwnPagesOnly, [Next]_vars
    PROVE  OwnAppOffered'
<1> DEFINE Own(o) == o.state.registry = None /\ flows'[o.state.ch].client \in KiteKeys
                         => o.to = flows'[o.state.ch].client
<1>1. ASSUME NEW o \in offers
      PROVE  Own(o)
  <2>1. HasFlow(o.state.ch)
    BY DEF FlowInv, OffersFounded
  <2> QED
    BY <2>1, FlowStays DEF OwnPagesOnly, OwnAppOffered
<1>2. ASSUME NEW w \in Workers, Route(w)
      PROVE  \A o \in offers' : Own(o)
  <2>1. /\ HasFlow(req[w].ch) /\ flows'[req[w].ch] = flows[req[w].ch]
    BY <1>2, RouteOwn, FlowStays
  <2>2. Plain(req[w].ch).ch = req[w].ch
    BY DEF Plain
  <2>3. CASE flows[req[w].ch].client \in KiteKeys
    BY <1>1, <1>2, <2>1, <2>2, <2>3, RouteOwn
  <2>4. CASE flows[req[w].ch].client \notin KiteKeys
    BY <1>1, <1>2, <2>1, <2>2, <2>4, RouteOffers
  <2> QED
    BY <2>3, <2>4
<1>3. ASSUME NEW w \in Workers, NEW state \in Signed, NEW key \in RegistryKeys,
             EmailLookup(w, state, key)
      PROVE  \A o \in offers' : Own(o)
  <2> DEFINE found == [state EXCEPT !.registry = key]
  <2>1. found.registry = key
    BY SignedFounded DEF State
  <2>2. key # None
    BY FlowAssumption DEF Apps, ServerApps
  <2>3. offers' = offers \cup {[state |-> found, to |-> key]}
    BY <1>3 DEF EmailLookup, HandOut
  <2> HIDE DEF found
  <2>4. \A o \in offers' : o \in offers \/ o.state = found
    BY <2>3
  <2> QED
    BY <1>1, <2>1, <2>2, <2>4
<1>4. ASSUME offers' = offers
      PROVE  \A o \in offers' : Own(o)
  BY <1>1, <1>4
<1>5. ASSUME NEW w \in Workers, WorkerStep(w)
      PROVE  Route(w) \/ offers' = offers
  BY <1>5 DEF WorkerStep, AnswerRegister, AutoRegister, IsKite, AddURI, Validate,
     ShortCircuit, CallbackExchange, DeferExchange, RefuseCallback, GenerateCode,
     NoRoom, Redirect, ConsumeCode, DeferredExchange, RefuseToken, SaveClient
<1>6. ASSUME NEW w \in Workers, NewRequest(w)
      PROVE  \/ offers' = offers
             \/ \E state \in Signed, key \in RegistryKeys : EmailLookup(w, state, key)
  BY <1>6 DEF NewRequest, Register, Authorize, Callback, Token
<1>7. \A o \in offers' : Own(o)
  BY <1>2, <1>3, <1>4, <1>5, <1>6 DEF Next, KiteLogin, Crash, Start, Time, vars
<1> QED
  BY <1>7 DEF OwnAppOffered

\* A step that evicts nobody keeps what OwnPagesOnly says.
LEMMA OwnPagesStep ==
    ASSUME AllInv, AllInv', CL!SaveInv, OwnPagesOnly, KeepsClients, [Next]_vars
    PROVE  OwnPagesOnly'
<1> USE DEF AllInv
<1>1. \A v \in Workers :
          req'[v].pc = "route" => flows'[req'[v].ch].client \in Clients!Known'
  BY RoutedKnown DEF FlowInv
<1>2. OwnAppOffered'
  BY OwnOffersStep
<1> QED
  BY <1>1, <1>2 DEF OwnPagesOnly, Asked

\* At first nothing is offered.
LEMMA OwnPagesInit == Init => OwnPagesOnly
<1> SUFFICES ASSUME Init PROVE OwnPagesOnly
  OBVIOUS
<1>1. \A w \in Workers : req[w].pc = "idle"
  BY DEF Init, NoRequest
<1> QED
  BY <1>1 DEF Init, OwnPagesOnly, OwnAppOffered

\* As long as no registered client is evicted, Authorize sends whoever asks
\* under a Kite key to that app's login page, through any crash and reload.
THEOREM OwnPages == Spec /\ NoEviction => []OwnAppOffered
<1>1. AllInv /\ AllInv' /\ CL!SaveInv /\ OwnPagesOnly /\ [Next]_vars
          /\ [KeepsClients]_vars => OwnPagesOnly'
  <2>1. CASE KeepsClients
    BY <2>1, OwnPagesStep
  <2>2. CASE UNCHANGED vars
    <3>1. Clients!Known' = Clients!Known
      BY <2>2 DEF vars, clientVars, Clients!Known, Clients!Ids
    <3> QED
      BY <3>1, OwnPagesStep DEF KeepsClients
  <2> QED
    BY <2>1, <2>2
<1>2. Spec => []AllInv
  <2>1. FlowInv /\ AC!StoreInv /\ CL!ClientInv => AllInv
    BY DEF AllInv
  <2> QED
    BY <2>1, FlowInvariant, PTL
<1>3. Spec => []CL!SaveInv
  BY ClientsWrittenThrough, PTL
<1>4. NoEviction => [][KeepsClients]_vars
  BY DEF NoEviction, KeepsClients
<1>5. OwnPagesOnly => OwnAppOffered
  BY DEF OwnPagesOnly
<1> QED
  BY <1>1, <1>2, <1>3, <1>4, <1>5, OwnPagesInit, PTL DEF Spec

\* Without a hypothesis on the behaviour: where the client map has room for
\* every id, no client is evicted.
THEOREM OwnPagesWithRoom ==
    ASSUME Cardinality(Ids) <= MaxClients
    PROVE  Spec => []OwnAppOffered
<1>1. FlowInv /\ CL!ClientInv /\ CL!SaveInv /\ [Next]_vars =>
          [serving /\ serving' => Clients!Known \subseteq Clients!Known']_vars
  <2> SUFFICES ASSUME FlowInv, CL!ClientInv, CL!SaveInv, [Next]_vars, serving, serving'
               PROVE  Clients!Known \subseteq Clients!Known'
    OBVIOUS
  <2>1. [CL!Next]_(CL!vars) /\ CL!Cardinality(CL!Ids) <= MaxClients
    BY ClientsFollow, SameCardinality, SameClients
  <2>2. CL!Known \subseteq CL!Known'
    BY <2>1, ClientsAssumed, CL!RoomForAll
  <2> QED
    BY <2>2, SameClients
<1>2. Spec => NoEviction
  BY <1>1, FlowInvariant, ClientsWrittenThrough, PTL DEF Spec, NoEviction
<1> QED
  BY <1>2, OwnPages, PTL
=============================================================================
