---------------------------- MODULE ClientStore ----------------------------
(***************************************************************************)
(* The store of OAuth clients (stores.go): a bounded map behind s.mu and a *)
(* database behind it that outlives the process.                           *)
(*                                                                         *)
(* Each operation changes the map in one critical section and only then,   *)
(* the lock released, calls SaveClient with the row it captured.  Between  *)
(* the two the caller holds that row (saving), and other callers and a     *)
(* crash may come first.                                                   *)
(***************************************************************************)
EXTENDS Integers, FiniteSets

CONSTANTS
    DcrIds,          \* client ids that Register may draw
    KiteKeys,        \* client ids that are Kite API keys
    URIs,            \* redirect URIs
    Callers,         \* request goroutines
    NoEntry,         \* the map has no such client, the table no such row
    NoSave,          \* the caller has no SaveClient to do
    MaxClients,      \* maxClients
    MaxRedirectURIs, \* maxRedirectURIs, also the handler's limit of 10
    MaxClock,        \* bound: the last instant
    MaxStall,        \* bound: how old a time.Now() may be when the lock is got
    SaveOutcomes     \* what SaveClient may answer; a nil persister: {"error"}

Ids == DcrIds \cup KiteKeys

\* A ClientEntry; ~kite stands for a non-empty ClientSecret as well.
Entry == [kite : BOOLEAN, uris : SUBSET URIs, created : 0..MaxClock]

Rows == [id : Ids, row : Entry]

ASSUME ClientAssumption ==
    /\ IsFiniteSet(Ids) /\ IsFiniteSet(URIs)
    /\ DcrIds \cap KiteKeys = {}
    /\ NoEntry \notin Entry
    /\ NoSave \notin Rows
    /\ MaxClients \in Nat \ {0}
    /\ MaxRedirectURIs \in Nat \ {0}
    /\ MaxClock \in Nat /\ MaxStall \in Nat
    /\ SaveOutcomes \subseteq {"ok", "error"}

VARIABLES
    clients,  \* s.clients
    db,       \* the rows SaveClient has written
    saving,   \* per caller: the SaveClient call it still has to make
    issued,   \* history: the ids Register has drawn
    clock,    \* the wall clock
    serving,  \* LoadFromDB is over
    excused   \* history: ids of a failed save, or of two saves in flight at once

vars == <<clients, db, saving, issued, clock, serving, excused>>

Known == {id \in Ids : clients[id] # NoEntry}

\* Mistake: After for Before.
Newest == {id \in Known : \A o \in Known : clients[id].created >= clients[o].created}

Oldest == {id \in Known : \A o \in Known : clients[id].created <= clients[o].created}

PendingFor(id) == {p \in Callers : saving[p] # NoSave /\ saving[p].id = id}

Idle(p) == serving /\ saving[p] = NoSave

\* The time.Now() a registration took before it waited for the lock.
Stamps == {t \in 0..clock : clock - t <= MaxStall}

Init ==
    /\ clients = [id \in Ids |-> NoEntry]
    /\ db = [id \in Ids |-> NoEntry]
    /\ saving = [p \in Callers |-> NoSave]
    /\ issued = {}
    /\ clock = 0
    /\ serving = FALSE
    /\ excused = {}

\* The row the caller captures under the lock and writes after it.
Capture(p, id, row) ==
    /\ saving' = [saving EXCEPT ![p] = [id |-> id, row |-> row]]
    /\ excused' = IF PendingFor(id) = {} THEN excused ELSE excused \cup {id}

\* evictOldest, when the map is full (of equals, the map order decides), then
\* the insertion.
Insert(p, id, row) ==
    /\ \E out \in IF Cardinality(Known) >= MaxClients
                  THEN {{o} : o \in Oldest} ELSE {{}} :
           clients' = [i \in Ids |-> IF i = id THEN row
                                     ELSE IF i \in out THEN NoEntry ELSE clients[i]]
    /\ Capture(p, id, row)

\* Register under a fresh random id; the handler has checked 1..10 URIs.
Register(p, id, us) ==
    /\ Idle(p)
    /\ id \notin issued
    /\ us # {} /\ Cardinality(us) <= MaxRedirectURIs
    /\ \E t \in Stamps : Insert(p, id, [kite |-> FALSE, uris |-> us, created |-> t])
    /\ issued' = issued \cup {id}
    /\ UNCHANGED <<db, clock, serving>>

\* Mistake: whether the client exists is left to the caller's earlier Get.
RegisterKiteClientBlindly(p, id, us) ==
    /\ Idle(p)
    /\ \E t \in Stamps : Insert(p, id, [kite |-> TRUE, uris |-> us, created |-> t])
    /\ UNCHANGED <<db, issued, clock, serving>>

\* RegisterKiteClient leaves a client that exists as it is, its URIs included.
RegisterKiteClient(p, id, us) ==
    /\ Idle(p)
    /\ IF id \in Known THEN UNCHANGED <<clients, saving, excused>>
       ELSE \E t \in Stamps : Insert(p, id, [kite |-> TRUE, uris |-> us, created |-> t])
    /\ UNCHANGED <<db, issued, clock, serving>>

\* Mistake: the cap is off by one.
AddRedirectURIPastCap(p, id, u) ==
    /\ Idle(p)
    /\ IF \/ id \notin Known
          \/ Cardinality(clients[id].uris) > MaxRedirectURIs
          \/ u \in clients[id].uris
       THEN UNCHANGED <<clients, saving, excused>>
       ELSE LET row == [clients[id] EXCEPT !.uris = @ \cup {u}]
            IN  clients' = [clients EXCEPT ![id] = row] /\ Capture(p, id, row)
    /\ UNCHANGED <<db, issued, clock, serving>>

\* Mistake: an unknown client gets an entry with nothing but the URI.
AddRedirectURIUpsert(p, id, u) ==
    /\ Idle(p)
    /\ clients' = [clients EXCEPT ![id] = IF id \in Known THEN @ ELSE [uris |-> {u}]]
    /\ UNCHANGED <<db, saving, issued, clock, serving, excused>>

\* Mistake: the row is captured before the URI is appended.
AddRedirectURICapturedFirst(p, id, u) ==
    /\ Idle(p)
    /\ IF \/ id \notin Known
          \/ Cardinality(clients[id].uris) >= MaxRedirectURIs
          \/ u \in clients[id].uris
       THEN UNCHANGED <<clients, saving, excused>>
       ELSE /\ clients' = [clients EXCEPT ![id].uris = @ \cup {u}]
            /\ Capture(p, id, clients[id])
    /\ UNCHANGED <<db, issued, clock, serving>>

\* AddRedirectURI does nothing for an unknown client, a full list, a known URI.
AddRedirectURI(p, id, u) ==
    /\ Idle(p)
    /\ IF \/ id \notin Known
          \/ Cardinality(clients[id].uris) >= MaxRedirectURIs
          \/ u \in clients[id].uris
       THEN UNCHANGED <<clients, saving, excused>>
       ELSE LET row == [clients[id] EXCEPT !.uris = @ \cup {u}]
            IN  clients' = [clients EXCEPT ![id] = row] /\ Capture(p, id, row)
    /\ UNCHANGED <<db, issued, clock, serving>>

\* SaveClient; its error is only logged, the caller goes on.
Save(p) ==
    /\ saving[p] # NoSave
    /\ \E outcome \in SaveOutcomes :
           IF outcome = "ok"
           THEN db' = [db EXCEPT ![saving[p].id] = saving[p].row] /\ UNCHANGED excused
           ELSE excused' = excused \cup {saving[p].id} /\ UNCHANGED db
    /\ saving' = [saving EXCEPT ![p] = NoSave]
    /\ UNCHANGED <<clients, issued, clock, serving>>

\* The process dies; a save in flight is lost (or had been done: Save first).
Crash ==
    /\ serving
    /\ serving' = FALSE
    /\ clients' = [id \in Ids |-> NoEntry]
    /\ saving' = [p \in Callers |-> NoSave]
    /\ excused' = {}
    /\ UNCHANGED <<db, issued, clock>>

\* LoadFromDB, at startup: every row, however many; or LoadClients fails.
LoadFromDB ==
    /\ ~serving
    /\ serving' = TRUE
    /\ \/ clients' = [id \in Ids |-> IF db[id] # NoEntry THEN db[id] ELSE clients[id]]
       \/ UNCHANGED clients
    /\ UNCHANGED <<db, saving, issued, clock, excused>>

Tick ==
    /\ clock < MaxClock
    /\ clock' = clock + 1
    /\ UNCHANGED <<clients, db, saving, issued, serving, excused>>

\* Authorize passes any id it does not find to RegisterKiteClient, a drawn one
\* that was evicted included.
Next ==
    \/ \E p \in Callers, id \in DcrIds, us \in SUBSET URIs : Register(p, id, us)
    \/ \E p \in Callers, id \in KiteKeys \cup issued, u \in URIs :
           RegisterKiteClient(p, id, {u}) \/ AddRedirectURI(p, id, u)
    \/ \E p \in Callers : Save(p)
    \/ Crash
    \/ LoadFromDB
    \/ Tick

Spec == Init /\ [][Next]_vars

-----------------------------------------------------------------------------

TypeOK ==
    /\ clients \in [Ids -> Entry \cup {NoEntry}]
    /\ db \in [Ids -> Entry \cup {NoEntry}]
    /\ saving \in [Callers -> Rows \cup {NoSave}]
    /\ issued \in SUBSET DcrIds
    /\ clock \in 0..MaxClock
    /\ serving \in BOOLEAN
    /\ excused \in SUBSET Ids

WithinCap(row) == row # NoEntry => Cardinality(row.uris) <= MaxRedirectURIs

\* No client has more redirect URIs than the cap, in memory, in a row on its
\* way to the database, or in the database from which a restart brings it back.
UriCap ==
    /\ \A id \in Ids : WithinCap(clients[id]) /\ WithinCap(db[id])
    /\ \A p \in Callers : saving[p] # NoSave => WithinCap(saving[p].row)

\* SetPersister "enables write-through persistence": when nothing is in flight
\* for a client, its row is what the memory says.
WriteThrough ==
    \A id \in Known : PendingFor(id) = {} => db[id] = clients[id]

\* Write-through holds for every client whose saves succeeded and never
\* overlapped: through evictions, re-registrations, crashes and reloads.
WriteThroughUnlessRaced ==
    \A id \in Known \ excused : PendingFor(id) = {} => db[id] = clients[id]

\* A client leaves a serving process only to make room: one at a time, when
\* the map is full, and no older one stays.  The map never grows past its
\* cap, and a reload that overfilled it makes it no worse.
EvictsForRoom ==
    [][ serving /\ serving' =>
          LET gone == Known \ Known' IN
          /\ gone # {} => Cardinality(Known) >= MaxClients
          /\ \A id \in gone, o \in Known \cap Known' :
                 clients[id].created <= clients[o].created
          /\ Cardinality(gone) <= 1
          /\ Cardinality(Known') > Cardinality(Known) =>
                 Cardinality(Known') <= MaxClients ]_vars

\* While a client stays registered no request changes its kind, hence its
\* secret, or takes a redirect URI from it: of two requests that both found
\* the client unknown, the second does not overwrite what the first put there.
RegistrationIsStable ==
    [][ serving /\ serving' =>
          \A id \in Known \cap Known' :
              /\ clients'[id].kite = clients[id].kite
              /\ clients[id].uris \subseteq clients'[id].uris ]_vars

-----------------------------------------------------------------------------
\* The inductive invariant, besides types and caps.

\* While a client is not excused, one row at most is on its way to the
\* database, and it is what the memory says.
InFlightAgrees ==
    \A id \in Ids \ excused : \A p \in PendingFor(id) :
        /\ PendingFor(id) = {p}
        /\ id \in Known => saving[p].row = clients[id]

\* Before the reload there is no client in memory and no save in flight.
EmptyUntilServing ==
    ~serving => Known = {} /\ \A p \in Callers : saving[p] = NoSave

\* There are rows only of Kite keys and of ids that Register has drawn.
DrawnFirst ==
    \A id \in DcrIds \ issued :
        clients[id] = NoEntry /\ db[id] = NoEntry /\ PendingFor(id) = {}

\* A Kite key is never registered as anything else.
KiteKeysAreKite ==
    \A id \in KiteKeys :
        /\ clients[id] # NoEntry => clients[id].kite
        /\ db[id] # NoEntry => db[id].kite
        /\ \A p \in PendingFor(id) : saving[p].row.kite

SaveInv ==
    /\ WriteThroughUnlessRaced
    /\ InFlightAgrees
    /\ EmptyUntilServing
    /\ DrawnFirst
    /\ KiteKeysAreKite
=============================================================================
