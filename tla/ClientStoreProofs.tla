------------------------- MODULE ClientStoreProofs -------------------------
(***************************************************************************)
(* For every number of clients, URIs and concurrent requests: the types of *)
(* the client store; the cap on a client's redirect URIs in memory, in     *)
(* flight to the database and in the database; that rows agree with the    *)
(* memory where saves neither failed nor overlapped; and what a step may   *)
(* never do to a registered client: change its kind, take a URI from it,   *)
(* evict it while there is room.                                           *)
(***************************************************************************)
EXTENDS ClientStore, FiniteSetTheorems, TLAPS

\* The entries within the cap.  UriCap alone is not inductive for want of the
\* types: only a finite set of URIs has a cardinality that can be compared.
CappedEntry == {row \in Entry : Cardinality(row.uris) <= MaxRedirectURIs}

ClientInv ==
    /\ clients \in [Ids -> CappedEntry \cup {NoEntry}]
    /\ db \in [Ids -> CappedEntry \cup {NoEntry}]
    /\ saving \in [Callers -> [id : Ids, row : CappedEntry] \cup {NoSave}]
    /\ issued \in SUBSET DcrIds
    /\ clock \in 0..MaxClock
    /\ serving \in BOOLEAN
    /\ excused \in SUBSET Ids

\* A new entry whose URIs are within the cap is a capped entry.
LEMMA NewEntryCapped ==
    ASSUME ClientInv, NEW kite \in BOOLEAN, NEW us \in SUBSET URIs,
           Cardinality(us) <= MaxRedirectURIs, NEW t \in Stamps
    PROVE  [kite |-> kite, uris |-> us, created |-> t] \in CappedEntry
<1>1. t \in 0..MaxClock
  BY ClientAssumption DEF ClientInv, Stamps
<1> QED
  BY <1>1 DEF CappedEntry, Entry

\* A URI added below the cap keeps the entry within it.
LEMMA AddedEntryCapped ==
    ASSUME NEW row \in CappedEntry, NEW u \in URIs,
           ~(Cardinality(row.uris) >= MaxRedirectURIs)
    PROVE  [row EXCEPT !.uris = @ \cup {u}] \in CappedEntry
<1>1. row \in Entry /\ row.uris \in SUBSET URIs
  BY DEF CappedEntry, Entry
<1>2. IsFiniteSet(row.uris) /\ Cardinality(row.uris) \in Nat
  BY <1>1, ClientAssumption, FS_Subset, FS_CardinalityType
<1>3. Cardinality(row.uris \cup {u}) <= Cardinality(row.uris) + 1
  <2>1. \/ Cardinality(row.uris \cup {u}) = Cardinality(row.uris)
        \/ Cardinality(row.uris \cup {u}) = Cardinality(row.uris) + 1
    BY <1>2, FS_AddElement
  <2> QED
    BY <1>2, <2>1
<1>4. Cardinality(row.uris \cup {u}) \in Nat
  BY <1>2, FS_AddElement, FS_CardinalityType
<1>5. Cardinality(row.uris \cup {u}) <= MaxRedirectURIs
  BY <1>2, <1>3, <1>4, ClientAssumption
<1>6. [row EXCEPT !.uris = @ \cup {u}] \in Entry
  BY <1>1 DEF Entry
<1>7. [row EXCEPT !.uris = @ \cup {u}].uris = row.uris \cup {u}
  BY <1>1 DEF Entry
<1> QED
  BY <1>5, <1>6, <1>7 DEF CappedEntry

\* Capture keeps the rows in flight capped.
LEMMA CaptureStep ==
    ASSUME ClientInv, NEW p \in Callers, NEW id \in Ids, NEW row \in CappedEntry,
           Capture(p, id, row)
    PROVE  /\ saving' \in [Callers -> [id : Ids, row : CappedEntry] \cup {NoSave}]
           /\ excused' \in SUBSET Ids
<1>1. [id |-> id, row |-> row] \in [id : Ids, row : CappedEntry]
  OBVIOUS
<1> QED
  BY <1>1 DEF Capture, ClientInv

\* Insert keeps the map capped, whichever client it evicts.
LEMMA InsertStep ==
    ASSUME ClientInv, NEW p \in Callers, NEW id \in Ids, NEW row \in CappedEntry,
           Insert(p, id, row)
    PROVE  /\ clients' \in [Ids -> CappedEntry \cup {NoEntry}]
           /\ saving' \in [Callers -> [id : Ids, row : CappedEntry] \cup {NoSave}]
           /\ excused' \in SUBSET Ids
<1>1. clients' \in [Ids -> CappedEntry \cup {NoEntry}]
  BY DEF Insert, ClientInv
<1>2. Capture(p, id, row)
  BY DEF Insert
<1> QED
  BY <1>1, <1>2, CaptureStep

-----------------------------------------------------------------------------

\* A singleton of URIs is within every cap.
LEMMA OneUri ==
    ASSUME NEW u \in URIs
    PROVE  {u} \in SUBSET URIs /\ Cardinality({u}) <= MaxRedirectURIs
BY FS_Singleton, ClientAssumption

\* Every step of the store keeps the invariant.
LEMMA ClientStep == ClientInv /\ [Next]_vars => ClientInv'
<1> SUFFICES ASSUME ClientInv, [Next]_vars PROVE ClientInv'
  OBVIOUS
<1>1. ASSUME NEW p \in Callers, NEW id \in DcrIds, NEW us \in SUBSET URIs,
             Register(p, id, us)
      PROVE  ClientInv'
  <2>1. PICK t \in Stamps : Insert(p, id, [kite |-> FALSE, uris |-> us, created |-> t])
    BY <1>1 DEF Register
  <2>2. [kite |-> FALSE, uris |-> us, created |-> t] \in CappedEntry
    BY <1>1, NewEntryCapped DEF Register
  <2>3. id \in Ids
    BY DEF Ids
  <2>4. /\ clients' \in [Ids -> CappedEntry \cup {NoEntry}]
        /\ saving' \in [Callers -> [id : Ids, row : CappedEntry] \cup {NoSave}]
        /\ excused' \in SUBSET Ids
    BY <2>1, <2>2, <2>3, InsertStep
  <2> QED
    BY <1>1, <2>4 DEF Register, ClientInv
<1>2. ASSUME NEW p \in Callers, NEW id \in Ids, NEW u \in URIs,
             RegisterKiteClient(p, id, {u})
      PROVE  ClientInv'
  <2>1. CASE id \in Known
    BY <1>2, <2>1 DEF RegisterKiteClient, ClientInv
  <2>2. CASE id \notin Known
    <3>1. PICK t \in Stamps :
              Insert(p, id, [kite |-> TRUE, uris |-> {u}, created |-> t])
      BY <1>2, <2>2 DEF RegisterKiteClient
    <3>2. [kite |-> TRUE, uris |-> {u}, created |-> t] \in CappedEntry
      BY OneUri, NewEntryCapped
    <3>3. /\ clients' \in [Ids -> CappedEntry \cup {NoEntry}]
          /\ saving' \in [Callers -> [id : Ids, row : CappedEntry] \cup {NoSave}]
          /\ excused' \in SUBSET Ids
      BY <3>1, <3>2, InsertStep
    <3> QED
      BY <1>2, <3>3 DEF RegisterKiteClient, ClientInv
  <2> QED
    BY <2>1, <2>2
<1>3. ASSUME NEW p \in Callers, NEW id \in Ids, NEW u \in URIs,
             AddRedirectURI(p, id, u)
      PROVE  ClientInv'
  <2>1. CASE UNCHANGED <<clients, saving, excused>>
    BY <1>3, <2>1 DEF AddRedirectURI, ClientInv
  <2>2. CASE /\ id \in Known
             /\ ~(Cardinality(clients[id].uris) >= MaxRedirectURIs)
             /\ u \notin clients[id].uris
    <3> DEFINE row == [clients[id] EXCEPT !.uris = @ \cup {u}]
    <3>1. clients[id] \in CappedEntry
      BY <2>2 DEF ClientInv, Known
    <3>2. row \in CappedEntry
      BY <2>2, <3>1, AddedEntryCapped
    <3>3. clients' = [clients EXCEPT ![id] = row] /\ Capture(p, id, row)
      BY <1>3, <2>2 DEF AddRedirectURI
    <3> HIDE DEF row
    <3>4. /\ saving' \in [Callers -> [id : Ids, row : CappedEntry] \cup {NoSave}]
          /\ excused' \in SUBSET Ids
      BY <3>2, <3>3, CaptureStep
    <3>5. clients' \in [Ids -> CappedEntry \cup {NoEntry}]
      BY <3>2, <3>3 DEF ClientInv
    <3> QED
      BY <1>3, <3>4, <3>5 DEF AddRedirectURI, ClientInv
  <2> QED
    BY <1>3, <2>1, <2>2 DEF AddRedirectURI
<1>4. ASSUME NEW p \in Callers, Save(p)
      PROVE  ClientInv'
  <2>1. saving[p] \in [id : Ids, row : CappedEntry]
    BY <1>4 DEF Save, ClientInv
  <2>2. saving[p].id \in Ids /\ saving[p].row \in CappedEntry
    BY <2>1
  <2>3. saving' \in [Callers -> [id : Ids, row : CappedEntry] \cup {NoSave}]
    BY <1>4 DEF Save, ClientInv
  <2>4. db' \in [Ids -> CappedEntry \cup {NoEntry}] /\ excused' \in SUBSET Ids
    BY <1>4, <2>2 DEF Save, ClientInv
  <2> QED
    BY <1>4, <2>3, <2>4 DEF Save, ClientInv
<1>5. CASE Crash
  BY <1>5 DEF Crash, ClientInv
<1>6. CASE LoadFromDB
  BY <1>6 DEF LoadFromDB, ClientInv
<1>7. CASE Tick
  BY <1>7, ClientAssumption DEF Tick, ClientInv
<1>8. CASE UNCHANGED vars
  BY <1>8 DEF vars, ClientInv
<1>9. issued \subseteq Ids /\ KiteKeys \subseteq Ids
  BY DEF ClientInv, Ids
<1> QED
  BY <1>1, <1>2, <1>3, <1>4, <1>5, <1>6, <1>7, <1>8, <1>9 DEF Next

\* The empty store is within its types and caps.
LEMMA InitTyped == Init => ClientInv
<1>1. 0 \in 0..MaxClock
  BY ClientAssumption
<1> QED
  BY <1>1 DEF Init, ClientInv

\* The invariant of the client store.
THEOREM ClientInvariant == Spec => []ClientInv
  BY InitTyped, ClientStep, PTL DEF Spec

\* ClientStore is type correct.
THEOREM ClientTypeCorrect == Spec => []TypeOK
<1>1. ClientInv => TypeOK
  BY DEF ClientInv, TypeOK, CappedEntry, Rows
<1> QED
  BY ClientInvariant, <1>1, PTL

\* No interleaving of requests, saves, crashes and reloads puts an eleventh
\* redirect URI (MaxRedirectURIs + 1) on a client or in its row.
THEOREM NeverPastUriCap == Spec => []UriCap
<1>1. ClientInv => UriCap
  <2> SUFFICES ASSUME ClientInv PROVE UriCap
    OBVIOUS
  <2>1. \A id \in Ids : WithinCap(clients[id]) /\ WithinCap(db[id])
    BY DEF ClientInv, CappedEntry, WithinCap
  <2>2. ASSUME NEW p \in Callers, saving[p] # NoSave
        PROVE  WithinCap(saving[p].row)
    <3>1. saving[p] \in [id : Ids, row : CappedEntry]
      BY <2>2 DEF ClientInv
    <3>2. saving[p].row \in CappedEntry
      BY <3>1
    <3> QED
      BY <3>2 DEF CappedEntry, WithinCap
  <2> QED
    BY <2>1, <2>2 DEF UriCap
<1> QED
  BY ClientInvariant, <1>1, PTL

-----------------------------------------------------------------------------
\* The saves outside the lock

\* A captured row is one more save in flight, for its client only.
LEMMA PendingAfterCapture ==
    ASSUME ClientInv, NEW p \in Callers, saving[p] = NoSave,
           NEW id \in Ids, NEW row \in CappedEntry, Capture(p, id, row)
    PROVE  /\ \A i \in Ids : PendingFor(i)' = IF i = id THEN PendingFor(id) \cup {p}
                                              ELSE PendingFor(i)
           /\ saving'[p].row = row
           /\ \A q \in Callers \ {p} : saving'[q] = saving[q]
<1>1. saving' = [saving EXCEPT ![p] = [id |-> id, row |-> row]]
  BY DEF Capture
<1>2. [id |-> id, row |-> row] # NoSave
  BY ClientAssumption DEF Rows, CappedEntry
<1>3. \A q \in Callers :
          saving'[q] = IF q = p THEN [id |-> id, row |-> row] ELSE saving[q]
  BY <1>1 DEF ClientInv
<1> QED
  BY <1>2, <1>3 DEF PendingFor

\* What a registration or an added URI does to the memory keeps the invariant:
\* the new entry of one client is captured, of the others one may be evicted.
LEMMA CaptureKeeps ==
    ASSUME ClientInv, SaveInv, serving, serving', NEW p \in Callers,
           saving[p] = NoSave, NEW id \in Ids, NEW row \in CappedEntry,
           Capture(p, id, row), db' = db,
           clients' \in [Ids -> CappedEntry \cup {NoEntry}],
           clients'[id] = row,
           \A i \in Ids \ {id} : clients'[i] \in {clients[i], NoEntry},
           id \in KiteKeys => row.kite,
           issued \subseteq issued', id \in DcrIds => id \in issued'
    PROVE  SaveInv'
<1>1. /\ \A i \in Ids : PendingFor(i)' = IF i = id THEN PendingFor(id) \cup {p}
                                         ELSE PendingFor(i)
      /\ saving'[p].row = row
      /\ \A q \in Callers \ {p} : saving'[q] = saving[q]
  BY PendingAfterCapture
<1>2. \A i \in Ids : p \notin PendingFor(i) /\ PendingFor(i) \subseteq Callers
  BY DEF PendingFor
<1>3. excused' = IF PendingFor(id) = {} THEN excused ELSE excused \cup {id}
  BY DEF Capture
<1>4. WriteThroughUnlessRaced'
  <2> SUFFICES ASSUME NEW i \in Known' \ excused', PendingFor(i)' = {}
               PROVE  db'[i] = clients'[i]
    BY DEF WriteThroughUnlessRaced
  <2>1. i \in Ids /\ i # id
    BY <1>1 DEF Known
  <2>2. i \in Known /\ clients'[i] = clients[i]
    BY <2>1 DEF Known
  <2> QED
    BY <1>1, <1>3, <2>1, <2>2 DEF SaveInv, WriteThroughUnlessRaced
<1>5. InFlightAgrees'
  <2> SUFFICES ASSUME NEW i \in Ids \ excused', NEW q \in PendingFor(i)'
               PROVE  /\ PendingFor(i)' = {q}
                      /\ i \in Known' => saving'[q].row = clients'[i]
    BY DEF InFlightAgrees
  <2>1. CASE i = id
    BY <1>1, <1>3, <2>1
  <2>2. CASE i # id
    <3>1. q \in PendingFor(i) /\ q # p /\ i \notin excused
      BY <1>1, <1>2, <1>3, <2>2
    <3>2. PendingFor(i) = {q} /\ (i \in Known => saving[q].row = clients[i])
      BY <3>1 DEF SaveInv, InFlightAgrees
    <3>3. i \in Known' => i \in Known /\ clients'[i] = clients[i]
      BY <2>2 DEF Known
    <3>4. saving'[q] = saving[q]
      BY <1>1, <1>2, <3>1
    <3> QED
      BY <1>1, <2>2, <3>2, <3>3, <3>4
  <2> QED
    BY <2>1, <2>2
<1>6. EmptyUntilServing'
  BY DEF EmptyUntilServing
<1>7. DrawnFirst'
  BY <1>1 DEF SaveInv, DrawnFirst, Ids
<1>8. KiteKeysAreKite'
  <2> SUFFICES ASSUME NEW k \in KiteKeys
               PROVE  /\ clients'[k] # NoEntry => clients'[k].kite
                      /\ db'[k] # NoEntry => db'[k].kite
                      /\ \A q \in PendingFor(k)' : saving'[q].row.kite
    BY DEF KiteKeysAreKite
  <2>1. k \in Ids
    BY DEF Ids
  <2>2. clients'[k] # NoEntry => clients'[k].kite
    BY <2>1 DEF SaveInv, KiteKeysAreKite
  <2>3. ASSUME NEW q \in PendingFor(k)' PROVE saving'[q].row.kite
    BY <1>1, <1>2, <2>1, <2>3 DEF SaveInv, KiteKeysAreKite
  <2> QED
    BY <2>2, <2>3 DEF SaveInv, KiteKeysAreKite
<1> QED
  BY <1>4, <1>5, <1>6, <1>7, <1>8 DEF SaveInv

\* Insert as CaptureKeeps needs it.
LEMMA InsertKeeps ==
    ASSUME ClientInv, SaveInv, serving, serving', NEW p \in Callers,
           saving[p] = NoSave, NEW id \in Ids, NEW row \in CappedEntry,
           Insert(p, id, row), db' = db, id \in KiteKeys => row.kite,
           issued \subseteq issued', id \in DcrIds => id \in issued'
    PROVE  SaveInv'
<1>1. Capture(p, id, row) /\ clients' \in [Ids -> CappedEntry \cup {NoEntry}]
  BY InsertStep DEF Insert
<1>2. clients'[id] = row /\ \A i \in Ids \ {id} : clients'[i] \in {clients[i], NoEntry}
  BY DEF Insert
<1> QED
  BY <1>1, <1>2, CaptureKeeps

\* Register saves a row nobody else is saving.
LEMMA RegisterSaves ==
    ASSUME ClientInv, SaveInv, NEW p \in Callers, NEW id \in DcrIds,
           NEW us \in SUBSET URIs, Register(p, id, us)
    PROVE  SaveInv'
<1>1. PICK t \in Stamps : Insert(p, id, [kite |-> FALSE, uris |-> us, created |-> t])
  BY DEF Register
<1>2. [kite |-> FALSE, uris |-> us, created |-> t] \in CappedEntry
  BY NewEntryCapped DEF Register
<1>3. id \in Ids /\ id \notin KiteKeys
  BY ClientAssumption DEF Ids
<1> QED
  BY <1>1, <1>2, <1>3, InsertKeeps DEF Register, Idle

\* RegisterKiteClient saves a row only for a client it has inserted.
LEMMA RegisterKiteSaves ==
    ASSUME ClientInv, SaveInv, NEW p \in Callers, NEW id \in KiteKeys \cup issued,
           NEW u \in URIs, RegisterKiteClient(p, id, {u})
    PROVE  SaveInv'
<1>1. CASE id \in Known
  BY <1>1 DEF RegisterKiteClient, Idle, SaveInv, WriteThroughUnlessRaced,
     InFlightAgrees, EmptyUntilServing, DrawnFirst, KiteKeysAreKite, Known, PendingFor
<1>2. CASE id \notin Known
  <2>1. PICK t \in Stamps : Insert(p, id, [kite |-> TRUE, uris |-> {u}, created |-> t])
    BY <1>2 DEF RegisterKiteClient
  <2>2. [kite |-> TRUE, uris |-> {u}, created |-> t] \in CappedEntry
    BY OneUri, NewEntryCapped
  <2>3. id \in Ids /\ (id \in DcrIds => id \in issued)
    BY ClientAssumption DEF Ids, ClientInv
  <2> QED
    BY <2>1, <2>2, <2>3, InsertKeeps DEF RegisterKiteClient, Idle
<1> QED
  BY <1>1, <1>2

\* AddRedirectURI captures the row it leaves in memory.
LEMMA AddRedirectSaves ==
    ASSUME ClientInv, SaveInv, NEW p \in Callers, NEW id \in KiteKeys \cup issued,
           NEW u \in URIs, AddRedirectURI(p, id, u)
    PROVE  SaveInv'
<1>1. CASE UNCHANGED <<clients, saving, excused>>
  BY <1>1 DEF AddRedirectURI, Idle, SaveInv, WriteThroughUnlessRaced,
     InFlightAgrees, EmptyUntilServing, DrawnFirst, KiteKeysAreKite, Known, PendingFor
<1>2. CASE /\ id \in Known
           /\ ~(Cardinality(clients[id].uris) >= MaxRedirectURIs)
           /\ u \notin clients[id].uris
  <2> DEFINE row == [clients[id] EXCEPT !.uris = @ \cup {u}]
  <2>1. clients[id] \in CappedEntry
    BY <1>2 DEF ClientInv, Known
  <2>2. row \in CappedEntry /\ row.kite = clients[id].kite
    BY <1>2, <2>1, AddedEntryCapped DEF CappedEntry, Entry
  <2>3. clients' = [clients EXCEPT ![id] = row] /\ Capture(p, id, row)
    BY <1>2 DEF AddRedirectURI
  <2>4. id \in Ids /\ (id \in DcrIds => id \in issued)
    BY ClientAssumption DEF Ids, ClientInv
  <2>5. id \in KiteKeys => clients[id].kite
    BY <1>2 DEF SaveInv, KiteKeysAreKite, Known
  <2> HIDE DEF row
  <2>6. /\ clients' \in [Ids -> CappedEntry \cup {NoEntry}] /\ clients'[id] = row
        /\ \A i \in Ids \ {id} : clients'[i] \in {clients[i], NoEntry}
    BY <2>2, <2>3, <2>4 DEF ClientInv
  <2> QED
    BY <2>2, <2>3, <2>4, <2>5, <2>6, CaptureKeeps DEF AddRedirectURI, Idle
<1> QED
  BY <1>1, <1>2 DEF AddRedirectURI

\* A save that succeeds writes what the memory says, as long as its client is
\* not excused; one that fails excuses it.
LEMMA SaveSaves ==
    ASSUME ClientInv, SaveInv, NEW p \in Callers, Save(p)
    PROVE  SaveInv'
<1> DEFINE id == saving[p].id
           row == saving[p].row
<1>1. id \in Ids /\ row \in CappedEntry /\ saving[p] # NoSave
  BY DEF Save, ClientInv
<1>2. \A q \in Callers : saving'[q] = IF q = p THEN NoSave ELSE saving[q]
  BY DEF Save, ClientInv
<1>3. \A i \in Ids : PendingFor(i)' = PendingFor(i) \ {p}
  BY <1>2 DEF PendingFor
<1>4. p \in PendingFor(id) /\ \A i \in Ids \ {id} : p \notin PendingFor(i)
  BY <1>1 DEF PendingFor
<1>5. \/ /\ excused' = excused
         /\ \A i \in Ids : db'[i] = IF i = id THEN row ELSE db[i]
      \/ excused' = excused \cup {id} /\ db' = db
  BY <1>1 DEF Save, ClientInv
<1>6. clients' = clients /\ issued' = issued /\ serving' = serving
  BY DEF Save
<1> HIDE DEF id, row
<1>7. WriteThroughUnlessRaced'
  <2> SUFFICES ASSUME NEW i \in Known' \ excused', PendingFor(i)' = {}
               PROVE  db'[i] = clients'[i]
    BY DEF WriteThroughUnlessRaced
  <2>1. i \in Known /\ i \in Ids /\ i \notin excused
    BY <1>5, <1>6 DEF Known
  <2>2. CASE i = id
    <3>1. row = clients[i]
      BY <1>4, <2>1, <2>2 DEF SaveInv, InFlightAgrees, id, row
    <3> QED
      BY <1>5, <1>6, <2>1, <2>2, <3>1
  <2>3. CASE i # id
    <3>1. PendingFor(i) = {}
      BY <1>3, <1>4, <2>1, <2>3
    <3> QED
      BY <1>5, <1>6, <2>1, <2>3, <3>1 DEF SaveInv, WriteThroughUnlessRaced
  <2> QED
    BY <2>2, <2>3
<1>8. InFlightAgrees'
  <2> SUFFICES ASSUME NEW i \in Ids \ excused', NEW q \in PendingFor(i)'
               PROVE  /\ PendingFor(i)' = {q}
                      /\ i \in Known' => saving'[q].row = clients'[i]
    BY DEF InFlightAgrees
  <2>1. q \in PendingFor(i) /\ q # p /\ i \notin excused /\ saving'[q] = saving[q]
    BY <1>2, <1>3, <1>5 DEF PendingFor
  <2>2. PendingFor(i) = {q} /\ (i \in Known => saving[q].row = clients[i])
    BY <2>1 DEF SaveInv, InFlightAgrees
  <2> QED
    BY <1>3, <1>6, <2>1, <2>2 DEF Known
<1>9. EmptyUntilServing'
  BY <1>2, <1>6 DEF SaveInv, EmptyUntilServing, Known
<1>10. DrawnFirst'
  <2> SUFFICES ASSUME NEW i \in DcrIds \ issued
               PROVE  clients'[i] = NoEntry /\ db'[i] = NoEntry /\ PendingFor(i)' = {}
    BY <1>6 DEF DrawnFirst
  <2>1. i \in Ids /\ clients[i] = NoEntry /\ db[i] = NoEntry /\ PendingFor(i) = {}
    BY DEF SaveInv, DrawnFirst, Ids
  <2> QED
    BY <1>3, <1>4, <1>5, <1>6, <2>1
<1>11. KiteKeysAreKite'
  <2> SUFFICES ASSUME NEW k \in KiteKeys
               PROVE  /\ clients'[k] # NoEntry => clients'[k].kite
                      /\ db'[k] # NoEntry => db'[k].kite
                      /\ \A q \in PendingFor(k)' : saving'[q].row.kite
    BY DEF KiteKeysAreKite
  <2>1. k \in Ids
    BY DEF Ids
  <2>2. /\ clients[k] # NoEntry => clients[k].kite
        /\ db[k] # NoEntry => db[k].kite
        /\ \A q \in PendingFor(k) : saving[q].row.kite
    BY DEF SaveInv, KiteKeysAreKite
  <2>3. k = id => row.kite
    BY <1>4, <2>2 DEF row
  <2>4. \A q \in PendingFor(k)' : q \in PendingFor(k) /\ saving'[q] = saving[q]
    BY <1>2, <1>3, <2>1 DEF PendingFor
  <2> QED
    BY <1>5, <1>6, <2>1, <2>2, <2>3, <2>4
<1> QED
  BY <1>7, <1>8, <1>9, <1>10, <1>11 DEF SaveInv

\* A crash loses the saves in flight together with the memory.
LEMMA CrashSaves == ASSUME ClientInv, SaveInv, Crash PROVE SaveInv'
<1>1. Known' = {} /\ \A i \in Ids : PendingFor(i)' = {}
  BY DEF Crash, Known, PendingFor
<1>2. WriteThroughUnlessRaced' /\ InFlightAgrees' /\ EmptyUntilServing'
  BY <1>1 DEF Crash, WriteThroughUnlessRaced, InFlightAgrees, EmptyUntilServing
<1>3. KiteKeys \subseteq Ids /\ DcrIds \subseteq Ids
  BY DEF Ids
<1>4. DrawnFirst' /\ KiteKeysAreKite'
  BY <1>1, <1>3 DEF Crash, SaveInv, DrawnFirst, KiteKeysAreKite
<1> QED
  BY <1>2, <1>4 DEF SaveInv

\* The reload finds an empty memory and fills it with the rows.
LEMMA LoadSaves == ASSUME ClientInv, SaveInv, LoadFromDB PROVE SaveInv'
<1>1. /\ \A i \in Ids : clients[i] = NoEntry /\ PendingFor(i) = {}
      /\ ~serving
  BY DEF LoadFromDB, SaveInv, EmptyUntilServing, Known, PendingFor
<1>2. \A i \in Ids : clients'[i] \in {db[i], NoEntry}
  BY <1>1 DEF LoadFromDB
<1>3. \A i \in Ids : PendingFor(i)' = {}
  BY <1>1 DEF LoadFromDB, PendingFor
<1>4. db' = db /\ issued' = issued /\ serving'
  BY DEF LoadFromDB
<1>5. WriteThroughUnlessRaced' /\ InFlightAgrees' /\ EmptyUntilServing'
  BY <1>2, <1>3, <1>4 DEF WriteThroughUnlessRaced, InFlightAgrees,
     EmptyUntilServing, Known
<1>6. KiteKeys \subseteq Ids /\ DcrIds \subseteq Ids
  BY DEF Ids
<1>7. DrawnFirst' /\ KiteKeysAreKite'
  BY <1>2, <1>3, <1>4, <1>6 DEF SaveInv, DrawnFirst, KiteKeysAreKite
<1> QED
  BY <1>5, <1>7 DEF SaveInv

\* No step of the store breaks the agreement.
LEMMA SaveStep == ClientInv /\ SaveInv /\ [Next]_vars => SaveInv'
<1> SUFFICES ASSUME ClientInv, SaveInv, [Next]_vars PROVE SaveInv'
  OBVIOUS
<1>1. CASE \E p \in Callers, id \in DcrIds, us \in SUBSET URIs : Register(p, id, us)
  BY <1>1, RegisterSaves
<1>2. CASE \E p \in Callers, id \in KiteKeys \cup issued, u \in URIs :
               RegisterKiteClient(p, id, {u}) \/ AddRedirectURI(p, id, u)
  BY <1>2, RegisterKiteSaves, AddRedirectSaves
<1>3. CASE \E p \in Callers : Save(p)
  BY <1>3, SaveSaves
<1>4. CASE Crash
  BY <1>4, CrashSaves
<1>5. CASE LoadFromDB
  BY <1>5, LoadSaves
<1>6. CASE Tick \/ UNCHANGED vars
  BY <1>6 DEF Tick, vars, SaveInv, WriteThroughUnlessRaced, InFlightAgrees,
     EmptyUntilServing, DrawnFirst, KiteKeysAreKite, Known, PendingFor
<1> QED
  BY <1>1, <1>2, <1>3, <1>4, <1>5, <1>6 DEF Next

\* With the types, in every state: the row of a client that is neither excused
\* nor being saved agrees with the memory, and why (SaveInv).
THEOREM SaveInvariant == Spec => [](ClientInv /\ SaveInv)
<1>1. Init => SaveInv
  <2> SUFFICES ASSUME Init PROVE SaveInv
    OBVIOUS
  <2>1. Known = {} /\ \A i \in Ids : PendingFor(i) = {}
    BY DEF Init, Known, PendingFor
  <2>2. KiteKeys \subseteq Ids /\ DcrIds \subseteq Ids
    BY DEF Ids
  <2> QED
    BY <2>1, <2>2 DEF Init, SaveInv, WriteThroughUnlessRaced, InFlightAgrees,
       EmptyUntilServing, DrawnFirst, KiteKeysAreKite
<1> QED
  BY <1>1, ClientInvariant, SaveStep, PTL DEF Spec

\* SetPersister's write-through holds for every client whose saves succeeded
\* and never overlapped, for any number of clients, URIs and requests.
THEOREM WritesThroughUnlessRaced == Spec => []WriteThroughUnlessRaced
<1>1. SaveInv => WriteThroughUnlessRaced
  BY DEF SaveInv
<1> QED
  BY <1>1, SaveInvariant, PTL

-----------------------------------------------------------------------------
\* What a step may do to a registered client

\* The row of NoEntry is none: a new row makes its client known.
LEMMA RowIsKnown == ASSUME NEW row \in CappedEntry PROVE row # NoEntry
  BY ClientAssumption DEF CappedEntry

Stable ==
    \A id \in Known \cap Known' :
        /\ clients'[id].kite = clients[id].kite
        /\ clients[id].uris \subseteq clients'[id].uris

\* Whatever Insert does, it does not touch another client that stays.
LEMMA InsertStable ==
    ASSUME ClientInv, NEW p \in Callers, NEW id \in Ids \ Known,
           NEW row \in CappedEntry, Insert(p, id, row)
    PROVE  Stable
  BY DEF Insert, Stable, Known

\* No step of a serving process changes the kind of a client or takes its URIs.
LEMMA StepStable ==
    ASSUME ClientInv, SaveInv, [Next]_vars, serving, serving'
    PROVE  Stable
<1>1. ASSUME NEW p \in Callers, NEW id \in DcrIds, NEW us \in SUBSET URIs,
             Register(p, id, us)
      PROVE  Stable
  <2>1. PICK t \in Stamps : Insert(p, id, [kite |-> FALSE, uris |-> us, created |-> t])
    BY <1>1 DEF Register
  <2>2. [kite |-> FALSE, uris |-> us, created |-> t] \in CappedEntry
    BY <1>1, NewEntryCapped DEF Register
  <2>3. id \in Ids \ Known
    BY <1>1 DEF Register, SaveInv, DrawnFirst, Known, Ids
  <2> QED
    BY <2>1, <2>2, <2>3, InsertStable
<1>2. ASSUME NEW p \in Callers, NEW id \in Ids, NEW u \in URIs,
             RegisterKiteClient(p, id, {u})
      PROVE  Stable
  <2>1. CASE id \in Known
    BY <1>2, <2>1 DEF RegisterKiteClient, Stable
  <2>2. CASE id \notin Known
    <3>1. PICK t \in Stamps :
              Insert(p, id, [kite |-> TRUE, uris |-> {u}, created |-> t])
      BY <1>2, <2>2 DEF RegisterKiteClient
    <3>2. [kite |-> TRUE, uris |-> {u}, created |-> t] \in CappedEntry
      BY OneUri, NewEntryCapped
    <3> QED
      BY <2>2, <3>1, <3>2, InsertStable
  <2> QED
    BY <2>1, <2>2
<1>3. ASSUME NEW p \in Callers, NEW id \in Ids, NEW u \in URIs,
             AddRedirectURI(p, id, u)
      PROVE  Stable
  <2>1. CASE clients' = clients
    BY <2>1 DEF Stable
  <2>2. CASE /\ id \in Known
             /\ clients' = [clients EXCEPT ![id] =
                              [clients[id] EXCEPT !.uris = @ \cup {u}]]
    <3>1. clients[id] \in Entry
      BY <2>2 DEF ClientInv, CappedEntry, Known
    <3>2. /\ clients'[id].kite = clients[id].kite
          /\ clients'[id].uris = clients[id].uris \cup {u}
      BY <2>2, <3>1 DEF ClientInv, Entry
    <3>3. \A i \in Ids \ {id} : clients'[i] = clients[i]
      BY <2>2 DEF ClientInv
    <3> QED
      BY <3>2, <3>3 DEF Stable, Known
  <2> QED
    BY <1>3, <2>1, <2>2 DEF AddRedirectURI
<1>4. CASE clients' = clients
  BY <1>4 DEF Stable
<1>5. issued \subseteq Ids /\ KiteKeys \subseteq Ids
  BY DEF ClientInv, Ids
<1> QED
  BY <1>1, <1>2, <1>3, <1>4, <1>5 DEF Next, vars, Save, Crash, LoadFromDB, Tick

\* Of two racing first requests the second does not overwrite what the first
\* registered: kind and URIs of a registered client are not taken back.
THEOREM RegistrationsStable == Spec => RegistrationIsStable
<1>1. ClientInv /\ SaveInv /\ [Next]_vars =>
        [serving /\ serving' =>
           \A id \in Known \cap Known' :
               /\ clients'[id].kite = clients[id].kite
               /\ clients[id].uris \subseteq clients'[id].uris]_vars
  BY StepStable DEF Stable
<1> QED
  BY <1>1, SaveInvariant, PTL DEF Spec, RegistrationIsStable

-----------------------------------------------------------------------------
\* Evictions

EvictionOk ==
    LET gone == Known \ Known' IN
    /\ gone # {} => Cardinality(Known) >= MaxClients
    /\ \A id \in gone, o \in Known \cap Known' :
           clients[id].created <= clients[o].created
    /\ Cardinality(gone) <= 1
    /\ Cardinality(Known') > Cardinality(Known) => Cardinality(Known') <= MaxClients

\* The registered clients can be counted.
LEMMA KnownFinite ==
    ASSUME ClientInv
    PROVE  IsFiniteSet(Known) /\ Cardinality(Known) \in Nat
  BY ClientAssumption, FS_Subset, FS_CardinalityType DEF Known

\* A step that forgets nobody and adds nobody is no eviction.
LEMMA KnownStays ==
    ASSUME ClientInv, Known' = Known
    PROVE  EvictionOk
<1>1. Known \ Known' = {}
  OBVIOUS
<1> QED
  BY <1>1, KnownFinite, FS_EmptySet DEF EvictionOk

\* An insertion evicts one oldest client, and only from a full map.
LEMMA InsertEvicts ==
    ASSUME ClientInv, NEW p \in Callers, NEW id \in Ids,
           NEW row \in CappedEntry, Insert(p, id, row)
    PROVE  EvictionOk
<1>1. row # NoEntry
  BY RowIsKnown
<1>2. IsFiniteSet(Known) /\ Cardinality(Known) \in Nat /\ Known \subseteq Ids
  BY KnownFinite DEF Known
<1>3. CASE Cardinality(Known) >= MaxClients
  <2>1. PICK o \in Oldest :
          clients' = [i \in Ids |-> IF i = id THEN row
                                    ELSE IF i \in {o} THEN NoEntry ELSE clients[i]]
    BY <1>3 DEF Insert
  <2>2. o \in Known /\ \A k \in Known : clients[o].created <= clients[k].created
    BY <2>1 DEF Oldest
  <2>3. Known' = (Known \ {o}) \cup {id}
    BY <1>1, <1>2, <2>1 DEF Known
  <2>4. Known \ Known' \subseteq {o}
    BY <2>3
  <2>5. Cardinality(Known \ Known') <= 1
    <3>1. IsFiniteSet({o}) /\ Cardinality({o}) = 1
      BY FS_Singleton
    <3> QED
      BY <2>4, <3>1, FS_Subset
  <2>6. /\ IsFiniteSet(Known \ {o})
        /\ Cardinality(Known \ {o}) = Cardinality(Known) - 1
    BY <1>2, <2>2, FS_RemoveElement
  <2>7. Cardinality(Known') <= Cardinality(Known)
    <3>1. \/ Cardinality(Known') = Cardinality(Known \ {o})
          \/ Cardinality(Known') = Cardinality(Known \ {o}) + 1
      BY <2>3, <2>6, FS_AddElement
    <3> QED
      BY <1>2, <2>6, <3>1
  <2>8. Cardinality(Known') \in Nat
    BY <2>3, <2>6, FS_AddElement, FS_CardinalityType
  <2>9. ~(Cardinality(Known') > Cardinality(Known))
    BY <1>2, <2>7, <2>8
  <2> QED
    BY <1>3, <2>2, <2>4, <2>5, <2>9 DEF EvictionOk
<1>4. CASE ~(Cardinality(Known) >= MaxClients)
  <2>1. clients' = [i \in Ids |-> IF i = id THEN row ELSE clients[i]]
    BY <1>4 DEF Insert
  <2>2. Known' = Known \cup {id}
    BY <1>1, <1>2, <2>1 DEF Known
  <2>3. Known \ Known' = {}
    BY <2>2
  <2>4. \/ Cardinality(Known') = Cardinality(Known)
        \/ Cardinality(Known') = Cardinality(Known) + 1
    BY <1>2, <2>2, FS_AddElement
  <2>5. Cardinality(Known') <= MaxClients
    BY <1>2, <1>4, <2>4, ClientAssumption
  <2> QED
    BY <2>3, <2>5, FS_EmptySet DEF EvictionOk
<1> QED
  BY <1>3, <1>4

\* Nothing else evicts.
LEMMA StepEvicts ==
    ASSUME ClientInv, [Next]_vars, serving, serving'
    PROVE  EvictionOk
<1>1. ASSUME NEW p \in Callers, NEW id \in DcrIds, NEW us \in SUBSET URIs,
             Register(p, id, us)
      PROVE  EvictionOk
  <2>1. PICK t \in Stamps : Insert(p, id, [kite |-> FALSE, uris |-> us, created |-> t])
    BY <1>1 DEF Register
  <2>2. [kite |-> FALSE, uris |-> us, created |-> t] \in CappedEntry
    BY <1>1, NewEntryCapped DEF Register
  <2> QED
    BY <2>1, <2>2, InsertEvicts DEF Ids
<1>2. ASSUME NEW p \in Callers, NEW id \in Ids, NEW u \in URIs,
             RegisterKiteClient(p, id, {u})
      PROVE  EvictionOk
  <2>1. CASE id \in Known
    BY <1>2, <2>1, KnownStays DEF RegisterKiteClient, Known
  <2>2. CASE id \notin Known
    <3>1. PICK t \in Stamps :
              Insert(p, id, [kite |-> TRUE, uris |-> {u}, created |-> t])
      BY <1>2, <2>2 DEF RegisterKiteClient
    <3>2. [kite |-> TRUE, uris |-> {u}, created |-> t] \in CappedEntry
      BY OneUri, NewEntryCapped
    <3> QED
      BY <3>1, <3>2, InsertEvicts
  <2> QED
    BY <2>1, <2>2
<1>3. ASSUME NEW p \in Callers, NEW id \in Ids, NEW u \in URIs,
             AddRedirectURI(p, id, u)
      PROVE  EvictionOk
  <2>1. CASE clients' = clients
    BY <2>1, KnownStays DEF Known
  <2>2. CASE /\ id \in Known
             /\ ~(Cardinality(clients[id].uris) >= MaxRedirectURIs)
             /\ clients' = [clients EXCEPT ![id] =
                              [clients[id] EXCEPT !.uris = @ \cup {u}]]
    <3> DEFINE row == [clients[id] EXCEPT !.uris = @ \cup {u}]
    <3>1. clients[id] \in CappedEntry
      BY <2>2 DEF ClientInv, Known
    <3>2. row \in CappedEntry
      BY <2>2, <3>1, AddedEntryCapped
    <3> HIDE DEF row
    <3>3. row # NoEntry
      BY <3>2, RowIsKnown
    <3>4. clients' = [clients EXCEPT ![id] = row]
      BY <2>2 DEF row
    <3>5. Known' = Known
      BY <2>2, <3>3, <3>4 DEF ClientInv, Known
    <3> QED
      BY <3>5, KnownStays
  <2> QED
    BY <1>3, <2>1, <2>2 DEF AddRedirectURI
<1>4. CASE clients' = clients
  BY <1>4, KnownStays DEF Known
<1>5. issued \subseteq Ids /\ KiteKeys \subseteq Ids
  BY DEF ClientInv, Ids
<1> QED
  BY <1>1, <1>2, <1>3, <1>4, <1>5 DEF Next, vars, Save, Crash, LoadFromDB, Tick

\* A client leaves a serving process only for room: one at a time, of a full
\* map, an oldest one; and the map does not grow past its cap.
THEOREM EvictsOnlyForRoom == Spec => EvictsForRoom
<1>1. ClientInv /\ [Next]_vars =>
        [serving /\ serving' =>
           LET gone == Known \ Known' IN
           /\ gone # {} => Cardinality(Known) >= MaxClients
           /\ \A id \in gone, o \in Known \cap Known' :
                  clients[id].created <= clients[o].created
           /\ Cardinality(gone) <= 1
           /\ Cardinality(Known') > Cardinality(Known) =>
                  Cardinality(Known') <= MaxClients]_vars
  BY StepEvicts DEF EvictionOk
<1> QED
  BY <1>1, ClientInvariant, PTL DEF Spec, EvictsForRoom

\* Where every client finds room, the eviction of a registration never comes.
LEMMA RoomForAll ==
    ASSUME ClientInv, SaveInv, [Next]_vars, serving, serving',
           Cardinality(Ids) <= MaxClients
    PROVE  Known \subseteq Known'
<1>1. EvictionOk
  BY StepEvicts
<1>2. CASE Known \ Known' = {}
  BY <1>2
<1>3. CASE Known \ Known' # {}
  <2>1. Cardinality(Known) >= MaxClients /\ Known \subseteq Ids
    BY <1>1, <1>3 DEF EvictionOk, Known
  <2>2. IsFiniteSet(Ids) /\ Cardinality(Ids) \in Nat
    BY ClientAssumption, FS_CardinalityType
  <2>3. Cardinality(Known) \in Nat
    BY KnownFinite
  <2>4. Cardinality(Known) <= Cardinality(Ids)
    BY <2>1, <2>2, FS_Subset
  <2>5. Cardinality(Known) = Cardinality(Ids)
    BY <2>1, <2>2, <2>3, <2>4, ClientAssumption
  <2>6. Known = Ids
    BY <2>1, <2>2, <2>5, FS_Subset
  <2>7. issued = DcrIds
    BY <2>6 DEF ClientInv, SaveInv, DrawnFirst, Known, Ids
  <2>8. CASE \E p \in Callers, id \in DcrIds, us \in SUBSET URIs : Register(p, id, us)
    BY <2>7, <2>8 DEF Register
  <2>9. ASSUME NEW p \in Callers, NEW id \in Ids, NEW u \in URIs,
               RegisterKiteClient(p, id, {u})
        PROVE  Known \subseteq Known'
    BY <2>6, <2>9 DEF RegisterKiteClient, Known
  <2>10. ASSUME NEW p \in Callers, NEW id \in Ids, NEW u \in URIs,
                AddRedirectURI(p, id, u)
         PROVE  Known \subseteq Known'
    <3>1. CASE clients' = clients
      BY <3>1 DEF Known
    <3>2. CASE /\ ~(Cardinality(clients[id].uris) >= MaxRedirectURIs)
               /\ clients' = [clients EXCEPT ![id] =
                                [clients[id] EXCEPT !.uris = @ \cup {u}]]
      <4>1. clients[id] \in CappedEntry
        BY <2>6 DEF ClientInv, Known
      <4>2. [clients[id] EXCEPT !.uris = @ \cup {u}] # NoEntry
        BY <3>2, <4>1, AddedEntryCapped, RowIsKnown
      <4> QED
        BY <3>2, <4>2 DEF ClientInv, Known
    <3> QED
      BY <2>10, <3>1, <3>2 DEF AddRedirectURI
  <2>11. CASE clients' = clients
    BY <2>11 DEF Known
  <2>12. issued \subseteq Ids /\ KiteKeys \subseteq Ids
    BY DEF ClientInv, Ids
  <2> QED
    BY <2>8, <2>9, <2>10, <2>11, <2>12 DEF Next, vars, Save, Crash, LoadFromDB, Tick
<1> QED
  BY <1>2, <1>3
=============================================================================
