------------------------ MODULE AuthCodeStoreProofs ------------------------
(***************************************************************************)
(* For every capacity, lifetime and number of codes: the types, the        *)
(* capacity and the one-time use of the authorization-code store, and that *)
(* the store implements OneTimeCodes.                                      *)
(***************************************************************************)
EXTENDS AuthCodeStore, FiniteSetTheorems, TLAPS

\* The stored codes are some of the finitely many codes, so they can be counted.
LEMMA StoredFinite ==
    /\ IsFiniteSet(Stored)
    /\ Cardinality(Stored) \in Nat
<1>1. Stored \subseteq Codes
  BY DEF Stored
<1> QED
  BY <1>1, FS_Subset, FS_CardinalityType, StoreAssumption

\* A step that stores nothing new keeps the number of codes below the capacity.
LEMMA FewerStored ==
    ASSUME Capacity, Stored' \subseteq Stored
    PROVE  Capacity'
<1>1. Cardinality(Stored') <= Cardinality(Stored)
  BY StoredFinite, FS_Subset
<1>2. Cardinality(Stored') \in Nat
  BY StoredFinite, FS_Subset, FS_CardinalityType
<1> QED
  BY <1>1, <1>2, StoredFinite, StoreAssumption DEF Capacity

\* Generate stores exactly the code it drew; Consume removes exactly its code;
\* no other step stores anything.
LEMMA StoredAfter ==
    ASSUME TypeOK
    PROVE  /\ \A c \in Codes, e \in Entries, life \in Life :
                 Generate(c, e, life) => Stored' = Stored \cup {c}
           /\ \A c \in Codes : Consume(c) => Stored' = Stored \ {c}
           /\ Sweep => Stored' = {c \in Stored : ~Expired(c)}
           /\ Restart => Stored' = {}
           /\ UNCHANGED entries => Stored' = Stored
<1>1. ASSUME NEW c \in Codes, NEW e \in Entries, NEW life \in Life,
             Generate(c, e, life)
      PROVE  Stored' = Stored \cup {c}
  BY <1>1, StoreAssumption DEF Generate, Stored, TypeOK
<1>2. ASSUME NEW c \in Codes, Consume(c)
      PROVE  Stored' = Stored \ {c}
  BY <1>2 DEF Consume, Stored, TypeOK
<1>3. Sweep => Stored' = {c \in Stored : ~Expired(c)}
  BY DEF Sweep, Stored, Expired
<1>4. Restart => Stored' = {}
  BY DEF Restart, Stored
<1>5. UNCHANGED entries => Stored' = Stored
  BY DEF Stored
<1> QED
  BY <1>1, <1>2, <1>3, <1>4, <1>5

-----------------------------------------------------------------------------

\* An empty store satisfies the invariant.
LEMMA InitInv == Init => StoreInv
<1> SUFFICES ASSUME Init PROVE StoreInv
  OBVIOUS
<1>1. TypeOK
  <2>1. left \in [Codes -> Life] /\ ticker \in 1..CleanupPeriod
    BY StoreAssumption DEF Init, Life
  <2> QED
    BY <2>1 DEF Init, TypeOK
<1>2. Stored = {}
  BY DEF Init, Stored
<1>3. Capacity
  BY <1>2, FS_EmptySet, StoreAssumption DEF Capacity
<1>4. SpentStaysSpent /\ StoredWereDrawn
  BY <1>2 DEF Init, SpentStaysSpent, StoredWereDrawn
<1> QED
  BY <1>1, <1>3, <1>4 DEF StoreInv

\* Every step keeps the types.
LEMMA TypeStep == TypeOK /\ [Next]_vars => TypeOK'
<1> SUFFICES ASSUME TypeOK, [Next]_vars PROVE TypeOK'
  OBVIOUS
<1> USE StoreAssumption DEF TypeOK, Life
<1>1. ASSUME NEW c \in Codes, NEW e \in Entries, NEW life \in Life,
             Generate(c, e, life)
      PROVE  TypeOK'
  BY <1>1 DEF Generate, timerVars
<1>2. ASSUME NEW c \in Codes, Consume(c)
      PROVE  TypeOK'
  BY <1>2 DEF Consume, timerVars
<1>3. CASE Sweep
  BY <1>3 DEF Sweep
<1>4. CASE Advance
  <2>1. left' \in [Codes -> Life]
    BY <1>4 DEF Advance
  <2>2. ticker' \in 1..CleanupPeriod
    BY <1>4 DEF Advance
  <2> QED
    BY <1>4, <2>1, <2>2 DEF Advance
<1>5. CASE Close
  BY <1>5 DEF Close
<1>6. CASE CleanupExit
  BY <1>6 DEF CleanupExit
<1>7. CASE Restart
  <2>1. left' \in [Codes -> Life] /\ ticker' \in 1..CleanupPeriod
    BY <1>7 DEF Restart
  <2> QED
    BY <1>7, <2>1 DEF Restart
<1>8. CASE UNCHANGED vars
  BY <1>8 DEF vars, timerVars
<1> QED
  BY <1>1, <1>2, <1>3, <1>4, <1>5, <1>6, <1>7, <1>8 DEF Next

\* Every step keeps the capacity and the two facts about spent codes.
LEMMA StoreStep == StoreInv /\ [Next]_vars => StoreInv'
<1> SUFFICES ASSUME StoreInv, [Next]_vars PROVE StoreInv'
  OBVIOUS
<1>t. TypeOK /\ TypeOK'
  BY TypeStep DEF StoreInv
<1>1. ASSUME NEW c \in Codes, NEW e \in Entries, NEW life \in Life,
             Generate(c, e, life)
      PROVE  StoreInv'
  <2>1. Stored' = Stored \cup {c} /\ drawn' = drawn \cup {c} /\ redeemed' = redeemed
    BY <1>1, <1>t, StoredAfter DEF Generate
  <2>2. c \notin drawn /\ Cardinality(Stored) < MaxAuthCodes
    BY <1>1, StoredFinite, StoreAssumption DEF Generate, Full
  <2>3. Capacity'
    <3>1. \/ Cardinality(Stored \cup {c}) = Cardinality(Stored) + 1
          \/ Cardinality(Stored \cup {c}) = Cardinality(Stored)
      BY StoredFinite, FS_AddElement
    <3> QED
      BY <3>1, <2>1, <2>2, StoredFinite, StoreAssumption DEF Capacity
  <2> QED
    BY <1>t, <2>1, <2>2, <2>3 DEF StoreInv, SpentStaysSpent, StoredWereDrawn
<1>2. ASSUME NEW c \in Codes, Consume(c)
      PROVE  StoreInv'
  <2>1. Stored' = Stored \ {c} /\ drawn' = drawn
    BY <1>2, <1>t, StoredAfter DEF Consume
  <2>2. redeemed' \subseteq redeemed \cup ({c} \cap Stored)
    BY <1>2 DEF Consume, Redeemable
  <2>3. Capacity'
    BY <2>1, FewerStored DEF StoreInv
  <2> QED
    BY <1>t, <2>1, <2>2, <2>3 DEF StoreInv, SpentStaysSpent, StoredWereDrawn
<1>3. ASSUME Stored' \subseteq Stored, UNCHANGED <<drawn, redeemed>>
      PROVE  StoreInv'
  <2>1. Capacity'
    BY <1>3, FewerStored DEF StoreInv
  <2> QED
    BY <1>t, <1>3, <2>1 DEF StoreInv, SpentStaysSpent, StoredWereDrawn
<1>4. CASE Sweep
  <2>1. Stored' \subseteq Stored
    BY <1>4, <1>t, StoredAfter
  <2> QED
    BY <1>3, <1>4, <2>1 DEF Sweep
<1>5. CASE Restart
  <2>1. Stored' \subseteq Stored
    BY <1>5, <1>t, StoredAfter
  <2> QED
    BY <1>3, <1>5, <2>1 DEF Restart
<1>6. CASE Advance \/ Close \/ CleanupExit
  BY <1>3, <1>6, <1>t, StoredAfter DEF Advance, Close, CleanupExit
<1>7. CASE UNCHANGED vars
  BY <1>3, <1>7, <1>t, StoredAfter DEF vars
<1> QED
  BY <1>1, <1>2, <1>4, <1>5, <1>6, <1>7 DEF Next

\* The store keeps its types, its capacity, and never holds a code it has
\* honoured or could draw again, whatever callers, clock and sweeper do.
THEOREM StoreInvariant == Spec => []StoreInv
<1> QED
  BY InitInv, StoreStep, PTL DEF Spec

\* AuthCodeStore is type correct.
THEOREM TypeCorrect == Spec => []TypeOK
<1>1. StoreInv => TypeOK
  BY DEF StoreInv
<1> QED
  BY StoreInvariant, <1>1, PTL

\* The map never outgrows maxAuthCodes.
THEOREM NeverOverCapacity == Spec => []Capacity
<1>1. StoreInv => Capacity
  BY DEF StoreInv
<1> QED
  BY StoreInvariant, <1>1, PTL

\* A code that Consume honoured is never honoured again.
THEOREM OneTimeUse == Spec => []SpentStaysSpent
<1>1. StoreInv => SpentStaysSpent
  BY DEF StoreInv
<1> QED
  BY StoreInvariant, <1>1, PTL
-----------------------------------------------------------------------------

\* How the holder of a code sees each step of the store.
LEMMA StepKeepsPromise == StoreInv /\ [Next]_vars => [Promise!Next]_Status
<1> SUFFICES ASSUME StoreInv, [Next]_vars PROVE [Promise!Next]_Status
  OBVIOUS
<1>t. TypeOK
  BY DEF StoreInv
<1>1. ASSUME NEW c \in Codes, NEW e \in Entries, NEW life \in Life,
             Generate(c, e, life)
      PROVE  Promise!Next
  <2>1. Status[c] = "unissued" /\ Status'[c] \in {"live", "lapsed"}
    BY <1>1 DEF Generate, Status, Redeemable, StoreInv, StoredWereDrawn
  <2>2. \A d \in Codes \ {c} : Status'[d] = Status[d]
    BY <1>1, <1>t DEF Generate, Status, Redeemable, Stored, Expired, TypeOK
  <2>3. Status' = [Status EXCEPT ![c] = Status'[c]]
    BY <2>1, <2>2 DEF Status
  <2>4. Promise!Issue(c)
    BY <2>1, <2>3 DEF Promise!Issue
  <2> QED
    BY <2>4 DEF Promise!Next
<1>2. ASSUME NEW c \in Codes, Consume(c)
      PROVE  [Promise!Next]_Status
  <2>1. \A d \in Codes \ {c} : Status'[d] = Status[d]
    BY <1>2, <1>t DEF Consume, Status, Redeemable, Stored, Expired, TypeOK
  <2>2. CASE Redeemable(c)
    <3>1. Status[c] = "live" /\ Status'[c] = "redeemed"
      BY <1>2, <2>2 DEF Consume, Status, Redeemable, StoreInv,
         SpentStaysSpent, StoredWereDrawn
    <3>2. Status' = [Status EXCEPT ![c] = "redeemed"]
      BY <2>1, <3>1 DEF Status
    <3>3. Promise!Redeem(c)
      BY <3>1, <3>2 DEF Promise!Redeem
    <3> QED
      BY <3>3 DEF Promise!Next
  <2>3. CASE ~Redeemable(c)
    <3>1. Status'[c] = Status[c]
      BY <1>2, <1>t, <2>3 DEF Consume, Status, Redeemable, Stored, Expired, TypeOK
    <3> QED
      BY <2>1, <3>1 DEF Status
  <2> QED
    BY <2>2, <2>3
<1>3. ASSUME UNCHANGED <<drawn, redeemed>>,
             \A c \in Codes : Redeemable(c)' => Redeemable(c)
      PROVE  Promise!Next
  <2> DEFINE Lapsing == {c \in Codes : Status[c] = "live" /\ ~Redeemable(c)'}
  <2>1. Status' = [c \in Codes |-> IF c \in Lapsing THEN "lapsed" ELSE Status[c]]
    BY <1>3 DEF Status
  <2>2. Lapsing \in SUBSET {c \in Codes : Status[c] = "live"}
    OBVIOUS
  <2> HIDE DEF Lapsing
  <2>3. Promise!Lapse
    BY <2>1, <2>2 DEF Promise!Lapse
  <2> QED
    BY <2>3 DEF Promise!Next
<1>4. CASE Sweep
  BY <1>3, <1>4, <1>t DEF Sweep, Redeemable, Stored, Expired, TypeOK
<1>5. CASE Advance
  BY <1>3, <1>5, <1>t DEF Advance, Redeemable, Stored, Expired, TypeOK, Life
<1>6. CASE Restart
  BY <1>3, <1>6 DEF Restart, Redeemable, Stored
<1>7. CASE Close \/ CleanupExit \/ UNCHANGED vars
  <2>1. UNCHANGED <<entries, left, drawn, redeemed>>
    BY <1>7 DEF Close, CleanupExit, vars
  <2> QED
    BY <2>1 DEF Status, Redeemable, Stored, Expired
<1> QED
  BY <1>1, <1>2, <1>4, <1>5, <1>6, <1>7 DEF Next

\* The store implements OneTimeCodes, the promise the token endpoint relies on.
THEOREM KeepsPromise == Spec => ImplementsOneTimeCodes
<1>1. Init => Promise!Init
  BY DEF Init, Promise!Init, Status
<1> QED
  BY <1>1, StepKeepsPromise, StoreInvariant, PTL
     DEF Spec, ImplementsOneTimeCodes, Promise!Spec
=============================================================================
