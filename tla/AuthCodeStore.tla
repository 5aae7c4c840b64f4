---------------------------- MODULE AuthCodeStore ----------------------------
(***************************************************************************)
(* The in-memory store of OAuth authorization codes (stores.go).           *)
(*                                                                         *)
(* Every operation of the store is one critical section of s.mu, hence one *)
(* action.  What happens outside the lock is a parameter: Generate reads   *)
(* the clock before it takes the lock, so the lifetime left to the code    *)
(* when it enters the map (life) is anything up to TTL, expired included.  *)
(*                                                                         *)
(* Time is relative: left[c] is the time to ExpiresAt in units, -1 once    *)
(* time.Now().After(ExpiresAt).  So time is unbounded and the state is not.*)
(***************************************************************************)
EXTENDS Integers, FiniteSets

CONSTANTS
    Codes,         \* the values randomHex(32) may return
    Entries,       \* what an AuthCodeEntry carries, its deadline apart
    NoEntry,       \* the map has no such key
    MaxAuthCodes,  \* maxAuthCodes
    TTL,           \* the 10 minutes a code is valid, in units of time
    CleanupPeriod  \* the 5 minutes between two sweeps, in units of time

ASSUME StoreAssumption ==
    /\ IsFiniteSet(Codes)
    /\ NoEntry \notin Entries
    /\ MaxAuthCodes \in Nat \ {0}
    /\ TTL \in Nat
    /\ CleanupPeriod \in Nat \ {0}

VARIABLES
    entries,    \* s.entries
    left,       \* time to entries[c].ExpiresAt
    drawn,      \* history: the codes randomHex has returned
    redeemed,   \* history: the codes Consume has answered with (entry, true)
    ticker,     \* time to the next tick of the cleanup ticker
    tickReady,  \* a tick waits in ticker.C (a channel of capacity one)
    done,       \* s.done is closed
    sweeping    \* the cleanup goroutine is running

timerVars == <<ticker, tickReady, done, sweeping>>
vars == <<entries, left, drawn, redeemed, timerVars>>

Life == -1..TTL

Stored == {c \in Codes : entries[c] # NoEntry}

\* Mistake: the capacity test is off by one.
FullLate == Cardinality(Stored) > MaxAuthCodes

Full == Cardinality(Stored) >= MaxAuthCodes

Expired(c) == left[c] < 0

\* The codes Consume would honour now.
Redeemable(c) == c \in Stored /\ ~Expired(c)

Init ==
    /\ entries = [c \in Codes |-> NoEntry]
    /\ left = [c \in Codes |-> -1]
    /\ drawn = {}
    /\ redeemed = {}
    /\ ticker = CleanupPeriod
    /\ tickReady = FALSE
    /\ done = FALSE
    /\ sweeping = TRUE

\* Generate stores e under a fresh random code; when the store is Full it
\* answers ErrAuthCodeStoreFull and changes nothing.  Close does not stop it.
Generate(c, e, life) ==
    /\ c \notin drawn
    /\ ~Full
    /\ entries' = [entries EXCEPT ![c] = e]
    /\ left' = [left EXCEPT ![c] = life]
    /\ drawn' = drawn \cup {c}
    /\ UNCHANGED <<redeemed, timerVars>>

\* Mistake: a code that is honoured stays in the map.
ConsumeKeeps(c) ==
    /\ redeemed' = IF Redeemable(c) THEN redeemed \cup {c} ELSE redeemed
    /\ UNCHANGED <<entries, left, drawn, timerVars>>

\* Mistake: the deadline is not looked at.
ConsumeLate(c) ==
    /\ redeemed' = IF c \in Stored THEN redeemed \cup {c} ELSE redeemed
    /\ entries' = [entries EXCEPT ![c] = NoEntry]
    /\ left' = [left EXCEPT ![c] = -1]
    /\ UNCHANGED <<drawn, timerVars>>

\* Consume deletes the code whether or not it honours it.
Consume(c) ==
    /\ redeemed' = IF Redeemable(c) THEN redeemed \cup {c} ELSE redeemed
    /\ entries' = [entries EXCEPT ![c] = NoEntry]
    /\ left' = [left EXCEPT ![c] = -1]
    /\ UNCHANGED <<drawn, timerVars>>

\* Mistake: the comparison is the wrong way round, dead codes stay.
SweepLive ==
    /\ sweeping
    /\ tickReady
    /\ tickReady' = FALSE
    /\ entries' = [c \in Codes |-> IF Expired(c) THEN entries[c] ELSE NoEntry]
    /\ UNCHANGED <<left, drawn, redeemed, ticker, done, sweeping>>

\* The ticker branch of cleanup.
Sweep ==
    /\ sweeping
    /\ tickReady
    /\ tickReady' = FALSE
    /\ entries' = [c \in Codes |-> IF Expired(c) THEN NoEntry ELSE entries[c]]
    /\ UNCHANGED <<left, drawn, redeemed, ticker, done, sweeping>>

\* Mistake: a timer, which fires once, in the place of the ticker.
AdvanceOnce ==
    /\ left' = [c \in Codes |-> IF left[c] >= 0 THEN left[c] - 1 ELSE -1]
    /\ ticker' = IF ticker = 0 THEN 0 ELSE ticker - 1
    /\ tickReady' = (tickReady \/ ticker = 1)
    /\ UNCHANGED <<entries, drawn, redeemed, done, sweeping>>

\* One unit of time; a tick that finds the previous one unread is dropped.
Advance ==
    /\ left' = [c \in Codes |-> IF left[c] >= 0 THEN left[c] - 1 ELSE -1]
    /\ ticker' = IF ticker = 1 THEN CleanupPeriod ELSE ticker - 1
    /\ tickReady' = (tickReady \/ ticker = 1)
    /\ UNCHANGED <<entries, drawn, redeemed, done, sweeping>>

\* Close may be called again: sync.Once makes the second call empty.
Close ==
    /\ done' = TRUE
    /\ UNCHANGED <<entries, left, drawn, redeemed, ticker, tickReady, sweeping>>

\* The done branch of cleanup; select may still take a waiting tick before it.
CleanupExit ==
    /\ done
    /\ sweeping
    /\ sweeping' = FALSE
    /\ UNCHANGED <<entries, left, drawn, redeemed, ticker, tickReady, done>>

\* The process dies and NewAuthCodeStore starts again with an empty map.
Restart ==
    /\ entries' = [c \in Codes |-> NoEntry]
    /\ left' = [c \in Codes |-> -1]
    /\ ticker' = CleanupPeriod
    /\ tickReady' = FALSE
    /\ done' = FALSE
    /\ sweeping' = TRUE
    /\ UNCHANGED <<drawn, redeemed>>

Next ==
    \/ \E c \in Codes, e \in Entries, life \in Life : Generate(c, e, life)
    \/ \E c \in Codes : Consume(c)
    \/ Sweep
    \/ Advance
    \/ Close
    \/ CleanupExit
    \/ Restart

Spec == Init /\ [][Next]_vars

\* Time does not stop, and the Go scheduler eventually runs a goroutine whose
\* channel is ready.  Callers owe nothing.
FairSpec == Spec /\ WF_vars(Advance) /\ WF_vars(Sweep)

-----------------------------------------------------------------------------

TypeOK ==
    /\ entries \in [Codes -> Entries \cup {NoEntry}]
    /\ left \in [Codes -> Life]
    /\ drawn \in SUBSET Codes
    /\ redeemed \in SUBSET Codes
    /\ ticker \in 1..CleanupPeriod
    /\ tickReady \in BOOLEAN
    /\ done \in BOOLEAN
    /\ sweeping \in BOOLEAN

\* The map never holds more than maxAuthCodes codes: the capacity test of
\* Generate is made under the same lock as the insertion it guards.
Capacity == Cardinality(Stored) <= MaxAuthCodes

\* A code that was honoured once is in the map no more, whatever expiry,
\* sweeps and restarts came between: no second Consume can honour it.
SpentStaysSpent == redeemed \cap Stored = {}

\* Every stored code was drawn, so no later Generate can fall on it.
StoredWereDrawn == Stored \cup redeemed \subseteq drawn

\* The state of a code as its holder sees it.
Status ==
    [c \in Codes |->
        IF c \in redeemed THEN "redeemed"
        ELSE IF c \notin drawn THEN "unissued"
        ELSE IF Redeemable(c) THEN "live" ELSE "lapsed"]

Promise == INSTANCE OneTimeCodes WITH status <- Status

\* The store keeps the promise of OneTimeCodes: a code is honoured only while
\* it lives, once; nothing revives one that lapsed, was spent or swept away.
ImplementsOneTimeCodes == Promise!Spec

\* A store filled by logins nobody finished takes codes again by itself:
\* every code expires and a sweep finds it, as long as Close was not called.
CapacityRecovers == Full ~> (~Full \/ done)

\* The inductive invariant: SpentStaysSpent alone is not inductive, since only
\* StoredWereDrawn says that a freshly drawn code was never redeemed before.
StoreInv ==
    /\ TypeOK
    /\ Capacity
    /\ SpentStaysSpent
    /\ StoredWereDrawn
=============================================================================
