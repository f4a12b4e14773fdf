------------------------------ MODULE KVStore ------------------------------
(***************************************************************************)
(* The in-memory TTL map of src/internal/kvstore/store.go (MemoryStore).   *)
(*                                                                         *)
(* Time is relative: an entry carries ttl = expiresAt - now, and a clock   *)
(* tick lowers every ttl by one.  The code tests expiry with               *)
(* time.Now().After(expiresAt), i.e. ttl < 0; every ttl below zero is      *)
(* clamped to -1 since no reader tells them apart.  This keeps the state   *)
(* space finite while time itself is unbounded.                            *)
(*                                                                         *)
(* The operators below (Entry, Expired, Live, ...) are used by the modules *)
(* that compose the services with the store; the variables and actions     *)
(* after them are the store exercised on its own by concurrent callers.    *)
(***************************************************************************)
EXTENDS Integers, FiniteSets
LOCAL INSTANCE FiniteSetsExt

CONSTANTS
    Keys,            \* store keys
    Vals,            \* opaque (non-counter) values callers may Set
    Procs,           \* concurrent callers (goroutines)
    TTLs,            \* ttl arguments callers pass to Set / Increment
    MaxCount,        \* counters saturate here (a named bound)
    CleanupEnabled,  \* NewMemoryStore(cleanupInterval > 0)
    Absent           \* model value: no entry under the key

ASSUME CleanupEnabled \in BOOLEAN
ASSUME TTLs \subseteq Nat /\ MaxCount \in Nat \ {0}

-----------------------------------------------------------------------------
(* Entries and their expiry, shared with the service modules.              *)

Entry(v, ttl) == [val |-> v, ttl |-> ttl]

\* time.Now().After(e.expiresAt)
Expired(e) == e.ttl < 0

\* Get(k) would return the entry: present and not expired
IsLive(e) == e # Absent /\ ~Expired(e)

\* one clock tick: expiresAt - now shrinks, clamped at -1
AgeTTL(t) == IF t < 0 THEN -1 ELSE t - 1

\* Increment (store.go 101-126): a missing, expired or non-counter entry
\* counts as 0; the sum is written back with a fresh ttl.
IncrementedEntry(e, delta, ttl) ==
    LET prior == IF e # Absent /\ ~Expired(e) /\ e.val \in Int THEN e.val ELSE 0
    IN  Entry(IF prior + delta > MaxCount THEN MaxCount ELSE prior + delta, ttl)

-----------------------------------------------------------------------------
(* The store on its own.                                                   *)

VARIABLES
    kv,          \* kv[k]: Entry or Absent (ms.data)
    pc,          \* pc[p]: "idle" or "evict" (between RUnlock and Lock in Get)
    evictKey,    \* the key a Get found expired and is about to delete
    sweeper,     \* "running" | "stopped" | "none": the cleanup goroutine
    stopClosed,  \* close(ms.stopCleanup) has happened
    crashed      \* a panic: close of a closed channel

vars == <<kv, pc, evictKey, sweeper, stopClosed, crashed>>

Counters == 0..MaxCount
Values == Vals \cup Counters

TypeOK ==
    /\ kv \in [Keys -> {Absent} \cup [val : Values, ttl : -1..Max(TTLs)]]
    /\ pc \in [Procs -> {"idle", "evict"}]
    /\ evictKey \in [Procs -> Keys \cup {Absent}]
    /\ sweeper \in {"running", "stopped", "none"}
    /\ stopClosed \in BOOLEAN
    /\ crashed \in BOOLEAN

\* NewMemoryStore (store.go 50-64)
Init ==
    /\ kv = [k \in Keys |-> Absent]
    /\ pc = [p \in Procs |-> "idle"]
    /\ evictKey = [p \in Procs |-> Absent]
    /\ sweeper = IF CleanupEnabled THEN "running" ELSE "none"
    /\ stopClosed = FALSE
    /\ crashed = FALSE

Idle(p) == pc[p] = "idle"

\* Get, first half (store.go 67-77): the entry is read under RLock and the
\* lock released; a present but expired entry sends the caller on to delete
\* it.  A miss or a live hit changes nothing.
GetRead(p, k) ==
    /\ Idle(p)
    /\ kv[k] # Absent /\ Expired(kv[k])
    /\ pc' = [pc EXCEPT ![p] = "evict"]
    /\ evictKey' = [evictKey EXCEPT ![p] = k]
    /\ UNCHANGED <<kv, sweeper, stopClosed, crashed>>

\* Get, second half (store.go 78-81): takes the write lock and deletes the
\* key, whatever it holds by now.
GetEvict(p) ==
    /\ pc[p] = "evict"
    /\ kv' = [kv EXCEPT ![evictKey[p]] = Absent]
    /\ pc' = [pc EXCEPT ![p] = "idle"]
    /\ evictKey' = [evictKey EXCEPT ![p] = Absent]
    /\ UNCHANGED <<sweeper, stopClosed, crashed>>

\* Mutant of Set: expiresAt computed one tick late.
SetLateExpiry(p, k, v, ttl) ==
    /\ Idle(p)
    /\ kv' = [kv EXCEPT ![k] = Entry(v, ttl + 1)]
    /\ UNCHANGED <<pc, evictKey, sweeper, stopClosed, crashed>>

\* Set (store.go 88-98)
Set(p, k, v, ttl) ==
    /\ Idle(p)
    /\ kv' = [kv EXCEPT ![k] = Entry(v, ttl)]
    /\ UNCHANGED <<pc, evictKey, sweeper, stopClosed, crashed>>

\* Increment (store.go 101-126), one step under the write lock
Increment(p, k, ttl) ==
    /\ Idle(p)
    /\ kv' = [kv EXCEPT ![k] = IncrementedEntry(kv[k], 1, ttl)]
    /\ UNCHANGED <<pc, evictKey, sweeper, stopClosed, crashed>>

\* Delete (store.go 129-135)
Delete(p, k) ==
    /\ Idle(p)
    /\ kv' = [kv EXCEPT ![k] = Absent]
    /\ UNCHANGED <<pc, evictKey, sweeper, stopClosed, crashed>>

\* Clear (store.go 138-144)
Clear(p) ==
    /\ Idle(p)
    /\ kv' = [k \in Keys |-> Absent]
    /\ UNCHANGED <<pc, evictKey, sweeper, stopClosed, crashed>>

\* Mutant of Sweep: the expiry comparison reversed, so the live entries
\* are dropped and the expired ones kept.
SweepReversed ==
    /\ sweeper = "running"
    /\ \E k \in Keys : kv[k] # Absent /\ Expired(kv[k])
    /\ kv' = [k \in Keys |-> IF kv[k] # Absent /\ ~Expired(kv[k]) THEN Absent ELSE kv[k]]
    /\ UNCHANGED <<pc, evictKey, sweeper, stopClosed, crashed>>

\* cleanupExpired on a ticker fire (store.go 164-165, 175-185)
Sweep ==
    /\ sweeper = "running"
    /\ \E k \in Keys : kv[k] # Absent /\ Expired(kv[k])
    /\ kv' = [k \in Keys |-> IF kv[k] # Absent /\ Expired(kv[k]) THEN Absent ELSE kv[k]]
    /\ UNCHANGED <<pc, evictKey, sweeper, stopClosed, crashed>>

\* the select picks the closed stopCleanup channel (store.go 166-168)
SweeperExit ==
    /\ sweeper = "running" /\ stopClosed
    /\ sweeper' = "stopped"
    /\ UNCHANGED <<kv, pc, evictKey, stopClosed, crashed>>

\* Close (store.go 188-195): closes stopCleanup when cleanup is enabled;
\* closing it a second time panics.
Close(p) ==
    /\ Idle(p) /\ ~crashed
    /\ CleanupEnabled
    /\ IF stopClosed
         THEN /\ crashed' = TRUE /\ UNCHANGED stopClosed
         ELSE /\ stopClosed' = TRUE /\ UNCHANGED crashed
    /\ UNCHANGED <<kv, pc, evictKey, sweeper>>

\* wall-clock time passes
Tick ==
    /\ kv' = [k \in Keys |-> IF kv[k] = Absent THEN Absent
                             ELSE [kv[k] EXCEPT !.ttl = AgeTTL(@)]]
    /\ UNCHANGED <<pc, evictKey, sweeper, stopClosed, crashed>>

Next ==
    \/ \E p \in Procs :
          \/ GetEvict(p)
          \/ Clear(p)
          \/ Close(p)
          \/ \E k \in Keys :
                \/ GetRead(p, k)
                \/ Delete(p, k)
                \/ \E ttl \in TTLs :
                      \/ Increment(p, k, ttl)
                      \/ \E v \in Vals : Set(p, k, v, ttl)
    \/ Sweep
    \/ SweeperExit
    \/ Tick

\* A caller in the middle of Get runs on (the Go scheduler is fair to
\* runnable goroutines), the ticker keeps firing, and time keeps passing.
Fairness ==
    /\ \A p \in Procs : WF_vars(GetEvict(p))
    /\ WF_vars(Sweep)
    /\ WF_vars(SweeperExit)
    /\ WF_vars(Tick)

Spec == Init /\ [][Next]_vars /\ Fairness

-----------------------------------------------------------------------------
(* Properties.                                                             *)

\* Expired entries do not pile up: while the store is not closed, an entry
\* that has expired is eventually removed or overwritten.  Only the cleanup
\* goroutine (cleanupExpired) guarantees this; lazy expiry in Get only
\* reclaims keys somebody reads again.
ExpiredEventuallyRemoved ==
    \A k \in Keys :
        (kv[k] # Absent /\ Expired(kv[k]) /\ ~stopClosed)
            ~> (kv[k] = Absent \/ ~Expired(kv[k]) \/ stopClosed)

\* Every operation of the store takes effect atomically: MemoryStore
\* implements the atomic TTL map AtomicKV, whose view of the data hides
\* expired entries and whose Get never changes the data.
AbstractView == [k \in Keys |-> IF IsLive(kv[k]) THEN kv[k] ELSE Absent]
AbstractCaller == [p \in Procs |-> IF pc[p] = "evict" THEN "get" ELSE "idle"]
Atomic == INSTANCE AtomicKV WITH store <- AbstractView, caller <- AbstractCaller
AtomicRefinement == Atomic!Spec

=============================================================================
