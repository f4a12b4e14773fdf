------------------------------ MODULE AtomicKV ------------------------------
(***************************************************************************)
(* What the Store interface of src/internal/kvstore/store.go promises      *)
(* (spec 4.1): a TTL map whose operations are linearizable.  Expired       *)
(* entries are invisible, Get never changes the map, and Set, Increment,   *)
(* Delete and Clear each take effect in one step.  A Get is begun and      *)
(* ended by its caller; in between, other callers run.                     *)
(***************************************************************************)
EXTENDS Integers

CONSTANTS Keys, Vals, Procs, TTLs, MaxCount, Absent

VARIABLES
    store,   \* store[k]: [val, ttl] with ttl >= 0, or Absent
    caller   \* caller[p]: "idle" or "get" (inside a Get)

avars == <<store, caller>>

Fresh(v, ttl) == [val |-> v, ttl |-> ttl]

Bumped(k, ttl) ==
    LET prior == IF store[k] # Absent /\ store[k].val \in Int THEN store[k].val ELSE 0
    IN  Fresh(IF prior + 1 > MaxCount THEN MaxCount ELSE prior + 1, ttl)

AInit ==
    /\ store = [k \in Keys |-> Absent]
    /\ caller = [p \in Procs |-> "idle"]

BeginGet(p) ==
    /\ caller[p] = "idle"
    /\ caller' = [caller EXCEPT ![p] = "get"]
    /\ UNCHANGED store

EndGet(p) ==
    /\ caller[p] = "get"
    /\ caller' = [caller EXCEPT ![p] = "idle"]
    /\ UNCHANGED store

Write(p, k, v, ttl) ==
    /\ caller[p] = "idle"
    /\ store' = [store EXCEPT ![k] = Fresh(v, ttl)]
    /\ UNCHANGED caller

Bump(p, k, ttl) ==
    /\ caller[p] = "idle"
    /\ store' = [store EXCEPT ![k] = Bumped(k, ttl)]
    /\ UNCHANGED caller

Remove(p, k) ==
    /\ caller[p] = "idle"
    /\ store' = [store EXCEPT ![k] = Absent]
    /\ UNCHANGED caller

RemoveAll(p) ==
    /\ caller[p] = "idle"
    /\ store' = [k \in Keys |-> Absent]
    /\ UNCHANGED caller

\* time passes: an entry whose remaining ttl is 0 expires and disappears
Elapse ==
    /\ store' = [k \in Keys |-> IF store[k] = Absent \/ store[k].ttl = 0 THEN Absent
                                ELSE [store[k] EXCEPT !.ttl = @ - 1]]
    /\ UNCHANGED caller

ANext ==
    \/ Elapse
    \/ \E p \in Procs :
          \/ BeginGet(p) \/ EndGet(p) \/ RemoveAll(p)
          \/ \E k \in Keys :
                \/ Remove(p, k)
                \/ \E ttl \in TTLs : Bump(p, k, ttl) \/ \E v \in Vals : Write(p, k, v, ttl)

Spec == AInit /\ [][ANext]_avars

=============================================================================
