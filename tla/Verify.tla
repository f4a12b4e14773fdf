------------------------------- MODULE Verify -------------------------------
(***************************************************************************)
(* The legacy POST /api/v1/verify route: Server.verifyLicense              *)
(* (src/internal/api/handlers.go 78-142) with VerificationService's        *)
(* ValidateSignature, CheckRateLimit and VerifyLicense                     *)
(* (src/internal/core/service.go), over the MemoryStore, for one user,    *)
(* licence id and tool.                                                    *)
(*                                                                         *)
(* Store keys: "rate" is rate_limit:{user}, "usage" is                     *)
(* usage:{licenseID}:{toolID} and "result" is license:{licenseID}:{tool},  *)
(* the cached valid VerificationResult.  The signature verdict, including *)
(* its time window (module SignatureWindow), is a nondeterministic choice; *)
(* a rejected signature returns 401 before any store call, a step that     *)
(* changes nothing.  IsLicenseValid and GetLicenseMetadata are one step    *)
(* with any outcome: no store call lies between them.  Each other step is  *)
(* one store call; Get's lazy expiry is its own step, Evict.               *)
(***************************************************************************)
EXTENDS Integers, FiniteSets
LOCAL INSTANCE Functions

CONSTANTS
    Procs,        \* request goroutines
    Limit,        \* CheckRateLimit's limit (100 per minute)
    RateTTL,      \* the rate counter's ttl (1 minute)
    CacheTTL,     \* config CacheTTL: ttl of a cached result (300 s)
    UsageTTL,     \* the usage counter's ttl (24 hours)
    MaxCalls,     \* metadata.MaxCalls (1000)
    MaxRequests,  \* bound: requests past the signature check
    Absent

ASSUME 0 < RateTTL /\ RateTTL < CacheTTL /\ CacheTTL < UsageTTL

StoreKeys == {"rate", "usage", "result"}

VARIABLES
    kv,           \* the MemoryStore: StoreKeys -> Entry | Absent
    evictKey,     \* evictKey[p]: key a Get of p found expired, to delete next
    pc,           \* pc[p]: the step goroutine p runs next
    requests,     \* requests past the signature check so far
    allowedAges   \* allowedAges[a]: requests the rate limit let through a ticks ago

vars == <<kv, evictKey, pc, requests, allowedAges>>

KV == INSTANCE KVStore WITH Keys <- StoreKeys, Vals <- {"valid"},
        TTLs <- {RateTTL, CacheTTL, UsageTTL}, MaxCount <- MaxRequests,
        CleanupEnabled <- FALSE, sweeper <- "none", stopClosed <- FALSE,
        crashed <- FALSE

\* the ages a 1-minute rate counter can still remember: a counter set at
\* age 0 expires once its ttl is below 0, RateTTL + 1 ticks later
Window == 0..RateTTL

TypeOK ==
    /\ kv["rate"] \in {Absent} \cup [val : 1..MaxRequests, ttl : -1..RateTTL]
    /\ kv["usage"] \in {Absent} \cup [val : 1..MaxRequests, ttl : -1..UsageTTL]
    /\ kv["result"] \in {Absent} \cup [val : {"valid"}, ttl : -1..CacheTTL]
    /\ evictKey \in [Procs -> StoreKeys \cup {Absent}]
    /\ pc \in [Procs -> {"idle", "V_get", "V_chain", "V_incr", "V_set"}]
    /\ requests \in 0..MaxRequests
    /\ allowedAges \in [Window -> 0..MaxRequests]

\* NewVerificationService (service.go 37-43) over an empty store
Init ==
    /\ kv = [k \in StoreKeys |-> Absent]
    /\ evictKey = [p \in Procs |-> Absent]
    /\ pc = [p \in Procs |-> "idle"]
    /\ requests = 0
    /\ allowedAges = [a \in Window |-> 0]

-----------------------------------------------------------------------------

Ready(p, label) == pc[p] = label /\ evictKey[p] = Absent

Goto(p, label) == pc' = [pc EXCEPT ![p] = label]

\* Get(k): a present but expired entry makes the caller delete it next
GetEvicts(p, k) ==
    evictKey' = [evictKey EXCEPT ![p] = IF kv[k] # Absent /\ KV!Expired(kv[k])
                                         THEN k ELSE Absent]

\* mutant: a fixed-window counter, keeping the first request's expiry
V_rateFixedWindow(p) ==
    /\ pc[p] = "idle" /\ evictKey[p] = Absent
    /\ requests < MaxRequests
    /\ requests' = requests + 1
    /\ kv' = [kv EXCEPT !["rate"] =
                 IF KV!IsLive(@) THEN [@ EXCEPT !.val = @ + 1] ELSE KV!Entry(1, RateTTL)]
    /\ IF kv'["rate"].val <= Limit
         THEN Goto(p, "V_get") /\ allowedAges' = [allowedAges EXCEPT ![0] = @ + 1]
         ELSE UNCHANGED <<pc, allowedAges>>
    /\ UNCHANGED evictKey

\* A valid signature (handlers.go 94-99), then CheckRateLimit: Increment
\* of rate_limit:{user} by 1 with a fresh 1-minute ttl, and 429 past the
\* limit (handlers.go 101-107, service.go 181-191).
V_rate(p) ==
    /\ pc[p] = "idle" /\ evictKey[p] = Absent
    /\ requests < MaxRequests
    /\ requests' = requests + 1
    /\ kv' = [kv EXCEPT !["rate"] = KV!IncrementedEntry(@, 1, RateTTL)]
    /\ IF kv'["rate"].val <= Limit
         THEN Goto(p, "V_get") /\ allowedAges' = [allowedAges EXCEPT ![0] = @ + 1]
         ELSE UNCHANGED <<pc, allowedAges>>
    /\ UNCHANGED evictKey

\* VerifyLicense step 1: a cached valid result is returned as it is
\* (service.go 48-54)
V_get(p) ==
    /\ Ready(p, "V_get")
    /\ GetEvicts(p, "result")
    /\ Goto(p, IF KV!IsLive(kv["result"]) THEN "idle" ELSE "V_chain")
    /\ UNCHANGED <<kv, requests, allowedAges>>

\* the tool id parse, IsLicenseValid, GetLicenseMetadata and the expiry
\* test: any of them may end the request (service.go 55-97)
V_chain(p) ==
    /\ Ready(p, "V_chain")
    /\ \/ Goto(p, "idle")           \* invalid id, RPC error, not owner, expired
       \/ Goto(p, "V_incr")
    /\ UNCHANGED <<kv, evictKey, requests, allowedAges>>

\* Increment usage:{licenseID}:{toolID} with a fresh 24-hour ttl; past
\* MaxCalls the request is refused (service.go 99-109)
V_incr(p) ==
    /\ Ready(p, "V_incr")
    /\ kv' = [kv EXCEPT !["usage"] = KV!IncrementedEntry(@, 1, UsageTTL)]
    /\ Goto(p, IF kv'["usage"].val <= MaxCalls THEN "V_set" ELSE "idle")
    /\ UNCHANGED <<evictKey, requests, allowedAges>>

\* mutant: the result cached for 24 hours
V_setDayTTL(p) ==
    /\ Ready(p, "V_set")
    /\ kv' = [kv EXCEPT !["result"] = KV!Entry("valid", UsageTTL)]
    /\ Goto(p, "idle")
    /\ UNCHANGED <<evictKey, requests, allowedAges>>

\* the provenance hash, and the result cached for CacheTTL seconds
\* (service.go 111-125)
V_set(p) ==
    /\ Ready(p, "V_set")
    /\ kv' = [kv EXCEPT !["result"] = KV!Entry("valid", CacheTTL)]
    /\ Goto(p, "idle")
    /\ UNCHANGED <<evictKey, requests, allowedAges>>

\* second half of Get (store.go 78-81)
Evict(p) ==
    /\ evictKey[p] # Absent
    /\ kv' = [kv EXCEPT ![evictKey[p]] = Absent]
    /\ evictKey' = [evictKey EXCEPT ![p] = Absent]
    /\ UNCHANGED <<pc, requests, allowedAges>>

Tick ==
    /\ kv' = [k \in StoreKeys |-> IF kv[k] = Absent THEN Absent
                                  ELSE [kv[k] EXCEPT !.ttl = KV!AgeTTL(@)]]
    /\ allowedAges' = [a \in Window |-> IF a = 0 THEN 0 ELSE allowedAges[a - 1]]
    /\ UNCHANGED <<evictKey, pc, requests>>

InFlight(p) == V_get(p) \/ V_chain(p) \/ V_incr(p) \/ V_set(p) \/ Evict(p)

Next ==
    \/ \E p \in Procs : V_rate(p) \/ InFlight(p)
    \/ Tick

Spec == Init /\ [][Next]_vars /\ (\A p \in Procs : WF_vars(InFlight(p))) /\ WF_vars(Tick)

-----------------------------------------------------------------------------
(* Properties.                                                             *)

\* CheckRateLimit lets at most Limit requests of a user through in any
\* 1-minute window ("100 requests per minute", service.go 183), under every
\* interleaving of concurrent requests and of the counter's expiry.
AllowedPerMinute == SumFunction(allowedAges) <= Limit

=============================================================================
