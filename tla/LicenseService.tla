--------------------------- MODULE LicenseService ---------------------------
(***************************************************************************)
(* LicenseService of src/internal/blockchain/license_service.go:           *)
(* RequestLicense, RecordLicenseMinted and VerifyAccess for one (user,     *)
(* tool) pair, run by concurrent request goroutines over the MemoryStore   *)
(* (KVStore), with the chain (ChainView and the license contract) and the  *)
(* mint-event listener as the environment.                                 *)
(*                                                                         *)
(* Different (user, tool) pairs use disjoint store keys and never interact *)
(* in this service, so one pair is enough.  Its three store keys are       *)
(*   "license"  license:{user}:{tool}          -> *models.License          *)
(*   "pending"  pending:license:{user}:{tool}  -> pending license (nonce)  *)
(*   "free"     free:{user}:{tool}             -> int64 counter            *)
(* License values are pointers: VerifyAccess bumps CallsUsed in the shared *)
(* object, so licenses live in a heap and the store holds object ids.      *)
(* Every step of a process is one store operation (each is atomic under    *)
(* the store's lock) or one chain call; Get's lazy expiry is its second    *)
(* step, Evict.  Times are relative (see KVStore): entry ttls, and the     *)
(* expiresAt of licenses and authorizations as time left.                 *)
(***************************************************************************)
EXTENDS Integers, FiniteSets
LOCAL INSTANCE Functions

CONSTANTS
    Procs,        \* concurrent request goroutines
    ObjIds,       \* heap addresses for *models.License objects
    PendingTTL,   \* 10 minutes: ttl of the pending entry
    DayTTL,       \* 24 hours: free-counter ttl and licence refresh ttl
    LicenseTTL,   \* 30 days: licence expiry and ttl of a recorded licence
    FreeLimit,    \* 100 free calls
    MaxCalls,     \* 1000 licensed calls
    MaxRequests,  \* bound: RequestLicense calls that allocate a nonce
    ChainModes,   \* ChainView behaviours a call may meet (see VA_chain)
    OpenRecord,   \* who posts /license/record-minted (see RM_getPend)
    Absent

ASSUME 0 < PendingTTL /\ PendingTTL < DayTTL /\ DayTTL < LicenseTTL
ASSUME OpenRecord \in BOOLEAN
ASSUME ChainModes \subseteq {"nil", "uninit", "live"} /\ ChainModes # {}

StoreKeys == {"license", "pending", "free"}
Nonces == 1..MaxRequests

VARIABLES
    kv,         \* the MemoryStore: StoreKeys -> Entry | Absent
    evictKey,   \* evictKey[p]: key a Get of p found expired, to delete next
    heap,       \* heap[o]: [exp, used] of a *models.License, or Absent
    pc,         \* pc[p]: the step process p runs next
    ref,        \* ref[p]: licence object p holds between Get and Set
    nonce,      \* nonce[p]: nonce p allocated (RL) or was handed (RM)
    panicked,   \* some VerifyAccess panicked (history)
    requests,   \* nonces allocated so far (the UnixNano nonce source)
    authExp,    \* authExp[n]: expiresAt left of issued authorization n
    minted,     \* nonces minted on chain
    recorded,   \* nonces RecordLicenseMinted accepted (history)
    freeAges    \* freeAges[a]: free grants made a ticks ago (history)

vars == <<kv, evictKey, heap, pc, ref, nonce, panicked, requests, authExp,
          minted, recorded, freeAges>>

KV == INSTANCE KVStore WITH Keys <- StoreKeys, Vals <- ObjIds \cup Nonces,
        TTLs <- {PendingTTL, DayTTL, LicenseTTL}, MaxCount <- FreeLimit + 1,
        CleanupEnabled <- FALSE, sweeper <- "none", stopClosed <- FALSE,
        crashed <- FALSE

Labels == {"idle", "VA_set", "VA_chain", "VA_synth", "VA_free",
           "RL_getPend", "RL_setPend", "RM_setLic", "RM_delPend"}
\* What a request answers.  Only a panic is remembered (panicked); the
\* other outcomes name the code's return paths.
Responses == {"licensed", "free", "denied", "panic", "alreadyActive",
              "alreadyPending", "issued", "noPending", "nonceMismatch", "recorded"}

\* expiresAt left, clamped at 0: code only asks time.Now().Before(expiresAt)
ExpAge(t) == IF t > 0 THEN t - 1 ELSE 0
Unexpired(t) == t > 0

TypeOK ==
    /\ kv \in [StoreKeys -> {Absent} \cup [val : ObjIds \cup Nonces \cup 0..FreeLimit + 1,
                                           ttl : -1..LicenseTTL]]
    /\ evictKey \in [Procs -> StoreKeys \cup {Absent}]
    /\ heap \in [ObjIds -> {Absent} \cup [exp : 0..LicenseTTL, used : 0..MaxCalls + 1]]
    /\ pc \in [Procs -> Labels]
    /\ ref \in [Procs -> ObjIds \cup {Absent}]
    /\ nonce \in [Procs -> Nonces \cup {Absent}]
    /\ panicked \in BOOLEAN
    /\ requests \in 0..MaxRequests
    /\ authExp \in [Nonces -> 0..LicenseTTL \cup {Absent}]
    /\ minted \subseteq Nonces /\ recorded \subseteq Nonces
    /\ freeAges \in [0..DayTTL -> 0..FreeLimit + 1]

Init ==
    /\ kv = [k \in StoreKeys |-> Absent]
    /\ evictKey = [p \in Procs |-> Absent]
    /\ heap = [o \in ObjIds |-> Absent]
    /\ pc = [p \in Procs |-> "idle"]
    /\ ref = [p \in Procs |-> Absent]
    /\ nonce = [p \in Procs |-> Absent]
    /\ panicked = FALSE
    /\ requests = 0
    /\ authExp = [n \in Nonces |-> Absent]
    /\ minted = {}
    /\ recorded = {}
    /\ freeAges = [a \in 0..DayTTL |-> 0]

-----------------------------------------------------------------------------
(* Helpers.                                                                *)

\* p may take its next step: no lazy eviction of an earlier Get outstanding
Ready(p, label) == pc[p] = label /\ evictKey[p] = Absent

\* Get(k): a present but expired entry makes the caller delete it next
GetEvicts(p, k) ==
    evictKey' = [evictKey EXCEPT ![p] = IF kv[k] # Absent /\ KV!Expired(kv[k])
                                         THEN k ELSE Absent]

\* The licence object Get(license) returns, or Absent on a miss
CachedLicense == IF KV!IsLive(kv["license"]) THEN kv["license"].val ELSE Absent

\* cached.(*models.License) with time.Now().Before(license.ExpiresAt)
ActiveLicense == CachedLicense # Absent /\ Unexpired(heap[CachedLicense].exp)

\* unreferenced licence objects are garbage
Collect(h, store, r) ==
    [o \in ObjIds |-> IF \/ store["license"] # Absent /\ store["license"].val = o
                         \/ \E q \in Procs : r[q] = o
                      THEN h[o] ELSE Absent]

FreeObjs == {o \in ObjIds : heap[o] = Absent}

Finish(p, r) ==
    /\ r \in Responses
    /\ pc' = [pc EXCEPT ![p] = "idle"]
    /\ panicked' = (panicked \/ r = "panic")

Goto(p, label) == pc' = [pc EXCEPT ![p] = label] /\ UNCHANGED panicked

-----------------------------------------------------------------------------
(* VerifyAccess (license_service.go 140-212).                              *)

\* Get(license) and, on an unexpired hit, license.CallsUsed++ on the shared
\* object (lines 145-149).  The increment is an unsynchronised data race:
\* while another goroutine holds the same object between its own increment
\* and Set, this increment may be lost.
VA_get(p) ==
    /\ pc[p] = "idle" /\ evictKey[p] = Absent
    /\ GetEvicts(p, "license")
    /\ IF ActiveLicense
         THEN LET o == CachedLicense
                  bumped == IF heap[o].used >= MaxCalls + 1 THEN MaxCalls + 1
                            ELSE heap[o].used + 1
                  racing == \E q \in Procs \ {p} : pc[q] = "VA_set" /\ ref[q] = o
              IN /\ \E u \in {bumped} \cup (IF racing THEN {heap[o].used} ELSE {}) :
                       heap' = [heap EXCEPT ![o].used = u]
                 /\ ref' = [ref EXCEPT ![p] = o]
                 /\ Goto(p, "VA_set")
         ELSE /\ Goto(p, "VA_chain")
              /\ UNCHANGED <<heap, ref>>
    /\ UNCHANGED <<kv, nonce, requests, authExp, minted, recorded, freeAges>>

\* s.cache.Set(licenseKey, license, 24h), then the licensed result
\* (lines 150-159)
VA_set(p) ==
    /\ Ready(p, "VA_set")
    /\ kv' = [kv EXCEPT !["license"] = KV!Entry(ref[p], DayTTL)]
    /\ ref' = [ref EXCEPT ![p] = Absent]
    /\ heap' = Collect(heap, kv', ref')
    /\ Finish(p, "licensed")
    /\ UNCHANGED <<evictKey, nonce, requests, authExp, minted, recorded, freeAges>>

\* The licence contract: a minted licence that has not expired
OnChainValid == \E n \in minted : Unexpired(authExp[n])

\* IsLicenseValid, then GetLicenseMetadata (lines 165-168).  What a call
\* meets depends on how main.go wired the chain:
\*   "nil"    ENABLE_BLOCKCHAIN unset or the dial failed: a nil *Client in
\*            the interface, and c.licenseNFT dereferences nil (client.go
\*            259): a panic, answered 500 by echo's Recover middleware;
\*   "uninit" a connected Client whose InitializeContracts is never called:
\*            "license contract not initialized" (client.go 259-261);
\*   "live"   the contract's answer, or an RPC error.
VA_chain(p) ==
    /\ Ready(p, "VA_chain")
    /\ \/ /\ "nil" \in ChainModes
          /\ Finish(p, "panic")
       \/ /\ "uninit" \in ChainModes
          /\ Goto(p, "VA_free")
       \/ /\ "live" \in ChainModes
          /\ \/ Goto(p, "VA_free")                        \* RPC error
             \/ ~OnChainValid /\ Goto(p, "VA_free")
             \/ OnChainValid /\ Goto(p, "VA_synth")
    /\ UNCHANGED <<kv, evictKey, heap, ref, nonce, requests, authExp, minted,
                   recorded, freeAges>>

\* GetLicenseMetadata (client.go 220-255) answers ExpiresAt = now + 30
\* days whatever the token, after a Uri call that only checks reachability.
MetadataExpiresAt == LicenseTTL

\* A licence synthesised from the metadata (CallsUsed 1, ExpiresAt from
\* GetLicenseMetadata, which is now + 30 days: client.go 234-240) and
\* cached for 24 hours (lines 170-186).
VA_synth(p) ==
    /\ Ready(p, "VA_synth")
    /\ \E o \in FreeObjs :
          /\ kv' = [kv EXCEPT !["license"] = KV!Entry(o, DayTTL)]
          /\ heap' = Collect([heap EXCEPT ![o] = [exp |-> MetadataExpiresAt, used |-> 1]],
                              kv', ref)
    /\ Finish(p, "licensed")
    /\ UNCHANGED <<evictKey, ref, nonce, requests, authExp, minted, recorded, freeAges>>

\* Mutant of VA_free: the limit test off by one (count <= limit + 1).
VA_freeOffByOne(p) ==
    /\ Ready(p, "VA_free")
    /\ kv' = [kv EXCEPT !["free"] = KV!IncrementedEntry(kv["free"], 1, DayTTL)]
    /\ IF kv'["free"].val <= FreeLimit + 1
         THEN /\ Finish(p, "free")
              /\ freeAges' = [freeAges EXCEPT ![0] = IF @ > FreeLimit THEN @ ELSE @ + 1]
         ELSE /\ Finish(p, "denied")
              /\ UNCHANGED freeAges
    /\ UNCHANGED <<evictKey, heap, ref, nonce, requests, authExp, minted, recorded>>

\* Free tier: Increment(free, 1, 24h); within 100 calls the call is free,
\* past it denied (lines 191-211).
VA_free(p) ==
    /\ Ready(p, "VA_free")
    /\ kv' = [kv EXCEPT !["free"] = KV!IncrementedEntry(kv["free"], 1, DayTTL)]
    /\ IF kv'["free"].val <= FreeLimit
         THEN /\ Finish(p, "free")
              /\ freeAges' = [freeAges EXCEPT ![0] = IF @ > FreeLimit THEN @ ELSE @ + 1]
         ELSE /\ Finish(p, "denied")
              /\ UNCHANGED freeAges
    /\ UNCHANGED <<evictKey, heap, ref, nonce, requests, authExp, minted, recorded>>

-----------------------------------------------------------------------------
(* RequestLicense (license_service.go 77-138).                             *)

\* Get(license): an unexpired licence refuses the request (lines 79-86).
\* The nonce (time.Now().UnixNano()) is modelled as a fresh number, drawn
\* here so that the bound MaxRequests is a guard on starting a request.
RL_getLic(p) ==
    /\ pc[p] = "idle" /\ evictKey[p] = Absent
    /\ requests < MaxRequests
    /\ GetEvicts(p, "license")
    /\ IF ActiveLicense
         THEN Finish(p, "alreadyActive") /\ UNCHANGED <<nonce, requests>>
         ELSE /\ Goto(p, "RL_getPend")
              /\ requests' = requests + 1
              /\ nonce' = [nonce EXCEPT ![p] = requests + 1]
    /\ UNCHANGED <<kv, heap, ref, authExp, minted, recorded, freeAges>>

\* Get(pending): a pending request refuses this one (lines 89-92)
RL_getPend(p) ==
    /\ Ready(p, "RL_getPend")
    /\ GetEvicts(p, "pending")
    /\ IF KV!IsLive(kv["pending"])
         THEN Finish(p, "alreadyPending") /\ nonce' = [nonce EXCEPT ![p] = Absent]
         ELSE Goto(p, "RL_setPend") /\ UNCHANGED nonce
    /\ UNCHANGED <<kv, heap, ref, requests, authExp, minted, recorded, freeAges>>

\* expiresAt = now + 30 days, price, EIP-712 signature (CPU only), then
\* Set(pending, license, 10 min) and the signed authorization goes back to
\* the client (lines 95-137).
RL_setPend(p) ==
    /\ Ready(p, "RL_setPend")
    /\ kv' = [kv EXCEPT !["pending"] = KV!Entry(nonce[p], PendingTTL)]
    /\ authExp' = [authExp EXCEPT ![nonce[p]] = LicenseTTL]
    /\ nonce' = [nonce EXCEPT ![p] = Absent]
    /\ Finish(p, "issued")
    /\ UNCHANGED <<evictKey, heap, ref, requests, minted, recorded, freeAges>>

-----------------------------------------------------------------------------
(* RecordLicenseMinted (license_service.go 214-260), reached through the   *)
(* unauthenticated POST /license/record-minted (api/license.go 138-195),   *)
(* which passes nonce and expires_at from the request body.  The handler   *)
(* says a mint-event listener calls it; with OpenRecord = FALSE only such  *)
(* a listener does, for minted nonces with their signed expiry, possibly   *)
(* late or more than once.  No listener is wired (ListenForLicenseMinted   *)
(* has no caller), and with OpenRecord = TRUE any client may post a nonce  *)
(* it was issued, minted or not.                                           *)

\* The nonces a record-minted request may carry: the handler parses them
\* from the body and checks nothing else (api/license.go 138-195).
PostedNonces == IF OpenRecord THEN 1..requests ELSE minted

\* Get(pending) and the nonce comparison (lines 226-239)
RM_getPend(p, n) ==
    /\ pc[p] = "idle" /\ evictKey[p] = Absent
    /\ n \in PostedNonces
    /\ GetEvicts(p, "pending")
    /\ CASE ~KV!IsLive(kv["pending"])    -> Finish(p, "noPending") /\ UNCHANGED nonce
         [] kv["pending"].val # n        -> Finish(p, "nonceMismatch") /\ UNCHANGED nonce
         [] OTHER -> Goto(p, "RM_setLic") /\ nonce' = [nonce EXCEPT ![p] = n]
    /\ UNCHANGED <<kv, heap, ref, requests, authExp, minted, recorded, freeAges>>

\* Mutant of RM_setLic: ExpiresAt taken as now + 30 days instead of the
\* minted expiry of the event.
RM_setLicFreshExpiry(p) ==
    /\ Ready(p, "RM_setLic")
    /\ \E o \in FreeObjs :
          /\ kv' = [kv EXCEPT !["license"] = KV!Entry(o, LicenseTTL)]
          /\ heap' = Collect([heap EXCEPT ![o] = [exp |-> LicenseTTL, used |-> 0]],
                             kv', ref)
    /\ Goto(p, "RM_delPend")
    /\ UNCHANGED <<evictKey, ref, nonce, requests, authExp, minted, recorded, freeAges>>

\* Mutant of RM_setLic: the licence cached one tick longer than 30 days.
RM_setLicLongTTL(p) ==
    /\ Ready(p, "RM_setLic")
    /\ \E o \in FreeObjs :
          /\ kv' = [kv EXCEPT !["license"] = KV!Entry(o, LicenseTTL + 1)]
          /\ heap' = Collect([heap EXCEPT ![o] = [exp |-> authExp[nonce[p]], used |-> 0]],
                             kv', ref)
    /\ Goto(p, "RM_delPend")
    /\ UNCHANGED <<evictKey, ref, nonce, requests, authExp, minted, recorded, freeAges>>

\* a new licence (ExpiresAt from the event, CallsUsed 0, MaxCalls 1000)
\* Set for 30 days (lines 242-255)
RM_setLic(p) ==
    /\ Ready(p, "RM_setLic")
    /\ \E o \in FreeObjs :
          /\ kv' = [kv EXCEPT !["license"] = KV!Entry(o, LicenseTTL)]
          /\ heap' = Collect([heap EXCEPT ![o] = [exp |-> authExp[nonce[p]], used |-> 0]],
                             kv', ref)
    /\ Goto(p, "RM_delPend")
    /\ UNCHANGED <<evictKey, ref, nonce, requests, authExp, minted, recorded, freeAges>>

\* Delete(pending) (line 257)
RM_delPend(p) ==
    /\ Ready(p, "RM_delPend")
    /\ kv' = [kv EXCEPT !["pending"] = Absent]
    /\ recorded' = recorded \cup {nonce[p]}
    /\ nonce' = [nonce EXCEPT ![p] = Absent]
    /\ Finish(p, "recorded")
    /\ UNCHANGED <<evictKey, heap, ref, requests, authExp, minted, freeAges>>

-----------------------------------------------------------------------------
(* Store internals and environment.                                        *)

\* second half of Get (store.go 78-81): delete the key, whatever it holds
Evict(p) ==
    /\ evictKey[p] # Absent
    /\ kv' = [kv EXCEPT ![evictKey[p]] = Absent]
    /\ evictKey' = [evictKey EXCEPT ![p] = Absent]
    /\ heap' = Collect(heap, kv', ref)
    /\ UNCHANGED <<pc, ref, nonce, panicked, requests, authExp, minted, recorded, freeAges>>

\* the client mints an authorization it was issued (the contract checks the
\* signature; each authorization mints once)
Mint(n) ==
    /\ authExp[n] # Absent /\ n \notin minted
    /\ minted' = minted \cup {n}
    /\ UNCHANGED <<kv, evictKey, heap, pc, ref, nonce, panicked, requests, authExp,
                   recorded, freeAges>>

\* wall-clock time passes
Tick ==
    /\ kv' = [k \in StoreKeys |-> IF kv[k] = Absent THEN Absent
                                  ELSE [kv[k] EXCEPT !.ttl = KV!AgeTTL(@)]]
    /\ heap' = [o \in ObjIds |-> IF heap[o] = Absent THEN Absent
                                 ELSE [heap[o] EXCEPT !.exp = ExpAge(@)]]
    /\ authExp' = [n \in Nonces |-> IF authExp[n] = Absent THEN Absent
                                    ELSE ExpAge(authExp[n])]
    /\ freeAges' = [a \in 0..DayTTL |-> IF a = 0 THEN 0 ELSE freeAges[a - 1]]
    /\ UNCHANGED <<evictKey, pc, ref, nonce, panicked, requests, minted, recorded>>

Next ==
    \/ \E p \in Procs :
          \/ VA_get(p) \/ VA_set(p) \/ VA_chain(p) \/ VA_synth(p) \/ VA_free(p)
          \/ RL_getLic(p) \/ RL_getPend(p) \/ RL_setPend(p)
          \/ RM_setLic(p) \/ RM_delPend(p)
          \/ Evict(p)
          \/ \E n \in Nonces : RM_getPend(p, n)
    \/ \E n \in Nonces : Mint(n)
    \/ Tick

\* A request in flight keeps being scheduled; time keeps passing.  New
\* requests, mints and listener calls are up to the environment.
InFlight(p) ==
    \/ VA_set(p) \/ VA_chain(p) \/ VA_synth(p) \/ VA_free(p)
    \/ RL_getPend(p) \/ RL_setPend(p) \/ RM_setLic(p) \/ RM_delPend(p)
    \/ Evict(p)

Spec == Init /\ [][Next]_vars /\ (\A p \in Procs : WF_vars(InFlight(p))) /\ WF_vars(Tick)

-----------------------------------------------------------------------------
(* Properties.                                                             *)

\* Free-tier rate: within any 24 hours a (user, tool) pair gets at most 100
\* free calls, however calls interleave.  Rests on Increment being atomic
\* and on the counter restarting only after 24 hours without a call.
FreeTierWindow == SumFunction(freeAges) <= FreeLimit

\* VerifyAccess decides "licensed" from the cache (the CallsUsed++ step)
\* only while the user holds an unexpired licence minted on chain: a cached
\* licence never outlives the licence it stands for.
LicensedGrantBacked ==
    [][\A p \in Procs : pc[p] = "idle" /\ pc'[p] = "VA_set" => OnChainValid]_vars

\* An authorization RequestLicense hands out stays redeemable: until it is
\* recorded or its 10-minute pending window closes, the pending entry holds
\* its nonce, so RecordLicenseMinted for it cannot fail with "nonce
\* mismatch" or "no pending license" (spec 8: record after request
\* succeeds).
AuthorizationHonoured ==
    \A n \in Nonces :
        (authExp[n] # Absent /\ n \notin recorded /\ authExp[n] >= LicenseTTL - PendingTTL)
            => KV!IsLive(kv["pending"]) /\ kv["pending"].val = n

\* RequestLicense never signs a new mint authorization for a user whose
\* recorded licence has not expired (spec 4.3: AlreadyActive), so nobody
\* is asked to pay twice for the same period.
NoSaleWhileLicensed ==
    [][\A p \in Procs :
          pc[p] = "RL_setPend" /\ pc'[p] = "idle" =>
              \A n \in recorded : ~Unexpired(authExp[n])]_vars

=============================================================================
