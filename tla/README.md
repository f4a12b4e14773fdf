# TLA+ models of skillchain

These modules model the Go server under `src/`. They cover the
in-memory TTL key-value store and the services that keep all their state
in it: licence and access, votes with the batch runner, and the legacy
`/verify` route. They also cover the EIP-712 licence signer and the vote
signature check. The chain (the licence NFT contract) and the HTTP clients
are the environment.

## The system

| Part | Source | State | Operations |
|---|---|---|---|
| KV store (`MemoryStore`) | `internal/kvstore/store.go` | `data: key -> (value, expiresAt)`, cleanup goroutine, `stopCleanup` channel | `Get` (lazy expiry), `Set`, `Increment`, `Delete`, `Clear`, `Keys`, `cleanupExpired`, `Close` |
| Cache client | `internal/cache/cache.go` | none (wraps the store) | pass-through; `NewKVStore` builds the store with cleanup interval 0 |
| Licence lifecycle | `internal/blockchain/license_service.go`, `internal/api/license.go` | keys `license:{u}:{t}`, `pending:license:{u}:{t}` | `RequestLicense`, `RecordLicenseMinted` (POST `/license/record-minted`) |
| Access engine | `license_service.go` `VerifyAccess` | `license:{u}:{t}` (a `*models.License` shared by pointer), `free:{u}:{t}` counter | cached licence, chain consult, free tier, deny |
| Chain client | `internal/blockchain/client.go`, `cmd/server/main.go` | contract handles | `IsLicenseValid`, `GetLicenseMetadata` |
| Vote service | `internal/core/vote_service.go` | `pending:vote:{tool}` list, `vote:{id}`, `batch:...`, `reputation:...` | `SubmitVote`, `GetToolReputation`, `ProcessBatch` |
| Batch runner | `internal/core/batch_processor.go` | ticker, `stopChan` | scan keys every 5 minutes, `ProcessBatch` per tool, `Stop` |
| Legacy verification | `internal/core/service.go`, `internal/api/handlers.go` | `usage:...`, `rate_limit:...` | `/verify`: `ValidateSignature`, `CheckRateLimit`, `VerifyLicense` |
| Signer | `internal/auth/eip32.go`, `internal/api/license.go` 198-211 | the returned `r, s, v` slices (one buffer) | `NewSigner`, `CreateLicenseSignature`, `VerifySignature` |
| Vote signature check | `vote_service.go` `verifyVoteSignature` | none | hex decode, `v` adjustment, `SigToPub`, address compare |

How they interact: every HTTP request runs on its own goroutine, and the
services run concurrently with one another. Their only shared state is the
store. Each store call is atomic under the store's lock, and no service
holds a lock across calls. So every handler is a sequence of atomic steps,
and the steps of different requests interleave. The licence object in the
store is a pointer. `VerifyAccess` increments `CallsUsed` on it with no
lock. `main.go` wires the chain client as a `*blockchain.Client`. When the
chain is disabled or unreachable, that pointer is nil. The client's
`InitializeContracts` is never called.

## Modules

* `AtomicKV`: the abstract store that spec 4.1 describes. Every operation,
  `Get` included, is one atomic step over the live entries. `Get` is two
  steps (`BeginGet`, `EndGet`) that never change the data.
* `KVStore`: `MemoryStore`. `kv[k]` is an entry `[val, ttl]` or `Absent`.
  Time is relative: `ttl` is `expiresAt - now`, and `Tick` lowers every
  ttl. `Expired` means `ttl < 0`, which is `time.Now().After`.
  * `Get` is split where the code drops the read lock: `GetRead` runs
    lines 67-77 and `GetEvict` runs lines 78-81.
  * `Set`, `Increment`, `Delete` and `Clear` are one step each.
  * `Sweep` is a ticker fire that runs `cleanupExpired`.
  * `SweeperExit` is the goroutine taking the closed `stopCleanup`.
  * `Close` closes the channel. Doing it a second time sets `crashed`.

  The operators `Entry`, `Expired`, `IsLive`, `AgeTTL` and
  `IncrementedEntry` are reused by the service modules.
  `AtomicRefinement` states that `KVStore` implements `AtomicKV` through
  `INSTANCE AtomicKV WITH store <- AbstractView, caller <- AbstractCaller`.
* `LicenseService`: the three services of one (user, tool) pair. Pairs use
  disjoint keys, so one pair is enough. It has three store keys:
  `license`, `pending` and `free`. A licence is an object id into `heap`,
  which holds `[exp, used]`, so the pointer sharing of `CallsUsed` is
  modelled. Each process (`Procs`) runs one handler at a time, and each
  step is one store call or one chain call:
  * `VerifyAccess` is `VA_get`, then either `VA_set`, or `VA_chain` followed
    by `VA_synth` or `VA_free`.
  * `RequestLicense` is `RL_getLic`, `RL_getPend`, `RL_setPend`.
  * `RecordLicenseMinted` is `RM_getPend`, `RM_setLic`, `RM_delPend`.

  The second half of every `Get` is the step `Evict`. The chain is
  `ChainModes`:
  * `"nil"`: a typed-nil client, which panics.
  * `"uninit"`: the contract was never initialised, which returns an error.
  * `"live"`: the contract answers, or the RPC fails.

  `Mint` is a client minting an issued authorization. `OpenRecord` says
  who posts record-minted:
  * `FALSE`: the mint-event listener that the handler's comment assumes.
  * `TRUE`: any client. This is the code as deployed, because no listener
    is wired.

  History variables support the properties. `freeAges` holds the free
  grants per tick of the last 24 hours. `recorded` and `panicked` record
  past events.
* `VoteService`: `VoteService` of one tool together with the
  `BatchProcessor` goroutine (`Runner`). It has store keys `"pending"`
  (`pending:vote:{tool}`, a sequence of vote records) and one key per vote id
  (`vote:{id}`, whose value says whether its `BatchID` is set). Request
  goroutines (`Procs`) run one handler at a time, and each step is one
  store call:
  * `SubmitVote` is `SV_replay` (signature check and replay guard),
    `SV_elig` (`isVoterEligible`), `SV_getPend`, `SV_setPend`, `SV_setVote`.
  * `ProcessBatch` is `PB_get`, `PB_setBatch`, `PB_setVotes`, `PB_del`. It
    is run by the unauthenticated admin route and by the runner.
    `PB_setBatch` builds the `VoteBatch` fields: `votesCount`, the
    `totalScore` loop (`TotalScore`, a `FoldLeft`) and `generateMerkleRoot`
    (`MerkleRootOf` over `SortSliceById`).
  * A vote record (`Recs`) is a vote id and its `CreatedAt`. The id fixes
    voter, score and nonce. `CreatedAt` is the ordinal of the submission
    that built the record, so two submissions of one id give two different
    records, as two `time.Now()` calls a second apart do. Ids are ranked by
    the constant `VoteId`: fixed-length hex strings compare as numbers.
    `VoteScore` gives each id's score.
  * `sort.Slice` is any permutation that the id comparison orders, because
    it is not stable. It sorts in place: the backing array is shared by the
    cached pending entry and by any goroutine's local copy of that slice.
    So `PB_setBatch` reorders all of them. A sha256 digest is the record of
    what it hashes.
  * `GetToolReputation` is `GR_getPend`. Its Get of the pending list
    changes the store only through lazy expiry (`Evict`).
  * The runner is `R_wake` (a ticker fire), `R_scan`
    (`processAllPendingBatches`) and `R_exit` (the select takes the closed
    `stopChan`). `R_stop` is main's deferred `Stop`.

  `R_scan` evaluates the code's prefix test on the actual key string:
  `Selects(key) == Len(key) > 12 /\ SubSeq(key, 1, 12) = "pending:vote:"`,
  then cuts the tool id as `key[12:]`. The batches created are the history
  `batches`, because `batch:{tool}:{id}` is never read. The reputation
  cache feeds no decision and is abstracted away. The signature verdict
  is a free choice, as spec 4.4 intends. The code's check refuses every
  real signature (see `Signer`), so the model's paths past `SV_replay` are
  those of a repaired check.
* `Verify`: the routed legacy endpoint `POST /api/v1/verify`
  (`Server.verifyLicense` with `VerificationService`) for one user,
  licence id and tool. It has store keys `"rate"` (`rate_limit:{user}`),
  `"usage"` (`usage:{licenseID}:{toolID}`) and `"result"` (the cached
  valid result at `license:{licenseID}:{tool}`). A request is these steps:
  * `V_rate`: the signature accepted, then `CheckRateLimit`'s `Increment`.
  * `V_get`: the cached result.
  * `V_chain`: the id parse, `IsLicenseValid`, `GetLicenseMetadata` and the
    expiry test, any of which may end the request.
  * `V_incr`: the usage counter.
  * `V_set`: the result cached for `CacheTTL`.

  `allowedAges` is the history of requests let through, by age.
* `SignatureWindow`: `ValidateSignature`'s timestamp test as an operator
  on int64. The width is the constant `Width`, and `Wrap` is Go's
  two's-complement wrap. It is compared with the window the spec states,
  over every timestamp of that width.
* `Signer`: the licence signer as `setupLicenseRoutes` builds it, and
  the vote signature check. Hashes and signatures are abstracted:
  * A digest is the tuple of what is hashed (`TypedDataHash`,
    `VoteMessageHash`), so two digests are equal exactly when their
    inputs are.
  * `r||s` is `[key, digest, rid]`, where `rid` is the recovery id 0 or 1
    that `crypto.Sign` puts in byte 64.
  * `SigToPub(digest, rs, v)` is go-ethereum's contract. Any `v >= 4` is
    an error. The right `v` and digest recover the signer's key. Anything
    else recovers `Stranger`.

  State is the one thing the signer shares: the 65-byte buffer behind each
  authorization's `r, s, v` (`buf[m]`). `CreateLicenseSignature(m)` fills
  it with `v` raised to 27 or 28. `VerifySignature` is `VS_start`, then
  `VS_check` (`signature[64] >= 27`), then `VS_load`/`VS_store` (the
  compiled `-= 27` on the caller's byte), then `VS_recover`. The split
  matters because `append(sigR, sigS...)` reuses the caller's array,
  since `sigR` keeps capacity 65. `VerifyVoteSignature` is the whole vote
  check on a wallet signature whose `v` is 0/1 or 27/28. `result` and
  `voteResult` hold the last verdicts.
* `MCKVStore`, `MCLicenseService`, `MCVoteService`, `MCVerify` and
  `MCSigner` instantiate the specifications for TLC.

Bounds:
* Keys, values and ttls are small sets. Durations keep the code's order:
  10 min < 24 h < 30 days becomes 1 < 2 < 4 ticks. That lets a 24-hour
  entry lapse while a 30-day licence still runs, and lets a pending entry
  lapse before the licence is recorded.
* The free limit (100) and the licence cap (1000) become 1. Only the
  first call past a limit matters to the properties.
* There are two goroutines, which is enough for every race named below.
  There are one or two licence requests (`MaxRequests` bounds the nonce
  source). There are three heap cells: one cached licence plus one held by
  each goroutine. Counters saturate just past their limit.
* Symmetry over heap ids and goroutines is used in the safety runs only.
* Verify: two goroutines and at most five requests. Durations keep the
  code's order (1 min < 300 s < 24 h) at 1 < 2 < 3 ticks. The rate limit
  is 2 and the licence cap is 1. A limit of 1 cannot tell a sliding window
  from a fixed one, because the one request let through always opens the
  window. A limit of 2 can.
* SignatureWindow: int64 scaled to 8 bits (-128..127), with `MaxAge` 5
  and clock readings 100 and 120. The server's clock is a small positive
  number next to the int64 range, as `time.Now().Unix()` (about 2^31) is
  next to 2^63. Every timestamp of the width is enumerated.
* Signer: one user and tool ids 42 and 43 (the altered field of spec 8's
  example) give two messages, with one nonce and expiry. There is one
  verifier goroutine, and it may verify the same slices any number of
  times (1.6k states).
* VoteService: two request goroutines and the runner; two vote ids; at
  most two submissions past the replay guard (`MaxSubmits`) and one batch
  (`MaxBatches`). The pending ttl (10 min) and the vote record (24 h) keep
  their order as 2 < 3 ticks, so the list can lapse while a record lives,
  and a record can lapse too. Two goroutines are enough for every race on
  the two keys. One more submission or batch took the liveness run past
  seven minutes without reaching a new kind of step. Two ids with scores
  +1 and -1 let a sum that drops or repeats a vote be seen. Two ids
  submitted against their order make the sort matter (162k states, 25 s). The liveness
  violation uses one goroutine and one vote.

Fairness:
* A goroutine in the middle of a handler keeps running: weak fairness on
  its steps, because the Go scheduler runs runnable goroutines.
* The cleanup ticker keeps firing (`Sweep`, `SweeperExit`) and time keeps
  passing (`Tick`).
* New requests, mints and record-minted posts are not fair. They are up to
  the clients.
* VoteService has no fairness and no liveness property. The runner's scan
  never selects a key (`Selects` is FALSE for every key the code builds),
  so the runner never does any work. Its one progress property, returning
  after `Stop`, would restate the select's fairness on `R_exit`. That
  property (`RunnerStops`) was therefore retired.

## Retired properties

* `BatchAggregate`: count and sum held by construction, and the root
  clause restated the sort.
* `RunnerStops`: it restated the fairness on `R_exit`.

## Runs

| Run | Expect | What it shows |
|---|---|---|
| `kv_sweeper` | pass | With a cleanup interval, expired entries are eventually removed while the store is open (3.5k states). |
| `kv_atomic` | violation | `MemoryStore` is not the atomic map of spec 4.1: `Get`'s evict deletes a value a concurrent `Increment` wrote after the read. |
| `lic_access` | pass | Over every chain wiring and all interleavings of the three handlers, the free tier grants at most the limit in any 24-hour window (about 100k states). |
| `lic_offchain` | pass | When a listener posts record-minted, a cached licence is never honoured after the minted licence expires. The 24-hour rewrites keep the same expiry, and `CallsUsed` updates may be lost (about 1M states, two requests). The live chain and OpenRecord are excluded, so the run says nothing about the chain's invented expiry or about unauthenticated records. |
| `lic_open_record` | violation | The same property fails when anyone may post record-minted: licensed access without minting. |
| `lic_double_request` | violation | Two concurrent `RequestLicense` calls both issue. The first authorization then fails with nonce mismatch. |
| `lic_refresh_ttl` | violation | With one goroutine, the 24-hour rewrite lets the cache forget a running licence, and `RequestLicense` sells it again. |
| `verify_rate` | pass | On `/verify`, under all interleavings of two requests and the counter's expiry, the rate limiter lets at most `Limit` requests through in any minute. This holds because `Increment` refreshes the ttl (16k states). |
| `verify_window` | violation | `ValidateSignature` accepts a timestamp near the int64 minimum: `nowSec - timestamp` wraps negative and passes the 300 s test, so such a signature is accepted forever. |
| `vote_service` | pass | Explores every interleaving of two request goroutines and the runner with its `Stop`, and checks only `TypeOK`: the pending list, vote records and batches keep their shapes and ttl bounds (162k states). The vote races it reaches are hazards in `PROJECT.json`. They have no property, because the signature check refuses every vote (`sig_vote`) and all run slots are used. |
| `sig_roundtrip` | pass | `VerifySignature` on the slices `CreateLicenseSignature` returned answers true for the signed message and false for each altered one. This holds even on a second verification, after the first has turned the caller's `v` into 0/1. |
| `sig_vote` | violation | `verifyVoteSignature` raises `v` to 27/28 before `SigToPub`, which accepts only `v < 4`. A vote signed by its own voter is therefore refused ("failed to recover public key"), whichever `v` form the wallet sends. |

Each property of a passing run has a mutant in `PROJECT.json`, and TLC
finds that mutant violates the property:
* `Set` computing the expiry one tick late;
* `Sweep` with the comparison reversed;
* `VA_free` with the limit test off by one;
* `RM_setLic` taking `now + 30d` instead of the event's expiry;
* `RM_setLic` caching one tick too long.
* `SV_setPend` storing the pending list with the 24-hour ttl;
* `V_rate` as a fixed-window counter that keeps the first request's expiry;
* `V_set` caching the result for 24 hours;
* `VS_check` without its `>= 27` test, so a second verification wraps `v`
  to 229.

## Divergences found with retired runs

Runs are kept to one per question. These earlier findings are still
reachable in the modules, but no run checks them any more:
* The server's store is `NewMemoryStore(0)`: no sweeper runs, and an
  expired key nobody reads again stays forever. `ExpiredEventuallyRemoved`
  fails with `CleanupEnabled = FALSE`.
* `RecordLicenseMinted` is three store calls. Two deliveries of one mint
  event both succeed, and the second resets `CallsUsed` to 0 (spec 8 says
  the second returns `NoPending`).
* `/verify` returns a cached valid result for `CacheTTL` without counting
  usage or asking the chain again.
* `CheckRateLimit` also counts refused requests and refreshes the ttl. A
  client calling twice a minute after passing the limit is refused
  forever.
* `CallsUsed` is bumped on the shared licence without a lock and is never
  compared with `MaxCalls`.
* With the chain disabled, main wires a typed-nil client, and a licence
  cache miss panics.
* `vote_accept_once`: two concurrent `SubmitVote` calls with one signed
  vote both pass the replay guard (line 61 reads what line 108 writes). Both
  are answered valid, and the vote is twice in the pending list.
* `vote_batched`: the runner's `key[:12] == "pending:vote:"` never
  matches, so no accepted vote is batched by the runner, and the pending
  list lapses.
  Both need a vote that passes the signature check, and `sig_vote` shows
  that none does. They were retired when the signer runs were added.
  Both are reachable again in `VoteService` if the check is repaired.
* Two goroutines verifying the same slices race on `v`. Both see 27, one
  stores 0, and the other loads that 0 and stores 229. A valid signature
  then answers an error. `SignVerifyRoundTrip` fails at once with
  `Verifiers = {p1, p2}` (11 steps), against spec 4.2's "safe for
  concurrent use". `VerifySignature` has no caller outside the tests, so
  no deployed path reaches this race, and it is not listed as a hazard.
* On a live chain, `GetLicenseMetadata` returns `now + 30 days`. So
  `LicensedGrantBacked`, which `lic_offchain` checks off-chain, fails at
  once with `ChainModes = {"live"}`.

## Not modelled, and the plan

* Generated contract bindings: generated code. In `LicenseService` a
  signed authorization is abstracted to the nonce it authorises.
* The licence routes' signer is `NewSigner(cfg.JWTSecret, 11155111, ...)`,
  while main's is `NewSigner(cfg.SignerPrivateKey, cfg.ChainID, ...)`.
  `Signer` takes that wiring as constants (`SignerKey`, `LicenseDomain`).
  A property comparing them with the configured key would only restate
  two constants. With the default `JWT_SECRET`, which is not hex,
  `NewSigner` fails and the server exits at startup.
* Keccak, ECDSA and `NewSigner`'s key parsing are not modelled: the first
  two are abstracted, and a parse failure ends the process.
* A second `Close` panics. `KVStore` models it (`crashed`), but no run
  checks it: two sequential calls reach it, and `main` calls `Close` once.
* Config and JSON parsing: their effect on the modelled parts is a constant.
* VoteService leaves out these parts:
  * the reputation cache (`updateCachedReputation`,
    `updateReputationFromBatch`), which feeds no decision;
  * a property over the batch aggregate. `BatchOf` models the count, the
    sum and the root, but with one batch an invariant over them would only
    restate the loop and the sort. The hazards are two concurrent
    batches and the unlocked in-place sort racing with an append. Both are
    data races that need a finer model of the slice.
  * the root of a batch whose votes share an id. Such a batch comes from
    the replay race (line 61). Its records differ in `CreatedAt`, and
    `sort.Slice` orders them as they were appended, so spec 8's claim
    fails for it. No signed vote gets that far today (`sig_vote`).
  * aliasing through spare slice capacity: two submissions that append to
    one backing array write the same cell. The lost update this causes is
    the one the separate Get and Set already allow;
  * the batch id's one-second granularity, since the batch key is never
    read;
  * the `Processed` flag.

  A second `Stop` would panic, but main calls it once.
* `VerificationService.VerifyAccess` (service.go 193-260) is never called
  by any route. ECDSA recovery in `ValidateSignature` is a
  nondeterministic verdict.
* Then a composition in which vote eligibility reads the licence and usage
  keys that the other services write.
* A property that a recorded licence is not overwritten by a stale
  `VerifyAccess` write-back. That interleaving is already reachable in
  `LicenseService`.
