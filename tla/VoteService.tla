----------------------------- MODULE VoteService -----------------------------
(***************************************************************************)
(* VoteService of src/internal/core/vote_service.go (SubmitVote,           *)
(* ProcessBatch, GetToolReputation) for one tool, with the periodic batch  *)
(* runner of src/internal/core/batch_processor.go, over the MemoryStore.  *)
(*                                                                         *)
(* Store keys: "pending" is pending:vote:{tool} (a list of votes) and a    *)
(* vote id v is vote:{v} (the vote record; its value says whether its    *)
(* BatchID is set).  batch:{tool}:{id} is written and never read, so  *)
(* the batches are the history variable batches.  The reputation cache    *)
(* (reputation:{tool}) is only read back into itself and feeds no         *)
(* decision of these handlers, so its data is abstracted away; the one    *)
(* effect of reading it that reaches other keys, GetToolReputation's Get  *)
(* of the pending list, is kept.  The eligibility reads (keys owned by   *)
(* other services) are a nondeterministic verdict, and so is signature    *)
(* recovery: the model lets a vote pass it as spec 4.4 intends, although  *)
(* the code's check refuses every wallet signature (module Signer, run    *)
(* sig_vote), so the paths past it are those of a repaired check.         *)
(* Each step is one store call; Get's lazy expiry is its own step, Evict. *)
(***************************************************************************)
EXTENDS Integers, Sequences, FiniteSets
LOCAL INSTANCE SequencesExt

CONSTANTS
    Procs,        \* request goroutines (vote submit, reputation, admin batch)
    Runner,       \* the batch runner goroutine
    Votes,        \* vote ids (sha256 of voter, tool, score, nonce)
    VoteId,       \* VoteId[v]: the rank of v's hex id in string order
    VoteScore,    \* VoteScore[v]: the score hashed into v's id, -1..1
    Tool,         \* the tool id, a decimal string
    PendingTTL,   \* 2 x batchInterval: ttl of the pending list
    VoteTTL,      \* 24 hours: ttl of a vote record
    MaxSubmits,   \* bound: SubmitVote calls that pass the replay guard
    MaxBatches,   \* bound: ProcessBatch calls that create a batch
    Absent

ASSUME Runner \notin Procs
ASSUME 0 < PendingTTL /\ PendingTTL < VoteTTL
\* ids are fixed-length hex digests, so string order is a total order
ASSUME VoteId \in [Votes -> Nat] /\ \A v, w \in Votes : VoteId[v] = VoteId[w] => v = w
ASSUME VoteScore \in [Votes -> -1..1]

Actors == Procs \cup {Runner}
StoreKeys == {"pending"} \cup Votes

\* a *models.Vote: its id (which fixes voter, score and nonce) and its
\* CreatedAt, the ordinal of the submission that built it; two
\* submissions of one id build two records (lines 82-91)
Recs == [id : Votes, at : 1..MaxSubmits]

-----------------------------------------------------------------------------
(* The batch aggregate of ProcessBatch and generateMerkleRoot              *)
(* (vote_service.go 182-199, 386-421).  A sha256 digest is the record of   *)
(* what it hashes, so two are equal exactly when their inputs are.        *)

\* sha256("id:voter:score:nonce:createdAt") of one vote (lines 393-405)
Leaf(r) == [id |-> r.id, score |-> VoteScore[r.id], at |-> r.at]
Leaves == [id : Votes, score : -1..1, at : 1..MaxSubmits]

\* sha256("empty") for no leaves, else sha256 of the leaves concatenated
\* (lines 407-421)
MerkleRootOf(s) ==
    IF s = <<>> THEN [text |-> "empty"]
    ELSE [hashOf |-> [i \in 1..Len(s) |-> Leaf(s[i])]]
Roots == {[text |-> "empty"]} \cup [hashOf : Seq(Leaves)]

\* votes[i].ID < votes[j].ID: hex strings of one length compare as numbers
IdLess(r, q) == VoteId[r.id] < VoteId[q.id]

\* sort.Slice(votes, IdLess) (lines 388-391): some permutation of the
\* slice that IdLess orders; sort.Slice is not stable, so records of equal
\* id may come out in any order
SortSliceById(s) ==
    { t \in {[i \in 1..Len(s) |-> s[f[i]]] : f \in Permutations(1..Len(s))} :
        \A i \in 1..Len(t) - 1 : ~IdLess(t[i + 1], t[i]) }

\* the int64 sum "totalScore += int64(vote.Score)" (lines 182-187); with
\* scores in -1..1 it cannot overflow
TotalScore(s) == FoldLeft(LAMBDA acc, r : acc + VoteScore[r.id], 0, s)

\* the VoteBatch ProcessBatch builds from the votes it read, with t the
\* order the sort left them in (lines 189-199)
BatchOf(s, t) ==
    [votes |-> s, votesCount |-> Len(s), totalScore |-> TotalScore(s),
     merkleRoot |-> MerkleRootOf(t)]

VARIABLES
    kv,          \* the MemoryStore: StoreKeys -> Entry | Absent
    evictKey,    \* evictKey[a]: key a Get of a found expired, to delete next
    pc,          \* pc[a]: the step actor a runs next
    list,        \* list[a]: the pending list a read (its local slice)
    vote,        \* vote[p]: the vote record p is submitting
    batches,     \* the batches created, in order (batch:{tool}:{id} keys):
                 \* the votes read and the VoteBatch fields computed
    submits,     \* SubmitVote calls past the replay guard so far
    stopClosed   \* close(bp.stopChan) has happened

vars == <<kv, evictKey, pc, list, vote, batches, submits, stopClosed>>

KV == INSTANCE KVStore WITH Keys <- StoreKeys, Vals <- {}, Procs <- Actors,
        TTLs <- {PendingTTL, VoteTTL}, MaxCount <- 1, CleanupEnabled <- FALSE,
        sweeper <- "none", stopClosed <- FALSE, crashed <- FALSE

TypeOK ==
    /\ kv["pending"] \in {Absent} \cup [val : Seq(Recs), ttl : -1..PendingTTL]
    /\ \A v \in Votes : kv[v] \in {Absent} \cup [val : BOOLEAN, ttl : -1..VoteTTL]
    /\ evictKey \in [Actors -> StoreKeys \cup {Absent}]
    /\ pc \in [Actors -> {"idle", "SV_elig", "SV_getPend", "SV_setPend", "SV_setVote",
                          "PB_get", "PB_setBatch", "PB_setVotes", "PB_del",
                          "sleep", "scan", "stopped"}]
    /\ list \in [Actors -> Seq(Recs)]
    /\ vote \in [Procs -> Recs \cup {Absent}]
    /\ \A i \in 1..Len(batches) :
          batches[i] \in [votes : Seq(Recs), votesCount : Nat, totalScore : Int,
                          merkleRoot : Roots]
    /\ Len(batches) <= MaxBatches
    /\ submits \in 0..MaxSubmits
    /\ stopClosed \in BOOLEAN

\* NewVoteService, NewBatchProcessor and Start (main.go 56-64)
Init ==
    /\ kv = [k \in StoreKeys |-> Absent]
    /\ evictKey = [a \in Actors |-> Absent]
    /\ pc = [a \in Actors |-> IF a = Runner THEN "sleep" ELSE "idle"]
    /\ list = [a \in Actors |-> <<>>]
    /\ vote = [p \in Procs |-> Absent]
    /\ batches = <<>>
    /\ submits = 0
    /\ stopClosed = FALSE

-----------------------------------------------------------------------------
(* Helpers.                                                                *)

Ready(a, label) == pc[a] = label /\ evictKey[a] = Absent

Goto(a, label) == pc' = [pc EXCEPT ![a] = label]

\* Get(k): a present but expired entry makes the caller delete it next
GetEvicts(a, k) ==
    evictKey' = [evictKey EXCEPT ![a] = IF kv[k] # Absent /\ KV!Expired(kv[k])
                                         THEN k ELSE Absent]

\* the votes Get(pending) returns: the live list, or none
PendingVotes == IF KV!IsLive(kv["pending"]) THEN kv["pending"].val ELSE <<>>

\* batches created or about to be (bounds ProcessBatch calls)
BatchesStarted == Len(batches) + Cardinality({a \in Actors : pc[a] = "PB_setBatch"})

\* where ProcessBatch returns to: the runner's loop, or the end of a request
Done(a) == IF a = Runner THEN "sleep" ELSE "idle"

-----------------------------------------------------------------------------
(* SubmitVote (vote_service.go 44-119).                                    *)

\* The signature check (CPU only; a bad signature returns with no store
\* call) and the replay guard Get(vote:{id}) (lines 45-66).
SV_replay(p, v) ==
    /\ pc[p] = "idle" /\ evictKey[p] = Absent
    /\ submits < MaxSubmits
    /\ GetEvicts(p, v)
    /\ IF KV!IsLive(kv[v])
         THEN UNCHANGED <<pc, vote, submits>>              \* "vote already submitted"
         ELSE /\ Goto(p, "SV_elig")
              /\ vote' = [vote EXCEPT ![p] = [id |-> v, at |-> submits + 1]]
              /\ submits' = submits + 1
    /\ UNCHANGED <<kv, list, batches, stopClosed>>

\* isVoterEligible (lines 68-79, 311-329): usage and licence keys owned by
\* other services; either verdict.
SV_elig(p) ==
    /\ Ready(p, "SV_elig")
    /\ \/ Goto(p, "SV_getPend") /\ UNCHANGED vote
       \/ Goto(p, "idle") /\ vote' = [vote EXCEPT ![p] = Absent]   \* not eligible
    /\ UNCHANGED <<kv, evictKey, list, batches, submits, stopClosed>>

\* Get(pending) into the local slice (lines 94-100)
SV_getPend(p) ==
    /\ Ready(p, "SV_getPend")
    /\ GetEvicts(p, "pending")
    /\ list' = [list EXCEPT ![p] = PendingVotes]
    /\ Goto(p, "SV_setPend")
    /\ UNCHANGED <<kv, vote, batches, submits, stopClosed>>

\* mutant: the pending list stored with the 24-hour vote ttl
SV_setPendVoteTTL(p) ==
    /\ Ready(p, "SV_setPend")
    /\ kv' = [kv EXCEPT !["pending"] = KV!Entry(Append(list[p], vote[p]), VoteTTL)]
    /\ list' = [list EXCEPT ![p] = <<>>]
    /\ Goto(p, "SV_setVote")
    /\ UNCHANGED <<evictKey, vote, batches, submits, stopClosed>>

\* append and Set(pending, 2 x interval) (lines 102-105)
SV_setPend(p) ==
    /\ Ready(p, "SV_setPend")
    /\ kv' = [kv EXCEPT !["pending"] = KV!Entry(Append(list[p], vote[p]), PendingTTL)]
    /\ list' = [list EXCEPT ![p] = <<>>]
    /\ Goto(p, "SV_setVote")
    /\ UNCHANGED <<evictKey, vote, batches, submits, stopClosed>>

\* Set(vote:{id}, 24h), the reputation update, and the valid answer
\* (lines 107-118)
SV_setVote(p) ==
    /\ Ready(p, "SV_setVote")
    /\ kv' = [kv EXCEPT ![vote[p].id] = KV!Entry(FALSE, VoteTTL)]
    /\ vote' = [vote EXCEPT ![p] = Absent]
    /\ Goto(p, "idle")
    /\ UNCHANGED <<evictKey, list, batches, submits, stopClosed>>

-----------------------------------------------------------------------------
(* ProcessBatch (vote_service.go 169-221), from the admin endpoint         *)
(* POST /vote/process-batch/:toolId (api/vote.go 97-124) or the runner.    *)

\* Get(pending): nothing pending is an error (lines 170-180)
PB_get(a) ==
    /\ pc[a] = (IF a = Runner THEN "PB_get" ELSE "idle") /\ evictKey[a] = Absent
    /\ BatchesStarted < MaxBatches
    /\ GetEvicts(a, "pending")
    /\ IF PendingVotes = <<>>
         THEN Goto(a, Done(a)) /\ UNCHANGED list
         ELSE Goto(a, "PB_setBatch") /\ list' = [list EXCEPT ![a] = PendingVotes]
    /\ UNCHANGED <<kv, vote, batches, submits, stopClosed>>

\* totals, the root, and Set(batch:{tool}:{id}, 24h) (lines 182-205).
\* generateMerkleRoot sorts the slice it was given in place: the backing
\* array the pending entry and every local copy of that slice share.
\* Records carry their submission's ordinal, so equal lists are one slice.
PB_setBatch(a) ==
    /\ Ready(a, "PB_setBatch")
    /\ \E t \in SortSliceById(list[a]) :
          /\ batches' = Append(batches, BatchOf(list[a], t))
          /\ list' = [b \in Actors |-> IF list[b] = list[a] THEN t ELSE list[b]]
          /\ kv' = IF kv["pending"] # Absent /\ kv["pending"].val = list[a]
                     THEN [kv EXCEPT !["pending"].val = t] ELSE kv
    /\ Goto(a, "PB_setVotes")
    /\ UNCHANGED <<evictKey, vote, submits, stopClosed>>

\* each vote gets the batch id and is re-Set for 24h (lines 207-212)
PB_setVotes(a) ==
    /\ Ready(a, "PB_setVotes")
    /\ kv' = [k \in StoreKeys |-> IF k \in Votes /\ \E i \in DOMAIN list[a] : list[a][i].id = k
                                   THEN KV!Entry(TRUE, VoteTTL) ELSE kv[k]]
    /\ Goto(a, "PB_del")
    /\ UNCHANGED <<evictKey, list, vote, batches, submits, stopClosed>>

\* Delete(pending) and the reputation timestamp (lines 214-220)
PB_del(a) ==
    /\ Ready(a, "PB_del")
    /\ kv' = [kv EXCEPT !["pending"] = Absent]
    /\ list' = [list EXCEPT ![a] = <<>>]
    /\ Goto(a, Done(a))
    /\ UNCHANGED <<evictKey, vote, batches, submits, stopClosed>>

-----------------------------------------------------------------------------
(* GetToolReputation, the runner, the store and time.                      *)

\* GetToolReputation on a reputation cache miss reads the pending list
\* (vote_service.go 122-166); only its lazy expiry changes the store.
GR_getPend(p) ==
    /\ pc[p] = "idle" /\ evictKey[p] = Absent
    /\ kv["pending"] # Absent /\ KV!Expired(kv["pending"])
    /\ GetEvicts(p, "pending")
    /\ UNCHANGED <<kv, pc, list, vote, batches, submits, stopClosed>>

\* the pending key of the tool, the runner's prefix test, which slices 12
\* characters of the key, and the tool id it cuts out (batch_processor.go
\* 70-71)
PendingKeyText == "pending:vote:" \o Tool
Selects(key) == Len(key) > 12 /\ SubSeq(key, 1, 12) = "pending:vote:"
ToolOf(key) == SubSeq(key, 13, Len(key))

\* the select takes a ticker fire; with stopChan also closed Go picks
\* either case at random (batch_processor.go 46-49)
R_wake ==
    /\ pc[Runner] = "sleep"
    /\ Goto(Runner, "scan")
    /\ UNCHANGED <<kv, evictKey, list, vote, batches, submits, stopClosed>>

\* processAllPendingBatches: Keys() lists every stored key, expired ones
\* included; a selected key runs ProcessBatch on the tool id cut from it,
\* whose Get fails unless that id is the tool's (batch_processor.go 59-99)
R_scan ==
    /\ pc[Runner] = "scan"
    /\ Goto(Runner, IF /\ kv["pending"] # Absent
                       /\ Selects(PendingKeyText)
                       /\ ToolOf(PendingKeyText) = Tool
                    THEN "PB_get" ELSE "sleep")
    /\ UNCHANGED <<kv, evictKey, list, vote, batches, submits, stopClosed>>

\* Stop closes stopChan (batch_processor.go 36-39), from main's deferred
\* call, which runs once (main.go 65)
R_stop ==
    /\ ~stopClosed
    /\ stopClosed' = TRUE
    /\ UNCHANGED <<kv, evictKey, pc, list, vote, batches, submits>>

\* the select takes the closed stopChan and run returns (lines 50-51)
R_exit ==
    /\ pc[Runner] = "sleep" /\ stopClosed
    /\ Goto(Runner, "stopped")
    /\ UNCHANGED <<kv, evictKey, list, vote, batches, submits, stopClosed>>

\* second half of Get (store.go 78-81)
Evict(a) ==
    /\ evictKey[a] # Absent
    /\ kv' = [kv EXCEPT ![evictKey[a]] = Absent]
    /\ evictKey' = [evictKey EXCEPT ![a] = Absent]
    /\ UNCHANGED <<pc, list, vote, batches, submits, stopClosed>>

Tick ==
    /\ kv' = [k \in StoreKeys |-> IF kv[k] = Absent THEN Absent
                                  ELSE [kv[k] EXCEPT !.ttl = KV!AgeTTL(@)]]
    /\ UNCHANGED <<evictKey, pc, list, vote, batches, submits, stopClosed>>

\* steps of a call already under way
InFlight(a) ==
    \/ SV_elig(a) \/ SV_getPend(a) \/ SV_setPend(a) \/ SV_setVote(a)
    \/ PB_setBatch(a) \/ PB_setVotes(a) \/ PB_del(a) \/ Evict(a)

Next ==
    \/ \E p \in Procs :
          \/ \E v \in Votes : SV_replay(p, v)
          \/ GR_getPend(p)
    \/ \E a \in Actors : PB_get(a) \/ InFlight(a)
    \/ R_wake \/ R_scan \/ R_stop \/ R_exit
    \/ Tick

\* No liveness is checked: the runner's scan never selects a key (Selects
\* is FALSE for every key the code builds), so its only progress to check,
\* the exit after Stop, would be the select's fairness restated.
Spec == Init /\ [][Next]_vars

=============================================================================
