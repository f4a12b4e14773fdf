--------------------------- MODULE MCVoteService ----------------------------
(* Model-checking instance of VoteService.  Durations keep the code's      *)
(* order (2 x 5 min < 24 h) at 2 < 3 ticks, so the pending list can lapse  *)
(* while a vote record still runs, and a vote record can lapse in turn.   *)
(* Tool is the decimal id "42"; the runner builds "pending:vote:42".       *)
EXTENDS VoteService, TLC

\* the hex ids of the votes in string order, and their scores: one up-
\* and one downvote, so a sum that drops or repeats a vote is seen
MCVoteId == CHOOSE f \in [Votes -> 1..Cardinality(Votes)] :
                \A v, w \in Votes : f[v] = f[w] => v = w
MCVoteScore == [v \in Votes |-> IF MCVoteId[v] = 1 THEN 1 ELSE -1]

\* Goroutines run the same code.
Symmetric == Permutations(Procs)
=============================================================================
