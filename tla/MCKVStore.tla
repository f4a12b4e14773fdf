----------------------------- MODULE MCKVStore -----------------------------
(* Model-checking instance of KVStore: two concurrent callers, two keys,   *)
(* one opaque value and ttl arguments 0 and 1 (an entry set with ttl 0     *)
(* expires at the next tick; with ttl 1 it survives one tick).             *)
EXTENDS KVStore

MCKeys == {"k1", "k2"}
MCTTLs == {0, 1}
=============================================================================
