------------------------------ MODULE MCSigner ------------------------------
(* Model-checking instance of Signer.  Two users and two tool ids give     *)
(* four messages, so every field a verifier may alter is covered; one     *)
(* nonce and one expiry are enough since they are hashed like the tool id. *)
EXTENDS Signer, TLC

\* the users' addresses are interchangeable (safety runs only)
Symmetric == Permutations(Users)
=============================================================================
