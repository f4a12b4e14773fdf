------------------------------- MODULE Signer -------------------------------
(***************************************************************************)
(* The EIP-712 licence signer of src/internal/auth/eip32.go, as the        *)
(* licence routes build it (api/license.go 198-211), and the vote          *)
(* signature check of src/internal/core/vote_service.go 224-295.           *)
(*                                                                         *)
(* Hashing and ECDSA are abstracted to what they are relied on for:        *)
(*  - a digest (keccak256 of the typed data, or of the vote text) is the   *)
(*    tuple of everything hashed, so two digests are equal exactly when    *)
(*    their inputs are;                                                    *)
(*  - crypto.Sign(digest, key) yields r||s, standing for (key, digest,     *)
(*    recovery id), and the 65th byte v, the recovery id 0 or 1;           *)
(*  - crypto.SigToPub (go-ethereum, cgo build) refuses a v of 4 or more    *)
(*    (ErrInvalidRecoveryID), returns the signer's key for the right       *)
(*    digest and recovery id, and some other key otherwise.               *)
(* Keys and addresses are model values: PubkeyToAddress is injective.     *)
(*                                                                         *)
(* The state is what is shared: the 65-byte signature buffer of each       *)
(* issued authorization.  CreateLicenseSignature returns r, s and v as     *)
(* slices of that buffer, and VerifySignature's append(sigR, sigS...)      *)
(* writes into it (sigR has capacity 65), so its v adjustment changes the  *)
(* caller's v.  Verifier goroutines take that adjustment as the separate   *)
(* memory accesses it compiles to.                                         *)
(***************************************************************************)
EXTENDS Integers

CONSTANTS
    Users,        \* user and voter addresses (each one its wallet's key)
    SignerKey,    \* the key the licence routes' signer is built from
    Contract,     \* config LicenseNFTAddress, the verifying contract
    ToolIds,      \* tool ids signed over
    Nonces,       \* nonces signed over
    ExpiresAt,    \* the expiresAt signed over (one value)
    ChainId,      \* config ChainID, mixed into the vote digest
    Verifiers,    \* goroutines calling VerifySignature
    Stranger,     \* the key SigToPub recovers from a mismatched signature
    RecoverError, \* SigToPub's error
    Absent

Keys == Users \cup {SignerKey}

\* a uint8, as Go stores it
Byte == 0..255

\* the 11155111 that setupLicenseRoutes passes as the chain id (license.go 200)
RouteChainId == 11155111

\* NewSigner's domain (eip32.go 39-44)
Domain(chainId, contract) ==
    [name |-> "SkillChainLicense", version |-> "1",
     chainId |-> chainId, verifyingContract |-> contract]

\* the signed quadruple of a MintLicense message
Msgs == [user : Users, toolId : ToolIds, expiresAt : {ExpiresAt}, nonce : Nonces]

\* keccak256("\x19\x01" || HashStruct(domain) || HashStruct(MintLicense))
\* (eip32.go 84-96 and 155-166)
TypedDataHash(domain, m) == <<"EIP712", domain, m>>

\* keccak256 of the "Vote\nTool: ...\nChain: ..." text (vote_service.go 283-295)
VoteMessageHash(voter, toolId, nonce) == <<"Vote", toolId, voter, nonce, ChainId>>

\* crypto.SigToPub(digest, r||s||v)
SigToPub(digest, rs, v) ==
    CASE v >= 4                                -> RecoverError
      [] v = rs.rid /\ digest = rs.digest      -> rs.key
      [] OTHER                                 -> Stranger

\* "if v < 27 { v += 27 }" (eip32.go 109-111, vote_service.go 259-261)
RaiseV(v) == IF v < 27 THEN v + 27 ELSE v

\* the signer the licence routes hold: NewSigner(cfg.JWTSecret, 11155111,
\* LicenseNFTAddress) (license.go 198-211, eip32.go 21-46)
LicenseDomain == Domain(RouteChainId, Contract)

VARIABLES
    buf,          \* buf[m]: the signature buffer issued for m, or Absent
    pc,           \* pc[p]: the step verifier p runs next
    job,          \* job[p]: [buf, claimed] p verifies, or Absent
    loaded,       \* loaded[p]: the v byte p loaded for "-= 27"
    result,       \* result[p]: [buf, claimed, verdict] p last returned, or Absent
    voteResult    \* the last verifyVoteSignature call and its verdict, or Absent

vars == <<buf, pc, job, loaded, result, voteResult>>

Init ==
    /\ buf = [m \in Msgs |-> Absent]
    /\ pc = [p \in Verifiers |-> "idle"]
    /\ job = [p \in Verifiers |-> Absent]
    /\ loaded = [p \in Verifiers |-> 0]
    /\ result = [p \in Verifiers |-> Absent]
    /\ voteResult = Absent

-----------------------------------------------------------------------------
(* CreateLicenseSignature (eip32.go 48-114), as RequestLicense calls it   *)
(* once per nonce: a fresh buffer, signed with the routes' key over the    *)
(* routes' domain, whose v byte is raised to 27 or 28 in place.           *)
CreateLicenseSignature(m) ==
    /\ buf[m] = Absent
    /\ \E rid \in {0, 1} :
          buf' = [buf EXCEPT ![m] =
                    [rs |-> [key |-> SignerKey, digest |-> TypedDataHash(LicenseDomain, m),
                             rid |-> rid],
                     v |-> RaiseV(rid)]]
    /\ UNCHANGED <<pc, job, loaded, result, voteResult>>

-----------------------------------------------------------------------------
(* VerifySignature (eip32.go 116-184) on the slices of a buffer, for a     *)
(* claimed message.  The hashing is CPU only; the shared accesses are the  *)
(* test "signature[64] >= 27", the load and the store of "-= 27", and      *)
(* SigToPub's read.                                                        *)

VS_start(p, m, claimed) ==
    /\ pc[p] = "idle" /\ buf[m] # Absent
    /\ job' = [job EXCEPT ![p] = [buf |-> m, claimed |-> claimed]]
    /\ pc' = [pc EXCEPT ![p] = "check"]
    /\ UNCHANGED <<buf, loaded, result, voteResult>>

\* Mutant of VS_check: the v adjustment without its ">= 27" test.
VS_checkAlways(p) ==
    /\ pc[p] = "check"
    /\ pc' = [pc EXCEPT ![p] = "load"]
    /\ UNCHANGED <<buf, job, loaded, result, voteResult>>

\* if signature[64] >= 27 (line 173)
VS_check(p) ==
    /\ pc[p] = "check"
    /\ pc' = [pc EXCEPT ![p] = IF buf[job[p].buf].v >= 27 THEN "load" ELSE "recover"]
    /\ UNCHANGED <<buf, job, loaded, result, voteResult>>

\* signature[64] -= 27 (line 174): load ...
VS_load(p) ==
    /\ pc[p] = "load"
    /\ loaded' = [loaded EXCEPT ![p] = buf[job[p].buf].v]
    /\ pc' = [pc EXCEPT ![p] = "store"]
    /\ UNCHANGED <<buf, job, result, voteResult>>

\* ... and store, wrapping as a uint8
VS_store(p) ==
    /\ pc[p] = "store"
    /\ buf' = [buf EXCEPT ![job[p].buf].v = (loaded[p] - 27) % 256]
    /\ pc' = [pc EXCEPT ![p] = "recover"]
    /\ UNCHANGED <<job, loaded, result, voteResult>>

\* SigToPub, and the recovered address compared with the signer's
\* (lines 177-183)
VS_recover(p) ==
    /\ pc[p] = "recover"
    /\ LET b == buf[job[p].buf]
           key == SigToPub(TypedDataHash(LicenseDomain, job[p].claimed), b.rs, b.v)
           verdict == CASE key = RecoverError -> "error"
                        [] key = SignerKey    -> "true"
                        [] OTHER              -> "false"
       IN result' = [result EXCEPT ![p] = [buf |-> job[p].buf, claimed |-> job[p].claimed,
                                           verdict |-> verdict]]
    /\ pc' = [pc EXCEPT ![p] = "idle"]
    /\ job' = [job EXCEPT ![p] = Absent]
    /\ UNCHANGED <<buf, loaded, voteResult>>

-----------------------------------------------------------------------------
(* verifyVoteSignature (vote_service.go 224-280) on a vote a wallet signed *)
(* over the vote text: with v as crypto.Sign gives it (0 or 1) or as       *)
(* wallets give it (27 or 28).  The hex decode and length checks pass for  *)
(* such a signature; the recovered address must be the voter's.           *)
VerifyVoteSignature(signer, voter, toolId, nonce, vForm) ==
    /\ \E rid \in {0, 1} :
          LET rs == [key |-> signer, digest |-> VoteMessageHash(voter, toolId, nonce),
                     rid |-> rid]
              key == SigToPub(VoteMessageHash(voter, toolId, nonce), rs,
                              RaiseV(rid + vForm))
              verdict == CASE key = RecoverError -> "failed to recover public key"
                           [] key # voter        -> "signature does not match voter address"
                           [] OTHER              -> "valid"
          IN voteResult' = [signer |-> signer, voter |-> voter, verdict |-> verdict]
    /\ UNCHANGED <<buf, pc, job, loaded, result>>

Next ==
    \/ \E m \in Msgs : CreateLicenseSignature(m)
    \/ \E p \in Verifiers :
          \/ \E m, c \in Msgs : VS_start(p, m, c)
          \/ VS_check(p) \/ VS_load(p) \/ VS_store(p) \/ VS_recover(p)
    \/ \E k \in Keys, u \in Users, t \in ToolIds, n \in Nonces, f \in {0, 27} :
          VerifyVoteSignature(k, u, t, n, f)

Spec == Init /\ [][Next]_vars

-----------------------------------------------------------------------------
(* Properties.                                                             *)

\* Sign-then-verify (spec 8): VerifySignature on the r, s, v that
\* CreateLicenseSignature returned answers true for the signed message and
\* false for any altered field, however often the same slices are
\* verified; this rests on the in-place "-= 27" being guarded by ">= 27".
SignVerifyRoundTrip ==
    \A p \in Verifiers :
        result[p] # Absent =>
            result[p].verdict = IF result[p].claimed = result[p].buf THEN "true" ELSE "false"

\* A vote signed by its voter passes the signature check (spec 4.4:
\* reject only when the recovered address differs from the voter's).
VoteSignatureAccepted ==
    voteResult # Absent /\ voteResult.signer = voteResult.voter => voteResult.verdict = "valid"

=============================================================================
