CONSTANTS
    Users = {u1}
    SignerKey = SignerKey
    Contract = Contract
    ToolIds = {42, 43}
    Nonces = {1}
    ExpiresAt = 5
    ChainId = 11155111
    Verifiers = {p1}
    Stranger = Stranger
    RecoverError = RecoverError
    Absent = Absent
SPECIFICATION Spec
INVARIANT VoteSignatureAccepted
SYMMETRY Symmetric
