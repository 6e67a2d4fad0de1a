\* Two signed accounts and an unsigned origin, a one-byte and a two-byte
\* claim, blocks 0 and 1, and a 2-bit Something (u32::MAX = 3) so that
\* cause_error reaches StorageOverflow.
CONSTANTS
    Accounts = {a1, a2}
    NoneOrigin = NoneOrigin
    Claims <- MCClaims
    MaxProofLength = 1
    MaxBlock = 1
    SomethingBits = 2
    NoProof = NoProof
    NoValue = NoValue
    NoClaim = NoClaim
SPECIFICATION Spec
INVARIANT ProofLengthBounded
