CONSTANTS
    None = None
    Keys = {k1, k2}
    Nonces = {n1, n2}
    Requests = {r1, r2, r3, r4}
SPECIFICATION MCSpec
SYMMETRY AuthSymmetry
CHECK_DEADLOCK FALSE
INVARIANTS NonceSpentFirst RotatedIsRevoked LastWalletKept
PROPERTIES WalletKeepsItsUser
