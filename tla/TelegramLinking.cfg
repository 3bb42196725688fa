SPECIFICATION LinkSpec
CONSTANTS
    None = None
    Users = {1, 2}
    Chats = {c1, c2}
    LinkTokens = {k1, k2}
    Jobs = {j1, j2}
SYMMETRY MCSymmetry
INVARIANTS
    LinkRowsWhole
PROPERTIES
    LinkSingleUse
    ConnectedAsTold
    DisconnectedOnPurpose
CHECK_DEADLOCK FALSE
