SPECIFICATION Spec
CONSTANTS
    None = None
    Gate = TRUE
    MailTokens = {m1, m2}
    Sessions = {s1, s2}
    Requests = {r1, r2}
    Counted = {"login"}
    Limit <- MCLimit
    Guesses = {0}
    Aging = {m2, s1}
SYMMETRY MCSymmetry
INVARIANTS
    SessionsAreVerified
    ResetEndsEarlierSessions
    LimitsHaveAnEnd
PROPERTIES
    SingleUse
CHECK_DEADLOCK FALSE
