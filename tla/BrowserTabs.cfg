SPECIFICATION BrowserSpec
CONSTANTS
    None = None
    Gate = TRUE
    MailTokens = {}
    Sessions = {s1, s2, s3}
    First = s1
    Requests = {c1, c2}
    Counted = {}
    Limit <- MCLimit
    Guesses = {0}
    Aging = {s2}
    Tabs = {t1}
    MaxLosses = 1
SYMMETRY MCSymmetry
INVARIANTS
    CookieAccountedFor
CHECK_DEADLOCK FALSE
