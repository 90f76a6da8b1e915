\* One account, one preference, two requests under way.
SPECIFICATION PrefsSpec
CONSTANTS
    Accounts = {a1}
    Prefs = {p1}
    Entries = {k1}
    Nobody = Nobody
    MaxChanges = 2
    MaxSends = 2
    MaxTurns = 1
INVARIANTS FailedSendKeepsChange
CHECK_DEADLOCK FALSE
