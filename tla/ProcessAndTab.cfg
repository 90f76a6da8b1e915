\* Three attempts of one address within the windows of two ticks, two imports for one place, two snapshots,
\* a tab that two accounts use, and a dialog with two operations and three requests.
SPECIFICATION LiveSpec
CONSTANTS
    Attempts = {q1, q2, q3}
    Addresses = {ip1}
    Users = {u1}
    NoWindow = NoWindow
    UserMax = 1
    IpMax = 2
    Window = 1
    MaxNow = 2
    Imports = {i1, i2}
    Slots = 1
    Events = 2
    Beats = 1
    Takers = {t1, t2}
    Scopes = {s1}
    NoSnapshot = NoSnapshot
    Total = 3
    Most = 2
    MaxCount = 2
    Ttl = 1
    MaxTime = 2
    Accounts = {a1, a2}
    Prefs = {p1}
    Entries = {k1}
    Nobody = Nobody
    MaxChanges = 2
    MaxSends = 2
    MaxTurns = 2
    o1 = o1
    o2 = o2
    Ops = {o1, o2}
    NoOp = NoOp
    Built <- Scripts
    NoRest = NoRest
    Longest = 4
    MaxPreviews = 2
    MaxRequests = 3
INVARIANTS
    PartsTypeOK
    WindowExact FailuresBounded
    SlotsExact
    RoomKept
    OwnCookieOnly KeptUnlessCrossed
    RestIsExact
PROPERTIES
    WorkComesToItsEnd
    RoomGivenIsThere
    NothingUnseen DoneMeansWhole NeverSilent RunsComeToAnEnd
CHECK_DEADLOCK FALSE
