\* One operation whose script begins with a statement of its own, two runs and three stops of them.
SPECIFICATION PreviewSpec
CONSTANTS
    o1 = o1
    o2 = o2
    Ops = {o1}
    NoOp = NoOp
    Built <- Scripts
    NoRest = NoRest
    Longest = 4
    MaxPreviews = 2
    MaxRequests = 5
PROPERTY ShortNeverDone
CHECK_DEADLOCK FALSE
