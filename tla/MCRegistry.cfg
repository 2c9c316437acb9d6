CONSTANTS
    Threads = {t1, t2}
    Keys = {k1}
    Titles = {this, that}
    Statuses = {enabled, disabled}
    Values <- Capabilities
    Observers = {o1, o2}
    NoValue = NoValue
    NoCall = NoCall
    MaxChanges = 3
    MaxDepth = 2
SPECIFICATION CapSpec
CHECK_DEADLOCK FALSE
SYMMETRY Symmetry
INVARIANTS
    CapInv
    ExactlyOnce
    OrderPerThread
    OnlyOverlapLoses
