CONSTANTS
    Builds = {b1, b2}
    root = root
    child = child
    Containers = {root, child}
    Parent <- ChildOfRoot
    ClientKeys <- SomeKeys
    good = good
    unfit = unfit
    Plugins = {good, unfit}
    Knobs <- SomeKnobs
    Unfit = {unfit}
    Flags = {f}
    Client = Client
    NoOne = NoOne
SPECIFICATION Spec
SYMMETRY Symmetry
CHECK_DEADLOCK FALSE
INVARIANTS
    BuilderInv
    OneWinner
    SettingsDecideFlags
