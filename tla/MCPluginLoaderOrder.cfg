CONSTANTS
    Tasks = {t1}
    Plugins = {p1, p2}
    NoPlugin = NoPlugin
SPECIFICATION Spec
INVARIANTS
    DeactivatedInReverse
