CONSTANTS
    Tasks = {t1}
    Plugins = {p1, p2, p3, p4}
    NoPlugin = NoPlugin
SPECIFICATION Spec
SYMMETRY Symmetry
INVARIANTS
    LoaderInv
