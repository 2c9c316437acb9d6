CONSTANTS
    root = root
    child = child
    ka = ka
    kb = kb
    NoOne = NoOne
    Threads = {t1, t2}
    Containers = {root}
    Lineage <- Alone
    Keys = {ka, kb}
    Bindings <- FlatWiring
SPECIFICATION Spec
SYMMETRY Symmetry
INVARIANTS
    NoSpuriousCycle
