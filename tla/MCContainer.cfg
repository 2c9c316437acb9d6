CONSTANTS
    root = root
    child = child
    ka = ka
    kb = kb
    NoOne = NoOne
    Threads = {t1, t2}
    Containers = {root, child}
    Lineage <- ChildOfRoot
    Keys = {ka, kb}
    Bindings <- Wiring
SPECIFICATION FairSpec
INVARIANTS
    ContainerInv
    OncePerContainer
    CyclicNeverBuilt
PROPERTIES
    ResolveEnds
