CONSTANTS
    Tasks = {t1, t2}
    MaxHooks = 4
SPECIFICATION FairServiceSpec
INVARIANTS
    ServiceInv
    StartOrder
    StopOrder
    DownWhenOver
    ServicesFollow
    ServicesStopInReverse
PROPERTIES
    PhaseForward
    ImplementsOrdered
    Settles
