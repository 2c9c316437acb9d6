CONSTANTS
    Publications = {p1, p2}
    s1 = s1
    s2 = s2
    Subscriptions = {s1, s2}
    Wants <- Wanted
    thing = thing
    subthing = subthing
    EventTypes = {thing, subthing}
    Supertypes <- Subclassing
    NoType = NoType
SPECIFICATION FairBusSpec
CHECK_DEADLOCK FALSE
INVARIANTS
    BusInv
    ReturnAccounts
    InPublishOrder
PROPERTIES
    Ends
