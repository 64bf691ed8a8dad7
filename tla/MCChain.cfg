\* Three hops; a chain is dialled and closed once, then there is nothing to do.
SPECIFICATION AnsweringSpec
CONSTANT N = 3
INVARIANTS
    NoLeak
    HandedOutStaysOpen
PROPERTIES
    ImplementsDial
    DialReturns
CHECK_DEADLOCK FALSE
