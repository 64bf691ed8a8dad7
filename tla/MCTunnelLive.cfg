\* One request, nobody clicks Reconnect.  The tunnel stops for good.
SPECIFICATION FairSpec
CONSTANTS
    Requests = {r1}
    Clients = {c1, c2, c3}
    Users = {}
    None = None
PROPERTIES
    StopTerminates
    RequestsAnswered
    DeadLinkClosed
    Recovers
    ImplementsService
CHECK_DEADLOCK FALSE
