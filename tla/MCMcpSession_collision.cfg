\* The identifiers of the findings of one investigation.
SPECIFICATION Spec
CONSTANTS
    a = a
    first = first
    second = second
    checkout = checkout
    cart = cart
    gateway = gateway
    sha = sha
    Incidents = {a}
    Investigations = {first, second}
    IncidentOf <- SameIncident
    Observations <- AllWindows
    Nobody = Nobody
    NoDeploy = NoDeploy
    Lines <- ClientLines
    MaxPieces = 1
    MaxLines = 2
INVARIANTS
    NothingFoundIsRefused
CHECK_DEADLOCK FALSE
