\* Imports of one repository for two services, and the reads of a diagnosis.
SPECIFICATION Spec
CONSTANTS
    i1 = i1
    i2 = i2
    i3 = i3
    checkout = checkout
    cart = cart
    Imports = {i1, i2, i3}
    Services = {checkout, cart}
    Shas = {1, 2}
    Ids <- Numbers
    KeyText <- Texts
    CommittedAt <- Pushes
    DeployedAt <- Instants
    Deployed <- Installs
    Request <- Requests
    Page = 3
    Lookback = 2
    Limit = 2
    Nobody = Nobody
INVARIANTS
    NoImportDeadlock
    OnlyTheOldestAreMissed
    NearestIsBlamed
\* The command ends; nothing runs after the last import.
CHECK_DEADLOCK FALSE
