\* Diagnoses saved while a session reads them.
SPECIFICATION FairSpec
CONSTANTS
    a = a
    first = first
    second = second
    checkout = checkout
    cart = cart
    gateway = gateway
    sha = sha
    Incidents = {a}
    Investigations = {first, second}
    IncidentOf <- SameIncident
    Observations <- Windows
    Nobody = Nobody
    NoDeploy = NoDeploy
    Lines <- ClientLines
    MaxPieces = 1
    MaxLines = 2
INVARIANTS
    TypeOK
    AnswerIsTrue
    OneReplyPerLine
    AnswersAgree
    AtMostOneAfterCancel
PROPERTIES
    PublishedOnce
    EverythingEnds
\* The session and the investigations end; nothing runs after them.
CHECK_DEADLOCK FALSE
