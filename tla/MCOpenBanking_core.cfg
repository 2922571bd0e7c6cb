\* One user, every order of five calls, webhooks, crashes and repetitions.
SPECIFICATION FairSpec
CONSTANTS
    Plugins = {"plaid", "powens"}
    MaxConnections = 1
    MaxAttempts = 2
    MaxForwards = 2
    MaxEvents = 5
INVARIANTS
    TypeOK
    UserErased
    ConnectionErased
    ConnectorDataErased
    ForwardedUserAgrees
    ConnectionStatusIsCurrent
PROPERTIES
    DeletionDecided
CHECK_DEADLOCK FALSE
