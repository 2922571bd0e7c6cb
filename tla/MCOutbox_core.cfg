SPECIFICATION FairSpec
CONSTANTS
    e1 = e1  e2 = e2  p1 = p1  p2 = p2
    Events <- MCEvents
    ConnectorEvents <- MCConnectorEvents
    Publishers <- MCPublishers
    BatchSize = 1
    MaxRetries = 2
    MaxFailures = 3
    MaxAborts = 2
INVARIANTS TypeOK SentWasDelivered NothingLost FailedAfterRetries
PROPERTIES ImplementsEventDelivery EventuallySettled
CHECK_DEADLOCK FALSE
