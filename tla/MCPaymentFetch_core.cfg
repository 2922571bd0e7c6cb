SPECIFICATION FairSpec
CONSTANTS
    Plugins <- BothPlugins
    PageSize = 2
    Second = 2
    ChildStatuses <- Children
    History = 3
    MaxTransactions = 5
    MaxErrors = 1
INVARIANTS TypeOK AmountsNet NothingSkippedUnlessDisturbed PaymentBeforeItsReports StatusIsCurrent
PROPERTY EventuallyIngested
CHECK_DEADLOCK FALSE
