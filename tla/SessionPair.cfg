SPECIFICATION FairSpec
CONSTANT
    Scenarios <- Recoveries
CHECK_DEADLOCK FALSE
INVARIANTS TypeOK NeverAhead
PROPERTIES DeliversInOrder LoggedOnForGood AllDelivered
