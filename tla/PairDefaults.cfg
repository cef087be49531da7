SPECIFICATION FairSpec
CONSTANT
    Scenarios <- Defaults
CHECK_DEADLOCK FALSE
PROPERTIES LoggedOnForGood
