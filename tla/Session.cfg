SPECIFICATION FairSpec
CONSTANT
    Scenarios <- Safety
CHECK_DEADLOCK FALSE
INVARIANTS TypeOK CacheComplete
PROPERTIES TargetNeverFalls InOrderOnce DeliverLoggedOn GapFillsHideNothing NoLimbo
