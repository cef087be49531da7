SPECIFICATION Spec
CONSTANT
    Scenarios <- Processes
    Workers = {"w1", "w2"}
    Readers = {"r1"}
CHECK_DEADLOCK FALSE
INVARIANTS TypeOK CoresWellChosen StopIsComplete
PROPERTIES EveryTaskRuns TimersOnTime EveryTimerFires 
