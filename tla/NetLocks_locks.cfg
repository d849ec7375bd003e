SPECIFICATION FairSpec
PROPERTY CloseStopsThreads
CHECK_DEADLOCK FALSE
