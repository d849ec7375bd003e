\* Two mods received in two chunks each, two runs, so that a run can meet an
\* abandoned one, and one end of the game.
CONSTANTS
  ModCount = 2
  ChunkCount = 2
  DiskFills = TRUE
  MaxFaults = 1
  MaxRuns = 2
  MaxQuits = 1
SPECIFICATION FairSpec
INVARIANTS DoneInstalled FailsForCause NoLeftovers
PROPERTIES EventuallyAnswered CancelledEnds
CHECK_DEADLOCK FALSE
