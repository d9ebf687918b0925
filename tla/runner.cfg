SPECIFICATION FairSpec
CONSTANTS
  Pids = {1, 2, 3}
  r1 = r1
  r2 = r2
  Releases = {r1, r2}
  MaxKills = 1
  MaxReleases = 1
  MaxErrors = 1
  MaxRunners = 2
INVARIANTS TypeOK SingleService NoChildForgotten
PROPERTIES BinaryChangesWithoutChild ReleaseIsRun
CHECK_DEADLOCK FALSE
