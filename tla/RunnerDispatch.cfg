SPECIFICATION SpecMC
CONSTANTS
  c1 = c1
  c2 = c2
  Caller = {c1, c2}
  AttemptOf <- TwoRuns
  Snapshot <- Checklists
  Stored <- Legacy
  MaxHead = 2
  MaxFaults = 1
INVARIANTS TypeOK AttemptsAreBounded
PROPERTIES CompletionKeepsNewerOwner ReplaySpendsNothing StartsOnlyWhatItOwns WorkResumes
CHECK_DEADLOCK FALSE
