CONSTANTS
  f1 = f1
  f2 = f2
  f3 = f3
  first = first
  second = second
  Paths <- PathsMC
  Elsewhere = Elsewhere
  Pulls <- PullsMC
  Uses <- UsesMC
  Budget = 2
  MaxChunks = 2
  MaxRequests = 3
  MaxCounts = 5
  InputLength = 4
  Answers <- AnswersMC
  Syntheses <- SynthesesMC
  Slots <- SlotsMC
  Spare = Spare
  Nobody = Nobody
SPECIFICATION VerifierSpec
INVARIANTS PassRestsOnReviews FindingsSurvive RangesCoverInput
CHECK_DEADLOCK FALSE
