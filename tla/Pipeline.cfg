CONSTANTS
  People = {ana}
  Unowned = Unowned
  Bundles <- BundlesMC
  Contents <- ContentsMC
  Workbooks <- WorkbooksMC
  Month <- MonthMC
  BaseConfig <- BaseConfigMC
  Profiles <- ProfilesMC
  NoFile = NoFile
  Providers = {p, q}
  Backend = p
  Stub = q
  NoProvider = NoProvider
  TotalLimits <- TotalLimitsMC
  FallbackLimits <- FallbackLimitsMC
  Deliveries <- DeliveriesMC
  KeyNumericFields = {"aum", "fee"}
  Texts <- TextsMC
  Number <- NumberMC
  NotANumber = NotANumber
  NoObservation = NoObservation
  TolerancePercent = 5
  KeyFields = {"aum", "fee"}
  Policy <- PolicyMC
SPECIFICATION PipelineSpec
INVARIANTS StateOK RetriesUsePolicyUp ResultTellsAttempts DisagreementEscalates NoContradictionUnseen ReviewMatchesVerdict ScoreRestsOnEvidence
CHECK_DEADLOCK FALSE
