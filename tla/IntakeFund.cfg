CONSTANTS
  r1 = r1
  r2 = r2
  r3 = r3
  d1 = d1
  d2 = d2
  d3 = d3
  px = px
  py = py
  Registrars <- RegistrarsMC
  Services <- RegistrarsMC
  Uses <- UsesFund
  Packages = {"p1", "p2", "p3", "p4", "p5", "p6"}
  Documents = {d1, d2, d3}
  Payloads = {px, py}
  Channels = {"email", "upload"}
  Times = {1, 2}
  Ids <- IdsMC
  Names <- NamesMC
  Norm <- NormMC
  Slug <- SlugMC
  None = None
  MayCrash = FALSE
SPECIFICATION Spec
PROPERTY FundStaysWithItsFirm
CHECK_DEADLOCK FALSE
