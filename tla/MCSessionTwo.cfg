SPECIFICATION MCSpec
CONSTANTS
  c1 = c1
  c2 = c2
  m1 = m1
  m2 = m2
  r1 = r1
  r2 = r2
  Roots <- TwoRoots
  Files = {"PKGBUILD"}
  Pkgbuild = "PKGBUILD"
  Contents = {c1}
  Modes = {m1}
  Absent = Absent
  Opaque = Opaque
  Folder = Folder
  Fifo = Fifo
  NoReceipt = NoReceipt
  NotRead = NotRead
  MaxEdits = 1
  MaxArchives = 1
  RuleFindings <- MCRuleFindings
INVARIANTS
  ReceiptsAreApproved
  BuildsAreAudited
PROPERTY
  KeepsPromise
CHECK_DEADLOCK FALSE
