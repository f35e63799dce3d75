SPECIFICATION MCFairSpec
CONSTANTS
  c1 = c1
  c2 = c2
  m1 = m1
  m2 = m2
  r1 = r1
  r2 = r2
  Roots <- OneRoot
  Files = {"PKGBUILD", "x"}
  Pkgbuild = "PKGBUILD"
  Contents = {c1, c2}
  Modes = {m1, m2}
  Absent = Absent
  Opaque = Opaque
  Folder = Folder
  Fifo = Fifo
  NoReceipt = NoReceipt
  NotRead = NotRead
  MaxEdits = 2
  MaxArchives = 2
  RuleFindings <- MCRuleFindings
INVARIANTS
  TypeOK
  ReceiptsAreComplete
  RunsReviewedFiles
  ClearedArchivesAreGood
PROPERTIES
  ClearedTreeWasVerified
  NoStepHangs
CHECK_DEADLOCK FALSE
