CONSTANTS
  i1 = i1
  i2 = i2
  v1 = v1
  v2 = v2
  r1 = r1
  r2 = r2
  Intents = {i1, i2}
  Versions = {v1, v2}
  SourceOf <- MCSourceOf
  Affected <- MCAffected
  Irreversible = {i1}
  HighRisk = {}
  Requests = {r1, r2}
SYMMETRY MCSymmetry
SPECIFICATION Spec
INVARIANTS
  StatusTellsReceipts
  RemediationIsOwed
  CommittedIsOwed
  ApprovedBeforeWork
PROPERTIES
  LegalObligations
