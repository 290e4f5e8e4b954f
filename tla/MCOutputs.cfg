\* Two promotions and one invalidation at a time of two versions of one Output.
CONSTANTS
  v1 = v1
  v2 = v2
  doc = doc
  policyA = policyA
  sql = sql
  f1 = f1
  g1 = g1
  None = None
  Versions = {v1, v2}
  Logicals = {doc}
  Branches = {main}
  Policies = {policyA}
  Verifiers = {sql}
  Fingerprints = {f1, g1}
  Output <- MCOutput
  Key <- MCKey
  Affected <- MCAffected
  Imported = {v2}
  Promoters = {p1, p2}
  Invalidators = {n1}
SYMMETRY RequestSymmetry
SPECIFICATION Spec
INVARIANTS
  HeadsArePublished
  FirstPromotionIsSupported
PROPERTIES
  InvalidatedIsFinal
  FirstPromotionUsesFreshEvidence
  HeadMovesFromExpected
  InvalidationReaches
CHECK_DEADLOCK FALSE
