\* One promotion and one invalidation: the promise of fresh Evidence to every promotion.
CONSTANTS
  v1 = v1
  v2 = v2
  doc = doc
  policyA = policyA
  sql = sql
  f1 = f1
  g1 = g1
  None = None
  Versions = {v1, v2}
  Logicals = {doc}
  Branches = {main}
  Policies = {policyA}
  Verifiers = {sql}
  Fingerprints = {f1, g1}
  Output <- MCOutput
  Key <- MCKey
  Affected <- MCAffected
  Imported = {v2}
  Promoters = {p1}
  Invalidators = {n1}
SPECIFICATION Spec
PROPERTY
  PromotionUsesFreshEvidence
CHECK_DEADLOCK FALSE
