\* The commit of an irreversible effect and its compensation at once, on two slots,
\* each of which may take the fence of the resource from the other.
CONSTANTS
  i1 = i1
  r1 = r1
  w1 = w1
  jc = jc
  jr = jr
  jx = jx
  Jobs = {jc, jx}
  Slots = {s1, s2}
  Workers = {w1}
  WorkerOf <- MCWorkerOf
  MaxAttempts = 2
  NoJob = NoJob
  NoWorker = NoWorker
  Intents = {i1}
  Resources = {r1}
  ResourceOf <- MCResourceOf
  IntentOf <- MCIntentOf
  OriginOf <- MCOriginOf
  Irreversible = {i1}
  Compensable = {i1}
SYMMETRY SlotSymmetry
SPECIFICATION EffectSafetySpec
INVARIANTS
  ReceiptBacked
  ReceiptsAreTrue
  InDoubtIsOwned
  ExecutionNotForgotten
PROPERTIES
  WritesInOrder
  LegalTransitions
CHECK_DEADLOCK FALSE
