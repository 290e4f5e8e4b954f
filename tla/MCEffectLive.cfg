\* A commit, a reconcile request and a compensation that the connector cannot do, on one slot.
CONSTANTS
  i1 = i1
  r1 = r1
  w1 = w1
  jc = jc
  jr = jr
  jx = jx
  Jobs = {jc, jr, jx}
  Slots = {s1}
  Workers = {w1}
  WorkerOf <- MCWorkerOf
  MaxAttempts = 2
  NoJob = NoJob
  NoWorker = NoWorker
  Intents = {i1}
  Resources = {r1}
  ResourceOf <- MCResourceOf
  IntentOf <- MCIntentOf
  OriginOf <- MCOriginOf
  Irreversible = {}
  Compensable = {}
SPECIFICATION EffectSpec
PROPERTIES
  EffectsAccounted
CHECK_DEADLOCK FALSE
