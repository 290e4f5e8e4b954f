\* One row, three slots on two processes, two attempts, two faults.
CONSTANTS
  w1 = w1
  w2 = w2
  s1 = s1
  s2 = s2
  s3 = s3
  t1 = t1
  Jobs = {j1}
  Slots = {s1, s2, s3}
  Workers = {w1, w2}
  WorkerOf <- MCWorkerOf
  TenantOf <- MCTenantOf
  MaxAttempts = 2
  MaxFaults = 2
  NoJob = NoJob
  NoWorker = NoWorker
  NoTenant = NoTenant
SPECIFICATION RuntimeSpec
INVARIANTS
  SingleHolder
PROPERTIES
  KeepsContract
  EveryJobSettles
CHECK_DEADLOCK FALSE
