SPECIFICATION FairSpec
CONSTANTS
  m1 = m1
  m2 = m2
  r1 = r1
  r2 = r2
  t1 = t1
  t2 = t2
  i1 = i1
  Null = Null
  Machines = {m1, m2}
  Records = {r1, r2}
  Tokens = {t1, t2}
  Instances = {i1}
  MachineOf <- OneEach
  MaxValues = 2
  MaxDeliveries = 2
  MaxKills = 1
INVARIANTS TypeOK OnePerToken
PROPERTIES NewOwnerFirst OwnerIsTold
CHECK_DEADLOCK FALSE
