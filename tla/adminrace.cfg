CONSTANTS
  t1 = t1
  w1 = w1
  w2 = w2
  a1 = a1
  a2 = a2
  g1 = g1
  g2 = g2
  m1 = m1
  Tx = {t1}
  NoTx = NoTx
  NoWorker = NoWorker
  NoGroup = NoGroup
  Workers = {w1}
  Admins = {a1}
  ApiGroups = {g1}
  ManualGroups = {m1}
  MaxRoutes = 1
  Env = {"adminRace", "parentStaff", "ackLost", "reject", "readError", "writeError"}
SPECIFICATION Spec
CHECK_DEADLOCK FALSE
INVARIANTS CompletedMeansPaidOut
