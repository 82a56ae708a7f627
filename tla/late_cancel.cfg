CONSTANTS
  t1 = t1
  t2 = t2
  e1 = e1
  e2 = e2
  r1 = r1
  r2 = r2
  Task = {t1}
  Emp = {e1}
  Req = {r1, r2}
  Key = {t1, e1}
  Free = Free
  Orphan = Orphan
  NoTask = NoTask
  NoEmp = NoEmp
  Amounts = {1}
  Channels = {"web", "app"}
  MaxFaults = 2
SPECIFICATION Spec
CHECK_DEADLOCK FALSE
PROPERTIES RejectsAccepted
