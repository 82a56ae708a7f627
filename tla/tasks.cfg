CONSTANTS
  t1 = t1
  t2 = t2
  e1 = e1
  e2 = e2
  r1 = r1
  r2 = r2
  Task = {t1, t2}
  Emp = {e1, e2}
  Req = {r1, r2}
  Key = {t1, t2, e1, e2}
  Free = Free
  Orphan = Orphan
  NoTask = NoTask
  NoEmp = NoEmp
  Amounts = {1, 2}
  Channels = {"web", "app"}
  MaxFaults = 1
SPECIFICATION SmallSpec
SYMMETRY Symmetry
CHECK_DEADLOCK FALSE
INVARIANTS TypeOK OneActiveTask CustomerEven CompletedIsWhole CompletedOnce 
PROPERTIES ClosedStays
