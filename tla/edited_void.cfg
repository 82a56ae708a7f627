CONSTANTS
  d1 = d1
  d2 = d2
  r1 = r1
  r2 = r2
  Req = {r1}
  Deposit = {d1}
  NoDeposit = NoDeposit
  Nobody = Nobody
  Voided = Voided
  Orphan = Orphan
  Amounts = {1, 2}
  MaxFaults = 0
SPECIFICATION Spec
CHECK_DEADLOCK FALSE
INVARIANTS VoidLeavesNothing
