CONSTANTS
  d1 = d1
  d2 = d2
  r1 = r1
  r2 = r2
  Req = {r1, r2}
  Deposit = {d1, d2}
  NoDeposit = NoDeposit
  Nobody = Nobody
  Voided = Voided
  Orphan = Orphan
  Amounts = {1, 2}
  MaxFaults = 2
SPECIFICATION Spec
SYMMETRY Symmetry
CHECK_DEADLOCK FALSE
INVARIANTS TypeOK DepositedOnce BalanceFollowsRows 
