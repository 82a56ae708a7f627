CONSTANTS
  t1 = t1
  t2 = t2
  k1 = k1
  k2 = k2
  Tx = {t1}
  Ticks = {k1, k2}
  NoTx = NoTx
  NoTick = NoTick
  Orphan = Orphan
  MaxFaults = 2
  Env = {"noTransactions", "reverse", "slow", "crash", "error"}
SPECIFICATION FairSpec
CHECK_DEADLOCK FALSE
INVARIANTS TypeOK DoneMeansDone ReceiptsBounded ReceiptNotForgotten
PROPERTIES DoneStaysDone UndoneIsLeftAlone EffectsHappen
