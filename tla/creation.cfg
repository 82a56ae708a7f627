CONSTANTS
  r1 = r1
  r2 = r2
  r3 = r3
  k1 = k1
  p1 = p1
  p2 = p2
  Req = {r1, r2}
  Keys = {k1}
  NoKey = NoKey
  PayLock = PayLock
  Key = {k1, PayLock}
  Free = Free
  Orphan = Orphan
  Payload = {p1, p2}
  Channels = {"merchant", "web", "app"}
  MaxFaults = 2
SPECIFICATION Spec
SYMMETRY Symmetry
CHECK_DEADLOCK FALSE
INVARIANTS TypeOK  ChargedForTransfers CooldownKept RefusalsAreTrue 
