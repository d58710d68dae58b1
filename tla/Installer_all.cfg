SPECIFICATION Spec
CONSTANTS
  r1 = r1
  r2 = r2
  r3 = r3
  Revs = {r1, r2, r3}
  Content <- MCContent
  NoRev = NoRev
  MaxOps = 3
  MaxTroubles = 2
INVARIANT InstalledIsRunning
INVARIANT RecordIsCheckout
INVARIANT TokensAgree
PROPERTY GatewayServes
CHECK_DEADLOCK FALSE
