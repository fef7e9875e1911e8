CONSTANTS
  t1 = t1  t2 = t2   c1 = c1  c2 = c2
  Tokens = {t1, t2}
  NoToken = NoToken
  Callers = {c1}
  Attempt = 1
  RetryAttempts = 1
  RetryMaxBackoff = 1
  RetryMaxDuration = 1
  Margin = 1
  CreateVmDelay = 0
  RecreateVmDelay = 0
  Soon = 1
  Long = 1
  MaxCalls = 2
  Faults = {"crash", "send", "lost reply"}
SPECIFICATION MCFairSpec
CHECK_DEADLOCK FALSE
PROPERTIES
  DemandServed
  DeleteServed
