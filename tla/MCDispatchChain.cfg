CONSTANTS
  t1 = t1  t2 = t2   c1 = c1  c2 = c2
  Tokens = {t1, t2}
  NoToken = NoToken
  Callers = {c1, c2}
  Attempt = 2
  RetryAttempts = 2
  RetryMaxBackoff = 1
  RetryMaxDuration = 3
  Margin = 1
  CreateVmDelay = 2
  RecreateVmDelay = 1
  Soon = 2
  Long = 3
  MaxCalls = 2
  Faults = {"crash", "send"}
SPECIFICATION Spec
SYMMETRY MCTokens
CHECK_DEADLOCK FALSE
INVARIANTS
  DispatchTypeOK
  MarkerOutlastsChain
  LeaseOutlastsWorker
