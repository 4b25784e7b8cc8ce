CONSTANTS
  a1 = a1
  a2 = a2
  c1 = c1
  c2 = c2
  Addrs = {a1, a2}
  Callers = {c1}
  MaxOpens = 3
  MaxPanics = 1
  Concurrent = FALSE
SPECIFICATION Spec
INVARIANTS
  RegisteredIffRunning
  CurrConsistent
