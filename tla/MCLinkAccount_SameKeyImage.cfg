CONSTANTS
  L = L
  T = T
  k1 = k1
  k2 = k2
  k3 = k3
  kx = kx
  s1 = s1
  s2 = s2
  Tokens = {L, T}
  LinkToken = L
  KeyImages = {k1, k2, k3, kx}
  Chain <- MCChainSameKeyImage
  InitSubs = 2
  MaxSubs = 3
  MaxRescans = 1
  SubCallers = {s1}
SPECIFICATION Spec
INVARIANT ScanMatchesChain
