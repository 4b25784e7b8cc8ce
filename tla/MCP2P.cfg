CONSTANTS
  nA = nA
  nB = nB
  NoInfo = NoInfo
  Nodes = {nA, nB}
  Us = nA
  Infos <- MCInfos
  Senders = {s1, s2}
  Chans = {1, 2, 3}
  MaxMsgs = 2
SPECIFICATION Spec
INVARIANTS
  AcceptedPeerOk
  ConnReleased
  NoRemoteUnknownChannel
PROPERTIES
  EventuallyDecided
CHECK_DEADLOCK FALSE
