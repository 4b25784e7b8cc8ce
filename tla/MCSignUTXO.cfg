CONSTANTS
  UTXO_DESTS_MAX_NUM = 2
  MaxDests = 3
  MaxTxs = 2
  Tokens = {"", "0x00000000000000000000000000000000000000aa"}
SPECIFICATION Spec
INVARIANTS
  DestsCheckedExactly
CHECK_DEADLOCK FALSE
