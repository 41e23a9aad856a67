SPECIFICATION WalletSpec
CONSTANTS
  Threads = {t1, t2}
  MaxNonce = 3
  MaxRestarts = 2
INVARIANT StartFailsOnlyOnFault
PROPERTY IssuedOnce
CHECK_DEADLOCK FALSE
