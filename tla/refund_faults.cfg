CONSTANTS
  t1 = t1
  p1 = p1
  p2 = p2
  noTxn = noTxn
  Txns = {t1}
  Processes = {p1, p2}
  Accepts = TRUE
  Faults <- AllFaults
  NoTxn = noTxn
SPECIFICATION RSpec
INVARIANTS RefundsRecorded RefundsReal
PROPERTIES RefundFinal RefundCompletes
CHECK_DEADLOCK FALSE
