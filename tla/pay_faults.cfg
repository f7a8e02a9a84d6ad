CONSTANTS
  r1 = r1
  r2 = r2
  t1 = t1
  t2 = t2
  t3 = t3
  noAmount = noAmount
  Requests = {r1, r2}
  Txns = {t1, t2, t3}
  OrderOf <- TwoOrders
  Amounts = {199, 100}
  OrderAmount = 199
  NoAmount = noAmount
  Faults <- AllFaults
SPECIFICATION FairSpec
INVARIANTS ReportsBacked OneVerdict RowsAgree
PROPERTY SuccessReported
CHECK_DEADLOCK FALSE
