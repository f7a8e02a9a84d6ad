CONSTANTS
  r1 = r1
  t1 = t1
  p1 = p1
  noRequest = noRequest
  noReport = noReport
  noAmount = noAmount
  noTxn = noTxn
  Requests = {r1}
  Txns = {t1}
  OrderOf <- OneOrder
  Processes = {p1}
  RpcRequests <- UnpaidCalls
  Faults <- FaultKinds
  NoRequest = noRequest
  NoReport = noReport
  PayProcesses = {p1}
  PayFaults <- PublishFaults
  Amounts = {199}
  OrderAmount = 199
  NoAmount = noAmount
  Accepts = TRUE
  NoTxn = noTxn
SPECIFICATION SaleSpec
INVARIANTS ReportsAnswered PendingHasTimeout MoneyBackUnsold PaidOrderCharged MoneyAccounted
