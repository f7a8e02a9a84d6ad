CONSTANTS
  r1 = r1
  t1 = t1
  t2 = t2
  p1 = p1
  noRequest = noRequest
  noReport = noReport
  Requests = {r1}
  Txns = {t1, t2}
  OrderOf <- OneOrder
  Processes = {p1}
  RpcRequests <- CancelOnly
  Faults <- AnsweredStatements
  NoRequest = noRequest
  NoReport = noReport
SPECIFICATION RSpec
PROPERTIES ImplementsContract DueOrderSettles UnpaidReleases PaymentResolves
CHECK_DEADLOCK FALSE
