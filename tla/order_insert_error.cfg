CONSTANTS
  r1 = r1
  t1 = t1
  t2 = t2
  p1 = p1
  noRequest = noRequest
  noReport = noReport
  Requests = {r1}
  Txns = {t1, t2}
  OrderOf <- OneOrder
  Processes = {p1}
  RpcRequests = {}
  Faults = {"database", "restart"}
  NoRequest = noRequest
  NoReport = noReport
SPECIFICATION Spec
INVARIANT CompensatedNeverPaid
