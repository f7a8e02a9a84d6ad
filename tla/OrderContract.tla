--------------------------- MODULE OrderContract ---------------------------
(***************************************************************************)
(* What the order service promises the promotion and the pay service: an   *)
(* order settles once; stock is released, and money is sent back, only for *)
(* an order that has settled unpaid.                                       *)
(***************************************************************************)
CONSTANTS Requests, Txns, OrderOf

VARIABLES
  status,     \* the order of each request
  released,   \* requests whose stock may be restored
  refunded    \* transactions whose money is to be returned

Unsold == {"CANCELLED", "CLOSED"}

Init ==
  /\ status = [r \in Requests |-> "none"]
  /\ released = {}
  /\ refunded = {}

Open(r) ==
  /\ status[r] = "none"
  /\ status' = [status EXCEPT ![r] = "PENDING_PAY"]
  /\ UNCHANGED <<released, refunded>>

Settle(r, s) ==
  /\ status[r] = "PENDING_PAY"
  /\ status' = [status EXCEPT ![r] = s]
  /\ UNCHANGED <<released, refunded>>

Release(r) ==
  /\ status[r] \in Unsold
  /\ released' = released \cup {r}
  /\ UNCHANGED <<status, refunded>>

Refund(t) ==
  /\ status[OrderOf[t]] \in Unsold
  /\ refunded' = refunded \cup {t}
  /\ UNCHANGED <<status, released>>

Next ==
  \/ \E r \in Requests : \/ Open(r) \/ Release(r)
                         \/ \E s \in Unsold \cup {"PAID"} : Settle(r, s)
  \/ \E t \in Txns : Refund(t)

Spec == Init /\ [][Next]_<<status, released, refunded>>
=============================================================================
