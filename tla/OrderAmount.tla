---------------------------- MODULE OrderAmount ----------------------------
(***************************************************************************)
(* The amount of one order on its way through the services: the price of a *)
(* seckill becomes the amount of an order, of a payment, of the report of  *)
(* the payment and of its refund, through three representations: integers, *)
(* DECIMAL(12,2) columns, and the float64 that a column is read as.        *)
(*                                                                         *)
(* A DECIMAL is a pair <<units, hundredths>>, and an INSERT that does not  *)
(* fit its column fails (strict SQL mode).  A float is an integer number   *)
(* of the smallest distance between two floats, of which 1 has One.  What  *)
(* has no float of its own becomes the nearest one: first the hundredths   *)
(* of a column, and then a hundred times the float they have become.       *)
(***************************************************************************)
EXTENDS Integers

CONSTANTS
  MaxInt,        \* the largest int64, one less than a power of two
  MaxUnits,      \* the largest number of units that fits the column
  One,           \* the float 1
  Precision,     \* floats from one power of two to the next: 2^52 of them
  Ulps,          \* distances between neighbouring floats: powers of two
  Prices, Nums,  \* prices and quantities that a seckill can name
  Cents          \* amounts that a caller of CreateTransaction can name

ASSUME AmountAssumption ==
  /\ MaxInt \in Nat
  /\ MaxUnits \in Nat
  /\ Prices \subseteq 0 .. MaxInt
  /\ Nums \subseteq 1 .. MaxInt
  /\ Cents \subseteq Nat

VARIABLES
  event,         \* price and pay_num of the promotion_order_create message
  order,         \* orders.amount
  payment,       \* payment_transaction.request_amount
  report,        \* amount of the pay_report, in cents
  refund         \* payment_refund.refund_amount, in cents

amountVars == <<event, order, payment, report, refund>>

Unset   == <<>>   \* no row with a column yet
None    == -1     \* no integer yet
Decimal == (0 .. MaxUnits) \X (0 .. 99)

AmountTypeOK ==
  /\ event \in [price : Prices, num : Nums]
  /\ order \in Decimal \cup {Unset}
  /\ payment \in Decimal \cup {Unset}
  /\ report \in Nat \cup {None}
  /\ refund \in Nat \cup {None}

AmountInit ==
  /\ event \in [price : Prices, num : Nums]
  /\ order = Unset /\ payment = Unset /\ report = None /\ refund = None

(* int64 multiplication.                                                   *)
Wrap(n) ==
  LET m == n % (2 * (MaxInt + 1)) IN IF m > MaxInt THEN m - 2 * (MaxInt + 1) ELSE m

OrderAmountTestsSign(price, num) == {n \in {Wrap(price * num)} : n >= 0}

(* orderAmount: a product, or none if it does not fit.                     *)
OrderAmountOf(price, num) ==
  IF price > 0 /\ num > MaxInt \div price THEN {} ELSE {Wrap(price * num)}

-----------------------------------------------------------------------------
(* Floats.  The distance u of the floats around num / den is the one that  *)
(* makes it a number of as many digits as a float has.                     *)
IsUlp(u, num, den) == num \div (u * den) \in Precision .. 2 * Precision - 1

HasUlp(num, den) == \E u \in Ulps : IsUlp(u, num, den)

Ulp(num, den) == CHOOSE u \in Ulps : IsUlp(u, num, den)

(* The float nearest to num / den, of two that are as near the even one.   *)
Nearest(num, den) ==
  LET u == Ulp(num, den)
      q == num \div (u * den)
      r == num % (u * den)
  IN IF num = 0 THEN 0
     ELSE IF 2 * r > u * den \/ (2 * r = u * den /\ q % 2 = 1) THEN (q + 1) * u ELSE q * u

Hundredths(decimal) == 100 * decimal[1] + decimal[2]

(* What Scan reads from a column, and a hundred times that.                *)
Float(decimal) == Nearest(Hundredths(decimal) * One, 100)
TimesHundred(decimal) == Nearest(100 * Float(decimal), 1)

(* The floats reach from the smallest amount to the largest, and are dense *)
(* enough for the column: 12 digits are 10^12 hundredths, and a float64    *)
(* has 2^52.                                                               *)
ASSUME FloatAssumption ==
  /\ One \in Nat \ {0} /\ Precision \in Nat \ {0} /\ Ulps \subseteq Nat \ {0}
  /\ 300 * (MaxUnits + 1) <= Precision
  /\ \A d \in Decimal : Hundredths(d) > 0 =>
       HasUlp(Hundredths(d) * One, 100) /\ HasUlp(100 * Float(d), 1)

(* Mutant: the conversion to int64 cuts off what is not whole.             *)
amountCentsCutOff(decimal) == TimesHundred(decimal) \div One

(* amountCents and decimalAmount, between the float of a column, cents and *)
(* the text that is written to a column.  math.Round rounds halves up.     *)
amountCents(decimal) ==
  LET x == TimesHundred(decimal)
  IN x \div One + (IF 2 * (x % One) >= One THEN 1 ELSE 0)
decimalAmount(cents) == <<cents \div 100, cents % 100>>

-----------------------------------------------------------------------------

(* The insert writes the integer amount into the column.                   *)
InsertOrder ==
  /\ order = Unset
  /\ \E amount \in OrderAmountOf(event.price, event.num) :
       amount <= MaxUnits /\ order' = <<amount, 0>>
  /\ UNCHANGED <<event, payment, report, refund>>

(* CreateTransaction wants a positive amount.  It is called by             *)
(* CreatePayment, which reads the order, and from outside.                 *)
CreateTransaction(cents) ==
  /\ payment = Unset
  /\ cents > 0
  /\ decimalAmount(cents) \in Decimal
  /\ payment' = decimalAmount(cents)
  /\ UNCHANGED <<event, order, report, refund>>

CreatePayment == order # Unset /\ CreateTransaction(amountCents(order))

ReportPaid ==
  /\ payment # Unset /\ report = None
  /\ report' = amountCents(payment)
  /\ UNCHANGED <<event, order, payment, refund>>

RecordRefund ==
  /\ report # None /\ refund = None
  /\ refund' = report
  /\ UNCHANGED <<event, order, payment, report>>

AmountNext ==
  \/ InsertOrder \/ CreatePayment \/ ReportPaid \/ RecordRefund
  \/ \E cents \in Cents : CreateTransaction(cents)

AmountSpec == AmountInit /\ [][AmountNext]_amountVars
-----------------------------------------------------------------------------
(* No order is stored with an amount that went over the end of int64: what *)
(* is stored is the product, however large the price a caller names.       *)
AmountExact == order # Unset => order[1] = event.price * event.num /\ order[2] = 0

(* What is given back is what was taken, to the hundredth, although it was *)
(* read as a float that few amounts have exactly, and multiplied.          *)
RefundIsPayment == refund # None => refund = Hundredths(payment)

(* The price is in the smallest currency unit (the comment on it in        *)
(* promotion-test-data.sql), and so are the cents that are charged.        *)
ChargedPrice == report # None => report = event.price * event.num
=============================================================================
