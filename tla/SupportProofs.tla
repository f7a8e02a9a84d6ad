----------------------------- MODULE SupportProofs -----------------------------
(***************************************************************************)
(* Theorems about the two modules that stand beside the services: the loop *)
(* every consumer runs, KafkaConsumer, for any number of members and       *)
(* messages and any set of faults; and the amount that all of them hand    *)
(* on, OrderAmount, for any width of the integers and of the column, and   *)
(* floats that are dense enough for it.                                    *)
(***************************************************************************)
EXTENDS KafkaConsumer, OrderAmount, TLAPS

USE ConsumerAssumption

-----------------------------------------------------------------------------
(* A message in work has an offset.                                        *)
Positive ==
  \A p \in Processes : reader[p].pc = "handle" => reader[p].position > 0

(* The inductive invariant: whatever a loop has passed by was handled, so  *)
(* that what it commits, now or much later, was handled.                   *)
ConsumerInv == TypeOK /\ AtLeastOnce /\ NoneSkipped /\ Positive

Readers == [pc : {"fetch", "handle", "commit", "stopped"}, position : Nat]

(* What one reader has passed by, the message it may be working on apart.  *)
Passed(s) == IF s.pc \in {"handle", "stopped"} THEN s.position - 1 ELSE s.position

(* NoneSkipped, by what each reader has passed by.                         *)
LEMMA NoneSkippedPassed ==
  NoneSkipped <=> \A p \in Processes : \A i \in 1 .. Passed(reader[p]) : i \in handled
BY DEF NoneSkipped, Passed

(* One reader moves to a state in which everything it has passed by was    *)
(* handled; nothing handled is forgotten, and what is committed was        *)
(* handled.                                                                *)
LEMMA ReaderMoves ==
  ASSUME ConsumerInv, NEW p \in Processes, NEW s \in Readers,
         reader' = [reader EXCEPT ![p] = s],
         handled \subseteq handled', handled' \subseteq Nat \ {0},
         \A i \in 1 .. Passed(s) : i \in handled',
         s.pc = "handle" => s.position > 0,
         committed' \in Nat, \A i \in 1 .. committed' : i \in handled',
         owner' \in Processes, written' = written
  PROVE  ConsumerInv'
<1>1. /\ reader' \in [Processes -> Readers] /\ reader'[p] = s
      /\ \A q \in Processes : q # p => reader'[q] = reader[q]
  BY DEF ConsumerInv, TypeOK, Readers
<1>2. TypeOK'
  BY <1>1 DEF ConsumerInv, TypeOK, Readers
<1>3. AtLeastOnce' /\ Positive'
  BY <1>1 DEF ConsumerInv, AtLeastOnce, Positive
<1>4. \A q \in Processes : \A i \in 1 .. Passed(reader[q]) : i \in handled
  BY NoneSkippedPassed DEF ConsumerInv
<1>5. \A q \in Processes : \A i \in 1 .. Passed(reader'[q]) : i \in handled'
  BY <1>1, <1>4
<1>6. NoneSkipped'
  BY <1>5 DEF NoneSkipped, Passed
<1> QED BY <1>2, <1>3, <1>6 DEF ConsumerInv

(* The state of one reader.                                                *)
LEMMA OneReader ==
  ASSUME ConsumerInv, NEW p \in Processes
  PROVE  /\ reader[p].position \in Nat
         /\ reader[p] = [pc |-> reader[p].pc, position |-> reader[p].position]
         /\ \A i \in 1 .. Passed(reader[p]) : i \in handled
         /\ \A i \in 1 .. committed : i \in handled
         /\ reader[p].pc = "handle" => reader[p].position > 0
         /\ committed \in Nat /\ handled \subseteq Nat \ {0} /\ owner \in Processes
         /\ \A pc : Reader(p, pc) =>
              reader' = [reader EXCEPT ![p] = [pc |-> pc, position |-> reader[p].position]]
BY NoneSkippedPassed DEF ConsumerInv, TypeOK, AtLeastOnce, Positive, Readers, Reader

(* No loop has read and nothing is committed at the start.                 *)
LEMMA InitInv == Init => ConsumerInv
BY DEF Init, ConsumerInv, TypeOK, AtLeastOnce, NoneSkipped, Positive

(* Every step of a loop, of the group and of the topic keeps the invariant.*)
LEMMA StepInv == ConsumerInv /\ [Next]_vars => ConsumerInv'
<1> SUFFICES ASSUME ConsumerInv, [Next]_vars PROVE ConsumerInv'
  OBVIOUS
<1>1. CASE UNCHANGED vars
  BY <1>1 DEF vars, ConsumerInv, TypeOK, AtLeastOnce, NoneSkipped, Positive
<1>2. CASE Write
  BY <1>2 DEF Write, ConsumerInv, TypeOK, AtLeastOnce, NoneSkipped, Positive
<1>3. ASSUME NEW p \in Processes, FetchMessage(p) PROVE ConsumerInv'
  <2> DEFINE s == [pc |-> "handle", position |-> reader[p].position + 1]
  <2>0. reader[p].position \in Nat /\ reader[p].pc = "fetch"
    BY <1>3, OneReader DEF FetchMessage
  <2>1. s \in Readers /\ Passed(s) = Passed(reader[p]) /\ s.position > 0
    BY <2>0 DEF Readers, Passed
  <2>2. /\ reader' = [reader EXCEPT ![p] = s]
        /\ handled' = handled /\ committed' = committed /\ owner' = owner /\ written' = written
    BY <1>3 DEF FetchMessage
  <2> HIDE DEF s
  <2> QED BY <2>1, <2>2, OneReader, ReaderMoves
<1>4. ASSUME NEW p \in Processes, Handle(p) PROVE ConsumerInv'
  <2> DEFINE n == reader[p].position
  <2>0. n \in Nat /\ n > 0 /\ reader[p].pc = "handle"
    BY <1>4, OneReader DEF Handle
  <2>1. n \in Nat \ {0} /\ Passed(reader[p]) = n - 1
    BY <2>0 DEF Passed
  <2>2. committed' = committed /\ owner' = owner /\ written' = written
    BY <1>4 DEF Handle
  <2>3. CASE handled' = handled \cup {n} /\ Reader(p, "commit")
    <3> DEFINE s == [pc |-> "commit", position |-> n]
    <3>1. s \in Readers /\ Passed(s) = n /\ s.pc # "handle"
      BY <2>1 DEF Readers, Passed
    <3>2. reader' = [reader EXCEPT ![p] = s]
      BY <2>3, OneReader
    <3> HIDE DEF s
    <3>3. \A i \in 1 .. n : i \in handled'
      <4>1. \A i \in 1 .. n : i \in 1 .. n - 1 \/ i = n
        BY <2>1
      <4>2. \A i \in 1 .. n - 1 : i \in handled
        BY <2>1, OneReader
      <4> QED BY <2>3, <4>1, <4>2
    <3>4. handled \subseteq handled' /\ handled' \subseteq Nat \ {0}
      BY <2>1, <2>3, OneReader
    <3> QED BY <2>2, <3>1, <3>2, <3>3, <3>4, OneReader, ReaderMoves
  <2>4. CASE handled' \in {handled, handled \cup {n}} /\ Reader(p, "stopped")
    <3> DEFINE s == [pc |-> "stopped", position |-> n]
    <3>1. s \in Readers /\ Passed(s) = n - 1 /\ s.pc # "handle"
      BY <2>1 DEF Readers, Passed
    <3>2. reader' = [reader EXCEPT ![p] = s]
      BY <2>4, OneReader
    <3> HIDE DEF s
    <3>3. handled \subseteq handled' /\ handled' \subseteq Nat \ {0}
      BY <2>1, <2>4, OneReader
    <3>4. \A i \in 1 .. Passed(s) : i \in handled'
      BY <2>1, <3>1, <3>3, OneReader
    <3> QED BY <2>2, <3>1, <3>2, <3>3, <3>4, OneReader, ReaderMoves
  <2> QED BY <1>4, <2>3, <2>4 DEF Handle
<1>5. ASSUME NEW p \in Processes, Commit(p) PROVE ConsumerInv'
  <2> DEFINE n == reader[p].position
  <2>1. n \in Nat /\ Passed(reader[p]) = n
    BY <1>5, OneReader DEF Commit, Passed
  <2>2. /\ handled' = handled /\ owner' = owner /\ written' = written
        /\ committed' \in {committed, n}
    BY <1>5 DEF Commit
  <2>3. PICK pc \in {"fetch", "stopped"} : Reader(p, pc)
    BY <1>5 DEF Commit
  <2> DEFINE s == [pc |-> pc, position |-> n]
  <2>4. /\ s \in Readers /\ s.pc # "handle"
        /\ 1 .. Passed(s) \subseteq 1 .. n
    BY <2>1 DEF Readers, Passed
  <2>5. reader' = [reader EXCEPT ![p] = s]
    BY <2>3, OneReader
  <2> HIDE DEF s
  <2> QED BY <2>1, <2>2, <2>4, <2>5, OneReader, ReaderMoves
<1>6. ASSUME NEW p \in Processes, Rebalance(p) \/ Restart(p) PROVE ConsumerInv'
  <2>1. PICK pc \in {"fetch", "stopped"} :
          reader' = [reader EXCEPT ![p] = [pc |-> pc, position |-> committed]]
    BY <1>6, OneReader DEF Rebalance, Restart, ConsumerInv, TypeOK
  <2> DEFINE s == [pc |-> pc, position |-> committed]
  <2>2. /\ s \in Readers /\ s.pc # "handle"
        /\ 1 .. Passed(s) \subseteq 1 .. committed
    <3>1. committed \in Nat
      BY OneReader
    <3>2. s \in Readers /\ s.pc = pc /\ s.position = committed
      BY <3>1 DEF Readers
    <3>3. Passed(s) \in {committed, committed - 1}
      BY <3>1, <3>2 DEF Passed
    <3> QED BY <3>1, <3>2, <3>3
  <2>3. /\ handled' = handled /\ committed' = committed /\ written' = written
        /\ owner' \in Processes
    BY <1>6, OneReader DEF Rebalance, Restart
  <2>4. reader' = [reader EXCEPT ![p] = s]
    BY <2>1
  <2> HIDE DEF s
  <2> QED BY <2>2, <2>3, <2>4, OneReader, ReaderMoves
<1>7. ASSUME NEW p \in Processes, FetchFails(p) PROVE ConsumerInv'
  <2> DEFINE n == reader[p].position
             s == [pc |-> "stopped", position |-> n]
  <2>1. n \in Nat /\ Passed(reader[p]) = n /\ reader' = [reader EXCEPT ![p] = s]
    BY <1>7, OneReader DEF FetchFails, Passed
  <2>2. /\ handled' = handled /\ committed' = committed /\ owner' = owner /\ written' = written
    BY <1>7 DEF FetchFails
  <2>3. /\ s \in Readers /\ s.pc # "handle"
        /\ 1 .. Passed(s) \subseteq 1 .. n
    BY <2>1 DEF Readers, Passed
  <2> HIDE DEF s
  <2> QED BY <2>1, <2>2, <2>3, OneReader, ReaderMoves
<1> QED BY <1>1, <1>2, <1>3, <1>4, <1>5, <1>6, <1>7 DEF Next, Run

(* The invariant holds in every reachable state.                           *)
THEOREM ConsumerInvariance == Spec => []ConsumerInv
BY InitInv, StepInv, PTL DEF Spec

(* The types hold in every reachable state.                                *)
THEOREM ConsumerTypeCorrect == Spec => []TypeOK
BY ConsumerInvariance, PTL DEF ConsumerInv

(* What the group has committed was handled: deaths, rebalances and stale  *)
(* commits of former owners cannot lose a message.                         *)
THEOREM AtLeastOnceSafe == Spec => []AtLeastOnce
BY ConsumerInvariance, PTL DEF ConsumerInv

(* No loop passes by a message that was not handled.                       *)
THEOREM NoneSkippedSafe == Spec => []NoneSkipped
BY ConsumerInvariance, PTL DEF ConsumerInv

-----------------------------------------------------------------------------
(* The test before a multiplication is exact: a quantity that passes it    *)
(* has a product that fits.                                                *)
LEMMA QuotientBounds ==
  ASSUME NEW price \in Nat, price > 0, NEW num \in Nat, NEW max \in Nat, num <= max \div price
  PROVE  price * num <= max
<1> DEFINE q == max \div price
<1>1. q \in Nat /\ price * q <= max
  OBVIOUS
<1>2. price * num <= price * q
  <2>1. q - num \in Nat
    BY <1>1
  <2>2. price * (q - num) >= 0
    BY <2>1
  <2>3. price * q = price * num + price * (q - num)
    BY <1>1
  <2> QED BY <1>1, <2>1, <2>2, <2>3
<1> QED BY <1>1, <1>2

(* Arithmetic that does not leave the integers is exact.                   *)
LEMMA WrapExact ==
  ASSUME NEW n \in 0 .. MaxInt
  PROVE  Wrap(n) = n
<1>1. MaxInt \in Nat
  BY AmountAssumption
<1>2. n % (2 * (MaxInt + 1)) = n
  BY <1>1
<1> QED BY <1>1, <1>2 DEF Wrap

LEMMA OrderAmountExact ==
  ASSUME NEW price \in Prices, NEW num \in Nums, NEW amount \in OrderAmountOf(price, num)
  PROVE  amount = price * num /\ amount \in Nat
<1>1. /\ MaxInt \in Nat /\ price \in Nat /\ num \in Nat /\ price <= MaxInt /\ num <= MaxInt
  BY AmountAssumption
<1>2. amount = Wrap(price * num) /\ (price > 0 => num <= MaxInt \div price)
  BY <1>1 DEF OrderAmountOf
<1>3. price * num \in Nat /\ price * num <= MaxInt
  <2>1. CASE price = 0
    BY <1>1, <2>1
  <2>2. CASE price > 0
    BY <1>1, <1>2, <2>2, QuotientBounds
  <2> QED BY <1>1, <2>1, <2>2
<1> QED BY <1>1, <1>2, <1>3, WrapExact

-----------------------------------------------------------------------------
(* Arithmetic that SMT needs in small steps: multiplying an inequality, and *)
(* comparing what is multiplied.                                           *)
LEMMA TimesMonotone ==
  ASSUME NEW k \in Nat, NEW m \in Int, NEW n \in Int, m <= n
  PROVE  k * m <= k * n
<1>1. n - m \in Nat
  OBVIOUS
<1>2. k * (n - m) >= 0
  BY <1>1
<1>3. k * n = k * m + k * (n - m)
  OBVIOUS
<1> QED BY <1>1, <1>2, <1>3

LEMMA TimesCancel ==
  ASSUME NEW k \in Nat \ {0}, NEW m \in Int, NEW n \in Int, k * m < k * n
  PROVE  m < n
<1> SUFFICES ASSUME n <= m PROVE FALSE
  OBVIOUS
<1>1. k * n <= k * m
  BY TimesMonotone
<1> QED BY <1>1

(* The float nearest to a number is away from it by one part of two times  *)
(* the precision at most.                                                  *)
LEMMA NearestClose ==
  ASSUME NEW num \in Nat \ {0}, NEW den \in Nat \ {0}, HasUlp(num, den)
  PROVE  /\ Nearest(num, den) \in Nat
         /\ \E e \in Int : /\ Nearest(num, den) * den = num + e
                           /\ Precision * (2 * e) <= num
                           /\ Precision * (-2 * e) <= num
<1> DEFINE u == Ulp(num, den)
           d == u * den
           q == num \div d
           r == num % d
           f == Nearest(num, den)
<1>1. u \in Nat \ {0} /\ q \in Precision .. 2 * Precision - 1 /\ Precision \in Nat \ {0}
  <2>1. u \in Ulps /\ IsUlp(u, num, den)
    BY DEF HasUlp, Ulp
  <2> QED BY <2>1, FloatAssumption DEF IsUlp
<1>2. d \in Nat \ {0}
  <2> HIDE DEF u
  <2> QED BY <1>1
<1>3. q \in Nat /\ r \in Nat /\ r < d /\ num = d * q + r
  <2> HIDE DEF d
  <2> QED BY <1>2
<1>4. PICK x \in {q, q + 1} : /\ f = x * u
                              /\ x = q => 2 * r <= d
                              /\ x = q + 1 => 2 * r >= d
  <2>1. f = IF 2 * r > d \/ (2 * r = d /\ q % 2 = 1) THEN (q + 1) * u ELSE q * u
    BY DEF Nearest
  <2> HIDE DEF q, r, d, u, f
  <2> QED BY <1>2, <1>3, <2>1
<1> HIDE DEF q, r, d, f
<1>5. x \in Nat /\ f \in Nat
  <2> HIDE DEF u
  <2> QED BY <1>1, <1>3, <1>4
<1>6. f * den = d * x
  <2> HIDE DEF u
  <2> QED BY <1>1, <1>4, <1>5 DEF d
<1> DEFINE e == d * x - num
<1>7. e \in Int /\ f * den = num + e /\ 2 * e <= d /\ -2 * e <= d
  <2>1. CASE x = q
    <3>1. e = - r
      BY <1>2, <1>3, <2>1
    <3> HIDE DEF e
    <3> QED BY <1>2, <1>3, <1>4, <2>1, <3>1, <1>6 DEF e
  <2>2. CASE x = q + 1
    <3>1. d * x = d * q + d
      BY <1>2, <1>3, <2>2
    <3>2. e = d - r
      BY <1>2, <1>3, <3>1
    <3> HIDE DEF e
    <3> QED BY <1>2, <1>3, <1>4, <1>5, <2>2, <3>1, <3>2, <1>6
  <2> QED BY <1>4, <2>1, <2>2
<1>8. Precision * d <= num
  <2>1. d * Precision <= d * q
    BY <1>1, <1>2, <1>3, TimesMonotone
  <2>2. d * q <= num
    BY <1>2, <1>3
  <2> QED BY <1>1, <1>2, <1>3, <2>1, <2>2
<1> HIDE DEF e
<1>9. Precision * (2 * e) <= Precision * d /\ Precision * (-2 * e) <= Precision * d
  BY <1>1, <1>2, <1>7, TimesMonotone
<1>10. Precision * (2 * e) <= num /\ Precision * (-2 * e) <= num
  BY <1>1, <1>2, <1>7, <1>8, <1>9
<1> QED BY <1>5, <1>7, <1>10 DEF f

LEMMA QuotientOf ==
  ASSUME NEW b \in Nat, NEW one \in Nat \ {0}, NEW r \in 0 .. one - 1
  PROVE  (b * one + r) \div one = b /\ (b * one + r) % one = r
<1> DEFINE x == b * one + r
           q == x \div one
<1>1. x \in Nat /\ one * q <= x /\ x < one * (q + 1) /\ q \in Int
  OBVIOUS
<1>2. b <= q
  <2>1. one * b < one * (q + 1)
    BY <1>1
  <2> HIDE DEF q
  <2> QED BY <1>1, <2>1, TimesCancel
<1>3. q <= b
  <2>1. one * q < one * (b + 1)
    BY <1>1
  <2> HIDE DEF q
  <2> QED BY <1>1, <2>1, TimesCancel
<1>4. q = b
  BY <1>1, <1>2, <1>3
<1>5. x % one = x - one * q
  BY <1>1
<1> QED BY <1>4, <1>5

(* A number that is less than half away from a whole one rounds to it.     *)
LEMMA RoundsTo ==
  ASSUME NEW c \in Nat \ {0}, NEW e \in Int, NEW one \in Nat \ {0}, 2 * e < one, -2 * e < one,
         NEW x \in Int, x = c * one + e
  PROVE  x \div one + (IF 2 * (x % one) >= one THEN 1 ELSE 0) = c
<1>1. CASE e >= 0
  <2>1. x \div one = c /\ x % one = e
    BY <1>1, QuotientOf
  <2> QED BY <1>1, <2>1
<1>2. CASE e < 0
  <2>1. PICK b \in Nat, r \in 0 .. one - 1 : b = c - 1 /\ r = one + e
    BY <1>2
  <2>2. x = b * one + r
    BY <2>1
  <2>3. x \div one = b /\ x % one = r
    BY <2>2, QuotientOf
  <2> QED BY <1>2, <2>1, <2>3
<1> QED BY <1>1, <1>2

LEMMA ColumnType ==
  ASSUME NEW d \in Decimal
  PROVE  Hundredths(d) \in Nat /\ 3 * Hundredths(d) < Precision
<1>1. PICK units \in 0 .. MaxUnits, hundredths \in 0 .. 99 : d = <<units, hundredths>>
  BY DEF Decimal
<1>2. Hundredths(d) = 100 * units + hundredths
  BY <1>1 DEF Hundredths
<1> QED BY <1>1, <1>2, AmountAssumption, FloatAssumption

(* What is read from a column is what it holds: the two roundings on the   *)
(* way, of the column's value and of a hundred times it, add up to less    *)
(* than half a cent.                                                       *)
LEMMA CentsOfColumn ==
  ASSUME NEW d \in Decimal
  PROVE  amountCents(d) = Hundredths(d)
<1> DEFINE c == Hundredths(d)
           X == c * One
           f == Float(d)
           g == TimesHundred(d)
<1>1. c \in Nat /\ 3 * c < Precision /\ One \in Nat \ {0} /\ Precision \in Nat \ {0}
  BY ColumnType, FloatAssumption
<1>2. CASE c = 0
  <2>1. f = 0
    <3>1. c * One = 0
      BY <1>1, <1>2
    <3> QED BY <3>1 DEF Float, Nearest
  <2>2. g = 0
    BY <2>1 DEF TimesHundred, Nearest
  <2>3. 0 \div One = 0 /\ 0 % One = 0
    BY <1>1
  <2> QED BY <1>1, <1>2, <2>2, <2>3 DEF amountCents
<1>3. CASE c > 0
  <2>1. HasUlp(X, 100) /\ HasUlp(100 * f, 1)
    BY <1>3, FloatAssumption
  <2> HIDE DEF c
  <2>2. X \in Nat \ {0}
    BY <1>1, <1>3
  <2> HIDE DEF X
  <2>3. /\ f \in Nat
        /\ \E e \in Int : /\ f * 100 = X + e
                          /\ Precision * (2 * e) <= X /\ Precision * (-2 * e) <= X
    <3>1. f = Nearest(X, 100)
      BY DEF Float, X, c
    <3> HIDE DEF f
    <3> QED BY <2>1, <2>2, <3>1, NearestClose
  <2>4. PICK e \in Int : /\ f * 100 = X + e
                         /\ Precision * (2 * e) <= X /\ Precision * (-2 * e) <= X
    BY <2>3
  <2> HIDE DEF f
  <2>5. -2 * e <= X /\ 2 * e <= X
    <3>1. \A k \in Int : Precision * k <= X => k <= X
      <4> SUFFICES ASSUME NEW k \in Int, Precision * k <= X, k > X PROVE FALSE
        BY <2>2
      <4>1. k * 1 <= k * Precision
        BY <1>1, <2>2, TimesMonotone
      <4> QED BY <1>1, <2>2, <4>1
    <3> QED BY <2>4, <3>1
  <2>6. 100 * f \in Nat \ {0}
    BY <2>2, <2>3, <2>4, <2>5
  <2>7. PICK h \in Int : /\ g = 100 * f + h
                         /\ Precision * (2 * h) <= 100 * f /\ Precision * (-2 * h) <= 100 * f
    <3>1. g = Nearest(100 * f, 1)
      BY DEF TimesHundred, f
    <3> HIDE DEF g
    <3> DEFINE t == 100 * f
    <3>2. t \in Nat \ {0} /\ HasUlp(t, 1) /\ g = Nearest(t, 1)
      BY <2>1, <2>6, <3>1
    <3> HIDE DEF g, t
    <3>3. /\ g \in Nat
          /\ \E h \in Int : /\ g * 1 = t + h
                            /\ Precision * (2 * h) <= t /\ Precision * (-2 * h) <= t
      BY <3>2, NearestClose
    <3> QED BY <3>3 DEF t
  <2> HIDE DEF g
  <2>8. g = X + (e + h)
    BY <2>2, <2>3, <2>4, <2>7
  <2>9. Precision * (2 * (e + h)) <= 3 * X /\ Precision * (-2 * (e + h)) <= 3 * X
    <3>1. /\ Precision * (2 * (e + h)) = Precision * (2 * e) + Precision * (2 * h)
          /\ Precision * (-2 * (e + h)) = Precision * (-2 * e) + Precision * (-2 * h)
      BY <1>1
    <3> QED BY <1>1, <2>2, <2>3, <2>4, <2>5, <2>7, <3>1
  <2>10. 3 * X < Precision * One
    <3>1. One * (3 * c + 1) <= One * Precision
      BY <1>1, TimesMonotone
    <3>2. One * (3 * c + 1) = 3 * (c * One) + One
      BY <1>1
    <3> QED BY <1>1, <3>1, <3>2 DEF X
  <2>11. 2 * (e + h) < One /\ -2 * (e + h) < One
    <3>1. /\ Precision * (2 * (e + h)) < Precision * One
          /\ Precision * (-2 * (e + h)) < Precision * One
      BY <1>1, <2>2, <2>9, <2>10
    <3>2. 2 * (e + h) < One
      BY <1>1, <3>1, TimesCancel
    <3>3. -2 * (e + h) < One
      BY <1>1, <3>1, TimesCancel
    <3> QED BY <3>2, <3>3
  <2>12. g \div One + (IF 2 * (g % One) >= One THEN 1 ELSE 0) = c
    <3>1. g = c * One + (e + h)
      BY <2>8 DEF X
    <3> DEFINE w == e + h
    <3>2. /\ g \in Int /\ w \in Int /\ c \in Nat \ {0} /\ g = c * One + w
          /\ 2 * w < One /\ -2 * w < One
      BY <1>1, <1>3, <2>11, <3>1
    <3> HIDE DEF w
    <3> QED BY <1>1, <3>2, RoundsTo
  <2> QED BY <2>12 DEF amountCents, g, c
<1> QED BY <1>1, <1>2, <1>3

(* The inductive invariant: what was reported is the payment, and what was *)
(* refunded is the report.                                                 *)
AmountInv ==
  /\ AmountTypeOK /\ AmountExact
  /\ report # None => payment # Unset /\ report = amountCents(payment)
  /\ refund # None => report # None /\ refund = report

LEMMA AmountInitInv == AmountInit => AmountInv
BY DEF AmountInit, AmountInv, AmountTypeOK, AmountExact

LEMMA AmountStepInv == AmountInv /\ [AmountNext]_amountVars => AmountInv'
<1> SUFFICES ASSUME AmountInv, [AmountNext]_amountVars PROVE AmountInv'
  OBVIOUS
<1> USE DEF AmountInv, AmountTypeOK, AmountExact
<1>0. Unset \notin Decimal /\ None \notin Nat
  BY DEF Unset, None, Decimal
<1>1. CASE UNCHANGED amountVars
  BY <1>1 DEF amountVars
<1>2. CASE InsertOrder
  <2>1. PICK amount \in OrderAmountOf(event.price, event.num) :
          amount <= MaxUnits /\ order' = <<amount, 0>>
    BY <1>2 DEF InsertOrder
  <2>2. amount = event.price * event.num /\ amount \in Nat
    BY OrderAmountExact
  <2>3. order' \in Decimal /\ order'[1] = event.price * event.num /\ order'[2] = 0
    BY <2>1, <2>2, AmountAssumption DEF Decimal
  <2> QED BY <1>2, <2>3 DEF InsertOrder
<1>3. ASSUME NEW cents, CreateTransaction(cents) PROVE AmountInv'
  <2>1. payment = Unset /\ payment' \in Decimal /\ UNCHANGED <<event, order, report, refund>>
    BY <1>3 DEF CreateTransaction
  <2> QED BY <2>1
<1>4. CASE CreatePayment
  BY <1>3, <1>4 DEF CreatePayment
<1>5. CASE ReportPaid
  <2>1. payment \in Decimal /\ payment # Unset /\ UNCHANGED <<event, order, payment, refund>>
        /\ refund = None /\ report' = amountCents(payment)
    BY <1>0, <1>5 DEF ReportPaid
  <2>2. report' \in Nat
    BY <2>1, CentsOfColumn, ColumnType
  <2> HIDE DEF AmountExact
  <2>3. AmountExact'
    BY <2>1 DEF AmountExact
  <2> QED BY <1>0, <2>1, <2>2, <2>3
<1>6. CASE RecordRefund
  BY <1>0, <1>6 DEF RecordRefund
<1>7. ASSUME NEW cents \in Cents, CreateTransaction(cents) PROVE AmountInv'
  BY <1>3, <1>7
<1> QED BY <1>1, <1>2, <1>4, <1>5, <1>6, <1>7 DEF AmountNext

LEMMA AmountInvariance == AmountSpec => []AmountInv
BY AmountInitInv, AmountStepInv, PTL DEF AmountSpec

(* The amounts have their types: every one that is stored fits its column. *)
THEOREM AmountTypeCorrect == AmountSpec => []AmountTypeOK
BY AmountInvariance, PTL DEF AmountInv

(* No wrapped product is stored: an order's amount is price times          *)
(* quantity, for integers and columns of any width.                        *)
THEOREM AmountExactSafe == AmountSpec => []AmountExact
BY AmountInvariance, PTL DEF AmountInv

(* What is given back is what was taken, to the hundredth: with floats as  *)
(* dense as FloatAssumption says, no rounding of the way is left.          *)
THEOREM RefundIsPaymentSafe == AmountSpec => []RefundIsPayment
<1>1. AmountInv => RefundIsPayment
  <2>1. ASSUME AmountInv, refund # None PROVE refund = Hundredths(payment)
    <3>1. payment \in Decimal /\ refund = amountCents(payment)
      BY <2>1 DEF AmountInv, AmountTypeOK
    <3> QED BY <3>1, CentsOfColumn
  <2> QED BY <2>1 DEF RefundIsPayment
<1> QED BY <1>1, AmountInvariance, PTL
=============================================================================
