------------------------------- MODULE MCWire -------------------------------
(* Orders for Wire that differ in every field, with bytes of four values.  *)
EXTENDS Wire

Digits(n, w) == [j \in 0..w - 1 |-> (n \div 4^j) % 4]

MCOrder(user, buy, ioc, price, qty, ts) ==
  [userId |-> Digits(user, 4), side |-> Digits(buy, 1), timeInForce |-> Digits(ioc, 1),
   price |-> Digits(price, 8), quantity |-> Digits(qty, 2), timestamp |-> Digits(ts, 8)]

\* The largest values of a byte, checksums whose last byte is and is not zero, and
\* prices and stamps in both words.
MCClientOrders ==
  {MCOrder(1, 1, 0, 1, 1, 5), MCOrder(255, 0, 1, 65435, 7, 65535),
   MCOrder(27, 1, 1, 27000, 3, 300)}
=============================================================================
