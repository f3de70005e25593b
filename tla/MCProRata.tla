------------------------------ MODULE MCProRata ------------------------------
(***************************************************************************)
(* Instances of ProRataStrategy for TLC.                                   *)
(***************************************************************************)
EXTENDS ProRataStrategy, BookAccounts

C(side, tif, price, qty) ==
  [user |-> 1, side |-> side, tif |-> tif, price |-> price, qty |-> qty, ts |-> 1]

\* Bids of unequal sizes at two prices, and sells smaller than a level, larger
\* than one, and larger than both.
MCInputs ==
  {C("buy", "GTC", 2, 1), C("buy", "GTC", 2, 3), C("buy", "GTC", 2, 5),
   C("buy", "GTC", 1, 2),
   C("sell", "IOC", 1, 4), C("sell", "GTC", 2, 2), C("sell", "GTC", 1, 6)}
=============================================================================
