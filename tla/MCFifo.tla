------------------------------- MODULE MCFifo -------------------------------
(***************************************************************************)
(* Instances of FifoStrategy for TLC.                                      *)
(***************************************************************************)
EXTENDS FifoRefinement

C(side, tif, price, qty, ts) ==
  [user |-> 1, side |-> side, tif |-> tif, price |-> price, qty |-> qty, ts |-> ts]

\* Resting orders at two prices and two stamps, so that the order of arrival and
\* the order of the stamps differ; takers of either side that fill exactly, take
\* part of a level, sweep two levels or leave a remainder; one oversize order.
MCInputs ==
  {C("buy", "GTC", 2, 2, 1), C("buy", "GTC", 2, 2, 2), C("buy", "GTC", 1, 2, 1),
   C("buy", "GTC", 2, 1, 1), C("buy", "IOC", 2, 3, 1), C("buy", "IOC", 2, 4, 1),
   C("sell", "GTC", 2, 1, 1), C("sell", "GTC", 2, 1, 2), C("sell", "GTC", 1, 3, 2),
   C("sell", "GTC", 1, 1, 1), C("sell", "IOC", 1, 3, 1)}
=============================================================================
