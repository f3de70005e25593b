----------------------------- MODULE MCExchange -----------------------------
(***************************************************************************)
(* A tick is a fifth of main.cpp's half spread: the maker quotes around 4. *)
(***************************************************************************)
EXTENDS Exchange

MCInputs ==
  [user: 1..Maker, side: Side, tif: {"GTC", "IOC"}, price: Prices, qty: 1..6, ts: {0}]
=============================================================================
