------------------------------ MODULE MCQuotes ------------------------------
(***************************************************************************)
(* Three prices of a three-bit word and books whose levels hold little, a  *)
(* lot, more than a three-bit quantity can say, or nothing any more.       *)
(***************************************************************************)
EXTENDS Quotes

CONSTANTS c1, c2

MCPrices == 2..4

B(bids, asks) == [side \in Side |-> IF side = "buy" THEN bids ELSE asks]

MCBookStates ==
  { B(3 :> 0, <<>>),                        \* the only order has just been filled
    B(2 :> 2 @@ 3 :> 3, 4 :> 5),            \* a level beyond the word
    B(2 :> 3 @@ 3 :> 1 @@ 4 :> 1, <<>>),
    B(<<>>, 2 :> 0 @@ 3 :> 2 @@ 4 :> 1) }   \* the best of three asks just emptied
=============================================================================
