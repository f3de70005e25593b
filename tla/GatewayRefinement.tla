------------------------- MODULE GatewayRefinement --------------------------
(***************************************************************************)
(* Gateway as main.cpp runs it (one thread calls acceptOrder, then stop)   *)
(* implements OrderFlow.                                                   *)
(***************************************************************************)
EXTENDS Gateway

Flow == INSTANCE OrderFlow WITH
  Messages <- [id: 0..MaxOrders - 1, seq: 1..MaxOrders, by: Producers],
  delivered <- processed

\* Every order accepted from the one thread is matched exactly once and in order,
\* and eventually: full batches, flushes and the final batch together lose nothing.
ImplementsOrderFlow == Flow!FlowSpec
=============================================================================
