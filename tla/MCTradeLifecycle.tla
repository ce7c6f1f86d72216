-------------------------- MODULE MCTradeLifecycle --------------------------
(***************************************************************************)
(* TradeLifecycle on small instances for TLC.                              *)
(***************************************************************************)
EXTENDS TradeLifecycleRefinement
=============================================================================
