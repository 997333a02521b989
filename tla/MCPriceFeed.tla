----------------------------- MODULE MCPriceFeed -----------------------------
(* A small instance of PriceFeed for TLC.                                  *)
EXTENDS PriceFeed

CONSTANT eth
=============================================================================
