--------------------------- MODULE MCPriceRollback ---------------------------
(* TLC instances of PriceRollback.                                         *)
EXTENDS PriceRollback

MCLive == <<2, 4>>
MCBackfills == {<<0, 1>>}
=============================================================================
