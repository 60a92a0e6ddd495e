-------------------------- MODULE MCPricePublisher --------------------------
(* TLC instances of PricePublisher.                                        *)
EXTENDS PricePublisher

MCLive == <<4, 5>>
\* Genesis range, restarted from block 0, and a range that resumes.
MCBackfills == {<<0, 1>>, <<2, 3>>}
=============================================================================
