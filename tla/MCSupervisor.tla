---------------------------- MODULE MCSupervisor ----------------------------
(***************************************************************************)
(* Supervisor on the ranges RANGE_SIZE cuts out of the blocks below Top.   *)
(***************************************************************************)
EXTENDS Supervisor

\* The ranges ensure_raw_workers can build below Top: full ones, and the short
\* one that is left at block 0.
MCRanges == {<<IF m < RANGE_SIZE THEN 0 ELSE m - RANGE_SIZE, m - 1>> : m \in 1..Top}
=============================================================================
