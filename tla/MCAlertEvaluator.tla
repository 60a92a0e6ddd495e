-------------------------- MODULE MCAlertEvaluator --------------------------
(***************************************************************************)
(* Two groups, one fetch per tick, and an indexer that flushes blocks 2-3, *)
(* 4-5 and 6.  g1 has more rows than a page or a tick's detail rows can    *)
(* hold, two of them late: after a restart the detail row goes to the      *)
(* first late one, and the digest of 3-5 is taken for that of 3 and 5.     *)
(***************************************************************************)
EXTENDS AlertEvaluator

CONSTANTS g1, g2

MCGroups == {g1, g2}
MCKeyOrder == [g \in MCGroups |-> IF g = g1 THEN 0 ELSE 1]
MCRows == {<<g1, 1>>, <<g1, 2>>, <<g1, 3>>, <<g1, 4>>, <<g1, 5>>, <<g2, 3>>}
MCLateRows == {<<g1, 2>>, <<g1, 4>>}
=============================================================================
