----------------------------- MODULE MCReorgHeal -----------------------------
(***************************************************************************)
(* ReorgHeal on three blocks with two reorganisations; a block of the first *)
(* branch has more events than one of the second.                          *)
(***************************************************************************)
EXTENDS ReorgHeal

MCEventCount == <<2, 1, 2>>
=============================================================================
