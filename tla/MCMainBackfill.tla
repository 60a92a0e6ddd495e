--------------------------- MODULE MCMainBackfill ---------------------------
(***************************************************************************)
(* MainBackfill over four historical blocks in three raw ranges, two of    *)
(* which overlap.                                                          *)
(***************************************************************************)
EXTENDS MainBackfill

MCRawRanges == {<<2, 3>>, <<1, 2>>, <<0, 0>>}
=============================================================================
