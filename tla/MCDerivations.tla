--------------------------- MODULE MCDerivations ---------------------------
(* Two hours of one month, the second still open at first, each with a row *)
(* indexed before the worker starts.  Row 2 is corrected twice: to a version *)
(* that folds to nothing, as an aToken wrap does, and back.                 *)
EXTENDS Derivations

MCHours == 1..2
MCMonthOf == <<1, 1>>
MCRows == 1..2
MCHourOf == <<1, 2>>
MCStreamOf == <<1, 2>>
MCVoid == {<<2, 2>>}
MCIndexed == {1, 2}
MCMaxVersion == <<1, 3>>
=============================================================================
