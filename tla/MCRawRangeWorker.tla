-------------------------- MODULE MCRawRangeWorker --------------------------
(* TLC instances of RawRangeWorker.                                        *)
EXTENDS RawRangeWorker

\* A genesis range of one block and its neighbour of two.
MCRanges == {<<0, 0>>, <<1, 2>>}
\* One range alone, long enough for a flush inside it.
MCOneRange == {<<0, 2>>}
=============================================================================
