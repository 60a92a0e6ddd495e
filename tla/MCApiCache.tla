----------------------------- MODULE MCApiCache -----------------------------
(***************************************************************************)
(* ApiCache with one key of each kind - plain, found-only and              *)
(* stale-while-revalidate - that compete for two entries.                  *)
(***************************************************************************)
EXTENDS ApiCache

CONSTANTS kp, kf, ks

MCPlainKeys == {kp}
MCFoundKeys == {kf}
MCSwrKeys == {ks}
=============================================================================
