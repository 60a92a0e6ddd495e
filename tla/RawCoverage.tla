---------------------------- MODULE RawCoverage -----------------------------
(***************************************************************************)
(* The range arithmetic of src/raw/ranges.ts that decides whether a span   *)
(* of blocks is covered by completed raw ranges.  A range is <<from, to>>, *)
(* both ends included.                                                     *)
(***************************************************************************)
EXTENDS Integers, SequencesExt

Heights(r) == r[1]..r[2]

\* The heights a sequence of ranges names.
HeightsOf(rs) == UNION {Heights(rs[i]) : i \in DOMAIN rs}

\* Consecutive ranges leave a block between them.
Apart(rs) == \A i \in 1..(Len(rs) - 1) : rs[i][2] + 1 < rs[i + 1][1]

\* Mutant: ranges that only touch swallow the block between them.
ExtendsLastLoose(merged, r) == merged # <<>> /\ r[1] <= Last(merged)[2] + 2

\* Overlapping and adjacent ranges continue the last merged one.
ExtendsLast(merged, r) == merged # <<>> /\ r[1] <= Last(merged)[2] + 1

\* The order of the sort in mergeRawRanges: by first block, then by last.
Before(a, b) == a[1] < b[1] \/ (a[1] = b[1] /\ a[2] < b[2])

Sorted(ranges) ==
  CHOOSE s \in SetToSeqs(ranges) : \A i, j \in DOMAIN s : i < j => Before(s[i], s[j])

AddRange(merged, r) ==
  IF ExtendsLast(merged, r)
    THEN [merged EXCEPT ![Len(merged)] = <<@[1], Max({@[2], r[2]})>>]
    ELSE Append(merged, r)

\* The loop over the sorted ranges: merged[n] is what n of them amount to.
mergeRawRanges(ranges) ==
  LET s == Sorted(ranges)
      merged[n \in 0..Len(s)] == IF n = 0 THEN <<>> ELSE AddRange(merged[n - 1], s[n])
  IN  merged[Len(s)]

\* The completed ranges that meet from..to, cut to it.
getCompletedRawRanges(completed, from, to) ==
  mergeRawRanges({<<Max({from, r[1]}), Min({to, r[2]})>> :
                    r \in {q \in completed : q[2] >= from /\ q[1] <= to}})

CursorPast(cursor, r) == Max({cursor, r[2] + 1})

\* One turn of the loop of missingRawCoverage; nothing happens past its break.
VisitRange(scan, r, to) ==
  IF scan.cursor > to \/ r[2] < scan.cursor THEN scan
  ELSE [missing |-> IF r[1] > scan.cursor
                      THEN Append(scan.missing, <<scan.cursor, Min({r[1] - 1, to})>>)
                      ELSE scan.missing,
        cursor  |-> CursorPast(scan.cursor, r)]

missingRawCoverage(from, to, ranges) ==
  LET m == mergeRawRanges(Range(ranges))
      scan[n \in 0..Len(m)] ==
        IF n = 0 THEN [missing |-> <<>>, cursor |-> from] ELSE VisitRange(scan[n - 1], m[n], to)
      end == scan[Len(m)]
  IN  IF end.cursor <= to THEN Append(end.missing, <<end.cursor, to>>) ELSE end.missing

\* assertFinalizedRawCoverage: whether it returns instead of throwing.
FinalizedRawCoverage(completed, from, to) ==
  missingRawCoverage(from, to, getCompletedRawRanges(completed, from, to)) = <<>>
=============================================================================
