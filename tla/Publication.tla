---------------------------- MODULE Publication -----------------------------
(***************************************************************************)
(* What the price pipelines promise the readers of ClickHouse, who take    *)
(* `blocks` for the list of heights that are ready.                        *)
(*                                                                         *)
(* Prices and volumes of a height are added once, before the height is     *)
(* listed; each range is listed from one end to the other without a gap;   *)
(* a checkpoint moves forward along what is listed.  Nothing is taken back *)
(* and nothing is counted twice, although processes die anywhere and       *)
(* replay.  How rows are indexed, staged, probed for and inserted is left  *)
(* out: PricePublisher models it and implements this specification.        *)
(***************************************************************************)
EXTENDS Integers

CONSTANTS
  Live,      \* <<first, last>>: the heights of the live follower
  Backfills, \* the ranges <<from, to>> of the backfills
  Quiet      \* heights without swaps, which need neither prices nor volumes

VARIABLES
  visible,   \* heights listed in `blocks`
  priced,    \* heights with rows in `prices`
  traded,    \* heights with rows in `trade_volume_by_account`
  candles,   \* times the candles have counted the prices of a height
  saved      \* the checkpoint of each pipeline

readable == <<visible, priced, traded, candles, saved>>

Ranges    == Backfills \cup {Live}
In(p)     == p[1]..p[2]
AllBlocks == UNION {In(p) : p \in Ranges}

LogInit ==
  /\ visible = {} /\ priced = {} /\ traded = {}
  /\ candles = [h \in AllBlocks |-> 0]
  /\ saved   = [p \in Ranges |-> -1]

\* A first run prices a quiet block too, and may do so after it is listed.
AddPrices(p, hs) ==
  /\ hs \subseteq In(p) \ priced
  /\ hs \cap visible \subseteq Quiet
  /\ priced'  = priced \cup hs
  /\ candles' = [h \in AllBlocks |-> IF h \in hs THEN candles[h] + 1 ELSE candles[h]]
  /\ UNCHANGED <<visible, traded, saved>>

AddVolumes(p, hs) ==
  /\ hs \subseteq In(p) \ traded
  /\ hs \cap visible \subseteq Quiet
  /\ traded' = traded \cup hs
  /\ UNCHANGED <<visible, priced, candles, saved>>

\* hs continues what is listed of p.
Continues(p, hs) ==
  LET listed == visible \cap In(p) IN
  /\ \A h \in hs : \A v \in listed : v < h
  /\ \A h \in hs, v \in listed \cup hs, g \in In(p) :
       v <= g /\ g <= h => g \in listed \cup hs

\* A backfill begins at its first block, once the whole range is priced.
WholeRange(p, hs) ==
  /\ p[1] \in visible \cup hs
  /\ In(p) \subseteq Quiet \cup priced

Publish(p, hs) ==
  /\ hs # {} /\ hs \subseteq In(p)
  /\ hs \subseteq Quiet \cup (priced \cap traded)
  /\ Continues(p, hs)
  /\ p # Live => WholeRange(p, hs)
  /\ visible' = visible \cup hs
  /\ UNCHANGED <<priced, traded, candles, saved>>

Save(p, h) ==
  /\ h \in visible \cap In(p)
  /\ saved[p] < h
  /\ p # Live => h = p[2]
  /\ saved' = [saved EXCEPT ![p] = h]
  /\ UNCHANGED <<visible, priced, traded, candles>>

LogNext ==
  \E p \in Ranges :
    \/ \E hs \in SUBSET In(p) : AddPrices(p, hs) \/ AddVolumes(p, hs) \/ Publish(p, hs)
    \/ \E h \in In(p) : Save(p, h)

LogSpec == LogInit /\ [][LogNext]_readable
=============================================================================
