------------------------------ MODULE ReorgHeal ------------------------------
(***************************************************************************)
(* The live raw pipeline (raw-live) following a chain that may drop blocks *)
(* it has already indexed, and heal_live_raw_reorg of                      *)
(* scripts/ingestion-supervisor.sh, which walks its checkpoint back.       *)
(*                                                                         *)
(* A block is the sequence of branches from the root to it, so its hash    *)
(* says what all its ancestors are, and a chain is its last block.  Every  *)
(* reorganisation opens a new branch: a dropped block never returns.       *)
(* Every query of the healer is a step of its own, because raw-live, the   *)
(* chain and the container's restarts go on in between.                    *)
(***************************************************************************)
EXTENDS Integers, Sequences, SequencesExt

CONSTANTS
  REORG_MAX_DEPTH,
  EventCount,   \* events in a block of each branch
  MaxEvents,    \* bound: events in a block
  MaxTip,       \* bound: height of the chain
  MaxReorgs,    \* bound: reorganisations
  MaxFaults,    \* bound: faults of all kinds together
  None

ASSUME ReorgHealAssumption ==
  /\ {REORG_MAX_DEPTH, MaxTip, MaxEvents} \subseteq Nat \ {0}
  /\ {MaxReorgs, MaxFaults} \subseteq Nat
  /\ EventCount \in [1..MaxReorgs + 1 -> 1..MaxEvents]

VARIABLES
  chain,   \* the finalized chain the RPC endpoint answers from
  stored,  \* raw_blocks FINAL: the block_hash of each height
  events,  \* raw_events FINAL: the block each row of a height belongs to
  cp,      \* raw-live's row of raw_ingestion_state, and whether it has gone stale
  live,    \* raw-live's process
  heal,    \* heal_live_raw_reorg in the supervisor's loop
  faults   \* how many faults have happened

tables == <<stored, events, cp>>
vars   == <<chain, tables, live, heal, faults>>

Branches == 1..MaxReorgs + 1
Heights  == 0..MaxTip
Hashes   == UNION {[1..n -> Branches] : n \in Heights}

OnChain(b)     == IsPrefix(b, chain)
Ancestor(b, h) == SubSeq(b, 1, h)
EventsOf(b)    == IF b = <<>> THEN 1 ELSE EventCount[Last(b)]

Fault == faults < MaxFaults /\ faults' = faults + 1

Idle == [at |-> "idle", block |-> 0, hash |-> <<>>, depth |-> 0, found |-> None, missed |-> FALSE]
Down == [at |-> "down", saved |-> <<>>, head |-> <<>>]

\* The root is indexed and raw-live has not started on what follows it.
Init ==
  /\ chain = <<>>
  /\ stored = [h \in Heights |-> IF h = 0 THEN <<>> ELSE None]
  /\ events = [h \in Heights |-> [i \in 1..MaxEvents |-> IF h = 0 /\ i = 1 THEN <<>> ELSE None]]
  /\ cp = [hash |-> <<>>, stale |-> FALSE]
  /\ live = Down
  /\ heal = Idle
  /\ faults = 0

-----------------------------------------------------------------------------
(* The chain and the clock.                                                *)

CurrentBranch == IF chain = <<>> THEN 1 ELSE Last(chain)

Extend ==
  /\ Len(chain) < MaxTip
  /\ chain' = Append(chain, CurrentBranch)
  /\ UNCHANGED <<tables, live, heal, faults>>

\* The blocks above height h are replaced by one of a new branch.
Reorg(h) ==
  /\ h < Len(chain) /\ CurrentBranch <= MaxReorgs
  /\ chain' = Append(Ancestor(chain, h), CurrentBranch + 1)
  /\ UNCHANGED <<tables, live, heal, faults>>

\* REORG_STALL_SECONDS have passed since the checkpoint was written.
Age ==
  /\ ~cp.stale
  /\ cp' = [cp EXCEPT !.stale = TRUE]
  /\ UNCHANGED <<chain, stored, events, live, heal, faults>>

-----------------------------------------------------------------------------
(* raw-live: RawDatabase without a range, under restart: unless-stopped.   *)

\* connect: the process resumes from its checkpoint.
Boot ==
  /\ live.at = "down"
  /\ live' = [at |-> "run", saved |-> cp.hash, head |-> cp.hash]
  /\ UNCHANGED <<chain, tables, heal, faults>>

\* The finalized head is above height n; at the bound it would come to be.
GrownPast(n) == Len(chain) > n \/ Len(chain) = MaxTip

\* The processor waits until the finalized head is above its own, then finds
\* that the block it stands on is gone and ends the process.
Abort ==
  /\ live.at = "run" /\ GrownPast(Len(live.head)) /\ ~OnChain(live.head)
  /\ live' = Down
  /\ UNCHANGED <<chain, tables, heal, faults>>

\* Off the head of the chain the rows may stay buffered (shouldFlushRaw).
AfterBatch(n) == {"blocks"} \cup IF n < Len(chain) THEN {"run"} ELSE {}

\* One batch of blocks, up to height n.
Batch(n) ==
  /\ live.at = "run" /\ n \in Len(live.head) + 1..Len(chain) /\ OnChain(live.head)
  /\ \E at \in AfterBatch(n) :
       live' = [live EXCEPT !.at = at, !.head = Ancestor(chain, n)]
  /\ UNCHANGED <<chain, tables, heal, faults>>

Pending == Len(live.saved) + 1..Len(live.head)

\* flushAll: raw_blocks is the first table of a flush.
FlushBlocks ==
  /\ live.at = "blocks"
  /\ stored' = [h \in Heights |-> IF h \in Pending THEN Ancestor(live.head, h) ELSE stored[h]]
  /\ live' = [live EXCEPT !.at = "rows"]
  /\ UNCHANGED <<chain, events, cp, heal, faults>>

\* The other tables follow.  A row replaces the one with the same height and
\* event index and no other.
FlushRows ==
  /\ live.at = "rows"
  /\ events' = [h \in Heights |->
       IF h \in Pending
         THEN [i \in 1..MaxEvents |-> IF i <= EventsOf(Ancestor(live.head, h))
                                        THEN Ancestor(live.head, h) ELSE events[h][i]]
         ELSE events[h]]
  /\ live' = [live EXCEPT !.at = "save"]
  /\ UNCHANGED <<chain, stored, cp, heal, faults>>

SaveCheckpoint ==
  /\ live.at = "save"
  /\ cp' = [hash |-> live.head, stale |-> FALSE]
  /\ live' = [live EXCEPT !.at = "run", !.saved = live.head]
  /\ UNCHANGED <<chain, stored, events, heal, faults>>

\* The process dies anywhere, buffered rows and all.
Crash ==
  /\ live.at # "down"
  /\ live' = Down
  /\ Fault
  /\ UNCHANGED <<chain, tables, heal>>

-----------------------------------------------------------------------------
(* heal_live_raw_reorg.                                                    *)

\* What rpc_block_hash prints: nothing for a height the chain does not have.
RpcBlockHash(h) == IF h <= Len(chain) THEN Ancestor(chain, h) ELSE None

\* What a call prints, or nothing because it failed.
Answers(value) ==
  {[value |-> value, fault |-> FALSE]} \cup
  IF faults < MaxFaults THEN {[value |-> None, fault |-> TRUE]} ELSE {}

Charge(a) == faults' = faults + IF a.fault THEN 1 ELSE 0

\* The checkpoint query: anything but a stale row ends this pass.
HealRead ==
  /\ heal.at = "idle" /\ cp.stale
  /\ heal' = [Idle EXCEPT !.at = "check", !.block = Len(cp.hash), !.hash = cp.hash]
  /\ UNCHANGED <<chain, tables, live, faults>>

\* Mutant: no answer is taken for another hash.
OffChainEager(answer) == answer # heal.hash

\* An answer other than the checkpoint's hash.
OffChain(answer) == answer # None /\ answer # heal.hash

\* Is the checkpoint still on the chain?
HealCheck ==
  /\ heal.at = "check"
  /\ \E a \in Answers(RpcBlockHash(heal.block)) :
       /\ heal' = IF OffChain(a.value) THEN [heal EXCEPT !.at = "stored", !.depth = 1] ELSE Idle
       /\ Charge(a)
  /\ UNCHANGED <<chain, tables, live>>

\* Mutant: the search starts one block too deep.
ProbeBelow == heal.block - heal.depth - 1

Probe == heal.block - heal.depth

\* Mutant: the last depth of the limit is not tried.
WithinDepthShort == heal.depth < REORG_MAX_DEPTH /\ Probe >= 0

WithinDepth == heal.depth <= REORG_MAX_DEPTH /\ Probe >= 0

\* No common ancestor within REORG_MAX_DEPTH: logged for a human.
HealGiveUp ==
  /\ heal.at = "stored" /\ ~WithinDepth
  /\ heal' = Idle
  /\ UNCHANGED <<chain, tables, live, faults>>

Deeper == [heal EXCEPT !.at = "stored", !.depth = @ + 1, !.found = None]

\* The hash raw_blocks holds for the probe; without one the loop goes on.
HealStored ==
  /\ heal.at = "stored" /\ WithinDepth
  /\ \E a \in Answers(stored[Probe]) :
       /\ heal' = IF a.value = None
                    THEN [Deeper EXCEPT !.missed = TRUE]
                    ELSE [heal EXCEPT !.at = "probe", !.found = a.value]
       /\ Charge(a)
  /\ UNCHANGED <<chain, tables, live>>

Agree(answer) == answer = heal.found

\* The hash the chain has for the probe; equal hashes are the common ancestor.
HealProbe ==
  /\ heal.at = "probe"
  /\ \E a \in Answers(RpcBlockHash(Probe)) :
       /\ heal' = IF Agree(a.value)
                    THEN [heal EXCEPT !.at = "insert"]
                    ELSE [Deeper EXCEPT !.missed = @ \/ a.value = None]
       /\ Charge(a)
  /\ UNCHANGED <<chain, tables, live>>

\* Mutant: the chain's hash is taken over at the checkpoint's own height.
RolledBackInPlace == Ancestor(chain, heal.block)

RolledBack == heal.found

\* The checkpoint is rolled back; when the insert fails nothing is restarted.
HealInsert ==
  /\ heal.at = "insert"
  /\ \/ /\ cp' = [hash |-> RolledBack, stale |-> FALSE]
        /\ heal' = [heal EXCEPT !.at = "restart"]
        /\ UNCHANGED faults
     \/ /\ Fault
        /\ heal' = Idle
        /\ UNCHANGED cp
  /\ UNCHANGED <<chain, stored, events, live>>

\* docker compose restart; when it fails the restart policy is relied on.
HealRestart ==
  /\ heal.at = "restart"
  /\ \/ live' = Down /\ UNCHANGED faults
     \/ Fault /\ UNCHANGED live
  /\ heal' = Idle
  /\ UNCHANGED <<chain, tables>>

\* The supervisor dies and starts its loop again.
ScriptCrash ==
  /\ heal.at # "idle"
  /\ heal' = Idle
  /\ Fault
  /\ UNCHANGED <<chain, tables, live>>

-----------------------------------------------------------------------------

LiveStep == Boot \/ Abort \/ (\E n \in Heights : Batch(n)) \/ FlushBlocks \/ FlushRows \/ SaveCheckpoint

HealStep == HealRead \/ HealCheck \/ HealGiveUp \/ HealStored \/ HealProbe \/ HealInsert \/ HealRestart

Next ==
  \/ Extend \/ Age
  \/ \E h \in Heights : Reorg(h)
  \/ LiveStep \/ Crash
  \/ HealStep \/ ScriptCrash

Spec == Init /\ [][Next]_vars

\* The chain grows, time passes, the container is restarted and the loop polls.
FairSpec == Spec /\ WF_vars(Extend) /\ WF_vars(Age) /\ WF_vars(LiveStep) /\ WF_vars(HealStep)

-----------------------------------------------------------------------------

TypeOK ==
  /\ chain \in Hashes
  /\ stored \in [Heights -> Hashes \cup {None}]
  /\ events \in [Heights -> [1..MaxEvents -> Hashes \cup {None}]]
  /\ cp \in [hash : Hashes, stale : BOOLEAN]
  /\ live \in [at : {"down", "run", "blocks", "rows", "save"}, saved : Hashes, head : Hashes]
  /\ heal \in [at : {"idle", "check", "stored", "probe", "insert", "restart"},
               block : Heights, hash : Hashes, depth : 0..REORG_MAX_DEPTH + 1,
               found : Hashes \cup {None}, missed : BOOLEAN]
  /\ faults \in 0..MaxFaults

\* What raw-live resumes from is always backed by the tables: every block at or
\* below the checkpoint is the checkpoint's own ancestor, with all its events,
\* through crashes between the inserts of a flush, rollbacks to an ancestor and
\* a flush of the abandoned branch that lands after the rollback.
TipComplete ==
  \A h \in 0..Len(cp.hash) :
    /\ stored[h] = Ancestor(cp.hash, h)
    /\ \A i \in 1..EventsOf(stored[h]) : events[h][i] = stored[h]

\* The follower and the healer stay in their domains, and the tip is always whole.
TipInv == TypeOK /\ TipComplete

\* "rolling back on an outage loses good tip": while the checkpoint is on the
\* chain no pass of the healer lowers it, whatever the endpoint fails to answer
\* and whatever happened since the pass read the checkpoint.
GoodTipKept == [][OnChain(cp.hash) => Len(cp'.hash) >= Len(cp.hash)]_vars

\* A rollback for which every call answered gives up no block that is still on
\* the chain, although the chain and raw-live move on during the search.
RollbackShallow ==
  [][HealInsert /\ cp' # cp /\ ~heal.missed =>
       \A h \in Len(cp'.hash) + 1..Len(cp.hash) : ~OnChain(stored[h])]_vars

\* No stored block within REORG_MAX_DEPTH below the checkpoint is on the chain.
NeedsHuman ==
  /\ ~OnChain(cp.hash)
  /\ \A h \in 0..Len(cp.hash) - 1 :
       Len(cp.hash) - h <= REORG_MAX_DEPTH => ~OnChain(stored[h])

\* A reorganisation does not wedge the live tip: once the chain is settled the
\* checkpoint reaches it for good, unless the fork is deeper than the limit.
TipRecovers == <>[](cp.hash = chain \/ NeedsHuman)

\* "re-indexing the forked span overwrites it in place rather than leaving both
\* chains behind": no row at or below the checkpoint belongs to another branch.
OverwrittenInPlace ==
  \A h \in 0..Len(cp.hash), i \in 1..MaxEvents : events[h][i] \in {None, stored[h]}
=============================================================================
