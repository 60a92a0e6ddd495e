--------------------------- MODULE ReorgHealProofs ---------------------------
(***************************************************************************)
(* Proofs about ReorgHeal for chains of every height, every number of      *)
(* reorganisations and faults and every search depth.                      *)
(***************************************************************************)
EXTENDS ReorgHeal, SequenceTheorems, TLAPS

-----------------------------------------------------------------------------
(* The inductive invariant.                                                *)

\* The tables hold block b and all its ancestors, each with all its events.
Whole(b) ==
  \A h \in 0..Len(b) :
    /\ stored[h] = Ancestor(b, h)
    /\ \A i \in 1..EventsOf(stored[h]) : events[h][i] = stored[h]

\* The branch of the last block of chain c.
Branch(c) == IF c = <<>> THEN 1 ELSE Last(c)

\* Block b is of no later branch than chain c, and is on c or parts from it at a
\* height both have: it is no block that c could still grow into.
SettledOn(b, c) ==
  /\ \A i \in 1..Len(b) : b[i] <= Branch(c)
  /\ IsPrefix(b, c) \/ \E i \in 1..Len(b) : i <= Len(c) /\ b[i] # c[i]

\* Every block the pipeline remembers has been on the chain.
ChainInv ==
  /\ SettledOn(chain, chain)
  /\ SettledOn(cp.hash, chain)
  /\ SettledOn(live.head, chain)
  /\ SettledOn(heal.hash, chain)

\* raw-live resumed from a checkpoint that is no lower than the one in the table,
\* and the inserts it has done of the flush it is in are there.
LiveInv ==
  live.at # "down" =>
    /\ Len(live.saved) <= Len(live.head) /\ live.saved = Ancestor(live.head, Len(live.saved))
    /\ Len(cp.hash) <= Len(live.saved)
    /\ Whole(live.saved)
    /\ live.at \in {"rows", "save"} => \A h \in Pending : stored[h] = Ancestor(live.head, h)
    /\ live.at = "save" => \A h \in Pending : \A i \in 1..EventsOf(Ancestor(live.head, h)) :
                             events[h][i] = Ancestor(live.head, h)

\* The checkpoint a pass has read is an ancestor of the one in the table; once found
\* gone it stays gone, and so does what a probe that was answered found gone.
HealInv ==
  /\ heal.at \in {"check", "stored", "probe", "insert"} =>
       /\ heal.block = Len(heal.hash) /\ heal.block <= Len(cp.hash)
       /\ heal.hash = Ancestor(cp.hash, heal.block)
  /\ heal.at \in {"stored", "probe", "insert"} =>
       /\ heal.depth \in 1..heal.block + 1
       /\ ~OnChain(heal.hash)
       /\ ~heal.missed => ~OnChain(Ancestor(heal.hash, Probe + 1))
  /\ heal.at \in {"probe", "insert"} =>
       /\ WithinDepth
       /\ heal.found = Ancestor(heal.hash, Probe)

IInv == TypeOK /\ TipComplete /\ ChainInv /\ LiveInv /\ HealInv

-----------------------------------------------------------------------------
(* Blocks, ancestors and the chain.                                      *)

LEMMA ConstFacts ==
  /\ MaxTip \in Nat \ {0} /\ MaxReorgs \in Nat /\ MaxFaults \in Nat
  /\ REORG_MAX_DEPTH \in Nat \ {0} /\ MaxEvents \in Nat \ {0}
  /\ EventCount \in [Branches -> 1..MaxEvents]
  /\ 1 \in Branches /\ Branches \subseteq Nat
BY ReorgHealAssumption DEF Branches

\* A block is a sequence of branches of bounded length.
LEMMA HashType ==
  /\ \A b \in Hashes : /\ b \in Seq(Branches) /\ Len(b) \in Heights /\ Len(b) \in Nat
                       /\ \A i \in 1..Len(b) : b[i] \in Branches
  /\ \A b \in Seq(Branches) : Len(b) <= MaxTip => b \in Hashes
  /\ <<>> \in Hashes /\ Len(<<>>) = 0
<1> USE ConstFacts
<1>1. ASSUME NEW b \in Hashes
      PROVE  b \in Seq(Branches) /\ Len(b) \in Heights /\ Len(b) \in Nat
             /\ \A i \in 1..Len(b) : b[i] \in Branches
  <2>1. PICK n \in Heights : b \in [1..n -> Branches]
    BY DEF Hashes
  <2>2. n \in Nat
    BY DEF Heights
  <2>3. b \in Seq(Branches) /\ Len(b) = n
    BY <2>1, <2>2
  <2> QED
    BY <2>1, <2>2, <2>3
<1>2. ASSUME NEW b \in Seq(Branches), Len(b) <= MaxTip
      PROVE  b \in Hashes
  <2>1. Len(b) \in Nat /\ b \in [1..Len(b) -> Branches]
    OBVIOUS
  <2>2. Len(b) \in Heights
    BY <1>2, <2>1 DEF Heights
  <2> QED
    BY <2>1, <2>2 DEF Hashes
<1>3. <<>> \in Seq(Branches) /\ Len(<<>>) = 0
  OBVIOUS
<1>4. ASSUME NEW b, b = <<>> PROVE b \in Hashes
  <2>1. b \in Seq(Branches) /\ Len(b) <= MaxTip
    BY <1>3, <1>4
  <2> QED
    BY <1>2, <2>1
<1> QED
  BY <1>1, <1>2, <1>3, <1>4, Zenon

\* Two blocks are equal when their branches are.
LEMMA HashEqual ==
  ASSUME NEW b \in Hashes, NEW c \in Hashes, Len(b) = Len(c),
         \A i \in 1..Len(b) : b[i] = c[i]
  PROVE  b = c
BY HashType, SeqEqual

LEMMA AncestorType ==
  ASSUME NEW b \in Hashes, NEW h \in 0..Len(b)
  PROVE  /\ Ancestor(b, h) \in Hashes
         /\ Len(Ancestor(b, h)) = h
         /\ \A i \in 1..h : Ancestor(b, h)[i] = b[i]
<1>1. b \in Seq(Branches) /\ Len(b) \in Nat /\ Len(b) <= MaxTip
  BY HashType DEF Heights
<1>2. \A i \in 1..h : b[i] \in Branches
  BY <1>1, HashType
<1>3. Ancestor(b, h) \in Seq(Branches) /\ Len(Ancestor(b, h)) = h
      /\ \A i \in 1..h : Ancestor(b, h)[i] = b[i]
  BY <1>1, <1>2 DEF Ancestor
<1> QED
  BY <1>1, <1>3, HashType, ConstFacts

\* An ancestor of an ancestor is an ancestor, and a block is its own.
LEMMA AncestorOf ==
  ASSUME NEW b \in Hashes, NEW k \in 0..Len(b), NEW h \in 0..k
  PROVE  Ancestor(Ancestor(b, k), h) = Ancestor(b, h)
<1>1. Len(b) \in Nat
  BY HashType
<1>2. h \in 0..Len(b) /\ Ancestor(b, k) \in Hashes /\ Len(Ancestor(b, k)) = k
  BY <1>1, AncestorType
<1>3. Ancestor(Ancestor(b, k), h) \in Hashes /\ Ancestor(b, h) \in Hashes
      /\ Len(Ancestor(Ancestor(b, k), h)) = h /\ Len(Ancestor(b, h)) = h
  BY <1>2, AncestorType
<1>4. ASSUME NEW i \in 1..h PROVE Ancestor(Ancestor(b, k), h)[i] = Ancestor(b, h)[i]
  <2>1. i \in 1..k
    BY <1>1
  <2>2. Ancestor(Ancestor(b, k), h)[i] = Ancestor(b, k)[i]
    BY <1>2, AncestorType
  <2> QED
    BY <1>2, <2>1, <2>2, AncestorType
<1> QED
  BY <1>3, <1>4, HashEqual

LEMMA OwnAncestor ==
  ASSUME NEW b \in Hashes
  PROVE  Ancestor(b, Len(b)) = b
<1>1. Len(b) \in Nat
  BY HashType
<1> QED
  BY <1>1, AncestorType, HashEqual

\* What it means for block b to be on chain c.
LEMMA PrefixDef ==
  ASSUME NEW b \in Hashes, NEW c \in Hashes
  PROVE  /\ IsPrefix(b, c) <=> Len(b) <= Len(c) /\ \A i \in 1..Len(b) : b[i] = c[i]
         /\ IsPrefix(b, c) <=> Len(b) <= Len(c) /\ b = Ancestor(c, Len(b))
<1>1. Len(b) \in Nat /\ Len(c) \in Nat
  BY HashType
<1>2. IsPrefix(b, c) <=> Len(b) <= Len(c) /\ b = Ancestor(c, Len(b))
  BY OwnAncestor DEF IsPrefix, Ancestor
<1>3. ASSUME Len(b) <= Len(c), \A i \in 1..Len(b) : b[i] = c[i]
      PROVE  b = Ancestor(c, Len(b))
  BY <1>1, <1>3, AncestorType, HashEqual
<1>4. ASSUME Len(b) <= Len(c), b = Ancestor(c, Len(b)), NEW i \in 1..Len(b)
      PROVE  b[i] = c[i]
  <2>1. Len(b) \in 0..Len(c)
    BY <1>1, <1>4
  <2>2. Ancestor(c, Len(b))[i] = c[i]
    BY <2>1, AncestorType
  <2> QED
    BY <1>4, <2>2
<1> QED
  BY <1>2, <1>3, <1>4

\* Below a block on a chain everything is on the chain.
LEMMA PrefixDown ==
  ASSUME NEW b \in Hashes, NEW c \in Hashes, NEW h \in 0..Len(b), IsPrefix(b, c)
  PROVE  IsPrefix(Ancestor(b, h), c)
<1>1. Len(b) \in Nat /\ Len(c) \in Nat
  BY HashType
<1>2. Ancestor(b, h) \in Hashes /\ Len(Ancestor(b, h)) = h
      /\ \A i \in 1..h : Ancestor(b, h)[i] = b[i]
  BY AncestorType
<1>3. Len(b) <= Len(c) /\ \A i \in 1..Len(b) : b[i] = c[i]
  BY PrefixDef
<1> QED
  BY <1>1, <1>2, <1>3, PrefixDef

LEMMA BranchType ==
  ASSUME NEW c \in Hashes
  PROVE  Branch(c) \in Branches /\ Branch(c) \in Nat
<1>1. c \in Seq(Branches) /\ Len(c) \in Nat /\ \A i \in 1..Len(c) : c[i] \in Branches
  BY HashType
<1>2. c # <<>> => Len(c) \in 1..Len(c)
  BY <1>1
<1> QED
  BY <1>1, <1>2, ConstFacts DEF Branch, Last

LEMMA SettledDown ==
  ASSUME NEW b \in Hashes, NEW c \in Hashes, NEW h \in 0..Len(b), SettledOn(b, c)
  PROVE  SettledOn(Ancestor(b, h), c)
<1>1. Len(b) \in Nat /\ Len(c) \in Nat
  BY HashType
<1>2. Ancestor(b, h) \in Hashes /\ Len(Ancestor(b, h)) = h
      /\ \A i \in 1..h : Ancestor(b, h)[i] = b[i]
  BY AncestorType
<1>3. CASE IsPrefix(b, c)
  BY <1>1, <1>2, <1>3, PrefixDown DEF SettledOn
<1>4. CASE ~IsPrefix(b, c)
  <2>1. PICK i \in 1..Len(b) : i <= Len(c) /\ b[i] # c[i]
    BY <1>4 DEF SettledOn
  <2>2. CASE \E j \in 1..h : j <= Len(c) /\ b[j] # c[j]
    BY <1>1, <1>2, <2>2 DEF SettledOn
  <2>3. CASE ~ \E j \in 1..h : j <= Len(c) /\ b[j] # c[j]
    <3>1. h <= Len(c)
      BY <1>1, <2>1, <2>3
    <3>2. \A j \in 1..h : Ancestor(b, h)[j] = c[j]
      BY <1>1, <1>2, <2>3, <3>1
    <3>3. IsPrefix(Ancestor(b, h), c)
      BY <1>2, <3>1, <3>2, PrefixDef
    <3> QED
      BY <1>1, <1>2, <3>3 DEF SettledOn
  <2> QED
    BY <2>2, <2>3
<1> QED
  BY <1>3, <1>4

\* A chain that grows by a block of its own branch, or that replaces the blocks
\* above a height by one of a new branch, takes none of its old blocks back.
LEMMA ChainGrows ==
  ASSUME NEW c \in Hashes, SettledOn(c, c), NEW h \in 0..Len(c), NEW x \in Branches,
         h < MaxTip,
         \/ h = Len(c) /\ x = Branch(c)
         \/ x = Branch(c) + 1
  PROVE  LET d == Append(Ancestor(c, h), x)
         IN  /\ d \in Hashes
             /\ SettledOn(d, d)
             /\ \A b \in Hashes : SettledOn(b, c) =>
                  /\ SettledOn(b, d)
                  /\ ~IsPrefix(b, c) => ~IsPrefix(b, d)
<1> DEFINE d == Append(Ancestor(c, h), x)
<1>1. Len(c) \in Nat /\ h \in Nat /\ Branch(c) \in Nat /\ x \in Nat
  BY HashType, BranchType, ConstFacts
<1>2. Ancestor(c, h) \in Hashes /\ Len(Ancestor(c, h)) = h
      /\ \A i \in 1..h : Ancestor(c, h)[i] = c[i]
  BY AncestorType
<1>3. Ancestor(c, h) \in Seq(Branches)
  BY <1>2, HashType
<1>4. d \in Seq(Branches) /\ Len(d) = h + 1 /\ d[h + 1] = x
      /\ \A i \in 1..h : d[i] = c[i]
  BY <1>1, <1>2, <1>3
<1> HIDE DEF d
<1>5. d \in Hashes
  BY <1>1, <1>4, HashType, ConstFacts
<1>6. Branch(d) = x
  BY <1>1, <1>4, HashType DEF Branch, Last
<1>7. Branch(c) <= x
  BY <1>1
<1>8. \A i \in 1..Len(c) : c[i] <= Branch(c) /\ c[i] \in Nat
  BY HashType, ConstFacts DEF SettledOn
<1>9. SettledOn(d, d)
  <2>1. \A i \in 1..h : d[i] <= x
    BY <1>1, <1>4, <1>7, <1>8
  <2>2. \A i \in 1..h + 1 : d[i] <= x
    BY <1>1, <1>4, <2>1
  <2>3. IsPrefix(d, d)
    BY <1>1, <1>4, <1>5, PrefixDef
  <2> QED
    BY <1>4, <1>6, <2>2, <2>3 DEF SettledOn
<1>10. ASSUME NEW b \in Hashes, SettledOn(b, c)
       PROVE  SettledOn(b, d) /\ (~IsPrefix(b, c) => ~IsPrefix(b, d))
  <2>1. Len(b) \in Nat /\ \A i \in 1..Len(b) : b[i] \in Nat /\ b[i] <= Branch(c)
    BY <1>10, HashType, ConstFacts DEF SettledOn
  <2>2. \A i \in 1..Len(b) : b[i] <= Branch(d)
    BY <1>1, <1>6, <1>7, <2>1
  <2>3. CASE IsPrefix(b, c)
    <3>1. Len(b) <= Len(c) /\ \A i \in 1..Len(b) : b[i] = c[i]
      BY <2>3, PrefixDef
    <3>2. CASE Len(b) <= h
      <4>1. IsPrefix(b, d)
        BY <1>1, <1>4, <1>5, <2>1, <3>1, <3>2, PrefixDef
      <4> QED
        BY <2>2, <2>3, <4>1 DEF SettledOn
    <3>3. CASE Len(b) > h
      <4>1. x = Branch(c) + 1
        BY <1>1, <2>1, <3>1, <3>3
      <4>2. h + 1 \in 1..Len(b) /\ h + 1 <= Len(d) /\ b[h + 1] # d[h + 1]
        BY <1>1, <1>4, <2>1, <3>3, <4>1
      <4> QED
        BY <2>2, <2>3, <4>2 DEF SettledOn
    <3> QED
      BY <1>1, <2>1, <3>2, <3>3
  <2>4. CASE ~IsPrefix(b, c)
    <3>1. PICK i \in 1..Len(b) : i <= Len(c) /\ b[i] # c[i]
      BY <1>10, <2>4 DEF SettledOn
    <3>2. \E k \in 1..Len(b) : k <= Len(d) /\ b[k] # d[k]
      <4>1. CASE i <= h
        BY <1>1, <1>4, <3>1, <4>1
      <4>2. CASE i > h
        <5>1. x = Branch(c) + 1
          BY <1>1, <3>1, <4>2
        <5>2. h + 1 \in 1..Len(b) /\ b[h + 1] # d[h + 1]
          BY <1>1, <1>4, <2>1, <4>2, <5>1
        <5> QED
          BY <1>4, <5>2
      <4> QED
        BY <1>1, <4>1, <4>2
    <3>3. ~IsPrefix(b, d)
      BY <1>5, <3>2, PrefixDef
    <3> QED
      BY <2>2, <3>2, <3>3 DEF SettledOn
  <2> QED
    BY <2>3, <2>4
<1> QED
  BY <1>5, <1>9, <1>10 DEF d

\* Whole tables of a block are whole tables of its ancestors.
LEMMA WholeDown ==
  ASSUME NEW b \in Hashes, NEW k \in 0..Len(b), Whole(b)
  PROVE  Whole(Ancestor(b, k))
<1>1. Len(b) \in Nat /\ Len(Ancestor(b, k)) = k
  BY HashType, AncestorType
<1>2. ASSUME NEW h \in 0..k
      PROVE  /\ stored[h] = Ancestor(Ancestor(b, k), h)
             /\ \A i \in 1..EventsOf(stored[h]) : events[h][i] = stored[h]
  <2>1. h \in 0..Len(b)
    BY <1>1
  <2> QED
    BY <2>1, AncestorOf DEF Whole
<1> QED
  BY <1>1, <1>2 DEF Whole

-----------------------------------------------------------------------------
(* Every step keeps the invariant, one lemma per group of actions.         *)

\* A step of the chain leaves the rest alone and takes no dropped block back.
LEMMA ChainStep ==
  ASSUME TypeOK, ChainInv, Extend \/ \E h \in Heights : Reorg(h)
  PROVE  /\ chain' \in Hashes /\ SettledOn(chain', chain')
         /\ \A b \in Hashes : SettledOn(b, chain) =>
              /\ SettledOn(b, chain')
              /\ ~IsPrefix(b, chain) => ~IsPrefix(b, chain')
         /\ UNCHANGED <<stored, events, cp, live, heal, faults>>
<1>1. chain \in Hashes /\ SettledOn(chain, chain) /\ Len(chain) \in Nat /\ Len(chain) <= MaxTip
  BY HashType DEF TypeOK, ChainInv, Heights
<1>2. CurrentBranch = Branch(chain) /\ Branch(chain) \in Branches
  BY <1>1, BranchType DEF CurrentBranch, Branch
<1>3. CASE Extend
  <2>1. Len(chain) < MaxTip /\ chain' = Append(Ancestor(chain, Len(chain)), Branch(chain))
    BY <1>1, <1>2, <1>3, OwnAncestor DEF Extend
  <2> QED
    BY <1>1, <1>2, <1>3, <2>1, ChainGrows DEF Extend, tables
<1>4. ASSUME NEW h \in Heights, Reorg(h)
      PROVE  /\ chain' \in Hashes /\ SettledOn(chain', chain')
             /\ \A b \in Hashes : SettledOn(b, chain) =>
                  /\ SettledOn(b, chain')
                  /\ ~IsPrefix(b, chain) => ~IsPrefix(b, chain')
             /\ UNCHANGED <<stored, events, cp, live, heal, faults>>
  <2>1. h \in 0..Len(chain) /\ h < MaxTip /\ Branch(chain) + 1 \in Branches
    BY <1>1, <1>2, <1>4, ConstFacts DEF Reorg, Heights, Branches
  <2>2. chain' = Append(Ancestor(chain, h), Branch(chain) + 1)
    BY <1>2, <1>4 DEF Reorg
  <2> QED
    BY <1>1, <1>4, <2>1, <2>2, ChainGrows DEF Reorg, tables
<1> QED
  BY <1>3, <1>4

LEMMA ChainKeeps == IInv /\ (Extend \/ \E h \in Heights : Reorg(h)) => IInv'
<1> SUFFICES ASSUME IInv, Extend \/ \E h \in Heights : Reorg(h) PROVE IInv'
  OBVIOUS
<1>0. TypeOK /\ TipComplete /\ ChainInv /\ LiveInv /\ HealInv
  BY DEF IInv
<1>1. /\ chain' \in Hashes /\ SettledOn(chain', chain')
      /\ \A b \in Hashes : SettledOn(b, chain) =>
           /\ SettledOn(b, chain')
           /\ ~IsPrefix(b, chain) => ~IsPrefix(b, chain')
      /\ UNCHANGED <<stored, events, cp, live, heal, faults>>
  BY <1>0, ChainStep
<1>2. cp.hash \in Hashes /\ live.head \in Hashes /\ heal.hash \in Hashes
  BY <1>0 DEF TypeOK
<1>3. TypeOK'
  BY <1>0, <1>1 DEF TypeOK
<1>4. TipComplete' /\ LiveInv'
  BY <1>0, <1>1 DEF TipComplete, LiveInv, Whole, Pending
<1>5. ChainInv'
  BY <1>0, <1>1, <1>2 DEF ChainInv
<1>6. HealInv'
  <2>1. ASSUME heal.at \in {"stored", "probe", "insert"}, ~OnChain(heal.hash)
        PROVE  ~OnChain(heal.hash)'
    BY <1>0, <1>1, <1>2, <2>1 DEF ChainInv, OnChain
  <2>2. ASSUME heal.at \in {"stored", "probe", "insert"},
               ~OnChain(Ancestor(heal.hash, Probe + 1))
        PROVE  ~OnChain(Ancestor(heal.hash, Probe + 1))'
    <3>1. Probe + 1 \in 0..Len(heal.hash)
      BY <1>0, <1>2, <2>2, HashType DEF HealInv, Probe
    <3>2. /\ Ancestor(heal.hash, Probe + 1) \in Hashes
          /\ SettledOn(Ancestor(heal.hash, Probe + 1), chain)
      BY <1>0, <1>2, <3>1, AncestorType, SettledDown DEF ChainInv, TypeOK
    <3>3. Ancestor(heal.hash, Probe + 1)' = Ancestor(heal.hash, Probe + 1)
      BY <1>1 DEF Probe
    <3> QED
      BY <1>1, <2>2, <3>2, <3>3 DEF OnChain
  <2> QED
    BY <1>0, <1>1, <2>1, <2>2 DEF HealInv, WithinDepth, Probe
<1> QED
  BY <1>3, <1>4, <1>5, <1>6 DEF IInv

\* The empty block, which stands for no work and no pass, is settled.
LEMMA RootSettled ==
  ASSUME TypeOK, ChainInv
  PROVE  SettledOn(<<>>, chain)
<1>1. SettledOn(Ancestor(chain, 0), chain)
  BY SettledDown, HashType DEF TypeOK, ChainInv
<1>2. Ancestor(chain, 0) = <<>>
  BY AncestorType, HashType, HashEqual DEF TypeOK
<1> QED
  BY <1>1, <1>2

\* Steps that leave the chain, the tables and the checkpoint's hash alone and end
\* raw-live's process or leave it alone.
LEMMA LiveEnds ==
  ASSUME IInv, UNCHANGED <<chain, stored, events>>, cp'.hash = cp.hash,
         live' = Down \/ live' = live, TypeOK'
  PROVE  TipComplete' /\ LiveInv'
         /\ SettledOn(chain', chain') /\ SettledOn(cp'.hash, chain') /\ SettledOn(live'.head, chain')
<1>0. TypeOK /\ TipComplete /\ ChainInv /\ LiveInv
  BY DEF IInv
<1>1. TipComplete'
  BY <1>0 DEF TipComplete
<1>2. LiveInv'
  BY <1>0 DEF LiveInv, Whole, Pending, Down
<1>3. SettledOn(<<>>, chain)
  BY <1>0, RootSettled
<1> QED
  BY <1>0, <1>1, <1>2, <1>3 DEF ChainInv, Down
LiveType == [at : {"down", "run", "blocks", "rows", "save"}, saved : Hashes, head : Hashes]

HealType == [at : {"idle", "check", "stored", "probe", "insert", "restart"},
             block : Heights, hash : Hashes, depth : 0..REORG_MAX_DEPTH + 1,
             found : Hashes \cup {None}, missed : BOOLEAN]

LEMMA RestTypes == Down \in LiveType /\ Idle \in HealType
<1>1. <<>> \in Hashes /\ 0 \in Heights /\ 0 \in 0..REORG_MAX_DEPTH + 1
  BY ConstFacts, HashType DEF Heights
<1>2. Down \in LiveType
  BY <1>1 DEF Down, LiveType
<1>3. Idle \in HealType
  BY <1>1 DEF Idle, HealType
<1> QED
  BY <1>2, <1>3

\* The block a probe is about is below the checkpoint the pass has read.
LEMMA ProbeRange ==
  ASSUME TypeOK, HealInv, heal.at \in {"probe", "insert"}
  PROVE  Probe \in 0..heal.block - 1 /\ heal.block = Len(heal.hash) /\ heal.block \in Nat
         /\ heal.found = Ancestor(heal.hash, Probe) /\ heal.found \in Hashes
<1>1. heal.block \in Nat /\ heal.depth \in Nat /\ heal.hash \in Hashes
  BY DEF TypeOK, Heights
<1>2. /\ heal.block = Len(heal.hash) /\ WithinDepth /\ heal.depth \in 1..heal.block + 1
      /\ heal.found = Ancestor(heal.hash, Probe)
  BY DEF HealInv
<1>3. Probe \in 0..heal.block - 1 /\ Probe \in 0..Len(heal.hash)
  BY <1>1, <1>2 DEF WithinDepth, Probe
<1> QED
  BY <1>1, <1>2, <1>3, AncestorType

\* Every step but those of the chain keeps the types.
LEMMA TypeStep ==
  ASSUME IInv, Age \/ LiveStep \/ Crash \/ HealStep \/ ScriptCrash
  PROVE  TypeOK'
<1>0. TypeOK /\ HealInv /\ TipComplete
  BY DEF IInv
<1>a. /\ <<>> \in Hashes /\ 0 \in Heights /\ Heights \subseteq Nat
      /\ Len(cp.hash) \in Heights /\ Len(chain) \in Nat
      /\ Len(live.head) \in Nat /\ Len(live.saved) \in Nat /\ Len(heal.hash) \in Nat
  BY <1>0, ConstFacts, HashType DEF TypeOK, Heights
<1>b. 0 \in 0..REORG_MAX_DEPTH + 1 /\ 1 \in 0..REORG_MAX_DEPTH + 1
  BY ConstFacts
<1>c. ASSUME faults' = faults \/ Fault \/ (\E v : \E a \in Answers(v) : Charge(a))
      PROVE  faults' \in 0..MaxFaults
  BY <1>0, <1>c, ConstFacts DEF TypeOK, Fault, Answers, Charge
<1> USE <1>0, <1>a, RestTypes DEF TypeOK, LiveType, HealType
<1>1. CASE Age \/ Boot \/ Abort \/ SaveCheckpoint \/ HealGiveUp
  <2>1. CASE Age
    BY <1>1, <2>1 DEF Age
  <2>2. CASE Boot \/ Abort \/ HealGiveUp
    BY <1>1, <2>2 DEF Boot, Abort, HealGiveUp, tables
  <2>3. CASE SaveCheckpoint
    BY <1>1, <2>3 DEF SaveCheckpoint
  <2> QED
    BY <1>1, <2>1, <2>2, <2>3
<1>2. ASSUME NEW n \in Heights, Batch(n) PROVE TypeOK'
  <2>1. n \in 0..Len(chain)
    BY <1>2 DEF Batch
  <2>2. Ancestor(chain, n) \in Hashes
    BY <2>1, AncestorType
  <2> QED
    BY <1>2, <2>2 DEF Batch, AfterBatch, tables
<1>3. ASSUME NEW h \in Heights, h \in Pending PROVE Ancestor(live.head, h) \in Hashes
  <2>1. h \in 0..Len(live.head)
    BY <1>3 DEF Pending
  <2> QED
    BY <2>1, AncestorType
<1>4. CASE FlushBlocks
  BY <1>3, <1>4 DEF FlushBlocks
<1>5. CASE FlushRows
  <2>1. events' \in [Heights -> [1..MaxEvents -> Hashes \cup {None}]]
    BY <1>3, <1>5 DEF FlushRows
  <2> QED
    BY <1>5, <2>1 DEF FlushRows
<1>6. CASE HealRestart \/ Crash \/ ScriptCrash
  <2>1. faults' \in 0..MaxFaults
    BY <1>6, <1>c DEF HealRestart, Crash, ScriptCrash
  <2> QED
    BY <1>6, <2>1 DEF HealRestart, Crash, ScriptCrash, tables
<1>7. CASE HealRead
  BY <1>7 DEF HealRead, tables
<1>8. CASE HealCheck
  <2>1. faults' \in 0..MaxFaults
    BY <1>8, <1>c DEF HealCheck
  <2> QED
    BY <1>8, <1>b, <2>1 DEF HealCheck, tables
<1>9. ASSUME heal.at \in {"stored", "probe"}, WithinDepth
      PROVE  heal.depth + 1 \in 0..REORG_MAX_DEPTH + 1
  BY <1>9, ConstFacts DEF WithinDepth
<1>10. CASE HealStored
  <2>1. faults' \in 0..MaxFaults
    BY <1>10, <1>c DEF HealStored
  <2>2. Probe \in Heights
    BY <1>10, ConstFacts, SMTT(30) DEF HealStored, WithinDepth, Probe, Heights
  <2>3. stored[Probe] \in Hashes \cup {None}
    BY <2>2
  <2>4. PICK a \in Answers(stored[Probe]) :
          heal' = IF a.value = None THEN [Deeper EXCEPT !.missed = TRUE]
                    ELSE [heal EXCEPT !.at = "probe", !.found = a.value]
    BY <1>10 DEF HealStored
  <2>5. a.value \in Hashes \cup {None}
    BY <2>3, <2>4 DEF Answers
  <2>6. heal.depth + 1 \in 0..REORG_MAX_DEPTH + 1
    BY <1>9, <1>10 DEF HealStored
  <2>7. heal' \in HealType
    BY <2>4, <2>5, <2>6 DEF Deeper
  <2> QED
    BY <1>10, <2>1, <2>7 DEF HealStored, tables
<1>11. CASE HealProbe
  <2>1. faults' \in 0..MaxFaults
    BY <1>11, <1>c DEF HealProbe
  <2>2. heal.depth + 1 \in 0..REORG_MAX_DEPTH + 1
    BY <1>9, <1>11 DEF HealProbe, HealInv
  <2>3. PICK a \in Answers(RpcBlockHash(Probe)) :
          heal' = IF Agree(a.value)
                    THEN [heal EXCEPT !.at = "insert"]
                    ELSE [Deeper EXCEPT !.missed = @ \/ a.value = None]
    BY <1>11 DEF HealProbe
  <2>4. heal' \in HealType
    BY <2>2, <2>3 DEF Deeper
  <2> QED
    BY <1>11, <2>1, <2>4 DEF HealProbe, tables
<1>12. CASE HealInsert
  <2>1. heal.found \in Hashes
    BY <1>12, ProbeRange DEF HealInsert
  <2>2. faults' \in 0..MaxFaults
    BY <1>12, <1>c DEF HealInsert
  <2>3. cp' \in [hash : Hashes, stale : BOOLEAN]
    <3>1. cp' = [hash |-> heal.found, stale |-> FALSE] \/ cp' = cp
      BY <1>12 DEF HealInsert, RolledBack
    <3>2. [hash |-> heal.found, stale |-> FALSE] \in [hash : Hashes, stale : BOOLEAN]
      BY <2>1
    <3> QED
      BY <3>1, <3>2
  <2>4. heal' \in HealType
    BY <1>12 DEF HealInsert
  <2> QED
    BY <1>12, <2>2, <2>3, <2>4 DEF HealInsert
<1> QED
  BY <1>1, <1>2, <1>4, <1>5, <1>6, <1>7, <1>8, <1>10, <1>11, <1>12 DEF LiveStep, HealStep

\* The clock, and every way raw-live or a pass of the healer ends.
LEMMA EndKeeps == IInv /\ (Age \/ Abort \/ Crash \/ HealGiveUp \/ HealRestart \/ ScriptCrash) => IInv'
<1> SUFFICES ASSUME IInv, Age \/ Abort \/ Crash \/ HealGiveUp \/ HealRestart \/ ScriptCrash
             PROVE  IInv'
  OBVIOUS
<1>0. TypeOK /\ ChainInv /\ HealInv
  BY DEF IInv
<1>1. TypeOK'
  BY TypeStep DEF LiveStep, HealStep
<1>2. /\ UNCHANGED <<chain, stored, events>> /\ cp'.hash = cp.hash
      /\ live' = Down \/ live' = live
      /\ heal' = Idle \/ heal' = heal
  BY <1>0 DEF Age, Abort, Crash, HealGiveUp, HealRestart, ScriptCrash, tables, TypeOK
<1>3. /\ TipComplete' /\ LiveInv'
      /\ SettledOn(chain', chain') /\ SettledOn(cp'.hash, chain') /\ SettledOn(live'.head, chain')
  BY <1>1, <1>2, LiveEnds
<1>4. SettledOn(heal'.hash, chain') /\ HealInv'
  <2>1. CASE heal' = Idle
    BY <1>0, <1>2, <2>1, RootSettled DEF Idle, HealInv
  <2>2. CASE heal' = heal
    BY <1>0, <1>2, <2>2 DEF ChainInv, HealInv, Probe, WithinDepth, OnChain
  <2> QED
    BY <1>2, <2>1, <2>2
<1> QED
  BY <1>1, <1>3, <1>4 DEF IInv, ChainInv

\* Steps of raw-live that leave the chain, the checkpoint and the healer alone keep
\* what the healer knows.
LEMMA HealerAlone ==
  ASSUME IInv, UNCHANGED <<chain, cp, heal>>, SettledOn(live'.head, chain)
  PROVE  ChainInv' /\ HealInv'
BY DEF IInv, ChainInv, HealInv, Probe, WithinDepth, OnChain

LEMMA BootKeeps == IInv /\ Boot => IInv'
<1> SUFFICES ASSUME IInv, Boot PROVE IInv'
  OBVIOUS
<1>0. TypeOK /\ TipComplete /\ ChainInv
  BY DEF IInv
<1>1. TypeOK'
  BY TypeStep DEF LiveStep
<1>2. /\ UNCHANGED <<chain, stored, events, cp, heal>>
      /\ live' = [at |-> "run", saved |-> cp.hash, head |-> cp.hash]
  BY DEF Boot, tables
<1>3. cp.hash \in Hashes /\ Ancestor(cp.hash, Len(cp.hash)) = cp.hash /\ Len(cp.hash) \in Nat
  BY <1>0, OwnAncestor, HashType DEF TypeOK
<1>4. TipComplete' /\ LiveInv'
  BY <1>0, <1>2, <1>3 DEF TipComplete, LiveInv, Whole, Pending
<1>5. ChainInv' /\ HealInv'
  BY <1>0, <1>2, HealerAlone DEF ChainInv
<1> QED
  BY <1>1, <1>4, <1>5 DEF IInv

LEMMA BatchKeeps == ASSUME IInv, NEW n \in Heights, Batch(n) PROVE IInv'
<1>0. TypeOK /\ TipComplete /\ ChainInv /\ LiveInv
  BY DEF IInv
<1>1. TypeOK'
  BY TypeStep DEF LiveStep
<1>2. chain \in Hashes /\ live.head \in Hashes /\ live.saved \in Hashes
      /\ Len(chain) \in Nat /\ Len(live.head) \in Nat /\ Len(live.saved) \in Nat
  BY <1>0, HashType DEF TypeOK
<1>3. n \in 0..Len(chain) /\ Len(live.head) < n /\ OnChain(live.head) /\ live.at = "run"
  BY <1>2 DEF Batch, Heights
<1>4. Len(live.head) \in 0..n /\ Len(live.head) <= Len(chain)
      /\ live.head = Ancestor(chain, Len(live.head))
  BY <1>2, <1>3, PrefixDef DEF OnChain
<1>5. live.head = Ancestor(Ancestor(chain, n), Len(live.head))
  BY <1>2, <1>3, <1>4, AncestorOf
<1>6. Ancestor(chain, n) \in Hashes /\ Len(Ancestor(chain, n)) = n
  BY <1>2, <1>3, AncestorType
<1>7. /\ Len(live.saved) <= Len(live.head)
      /\ live.saved = Ancestor(live.head, Len(live.saved))
  BY <1>0, <1>3 DEF LiveInv
<1>8. live.saved = Ancestor(Ancestor(chain, n), Len(live.saved))
  BY <1>2, <1>4, <1>5, <1>6, <1>7, AncestorOf
<1>9. /\ UNCHANGED <<chain, stored, events, cp, heal>>
      /\ live'.at \in {"blocks", "run"}
      /\ live'.head = Ancestor(chain, n) /\ live'.saved = live.saved
  BY <1>0 DEF Batch, AfterBatch, tables, TypeOK
<1>10. TipComplete' /\ LiveInv'
  BY <1>0, <1>2, <1>3, <1>6, <1>7, <1>8, <1>9 DEF TipComplete, LiveInv, Whole, Pending
<1>11. ChainInv' /\ HealInv'
  BY <1>0, <1>2, <1>3, <1>9, SettledDown, HealerAlone DEF ChainInv
<1> QED
  BY <1>1, <1>10, <1>11 DEF IInv

\* The first insert of a flush is above everything a checkpoint stands for.
LEMMA FlushBlocksKeeps == IInv /\ FlushBlocks => IInv'
<1> SUFFICES ASSUME IInv, FlushBlocks PROVE IInv'
  OBVIOUS
<1>0. TypeOK /\ TipComplete /\ ChainInv /\ LiveInv
  BY DEF IInv
<1>1. TypeOK'
  BY TypeStep DEF LiveStep
<1>2. Len(live.head) \in Heights /\ Len(live.saved) \in Heights /\ Len(cp.hash) \in Heights
      /\ Heights \subseteq Nat
  BY <1>0, HashType DEF TypeOK, Heights
<1>3. /\ UNCHANGED <<chain, events, cp, heal>>
      /\ live'.at = "rows" /\ live'.head = live.head /\ live'.saved = live.saved
      /\ live.at = "blocks"
  BY <1>0 DEF FlushBlocks, TypeOK
<1>4. /\ \A h \in 0..Len(live.saved) : stored'[h] = stored[h]
      /\ \A h \in Pending : stored'[h] = Ancestor(live.head, h)
  BY <1>2, ConstFacts DEF FlushBlocks, Pending, Heights
<1>5. Len(cp.hash) <= Len(live.saved)
  BY <1>0, <1>3 DEF LiveInv
<1>6. TipComplete'
  BY <1>0, <1>2, <1>3, <1>4, <1>5 DEF TipComplete
<1>7. LiveInv'
  BY <1>0, <1>2, <1>3, <1>4 DEF LiveInv, Whole, Pending
<1>8. ChainInv' /\ HealInv'
  BY <1>0, <1>3, HealerAlone DEF ChainInv
<1> QED
  BY <1>1, <1>6, <1>7, <1>8 DEF IInv

\* A block has at most MaxEvents events.
LEMMA EventsBound ==
  ASSUME NEW b \in Hashes
  PROVE  EventsOf(b) \in 1..MaxEvents
<1>1. Branch(b) \in Branches
  BY BranchType
<1>2. CASE b = <<>>
  BY <1>2, ConstFacts DEF EventsOf
<1>3. CASE b # <<>>
  BY <1>1, <1>3, ConstFacts DEF EventsOf, Branch
<1> QED
  BY <1>2, <1>3

\* The other tables complete the blocks the first insert wrote.
LEMMA FlushRowsKeeps == IInv /\ FlushRows => IInv'
<1> SUFFICES ASSUME IInv, FlushRows PROVE IInv'
  OBVIOUS
<1>0. TypeOK /\ TipComplete /\ ChainInv /\ LiveInv
  BY DEF IInv
<1>1. TypeOK'
  BY TypeStep DEF LiveStep
<1>2. Len(live.head) \in Heights /\ Len(live.saved) \in Heights /\ Len(cp.hash) \in Heights
      /\ Heights \subseteq Nat /\ live.head \in Hashes /\ MaxEvents \in Nat
  BY <1>0, HashType, ConstFacts DEF TypeOK, Heights
<1>3. /\ UNCHANGED <<chain, stored, cp, heal>>
      /\ live'.at = "save" /\ live'.head = live.head /\ live'.saved = live.saved
      /\ live.at = "rows"
  BY <1>0 DEF FlushRows, TypeOK
<1>4. \A h \in 0..Len(live.saved) : events'[h] = events[h]
  BY <1>2, ConstFacts DEF FlushRows, Pending, Heights
<1>5. ASSUME NEW h \in Pending, NEW i \in 1..EventsOf(Ancestor(live.head, h))
      PROVE  events'[h][i] = Ancestor(live.head, h)
  <2>1. h \in 0..Len(live.head) /\ h \in Heights
    BY <1>2, ConstFacts DEF Pending, Heights
  <2>2. EventsOf(Ancestor(live.head, h)) \in 1..MaxEvents
    BY <1>2, <2>1, AncestorType, EventsBound
  <2>3. i \in 1..MaxEvents /\ i <= EventsOf(Ancestor(live.head, h))
    BY <1>2, <2>2
  <2>4. events'[h] = [k \in 1..MaxEvents |-> IF k <= EventsOf(Ancestor(live.head, h))
                                               THEN Ancestor(live.head, h) ELSE events[h][k]]
    BY <2>1 DEF FlushRows
  <2> QED
    BY <2>3, <2>4
<1>6. Len(cp.hash) <= Len(live.saved)
  BY <1>0, <1>3 DEF LiveInv
<1>7. TipComplete'
  BY <1>0, <1>2, <1>3, <1>4, <1>6 DEF TipComplete
<1>8. LiveInv'
  BY <1>0, <1>2, <1>3, <1>4, <1>5 DEF LiveInv, Whole, Pending
<1>9. ChainInv' /\ HealInv'
  BY <1>0, <1>3, HealerAlone DEF ChainInv
<1> QED
  BY <1>1, <1>7, <1>8, <1>9 DEF IInv

\* The checkpoint follows once all tables hold what it stands for, also when a
\* rollback has lowered it since raw-live resumed.
LEMMA SaveCheckpointKeeps == IInv /\ SaveCheckpoint => IInv'
<1> SUFFICES ASSUME IInv, SaveCheckpoint PROVE IInv'
  OBVIOUS
<1>0. TypeOK /\ TipComplete /\ ChainInv /\ LiveInv /\ HealInv
  BY DEF IInv
<1>1. TypeOK'
  BY TypeStep DEF LiveStep
<1>2. live.head \in Hashes /\ live.saved \in Hashes /\ cp.hash \in Hashes
      /\ Len(live.head) \in Nat /\ Len(live.saved) \in Nat /\ Len(cp.hash) \in Nat
  BY <1>0, HashType DEF TypeOK
<1>3. /\ UNCHANGED <<chain, stored, events, heal>>
      /\ cp'.hash = live.head
      /\ live'.at = "run" /\ live'.head = live.head /\ live'.saved = live.head
      /\ live.at = "save"
  BY <1>0 DEF SaveCheckpoint, TypeOK
<1>4. /\ Len(live.saved) <= Len(live.head) /\ live.saved = Ancestor(live.head, Len(live.saved))
      /\ Len(cp.hash) <= Len(live.saved) /\ Whole(live.saved)
      /\ \A h \in Pending : stored[h] = Ancestor(live.head, h)
      /\ \A h \in Pending : \A i \in 1..EventsOf(Ancestor(live.head, h)) :
           events[h][i] = Ancestor(live.head, h)
  BY <1>0, <1>3 DEF LiveInv
<1>5. ASSUME NEW h \in 0..Len(live.head)
      PROVE  /\ stored[h] = Ancestor(live.head, h)
             /\ \A i \in 1..EventsOf(stored[h]) : events[h][i] = stored[h]
  <2>1. CASE h \in 0..Len(live.saved)
    <3>1. Ancestor(live.saved, h) = Ancestor(live.head, h)
      BY <1>2, <1>4, <2>1, AncestorOf
    <3> QED
      BY <1>4, <2>1, <3>1 DEF Whole
  <2>2. CASE h \in Pending
    BY <1>4, <2>2
  <2> QED
    BY <1>2, <2>1, <2>2 DEF Pending
<1>6. TipComplete'
  BY <1>3, <1>5 DEF TipComplete
<1>7. LiveInv'
  BY <1>2, <1>3, <1>5, OwnAncestor DEF LiveInv, Whole, Pending
<1>8. ChainInv'
  BY <1>0, <1>3 DEF ChainInv
<1>9. cp.hash = Ancestor(live.head, Len(cp.hash))
  <2>1. stored[Len(cp.hash)] = cp.hash
    BY <1>0, <1>2, OwnAncestor DEF TipComplete
  <2> QED
    BY <1>2, <1>4, <1>5, <2>1
<1>10. ASSUME heal.at \in {"check", "stored", "probe", "insert"}
       PROVE  heal.block <= Len(live.head) /\ heal.hash = Ancestor(live.head, heal.block)
  <2>1. heal.block \in 0..Len(cp.hash) /\ heal.hash = Ancestor(cp.hash, heal.block)
    BY <1>0, <1>2, <1>10 DEF HealInv, TypeOK, Heights
  <2> QED
    BY <1>2, <1>4, <1>9, <2>1, AncestorOf
<1>11. HealInv'
  BY <1>0, <1>3, <1>10 DEF HealInv, Probe, WithinDepth, OnChain
<1> QED
  BY <1>1, <1>6, <1>7, <1>8, <1>11 DEF IInv

LEMMA HealReadKeeps == IInv /\ HealRead => IInv'
<1> SUFFICES ASSUME IInv, HealRead PROVE IInv'
  OBVIOUS
<1>0. TypeOK /\ TipComplete /\ ChainInv /\ LiveInv /\ HealInv
  BY DEF IInv
<1>1. TypeOK'
  BY TypeStep DEF HealStep
<1>2. /\ UNCHANGED <<chain, stored, events, cp, live>>
      /\ heal'.at = "check" /\ heal'.hash = cp.hash /\ heal'.block = Len(cp.hash)
  BY DEF HealRead, tables, Idle
<1>3. Len(cp.hash) \in Nat /\ Ancestor(cp.hash, Len(cp.hash)) = cp.hash
  BY <1>0, OwnAncestor, HashType DEF TypeOK
<1>4. HealInv'
  BY <1>2, <1>3 DEF HealInv
<1> QED
  BY <1>0, <1>1, <1>2, <1>4 DEF IInv, TipComplete, ChainInv, LiveInv, Whole, Pending

\* The answers of the chain that tell a block is gone.
LEMMA AnswerOff ==
  ASSUME TypeOK, NEW b \in Hashes, NEW a \in Answers(RpcBlockHash(Len(b))),
         a.value # None, a.value # b
  PROVE  ~OnChain(b)
<1>1. a.value = RpcBlockHash(Len(b))
  BY DEF Answers
<1>2. Len(b) <= Len(chain) /\ b # Ancestor(chain, Len(b))
  BY <1>1 DEF RpcBlockHash
<1> QED
  BY <1>2, PrefixDef DEF OnChain, TypeOK

LEMMA HealCheckKeeps == IInv /\ HealCheck => IInv'
<1> SUFFICES ASSUME IInv, HealCheck PROVE IInv'
  OBVIOUS
<1>0. TypeOK /\ TipComplete /\ ChainInv /\ LiveInv /\ HealInv
  BY DEF IInv
<1>1. TypeOK'
  BY TypeStep DEF HealStep
<1>2. UNCHANGED <<chain, stored, events, cp, live>> /\ heal.at = "check"
  BY DEF HealCheck, tables
<1>3. heal.hash \in Hashes /\ heal.block = Len(heal.hash) /\ heal.block \in Nat
  BY <1>0, <1>2 DEF HealInv, TypeOK, Heights
<1>4. PICK a \in Answers(RpcBlockHash(heal.block)) :
        heal' = IF OffChain(a.value) THEN [heal EXCEPT !.at = "stored", !.depth = 1] ELSE Idle
  BY DEF HealCheck
<1>5. CASE OffChain(a.value)
  <2>1. ~OnChain(heal.hash)
    BY <1>0, <1>3, <1>5, AnswerOff DEF OffChain
  <2>2. /\ heal'.at = "stored" /\ heal'.depth = 1 /\ heal'.hash = heal.hash
        /\ heal'.block = heal.block
    BY <1>0, <1>4, <1>5 DEF TypeOK
  <2>3. Ancestor(heal.hash, heal.block - 1 + 1) = heal.hash
    BY <1>3, OwnAncestor
  <2>4. HealInv'
    BY <1>0, <1>2, <1>3, <2>1, <2>2, <2>3 DEF HealInv, Probe, OnChain
  <2>5. SettledOn(heal'.hash, chain')
    BY <1>0, <1>2, <2>2 DEF ChainInv
  <2> QED
    BY <1>0, <1>1, <1>2, <2>4, <2>5 DEF IInv, TipComplete, ChainInv, LiveInv, Whole, Pending
<1>6. CASE ~OffChain(a.value)
  <2>1. heal' = Idle /\ HealInv' /\ SettledOn(heal'.hash, chain')
    BY <1>0, <1>2, <1>4, <1>6, RootSettled DEF HealInv, Idle
  <2> QED
    BY <1>0, <1>1, <1>2, <2>1 DEF IInv, TipComplete, ChainInv, LiveInv, Whole, Pending
<1> QED
  BY <1>5, <1>6

\* What raw_blocks holds for a probe is an ancestor of the checkpoint.
LEMMA HealStoredKeeps == IInv /\ HealStored => IInv'
<1> SUFFICES ASSUME IInv, HealStored PROVE IInv'
  OBVIOUS
<1>0. TypeOK /\ TipComplete /\ ChainInv /\ LiveInv /\ HealInv
  BY DEF IInv
<1>1. TypeOK'
  BY TypeStep DEF HealStep
<1>2. UNCHANGED <<chain, stored, events, cp, live>> /\ heal.at = "stored" /\ WithinDepth
  BY DEF HealStored, tables
<1>3. /\ heal.hash \in Hashes /\ cp.hash \in Hashes /\ Len(cp.hash) \in Nat
      /\ heal.block \in Nat /\ heal.depth \in Nat
  BY <1>0, HashType DEF TypeOK, Heights
<1>4. /\ heal.block = Len(heal.hash) /\ heal.block <= Len(cp.hash)
      /\ heal.hash = Ancestor(cp.hash, heal.block)
      /\ heal.depth \in 1..heal.block + 1 /\ ~OnChain(heal.hash)
      /\ ~heal.missed => ~OnChain(Ancestor(heal.hash, Probe + 1))
  BY <1>0, <1>2 DEF HealInv
<1>5. Probe \in 0..heal.block /\ heal.depth + 1 \in 1..heal.block + 1
  BY <1>2, <1>3, <1>4 DEF WithinDepth, Probe
<1>6. stored[Probe] = Ancestor(heal.hash, Probe)
  <2>1. stored[Probe] = Ancestor(cp.hash, Probe)
    BY <1>0, <1>3, <1>4, <1>5 DEF TipComplete
  <2> QED
    BY <1>3, <1>4, <1>5, <2>1, AncestorOf
<1>7. PICK a \in Answers(stored[Probe]) :
        heal' = IF a.value = None THEN [Deeper EXCEPT !.missed = TRUE]
                  ELSE [heal EXCEPT !.at = "probe", !.found = a.value]
  BY DEF HealStored
<1>8. SettledOn(heal'.hash, chain')
  BY <1>0, <1>2, <1>7 DEF ChainInv, Deeper, TypeOK
<1>9. CASE a.value = None
  <2>1. /\ heal'.at = "stored" /\ heal'.depth = heal.depth + 1 /\ heal'.missed = TRUE
        /\ heal'.hash = heal.hash /\ heal'.block = heal.block
    BY <1>0, <1>7, <1>9 DEF Deeper, TypeOK
  <2>2. HealInv'
    BY <1>2, <1>4, <1>5, <2>1 DEF HealInv, OnChain
  <2> QED
    BY <1>0, <1>1, <1>2, <1>8, <2>2 DEF IInv, TipComplete, ChainInv, LiveInv, Whole, Pending
<1>10. CASE a.value # None
  <2>1. a.value = stored[Probe]
    BY <1>7, <1>10 DEF Answers
  <2>2. /\ heal'.at = "probe" /\ heal'.depth = heal.depth /\ heal'.missed = heal.missed
        /\ heal'.hash = heal.hash /\ heal'.block = heal.block /\ heal'.found = a.value
    BY <1>0, <1>7, <1>10 DEF TypeOK
  <2>3. HealInv'
    BY <1>2, <1>4, <1>6, <2>1, <2>2 DEF HealInv, OnChain, Probe, WithinDepth
  <2> QED
    BY <1>0, <1>1, <1>2, <1>8, <2>3 DEF IInv, TipComplete, ChainInv, LiveInv, Whole, Pending
<1> QED
  BY <1>9, <1>10

\* A probe whose answer differs has found one more block that is gone for good.
LEMMA HealProbeKeeps == IInv /\ HealProbe => IInv'
<1> SUFFICES ASSUME IInv, HealProbe PROVE IInv'
  OBVIOUS
<1>0. TypeOK /\ TipComplete /\ ChainInv /\ LiveInv /\ HealInv
  BY DEF IInv
<1>1. TypeOK'
  BY TypeStep DEF HealStep
<1>2. UNCHANGED <<chain, stored, events, cp, live>> /\ heal.at = "probe"
  BY DEF HealProbe, tables
<1>3. Probe \in 0..heal.block - 1 /\ heal.block = Len(heal.hash) /\ heal.block \in Nat
      /\ heal.found = Ancestor(heal.hash, Probe) /\ heal.found \in Hashes
  BY <1>0, <1>2, ProbeRange
<1>4. heal.hash \in Hashes /\ heal.depth \in Nat /\ heal.missed \in BOOLEAN
  BY <1>0 DEF TypeOK
<1>5. /\ heal.block <= Len(cp.hash) /\ heal.hash = Ancestor(cp.hash, heal.block)
      /\ heal.depth \in 1..heal.block + 1 /\ ~OnChain(heal.hash) /\ WithinDepth
      /\ ~heal.missed => ~OnChain(Ancestor(heal.hash, Probe + 1))
  BY <1>0, <1>2 DEF HealInv
<1>6. PICK a \in Answers(RpcBlockHash(Probe)) :
        heal' = IF Agree(a.value) THEN [heal EXCEPT !.at = "insert"]
                  ELSE [Deeper EXCEPT !.missed = @ \/ a.value = None]
  BY DEF HealProbe
<1>7. SettledOn(heal'.hash, chain')
  BY <1>0, <1>2, <1>6 DEF ChainInv, Deeper, TypeOK
<1>8. CASE Agree(a.value)
  <2>1. /\ heal'.at = "insert" /\ heal'.depth = heal.depth /\ heal'.missed = heal.missed
        /\ heal'.hash = heal.hash /\ heal'.block = heal.block /\ heal'.found = heal.found
    BY <1>0, <1>6, <1>8 DEF TypeOK
  <2>2. HealInv'
    BY <1>2, <1>3, <1>5, <2>1 DEF HealInv, OnChain, Probe, WithinDepth
  <2> QED
    BY <1>0, <1>1, <1>2, <1>7, <2>2 DEF IInv, TipComplete, ChainInv, LiveInv, Whole, Pending
<1>9. CASE ~Agree(a.value)
  <2>1. /\ heal'.at = "stored" /\ heal'.depth = heal.depth + 1
        /\ heal'.hash = heal.hash /\ heal'.block = heal.block
        /\ heal'.missed = (heal.missed \/ a.value = None)
    BY <1>0, <1>6, <1>9 DEF Deeper, TypeOK
  <2>2. heal.depth + 1 \in 1..heal.block + 1 /\ Probe' + 1 = Probe
    BY <1>3, <1>4, <2>1 DEF Probe
  <2>3. ASSUME a.value # None
        PROVE  ~OnChain(Ancestor(heal.hash, Probe))
    <3>1. Len(heal.found) = Probe
      BY <1>3, <1>4, AncestorType
    <3> QED
      BY <1>0, <1>3, <1>6, <1>9, <2>3, <3>1, AnswerOff DEF Agree
  <2>4. ~heal'.missed => ~OnChain(Ancestor(heal.hash, Probe))
    BY <2>1, <2>3
  <2>5. HealInv'
    BY <1>2, <1>3, <1>5, <2>1, <2>2, <2>4 DEF HealInv, OnChain
  <2> QED
    BY <1>0, <1>1, <1>2, <1>7, <2>5 DEF IInv, TipComplete, ChainInv, LiveInv, Whole, Pending
<1> QED
  BY <1>8, <1>9

\* The rollback goes to an ancestor the tables hold whole, below everything a flush
\* of the running process still writes.
LEMMA HealInsertKeeps == IInv /\ HealInsert => IInv'
<1> SUFFICES ASSUME IInv, HealInsert PROVE IInv'
  OBVIOUS
<1>0. TypeOK /\ TipComplete /\ ChainInv /\ LiveInv /\ HealInv
  BY DEF IInv
<1>1. TypeOK'
  BY TypeStep DEF HealStep
<1>2. UNCHANGED <<chain, stored, events, live>> /\ heal.at = "insert"
  BY DEF HealInsert
<1>3. Probe \in 0..heal.block - 1 /\ heal.block = Len(heal.hash) /\ heal.block \in Nat
      /\ heal.found = Ancestor(heal.hash, Probe) /\ heal.found \in Hashes
  BY <1>0, <1>2, ProbeRange
<1>4. /\ cp.hash \in Hashes /\ Len(cp.hash) \in Nat /\ heal.hash \in Hashes /\ chain \in Hashes
      /\ live.saved \in Hashes /\ Len(live.saved) \in Nat
  BY <1>0, HashType DEF TypeOK
<1>5. heal.block <= Len(cp.hash) /\ heal.hash = Ancestor(cp.hash, heal.block)
  BY <1>0, <1>2 DEF HealInv
<1>6. heal.found = Ancestor(cp.hash, Probe) /\ Probe \in 0..Len(cp.hash)
  BY <1>3, <1>4, <1>5, AncestorOf
<1>7. Len(heal.found) = Probe
  BY <1>4, <1>6, AncestorType
<1>8. CASE cp'.hash = heal.found /\ heal'.at = "restart" /\ heal'.hash = heal.hash
  <2>1. Whole(heal.found)
    BY <1>0, <1>4, <1>6, WholeDown DEF TipComplete, Whole
  <2>2. TipComplete'
    BY <1>2, <1>8, <2>1 DEF TipComplete, Whole
  <2>3. LiveInv'
    <3>1. live.at # "down" => Len(cp'.hash) <= Len(live.saved)
      <4>1. Len(cp'.hash) = Probe
        BY <1>7, <1>8
      <4>2. live.at # "down" => Len(cp.hash) <= Len(live.saved)
        BY <1>0 DEF LiveInv
      <4> QED
        BY <1>4, <1>6, <4>1, <4>2
    <3> QED
      BY <1>0, <1>2, <3>1 DEF LiveInv, Whole, Pending
  <2>4. ChainInv'
    BY <1>0, <1>2, <1>4, <1>6, <1>8, SettledDown DEF ChainInv
  <2>5. HealInv'
    BY <1>8 DEF HealInv
  <2> QED
    BY <1>1, <2>2, <2>3, <2>4, <2>5 DEF IInv
<1>9. CASE cp' = cp /\ heal' = Idle
  <2>1. HealInv' /\ SettledOn(heal'.hash, chain')
    BY <1>0, <1>2, <1>9, RootSettled DEF HealInv, Idle
  <2> QED
    BY <1>0, <1>1, <1>2, <1>9, <2>1 DEF IInv, TipComplete, ChainInv, LiveInv, Whole, Pending
<1> QED
  BY <1>0, <1>8, <1>9 DEF HealInsert, RolledBack, TypeOK

-----------------------------------------------------------------------------
(* The theorems.                                                           *)

LEMMA InitIInv == Init => IInv
<1> SUFFICES ASSUME Init PROVE IInv
  OBVIOUS
<1>1. <<>> \in Hashes /\ Len(<<>>) = 0 /\ 0 \in Heights /\ 1 \in 1..MaxEvents
  BY HashType, ConstFacts DEF Heights
<1>2. TypeOK
  <2>1. live \in LiveType /\ heal \in HealType
    BY RestTypes DEF Init
  <2>2. stored \in [Heights -> Hashes \cup {None}]
    BY <1>1 DEF Init
  <2>3. events \in [Heights -> [1..MaxEvents -> Hashes \cup {None}]]
    <3>1. ASSUME NEW h \in Heights, NEW i \in 1..MaxEvents
          PROVE  (IF h = 0 /\ i = 1 THEN <<>> ELSE None) \in Hashes \cup {None}
      BY <1>1
    <3> QED
      BY <3>1 DEF Init
  <2>4. cp \in [hash : Hashes, stale : BOOLEAN]
    BY <1>1 DEF Init
  <2> QED
    BY <1>1, <2>1, <2>2, <2>3, <2>4, ConstFacts DEF Init, TypeOK, LiveType, HealType
<1>3. Ancestor(<<>>, 0) = <<>>
  BY <1>1, OwnAncestor
<1>4. TipComplete
  <2>1. 0..Len(cp.hash) = {0}
    BY <1>1 DEF Init
  <2>2. stored[0] = <<>> /\ Ancestor(cp.hash, 0) = <<>> /\ EventsOf(stored[0]) = 1
        /\ events[0][1] = <<>>
    BY <1>1, <1>3 DEF Init, EventsOf
  <2> QED
    BY <2>1, <2>2 DEF TipComplete
<1>5. SettledOn(<<>>, <<>>)
  <2>1. IsPrefix(<<>>, <<>>)
    BY <1>1, PrefixDef
  <2> QED
    BY <1>1, <2>1 DEF SettledOn
<1>6. ChainInv /\ LiveInv /\ HealInv
  BY <1>5 DEF Init, ChainInv, LiveInv, HealInv, Down, Idle
<1> QED
  BY <1>2, <1>4, <1>6 DEF IInv

LEMMA NextKeeps == IInv /\ [Next]_vars => IInv'
<1> SUFFICES ASSUME IInv, [Next]_vars PROVE IInv'
  OBVIOUS
<1>1. CASE Next
  BY <1>1, ChainKeeps, EndKeeps, BootKeeps, BatchKeeps, FlushBlocksKeeps, FlushRowsKeeps,
     SaveCheckpointKeeps, HealReadKeeps, HealCheckKeeps, HealStoredKeeps, HealProbeKeeps,
     HealInsertKeeps
  DEF Next, LiveStep, HealStep
<1>2. CASE UNCHANGED vars
  BY <1>2 DEF vars, tables, IInv, TypeOK, TipComplete, ChainInv, LiveInv, HealInv, Whole,
              Pending, Probe, WithinDepth, OnChain
<1> QED
  BY <1>1, <1>2

\* What raw-live and a pass of the healer remember of the chain and of the tables
\* stays true while the other goes on, crashes and reorganisations included.
THEOREM ReorgInvariant == Spec => []IInv
BY InitIInv, NextKeeps, PTL DEF Spec

\* The checkpoint raw-live resumes from is always backed by whole tables: no crash
\* within a flush, no rollback and no late flush of an abandoned branch leaves a
\* block at or below it missing, of another branch or without some of its events.
THEOREM ReorgTip == Spec => []TipInv
<1>1. IInv => TipInv
  BY DEF IInv, TipInv
<1> QED
  BY <1>1, ReorgInvariant, PTL

\* When a rollback is inserted the checkpoint in the table descends from the one the
\* pass found gone, so it is gone as well.
LEMMA InsertOffChain ==
  ASSUME IInv, HealInsert
  PROVE  ~OnChain(cp.hash)
<1>0. TypeOK /\ HealInv
  BY DEF IInv
<1>1. heal.at = "insert" /\ chain \in Hashes /\ cp.hash \in Hashes
  BY <1>0 DEF HealInsert, TypeOK
<1>2. /\ heal.block \in 0..Len(cp.hash) /\ heal.hash = Ancestor(cp.hash, heal.block)
      /\ ~OnChain(heal.hash)
  BY <1>0, <1>1, HashType DEF HealInv, TypeOK, Heights
<1> QED
  BY <1>1, <1>2, PrefixDown DEF OnChain

\* Whatever calls fail and whatever happens between its queries, the healer never
\* lowers a checkpoint that is on the chain.
THEOREM ReorgGoodTipKept == Spec => GoodTipKept
<1>1. IInv /\ [Next]_vars => [OnChain(cp.hash) => Len(cp'.hash) >= Len(cp.hash)]_vars
  <2> SUFFICES ASSUME IInv, Next, OnChain(cp.hash)
               PROVE  Len(cp'.hash) >= Len(cp.hash)
    BY DEF vars
  <2>0. TypeOK /\ LiveInv /\ Len(cp.hash) \in Nat
    BY HashType DEF IInv, TypeOK
  <2>1. CASE SaveCheckpoint
    <3>1. Len(live.saved) \in Nat /\ Len(live.head) \in Nat /\ cp'.hash = live.head
      BY <2>0, <2>1, HashType DEF SaveCheckpoint, TypeOK
    <3>2. Len(cp.hash) <= Len(live.saved) /\ Len(live.saved) <= Len(live.head)
      BY <2>0, <2>1 DEF SaveCheckpoint, LiveInv
    <3> QED
      BY <2>0, <3>1, <3>2
  <2>2. CASE HealInsert
    BY <2>2, InsertOffChain
  <2>3. CASE Age
    BY <2>0, <2>3 DEF Age, TypeOK
  <2>4. ASSUME ~SaveCheckpoint, ~HealInsert, ~Age
        PROVE  cp' = cp
    BY <2>4 DEF Next, LiveStep, HealStep, Extend, Reorg, Boot, Abort, Batch, FlushBlocks,
                FlushRows, Crash, HealRead, HealCheck, HealGiveUp, HealStored, HealProbe,
                HealRestart, ScriptCrash, tables
  <2> QED
    BY <2>0, <2>1, <2>2, <2>3, <2>4
<1> QED
  BY <1>1, ReorgInvariant, PTL DEF Spec, GoodTipKept

\* A rollback for which every call answered gives up only blocks that the chain has
\* dropped, although chain, checkpoint and tables move on during the search.
THEOREM ReorgRollbackShallow == Spec => RollbackShallow
<1>1. IInv /\ [Next]_vars =>
        [HealInsert /\ cp' # cp /\ ~heal.missed =>
           \A h \in Len(cp'.hash) + 1..Len(cp.hash) : ~OnChain(stored[h])]_vars
  <2> SUFFICES ASSUME IInv, HealInsert, cp' # cp, ~heal.missed,
                      NEW h \in Len(cp'.hash) + 1..Len(cp.hash), OnChain(stored[h])
               PROVE  FALSE
    OBVIOUS
  <2>0. TypeOK /\ HealInv /\ TipComplete
    BY DEF IInv
  <2>1. heal.at = "insert" /\ cp'.hash = heal.found
    BY DEF HealInsert, RolledBack
  <2>2. Probe \in 0..heal.block - 1 /\ heal.block = Len(heal.hash) /\ heal.block \in Nat
        /\ heal.found = Ancestor(heal.hash, Probe)
    BY <2>0, <2>1, ProbeRange
  <2>3. heal.hash \in Hashes /\ cp.hash \in Hashes /\ chain \in Hashes /\ Len(cp.hash) \in Nat
    BY <2>0, HashType DEF TypeOK
  <2>4. /\ heal.block <= Len(cp.hash) /\ heal.hash = Ancestor(cp.hash, heal.block)
        /\ ~OnChain(Ancestor(heal.hash, Probe + 1))
    BY <2>0, <2>1 DEF HealInv
  <2>5. Len(heal.found) = Probe
    BY <2>2, <2>3, AncestorType
  <2>6. h \in 0..Len(cp.hash) /\ Probe + 1 \in 0..h /\ Probe + 1 \in 0..heal.block
    BY <2>1, <2>2, <2>3, <2>5
  <2>7. stored[h] = Ancestor(cp.hash, h)
    BY <2>0, <2>6 DEF TipComplete
  <2>8. Ancestor(cp.hash, h) \in Hashes /\ Len(Ancestor(cp.hash, h)) = h
    BY <2>3, <2>6, AncestorType
  <2>9. OnChain(Ancestor(Ancestor(cp.hash, h), Probe + 1))
    BY <2>3, <2>6, <2>7, <2>8, PrefixDown DEF OnChain
  <2>10. Ancestor(Ancestor(cp.hash, h), Probe + 1) = Ancestor(heal.hash, Probe + 1)
    BY <2>2, <2>3, <2>4, <2>6, AncestorOf
  <2> QED
    BY <2>4, <2>9, <2>10
<1> QED
  BY <1>1, ReorgInvariant, PTL DEF Spec, RollbackShallow
=============================================================================
