------------------------ MODULE RawRangeWorkerProofs ------------------------
(***************************************************************************)
(* Proofs about RawRangeWorker for every set of disjoint ranges, every     *)
(* number of tables and every flush budget.                                *)
(***************************************************************************)
EXTENDS RawRangeWorker, TLAPS

\* Ranges are disjoint intervals of heights.
LEMMA BlockFacts ==
  /\ Heights \subseteq Nat
  /\ \A r \in Ranges : /\ From(r) \in Nat
                       /\ To(r) \in Nat
                       /\ From(r) <= To(r)
                       /\ Blocks(r) \subseteq Heights
                       /\ Blocks(r) = From(r)..To(r)
                       /\ From(r) \in Blocks(r)
                       /\ To(r) \in Blocks(r)
  /\ \A r, s \in Ranges : \A h \in Blocks(r) : h \in Blocks(s) => r = s
<1>1. \A r \in Ranges : From(r) \in Nat /\ To(r) \in Nat /\ From(r) <= To(r)
  BY WorkerRangesAssumption DEF From, To
<1>2. \A r \in Ranges : Blocks(r) \subseteq Heights /\ Blocks(r) = From(r)..To(r)
  BY DEF Blocks, Heights
<1>3. Heights \subseteq Nat
  BY <1>1 DEF Heights, Blocks
<1>4. ASSUME NEW r \in Ranges, NEW s \in Ranges, NEW h \in Blocks(r), h \in Blocks(s)
      PROVE  r = s
  <2>1. From(r) <= h /\ h <= To(r) /\ From(s) <= h /\ h <= To(s) /\ h \in Nat
    BY <1>1, <1>4 DEF Blocks
  <2>2. r # s => To(r) < From(s) \/ To(s) < From(r)
    BY WorkerRangesAssumption DEF From, To
  <2> QED
    BY <1>1, <2>1, <2>2
<1> QED
  BY <1>1, <1>2, <1>3, <1>4

\* The constants and the empty values have the types TypeOK needs.
LEMMA ConstFacts ==
  /\ Absent \in Cell /\ Chains \subseteq Cell /\ Canonical \in Cell /\ Canonical # Absent
  /\ EmptyBuf \in [Heights -> Cell]
  /\ \A h \in Heights : EmptyBuf[h] = Absent
  /\ NoEdge \in [firstParent : Cell, last : Cell]
  /\ NumTables \in Nat /\ 1 <= NumTables /\ 1 \in Tables /\ Tables = 1..NumTables
  /\ NoCheckpoint = -1
  /\ LogCap \in Nat /\ MaxFaults \in Nat
BY ChainsAssumption, BoundsAssumption DEF Cell, EmptyBuf, NoEdge, Tables, NoCheckpoint

\* Every step keeps the variables in their types.
LEMMA TypeStep == IInv /\ [Next]_vars => TypeOK'
<1> SUFFICES ASSUME IInv, [Next]_vars PROVE TypeOK'
  OBVIOUS
<1>0. TypeOK /\ FlushInv /\ ProcessInv
  BY DEF IInv
<1> USE <1>0, ConstFacts DEF TypeOK
<1>1. ASSUME NEW r \in Ranges, Launch(r) PROVE TypeOK'
  BY <1>1 DEF Launch, Goto, PCs, db, memory
<1>2. ASSUME NEW r \in Ranges, Remove(r) PROVE TypeOK'
  BY <1>2 DEF Remove, PCs, db, memory
<1>3. ASSUME NEW r \in Ranges, StartRun(r) PROVE TypeOK'
  <2>1. rawResumeHead(r) \in Nat \cup {-1}
    BY DEF rawResumeHead
  <2>2. head' \in [Ranges -> Nat \cup {-1}]
    BY <1>3, <2>1 DEF StartRun
  <2>3. pc' \in [Ranges -> PCs]
    BY <1>3 DEF StartRun, Goto, PCs
  <2>4. replay' \in [Ranges -> BOOLEAN]
    <3>1. (rawResumeHead(r) >= To(r)) \in BOOLEAN
      OBVIOUS
    <3> QED
      BY <1>3, <3>1, Zenon DEF StartRun
  <2>5. status' \in [Ranges -> {"none", "running", "completed", "failed"}]
    BY <1>3 DEF StartRun
  <2>6. edge' \in [Ranges -> [firstParent : Cell, last : Cell]]
    BY <1>3 DEF StartRun
  <2> QED
    BY <1>3, <2>2, <2>3, <2>4, <2>5, <2>6 DEF StartRun
<1>4. ASSUME NEW r \in Ranges, IndexBlock(r) PROVE TypeOK'
  <2>1. PICK h \in Heights :
          /\ Served(r, h)
          /\ \E next \in FlushDecisions([buf[r] EXCEPT ![h] = archive[h]], h >= To(r)) :
               Goto(r, "index", next)
          /\ buf'  = [buf EXCEPT ![r] = [buf[r] EXCEPT ![h] = archive[h]]]
          /\ head' = [head EXCEPT ![r] = h]
          /\ prev' = [prev EXCEPT ![r] = archive[h]]
          /\ tbl'  = [tbl EXCEPT ![r] = 1]
          /\ UNCHANGED <<archive, db, container, bad, replay, marks, faults>>
    BY <1>4 DEF IndexBlock
  <2>2. h \in Nat
    BY BlockFacts
  <2>3. pc' \in [Ranges -> PCs]
    BY <2>1 DEF Goto, FlushDecisions, PCs
  <2>4. buf' \in [Ranges -> [Heights -> Cell]] /\ prev' \in [Ranges -> Cell]
    BY <2>1
  <2> QED
    BY <2>1, <2>2, <2>3, <2>4 DEF db
<1>5. ASSUME NEW r \in Ranges, IntegrityError(r) \/ RunDry(r) PROVE TypeOK'
  BY <1>5 DEF IntegrityError, RunDry, Goto, PCs, db, memory
<1>6. ASSUME NEW r \in Ranges, FlushTable(r) PROVE TypeOK'
  <2>1. tbl[r] \in Tables /\ tbl[r] + 1 \in 1..NumTables + 1
    BY <1>6 DEF FlushTable, Goto, FlushInv
  <2>2. raw' \in [Tables -> [Heights -> Cell]]
    BY <1>6, <2>1 DEF FlushTable
  <2> QED
    BY <1>6, <2>1, <2>2 DEF FlushTable, Goto, PCs
<1>7. ASSUME NEW r \in Ranges, SaveCheckpoint(r) PROVE TypeOK'
  BY <1>7 DEF SaveCheckpoint, Goto, PCs
<1>8. ASSUME NEW r \in Ranges, ValidatePrevious(r) PROVE TypeOK'
  <2>1. bad' \in [Ranges -> BOOLEAN]
    BY <1>8, Zenon DEF ValidatePrevious
  <2> QED
    BY <1>8, <2>1 DEF ValidatePrevious, Goto, PCs, db
<1>9. ASSUME NEW r \in Ranges, ValidateNext(r) PROVE TypeOK'
  BY <1>9 DEF ValidateNext, Goto, PCs, db, memory
<1>10. ASSUME NEW r \in Ranges, Complete(r) PROVE TypeOK'
  <2>1. raw[1][From(r)] \in Cell /\ raw[1][To(r)] \in Cell
    BY BlockFacts
  <2> QED
    BY <1>10, <2>1 DEF Complete, Goto, PCs, memory
<1>11. ASSUME NEW r \in Ranges, MarkFailedSkipped(r) \/ MarkFailed(r) PROVE TypeOK'
  <2>1. CASE MarkFailedSkipped(r)
    BY <2>1 DEF MarkFailedSkipped, Goto, PCs, db, memory
  <2>2. CASE MarkFailed(r)
    BY <2>2 DEF MarkFailed, Goto, PCs, memory
  <2> QED
    BY <1>11, <2>1, <2>2
<1>12. ASSUME NEW r \in Ranges, LogFailure(r) PROVE TypeOK'
  <2>a. pc[r] = "log"
    BY <1>12 DEF LogFailure, Goto
  <2>b. marks[r] <= 1
    BY <2>a DEF ProcessInv
  <2>c. marks[r] \in 0..2
    OBVIOUS
  <2> HIDE DEF TypeOK
  <2>1. marks[r] + 1 \in 0..2
    BY <2>b, <2>c
  <2> USE DEF TypeOK
  <2>2. pc' \in [Ranges -> PCs]
    BY <1>12 DEF LogFailure, Goto, PCs
  <2>3. marks' \in [Ranges -> 0..2]
    BY <1>12, <2>1 DEF LogFailure
  <2>4. failures' \in [Ranges -> 0..LogCap]
    BY <1>12 DEF LogFailure
  <2> QED
    BY <1>12, <2>2, <2>3, <2>4 DEF LogFailure
<1>13. ASSUME NEW r \in Ranges, NEW code \in {"exited0", "exited1"}, Stop(r, code),
              faults' \in 0..MaxFaults
       PROVE  TypeOK'
  BY <1>13 DEF Stop, PCs, db
<1>14. ASSUME NEW r \in Ranges,
              ExitNormally(r) \/ ExitOnError(r) \/ Crash(r) \/ Terminate(r)
       PROVE  TypeOK'
  <2>1. faults' \in 0..MaxFaults
    BY <1>14 DEF ExitNormally, ExitOnError, Crash, Terminate
  <2>2. Stop(r, "exited0") \/ Stop(r, "exited1")
    BY <1>14 DEF ExitNormally, ExitOnError, Crash, Terminate
  <2> QED
    BY <1>13, <2>1, <2>2
<1>15. ASSUME NEW h \in Heights, Heal(h) PROVE TypeOK'
  BY <1>15 DEF Heal, db, memory
<1>16. CASE UNCHANGED vars
  BY <1>16 DEF vars, db, memory
<1> QED
  BY <1>1, <1>2, <1>3, <1>4, <1>5, <1>6, <1>7, <1>8, <1>9, <1>10, <1>11,
     <1>12, <1>14, <1>15, <1>16 DEF Next, Step

\* The witness of a step that indexes a block.
LEMMA IndexBlockWitness ==
  ASSUME NEW r \in Ranges, IndexBlock(r)
  PROVE  \E h \in Heights :
           /\ h \in Blocks(r)
           /\ h > head[r]
           /\ archive[h] # Absent
           /\ \A g \in Blocks(r) : head[r] < g /\ g < h => archive[g] = Absent
           /\ pc[r] = "index"
           /\ pc' = [pc EXCEPT ![r] = "index"] \/ pc' = [pc EXCEPT ![r] = "flush"]
           /\ buf'  = [buf EXCEPT ![r] = [buf[r] EXCEPT ![h] = archive[h]]]
           /\ head' = [head EXCEPT ![r] = h]
           /\ tbl'  = [tbl EXCEPT ![r] = 1]
           /\ UNCHANGED <<archive, raw, checkpoint, status, edge, failures,
                          container, bad, replay, marks, faults>>
BY DEF IndexBlock, Served, FlushDecisions, Goto, db

\* What the steps that end a process do.
LEMMA StopFacts ==
  ASSUME NEW r \in Ranges,
         ExitNormally(r) \/ ExitOnError(r) \/ Crash(r) \/ Terminate(r)
  PROVE  /\ \E code \in {"exited0", "exited1"} : container' = [container EXCEPT ![r] = code]
         /\ pc' = [pc EXCEPT ![r] = "off"]
         /\ buf' = [buf EXCEPT ![r] = EmptyBuf]
         /\ head' = [head EXCEPT ![r] = NoCheckpoint]
         /\ tbl' = [tbl EXCEPT ![r] = 1]
         /\ bad' = [bad EXCEPT ![r] = FALSE]
         /\ marks' = [marks EXCEPT ![r] = 0]
         /\ UNCHANGED <<archive, raw, checkpoint, status, edge, failures>>
BY DEF ExitNormally, ExitOnError, Crash, Terminate, Stop, db

\* A process lives exactly in a running container.
LEMMA ProcessStep == IInv /\ [Next]_vars => ProcessInv'
<1> SUFFICES ASSUME IInv, [Next]_vars PROVE ProcessInv'
  OBVIOUS
<1>0. TypeOK /\ ProcessInv
  BY DEF IInv
<1> USE <1>0 DEF TypeOK, ProcessInv
<1>1. ASSUME NEW r \in Ranges, Launch(r) \/ Remove(r) PROVE ProcessInv'
  BY <1>1 DEF Launch, Remove, Goto, db, memory
<1>2. ASSUME NEW r \in Ranges, StartRun(r) PROVE ProcessInv'
  BY <1>2 DEF StartRun, Goto
<1>3. ASSUME NEW r \in Ranges, IndexBlock(r) PROVE ProcessInv'
  BY <1>3, IndexBlockWitness
<1>4. ASSUME NEW r \in Ranges,
             IntegrityError(r) \/ RunDry(r) \/ ValidateNext(r) \/ MarkFailedSkipped(r)
      PROVE  ProcessInv'
  BY <1>4 DEF IntegrityError, RunDry, ValidateNext, MarkFailedSkipped, Goto, memory
<1>5. ASSUME NEW r \in Ranges, FlushTable(r) \/ SaveCheckpoint(r) PROVE ProcessInv'
  BY <1>5 DEF FlushTable, SaveCheckpoint, Goto
<1>6. ASSUME NEW r \in Ranges, ValidatePrevious(r) \/ Complete(r) \/ MarkFailed(r)
      PROVE  ProcessInv'
  BY <1>6 DEF ValidatePrevious, Complete, MarkFailed, Goto, memory
<1>7. ASSUME NEW r \in Ranges, LogFailure(r) PROVE ProcessInv'
  BY <1>7 DEF LogFailure, Goto
<1>8. ASSUME NEW r \in Ranges,
             ExitNormally(r) \/ ExitOnError(r) \/ Crash(r) \/ Terminate(r)
      PROVE  ProcessInv'
  <2>1. PICK code \in {"exited0", "exited1"} : container' = [container EXCEPT ![r] = code]
    BY <1>8, StopFacts
  <2>2. pc' = [pc EXCEPT ![r] = "off"] /\ marks' = [marks EXCEPT ![r] = 0]
    BY <1>8, StopFacts
  <2> QED
    BY <2>1, <2>2
<1>9. ASSUME NEW h \in Heights, Heal(h) PROVE ProcessInv'
  BY <1>9 DEF Heal, memory
<1>10. CASE UNCHANGED vars
  BY <1>10 DEF vars, memory
<1> QED
  BY <1>1, <1>2, <1>3, <1>4, <1>5, <1>6, <1>7, <1>8, <1>9, <1>10 DEF Next, Step

\* Only blocks of the range above its checkpoint are buffered.
LEMMA BufferStep == IInv /\ [Next]_vars => BufferInv'
<1> SUFFICES ASSUME IInv, [Next]_vars,
                    NEW s \in Ranges, NEW k \in Heights, buf'[s][k] # Absent
             PROVE  /\ pc'[s] \in {"index", "flush", "save", "dry", "throw"}
                    /\ k \in Blocks(s)
                    /\ checkpoint'[s] < k
                    /\ k <= head'[s]
  BY DEF BufferInv
<1> DEFINE Goal == /\ pc'[s] \in {"index", "flush", "save", "dry", "throw"}
                   /\ k \in Blocks(s)
                   /\ checkpoint'[s] < k
                   /\ k <= head'[s]
           Old == buf[s][k] # Absent =>
                    /\ pc[s] \in {"index", "flush", "save", "dry", "throw"}
                    /\ k \in Blocks(s)
                    /\ checkpoint[s] < k
                    /\ k <= head[s]
<1>0. TypeOK /\ Old
  BY DEF IInv, BufferInv
<1>a. k \in Nat /\ checkpoint[s] \in Int /\ head[s] \in Int /\ EmptyBuf[k] = Absent
  BY <1>0, ConstFacts, BlockFacts DEF TypeOK
<1> USE <1>0, <1>a DEF TypeOK
<1>1. ASSUME NEW r \in Ranges, Launch(r) PROVE Goal
  BY <1>1 DEF Launch, Goto, db, memory
<1>2. ASSUME NEW r \in Ranges, Remove(r) PROVE Goal
  BY <1>2 DEF Remove, db, memory
<1>3. ASSUME NEW r \in Ranges, StartRun(r) PROVE Goal
  BY <1>3 DEF StartRun, Goto
<1>4. ASSUME NEW r \in Ranges, IndexBlock(r) PROVE Goal
  <2>1. PICK h \in Heights :
           /\ h \in Blocks(r)
           /\ h > head[r]
           /\ pc[r] = "index"
           /\ pc' = [pc EXCEPT ![r] = "index"] \/ pc' = [pc EXCEPT ![r] = "flush"]
           /\ buf'  = [buf EXCEPT ![r] = [buf[r] EXCEPT ![h] = archive[h]]]
           /\ head' = [head EXCEPT ![r] = h]
           /\ UNCHANGED checkpoint
    BY <1>4, IndexBlockWitness
  <2>a. checkpoint[r] <= head[r]
    <3> HIDE DEF TypeOK
    <3>1. SkipInv /\ Indexing(r)
      BY <2>1 DEF IInv, Indexing
    <3> QED
      BY <3>1 DEF SkipInv
  <2>b. head[r] \in Int /\ checkpoint[r] \in Int
    BY ConstFacts
  <2>2. h \in Nat /\ head[r] \in Int /\ checkpoint[r] \in Int /\ checkpoint[r] <= head[r]
    BY <2>a, <2>b, BlockFacts
  <2> QED
    BY <2>1, <2>2
<1>5. ASSUME NEW r \in Ranges, IntegrityError(r) \/ RunDry(r) PROVE Goal
  BY <1>5 DEF IntegrityError, RunDry, Goto, memory, db
<1>6. ASSUME NEW r \in Ranges, FlushTable(r) PROVE Goal
  BY <1>6 DEF FlushTable, Goto
<1>7. ASSUME NEW r \in Ranges, SaveCheckpoint(r) PROVE Goal
  BY <1>7 DEF SaveCheckpoint, Goto
<1>8. ASSUME NEW r \in Ranges, ValidatePrevious(r) \/ ValidateNext(r) \/ Complete(r)
      PROVE  Goal
  <2>1. UNCHANGED <<buf, checkpoint, head>> /\ pc[r] \in {"prev", "next", "complete"}
    BY <1>8 DEF ValidatePrevious, ValidateNext, Complete, Goto, memory, db
  <2>2. s # r => pc'[s] = pc[s]
    BY <1>8 DEF ValidatePrevious, ValidateNext, Complete, Goto
  <2> QED
    BY <2>1, <2>2
<1>9. ASSUME NEW r \in Ranges, MarkFailed(r) \/ MarkFailedSkipped(r) \/ LogFailure(r)
      PROVE  Goal
  <2>1. UNCHANGED <<buf, checkpoint, head>> /\ pc[r] \in {"mark", "log"}
    BY <1>9 DEF MarkFailed, MarkFailedSkipped, LogFailure, Goto, memory, db
  <2>2. s # r => pc'[s] = pc[s]
    BY <1>9 DEF MarkFailed, MarkFailedSkipped, LogFailure, Goto
  <2> QED
    BY <2>1, <2>2
<1>10. ASSUME NEW r \in Ranges,
              ExitNormally(r) \/ ExitOnError(r) \/ Crash(r) \/ Terminate(r)
       PROVE  Goal
  <2>1. /\ pc' = [pc EXCEPT ![r] = "off"]
        /\ buf' = [buf EXCEPT ![r] = EmptyBuf]
        /\ head' = [head EXCEPT ![r] = NoCheckpoint]
        /\ UNCHANGED checkpoint
    BY <1>10, StopFacts
  <2> QED
    BY <2>1
<1>11. ASSUME NEW h \in Heights, Heal(h) PROVE Goal
  BY <1>11 DEF Heal, memory, db
<1>12. CASE UNCHANGED vars
  BY <1>12 DEF vars, memory, db
<1> QED
  BY <1>1, <1>2, <1>3, <1>4, <1>5, <1>6, <1>7, <1>8, <1>9, <1>10, <1>11, <1>12
  DEF Next, Step

\* The steps that touch neither the raw tables nor the buffer.
Quiet(r) ==
  \/ Launch(r) \/ Remove(r) \/ IntegrityError(r) \/ RunDry(r)
  \/ ValidatePrevious(r) \/ ValidateNext(r) \/ Complete(r)
  \/ MarkFailedSkipped(r) \/ MarkFailed(r) \/ LogFailure(r)

\* A quiet step leaves tables, checkpoint and buffer as they are.
LEMMA QuietFacts ==
  ASSUME TypeOK, NEW r \in Ranges, Quiet(r)
  PROVE  /\ UNCHANGED <<archive, raw, checkpoint, buf, head, tbl>>
         /\ \A s \in Ranges : s # r => pc'[s] = pc[s]
         /\ pc'[r] \notin {"index", "flush", "save"} \/ pc'[r] = pc[r]
<1> USE DEF TypeOK
<1>1. CASE Launch(r)
  BY <1>1 DEF Launch, Goto, db, memory
<1>2. CASE Remove(r)
  BY <1>2 DEF Remove, db, memory
<1>3. CASE IntegrityError(r) \/ RunDry(r)
  BY <1>3 DEF IntegrityError, RunDry, Goto, db, memory
<1>4. CASE ValidatePrevious(r)
  BY <1>4 DEF ValidatePrevious, Goto, db
<1>5. CASE ValidateNext(r)
  BY <1>5 DEF ValidateNext, Goto, db, memory
<1>6. CASE Complete(r)
  BY <1>6 DEF Complete, Goto, memory
<1>7. CASE MarkFailedSkipped(r)
  BY <1>7 DEF MarkFailedSkipped, Goto, db, memory
<1>8. CASE MarkFailed(r)
  BY <1>8 DEF MarkFailed, Goto, memory
<1>9. CASE LogFailure(r)
  BY <1>9 DEF LogFailure, Goto
<1> QED
  BY <1>1, <1>2, <1>3, <1>4, <1>5, <1>6, <1>7, <1>8, <1>9 DEF Quiet

\* The steps of Next, grouped by what they write.
LEMMA NextCases ==
  ASSUME [Next]_vars
  PROVE  \/ \E r \in Ranges : Quiet(r)
         \/ \E r \in Ranges : StartRun(r)
         \/ \E r \in Ranges : IndexBlock(r)
         \/ \E r \in Ranges : FlushTable(r)
         \/ \E r \in Ranges : SaveCheckpoint(r)
         \/ \E r \in Ranges : ExitNormally(r) \/ ExitOnError(r) \/ Crash(r) \/ Terminate(r)
         \/ \E h \in Heights : Heal(h)
         \/ UNCHANGED vars
BY DEF Next, Step, Quiet

\* What one insert of flushAll does, pointwise.
LEMMA FlushTableFacts ==
  ASSUME IInv, NEW r \in Ranges, FlushTable(r)
  PROVE  /\ tbl[r] \in Tables
         /\ pc[r] = "flush"
         /\ pc' = [pc EXCEPT ![r] = IF tbl[r] = NumTables THEN "save" ELSE "flush"]
         /\ tbl' = [tbl EXCEPT ![r] = tbl[r] + 1]
         /\ \A t \in Tables : \A h \in Heights :
              raw'[t][h] = IF t = tbl[r] /\ buf[r][h] # Absent THEN buf[r][h] ELSE raw[t][h]
         /\ UNCHANGED <<archive, checkpoint, status, edge, container, head, prev, buf, bad>>
<1>1. TypeOK /\ FlushInv
  BY DEF IInv
<1>2. tbl[r] \in Tables
  BY <1>1, ConstFacts DEF TypeOK, FlushInv, FlushTable, Goto
<1> QED
  BY <1>1, <1>2 DEF FlushTable, Goto, TypeOK

\* Rows and buffers hold only blocks the archive served and still serves.
LEMMA ArchiveStep == IInv /\ [Next]_vars => ArchiveInv'
<1> SUFFICES ASSUME IInv, [Next]_vars PROVE ArchiveInv'
  OBVIOUS
<1>0. TypeOK /\ ArchiveInv
  BY DEF IInv
<1> USE <1>0 DEF ArchiveInv
<1>1. ASSUME NEW r \in Ranges, Quiet(r) PROVE ArchiveInv'
  BY <1>1, QuietFacts
<1>2. ASSUME NEW r \in Ranges, StartRun(r) PROVE ArchiveInv'
  BY <1>2 DEF StartRun
<1>3. ASSUME NEW r \in Ranges, IndexBlock(r) PROVE ArchiveInv'
  <2>1. PICK h \in Heights :
          /\ archive[h] # Absent
          /\ buf'  = [buf EXCEPT ![r] = [buf[r] EXCEPT ![h] = archive[h]]]
          /\ UNCHANGED <<archive, raw>>
    BY <1>3, IndexBlockWitness
  <2> QED
    BY <2>1 DEF TypeOK
<1>4. ASSUME NEW r \in Ranges, FlushTable(r) PROVE ArchiveInv'
  BY <1>4, FlushTableFacts
<1>5. ASSUME NEW r \in Ranges, SaveCheckpoint(r) PROVE ArchiveInv'
  BY <1>5, ConstFacts DEF SaveCheckpoint, TypeOK
<1>6. ASSUME NEW r \in Ranges,
             ExitNormally(r) \/ ExitOnError(r) \/ Crash(r) \/ Terminate(r)
      PROVE  ArchiveInv'
  <2>1. buf' = [buf EXCEPT ![r] = EmptyBuf] /\ UNCHANGED <<archive, raw>>
    BY <1>6, StopFacts
  <2> QED
    BY <2>1, ConstFacts DEF TypeOK
<1>7. ASSUME NEW h \in Heights, Heal(h) PROVE ArchiveInv'
  BY <1>7, ConstFacts DEF Heal, TypeOK, db, memory
<1>8. CASE UNCHANGED vars
  BY <1>8 DEF vars, db, memory
<1> QED
  BY <1>1, <1>2, <1>3, <1>4, <1>5, <1>6, <1>7, <1>8, NextCases

\* A height passed over between checkpoint and head has no rows.
LEMMA SkipStep == IInv /\ [Next]_vars => SkipInv'
<1> SUFFICES ASSUME IInv, [Next]_vars, NEW s \in Ranges, Indexing(s)'
             PROVE  /\ checkpoint'[s] <= head'[s]
                    /\ \A k \in Blocks(s) :
                         checkpoint'[s] < k /\ k <= head'[s] /\ buf'[s][k] = Absent
                           => \A t \in Tables : raw'[t][k] = Absent
  BY DEF SkipInv
<1> DEFINE Goal == /\ checkpoint'[s] <= head'[s]
                   /\ \A k \in Blocks(s) :
                        checkpoint'[s] < k /\ k <= head'[s] /\ buf'[s][k] = Absent
                          => \A t \in Tables : raw'[t][k] = Absent
<1>0. TypeOK /\ SkipInv /\ BufferInv /\ ArchiveInv
  BY DEF IInv
<1>1. ASSUME NEW r \in Ranges, Quiet(r) PROVE Goal
  <2>1. Indexing(s)
    BY <1>1, <1>0, QuietFacts DEF Indexing
  <2> QED
    BY <1>1, <1>0, <2>1, QuietFacts DEF SkipInv
<1>2. ASSUME NEW r \in Ranges, StartRun(r) PROVE Goal
  <2>1. UNCHANGED <<raw, checkpoint, buf>> /\ head' = [head EXCEPT ![r] = rawResumeHead(r)]
    BY <1>2 DEF StartRun
  <2>2. CASE s = r
    <3>1. checkpoint[s] \in Nat \cup {-1} /\ From(s) \in Nat /\ head'[s] = rawResumeHead(s)
      BY <1>0, <2>1, <2>2, BlockFacts, ConstFacts DEF TypeOK
    <3>2. checkpoint[s] <= rawResumeHead(s)
      BY <3>1 DEF rawResumeHead, NoCheckpoint
    <3>3. ASSUME NEW k \in Blocks(s) PROVE ~(checkpoint[s] < k /\ k <= rawResumeHead(s))
      <4>1. k \in Nat /\ From(s) <= k
        BY BlockFacts
      <4> QED
        BY <3>1, <4>1 DEF rawResumeHead, NoCheckpoint
    <3> QED
      BY <2>1, <3>1, <3>2, <3>3
  <2>3. CASE s # r
    <3>1. Indexing(s) /\ head'[s] = head[s]
      BY <1>0, <1>2, <2>1, <2>3 DEF Indexing, StartRun, Goto, TypeOK
    <3> QED
      BY <1>0, <2>1, <3>1 DEF SkipInv
  <2> QED
    BY <2>2, <2>3
<1>3. ASSUME NEW r \in Ranges, IndexBlock(r) PROVE Goal
  <2>1. PICK h \in Heights :
           /\ h \in Blocks(r)
           /\ h > head[r]
           /\ \A g \in Blocks(r) : head[r] < g /\ g < h => archive[g] = Absent
           /\ archive[h] # Absent
           /\ pc[r] = "index"
           /\ pc' = [pc EXCEPT ![r] = "index"] \/ pc' = [pc EXCEPT ![r] = "flush"]
           /\ buf'  = [buf EXCEPT ![r] = [buf[r] EXCEPT ![h] = archive[h]]]
           /\ head' = [head EXCEPT ![r] = h]
           /\ UNCHANGED <<archive, raw, checkpoint>>
    BY <1>3, IndexBlockWitness
  <2>2. Indexing(s)
    BY <1>0, <2>1 DEF Indexing, TypeOK
  <2>3. CASE s = r
    <3>1. h \in Nat /\ head[s] \in Int /\ checkpoint[s] \in Int /\ checkpoint[s] <= head[s]
      <4>1. checkpoint[s] <= head[s]
        BY <1>0, <2>2 DEF SkipInv
      <4>2. head[s] \in Int /\ checkpoint[s] \in Int
        BY <1>0, ConstFacts DEF TypeOK
      <4> QED
        BY <4>1, <4>2, BlockFacts
    <3>2. head'[s] = h
      BY <1>0, <2>1, <2>3 DEF TypeOK
    <3>3. ASSUME NEW k \in Blocks(s), checkpoint[s] < k, k <= h, buf'[s][k] = Absent,
                 NEW t \in Tables
          PROVE  raw[t][k] = Absent
      <4>1. k \in Heights /\ k \in Nat /\ k # h /\ buf[s][k] = Absent
        BY <1>0, <2>1, <2>3, <3>3, BlockFacts DEF TypeOK
      <4>2. CASE k <= head[s]
        BY <1>0, <2>2, <3>3, <4>1, <4>2 DEF SkipInv
      <4>3. CASE k > head[s]
        <5>1. archive[k] = Absent
          BY <2>1, <2>3, <3>1, <3>3, <4>1, <4>3
        <5> QED
          BY <1>0, <4>1, <5>1 DEF ArchiveInv
      <4> QED
        BY <3>1, <4>1, <4>2, <4>3
    <3> QED
      BY <2>1, <3>1, <3>2, <3>3
  <2>4. CASE s # r
    <3>1. buf'[s] = buf[s] /\ head'[s] = head[s]
      BY <1>0, <2>1, <2>4 DEF TypeOK
    <3> QED
      BY <1>0, <2>1, <2>2, <3>1 DEF SkipInv
  <2> QED
    BY <2>3, <2>4
<1>4. ASSUME NEW r \in Ranges, FlushTable(r) PROVE Goal
  <2>1. Indexing(s)
    BY <1>0, <1>4, FlushTableFacts DEF Indexing, TypeOK
  <2>2. ASSUME NEW k \in Blocks(s), NEW t \in Tables, buf[s][k] = Absent
        PROVE  raw'[t][k] = raw[t][k]
    <3>1. k \in Heights
      BY BlockFacts
    <3>2. buf[r][k] = Absent
      BY <1>0, <2>2, <3>1, BlockFacts DEF BufferInv
    <3> QED
      BY <1>4, <3>1, <3>2, FlushTableFacts
  <2> QED
    BY <1>0, <1>4, <2>1, <2>2, FlushTableFacts DEF SkipInv
<1>5. ASSUME NEW r \in Ranges, SaveCheckpoint(r) PROVE Goal
  <2>1. /\ UNCHANGED <<raw, head>>
        /\ checkpoint' = [checkpoint EXCEPT ![r] = head[r]]
        /\ buf' = [buf EXCEPT ![r] = EmptyBuf]
        /\ pc[r] = "save"
        /\ s # r => pc'[s] = pc[s]
    BY <1>0, <1>5 DEF SaveCheckpoint, Goto, TypeOK
  <2>2. CASE s = r
    <3>1. checkpoint'[s] = head[s] /\ head[s] \in Int
      BY <1>0, <2>1, <2>2 DEF TypeOK
    <3> QED
      BY <2>1, <3>1, BlockFacts
  <2>3. CASE s # r
    <3>1. Indexing(s) /\ checkpoint'[s] = checkpoint[s] /\ buf'[s] = buf[s]
      BY <1>0, <2>1, <2>3 DEF Indexing, TypeOK
    <3> QED
      BY <1>0, <2>1, <3>1 DEF SkipInv
  <2> QED
    BY <2>2, <2>3
<1>6. ASSUME NEW r \in Ranges,
             ExitNormally(r) \/ ExitOnError(r) \/ Crash(r) \/ Terminate(r)
      PROVE  Goal
  <2>1. /\ pc' = [pc EXCEPT ![r] = "off"]
        /\ buf' = [buf EXCEPT ![r] = EmptyBuf]
        /\ head' = [head EXCEPT ![r] = NoCheckpoint]
        /\ UNCHANGED <<raw, checkpoint>>
    BY <1>6, StopFacts
  <2>2. s # r
    BY <1>0, <2>1 DEF Indexing, TypeOK
  <2>3. Indexing(s) /\ buf'[s] = buf[s] /\ head'[s] = head[s]
    BY <1>0, <2>1, <2>2 DEF Indexing, TypeOK
  <2> QED
    BY <1>0, <2>1, <2>3 DEF SkipInv
<1>7. ASSUME NEW h \in Heights, Heal(h) PROVE Goal
  BY <1>0, <1>7 DEF Heal, SkipInv, Indexing, db, memory
<1>8. CASE UNCHANGED vars
  BY <1>0, <1>8 DEF vars, SkipInv, Indexing, db, memory
<1> QED
  BY <1>1, <1>2, <1>3, <1>4, <1>5, <1>6, <1>7, <1>8, NextCases

\* A step changes the rows of a height only if that height is buffered.
LEMMA RawFrame ==
  ASSUME IInv, [Next]_vars, NEW t \in Tables, NEW k \in Heights,
         raw'[t][k] # raw[t][k]
  PROVE  \E r \in Ranges : /\ FlushTable(r)
                           /\ k \in Blocks(r)
                           /\ checkpoint[r] < k
                           /\ t = tbl[r]
                           /\ raw'[t][k] = buf[r][k]
<1>0. TypeOK /\ BufferInv
  BY DEF IInv
<1>1. \E r \in Ranges : FlushTable(r)
  <2>1. ASSUME NEW r \in Ranges, Quiet(r) PROVE FALSE
    BY <1>0, <2>1, QuietFacts
  <2>2. ASSUME NEW r \in Ranges, StartRun(r) PROVE FALSE
    BY <2>2 DEF StartRun
  <2>3. ASSUME NEW r \in Ranges, IndexBlock(r) PROVE FALSE
    BY <2>3, IndexBlockWitness
  <2>4. ASSUME NEW r \in Ranges, SaveCheckpoint(r) PROVE FALSE
    BY <2>4 DEF SaveCheckpoint
  <2>5. ASSUME NEW r \in Ranges,
               ExitNormally(r) \/ ExitOnError(r) \/ Crash(r) \/ Terminate(r)
        PROVE  FALSE
    BY <2>5, StopFacts
  <2>6. ASSUME NEW h \in Heights, Heal(h) PROVE FALSE
    BY <2>6 DEF Heal, db
  <2>7. CASE UNCHANGED vars
    BY <2>7 DEF vars, db
  <2> QED
    BY <2>1, <2>2, <2>3, <2>4, <2>5, <2>6, <2>7, NextCases
<1>2. PICK r \in Ranges : FlushTable(r)
  BY <1>1
<1>3. t = tbl[r] /\ buf[r][k] # Absent /\ raw'[t][k] = buf[r][k]
  BY <1>2, FlushTableFacts
<1> QED
  BY <1>0, <1>2, <1>3 DEF BufferInv

\* The checkpoint of a pipeline moves only when it is saved.
LEMMA CheckpointFrame ==
  ASSUME IInv, [Next]_vars, NEW s \in Ranges, checkpoint'[s] # checkpoint[s]
  PROVE  /\ SaveCheckpoint(s)
         /\ checkpoint'[s] = head[s]
         /\ checkpoint[s] <= head[s]
         /\ UNCHANGED raw
<1>0. TypeOK /\ SkipInv
  BY DEF IInv
<1>1. \E r \in Ranges : SaveCheckpoint(r)
  <2>1. ASSUME NEW r \in Ranges, Quiet(r) PROVE FALSE
    BY <1>0, <2>1, QuietFacts
  <2>2. ASSUME NEW r \in Ranges, StartRun(r) PROVE FALSE
    BY <2>2 DEF StartRun
  <2>3. ASSUME NEW r \in Ranges, IndexBlock(r) PROVE FALSE
    BY <2>3, IndexBlockWitness
  <2>4. ASSUME NEW r \in Ranges, FlushTable(r) PROVE FALSE
    BY <2>4 DEF FlushTable
  <2>5. ASSUME NEW r \in Ranges,
               ExitNormally(r) \/ ExitOnError(r) \/ Crash(r) \/ Terminate(r)
        PROVE  FALSE
    BY <2>5, StopFacts
  <2>6. ASSUME NEW h \in Heights, Heal(h) PROVE FALSE
    BY <2>6 DEF Heal, db
  <2>7. CASE UNCHANGED vars
    BY <2>7 DEF vars, db
  <2> QED
    BY <2>1, <2>2, <2>3, <2>4, <2>5, <2>6, <2>7, NextCases
<1>2. PICK r \in Ranges : SaveCheckpoint(r)
  BY <1>1
<1>3. r = s
  BY <1>0, <1>2 DEF SaveCheckpoint, TypeOK
<1> QED
  BY <1>0, <1>2, <1>3 DEF SaveCheckpoint, Goto, SkipInv, Indexing, TypeOK

\* A flush writes the tables in order, each with the whole buffer.
LEMMA FlushStep == IInv /\ [Next]_vars => FlushInv'
<1> SUFFICES ASSUME IInv, [Next]_vars, NEW s \in Ranges
             PROVE  /\ pc'[s] = "flush" => tbl'[s] <= NumTables
                    /\ pc'[s] = "save"  => tbl'[s] = NumTables + 1
                    /\ pc'[s] \in {"flush", "save"} =>
                         \A t \in Tables : \A h \in Heights :
                           t < tbl'[s] /\ buf'[s][h] # Absent => raw'[t][h] = buf'[s][h]
  BY DEF FlushInv
<1> DEFINE Goal == /\ pc'[s] = "flush" => tbl'[s] <= NumTables
                   /\ pc'[s] = "save"  => tbl'[s] = NumTables + 1
                   /\ pc'[s] \in {"flush", "save"} =>
                        \A t \in Tables : \A h \in Heights :
                          t < tbl'[s] /\ buf'[s][h] # Absent => raw'[t][h] = buf'[s][h]
<1>0. TypeOK /\ FlushInv /\ BufferInv
  BY DEF IInv
<1>1. ASSUME pc'[s] = pc[s] \/ pc'[s] \notin {"flush", "save"},
             UNCHANGED raw, tbl'[s] = tbl[s], buf'[s] = buf[s]
      PROVE  Goal
  BY <1>0, <1>1 DEF FlushInv
<1>2. ASSUME NEW r \in Ranges, Quiet(r) PROVE Goal
  BY <1>0, <1>1, <1>2, QuietFacts
<1>3. ASSUME NEW r \in Ranges, StartRun(r) PROVE Goal
  BY <1>0, <1>1, <1>3 DEF StartRun, Goto, TypeOK
<1>4. ASSUME NEW r \in Ranges, IndexBlock(r) PROVE Goal
  <2>1. PICK h \in Heights :
           /\ pc' = [pc EXCEPT ![r] = "index"] \/ pc' = [pc EXCEPT ![r] = "flush"]
           /\ buf'  = [buf EXCEPT ![r] = [buf[r] EXCEPT ![h] = archive[h]]]
           /\ tbl'  = [tbl EXCEPT ![r] = 1]
           /\ UNCHANGED raw
    BY <1>4, IndexBlockWitness
  <2>2. CASE s = r
    <3>1. tbl'[s] = 1 /\ pc'[s] \in {"index", "flush"}
      BY <1>0, <2>1, <2>2 DEF TypeOK
    <3> QED
      BY <3>1, ConstFacts
  <2>3. CASE s # r
    BY <1>0, <1>1, <2>1, <2>3 DEF TypeOK
  <2> QED
    BY <2>2, <2>3
<1>5. ASSUME NEW r \in Ranges, FlushTable(r) PROVE Goal
  <2>1. CASE s = r
    <3>1. /\ tbl[s] \in Tables /\ tbl'[s] = tbl[s] + 1
          /\ pc[s] = "flush"
          /\ pc'[s] = IF tbl[s] = NumTables THEN "save" ELSE "flush"
          /\ UNCHANGED buf
      BY <1>0, <1>5, <2>1, FlushTableFacts DEF TypeOK
    <3>2. ASSUME NEW t \in Tables, NEW h \in Heights, t < tbl'[s], buf'[s][h] # Absent
          PROVE  raw'[t][h] = buf'[s][h]
      <4>1. t = tbl[s] \/ t < tbl[s]
        BY <3>1, <3>2, ConstFacts
      <4>2. t < tbl[s] => raw[t][h] = buf[s][h]
        BY <1>0, <3>1, <3>2 DEF FlushInv
      <4> QED
        BY <1>5, <2>1, <3>1, <3>2, <4>1, <4>2, FlushTableFacts
    <3> QED
      BY <3>1, <3>2, ConstFacts
  <2>2. CASE s # r
    <3>1. pc'[s] = pc[s] /\ tbl'[s] = tbl[s] /\ UNCHANGED buf
      BY <1>0, <1>5, <2>2, FlushTableFacts DEF TypeOK
    <3>2. ASSUME NEW t \in Tables, NEW h \in Heights, buf[s][h] # Absent
          PROVE  raw'[t][h] = raw[t][h]
      <4>1. buf[r][h] = Absent
        BY <1>0, <2>2, <3>2, BlockFacts DEF BufferInv
      <4> QED
        BY <1>5, <4>1, FlushTableFacts
    <3> QED
      BY <1>0, <3>1, <3>2 DEF FlushInv
  <2> QED
    BY <2>1, <2>2
<1>6. ASSUME NEW r \in Ranges, SaveCheckpoint(r) PROVE Goal
  <2>1. CASE s = r
    BY <1>0, <1>6, <2>1 DEF SaveCheckpoint, Goto, TypeOK
  <2>2. CASE s # r
    BY <1>0, <1>1, <1>6, <2>2 DEF SaveCheckpoint, Goto, TypeOK
  <2> QED
    BY <2>1, <2>2
<1>7. ASSUME NEW r \in Ranges,
             ExitNormally(r) \/ ExitOnError(r) \/ Crash(r) \/ Terminate(r)
      PROVE  Goal
  <2>1. /\ pc' = [pc EXCEPT ![r] = "off"]
        /\ buf' = [buf EXCEPT ![r] = EmptyBuf]
        /\ tbl' = [tbl EXCEPT ![r] = 1]
        /\ UNCHANGED raw
    BY <1>7, StopFacts
  <2>2. CASE s = r
    BY <1>0, <2>1, <2>2 DEF TypeOK
  <2>3. CASE s # r
    BY <1>0, <1>1, <2>1, <2>3 DEF TypeOK
  <2> QED
    BY <2>2, <2>3
<1>8. ASSUME NEW h \in Heights, Heal(h) PROVE Goal
  BY <1>1, <1>8 DEF Heal, db, memory
<1>9. CASE UNCHANGED vars
  BY <1>1, <1>9 DEF vars, db, memory
<1> QED
  BY <1>2, <1>3, <1>4, <1>5, <1>6, <1>7, <1>8, <1>9, NextCases

\* Saving the checkpoint covers only heights every table agrees on.
LEMMA CoveredStep == IInv /\ [Next]_vars => CheckpointCovered'
<1> SUFFICES ASSUME IInv, [Next]_vars, NEW s \in Ranges, NEW k \in Blocks(s),
                    k <= checkpoint'[s], NEW t \in Tables
             PROVE  raw'[t][k] = raw'[1][k]
  BY DEF CheckpointCovered
<1>0. TypeOK /\ SkipInv /\ BufferInv /\ FlushInv /\ CheckpointCovered
  BY DEF IInv
<1>a. k \in Heights /\ k \in Nat /\ checkpoint[s] \in Int /\ head[s] \in Int /\ 1 \in Tables
  BY <1>0, BlockFacts, ConstFacts DEF TypeOK
<1>1. CASE checkpoint'[s] = checkpoint[s]
  <2>1. ASSUME NEW u \in Tables PROVE raw'[u][k] = raw[u][k]
    <3> SUFFICES ASSUME raw'[u][k] # raw[u][k] PROVE FALSE
      OBVIOUS
    <3>1. PICK r \in Ranges : k \in Blocks(r) /\ checkpoint[r] < k
      BY <1>a, RawFrame
    <3>2. r = s
      BY <3>1, BlockFacts
    <3> QED
      BY <1>1, <1>a, <3>1, <3>2
  <2>2. raw[t][k] = raw[1][k]
    BY <1>0, <1>1 DEF CheckpointCovered
  <2> QED
    BY <1>a, <2>1, <2>2
<1>2. CASE checkpoint'[s] # checkpoint[s]
  <2>1. SaveCheckpoint(s) /\ checkpoint'[s] = head[s] /\ UNCHANGED raw
    BY <1>2, CheckpointFrame
  <2>2. pc[s] = "save" /\ tbl[s] = NumTables + 1
    BY <1>0, <2>1 DEF SaveCheckpoint, Goto, FlushInv
  <2>3. CASE k <= checkpoint[s]
    BY <1>0, <2>1, <2>3 DEF CheckpointCovered
  <2>4. CASE checkpoint[s] < k /\ buf[s][k] = Absent
    BY <1>0, <1>a, <2>1, <2>2, <2>4 DEF SkipInv, Indexing
  <2>5. CASE buf[s][k] # Absent
    <3>1. ASSUME NEW u \in Tables PROVE u < tbl[s]
      BY <2>2, ConstFacts
    <3>2. ASSUME NEW u \in Tables PROVE raw[u][k] = buf[s][k]
      BY <1>0, <1>a, <2>2, <2>5, <3>1 DEF FlushInv
    <3> QED
      BY <1>a, <2>1, <3>2
  <2> QED
    BY <1>a, <2>3, <2>4, <2>5
<1> QED
  BY <1>1, <1>2

\* Once the checkpoint of a range has reached its end, no step moves the
\* checkpoint back or writes a row of the range.
LEMMA ReachedFrame ==
  ASSUME IInv, [Next]_vars, NEW s \in Ranges, checkpoint[s] >= To(s)
  PROVE  /\ checkpoint'[s] >= To(s)
         /\ \A t \in Tables : \A h \in Blocks(s) : raw'[t][h] = raw[t][h]
         /\ WholeAndLinked(s) => WholeAndLinked(s)'
<1>0. TypeOK
  BY DEF IInv
<1>a. To(s) \in Nat /\ From(s) \in Nat /\ checkpoint[s] \in Int /\ head[s] \in Int
  BY <1>0, BlockFacts, ConstFacts DEF TypeOK
<1>1. checkpoint'[s] >= To(s)
  <2>1. CASE checkpoint'[s] = checkpoint[s]
    BY <2>1
  <2>2. CASE checkpoint'[s] # checkpoint[s]
    <3>1. checkpoint'[s] = head[s] /\ checkpoint[s] <= head[s]
      BY <2>2, CheckpointFrame
    <3> QED
      BY <1>a, <3>1
  <2> QED
    BY <2>1, <2>2
<1>2. ASSUME NEW t \in Tables, NEW h \in Blocks(s)
      PROVE  raw'[t][h] = raw[t][h]
  <2> SUFFICES ASSUME raw'[t][h] # raw[t][h] PROVE FALSE
    OBVIOUS
  <2>1. h \in Heights /\ h \in Nat /\ h <= To(s)
    BY <1>a, BlockFacts
  <2>2. PICK r \in Ranges : h \in Blocks(r) /\ checkpoint[r] < h
    BY <2>1, RawFrame
  <2>3. r = s
    BY <2>2, BlockFacts
  <2> QED
    BY <1>a, <2>1, <2>2, <2>3
<1>3. ASSUME WholeAndLinked(s) PROVE WholeAndLinked(s)'
  <2>1. \A h \in Blocks(s) : raw'[1][h] = raw[1][h]
    BY <1>2, ConstFacts
  <2>2. \A h \in Blocks(s) : h < To(s) => h + 1 \in Blocks(s)
    BY <1>a, BlockFacts
  <2> QED
    BY <1>3, <2>1, <2>2 DEF WholeAndLinked
<1> QED
  BY <1>1, <1>2, <1>3

\* Validation starts at the end of the range and what it accepted stays true.
LEMMA ValidationStep == IInv /\ [Next]_vars => ValidationInv'
<1> SUFFICES ASSUME IInv, [Next]_vars, NEW s \in Ranges
             PROVE  /\ pc'[s] \in {"prev", "next", "complete", "mark", "log"}
                         => checkpoint'[s] >= To(s)
                    /\ \/ pc'[s] = "next" /\ ~bad'[s]
                       \/ pc'[s] = "complete"
                       \/ status'[s] = "completed"
                       => checkpoint'[s] >= To(s) /\ WholeAndLinked(s)'
  BY DEF ValidationInv
<1> DEFINE Late(p) == p \in {"prev", "next", "complete", "mark", "log"}
           Good(p, b, st) == (p = "next" /\ ~b) \/ p = "complete" \/ st = "completed"
           Goal == /\ Late(pc'[s]) => checkpoint'[s] >= To(s)
                   /\ Good(pc'[s], bad'[s], status'[s])
                        => checkpoint'[s] >= To(s) /\ WholeAndLinked(s)'
<1>0. TypeOK /\ ValidationInv
  BY DEF IInv
<1>a. To(s) \in Nat /\ checkpoint[s] \in Int /\ head[s] \in Int
  BY <1>0, BlockFacts, ConstFacts DEF TypeOK
<1>b. /\ Late(pc[s]) => checkpoint[s] >= To(s)
      /\ Good(pc[s], bad[s], status[s]) => checkpoint[s] >= To(s) /\ WholeAndLinked(s)
  BY <1>0 DEF ValidationInv
<1>c. ASSUME Late(pc'[s]) => Late(pc[s]),
             Good(pc'[s], bad'[s], status'[s]) => Good(pc[s], bad[s], status[s])
      PROVE  Goal
  BY <1>b, <1>c, ReachedFrame
<1> HIDE DEF Late, Good, Goal
<1>1. ASSUME pc'[s] = pc[s], bad'[s] = bad[s],
             status'[s] = status[s]
      PROVE  Goal
  BY <1>1, <1>c
<1>2. ASSUME NEW r \in Ranges, Launch(r) \/ Remove(r) PROVE Goal
  BY <1>0, <1>2, <1>c DEF Launch, Remove, Goto, db, memory, Late, Good, TypeOK
<1>3. ASSUME NEW r \in Ranges, StartRun(r) PROVE Goal
  <2>1. CASE s # r
    BY <1>0, <1>1, <1>3, <2>1 DEF StartRun, Goto, TypeOK
  <2>2. CASE s = r
    <3>1. /\ pc[s] = "boot"
          /\ pc'[s] \in {"prev", "index"}
          /\ pc'[s] = "prev" => rawResumeHead(s) >= To(s)
          /\ status'[s] = "completed" => status[s] = "completed"
          /\ UNCHANGED <<checkpoint, raw>>
      BY <1>0, <1>3, <2>2 DEF StartRun, Goto, TypeOK
    <3>2. status'[s] = "completed" => checkpoint'[s] >= To(s) /\ WholeAndLinked(s)'
      BY <1>b, <3>1, ReachedFrame DEF Good
    <3>3. CASE pc'[s] = "index"
      BY <3>2, <3>3 DEF Goal, Late, Good
    <3>4. CASE pc'[s] = "prev" /\ checkpoint[s] # NoCheckpoint
      BY <3>1, <3>2, <3>4 DEF rawResumeHead, Goal, Late, Good
    <3>5. CASE pc'[s] = "prev" /\ checkpoint[s] = NoCheckpoint
      <4>1. From(s) \in Nat /\ From(s) <= To(s)
        BY BlockFacts
      <4>2. rawResumeHead(s) < To(s)
        BY <3>5, <4>1, <1>a DEF rawResumeHead
      <4>3. rawResumeHead(s) \in Int
        BY <3>5 DEF rawResumeHead
      <4> QED
        BY <1>a, <3>1, <3>5, <4>2, <4>3
    <3> QED
      BY <3>1, <3>3, <3>4, <3>5
  <2> QED
    BY <2>1, <2>2
<1>4. ASSUME NEW r \in Ranges, IndexBlock(r) PROVE Goal
  <2>1. /\ pc' = [pc EXCEPT ![r] = "index"] \/ pc' = [pc EXCEPT ![r] = "flush"]
        /\ UNCHANGED <<bad, status>>
    BY <1>4, IndexBlockWitness
  <2> QED
    BY <1>0, <1>c, <2>1 DEF TypeOK, Late, Good
<1>5. ASSUME NEW r \in Ranges, IntegrityError(r) \/ RunDry(r) PROVE Goal
  BY <1>0, <1>5, <1>c DEF IntegrityError, RunDry, Goto, db, memory, Late, Good, TypeOK
<1>6. ASSUME NEW r \in Ranges, FlushTable(r) PROVE Goal
  BY <1>0, <1>6, <1>c DEF FlushTable, Goto, Late, Good, TypeOK
<1>7. ASSUME NEW r \in Ranges, SaveCheckpoint(r) PROVE Goal
  <2>1. CASE s # r
    BY <1>0, <1>1, <1>7, <2>1 DEF SaveCheckpoint, Goto, TypeOK
  <2>2. CASE s = r
    <3>1. /\ checkpoint'[s] = head[s]
          /\ pc'[s] \in {"prev", "index"}
          /\ pc'[s] = "prev" => head[s] >= To(s)
          /\ status'[s] = status[s]
      BY <1>0, <1>7, <2>2 DEF SaveCheckpoint, Goto, TypeOK
    <3>2. status'[s] = "completed" => checkpoint'[s] >= To(s) /\ WholeAndLinked(s)'
      BY <1>b, <3>1, ReachedFrame DEF Good
    <3> QED
      BY <3>1, <3>2 DEF Goal, Late, Good
  <2> QED
    BY <2>1, <2>2
<1>8. ASSUME NEW r \in Ranges, ValidatePrevious(r) PROVE Goal
  <2>1. CASE s # r
    BY <1>0, <1>1, <1>8, <2>1 DEF ValidatePrevious, Goto, TypeOK, db
  <2>2. CASE s = r
    <3>1. /\ pc[s] = "prev" /\ pc'[s] = "next"
          /\ UNCHANGED <<status, raw, checkpoint>>
      BY <1>0, <1>8, <2>2 DEF ValidatePrevious, Goto, TypeOK, db
    <3>2. ~bad'[s] => WholeAndLinked(s)
      BY <1>0, <1>8, <2>2, Zenon DEF ValidatePrevious, TypeOK
    <3>3. checkpoint[s] >= To(s)
      BY <1>b, <3>1 DEF Late
    <3> QED
      BY <1>b, <3>1, <3>2, <3>3, ReachedFrame DEF Goal, Late, Good
  <2> QED
    BY <2>1, <2>2
<1>9. ASSUME NEW r \in Ranges, ValidateNext(r) PROVE Goal
  <2>1. CASE s # r
    BY <1>0, <1>1, <1>9, <2>1 DEF ValidateNext, Goto, TypeOK, db, memory
  <2>2. CASE s = r
    <3>1. /\ pc[s] = "next" /\ pc'[s] \in {"mark", "complete"}
          /\ pc'[s] = "complete" => ~bad[s]
          /\ UNCHANGED <<status, bad>>
      BY <1>0, <1>9, <2>2 DEF ValidateNext, Goto, TypeOK, db, memory
    <3> QED
      BY <1>c, <3>1 DEF Late, Good
  <2> QED
    BY <2>1, <2>2
<1>10. ASSUME NEW r \in Ranges, Complete(r) PROVE Goal
  <2>1. CASE s # r
    BY <1>0, <1>1, <1>10, <2>1 DEF Complete, Goto, TypeOK, memory
  <2>2. CASE s = r
    <3>1. pc[s] = "complete" /\ pc'[s] = "done"
      BY <1>0, <1>10, <2>2 DEF Complete, Goto, TypeOK
    <3> QED
      BY <1>c, <3>1 DEF Late, Good
  <2> QED
    BY <2>1, <2>2
<1>11. ASSUME NEW r \in Ranges, MarkFailedSkipped(r) \/ MarkFailed(r) \/ LogFailure(r)
       PROVE  Goal
  <2>1. CASE s # r
    BY <1>0, <1>1, <1>11, <2>1
    DEF MarkFailedSkipped, MarkFailed, LogFailure, Goto, TypeOK, db, memory
  <2>2. CASE s = r
    <3>1. /\ pc[s] \in {"mark", "log"} /\ pc'[s] \in {"throw", "log", "mark"}
          /\ status'[s] = "completed" => status[s] = "completed"
      BY <1>0, <1>11, <2>2
      DEF MarkFailedSkipped, MarkFailed, LogFailure, Goto, TypeOK, db
    <3> QED
      BY <1>c, <3>1 DEF Late, Good
  <2> QED
    BY <2>1, <2>2
<1>12. ASSUME NEW r \in Ranges,
              ExitNormally(r) \/ ExitOnError(r) \/ Crash(r) \/ Terminate(r)
       PROVE  Goal
  <2>1. /\ pc' = [pc EXCEPT ![r] = "off"]
        /\ bad' = [bad EXCEPT ![r] = FALSE]
        /\ UNCHANGED status
    BY <1>12, StopFacts
  <2>2. CASE s # r
    BY <1>0, <1>1, <2>1, <2>2 DEF TypeOK
  <2>3. CASE s = r
    BY <1>0, <1>c, <2>1, <2>3 DEF TypeOK, Late, Good
  <2> QED
    BY <2>2, <2>3
<1>13. ASSUME NEW h \in Heights, Heal(h) PROVE Goal
  BY <1>1, <1>13 DEF Heal, db, memory
<1>14. ASSUME UNCHANGED vars PROVE Goal
  BY <1>1, <1>14 DEF vars, db, memory
<1>15. Goal
  BY <1>2, <1>3, <1>4, <1>5, <1>6, <1>7, <1>8, <1>9, <1>10, <1>11, <1>12, <1>13, <1>14
  DEF Next, Step
<1> QED
  BY <1>15 DEF Goal, Late, Good

\* The invariant holds before any container is launched.
LEMMA InitIInv == Init => IInv
<1> SUFFICES ASSUME Init PROVE IInv
  OBVIOUS
<1> USE ConstFacts DEF Init
<1>1. TypeOK
  BY DEF TypeOK, PCs
<1>2. ProcessInv /\ BufferInv /\ ArchiveInv
  BY DEF ProcessInv, BufferInv, ArchiveInv
<1>3. SkipInv /\ FlushInv
  BY DEF SkipInv, FlushInv, Indexing
<1>4. CheckpointCovered
  BY BlockFacts DEF CheckpointCovered
<1>5. ValidationInv
  BY DEF ValidationInv
<1> QED
  BY <1>1, <1>2, <1>3, <1>4, <1>5 DEF IInv

\* IInv is an inductive invariant of the workers: it holds in every state they
\* reach, whatever the archive serves and wherever processes die.
THEOREM InductiveInvariant == Spec => []IInv
<1>1. Init => IInv
  BY InitIInv
<1>2. IInv /\ [Next]_vars => IInv'
  BY TypeStep, ProcessStep, BufferStep, ArchiveStep, SkipStep, FlushStep,
     CoveredStep, ValidationStep DEF IInv
<1> QED
  BY <1>1, <1>2, PTL DEF Spec

\* Type correctness.
THEOREM TypeCorrect == Spec => []TypeOK
<1>1. IInv => TypeOK
  BY DEF IInv
<1> QED
  BY <1>1, InductiveInvariant, PTL

\* A checkpoint never covers a block that some of flushAll's inserts missed, for
\* any number of tables and any point at which the process dies.
THEOREM CheckpointCorrect == Spec => []CheckpointCovered
<1>1. IInv => CheckpointCovered
  BY DEF IInv
<1> QED
  BY <1>1, InductiveInvariant, PTL

\* A range that validated on raw_blocks alone is whole and linked in every table.
THEOREM CompletedCorrect == Spec => []CompletedWhole
<1>1. ASSUME IInv PROVE CompletedWhole
  <2> SUFFICES ASSUME NEW r \in Ranges, status[r] = "completed",
                      NEW t \in Tables, NEW h \in Blocks(r)
               PROVE  /\ raw[t][h] # Absent
                      /\ h < To(r) => raw[t][h] = raw[t][h + 1]
    BY DEF CompletedWhole
  <2>1. checkpoint[r] >= To(r) /\ WholeAndLinked(r)
    BY <1>1 DEF IInv, ValidationInv
  <2>2. checkpoint[r] \in Int /\ To(r) \in Nat /\ From(r) \in Nat
    BY <1>1, BlockFacts, ConstFacts DEF IInv, TypeOK
  <2>3. \A g \in Blocks(r) : raw[t][g] = raw[1][g]
    <3>1. \A g \in Blocks(r) : g <= checkpoint[r]
      BY <2>1, <2>2 DEF Blocks
    <3> QED
      BY <1>1, <3>1 DEF IInv, CheckpointCovered
  <2>4. h < To(r) => h + 1 \in Blocks(r)
    BY <2>2 DEF Blocks
  <2> QED
    BY <2>1, <2>3, <2>4 DEF WholeAndLinked
<1> QED
  BY <1>1, InductiveInvariant, PTL

\* The rows of a completed range are never written again, whatever is restarted.
THEOREM CompletedImmutable == Spec => CompletedFrozen
<1>1. IInv /\ [Next]_vars =>
        [\A r \in Ranges : status[r] = "completed" =>
           \A t \in Tables : \A h \in Blocks(r) : raw'[t][h] = raw[t][h]]_vars
  <2> SUFFICES ASSUME IInv, [Next]_vars, NEW r \in Ranges, status[r] = "completed"
               PROVE  \A t \in Tables : \A h \in Blocks(r) : raw'[t][h] = raw[t][h]
    OBVIOUS
  <2>1. checkpoint[r] >= To(r)
    BY DEF IInv, ValidationInv
  <2> QED
    BY <2>1, ReachedFrame
<1> QED
  BY <1>1, InductiveInvariant, PTL DEF Spec, CompletedFrozen

\* Which steps write the row of a range: start, completion and failure.
LEMMA RowFrame ==
  ASSUME IInv, [Next]_vars, NEW s \in Ranges
  PROVE  \/ status'[s] = status[s] /\ edge'[s] = edge[s]
         \/ /\ Complete(s)
            /\ status'[s] = "completed"
            /\ edge'[s] = [firstParent |-> raw[1][From(s)], last |-> raw[1][To(s)]]
         \/ status[s] # "completed" /\ status'[s] # "completed"
<1> DEFINE Goal == \/ status'[s] = status[s] /\ edge'[s] = edge[s]
                   \/ /\ Complete(s)
                      /\ status'[s] = "completed"
                      /\ edge'[s] = [firstParent |-> raw[1][From(s)], last |-> raw[1][To(s)]]
                   \/ status[s] # "completed" /\ status'[s] # "completed"
<1>0. TypeOK
  BY DEF IInv
<1>1. ASSUME NEW r \in Ranges, Complete(r) PROVE Goal
  BY <1>0, <1>1 DEF Complete, TypeOK
<1>2. ASSUME NEW r \in Ranges, MarkFailed(r) PROVE Goal
  BY <1>0, <1>2 DEF MarkFailed, TypeOK
<1>3. ASSUME NEW r \in Ranges, StartRun(r) PROVE Goal
  BY <1>0, <1>3 DEF StartRun, TypeOK
<1>4. ASSUME UNCHANGED <<status, edge>> PROVE Goal
  BY <1>4
<1>5. ASSUME NEW r \in Ranges, Launch(r) \/ Remove(r) \/ IntegrityError(r) \/ RunDry(r)
                               \/ ValidatePrevious(r) \/ ValidateNext(r)
                               \/ MarkFailedSkipped(r) \/ LogFailure(r)
      PROVE  UNCHANGED <<status, edge>>
  BY <1>5 DEF Launch, Remove, IntegrityError, RunDry, ValidatePrevious, ValidateNext,
              MarkFailedSkipped, LogFailure, db
<1>6. ASSUME NEW r \in Ranges, IndexBlock(r) PROVE UNCHANGED <<status, edge>>
  BY <1>6, IndexBlockWitness
<1>7. ASSUME NEW r \in Ranges, FlushTable(r) \/ SaveCheckpoint(r)
      PROVE  UNCHANGED <<status, edge>>
  BY <1>7 DEF FlushTable, SaveCheckpoint
<1>8. ASSUME NEW r \in Ranges,
             ExitNormally(r) \/ ExitOnError(r) \/ Crash(r) \/ Terminate(r)
      PROVE  UNCHANGED <<status, edge>>
  BY <1>8, StopFacts
<1>9. ASSUME NEW h \in Heights, Heal(h) PROVE UNCHANGED <<status, edge>>
  BY <1>9 DEF Heal, db
<1>10. ASSUME UNCHANGED vars PROVE UNCHANGED <<status, edge>>
  BY <1>10 DEF vars, db
<1> HIDE DEF Goal
<1>11. Goal
  BY <1>1, <1>2, <1>3, <1>4, <1>5, <1>6, <1>7, <1>8, <1>9, <1>10, NextCases DEF Quiet
<1> QED
  BY <1>11 DEF Goal

\* No worker takes a completed range back.
THEOREM CompletedStays == Spec => CompletedKept
<1>1. IInv /\ [Next]_vars =>
        [\A r \in Ranges : status[r] = "completed" => status'[r] = "completed"]_vars
  BY RowFrame
<1> QED
  BY <1>1, InductiveInvariant, PTL DEF Spec, CompletedKept

\* The row of a completed range describes the blocks stored for it, so a
\* neighbour that is compared with the row is compared with the blocks.
THEOREM EdgeCorrect == Spec => []EdgeMatchesData
<1>1. Init => EdgeMatchesData
  BY DEF Init, EdgeMatchesData
<1>2. IInv /\ EdgeMatchesData /\ [Next]_vars => EdgeMatchesData'
  <2> SUFFICES ASSUME IInv, EdgeMatchesData, [Next]_vars,
                      NEW s \in Ranges, status'[s] = "completed"
               PROVE  edge'[s] = [firstParent |-> raw'[1][From(s)], last |-> raw'[1][To(s)]]
    BY DEF EdgeMatchesData
  <2>1. From(s) \in Blocks(s) /\ To(s) \in Blocks(s) /\ 1 \in Tables
    BY BlockFacts, ConstFacts
  <2>2. CASE status'[s] = status[s] /\ edge'[s] = edge[s]
    <3>1. checkpoint[s] >= To(s)
      BY <2>2 DEF IInv, ValidationInv
    <3>2. raw'[1][From(s)] = raw[1][From(s)] /\ raw'[1][To(s)] = raw[1][To(s)]
      BY <2>1, <3>1, ReachedFrame
    <3> QED
      BY <2>2, <3>2 DEF EdgeMatchesData
  <2>3. CASE /\ Complete(s)
             /\ edge'[s] = [firstParent |-> raw[1][From(s)], last |-> raw[1][To(s)]]
    BY <2>3 DEF Complete
  <2> QED
    BY <2>2, <2>3, RowFrame
<1> QED
  BY <1>1, <1>2, InductiveInvariant, PTL DEF Spec

-----------------------------------------------------------------------------
(* Refinement of RangeJob.                                                 *)

\* The job variable the refinement mapping gives RangeJob.
MappedJob == [r \in Ranges |-> [phase |-> JobPhase(pc[r]), marks |-> marks[r]]]

\* The points of the worker and the phases RangeJob sees.
LEMMA PhaseFacts ==
  /\ {"off", "boot", "index", "flush", "save", "dry", "prev", "next",
      "complete", "mark", "log", "throw", "done"} = PCs
  /\ JobPhase("off") = "off" /\ JobPhase("boot") = "boot"
  /\ JobPhase("log") = "log" /\ JobPhase("done") = "done"
  /\ \A p \in {"index", "flush", "save", "dry", "prev", "next", "complete",
               "mark", "throw"} : JobPhase(p) = "work"
  /\ 0 \in 0..2
BY DEF PCs, JobPhase

\* A step that moves one process moves one entry of the mapped job.
LEMMA MappedStep ==
  ASSUME TypeOK, NEW r \in Ranges, NEW p \in PCs, NEW m \in 0..2,
         pc' = [pc EXCEPT ![r] = p], marks' = [marks EXCEPT ![r] = m]
  PROVE  MappedJob' = [MappedJob EXCEPT ![r] = [phase |-> JobPhase(p), marks |-> m]]
<1>1. ASSUME NEW s \in Ranges
      PROVE  MappedJob'[s] = [MappedJob EXCEPT ![r] = [phase |-> JobPhase(p), marks |-> m]][s]
  <2>1. CASE s = r
    <3>1. pc'[s] = p /\ marks'[s] = m
      BY <2>1 DEF TypeOK
    <3> QED
      BY <2>1, <3>1 DEF MappedJob
  <2>2. CASE s # r
    <3>1. pc'[s] = pc[s] /\ marks'[s] = marks[s]
      BY <2>2 DEF TypeOK
    <3> QED
      BY <2>2, <3>1 DEF MappedJob
  <2> QED
    BY <2>1, <2>2
<1> QED
  BY <1>1 DEF MappedJob

\* A step that moves a process between points RangeJob does not tell apart
\* leaves the mapped job alone.
LEMMA MappedStutter ==
  ASSUME TypeOK, NEW r \in Ranges, NEW p \in PCs,
         pc' = [pc EXCEPT ![r] = p], JobPhase(p) = JobPhase(pc[r]), UNCHANGED marks
  PROVE  MappedJob' = MappedJob
<1>1. \A s \in Ranges : JobPhase(pc'[s]) = JobPhase(pc[s])
  BY DEF TypeOK
<1> QED
  BY <1>1 DEF MappedJob

\* Every behaviour of the detailed worker is a behaviour of the job the
\* supervisor is built on.
THEOREM RefinesJob == Spec => ImplementsJob
<1>1. Init => Job!JobInit
  BY DEF Init, Job!JobInit, Job!Off, JobPhase
<1>2. IInv /\ [Next]_vars => [Job!JobNext]_(Job!jobVars)
  <2> SUFFICES ASSUME IInv, [Next]_vars PROVE [Job!JobNext]_(Job!jobVars)
    OBVIOUS
  <2>0. TypeOK /\ ProcessInv
    BY DEF IInv
  <2> DEFINE Stutter == UNCHANGED <<container, status, failures, MappedJob>>
  <2>a. ASSUME Stutter PROVE [Job!JobNext]_(Job!jobVars)
    BY <2>a DEF MappedJob, Job!jobVars
  <2>b. ASSUME NEW r \in Ranges, NEW p \in PCs, Goto(r, pc[r], p),
               JobPhase(p) = JobPhase(pc[r]), UNCHANGED <<container, status, failures, marks>>
        PROVE  [Job!JobNext]_(Job!jobVars)
    BY <2>0, <2>a, <2>b, MappedStutter DEF Goto
  <2>1. ASSUME NEW r \in Ranges, Launch(r) PROVE Job!Launch(r)
    <3>1. marks[r] = 0 /\ marks' = [marks EXCEPT ![r] = 0]
      BY <2>0, <2>1 DEF Launch, Goto, ProcessInv, TypeOK, memory
    <3>2. pc' = [pc EXCEPT ![r] = "boot"] /\ "boot" \in PCs /\ 0 \in 0..2
      BY <2>1, PhaseFacts DEF Launch, Goto
    <3>3. MappedJob' = [MappedJob EXCEPT ![r] = [phase |-> JobPhase("boot"), marks |-> 0]]
      BY <2>0, <3>1, <3>2, MappedStep
    <3> QED
      BY <2>1, <3>3, PhaseFacts DEF Launch, Job!Launch, MappedJob, db
  <2>2. ASSUME NEW r \in Ranges, Remove(r) PROVE Job!Remove(r)
    BY <2>2 DEF Remove, Job!Remove, db, memory
  <2>3. ASSUME NEW r \in Ranges, StartRun(r) PROVE Job!MarkRunning(r)
    <3>0. pc[r] = "boot" /\ UNCHANGED marks
      BY <2>3 DEF StartRun, Goto
    <3>1. pc[r] = "boot" /\ marks[r] = 0 /\ marks' = [marks EXCEPT ![r] = 0]
      BY <2>0, <3>0 DEF ProcessInv, TypeOK
    <3>p. PICK p \in {"prev", "index"} : pc' = [pc EXCEPT ![r] = p]
      BY <2>3 DEF StartRun, Goto
    <3>a. pc' = [pc EXCEPT ![r] = p] /\ p \in PCs /\ JobPhase(p) = "work" /\ 0 \in 0..2
      BY <3>p, PhaseFacts
    <3>b. MappedJob' = [MappedJob EXCEPT ![r] = [phase |-> JobPhase(p), marks |-> 0]]
      BY <2>0, <3>1, <3>a, MappedStep
    <3>2. MappedJob' = [MappedJob EXCEPT ![r] = [phase |-> "work", marks |-> 0]]
      BY <3>a, <3>b
    <3>3. MappedJob[r] = [phase |-> "boot", marks |-> 0]
      BY <3>1 DEF MappedJob, JobPhase
    <3>4. MappedJob' = [MappedJob EXCEPT ![r].phase = "work"]
      BY <3>2, <3>3 DEF MappedJob
    <3>5. status' = [status EXCEPT ![r] = IF @ = "completed" THEN @ ELSE "running"]
      BY <2>0, <2>3 DEF StartRun, TypeOK
    <3> QED
      BY <2>3, <3>3, <3>4, <3>5 DEF StartRun, Job!MarkRunning, MappedJob
  <2>4. ASSUME NEW r \in Ranges, IndexBlock(r) PROVE [Job!JobNext]_(Job!jobVars)
    <3>1. /\ pc[r] = "index"
          /\ pc' = [pc EXCEPT ![r] = "index"] \/ pc' = [pc EXCEPT ![r] = "flush"]
          /\ UNCHANGED <<container, status, failures, marks>>
      BY <2>4, IndexBlockWitness
    <3> QED
      BY <2>b, <3>1 DEF Goto, PCs, JobPhase
  <2>5. ASSUME NEW r \in Ranges,
               IntegrityError(r) \/ RunDry(r) \/ FlushTable(r) \/ SaveCheckpoint(r)
        PROVE  [Job!JobNext]_(Job!jobVars)
    <3>1. /\ pc[r] \in {"index", "flush", "save"}
          /\ \E p \in {"throw", "dry", "save", "flush", "prev", "index"} :
               pc' = [pc EXCEPT ![r] = p]
          /\ UNCHANGED <<container, status, failures, marks>>
      BY <2>5 DEF IntegrityError, RunDry, FlushTable, SaveCheckpoint, Goto, db, memory
    <3> QED
      BY <2>b, <3>1 DEF Goto, PCs, JobPhase
  <2>6. ASSUME NEW r \in Ranges,
               ValidatePrevious(r) \/ ValidateNext(r) \/ MarkFailedSkipped(r)
        PROVE  [Job!JobNext]_(Job!jobVars)
    <3>1. /\ pc[r] \in {"prev", "next", "mark"}
          /\ \E p \in {"next", "mark", "complete", "throw"} : pc' = [pc EXCEPT ![r] = p]
          /\ UNCHANGED <<container, status, failures, marks>>
      BY <2>6 DEF ValidatePrevious, ValidateNext, MarkFailedSkipped, Goto, db, memory
    <3> QED
      BY <2>b, <3>1 DEF Goto, PCs, JobPhase
  <2>7. ASSUME NEW r \in Ranges, Complete(r) PROVE Job!MarkCompleted(r)
    <3>1. pc[r] = "complete" /\ marks[r] = 0 /\ marks' = [marks EXCEPT ![r] = 0]
      BY <2>0, <2>7 DEF Complete, Goto, ProcessInv, TypeOK, memory
    <3>a. pc' = [pc EXCEPT ![r] = "done"] /\ "done" \in PCs /\ 0 \in 0..2
      BY <2>7, PhaseFacts DEF Complete, Goto
    <3>b. MappedJob' = [MappedJob EXCEPT ![r] = [phase |-> JobPhase("done"), marks |-> 0]]
      BY <2>0, <3>1, <3>a, MappedStep
    <3>2. MappedJob' = [MappedJob EXCEPT ![r] = [phase |-> "done", marks |-> 0]]
      BY <3>b, PhaseFacts
    <3>3. MappedJob[r] = [phase |-> "work", marks |-> 0]
      BY <3>1 DEF MappedJob, JobPhase
    <3>4. MappedJob' = [MappedJob EXCEPT ![r].phase = "done"]
      BY <3>2, <3>3 DEF MappedJob
    <3> QED
      BY <2>7, <3>3, <3>4 DEF Complete, Job!MarkCompleted, MappedJob
  <2>8. ASSUME NEW r \in Ranges, MarkFailed(r) PROVE Job!MarkFailed(r)
    <3>1. pc[r] = "mark" /\ marks[r] \in 0..2 /\ marks[r] <= 1
      BY <2>0, <2>8 DEF MarkFailed, Goto, ProcessInv, TypeOK
    <3>2. marks' = [marks EXCEPT ![r] = marks[r]]
      BY <2>0, <2>8 DEF MarkFailed, TypeOK, memory
    <3>a. pc' = [pc EXCEPT ![r] = "log"] /\ "log" \in PCs
      BY <2>8, PhaseFacts DEF MarkFailed, Goto
    <3>b. MappedJob' = [MappedJob EXCEPT ![r] = [phase |-> JobPhase("log"), marks |-> marks[r]]]
      BY <2>0, <3>1, <3>2, <3>a, MappedStep
    <3>3. MappedJob' = [MappedJob EXCEPT ![r] = [phase |-> "log", marks |-> marks[r]]]
      BY <3>b, PhaseFacts
    <3>4. MappedJob[r] = [phase |-> "work", marks |-> marks[r]]
      BY <3>1 DEF MappedJob, JobPhase
    <3>5. MappedJob' = [MappedJob EXCEPT ![r].phase = "log"]
      BY <3>3, <3>4 DEF MappedJob
    <3> QED
      BY <2>8, <3>1, <3>4, <3>5 DEF MarkFailed, Job!MarkFailed, MappedJob
  <2>9. ASSUME NEW r \in Ranges, LogFailure(r) PROVE Job!LogFailure(r)
    <3>1. pc[r] = "log" /\ marks[r] \in 0..2 /\ marks[r] <= 1
      BY <2>0, <2>9 DEF LogFailure, Goto, ProcessInv, TypeOK
    <3>2. /\ marks[r] + 1 \in 0..2
          /\ marks' = [marks EXCEPT ![r] = marks[r] + 1]
      BY <2>9, <3>1 DEF LogFailure, Goto
    <3>p. PICK p \in {"mark", "throw"} : pc' = [pc EXCEPT ![r] = p]
      BY <2>9 DEF LogFailure, Goto
    <3>a. pc' = [pc EXCEPT ![r] = p] /\ p \in PCs /\ JobPhase(p) = "work"
      BY <3>p, PhaseFacts
    <3>b. MappedJob' = [MappedJob EXCEPT ![r] = [phase |-> JobPhase(p), marks |-> marks[r] + 1]]
      BY <2>0, <3>2, <3>a, MappedStep
    <3>3. MappedJob' = [MappedJob EXCEPT ![r] = [phase |-> "work", marks |-> marks[r] + 1]]
      BY <3>a, <3>b
    <3>4. MappedJob[r] = [phase |-> "log", marks |-> marks[r]]
      BY <3>1 DEF MappedJob, JobPhase
    <3>5. MappedJob' = [MappedJob EXCEPT ![r] = [phase |-> "work", marks |-> @.marks + 1]]
      BY <3>3, <3>4 DEF MappedJob
    <3> QED
      BY <2>9, <3>4, <3>5 DEF LogFailure, Job!LogFailure, Job!LogRow, MappedJob
  <2>10. ASSUME NEW r \in Ranges,
                ExitNormally(r) \/ ExitOnError(r) \/ Crash(r) \/ Terminate(r)
         PROVE  \E code \in {"exited0", "exited1"} : Job!Exit(r, code)
    <3>1. PICK code \in {"exited0", "exited1"} : container' = [container EXCEPT ![r] = code]
      BY <2>10, StopFacts
    <3>2. /\ pc' = [pc EXCEPT ![r] = "off"] /\ marks' = [marks EXCEPT ![r] = 0]
          /\ UNCHANGED <<status, failures>>
      BY <2>10, StopFacts
    <3>3. pc[r] # "off"
      BY <2>10 DEF ExitNormally, ExitOnError, Crash, Terminate
    <3>4. container[r] = "up"
      BY <2>0, <3>3 DEF ProcessInv
    <3>b. "off" \in PCs /\ 0 \in 0..2
      BY PhaseFacts
    <3>a. MappedJob' = [MappedJob EXCEPT ![r] = [phase |-> JobPhase("off"), marks |-> 0]]
      BY <2>0, <3>2, <3>b, MappedStep
    <3>5. MappedJob' = [MappedJob EXCEPT ![r] = [phase |-> "off", marks |-> 0]]
      BY <3>a, PhaseFacts
    <3> QED
      BY <3>1, <3>2, <3>4, <3>5 DEF Job!Exit, Job!Off, MappedJob
  <2>11. ASSUME NEW h \in Heights, Heal(h) PROVE Stutter
    BY <2>11 DEF Heal, db, memory, MappedJob
  <2>12. ASSUME UNCHANGED vars PROVE Stutter
    BY <2>12 DEF vars, db, memory, MappedJob
  <2> HIDE DEF Stutter
  <2> QED
    BY <2>a, <2>1, <2>2, <2>3, <2>4, <2>5, <2>6, <2>7, <2>8, <2>9, <2>10, <2>11, <2>12
    DEF Next, Step, Job!JobNext, Job!JobStep
<1> QED
  BY <1>1, <1>2, InductiveInvariant, PTL DEF Spec, ImplementsJob, Job!JobSpec
=============================================================================
