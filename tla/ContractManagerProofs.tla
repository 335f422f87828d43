----------------------- MODULE ContractManagerProofs -----------------------
(***************************************************************************)
(* Theorems about ContractManager, for every number of event types, every  *)
(* chain, batch size, buffer, lag and number of faults.                    *)
(***************************************************************************)
EXTENDS ContractManager, TLAPS

-----------------------------------------------------------------------------
\* TypeOK but for the -1 that a reprocessing request may leave in the cursor and
\* in the checkpoint (module Reprocess): what the steps of the listener need.
LooseTypeOK ==
  /\ ScanTypes
  /\ checkpoint \in Nat \cup {-1}
  /\ lastProcessedBlock \in Nat \cup {-1}

-----------------------------------------------------------------------------
(***************************************************************************)
(* The helpers: what they preserve of the types and of the history.        *)
(***************************************************************************)

LEMMA HistRange ==
  ASSUME LooseTypeOK, HistScanning
  PROVE  /\ HistTo \in Nat /\ HistTo + 1 \in Nat
         /\ hist.cur <= HistTo /\ HistTo <= hist.latest
         /\ hist.type \in Types /\ hist.type + 1 \in TypeIndexes
         /\ {hist.type} \X (hist.cur..HistTo) \in SUBSET Cells
         /\ {hist.type} \X (hist.cur..hist.latest) \in SUBSET Cells
  BY ConstantsAssumption DEF LooseTypeOK, ScanTypes, HistLocals, HistScanning, HistTo, Min2, Types, TypeIndexes, Cells

LEMMA PollRange ==
  ASSUME LooseTypeOK, PollScanning
  PROVE  /\ PollTo \in Nat /\ PollTo + 1 \in Nat /\ poll.latest + 1 \in Nat
         /\ poll.cur <= PollTo /\ PollTo <= poll.latest
         /\ poll.type \in Types
         /\ {poll.type} \X (poll.cur..PollTo) \in SUBSET Cells
  BY ConstantsAssumption DEF LooseTypeOK, ScanTypes, PollLocals, PollScanning, PollTo, Min2, Types, TypeIndexes, Cells

LEMMA ProcessEventsFacts ==
  ASSUME LooseTypeOK, NEW cells \in SUBSET Cells, ProcessEvents(cells)
  PROVE  /\ delivered' \subseteq Cells /\ skipped' \subseteq Cells
         /\ faults' \in 0..MaxFaults
         /\ delivered \subseteq delivered' /\ cells \subseteq delivered'
         /\ delivered \cup skipped \subseteq delivered' \cup skipped'
  BY ConstantsAssumption DEF LooseTypeOK, ScanTypes, ProcessEvents, Fault

LEMMA GiveUpFacts ==
  ASSUME LooseTypeOK, NEW cells \in SUBSET Cells, GiveUp(cells)
  PROVE  /\ delivered' \subseteq Cells /\ skipped' \subseteq Cells
         /\ delivered' = delivered
         /\ cells \subseteq delivered' \cup skipped'
         /\ delivered \cup skipped \subseteq delivered' \cup skipped'
  BY DEF LooseTypeOK, ScanTypes, GiveUp

LEMMA FaultType ==
  ASSUME LooseTypeOK, Fault
  PROVE  faults' \in 0..MaxFaults
  BY ConstantsAssumption DEF LooseTypeOK, ScanTypes, Fault

LEMMA SaveFacts ==
  ASSUME LooseTypeOK, NEW block \in Nat \cup {-1}, SaveLastProcessedBlock(block)
  PROVE  checkpoint' \in {checkpoint, block} /\ checkpoint' \in Nat \cup {-1} /\ faults' \in 0..MaxFaults
  BY FaultType DEF LooseTypeOK, ScanTypes, SaveLastProcessedBlock

-----------------------------------------------------------------------------
(***************************************************************************)
(* Type correctness.  Two facts are needed besides the types for the saves *)
(* to write a block number.                                                *)
(***************************************************************************)

TypeInv ==
  /\ LooseTypeOK
  /\ hist.pc = "jumped" => hist.cur > 0
  /\ poll.pc = "save" => SafeBlock \in Nat

LEMMA InitTypes == Init => TypeInv
<1>1. NoHist \in HistLocals /\ NoPoll \in PollLocals
      /\ NoHist.pc = "idle" /\ NoPoll.pc = "idle"
  BY ConstantsAssumption DEF NoHist, NoPoll, HistLocals, PollLocals, TypeIndexes
<1>2. Init => LooseTypeOK
  <2> SUFFICES ASSUME Init PROVE LooseTypeOK
    OBVIOUS
  <2>1. hist \in HistLocals /\ poll \in PollLocals
    BY <1>1 DEF Init
  <2>2. delivered \subseteq Cells /\ skipped \subseteq Cells
    BY DEF Init
  <2>3. checkpoint \in Nat /\ lastProcessedBlock \in Nat /\ faults \in 0..MaxFaults
    BY ConstantsAssumption DEF Init
  <2>4. isListening \in BOOLEAN /\ isProcessingHistorical \in BOOLEAN /\ head \in Blocks
    BY DEF Init
  <2>5. QED
    BY <2>1, <2>2, <2>3, <2>4 DEF LooseTypeOK, ScanTypes
<1>3. Init => hist.pc = "idle" /\ poll.pc = "idle"
  BY <1>1 DEF Init
<1>4. QED
  BY <1>2, <1>3 DEF TypeInv

LEMMA BootTypes ==
  ASSUME TypeInv, Boot \/ Crash \/ NewBlock
  PROVE  TypeInv'
<1> USE ConstantsAssumption DEF TypeInv
<1>0. NoHist \in HistLocals /\ NoPoll \in PollLocals
      /\ NoHist.pc = "idle" /\ NoPoll.pc = "idle"
  BY DEF NoHist, NoPoll, HistLocals, PollLocals, TypeIndexes
<1>1. CASE Boot
  <2>1. lastProcessedBlock' \in Nat /\ faults' \in 0..MaxFaults
    BY <1>1, FaultType DEF Boot, LooseTypeOK, ScanTypes, Max2
  <2>2. hist' \in HistLocals /\ hist'.pc = "head"
    BY <1>0, <1>1, <2>1 DEF Boot, HistLocals
  <2>3. QED
    BY <1>0, <1>1, <2>1, <2>2 DEF Boot, LooseTypeOK, ScanTypes, history
<1>2. CASE Crash
  BY <1>0, <1>2, FaultType DEF Crash, LooseTypeOK, ScanTypes, history
<1>3. CASE NewBlock
  BY <1>3 DEF NewBlock, LooseTypeOK, ScanTypes, history, Blocks, SafeBlock
<1>4. QED
  BY <1>1, <1>2, <1>3

LEMMA HistoricalTypes ==
  ASSUME TypeInv, Historical
  PROVE  TypeInv'
<1> USE ConstantsAssumption DEF TypeInv
<1>0. hist \in HistLocals /\ poll \in PollLocals
  BY DEF LooseTypeOK, ScanTypes
<1>1. CASE HistHead
  <2>1. PICK h \in ReportedHeads :
          hist' = [hist EXCEPT !.pc = "scan", !.latest = h, !.type = 1, !.cur = hist.start]
    BY <1>1 DEF HistHead
  <2>2. h \in Nat /\ 1 \in TypeIndexes
    BY DEF ReportedHeads, Blocks, TypeIndexes
  <2>3. hist' \in HistLocals /\ hist'.pc = "scan"
    BY <1>0, <2>1, <2>2 DEF HistLocals
  <2>4. QED
    BY <1>1, <2>3 DEF HistHead, LooseTypeOK, ScanTypes, history, SafeBlock
<1>2. CASE HistHeadFails
  <2>1. hist' \in HistLocals /\ hist'.pc = "idle"
    BY <1>0, <1>2 DEF HistHeadFails, ClearFlag, HistLocals
  <2>2. QED
    BY <1>2, <2>1, FaultType DEF HistHeadFails, ClearFlag, LooseTypeOK, ScanTypes, history, SafeBlock
<1>3. CASE HistQuery
  <2>1. hist' \in HistLocals /\ hist'.pc = "scan"
    BY <1>0, <1>3, HistRange DEF HistQuery, HistScanning, HistLocals
  <2>2. QED
    BY <1>3, <2>1, HistRange, ProcessEventsFacts DEF HistQuery, LooseTypeOK, ScanTypes, SafeBlock
<1>4. CASE HistQueryHalf
  <2> DEFINE to == Min2(hist.cur + HistBatch \div 2, hist.latest)
  <2>1. to + 1 \in Nat /\ {hist.type} \X (hist.cur..to) \in SUBSET Cells
    BY <1>0, <1>4, HistRange DEF HistQueryHalf, HistLocals, Cells, Min2
  <2>2. ProcessEvents({hist.type} \X (hist.cur..to)) /\ hist' = [hist EXCEPT !.cur = to + 1]
    BY <1>4 DEF HistQueryHalf
  <2> HIDE DEF to
  <2>3. hist' \in HistLocals /\ hist'.pc = "scan"
    BY <1>0, <1>4, <2>1, <2>2 DEF HistQueryHalf, HistScanning, HistLocals
  <2>4. QED
    BY <1>4, <2>1, <2>2, <2>3, ProcessEventsFacts DEF HistQueryHalf, LooseTypeOK, ScanTypes, SafeBlock
<1>5. CASE HistPruned
  <2>1. hist.pruned + 1 \in {0, 1, 2}
    BY <1>0, <1>5 DEF HistPruned, BelowThirdPruned, HistLocals
  <2>2. hist' \in HistLocals /\ hist'.pc = "scan"
    BY <1>0, <1>5, <2>1, HistRange DEF HistPruned, BelowThirdPruned, HistScanning, HistLocals
  <2>3. QED
    BY <1>5, <2>2, HistRange, GiveUpFacts, FaultType DEF HistPruned, BelowThirdPruned, LooseTypeOK, ScanTypes, SafeBlock
<1>6. CASE HistPrunedJump
  <2> DEFINE cells == ({hist.type} \X (hist.cur..(JumpTarget - 1)))
                      \cup ((hist.type + 1)..NumTypes) \X (hist.start..(JumpTarget - 1))
  <2>1. JumpTarget \in Nat /\ JumpTarget > 0 /\ JumpTarget - 1 \in Nat
    BY <1>0, <1>6, HistRange DEF HistPrunedJump, JumpTarget, HistLocals, Max2
  <2>2. /\ hist' = [hist EXCEPT !.pc = "jumped", !.cur = JumpTarget, !.pruned = 0]
        /\ lastProcessedBlock' = JumpTarget - 1
        /\ GiveUp(cells)
    BY <1>6 DEF HistPrunedJump
  <2>3. cells \in SUBSET Cells
    BY <1>0, <1>6, <2>1, HistRange DEF HistPrunedJump, Cells, HistLocals, Types, TypeIndexes
  <2> HIDE DEF cells
  <2>4. hist' \in HistLocals /\ hist'.pc = "jumped" /\ hist'.cur = JumpTarget
    BY <1>0, <2>1, <2>2 DEF HistLocals
  <2>5. QED
    BY <1>6, <2>1, <2>2, <2>3, <2>4, GiveUpFacts, FaultType DEF HistPrunedJump, LooseTypeOK, ScanTypes, SafeBlock
<1>7. CASE HistSaveJump
  <2>1. hist' \in HistLocals /\ hist'.pc = "scan"
    BY <1>0, <1>7 DEF HistSaveJump, HistLocals
  <2>2. hist.cur - 1 \in Nat
    BY <1>0, <1>7 DEF HistSaveJump, HistLocals
  <2>3. QED
    BY <1>7, <2>1, <2>2, SaveFacts DEF HistSaveJump, LooseTypeOK, ScanTypes, history, SafeBlock
<1>8. CASE HistAbandonType
  <2>1. hist' \in HistLocals /\ hist'.pc = "scan"
    BY <1>0, <1>8, HistRange DEF HistAbandonType, HistScanning, HistLocals
  <2>2. QED
    BY <1>8, <2>1, HistRange, GiveUpFacts, FaultType DEF HistAbandonType, LooseTypeOK, ScanTypes, SafeBlock
<1>9. CASE HistNextType
  <2>1. hist.type + 1 \in TypeIndexes /\ {hist.type} \X (hist.cur..hist.latest) \in SUBSET Cells
    BY <1>0, <1>9 DEF HistNextType, HistLocals, TypeIndexes, Types, Cells
  <2>2. hist' \in HistLocals /\ hist'.pc = "scan"
    BY <1>0, <1>9, <2>1 DEF HistNextType, HistLocals
  <2>3. QED
    BY <1>9, <2>1, <2>2, GiveUpFacts DEF HistNextType, LooseTypeOK, ScanTypes, SafeBlock
<1>10. CASE HistFinish
  <2>1. hist' \in HistLocals /\ hist'.pc \in {"save", "idle"} /\ hist.latest \in Nat
    BY <1>0, <1>10 DEF HistFinish, ClearFlag, HistAdvances, HistLocals
  <2>2. QED
    BY <1>10, <2>1 DEF HistFinish, ClearFlag, HistAdvances, LooseTypeOK, ScanTypes, history, SafeBlock
<1>11. CASE HistSave
  <2>1. hist' \in HistLocals /\ hist'.pc = "idle" /\ hist.latest \in Nat
    BY <1>0, <1>11 DEF HistSave, ClearFlag, HistLocals
  <2>2. QED
    BY <1>11, <2>1, SaveFacts DEF HistSave, ClearFlag, LooseTypeOK, ScanTypes, history, SafeBlock
<1>12. QED
  BY <1>1, <1>2, <1>3, <1>4, <1>5, <1>6, <1>7, <1>8, <1>9, <1>10, <1>11 DEF Historical
LEMMA PollingTypes ==
  ASSUME TypeInv, Polling
  PROVE  TypeInv'
<1> USE ConstantsAssumption DEF TypeInv
<1>0. hist \in HistLocals /\ poll \in PollLocals /\ NoPoll \in PollLocals /\ NoPoll.pc = "idle"
  BY DEF LooseTypeOK, ScanTypes, NoPoll, PollLocals, TypeIndexes
<1>1. CASE PollTick
  <2>1. PICK h \in ReportedHeads :
          poll' = [pc |-> "scan", start |-> lastProcessedBlock + 1, latest |-> h,
                   type |-> 1, cur |-> lastProcessedBlock + 1, failed |-> NoFailure]
    BY <1>1 DEF PollTick, PollMayStart
  <2>2. h \in Nat /\ 1 \in TypeIndexes /\ lastProcessedBlock + 1 \in Nat
    BY DEF ReportedHeads, Blocks, TypeIndexes, LooseTypeOK, ScanTypes
  <2>3. poll' \in PollLocals /\ poll'.pc = "scan"
    BY <2>1, <2>2 DEF PollLocals
  <2>4. QED
    BY <1>1, <2>3 DEF PollTick, PollMayStart, LooseTypeOK, ScanTypes, history
<1>2. CASE PollQuery
  <2>1. poll' \in PollLocals /\ poll'.pc = "scan"
    BY <1>0, <1>2, PollRange DEF PollQuery, PollScanning, PollLocals
  <2>2. QED
    BY <1>2, <2>1, PollRange, ProcessEventsFacts DEF PollQuery, LooseTypeOK, ScanTypes
<1>3. CASE PollQueryFails
  <2> DEFINE failed == IF poll.failed = NoFailure THEN poll.cur ELSE Min2(poll.failed, poll.cur)
  <2>1. PICK next \in {PollTo + 1, poll.latest + 1} :
          poll' = [poll EXCEPT !.cur = next, !.failed = failed]
    BY <1>3 DEF PollQueryFails
  <2>2. next \in Nat /\ failed \in Nat
    BY <1>0, <1>3, <2>1, PollRange DEF PollQueryFails, PollLocals, Min2
  <2> HIDE DEF failed
  <2>3. poll' \in PollLocals /\ poll'.pc = "scan"
    BY <1>0, <1>3, <2>1, <2>2 DEF PollQueryFails, PollScanning, PollLocals
  <2>4. QED
    BY <1>3, <2>3, FaultType DEF PollQueryFails, LooseTypeOK, ScanTypes, history
<1>4. CASE PollNextType
  <2>1. poll.type + 1 \in TypeIndexes
    BY <1>0, <1>4 DEF PollNextType, NextTypeFrom, PollLocals, TypeIndexes
  <2>2. poll' \in PollLocals /\ poll'.pc = "scan"
    BY <1>0, <1>4, <2>1 DEF PollNextType, NextTypeFrom, PollLocals
  <2>3. QED
    BY <1>4, <2>2 DEF PollNextType, NextTypeFrom, LooseTypeOK, ScanTypes, history
<1>5. CASE PollFinish
  <2>1. CASE SafeBlock >= poll.start /\ poll' = [poll EXCEPT !.pc = "save"]
                                     /\ lastProcessedBlock' = SafeBlock
    <3>1. SafeBlock \in Nat
      BY <1>0, <2>1 DEF SafeBlock, PollLocals, NoFailure
    <3>2. poll' \in PollLocals /\ poll'.latest = poll.latest /\ poll'.failed = poll.failed
      BY <1>0, <2>1 DEF PollLocals
    <3>3. SafeBlock' = SafeBlock
      BY <3>2 DEF SafeBlock
    <3>4. QED
      BY <1>5, <2>1, <3>1, <3>2, <3>3 DEF PollFinish, LooseTypeOK, ScanTypes, history
  <2>2. CASE poll' = NoPoll /\ UNCHANGED lastProcessedBlock
    BY <1>0, <1>5, <2>2 DEF PollFinish, LooseTypeOK, ScanTypes, history
  <2>3. QED
    BY <1>5, <2>1, <2>2 DEF PollFinish
<1>6. CASE PollSave
  BY <1>0, <1>6, SaveFacts DEF PollSave, LooseTypeOK, ScanTypes, history
<1>7. QED
  BY <1>1, <1>2, <1>3, <1>4, <1>5, <1>6 DEF Polling

LEMMA Stuttering ==
  ASSUME TypeInv, UNCHANGED vars
  PROVE  TypeInv'
  BY DEF TypeInv, LooseTypeOK, ScanTypes, vars, SafeBlock, Blocks, ReportedHeads

LEMMA TypeInvariant == Spec => []TypeInv
<1>1. TypeInv /\ [Next]_vars => TypeInv'
  BY BootTypes, HistoricalTypes, PollingTypes, Stuttering DEF Next
<1>2. QED
  BY InitTypes, <1>1, PTL DEF Spec

\* The listener by itself puts nothing but block numbers into the two positions.
BlocksInv == checkpoint \in Nat /\ lastProcessedBlock \in Nat

LEMMA BlocksStep ==
  ASSUME TypeInv, BlocksInv, [Next]_vars
  PROVE  BlocksInv'
<1> USE ConstantsAssumption DEF BlocksInv, SaveLastProcessedBlock
<1>0. hist \in HistLocals /\ poll \in PollLocals
  BY DEF TypeInv, LooseTypeOK, ScanTypes
<1>1. CASE Boot
  BY <1>1 DEF Boot, Max2
<1>2. CASE HistPrunedJump
  <2>1. JumpTarget - 1 \in Nat
    BY <1>0, <1>2, HistRange DEF HistPrunedJump, JumpTarget, HistLocals, Max2, TypeInv
  <2> QED
    BY <1>2, <2>1 DEF HistPrunedJump
<1>3. CASE HistSaveJump
  BY <1>0, <1>3 DEF HistSaveJump, HistLocals, TypeInv
<1>4. CASE HistFinish \/ HistSave
  BY <1>0, <1>4 DEF HistFinish, HistSave, HistLocals
<1>5. CASE PollFinish
  BY <1>0, <1>5 DEF PollFinish, SafeBlock, PollLocals, NoFailure
<1>6. CASE PollSave
  BY <1>6 DEF PollSave, TypeInv
<1>7. CASE Crash
  BY <1>7 DEF Crash
<1>8. CASE UNCHANGED <<checkpoint, lastProcessedBlock>>
  BY <1>8
<1>9. NewBlock \/ HistHead \/ HistHeadFails \/ HistQuery \/ HistQueryHalf \/ HistPruned
      \/ HistAbandonType \/ HistNextType \/ PollTick \/ PollQuery \/ PollQueryFails
      \/ PollNextType \/ UNCHANGED vars
      => UNCHANGED <<checkpoint, lastProcessedBlock>>
  BY DEF NewBlock, HistHead, HistHeadFails, HistQuery, HistQueryHalf, HistPruned,
         HistAbandonType, HistNextType, PollTick, PollQuery, PollQueryFails, PollNextType, vars
<1> QED
  BY <1>1, <1>2, <1>3, <1>4, <1>5, <1>6, <1>7, <1>8, <1>9 DEF Next, Historical, Polling

LEMMA BlocksInvariant == Spec => []BlocksInv
<1>1. Init => BlocksInv
  BY DEF Init, BlocksInv
<1>2. QED
  BY TypeInvariant, BlocksStep, <1>1, PTL DEF Spec

\* Every variable keeps its type, and the saves write block numbers
\* (saveLastProcessedBlock, the locals of the two scans).
THEOREM TypeCorrectness == Spec => []TypeOK
<1>1. TypeInv /\ BlocksInv => TypeOK
  BY DEF TypeInv, LooseTypeOK, BlocksInv, TypeOK
<1>2. QED
  BY TypeInvariant, BlocksInvariant, <1>1, PTL

-----------------------------------------------------------------------------
(***************************************************************************)
(* No block is forgotten.  The history only grows, so what a scan promised *)
(* of the cells behind it stays true; each action then has to show what it *)
(* promises of the range it moves over.                                    *)
(***************************************************************************)

HistoryGrows ==
  /\ delivered \subseteq delivered'
  /\ delivered \cup skipped \subseteq delivered' \cup skipped'

LEMMA InitCursorInv == Init => CursorInv
<1>1. NoHist.pc = "idle" /\ NoPoll.pc = "idle"
  BY DEF NoHist, NoPoll
<1>2. Init => ControlInv /\ HistInv /\ PollInv
  BY <1>1 DEF Init, ControlInv, HistInv, PollInv, PollProgress
<1>3. Init => NothingForgotten
  BY ConstantsAssumption DEF Init, NothingForgotten, AccountedUpTo
<1>4. QED
  BY <1>2, <1>3 DEF CursorInv

LEMMA BootCursorInv ==
  ASSUME TypeInv, CursorInv, Boot \/ Crash \/ NewBlock
  PROVE  CursorInv'
<1> USE ConstantsAssumption DEF CursorInv, ControlInv, TypeInv, LooseTypeOK, ScanTypes
<1>0. NoHist.pc = "idle" /\ NoPoll.pc = "idle" /\ NoHist \in HistLocals
  BY DEF NoHist, NoPoll, HistLocals, TypeIndexes
<1>1. CASE Boot
  <2>1. lastProcessedBlock' \in {Max2(checkpoint, StartBlock), StartBlock}
    BY <1>1 DEF Boot
  <2>2. NothingForgotten'
    BY <1>1, <2>1 DEF Boot, NothingForgotten, AccountedUpTo, Max2, history
  <2>3. hist'.pc = "head" /\ hist'.start = lastProcessedBlock'
    BY <1>0, <1>1 DEF Boot, HistLocals
  <2>4. HistInv' /\ PollInv'
    BY <1>0, <1>1, <2>1, <2>3 DEF Boot, HistInv, PollInv, PollProgress, Max2
  <2>5. QED
    BY <1>0, <1>1, <2>2, <2>3, <2>4 DEF Boot
<1>2. CASE Crash
  <2>1. NothingForgotten'
    BY <1>2 DEF Crash, NothingForgotten, AccountedUpTo, history
  <2>2. HistInv' /\ PollInv'
    BY <1>0, <1>2 DEF Crash, HistInv, PollInv, PollProgress
  <2>3. QED
    BY <1>0, <1>2, <2>1, <2>2 DEF Crash
<1>3. CASE NewBlock
  BY <1>3 DEF NewBlock, HistInv, PollInv, PollProgress, NothingForgotten, AccountedUpTo, ScannedUpTo,
              PolledUpTo, SafeBlock, history
<1>4. QED
  BY <1>1, <1>2, <1>3

\* A step of the historical scan in mid-range leaves the poll idle and the
\* checkpoint alone; what remains is its own position.
LEMMA HistScanStep ==
  ASSUME TypeInv, CursorInv, hist.pc = "scan", HistoryGrows,
         hist' \in HistLocals, hist'.start = hist.start, hist'.latest = hist.latest,
         hist'.pc = "scan",
         lastProcessedBlock' = lastProcessedBlock, checkpoint' \in {checkpoint, lastProcessedBlock},
         UNCHANGED <<isListening, isProcessingHistorical, poll>>,
         hist.start <= hist'.cur,
         \A t \in Types : t < hist'.type =>
            \A b \in (StartBlock + 1)..hist.latest : <<t, b>> \in delivered' \cup skipped',
         hist'.type \in Types =>
            \A b \in (StartBlock + 1)..(hist'.cur - 1) : <<hist'.type, b>> \in delivered' \cup skipped'
  PROVE  CursorInv'
<1> USE ConstantsAssumption DEF CursorInv, ControlInv, TypeInv, LooseTypeOK, ScanTypes
<1>1. isListening /\ poll.pc = "idle"
  OBVIOUS
<1>2. NothingForgotten'
  BY <1>1 DEF NothingForgotten, AccountedUpTo, HistoryGrows
<1>3. HistInv'
  BY <1>1 DEF HistInv, ScannedUpTo
<1>4. PollInv'
  BY <1>1 DEF PollInv, PollProgress
<1>5. QED
  BY <1>1, <1>2, <1>3, <1>4

LEMMA HistoricalCursorInv ==
  ASSUME TypeInv, TypeInv', CursorInv, Historical
  PROVE  CursorInv'
<1> USE ConstantsAssumption DEF TypeInv, LooseTypeOK, ScanTypes
<1>0. hist \in HistLocals /\ hist' \in HistLocals /\ ControlInv /\ HistInv /\ PollInv
      /\ NothingForgotten
  BY DEF CursorInv
<1>1. CASE HistHead
  <2>1. PICK h \in ReportedHeads :
          hist' = [hist EXCEPT !.pc = "scan", !.latest = h, !.type = 1, !.cur = hist.start]
    BY <1>1 DEF HistHead
  <2>2. hist'.pc = "scan" /\ hist'.start = hist.start /\ hist'.type = 1 /\ hist'.cur = hist.start
    BY <1>0, <2>1 DEF HistLocals
  <2>3. isListening /\ poll.pc = "idle" /\ isProcessingHistorical
    BY <1>0, <1>1 DEF HistHead, ControlInv
  <2>4. HistInv'
    <3>1. \A b \in (StartBlock + 1)..(hist.start - 1) : <<1, b>> \in delivered \cup skipped
      BY <1>0, <2>3 DEF HistInv, NothingForgotten, AccountedUpTo, HistLocals, Types
    <3>2. QED
      BY <1>0, <1>1, <2>2, <2>3, <3>1 DEF HistHead, HistInv, ScannedUpTo, Types, HistLocals, history
  <2>5. QED
    BY <1>0, <1>1, <2>2, <2>3, <2>4
       DEF HistHead, CursorInv, ControlInv, PollInv, PollProgress, NothingForgotten, AccountedUpTo, history
<1>2. CASE HistHeadFails
  <2>1. hist'.pc = "idle" /\ hist'.start = hist.start
    BY <1>0, <1>2 DEF HistHeadFails, ClearFlag, HistLocals
  <2>2. QED
    BY <1>0, <1>2, <2>1 DEF HistHeadFails, ClearFlag, CursorInv, ControlInv, HistInv, PollInv, PollProgress,
                            NothingForgotten, AccountedUpTo, history
<1>3. CASE HistQuery
  <2>1. hist.pc = "scan" /\ hist'.pc = "scan" /\ hist'.start = hist.start
        /\ hist'.latest = hist.latest /\ hist'.type = hist.type /\ hist'.cur = HistTo + 1
    BY <1>0, <1>3 DEF HistQuery, HistScanning, HistLocals
  <2>2. HistoryGrows /\ {hist.type} \X (hist.cur..HistTo) \subseteq delivered'
    BY <1>3, HistRange, ProcessEventsFacts DEF HistQuery, HistoryGrows
  <2>3. \A b \in (StartBlock + 1)..HistTo : <<hist.type, b>> \in delivered' \cup skipped'
    BY <1>0, <1>3, <2>1, <2>2, HistRange DEF HistQuery, HistInv, ScannedUpTo, HistoryGrows, HistLocals
  <2>4. \A t \in Types : t < hist.type =>
          \A b \in (StartBlock + 1)..hist.latest : <<t, b>> \in delivered' \cup skipped'
    BY <1>0, <2>1, <2>2 DEF HistInv, ScannedUpTo, HistoryGrows
  <2>5. hist.start <= HistTo + 1
    BY <1>0, <1>3, <2>1, HistRange DEF HistQuery, HistInv, HistLocals
  <2>6. QED
    BY <1>0, <1>3, <2>1, <2>2, <2>3, <2>4, <2>5, HistRange, HistScanStep DEF HistQuery
<1>4. CASE HistQueryHalf
  <2> DEFINE to == Min2(hist.cur + HistBatch \div 2, hist.latest)
  <2>1. to \in Nat /\ hist.cur <= to /\ {hist.type} \X (hist.cur..to) \in SUBSET Cells
    BY <1>0, <1>4, HistRange DEF HistQueryHalf, HistScanning, HistLocals, Cells, Min2
  <2>2. ProcessEvents({hist.type} \X (hist.cur..to)) /\ hist' = [hist EXCEPT !.cur = to + 1]
    BY <1>4 DEF HistQueryHalf
  <2> HIDE DEF to
  <2>3. hist.pc = "scan" /\ hist'.pc = "scan" /\ hist'.start = hist.start
        /\ hist'.latest = hist.latest /\ hist'.type = hist.type /\ hist'.cur = to + 1
    BY <1>0, <1>4, <2>2 DEF HistQueryHalf, HistScanning, HistLocals
  <2>4. HistoryGrows /\ {hist.type} \X (hist.cur..to) \subseteq delivered'
    BY <2>1, <2>2, ProcessEventsFacts DEF HistoryGrows
  <2>5. \A b \in (StartBlock + 1)..to : <<hist.type, b>> \in delivered' \cup skipped'
    BY <1>0, <1>4, <2>1, <2>3, <2>4, HistRange
       DEF HistQueryHalf, HistInv, ScannedUpTo, HistoryGrows, HistLocals
  <2>6. \A t \in Types : t < hist.type =>
          \A b \in (StartBlock + 1)..hist.latest : <<t, b>> \in delivered' \cup skipped'
    BY <1>0, <2>3, <2>4 DEF HistInv, ScannedUpTo, HistoryGrows
  <2>7. hist.start <= to + 1
    BY <1>0, <2>1, <2>3 DEF HistInv, HistLocals
  <2>8. QED
    BY <1>0, <1>4, <2>1, <2>3, <2>4, <2>5, <2>6, <2>7, HistScanStep DEF HistQueryHalf
<1>5. CASE HistPruned
  <2>1. hist.pc = "scan" /\ hist'.pc = "scan" /\ hist'.start = hist.start
        /\ hist'.latest = hist.latest /\ hist'.type = hist.type /\ hist'.cur = HistTo + 1
    BY <1>0, <1>5 DEF HistPruned, BelowThirdPruned, HistScanning, HistLocals
  <2>2. HistoryGrows /\ {hist.type} \X (hist.cur..HistTo) \subseteq delivered' \cup skipped'
    BY <1>5, HistRange, GiveUpFacts DEF HistPruned, BelowThirdPruned, HistoryGrows
  <2>3. \A b \in (StartBlock + 1)..HistTo : <<hist.type, b>> \in delivered' \cup skipped'
    BY <1>0, <1>5, <2>1, <2>2, HistRange DEF HistPruned, BelowThirdPruned, HistInv, ScannedUpTo, HistoryGrows, HistLocals
  <2>4. \A t \in Types : t < hist.type =>
          \A b \in (StartBlock + 1)..hist.latest : <<t, b>> \in delivered' \cup skipped'
    BY <1>0, <2>1, <2>2 DEF HistInv, ScannedUpTo, HistoryGrows
  <2>5. hist.start <= HistTo + 1
    BY <1>0, <1>5, <2>1, HistRange DEF HistPruned, BelowThirdPruned, HistInv, HistLocals
  <2>6. QED
    BY <1>0, <1>5, <2>1, <2>2, <2>3, <2>4, <2>5, HistRange, HistScanStep DEF HistPruned, BelowThirdPruned
<1>6. CASE HistPrunedJump
  <2> DEFINE cells == ({hist.type} \X (hist.cur..(JumpTarget - 1)))
                      \cup ((hist.type + 1)..NumTypes) \X (hist.start..(JumpTarget - 1))
  <2>1. JumpTarget \in Nat /\ HistTo < JumpTarget /\ JumpTarget - 1 <= hist.latest
    BY <1>0, <1>6, HistRange DEF HistPrunedJump, JumpTarget, HistLocals, Max2
  <2>2. /\ hist' = [hist EXCEPT !.pc = "jumped", !.cur = JumpTarget, !.pruned = 0]
        /\ lastProcessedBlock' = JumpTarget - 1
        /\ GiveUp(cells)
    BY <1>6 DEF HistPrunedJump
  <2>3. cells \in SUBSET Cells
    BY <1>0, <1>6, <2>1, HistRange DEF HistPrunedJump, Cells, HistLocals, Types, TypeIndexes
  <2>4. HistoryGrows /\ cells \subseteq delivered' \cup skipped'
    BY <2>2, <2>3, GiveUpFacts DEF HistoryGrows
  <2>5. hist.pc = "scan" /\ hist'.pc = "jumped" /\ hist'.start = hist.start
        /\ hist'.latest = hist.latest /\ hist'.type = hist.type /\ hist'.cur = JumpTarget
    BY <1>0, <1>6, <2>2 DEF HistPrunedJump, HistScanning, HistLocals
  <2>6. isListening /\ poll.pc = "idle" /\ isProcessingHistorical /\ hist.start <= hist.cur
    BY <1>0, <2>5 DEF ControlInv, HistInv
  <2>7. \A t \in Types : t < hist.type =>
          \A b \in (StartBlock + 1)..hist.latest : <<t, b>> \in delivered' \cup skipped'
    BY <1>0, <2>4, <2>5 DEF HistInv, ScannedUpTo, HistoryGrows
  <2>8. \A b \in (StartBlock + 1)..(JumpTarget - 1) : <<hist.type, b>> \in delivered' \cup skipped'
    BY <1>0, <1>6, <2>1, <2>4, <2>5, HistRange DEF HistPrunedJump, HistInv, ScannedUpTo, HistoryGrows, HistLocals
  <2>9. \A t \in Types : t > hist.type =>
          \A b \in (StartBlock + 1)..(JumpTarget - 1) : <<t, b>> \in delivered' \cup skipped'
    <3>1. ASSUME NEW t \in Types, t > hist.type, NEW b \in (StartBlock + 1)..(JumpTarget - 1)
          PROVE  <<t, b>> \in delivered' \cup skipped'
      <4>1. CASE b < hist.start
        BY <1>0, <2>4, <2>6, <3>1, <4>1
           DEF HistInv, NothingForgotten, AccountedUpTo, HistoryGrows, HistLocals
      <4>2. CASE b >= hist.start
        BY <1>0, <1>6, <2>1, <2>4, <3>1, <4>2, HistRange DEF HistPrunedJump, HistLocals, Types
      <4>3. QED
        BY <1>0, <3>1, <4>1, <4>2, <2>1 DEF HistLocals
    <3>2. QED
      BY <3>1
  <2>10. \A t \in Types : \A b \in (StartBlock + 1)..(JumpTarget - 1) :
           <<t, b>> \in delivered' \cup skipped'
    <3>1. hist.type \in Types /\ hist.latest \in Nat
      BY <1>0, <1>6, HistRange DEF HistPrunedJump, HistLocals
    <3>2. \A t \in Types : t < hist.type \/ t = hist.type \/ t > hist.type
      BY <3>1 DEF Types
    <3>3. (StartBlock + 1)..(JumpTarget - 1) \subseteq (StartBlock + 1)..hist.latest
      BY <2>1, <3>1
    <3>4. QED
      BY <2>7, <2>8, <2>9, <3>2, <3>3
  <2> HIDE DEF cells
  <2>11. NothingForgotten'
    BY <1>0, <1>6, <2>2, <2>4, <2>10
       DEF HistPrunedJump, NothingForgotten, AccountedUpTo, HistoryGrows
  <2>12. HistInv'
    BY <1>0, <1>6, <2>1, <2>2, <2>5, <2>6, <2>7, <2>8, HistRange
       DEF HistPrunedJump, HistInv, ScannedUpTo, HistLocals
  <2>13. QED
    BY <1>6, <2>5, <2>6, <2>11, <2>12 DEF HistPrunedJump, CursorInv, ControlInv, PollInv, PollProgress
<1>7. CASE HistSaveJump
  <2>1. hist'.pc = "scan" /\ hist'.start = hist.start
        /\ hist'.latest = hist.latest /\ hist'.type = hist.type /\ hist'.cur = hist.cur
    BY <1>0, <1>7 DEF HistSaveJump, HistLocals
  <2>2. isListening /\ poll.pc = "idle" /\ isProcessingHistorical
        /\ lastProcessedBlock = hist.cur - 1 /\ checkpoint' \in {checkpoint, lastProcessedBlock}
    BY <1>0, <1>7 DEF HistSaveJump, ControlInv, HistInv, SaveLastProcessedBlock
  <2>3. NothingForgotten'
    BY <1>0, <1>7, <2>2 DEF HistSaveJump, NothingForgotten, AccountedUpTo, history
  <2>4. HistInv'
    BY <1>0, <1>7, <2>1, <2>2 DEF HistSaveJump, HistInv, ScannedUpTo, history
  <2>5. QED
    BY <1>7, <2>1, <2>2, <2>3, <2>4 DEF HistSaveJump, CursorInv, ControlInv, PollInv, PollProgress
<1>8. CASE HistAbandonType \/ HistNextType
  <2>1. hist.pc = "scan" /\ hist'.pc = "scan" /\ hist'.start = hist.start
        /\ hist'.latest = hist.latest /\ hist'.type = hist.type + 1 /\ hist'.cur = hist.start
        /\ hist.type \in Types
    <3>1. hist.pc = "scan" /\ hist.type <= NumTypes
          /\ hist' = [hist EXCEPT !.type = hist.type + 1, !.cur = hist.start, !.pruned = 0]
      BY <1>8 DEF HistAbandonType, HistNextType, HistScanning
    <3>2. hist.type \in Types
      BY <1>0, <3>1 DEF HistLocals, Types, TypeIndexes
    <3>3. QED
      BY <1>0, <3>1, <3>2 DEF HistLocals
  <2>2. {hist.type} \X (hist.cur..hist.latest) \in SUBSET Cells
    BY <1>0, <2>1 DEF HistLocals, Cells
  <2>3. HistoryGrows /\ {hist.type} \X (hist.cur..hist.latest) \subseteq delivered' \cup skipped'
    BY <1>8, <2>2, GiveUpFacts DEF HistAbandonType, HistNextType, HistoryGrows
  <2>4. \A t \in Types : t < hist.type + 1 =>
          \A b \in (StartBlock + 1)..hist.latest : <<t, b>> \in delivered' \cup skipped'
    <3>1. \A b \in (StartBlock + 1)..hist.latest : <<hist.type, b>> \in delivered' \cup skipped'
      BY <1>0, <2>1, <2>3 DEF HistInv, ScannedUpTo, HistoryGrows, HistLocals
    <3>2. QED
      BY <1>0, <2>1, <2>3, <3>1 DEF HistInv, ScannedUpTo, HistoryGrows, Types
  <2>5. \A t \in Types : \A b \in (StartBlock + 1)..(hist.start - 1) :
          <<t, b>> \in delivered' \cup skipped'
    <3>1. hist.start <= lastProcessedBlock /\ AccountedUpTo(lastProcessedBlock)
      BY <1>0, <2>1 DEF ControlInv, HistInv, NothingForgotten
    <3>2. (StartBlock + 1)..(hist.start - 1) \subseteq (StartBlock + 1)..lastProcessedBlock
      BY <1>0, <3>1 DEF HistLocals
    <3>3. QED
      BY <2>3, <3>1, <3>2 DEF AccountedUpTo, HistoryGrows
  <2>6. QED
    BY <1>0, <1>8, <2>1, <2>3, <2>4, <2>5, HistScanStep DEF HistAbandonType, HistNextType, HistLocals
<1>9. CASE HistFinish
  <2>1. hist.pc = "scan" /\ hist.type = NumTypes + 1 /\ isListening /\ poll.pc = "idle"
        /\ isProcessingHistorical
    BY <1>0, <1>9 DEF HistFinish, ClearFlag, HistAdvances, HistLocals, TypeIndexes, ControlInv
  <2>2. AccountedUpTo(hist.latest)
    <3>1. \A t \in Types : t < hist.type
      BY <2>1 DEF Types
    <3>2. QED
      BY <1>0, <2>1, <3>1 DEF HistInv, ScannedUpTo, AccountedUpTo
  <2>3. hist'.pc \in {"save", "idle"} /\ hist'.start = hist.start /\ hist'.latest = hist.latest
        /\ (hist'.pc = "save" => lastProcessedBlock' = hist.latest)
        /\ (isProcessingHistorical' <=> hist'.pc # "idle")
        /\ lastProcessedBlock' \in {lastProcessedBlock, hist.latest}
        /\ lastProcessedBlock <= lastProcessedBlock'
    <3>1. hist.latest \in Nat
      BY <1>0 DEF HistLocals
    <3>2. CASE lastProcessedBlock' = hist.latest /\ hist' = [hist EXCEPT !.pc = "save"]
               /\ hist.latest > lastProcessedBlock /\ UNCHANGED isProcessingHistorical
      <4>1. hist'.pc = "save" /\ hist'.start = hist.start /\ hist'.latest = hist.latest
        BY <1>0, <3>2 DEF HistLocals
      <4>2. QED
        BY <2>1, <3>1, <3>2, <4>1
    <3>3. CASE hist' = [hist EXCEPT !.pc = "idle"] /\ isProcessingHistorical' = FALSE
               /\ UNCHANGED lastProcessedBlock
      <4>1. hist'.pc = "idle" /\ hist'.start = hist.start /\ hist'.latest = hist.latest
        BY <1>0, <3>3 DEF HistLocals
      <4>2. QED
        BY <3>3, <4>1
    <3>4. QED
      BY <1>9, <3>2, <3>3 DEF HistFinish, ClearFlag, HistAdvances
  <2>4. NothingForgotten'
    BY <1>0, <1>9, <2>2, <2>3 DEF HistFinish, ClearFlag, HistAdvances, NothingForgotten, AccountedUpTo, history
  <2>5. HistInv'
    BY <1>0, <1>9, <2>1, <2>3 DEF HistFinish, ClearFlag, HistAdvances, HistInv, HistLocals
  <2>6. QED
    BY <1>9, <2>1, <2>3, <2>4, <2>5 DEF HistFinish, ClearFlag, HistAdvances, CursorInv, ControlInv, PollInv, PollProgress
<1>10. CASE HistSave
  <2>1. hist'.pc = "idle" /\ hist'.start = hist.start
    BY <1>0, <1>10 DEF HistSave, ClearFlag, HistLocals
  <2>2. isListening /\ poll.pc = "idle" /\ checkpoint' \in {checkpoint, lastProcessedBlock}
    BY <1>0, <1>10 DEF HistSave, ClearFlag, ControlInv, HistInv, SaveLastProcessedBlock
  <2>3. NothingForgotten'
    BY <1>0, <1>10, <2>2 DEF HistSave, ClearFlag, NothingForgotten, AccountedUpTo, history
  <2>4. QED
    BY <1>0, <1>10, <2>1, <2>2, <2>3 DEF HistSave, ClearFlag, CursorInv, ControlInv, HistInv, PollInv, PollProgress
<1>11. QED
  BY <1>1, <1>2, <1>3, <1>4, <1>5, <1>6, <1>7, <1>8, <1>9, <1>10 DEF Historical

\* A step of the poll in mid-range: the cursor and the checkpoint stay, and
\* the poll keeps what it promises of the blocks behind its position.
LEMMA ScanningProgress ==
  ASSUME poll'.start = poll.start, poll'.latest = poll.latest, poll.start <= poll'.cur,
         poll'.failed # NoFailure => poll.start <= poll'.failed /\ poll'.failed <= poll.latest,
         \A t \in Types : t < poll'.type => PolledUpTo(t, poll.latest)',
         poll'.type \in Types => PolledUpTo(poll.type, poll.cur - 1)'
  PROVE  PollProgress'
  BY DEF PollProgress

\* Each step of a poll keeps what the poll says of the blocks behind it.
LEMMA PollingProgress ==
  ASSUME TypeInv, TypeInv', PollProgress, Polling
  PROVE  PollProgress' /\ HistoryGrows
<1> USE ConstantsAssumption DEF TypeInv, LooseTypeOK, ScanTypes
<1>0. poll \in PollLocals /\ poll' \in PollLocals
  OBVIOUS
<1>1. CASE PollTick
  <2>1. PICK h \in ReportedHeads :
          poll' = [pc |-> "scan", start |-> lastProcessedBlock + 1, latest |-> h,
                   type |-> 1, cur |-> lastProcessedBlock + 1, failed |-> NoFailure]
    BY <1>1 DEF PollTick, PollMayStart
  <2>2. poll'.start = lastProcessedBlock + 1 /\ poll'.type = 1
        /\ poll'.cur = lastProcessedBlock + 1 /\ poll'.failed = NoFailure
    BY <2>1
  <2>3. HistoryGrows
    BY <1>1 DEF PollTick, PollMayStart, HistoryGrows, history
  <2>4. QED
    BY <2>2, <2>3 DEF PollProgress, PolledUpTo, Types
<1>2. CASE PollQuery
  <2>1. poll.pc = "scan" /\ poll'.pc = "scan" /\ poll'.start = poll.start
        /\ poll'.latest = poll.latest /\ poll'.type = poll.type /\ poll'.cur = PollTo + 1
        /\ poll'.failed = poll.failed
    BY <1>0, <1>2 DEF PollQuery, PollScanning, PollLocals
  <2>2. HistoryGrows /\ {poll.type} \X (poll.cur..PollTo) \subseteq delivered'
    BY <1>2, PollRange, ProcessEventsFacts DEF PollQuery, HistoryGrows
  <2>3. PolledUpTo(poll.type, poll.cur - 1)'
    BY <1>0, <1>2, <2>1, <2>2, PollRange DEF PollQuery, PollProgress, PolledUpTo, HistoryGrows, PollLocals
  <2>4. \A t \in Types : t < poll'.type => PolledUpTo(t, poll.latest)'
    BY <1>0, <2>1, <2>2 DEF PollProgress, PolledUpTo, HistoryGrows
  <2>5. poll.start <= PollTo + 1
    BY <1>0, <1>2, <2>1, PollRange DEF PollQuery, PollProgress, PollLocals
  <2>6. poll'.failed # NoFailure => poll.start <= poll'.failed /\ poll'.failed <= poll.latest
    BY <1>0, <2>1 DEF PollProgress
  <2>7. QED
    BY <2>1, <2>2, <2>3, <2>4, <2>5, <2>6, ScanningProgress
<1>3. CASE PollQueryFails
  <2> DEFINE failed == IF poll.failed = NoFailure THEN poll.cur ELSE Min2(poll.failed, poll.cur)
  <2>1. PICK next \in {PollTo + 1, poll.latest + 1} :
          poll' = [poll EXCEPT !.cur = next, !.failed = failed]
    BY <1>3 DEF PollQueryFails
  <2>2. failed \in Nat /\ failed <= poll.cur /\ poll.start <= failed /\ failed <= poll.latest
        /\ (poll.failed = NoFailure \/ failed <= poll.failed)
    BY <1>0, <1>3, PollRange DEF PollQueryFails, PollScanning, PollProgress, PollLocals, Min2, NoFailure
  <2>3. next \in Nat /\ poll.cur <= next
    BY <1>0, <1>3, PollRange DEF PollQueryFails, PollLocals
  <2> HIDE DEF failed
  <2>4. poll.pc = "scan" /\ poll'.pc = "scan" /\ poll'.start = poll.start
        /\ poll'.latest = poll.latest /\ poll'.type = poll.type /\ poll'.cur = next
        /\ poll'.failed = failed /\ failed # NoFailure
    <3>1. poll.pc = "scan"
      BY <1>3 DEF PollQueryFails, PollScanning
    <3>2. failed # NoFailure
      BY <2>2 DEF NoFailure
    <3>3. QED
      BY <1>0, <2>1, <3>1, <3>2 DEF PollLocals
  <2>5. HistoryGrows
    BY <1>3 DEF PollQueryFails, HistoryGrows, history
  <2>6. PolledUpTo(poll.type, poll.cur - 1)'
    <3> SUFFICES ASSUME poll.type \in Types, NEW b \in poll.start..(next - 1), b < failed
                 PROVE  <<poll.type, b>> \in delivered'
      BY <1>0, <2>4, <1>3, PollRange DEF PolledUpTo, PollQueryFails
    <3>1. b \in poll.start..(poll.cur - 1) /\ (poll.failed = NoFailure \/ b < poll.failed)
      BY <1>0, <2>2, <2>3 DEF PollLocals
    <3>2. QED
      BY <1>0, <2>4, <2>5, <3>1 DEF PollProgress, PolledUpTo, HistoryGrows
  <2>7. \A t \in Types : t < poll'.type => PolledUpTo(t, poll.latest)'
    <3> SUFFICES ASSUME NEW t \in Types, t < poll.type,
                        NEW b \in poll.start..poll.latest, b < failed
                 PROVE  <<t, b>> \in delivered'
      BY <2>4 DEF PolledUpTo
    <3>1. poll.failed = NoFailure \/ b < poll.failed
      BY <1>0, <2>2 DEF PollLocals
    <3>2. QED
      BY <1>0, <2>4, <2>5, <3>1 DEF PollProgress, PolledUpTo, HistoryGrows
  <2>8. poll.start <= next
    BY <1>0, <2>3, <2>4 DEF PollProgress, PollLocals
  <2>9. QED
    BY <2>2, <2>4, <2>5, <2>6, <2>7, <2>8, ScanningProgress
<1>4. CASE PollNextType
  <2>1. poll.pc = "scan" /\ poll'.pc = "scan" /\ poll'.start = poll.start
        /\ poll'.latest = poll.latest /\ poll'.type = poll.type + 1 /\ poll'.cur = poll.start
        /\ poll'.failed = poll.failed /\ poll.cur > poll.latest
    BY <1>0, <1>4 DEF PollNextType, NextTypeFrom, PollLocals
  <2>2. poll.type \in Types
    BY <1>0, <1>4 DEF PollNextType, NextTypeFrom, PollLocals, TypeIndexes, Types
  <2>3. HistoryGrows /\ UNCHANGED delivered
    BY <1>4 DEF PollNextType, NextTypeFrom, HistoryGrows, history
  <2>4. PolledUpTo(poll.type, poll.latest)
    BY <1>0, <2>1, <2>2 DEF PollProgress, PolledUpTo, PollLocals
  <2>5. \A t \in Types : t < poll'.type => PolledUpTo(t, poll.latest)'
    <3>1. \A t \in Types : t < poll.type + 1 => t < poll.type \/ t = poll.type
      BY <2>2 DEF Types
    <3>2. QED
      BY <1>0, <2>1, <2>3, <2>4, <3>1 DEF PollProgress, PolledUpTo
  <2>6. PolledUpTo(poll.type, poll.cur - 1)'
    BY <1>0, <2>1 DEF PolledUpTo, PollLocals
  <2>7. poll.start <= poll'.cur
        /\ (poll'.failed # NoFailure => poll.start <= poll'.failed /\ poll'.failed <= poll.latest)
    BY <1>0, <2>1 DEF PollProgress, PollLocals
  <2>8. QED
    BY <2>1, <2>3, <2>5, <2>6, <2>7, ScanningProgress
<1>5. CASE PollFinish \/ PollSave
  <2>1. poll'.pc # "scan"
    BY <1>0, <1>5 DEF PollFinish, PollSave, NoPoll, PollLocals
  <2>2. HistoryGrows
    BY <1>5 DEF PollFinish, PollSave, HistoryGrows, history
  <2>3. QED
    BY <2>1, <2>2 DEF PollProgress
<1>6. QED
  BY <1>1, <1>2, <1>3, <1>4, <1>5 DEF Polling

\* The cursor and the checkpoint stay where they are while a poll scans.
LEMMA PollScanStep ==
  ASSUME TypeInv, CursorInv, poll.pc = "scan", HistoryGrows, PollProgress',
         poll'.pc = "scan", poll'.start = poll.start,
         UNCHANGED <<lastProcessedBlock, checkpoint, isListening, isProcessingHistorical, hist>>
  PROVE  CursorInv'
<1> USE ConstantsAssumption DEF CursorInv, ControlInv, TypeInv, LooseTypeOK, ScanTypes
<1>1. isListening /\ hist.pc = "idle"
  OBVIOUS
<1>2. NothingForgotten'
  BY <1>1 DEF NothingForgotten, AccountedUpTo, HistoryGrows
<1>3. HistInv'
  BY <1>1 DEF HistInv
<1>4. PollInv'
  BY <1>1 DEF PollInv
<1>5. QED
  BY <1>1, <1>2, <1>3, <1>4

\* What a poll with all event types behind it has handed over.
LEMMA PollCompletes ==
  ASSUME TypeInv, PollProgress, poll.pc = "scan", poll.type > NumTypes
  PROVE  /\ \A t \in Types : \A b \in poll.start..SafeBlock : <<t, b>> \in delivered
         /\ SafeBlock \in Int
<1>0. poll \in PollLocals
  BY DEF TypeInv, LooseTypeOK, ScanTypes
<1>1. \A t \in Types : t < poll.type
  BY <1>0, ConstantsAssumption DEF Types, PollLocals, TypeIndexes
<1>2. SafeBlock \in Int /\ SafeBlock <= poll.latest
      /\ (poll.failed = NoFailure \/ SafeBlock < poll.failed)
  BY <1>0 DEF SafeBlock, PollProgress, PollLocals, NoFailure
<1>3. ASSUME NEW t \in Types, NEW b \in poll.start..SafeBlock
      PROVE  <<t, b>> \in delivered
  <2>1. PolledUpTo(t, poll.latest)
    BY <1>1 DEF PollProgress
  <2>2. b \in poll.start..poll.latest /\ (poll.failed = NoFailure \/ b < poll.failed)
    BY <1>0, <1>2, <1>3 DEF PollLocals
  <2>3. QED
    BY <2>1, <2>2 DEF PolledUpTo
<1>4. QED
  BY <1>2, <1>3

LEMMA PollDone ==
  ASSUME TypeInv, CursorInv, poll.pc = "scan", poll.type > NumTypes
  PROVE  /\ \A t \in Types : \A b \in poll.start..SafeBlock : <<t, b>> \in delivered
         /\ poll.start = lastProcessedBlock + 1
         /\ SafeBlock \in Int /\ AccountedUpTo(SafeBlock)
<1> USE DEF TypeInv, LooseTypeOK, ScanTypes
<1>0. poll \in PollLocals /\ PollInv /\ ControlInv /\ NothingForgotten
  BY DEF CursorInv
<1>1. /\ \A t \in Types : \A b \in poll.start..SafeBlock : <<t, b>> \in delivered
      /\ SafeBlock \in Int
  BY <1>0, PollCompletes DEF PollInv
<1>2. poll.start = lastProcessedBlock + 1 /\ AccountedUpTo(lastProcessedBlock)
  BY <1>0 DEF PollInv, ControlInv, NothingForgotten
<1>3. AccountedUpTo(SafeBlock)
  <2> SUFFICES ASSUME NEW t \in Types, NEW b \in (StartBlock + 1)..SafeBlock
               PROVE  <<t, b>> \in delivered \cup skipped
    BY DEF AccountedUpTo
  <2>1. CASE b <= lastProcessedBlock
    BY <1>1, <1>2, <2>1, ConstantsAssumption DEF AccountedUpTo
  <2>2. CASE b >= poll.start
    BY <1>0, <1>1, <2>2, ConstantsAssumption DEF PollLocals
  <2>3. QED
    BY <1>0, <1>1, <1>2, <2>1, <2>2, ConstantsAssumption DEF PollLocals
<1>4. QED
  BY <1>1, <1>2, <1>3

LEMMA PollingCursorInv ==
  ASSUME TypeInv, TypeInv', CursorInv, Polling
  PROVE  CursorInv'
<1> USE ConstantsAssumption DEF TypeInv, LooseTypeOK, ScanTypes
<1>0. poll \in PollLocals /\ poll' \in PollLocals /\ ControlInv /\ HistInv /\ PollInv
      /\ NothingForgotten
  BY DEF CursorInv
<1>1. CASE PollTick
  <2>1. PICK h \in ReportedHeads :
          /\ lastProcessedBlock < h
          /\ poll' = [pc |-> "scan", start |-> lastProcessedBlock + 1, latest |-> h,
                      type |-> 1, cur |-> lastProcessedBlock + 1, failed |-> NoFailure]
    BY <1>1 DEF PollTick, PollMayStart
  <2>2. poll'.pc = "scan" /\ poll'.start = lastProcessedBlock + 1 /\ poll'.type = 1
        /\ poll'.cur = lastProcessedBlock + 1 /\ poll'.failed = NoFailure
    BY <2>1
  <2>3. hist.pc = "idle" /\ isListening
    BY <1>0, <1>1 DEF PollTick, PollMayStart, ControlInv
  <2>4. PollInv'
    BY <1>1, <2>2 DEF PollTick, PollMayStart, PollInv, PollProgress, PolledUpTo, Types
  <2>5. QED
    BY <1>0, <1>1, <2>2, <2>3, <2>4
       DEF PollTick, PollMayStart, CursorInv, ControlInv, HistInv, NothingForgotten, AccountedUpTo, history
<1>2. CASE PollQuery \/ PollQueryFails \/ PollNextType
  <2>1. PollProgress' /\ HistoryGrows
    BY PollingProgress DEF CursorInv, PollInv
  <2>2. poll.pc = "scan" /\ poll'.pc = "scan" /\ poll'.start = poll.start
    BY <1>0, <1>2 DEF PollQuery, PollQueryFails, PollNextType, PollScanning, PollLocals
  <2>3. UNCHANGED <<lastProcessedBlock, checkpoint, isListening, isProcessingHistorical, hist>>
    BY <1>2 DEF PollQuery, PollQueryFails, PollNextType
  <2>4. QED
    BY <2>1, <2>2, <2>3, PollScanStep
<1>3. CASE PollFinish
  <2>1. poll.pc = "scan" /\ poll.type > NumTypes /\ hist.pc = "idle" /\ isListening
        /\ ~isProcessingHistorical
    BY <1>0, <1>3 DEF PollFinish, ControlInv
  <2>2. NothingForgotten' /\ lastProcessedBlock <= lastProcessedBlock'
    <3>1. lastProcessedBlock' = lastProcessedBlock \/
          (lastProcessedBlock' = SafeBlock /\ SafeBlock >= poll.start)
      BY <1>3 DEF PollFinish
    <3>2. poll.start = lastProcessedBlock + 1 /\ AccountedUpTo(SafeBlock)
      BY <2>1, PollDone
    <3>3. QED
      BY <1>0, <1>3, <3>1, <3>2 DEF PollFinish, NothingForgotten, AccountedUpTo, history
  <2>3. HistInv'
    <3>1. hist.start \in Nat /\ lastProcessedBlock' \in Int
      BY DEF HistLocals
    <3>2. QED
      BY <1>0, <1>3, <2>1, <2>2, <3>1 DEF PollFinish, HistInv
  <2>4. PollInv' /\ ControlInv'
    <3>1. CASE lastProcessedBlock' = SafeBlock /\ poll' = [poll EXCEPT !.pc = "save"]
      <4>1. poll'.pc = "save" /\ poll'.latest = poll.latest /\ poll'.failed = poll.failed
        BY <1>0, <3>1 DEF PollLocals
      <4>2. SafeBlock' = SafeBlock
        BY <4>1 DEF SafeBlock
      <4>3. QED
        BY <1>3, <2>1, <3>1, <4>1, <4>2 DEF PollFinish, PollInv, PollProgress, ControlInv
    <3>2. CASE poll' = NoPoll
      <4>1. poll'.pc = "idle"
        BY <3>2 DEF NoPoll
      <4>2. QED
        BY <1>3, <2>1, <4>1 DEF PollFinish, PollInv, PollProgress, ControlInv
    <3>3. QED
      BY <1>3, <3>1, <3>2 DEF PollFinish
  <2>5. QED
    BY <2>2, <2>3, <2>4 DEF CursorInv
<1>4. CASE PollSave
  <2>1. poll'.pc = "idle"
    BY <1>4 DEF PollSave, NoPoll
  <2>2. hist.pc = "idle" /\ isListening /\ checkpoint' \in {checkpoint, lastProcessedBlock}
    BY <1>0, <1>4 DEF PollSave, ControlInv, PollInv, PollProgress, SaveLastProcessedBlock
  <2>3. NothingForgotten'
    BY <1>0, <1>4, <2>2 DEF PollSave, NothingForgotten, AccountedUpTo, history
  <2>4. QED
    BY <1>0, <1>4, <2>1, <2>2, <2>3 DEF PollSave, CursorInv, ControlInv, HistInv, PollInv, PollProgress
<1>5. QED
  BY <1>1, <1>2, <1>3, <1>4 DEF Polling

LEMMA StutteringCursorInv ==
  ASSUME CursorInv, UNCHANGED vars
  PROVE  CursorInv'
  BY DEF CursorInv, ControlInv, HistInv, PollInv, PollProgress, NothingForgotten, AccountedUpTo,
         ScannedUpTo, PolledUpTo, SafeBlock, vars

\* The inductive invariant of the cursor holds, whatever the interleaving of
\* boots, crashes, lost saves, failed queries and new blocks.
THEOREM CursorInvariant == Spec => []CursorInv
<1>1. TypeInv /\ TypeInv' /\ CursorInv /\ [Next]_vars => CursorInv'
  BY BootCursorInv, HistoricalCursorInv, PollingCursorInv, StutteringCursorInv DEF Next
<1>2. QED
  BY TypeInvariant, InitCursorInv, <1>1, PTL DEF Spec

\* Neither the cursor nor the checkpoint ever passes a block that was neither
\* handed to the handlers nor given up by the historical scan.
THEOREM NoBlockIsForgotten == Spec => []NothingForgotten
<1>1. CursorInv => NothingForgotten
  BY DEF CursorInv
<1>2. QED
  BY CursorInvariant, <1>1, PTL

\* The flag isProcessingHistorical keeps the poll off the cursor while the
\* historical scan is at work, for the whole of both.
THEOREM ScansExcludeEachOther == Spec => []PollExcludesHistorical
<1>1. CursorInv => PollExcludesHistorical
  BY DEF CursorInv, ControlInv, PollExcludesHistorical
<1>2. QED
  BY CursorInvariant, <1>1, PTL

-----------------------------------------------------------------------------
(***************************************************************************)
(* What a step may do to the cursor and to the checkpoint                  *)
(***************************************************************************)

\* Who writes the cursor and the checkpoint of a process that is up.
LEMMA CursorWriters ==
  ASSUME TypeInv, CursorInv, [Next]_vars
  PROVE  \/ UNCHANGED <<lastProcessedBlock, checkpoint>>
         \/ Boot \/ Crash \/ HistPrunedJump \/ HistSaveJump \/ HistFinish \/ HistSave
         \/ PollFinish \/ PollSave
  BY DEF Next, Historical, Polling, NewBlock, HistHead, HistHeadFails, ClearFlag, HistQuery, HistQueryHalf,
         HistPruned, BelowThirdPruned, HistAbandonType, HistNextType, PollTick, PollMayStart, PollQuery, PollQueryFails,
         PollNextType, NextTypeFrom, vars

\* A poll moves the cursor only over blocks whose every event type has been
\* handed to the handlers (firstFailedBlock and the captured startBlock).
THEOREM PollCommits == Spec => PollCommitsDelivered
<1> DEFINE Commit == poll.pc = "scan" /\ lastProcessedBlock' > lastProcessedBlock =>
              Types \X ((lastProcessedBlock + 1)..lastProcessedBlock') \subseteq delivered
<1>1. ASSUME TypeInv, BlocksInv, CursorInv, [Next]_vars, poll.pc = "scan",
             lastProcessedBlock' > lastProcessedBlock
      PROVE  Types \X ((lastProcessedBlock + 1)..lastProcessedBlock') \subseteq delivered
  <2>1. hist.pc = "idle" /\ isListening /\ lastProcessedBlock' # lastProcessedBlock
    <3>1. hist.pc = "idle" /\ isListening
      BY <1>1 DEF CursorInv, ControlInv
    <3>2. lastProcessedBlock \in Int
      BY <1>1 DEF TypeInv, LooseTypeOK
    <3>3. QED
      BY <1>1, <3>1, <3>2
  <2>2. PollFinish
    <3>1. ~(HistPrunedJump \/ HistFinish)
      BY <2>1 DEF HistPrunedJump, HistScanning, HistFinish, ClearFlag, HistAdvances
    <3>2. ~(HistSaveJump \/ HistSave \/ PollSave \/ Boot)
      BY <1>1, <2>1 DEF HistSaveJump, HistSave, ClearFlag, PollSave, Boot
    <3>3. ~Crash
      BY <1>1 DEF Crash, BlocksInv
    <3>4. QED
      BY <1>1, <2>1, <3>1, <3>2, <3>3, CursorWriters
  <2>3. poll.type > NumTypes /\ lastProcessedBlock' = SafeBlock
    BY <2>1, <2>2 DEF PollFinish
  <2>4. QED
    BY <1>1, <2>3, PollDone
<1>2. TypeInv /\ BlocksInv /\ CursorInv /\ [Next]_vars => [Commit]_vars
  BY <1>1
<1> HIDE DEF Commit
<1>3. Spec => [][Commit]_vars
  BY TypeInvariant, BlocksInvariant, CursorInvariant, <1>2, PTL DEF Spec
<1>4. QED
  BY <1>3 DEF PollCommitsDelivered, Commit

\* No save, of a jump, of a finished scan or of a poll, puts the checkpoint
\* below the block this boot resumed from.
THEOREM CheckpointAboveResume == Spec => CheckpointStaysAboveResume
<1> DEFINE Above == checkpoint' # checkpoint => checkpoint' >= hist.start
<1>1. ASSUME TypeInv, CursorInv, [Next]_vars, checkpoint' # checkpoint
      PROVE  checkpoint' >= hist.start
  <2>1. HistSaveJump \/ HistSave \/ PollSave
    BY <1>1, CursorWriters DEF Boot, Crash, HistPrunedJump, HistFinish, ClearFlag, HistAdvances, PollFinish
  <2>2. isListening /\ checkpoint' = lastProcessedBlock
    BY <1>1, <2>1 DEF HistSaveJump, HistSave, ClearFlag, PollSave, SaveLastProcessedBlock,
                      CursorInv, ControlInv, HistInv, PollInv, PollProgress
  <2>3. QED
    BY <1>1, <2>2 DEF CursorInv, HistInv, TypeInv, LooseTypeOK, ScanTypes, HistLocals
<1>2. TypeInv /\ CursorInv /\ [Next]_vars => [Above]_vars
  BY <1>1
<1> HIDE DEF Above
<1>3. Spec => [][Above]_vars
  BY TypeInvariant, CursorInvariant, <1>2, PTL DEF Spec
<1>4. QED
  BY <1>3 DEF CheckpointStaysAboveResume, Above

\* The cursor of a running process goes back only by a jump over pruned
\* history, and never below the block the scan started from.
THEOREM CursorRetreats == Spec => CursorRetreatsOnlyByJump
<1> DEFINE Retreat == isListening /\ isListening' /\ lastProcessedBlock' < lastProcessedBlock =>
              hist.pc = "scan" /\ hist'.pc = "jumped" /\ lastProcessedBlock' >= hist.start
<1>1. ASSUME TypeInv, CursorInv, [Next]_vars, isListening, isListening',
             lastProcessedBlock' < lastProcessedBlock
      PROVE  hist.pc = "scan" /\ hist'.pc = "jumped" /\ lastProcessedBlock' >= hist.start
  <2>0. hist \in HistLocals /\ lastProcessedBlock \in Int /\ lastProcessedBlock' # lastProcessedBlock
    BY <1>1 DEF TypeInv, LooseTypeOK, ScanTypes
  <2>1. HistPrunedJump \/ HistFinish \/ PollFinish
    BY <1>1, <2>0, CursorWriters DEF Boot, Crash, HistSaveJump, HistSave, ClearFlag, PollSave
  <2>2. ~HistFinish
    BY <1>1, <2>0 DEF HistFinish, ClearFlag, HistAdvances, HistLocals
  <2>3. ~PollFinish
    <3> SUFFICES ASSUME PollFinish PROVE FALSE
      OBVIOUS
    <3>1. SafeBlock >= poll.start /\ lastProcessedBlock' = SafeBlock
          /\ poll.pc = "scan" /\ poll.type > NumTypes
      BY <2>0 DEF PollFinish
    <3>2. poll.start = lastProcessedBlock + 1 /\ SafeBlock \in Int
      BY <1>1, <3>1, PollDone
    <3>3. QED
      BY <1>1, <2>0, <3>1, <3>2
  <2>4. HistPrunedJump
    BY <2>1, <2>2, <2>3
  <2>5. hist.pc = "scan" /\ lastProcessedBlock' = JumpTarget - 1
        /\ hist' = [hist EXCEPT !.pc = "jumped", !.cur = JumpTarget, !.pruned = 0]
    BY <2>4 DEF HistPrunedJump, HistScanning
  <2>6. hist.start <= JumpTarget - 1
    BY <1>1, <2>0, <2>4, <2>5, HistRange, ConstantsAssumption
       DEF HistPrunedJump, JumpTarget, TypeInv, CursorInv, HistInv, HistLocals, Max2
  <2>7. hist'.pc = "jumped"
    BY <2>0, <2>5 DEF HistLocals
  <2>8. QED
    BY <1>1, <2>0, <2>5, <2>6, <2>7 DEF HistLocals
<1>2. TypeInv /\ CursorInv /\ [Next]_vars => [Retreat]_vars
  BY <1>1
<1> HIDE DEF Retreat
<1>3. Spec => [][Retreat]_vars
  BY TypeInvariant, CursorInvariant, <1>2, PTL DEF Spec
<1>4. QED
  BY <1>3 DEF CursorRetreatsOnlyByJump, Retreat

-----------------------------------------------------------------------------
(***************************************************************************)
(* The listener implements the feed of module EventFeed, for every number  *)
(* of event types, every chain, batch size, buffer, lag and number of      *)
(* faults.  CursorInv says where the cursor may go and what is saved; what *)
(* it does not say is that no scan looks beyond the chain.                 *)
(***************************************************************************)

HeadsInv ==
  /\ hist.pc \in {"scan", "jumped", "save"} => hist.latest <= head
  /\ poll.pc # "idle" => poll.latest <= head

LEMMA HistStepHeads ==
  ASSUME TypeInv, HeadsInv, Historical
  PROVE  HeadsInv'
<1>0. hist \in HistLocals /\ poll \in PollLocals /\ head \in Nat
  BY ConstantsAssumption DEF TypeInv, LooseTypeOK, ScanTypes, Blocks
<1>1. UNCHANGED <<head, poll>>
  BY DEF Historical, HistHead, HistHeadFails, HistQuery, HistQueryHalf, HistPruned, HistPrunedJump,
         HistSaveJump, HistAbandonType, HistNextType, HistFinish, HistSave
<1>2. CASE HistHead
  <2>1. PICK h \in ReportedHeads :
          hist' = [hist EXCEPT !.pc = "scan", !.latest = h, !.type = 1, !.cur = hist.start]
    BY <1>2 DEF HistHead
  <2>2. hist'.latest = h /\ h <= head
    BY <1>0, <2>1 DEF HistLocals, ReportedHeads
  <2>3. QED
    BY <1>1, <2>2 DEF HeadsInv
<1>3. CASE HistHeadFails \/ HistSave
  <2>1. hist'.pc = "idle"
    BY <1>0, <1>3 DEF HistHeadFails, HistSave, HistLocals
  <2>2. QED
    BY <1>1, <2>1 DEF HeadsInv
<1>4. CASE ~(HistHead \/ HistHeadFails \/ HistSave)
  <2>1. hist'.latest = hist.latest
    BY <1>0, <1>4 DEF Historical, HistQuery, HistQueryHalf, HistPruned, HistPrunedJump,
                      HistSaveJump, HistAbandonType, HistNextType, HistFinish, HistLocals
  <2>2. hist.pc \in {"scan", "jumped"}
    BY <1>4 DEF Historical, HistScanning, HistQuery, HistQueryHalf, HistPruned, HistPrunedJump,
                HistSaveJump, HistAbandonType, HistNextType, HistFinish
  <2>3. QED
    BY <1>1, <2>1, <2>2 DEF HeadsInv
<1>5. QED
  BY <1>2, <1>3, <1>4

LEMMA PollStepHeads ==
  ASSUME TypeInv, HeadsInv, Polling
  PROVE  HeadsInv'
<1>0. hist \in HistLocals /\ poll \in PollLocals /\ head \in Nat
  BY ConstantsAssumption DEF TypeInv, LooseTypeOK, ScanTypes, Blocks
<1>1. UNCHANGED <<head, hist>>
  BY DEF Polling, PollTick, PollMayStart, PollQuery, PollQueryFails, PollNextType, PollFinish, PollSave
<1>2. CASE PollTick
  <2>1. PICK h \in ReportedHeads :
          poll' = [pc |-> "scan", start |-> lastProcessedBlock + 1, latest |-> h,
                   type |-> 1, cur |-> lastProcessedBlock + 1, failed |-> NoFailure]
    BY <1>2 DEF PollTick, PollMayStart
  <2>2. QED
    BY <1>1, <2>1 DEF HeadsInv, ReportedHeads
<1>3. CASE poll' = NoPoll
  BY <1>1, <1>3 DEF HeadsInv, NoPoll
<1>4. CASE ~PollTick /\ poll' # NoPoll
  <2>1. poll'.latest = poll.latest
    BY <1>0, <1>4 DEF Polling, PollQuery, PollQueryFails, PollNextType, PollFinish, PollSave, PollLocals
  <2>2. poll.pc # "idle"
    BY <1>4 DEF Polling, PollScanning, PollQuery, PollQueryFails, PollNextType, PollFinish, PollSave
  <2>3. QED
    BY <1>1, <2>1, <2>2 DEF HeadsInv
<1>5. QED
  BY <1>2, <1>3, <1>4

\* A scan asks for no block beyond the head it was told, which the chain has.
LEMMA HeadsInvariant == Spec => []HeadsInv
<1>1. Init => HeadsInv
  BY DEF Init, HeadsInv, NoHist, NoPoll
<1>2. TypeInv /\ HeadsInv /\ [Next]_vars => HeadsInv'
  <2> SUFFICES ASSUME TypeInv, HeadsInv, [Next]_vars PROVE HeadsInv'
    OBVIOUS
  <2>1. CASE Historical
    BY <2>1, HistStepHeads
  <2>2. CASE Polling
    BY <2>2, PollStepHeads
  <2>3. CASE NewBlock
    <3>1. head \in Nat /\ hist.latest \in Nat /\ poll.latest \in Nat
      BY ConstantsAssumption DEF TypeInv, LooseTypeOK, ScanTypes, Blocks, HistLocals, PollLocals
    <3>2. QED
      BY <2>3, <3>1 DEF NewBlock, HeadsInv
  <2>4. CASE Boot
    <3>1. hist'.pc = "head" /\ poll'.pc = "idle"
      BY <2>4 DEF Boot, NoHist, NoPoll
    <3>2. QED
      BY <3>1 DEF HeadsInv
  <2>5. CASE Crash
    BY <2>5 DEF Crash, HeadsInv, NoHist, NoPoll
  <2>6. CASE UNCHANGED vars
    BY <2>6 DEF vars, HeadsInv
  <2>7. QED
    BY <2>1, <2>2, <2>3, <2>4, <2>5, <2>6 DEF Next
<1>3. QED
  BY TypeInvariant, <1>1, <1>2, PTL DEF Spec

-----------------------------------------------------------------------------
(***************************************************************************)
(* Every step of the listener is a step of the feed, or a stutter.         *)
(***************************************************************************)

FeedInv == TypeInv /\ BlocksInv /\ CursorInv /\ HeadsInv

\* What a query hands over, or a scan gives up, is added to the cells
\* accounted for.
LEMMA ProcessEventsAccounts ==
  ASSUME NEW cells, ProcessEvents(cells)
  PROVE  delivered' \cup skipped' = (delivered \cup skipped) \cup cells
  BY DEF ProcessEvents

LEMMA GiveUpAccounts ==
  ASSUME NEW cells, GiveUp(cells)
  PROVE  delivered' \cup skipped' = (delivered \cup skipped) \cup cells
  BY DEF GiveUp

\* A step that accounts for cells of the chain, and leaves the cursor where
\* CursorInv lets it be.
LEMMA AccountStep ==
  ASSUME FeedInv, CursorInv', BlocksInv', NEW cells \in SUBSET (Types \X (0..head)),
         delivered' \cup skipped' = (delivered \cup skipped) \cup cells,
         isListening, UNCHANGED <<head, isListening, checkpoint>>
  PROVE  Feed!Account
<1>1. lastProcessedBlock' \in Nat /\ AccountedUpTo(lastProcessedBlock)'
  BY DEF BlocksInv, CursorInv, NothingForgotten
<1>2. Feed!Complete(lastProcessedBlock', delivered' \cup skipped')
  BY <1>1 DEF AccountedUpTo, Feed!Complete, Types
<1>3. QED
  BY <1>1, <1>2 DEF Feed!Account

LEMMA HistQueryAccounts ==
  ASSUME FeedInv, CursorInv', BlocksInv',
         HistQuery \/ HistQueryHalf \/ HistPruned \/ HistPrunedJump \/ HistAbandonType \/ HistNextType
  PROVE  Feed!Account
<1>0. /\ hist \in HistLocals /\ head \in Nat /\ HeadsInv /\ isListening /\ hist.latest <= head
      /\ UNCHANGED <<head, isListening, checkpoint>>
  BY ConstantsAssumption
     DEF FeedInv, TypeInv, LooseTypeOK, ScanTypes, Blocks, CursorInv, ControlInv, HeadsInv, HistScanning, HistQuery,
         HistQueryHalf, HistPruned, HistPrunedJump, HistAbandonType, HistNextType
<1>1. ASSUME NEW hi \in Int, hi <= head, hist.type \in Types
      PROVE  {hist.type} \X (hist.cur..hi) \in SUBSET (Types \X (0..head))
  BY <1>0, <1>1 DEF HistLocals
<1>2. CASE HistQuery
  <2>1. {hist.type} \X (hist.cur..HistTo) \in SUBSET (Types \X (0..head))
    BY <1>0, <1>1, <1>2, HistRange DEF HistQuery, HistLocals, FeedInv, TypeInv
  <2>2. ProcessEvents({hist.type} \X (hist.cur..HistTo))
    BY <1>2 DEF HistQuery
  <2>3. QED
    BY <1>0, <2>1, <2>2, ProcessEventsAccounts, AccountStep
<1>3. CASE HistQueryHalf
  <2> DEFINE to == Min2(hist.cur + HistBatch \div 2, hist.latest)
  <2>1. to \in Int /\ to <= head /\ hist.type \in Types
    BY <1>0, <1>3, HistRange, ConstantsAssumption
       DEF HistQueryHalf, Min2, HistLocals, FeedInv, TypeInv
  <2>2. ProcessEvents({hist.type} \X (hist.cur..to))
    BY <1>3 DEF HistQueryHalf
  <2> HIDE DEF to
  <2>3. QED
    BY <1>0, <1>1, <2>1, <2>2, ProcessEventsAccounts, AccountStep
<1>4. CASE HistPruned
  <2>1. {hist.type} \X (hist.cur..HistTo) \in SUBSET (Types \X (0..head))
    BY <1>0, <1>1, <1>4, HistRange DEF HistPruned, HistLocals, FeedInv, TypeInv
  <2>2. GiveUp({hist.type} \X (hist.cur..HistTo))
    BY <1>4 DEF HistPruned
  <2>3. QED
    BY <1>0, <2>1, <2>2, GiveUpAccounts, AccountStep
<1>5. CASE HistPrunedJump
  <2> DEFINE cells == ({hist.type} \X (hist.cur..(JumpTarget - 1)))
                      \cup ((hist.type + 1)..NumTypes) \X (hist.start..(JumpTarget - 1))
  <2>1. JumpTarget - 1 \in Int /\ JumpTarget - 1 <= head /\ hist.type \in Types
    BY <1>0, <1>5, HistRange, ConstantsAssumption
       DEF HistPrunedJump, JumpTarget, Max2, HistLocals, FeedInv, TypeInv
  <2>2. cells \in SUBSET (Types \X (0..head))
    BY <1>0, <2>1, ConstantsAssumption DEF HistLocals, Types
  <2>3. GiveUp(cells)
    BY <1>5 DEF HistPrunedJump
  <2> HIDE DEF cells
  <2>4. QED
    BY <1>0, <2>2, <2>3, GiveUpAccounts, AccountStep
<1>6. CASE HistAbandonType
  BY <1>0, <1>1, <1>6, HistRange, GiveUpAccounts, AccountStep
     DEF HistAbandonType, HistLocals, FeedInv, TypeInv
<1>7. CASE HistNextType
  <2>1. hist.type \in Types /\ hist.latest \in Int
    BY <1>0, <1>7 DEF HistNextType, HistLocals, TypeIndexes, Types
  <2>2. QED
    BY <1>0, <1>1, <1>7, <2>1, GiveUpAccounts, AccountStep DEF HistNextType
<1>8. QED
  BY <1>2, <1>3, <1>4, <1>5, <1>6, <1>7

LEMMA PollQueryAccounts ==
  ASSUME FeedInv, CursorInv', BlocksInv', PollQuery
  PROVE  Feed!Account
<1>0. /\ poll \in PollLocals /\ head \in Nat /\ isListening /\ poll.latest <= head
      /\ UNCHANGED <<head, isListening, checkpoint>>
  BY ConstantsAssumption
     DEF FeedInv, TypeInv, LooseTypeOK, ScanTypes, Blocks, CursorInv, ControlInv, HeadsInv, PollScanning, PollQuery
<1>1. {poll.type} \X (poll.cur..PollTo) \in SUBSET (Types \X (0..head))
  BY <1>0, PollRange DEF PollQuery, PollLocals, FeedInv, TypeInv
<1>2. QED
  BY <1>0, <1>1, ProcessEventsAccounts, AccountStep DEF PollQuery

\* The scan or the poll is over and moves the cursor.
LEMMA FinishAccounts ==
  ASSUME FeedInv, CursorInv', BlocksInv', HistFinish \/ PollFinish
  PROVE  Feed!Account
<1>1. isListening /\ UNCHANGED <<head, isListening, checkpoint, delivered, skipped>>
  BY DEF FeedInv, CursorInv, ControlInv, HistFinish, PollFinish, history
<1>2. {} \in SUBSET (Types \X (0..head))
      /\ delivered' \cup skipped' = (delivered \cup skipped) \cup {}
  BY <1>1
<1>3. QED
  BY <1>1, <1>2, AccountStep

LEMMA SaveStep ==
  ASSUME FeedInv, HistSaveJump \/ HistSave \/ PollSave
  PROVE  Feed!Save \/ UNCHANGED Feed!feedVars
<1>1. isListening /\ UNCHANGED <<head, isListening, lastProcessedBlock, delivered, skipped>>
  BY DEF FeedInv, CursorInv, ControlInv, HistSaveJump, HistSave, PollSave, history
<1>2. checkpoint' \in {checkpoint, lastProcessedBlock}
  BY DEF FeedInv, HistSaveJump, HistSave, PollSave, SaveLastProcessedBlock,
         CursorInv, ControlInv, HistInv, PollInv
<1>3. QED
  BY <1>1, <1>2 DEF Feed!Save, Feed!feedVars

LEMMA BootStep ==
  ASSUME FeedInv, Boot \/ Crash \/ NewBlock
  PROVE  Feed!Next
<1>1. CASE Boot
  <2>1. checkpoint \in Nat /\ StartBlock \in Nat
    BY ConstantsAssumption DEF FeedInv, BlocksInv
  <2>2. QED
    BY <1>1, <2>1 DEF Boot, Max2, history, Feed!Start, Feed!Next
<1>2. CASE Crash
  BY <1>2 DEF Crash, history, Feed!Stop, Feed!Next
<1>3. CASE NewBlock
  BY <1>3 DEF NewBlock, history, Feed!Grow, Feed!Next
<1>4. QED
  BY <1>1, <1>2, <1>3

LEMMA SilentStep ==
  ASSUME \/ HistHead \/ HistHeadFails \/ PollTick \/ PollQueryFails \/ PollNextType
         \/ UNCHANGED vars
  PROVE  UNCHANGED Feed!feedVars
  BY DEF HistHead, HistHeadFails, PollTick, PollMayStart, PollQueryFails, PollNextType, vars, history,
         Feed!feedVars

\* The listener, through boots, crashes, lost saves, lagging nodes, pruned
\* history and failed queries, does what a feed may do: it saves the cursor
\* itself, resumes from what it saved, accounts only for blocks of the chain
\* and moves the cursor only to where it owes nothing behind it.
THEOREM ImplementsTheFeed == Spec => ImplementsFeed
<1>1. Init => Feed!Init
  BY ConstantsAssumption DEF Init, Blocks, Feed!Init
<1>2. FeedInv /\ CursorInv' /\ BlocksInv' /\ [Next]_vars => [Feed!Next]_Feed!feedVars
  <2> SUFFICES ASSUME FeedInv, CursorInv', BlocksInv', [Next]_vars
               PROVE  [Feed!Next]_Feed!feedVars
    OBVIOUS
  <2>1. CASE HistQuery \/ HistQueryHalf \/ HistPruned \/ HistPrunedJump \/ HistAbandonType \/ HistNextType
    BY <2>1, HistQueryAccounts DEF Feed!Next
  <2>2. CASE PollQuery
    BY <2>2, PollQueryAccounts DEF Feed!Next
  <2>3. CASE HistFinish \/ PollFinish
    BY <2>3, FinishAccounts DEF Feed!Next
  <2>4. CASE HistSaveJump \/ HistSave \/ PollSave
    BY <2>4, SaveStep DEF Feed!Next
  <2>5. CASE Boot \/ Crash \/ NewBlock
    BY <2>5, BootStep
  <2>6. CASE HistHead \/ HistHeadFails \/ PollTick \/ PollQueryFails \/ PollNextType \/ UNCHANGED vars
    BY <2>6, SilentStep
  <2>7. QED
    BY <2>1, <2>2, <2>3, <2>4, <2>5, <2>6 DEF Next, Historical, Polling
<1>3. Spec => []FeedInv
  BY TypeInvariant, BlocksInvariant, CursorInvariant, HeadsInvariant, PTL DEF FeedInv
<1>4. FeedInv => CursorInv /\ BlocksInv
  BY DEF FeedInv
<1>5. Spec => Feed!Spec
  BY <1>1, <1>2, <1>3, <1>4, PTL DEF Spec, Feed!Spec
<1>6. QED
  BY <1>5 DEF ImplementsFeed
=============================================================================
