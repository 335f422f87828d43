-------------------------- MODULE ContractManager --------------------------
(***************************************************************************)
(* The block cursor of ContractManagerService, for the one enabled         *)
(* contract of listener.config.ts.  After a boot the historical scan walks *)
(* the event types one after the other from the stored checkpoint to the   *)
(* chain head; the 3-second polling loop takes over and advances the same  *)
(* in-memory cursor (lastProcessedBlock), which each of them persists in   *)
(* the listener_state row read by the next boot.                           *)
(*                                                                         *)
(* A cell <<t, b>> stands for all the events of type t in block b; every   *)
(* cell may hold events.  A step runs from one await to the next, except   *)
(* that a query, the handlers it feeds and the move of the local           *)
(* currentBlock are one step: nothing else reads those locals.             *)
(***************************************************************************)
EXTENDS Integers, FiniteSets

CONSTANTS
  NumTypes,      \* enabled events of the contract, in the order of config.events
  StartBlock,    \* config.startBlock
  MaxBlock,      \* bound: the highest block of the chain
  HistBatch,     \* min(batchSize, 500): a historical range is cur..cur+HistBatch
  PollBatch,     \* min(batchSize, 50000): a polled range is cur..cur+PollBatch-1
  PrunedBuffer,  \* PRUNED_SAFE_BUFFER
  HeadLag,       \* bound: how far behind the head a getBlockNumber answer may be
  MaxFaults      \* bound: failed calls and crashes in a behaviour

ASSUME ConstantsAssumption ==
  /\ NumTypes \in Nat \ {0}
  /\ StartBlock \in Nat
  /\ MaxBlock \in Nat
  /\ HistBatch \in Nat \ {0}
  /\ PollBatch \in Nat \ {0}
  /\ PrunedBuffer \in Nat
  /\ HeadLag \in Nat
  /\ MaxFaults \in Nat

VARIABLES
  head,                    \* the chain's latest block
  checkpoint,              \* blockNumber of the listener_state row, 0 when there is none
  isListening,             \* the process is up and startListening has run
  lastProcessedBlock,      \* the in-memory cursor of the contract instance
  isProcessingHistorical,  \* the instance's flag
  hist,                    \* locals of processHistoricalEvents
  poll,                    \* locals of the polling loop and of pollContractEvents
  delivered,               \* history: cells queried and handed to their handler
  skipped,                 \* history: cells the historical scan has given up, not delivered since
  faults                   \* how much of MaxFaults is used up

vars == <<head, checkpoint, isListening, lastProcessedBlock, isProcessingHistorical,
          hist, poll, delivered, skipped, faults>>

history == <<delivered, skipped>>

Types  == 1..NumTypes
Blocks == 0..MaxBlock
Cells  == Types \X Nat

Min2(a, b) == IF a <= b THEN a ELSE b
Max2(a, b) == IF a >= b THEN a ELSE b

NoFailure == -1   \* firstFailedBlock === null

NoHist == [pc |-> "idle", start |-> 0, latest |-> 0, type |-> 1, cur |-> 0, pruned |-> 0]
NoPoll == [pc |-> "idle", start |-> 0, latest |-> 0, type |-> 1, cur |-> 0, failed |-> NoFailure]

-----------------------------------------------------------------------------
(***************************************************************************)
(* Faults, the chain, and what the RPC node answers.                        *)
(***************************************************************************)

Fault == faults < MaxFaults /\ faults' = faults + 1

\* Answers of provider.getBlockNumber(): a load-balanced node may lag behind.
ReportedHeads == {h \in Blocks : head - HeadLag <= h /\ h <= head}

\* queryFilter succeeded and processEvents ran one handler per event.  It
\* catches what a handler throws, so that the scan cannot tell (module
\* PresaleHandlers can).
ProcessEvents(cells) ==
  /\ delivered' = delivered \cup cells
  /\ skipped' = skipped \ cells
  /\ UNCHANGED faults

GiveUp(cells) ==
  /\ skipped' = skipped \cup (cells \ delivered)
  /\ UNCHANGED delivered

NewBlock ==
  /\ head < MaxBlock
  /\ head' = head + 1
  /\ UNCHANGED <<checkpoint, isListening, lastProcessedBlock, isProcessingHistorical,
                 hist, poll, history, faults>>

\* saveLastProcessedBlock: a database error is logged and swallowed.
SaveLastProcessedBlock(block) ==
  \/ checkpoint' = block /\ UNCHANGED faults
  \/ Fault /\ UNCHANGED checkpoint

-----------------------------------------------------------------------------
(***************************************************************************)
(* Boot and crash                                                          *)
(***************************************************************************)

\* registerContract and startListening: the cursor is the checkpoint, never
\* below config.startBlock; a failed read counts as 0.  The historical scan
\* raises its flag in the first event-loop turn, before any poll tick.
Boot ==
  /\ ~isListening
  /\ isListening' = TRUE
  /\ \/ lastProcessedBlock' = Max2(checkpoint, StartBlock) /\ UNCHANGED faults
     \/ lastProcessedBlock' = StartBlock /\ Fault
  /\ isProcessingHistorical' = TRUE
  /\ hist' = [NoHist EXCEPT !.pc = "head", !.start = lastProcessedBlock']
  /\ poll' = NoPoll
  /\ UNCHANGED <<head, checkpoint, history>>

\* The process dies between two steps: only the database is left.
Crash ==
  /\ isListening
  /\ Fault
  /\ isListening' = FALSE
  /\ isProcessingHistorical' = FALSE
  /\ lastProcessedBlock' = 0
  /\ hist' = NoHist
  /\ poll' = NoPoll
  /\ UNCHANGED <<head, checkpoint, history>>

-----------------------------------------------------------------------------
(***************************************************************************)
(* processHistoricalEvents                                                 *)
(***************************************************************************)

\* The finally clause.
FlagNeverCleared == UNCHANGED isProcessingHistorical
ClearFlag == isProcessingHistorical' = FALSE

HistHead ==
  /\ hist.pc = "head"
  /\ \E h \in ReportedHeads :
       hist' = [hist EXCEPT !.pc = "scan", !.latest = h, !.type = 1, !.cur = hist.start]
  /\ UNCHANGED <<head, checkpoint, isListening, lastProcessedBlock,
                 isProcessingHistorical, poll, history, faults>>

\* getBlockNumber throws: only the finally clause runs.
HistHeadFails ==
  /\ hist.pc = "head"
  /\ Fault
  /\ hist' = [hist EXCEPT !.pc = "idle"]
  /\ ClearFlag
  /\ UNCHANGED <<head, checkpoint, isListening, lastProcessedBlock, poll, history>>

\* The test of the while loop, which stops one short of scanning latest
\* when a batch ended at latest - 1.
HistScanning == hist.pc = "scan" /\ hist.type <= NumTypes /\ hist.cur < hist.latest

HistTo == Min2(hist.cur + HistBatch, hist.latest)

HistQuery ==
  /\ HistScanning
  /\ ProcessEvents({hist.type} \X (hist.cur..HistTo))
  /\ hist' = [hist EXCEPT !.cur = HistTo + 1, !.pruned = 0]
  /\ UNCHANGED <<head, checkpoint, isListening, lastProcessedBlock,
                 isProcessingHistorical, poll>>

\* "Batch too large": half the range is queried instead, once.
HistQueryHalf ==
  LET to == Min2(hist.cur + HistBatch \div 2, hist.latest) IN
  /\ HistScanning
  /\ ProcessEvents({hist.type} \X (hist.cur..to))
  /\ hist' = [hist EXCEPT !.cur = to + 1]
  /\ UNCHANGED <<head, checkpoint, isListening, lastProcessedBlock,
                 isProcessingHistorical, poll>>

BelowThirdPruned  == hist.pruned < 2

\* A missing-history error below the third in a row skips the batch.
HistPruned ==
  /\ HistScanning
  /\ BelowThirdPruned
  /\ Fault
  /\ GiveUp({hist.type} \X (hist.cur..HistTo))
  /\ hist' = [hist EXCEPT !.cur = HistTo + 1, !.pruned = @ + 1]
  /\ UNCHANGED <<head, checkpoint, isListening, lastProcessedBlock,
                 isProcessingHistorical, poll>>

RecentBlocks == hist.latest - PrunedBuffer
JumpTarget   == Max2(HistTo + 1, hist.latest - PrunedBuffer)

\* Error 4444, or the third missing-history error in a row: jump to recent
\* blocks and make the jump the new cursor.  A restart resumes from there,
\* so the jump gives up the later event types' blocks too, until their own
\* scan delivers them.
HistPrunedJump ==
  /\ HistScanning
  /\ Fault
  /\ GiveUp(({hist.type} \X (hist.cur..(JumpTarget - 1)))
            \cup ((hist.type + 1)..NumTypes) \X (hist.start..(JumpTarget - 1)))
  /\ hist' = [hist EXCEPT !.pc = "jumped", !.cur = JumpTarget, !.pruned = 0]
  /\ lastProcessedBlock' = JumpTarget - 1
  /\ UNCHANGED <<head, checkpoint, isListening, isProcessingHistorical, poll>>

HistSaveJump ==
  /\ hist.pc = "jumped"
  /\ SaveLastProcessedBlock(hist.cur - 1)
  /\ hist' = [hist EXCEPT !.pc = "scan"]
  /\ UNCHANGED <<head, isListening, lastProcessedBlock, isProcessingHistorical, poll, history>>

\* Any other error, or a failure of the half-size retry, is caught around
\* the event type: the rest of its range is given up.
HistAbandonType ==
  /\ HistScanning
  /\ Fault
  /\ GiveUp({hist.type} \X (hist.cur..hist.latest))
  /\ hist' = [hist EXCEPT !.type = @ + 1, !.cur = hist.start, !.pruned = 0]
  /\ UNCHANGED <<head, checkpoint, isListening, lastProcessedBlock,
                 isProcessingHistorical, poll>>

\* The while loop is over; cur = latest means block latest was not scanned.
HistNextType ==
  /\ hist.pc = "scan"
  /\ hist.type <= NumTypes
  /\ hist.cur >= hist.latest
  /\ GiveUp({hist.type} \X (hist.cur..hist.latest))
  /\ hist' = [hist EXCEPT !.type = @ + 1, !.cur = hist.start, !.pruned = 0]
  /\ UNCHANGED <<head, checkpoint, isListening, lastProcessedBlock,
                 isProcessingHistorical, poll, faults>>

\* "Only advance lastProcessedBlock if polling hasn't already moved it past".
HistAdvancesAlways == TRUE
HistAdvances       == hist.latest > lastProcessedBlock

HistFinish ==
  /\ hist.pc = "scan"
  /\ hist.type > NumTypes
  /\ \/ /\ HistAdvances
        /\ lastProcessedBlock' = hist.latest
        /\ hist' = [hist EXCEPT !.pc = "save"]
        /\ UNCHANGED isProcessingHistorical
     \/ /\ ~HistAdvances
        /\ hist' = [hist EXCEPT !.pc = "idle"]
        /\ ClearFlag
        /\ UNCHANGED lastProcessedBlock
  /\ UNCHANGED <<head, checkpoint, isListening, poll, history, faults>>

HistSave ==
  /\ hist.pc = "save"
  /\ SaveLastProcessedBlock(hist.latest)
  /\ hist' = [hist EXCEPT !.pc = "idle"]
  /\ ClearFlag
  /\ UNCHANGED <<head, isListening, lastProcessedBlock, poll, history>>

Historical ==
  \/ HistHead \/ HistHeadFails \/ HistQuery \/ HistQueryHalf
  \/ HistPruned \/ HistPrunedJump \/ HistSaveJump
  \/ HistAbandonType \/ HistNextType \/ HistFinish \/ HistSave

-----------------------------------------------------------------------------
(***************************************************************************)
(* startPollingService and pollContractEvents.  A tick whose getBlockNumber *)
(* fails, or that finds the contract busy or caught up, changes nothing.    *)
(***************************************************************************)

PollMayStartAnyTime == isListening /\ poll.pc = "idle"
PollMayStart        == isListening /\ poll.pc = "idle" /\ ~isProcessingHistorical

PollTick ==
  /\ PollMayStart
  /\ \E h \in ReportedHeads :
       /\ lastProcessedBlock < h
       /\ poll' = [pc |-> "scan", start |-> lastProcessedBlock + 1, latest |-> h,
                   type |-> 1, cur |-> lastProcessedBlock + 1, failed |-> NoFailure]
  /\ UNCHANGED <<head, checkpoint, isListening, lastProcessedBlock,
                 isProcessingHistorical, hist, history, faults>>

PollScanning == poll.pc = "scan" /\ poll.type <= NumTypes /\ poll.cur <= poll.latest

PollTo == Min2(poll.cur + PollBatch - 1, poll.latest)

PollQuery ==
  /\ PollScanning
  /\ ProcessEvents({poll.type} \X (poll.cur..PollTo))
  /\ poll' = [poll EXCEPT !.cur = PollTo + 1]
  /\ UNCHANGED <<head, checkpoint, isListening, lastProcessedBlock,
                 isProcessingHistorical, hist>>

\* A failed query lowers firstFailedBlock; only its batch is skipped, unless
\* the node says the range is beyond its head: then the event type stops.
PollQueryFails ==
  /\ PollScanning
  /\ Fault
  /\ \E next \in {PollTo + 1, poll.latest + 1} :
       poll' = [poll EXCEPT !.cur = next,
                            !.failed = IF @ = NoFailure THEN poll.cur ELSE Min2(@, poll.cur)]
  /\ UNCHANGED <<head, checkpoint, isListening, lastProcessedBlock,
                 isProcessingHistorical, hist, history>>

\* Every event type polls the same range: startBlock is captured once.
NextTypeFromHead   == poll.latest + 1
NextTypeFromCursor == lastProcessedBlock + 1
NextTypeFrom       == poll.start

PollNextType ==
  /\ poll.pc = "scan"
  /\ poll.type <= NumTypes
  /\ poll.cur > poll.latest
  /\ poll' = [poll EXCEPT !.type = @ + 1, !.cur = NextTypeFrom]
  /\ UNCHANGED <<head, checkpoint, isListening, lastProcessedBlock,
                 isProcessingHistorical, hist, history, faults>>

SafeBlockIgnoringFailures == poll.latest
SafeBlockWithFailed == IF poll.failed = NoFailure THEN poll.latest ELSE poll.failed
SafeBlock == IF poll.failed = NoFailure THEN poll.latest ELSE poll.failed - 1

PollFinish ==
  /\ poll.pc = "scan"
  /\ poll.type > NumTypes
  /\ \/ /\ SafeBlock >= poll.start
        /\ lastProcessedBlock' = SafeBlock
        /\ poll' = [poll EXCEPT !.pc = "save"]
     \/ /\ SafeBlock < poll.start
        /\ poll' = NoPoll
        /\ UNCHANGED lastProcessedBlock
  /\ UNCHANGED <<head, checkpoint, isListening, isProcessingHistorical, hist, history, faults>>

PollSave ==
  /\ poll.pc = "save"
  /\ SaveLastProcessedBlock(SafeBlock)
  /\ poll' = NoPoll
  /\ UNCHANGED <<head, isListening, lastProcessedBlock, isProcessingHistorical, hist, history>>

Polling ==
  \/ PollTick \/ PollQuery \/ PollQueryFails
  \/ PollNextType \/ PollFinish \/ PollSave

-----------------------------------------------------------------------------
Init ==
  /\ head \in Blocks
  /\ checkpoint = 0
  /\ isListening = FALSE
  /\ lastProcessedBlock = 0
  /\ isProcessingHistorical = FALSE
  /\ hist = NoHist
  /\ poll = NoPoll
  /\ delivered = {}
  /\ skipped = {}
  /\ faults = 0

Next == NewBlock \/ Boot \/ Crash \/ Historical \/ Polling

Spec == Init /\ [][Next]_vars

\* The hosting platform restarts the process; the timers and promises of the
\* event loop run on.  Nothing is asked of the chain or of the faults, which
\* MaxFaults lets happen finitely often.
Fairness == WF_vars(Boot) /\ WF_vars(Historical) /\ WF_vars(Polling)

LiveSpec == Spec /\ Fairness

-----------------------------------------------------------------------------
(***************************************************************************)
(* Properties                                                              *)
(***************************************************************************)

\* NumTypes + 1 is the index at the end of the for loop over the event types.
TypeIndexes == 1..(NumTypes + 1)

HistLocals ==
  [pc : {"idle", "head", "scan", "jumped", "save"}, start : Nat, latest : Nat,
   type : TypeIndexes, cur : Nat, pruned : {0, 1, 2}]

PollLocals ==
  [pc : {"idle", "scan", "save"}, start : Nat, latest : Nat,
   type : TypeIndexes, cur : Nat, failed : Nat \cup {NoFailure}]

\* Types of all variables but the two positions, and the ranges of the scans'
\* locals.
ScanTypes ==
  /\ head \in Blocks
  /\ isListening \in BOOLEAN
  /\ isProcessingHistorical \in BOOLEAN
  /\ hist \in HistLocals
  /\ poll \in PollLocals
  /\ delivered \subseteq Cells
  /\ skipped \subseteq Cells
  /\ faults \in 0..MaxFaults

\* Types of all variables: the cursor and the persisted checkpoint are block
\* numbers.
TypeOK == ScanTypes /\ checkpoint \in Nat /\ lastProcessedBlock \in Nat

\* Every block above StartBlock up to this one was handed to the handlers for
\* every event type, or is among those the historical scan gave up.
AccountedUpTo(block) ==
  \A t \in Types : \A b \in (StartBlock + 1)..block : <<t, b>> \in delivered \cup skipped

\* Neither the cursor nor the persisted checkpoint ever stands past a block
\* that some event type has still to be scanned for: no failed poll query, no
\* restart and no lost save makes the listener forget a block silently
\* (pollContractEvents, processHistoricalEvents, registerContract).
NothingForgotten ==
  /\ AccountedUpTo(checkpoint)
  /\ isListening => AccountedUpTo(lastProcessedBlock)

\* The polling loop works on the cursor only while no historical scan does:
\* the flag tested by the tick covers the whole poll that follows it.
PollExcludesHistorical ==
  poll.pc # "idle" => hist.pc = "idle" /\ ~isProcessingHistorical

\* A poll that moves the cursor has handed every event type of every block it
\* moves over to the handlers: the first failure of any type bounds the move,
\* and each type is polled over the same range (firstFailedBlock, startBlock).
PollCommitsDelivered ==
  [][poll.pc = "scan" /\ lastProcessedBlock' > lastProcessedBlock =>
       Types \X ((lastProcessedBlock + 1)..lastProcessedBlock') \subseteq delivered]_vars

\* While the process is up its cursor goes back only by a pruned-history jump
\* of a later event type, and then not below where the scan started.
CursorRetreatsOnlyByJump ==
  [][isListening /\ isListening' /\ lastProcessedBlock' < lastProcessedBlock =>
       hist.pc = "scan" /\ hist'.pc = "jumped" /\ lastProcessedBlock' >= hist.start]_vars

\* Whatever is persisted, by a jump, at the end of the scan or by a poll, is
\* not below the block this boot resumed from: a restart never has to go over
\* blocks that lay behind the previous boot's starting point.
CheckpointStaysAboveResume ==
  [][checkpoint' # checkpoint => checkpoint' >= hist.start]_vars

\* Once the faults are over, every block of the chain is accounted for and the
\* cursor stays at the head: a failed scan or poll leaves the loop able to go
\* on, and a failed range is polled again (the finally clause, the reschedule).
CatchesUp ==
  <>[](isListening /\ lastProcessedBlock >= head /\ AccountedUpTo(head))

-----------------------------------------------------------------------------
(***************************************************************************)
(* The inductive invariant behind NothingForgotten: what the locals of the *)
(* scan and of the poll in progress say of the cells.                      *)
(***************************************************************************)

ScannedUpTo(t, block) ==
  \A b \in (StartBlock + 1)..block : <<t, b>> \in delivered \cup skipped

PolledUpTo(t, block) ==
  \A b \in poll.start..block :
    poll.failed = NoFailure \/ b < poll.failed => <<t, b>> \in delivered

ControlInv ==
  /\ ~isListening => hist.pc = "idle" /\ poll.pc = "idle"
  /\ isProcessingHistorical <=> hist.pc # "idle"
  /\ poll.pc # "idle" => hist.pc = "idle"

HistInv ==
  /\ isListening => hist.start <= lastProcessedBlock
  /\ hist.pc \in {"scan", "jumped"} =>
       /\ hist.start <= hist.cur
       /\ \A t \in Types : t < hist.type => ScannedUpTo(t, hist.latest)
       /\ hist.type \in Types => ScannedUpTo(hist.type, hist.cur - 1)
  /\ hist.pc = "jumped" => lastProcessedBlock = hist.cur - 1
  /\ hist.pc = "save" => lastProcessedBlock = hist.latest

\* What the position of a poll says of the blocks it has behind it, wherever
\* the shared cursor is meanwhile.
PollProgress ==
  poll.pc = "scan" =>
    /\ poll.start <= poll.cur
    /\ poll.failed # NoFailure => poll.start <= poll.failed /\ poll.failed <= poll.latest
    /\ \A t \in Types : t < poll.type => PolledUpTo(t, poll.latest)
    /\ poll.type \in Types => PolledUpTo(poll.type, poll.cur - 1)

PollInv ==
  /\ PollProgress
  /\ poll.pc = "scan" => poll.start = lastProcessedBlock + 1
  /\ poll.pc = "save" => lastProcessedBlock = SafeBlock

\* The reason no block is forgotten: what each scan's position promises about
\* the cells behind it, for the event types already done and the current one
\* (processHistoricalEvents, pollContractEvents).
CursorInv == ControlInv /\ HistInv /\ PollInv /\ NothingForgotten

-----------------------------------------------------------------------------
(***************************************************************************)
(* The listener as a feed (module EventFeed): what it gives up counts as   *)
(* accounted for, the checkpoint row is the saved position.                *)
(***************************************************************************)

Feed == INSTANCE EventFeed WITH
  Types <- Types, StartBlock <- StartBlock, head <- head,
  running <- isListening, position <- lastProcessedBlock, saved <- checkpoint,
  accounted <- delivered \cup skipped

\* The scan, the polling loop, lagging nodes, lost saves and restarts together
\* are a feed: each save writes the cursor itself, each start resumes from what
\* was saved or from the beginning, only blocks of the chain are accounted for,
\* and the cursor moves only to where nothing is owed behind it.
ImplementsFeed == Feed!Spec

-----------------------------------------------------------------------------
(***************************************************************************)
(* What the documentation says of the scan, and the code does not do.      *)
(***************************************************************************)

\* README: the historical scan goes from the checkpoint to the head and then
\* polling takes over.  Without faults no block is left between the two.
HandOverIsComplete ==
  isListening /\ hist.pc = "idle" /\ faults = 0 =>
    \A t \in Types : \A b \in (StartBlock + 1)..lastProcessedBlock : <<t, b>> \in delivered
=============================================================================
