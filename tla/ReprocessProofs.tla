-------------------------- MODULE ReprocessProofs --------------------------
(***************************************************************************)
(* Theorems about reprocessing requests next to the scan and the polling   *)
(* loop, for any number of them, of event types, batch sizes and faults.   *)
(* CursorInv does not survive a request, which moves the shared cursor as  *)
(* it likes; what a poll and a request know of their own positions does.   *)
(***************************************************************************)
EXTENDS Reprocess, ContractManagerProofs

-----------------------------------------------------------------------------
(***************************************************************************)
(* Type correctness                                                        *)
(***************************************************************************)

RTypeInv ==
  /\ TypeInv
  /\ rep \in [Requests -> RequestLocals]

LEMMA RepRange ==
  ASSUME RTypeInv, NEW r \in Requests
  PROVE  /\ rep[r] \in RequestLocals /\ RepTo(r) \in Nat /\ RepTo(r) <= rep[r].end
         /\ rep[r].cur <= rep[r].end => rep[r].cur <= RepTo(r)
         /\ {rep[r].type} \X (rep[r].cur..RepTo(r)) \in SUBSET ({rep[r].type} \X Nat)
<1>1. rep[r] \in RequestLocals
  BY DEF RTypeInv
<1>2. RepTo(r) \in Nat /\ RepTo(r) <= rep[r].end
  BY <1>1, ReprocessAssumption DEF RequestLocals, RepTo, Min2
<1>3. rep[r].cur <= rep[r].end => rep[r].cur <= RepTo(r)
  BY <1>1, ReprocessAssumption DEF RequestLocals, RepTo, Min2
<1>4. rep[r].cur..RepTo(r) \subseteq Nat
  BY <1>1, <1>2 DEF RequestLocals
<1>5. QED
  BY <1>1, <1>2, <1>3, <1>4

\* The listener's own variables, for a step of a request.
LEMMA RequestTypes ==
  ASSUME TypeInv, LooseTypeOK', UNCHANGED <<hist, poll>>
  PROVE  TypeInv'
  BY DEF TypeInv, SafeBlock

\* A request's own locals, for a step that gives it those of q.
LEMMA LocalsStep ==
  ASSUME RTypeInv, TypeInv', NEW r \in Requests, NEW q \in RequestLocals,
         rep' = [rep EXCEPT ![r] = q]
  PROVE  RTypeInv'
  BY DEF RTypeInv

LEMMA StartTypes ==
  ASSUME RTypeInv, NEW r \in Requests, StartRequest(r)
  PROVE  RTypeInv'
<1>1. PICK from \in Blocks, to \in Blocks, h \in ReportedHeads,
           names \in SUBSET Types, reset \in BOOLEAN :
        /\ from <= Min2(to, h)
        /\ rep' = [rep EXCEPT ![r] =
                    [pc |-> IF reset THEN "reset" ELSE "scan", from |-> from,
                     end |-> Min2(to, h), names |-> names, type |-> 1, cur |-> from, clean |-> TRUE]]
        /\ lastProcessedBlock' = IF reset THEN ResetBlock(from) ELSE lastProcessedBlock
  BY DEF StartRequest
<1>2. from \in Nat /\ Min2(to, h) \in Nat /\ 1 \in TypeIndexes
  BY ConstantsAssumption DEF Blocks, ReportedHeads, Min2, TypeIndexes
<1> DEFINE q == [pc |-> IF reset THEN "reset" ELSE "scan", from |-> from,
                 end |-> Min2(to, h), names |-> names, type |-> 1, cur |-> from, clean |-> TRUE]
<1>3. q \in RequestLocals
  BY <1>2 DEF RequestLocals
<1>4. rep' = [rep EXCEPT ![r] = q]
  BY <1>1
<1> HIDE DEF q
<1>5. lastProcessedBlock' \in Nat \cup {-1}
  BY <1>1, <1>2 DEF ResetBlock, RTypeInv, TypeInv, LooseTypeOK
<1>6. TypeInv'
  BY <1>5, RequestTypes DEF StartRequest, RTypeInv, TypeInv, LooseTypeOK, ScanTypes, history
<1>7. QED
  BY <1>3, <1>4, <1>6, LocalsStep

\* What each step of a request makes of its locals.
LEMMA RepStepLocals ==
  ASSUME RTypeInv, NEW r \in Requests, RepStep(r)
  PROVE  \E q \in RequestLocals : rep' = [rep EXCEPT ![r] = q]
<1>0. rep[r] \in RequestLocals /\ RepTo(r) + 1 \in Nat
  BY RepRange DEF RTypeInv
<1>1. CASE SaveReset(r)
  <2> DEFINE q == [rep[r] EXCEPT !.pc = "scan"]
  <2>1. q \in RequestLocals
    BY <1>0 DEF RequestLocals
  <2>2. rep' = [rep EXCEPT ![r] = q]
    BY <1>1 DEF SaveReset
  <2> HIDE DEF q
  <2>3. QED
    BY <2>1, <2>2
<1>2. CASE RepQuery(r)
  <2> DEFINE q == [rep[r] EXCEPT !.pc = "save"]
  <2>1. q \in RequestLocals
    BY <1>0 DEF RequestLocals
  <2>2. rep' = [rep EXCEPT ![r] = q]
    BY <1>2 DEF RepQuery, RepScanning
  <2> HIDE DEF q
  <2>3. QED
    BY <2>1, <2>2
<1>3. CASE RepSave(r)
  <2> DEFINE q == [rep[r] EXCEPT !.pc = "scan", !.cur = RepTo(r) + 1]
  <2>1. q \in RequestLocals
    BY <1>0 DEF RequestLocals
  <2>2. rep' = [rep EXCEPT ![r] = q]
    BY <1>3 DEF RepSave
  <2> HIDE DEF q
  <2>3. QED
    BY <2>1, <2>2
<1>4. CASE RepQueryFails(r)
  <2> DEFINE q == [rep[r] EXCEPT !.cur = RepTo(r) + 1, !.clean = FALSE]
  <2>1. q \in RequestLocals
    BY <1>0 DEF RequestLocals
  <2>2. rep' = [rep EXCEPT ![r] = q]
    BY <1>4 DEF RepQueryFails
  <2> HIDE DEF q
  <2>3. QED
    BY <2>1, <2>2
<1>5. CASE RepNextType(r)
  <2> DEFINE q == [rep[r] EXCEPT !.type = rep[r].type + 1, !.cur = rep[r].from]
  <2>1. rep[r].type + 1 \in TypeIndexes
    BY <1>0, <1>5, ConstantsAssumption DEF RepNextType, RequestLocals, TypeIndexes
  <2>2. q \in RequestLocals
    BY <1>0, <2>1 DEF RequestLocals
  <2>3. rep' = [rep EXCEPT ![r] = q]
    BY <1>5 DEF RepNextType
  <2> HIDE DEF q
  <2>4. QED
    BY <2>2, <2>3
<1>6. CASE RepFinish(r)
  <2> DEFINE q == [rep[r] EXCEPT !.pc = "done"]
  <2>1. q \in RequestLocals
    BY <1>0 DEF RequestLocals
  <2>2. rep' = [rep EXCEPT ![r] = q]
    BY <1>6 DEF RepFinish
  <2> HIDE DEF q
  <2>3. QED
    BY <2>1, <2>2
<1>7. QED
  BY <1>1, <1>2, <1>3, <1>4, <1>5, <1>6 DEF RepStep

LEMMA RepStepTypes ==
  ASSUME RTypeInv, NEW r \in Requests, RepStep(r)
  PROVE  RTypeInv'
<1>0. rep[r] \in RequestLocals /\ RepTo(r) \in Nat /\ LooseTypeOK
  BY RepRange DEF RTypeInv, TypeInv
<1>1. CASE SaveReset(r)
  <2>1. ResetBlock(rep[r].from) \in Nat \cup {-1}
    BY <1>0 DEF RequestLocals, ResetBlock
  <2>2. QED
    BY <1>0, <1>1, <2>1, SaveFacts, RequestTypes, RepStepLocals, LocalsStep
       DEF SaveReset, LooseTypeOK, ScanTypes, history, RTypeInv
<1>2. CASE RepQuery(r)
  <2>1. {rep[r].type} \X (rep[r].cur..RepTo(r)) \in SUBSET Cells
    BY <1>0, <1>2 DEF RepQuery, RepScanning, RequestLocals, Cells
  <2>2. LooseTypeOK'
    BY <1>0, <1>2, <2>1, ProcessEventsFacts DEF RepQuery, LooseTypeOK, ScanTypes
  <2>3. QED
    BY <1>2, <2>2, RequestTypes, RepStepLocals, LocalsStep DEF RepQuery, RTypeInv
<1>3. CASE RepSave(r)
  BY <1>0, <1>3, SaveFacts, RequestTypes, RepStepLocals, LocalsStep
     DEF RepSave, LooseTypeOK, ScanTypes, history, RTypeInv
<1>4. CASE RepQueryFails(r)
  BY <1>0, <1>4, FaultType, RequestTypes, RepStepLocals, LocalsStep
     DEF RepQueryFails, LooseTypeOK, ScanTypes, history, RTypeInv
<1>5. CASE RepNextType(r) \/ RepFinish(r)
  <2>1. TypeInv'
    BY <1>5, Stuttering DEF RepNextType, RepFinish, RTypeInv
  <2>2. QED
    BY <1>5, <2>1, RepStepLocals, LocalsStep
<1>6. QED
  BY <1>1, <1>2, <1>3, <1>4, <1>5 DEF RepStep

LEMMA RCrashTypes ==
  ASSUME RTypeInv, RCrash
  PROVE  RTypeInv'
<1>1. TypeInv'
  BY BootTypes DEF RCrash, RTypeInv
<1>2. ASSUME NEW r \in Requests
      PROVE  rep'[r] \in RequestLocals
  <2>1. rep'[r] = NotSent \/ rep'[r] = [NotSent EXCEPT !.pc = "lost"]
    BY DEF RCrash
  <2>2. 1 \in TypeIndexes
    BY ConstantsAssumption DEF TypeIndexes
  <2>3. NotSent \in RequestLocals
    BY <2>2 DEF NotSent, RequestLocals
  <2>4. [NotSent EXCEPT !.pc = "lost"] \in RequestLocals
    BY <2>3 DEF RequestLocals
  <2>5. QED
    BY <2>1, <2>3, <2>4
<1>3. rep' \in [Requests -> RequestLocals]
  BY <1>2 DEF RCrash
<1>4. QED
  BY <1>1, <1>2, <1>3 DEF RTypeInv

LEMMA RTypeInvariant == RSpec => []RTypeInv
<1>1. RInit => RTypeInv
  <2>1. 1 \in TypeIndexes
    BY ConstantsAssumption DEF TypeIndexes
  <2>2. NotSent \in RequestLocals
    BY <2>1 DEF NotSent, RequestLocals
  <2>3. QED
    BY <2>2, InitTypes DEF RInit, RTypeInv
<1>2. RTypeInv /\ [RNext]_rvars => RTypeInv'
  <2> SUFFICES ASSUME RTypeInv, [RNext]_rvars PROVE RTypeInv'
    OBVIOUS
  <2>1. CASE Listener \/ UNCHANGED rvars
    <3>1. TypeInv' /\ UNCHANGED rep
      BY <2>1, BootTypes, HistoricalTypes, PollingTypes, Stuttering DEF Listener, RTypeInv, rvars
    <3>2. QED
      BY <3>1 DEF RTypeInv
  <2>2. CASE RCrash
    BY <2>2, RCrashTypes
  <2>3. CASE \E r \in Requests : StartRequest(r) \/ RepStep(r)
    BY <2>3, StartTypes, RepStepTypes
  <2>4. QED
    BY <2>1, <2>2, <2>3 DEF RNext
<1>3. QED
  BY <1>1, <1>2, PTL DEF RSpec

\* The variables of the listener and of the requests keep their types: beside
\* block numbers the cursor and the checkpoint hold at most the -1 of a reset to
\* block 0, from which the polling loop and the next boot go on like from a block
\* number (reprocessEvents, the controller's reprocess routes).
THEOREM RequestTypesAreRight == RSpec => []RTypeOK
<1>1. RTypeInv => RTypeOK
  BY DEF RTypeInv, TypeInv, LooseTypeOK, RTypeOK, Positions, ResetBlock
<1>2. QED
  BY RTypeInvariant, <1>1, PTL

-----------------------------------------------------------------------------
(***************************************************************************)
(* What is handed over stays handed over: a step hands cells over, gives   *)
(* cells up that were not, or does neither.                                *)
(***************************************************************************)

HistoryMoves ==
  \/ \E cells : ProcessEvents(cells)
  \/ \E cells : GiveUp(cells)
  \/ UNCHANGED history

Apart == delivered \cap skipped = {}

LEMMA ListenerMoves ==
  ASSUME NewBlock \/ Boot \/ Crash \/ Historical \/ Polling
  PROVE  HistoryMoves
<1>1. CASE NewBlock \/ Boot \/ Crash
  BY <1>1 DEF NewBlock, Boot, Crash, HistoryMoves
<1>2. CASE HistQuery
  BY <1>2 DEF HistQuery, HistoryMoves
<1>3. CASE HistQueryHalf
  BY <1>3 DEF HistQueryHalf, HistoryMoves
<1>4. CASE HistPruned
  BY <1>4 DEF HistPruned, HistoryMoves
<1>5. CASE HistPrunedJump
  BY <1>5 DEF HistPrunedJump, HistoryMoves
<1>6. CASE HistAbandonType
  BY <1>6 DEF HistAbandonType, HistoryMoves
<1>7. CASE HistNextType
  BY <1>7 DEF HistNextType, HistoryMoves
<1>8. CASE HistHead \/ HistHeadFails \/ HistSaveJump \/ HistFinish \/ HistSave
  BY <1>8 DEF HistHead, HistHeadFails, HistSaveJump, HistFinish, HistSave, HistoryMoves
<1>9. CASE PollQuery
  BY <1>9 DEF PollQuery, HistoryMoves
<1>10. CASE PollTick \/ PollQueryFails \/ PollNextType \/ PollFinish \/ PollSave
  BY <1>10 DEF PollTick, PollQueryFails, PollNextType, PollFinish, PollSave, HistoryMoves
<1>11. QED
  BY <1>1, <1>2, <1>3, <1>4, <1>5, <1>6, <1>7, <1>8, <1>9, <1>10 DEF Historical, Polling

LEMMA RequestMoves ==
  ASSUME NEW r \in Requests, StartRequest(r) \/ RepStep(r)
  PROVE  HistoryMoves
<1>1. CASE RepQuery(r)
  BY <1>1 DEF RepQuery, HistoryMoves
<1>2. CASE StartRequest(r) \/ SaveReset(r) \/ RepSave(r) \/ RepQueryFails(r)
  BY <1>2 DEF StartRequest, SaveReset, RepSave, RepQueryFails, HistoryMoves
<1>3. CASE RepNextType(r) \/ RepFinish(r)
  BY <1>3 DEF RepNextType, RepFinish, vars, history, HistoryMoves
<1>4. QED
  BY <1>1, <1>2, <1>3 DEF RepStep

LEMMA EveryStepMoves ==
  ASSUME [RNext]_rvars
  PROVE  HistoryMoves
<1>1. CASE Listener \/ RCrash
  BY <1>1, ListenerMoves DEF Listener, RCrash
<1>2. CASE \E r \in Requests : StartRequest(r) \/ RepStep(r)
  BY <1>2, RequestMoves
<1>3. CASE UNCHANGED rvars
  BY <1>3 DEF rvars, vars, history, HistoryMoves
<1>4. QED
  BY <1>1, <1>2, <1>3 DEF RNext

LEMMA MovesGrow ==
  ASSUME HistoryMoves
  PROVE  HistoryGrows /\ (Apart => Apart')
<1>1. CASE \E cells : ProcessEvents(cells)
  BY <1>1 DEF ProcessEvents, HistoryGrows, Apart
<1>2. CASE \E cells : GiveUp(cells)
  BY <1>2 DEF GiveUp, HistoryGrows, Apart
<1>3. CASE UNCHANGED history
  BY <1>3 DEF history, HistoryGrows, Apart
<1>4. QED
  BY <1>1, <1>2, <1>3 DEF HistoryMoves

-----------------------------------------------------------------------------
(***************************************************************************)
(* Polls                                                                   *)
(***************************************************************************)

LEMMA PollProgressStep ==
  ASSUME RTypeInv, RTypeInv', PollProgress, [RNext]_rvars
  PROVE  PollProgress'
<1>1. HistoryGrows
  BY EveryStepMoves, MovesGrow
<1>2. CASE UNCHANGED poll
  BY <1>1, <1>2 DEF PollProgress, PolledUpTo, HistoryGrows
<1>3. CASE Polling
  BY <1>3, PollingProgress DEF RTypeInv
<1>4. CASE Boot \/ Crash
  BY <1>4 DEF Boot, Crash, NoPoll, PollProgress
<1>5. UNCHANGED poll \/ Polling \/ Boot \/ Crash
  <2>1. CASE NewBlock \/ Historical
    BY <2>1 DEF NewBlock, Historical, HistHead, HistHeadFails, HistQuery, HistQueryHalf, HistPruned,
                HistPrunedJump, HistSaveJump, HistAbandonType, HistNextType, HistFinish, HistSave
  <2>2. CASE \E r \in Requests : StartRequest(r) \/ RepStep(r)
    BY <2>2 DEF StartRequest, RepStep, SaveReset, RepQuery, RepSave, RepQueryFails, RepNextType,
                RepFinish, vars
  <2>3. QED
    BY <2>1, <2>2 DEF RNext, Listener, RCrash, rvars, vars
<1>6. QED
  BY <1>2, <1>3, <1>4, <1>5

LEMMA PollProgressInvariant == RSpec => []PollProgress
<1>1. RInit => PollProgress
  BY DEF RInit, Init, NoPoll, PollProgress
<1>2. QED
  BY <1>1, RTypeInvariant, PollProgressStep, PTL DEF RSpec

\* A poll works on the range it captured: whatever requests make of the shared
\* cursor meanwhile, every block of the range it commits was handed over for
\* every event type (pollContractEvents, firstFailedBlock).
THEOREM PollsCommitTheirRange == RSpec => PollCommitsItsRange
<1> DEFINE Commit == poll.pc = "scan" /\ poll'.pc = "save" =>
              Types \X (poll.start..lastProcessedBlock') \subseteq delivered
<1>1. ASSUME RTypeInv, PollProgress, [RNext]_rvars, poll.pc = "scan", poll'.pc = "save"
      PROVE  Types \X (poll.start..lastProcessedBlock') \subseteq delivered
  <2>1. poll \in PollLocals /\ poll' # poll
    BY <1>1 DEF RTypeInv, TypeInv, LooseTypeOK, ScanTypes
  <2>2. ~(NewBlock \/ Historical)
    BY <2>1 DEF NewBlock, Historical, HistHead, HistHeadFails, HistQuery, HistQueryHalf, HistPruned,
                HistPrunedJump, HistSaveJump, HistAbandonType, HistNextType, HistFinish, HistSave
  <2>3. ~(\E r \in Requests : StartRequest(r) \/ RepStep(r))
    BY <2>1 DEF StartRequest, RepStep, SaveReset, RepQuery, RepSave, RepQueryFails, RepNextType,
                RepFinish, vars
  <2>4. ~(Boot \/ Crash)
    BY <1>1 DEF Boot, Crash, NoPoll
  <2>5. Polling
    BY <1>1, <2>1, <2>2, <2>3, <2>4 DEF RNext, Listener, RCrash, rvars, vars
  <2>6. PollFinish
    BY <1>1, <2>1, <2>5 DEF Polling, PollTick, PollMayStart, PollQuery, PollQueryFails, PollNextType, PollSave,
                       NoPoll, PollLocals
  <2>7. poll.type > NumTypes /\ lastProcessedBlock' = SafeBlock
    BY <1>1, <2>6 DEF PollFinish, NoPoll
  <2>8. QED
    BY <1>1, <2>7, PollCompletes DEF RTypeInv
<1>2. RTypeInv /\ PollProgress /\ [RNext]_rvars => [Commit]_rvars
  BY <1>1
<1> HIDE DEF Commit
<1>3. RSpec => [][Commit]_rvars
  BY RTypeInvariant, PollProgressInvariant, <1>2, PTL DEF RSpec
<1>4. QED
  BY <1>3 DEF PollCommitsItsRange, Commit

-----------------------------------------------------------------------------
(***************************************************************************)
(* Requests                                                                *)
(***************************************************************************)

AllOf(r, t) == {t} \X (rep[r].from..rep[r].end)

\* What the position of a request none of whose batches failed says of the
\* blocks behind it: the types done, the current one, the batch being saved.
RepProgress(r) ==
  rep[r].pc \in {"reset", "scan", "save"} /\ rep[r].clean =>
    /\ \A t \in rep[r].names : t < rep[r].type => AllOf(r, t) \subseteq delivered
    /\ rep[r].type \in rep[r].names =>
         {rep[r].type} \X (rep[r].from..(rep[r].cur - 1)) \subseteq delivered
    /\ rep[r].pc = "save" => {rep[r].type} \X (rep[r].cur..RepTo(r)) \subseteq delivered

LEMMA ProgressKept ==
  ASSUME NEW r \in Requests, RepProgress(r), HistoryGrows, rep'[r] = rep[r]
  PROVE  RepProgress(r)'
  BY DEF RepProgress, HistoryGrows, RepTo, AllOf

LEMMA StartProgress ==
  ASSUME RTypeInv, NEW r \in Requests, StartRequest(r)
  PROVE  RepProgress(r)'
<1>1. rep \in [Requests -> RequestLocals]
  BY DEF RTypeInv
<1>2. PICK from \in Blocks, to \in Blocks, h \in ReportedHeads,
           names \in SUBSET Types, reset \in BOOLEAN :
        rep' = [rep EXCEPT ![r] =
                    [pc |-> IF reset THEN "reset" ELSE "scan", from |-> from,
                     end |-> Min2(to, h), names |-> names, type |-> 1, cur |-> from, clean |-> TRUE]]
  BY DEF StartRequest
<1>3. rep'[r].pc # "save" /\ rep'[r].type = 1 /\ rep'[r].names \subseteq 1..NumTypes
      /\ rep'[r].cur = from /\ rep'[r].from = from
  BY <1>1, <1>2 DEF Types
<1>4. from..(from - 1) = {}
  BY DEF Blocks
<1>5. \A t \in rep'[r].names : ~(t < rep'[r].type)
  BY <1>3
<1>6. rep'[r].from..(rep'[r].cur - 1) = {}
  BY <1>3, <1>4
<1>7. QED
  BY <1>3, <1>5, <1>6 DEF RepProgress

LEMMA RepQueryProgress ==
  ASSUME RTypeInv, NEW r \in Requests, RepProgress(r), RepQuery(r), HistoryGrows
  PROVE  RepProgress(r)'
<1>1. rep \in [Requests -> RequestLocals] /\ rep[r] \in RequestLocals
  BY DEF RTypeInv
<1>2. /\ rep'[r].pc = "save" /\ rep'[r].type = rep[r].type /\ rep'[r].cur = rep[r].cur
      /\ rep'[r].from = rep[r].from /\ rep'[r].end = rep[r].end /\ rep'[r].names = rep[r].names
      /\ rep'[r].clean = rep[r].clean /\ rep[r].pc = "scan"
  BY <1>1 DEF RepQuery, RepScanning, RequestLocals
<1>3. {rep[r].type} \X (rep[r].cur..RepTo(r)) \subseteq delivered'
  BY DEF RepQuery, ProcessEvents
<1>4. RepTo(r)' = RepTo(r)
  BY <1>2 DEF RepTo
<1>5. QED
  BY <1>2, <1>3, <1>4 DEF RepProgress, AllOf, HistoryGrows

LEMMA RepSaveProgress ==
  ASSUME RTypeInv, NEW r \in Requests, RepProgress(r), RepSave(r), HistoryGrows
  PROVE  RepProgress(r)'
<1>1. rep \in [Requests -> RequestLocals] /\ rep[r] \in RequestLocals /\ RepTo(r) \in Nat
  BY RepRange DEF RTypeInv
<1>2. /\ rep'[r].pc = "scan" /\ rep'[r].type = rep[r].type /\ rep'[r].cur = RepTo(r) + 1
      /\ rep'[r].from = rep[r].from /\ rep'[r].end = rep[r].end /\ rep'[r].names = rep[r].names
      /\ rep'[r].clean = rep[r].clean /\ rep[r].pc = "save"
  BY <1>1 DEF RepSave, RequestLocals
<1>3. ASSUME rep[r].clean, rep[r].type \in rep[r].names,
             NEW b \in rep[r].from..(RepTo(r) + 1 - 1)
      PROVE  <<rep[r].type, b>> \in delivered
  <2>1. b \in rep[r].from..(rep[r].cur - 1) \/ b \in rep[r].cur..RepTo(r)
    BY <1>1 DEF RequestLocals
  <2>2. QED
    BY <1>2, <1>3, <2>1 DEF RepProgress
<1>4. rep[r].clean /\ rep[r].type \in rep[r].names =>
        {rep[r].type} \X (rep[r].from..(RepTo(r) + 1 - 1)) \subseteq delivered'
  BY <1>3 DEF HistoryGrows
<1>5. rep'[r].clean /\ rep'[r].type \in rep'[r].names =>
        {rep'[r].type} \X (rep'[r].from..(rep'[r].cur - 1)) \subseteq delivered'
  <2>1. rep'[r].cur - 1 = RepTo(r) /\ RepTo(r) + 1 - 1 = RepTo(r)
    BY <1>1, <1>2
  <2>2. QED
    BY <1>2, <1>4, <2>1
<1>6. \A t : AllOf(r, t)' = AllOf(r, t)
  BY <1>2 DEF AllOf
<1>7. QED
  BY <1>2, <1>5, <1>6 DEF RepProgress, HistoryGrows

LEMMA RepNextTypeProgress ==
  ASSUME RTypeInv, NEW r \in Requests, RepProgress(r), RepNextType(r), HistoryGrows
  PROVE  RepProgress(r)'
<1>1. rep \in [Requests -> RequestLocals] /\ rep[r] \in RequestLocals
  BY DEF RTypeInv
<1>2. /\ rep'[r].pc = "scan" /\ rep'[r].type = rep[r].type + 1 /\ rep'[r].cur = rep[r].from
      /\ rep'[r].from = rep[r].from /\ rep'[r].end = rep[r].end /\ rep'[r].names = rep[r].names
      /\ rep'[r].clean = rep[r].clean /\ rep[r].pc = "scan"
  BY <1>1 DEF RepNextType, RequestLocals
<1>3. rep[r].from..(rep[r].from - 1) = {}
  BY <1>1 DEF RequestLocals
<1>4. ASSUME rep[r].clean, NEW t \in rep[r].names, t < rep[r].type + 1
      PROVE  AllOf(r, t) \subseteq delivered
  <2>1. CASE t < rep[r].type
    BY <1>2, <1>4, <2>1 DEF RepProgress
  <2>2. CASE t = rep[r].type
    <3>1. rep[r].cur > rep[r].end
      BY <1>1, <1>2, <2>2 DEF RepNextType, RepScanning, MoreBlocks, RequestLocals
    <3>2. rep[r].from..rep[r].end \subseteq rep[r].from..(rep[r].cur - 1)
      BY <1>1, <3>1 DEF RequestLocals
    <3>3. QED
      BY <1>2, <1>4, <2>2, <3>2 DEF RepProgress, AllOf
  <2>3. t \in Nat /\ rep[r].type \in Nat
    BY <1>1, <1>4 DEF RequestLocals, Types, TypeIndexes
  <2>4. QED
    BY <1>4, <2>1, <2>2, <2>3
<1>5. \A t : AllOf(r, t)' = AllOf(r, t)
  BY <1>2 DEF AllOf
<1>6. QED
  BY <1>2, <1>3, <1>4, <1>5 DEF RepProgress, HistoryGrows

LEMMA RepStepProgress ==
  ASSUME RTypeInv, NEW r \in Requests, RepProgress(r), RepStep(r), HistoryGrows
  PROVE  RepProgress(r)'
<1>1. rep \in [Requests -> RequestLocals] /\ rep[r] \in RequestLocals
  BY DEF RTypeInv
<1>2. CASE SaveReset(r)
  <2>1. /\ rep'[r].pc = "scan" /\ rep'[r].type = rep[r].type /\ rep'[r].cur = rep[r].cur
        /\ rep'[r].from = rep[r].from /\ rep'[r].end = rep[r].end /\ rep'[r].names = rep[r].names
        /\ rep'[r].clean = rep[r].clean /\ rep[r].pc = "reset"
    BY <1>1, <1>2 DEF SaveReset, RequestLocals
  <2>2. QED
    BY <2>1 DEF RepProgress, AllOf, HistoryGrows
<1>3. CASE RepQueryFails(r)
  BY <1>1, <1>3 DEF RepQueryFails, RepProgress, RequestLocals
<1>4. CASE RepFinish(r)
  BY <1>1, <1>4 DEF RepFinish, RepProgress, RequestLocals
<1>5. QED
  BY <1>2, <1>3, <1>4, RepQueryProgress, RepSaveProgress, RepNextTypeProgress DEF RepStep

RepInv == \A r \in Requests : RepProgress(r)

\* A request's own step, another's, and the end of all of them in a crash.
LEMMA RepInvStep ==
  ASSUME RTypeInv, RepInv, [RNext]_rvars
  PROVE  RepInv'
<1>1. HistoryGrows
  BY EveryStepMoves, MovesGrow
<1>2. CASE UNCHANGED rep
  BY <1>1, <1>2, ProgressKept DEF RepInv
<1>3. CASE RCrash
  <2> SUFFICES ASSUME NEW r \in Requests PROVE RepProgress(r)'
    BY DEF RepInv
  <2>1. rep'[r] = NotSent \/ rep'[r] = [NotSent EXCEPT !.pc = "lost"]
    BY <1>3 DEF RCrash
  <2>2. rep'[r].pc \in {"new", "lost"}
    BY <2>1 DEF NotSent
  <2>3. QED
    BY <2>2 DEF RepProgress
<1>4. ASSUME NEW r \in Requests, StartRequest(r) \/ RepStep(r)
      PROVE  RepInv'
  <2> SUFFICES ASSUME NEW s \in Requests PROVE RepProgress(s)'
    BY DEF RepInv
  <2>1. RepProgress(s)
    BY DEF RepInv
  <2>2. CASE s = r
    BY <1>1, <1>4, <2>1, <2>2, StartProgress, RepStepProgress
  <2>3. CASE s # r
    <3>1. rep'[s] = rep[s]
      BY <1>4, <2>3 DEF RTypeInv, StartRequest, RepStep, SaveReset, RepQuery, RepSave, RepQueryFails,
                        RepNextType, RepFinish
    <3>2. QED
      BY <1>1, <2>1, <3>1, ProgressKept
  <2>4. QED
    BY <2>2, <2>3
<1>5. QED
  BY <1>2, <1>3, <1>4 DEF RNext, Listener, rvars

LEMMA RepInvariant == RSpec => [](RepInv /\ Apart)
<1>1. RInit => RepInv /\ Apart
  BY DEF RInit, Init, NotSent, RepInv, RepProgress, Apart
<1>2. RTypeInv /\ RepInv /\ Apart /\ [RNext]_rvars => (RepInv /\ Apart)'
  BY RepInvStep, EveryStepMoves, MovesGrow
<1>3. QED
  BY <1>1, <1>2, RTypeInvariant, PTL DEF RSpec

\* A request that finishes without a failed batch has handed over every block
\* of its range for every type it names, and what the historical scan had
\* given up there is no longer missing, however the scan, the loop, other
\* requests and lost saves come in between (reprocessEvents).
THEOREM RequestsRestoreTheirRange == RSpec => ReprocessRestoresRange
<1> DEFINE Restored == \A r \in Requests : rep[r].pc = "scan" /\ rep'[r].pc = "done" /\ rep[r].clean =>
              /\ rep[r].names \X (rep[r].from..rep[r].end) \subseteq delivered
              /\ skipped \cap (rep[r].names \X (rep[r].from..rep[r].end)) = {}
<1>1. ASSUME RTypeInv, RepInv, Apart, [RNext]_rvars, NEW r \in Requests,
             rep[r].pc = "scan", rep'[r].pc = "done", rep[r].clean
      PROVE  /\ rep[r].names \X (rep[r].from..rep[r].end) \subseteq delivered
             /\ skipped \cap (rep[r].names \X (rep[r].from..rep[r].end)) = {}
  <2>1. rep[r] \in RequestLocals /\ rep \in [Requests -> RequestLocals]
    BY <1>1 DEF RTypeInv
  <2>2. rep' # rep /\ ~Listener /\ ~UNCHANGED rvars
    BY <1>1 DEF Listener, rvars
  <2>3. ~RCrash
    BY <1>1 DEF RCrash, NotSent
  <2>4. PICK s \in Requests : StartRequest(s) \/ RepStep(s)
    BY <1>1, <2>2, <2>3 DEF RNext
  <2>5. s = r
    BY <1>1, <2>1, <2>4 DEF StartRequest, RepStep, SaveReset, RepQuery, RepSave, RepQueryFails, RepNextType,
                            RepFinish
  <2>6. RepFinish(r)
    BY <1>1, <2>1, <2>4, <2>5 DEF StartRequest, RepStep, SaveReset, RepQuery, RepSave, RepQueryFails,
                                  RepNextType, RequestLocals
  <2>7. \A t \in rep[r].names : t < rep[r].type
    BY <2>1, <2>6, ConstantsAssumption DEF RepFinish, RequestLocals, Types, TypeIndexes
  <2>8. \A t \in rep[r].names : AllOf(r, t) \subseteq delivered
    BY <1>1, <2>7 DEF RepInv, RepProgress
  <2>9. rep[r].names \X (rep[r].from..rep[r].end) \subseteq delivered
    BY <2>8 DEF AllOf
  <2>10. QED
    BY <1>1, <2>9 DEF Apart
<1>2. RTypeInv /\ RepInv /\ Apart /\ [RNext]_rvars => [Restored]_rvars
  BY <1>1
<1> HIDE DEF Restored
<1>3. RSpec => [][Restored]_rvars
  BY RTypeInvariant, RepInvariant, <1>2, PTL DEF RSpec
<1>4. QED
  BY <1>3 DEF ReprocessRestoresRange, Restored
=============================================================================
