----------------------------- MODULE Reprocess -----------------------------
(***************************************************************************)
(* ContractManager together with reprocessEvents, the administrator's      *)
(* request to go over a block range again.  The controller starts it with  *)
(* setImmediate, so requests run interleaved with the historical scan, the *)
(* polling loop and each other, and no flag keeps them off the cursor.     *)
(***************************************************************************)
EXTENDS ContractManager

CONSTANTS
  Requests,   \* bound: the requests of a behaviour, each sent once
  RepBatch    \* the batch size of a reprocessing query

ASSUME ReprocessAssumption == RepBatch \in Nat \ {0}

VARIABLE rep   \* locals of each call of reprocessEvents

rvars == <<vars, rep>>

NotSent == [pc |-> "new", from |-> 0, end |-> 0, names |-> {}, type |-> 1, cur |-> 0,
            clean |-> TRUE]

RInit == Init /\ rep = [r \in Requests |-> NotSent]

ResetBlock(from) == from - 1

\* POST /listener/reprocess (and reprocess-from-start, which omits every
\* option but the reset).  An omitted fromBlock is StartBlock, an omitted
\* toBlock the head, omitted or no eventNames all types; names that no event has
\* leave none to go over.  The range ends at the head the node reports.  A reset
\* moves the shared cursor before anything is read: to -1 when fromBlock is 0.
StartRequest(r) ==
  /\ isListening
  /\ rep[r].pc = "new"
  /\ \E from \in Blocks, to \in Blocks, h \in ReportedHeads, names \in SUBSET Types, reset \in BOOLEAN :
       /\ from <= Min2(to, h)
       /\ rep' = [rep EXCEPT ![r] =
                   [pc |-> IF reset THEN "reset" ELSE "scan", from |-> from,
                    end |-> Min2(to, h), names |-> names, type |-> 1, cur |-> from, clean |-> TRUE]]
       /\ lastProcessedBlock' = IF reset THEN ResetBlock(from) ELSE lastProcessedBlock
  /\ UNCHANGED <<head, checkpoint, isListening, isProcessingHistorical, hist, poll, history, faults>>

SaveReset(r) ==
  /\ rep[r].pc = "reset"
  /\ SaveLastProcessedBlock(ResetBlock(rep[r].from))
  /\ rep' = [rep EXCEPT ![r].pc = "scan"]
  /\ UNCHANGED <<head, isListening, lastProcessedBlock, isProcessingHistorical, hist, poll, history>>

MoreBeforeEnd(r) == rep[r].cur < rep[r].end
MoreBlocks(r)    == rep[r].cur <= rep[r].end

RepScanning(r) ==
  /\ rep[r].pc = "scan"
  /\ rep[r].type \in rep[r].names
  /\ MoreBlocks(r)

RepTo(r) == Min2(rep[r].cur + RepBatch - 1, rep[r].end)

\* Each batch of each event type sets the shared cursor to its own end.
RepQuery(r) ==
  /\ RepScanning(r)
  /\ ProcessEvents({rep[r].type} \X (rep[r].cur..RepTo(r)))
  /\ lastProcessedBlock' = RepTo(r)
  /\ rep' = [rep EXCEPT ![r].pc = "save"]
  /\ UNCHANGED <<head, checkpoint, isListening, isProcessingHistorical, hist, poll>>

RepSave(r) ==
  /\ rep[r].pc = "save"
  /\ SaveLastProcessedBlock(RepTo(r))
  /\ rep' = [rep EXCEPT ![r].pc = "scan", ![r].cur = RepTo(r) + 1]
  /\ UNCHANGED <<head, isListening, lastProcessedBlock, isProcessingHistorical, hist, poll, history>>

\* A failed batch is logged and passed over.
RepQueryFails(r) ==
  /\ RepScanning(r)
  /\ Fault
  /\ rep' = [rep EXCEPT ![r].cur = RepTo(r) + 1, ![r].clean = FALSE]
  /\ UNCHANGED <<head, checkpoint, isListening, lastProcessedBlock, isProcessingHistorical,
                 hist, poll, history>>

RepNextType(r) ==
  /\ rep[r].pc = "scan"
  /\ rep[r].type <= NumTypes
  /\ ~RepScanning(r)
  /\ rep' = [rep EXCEPT ![r].type = @ + 1, ![r].cur = rep[r].from]
  /\ UNCHANGED vars

RepFinish(r) ==
  /\ rep[r].pc = "scan"
  /\ rep[r].type > NumTypes
  /\ rep' = [rep EXCEPT ![r].pc = "done"]
  /\ UNCHANGED vars

RepStep(r) ==
  \/ SaveReset(r) \/ RepQuery(r) \/ RepSave(r)
  \/ RepQueryFails(r) \/ RepNextType(r) \/ RepFinish(r)

\* A crash takes the background calls with it.
RCrash ==
  /\ Crash
  /\ rep' = [r \in Requests |-> IF rep[r].pc = "new" THEN NotSent ELSE [NotSent EXCEPT !.pc = "lost"]]

Listener == (NewBlock \/ Boot \/ Historical \/ Polling) /\ UNCHANGED rep

RNext == Listener \/ RCrash \/ \E r \in Requests : StartRequest(r) \/ RepStep(r)

RSpec == RInit /\ [][RNext]_rvars

\* Background calls run on like the loop; nobody has to send a request.
RLiveSpec ==
  /\ RSpec
  /\ WF_rvars(Boot /\ UNCHANGED rep)
  /\ WF_rvars(Historical /\ UNCHANGED rep)
  /\ WF_rvars(Polling /\ UNCHANGED rep)
  /\ \A r \in Requests : WF_rvars(RepStep(r))

-----------------------------------------------------------------------------
(***************************************************************************)
(* Properties                                                              *)
(***************************************************************************)

RequestLocals ==
  [pc : {"new", "reset", "scan", "save", "done", "lost"}, from : Nat, end : Nat,
   names : SUBSET Types, type : TypeIndexes, cur : Nat, clean : BOOLEAN]

\* A block number, or -1 after a reset to block 0.
Positions == Nat \cup {ResetBlock(0)}

\* Types of all variables: beside block numbers, a reset may leave -1 in the
\* cursor and in the checkpoint, and nothing else ever does.
RTypeOK ==
  /\ ScanTypes
  /\ checkpoint \in Positions
  /\ lastProcessedBlock \in Positions
  /\ rep \in [Requests -> RequestLocals]

\* However the requests move the cursor under it, a poll commits only blocks
\* that it has itself handed to the handlers for every event type: it works on
\* the startBlock it captured, not on the shared cursor (pollContractEvents).
PollCommitsItsRange ==
  [][poll.pc = "scan" /\ poll'.pc = "save" =>
       Types \X (poll.start..lastProcessedBlock') \subseteq delivered]_rvars

\* A request none of whose batches failed has handed every block of its range
\* to the handlers, for every type it names: what the historical scan had
\* given up there is made good (reprocessEvents).
ReprocessRestoresRange ==
  [][\A r \in Requests : rep[r].pc = "scan" /\ rep'[r].pc = "done" /\ rep[r].clean =>
       /\ rep[r].names \X (rep[r].from..rep[r].end) \subseteq delivered
       /\ skipped \cap (rep[r].names \X (rep[r].from..rep[r].end)) = {}]_rvars

\* Requests that set the cursor back or forth, even while the loop is in the
\* middle of a poll, do not stop it from reaching the head again.
LoopSurvivesReprocess == <>[](isListening /\ lastProcessedBlock >= head)

-----------------------------------------------------------------------------
\* reprocessEvents: "ensures no events are missed by reprocessing from a given
\* start block".  With everything at rest and no fault at all, no block behind
\* the cursor is still to be scanned for some event type.
ReprocessMissesNothing ==
  isListening /\ hist.pc = "idle" /\ poll.pc = "idle"
    /\ (\A r \in Requests : rep[r].pc \in {"new", "done"}) =>
      AccountedUpTo(lastProcessedBlock)
=============================================================================
