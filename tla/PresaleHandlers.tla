-------------------------- MODULE PresaleHandlers --------------------------
(***************************************************************************)
(* The handlers of the presale contract's events and the ledger they keep  *)
(* in the database: the buyers' balances (presale_users), the transactions *)
(* (presale_txs), the vesting schedules, the activity feed and the markers *)
(* of processed events (listener_states).  The certificate a purchase is   *)
(* mailed is the subject of module Certificates.                           *)
(* No handler uses a database transaction, so each write is a step of its  *)
(* own, after which the process may die or another handler may run.        *)
(*                                                                         *)
(* Workers are the callers of processEvents: the loop (historical scan and *)
(* polling, which exclude each other) and the reprocessing requests.  Each *)
(* scan hands over its range one event type after the other.  Amounts are  *)
(* whole units of 10^-6 token, the precision the handlers round to; USD    *)
(* amounts move with the token amounts and are left out.                   *)
(***************************************************************************)
EXTENDS Integers, Sequences, FiniteSets, FiniteSetsExt, Functions

CONSTANTS
  Wallets,
  TxHashes,
  ScheduleIds,
  Log,          \* bound: the contract's events in chain order
  Requests,     \* bound: the reprocessing requests of a behaviour, each sent once
  RequestKinds, \* bound: the sets of event types a request may name
  Loop,         \* the historical scan and the polling loop
  MayOverlap,   \* bound: whether two workers may have a scan in progress at once
  MaxFaults,    \* bound: failed database and RPC calls, and crashes
  MaxResets     \* bound: calls of resetEventState

Kinds == {"Bought", "Claimed", "VestingScheduleCreated"}

ASSUME HandlersAssumption ==
  /\ Log \in Seq([kind : Kinds, wallet : Wallets, tokens : Nat \ {0},
                  tx : TxHashes, schedule : ScheduleIds])
  /\ IsFiniteSet(Wallets) /\ IsFiniteSet(ScheduleIds)
  /\ Loop \notin Requests
  /\ RequestKinds \subseteq SUBSET Kinds
  /\ MayOverlap \in BOOLEAN
  /\ MaxFaults \in Nat
  /\ MaxResets \in Nat

\* The contract announces a schedule once: no two events of the log set the
\* total of the same schedule.
ASSUME SchedulesAnnouncedOnce ==
  \A e, f \in 1..Len(Log) :
    /\ Log[e].kind = "VestingScheduleCreated" /\ Log[f].kind = "VestingScheduleCreated"
    /\ Log[e].wallet = Log[f].wallet /\ Log[e].schedule = Log[f].schedule
    => e = f

VARIABLES
  emitted,          \* how much of Log the chain holds
  cursor,           \* how much of Log the loop has gone through
  presaleUser,      \* the balances of each wallet's row
  presaleTx,        \* the row of each transaction hash
  vestingSchedule,  \* the row of each wallet and schedule id; total 0: no row
  listenerState,    \* the events marked as processed
  recentActivity,   \* activity rows written for each event
  job,              \* locals of each worker
  counted,          \* history: how often an event was applied to the balances
  claimCreated,     \* history: wallets whose row was created by a claim
  dropped,          \* history: events a handler threw on
  resets,           \* how much of MaxResets is used up
  faults            \* how much of MaxFaults is used up

ledger == <<presaleUser, presaleTx, vestingSchedule, recentActivity, counted, claimCreated>>
vars   == <<emitted, cursor, ledger, listenerState, job, dropped, resets, faults>>

Workers   == {Loop} \cup Requests
Events    == 1..Len(Log)
Schedules == Wallets \X ScheduleIds

NoUser == [exists |-> FALSE, purchased |-> 0, claimed |-> 0, unclaimed |-> 0]
NoTx   == [type |-> "none", wallet |-> "none", tokens |-> 0]
NoSchedules == [s \in Schedules |-> [total |-> 0, claimed |-> 0]]

\* A worker that is not in a handler.
Between(pc, todo, upto) ==
  [pc |-> pc, event |-> 0, todo |-> todo, upto |-> upto,
   snap |-> NoSchedules, left |-> {}, open |-> 0]

Idle == Between("idle", {}, 0)
Done == Between("done", {}, 0)

Fault == faults < MaxFaults /\ faults' = faults + 1

Event(w)  == Log[job[w].event]
At(w, pc, kind) == job[w].pc = pc /\ Event(w).kind = kind
GoTo(w, pc) == job' = [job EXCEPT ![w].pc = pc]

\* A worker between two scans: the loop starts another, a request is over.
StoppedForGood(w) == Done
Stopped(w) == IF w = Loop THEN Idle ELSE Done

\* The handler returns, or throws, and the worker takes the next event.
Return(w) ==
  job' = [job EXCEPT ![w] = Between("next", job[w].todo, job[w].upto)]

-----------------------------------------------------------------------------
(***************************************************************************)
(* Scans: which events a worker hands to the handlers, and in which order  *)
(***************************************************************************)

Emit ==
  /\ emitted < Len(Log)
  /\ emitted' = emitted + 1
  /\ UNCHANGED <<cursor, ledger, listenerState, job, dropped, resets, faults>>

\* The order of config.events.
Rank(kind) == CASE kind = "Bought" -> 1 [] kind = "Claimed" -> 2 [] OTHER -> 3

\* One event type after the other, each in chain order.
Before(e, f) ==
  \/ Rank(Log[e].kind) < Rank(Log[f].kind)
  \/ Rank(Log[e].kind) = Rank(Log[f].kind) /\ e <= f

First(events) == CHOOSE e \in events : \A f \in events : Before(e, f)

Resting(w) == job[w].pc \in {"idle", "done"}

MayStart(w) ==
  /\ job[w].pc = "idle"
  /\ MayOverlap \/ \A v \in Workers : Resting(v)

NewEventsButOne(upto) == (cursor + 2)..upto
NewEvents(upto)       == (cursor + 1)..upto

LoopScan ==
  /\ MayStart(Loop)
  /\ \E upto \in (cursor + 1)..emitted :
       job' = [job EXCEPT ![Loop] = Between("next", NewEvents(upto), upto)]
  /\ UNCHANGED <<emitted, cursor, ledger, listenerState, dropped, resets, faults>>

RewoundTooFar(from) == from - 2
Rewound(from)       == from - 1

\* A request goes over a range again, for some of the event types, and may
\* first reset the cursor to the start of it.  It leaves the cursor at the end
\* (module Reprocess has its moves in between, batch by batch).
RequestScan(w) ==
  /\ MayStart(w)
  /\ \E from, upto \in 1..emitted, kinds \in RequestKinds :
       /\ from <= upto
       /\ LET todo == {e \in from..upto : Log[e].kind \in kinds}
          IN job' = [job EXCEPT ![w] = Between("next", todo, upto)]
       /\ cursor' \in {cursor, Rewound(from)}
  /\ UNCHANGED <<emitted, ledger, listenerState, dropped, resets, faults>>

ScanDone(w) ==
  /\ job[w].pc = "next"
  /\ job[w].todo = {}
  /\ job' = [job EXCEPT ![w] = Stopped(w)]
  /\ cursor' = job[w].upto
  /\ UNCHANGED <<emitted, ledger, listenerState, dropped, resets, faults>>

-----------------------------------------------------------------------------
(***************************************************************************)
(* Steps the handlers share.  A step is one database write; a write that   *)
(* fails throws, and processEvents goes on with the next event.            *)
(***************************************************************************)

MarkedFirst(kind) == "mark"
MarkedLast(kind)  == "user"
FirstWrite(kind)  == IF kind = "Claimed" THEN "mark" ELSE "user"

NeverProcessed(e)   == FALSE
AlreadyProcessed(e) == e \in listenerState

\* isEventProcessed, and the block's timestamp; either read may fail.
Take(w) ==
  /\ job[w].pc = "next"
  /\ job[w].todo # {}
  /\ LET e == First(job[w].todo)
         skip == job' = [job EXCEPT ![w].todo = @ \ {e}]
     IN \/ AlreadyProcessed(e) /\ skip /\ UNCHANGED <<dropped, faults>>
        \/ Fault /\ skip /\ dropped' = dropped \cup {e}
        \/ /\ ~AlreadyProcessed(e)
           /\ job' = [job EXCEPT ![w].todo = @ \ {e}, ![w].event = e,
                                 ![w].pc = FirstWrite(Log[e].kind)]
           /\ UNCHANGED <<dropped, faults>>
  /\ UNCHANGED <<emitted, cursor, ledger, listenerState, resets>>

Throw(w) ==
  /\ job[w].pc \in {"user", "tx", "mark", "read", "apply"}
  /\ Fault
  /\ dropped' = dropped \cup {job[w].event}
  /\ Return(w)
  /\ UNCHANGED <<emitted, cursor, ledger, listenerState, resets>>

\* The database refuses a handler's second write when the wallet's row was
\* removed since the first (foreign key), and a claim's, made with create,
\* when the transaction hash, which is unique, has a row already.
Refused(w) ==
  \/ ~presaleUser[Event(w).wallet].exists
  \/ Event(w).kind = "Claimed" /\ presaleTx[Event(w).tx] # NoTx

Refuse(w) ==
  /\ job[w].pc = "tx"
  /\ Refused(w)
  /\ dropped' = dropped \cup {job[w].event}
  /\ Return(w)
  /\ UNCHANGED <<emitted, cursor, ledger, listenerState, resets, faults>>

AfterClaimMarkTx == "tx"
AfterClaimMark   == "user"

\* saveProcessingState: a claim is marked before, the others after their writes.
Mark(w) ==
  /\ job[w].pc = "mark"
  /\ listenerState' = listenerState \cup {job[w].event}
  /\ IF Event(w).kind = "Claimed" THEN GoTo(w, AfterClaimMark) ELSE Return(w)
  /\ UNCHANGED <<emitted, cursor, ledger, dropped, resets, faults>>

\* A failure to write the activity row is logged and passed over.
RecordActivity(w) ==
  /\ job[w].pc = "activity"
  /\ \/ recentActivity' = [recentActivity EXCEPT ![job[w].event] = @ + 1] /\ UNCHANGED faults
     \/ Fault /\ UNCHANGED recentActivity
  /\ GoTo(w, CASE Event(w).kind = "Bought" -> "certificate"
               [] Event(w).kind = "Claimed" -> "read"
               [] OTHER -> "mark")
  /\ UNCHANGED <<emitted, cursor, presaleUser, presaleTx, vestingSchedule,
                 counted, claimCreated, listenerState, dropped, resets>>

-----------------------------------------------------------------------------
(***************************************************************************)
(* PresaleBuyHandler                                                       *)
(***************************************************************************)

\* upsert with increments, or a new row with the same amounts.
BuyUser(w) ==
  /\ At(w, "user", "Bought")
  /\ presaleUser' = [presaleUser EXCEPT ![Event(w).wallet] =
                      [exists    |-> TRUE,
                       purchased |-> @.purchased + Event(w).tokens,
                       claimed   |-> @.claimed,
                       unclaimed |-> @.unclaimed + Event(w).tokens]]
  /\ counted' = [counted EXCEPT ![job[w].event] = @ + 1]
  /\ GoTo(w, "tx")
  /\ UNCHANGED <<emitted, cursor, claimCreated, presaleTx, vestingSchedule, recentActivity,
                 listenerState, dropped, resets, faults>>

BuyTx(w) ==
  /\ At(w, "tx", "Bought")
  /\ ~Refused(w)
  /\ presaleTx' = [presaleTx EXCEPT ![Event(w).tx] =
                    [type |-> "Buy", wallet |-> Event(w).wallet, tokens |-> Event(w).tokens]]
  /\ GoTo(w, "activity")
  /\ UNCHANGED <<emitted, cursor, presaleUser, vestingSchedule, recentActivity,
                 counted, claimCreated, listenerState, dropped, resets, faults>>

\* sendSAFTCertificate: whatever fails in it, the handler goes on.
BuyCertificate(w) ==
  /\ At(w, "certificate", "Bought")
  /\ GoTo(w, "mark")
  /\ UNCHANGED <<emitted, cursor, ledger, listenerState, dropped, resets, faults>>

-----------------------------------------------------------------------------
(***************************************************************************)
(* PresaleClaimHandler                                                     *)
(***************************************************************************)

KeptUnclaimed(row, tokens)       == row.unclaimed
UnclaimedAfterClaim(row, tokens) == IF row.exists THEN row.unclaimed - tokens ELSE 0

\* The row created for an unknown wallet leaves unclaimed at its default, 0.
ClaimUser(w) ==
  /\ At(w, "user", "Claimed")
  /\ presaleUser' = [presaleUser EXCEPT ![Event(w).wallet] =
                      [exists    |-> TRUE,
                       purchased |-> @.purchased,
                       claimed   |-> @.claimed + Event(w).tokens,
                       unclaimed |-> UnclaimedAfterClaim(@, Event(w).tokens)]]
  /\ counted' = [counted EXCEPT ![job[w].event] = @ + 1]
  /\ claimCreated' = IF presaleUser[Event(w).wallet].exists
                      THEN claimCreated ELSE claimCreated \cup {Event(w).wallet}
  /\ GoTo(w, "tx")
  /\ UNCHANGED <<emitted, cursor, presaleTx, vestingSchedule, recentActivity,
                 listenerState, dropped, resets, faults>>

ClaimTx(w) ==
  /\ At(w, "tx", "Claimed")
  /\ ~Refused(w)
  /\ presaleTx' = [presaleTx EXCEPT ![Event(w).tx] =
                    [type |-> "Claim", wallet |-> Event(w).wallet, tokens |-> Event(w).tokens]]
  /\ GoTo(w, "activity")
  /\ UNCHANGED <<emitted, cursor, presaleUser, vestingSchedule, recentActivity,
                 counted, claimCreated, listenerState, dropped, resets, faults>>

Unclaimed(row) == row.total - row.claimed

OpenSchedules(wallet) ==
  {s \in Schedules : s[1] = wallet /\ Unclaimed(vestingSchedule[s]) > 0}

TotalUnclaimed(schedules) == MapThenSumSet(LAMBDA s : Unclaimed(vestingSchedule[s]), schedules)

\* findMany: the shares are computed from this snapshot.
ClaimRead(w) ==
  /\ At(w, "read", "Claimed")
  /\ LET open == OpenSchedules(Event(w).wallet) IN
       \/ open = {} /\ Return(w)
       \/ /\ open # {}
          /\ job' = [job EXCEPT ![w].pc = "apply", ![w].snap = vestingSchedule,
                                ![w].left = open, ![w].open = TotalUnclaimed(open)]
  /\ UNCHANGED <<emitted, cursor, ledger, listenerState, dropped, resets, faults>>

\* Number((tokens * proportion).toFixed(6)): the nearest unit.
Share(tokens, part, whole) == (2 * tokens * part + whole) \div (2 * whole)

Uncapped(total, claimed) == claimed
Capped(total, claimed)   == IF claimed <= total THEN claimed ELSE total

ClaimSchedule(w) ==
  /\ At(w, "apply", "Claimed")
  /\ \E s \in job[w].left :
       LET row == job[w].snap[s]
           share == Share(Event(w).tokens, Unclaimed(row), job[w].open)
       IN /\ vestingSchedule' = [vestingSchedule EXCEPT ![s].claimed =
                                   Capped(row.total, row.claimed + share)]
          /\ IF job[w].left = {s} THEN Return(w)
             ELSE job' = [job EXCEPT ![w].left = @ \ {s}]
  /\ UNCHANGED <<emitted, cursor, presaleUser, presaleTx, recentActivity,
                 counted, claimCreated, listenerState, dropped, resets, faults>>

-----------------------------------------------------------------------------
(***************************************************************************)
(* VestingScheduleCreatedHandler                                           *)
(***************************************************************************)

VestingUser(w) ==
  /\ At(w, "user", "VestingScheduleCreated")
  /\ presaleUser' = [presaleUser EXCEPT ![Event(w).wallet].exists = TRUE]
  /\ GoTo(w, "tx")
  /\ UNCHANGED <<emitted, cursor, presaleTx, vestingSchedule, recentActivity,
                 counted, claimCreated, listenerState, dropped, resets, faults>>

\* The total is overwritten, what was claimed of the schedule is kept.
VestingUpsert(w) ==
  /\ At(w, "tx", "VestingScheduleCreated")
  /\ ~Refused(w)
  /\ vestingSchedule' =
       [vestingSchedule EXCEPT ![<<Event(w).wallet, Event(w).schedule>>].total = Event(w).tokens]
  /\ GoTo(w, "activity")
  /\ UNCHANGED <<emitted, cursor, presaleUser, presaleTx, recentActivity,
                 counted, claimCreated, listenerState, dropped, resets, faults>>

-----------------------------------------------------------------------------
(***************************************************************************)
(* Other writers of the same tables, and the crash                         *)
(***************************************************************************)

\* resetEventState: the markers of some event types are deleted.
ResetEventState ==
  /\ resets < MaxResets
  /\ resets' = resets + 1
  /\ \E kinds \in (SUBSET Kinds) \ {{}} :
       listenerState' = {e \in listenerState : Log[e].kind \notin kinds}
  /\ UNCHANGED <<emitted, cursor, ledger, job, dropped, faults>>

\* A login creates the wallet's row (UserService.createOrUpdate).
Login(wallet) ==
  /\ ~presaleUser[wallet].exists
  /\ presaleUser' = [presaleUser EXCEPT ![wallet].exists = TRUE]
  /\ UNCHANGED <<emitted, cursor, presaleTx, vestingSchedule, recentActivity,
                 counted, claimCreated, listenerState, job, dropped, resets, faults>>

\* The scans in progress are gone; the loop starts again from its cursor.
Crash ==
  /\ \E w \in Workers : ~Resting(w)
  /\ Fault
  /\ job' = [w \in Workers |-> IF job[w].pc = "idle" THEN Idle ELSE Stopped(w)]
  /\ UNCHANGED <<emitted, cursor, ledger, listenerState, dropped, resets>>

-----------------------------------------------------------------------------
Handler(w) ==
  \/ Take(w) \/ Throw(w) \/ Refuse(w) \/ Mark(w) \/ RecordActivity(w)
  \/ BuyUser(w) \/ BuyTx(w) \/ BuyCertificate(w)
  \/ ClaimUser(w) \/ ClaimTx(w) \/ ClaimRead(w) \/ ClaimSchedule(w)
  \/ VestingUser(w) \/ VestingUpsert(w)

Init ==
  /\ emitted = 0
  /\ cursor = 0
  /\ presaleUser = [w \in Wallets |-> NoUser]
  /\ presaleTx = [t \in TxHashes |-> NoTx]
  /\ vestingSchedule = NoSchedules
  /\ listenerState = {}
  /\ recentActivity = [e \in Events |-> 0]
  /\ job = [w \in Workers |-> Idle]
  /\ counted = [e \in Events |-> 0]
  /\ claimCreated = {}
  /\ dropped = {}
  /\ resets = 0
  /\ faults = 0

Next ==
  \/ Emit \/ LoopScan \/ ResetEventState \/ Crash
  \/ \E wallet \in Wallets : Login(wallet)
  \/ \E w \in Requests : RequestScan(w)
  \/ \E w \in Workers : Handler(w) \/ ScanDone(w)

Spec == Init /\ [][Next]_vars

\* The loop goes on scanning, and every promise settles.
Fairness ==
  /\ WF_vars(LoopScan)
  /\ \A w \in Workers : WF_vars(Handler(w) \/ ScanDone(w))

LiveSpec == Spec /\ Fairness

-----------------------------------------------------------------------------
(***************************************************************************)
(* Properties                                                              *)
(***************************************************************************)

UserRow == [exists : BOOLEAN, purchased : Nat, claimed : Nat, unclaimed : Int]

TxRow == {NoTx} \cup [type : {"Buy", "Claim"}, wallet : Wallets, tokens : Nat]

ScheduleRow == [total : Nat, claimed : Nat]

Job ==
  [pc : {"idle", "done", "next", "user", "tx", "activity", "certificate", "mark", "read", "apply"},
   event : Events \cup {0}, todo : SUBSET Events, upto : Nat,
   snap : [Schedules -> ScheduleRow], left : SUBSET Schedules, open : Nat]

\* Types of all variables.
TypeOK ==
  /\ emitted \in 0..Len(Log)
  /\ cursor \in 0..Len(Log)
  /\ presaleUser \in [Wallets -> UserRow]
  /\ presaleTx \in [TxHashes -> TxRow]
  /\ vestingSchedule \in [Schedules -> ScheduleRow]
  /\ listenerState \subseteq Events
  /\ recentActivity \in [Events -> Nat]
  /\ job \in [Workers -> Job]
  /\ counted \in [Events -> Nat]
  /\ claimCreated \subseteq Wallets
  /\ dropped \subseteq Events
  /\ resets \in 0..MaxResets
  /\ faults \in 0..MaxFaults

KindIs(e, kind) == Log[e].kind = kind

\* A purchase marked as processed has been added to its buyer's balances and
\* has its transaction row, whatever failed, crashed or ran at the same time:
\* PresaleBuyHandler marks "only after all DB writes succeed".
MarkedPurchaseIsRecorded ==
  \A e \in listenerState : KindIs(e, "Bought") =>
    counted[e] >= 1 /\ presaleTx[Log[e].tx].type = "Buy"

BalancesAgree(w) ==
  /\ presaleUser[w].unclaimed >= presaleUser[w].purchased - presaleUser[w].claimed
  /\ w \notin claimCreated =>
       presaleUser[w].unclaimed = presaleUser[w].purchased - presaleUser[w].claimed

\* However the handlers and logins interleave, a row's unclaimed tokens are
\* what was bought less what was claimed; they are overstated, and never
\* understated, for a wallet whose row the claim handler had to create.
UnclaimedBalances == \A w \in Wallets : BalancesAgree(w)

\* No claim takes more out of a schedule than it holds, although two handlers
\* may write to it from the same snapshot (PresaleClaimHandler).
ScheduleNotOverclaimed ==
  \A s \in Schedules : vestingSchedule[s].claimed <= vestingSchedule[s].total

\* While scans do not overlap, an event is applied to the balances once, once
\* more for each reset of its marker, and, for purchases only, once more for
\* each failure between its first write and its marker: the markers stop all
\* other redeliveries, by a crash, a request or a rewound cursor.
RepeatsAreAccounted ==
  ~MayOverlap => \A e \in Events :
    counted[e] <= 1 + resets + (IF KindIs(e, "Claimed") THEN 0 ELSE faults)

\* Marked before its writes, a claim can be lost; but each failure or crash
\* loses one claim at most, and nothing else loses any.
LostClaims ==
  {e \in listenerState : KindIs(e, "Claimed") /\ counted[e] = 0
                           /\ ~\E w \in Workers : job[w].event = e /\ job[w].pc = "user"}
ClaimsLostOnlyByFaults == ~MayOverlap => Cardinality(LostClaims) <= faults

Undisturbed == faults = 0 /\ resets = 0 /\ ~MayOverlap
AtRest == \A w \in Workers : Resting(w)

Marked(wallet, kind) == {e \in listenerState : Log[e].wallet = wallet /\ KindIs(e, kind)}
TokensOf(events) == SumFunctionOnSet([e \in Events |-> Log[e].tokens], events)

\* When nothing failed, no marker was reset and no scan is in progress, the
\* buyers' rows, the activity feed and the schedules hold exactly the events
\* marked as processed, whatever requests went over them again.  A claim whose
\* transaction the database refused is on the balances and not in the feed.
LedgerMatchesMarkers ==
  AtRest /\ Undisturbed =>
    /\ \A w \in Wallets :
         /\ presaleUser[w].purchased = TokensOf(Marked(w, "Bought"))
         /\ presaleUser[w].claimed = TokensOf(Marked(w, "Claimed"))
    /\ \A e \in Events \ dropped : recentActivity[e] = IF e \in listenerState THEN 1 ELSE 0
    /\ \A e \in Events : KindIs(e, "VestingScheduleCreated") =>
         vestingSchedule[<<Log[e].wallet, Log[e].schedule>>].total =
           IF e \in listenerState THEN Log[e].tokens ELSE 0

\* The loop has no event behind its cursor that is neither marked nor one a
\* handler threw on: a crash in the middle of a scan skips nothing.  Resets,
\* and requests, which move the cursor as they like, are left out.
LoopPassesOverFailuresOnly ==
  resets = 0 /\ (\A r \in Requests : job[r].pc = "idle") =>
    1..cursor \subseteq listenerState \cup dropped

\* Left alone by the administrator, the loop hands every event of the chain to
\* its handler and ends with it marked or thrown on: no crash leaves an event
\* undecided (processEvents, the loop's cursor).
AdminInterfered == resets > 0 \/ \E r \in Requests : job[r].pc # "idle"
EveryEventSettles ==
  \A e \in Events : emitted >= e ~> e \in listenerState \cup dropped \/ AdminInterfered

-----------------------------------------------------------------------------
(***************************************************************************)
(* What the comments say of the handlers, and the code does not do.        *)
(***************************************************************************)

\* PresaleClaimHandler: "Update VestingSchedule claimed fields
\* proportionally".  What a wallet has claimed is spread over its schedules.
ClaimsReachSchedules ==
  AtRest /\ Undisturbed =>
    \A w \in Wallets :
      MapThenSumSet(LAMBDA s : vestingSchedule[s].claimed, {s \in Schedules : s[1] = w})
        = TokensOf(Marked(w, "Claimed"))

\* resetEventState removes markers "so they will be re-handled": an event
\* whose marker nobody removed is applied once.
HandledOncePerMarker ==
  resets = 0 /\ faults = 0 => \A e \in Events : counted[e] <= 1
=============================================================================
