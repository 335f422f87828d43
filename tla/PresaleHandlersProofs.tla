----------------------- MODULE PresaleHandlersProofs -----------------------
(***************************************************************************)
(* Theorems about PresaleHandlers, for every log of events, every number   *)
(* of wallets, schedules and requests, overlapping or not, and every       *)
(* number of faults and resets.                                            *)
(***************************************************************************)
EXTENDS PresaleHandlers, Sums, SequenceTheorems

-----------------------------------------------------------------------------
(***************************************************************************)
(* The operators the actions are built from                                *)
(***************************************************************************)

LEMMA LogType ==
  /\ Len(Log) \in Nat
  /\ Kinds = {"Bought", "Claimed", "VestingScheduleCreated"}
  /\ \A e \in Events :
       /\ Log[e].kind \in Kinds /\ Log[e].wallet \in Wallets /\ Log[e].tx \in TxHashes
       /\ Log[e].schedule \in ScheduleIds /\ Log[e].tokens \in Nat /\ Log[e].tokens > 0
       /\ <<Log[e].wallet, Log[e].schedule>> \in Schedules
<1> DEFINE Emitted == [kind : Kinds, wallet : Wallets, tokens : Nat \ {0},
                       tx : TxHashes, schedule : ScheduleIds]
<1>1. Log \in Seq(Emitted)
  BY HandlersAssumption
<1>2. Len(Log) \in Nat /\ \A e \in 1..Len(Log) : Log[e] \in Emitted
  BY <1>1, LenProperties, ElementOfSeq
<1> QED
  BY <1>2 DEF Events, Kinds, Schedules

\* The next event of a scan is one of those it has still to hand over.
LEMMA FirstIsOneOfThem ==
  ASSUME NEW events \in SUBSET Events, events # {}
  PROVE  First(events) \in events
<1> DEFINE R(e) == Rank(Log[e].kind)
           Ranks == {R(e) : e \in events}
<1>1. \A e \in events : R(e) \in Nat
  BY LogType DEF Rank
<1> HIDE DEF R
<1>2. PICK r \in Ranks : \A q \in Ranks : r <= q
  <2>1. Ranks # {} /\ Ranks \in SUBSET Nat
    BY <1>1
  <2> HIDE DEF Ranks
  <2> QED
    BY <2>1, LeastNumber
<1> DEFINE Least == {e \in events : R(e) = r}
<1>3. PICK e \in Least : \A f \in Least : e <= f
  <2>1. Least # {} /\ Least \subseteq Nat
    BY LogType DEF Events
  <2> QED
    BY <2>1, LeastNumber
<1>4. \A f \in events : Before(e, f)
  <2> SUFFICES ASSUME NEW f \in events PROVE Before(e, f)
    OBVIOUS
  <2>1. R(e) = r /\ R(f) \in Nat /\ R(e) <= R(f) /\ (R(f) = R(e) => e <= f)
    BY <1>1, <1>2, <1>3
  <2> QED
    BY <2>1, <1>1 DEF R, Before
<1> QED
  BY <1>4 DEF First

\* What is unclaimed of the schedules a claim is spread over is positive.
LEMMA OpenTotal ==
  ASSUME NEW wallet \in Wallets, vestingSchedule \in [Schedules -> ScheduleRow],
         OpenSchedules(wallet) # {}
  PROVE  TotalUnclaimed(OpenSchedules(wallet)) \in Nat
         /\ TotalUnclaimed(OpenSchedules(wallet)) > 0
<1> DEFINE S == OpenSchedules(wallet)
           Row(s) == Unclaimed(vestingSchedule[s])
           f == [s \in S |-> Row(s)]
           Sums(g) == g = [s \in SUBSET S |-> IF s = {} THEN 0 ELSE Row(Some(s)) + g[s \ {Some(s)}]]
           h == CHOOSE g : Sums(g)
<1>1. IsFiniteSet(S)
  <2>1. IsFiniteSet(Schedules)
    BY HandlersAssumption, FS_Product DEF Schedules
  <2> QED
    BY <2>1, FS_Subset DEF OpenSchedules
<1>2. f \in [S -> Nat] /\ \A s \in S : f[s] > 0
  BY DEF OpenSchedules, Unclaimed, ScheduleRow
<1>3. \A s \in SUBSET S : s # {} => Some(s) \in S /\ f[Some(s)] = Row(Some(s))
  <2>1. \A s \in SUBSET S : GetsSmaller(S, s)
    BY <1>1, Smaller
  <2>2. \A s \in S : f[s] = Row(s)
    OBVIOUS
  <2> HIDE DEF S, Row, f
  <2> QED
    BY <2>1, <2>2 DEF GetsSmaller
<1> HIDE DEF S, Row
<1>4. \E g : Sums(g)
  <2>1. PICK g \in [SUBSET S -> Nat] : \A s \in SUBSET S : Adds(f, g, s)
    BY <1>1, <1>2, SumsExist
  <2>2. \A s \in SUBSET S : g[s] = IF s = {} THEN 0 ELSE Row(Some(s)) + g[s \ {Some(s)}]
    BY <1>3, <2>1 DEF Adds
  <2> HIDE DEF f
  <2>3. Sums(g)
    BY <2>2
  <2> QED
    BY <2>3
<1>5. Sums(h)
  BY <1>4
<1>6. TotalUnclaimed(S) = h[S]
  BY DEF TotalUnclaimed, MapThenSumSet, MapThenFoldSet, Some, Row
<1> HIDE DEF h
<1>7. \A s \in SUBSET S : Adds(f, h, s)
  BY <1>3, <1>5 DEF Adds
<1> HIDE DEF f
<1>8. S # {} /\ S \in SUBSET S
  BY DEF S
<1> QED
  BY <1>1, <1>2, <1>6, <1>7, <1>8, SumsAreNatural DEF S

-----------------------------------------------------------------------------
(***************************************************************************)
(* Type correctness.  The locals of a worker are typed together with what  *)
(* its program counter says of them.                                       *)
(***************************************************************************)

Handling == {"user", "tx", "activity", "certificate", "mark", "read", "apply"}

GoodJob(j) ==
  /\ j \in Job
  /\ j.upto <= Len(Log)
  /\ j.pc \in Handling => j.event \in Events
  /\ j.pc = "apply" =>
       j.open > 0 /\ \A s \in j.left : j.snap[s].claimed <= j.snap[s].total

TypeInv ==
  /\ TypeOK
  /\ \A w \in Workers : GoodJob(job[w])

LEMMA BetweenIsGood ==
  /\ GoodJob(Idle) /\ GoodJob(Done) /\ Idle.pc = "idle" /\ Done.pc = "done"
  /\ \A todo \in SUBSET Events, upto \in 0..Len(Log) : GoodJob(Between("next", todo, upto))
<1>1. NoSchedules \in [Schedules -> ScheduleRow]
  BY DEF NoSchedules, ScheduleRow
<1>2. ASSUME NEW pc \in {"idle", "done", "next"}, NEW todo \in SUBSET Events, NEW upto \in 0..Len(Log)
      PROVE  GoodJob(Between(pc, todo, upto))
  BY <1>1, LogType DEF Between, GoodJob, Job, Handling
<1>3. {} \in SUBSET Events /\ 0 \in 0..Len(Log)
  BY LogType
<1>4. Idle.pc = "idle" /\ Done.pc = "done"
  BY DEF Idle, Done, Between
<1> QED
  BY <1>2, <1>3, <1>4 DEF Idle, Done

\* A step that changes one worker's locals.
LEMMA JobStep ==
  ASSUME TypeInv, NEW w \in Workers, NEW j, GoodJob(j), job' = [job EXCEPT ![w] = j]
  PROVE  job' \in [Workers -> Job] /\ \A v \in Workers : GoodJob(job'[v])
  BY DEF TypeInv, TypeOK, GoodJob

LEMMA GoToStep ==
  ASSUME TypeInv, NEW w \in Workers, job[w].pc \in Handling,
         NEW pc \in Handling \ {"apply"}, GoTo(w, pc)
  PROVE  job' \in [Workers -> Job] /\ \A v \in Workers : GoodJob(job'[v])
<1>1. GoodJob([job[w] EXCEPT !.pc = pc])
  BY DEF TypeInv, GoodJob, Job, Handling
<1> QED
  BY <1>1, JobStep DEF GoTo

LEMMA ReturnStep ==
  ASSUME TypeInv, NEW w \in Workers, Return(w)
  PROVE  job' \in [Workers -> Job] /\ \A v \in Workers : GoodJob(job'[v])
<1>1. job[w].todo \in SUBSET Events /\ job[w].upto \in 0..Len(Log)
  BY LogType DEF TypeInv, GoodJob, Job
<1> QED
  BY <1>1, BetweenIsGood, JobStep DEF Return

LEMMA EventType ==
  ASSUME TypeInv, NEW w \in Workers, job[w].pc \in Handling
  PROVE  /\ job[w].event \in Events
         /\ Event(w).kind \in Kinds /\ Event(w).wallet \in Wallets /\ Event(w).tx \in TxHashes
         /\ Event(w).tokens \in Nat /\ Event(w).tokens > 0
         /\ <<Event(w).wallet, Event(w).schedule>> \in Schedules
  BY LogType DEF TypeInv, GoodJob, Event

LEMMA FaultType ==
  ASSUME TypeInv, Fault
  PROVE  faults' \in 0..MaxFaults
  BY HandlersAssumption DEF TypeInv, TypeOK, Fault

LEMMA InitTypes == Init => TypeInv
<1> SUFFICES ASSUME Init PROVE TypeInv
  OBVIOUS
<1>1. \A w \in Workers : GoodJob(job[w])
  BY BetweenIsGood DEF Init
<1>2. job \in [Workers -> Job]
  BY BetweenIsGood DEF Init, GoodJob
<1>3. presaleUser \in [Wallets -> UserRow]
  BY DEF Init, NoUser, UserRow
<1>4. presaleTx \in [TxHashes -> TxRow]
  BY DEF Init, TxRow
<1>5. vestingSchedule \in [Schedules -> ScheduleRow]
  BY DEF Init, NoSchedules, ScheduleRow
<1>6. emitted \in 0..Len(Log) /\ cursor \in 0..Len(Log)
  BY LogType DEF Init
<1>7. resets \in 0..MaxResets /\ faults \in 0..MaxFaults
  BY HandlersAssumption DEF Init
<1> QED
  BY <1>1, <1>2, <1>3, <1>4, <1>5, <1>6, <1>7 DEF Init, TypeInv, TypeOK

LEMMA ScanTypes ==
  ASSUME TypeInv,
         Emit \/ LoopScan \/ ResetEventState \/ Crash
         \/ (\E wallet \in Wallets : Login(wallet))
         \/ (\E w \in Requests : RequestScan(w)) \/ (\E w \in Workers : ScanDone(w))
  PROVE  TypeInv'
<1>1. CASE Emit
  BY <1>1, LogType DEF Emit, TypeInv, TypeOK, ledger
<1>2. CASE LoopScan
  <2>1. PICK upto \in (cursor + 1)..emitted :
          job' = [job EXCEPT ![Loop] = Between("next", NewEvents(upto), upto)]
    BY <1>2 DEF LoopScan
  <2>2. NewEvents(upto) \in SUBSET Events /\ upto \in 0..Len(Log)
    BY LogType DEF NewEvents, Events, TypeInv, TypeOK
  <2>3. job' \in [Workers -> Job] /\ \A v \in Workers : GoodJob(job'[v])
    BY <2>1, <2>2, BetweenIsGood, JobStep DEF Workers
  <2> QED
    BY <1>2, <2>3 DEF LoopScan, TypeInv, TypeOK, ledger
<1>3. CASE ResetEventState
  BY <1>3, HandlersAssumption DEF ResetEventState, TypeInv, TypeOK, ledger
<1>4. CASE Crash
  <2>1. \A v \in Workers : GoodJob(job'[v])
    BY <1>4, BetweenIsGood DEF Crash, Stopped
  <2>2. job' \in [Workers -> Job]
    BY <1>4, <2>1 DEF Crash, GoodJob
  <2> QED
    BY <1>4, <2>1, <2>2, FaultType DEF Crash, TypeInv, TypeOK, ledger
<1>5. ASSUME NEW wallet \in Wallets, Login(wallet) PROVE TypeInv'
  <2>1. presaleUser' \in [Wallets -> UserRow]
    BY <1>5 DEF Login, TypeInv, TypeOK, UserRow
  <2> QED
    BY <1>5, <2>1 DEF Login, TypeInv, TypeOK
<1>6. ASSUME NEW w \in Requests, RequestScan(w) PROVE TypeInv'
  <2>1. PICK from, upto \in 1..emitted, kinds \in RequestKinds :
          LET todo == {e \in from..upto : Log[e].kind \in kinds}
          IN job' = [job EXCEPT ![w] = Between("next", todo, upto)]
             /\ cursor' \in {cursor, Rewound(from)}
    BY <1>6 DEF RequestScan
  <2>2. {e \in from..upto : Log[e].kind \in kinds} \in SUBSET Events /\ upto \in 0..Len(Log)
    BY LogType DEF Events, TypeInv, TypeOK
  <2>3. job' \in [Workers -> Job] /\ \A v \in Workers : GoodJob(job'[v])
    BY <2>1, <2>2, BetweenIsGood, JobStep DEF Workers
  <2>4. cursor' \in 0..Len(Log)
    BY <2>1, LogType DEF Rewound, TypeInv, TypeOK
  <2> QED
    BY <1>6, <2>3, <2>4 DEF RequestScan, TypeInv, TypeOK, ledger
<1>7. ASSUME NEW w \in Workers, ScanDone(w) PROVE TypeInv'
  <2>1. job' \in [Workers -> Job] /\ \A v \in Workers : GoodJob(job'[v])
    <3>1. GoodJob(Stopped(w)) /\ job' = [job EXCEPT ![w] = Stopped(w)]
      BY <1>7, BetweenIsGood DEF ScanDone, Stopped
    <3> QED
      BY <3>1, JobStep
  <2>2. cursor' \in 0..Len(Log)
    BY <1>7, LogType DEF ScanDone, TypeInv, GoodJob, Job
  <2> QED
    BY <1>7, <2>1, <2>2 DEF ScanDone, TypeInv, TypeOK, ledger
<1> QED
  BY <1>1, <1>2, <1>3, <1>4, <1>5, <1>6, <1>7

LEMMA SharedStepTypes ==
  ASSUME TypeInv, NEW w \in Workers,
         Take(w) \/ Throw(w) \/ Refuse(w) \/ Mark(w) \/ RecordActivity(w)
  PROVE  TypeInv'
<1>1. CASE Take(w)
  <2> DEFINE e == First(job[w].todo)
  <2>1. e \in Events /\ job[w].todo \in SUBSET Events /\ e \in job[w].todo
    BY <1>1, FirstIsOneOfThem DEF Take, TypeInv, GoodJob, Job
  <2> HIDE DEF e
  <2>2. GoodJob([job[w] EXCEPT !.todo = @ \ {e}])
        /\ GoodJob([job[w] EXCEPT !.todo = @ \ {e}, !.event = e, !.pc = FirstWrite(Log[e].kind)])
    <3>1. job[w].pc = "next" /\ GoodJob(job[w])
      BY <1>1 DEF Take, TypeInv
    <3>2. FirstWrite(Log[e].kind) \in {"mark", "user"}
      BY DEF FirstWrite
    <3> QED
      BY <2>1, <3>1, <3>2 DEF GoodJob, Job, Handling
  <2>3. job' \in [Workers -> Job] /\ \A v \in Workers : GoodJob(job'[v])
    <3>1. \/ job' = [job EXCEPT ![w] = [job[w] EXCEPT !.todo = @ \ {e}]]
          \/ job' = [job EXCEPT ![w] = [job[w] EXCEPT !.todo = @ \ {e}, !.event = e,
                                                      !.pc = FirstWrite(Log[e].kind)]]
      BY <1>1 DEF Take, e, TypeInv, TypeOK
    <3> QED
      BY <2>2, <3>1, JobStep
  <2>4. faults' \in 0..MaxFaults /\ dropped' \subseteq Events
    BY <1>1, <2>1, FaultType DEF Take, e, TypeInv, TypeOK
  <2> QED
    BY <1>1, <2>3, <2>4 DEF Take, TypeInv, TypeOK, ledger
<1>2. CASE Throw(w)
  <2>1. job[w].event \in Events
    BY <1>2, EventType DEF Throw, Handling
  <2> QED
    BY <1>2, <2>1, ReturnStep, FaultType DEF Throw, TypeInv, TypeOK, ledger
<1>3. CASE Refuse(w)
  <2>1. job[w].event \in Events
    BY <1>3, EventType DEF Refuse, Handling
  <2> QED
    BY <1>3, <2>1, ReturnStep DEF Refuse, TypeInv, TypeOK, ledger
<1>4. CASE Mark(w)
  <2>1. job[w].event \in Events
    BY <1>4, EventType DEF Mark, Handling
  <2>2. job' \in [Workers -> Job] /\ \A v \in Workers : GoodJob(job'[v])
    BY <1>4, GoToStep, ReturnStep DEF Mark, AfterClaimMark, Handling
  <2> QED
    BY <1>4, <2>1, <2>2 DEF Mark, TypeInv, TypeOK, ledger
<1>5. CASE RecordActivity(w)
  <2>1. job[w].event \in Events
    BY <1>5, EventType DEF RecordActivity, Handling
  <2>2. job' \in [Workers -> Job] /\ \A v \in Workers : GoodJob(job'[v])
    BY <1>5, GoToStep DEF RecordActivity, Handling
  <2>3. recentActivity' \in [Events -> Nat] /\ faults' \in 0..MaxFaults
    BY <1>5, <2>1, FaultType DEF RecordActivity, TypeInv, TypeOK
  <2> QED
    BY <1>5, <2>2, <2>3 DEF RecordActivity, TypeInv, TypeOK
<1> QED
  BY <1>1, <1>2, <1>3, <1>4, <1>5

LEMMA UserStepTypes ==
  ASSUME TypeInv, NEW w \in Workers, BuyUser(w) \/ ClaimUser(w) \/ VestingUser(w)
  PROVE  TypeInv'
<1>1. job[w].event \in Events /\ Event(w).wallet \in Wallets /\ Event(w).tokens \in Nat
  BY EventType DEF BuyUser, ClaimUser, VestingUser, At, Handling
<1>2. job' \in [Workers -> Job] /\ \A v \in Workers : GoodJob(job'[v])
  BY GoToStep DEF BuyUser, ClaimUser, VestingUser, At, Handling
<1>3. presaleUser' \in [Wallets -> UserRow]
  <2>1. presaleUser[Event(w).wallet] \in UserRow
    BY <1>1 DEF TypeInv, TypeOK
  <2>2. CASE BuyUser(w)
    <3> DEFINE old == presaleUser[Event(w).wallet]
               new == [exists |-> TRUE, purchased |-> old.purchased + Event(w).tokens,
                       claimed |-> old.claimed, unclaimed |-> old.unclaimed + Event(w).tokens]
    <3>1. presaleUser' = [presaleUser EXCEPT ![Event(w).wallet] = new]
      BY <1>1, <2>2 DEF BuyUser, TypeInv, TypeOK
    <3>2. new \in UserRow
      BY <1>1, <2>1 DEF UserRow
    <3> HIDE DEF new
    <3> QED
      BY <1>1, <3>1, <3>2 DEF TypeInv, TypeOK
  <2>3. CASE ClaimUser(w)
    <3> DEFINE old == presaleUser[Event(w).wallet]
               new == [exists |-> TRUE, purchased |-> old.purchased,
                       claimed |-> old.claimed + Event(w).tokens,
                       unclaimed |-> UnclaimedAfterClaim(old, Event(w).tokens)]
    <3>1. presaleUser' = [presaleUser EXCEPT ![Event(w).wallet] = new]
      BY <1>1, <2>3 DEF ClaimUser, TypeInv, TypeOK
    <3>2. new \in UserRow
      BY <1>1, <2>1 DEF UserRow, UnclaimedAfterClaim
    <3> HIDE DEF new
    <3> QED
      BY <1>1, <3>1, <3>2 DEF TypeInv, TypeOK
  <2>4. CASE VestingUser(w)
    BY <1>1, <2>1, <2>4 DEF VestingUser, TypeInv, TypeOK, UserRow
  <2> QED
    BY <2>2, <2>3, <2>4
<1>4. counted' \in [Events -> Nat]
  <2>1. counted \in [Events -> Nat]
        /\ (counted' = [counted EXCEPT ![job[w].event] = @ + 1] \/ counted' = counted)
    BY DEF BuyUser, ClaimUser, VestingUser, TypeInv, TypeOK
  <2> QED
    BY <1>1, <2>1
<1>5. claimCreated' \subseteq Wallets
  <2>1. claimCreated \subseteq Wallets
        /\ claimCreated' \in {claimCreated, claimCreated \cup {Event(w).wallet}}
    BY DEF BuyUser, ClaimUser, VestingUser, TypeInv, TypeOK
  <2> QED
    BY <1>1, <2>1
<1> QED
  BY <1>2, <1>3, <1>4, <1>5 DEF BuyUser, ClaimUser, VestingUser, TypeInv, TypeOK

LEMMA RowStepTypes ==
  ASSUME TypeInv, NEW w \in Workers,
         BuyTx(w) \/ ClaimTx(w) \/ BuyCertificate(w) \/ VestingUpsert(w)
  PROVE  TypeInv'
<1>1. /\ Event(w).wallet \in Wallets /\ Event(w).tx \in TxHashes /\ Event(w).tokens \in Nat
      /\ <<Event(w).wallet, Event(w).schedule>> \in Schedules
  BY EventType DEF BuyTx, ClaimTx, BuyCertificate, VestingUpsert, At, Handling
<1>2. job' \in [Workers -> Job] /\ \A v \in Workers : GoodJob(job'[v])
  BY GoToStep DEF BuyTx, ClaimTx, BuyCertificate, VestingUpsert, At, Handling
<1>3. presaleTx' \in [TxHashes -> TxRow]
  BY <1>1 DEF BuyTx, ClaimTx, BuyCertificate, VestingUpsert, TypeInv, TypeOK, TxRow, ledger
<1>4. vestingSchedule' \in [Schedules -> ScheduleRow]
  BY <1>1 DEF BuyTx, ClaimTx, BuyCertificate, VestingUpsert, TypeInv, TypeOK, ScheduleRow, ledger
<1> QED
  BY <1>2, <1>3, <1>4
     DEF BuyTx, ClaimTx, BuyCertificate, VestingUpsert, TypeInv, TypeOK, ledger

LEMMA ShareType ==
  ASSUME NEW tokens \in Nat, NEW part \in Nat, NEW whole \in Nat, whole > 0
  PROVE  Share(tokens, part, whole) \in Nat
<1>1. 2 * tokens * part + whole \in Nat /\ 2 * whole \in Nat /\ 2 * whole > 0
  OBVIOUS
<1> QED
  BY <1>1 DEF Share

LEMMA ClaimScheduleTypes ==
  ASSUME TypeInv, NEW w \in Workers, ClaimRead(w) \/ ClaimSchedule(w)
  PROVE  TypeInv'
<1>1. Event(w).wallet \in Wallets /\ Event(w).tokens \in Nat
  BY EventType DEF ClaimRead, ClaimSchedule, At, Handling
<1>2. CASE ClaimRead(w)
  <2> DEFINE open == OpenSchedules(Event(w).wallet)
             j == [job[w] EXCEPT !.pc = "apply", !.snap = vestingSchedule,
                                 !.left = open, !.open = TotalUnclaimed(open)]
  <2>1. CASE open = {} /\ Return(w)
    BY <1>2, <2>1, ReturnStep DEF ClaimRead, TypeInv, TypeOK, ledger
  <2>2. CASE open # {} /\ job' = [job EXCEPT ![w] = j]
    <3>1. GoodJob(j)
      <4>1. TotalUnclaimed(open) \in Nat /\ TotalUnclaimed(open) > 0
        BY <1>1, <2>2, OpenTotal DEF TypeInv, TypeOK
      <4>2. open \in SUBSET Schedules
            /\ \A s \in open : vestingSchedule[s].claimed <= vestingSchedule[s].total
        BY DEF OpenSchedules, Unclaimed, TypeInv, TypeOK, ScheduleRow
      <4>3. GoodJob(job[w]) /\ job[w].event \in Events
        BY <1>2, EventType DEF TypeInv, ClaimRead, At, Handling
      <4> HIDE DEF open
      <4> QED
        BY <4>1, <4>2, <4>3 DEF GoodJob, Job, TypeInv, TypeOK
    <3>2. job' \in [Workers -> Job] /\ \A v \in Workers : GoodJob(job'[v])
      BY <2>2, <3>1, JobStep
    <3> QED
      BY <1>2, <3>2 DEF ClaimRead, TypeInv, TypeOK, ledger
  <2>3. job' = [job EXCEPT ![w].pc = "apply", ![w].snap = vestingSchedule,
                           ![w].left = open, ![w].open = TotalUnclaimed(open)]
        => job' = [job EXCEPT ![w] = j]
    BY DEF TypeInv, TypeOK
  <2> QED
    BY <1>2, <2>1, <2>2, <2>3 DEF ClaimRead
<1>3. CASE ClaimSchedule(w)
  <2>1. PICK s \in job[w].left :
          /\ vestingSchedule' = [vestingSchedule EXCEPT ![s].claimed =
               Capped(job[w].snap[s].total, job[w].snap[s].claimed
                        + Share(Event(w).tokens, Unclaimed(job[w].snap[s]), job[w].open))]
          /\ IF job[w].left = {s} THEN Return(w)
             ELSE job' = [job EXCEPT ![w].left = @ \ {s}]
    BY <1>3 DEF ClaimSchedule
  <2>2. /\ s \in Schedules /\ job[w].snap[s] \in ScheduleRow
        /\ job[w].open \in Nat /\ job[w].open > 0 /\ job[w].snap[s].claimed <= job[w].snap[s].total
    BY <1>3 DEF ClaimSchedule, At, TypeInv, GoodJob, Job
  <2>3. Share(Event(w).tokens, Unclaimed(job[w].snap[s]), job[w].open) \in Nat
    <3>1. Unclaimed(job[w].snap[s]) \in Nat
      BY <2>2 DEF Unclaimed, ScheduleRow
    <3> QED
      BY <1>1, <2>2, <3>1, ShareType
  <2>4. vestingSchedule' \in [Schedules -> ScheduleRow]
    <3>1. Capped(job[w].snap[s].total, job[w].snap[s].claimed
                   + Share(Event(w).tokens, Unclaimed(job[w].snap[s]), job[w].open)) \in Nat
      BY <2>2, <2>3 DEF Capped, ScheduleRow
    <3> QED
      BY <2>1, <2>2, <3>1 DEF TypeInv, TypeOK, ScheduleRow
  <2>5. job' \in [Workers -> Job] /\ \A v \in Workers : GoodJob(job'[v])
    <3>1. CASE job[w].left = {s}
      BY <2>1, <3>1, ReturnStep
    <3>2. CASE job' = [job EXCEPT ![w].left = @ \ {s}]
      <4>1. GoodJob([job[w] EXCEPT !.left = @ \ {s}])
        BY DEF TypeInv, GoodJob, Job
      <4>2. job' = [job EXCEPT ![w] = [job[w] EXCEPT !.left = @ \ {s}]]
        BY <3>2 DEF TypeInv, TypeOK
      <4> QED
        BY <4>1, <4>2, JobStep
    <3> QED
      BY <2>1, <3>1, <3>2
  <2> QED
    BY <1>3, <2>4, <2>5 DEF ClaimSchedule, TypeInv, TypeOK
<1> QED
  BY <1>2, <1>3

LEMMA StepTypes == TypeInv /\ [Next]_vars => TypeInv'
<1> SUFFICES ASSUME TypeInv, [Next]_vars PROVE TypeInv'
  OBVIOUS
<1>1. CASE UNCHANGED vars
  BY <1>1 DEF vars, ledger, TypeInv, TypeOK
<1>2. ASSUME NEW w \in Workers, Handler(w) PROVE TypeInv'
  BY <1>2, SharedStepTypes, UserStepTypes, RowStepTypes, ClaimScheduleTypes DEF Handler
<1> QED
  BY <1>1, <1>2, ScanTypes DEF Next

\* The variables keep their types: in particular no balance but unclaimed ever
\* becomes negative, and no cursor leaves the log.
THEOREM TypeCorrectness == Spec => []TypeOK
<1>1. Spec => []TypeInv
  BY InitTypes, StepTypes, PTL DEF Spec
<1>2. TypeInv => TypeOK
  BY DEF TypeInv
<1> QED
  BY <1>1, <1>2, PTL

-----------------------------------------------------------------------------
(***************************************************************************)
(* The balances of a row.  A wallet without a row has none, which is what  *)
(* a claim that creates the row starts from.                               *)
(***************************************************************************)

BlankOrThere(v) == ~presaleUser[v].exists => presaleUser[v] = NoUser

RowsInv ==
  /\ UnclaimedBalances
  /\ \A v \in Wallets : BlankOrThere(v)

LEMMA RowsUntouched ==
  ASSUME [Next]_vars,
         ~\E w \in Workers : BuyUser(w) \/ ClaimUser(w) \/ VestingUser(w),
         ~\E wallet \in Wallets : Login(wallet)
  PROVE  UNCHANGED <<presaleUser, claimCreated>>
<1>1. CASE UNCHANGED vars
  BY <1>1 DEF vars, ledger
<1>2. CASE Emit \/ LoopScan \/ ResetEventState \/ Crash
           \/ (\E w \in Requests : RequestScan(w)) \/ (\E w \in Workers : ScanDone(w))
  BY <1>2 DEF Emit, LoopScan, ResetEventState, Crash, RequestScan, ScanDone, ledger
<1>3. ASSUME NEW w \in Workers, Handler(w) PROVE UNCHANGED <<presaleUser, claimCreated>>
  BY <1>3 DEF Handler, Take, Throw, Refuse, Mark, RecordActivity, BuyTx, BuyCertificate,
              ClaimTx, ClaimRead, ClaimSchedule, VestingUpsert, ledger
<1> QED
  BY <1>1, <1>2, <1>3 DEF Next

\* A step keeps a wallet's row, its blank form while there is none, and the
\* agreement of its balances.
LEMMA RowStep ==
  ASSUME TypeInv, [Next]_vars, NEW v \in Wallets, BlankOrThere(v)
  PROVE  /\ BlankOrThere(v)'
         /\ presaleUser[v].exists => presaleUser'[v].exists
         /\ BalancesAgree(v) => BalancesAgree(v)'
<1>0. presaleUser \in [Wallets -> UserRow]
  BY DEF TypeInv, TypeOK
<1>1. ASSUME NEW w \in Workers, BuyUser(w) \/ ClaimUser(w) \/ VestingUser(w), v = Event(w).wallet
      PROVE  presaleUser'[v].exists /\ (BalancesAgree(v) => BalancesAgree(v)')
  <2>0. PICK n \in Nat : n = Event(w).tokens /\ n > 0
    BY <1>1, EventType DEF BuyUser, ClaimUser, VestingUser, At, Handling
  <2> DEFINE old == presaleUser[v]
             new == presaleUser'[v]
  <2>1. old \in UserRow
    BY <1>0
  <2>2. CASE BuyUser(w)
    <3>1. new = [exists |-> TRUE, purchased |-> old.purchased + n,
                 claimed |-> old.claimed, unclaimed |-> old.unclaimed + n]
      BY <1>0, <1>1, <2>0, <2>2 DEF BuyUser
    <3> QED
      BY <2>0, <2>1, <2>2, <3>1 DEF BuyUser, BalancesAgree, UserRow
  <2>3. CASE ClaimUser(w)
    <3>1. new = [exists |-> TRUE, purchased |-> old.purchased, claimed |-> old.claimed + n,
                 unclaimed |-> UnclaimedAfterClaim(old, n)]
      BY <1>0, <1>1, <2>0, <2>3 DEF ClaimUser
    <3>2. CASE old.exists
      BY <1>1, <2>0, <2>1, <2>3, <3>1, <3>2
         DEF ClaimUser, BalancesAgree, UserRow, UnclaimedAfterClaim
    <3>3. CASE ~old.exists
      <4>1. old = NoUser /\ v \in claimCreated'
        BY <1>1, <2>3, <3>3 DEF ClaimUser, BlankOrThere
      <4> QED
        BY <2>0, <3>1, <4>1 DEF BalancesAgree, NoUser, UnclaimedAfterClaim
    <3> QED
      BY <3>2, <3>3
  <2>4. CASE VestingUser(w)
    <3>1. new = [old EXCEPT !.exists = TRUE]
      BY <1>0, <1>1, <2>4 DEF VestingUser
    <3> QED
      BY <2>1, <2>4, <3>1 DEF VestingUser, BalancesAgree, UserRow
  <2> QED
    BY <1>1, <2>2, <2>3, <2>4
<1>2. ASSUME Login(v) PROVE presaleUser'[v].exists /\ (BalancesAgree(v) => BalancesAgree(v)')
  <2>1. presaleUser'[v] = [presaleUser[v] EXCEPT !.exists = TRUE] /\ claimCreated' = claimCreated
    BY <1>0, <1>2 DEF Login
  <2> QED
    BY <1>0, <2>1 DEF BalancesAgree, UserRow
<1>3. CASE presaleUser'[v] = presaleUser[v] /\ (v \in claimCreated => v \in claimCreated')
  BY <1>3 DEF BlankOrThere, BalancesAgree
<1>4. ASSUME NEW w \in Workers, BuyUser(w) \/ ClaimUser(w) \/ VestingUser(w), v # Event(w).wallet
      PROVE  presaleUser'[v] = presaleUser[v] /\ (v \in claimCreated => v \in claimCreated')
  BY <1>0, <1>4 DEF BuyUser, ClaimUser, VestingUser
<1>5. ASSUME NEW wallet \in Wallets, Login(wallet), v # wallet
      PROVE  presaleUser'[v] = presaleUser[v] /\ (v \in claimCreated => v \in claimCreated')
  BY <1>0, <1>5 DEF Login
<1>6. CASE UNCHANGED <<presaleUser, claimCreated>>
  BY <1>3, <1>6
<1> QED
  BY <1>1, <1>2, <1>3, <1>4, <1>5, <1>6, RowsUntouched DEF BlankOrThere

LEMMA StepRows == TypeInv /\ RowsInv /\ [Next]_vars => RowsInv'
<1> SUFFICES ASSUME TypeInv, RowsInv, [Next]_vars, NEW v \in Wallets
             PROVE  BlankOrThere(v)' /\ BalancesAgree(v)'
  BY DEF RowsInv, UnclaimedBalances
<1> QED
  BY RowStep DEF RowsInv, UnclaimedBalances

\* However handlers, requests and logins interleave, a row's unclaimed tokens
\* are those bought less those claimed, or more for a wallet whose row the
\* claim handler created.
THEOREM BalancesAlwaysAgree == Spec => []UnclaimedBalances
<1>1. Init => RowsInv
  BY DEF Init, RowsInv, UnclaimedBalances, BalancesAgree, NoUser, BlankOrThere
<1>2. Spec => []TypeInv
  BY InitTypes, StepTypes, PTL DEF Spec
<1>3. Spec => []RowsInv
  BY <1>1, <1>2, StepRows, PTL DEF Spec
<1>4. RowsInv => UnclaimedBalances
  BY DEF RowsInv
<1> QED
  BY <1>3, <1>4, PTL

-----------------------------------------------------------------------------
(***************************************************************************)
(* Purchases.  What a worker that handles a purchase has done so far is    *)
(* read off its program counter; what is recorded stays recorded.          *)
(***************************************************************************)

Purchased(w) ==
  KindIs(job[w].event, "Bought") =>
    /\ job[w].pc \in {"tx", "activity", "certificate", "mark"} => counted[job[w].event] >= 1
    /\ job[w].pc \in {"activity", "certificate", "mark"} =>
         presaleTx[Log[job[w].event].tx].type = "Buy"

PurchaseInv ==
  /\ \A w \in Workers : Purchased(w)
  /\ MarkedPurchaseIsRecorded

\* A handler touches no locals but its own worker's.
LEMMA OthersUntouched ==
  ASSUME TypeInv, NEW w \in Workers, Handler(w) \/ ScanDone(w)
  PROVE  \A v \in Workers \ {w} : job'[v] = job[v]
<1>1. CASE ScanDone(w)
  BY <1>1 DEF ScanDone, TypeInv, TypeOK
<1>2. CASE Take(w)
  BY <1>2 DEF Take, TypeInv, TypeOK
<1>3. CASE Throw(w) \/ Refuse(w) \/ Mark(w) \/ RecordActivity(w)
  BY <1>3 DEF Throw, Refuse, Mark, RecordActivity, Return, GoTo, TypeInv, TypeOK
<1>4. CASE BuyUser(w) \/ BuyTx(w) \/ BuyCertificate(w) \/ ClaimUser(w) \/ ClaimTx(w)
           \/ VestingUser(w) \/ VestingUpsert(w)
  BY <1>4 DEF BuyUser, BuyTx, BuyCertificate, ClaimUser, ClaimTx, VestingUser, VestingUpsert,
              GoTo, TypeInv, TypeOK
<1>5. CASE ClaimRead(w)
  BY <1>5 DEF ClaimRead, Return, TypeInv, TypeOK
<1>6. CASE ClaimSchedule(w)
  BY <1>6 DEF ClaimSchedule, Return, TypeInv, TypeOK
<1> QED
  BY <1>1, <1>2, <1>3, <1>4, <1>5, <1>6 DEF Handler

\* Events are not uncounted, and a transaction that is a purchase remains one.
LEMMA RecordsStay ==
  ASSUME TypeInv, [Next]_vars
  PROVE  /\ \A e \in Events : counted'[e] >= counted[e]
         /\ \A t \in TxHashes : presaleTx[t].type = "Buy" => presaleTx'[t].type = "Buy"
<1>0. counted \in [Events -> Nat] /\ presaleTx \in [TxHashes -> TxRow]
  BY DEF TypeInv, TypeOK
<1>1. ASSUME NEW w \in Workers, BuyUser(w) \/ ClaimUser(w)
      PROVE  /\ presaleTx' = presaleTx
             /\ \A e \in Events : counted'[e] >= counted[e]
  <2>1. presaleTx' = presaleTx /\ counted' = [counted EXCEPT ![job[w].event] = @ + 1]
    BY <1>1 DEF BuyUser, ClaimUser
  <2> QED
    BY <1>0, <2>1
<1>2. ASSUME NEW w \in Workers, BuyTx(w) \/ ClaimTx(w)
      PROVE  /\ counted' = counted
             /\ \A t \in TxHashes : presaleTx[t].type = "Buy" => presaleTx'[t].type = "Buy"
  <2>1. CASE BuyTx(w)
    BY <1>0, <2>1 DEF BuyTx
  <2>2. CASE ClaimTx(w)
    <3>1. presaleTx[Event(w).tx].type # "Buy"
      BY <2>2 DEF ClaimTx, At, Refused, NoTx
    <3> QED
      BY <1>0, <2>2, <3>1 DEF ClaimTx
  <2> QED
    BY <1>2, <2>1, <2>2
<1>3. ASSUME NEW w \in Workers, Handler(w), ~BuyUser(w), ~ClaimUser(w), ~BuyTx(w), ~ClaimTx(w)
      PROVE  UNCHANGED <<counted, presaleTx>>
  BY <1>3 DEF Handler, Take, Throw, Refuse, Mark, RecordActivity, BuyCertificate,
              ClaimRead, ClaimSchedule, VestingUser, VestingUpsert, ledger
<1>4. CASE UNCHANGED vars \/ Emit \/ LoopScan \/ ResetEventState \/ Crash
           \/ (\E wallet \in Wallets : Login(wallet))
           \/ (\E w \in Requests : RequestScan(w)) \/ (\E w \in Workers : ScanDone(w))
  <2>1. UNCHANGED <<counted, presaleTx>>
    BY <1>4 DEF vars, Emit, LoopScan, ResetEventState, Crash, Login, RequestScan, ScanDone, ledger
  <2> QED
    BY <1>0, <2>1
<1> QED
  BY <1>0, <1>1, <1>2, <1>3, <1>4 DEF Next

LEMMA HandlerPurchases ==
  ASSUME TypeInv, PurchaseInv, NEW w \in Workers, Handler(w)
  PROVE  PurchaseInv'
<1>0. /\ \A e \in Events : counted'[e] \in Nat /\ counted[e] \in Nat /\ counted'[e] >= counted[e]
      /\ \A t \in TxHashes : presaleTx[t].type = "Buy" => presaleTx'[t].type = "Buy"
  <2>1. [Next]_vars
    BY DEF Next
  <2> QED
    BY <2>1, RecordsStay, StepTypes DEF TypeInv, TypeOK
<1>1. ASSUME NEW v \in Workers \ {w} PROVE Purchased(v)'
  <2>1. job'[v] = job[v] /\ Purchased(v)
    BY OthersUntouched DEF PurchaseInv
  <2>2. job[v].pc \in Handling => job[v].event \in Events /\ Log[job[v].event].tx \in TxHashes
    BY LogType DEF TypeInv, GoodJob
  <2> QED
    BY <1>0, <2>1, <2>2 DEF Purchased, KindIs, Handling
<1>2. Purchased(w)'
  <2>0. Purchased(w) /\ (job[w].pc \in Handling => job[w].event \in Events /\ Event(w).tx \in TxHashes)
    BY EventType DEF PurchaseInv, TypeInv, GoodJob
  <2>1. CASE Take(w) \/ Throw(w) \/ Refuse(w)
    <3>1. job'[w].pc \in {"next", "user"} \/ (job'[w].pc = "mark" /\ ~KindIs(job'[w].event, "Bought"))
      <4>1. CASE Take(w)
        <5> DEFINE e == First(job[w].todo)
        <5>1. job \in [Workers -> Job] /\ job[w] \in Job /\ job[w].pc = "next"
          BY <4>1 DEF Take, TypeInv, TypeOK
        <5>2. \/ job' = [job EXCEPT ![w].todo = @ \ {e}]
              \/ job' = [job EXCEPT ![w].todo = @ \ {e}, ![w].event = e,
                                   ![w].pc = FirstWrite(Log[e].kind)]
          BY <4>1 DEF Take
        <5> HIDE DEF e
        <5>3. CASE job' = [job EXCEPT ![w].todo = @ \ {e}]
          BY <5>1, <5>3 DEF Job
        <5>4. CASE job' = [job EXCEPT ![w].todo = @ \ {e}, ![w].event = e,
                                      ![w].pc = FirstWrite(Log[e].kind)]
          <6>1. job'[w].event = e /\ job'[w].pc = FirstWrite(Log[e].kind)
            BY <5>1, <5>4 DEF Job
          <6> QED
            BY <6>1 DEF FirstWrite, KindIs
        <5> QED
          BY <5>2, <5>3, <5>4
      <4>2. CASE Throw(w) \/ Refuse(w)
        BY <4>2 DEF Throw, Refuse, Return, Between, TypeInv, TypeOK
      <4> QED
        BY <2>1, <4>1, <4>2
    <3> QED
      BY <3>1 DEF Purchased
  <2>2. CASE ~Take(w) /\ ~Throw(w) /\ ~Refuse(w) /\ ~KindIs(job[w].event, "Bought")
    <3>1. job'[w].pc = "next" \/ job'[w].event = job[w].event
      BY <2>2 DEF Handler, Mark, RecordActivity, BuyUser, BuyTx, BuyCertificate, ClaimUser, ClaimTx,
                  ClaimRead, ClaimSchedule, VestingUser, VestingUpsert, Return, GoTo, Between,
                  TypeInv, TypeOK, GoodJob, Job
    <3> QED
      BY <2>2, <3>1 DEF Purchased, KindIs
  <2>3. CASE ~Take(w) /\ ~Throw(w) /\ ~Refuse(w) /\ KindIs(job[w].event, "Bought")
    <3>1. CASE BuyUser(w)
      <4>1. job'[w].pc = "tx" /\ job'[w].event = job[w].event /\ job[w].event \in Events
        BY <2>0, <3>1 DEF BuyUser, At, GoTo, Handling, TypeInv, TypeOK, GoodJob, Job
      <4>2. counted'[job[w].event] = counted[job[w].event] + 1
        BY <3>1, <4>1 DEF BuyUser, TypeInv, TypeOK
      <4> QED
        BY <1>0, <4>1, <4>2 DEF Purchased
    <3>2. CASE BuyTx(w)
      <4>1. /\ job'[w].pc = "activity" /\ job'[w].event = job[w].event
            /\ job[w].event \in Events /\ Event(w).tx \in TxHashes /\ job[w].pc = "tx"
        BY <2>0, <3>2 DEF BuyTx, At, GoTo, Handling, TypeInv, TypeOK, GoodJob, Job
      <4>2. presaleTx'[Event(w).tx].type = "Buy"
        BY <3>2, <4>1 DEF BuyTx, TypeInv, TypeOK
      <4> QED
        BY <1>0, <2>0, <2>3, <4>1, <4>2 DEF Purchased, Event
    <3>3. CASE RecordActivity(w) \/ BuyCertificate(w)
      <4>1. /\ job'[w].event = job[w].event /\ job[w].event \in Events /\ Event(w).tx \in TxHashes
            /\ job[w].pc \in {"activity", "certificate"}
        BY <2>0, <3>3 DEF RecordActivity, BuyCertificate, At, GoTo, Handling, TypeInv, TypeOK, GoodJob, Job
      <4> QED
        BY <1>0, <2>0, <2>3, <4>1 DEF Purchased, Event
    <3>4. CASE Mark(w)
      <4>1. job'[w].pc = "next"
        BY <2>3, <3>4 DEF Mark, KindIs, Event, Return, Between, TypeInv, TypeOK
      <4> QED
        BY <4>1 DEF Purchased
    <3> QED
      BY <2>3, <3>1, <3>2, <3>3, <3>4
         DEF Handler, ClaimUser, ClaimTx, ClaimRead, ClaimSchedule, VestingUser, VestingUpsert,
             At, KindIs, Event
  <2> QED
    BY <2>1, <2>2, <2>3
<1>3. MarkedPurchaseIsRecorded'
  <2>1. CASE Mark(w)
    <3>1. listenerState' = listenerState \cup {job[w].event} /\ job[w].pc = "mark"
          /\ job[w].event \in Events
      BY <2>1, EventType DEF Mark, Handling
    <3>2. KindIs(job[w].event, "Bought") =>
            counted[job[w].event] >= 1 /\ presaleTx[Log[job[w].event].tx].type = "Buy"
      BY <3>1 DEF PurchaseInv, Purchased
    <3>3. ASSUME NEW e \in listenerState', KindIs(e, "Bought")
          PROVE  counted'[e] >= 1 /\ presaleTx'[Log[e].tx].type = "Buy"
      <4>1. e \in Events /\ counted[e] >= 1 /\ presaleTx[Log[e].tx].type = "Buy"
        BY <3>1, <3>2, <3>3 DEF PurchaseInv, MarkedPurchaseIsRecorded, TypeInv, TypeOK
      <4>2. counted'[e] >= 1
        BY <1>0, <4>1
      <4>3. Log[e].tx \in TxHashes
        BY <4>1, LogType
      <4> QED
        BY <1>0, <4>1, <4>2, <4>3
    <3> QED
      BY <3>3 DEF MarkedPurchaseIsRecorded, KindIs
  <2>2. CASE ~Mark(w)
    <3>1. listenerState' = listenerState
      BY <2>2 DEF Handler, Take, Throw, Refuse, RecordActivity, BuyUser, BuyTx, BuyCertificate,
                  ClaimUser, ClaimTx, ClaimRead, ClaimSchedule, VestingUser, VestingUpsert
    <3>2. ASSUME NEW e \in listenerState, KindIs(e, "Bought")
          PROVE  counted'[e] >= 1 /\ presaleTx'[Log[e].tx].type = "Buy"
      <4>1. e \in Events /\ counted[e] >= 1 /\ presaleTx[Log[e].tx].type = "Buy"
        BY <3>2 DEF PurchaseInv, MarkedPurchaseIsRecorded, TypeInv, TypeOK
      <4>2. counted'[e] >= 1
        BY <1>0, <4>1
      <4>3. Log[e].tx \in TxHashes
        BY <4>1, LogType
      <4> QED
        BY <1>0, <4>1, <4>2, <4>3
    <3> QED
      BY <3>1, <3>2 DEF MarkedPurchaseIsRecorded, KindIs
  <2> QED
    BY <2>1, <2>2
<1> QED
  BY <1>1, <1>2, <1>3 DEF PurchaseInv

LEMMA ScanPurchases ==
  ASSUME TypeInv, PurchaseInv,
         UNCHANGED vars \/ Emit \/ LoopScan \/ ResetEventState \/ Crash
         \/ (\E wallet \in Wallets : Login(wallet))
         \/ (\E w \in Requests : RequestScan(w)) \/ (\E w \in Workers : ScanDone(w))
  PROVE  PurchaseInv'
<1>1. UNCHANGED <<counted, presaleTx>> /\ listenerState' \subseteq listenerState
  BY DEF vars, Emit, LoopScan, ResetEventState, Crash, Login, RequestScan, ScanDone, ledger
<1>2. \A v \in Workers : job'[v] = job[v] \/ job'[v].pc \in {"idle", "done", "next"}
  <2>1. CASE UNCHANGED vars \/ Emit \/ ResetEventState \/ (\E wallet \in Wallets : Login(wallet))
    BY <2>1 DEF vars, Emit, ResetEventState, Login
  <2>2. CASE LoopScan
    BY <2>2 DEF LoopScan, Between, Workers, TypeInv, TypeOK
  <2>3. CASE Crash
    BY <2>3, BetweenIsGood DEF Crash, Stopped
  <2>4. ASSUME NEW w \in Requests, RequestScan(w)
        PROVE  \A v \in Workers : job'[v] = job[v] \/ job'[v].pc \in {"idle", "done", "next"}
    BY <2>4 DEF RequestScan, Between, Workers, TypeInv, TypeOK
  <2>5. ASSUME NEW w \in Workers, ScanDone(w)
        PROVE  \A v \in Workers : job'[v] = job[v] \/ job'[v].pc \in {"idle", "done", "next"}
    BY <2>5, BetweenIsGood DEF ScanDone, Stopped, TypeInv, TypeOK
  <2> QED
    BY <2>1, <2>2, <2>3, <2>4, <2>5
<1>3. \A v \in Workers : Purchased(v)'
  BY <1>1, <1>2 DEF PurchaseInv, Purchased, KindIs
<1>4. MarkedPurchaseIsRecorded'
  BY <1>1 DEF PurchaseInv, MarkedPurchaseIsRecorded, KindIs
<1> QED
  BY <1>3, <1>4 DEF PurchaseInv

LEMMA StepPurchases == TypeInv /\ PurchaseInv /\ [Next]_vars => PurchaseInv'
  BY HandlerPurchases, ScanPurchases DEF Next

\* A purchase marked as processed is counted and on record as a purchase, for
\* any faults, resets and overlapping scans (PresaleBuyHandler marks last).
THEOREM MarkedPurchasesAreRecorded == Spec => []MarkedPurchaseIsRecorded
<1>1. Init => PurchaseInv
  BY BetweenIsGood DEF Init, PurchaseInv, Purchased, MarkedPurchaseIsRecorded
<1>2. Spec => []TypeInv
  BY InitTypes, StepTypes, PTL DEF Spec
<1>3. Spec => []PurchaseInv
  BY <1>1, <1>2, StepPurchases, PTL DEF Spec
<1>4. PurchaseInv => MarkedPurchaseIsRecorded
  BY DEF PurchaseInv
<1> QED
  BY <1>3, <1>4, PTL

-----------------------------------------------------------------------------
(***************************************************************************)
(* Schedules.  A schedule's total is set once (SchedulesAnnouncedOnce), so *)
(* that the totals in a claim's snapshot, if not 0, are still current when *)
(* the claim writes; its claimed amount need not be.                       *)
(***************************************************************************)

Announces(e, s) == KindIs(e, "VestingScheduleCreated") /\ s = <<Log[e].wallet, Log[e].schedule>>

Announced(s) ==
  vestingSchedule[s].total # 0 =>
    \E e \in Events : Announces(e, s) /\ vestingSchedule[s].total = Log[e].tokens

FreshAt(w, s) ==
  job[w].pc = "apply" /\ job[w].snap[s].total # 0 => job[w].snap[s].total = vestingSchedule[s].total

OwnSchedule(s) ==
  /\ Announced(s)
  /\ \A w \in Workers : FreshAt(w, s)
  /\ vestingSchedule[s].claimed <= vestingSchedule[s].total

ScheduleInv == \A s \in Schedules : OwnSchedule(s)

\* What a step does to a schedule: nothing, its announcement, or a claim's
\* share, which is bounded by the total the claim has seen.
AnnouncedMove(s) ==
  /\ \E e \in Events : Announces(e, s) /\ vestingSchedule'[s].total = Log[e].tokens
  /\ vestingSchedule'[s].claimed = vestingSchedule[s].claimed
  /\ presaleUser[s[1]].exists

ClaimedMove(s) ==
  /\ \E w \in Workers : job[w].pc = "apply" /\ vestingSchedule'[s].claimed <= job[w].snap[s].total
  /\ vestingSchedule'[s].total = vestingSchedule[s].total

ScheduleMove(s) ==
  vestingSchedule'[s] = vestingSchedule[s] \/ AnnouncedMove(s) \/ ClaimedMove(s)

\* ... and to what a claim has seen: it was seen before, or is what there is.
SnapMove(v) ==
  job'[v].pc = "apply" =>
    \/ job[v].pc = "apply" /\ job'[v].snap = job[v].snap
    \/ job'[v].snap = vestingSchedule /\ vestingSchedule' = vestingSchedule

LEMMA UpsertMoves ==
  ASSUME TypeInv, NEW w \in Workers, VestingUpsert(w), NEW s \in Schedules
  PROVE  ScheduleMove(s)
<1>0. PICK e \in Events : e = job[w].event
  BY EventType DEF VestingUpsert, At, Handling
<1>1. PICK a \in Schedules : Announces(e, a) /\ a = <<Log[e].wallet, Log[e].schedule>>
  BY <1>0, EventType DEF VestingUpsert, At, Handling, Announces, KindIs, Event
<1>2. vestingSchedule' = [vestingSchedule EXCEPT ![a].total = Log[e].tokens]
  BY <1>0, <1>1 DEF VestingUpsert, Event
<1>3. /\ vestingSchedule \in [Schedules -> ScheduleRow]
      /\ vestingSchedule'[a] = [vestingSchedule[a] EXCEPT !.total = Log[e].tokens]
      /\ \A t \in Schedules \ {a} : vestingSchedule'[t] = vestingSchedule[t]
  BY <1>2 DEF TypeInv, TypeOK
<1>4. presaleUser[a[1]].exists
  <2>1. ~Refused(w) /\ Event(w) = Log[e]
    BY <1>0 DEF VestingUpsert, Event
  <2> QED
    BY <1>1, <2>1 DEF Refused
<1>5. AnnouncedMove(a)
  BY <1>1, <1>3, <1>4 DEF AnnouncedMove, ScheduleRow
<1> QED
  BY <1>3, <1>5 DEF ScheduleMove

LEMMA ClaimMoves ==
  ASSUME TypeInv, NEW w \in Workers, ClaimSchedule(w), NEW s \in Schedules
  PROVE  ScheduleMove(s)
<1>0. job[w].pc = "apply" /\ GoodJob(job[w]) /\ Event(w).tokens \in Nat
  BY EventType DEF ClaimSchedule, At, TypeInv, Handling
<1>1. PICK a \in job[w].left, c \in Nat :
        c <= job[w].snap[a].total /\ vestingSchedule' = [vestingSchedule EXCEPT ![a].claimed = c]
  <2>1. PICK a \in job[w].left :
          vestingSchedule' = [vestingSchedule EXCEPT ![a].claimed =
            Capped(job[w].snap[a].total, job[w].snap[a].claimed
                     + Share(Event(w).tokens, Unclaimed(job[w].snap[a]), job[w].open))]
    BY DEF ClaimSchedule
  <2>2. /\ job[w].snap[a] \in ScheduleRow /\ job[w].open \in Nat /\ job[w].open > 0
        /\ job[w].snap[a].claimed <= job[w].snap[a].total
    BY <1>0 DEF GoodJob, Job
  <2>3. Unclaimed(job[w].snap[a]) \in Nat
    BY <2>2 DEF Unclaimed, ScheduleRow
  <2>4. Share(Event(w).tokens, Unclaimed(job[w].snap[a]), job[w].open) \in Nat
    BY <1>0, <2>2, <2>3, ShareType
  <2> DEFINE c == Capped(job[w].snap[a].total, job[w].snap[a].claimed
                           + Share(Event(w).tokens, Unclaimed(job[w].snap[a]), job[w].open))
  <2>5. c \in Nat /\ c <= job[w].snap[a].total
    BY <2>2, <2>4 DEF Capped, ScheduleRow
  <2>6. vestingSchedule' = [vestingSchedule EXCEPT ![a].claimed = c]
    BY <2>1
  <2> HIDE DEF c
  <2> QED
    BY <2>5, <2>6
<1>2. a \in Schedules /\ vestingSchedule \in [Schedules -> ScheduleRow]
  BY <1>0 DEF GoodJob, Job, TypeInv, TypeOK
<1>3. CASE s = a
  <2>1. vestingSchedule'[s].claimed = c /\ vestingSchedule'[s].total = vestingSchedule[s].total
    BY <1>1, <1>2, <1>3 DEF ScheduleRow
  <2> QED
    BY <1>0, <1>1, <1>3, <2>1 DEF ScheduleMove, ClaimedMove
<1>4. CASE s # a
  BY <1>1, <1>2, <1>4 DEF ScheduleMove
<1> QED
  BY <1>3, <1>4

\* A step that writes to no schedule.
LEMMA SchedulesUntouched ==
  ASSUME [Next]_vars, ~\E w \in Workers : VestingUpsert(w) \/ ClaimSchedule(w)
  PROVE  vestingSchedule' = vestingSchedule
<1>1. ASSUME NEW w \in Workers, Handler(w) PROVE vestingSchedule' = vestingSchedule
  BY <1>1 DEF Handler, Take, Throw, Refuse, Mark, RecordActivity, BuyUser, BuyTx, BuyCertificate,
              ClaimUser, ClaimTx, ClaimRead, VestingUser, ledger
<1> QED
  BY <1>1 DEF Next, vars, Emit, LoopScan, ResetEventState, Crash, Login, RequestScan, ScanDone, ledger

LEMMA SnapMoves ==
  ASSUME TypeInv, [Next]_vars, NEW v \in Workers
  PROVE  SnapMove(v)
<1>1. CASE UNCHANGED vars \/ Emit \/ ResetEventState \/ (\E wallet \in Wallets : Login(wallet))
  BY <1>1 DEF vars, Emit, ResetEventState, Login, SnapMove
<1>2. CASE LoopScan \/ \E w \in Requests : RequestScan(w)
  <2>1. job'[v] = job[v] \/ job'[v].pc = "next"
    BY <1>2 DEF LoopScan, RequestScan, Between, Workers, TypeInv, TypeOK
  <2>2. vestingSchedule' = vestingSchedule
    BY <1>2 DEF LoopScan, RequestScan, ledger
  <2> QED
    BY <2>1, <2>2 DEF SnapMove
<1>3. CASE Crash
  BY <1>3, BetweenIsGood DEF Crash, Stopped, SnapMove
<1>4. ASSUME NEW w \in Workers, ScanDone(w) \/ Handler(w) PROVE SnapMove(w)
  <2>1. CASE ScanDone(w)
    BY <2>1, BetweenIsGood DEF ScanDone, Stopped, TypeInv, TypeOK, SnapMove
  <2>2. CASE Take(w)
    <3>1. job[w].pc = "next" /\ job[w] \in Job
      BY <2>2 DEF Take, TypeInv, TypeOK
    <3>2. job'[w].pc \in {job[w].pc, FirstWrite(Log[First(job[w].todo)].kind)}
      BY <2>2 DEF Take, TypeInv, TypeOK, Job
    <3> QED
      BY <3>1, <3>2 DEF FirstWrite, SnapMove
  <2>3. CASE Throw(w) \/ Refuse(w) \/ Mark(w) \/ RecordActivity(w)
    BY <2>3 DEF Throw, Refuse, Mark, RecordActivity, Return, Between, GoTo, AfterClaimMark,
                TypeInv, TypeOK, Job, SnapMove
  <2>4. CASE BuyUser(w) \/ BuyTx(w) \/ BuyCertificate(w) \/ ClaimUser(w) \/ ClaimTx(w)
             \/ VestingUser(w) \/ VestingUpsert(w)
    BY <2>4 DEF BuyUser, BuyTx, BuyCertificate, ClaimUser, ClaimTx, VestingUser, VestingUpsert, GoTo,
                TypeInv, TypeOK, Job, SnapMove
  <2>5. CASE ClaimRead(w)
    <3>1. vestingSchedule' = vestingSchedule
      BY <2>5 DEF ClaimRead, ledger
    <3> QED
      BY <2>5, <3>1 DEF ClaimRead, Return, Between, TypeInv, TypeOK, Job, SnapMove
  <2>6. CASE ClaimSchedule(w)
    BY <2>6 DEF ClaimSchedule, Return, Between, At, TypeInv, TypeOK, Job, SnapMove
  <2> QED
    BY <1>4, <2>1, <2>2, <2>3, <2>4, <2>5, <2>6 DEF Handler
<1>5. ASSUME job'[v] = job[v] PROVE SnapMove(v)
  BY <1>5 DEF SnapMove
<1>6. ASSUME NEW w \in Workers, ScanDone(w) \/ Handler(w) PROVE SnapMove(v)
  <2>1. CASE v = w
    BY <1>4, <1>6, <2>1
  <2>2. CASE v # w
    <3>1. job'[v] = job[v]
      BY <1>6, <2>2, OthersUntouched
    <3> QED
      BY <1>5, <3>1
  <2> QED
    BY <2>1, <2>2
<1> QED
  BY <1>1, <1>2, <1>3, <1>6 DEF Next

LEMMA ScheduleMoves ==
  ASSUME TypeInv, [Next]_vars
  PROVE  /\ \A s \in Schedules : ScheduleMove(s)
         /\ \A w \in Workers : SnapMove(w)
  BY UpsertMoves, ClaimMoves, SchedulesUntouched, SnapMoves DEF ScheduleMove

LEMMA ScheduleStep ==
  ASSUME TypeInv, TypeInv', [Next]_vars, NEW s \in Schedules, OwnSchedule(s)
  PROVE  OwnSchedule(s)'
<1>0. /\ ScheduleMove(s) /\ \A w \in Workers : SnapMove(w)
      /\ vestingSchedule[s] \in ScheduleRow /\ vestingSchedule'[s] \in ScheduleRow
      /\ \A w \in Workers : job[w].snap[s] \in ScheduleRow
  BY ScheduleMoves DEF TypeInv, TypeOK, Job
<1>1. Announced(s)'
  BY <1>0 DEF OwnSchedule, Announced, Announces, KindIs, ScheduleMove, AnnouncedMove, ClaimedMove
<1>2. vestingSchedule[s].total # 0 => vestingSchedule'[s].total = vestingSchedule[s].total
  <2>1. CASE AnnouncedMove(s)
    <3>1. ASSUME NEW e \in Events, NEW f \in Events, Announces(e, s), Announces(f, s) PROVE e = f
      BY <3>1, SchedulesAnnouncedOnce DEF Announces, KindIs, Events
    <3> QED
      BY <2>1, <3>1 DEF AnnouncedMove, OwnSchedule, Announced
  <2> QED
    BY <1>0, <2>1 DEF ScheduleMove, ClaimedMove
<1>3. ASSUME NEW w \in Workers PROVE FreshAt(w, s)'
  <2> SUFFICES ASSUME job'[w].pc = "apply", job'[w].snap[s].total # 0
               PROVE  job'[w].snap[s].total = vestingSchedule'[s].total
    BY DEF FreshAt
  <2>1. CASE job[w].pc = "apply" /\ job'[w].snap = job[w].snap
    <3>1. FreshAt(w, s)
      BY DEF OwnSchedule
    <3> QED
      BY <1>2, <2>1, <3>1 DEF FreshAt
  <2>2. CASE job'[w].snap = vestingSchedule /\ vestingSchedule' = vestingSchedule
    BY <2>2
  <2> QED
    BY <1>0, <2>1, <2>2 DEF SnapMove
<1>4. vestingSchedule'[s].claimed <= vestingSchedule'[s].total
  <2>1. vestingSchedule[s].claimed <= vestingSchedule[s].total
    BY DEF OwnSchedule
  <2>2. CASE AnnouncedMove(s)
    BY <1>0, <1>2, <2>1, <2>2 DEF AnnouncedMove, ScheduleRow
  <2>3. CASE ClaimedMove(s)
    <3>1. PICK w \in Workers : job[w].pc = "apply" /\ vestingSchedule'[s].claimed <= job[w].snap[s].total
      BY <2>3 DEF ClaimedMove
    <3>2. FreshAt(w, s) /\ vestingSchedule'[s].total = vestingSchedule[s].total
      BY <2>3 DEF OwnSchedule, ClaimedMove
    <3> QED
      BY <1>0, <3>1, <3>2 DEF FreshAt, ScheduleRow
  <2> QED
    BY <1>0, <2>1, <2>2, <2>3 DEF ScheduleMove
<1> QED
  BY <1>1, <1>3, <1>4 DEF OwnSchedule

LEMMA StepSchedules == TypeInv /\ TypeInv' /\ ScheduleInv /\ [Next]_vars => ScheduleInv'
<1> SUFFICES ASSUME TypeInv, TypeInv', ScheduleInv, [Next]_vars, NEW s \in Schedules
             PROVE  OwnSchedule(s)'
  BY DEF ScheduleInv
<1> QED
  BY ScheduleStep DEF ScheduleInv

\* No schedule is claimed beyond its total, whatever the rounding of the shares
\* and however many claims are spread at once from the same snapshot.
THEOREM SchedulesAreNotOverclaimed == Spec => []ScheduleNotOverclaimed
<1>1. Init => ScheduleInv
  BY BetweenIsGood DEF Init, NoSchedules, ScheduleInv, OwnSchedule, Announced, FreshAt
<1>2. Spec => []TypeInv
  BY InitTypes, StepTypes, PTL DEF Spec
<1>3. Spec => []ScheduleInv
  BY <1>1, <1>2, StepSchedules, PTL DEF Spec
<1>4. ScheduleInv => ScheduleNotOverclaimed
  BY DEF ScheduleInv, OwnSchedule, ScheduleNotOverclaimed
<1> QED
  BY <1>3, <1>4, PTL

-----------------------------------------------------------------------------
(***************************************************************************)
(* How often an event is counted, while scans do not overlap.  Only one    *)
(* worker is then in a handler, and the event it handles is not marked,    *)
(* unless it is a claim behind its marker.                                 *)
(***************************************************************************)

One(b) == IF b THEN 1 ELSE 0

\* Counted and not marked yet; marked and not counted yet.
WrittenBy(j, e)  == j.event = e /\ j.pc \in {"tx", "activity", "certificate", "mark"}
PromisedBy(j, e) == j.event = e /\ j.pc = "user"
Written(e)  == \E w \in Workers : WrittenBy(job[w], e)
Promised(e) == \E w \in Workers : PromisedBy(job[w], e)

Alone(w) == \A v \in Workers \ {w} : Resting(v)

Unmarked(w) ==
  job[w].pc \in (IF KindIs(job[w].event, "Claimed") THEN {"mark"}
                 ELSE {"user", "tx", "activity", "certificate", "mark"})
    => job[w].event \notin listenerState

RowThere(w) == job[w].pc = "tx" => presaleUser[Event(w).wallet].exists

Accounted(e) ==
  IF KindIs(e, "Claimed")
  THEN counted[e] + One(Promised(e)) <= One(e \in listenerState) + resets
  ELSE counted[e] <= One(e \in listenerState) + One(Written(e)) + resets + faults

RepeatInv ==
  /\ \A w \in Workers : Resting(w) \/ Alone(w)
  /\ \A w \in Workers : Unmarked(w) /\ RowThere(w)
  /\ \A e \in Events : Accounted(e)

\* With one worker in a handler, its locals tell what is in hand.
LEMMA InHand ==
  ASSUME NEW w \in Workers, Alone(w), NEW e
  PROVE  (Written(e) <=> WrittenBy(job[w], e)) /\ (Promised(e) <=> PromisedBy(job[w], e))
  BY DEF Alone, Resting, Written, WrittenBy, Promised, PromisedBy

LEMMA Moves ==
  ASSUME TypeInv, NEW w \in Workers
  PROVE  /\ \A pc : GoTo(w, pc) => job'[w].pc = pc /\ job'[w].event = job[w].event
         /\ Return(w) => job'[w].pc = "next" /\ job'[w].event = 0
  BY DEF GoTo, Return, Between, TypeInv, TypeOK, Job

\* What a handler's step does to the locals of its worker.
HandlerMove(w) ==
  LET j == job[w]
      k == job'[w]
      e == j.event
      claim == KindIs(e, "Claimed")
  IN  \/ j.pc = "next" /\ k.pc = "next" /\ UNCHANGED <<counted, listenerState>>
      \/ /\ j.pc = "next" /\ k.event \in Events \ listenerState
         /\ k.pc = FirstWrite(Log[k.event].kind)
         /\ UNCHANGED <<counted, listenerState, faults>>
      \/ /\ j.pc \in Handling /\ k.pc = "next" /\ faults' = faults + 1
         /\ UNCHANGED <<counted, listenerState>>
      \/ /\ j.pc = "tx" /\ Refused(w) /\ k.pc = "next"
         /\ UNCHANGED <<counted, listenerState, faults>>
      \/ /\ j.pc = "mark" /\ listenerState' = listenerState \cup {e}
         /\ IF claim THEN k.pc = "user" /\ k.event = e ELSE k.pc = "next"
         /\ UNCHANGED <<counted, faults>>
      \/ /\ j.pc = "user" /\ k.pc = "tx" /\ k.event = e
         /\ presaleUser'[Event(w).wallet].exists
         /\ counted' = IF KindIs(e, "VestingScheduleCreated") THEN counted
                       ELSE [counted EXCEPT ![e] = @ + 1]
         /\ UNCHANGED <<listenerState, faults>>
      \/ /\ j.pc \in {"tx", "activity", "certificate"} /\ k.event = e /\ ~claim
         /\ k.pc \in {"activity", "certificate", "mark"}
         /\ faults' \in {faults, faults + 1}
         /\ UNCHANGED <<counted, listenerState>>
      \/ /\ j.pc \in {"tx", "activity", "read", "apply"} /\ claim
         /\ k.pc = "next" \/ (k.event = e /\ k.pc \in {"activity", "read", "apply"})
         /\ faults' \in {faults, faults + 1}
         /\ UNCHANGED <<counted, listenerState>>

LEMMA HandlerMoves ==
  ASSUME TypeInv, NEW w \in Workers, Handler(w)
  PROVE  HandlerMove(w) /\ resets' = resets /\ faults' \in {faults, faults + 1}
<1>0. job[w] \in Job /\ job \in [Workers -> Job]
      /\ (job[w].pc \in Handling => job[w].event \in Events /\ Log[job[w].event].kind \in Kinds)
  BY LogType DEF TypeInv, TypeOK, GoodJob
<1>1. CASE Take(w)
  <2> DEFINE e == First(job[w].todo)
  <2>1. e \in Events
    BY <1>0, <1>1, FirstIsOneOfThem DEF Take, Job
  <2>2. \/ job' = [job EXCEPT ![w].todo = @ \ {e}] /\ faults' \in {faults, faults + 1}
        \/ /\ e \notin listenerState /\ faults' = faults
           /\ job' = [job EXCEPT ![w].todo = @ \ {e}, ![w].event = e,
                                 ![w].pc = FirstWrite(Log[e].kind)]
    BY <1>1 DEF Take, AlreadyProcessed, Fault
  <2>3. job[w].pc = "next" /\ UNCHANGED <<counted, listenerState, resets>>
    BY <1>1 DEF Take, ledger
  <2> HIDE DEF e
  <2>4. CASE job' = [job EXCEPT ![w].todo = @ \ {e}] /\ faults' \in {faults, faults + 1}
    <3>1. job'[w].pc = "next"
      BY <1>0, <2>3, <2>4 DEF Job
    <3> QED
      BY <2>3, <2>4, <3>1 DEF HandlerMove
  <2>5. CASE /\ e \notin listenerState /\ faults' = faults
             /\ job' = [job EXCEPT ![w].todo = @ \ {e}, ![w].event = e,
                                   ![w].pc = FirstWrite(Log[e].kind)]
    <3>1. job'[w].event = e /\ job'[w].pc = FirstWrite(Log[e].kind)
      BY <1>0, <2>5 DEF Job
    <3> QED
      BY <2>1, <2>3, <2>5, <3>1 DEF HandlerMove
  <2> QED
    BY <2>2, <2>4, <2>5
<1>2. CASE Throw(w) \/ Refuse(w)
  BY <1>2, Moves DEF Throw, Refuse, Fault, Handling, ledger, HandlerMove
<1>3. CASE Mark(w)
  BY <1>3, Moves DEF Mark, AfterClaimMark, KindIs, Event, ledger, HandlerMove
<1>4. CASE BuyUser(w) \/ ClaimUser(w) \/ VestingUser(w)
  <2>1. job[w].pc = "user" /\ job'[w].pc = "tx" /\ job'[w].event = job[w].event
    BY <1>4, Moves DEF BuyUser, ClaimUser, VestingUser, At
  <2>2. presaleUser'[Event(w).wallet].exists
    <3>1. Event(w).wallet \in Wallets /\ presaleUser \in [Wallets -> UserRow]
      BY <2>1, EventType DEF Handling, TypeInv, TypeOK
    <3> QED
      BY <1>4, <3>1 DEF BuyUser, ClaimUser, VestingUser, UserRow
  <2>3. counted' = IF KindIs(job[w].event, "VestingScheduleCreated") THEN counted
                   ELSE [counted EXCEPT ![job[w].event] = @ + 1]
    BY <1>4 DEF BuyUser, ClaimUser, VestingUser, At, KindIs, Event
  <2>4. UNCHANGED <<listenerState, faults, resets>>
    BY <1>4 DEF BuyUser, ClaimUser, VestingUser
  <2> QED
    BY <2>1, <2>2, <2>3, <2>4 DEF HandlerMove
<1>5. CASE RecordActivity(w) \/ BuyTx(w) \/ BuyCertificate(w) \/ VestingUpsert(w) \/ ClaimTx(w)
  <2>1. /\ job[w].pc \in {"tx", "activity", "certificate"} /\ job'[w].event = job[w].event
        /\ IF KindIs(job[w].event, "Claimed") THEN job'[w].pc \in {"activity", "read"}
           ELSE job'[w].pc \in {"activity", "certificate", "mark"}
        /\ KindIs(job[w].event, "Claimed") => job[w].pc # "certificate"
    BY <1>5, Moves
       DEF RecordActivity, BuyTx, BuyCertificate, VestingUpsert, ClaimTx, At, KindIs, Event
  <2>2. faults' \in {faults, faults + 1} /\ UNCHANGED <<counted, listenerState, resets>>
    BY <1>5 DEF RecordActivity, BuyTx, BuyCertificate, VestingUpsert, ClaimTx, Fault, ledger
  <2> QED
    BY <2>1, <2>2 DEF HandlerMove
<1>6. CASE ClaimRead(w) \/ ClaimSchedule(w)
  <2>1. /\ job[w].pc \in {"read", "apply"} /\ KindIs(job[w].event, "Claimed")
        /\ UNCHANGED <<counted, listenerState, resets, faults>>
    BY <1>6 DEF ClaimRead, ClaimSchedule, At, KindIs, Event, ledger
  <2>2. job'[w].pc = "next" \/ (job'[w].event = job[w].event /\ job'[w].pc \in {"read", "apply"})
    BY <1>0, <1>6, <2>1, Moves DEF ClaimRead, ClaimSchedule, Job
  <2> QED
    BY <2>1, <2>2 DEF HandlerMove
<1> QED
  BY <1>1, <1>2, <1>3, <1>4, <1>5, <1>6 DEF Handler

\* A handler's step keeps the account of every event.
LEMMA HandlerRepeats ==
  ASSUME TypeInv, RepeatInv, NEW w \in Workers, Handler(w)
  PROVE  RepeatInv'
<1>1. HandlerMove(w) /\ resets' = resets /\ faults' \in {faults, faults + 1}
  BY HandlerMoves
<1>2. /\ job[w].pc \in Handling \cup {"next"}
      /\ job'[w].pc \in Handling \cup {"next"}
  BY <1>1 DEF HandlerMove, Handling, FirstWrite
<1>3. Alone(w) /\ Alone(w)'
  <2>1. Alone(w)
    BY <1>2 DEF RepeatInv, Resting, Handling
  <2> QED
    BY <2>1, OthersUntouched DEF Alone, Resting
<1>4. \A v \in Workers : Resting(v)' \/ Alone(v)'
  BY <1>3 DEF Alone
<1>5. /\ job[w].event \in Events \/ job[w].pc = "next"
      /\ job[w].event \in Events => Log[job[w].event].kind \in Kinds
  BY <1>2, LogType DEF TypeInv, GoodJob
<1>6. Unmarked(w)' /\ RowThere(w)'
  <2>1. Unmarked(w) /\ RowThere(w)
    BY DEF RepeatInv
  <2>2. Unmarked(w)'
    BY <1>1, <1>5, <2>1 DEF HandlerMove, Unmarked, Handling, FirstWrite, KindIs
  <2>3. RowThere(w)'
    BY <1>1, <1>2, <2>1 DEF HandlerMove, RowThere, FirstWrite, Event
  <2> QED
    BY <2>2, <2>3
<1>7. \A v \in Workers : Unmarked(v)' /\ RowThere(v)'
  <2> SUFFICES ASSUME NEW v \in Workers, v # w PROVE Unmarked(v)' /\ RowThere(v)'
    BY <1>6
  <2>1. Resting(v)'
    BY <1>3 DEF Alone
  <2> QED
    BY <2>1 DEF Resting, Unmarked, RowThere
<1>8. \A e \in Events : Accounted(e)'
  <2> SUFFICES ASSUME NEW e \in Events PROVE Accounted(e)'
    OBVIOUS
  <2>1. Accounted(e) /\ Unmarked(w) /\ RowThere(w)
    BY DEF RepeatInv
  <2>2. (Written(e) <=> WrittenBy(job[w], e)) /\ (Promised(e) <=> PromisedBy(job[w], e))
    BY <1>3, InHand
  <2>3. (Written(e)' <=> WrittenBy(job'[w], e)) /\ (Promised(e)' <=> PromisedBy(job'[w], e))
    BY <1>3 DEF Alone, Resting, Written, WrittenBy, Promised, PromisedBy
  <2>4. /\ resets \in Nat /\ faults \in Nat /\ counted \in [Events -> Nat]
        /\ listenerState \subseteq Events
    BY HandlersAssumption DEF TypeInv, TypeOK
  <2>5. CASE KindIs(e, "Claimed")
    <3>1. counted[e] + One(Promised(e)) <= One(e \in listenerState) + resets
      BY <2>1, <2>5 DEF Accounted
    <3>2. counted'[e] + One(Promised(e)') <= One(e \in listenerState') + resets
      BY <1>1, <1>5, <2>1, <2>2, <2>3, <2>4, <2>5, <3>1
         DEF HandlerMove, One, PromisedBy, Unmarked, FirstWrite, KindIs, Handling
    <3> QED
      BY <1>1, <2>5, <3>2 DEF Accounted, KindIs
  <2>6. CASE ~KindIs(e, "Claimed")
    <3>1. counted[e] <= One(e \in listenerState) + One(Written(e)) + resets + faults
      BY <2>1, <2>6 DEF Accounted
    <3>2. counted'[e] <= One(e \in listenerState') + One(Written(e)') + resets + faults'
      BY <1>1, <1>5, <2>1, <2>2, <2>3, <2>4, <2>6, <3>1
         DEF HandlerMove, One, WrittenBy, Unmarked, RowThere, Refused, FirstWrite, KindIs, Handling, Event
    <3> QED
      BY <1>1, <2>6, <3>2 DEF Accounted, KindIs
  <2> QED
    BY <2>5, <2>6
<1> QED
  BY <1>4, <1>7, <1>8 DEF RepeatInv

\* A step that only puts workers between handlers.
LEMMA RestRepeats ==
  ASSUME TypeInv, RepeatInv, NEW w \in Workers,
         \A v \in Workers \ {w} : Resting(v)', job'[w].pc \in {"next", "idle", "done"},
         job[w].pc \notin Handling \/ faults' = faults + 1,
         \A v \in Workers \ {w} : Resting(v) \/ faults' = faults + 1,
         UNCHANGED <<counted, listenerState, resets>>, faults' \in {faults, faults + 1}
  PROVE  RepeatInv'
<1>1. \A v \in Workers : job'[v].pc \in {"next", "idle", "done"}
  BY DEF Resting
<1>2. \A v \in Workers : (Resting(v) \/ Alone(v))' /\ Unmarked(v)' /\ RowThere(v)'
  BY <1>1 DEF Alone, Resting, Unmarked, RowThere
<1>3. ASSUME NEW e \in Events PROVE Accounted(e)'
  <2>1. ~Written(e)' /\ ~Promised(e)'
    BY <1>1 DEF Written, WrittenBy, Promised, PromisedBy
  <2>2. faults' = faults => ~Written(e)
    <3>1. faults \in Nat
      BY HandlersAssumption DEF TypeInv, TypeOK
    <3> QED
      BY <3>1 DEF Written, WrittenBy, Resting, Handling
  <2>3. /\ resets \in Nat /\ faults \in Nat /\ counted \in [Events -> Nat]
        /\ Accounted(e)
    BY HandlersAssumption DEF TypeInv, TypeOK, RepeatInv
  <2> QED
    BY <2>1, <2>2, <2>3 DEF Accounted, One, KindIs
<1> QED
  BY <1>2, <1>3 DEF RepeatInv

LEMMA ScanRepeats ==
  ASSUME TypeInv, RepeatInv, ~MayOverlap,
         UNCHANGED vars \/ Emit \/ LoopScan \/ ResetEventState \/ Crash
         \/ (\E wallet \in Wallets : Login(wallet))
         \/ (\E w \in Requests : RequestScan(w)) \/ (\E w \in Workers : ScanDone(w))
  PROVE  RepeatInv'
<1>0. job \in [Workers -> Job] /\ presaleUser \in [Wallets -> UserRow]
  BY DEF TypeInv, TypeOK
<1>1. CASE UNCHANGED vars \/ Emit
  <2>1. UNCHANGED <<counted, listenerState, job, presaleUser, resets, faults>>
    BY <1>1 DEF Emit, vars, ledger
  <2>2. \A w \in Workers : (Resting(w) \/ Alone(w))' /\ Unmarked(w)' /\ RowThere(w)'
    BY <2>1 DEF RepeatInv, Resting, Alone, Unmarked, RowThere, Event
  <2>3. \A e \in Events : Accounted(e)'
    BY <2>1 DEF RepeatInv, Accounted, Written, WrittenBy, Promised, PromisedBy
  <2> QED
    BY <2>2, <2>3 DEF RepeatInv
<1>2. ASSUME NEW wallet \in Wallets, Login(wallet) PROVE RepeatInv'
  <2>1. \A v \in Wallets : presaleUser[v].exists => presaleUser'[v].exists
    BY <1>0, <1>2 DEF Login, UserRow
  <2>2. \A w \in Workers : RowThere(w)'
    <3> SUFFICES ASSUME NEW w \in Workers, job[w].pc = "tx" PROVE presaleUser'[Event(w).wallet].exists
      BY <1>2 DEF Login, RowThere, Event
    <3>1. Event(w).wallet \in Wallets /\ presaleUser[Event(w).wallet].exists
      BY EventType DEF RepeatInv, RowThere, Handling
    <3> QED
      BY <2>1, <3>1
  <2> QED
    BY <1>2, <2>2 DEF Login, RepeatInv, Resting, Alone, Unmarked, Accounted,
                      Written, WrittenBy, Promised, PromisedBy
<1>3. ASSUME NEW w \in Workers, MayStart(w), NEW todo, NEW upto,
             job' = [job EXCEPT ![w] = Between("next", todo, upto)],
             UNCHANGED <<counted, listenerState, resets, faults>>
      PROVE  RepeatInv'
  <2>1. \A v \in Workers : Resting(v)
    BY <1>3 DEF MayStart
  <2>2. job'[w].pc = "next" /\ \A v \in Workers \ {w} : Resting(v)'
    BY <1>0, <1>3, <2>1 DEF Between, Resting
  <2> QED
    BY <1>3, <2>1, <2>2, RestRepeats DEF Resting, Handling
<1>4. CASE LoopScan
  BY <1>3, <1>4 DEF LoopScan, Workers, ledger
<1>5. ASSUME NEW w \in Requests, RequestScan(w) PROVE RepeatInv'
  BY <1>3, <1>5 DEF RequestScan, Workers, ledger
<1>6. ASSUME NEW w \in Workers, ScanDone(w) PROVE RepeatInv'
  <2>1. job[w].pc = "next" /\ job'[w].pc \in {"idle", "done"}
    BY <1>0, <1>6, BetweenIsGood DEF ScanDone, Stopped
  <2>2. \A v \in Workers \ {w} : Resting(v) /\ Resting(v)'
    BY <1>6, <2>1, OthersUntouched DEF RepeatInv, Alone, Resting
  <2>3. UNCHANGED <<counted, listenerState, resets, faults>> /\ faults' \in {faults, faults + 1}
    BY <1>6 DEF ScanDone, ledger
  <2> QED
    BY <2>1, <2>2, <2>3, RestRepeats DEF Handling
<1>7. CASE Crash
  <2>1. \A v \in Workers : job'[v].pc \in {"idle", "done"}
    BY <1>7, BetweenIsGood DEF Crash, Stopped
  <2>2. faults' = faults + 1 /\ UNCHANGED <<counted, listenerState, resets>>
    BY <1>7 DEF Crash, Fault, ledger
  <2>3. Loop \in Workers
    BY DEF Workers
  <2> QED
    BY <2>1, <2>2, <2>3, RestRepeats DEF Resting
<1>8. CASE ResetEventState
  <2>1. /\ listenerState' \subseteq listenerState /\ resets' = resets + 1
        /\ UNCHANGED <<counted, job, faults, presaleUser>>
    BY <1>8 DEF ResetEventState, ledger
  <2>2. \A w \in Workers : (Resting(w) \/ Alone(w))' /\ Unmarked(w)' /\ RowThere(w)'
    BY <2>1 DEF RepeatInv, Resting, Alone, Unmarked, RowThere, Event
  <2>3. ASSUME NEW e \in Events PROVE Accounted(e)'
    <3>1. /\ resets \in Nat /\ faults \in Nat /\ counted \in [Events -> Nat]
          /\ Accounted(e) /\ (Written(e)' <=> Written(e)) /\ (Promised(e)' <=> Promised(e))
      BY <2>1, HandlersAssumption
         DEF TypeInv, TypeOK, RepeatInv, Written, WrittenBy, Promised, PromisedBy
    <3> QED
      BY <2>1, <3>1 DEF Accounted, One, KindIs
  <2> QED
    BY <2>2, <2>3 DEF RepeatInv
<1> QED
  BY <1>1, <1>2, <1>4, <1>5, <1>6, <1>7, <1>8

LEMMA InitRepeats == Init => RepeatInv
<1> SUFFICES ASSUME Init PROVE RepeatInv
  OBVIOUS
<1>1. \A w \in Workers : job[w].pc = "idle"
  BY BetweenIsGood DEF Init
<1> QED
  BY <1>1 DEF Init, RepeatInv, Resting, Unmarked, RowThere, Accounted, One,
              Written, WrittenBy, Promised, PromisedBy

LEMMA StepRepeats ==
  TypeInv /\ (~MayOverlap => RepeatInv) /\ [Next]_vars => (~MayOverlap => RepeatInv)'
<1> SUFFICES ASSUME TypeInv, RepeatInv, ~MayOverlap, [Next]_vars PROVE RepeatInv'
  OBVIOUS
<1> QED
  BY HandlerRepeats, ScanRepeats DEF Next

LEMMA AccountOfRepeats == TypeInv /\ (~MayOverlap => RepeatInv) => RepeatsAreAccounted
<1> SUFFICES ASSUME TypeInv, RepeatInv, ~MayOverlap, NEW e \in Events
             PROVE  counted[e] <= 1 + resets + (IF KindIs(e, "Claimed") THEN 0 ELSE faults)
  BY DEF RepeatsAreAccounted
<1>1. /\ resets \in Nat /\ faults \in Nat /\ counted[e] \in Nat /\ Accounted(e)
  BY HandlersAssumption DEF TypeInv, TypeOK, RepeatInv
<1>2. ~KindIs(e, "Claimed") => ~(e \in listenerState /\ Written(e))
  BY DEF RepeatInv, Unmarked, Written, WrittenBy
<1> QED
  BY <1>1, <1>2 DEF Accounted, One

\* While scans do not overlap, an event is added to the balances once, once more
\* for each reset of its marker and, for purchases only, once more for each
\* failure between its first write and its marker.
THEOREM RepeatsAccounted == Spec => []RepeatsAreAccounted
<1>1. TypeInv /\ (~MayOverlap => RepeatInv) => RepeatsAreAccounted
  BY AccountOfRepeats
<1>2. Spec => []TypeInv
  BY InitTypes, StepTypes, PTL DEF Spec
<1>3. Spec => [](~MayOverlap => RepeatInv)
  BY <1>2, InitRepeats, StepRepeats, PTL DEF Spec
<1> QED
  BY <1>1, <1>2, <1>3, PTL

-----------------------------------------------------------------------------
(***************************************************************************)
(* Claims marked as processed and never counted                            *)
(***************************************************************************)

AwaitedBy(w, e) == job[w].event = e /\ job[w].pc = "user"

Loses(e) ==
  /\ e \in listenerState /\ KindIs(e, "Claimed") /\ counted[e] = 0
  /\ \A w \in Workers : ~AwaitedBy(w, e)

LEMMA LossesAreFinite ==
  /\ TypeInv => LostClaims \subseteq Events /\ IsFiniteSet(LostClaims)
  /\ IsFiniteSet(Events)
<1>1. IsFiniteSet(Events)
  BY FS_Interval, LogType DEF Events
<1>2. TypeInv => LostClaims \subseteq Events
  BY DEF LostClaims, TypeInv, TypeOK
<1> QED
  BY <1>1, <1>2, FS_Subset

LEMMA LossesAre == \A e : e \in LostClaims <=> Loses(e)
  BY DEF LostClaims, Loses, AwaitedBy

\* A handler's step loses no claim, or one, with a fault: the one it threw on.
LEMMA HandlerLosses ==
  ASSUME TypeInv, RepeatInv, NEW w \in Workers, Handler(w)
  PROVE  \E x : \A e : Loses(e)' => Loses(e) \/ (e = x /\ faults' = faults + 1)
<1>1. HandlerMove(w) /\ \A v \in Workers \ {w} : job'[v] = job[v]
  BY HandlerMoves, OthersUntouched
<1>2. /\ job[w].pc \in Handling => job[w].event \in Events /\ Log[job[w].event].kind \in Kinds
      /\ counted \in [Events -> Nat] /\ listenerState \subseteq Events
  BY LogType DEF TypeInv, TypeOK, GoodJob
<1>3. ASSUME NEW e, Loses(e)', ~(e = job[w].event /\ faults' = faults + 1)
      PROVE  Loses(e)
  <2>1. \A v \in Workers \ {w} : ~AwaitedBy(v, e)
    BY <1>1, <1>3 DEF Loses, AwaitedBy
  <2>2. e \in listenerState' /\ KindIs(e, "Claimed") /\ counted'[e] = 0 /\ ~AwaitedBy(w, e)'
    BY <1>3 DEF Loses, KindIs
  <2>3. e \in listenerState /\ counted[e] = 0 /\ ~AwaitedBy(w, e)
    BY <1>1, <1>2, <1>3, <2>2 DEF HandlerMove, AwaitedBy, KindIs, Handling, FirstWrite
  <2> QED
    BY <2>1, <2>2, <2>3 DEF Loses
<1> QED
  BY <1>3

LEMMA ScanLosses ==
  ASSUME TypeInv, RepeatInv, ~MayOverlap,
         UNCHANGED vars \/ Emit \/ LoopScan \/ ResetEventState \/ Crash
         \/ (\E wallet \in Wallets : Login(wallet))
         \/ (\E w \in Requests : RequestScan(w)) \/ (\E w \in Workers : ScanDone(w))
  PROVE  /\ \E x : \A e : Loses(e)' => Loses(e) \/ (e = x /\ faults' = faults + 1)
         /\ faults' \in {faults, faults + 1}
<1>0. job \in [Workers -> Job]
  BY DEF TypeInv, TypeOK
<1>1. listenerState' \subseteq listenerState /\ UNCHANGED counted /\ faults' \in {faults, faults + 1}
  BY DEF Emit, LoopScan, ResetEventState, Crash, Fault, Login, RequestScan, ScanDone, vars, ledger
<1>2. CASE Crash
  <2>1. faults' = faults + 1
    BY <1>2 DEF Crash, Fault
  <2>2. PICK w \in Workers : ~Resting(w) /\ Alone(w)
    BY <1>2 DEF Crash, RepeatInv
  <2>3. ASSUME NEW e, Loses(e)', e # job[w].event PROVE Loses(e)
    <3>1. \A v \in Workers : ~AwaitedBy(v, e)
      BY <2>2, <2>3 DEF AwaitedBy, Alone, Resting
    <3> QED
      BY <1>1, <2>3, <3>1 DEF Loses, KindIs
  <2> QED
    BY <1>1, <2>1, <2>3
<1>3. CASE ~Crash
  <2>1. ASSUME NEW v \in Workers, job'[v] # job[v] PROVE job[v].pc # "user"
    <3>1. CASE UNCHANGED vars \/ Emit \/ ResetEventState \/ \E wallet \in Wallets : Login(wallet)
      BY <2>1, <3>1 DEF vars, Emit, ResetEventState, Login
    <3>2. CASE LoopScan \/ \E w \in Requests : RequestScan(w)
      BY <1>0, <2>1, <3>2 DEF LoopScan, RequestScan, MayStart
    <3>3. CASE \E w \in Workers : ScanDone(w)
      BY <1>0, <2>1, <3>3 DEF ScanDone
    <3> QED
      BY <1>3, <3>1, <3>2, <3>3
  <2>2. ASSUME NEW e, Loses(e)' PROVE Loses(e)
    BY <1>1, <2>1, <2>2 DEF Loses, AwaitedBy, KindIs
  <2> QED
    BY <1>1, <2>2
<1> QED
  BY <1>2, <1>3

\* While scans do not overlap, each failure or crash loses one claim at most,
\* and nothing else loses any.
THEOREM FaultsLoseOneClaimEach == Spec => []ClaimsLostOnlyByFaults
<1> DEFINE LossInv == Cardinality(LostClaims) <= faults
<1>1. Init => RepeatInv
  BY InitRepeats
<1>2. TypeInv /\ Init => LossInv
  <2> SUFFICES ASSUME TypeInv, Init PROVE LossInv
    OBVIOUS
  <2>1. LostClaims = {}
    BY DEF Init, LostClaims
  <2> QED
    BY <2>1, FS_EmptySet DEF Init
<1>3. TypeInv /\ TypeInv' /\ RepeatInv /\ LossInv /\ ~MayOverlap /\ [Next]_vars => LossInv'
  <2> SUFFICES ASSUME TypeInv, TypeInv', RepeatInv, LossInv, ~MayOverlap, [Next]_vars PROVE LossInv'
    OBVIOUS
  <2>1. /\ \E x : \A e : Loses(e)' => Loses(e) \/ (e = x /\ faults' = faults + 1)
        /\ faults' \in {faults, faults + 1}
    BY HandlerLosses, HandlerMoves, ScanLosses DEF Next
  <2>2. PICK x : \A e : Loses(e)' => Loses(e) \/ (e = x /\ faults' = faults + 1)
    BY <2>1
  <2>3. \A e : e \in LostClaims' <=> Loses(e)'
    BY DEF LostClaims, Loses, AwaitedBy
  <2>4. /\ IsFiniteSet(LostClaims) /\ Cardinality(LostClaims) \in Nat
        /\ IsFiniteSet(LostClaims') /\ Cardinality(LostClaims') \in Nat
    <3>1. IsFiniteSet(LostClaims)
      BY LossesAreFinite
    <3>2. LostClaims' \subseteq Events
      BY DEF LostClaims, TypeInv, TypeOK
    <3>3. IsFiniteSet(LostClaims')
      BY <3>2, LossesAreFinite, FS_Subset
    <3> QED
      BY <3>1, <3>3, FS_CardinalityType
  <2>5. faults \in Nat
    BY HandlersAssumption DEF TypeInv, TypeOK
  <2>6. CASE LostClaims' \subseteq LostClaims
    <3>1. Cardinality(LostClaims') <= Cardinality(LostClaims)
      BY <2>4, <2>6, FS_Subset
    <3> QED
      BY <2>1, <2>4, <2>5, <3>1
  <2>7. CASE ~(LostClaims' \subseteq LostClaims)
    <3>1. faults' = faults + 1 /\ LostClaims' \subseteq LostClaims \cup {x}
      BY <2>2, <2>3, <2>7, LossesAre
    <3>2. /\ IsFiniteSet(LostClaims \cup {x})
          /\ Cardinality(LostClaims \cup {x}) \in {Cardinality(LostClaims), Cardinality(LostClaims) + 1}
      BY <2>4, FS_AddElement
    <3>3. Cardinality(LostClaims') <= Cardinality(LostClaims \cup {x})
      BY <3>1, <3>2, FS_Subset
    <3> QED
      BY <2>4, <2>5, <3>1, <3>2, <3>3
  <2> QED
    BY <2>6, <2>7
<1>4. Spec => []TypeInv
  BY InitTypes, StepTypes, PTL DEF Spec
<1>5. TypeInv /\ (~MayOverlap => RepeatInv) /\ [Next]_vars => (~MayOverlap => RepeatInv)'
  BY StepRepeats
<1>6. Spec => [](~MayOverlap => RepeatInv)
  BY <1>1, <1>4, <1>5, PTL DEF Spec
<1>7. TypeInv /\ TypeInv' /\ (~MayOverlap => RepeatInv) /\ (~MayOverlap => LossInv) /\ [Next]_vars
        => (~MayOverlap => LossInv)'
  BY <1>3
<1>8. Init => TypeInv
  BY InitTypes
<1>9. Spec => [](~MayOverlap => LossInv)
  <2> HIDE DEF LossInv
  <2> QED
    BY <1>2, <1>4, <1>6, <1>7, <1>8, PTL DEF Spec
<1>10. (~MayOverlap => LossInv) => ClaimsLostOnlyByFaults
  BY DEF ClaimsLostOnlyByFaults
<1> QED
  BY <1>9, <1>10, PTL

-----------------------------------------------------------------------------
(***************************************************************************)
(* What the loop leaves behind its cursor, left alone by the administrator *)
(***************************************************************************)

LeftAlone == resets = 0 /\ \A r \in Requests : job[r].pc = "idle"
Settled == listenerState \cup dropped
InHandOf(j) == IF j.pc \in Handling THEN {j.event} ELSE {}

\* Up to the end of its scan, the loop's events are settled, in its hand or
\* still to come; a claim behind its marker is settled.
LoopInv ==
  /\ 1..cursor \subseteq Settled
  /\ ~Resting(Loop) => 1..job[Loop].upto \subseteq Settled \cup job[Loop].todo \cup InHandOf(job[Loop])
  /\ job[Loop].pc \in Handling \ {"mark"} /\ KindIs(job[Loop].event, "Claimed")
       => job[Loop].event \in Settled

\* What a handler's step does to the loop's work.
LoopMove ==
  LET j == job[Loop]
      k == job'[Loop]
  IN  /\ UNCHANGED cursor
      /\ k.upto = j.upto
      /\ Settled \subseteq Settled'
      /\ j.todo \cup InHandOf(j) \subseteq Settled' \cup k.todo \cup InHandOf(k)
      /\ k.pc \in Handling \ {"mark"} /\ KindIs(k.event, "Claimed") => k.event \in Settled'
      /\ ~Resting(Loop)

LEMMA LoopMoves ==
  ASSUME TypeInv, LoopInv, Handler(Loop)
  PROVE  LoopMove
<1>0. job[Loop] \in Job /\ job \in [Workers -> Job] /\ Loop \in Workers /\ TypeInv
      /\ (job[Loop].pc \in Handling => job[Loop].event \in Events /\ Log[job[Loop].event].kind \in Kinds)
  BY LogType DEF TypeInv, TypeOK, GoodJob, Workers
<1>1. CASE Take(Loop)
  <2> DEFINE e == First(job[Loop].todo)
  <2>1. e \in Events /\ job[Loop].pc = "next"
    BY <1>0, <1>1, FirstIsOneOfThem DEF Take, Job
  <2>2. \/ /\ job' = [job EXCEPT ![Loop].todo = @ \ {e}]
           /\ e \in Settled'
        \/ /\ job' = [job EXCEPT ![Loop].todo = @ \ {e}, ![Loop].event = e,
                                 ![Loop].pc = FirstWrite(Log[e].kind)]
    BY <1>1 DEF Take, AlreadyProcessed, Settled
  <2>3. Settled \subseteq Settled' /\ UNCHANGED cursor
    BY <1>1 DEF Take, Settled
  <2> HIDE DEF e
  <2>4. CASE job' = [job EXCEPT ![Loop].todo = @ \ {e}] /\ e \in Settled'
    <3>1. /\ job'[Loop].todo = job[Loop].todo \ {e} /\ job'[Loop].upto = job[Loop].upto
          /\ job'[Loop].pc = "next"
      BY <1>0, <2>1, <2>4 DEF Job
    <3> QED
      BY <2>1, <2>3, <2>4, <3>1 DEF LoopMove, InHandOf, Handling, Resting
  <2>5. CASE job' = [job EXCEPT ![Loop].todo = @ \ {e}, ![Loop].event = e,
                                ![Loop].pc = FirstWrite(Log[e].kind)]
    <3>1. /\ job'[Loop].todo = job[Loop].todo \ {e} /\ job'[Loop].upto = job[Loop].upto
          /\ job'[Loop].pc = FirstWrite(Log[e].kind) /\ job'[Loop].event = e
      BY <1>0, <2>1, <2>5 DEF Job
    <3>2. job'[Loop].pc \in Handling /\ (KindIs(e, "Claimed") => job'[Loop].pc = "mark")
      BY <3>1 DEF FirstWrite, Handling, KindIs
    <3> QED
      BY <2>1, <2>3, <3>1, <3>2 DEF LoopMove, InHandOf, Handling, Resting
  <2> QED
    BY <2>2, <2>4, <2>5
<1>2. ASSUME Return(Loop)
      PROVE  /\ job'[Loop].todo = job[Loop].todo /\ job'[Loop].upto = job[Loop].upto
             /\ job'[Loop].pc = "next"
  BY <1>0, <1>2 DEF Return, Between
<1>3. CASE Throw(Loop) \/ Refuse(Loop)
  <2>1. /\ job[Loop].pc \in Handling /\ Return(Loop) /\ UNCHANGED cursor
        /\ job[Loop].event \in Settled' /\ Settled \subseteq Settled'
    BY <1>3 DEF Throw, Refuse, Handling, Settled
  <2> QED
    BY <1>2, <2>1 DEF LoopMove, InHandOf, Handling, Resting
<1>4. ASSUME NEW pc \in Handling, GoTo(Loop, pc), job[Loop].pc \in Handling, UNCHANGED cursor,
             Settled \subseteq Settled',
             job[Loop].pc = "mark" => job[Loop].event \in Settled',
             pc = "mark" => ~KindIs(job[Loop].event, "Claimed")
      PROVE  LoopMove
  <2>1. /\ job'[Loop].todo = job[Loop].todo /\ job'[Loop].upto = job[Loop].upto
        /\ job'[Loop].pc = pc /\ job'[Loop].event = job[Loop].event
    BY <1>0, <1>4 DEF GoTo, Job
  <2> QED
    BY <1>4, <2>1 DEF LoopMove, LoopInv, InHandOf, Handling, Resting, KindIs
<1>5. CASE Mark(Loop)
  <2>1. /\ job[Loop].pc = "mark" /\ UNCHANGED cursor
        /\ job[Loop].event \in Settled' /\ Settled \subseteq Settled'
        /\ Return(Loop) \/ GoTo(Loop, "user")
    BY <1>5 DEF Mark, AfterClaimMark, Settled
  <2>2. CASE Return(Loop)
    BY <1>2, <2>1, <2>2 DEF LoopMove, InHandOf, Handling, Resting
  <2> QED
    BY <1>4, <2>1, <2>2 DEF Handling
<1>6. CASE RecordActivity(Loop) \/ BuyUser(Loop) \/ BuyTx(Loop) \/ BuyCertificate(Loop)
           \/ ClaimUser(Loop) \/ ClaimTx(Loop) \/ VestingUser(Loop) \/ VestingUpsert(Loop)
  <2>1. UNCHANGED <<cursor, listenerState, dropped>>
    BY <1>6 DEF RecordActivity, BuyUser, BuyTx, BuyCertificate, ClaimUser, ClaimTx, VestingUser,
                VestingUpsert, ledger
  <2>2. /\ job[Loop].pc \in Handling \ {"mark"}
        /\ \E pc \in Handling : GoTo(Loop, pc) /\ (pc = "mark" => ~KindIs(job[Loop].event, "Claimed"))
    BY <1>6 DEF RecordActivity, BuyUser, BuyTx, BuyCertificate, ClaimUser, ClaimTx, VestingUser,
                VestingUpsert, At, Handling, KindIs, Event
  <2>3. Settled \subseteq Settled'
    BY <2>1 DEF Settled
  <2> QED
    BY <1>4, <2>1, <2>2, <2>3
<1>7. CASE ClaimRead(Loop) \/ ClaimSchedule(Loop)
  <2>1. /\ job[Loop].pc \in {"read", "apply"} /\ KindIs(job[Loop].event, "Claimed")
        /\ UNCHANGED <<cursor, listenerState, dropped>>
    BY <1>7 DEF ClaimRead, ClaimSchedule, At, KindIs, Event, ledger
  <2>2. job[Loop].event \in Settled /\ Settled' = Settled
    BY <2>1 DEF LoopInv, Settled, Handling
  <2>3. CASE Return(Loop)
    BY <1>2, <2>1, <2>2, <2>3 DEF LoopMove, InHandOf, Handling, Resting
  <2>4. CASE ~Return(Loop)
    <3>1. /\ job'[Loop].todo = job[Loop].todo /\ job'[Loop].upto = job[Loop].upto
          /\ job'[Loop].pc = "apply" /\ job'[Loop].event = job[Loop].event
      <4>1. CASE ClaimRead(Loop)
        BY <1>0, <2>4, <4>1 DEF ClaimRead, Job
      <4>2. CASE ClaimSchedule(Loop)
        <5>1. PICK s \in job[Loop].left : job' = [job EXCEPT ![Loop].left = @ \ {s}]
          BY <2>4, <4>2 DEF ClaimSchedule
        <5>2. job[Loop].pc = "apply"
          BY <4>2 DEF ClaimSchedule, At
        <5> QED
          BY <1>0, <5>1, <5>2 DEF Job
      <4> QED
        BY <1>7, <4>1, <4>2
    <3> QED
      BY <2>1, <2>2, <3>1 DEF LoopMove, InHandOf, Handling, Resting
  <2> QED
    BY <2>3, <2>4
<1> QED
  BY <1>1, <1>3, <1>5, <1>6, <1>7 DEF Handler

\* The administrator never comes back to leaving the listener alone.
LEMMA AloneBefore ==
  ASSUME TypeInv, [Next]_vars, LeftAlone'
  PROVE  LeftAlone /\ ~ResetEventState /\ \A w \in Requests : ~RequestScan(w) /\ ~Handler(w) /\ ~ScanDone(w)
<1>0. job \in [Workers -> Job] /\ Requests \subseteq Workers /\ Loop \notin Requests /\ resets \in Nat
  BY HandlersAssumption DEF TypeInv, TypeOK, Workers
<1>1. \A w \in Requests : ~RequestScan(w)
  BY <1>0 DEF LeftAlone, RequestScan, Between
<1>2. \A w \in Requests : ~ScanDone(w)
  BY <1>0, BetweenIsGood DEF LeftAlone, ScanDone, Stopped
<1>3. \A w \in Requests : ~Handler(w)
  <2> SUFFICES ASSUME NEW w \in Requests, Handler(w) PROVE FALSE
    OBVIOUS
  <2>1. HandlerMove(w)
    BY <1>0, HandlerMoves
  <2> QED
    BY <2>1 DEF HandlerMove, LeftAlone, FirstWrite, Handling
<1>4. ~ResetEventState
  BY <1>0 DEF LeftAlone, ResetEventState
<1>5. CASE UNCHANGED vars \/ Emit \/ \E wallet \in Wallets : Login(wallet)
  BY <1>1, <1>2, <1>3, <1>4, <1>5 DEF vars, Emit, Login, LeftAlone
<1>6. CASE LoopScan \/ ScanDone(Loop)
  BY <1>0, <1>1, <1>2, <1>3, <1>4, <1>6 DEF LoopScan, ScanDone, LeftAlone
<1>7. CASE Handler(Loop)
  <2>1. resets' = resets /\ \A v \in Requests : job'[v] = job[v]
    BY <1>0, <1>7, HandlerMoves, OthersUntouched DEF Workers
  <2> QED
    BY <1>1, <1>2, <1>3, <1>4, <2>1 DEF LeftAlone
<1>8. CASE Crash
  <2>1. \A w \in Requests : job[w].pc # "idle" => job'[w].pc # "idle"
    BY <1>0, <1>8, BetweenIsGood DEF Crash, Stopped
  <2>2. resets' = resets
    BY <1>8 DEF Crash
  <2> QED
    BY <1>1, <1>2, <1>3, <1>4, <2>1, <2>2 DEF LeftAlone
<1> QED
  BY <1>1, <1>2, <1>3, <1>4, <1>5, <1>6, <1>7, <1>8 DEF Next, Workers

LEMMA LoopStep ==
  ASSUME TypeInv, LoopInv, LeftAlone, LeftAlone', [Next]_vars
  PROVE  LoopInv'
<1>0. job \in [Workers -> Job] /\ Loop \in Workers /\ cursor \in Nat
  BY LogType DEF TypeInv, TypeOK, Workers
<1>1. CASE UNCHANGED vars \/ Emit \/ \E wallet \in Wallets : Login(wallet)
  <2>1. UNCHANGED <<cursor, job, listenerState, dropped>>
    BY <1>1 DEF vars, Emit, Login
  <2> QED
    BY <2>1 DEF LoopInv, Settled, InHandOf, Resting
<1>2. CASE LoopScan
  <2>1. PICK upto \in (cursor + 1)..emitted :
          job' = [job EXCEPT ![Loop] = Between("next", NewEvents(upto), upto)]
    BY <1>2 DEF LoopScan
  <2>2. /\ job'[Loop].pc = "next" /\ job'[Loop].todo = (cursor + 1)..upto /\ job'[Loop].upto = upto
        /\ UNCHANGED <<cursor, listenerState, dropped>>
    BY <1>0, <1>2, <2>1 DEF Between, NewEvents, LoopScan
  <2>3. 1..upto \subseteq (1..cursor) \cup ((cursor + 1)..upto)
    BY <1>0
  <2> QED
    BY <2>2, <2>3 DEF LoopInv, Settled, InHandOf, Resting, Handling
<1>3. CASE ScanDone(Loop)
  <2>1. /\ job[Loop].pc = "next" /\ job[Loop].todo = {} /\ cursor' = job[Loop].upto
        /\ job'[Loop].pc = "idle" /\ UNCHANGED <<listenerState, dropped>>
    BY <1>0, <1>3, BetweenIsGood DEF ScanDone, Stopped
  <2> QED
    BY <2>1 DEF LoopInv, Settled, InHandOf, Resting, Handling
<1>4. CASE Handler(Loop)
  BY <1>4, LoopMoves DEF LoopInv, LoopMove
<1>5. CASE Crash
  <2>1. job'[Loop].pc = "idle" /\ UNCHANGED <<cursor, listenerState, dropped>>
    BY <1>0, <1>5, BetweenIsGood DEF Crash, Stopped
  <2> QED
    BY <2>1 DEF LoopInv, Settled, Resting, Handling
<1> QED
  BY <1>1, <1>2, <1>3, <1>4, <1>5, AloneBefore DEF Next, Workers

\* Left alone by the administrator, the loop passes over no event that it has
\* neither marked nor thrown on, whatever the crashes.
THEOREM CrashesSkipNothing == Spec => []LoopPassesOverFailuresOnly
<1>1. Init => LoopInv
  <2> SUFFICES ASSUME Init PROVE LoopInv
    OBVIOUS
  <2>1. job[Loop].pc = "idle"
    BY BetweenIsGood DEF Init, Workers
  <2> QED
    BY <2>1 DEF Init, LoopInv, Resting, Handling
<1>2. TypeInv /\ (LeftAlone => LoopInv) /\ [Next]_vars => (LeftAlone => LoopInv)'
  BY AloneBefore, LoopStep
<1>3. Spec => []TypeInv
  BY InitTypes, StepTypes, PTL DEF Spec
<1>4. Spec => [](LeftAlone => LoopInv)
  BY <1>1, <1>2, <1>3, PTL DEF Spec
<1>5. (LeftAlone => LoopInv) => LoopPassesOverFailuresOnly
  BY DEF LeftAlone, LoopInv, Settled, LoopPassesOverFailuresOnly
<1> QED
  BY <1>4, <1>5, PTL

-----------------------------------------------------------------------------
(***************************************************************************)
(* The ledger against the markers, while nothing fails and no two scans    *)
(* overlap.  What is in hand of an event explains the difference.          *)
(***************************************************************************)

Totals == [s \in Schedules |-> vestingSchedule[s].total]

\* What a handler's step does when nothing fails.
QuietMove(w) ==
  LET j == job[w]
      k == job'[w]
      e == j.event
      claim == KindIs(e, "Claimed")
      vesting == KindIs(e, "VestingScheduleCreated")
  IN  \/ /\ j.pc = "next" /\ k.pc = "next"
         /\ UNCHANGED <<listenerState, recentActivity, Totals, dropped>>
      \/ /\ j.pc = "next" /\ k.event \in Events \ listenerState
         /\ k.pc = FirstWrite(Log[k.event].kind)
         /\ UNCHANGED <<listenerState, recentActivity, Totals, dropped>>
      \/ /\ j.pc = "mark" /\ listenerState' = listenerState \cup {e}
         /\ IF claim THEN k.pc = "user" /\ k.event = e ELSE k.pc = "next"
         /\ UNCHANGED <<recentActivity, Totals, dropped>>
      \/ /\ j.pc = "user" /\ k.pc = "tx" /\ k.event = e
         /\ UNCHANGED <<listenerState, recentActivity, Totals, dropped>>
      \/ /\ j.pc = "tx" /\ k.pc = "next" /\ claim /\ dropped' = dropped \cup {e}
         /\ UNCHANGED <<listenerState, recentActivity, Totals>>
      \/ /\ j.pc = "tx" /\ k.pc = "activity" /\ k.event = e
         /\ Totals' = IF vesting
                      THEN [Totals EXCEPT ![<<Log[e].wallet, Log[e].schedule>>] = Log[e].tokens]
                      ELSE Totals
         /\ UNCHANGED <<listenerState, recentActivity, dropped>>
      \/ /\ j.pc = "activity" /\ k.event = e
         /\ k.pc = CASE KindIs(e, "Bought") -> "certificate" [] claim -> "read" [] OTHER -> "mark"
         /\ recentActivity' = [recentActivity EXCEPT ![e] = @ + 1]
         /\ UNCHANGED <<listenerState, Totals, dropped>>
      \/ /\ j.pc = "certificate" /\ k.pc = "mark" /\ k.event = e /\ KindIs(e, "Bought")
         /\ UNCHANGED <<listenerState, recentActivity, Totals, dropped>>
      \/ /\ j.pc \in {"read", "apply"} /\ claim
         /\ k.pc = "next" \/ (k.event = e /\ k.pc \in {"read", "apply"})
         /\ UNCHANGED <<listenerState, recentActivity, Totals, dropped>>

LEMMA QuietMoves ==
  ASSUME TypeInv, RepeatInv, NEW w \in Workers, Handler(w), faults' = faults
  PROVE  QuietMove(w)
<1>0. /\ job[w] \in Job /\ job \in [Workers -> Job] /\ faults' # faults + 1
      /\ (job[w].pc \in Handling => job[w].event \in Events /\ Log[job[w].event].kind \in Kinds)
      /\ vestingSchedule \in [Schedules -> ScheduleRow]
  <2>1. faults \in Nat
    BY HandlersAssumption DEF TypeInv, TypeOK
  <2>2. faults' # faults + 1
    BY <2>1
  <2> QED
    BY <2>2, LogType DEF TypeInv, TypeOK, GoodJob
<1>1. CASE Take(w)
  <2> DEFINE e == First(job[w].todo)
  <2>1. e \in Events
    BY <1>0, <1>1, FirstIsOneOfThem DEF Take, Job
  <2>2. /\ job[w].pc = "next" /\ UNCHANGED <<listenerState, recentActivity, Totals, dropped>>
        /\ \/ job' = [job EXCEPT ![w].todo = @ \ {e}]
           \/ /\ e \notin listenerState
              /\ job' = [job EXCEPT ![w].todo = @ \ {e}, ![w].event = e,
                                    ![w].pc = FirstWrite(Log[e].kind)]
    BY <1>0, <1>1 DEF Take, AlreadyProcessed, Fault, ledger, Totals
  <2> HIDE DEF e
  <2>3. CASE job' = [job EXCEPT ![w].todo = @ \ {e}]
    <3>1. job'[w].pc = "next"
      BY <1>0, <2>2, <2>3 DEF Job
    <3> QED
      BY <2>2, <3>1 DEF QuietMove
  <2>4. CASE /\ e \notin listenerState
             /\ job' = [job EXCEPT ![w].todo = @ \ {e}, ![w].event = e,
                                   ![w].pc = FirstWrite(Log[e].kind)]
    <3>1. job'[w].event = e /\ job'[w].pc = FirstWrite(Log[e].kind)
      BY <1>0, <2>4 DEF Job
    <3> QED
      BY <2>1, <2>2, <2>4, <3>1 DEF QuietMove
  <2> QED
    BY <2>2, <2>3, <2>4
<1>2. CASE Throw(w)
  BY <1>0, <1>2 DEF Throw, Fault
<1>3. CASE Refuse(w)
  <2>1. job[w].pc = "tx" /\ KindIs(job[w].event, "Claimed")
    BY <1>3 DEF Refuse, Refused, RepeatInv, RowThere, KindIs, Event
  <2>2. job'[w].pc = "next" /\ dropped' = dropped \cup {job[w].event}
        /\ UNCHANGED <<listenerState, recentActivity, Totals>>
    BY <1>3, Moves DEF Refuse, ledger, Totals
  <2> QED
    BY <2>1, <2>2 DEF QuietMove
<1>4. CASE Mark(w)
  <2>1. UNCHANGED <<recentActivity, Totals, dropped>>
    BY <1>4 DEF Mark, ledger, Totals
  <2> QED
    BY <1>4, <2>1, Moves DEF Mark, AfterClaimMark, KindIs, Event, QuietMove
<1>5. CASE BuyUser(w) \/ ClaimUser(w) \/ VestingUser(w)
  <2>1. UNCHANGED <<listenerState, recentActivity, Totals, dropped>>
    BY <1>5 DEF BuyUser, ClaimUser, VestingUser, Totals
  <2> QED
    BY <1>5, <2>1, Moves DEF BuyUser, ClaimUser, VestingUser, At, QuietMove
<1>6. CASE RecordActivity(w)
  <2>1. /\ recentActivity' = [recentActivity EXCEPT ![job[w].event] = @ + 1]
        /\ UNCHANGED <<listenerState, Totals, dropped>> /\ job[w].pc = "activity"
    BY <1>0, <1>6 DEF RecordActivity, Fault, Totals
  <2>2. /\ job'[w].event = job[w].event
        /\ job'[w].pc = CASE KindIs(job[w].event, "Bought") -> "certificate"
                          [] KindIs(job[w].event, "Claimed") -> "read" [] OTHER -> "mark"
    BY <1>6, Moves DEF RecordActivity, KindIs, Event
  <2> QED
    BY <2>1, <2>2 DEF QuietMove
<1>7. CASE BuyTx(w) \/ ClaimTx(w)
  <2>1. UNCHANGED <<listenerState, recentActivity, Totals, dropped>>
        /\ job[w].pc = "tx" /\ ~KindIs(job[w].event, "VestingScheduleCreated")
    BY <1>7 DEF BuyTx, ClaimTx, At, KindIs, Event, Totals
  <2> QED
    BY <1>7, <2>1, Moves DEF BuyTx, ClaimTx, QuietMove
<1>8. CASE VestingUpsert(w)
  <2>1. /\ job[w].pc = "tx" /\ KindIs(job[w].event, "VestingScheduleCreated")
        /\ UNCHANGED <<listenerState, recentActivity, dropped>>
    BY <1>8 DEF VestingUpsert, At, KindIs, Event
  <2> DEFINE e == job[w].event
             a == <<Log[e].wallet, Log[e].schedule>>
  <2>2. vestingSchedule' = [vestingSchedule EXCEPT ![a].total = Log[e].tokens] /\ a \in Schedules
    BY <1>8, <2>1, EventType DEF VestingUpsert, Event, Handling
  <2>3. Totals' = [Totals EXCEPT ![a] = Log[e].tokens]
    <3> HIDE DEF a, e
    <3>1. \A s \in Schedules :
            vestingSchedule'[s].total = IF s = a THEN Log[e].tokens ELSE vestingSchedule[s].total
      BY <1>0, <2>2 DEF ScheduleRow
    <3> QED
      BY <2>2, <3>1 DEF Totals
  <2>4. job'[w].pc = "activity" /\ job'[w].event = e
    BY <1>8, Moves DEF VestingUpsert
  <2> QED
    BY <2>1, <2>3, <2>4 DEF QuietMove
<1>9. CASE BuyCertificate(w)
  <2>1. UNCHANGED <<listenerState, recentActivity, Totals, dropped>>
    BY <1>9 DEF BuyCertificate, ledger, Totals
  <2> QED
    BY <1>9, <2>1, Moves DEF BuyCertificate, At, KindIs, Event, QuietMove
<1>10. CASE ClaimRead(w) \/ ClaimSchedule(w)
  <2>1. job[w].pc \in {"read", "apply"} /\ KindIs(job[w].event, "Claimed")
        /\ UNCHANGED <<listenerState, recentActivity, dropped>>
    BY <1>10 DEF ClaimRead, ClaimSchedule, At, KindIs, Event, ledger
  <2>2. job'[w].pc = "next" \/ (job'[w].event = job[w].event /\ job'[w].pc \in {"read", "apply"})
    BY <1>0, <1>10, <2>1, Moves DEF ClaimRead, ClaimSchedule, Job
  <2>3. Totals' = Totals
    <3>1. CASE ClaimRead(w)
      BY <3>1 DEF ClaimRead, ledger, Totals
    <3>2. CASE ClaimSchedule(w)
      <4>1. \E s, c : vestingSchedule' = [vestingSchedule EXCEPT ![s].claimed = c]
        BY <3>2 DEF ClaimSchedule
      <4>2. \A t \in Schedules : vestingSchedule'[t].total = vestingSchedule[t].total
        BY <1>0, <4>1 DEF ScheduleRow
      <4> QED
        BY <4>2 DEF Totals
    <3> QED
      BY <1>10, <3>1, <3>2
  <2> QED
    BY <2>1, <2>2, <2>3 DEF QuietMove
<1> QED
  BY <1>1, <1>2, <1>3, <1>4, <1>5, <1>6, <1>7, <1>8, <1>9, <1>10 DEF Handler

Ahead(e)    == \E w \in Workers : job[w].event = e /\ job[w].pc \in {"user", "tx", "activity"}
Behind(e)   == \E w \in Workers : job[w].event = e /\ job[w].pc \in {"certificate", "mark"}
Upserted(e) == \E w \in Workers : job[w].event = e /\ job[w].pc \in {"activity", "mark"}

ActivityOf(e) ==
  IF KindIs(e, "Claimed")
  THEN e \notin dropped => recentActivity[e] + One(Ahead(e)) = One(e \in listenerState)
  ELSE recentActivity[e] = One(e \in listenerState) + One(Behind(e))

TotalOf(e) ==
  KindIs(e, "VestingScheduleCreated") =>
    Totals[<<Log[e].wallet, Log[e].schedule>>]
      = IF e \in listenerState \/ Upserted(e) THEN Log[e].tokens ELSE 0

FeedInv == \A e \in Events : ActivityOf(e) /\ TotalOf(e)

LEMMA HandlerFeed ==
  ASSUME TypeInv, RepeatInv, FeedInv, NEW w \in Workers, Handler(w), faults' = faults
  PROVE  FeedInv'
<1>1. QuietMove(w)
  BY QuietMoves
<1>2. /\ job[w].pc \in Handling => job[w].event \in Events /\ Log[job[w].event].kind \in Kinds
      /\ recentActivity \in [Events -> Nat] /\ Totals \in [Schedules -> Nat]
      /\ Unmarked(w)
  BY LogType DEF TypeInv, TypeOK, GoodJob, Totals, ScheduleRow, RepeatInv
<1>3. job[w].pc \in Handling \cup {"next"} /\ job'[w].pc \in Handling \cup {"next"}
  BY <1>1 DEF QuietMove, Handling, FirstWrite
<1>4. Alone(w) /\ \A v \in Workers \ {w} : Resting(v)'
  <2>1. Alone(w)
    BY <1>3 DEF RepeatInv, Resting, Handling
  <2> QED
    BY <2>1, OthersUntouched DEF Alone, Resting
<1> SUFFICES ASSUME NEW e \in Events PROVE ActivityOf(e)' /\ TotalOf(e)'
  BY DEF FeedInv
<1>5. /\ Ahead(e) <=> job[w].event = e /\ job[w].pc \in {"user", "tx", "activity"}
      /\ Behind(e) <=> job[w].event = e /\ job[w].pc \in {"certificate", "mark"}
      /\ Upserted(e) <=> job[w].event = e /\ job[w].pc \in {"activity", "mark"}
  BY <1>4 DEF Alone, Resting, Ahead, Behind, Upserted
<1>6. /\ Ahead(e)' <=> job'[w].event = e /\ job'[w].pc \in {"user", "tx", "activity"}
      /\ Behind(e)' <=> job'[w].event = e /\ job'[w].pc \in {"certificate", "mark"}
      /\ Upserted(e)' <=> job'[w].event = e /\ job'[w].pc \in {"activity", "mark"}
  BY <1>4 DEF Resting, Ahead, Behind, Upserted
<1>7. ActivityOf(e) /\ TotalOf(e)
  BY DEF FeedInv
<1>8. ActivityOf(e)'
  <2>1. CASE KindIs(e, "Claimed")
    <3>1. e \notin dropped => recentActivity[e] + One(Ahead(e)) = One(e \in listenerState)
      BY <1>7, <2>1 DEF ActivityOf
    <3>2. e \notin dropped' => recentActivity'[e] + One(Ahead(e)') = One(e \in listenerState')
      BY <1>1, <1>2, <1>5, <1>6, <2>1, <3>1
         DEF QuietMove, One, Unmarked, FirstWrite, KindIs, Handling
    <3> QED
      BY <2>1, <3>2 DEF ActivityOf, KindIs
  <2>2. CASE ~KindIs(e, "Claimed")
    <3>1. recentActivity[e] = One(e \in listenerState) + One(Behind(e))
      BY <1>7, <2>2 DEF ActivityOf
    <3>2. recentActivity'[e] = One(e \in listenerState') + One(Behind(e)')
      BY <1>1, <1>2, <1>5, <1>6, <2>2, <3>1
         DEF QuietMove, One, Unmarked, FirstWrite, KindIs, Handling, Kinds
    <3> QED
      BY <2>2, <3>2 DEF ActivityOf, KindIs
  <2> QED
    BY <2>1, <2>2
<1>9. TotalOf(e)'
  <2> SUFFICES ASSUME KindIs(e, "VestingScheduleCreated")
               PROVE  Totals'[<<Log[e].wallet, Log[e].schedule>>]
                        = IF e \in listenerState' \/ Upserted(e)' THEN Log[e].tokens ELSE 0
    BY DEF TotalOf, KindIs
  <2> DEFINE a == <<Log[e].wallet, Log[e].schedule>>
  <2>1. Totals[a] = IF e \in listenerState \/ Upserted(e) THEN Log[e].tokens ELSE 0
    BY <1>7 DEF TotalOf
  <2>2. a \in Schedules
    BY LogType
  <2>3. CASE job[w].pc = "tx" /\ job'[w].pc = "activity"
    <3>1. /\ job'[w].event = job[w].event /\ listenerState' = listenerState
          /\ Totals' = IF KindIs(job[w].event, "VestingScheduleCreated")
                       THEN [Totals EXCEPT ![<<Log[job[w].event].wallet, Log[job[w].event].schedule>>]
                                             = Log[job[w].event].tokens]
                       ELSE Totals
          /\ job[w].event \in Events
      BY <1>1, <1>2, <2>3 DEF QuietMove, Handling
    <3>2. CASE e = job[w].event
      <4>1. Totals' = [Totals EXCEPT ![a] = Log[e].tokens]
        BY <3>1, <3>2
      <4>2. Totals'[a] = Log[e].tokens
        BY <1>2, <2>2, <4>1
      <4>3. Upserted(e)'
        BY <1>6, <2>3, <3>1, <3>2
      <4> QED
        BY <4>2, <4>3
    <3>3. CASE e # job[w].event
      <4>1. Totals'[a] = Totals[a]
        <5>1. KindIs(job[w].event, "VestingScheduleCreated") =>
                a # <<Log[job[w].event].wallet, Log[job[w].event].schedule>>
          BY <3>1, <3>3, SchedulesAnnouncedOnce DEF KindIs, Events
        <5> HIDE DEF a
        <5> QED
          BY <1>2, <2>2, <3>1, <5>1
      <4>2. ~Upserted(e)' /\ ~Upserted(e)
        BY <1>5, <1>6, <2>3, <3>1, <3>3
      <4> QED
        BY <2>1, <3>1, <4>1, <4>2
    <3> QED
      BY <3>2, <3>3
  <2>4. CASE ~(job[w].pc = "tx" /\ job'[w].pc = "activity")
    <3>1. Totals' = Totals
      BY <1>1, <2>4 DEF QuietMove
    <3>2. (e \in listenerState' \/ Upserted(e)') <=> (e \in listenerState \/ Upserted(e))
      BY <1>1, <1>2, <1>5, <1>6, <2>4 DEF QuietMove, FirstWrite, KindIs, Handling, Kinds
    <3> QED
      BY <2>1, <3>1, <3>2
  <2> QED
    BY <2>3, <2>4
<1> QED
  BY <1>8, <1>9

\* A step of no handler, other than the crash, finds and leaves the workers it
\* moves outside the handlers.
LEMMA ScanMoves ==
  ASSUME TypeInv,
         UNCHANGED vars \/ Emit \/ LoopScan \/ ResetEventState
         \/ (\E wallet \in Wallets : Login(wallet))
         \/ (\E w \in Requests : RequestScan(w)) \/ (\E w \in Workers : ScanDone(w))
  PROVE  \A v \in Workers :
           job'[v] = job[v] \/ (job[v].pc \notin Handling /\ job'[v].pc \notin Handling)
<1>0. job \in [Workers -> Job]
  BY DEF TypeInv, TypeOK
<1>1. CASE UNCHANGED vars \/ Emit \/ ResetEventState \/ (\E wallet \in Wallets : Login(wallet))
  BY <1>1 DEF vars, Emit, ResetEventState, Login
<1>2. CASE LoopScan
  BY <1>0, <1>2 DEF LoopScan, MayStart, Between, Workers, Handling
<1>3. ASSUME NEW w \in Requests, RequestScan(w)
      PROVE  \A v \in Workers :
               job'[v] = job[v] \/ (job[v].pc \notin Handling /\ job'[v].pc \notin Handling)
  BY <1>0, <1>3 DEF RequestScan, MayStart, Between, Workers, Handling
<1>4. ASSUME NEW w \in Workers, ScanDone(w)
      PROVE  \A v \in Workers :
               job'[v] = job[v] \/ (job[v].pc \notin Handling /\ job'[v].pc \notin Handling)
  BY <1>0, <1>4, BetweenIsGood DEF ScanDone, Stopped, Handling
<1> QED
  BY <1>1, <1>2, <1>3, <1>4

LEMMA ScanFeed ==
  ASSUME TypeInv, FeedInv, resets' = resets, faults' = faults,
         UNCHANGED vars \/ Emit \/ LoopScan \/ ResetEventState \/ Crash
         \/ (\E wallet \in Wallets : Login(wallet))
         \/ (\E w \in Requests : RequestScan(w)) \/ (\E w \in Workers : ScanDone(w))
  PROVE  FeedInv'
<1>1. resets' # resets + 1 /\ faults' # faults + 1
  BY HandlersAssumption DEF TypeInv, TypeOK
<1>2. ~ResetEventState /\ ~Crash
  BY <1>1 DEF ResetEventState, Crash, Fault
<1>3. UNCHANGED <<listenerState, recentActivity, vestingSchedule, dropped>>
  BY <1>2 DEF vars, Emit, LoopScan, Login, RequestScan, ScanDone, ledger
<1>4. \A v \in Workers :
        job'[v] = job[v] \/ (job[v].pc \notin Handling /\ job'[v].pc \notin Handling)
  BY <1>2, ScanMoves
<1>5. ASSUME NEW e \in Events
      PROVE  /\ Ahead(e)' <=> Ahead(e)
             /\ Behind(e)' <=> Behind(e)
             /\ Upserted(e)' <=> Upserted(e)
  BY <1>4 DEF Ahead, Behind, Upserted, Handling
<1>6. ASSUME NEW e \in Events PROVE ActivityOf(e)' /\ TotalOf(e)'
  <2>1. ActivityOf(e) /\ TotalOf(e)
    BY DEF FeedInv
  <2>2. ActivityOf(e)'
    BY <1>3, <1>5, <2>1 DEF ActivityOf, KindIs, One
  <2>3. TotalOf(e)'
    BY <1>3, <1>5, <2>1 DEF TotalOf, Totals, KindIs
  <2> QED
    BY <2>2, <2>3
<1> QED
  BY <1>6 DEF FeedInv

-----------------------------------------------------------------------------
(***************************************************************************)
(* The balances are the sums over the events that were counted.            *)
(***************************************************************************)

Once(wallet, kind) == {e \in Events : counted[e] = 1 /\ Log[e].wallet = wallet /\ KindIs(e, kind)}

BalancesInv ==
  \A wallet \in Wallets :
    /\ presaleUser[wallet].purchased = TokensOf(Once(wallet, "Bought"))
    /\ presaleUser[wallet].claimed = TokensOf(Once(wallet, "Claimed"))

LEMMA OneEventMore ==
  ASSUME NEW A \in SUBSET Events, NEW e \in Events \ A
  PROVE  TokensOf(A \cup {e}) = TokensOf(A) + Log[e].tokens
<1> DEFINE tokens == [x \in Events |-> Log[x].tokens]
           B == A \cup {e}
<1>1. \A x \in B : tokens[x] = Log[x].tokens /\ tokens[x] \in Nat
  BY LogType
<1>2. IsFiniteSet(B)
  BY LossesAreFinite, FS_Subset
<1>3. e \in B /\ B \ {e} = A
  OBVIOUS
<1> HIDE DEF tokens, B
<1>4. SumFunctionOnSet(tokens, B) = SumFunctionOnSet(tokens, B \ {e}) + tokens[e]
  BY <1>1, <1>2, <1>3, SumOfOneMore
<1> QED
  BY <1>1, <1>3, <1>4 DEF TokensOf, tokens, B

\* An event is counted for the first time.
LEMMA OnceMore ==
  ASSUME counted \in [Events -> Nat], NEW e \in Events,
         counted' = [counted EXCEPT ![e] = @ + 1], counted'[e] <= 1,
         NEW wallet, NEW kind
  PROVE  TokensOf(Once(wallet, kind))'
           = TokensOf(Once(wallet, kind))
               + (IF Log[e].wallet = wallet /\ KindIs(e, kind) THEN Log[e].tokens ELSE 0)
<1>1. counted[e] = 0 /\ counted'[e] = 1 /\ \A f \in Events \ {e} : counted'[f] = counted[f]
  <2>1. counted'[e] = counted[e] + 1 /\ counted[e] \in Nat
    OBVIOUS
  <2> QED
    BY <2>1
<1> DEFINE A == Once(wallet, kind)
<1>2. PICK B : B = Once(wallet, kind)'
  OBVIOUS
<1>3. TokensOf(Once(wallet, kind))' = TokensOf(B)
  BY <1>2 DEF TokensOf
<1>4. A \in SUBSET Events /\ e \in Events \ A
  BY <1>1 DEF Once
<1>5. CASE Log[e].wallet = wallet /\ KindIs(e, kind)
  <2>1. B = A \cup {e}
    BY <1>1, <1>2, <1>5 DEF Once, KindIs
  <2> HIDE DEF A
  <2> QED
    BY <1>3, <1>4, <1>5, <2>1, OneEventMore DEF A
<1>6. CASE ~(Log[e].wallet = wallet /\ KindIs(e, kind))
  <2>1. B = A
    BY <1>1, <1>2, <1>6 DEF Once, KindIs
  <2>2. TokensOf(A) \in Nat
    <3>1. IsFiniteSet(A) /\ \A x \in A : [y \in Events |-> Log[y].tokens][x] \in Nat
      BY <1>4, LossesAreFinite, FS_Subset, LogType
    <3> HIDE DEF A
    <3> QED
      BY <3>1, SumType DEF TokensOf
  <2> QED
    BY <1>3, <1>6, <2>1, <2>2
<1> QED
  BY <1>5, <1>6

LEMMA StepBalances ==
  ASSUME TypeInv, TypeInv', BalancesInv, [Next]_vars, \A e \in Events : counted'[e] <= 1
  PROVE  BalancesInv'
<1>0. presaleUser \in [Wallets -> UserRow] /\ counted \in [Events -> Nat]
  BY DEF TypeInv, TypeOK
<1>1. ASSUME NEW w \in Workers, BuyUser(w) \/ ClaimUser(w) PROVE BalancesInv'
  <2>1. /\ job[w].event \in Events /\ Event(w).wallet \in Wallets
        /\ counted' = [counted EXCEPT ![job[w].event] = @ + 1]
    BY <1>1, EventType DEF BuyUser, ClaimUser, At, Handling
  <2>2. PICK e \in Events : e = job[w].event
    BY <2>1
  <2>3. counted' = [counted EXCEPT ![e] = @ + 1] /\ counted'[e] <= 1
    BY <2>1, <2>2
  <2> SUFFICES ASSUME NEW wallet \in Wallets
               PROVE  /\ presaleUser'[wallet].purchased = TokensOf(Once(wallet, "Bought"))'
                      /\ presaleUser'[wallet].claimed = TokensOf(Once(wallet, "Claimed"))'
    BY DEF BalancesInv
  <2>4. /\ presaleUser[wallet].purchased = TokensOf(Once(wallet, "Bought"))
        /\ presaleUser[wallet].claimed = TokensOf(Once(wallet, "Claimed"))
    BY DEF BalancesInv
  <2>5. TokensOf(Once(wallet, "Bought"))'
          = TokensOf(Once(wallet, "Bought"))
              + (IF Log[e].wallet = wallet /\ KindIs(e, "Bought") THEN Log[e].tokens ELSE 0)
    BY <1>0, <2>3, OnceMore
  <2>6. TokensOf(Once(wallet, "Claimed"))'
          = TokensOf(Once(wallet, "Claimed"))
              + (IF Log[e].wallet = wallet /\ KindIs(e, "Claimed") THEN Log[e].tokens ELSE 0)
    BY <1>0, <2>3, OnceMore
  <2>7. /\ presaleUser[wallet].purchased \in Nat /\ presaleUser[wallet].claimed \in Nat
    BY <1>0 DEF UserRow
  <2>8. Log[e].tokens \in Nat
    BY LogType
  <2>9. /\ presaleUser'[wallet].purchased = presaleUser[wallet].purchased
             + (IF Log[e].wallet = wallet /\ KindIs(e, "Bought") THEN Log[e].tokens ELSE 0)
        /\ presaleUser'[wallet].claimed = presaleUser[wallet].claimed
             + (IF Log[e].wallet = wallet /\ KindIs(e, "Claimed") THEN Log[e].tokens ELSE 0)
    <3>1. Event(w) = Log[e]
      BY <2>2 DEF Event
    <3>2. CASE BuyUser(w)
      BY <1>0, <2>1, <2>7, <3>1, <3>2 DEF BuyUser, At, KindIs, UserRow
    <3>3. CASE ClaimUser(w)
      BY <1>0, <2>1, <2>7, <3>1, <3>3 DEF ClaimUser, At, KindIs, UserRow
    <3> QED
      BY <1>1, <3>2, <3>3
  <2> QED
    BY <2>4, <2>5, <2>6, <2>9
<1>2. ASSUME counted' = counted,
             \A v \in Wallets : /\ presaleUser'[v].purchased = presaleUser[v].purchased
                                /\ presaleUser'[v].claimed = presaleUser[v].claimed
      PROVE  BalancesInv'
  BY <1>2 DEF BalancesInv, Once, KindIs, TokensOf
<1>3. CASE (\E w \in Workers : VestingUser(w)) \/ (\E wallet \in Wallets : Login(wallet))
  <2>1. counted' = counted
    BY <1>3 DEF VestingUser, Login
  <2>2. \E a \in Wallets : presaleUser' = [presaleUser EXCEPT ![a].exists = TRUE]
    BY <1>3, EventType DEF VestingUser, Login, At, Handling
  <2>3. \A v \in Wallets : /\ presaleUser'[v].purchased = presaleUser[v].purchased
                           /\ presaleUser'[v].claimed = presaleUser[v].claimed
    BY <1>0, <2>2 DEF UserRow
  <2> QED
    BY <1>2, <2>1, <2>3
<1>4. CASE ~(\E w \in Workers : BuyUser(w) \/ ClaimUser(w) \/ VestingUser(w))
           /\ ~(\E wallet \in Wallets : Login(wallet))
  <2>1. UNCHANGED presaleUser
    BY <1>4, RowsUntouched
  <2>2. UNCHANGED counted
    BY <1>4 DEF Next, Handler, vars, Emit, LoopScan, ResetEventState, Crash, RequestScan, ScanDone,
                Take, Throw, Refuse, Mark, RecordActivity, BuyTx, BuyCertificate,
                ClaimTx, ClaimRead, ClaimSchedule, VestingUpsert, ledger
  <2> QED
    BY <1>2, <2>1, <2>2
<1> QED
  BY <1>1, <1>3, <1>4

\* When nothing is in hand, the events counted once are those marked.
LEMMA CountedAtRest ==
  ASSUME TypeInv, RepeatInv, PurchaseInv, ClaimsLostOnlyByFaults, AtRest, Undisturbed,
         NEW wallet, NEW kind \in {"Bought", "Claimed"}
  PROVE  Once(wallet, kind) = Marked(wallet, kind)
<1>0. counted \in [Events -> Nat] /\ listenerState \subseteq Events
  BY DEF TypeInv, TypeOK
<1>1. ASSUME NEW e \in Events PROVE ~Written(e) /\ ~Promised(e)
  BY DEF AtRest, Resting, Written, WrittenBy, Promised, PromisedBy
<1>2. ASSUME NEW e \in Events PROVE counted[e] <= One(e \in listenerState)
  <2>1. Accounted(e)
    BY DEF RepeatInv
  <2>2. counted[e] \in Nat /\ resets = 0 /\ faults = 0
    BY <1>0 DEF Undisturbed
  <2> QED
    BY <1>1, <2>1, <2>2 DEF Accounted, One
<1>3. ASSUME NEW e \in listenerState, KindIs(e, kind) PROVE counted[e] >= 1
  <2>1. CASE kind = "Bought"
    BY <1>3, <2>1 DEF PurchaseInv, MarkedPurchaseIsRecorded
  <2>2. CASE kind = "Claimed"
    <3>1. LostClaims = {}
      <4>1. IsFiniteSet(LostClaims) /\ Cardinality(LostClaims) <= 0 /\ Cardinality(LostClaims) \in Nat
        BY LossesAreFinite, FS_CardinalityType DEF ClaimsLostOnlyByFaults, Undisturbed
      <4>2. Cardinality(LostClaims) = 0
        BY <4>1
      <4> QED
        BY <4>1, <4>2, FS_EmptySet
    <3>2. counted[e] # 0
      BY <1>3, <2>2, <3>1 DEF LostClaims, AtRest, Resting
    <3> QED
      BY <1>0, <3>2
  <2> QED
    BY <2>1, <2>2
<1>4. \A e \in Events : KindIs(e, kind) => (counted[e] = 1 <=> e \in listenerState)
  BY <1>0, <1>2, <1>3 DEF One
<1> QED
  BY <1>0, <1>4 DEF Once, Marked

MatchInv == Undisturbed => FeedInv /\ BalancesInv

LEMMA InitMatches == Init => MatchInv
<1> SUFFICES ASSUME Init PROVE FeedInv /\ BalancesInv
  BY DEF MatchInv
<1>1. ASSUME NEW e \in Events PROVE ActivityOf(e) /\ TotalOf(e)
  <2>1. ~Ahead(e) /\ ~Behind(e) /\ ~Upserted(e)
    BY BetweenIsGood DEF Init, Ahead, Behind, Upserted
  <2>2. <<Log[e].wallet, Log[e].schedule>> \in Schedules
    BY LogType
  <2> QED
    BY <2>1, <2>2 DEF Init, ActivityOf, TotalOf, One, Totals, NoSchedules
<1>2. BalancesInv
  <2> SUFFICES ASSUME NEW wallet \in Wallets, NEW kind
               PROVE  TokensOf(Once(wallet, kind)) = 0
    BY DEF BalancesInv, Init, NoUser
  <2>1. Once(wallet, kind) = {}
    BY DEF Once, Init
  <2> QED
    BY <2>1, SumOfNothing DEF TokensOf
<1> QED
  BY <1>1, <1>2 DEF FeedInv

\* A step that disturbs nothing started from a state nothing had disturbed.
LEMMA UndisturbedBefore ==
  ASSUME TypeInv, [Next]_vars, Undisturbed'
  PROVE  Undisturbed /\ faults' = faults /\ resets' = resets
<1>1. faults' \in {faults, faults + 1} /\ resets' \in {resets, resets + 1}
  <2>1. ASSUME NEW w \in Workers, Handler(w)
        PROVE  faults' \in {faults, faults + 1} /\ resets' = resets
    BY <2>1, HandlerMoves
  <2> QED
    BY <2>1 DEF Next, vars, Emit, LoopScan, ResetEventState, Crash, Fault, Login, RequestScan, ScanDone
<1>2. faults \in Nat /\ resets \in Nat /\ faults' = 0 /\ resets' = 0 /\ ~MayOverlap
  BY HandlersAssumption DEF TypeInv, TypeOK, Undisturbed
<1>3. faults = 0 /\ resets = 0
  BY <1>1, <1>2
<1> QED
  BY <1>2, <1>3 DEF Undisturbed

LEMMA StepMatches ==
  TypeInv /\ TypeInv' /\ (~MayOverlap => RepeatInv) /\ (~MayOverlap => RepeatInv)' /\ MatchInv
    /\ [Next]_vars => MatchInv'
<1> SUFFICES ASSUME TypeInv, TypeInv', ~MayOverlap => RepeatInv, ~MayOverlap => RepeatInv',
                    MatchInv, [Next]_vars, Undisturbed'
             PROVE  FeedInv' /\ BalancesInv'
  BY DEF MatchInv
<1>1. Undisturbed /\ faults' = faults /\ resets' = resets
  BY UndisturbedBefore
<1>2. RepeatInv /\ RepeatInv' /\ FeedInv /\ BalancesInv
  BY <1>1 DEF Undisturbed, MatchInv
<1>3. FeedInv'
  BY <1>1, <1>2, HandlerFeed, ScanFeed DEF Next
<1>4. \A e \in Events : counted'[e] <= 1
  <2> SUFFICES ASSUME NEW e \in Events PROVE counted'[e] <= 1
    OBVIOUS
  <2>1. RepeatsAreAccounted'
    BY <1>2, AccountOfRepeats, PTL
  <2>2. counted'[e] <= 1 + resets' + (IF KindIs(e, "Claimed") THEN 0 ELSE faults')
    BY <2>1 DEF RepeatsAreAccounted, KindIs, Undisturbed
  <2>3. resets' = 0 /\ faults' = 0
    BY DEF Undisturbed
  <2> QED
    BY <2>2, <2>3
<1>5. BalancesInv'
  BY <1>2, <1>4, StepBalances
<1> QED
  BY <1>3, <1>5

\* While nothing fails, no marker is reset and no two scans overlap, the
\* buyers' balances, the activity feed and the schedules hold, between scans,
\* exactly the events marked as processed, whatever requests went over them
\* again and however far the cursor was rewound.
THEOREM LedgerHoldsWhatIsMarked == Spec => []LedgerMatchesMarkers
<1>1. TypeInv /\ (~MayOverlap => RepeatInv) /\ PurchaseInv /\ ClaimsLostOnlyByFaults /\ MatchInv
        => LedgerMatchesMarkers
  <2> SUFFICES ASSUME TypeInv, RepeatInv, PurchaseInv, ClaimsLostOnlyByFaults, FeedInv, BalancesInv,
                      AtRest, Undisturbed
               PROVE  /\ \A w \in Wallets :
                           /\ presaleUser[w].purchased = TokensOf(Marked(w, "Bought"))
                           /\ presaleUser[w].claimed = TokensOf(Marked(w, "Claimed"))
                      /\ \A e \in Events \ dropped :
                           recentActivity[e] = IF e \in listenerState THEN 1 ELSE 0
                      /\ \A e \in Events : KindIs(e, "VestingScheduleCreated") =>
                           vestingSchedule[<<Log[e].wallet, Log[e].schedule>>].total =
                             IF e \in listenerState THEN Log[e].tokens ELSE 0
    BY DEF LedgerMatchesMarkers, MatchInv, Undisturbed
  <2>1. ASSUME NEW w \in Wallets
        PROVE  /\ presaleUser[w].purchased = TokensOf(Marked(w, "Bought"))
               /\ presaleUser[w].claimed = TokensOf(Marked(w, "Claimed"))
    <3>1. Once(w, "Bought") = Marked(w, "Bought") /\ Once(w, "Claimed") = Marked(w, "Claimed")
      BY CountedAtRest
    <3> QED
      BY <3>1 DEF BalancesInv
  <2>2. ASSUME NEW e \in Events PROVE ~Ahead(e) /\ ~Behind(e) /\ ~Upserted(e) /\ ActivityOf(e) /\ TotalOf(e)
    BY DEF AtRest, Resting, Ahead, Behind, Upserted, FeedInv
  <2>3. ASSUME NEW e \in Events \ dropped PROVE recentActivity[e] = IF e \in listenerState THEN 1 ELSE 0
    <3>1. recentActivity[e] \in Nat
      BY DEF TypeInv, TypeOK
    <3> QED
      BY <2>2, <3>1 DEF ActivityOf, One
  <2>4. ASSUME NEW e \in Events, KindIs(e, "VestingScheduleCreated")
        PROVE  vestingSchedule[<<Log[e].wallet, Log[e].schedule>>].total =
                 IF e \in listenerState THEN Log[e].tokens ELSE 0
    <3>1. <<Log[e].wallet, Log[e].schedule>> \in Schedules
      BY LogType
    <3> QED
      BY <2>2, <2>4, <3>1 DEF TotalOf, Totals
  <2> QED
    BY <2>1, <2>3, <2>4
<1>2. Spec => []TypeInv
  BY InitTypes, StepTypes, PTL DEF Spec
<1>3. Spec => [](~MayOverlap => RepeatInv)
  BY <1>2, InitRepeats, StepRepeats, PTL DEF Spec
<1>4. Init => PurchaseInv
  BY BetweenIsGood DEF Init, PurchaseInv, Purchased, MarkedPurchaseIsRecorded
<1>5. Spec => []PurchaseInv
  BY <1>2, <1>4, StepPurchases, PTL DEF Spec
<1>6. Spec => []MatchInv
  BY <1>2, <1>3, InitMatches, StepMatches, PTL DEF Spec
<1> QED
  BY <1>1, <1>2, <1>3, <1>5, <1>6, FaultsLoseOneClaimEach, PTL
=============================================================================
