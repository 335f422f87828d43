------------------------- MODULE BuyerRecordsProofs -------------------------
(***************************************************************************)
(* Theorems about BuyerRecords: what remains true of the ledger when the   *)
(* API edits, renames and removes the rows between the handlers' writes,   *)
(* for every log of events, any number of requests, wallets and writes of  *)
(* the API, and whatever fails.                                            *)
(***************************************************************************)
EXTENDS BuyerRecords, PresaleHandlersProofs

-----------------------------------------------------------------------------
(***************************************************************************)
(* Type correctness                                                        *)
(***************************************************************************)

ApiTypes == edited \subseteq Wallets /\ pulled \subseteq Wallets /\ carried \subseteq Wallets

BuyerTypes == TypeInv /\ ApiTypes

Moved(a, b, s) == <<Swap(a, b, s[1]), s[2]>>

\* Two addresses trade places: done twice, nothing has changed.
LEMMA Swaps ==
  ASSUME NEW a \in Wallets, NEW b \in Wallets
  PROVE  /\ \A x : Swap(a, b, Swap(a, b, x)) = x
         /\ \A x \in Wallets : Swap(a, b, x) \in Wallets
         /\ \A s \in Schedules : /\ Moved(a, b, s) \in Schedules
                                 /\ Moved(a, b, Moved(a, b, s)) = s
                                 /\ Moved(a, b, s)[1] = Swap(a, b, s[1])
<1>1. \A x : Swap(a, b, Swap(a, b, x)) = x
  BY DEF Swap
<1>2. \A x \in Wallets : Swap(a, b, x) \in Wallets
  BY DEF Swap
<1>3. ASSUME NEW s \in Schedules
      PROVE  /\ Moved(a, b, s) \in Schedules
             /\ Moved(a, b, Moved(a, b, s)) = s
             /\ Moved(a, b, s)[1] = Swap(a, b, s[1])
  <2>1. PICK x \in Wallets, i \in ScheduleIds : s = <<x, i>>
    BY DEF Schedules
  <2> QED
    BY <1>1, <1>2, <2>1 DEF Moved, Schedules
<1> QED
  BY <1>1, <1>2, <1>3

\* What a renaming does to the schedules and to the handlers among them.
LEMMA RenamedSchedules ==
  ASSUME TypeInv, NEW a \in Wallets, NEW b \in Wallets, RenameBuyer(a, b)
  PROVE  /\ vestingSchedule' = [s \in Schedules |-> vestingSchedule[Moved(a, b, s)]]
         /\ job' \in [Workers -> Job]
         /\ \A w \in Workers :
              /\ job'[w].pc = job[w].pc /\ job'[w].event = job[w].event
              /\ \A s \in Schedules : job'[w].snap[s] = job[w].snap[Moved(a, b, s)]
              /\ GoodJob(job'[w])
<1>1. /\ vestingSchedule' = [s \in Schedules |-> vestingSchedule[Moved(a, b, s)]]
      /\ job' = [w \in Workers |->
                  [job[w] EXCEPT !.snap = [s \in Schedules |-> job[w].snap[Moved(a, b, s)]],
                                 !.left = {Moved(a, b, s) : s \in @}]]
  BY DEF RenameBuyer, Moved
<1>2. ASSUME NEW w \in Workers
      PROVE  /\ job'[w] \in Job /\ job'[w].pc = job[w].pc /\ job'[w].event = job[w].event
             /\ \A s \in Schedules : job'[w].snap[s] = job[w].snap[Moved(a, b, s)]
             /\ GoodJob(job'[w])
  <2> DEFINE j == job[w]
             snap == [s \in Schedules |-> j.snap[Moved(a, b, s)]]
             left == {Moved(a, b, s) : s \in j.left}
  <2>1. PICK k : k = job'[w]
    OBVIOUS
  <2>2. k = [j EXCEPT !.snap = snap, !.left = left]
    BY <1>1, <2>1
  <2>3. j \in Job /\ GoodJob(j)
    BY DEF TypeInv, TypeOK
  <2>4. snap \in [Schedules -> ScheduleRow] /\ left \subseteq Schedules
    BY <2>3, Swaps DEF Job
  <2>5. \A s \in Schedules : snap[s] = j.snap[Moved(a, b, s)]
    OBVIOUS
  <2>6. \A s \in left : \E t \in j.left : t \in Schedules /\ s \in Schedules /\ snap[s] = j.snap[t]
    <3> SUFFICES ASSUME NEW t \in j.left
                 PROVE  t \in Schedules /\ Moved(a, b, t) \in Schedules /\ snap[Moved(a, b, t)] = j.snap[t]
      OBVIOUS
    <3> QED
      BY <2>3, Swaps DEF Job
  <2> HIDE DEF snap, left
  <2>7. /\ k \in Job /\ k.pc = j.pc /\ k.event = j.event /\ k.upto = j.upto /\ k.open = j.open
        /\ k.snap = snap /\ k.left = left
    BY <2>2, <2>3, <2>4 DEF Job
  <2>8. GoodJob(k)
    BY <2>3, <2>6, <2>7 DEF GoodJob
  <2> QED
    BY <2>1, <2>5, <2>7, <2>8
<1>3. job' \in [Workers -> Job]
  BY <1>1, <1>2
<1> QED
  BY <1>1, <1>2, <1>3

LEMMA EditTypes ==
  ASSUME BuyerTypes, NEW wallet \in Wallets, EditBuyer(wallet)
  PROVE  BuyerTypes'
<1>0. PICK entered \in UNION {[fields -> EditedAmounts] : fields \in (SUBSET Amounts) \ {{}}} :
        presaleUser' = [presaleUser EXCEPT ![wallet] =
          [x \in DOMAIN @ |-> IF x \in DOMAIN entered THEN entered[x] ELSE @[x]]]
  BY DEF EditBuyer
<1>1. PICK fields \in SUBSET Amounts : entered \in [fields -> EditedAmounts]
  BY <1>0
<1> DEFINE old == presaleUser[wallet]
           new == [x \in DOMAIN old |-> IF x \in fields THEN entered[x] ELSE old[x]]
<1>2. presaleUser' = [presaleUser EXCEPT ![wallet] = new]
  BY <1>0, <1>1 DEF BuyerTypes, TypeInv, TypeOK
<1>3. new \in UserRow
  <2>1. old \in UserRow
    BY DEF BuyerTypes, TypeInv, TypeOK
  <2>2. PICK e \in BOOLEAN, p \in Nat, c \in Nat, u \in Int :
          old = [exists |-> e, purchased |-> p, claimed |-> c, unclaimed |-> u]
    BY <2>1 DEF UserRow
  <2>3. DOMAIN old = {"exists", "purchased", "claimed", "unclaimed"}
    BY <2>2
  <2>4. \A x \in fields : entered[x] \in Nat
    BY <1>1, BuyerAssumption
  <2>5. new = [exists |-> new.exists, purchased |-> new.purchased,
               claimed |-> new.claimed, unclaimed |-> new.unclaimed]
    BY <2>3
  <2>6. new.exists \in BOOLEAN /\ new.purchased \in Nat /\ new.claimed \in Nat /\ new.unclaimed \in Int
    <3>1. "exists" \notin fields
      BY DEF Amounts
    <3> HIDE DEF old
    <3>2. new.exists = old.exists
      BY <2>3, <3>1
    <3>3. /\ new.purchased = IF "purchased" \in fields THEN entered["purchased"] ELSE old.purchased
          /\ new.claimed = IF "claimed" \in fields THEN entered["claimed"] ELSE old.claimed
          /\ new.unclaimed = IF "unclaimed" \in fields THEN entered["unclaimed"] ELSE old.unclaimed
      BY <2>3
    <3> HIDE DEF new
    <3> QED
      BY <2>1, <2>4, <3>2, <3>3 DEF UserRow
  <2> HIDE DEF new
  <2> QED
    BY <2>5, <2>6 DEF UserRow
<1> HIDE DEF new
<1>4. presaleUser' \in [Wallets -> UserRow]
  BY <1>2, <1>3 DEF BuyerTypes, TypeInv, TypeOK
<1> QED
  BY <1>4 DEF EditBuyer, BuyerTypes, ApiTypes, TypeInv, TypeOK

LEMMA RenameTypes ==
  ASSUME BuyerTypes, NEW a \in Wallets, NEW b \in Wallets, RenameBuyer(a, b)
  PROVE  BuyerTypes'
<1>1. job' \in [Workers -> Job] /\ \A w \in Workers : GoodJob(job'[w])
  BY RenamedSchedules DEF BuyerTypes
<1>2. vestingSchedule' \in [Schedules -> ScheduleRow]
  BY RenamedSchedules, Swaps DEF BuyerTypes, TypeInv, TypeOK
<1>3. presaleUser' \in [Wallets -> UserRow]
  BY Swaps DEF RenameBuyer, BuyerTypes, TypeInv, TypeOK
<1>4. presaleTx' \in [TxHashes -> TxRow]
  <2>1. ASSUME NEW t \in TxHashes PROVE CarriedOver(a, b, presaleTx[t]) \in TxRow
    <3>1. presaleTx[t] \in TxRow
      BY DEF BuyerTypes, TypeInv, TypeOK
    <3>2. CASE presaleTx[t] = NoTx
      <4>1. Swap(a, b, "none") = "none"
        BY BuyerAssumption DEF Swap
      <4>2. CarriedOver(a, b, NoTx) = NoTx
        BY <4>1 DEF CarriedOver, NoTx
      <4> QED
        BY <3>2, <4>2 DEF TxRow
    <3>3. CASE presaleTx[t] # NoTx
      <4>1. presaleTx[t] \in [type : {"Buy", "Claim"}, wallet : Wallets, tokens : Nat]
        BY <3>1, <3>3 DEF TxRow
      <4>2. Swap(a, b, presaleTx[t].wallet) \in Wallets
        BY <4>1, Swaps
      <4> QED
        BY <4>1, <4>2 DEF CarriedOver, TxRow
    <3> QED
      BY <3>2, <3>3
  <2> QED
    BY <2>1 DEF RenameBuyer
<1>5. ASSUME NEW S \in SUBSET Wallets PROVE {Swap(a, b, x) : x \in S} \subseteq Wallets
  <2>1. \A x \in S : Swap(a, b, x) \in Wallets
    BY Swaps
  <2> QED
    BY <2>1
<1>6. claimCreated' \subseteq Wallets /\ edited' \subseteq Wallets /\ pulled' \subseteq Wallets
  <2>1. claimCreated \in SUBSET Wallets /\ edited \in SUBSET Wallets /\ pulled \in SUBSET Wallets
    BY DEF BuyerTypes, ApiTypes, TypeInv, TypeOK
  <2>2. Interrupted({a, b}) \subseteq Wallets
    BY DEF Interrupted
  <2> QED
    BY <1>5, <2>1, <2>2 DEF RenameBuyer
<1>7. carried' \subseteq Wallets
  BY DEF RenameBuyer, BuyerTypes, ApiTypes
<1> QED
  BY <1>1, <1>2, <1>3, <1>4, <1>6, <1>7 DEF RenameBuyer, BuyerTypes, ApiTypes, TypeInv, TypeOK

LEMMA BuyerStepTypes == BuyerTypes /\ [BuyerNext]_allVars => BuyerTypes'
<1> SUFFICES ASSUME BuyerTypes, [BuyerNext]_allVars PROVE BuyerTypes'
  OBVIOUS
<1>1. CASE (Next /\ UNCHANGED buyerVars) \/ UNCHANGED allVars
  <2>1. TypeInv'
    BY <1>1, StepTypes DEF BuyerTypes, allVars
  <2> QED
    BY <1>1, <2>1 DEF BuyerTypes, ApiTypes, buyerVars, allVars
<1>2. ASSUME NEW wallet \in Wallets, RemoveBuyer(wallet) PROVE BuyerTypes'
  <2>1. presaleUser' \in [Wallets -> UserRow]
    BY <1>2 DEF RemoveBuyer, BuyerTypes, TypeInv, TypeOK, NoUser, UserRow
  <2> QED
    BY <1>2, <2>1 DEF RemoveBuyer, Interrupted, BuyerTypes, ApiTypes, TypeInv, TypeOK
<1>3. ASSUME NEW tx \in TxHashes, DeleteTransaction(tx) PROVE BuyerTypes'
  <2>1. presaleTx' \in [TxHashes -> TxRow]
    BY <1>3 DEF DeleteTransaction, BuyerTypes, TypeInv, TypeOK, TxRow
  <2> QED
    BY <1>3, <2>1 DEF DeleteTransaction, BuyerTypes, ApiTypes, TypeInv, TypeOK
<1> QED
  BY <1>1, <1>2, <1>3, EditTypes, RenameTypes DEF BuyerNext, Api

LEMMA BuyerTypesHold == BuyerSpec => []BuyerTypes
<1>1. BuyerInit => BuyerTypes
  BY InitTypes DEF BuyerInit, BuyerTypes, ApiTypes
<1> QED
  BY <1>1, BuyerStepTypes, PTL DEF BuyerSpec

-----------------------------------------------------------------------------
(***************************************************************************)
(* The rows, and the schedules that refer to them                          *)
(***************************************************************************)

BuyerRows ==
  \A v \in Wallets : BlankOrThere(v) /\ (v \notin edited => BalancesAgree(v))

\* A schedule without a total has nothing claimed of it; one with a total has
\* its buyer's row, and whoever has seen its total still finds one.
Anchored(s) ==
  /\ vestingSchedule[s].total = 0 => vestingSchedule[s].claimed = 0
  /\ vestingSchedule[s].total # 0 => presaleUser[s[1]].exists
  /\ \A w \in Workers :
       job[w].pc = "apply" /\ job[w].snap[s].total # 0 => vestingSchedule[s].total # 0

BuyerSchedules ==
  \A s \in Schedules : Anchored(s) /\ (s[1] \notin carried => OwnSchedule(s))

LEMMA BuyerStepRows == BuyerTypes /\ BuyerRows /\ [BuyerNext]_allVars => BuyerRows'
<1> SUFFICES ASSUME BuyerTypes, BuyerRows, [BuyerNext]_allVars, NEW v \in Wallets
             PROVE  BlankOrThere(v)' /\ (v \notin edited' => BalancesAgree(v)')
  BY DEF BuyerRows
<1>0. presaleUser \in [Wallets -> UserRow] /\ BlankOrThere(v) /\ (v \notin edited => BalancesAgree(v))
  BY DEF BuyerTypes, TypeInv, TypeOK, BuyerRows
<1>1. CASE (Next /\ UNCHANGED buyerVars) \/ UNCHANGED allVars
  BY <1>0, <1>1, RowStep DEF BuyerTypes, allVars, buyerVars
<1>2. CASE presaleUser'[v] = presaleUser[v] /\ claimCreated' = claimCreated /\ (v \in edited => v \in edited')
  BY <1>0, <1>2 DEF BlankOrThere, BalancesAgree
<1>3. ASSUME NEW wallet \in Wallets, EditBuyer(wallet)
      PROVE  BlankOrThere(v)' /\ (v \notin edited' => BalancesAgree(v)')
  <2>1. claimCreated' = claimCreated /\ edited' = edited \cup {wallet}
    BY <1>3 DEF EditBuyer
  <2>2. CASE v = wallet
    <3>1. PICK entered \in UNION {[fields -> EditedAmounts] : fields \in (SUBSET Amounts) \ {{}}} :
            presaleUser' = [presaleUser EXCEPT ![wallet] =
              [x \in DOMAIN @ |-> IF x \in DOMAIN entered THEN entered[x] ELSE @[x]]]
      BY <1>3 DEF EditBuyer
    <3>2. presaleUser[v].exists /\ "exists" \in DOMAIN presaleUser[v]
      BY <1>0, <1>3, <2>2 DEF EditBuyer, UserRow
    <3>3. "exists" \notin DOMAIN entered
      BY DEF Amounts
    <3>4. presaleUser'[v] = [x \in DOMAIN presaleUser[v] |->
                               IF x \in DOMAIN entered THEN entered[x] ELSE presaleUser[v][x]]
      BY <1>0, <2>2, <3>1
    <3>5. presaleUser'[v].exists
      BY <3>2, <3>3, <3>4
    <3> QED
      BY <2>1, <2>2, <3>5 DEF BlankOrThere
  <2>3. CASE v # wallet
    <3>1. presaleUser'[v] = presaleUser[v]
      BY <1>0, <1>3, <2>3 DEF EditBuyer
    <3> QED
      BY <1>2, <2>1, <3>1
  <2> QED
    BY <2>2, <2>3
<1>4. ASSUME NEW a \in Wallets, NEW b \in Wallets, RenameBuyer(a, b)
      PROVE  BlankOrThere(v)' /\ (v \notin edited' => BalancesAgree(v)')
  <2>1. PICK u \in Wallets : u = Swap(a, b, v) /\ v = Swap(a, b, u)
    BY Swaps
  <2>2. presaleUser'[v] = presaleUser[u] /\ (u \in claimCreated => v \in claimCreated')
        /\ (u \in edited => v \in edited')
    BY <1>4, <2>1 DEF RenameBuyer
  <2>3. BlankOrThere(u) /\ (u \notin edited => BalancesAgree(u))
    BY DEF BuyerRows
  <2> QED
    BY <2>2, <2>3 DEF BlankOrThere, BalancesAgree
<1>5. ASSUME NEW wallet \in Wallets, RemoveBuyer(wallet)
      PROVE  BlankOrThere(v)' /\ (v \notin edited' => BalancesAgree(v)')
  <2>1. claimCreated' = claimCreated /\ edited' = edited \ {wallet}
    BY <1>5 DEF RemoveBuyer
  <2>2. CASE v = wallet
    <3>1. presaleUser'[v] = NoUser
      BY <1>0, <1>5, <2>2 DEF RemoveBuyer
    <3> QED
      BY <3>1 DEF BlankOrThere, BalancesAgree, NoUser
  <2>3. CASE v # wallet
    <3>1. presaleUser'[v] = presaleUser[v]
      BY <1>0, <1>5, <2>3 DEF RemoveBuyer
    <3> QED
      BY <1>2, <2>1, <2>3, <3>1
  <2> QED
    BY <2>2, <2>3
<1>6. ASSUME NEW tx \in TxHashes, DeleteTransaction(tx)
      PROVE  BlankOrThere(v)' /\ (v \notin edited' => BalancesAgree(v)')
  BY <1>2, <1>6 DEF DeleteTransaction
<1> QED
  BY <1>1, <1>3, <1>4, <1>5, <1>6 DEF BuyerNext, Api

\* A row nobody edited keeps its balances in agreement, for any interleaving of
\* handlers, requests and logins with edits, renamings and removals.
THEOREM UneditedRowsAgree == BuyerSpec => []UneditedBalancesAgree
<1>1. BuyerInit => BuyerRows
  BY DEF BuyerInit, Init, BuyerRows, BlankOrThere, BalancesAgree, NoUser
<1>2. BuyerSpec => []BuyerRows
  BY <1>1, BuyerTypesHold, BuyerStepRows, PTL DEF BuyerSpec
<1>3. BuyerRows => UneditedBalancesAgree
  BY DEF BuyerRows, UneditedBalancesAgree
<1> QED
  BY <1>2, <1>3, PTL

\* A schedule without a total, as nobody's, is as good as its own.
LEMMA EmptySchedule ==
  ASSUME NEW s \in Schedules, vestingSchedule[s].total = 0, Anchored(s)
  PROVE  OwnSchedule(s)
  BY DEF Anchored, OwnSchedule, Announced, FreshAt

\* The steps of the handlers keep a schedule anchored to its row.
LEMMA AnchorStep ==
  ASSUME TypeInv, TypeInv', BuyerRows, [Next]_vars, NEW s \in Schedules, Anchored(s)
  PROVE  Anchored(s)'
<1>0. /\ ScheduleMove(s) /\ \A w \in Workers : SnapMove(w)
      /\ vestingSchedule[s] \in ScheduleRow /\ vestingSchedule'[s] \in ScheduleRow
      /\ \A w \in Workers : job[w].snap[s] \in ScheduleRow
  BY ScheduleMoves DEF TypeInv, TypeOK, Job
<1>1. s[1] \in Wallets /\ (presaleUser[s[1]].exists => presaleUser'[s[1]].exists)
  <2>1. s[1] \in Wallets
    BY DEF Schedules
  <2> QED
    BY <2>1, RowStep DEF BuyerRows
<1>2. AnnouncedMove(s) => vestingSchedule'[s].total # 0
  <2> SUFFICES ASSUME AnnouncedMove(s) PROVE vestingSchedule'[s].total # 0
    OBVIOUS
  <2>1. PICK e \in Events : vestingSchedule'[s].total = Log[e].tokens
    BY DEF AnnouncedMove
  <2>2. Log[e].tokens \in Nat /\ Log[e].tokens > 0
    BY LogType
  <2> QED
    BY <2>1, <2>2
<1>3. vestingSchedule[s].total # 0 => vestingSchedule'[s].total # 0
  BY <1>0, <1>2 DEF ScheduleMove, ClaimedMove
<1>4. vestingSchedule'[s].total = 0 => vestingSchedule'[s].claimed = 0
  <2>1. CASE AnnouncedMove(s)
    BY <1>2, <2>1
  <2>2. CASE ClaimedMove(s)
    <3> SUFFICES ASSUME vestingSchedule'[s].total = 0 PROVE vestingSchedule'[s].claimed = 0
      OBVIOUS
    <3>1. PICK w \in Workers : job[w].pc = "apply" /\ vestingSchedule'[s].claimed <= job[w].snap[s].total
      BY <2>2 DEF ClaimedMove
    <3>2. job[w].snap[s].total = 0
      BY <2>2, <3>1 DEF ClaimedMove, Anchored
    <3> QED
      BY <1>0, <3>1, <3>2 DEF ScheduleRow
  <2> QED
    BY <1>0, <2>1, <2>2 DEF ScheduleMove, Anchored
<1>5. vestingSchedule'[s].total # 0 => presaleUser'[s[1]].exists
  BY <1>0, <1>1 DEF ScheduleMove, AnnouncedMove, ClaimedMove, Anchored
<1>6. ASSUME NEW w \in Workers, job'[w].pc = "apply", job'[w].snap[s].total # 0
      PROVE  vestingSchedule'[s].total # 0
  <2>1. SnapMove(w)
    BY <1>0
  <2> QED
    BY <1>3, <1>6, <2>1 DEF SnapMove, Anchored
<1> QED
  BY <1>4, <1>5, <1>6 DEF Anchored

\* A schedule, its row and what handlers have seen of it change address together.
LEMMA RenameSchedules ==
  ASSUME BuyerTypes, BuyerSchedules, NEW a \in Wallets, NEW b \in Wallets, RenameBuyer(a, b),
         NEW s \in Schedules
  PROVE  Anchored(s)' /\ (s[1] \notin carried' => OwnSchedule(s)')
<1> DEFINE t == Moved(a, b, s)
<1>1. t \in Schedules /\ t[1] = Swap(a, b, s[1]) /\ s[1] \in Wallets
  BY Swaps DEF Schedules
<1>2. /\ vestingSchedule'[s] = vestingSchedule[t]
      /\ \A w \in Workers : job'[w].pc = job[w].pc /\ job'[w].snap[s] = job[w].snap[t]
      /\ presaleUser'[s[1]] = presaleUser[t[1]]
  <2>1. vestingSchedule'[s] = vestingSchedule[t]
    BY RenamedSchedules DEF BuyerTypes
  <2>2. \A w \in Workers : job'[w].pc = job[w].pc /\ job'[w].snap[s] = job[w].snap[t]
    BY RenamedSchedules DEF BuyerTypes
  <2>3. presaleUser'[s[1]] = presaleUser[t[1]]
    BY <1>1 DEF RenameBuyer
  <2> QED
    BY <2>1, <2>2, <2>3
<1>3. Anchored(t) /\ (t[1] \notin carried => OwnSchedule(t))
  BY <1>1 DEF BuyerSchedules
<1>4. Anchored(s)'
  BY <1>2, <1>3 DEF Anchored
<1>5. ASSUME s[1] \notin carried' PROVE OwnSchedule(s)'
  <2>1. s[1] # b /\ (s[1] # a => s[1] \notin carried)
    BY <1>5 DEF RenameBuyer
  <2>2. CASE s[1] = a
    <3>1. ~presaleUser[t[1]].exists
      BY <1>1, <2>2 DEF RenameBuyer, Swap
    <3>2. vestingSchedule'[s].total = 0
      BY <1>2, <1>3, <3>1 DEF Anchored
    <3> QED
      BY <1>4, <3>2 DEF Anchored, OwnSchedule, Announced, FreshAt
  <2>3. CASE s[1] # a
    <3>1. t = s
      <4>1. PICK x \in Wallets, i \in ScheduleIds : s = <<x, i>>
        BY DEF Schedules
      <4> QED
        BY <2>1, <2>3, <4>1 DEF Moved, Swap
    <3>2. OwnSchedule(s)
      BY <1>3, <2>1, <2>3, <3>1
    <3> HIDE DEF t
    <3> QED
      BY <1>2, <3>1, <3>2 DEF OwnSchedule, Announced, FreshAt, Announces, KindIs
  <2> QED
    BY <2>2, <2>3
<1> QED
  BY <1>4, <1>5

LEMMA BuyerStepSchedules ==
  BuyerTypes /\ BuyerTypes' /\ BuyerRows /\ BuyerSchedules /\ [BuyerNext]_allVars => BuyerSchedules'
<1> SUFFICES ASSUME BuyerTypes, BuyerTypes', BuyerRows, BuyerSchedules, [BuyerNext]_allVars,
                    NEW s \in Schedules
             PROVE  Anchored(s)' /\ (s[1] \notin carried' => OwnSchedule(s)')
  BY DEF BuyerSchedules
<1>0. Anchored(s) /\ (s[1] \notin carried => OwnSchedule(s)) /\ s[1] \in Wallets
  BY DEF BuyerSchedules, Schedules
<1>1. CASE (Next /\ UNCHANGED buyerVars) \/ UNCHANGED allVars
  <2>1. [Next]_vars /\ carried' = carried /\ TypeInv /\ TypeInv'
    BY <1>1 DEF allVars, buyerVars, BuyerTypes
  <2> QED
    BY <1>0, <2>1, AnchorStep, ScheduleStep
<1>2. ASSUME UNCHANGED <<vestingSchedule, job, carried>>,
             presaleUser[s[1]].exists => presaleUser'[s[1]].exists
      PROVE  Anchored(s)' /\ (s[1] \notin carried' => OwnSchedule(s)')
  BY <1>0, <1>2 DEF Anchored, OwnSchedule, Announced, FreshAt, Announces, KindIs
<1>3. ASSUME NEW wallet \in Wallets, EditBuyer(wallet)
      PROVE  Anchored(s)' /\ (s[1] \notin carried' => OwnSchedule(s)')
  <2>1. PICK entered \in UNION {[fields -> EditedAmounts] : fields \in (SUBSET Amounts) \ {{}}} :
          presaleUser' = [presaleUser EXCEPT ![wallet] =
            [x \in DOMAIN @ |-> IF x \in DOMAIN entered THEN entered[x] ELSE @[x]]]
    BY <1>3 DEF EditBuyer
  <2>2. "exists" \notin DOMAIN entered
    BY DEF Amounts
  <2>3. presaleUser \in [Wallets -> UserRow] /\ "exists" \in DOMAIN presaleUser[s[1]]
    BY <1>0 DEF BuyerTypes, TypeInv, TypeOK, UserRow
  <2>4. presaleUser'[s[1]].exists = presaleUser[s[1]].exists
    BY <1>0, <2>1, <2>2, <2>3
  <2>5. UNCHANGED <<vestingSchedule, job, carried>>
    BY <1>3 DEF EditBuyer
  <2> QED
    BY <1>2, <2>4, <2>5
<1>4. ASSUME NEW wallet \in Wallets, RemoveBuyer(wallet)
      PROVE  Anchored(s)' /\ (s[1] \notin carried' => OwnSchedule(s)')
  <2>1. UNCHANGED <<vestingSchedule, job>> /\ carried' = carried \ {wallet}
    BY <1>4 DEF RemoveBuyer
  <2>2. CASE s[1] = wallet
    <3>1. s \notin SchedulesOf(wallet)
      BY <1>4 DEF RemoveBuyer, Removable, Referred
    <3>2. vestingSchedule[s].total = 0
      BY <2>2, <3>1 DEF SchedulesOf, BuyerTypes, TypeInv, TypeOK, ScheduleRow
    <3>3. OwnSchedule(s)
      BY <1>0, <3>2, EmptySchedule
    <3> QED
      BY <1>0, <2>1, <3>2, <3>3 DEF Anchored, OwnSchedule, Announced, FreshAt, Announces, KindIs
  <2>3. CASE s[1] # wallet
    <3>1. presaleUser'[s[1]] = presaleUser[s[1]]
      BY <1>0, <1>4, <2>3 DEF RemoveBuyer, BuyerTypes, TypeInv, TypeOK
    <3> QED
      BY <1>0, <2>1, <2>3, <3>1 DEF Anchored, OwnSchedule, Announced, FreshAt, Announces, KindIs
  <2> QED
    BY <2>2, <2>3
<1>5. ASSUME NEW tx \in TxHashes, DeleteTransaction(tx)
      PROVE  Anchored(s)' /\ (s[1] \notin carried' => OwnSchedule(s)')
  BY <1>2, <1>5 DEF DeleteTransaction
<1> QED
  BY <1>1, <1>3, <1>4, <1>5, RenameSchedules DEF BuyerNext, Api

\* No schedule of a buyer whose row came from no other address is claimed beyond
\* its total, however buyers are renamed and removed in the middle of claims.
THEOREM OwnSchedulesAreNotOverclaimed == BuyerSpec => []OwnSchedulesNotOverclaimed
<1>1. BuyerInit => BuyerRows
  BY DEF BuyerInit, Init, BuyerRows, BlankOrThere, BalancesAgree, NoUser
<1>2. BuyerInit => BuyerSchedules
  BY BetweenIsGood DEF BuyerInit, Init, NoSchedules, BuyerSchedules, Anchored, OwnSchedule, Announced,
                       FreshAt
<1>3. BuyerSpec => []BuyerSchedules
  BY <1>1, <1>2, BuyerTypesHold, BuyerStepRows, BuyerStepSchedules, PTL DEF BuyerSpec
<1>4. BuyerSchedules => OwnSchedulesNotOverclaimed
  BY DEF BuyerSchedules, OwnSchedule, OwnSchedulesNotOverclaimed
<1> QED
  BY <1>3, <1>4, PTL

-----------------------------------------------------------------------------
(***************************************************************************)
(* The transactions on record, together with those the handlers in the     *)
(* middle of their writes have still to record                             *)
(***************************************************************************)

TypeFor(kind) == IF kind = "Bought" THEN "Buy" ELSE "Claim"

AmountOf(v, kind) == IF kind = "Bought" THEN presaleUser[v].purchased ELSE presaleUser[v].claimed

OnRecord(v, kind) ==
  [t \in TxHashes |->
     IF presaleTx[t].wallet = v /\ presaleTx[t].type = TypeFor(kind) THEN presaleTx[t].tokens ELSE 0]

OwedBy(j, v, kind) ==
  IF j.pc = "tx" /\ Log[j.event].wallet = v /\ KindIs(j.event, kind) THEN Log[j.event].tokens ELSE 0

Owed(v, kind) == [w \in Workers |-> OwedBy(job[w], v, kind)]

Backed(v, kind) ==
  SumFunctionOnSet(OnRecord(v, kind), TxHashes) + SumFunctionOnSet(Owed(v, kind), Workers)
    <= AmountOf(v, kind)

BuyerTransactions ==
  \A v \in Wallets \ (edited \cup pulled) : Backed(v, "Bought") /\ Backed(v, "Claimed")

PayKinds == {"Bought", "Claimed"}

LEMMA SumTypes ==
  ASSUME TypeInv, NEW v, NEW kind
  PROVE  /\ IsFiniteSet(TxHashes) /\ IsFiniteSet(Workers)
         /\ \A t \in TxHashes : OnRecord(v, kind)[t] \in Nat
         /\ \A w \in Workers : Owed(v, kind)[w] \in Nat
         /\ SumFunctionOnSet(OnRecord(v, kind), TxHashes) \in Nat
         /\ SumFunctionOnSet(Owed(v, kind), Workers) \in Nat
<1>1. IsFiniteSet(TxHashes) /\ IsFiniteSet(Workers)
  BY BuyerAssumption, FS_Singleton, FS_Union DEF Workers
<1>2. \A t \in TxHashes : OnRecord(v, kind)[t] \in Nat
  BY DEF OnRecord, TypeInv, TypeOK, TxRow, NoTx
<1>3. \A w \in Workers : Owed(v, kind)[w] \in Nat
  <2>1. ASSUME NEW w \in Workers, job[w].pc = "tx" PROVE Log[job[w].event].tokens \in Nat
    BY <2>1, LogType DEF TypeInv, GoodJob, Handling
  <2> QED
    BY <2>1 DEF Owed, OwedBy
<1> QED
  BY <1>1, <1>2, <1>3, SumType

LEMMA SumTypesNext ==
  ASSUME TypeInv', NEW v, NEW kind
  PROVE  /\ \A t \in TxHashes : OnRecord(v, kind)'[t] \in Nat
         /\ \A w \in Workers : Owed(v, kind)'[w] \in Nat
<1>1. (\A t \in TxHashes : OnRecord(v, kind)[t] \in Nat)'
  BY SumTypes, PTL
<1>2. (\A w \in Workers : Owed(v, kind)[w] \in Nat)'
  BY SumTypes, PTL
<1> QED
  BY <1>1, <1>2

\* A worker that is between its two writes was so before, or has just made the
\* first.
LEMMA TxMoves ==
  ASSUME TypeInv, [Next]_vars, NEW w \in Workers, job'[w].pc = "tx"
  PROVE  \/ job[w].pc = "tx" /\ job'[w].event = job[w].event
         \/ BuyUser(w) \/ ClaimUser(w) \/ VestingUser(w)
<1>1. ASSUME Handler(w) PROVE BuyUser(w) \/ ClaimUser(w) \/ VestingUser(w)
  <2>1. HandlerMove(w) /\ job[w] \in Job
    BY <1>1, HandlerMoves DEF TypeInv, TypeOK
  <2>2. job[w].pc = "user"
    BY <2>1 DEF HandlerMove, FirstWrite
  <2>3. ~Throw(w)
    BY Moves DEF Throw
  <2> QED
    BY <1>1, <2>2, <2>3 DEF Handler, Take, Refuse, Mark, RecordActivity, BuyTx, BuyCertificate,
                            ClaimTx, ClaimRead, ClaimSchedule, VestingUpsert, At
<1>2. CASE Crash
  BY <1>2, BetweenIsGood DEF Crash, Stopped
<1>3. CASE UNCHANGED vars \/ Emit \/ LoopScan \/ ResetEventState
           \/ (\E wallet \in Wallets : Login(wallet))
           \/ (\E u \in Requests : RequestScan(u)) \/ (\E u \in Workers : ScanDone(u))
  BY <1>3, ScanMoves DEF Handling
<1>4. ASSUME NEW u \in Workers, Handler(u), u # w PROVE job'[w] = job[w]
  BY <1>4, OthersUntouched
<1> QED
  BY <1>1, <1>2, <1>3, <1>4 DEF Next

\* The first write of a handler adds to the buyer's row what it then owes to
\* the transactions.
LEMMA UserStepBacked ==
  ASSUME TypeInv, TypeInv', NEW w \in Workers, BuyUser(w) \/ ClaimUser(w),
         NEW v \in Wallets, NEW kind \in PayKinds, Backed(v, kind)
  PROVE  Backed(v, kind)'
<1> DEFINE m == OwedBy(job'[w], v, kind)
<1>0. /\ presaleUser[v] \in UserRow /\ presaleUser \in [Wallets -> UserRow]
      /\ job[w].event \in Events /\ Event(w).wallet \in Wallets
      /\ Event(w).tokens \in Nat
  BY EventType DEF BuyUser, ClaimUser, At, Handling, TypeInv, TypeOK
<1>1. /\ job'[w].pc = "tx" /\ job'[w].event = job[w].event
      /\ \A u \in Workers \ {w} : job'[u] = job[u]
      /\ presaleTx' = presaleTx
  BY Moves, OthersUntouched DEF BuyUser, ClaimUser, Handler
<1>2. m = IF Event(w).wallet = v /\ Event(w).kind = kind THEN Event(w).tokens ELSE 0
  BY <1>1 DEF OwedBy, Event, KindIs
<1>3. AmountOf(v, kind)' = AmountOf(v, kind) + m
  <2>1. CASE BuyUser(w)
    BY <1>0, <1>2, <2>1 DEF BuyUser, At, AmountOf, UserRow, PayKinds
  <2>2. CASE ClaimUser(w)
    BY <1>0, <1>2, <2>2 DEF ClaimUser, At, AmountOf, UserRow, PayKinds
  <2> QED
    BY <2>1, <2>2
<1>4. PICK f : f = Owed(v, kind)'
  OBVIOUS
<1>5. \A u \in Workers : f[u] = OwedBy(job'[u], v, kind) /\ Owed(v, kind)[u] = OwedBy(job[u], v, kind)
  BY <1>4 DEF Owed, OwedBy, KindIs
<1>6. m \in Nat
  BY <1>0, <1>2
<1> HIDE DEF m
<1>7. \A u \in Workers : f[u] \in Nat
  <2>1. ASSUME NEW u \in Workers, u # w PROVE f[u] \in Nat
    BY <1>1, <1>5, <2>1, SumTypes
  <2> QED
    BY <1>5, <1>6, <2>1 DEF m
<1>8. SumFunctionOnSet(f, Workers) <= SumFunctionOnSet(Owed(v, kind), Workers) + m
  <2> DEFINE g == Owed(v, kind)
  <2>1. IsFiniteSet(Workers) /\ \A u \in Workers : g[u] \in Nat /\ f[u] \in Nat
    BY <1>7, SumTypes
  <2>2. \A u \in Workers \ {w} : f[u] = g[u]
    BY <1>1, <1>5
  <2>3. f[w] = m
    BY <1>5 DEF m
  <2> HIDE DEF g
  <2>4. (\A u \in Workers \ {w} : f[u] <= g[u]) /\ f[w] <= g[w] + m
    BY <1>6, <2>1, <2>2, <2>3
  <2>5. SumFunctionOnSet(f, Workers) <= SumFunctionOnSet(g, Workers) + m
    BY <1>6, <2>1, <2>4, SumGrowsByOne
  <2> QED
    BY <2>5 DEF g
<1>9. OnRecord(v, kind)' = OnRecord(v, kind)
  BY <1>1 DEF OnRecord, TypeFor
<1>10. SumFunctionOnSet(f, Workers) \in Nat
  BY <1>7, SumTypes, SumType
<1>11. AmountOf(v, kind) \in Nat
  BY <1>0 DEF AmountOf, UserRow
<1> QED
  BY <1>3, <1>4, <1>6, <1>8, <1>9, <1>10, <1>11, SumTypes DEF Backed

\* The second write puts on record what was owed, in the place of what the
\* transaction showed before.
LEMMA TxStepBacked ==
  ASSUME TypeInv, TypeInv', NEW w \in Workers, BuyTx(w) \/ ClaimTx(w),
         NEW v \in Wallets, NEW kind \in PayKinds, Backed(v, kind)
  PROVE  Backed(v, kind)'
<1> DEFINE m == OwedBy(job[w], v, kind)
<1>0. /\ job[w].pc = "tx" /\ job[w].event \in Events /\ Event(w).tx \in TxHashes
      /\ presaleTx \in [TxHashes -> TxRow]
  BY EventType DEF BuyTx, ClaimTx, At, Handling, TypeInv, TypeOK
<1>1. /\ job'[w].pc = "activity" /\ \A u \in Workers \ {w} : job'[u] = job[u]
      /\ presaleUser' = presaleUser
  BY Moves, OthersUntouched DEF BuyTx, ClaimTx, Handler
<1>2. PICK r, f : r = OnRecord(v, kind)' /\ f = Owed(v, kind)'
  OBVIOUS
<1>3. /\ \A t \in TxHashes : r[t] \in Nat
      /\ \A u \in Workers : f[u] \in Nat
      /\ SumFunctionOnSet(r, TxHashes) \in Nat /\ SumFunctionOnSet(f, Workers) \in Nat
  <2>1. (\A t \in TxHashes : r[t] \in Nat) /\ (\A u \in Workers : f[u] \in Nat)
    BY <1>2, SumTypesNext
  <2> QED
    BY <2>1, SumTypes, SumType
<1>4. m \in Nat /\ m = Owed(v, kind)[w]
  BY SumTypes DEF Owed
<1>5. /\ \A t \in TxHashes \ {Event(w).tx} : r[t] = OnRecord(v, kind)[t]
      /\ r[Event(w).tx] = m
  <2>1. \E type \in {"Buy", "Claim"} :
          /\ presaleTx' = [presaleTx EXCEPT ![Event(w).tx] =
               [type |-> type, wallet |-> Event(w).wallet, tokens |-> Event(w).tokens]]
          /\ type = TypeFor(kind) <=> Event(w).kind = kind
    BY DEF BuyTx, ClaimTx, At, TypeFor, PayKinds
  <2>2. PICK type : presaleTx' = [presaleTx EXCEPT ![Event(w).tx] =
                      [type |-> type, wallet |-> Event(w).wallet, tokens |-> Event(w).tokens]]
                    /\ (type = TypeFor(kind) <=> Event(w).kind = kind)
    BY <2>1
  <2>3. \A t \in TxHashes :
          r[t] = IF presaleTx'[t].wallet = v /\ presaleTx'[t].type = TypeFor(kind)
                 THEN presaleTx'[t].tokens ELSE 0
    BY <1>2 DEF OnRecord, TypeFor
  <2> QED
    BY <1>0, <2>2, <2>3 DEF OnRecord, OwedBy, Event, KindIs
<1>6. f[w] = 0 /\ \A u \in Workers \ {w} : f[u] = Owed(v, kind)[u]
  BY <1>1, <1>2 DEF Owed, OwedBy, KindIs
<1> HIDE DEF m
<1>7. SumFunctionOnSet(r, TxHashes) <= SumFunctionOnSet(OnRecord(v, kind), TxHashes) + m
  <2> DEFINE g == OnRecord(v, kind)
             a == Event(w).tx
  <2>1. IsFiniteSet(TxHashes) /\ a \in TxHashes /\ \A t \in TxHashes : g[t] \in Nat /\ r[t] \in Nat
    BY <1>0, <1>3, SumTypes
  <2>2. (\A t \in TxHashes \ {a} : r[t] = g[t]) /\ r[a] = m
    BY <1>5
  <2> HIDE DEF g, a
  <2>3. (\A t \in TxHashes \ {a} : r[t] <= g[t]) /\ r[a] <= g[a] + m
    BY <1>4, <2>1, <2>2
  <2>4. SumFunctionOnSet(r, TxHashes) <= SumFunctionOnSet(g, TxHashes) + m
    BY <1>4, <2>1, <2>3, SumGrowsByOne
  <2> QED
    BY <2>4 DEF g
<1>8. SumFunctionOnSet(f, Workers) + m <= SumFunctionOnSet(Owed(v, kind), Workers)
  <2> DEFINE g == Owed(v, kind)
  <2>1. IsFiniteSet(Workers) /\ \A u \in Workers : g[u] \in Nat /\ f[u] \in Nat
    BY <1>3, SumTypes
  <2>2. (\A u \in Workers \ {w} : f[u] = g[u]) /\ f[w] = 0 /\ m = g[w]
    BY <1>4, <1>6
  <2> HIDE DEF g
  <2>3. (\A u \in Workers \ {w} : f[u] <= g[u]) /\ f[w] + m <= g[w]
    BY <1>4, <2>1, <2>2
  <2>4. SumFunctionOnSet(f, Workers) + m <= SumFunctionOnSet(g, Workers)
    BY <1>4, <2>1, <2>3, SumFallsByOne
  <2> QED
    BY <2>4 DEF g
<1>9. AmountOf(v, kind)' = AmountOf(v, kind) /\ AmountOf(v, kind) \in Nat
  BY <1>1 DEF AmountOf, TypeInv, TypeOK, UserRow
<1> QED
  BY <1>2, <1>3, <1>4, <1>7, <1>8, <1>9, SumTypes DEF Backed

\* A row that keeps its amounts, with no more on record or owed, is still backed.
LEMMA StillBacked ==
  ASSUME TypeInv, TypeInv', NEW v \in Wallets, NEW u \in Wallets, NEW kind \in PayKinds,
         Backed(u, kind), AmountOf(v, kind)' = AmountOf(u, kind),
         \A t \in TxHashes : OnRecord(v, kind)'[t] <= OnRecord(u, kind)[t],
         \A w \in Workers : OwedBy(job'[w], v, kind) <= OwedBy(job[w], u, kind)
  PROVE  Backed(v, kind)'
<1>1. PICK r, f : r = OnRecord(v, kind)' /\ f = Owed(v, kind)'
  OBVIOUS
<1>2. (\A t \in TxHashes : r[t] \in Nat) /\ (\A w \in Workers : f[w] \in Nat)
  BY <1>1, SumTypesNext
<1> DEFINE g == OnRecord(u, kind)
           h == Owed(u, kind)
<1>3. /\ IsFiniteSet(TxHashes) /\ IsFiniteSet(Workers)
      /\ \A t \in TxHashes : r[t] \in Nat /\ g[t] \in Nat /\ r[t] <= g[t]
      /\ \A w \in Workers : f[w] \in Nat /\ h[w] \in Nat /\ f[w] <= h[w]
  <2>1. \A w \in Workers : f[w] = OwedBy(job'[w], v, kind) /\ h[w] = OwedBy(job[w], u, kind)
    BY <1>1 DEF Owed, OwedBy, KindIs
  <2> QED
    BY <1>1, <1>2, <2>1, SumTypes
<1>4. SumFunctionOnSet(g, TxHashes) \in Nat /\ SumFunctionOnSet(h, Workers) \in Nat
      /\ SumFunctionOnSet(g, TxHashes) + SumFunctionOnSet(h, Workers) <= AmountOf(u, kind)
  BY SumTypes DEF Backed
<1> HIDE DEF g, h
<1>5. SumFunctionOnSet(r, TxHashes) <= SumFunctionOnSet(g, TxHashes)
  BY <1>3, SumsCompare
<1>6. SumFunctionOnSet(f, Workers) <= SumFunctionOnSet(h, Workers)
  BY <1>3, SumsCompare
<1>7. SumFunctionOnSet(r, TxHashes) \in Nat /\ SumFunctionOnSet(f, Workers) \in Nat
  BY <1>3, SumType
<1>8. AmountOf(u, kind) \in Nat
  BY DEF AmountOf, TypeInv, TypeOK, UserRow
<1>9. SumFunctionOnSet(r, TxHashes) + SumFunctionOnSet(f, Workers) <= AmountOf(u, kind)
  BY <1>4, <1>5, <1>6, <1>7, <1>8
<1> QED
  BY <1>1, <1>9 DEF Backed

\* The steps of the program without the API.
LEMMA HandlersBacked ==
  ASSUME TypeInv, TypeInv', [Next]_vars, NEW v \in Wallets, NEW kind \in PayKinds, Backed(v, kind)
  PROVE  Backed(v, kind)'
<1>1. CASE \E w \in Workers : BuyUser(w) \/ ClaimUser(w)
  BY <1>1, UserStepBacked
<1>2. CASE \E w \in Workers : BuyTx(w) \/ ClaimTx(w)
  BY <1>2, TxStepBacked
<1>3. CASE ~\E w \in Workers : BuyUser(w) \/ ClaimUser(w) \/ BuyTx(w) \/ ClaimTx(w)
  <2>1. presaleTx' = presaleTx
    <3>1. ASSUME NEW w \in Workers, Handler(w) PROVE presaleTx' = presaleTx
      BY <1>3, <3>1 DEF Handler, Take, Throw, Refuse, Mark, RecordActivity, BuyCertificate, ClaimRead,
                        ClaimSchedule, VestingUser, VestingUpsert, ledger
    <3> QED
      BY <3>1 DEF Next, vars, Emit, LoopScan, ResetEventState, Crash, Login, RequestScan, ScanDone,
                  ledger
  <2>2. AmountOf(v, kind)' = AmountOf(v, kind)
    <3>1. CASE (\E w \in Workers : VestingUser(w)) \/ (\E wallet \in Wallets : Login(wallet))
      <4>1. \E a \in Wallets : presaleUser' = [presaleUser EXCEPT ![a].exists = TRUE]
        BY <3>1, EventType DEF VestingUser, Login, At, Handling
      <4>2. /\ presaleUser'[v].purchased = presaleUser[v].purchased
            /\ presaleUser'[v].claimed = presaleUser[v].claimed
        BY <4>1 DEF TypeInv, TypeOK, UserRow
      <4> QED
        BY <4>2 DEF AmountOf
    <3>2. CASE ~((\E w \in Workers : VestingUser(w)) \/ (\E wallet \in Wallets : Login(wallet)))
      <4>1. presaleUser' = presaleUser
        BY <1>3, <3>2, RowsUntouched
      <4> QED
        BY <4>1 DEF AmountOf
    <3> QED
      BY <3>1, <3>2
  <2>3. ASSUME NEW w \in Workers PROVE OwedBy(job'[w], v, kind) <= OwedBy(job[w], v, kind)
    <3>1. OwedBy(job[w], v, kind) \in Nat /\ OwedBy(job[w], v, kind) <= OwedBy(job[w], v, kind)
      <4>1. OwedBy(job[w], v, kind) \in Nat
        BY SumTypes DEF Owed
      <4> QED
        BY <4>1
    <3>2. CASE job'[w].pc # "tx"
      BY <3>1, <3>2 DEF OwedBy
    <3>3. CASE job[w].pc = "tx" /\ job'[w].pc = "tx" /\ job'[w].event = job[w].event
      BY <3>1, <3>3 DEF OwedBy
    <3>4. CASE VestingUser(w)
      <4>1. job'[w].event = job[w].event /\ ~KindIs(job[w].event, kind)
        BY <3>4, Moves DEF VestingUser, At, Event, KindIs, PayKinds
      <4> QED
        BY <3>1, <4>1 DEF OwedBy
    <3> QED
      BY <1>3, <3>2, <3>3, <3>4, TxMoves
  <2>4. \A t \in TxHashes : OnRecord(v, kind)'[t] <= OnRecord(v, kind)[t]
    <3>1. OnRecord(v, kind)' = OnRecord(v, kind)
      BY <2>1 DEF OnRecord, TypeFor
    <3> QED
      BY <3>1, SumTypes
  <2> QED
    BY <2>2, <2>3, <2>4, StillBacked
<1> QED
  BY <1>1, <1>2, <1>3

\* A wallet no handler is in the middle of is owed nothing.
LEMMA NothingOwed ==
  ASSUME NEW v, ~BetweenWrites(v), NEW kind, NEW w \in Workers
  PROVE  OwedBy(job[w], v, kind) = 0
  BY DEF BetweenWrites, OwedBy, Event

LEMMA RenameBacked ==
  ASSUME BuyerTypes, BuyerTypes', BuyerTransactions, NEW a \in Wallets, NEW b \in Wallets,
         RenameBuyer(a, b), NEW v \in Wallets \ (edited' \cup pulled'), NEW kind \in PayKinds
  PROVE  Backed(v, kind)'
<1>1. PICK u \in Wallets : u = Swap(a, b, v) /\ v = Swap(a, b, u)
  BY Swaps
<1>2. u \notin edited \cup pulled
  BY <1>1 DEF RenameBuyer
<1>3. Backed(u, kind)
  BY <1>2 DEF BuyerTransactions, PayKinds
<1>4. AmountOf(v, kind)' = AmountOf(u, kind)
  BY <1>1 DEF RenameBuyer, AmountOf
<1>5. TypeInv /\ TypeInv'
  BY DEF BuyerTypes
<1>6. ASSUME NEW t \in TxHashes PROVE OnRecord(v, kind)'[t] <= OnRecord(u, kind)[t]
  <2>1. presaleTx'[t] = CarriedOver(a, b, presaleTx[t]) /\ presaleTx[t] \in TxRow
    BY <1>5 DEF RenameBuyer, TypeInv, TypeOK
  <2>2. /\ presaleTx'[t].wallet = Swap(a, b, presaleTx[t].wallet)
        /\ presaleTx'[t].type = presaleTx[t].type /\ presaleTx'[t].tokens = presaleTx[t].tokens
    BY <2>1 DEF CarriedOver, TxRow, NoTx
  <2>3. presaleTx'[t].wallet = v <=> presaleTx[t].wallet = u
    BY <1>1, <2>2, Swaps
  <2>4. OnRecord(v, kind)'[t] = OnRecord(u, kind)[t]
    BY <2>2, <2>3 DEF OnRecord, TypeFor
  <2>5. OnRecord(u, kind)[t] \in Nat
    BY <1>5, SumTypes
  <2> QED
    BY <2>4, <2>5
<1>7. ASSUME NEW w \in Workers PROVE OwedBy(job'[w], v, kind) <= OwedBy(job[w], u, kind)
  <2>1. OwedBy(job[w], u, kind) \in Nat
    BY <1>5, SumTypes DEF Owed
  <2>2. job'[w].pc = job[w].pc /\ job'[w].event = job[w].event
    BY <1>5, RenamedSchedules
  <2>3. OwedBy(job'[w], v, kind) = OwedBy(job[w], v, kind)
    BY <2>2 DEF OwedBy
  <2>4. CASE v \in {a, b}
    <3>1. ~BetweenWrites(v)
      BY <2>4 DEF RenameBuyer, Interrupted
    <3> QED
      BY <2>1, <2>3, <3>1, NothingOwed
  <2>5. CASE v \notin {a, b}
    <3>1. u = v
      BY <1>1, <2>5 DEF Swap
    <3> QED
      BY <2>1, <2>3, <3>1
  <2> QED
    BY <2>4, <2>5
<1> QED
  BY <1>3, <1>4, <1>5, <1>6, <1>7, StillBacked

LEMMA RemoveBacked ==
  ASSUME BuyerTypes, BuyerTypes', BuyerTransactions, NEW wallet \in Wallets,
         RemoveBuyer(wallet), NEW v \in Wallets \ (edited' \cup pulled'), NEW kind \in PayKinds
  PROVE  Backed(v, kind)'
<1>0. /\ UNCHANGED <<presaleTx, job>> /\ edited' = edited \ {wallet} /\ pulled \subseteq pulled'
      /\ presaleUser' = [presaleUser EXCEPT ![wallet] = NoUser]
      /\ presaleUser \in [Wallets -> UserRow] /\ TypeInv /\ TypeInv'
  BY DEF RemoveBuyer, BuyerTypes, TypeInv, TypeOK
<1>1. CASE v # wallet
  <2>1. Backed(v, kind)
    BY <1>0, <1>1 DEF BuyerTransactions, PayKinds
  <2>2. presaleUser'[v] = presaleUser[v]
    BY <1>0, <1>1
  <2> QED
    BY <1>0, <2>1, <2>2 DEF Backed, OnRecord, TypeFor, Owed, OwedBy, KindIs, AmountOf
<1>2. CASE v = wallet
  <2>1. PICK r, f : r = OnRecord(v, kind)' /\ f = Owed(v, kind)'
    OBVIOUS
  <2>2. \A t \in TxHashes : presaleTx[t].wallet # v
    BY <1>2 DEF RemoveBuyer, Removable, Referred, TxsOf
  <2>3. \A t \in TxHashes : r[t] = 0
    BY <1>0, <2>1, <2>2 DEF OnRecord
  <2>4. ~BetweenWrites(v)
    BY <1>2 DEF RemoveBuyer, Interrupted
  <2>5. \A w \in Workers : f[w] = 0
    <3>1. \A w \in Workers : f[w] = OwedBy(job[w], v, kind)
      BY <1>0, <2>1 DEF Owed, OwedBy, KindIs
    <3> QED
      BY <2>4, <3>1, NothingOwed
  <2>6. SumFunctionOnSet(r, TxHashes) = 0
    <3>1. SumFunctionOnSet(r, {}) = SumFunctionOnSet(r, TxHashes)
      BY <1>0, <2>3, SumTypes, SumOverSubset
    <3> QED
      BY <3>1, SumOfNothing
  <2>7. SumFunctionOnSet(f, Workers) = 0
    <3>1. SumFunctionOnSet(f, {}) = SumFunctionOnSet(f, Workers)
      BY <1>0, <2>5, SumTypes, SumOverSubset
    <3> QED
      BY <3>1, SumOfNothing
  <2>8. AmountOf(v, kind)' = 0
    BY <1>0, <1>2 DEF AmountOf, NoUser
  <2> QED
    BY <2>1, <2>6, <2>7, <2>8 DEF Backed
<1> QED
  BY <1>1, <1>2

LEMMA BuyerStepTransactions ==
  BuyerTypes /\ BuyerTypes' /\ BuyerTransactions /\ [BuyerNext]_allVars => BuyerTransactions'
<1> SUFFICES ASSUME BuyerTypes, BuyerTypes', BuyerTransactions, [BuyerNext]_allVars,
                    NEW v \in Wallets \ (edited' \cup pulled'), NEW kind \in PayKinds
             PROVE  Backed(v, kind)'
  BY DEF BuyerTransactions, PayKinds
<1>0. TypeInv /\ TypeInv'
  BY DEF BuyerTypes
<1>1. CASE (Next /\ UNCHANGED buyerVars) \/ UNCHANGED allVars
  <2>1. [Next]_vars /\ edited' = edited /\ pulled' = pulled
    BY <1>1 DEF allVars, buyerVars
  <2>2. Backed(v, kind)
    BY <2>1 DEF BuyerTransactions, PayKinds
  <2> QED
    BY <1>0, <2>1, <2>2, HandlersBacked
<1>2. ASSUME NEW wallet \in Wallets, EditBuyer(wallet) PROVE Backed(v, kind)'
  <2>1. UNCHANGED <<presaleTx, job, pulled>> /\ edited' = edited \cup {wallet}
    BY <1>2 DEF EditBuyer
  <2>2. Backed(v, kind)
    BY <2>1 DEF BuyerTransactions, PayKinds
  <2>3. presaleUser'[v] = presaleUser[v]
    BY <1>0, <1>2, <2>1 DEF EditBuyer, TypeInv, TypeOK
  <2> QED
    BY <2>1, <2>2, <2>3 DEF Backed, OnRecord, TypeFor, Owed, OwedBy, KindIs, AmountOf
<1>3. ASSUME NEW tx \in TxHashes, DeleteTransaction(tx) PROVE Backed(v, kind)'
  <2>1. UNCHANGED <<presaleUser, job, edited, pulled>>
    BY <1>3 DEF DeleteTransaction
  <2>2. Backed(v, kind)
    BY <2>1 DEF BuyerTransactions, PayKinds
  <2>3. AmountOf(v, kind)' = AmountOf(v, kind)
    BY <2>1 DEF AmountOf
  <2>4. ASSUME NEW t \in TxHashes PROVE OnRecord(v, kind)'[t] <= OnRecord(v, kind)[t]
    <3>1. OnRecord(v, kind)[t] \in Nat
      BY <1>0, SumTypes
    <3>2. presaleTx'[t] = presaleTx[t] \/ presaleTx'[t] = NoTx
      BY <1>0, <1>3 DEF DeleteTransaction, TypeInv, TypeOK
    <3>3. OnRecord(v, kind)'[t] = OnRecord(v, kind)[t] \/ OnRecord(v, kind)'[t] = 0
      BY <3>2 DEF OnRecord, TypeFor, NoTx
    <3> QED
      BY <3>1, <3>3
  <2>5. ASSUME NEW w \in Workers PROVE OwedBy(job'[w], v, kind) <= OwedBy(job[w], v, kind)
    <3>1. OwedBy(job[w], v, kind) \in Nat
      BY <1>0, SumTypes DEF Owed
    <3>2. OwedBy(job'[w], v, kind) = OwedBy(job[w], v, kind)
      BY <2>1
    <3> QED
      BY <3>1, <3>2
  <2> QED
    BY <1>0, <2>2, <2>3, <2>4, <2>5, StillBacked
<1> QED
  BY <1>1, <1>2, <1>3, RenameBacked, RemoveBacked DEF BuyerNext, Api

\* Recorded, a sum over some transactions, is OnRecord's sum over all of them.
LEMMA RecordedIs ==
  ASSUME TypeInv, NEW v \in Wallets, NEW kind \in PayKinds
  PROVE  Recorded(v, TypeFor(kind)) = SumFunctionOnSet(OnRecord(v, kind), TxHashes)
<1> DEFINE f == [t \in TxHashes |-> presaleTx[t].tokens]
           A == {t \in TxsOf(v) : presaleTx[t].type = TypeFor(kind)}
           z == OnRecord(v, kind)
<1>1. IsFiniteSet(TxHashes) /\ A \in SUBSET TxHashes
  BY BuyerAssumption DEF TxsOf
<1>2. \A t \in TxHashes : f[t] \in Nat
  BY DEF TypeInv, TypeOK, TxRow, NoTx
<1>3. \A t \in TxHashes : z[t] = IF t \in A THEN f[t] ELSE 0
  BY DEF OnRecord, TxsOf
<1>4. Recorded(v, TypeFor(kind)) = SumFunctionOnSet(f, A)
  BY DEF Recorded
<1> HIDE DEF f, A, z
<1>5. SumFunctionOnSet(f, A) = SumFunctionOnSet(z, TxHashes)
  BY <1>1, <1>2, <1>3, SumOverSubset
<1> QED
  BY <1>4, <1>5 DEF z

\* The transactions on record never show a buyer, whose balances nobody entered
\* by hand, more than the buyer's row: for any interleaving of handlers with
\* edits, renamings, removals and deletions, and any faults and redeliveries.
THEOREM RecordsAreBacked == BuyerSpec => []TransactionsBackedByBalances
<1>1. BuyerTypes /\ BuyerInit => BuyerTransactions
  <2> SUFFICES ASSUME BuyerTypes, BuyerInit, NEW v \in Wallets, NEW kind \in PayKinds
               PROVE  Backed(v, kind)
    BY DEF BuyerTransactions, PayKinds
  <2> DEFINE r == OnRecord(v, kind)
             f == Owed(v, kind)
  <2>1. \A t \in TxHashes : r[t] = 0
    BY DEF OnRecord, BuyerInit, Init, NoTx
  <2>2. \A w \in Workers : f[w] = 0
    BY BetweenIsGood DEF Owed, OwedBy, BuyerInit, Init
  <2>3. /\ IsFiniteSet(TxHashes) /\ IsFiniteSet(Workers)
        /\ (\A t \in TxHashes : r[t] \in Nat) /\ (\A w \in Workers : f[w] \in Nat)
    BY SumTypes DEF BuyerTypes
  <2>4. AmountOf(v, kind) = 0
    BY DEF AmountOf, BuyerInit, Init, NoUser
  <2> HIDE DEF r, f
  <2>5. SumFunctionOnSet(r, {}) = SumFunctionOnSet(r, TxHashes)
    BY <2>1, <2>3, SumOverSubset
  <2>6. SumFunctionOnSet(f, {}) = SumFunctionOnSet(f, Workers)
    BY <2>2, <2>3, SumOverSubset
  <2> QED
    BY <2>4, <2>5, <2>6, SumOfNothing DEF Backed, r, f
<1>2. BuyerSpec => []BuyerTransactions
  BY <1>1, BuyerTypesHold, BuyerStepTransactions, PTL DEF BuyerSpec
<1>3. BuyerTypes /\ BuyerTransactions => TransactionsBackedByBalances
  <2> SUFFICES ASSUME BuyerTypes, BuyerTransactions, NEW v \in Wallets \ (edited \cup pulled)
               PROVE  /\ Recorded(v, "Buy") <= presaleUser[v].purchased
                      /\ Recorded(v, "Claim") <= presaleUser[v].claimed
    BY DEF TransactionsBackedByBalances
  <2>1. Backed(v, "Bought") /\ Backed(v, "Claimed") /\ presaleUser[v] \in UserRow /\ TypeInv
    BY DEF BuyerTransactions, BuyerTypes, TypeInv, TypeOK
  <2>2. ASSUME NEW kind \in PayKinds, Backed(v, kind)
        PROVE  Recorded(v, TypeFor(kind)) <= AmountOf(v, kind)
    <3>1. /\ Recorded(v, TypeFor(kind)) = SumFunctionOnSet(OnRecord(v, kind), TxHashes)
          /\ SumFunctionOnSet(OnRecord(v, kind), TxHashes) \in Nat
          /\ SumFunctionOnSet(Owed(v, kind), Workers) \in Nat
      BY <2>1, SumTypes, RecordedIs
    <3>2. AmountOf(v, kind) \in Nat
      BY <2>1 DEF AmountOf, UserRow
    <3> QED
      BY <2>2, <3>1, <3>2 DEF Backed
  <2> QED
    BY <2>1, <2>2 DEF PayKinds, TypeFor, AmountOf
<1> QED
  BY <1>2, <1>3, BuyerTypesHold, PTL
=============================================================================
