---------------------------- MODULE BuyerRecords ----------------------------
(***************************************************************************)
(* The HTTP API's writes to the tables the handlers fill: a buyer's row is *)
(* edited, renamed or removed (UserService, routes under /user), a         *)
(* transaction is deleted (TransactionsService).  They take effect between *)
(* any two writes of a handler.  POST /user creates no row: it demands a   *)
(* field (referrals) the table does not have.                              *)
(*                                                                         *)
(* Transactions and schedules refer to the buyer's row by its wallet       *)
(* address: the database restricts the removal of a row something refers   *)
(* to, and a changed address is carried over to what refers to it.         *)
(***************************************************************************)
EXTENDS PresaleHandlers

CONSTANTS
  EditedAmounts,  \* bound: amounts an edit may enter
  MaxEdits        \* bound: writes through the API

\* An address is hexadecimal, so that no buyer's is the one of NoTx.
ASSUME BuyerAssumption ==
  /\ EditedAmounts \subseteq Nat
  /\ MaxEdits \in Nat
  /\ "none" \notin Wallets
  /\ IsFiniteSet(TxHashes)
  /\ IsFiniteSet(Requests)

VARIABLES
  edits,     \* how much of MaxEdits is used up
  edited,    \* history: wallets whose balances were entered by hand
  pulled,    \* history: wallets whose row took the place of one that went away
             \* in the middle of a handler
  carried    \* history: wallets whose row came from another address

buyerVars == <<edits, edited, pulled, carried>>
allVars   == <<vars, buyerVars>>

TxsOf(wallet)       == {t \in TxHashes : presaleTx[t].wallet = wallet}
SchedulesOf(wallet) == {s \in Schedules : s[1] = wallet /\ vestingSchedule[s].total > 0}
Referred(wallet)    == TxsOf(wallet) # {} \/ SchedulesOf(wallet) # {}

\* A handler has written this wallet's row and has still to write what refers
\* to it.
BetweenWrites(wallet) == \E w \in Workers : job[w].pc = "tx" /\ Event(w).wallet = wallet

Interrupted(wallets) == {wallet \in wallets : BetweenWrites(wallet)}

Edit == edits < MaxEdits /\ edits' = edits + 1

-----------------------------------------------------------------------------
Amounts == {"purchased", "claimed", "unclaimed"}

\* update and updateByWalletAddress: any of the amounts are set, not added to.
EditBuyer(wallet) ==
  /\ Edit
  /\ presaleUser[wallet].exists
  /\ \E entered \in UNION {[fields -> EditedAmounts] : fields \in (SUBSET Amounts) \ {{}}} :
       presaleUser' = [presaleUser EXCEPT ![wallet] =
         [a \in DOMAIN @ |-> IF a \in DOMAIN entered THEN entered[a] ELSE @[a]]]
  /\ edited' = edited \cup {wallet}
  /\ UNCHANGED <<emitted, cursor, presaleTx, vestingSchedule, recentActivity, counted,
                 claimCreated, listenerState, job, dropped, resets, faults, pulled, carried>>

Swap(w, v, x) == IF x = w THEN v ELSE IF x = v THEN w ELSE x

CarriedOver(w, v, row) == [row EXCEPT !.wallet = Swap(w, v, @)]

\* The same with a new address, which no row has.  Rows that refer to the old
\* one follow; a handler in the middle of its schedules knows them by id.
RenameBuyer(wallet, new) ==
  LET To(s) == <<Swap(wallet, new, s[1]), s[2]>> IN
  /\ Edit
  /\ presaleUser[wallet].exists
  /\ ~presaleUser[new].exists
  /\ presaleUser' = [x \in Wallets |-> presaleUser[Swap(wallet, new, x)]]
  /\ presaleTx' = [t \in TxHashes |-> CarriedOver(wallet, new, presaleTx[t])]
  /\ vestingSchedule' = [s \in Schedules |-> vestingSchedule[To(s)]]
  /\ job' = [w \in Workers |->
              [job[w] EXCEPT !.snap = [s \in Schedules |-> job[w].snap[To(s)]],
                             !.left = {To(s) : s \in @}]]
  /\ claimCreated' = {Swap(wallet, new, x) : x \in claimCreated}
  /\ edited' = {Swap(wallet, new, x) : x \in edited}
  /\ pulled' = {Swap(wallet, new, x) : x \in pulled} \cup Interrupted({wallet, new})
  /\ carried' = (carried \ {wallet}) \cup {new}
  /\ UNCHANGED <<emitted, cursor, recentActivity, counted,
                 listenerState, dropped, resets, faults>>

AnyRow(wallet)    == TRUE
Removable(wallet) == ~Referred(wallet)

\* remove: refused, and answered "not found", while something refers to the row.
RemoveBuyer(wallet) ==
  /\ Edit
  /\ presaleUser[wallet].exists
  /\ Removable(wallet)
  /\ presaleUser' = [presaleUser EXCEPT ![wallet] = NoUser]
  /\ edited' = edited \ {wallet}
  /\ pulled' = pulled \cup Interrupted({wallet})
  /\ carried' = carried \ {wallet}
  /\ UNCHANGED <<emitted, cursor, presaleTx, vestingSchedule, recentActivity, counted,
                 claimCreated, listenerState, job, dropped, resets, faults>>

DeleteTransaction(tx) ==
  /\ Edit
  /\ presaleTx[tx] # NoTx
  /\ presaleTx' = [presaleTx EXCEPT ![tx] = NoTx]
  /\ UNCHANGED <<emitted, cursor, presaleUser, vestingSchedule, recentActivity, counted,
                 claimCreated, listenerState, job, dropped, resets, faults, edited, pulled, carried>>

Api ==
  \/ \E wallet \in Wallets :
       \/ EditBuyer(wallet) \/ RemoveBuyer(wallet)
       \/ \E new \in Wallets : RenameBuyer(wallet, new)
  \/ \E tx \in TxHashes : DeleteTransaction(tx)

BuyerInit ==
  /\ Init
  /\ edits = 0
  /\ edited = {}
  /\ pulled = {}
  /\ carried = {}

BuyerNext ==
  \/ Next /\ UNCHANGED buyerVars
  \/ Api

BuyerSpec == BuyerInit /\ [][BuyerNext]_allVars

-----------------------------------------------------------------------------
(***************************************************************************)
(* Properties                                                              *)
(***************************************************************************)

Recorded(wallet, type) ==
  SumFunctionOnSet([t \in TxHashes |-> presaleTx[t].tokens],
                   {t \in TxsOf(wallet) : presaleTx[t].type = type})

\* The transactions on record never show a buyer more tokens bought or claimed
\* than the buyer's row has: the handlers write the row first, an event that
\* is handled again adds to the row and not to the transactions, purchases of
\* one transaction share its row, and no buyer with transactions can be removed.
\* Not so once the balances were entered by hand, or the row was removed or
\* renamed between a handler's two writes and is there again for the second.
TransactionsBackedByBalances ==
  \A w \in Wallets \ (edited \cup pulled) :
    /\ Recorded(w, "Buy") <= presaleUser[w].purchased
    /\ Recorded(w, "Claim") <= presaleUser[w].claimed

\* A row nobody edited keeps its balances in agreement, whatever is renamed or
\* removed between a handler's reads and writes.
UneditedBalancesAgree == \A w \in Wallets \ edited : BalancesAgree(w)

\* No claim takes more out of a schedule than it holds, although buyers are
\* renamed and removed between a handler's read of the schedules and its writes.
\* Not so for a row that was carried over to another address: the contract may
\* announce a schedule of its own for that address, which overwrites the total.
OwnSchedulesNotOverclaimed ==
  \A s \in Schedules : s[1] \notin carried => vestingSchedule[s].claimed <= vestingSchedule[s].total
=============================================================================
