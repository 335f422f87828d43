-------------------------- MODULE ReferenceNumbers --------------------------
(***************************************************************************)
(* Bank transfers and private sale submissions: two tables whose rows get  *)
(* a reference number (BT-YYYY-001, PSS-YYYY-001), are reviewed and may be *)
(* removed.  Every request looks the row up first and writes by the row's  *)
(* own id.  One year is modelled: the numbers of the next one start again  *)
(* at 1.                                                                   *)
(***************************************************************************)
EXTENDS Integers, FiniteSets

CONSTANTS
  Tables,        \* "BT" and "PSS"
  DeskRequests,  \* requests that may be in progress at once
  Reviewers,     \* whom AdminGuard lets review a submission
  MaxRows,       \* bound: rows created, in both tables together
  MaxRemovals    \* bound: rows removed

ASSUME DeskAssumption == MaxRows \in Nat /\ MaxRemovals \in Nat

VARIABLES
  rows,          \* the rows of both tables
  lastId,        \* row ids are unique for good
  deskReq,       \* locals of each request
  removals,      \* history: rows removed from each table
  misread        \* history: rows seen by a client whose write hit another row

deskVars == <<rows, lastId, deskReq, removals, misread>>

NoDesk == [pc |-> "idle", table |-> "none", number |-> 0, seen |-> 0, row |-> 0,
           op |-> "none", by |-> "none"]

ById == 0   \* in place of a number

DeskAt(d, pc) == deskReq[d].pc = pc
EndDesk(d)    == deskReq' = [deskReq EXCEPT ![d] = NoDesk]

RowsOf(t)           == {x \in rows : x.table = t}
NoUniqueKey(t, n)   == FALSE
InUse(t, n)         == \E x \in RowsOf(t) : x.number = n
RemovedFrom(t)      == removals[t] > 0

-----------------------------------------------------------------------------
(***************************************************************************)
(* Creation                                                                *)
(***************************************************************************)

CountItself(t) == Cardinality(RowsOf(t))
TwoAhead(t)    == Cardinality(RowsOf(t)) + 2
NextNumber(t)  == Cardinality(RowsOf(t)) + 1

CountRows(d, t) ==
  /\ DeskAt(d, "idle")
  /\ lastId < MaxRows
  /\ deskReq' = [deskReq EXCEPT ![d] =
                  [NoDesk EXCEPT !.pc = "create", !.table = t, !.number = NextNumber(t)]]
  /\ UNCHANGED <<rows, lastId, removals, misread>>

\* The number is a unique key.
CreateRow(d) ==
  LET t == deskReq[d].table
      n == deskReq[d].number
  IN /\ DeskAt(d, "create")
     /\ lastId < MaxRows
     /\ \/ /\ ~InUse(t, n)
           /\ lastId' = lastId + 1
           /\ rows' = rows \cup {[table |-> t, number |-> n, id |-> lastId + 1, status |-> "Pending",
                                  verifiedBy |-> "none", rejectedBy |-> "none"]}
        \/ /\ InUse(t, n)
           /\ UNCHANGED <<rows, lastId>>
     /\ EndDesk(d)
     /\ UNCHANGED <<removals, misread>>

-----------------------------------------------------------------------------
(***************************************************************************)
(* Review and removal                                                      *)
(***************************************************************************)

\* The statuses a review may give ("Verified" is Approved for a submission),
\* and the other writes.
Statuses      == {"Pending", "Verified", "Rejected"}
AllOperations == Statuses \cup {"remove", "edit"}

\* Only a bank transfer can be edited.
Operations(t) == IF t = "BT" THEN AllOperations ELSE AllOperations \ {"edit"}

\* No guard stands before the routes of bank transfers: whoever sends the
\* request, verify notes a constant.
Placeholder  == "admin-user-id"
NotedFor(t)  == IF t = "BT" THEN {Placeholder} ELSE Reviewers
Names        == Reviewers \cup {Placeholder}

\* The client has the row on the screen, decides, and names it by its number,
\* or by its id.
OpenRow(d, x) ==
  /\ DeskAt(d, "idle")
  /\ \E number \in {x.number, ById} :
       deskReq' = [deskReq EXCEPT ![d] =
                    [NoDesk EXCEPT !.pc = "open", !.table = x.table, !.number = number, !.seen = x.id]]
  /\ UNCHANGED <<rows, lastId, removals, misread>>

IsNamed(d, x) ==
  \/ deskReq[d].number = x.number
  \/ deskReq[d].number = ById /\ x.id = deskReq[d].seen

Found(d) == {x \in RowsOf(deskReq[d].table) : IsNamed(d, x)}

\* findOne; without a row it throws.
FindRow(d, op, by) ==
  /\ DeskAt(d, "open")
  /\ op \in Operations(deskReq[d].table)
  /\ by \in NotedFor(deskReq[d].table)
  /\ \/ Found(d) = {} /\ EndDesk(d)
     \/ \E x \in Found(d) :
          deskReq' = [deskReq EXCEPT ![d].pc = "write", ![d].row = x.id, ![d].op = op, ![d].by = by]
  /\ UNCHANGED <<rows, lastId, removals, misread>>

\* verify: who decided is noted beside an earlier decision, not instead of it.
Reviewed(x, op, by) ==
  [x EXCEPT !.status = op,
            !.verifiedBy = IF op = "Verified" THEN by ELSE @,
            !.rejectedBy = IF op = "Rejected" THEN by ELSE @]

\* update may set the status to anything and names nobody.
Edited(x, status) == [x EXCEPT !.status = status]

Target(d) == {x \in rows : x.id = deskReq[d].row}

Misread(d) ==
  misread' = IF deskReq[d].row = deskReq[d].seen THEN misread ELSE misread \cup {deskReq[d].seen}

\* The write by id; a row removed meanwhile makes it throw.
WriteRow(d) ==
  /\ DeskAt(d, "write")
  /\ deskReq[d].op # "remove"
  /\ \/ Target(d) = {} /\ UNCHANGED <<rows, misread>>
     \/ \E x \in Target(d) :
          /\ \/ /\ deskReq[d].op # "edit"
                /\ rows' = (rows \ {x}) \cup {Reviewed(x, deskReq[d].op, deskReq[d].by)}
             \/ /\ deskReq[d].op = "edit"
                /\ \E status \in Statuses :
                     rows' = (rows \ {x}) \cup {Edited(x, status)}
          /\ Misread(d)
  /\ EndDesk(d)
  /\ UNCHANGED <<lastId, removals>>

RemoveRow(d) ==
  /\ DeskAt(d, "write")
  /\ deskReq[d].op = "remove"
  /\ \/ Target(d) = {} /\ UNCHANGED <<rows, removals, misread>>
     \/ /\ Target(d) # {}
        /\ removals[deskReq[d].table] < MaxRemovals
        /\ rows' = rows \ Target(d)
        /\ removals' = [removals EXCEPT ![deskReq[d].table] = @ + 1]
        /\ Misread(d)
  /\ EndDesk(d)
  /\ UNCHANGED lastId

DeskInit ==
  /\ rows = {}
  /\ lastId = 0
  /\ deskReq = [d \in DeskRequests |-> NoDesk]
  /\ removals = [t \in Tables |-> 0]
  /\ misread = {}

Desk(d) ==
  \/ \E t \in Tables : CountRows(d, t)
  \/ CreateRow(d)
  \/ \E x \in rows : OpenRow(d, x)
  \/ \E op \in AllOperations, by \in Names : FindRow(d, op, by)
  \/ WriteRow(d)
  \/ RemoveRow(d)

DeskNext == \E d \in DeskRequests : Desk(d)

DeskSpec == DeskInit /\ [][DeskNext]_deskVars

-----------------------------------------------------------------------------
\* Types of all variables.
DeskTypeOK ==
  /\ rows \subseteq [table : Tables, number : 1..MaxRows, id : 1..MaxRows,
                     status : Statuses,
                     verifiedBy : Names \cup {"none"}, rejectedBy : Names \cup {"none"}]
  /\ lastId \in 0..MaxRows
  /\ deskReq \in [DeskRequests ->
       [pc : {"idle", "create", "open", "write"}, table : Tables \cup {"none"},
        number : 0..MaxRows, seen : 0..MaxRows, row : 0..MaxRows,
        op : AllOperations \cup {"none"},
        by : Names \cup {"none"}]]
  /\ removals \in [Tables -> 0..MaxRemovals]
  /\ misread \subseteq 1..MaxRows

\* Until a row is removed, the numbers of a table are 1, 2, 3, ... without a
\* gap, although creations count the rows and insert theirs in separate steps:
\* the unique key turns the loser of a race away (create).
NumbersHaveNoGaps ==
  \A t \in Tables : ~RemovedFrom(t) =>
    {x.number : x \in RowsOf(t)} = 1..Cardinality(RowsOf(t))

\* A review, an edit or a removal lands on another row than the one the client
\* saw only when that one is gone, whatever was removed and numbered anew
\* between the look at the screen, findOne and the write by id.
DecisionsHitTheRowSeen ==
  \A x \in rows : x.id \notin misread

-----------------------------------------------------------------------------
\* BankTransfersService.create, "Generate unique ID in BT-YYYY-XXX format": the
\* number a creation is about to use is free, unless another creation takes it
\* in between.
GeneratedNumbersAreFree ==
  \A t \in Tables : ~InUse(t, NextNumber(t))
=============================================================================
