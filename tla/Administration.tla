--------------------------- MODULE Administration ---------------------------
(***************************************************************************)
(* Who may act as an administrator: the table admins, AdminGuard in front  *)
(* of the routes that have it, and the routes that change the table.  The  *)
(* guard refreshes the wallet's row in presale_users and then reads the    *)
(* table; what the request does after that is a later step, and the table  *)
(* may change in between.  Any wallet may hold a valid token (module       *)
(* WalletLogin).  The routes of bank transfers, those that remove a        *)
(* transaction and the two reprocessing requests are documented as the     *)
(* administrators' and have no guard: they are not part of this module.    *)
(***************************************************************************)
EXTENDS Integers, FiniteSets

CONSTANTS
  Addresses,
  Founder,         \* the administrator prisma/seed.ts creates
  AdminRequests,   \* requests that may be in progress at once
  MaxAdminIds      \* bound: rows ever created

ASSUME AdministrationAssumption ==
  /\ Founder \in Addresses
  /\ "none" \notin Addresses
  /\ IsFiniteSet(AdminRequests)
  /\ MaxAdminIds \in Nat

VARIABLES
  admins,        \* the rows [id, address]
  lastAdminId,
  adminReq,      \* locals of each request
  users,         \* the addresses whose row in presale_users a guard has written
  overtaken,     \* history: an address's requests past the guard at its removal
  acted,         \* history: what an address did behind the guard, not in the table
  selfRemoved    \* history: whether an administrator removed its own row

adminHistory == <<overtaken, acted, selfRemoved>>
adminVars    == <<admins, lastAdminId, adminReq, users, adminHistory>>

\* What a guarded request goes on to do.
Tasks == {"create", "find", "write"}

NoAdminRequest == [pc |-> "none", address |-> "none", row |-> 0]

IsAdmin(a) == \E row \in admins : row.address = a

EndAdminRequest(r) == adminReq' = [adminReq EXCEPT ![r] = NoAdminRequest]

\* A step that changes something, taken for the request's address.
Acts(r) ==
  LET a == adminReq[r].address
  IN acted' = IF IsAdmin(a) THEN acted ELSE [acted EXCEPT ![a] = @ + 1]

-----------------------------------------------------------------------------
HasToken(a) == TRUE
IsInTable(a) == IsAdmin(a)

\* AdminGuard: a valid token names the wallet, and createOrUpdate writes its
\* row, whether or not the request is then let through; ...
GuardWritesUser(r, a) ==
  /\ adminReq[r].pc = "none"
  /\ adminReq' = [adminReq EXCEPT ![r] = [pc |-> "guard", address |-> a, row |-> 0]]
  /\ users' = users \cup {a}
  /\ UNCHANGED <<admins, lastAdminId, adminHistory>>

\* ... a wallet that is not in the table gets a 401.
GuardReadsTable(r) ==
  /\ adminReq[r].pc = "guard"
  /\ IF IsInTable(adminReq[r].address)
     THEN \E task \in Tasks : adminReq' = [adminReq EXCEPT ![r].pc = task]
     ELSE EndAdminRequest(r)
  /\ UNCHANGED <<admins, lastAdminId, users, adminHistory>>

\* AdminService.create: the address is unique, a second row throws.
CreateAdmin(r, address) ==
  /\ adminReq[r].pc = "create"
  /\ \/ /\ ~IsAdmin(address)
        /\ lastAdminId < MaxAdminIds
        /\ lastAdminId' = lastAdminId + 1
        /\ admins' = admins \cup {[id |-> lastAdminId + 1, address |-> address]}
        /\ Acts(r)
     \/ IsAdmin(address) /\ UNCHANGED <<admins, lastAdminId, acted>>
  /\ EndAdminRequest(r)
  /\ UNCHANGED <<users, overtaken, selfRemoved>>

\* AdminService.remove finds the row, ...
FindAdmin(r, id) ==
  /\ adminReq[r].pc = "find"
  /\ IF \E row \in admins : row.id = id
     THEN adminReq' = [adminReq EXCEPT ![r].pc = "delete", ![r].row = id]
     ELSE EndAdminRequest(r)
  /\ UNCHANGED <<admins, lastAdminId, users, adminHistory>>

Everyone(id)   == admins
RowOf(id)      == {row \in admins : row.id = id}

PastTheGuard(a, r) ==
  {q \in AdminRequests \ {r} : adminReq[q].address = a /\ adminReq[q].pc # "guard"}

\* ... and deletes it; a row that is gone by then throws.
DeleteAdmin(r) ==
  /\ adminReq[r].pc = "delete"
  /\ LET gone == RowOf(adminReq[r].row) IN
       /\ admins' = admins \ gone
       /\ overtaken' = [a \in Addresses |->
            IF \E row \in gone : row.address = a
            THEN overtaken[a] + Cardinality(PastTheGuard(a, r)) ELSE overtaken[a]]
       /\ selfRemoved' = (selfRemoved \/ \E row \in gone :
                            row.id = adminReq[r].row /\ row.address = adminReq[r].address)
       /\ IF gone = {} THEN UNCHANGED acted ELSE Acts(r)
  /\ EndAdminRequest(r)
  /\ UNCHANGED <<lastAdminId, users>>

\* The other guarded routes that write: the contract configuration, retries of
\* failed events, the review and removal of submissions, POST /user, provider
\* health, queue cleanup, and the reset of an event's marker.
OtherWrite(r) ==
  /\ adminReq[r].pc = "write"
  /\ Acts(r)
  /\ EndAdminRequest(r)
  /\ UNCHANGED <<admins, lastAdminId, users, overtaken, selfRemoved>>

-----------------------------------------------------------------------------
AdminInit ==
  /\ admins = {[id |-> 1, address |-> Founder]}
  /\ lastAdminId = 1
  /\ adminReq = [r \in AdminRequests |-> NoAdminRequest]
  /\ users = {}
  /\ overtaken = [a \in Addresses |-> 0]
  /\ acted = [a \in Addresses |-> 0]
  /\ selfRemoved = FALSE

AdminNext ==
  \E r \in AdminRequests :
    \/ \E a \in Addresses : GuardWritesUser(r, a) \/ CreateAdmin(r, a)
    \/ \E id \in 1..lastAdminId : FindAdmin(r, id)
    \/ GuardReadsTable(r) \/ DeleteAdmin(r) \/ OtherWrite(r)

AdminSpec == AdminInit /\ [][AdminNext]_adminVars

-----------------------------------------------------------------------------
(***************************************************************************)
(* Properties                                                              *)
(***************************************************************************)

\* Types of all variables, and the keys of the table: ids and addresses are
\* unique.
AdminTypeOK ==
  /\ admins \subseteq [id : 1..lastAdminId, address : Addresses]
  /\ \A x, y \in admins : x.id = y.id \/ x.address = y.address => x = y
  /\ lastAdminId \in Nat
  /\ \A r \in AdminRequests : adminReq[r].pc \in Tasks \cup {"none", "guard", "delete"}
  /\ users \subseteq Addresses
  /\ overtaken \in [Addresses -> Nat]
  /\ acted \in [Addresses -> Nat]
  /\ selfRemoved \in BOOLEAN

\* Through a guarded route, an address that is not in the table changes nothing
\* except with the requests it had past the guard when its row was removed,
\* once each; a request still in the guard is refused (AdminGuard).
RemovedAdminsFinishRequestsOnly ==
  \A a \in Addresses : acted[a] <= overtaken[a]

\* The table gets empty, and everybody is locked out, only when an
\* administrator removes itself, or is removed with a removal in progress.
LockoutNeedsSelfRemovalOrRace ==
  admins = {} => selfRemoved \/ \E a \in Addresses : acted[a] > 0
=============================================================================
