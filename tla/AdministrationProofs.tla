------------------------ MODULE AdministrationProofs ------------------------
(***************************************************************************)
(* Theorems about Administration, for every number of addresses and of     *)
(* requests in progress.                                                   *)
(***************************************************************************)
EXTENDS Administration, FiniteSetTheorems, TLAPS

\* The requests an address has past the guard.
InFlight(a) == {q \in AdminRequests : adminReq[q].address = a /\ adminReq[q].pc # "guard"}

Request == [pc : Tasks \cup {"none", "guard", "delete"}, address : Addresses \cup {"none"}, row : Nat]

AdminTypes ==
  /\ lastAdminId \in Nat
  /\ admins \subseteq [id : 1..lastAdminId, address : Addresses]
  /\ \A x, y \in admins : x.id = y.id \/ x.address = y.address => x = y
  /\ adminReq \in [AdminRequests -> Request]
  /\ \A q \in AdminRequests : adminReq[q].pc = "none" <=> adminReq[q].address = "none"
  /\ overtaken \in [Addresses -> Nat]
  /\ acted \in [Addresses -> Nat]
  /\ selfRemoved \in BOOLEAN
  /\ users \subseteq Addresses

\* What an address outside the table has done and may yet do.
Outstanding(a) == IF IsAdmin(a) THEN 0 ELSE Cardinality(InFlight(a))

AdminInv ==
  /\ AdminTypes
  /\ \A a \in Addresses : acted[a] + Outstanding(a) <= overtaken[a]
  /\ LockoutNeedsSelfRemovalOrRace

LEMMA InFlightIsFinite ==
  \A a : IsFiniteSet(InFlight(a)) /\ Cardinality(InFlight(a)) \in Nat
  BY AdministrationAssumption, FS_Subset, FS_CardinalityType DEF InFlight

\* A request that ends leaves one request less to its address.
LEMMA Ended ==
  ASSUME AdminTypes, NEW r \in AdminRequests, adminReq[r].pc \notin {"none", "guard"},
         EndAdminRequest(r)
  PROVE  /\ adminReq' \in [AdminRequests -> Request]
         /\ \A q \in AdminRequests : adminReq'[q].pc = "none" <=> adminReq'[q].address = "none"
         /\ adminReq[r].address \in Addresses
         /\ \A a \in Addresses : InFlight(a)' = InFlight(a) \ {r}
         /\ \A a \in Addresses : Cardinality(InFlight(a)') =
              Cardinality(InFlight(a)) - (IF a = adminReq[r].address THEN 1 ELSE 0)
<1>1. NoAdminRequest \in Request
  BY DEF NoAdminRequest, Request
<1>2. adminReq[r].address \in Addresses
  BY DEF AdminTypes, Request
<1>3. \A q \in AdminRequests : adminReq'[q] = IF q = r THEN NoAdminRequest ELSE adminReq[q]
  BY DEF EndAdminRequest, AdminTypes
<1>4. \A a \in Addresses : InFlight(a)' = InFlight(a) \ {r}
  BY <1>3, AdministrationAssumption DEF InFlight, NoAdminRequest
<1>5. \A a : r \in InFlight(a) <=> a = adminReq[r].address
  BY DEF InFlight
<1>6. ASSUME NEW a \in Addresses
      PROVE  Cardinality(InFlight(a)') =
               Cardinality(InFlight(a)) - (IF a = adminReq[r].address THEN 1 ELSE 0)
  <2>1. CASE a = adminReq[r].address
    BY <1>4, <1>5, <2>1, InFlightIsFinite, FS_RemoveElement
  <2>2. CASE a # adminReq[r].address
    <3>1. InFlight(a)' = InFlight(a) /\ Cardinality(InFlight(a)) \in Nat
      BY <1>4, <1>5, <2>2, InFlightIsFinite
    <3> QED
      BY <2>2, <3>1
  <2> QED
    BY <2>1, <2>2
<1>7. adminReq' \in [AdminRequests -> Request]
  BY <1>1 DEF EndAdminRequest, AdminTypes
<1>8. \A q \in AdminRequests : adminReq'[q].pc = "none" <=> adminReq'[q].address = "none"
  BY <1>3 DEF AdminTypes, NoAdminRequest
<1> QED
  BY <1>2, <1>4, <1>5, <1>6, <1>7, <1>8

\* A step that ends its request without changing the table.
LEMMA ActsAndEnds ==
  ASSUME AdminInv, NEW r \in AdminRequests, adminReq[r].pc \notin {"none", "guard"}, EndAdminRequest(r),
         Acts(r) \/ UNCHANGED acted,
         UNCHANGED <<admins, lastAdminId, users, overtaken, selfRemoved>>
  PROVE  AdminInv'
<1> DEFINE me == adminReq[r].address
<1>1. me \in Addresses /\ \A a \in Addresses : Cardinality(InFlight(a)') =
        Cardinality(InFlight(a)) - (IF a = me THEN 1 ELSE 0)
  BY Ended DEF AdminInv
<1>2. \A a \in Addresses : /\ Cardinality(InFlight(a)) \in Nat
                           /\ acted[a] \in Nat /\ overtaken[a] \in Nat
  BY InFlightIsFinite DEF AdminInv, AdminTypes
<1>3. /\ acted' \in [Addresses -> Nat]
      /\ \A a \in Addresses : acted'[a] <= acted[a] + (IF a = me /\ ~IsAdmin(a) THEN 1 ELSE 0)
      /\ \A a \in Addresses : acted'[a] >= acted[a]
  BY <1>1, <1>2 DEF Acts, AdminInv, AdminTypes
<1>4. \A a \in Addresses : acted'[a] + Outstanding(a)' <= overtaken'[a]
  <2> SUFFICES ASSUME NEW a \in Addresses PROVE acted'[a] + Outstanding(a)' <= overtaken'[a]
    OBVIOUS
  <2>1. acted[a] + Outstanding(a) <= overtaken[a] /\ (IsAdmin(a)' <=> IsAdmin(a))
    BY DEF AdminInv, IsAdmin
  <2>2. Outstanding(a)' = IF IsAdmin(a)' THEN 0 ELSE Cardinality(InFlight(a)')
    BY DEF Outstanding
  <2> QED
    BY <1>1, <1>2, <1>3, <2>1, <2>2 DEF Outstanding
<1>5. AdminTypes'
  BY <1>3, Ended DEF AdminInv, AdminTypes
<1>6. LockoutNeedsSelfRemovalOrRace'
  BY <1>2, <1>3 DEF AdminInv, AdminTypes, LockoutNeedsSelfRemovalOrRace
<1> QED
  BY <1>4, <1>5, <1>6 DEF AdminInv

\* A step that only moves one request, to where none of an address outside the
\* table gets past the guard.
LEMMA OneRequestGoesOn ==
  ASSUME AdminInv, NEW r \in AdminRequests, NEW q \in Request, q.pc = "none" <=> q.address = "none",
         adminReq' = [adminReq EXCEPT ![r] = q],
         \A a \in Addresses : a = q.address /\ q.pc # "guard" =>
           IsAdmin(a) \/ r \in InFlight(a),
         users' \subseteq Addresses,
         UNCHANGED <<admins, lastAdminId, overtaken, acted, selfRemoved>>
  PROVE  AdminInv'
<1>1. \A x \in AdminRequests : adminReq'[x] = IF x = r THEN q ELSE adminReq[x]
  BY DEF AdminInv, AdminTypes
<1>2. AdminTypes'
  <2>1. adminReq' \in [AdminRequests -> Request]
    BY DEF AdminInv, AdminTypes
  <2> QED
    BY <1>1, <2>1 DEF AdminInv, AdminTypes
<1>3. ASSUME NEW a \in Addresses PROVE acted'[a] + Outstanding(a)' <= overtaken'[a]
  <2>1. (IsAdmin(a)' <=> IsAdmin(a)) /\ acted[a] + Outstanding(a) <= overtaken[a]
    BY DEF IsAdmin, AdminInv
  <2>2. CASE IsAdmin(a)
    BY <2>1, <2>2 DEF Outstanding
  <2>3. CASE ~IsAdmin(a)
    <3>1. InFlight(a)' \subseteq InFlight(a)
      BY <1>1, <2>3 DEF InFlight
    <3>2. Cardinality(InFlight(a)') <= Cardinality(InFlight(a)) /\ Cardinality(InFlight(a)') \in Nat
      BY <3>1, InFlightIsFinite, FS_Subset, FS_CardinalityType
    <3>3. acted[a] \in Nat /\ overtaken[a] \in Nat /\ Cardinality(InFlight(a)) \in Nat
      BY InFlightIsFinite DEF AdminInv, AdminTypes
    <3> QED
      BY <2>1, <2>3, <3>2, <3>3 DEF Outstanding
  <2> QED
    BY <2>2, <2>3
<1> QED
  BY <1>2, <1>3 DEF AdminInv, LockoutNeedsSelfRemovalOrRace

LEMMA GuardSteps ==
  ASSUME AdminInv, NEW r \in AdminRequests,
         (\E a \in Addresses : GuardWritesUser(r, a)) \/ GuardReadsTable(r)
  PROVE  AdminInv'
<1>1. ASSUME NEW a \in Addresses, GuardWritesUser(r, a) PROVE AdminInv'
  <2> DEFINE q == [pc |-> "guard", address |-> a, row |-> 0]
  <2>1. q \in Request /\ q.pc = "guard" /\ q.address = a
    BY DEF Request
  <2>2. /\ adminReq' = [adminReq EXCEPT ![r] = q] /\ users' = users \cup {a}
        /\ UNCHANGED <<admins, lastAdminId, overtaken, acted, selfRemoved>>
    BY <1>1 DEF GuardWritesUser, adminHistory
  <2> HIDE DEF q
  <2> QED
    BY <2>1, <2>2, AdministrationAssumption, OneRequestGoesOn DEF AdminInv, AdminTypes
<1>2. CASE GuardReadsTable(r)
  <2>1. /\ adminReq[r].pc = "guard" /\ adminReq[r] \in Request /\ adminReq[r].address # "none"
        /\ UNCHANGED <<admins, lastAdminId, users, overtaken, acted, selfRemoved>>
        /\ users' \subseteq Addresses
    BY <1>2 DEF GuardReadsTable, adminHistory, AdminInv, AdminTypes
  <2>2. CASE IsAdmin(adminReq[r].address)
    <3>1. PICK task \in Tasks : adminReq' = [adminReq EXCEPT ![r].pc = task]
      BY <1>2, <2>2 DEF GuardReadsTable, IsInTable
    <3> DEFINE q == [adminReq[r] EXCEPT !.pc = task]
    <3>2. adminReq' = [adminReq EXCEPT ![r] = q]
      BY <3>1 DEF AdminInv, AdminTypes
    <3>3. q \in Request /\ q.pc = task /\ q.address = adminReq[r].address /\ task # "none"
      BY <2>1 DEF Request, Tasks
    <3> HIDE DEF q
    <3> QED
      BY <2>1, <2>2, <3>2, <3>3, OneRequestGoesOn
  <2>3. CASE ~IsAdmin(adminReq[r].address)
    <3>1. adminReq' = [adminReq EXCEPT ![r] = NoAdminRequest]
      BY <1>2, <2>3 DEF GuardReadsTable, IsInTable, EndAdminRequest
    <3>2. NoAdminRequest \in Request /\ NoAdminRequest.pc = "none" /\ NoAdminRequest.address = "none"
      BY DEF NoAdminRequest, Request
    <3> QED
      BY <2>1, <3>1, <3>2, AdministrationAssumption, OneRequestGoesOn
  <2> QED
    BY <2>2, <2>3
<1> QED
  BY <1>1, <1>2

LEMMA CreateSteps ==
  ASSUME AdminInv, NEW r \in AdminRequests, NEW address \in Addresses, CreateAdmin(r, address),
         ~IsAdmin(address)
  PROVE  AdminInv'
<1> DEFINE me == adminReq[r].address
           row == [id |-> lastAdminId + 1, address |-> address]
<1>1. /\ adminReq[r].pc = "create" /\ EndAdminRequest(r) /\ Acts(r)
      /\ admins' = admins \cup {row} /\ lastAdminId' = lastAdminId + 1
      /\ UNCHANGED <<users, overtaken, selfRemoved>>
  BY DEF CreateAdmin
<1>2. me \in Addresses /\ \A a \in Addresses : Cardinality(InFlight(a)') =
        Cardinality(InFlight(a)) - (IF a = me THEN 1 ELSE 0)
  BY <1>1, Ended DEF AdminInv
<1>3. \A a \in Addresses : /\ Cardinality(InFlight(a)) \in Nat
                           /\ Cardinality(InFlight(a)') \in Nat
                           /\ acted[a] \in Nat /\ overtaken[a] \in Nat
  <2>1. \A a \in Addresses : Cardinality(InFlight(a)) \in Nat /\ InFlight(a)' \subseteq AdminRequests
    BY InFlightIsFinite DEF InFlight
  <2> QED
    BY <2>1, AdministrationAssumption, FS_Subset, FS_CardinalityType DEF AdminInv, AdminTypes
<1>4. acted' \in [Addresses -> Nat]
      /\ \A a \in Addresses : acted'[a] = acted[a] + (IF a = me /\ ~IsAdmin(a) THEN 1 ELSE 0)
  BY <1>1, <1>2, <1>3 DEF Acts, AdminInv, AdminTypes
<1>5. \A a \in Addresses : IsAdmin(a)' <=> IsAdmin(a) \/ a = address
  <2>1. row.address = address
    OBVIOUS
  <2> HIDE DEF row
  <2> QED
    BY <1>1, <2>1 DEF IsAdmin
<1>6. \A a \in Addresses : acted'[a] + Outstanding(a)' <= overtaken'[a]
  <2> SUFFICES ASSUME NEW a \in Addresses PROVE acted'[a] + Outstanding(a)' <= overtaken'[a]
    OBVIOUS
  <2>1. acted[a] + Outstanding(a) <= overtaken[a]
    BY DEF AdminInv
  <2>2. Outstanding(a)' = IF IsAdmin(a)' THEN 0 ELSE Cardinality(InFlight(a)')
    BY DEF Outstanding
  <2> QED
    BY <1>1, <1>2, <1>3, <1>4, <1>5, <2>1, <2>2 DEF Outstanding
<1>7. AdminTypes'
  <2>1. lastAdminId' \in Nat /\ admins' \subseteq [id : 1..lastAdminId', address : Addresses]
    BY <1>1 DEF AdminInv, AdminTypes
  <2>2. \A x, y \in admins' : x.id = y.id \/ x.address = y.address => x = y
    <3>1. \A x \in admins : x.id # row.id /\ x.address # row.address
      BY DEF AdminInv, AdminTypes, IsAdmin
    <3> QED
      BY <1>1, <3>1 DEF AdminInv, AdminTypes
  <2> QED
    BY <1>1, <1>4, <2>1, <2>2, Ended DEF AdminInv, AdminTypes
<1>8. LockoutNeedsSelfRemovalOrRace'
  BY <1>1 DEF LockoutNeedsSelfRemovalOrRace
<1> QED
  BY <1>6, <1>7, <1>8 DEF AdminInv

LEMMA DeleteSteps ==
  ASSUME AdminInv, NEW r \in AdminRequests, DeleteAdmin(r), RowOf(adminReq[r].row) # {}
  PROVE  AdminInv'
<1> DEFINE me == adminReq[r].address
<1>1. PICK gone \in admins : RowOf(adminReq[r].row) = {gone} /\ gone.id = adminReq[r].row
  BY DEF RowOf, AdminInv, AdminTypes
<1> DEFINE b == gone.address
<1>2. /\ adminReq[r].pc = "delete" /\ EndAdminRequest(r) /\ Acts(r)
      /\ admins' = admins \ {gone} /\ UNCHANGED <<lastAdminId, users>>
      /\ overtaken' = [a \in Addresses |->
           IF a = b THEN overtaken[a] + Cardinality(PastTheGuard(a, r)) ELSE overtaken[a]]
      /\ selfRemoved' = (selfRemoved \/ b = me)
  BY <1>1 DEF DeleteAdmin
<1>3. /\ me \in Addresses
      /\ \A a \in Addresses : InFlight(a)' = InFlight(a) \ {r}
      /\ \A a \in Addresses : Cardinality(InFlight(a)') =
           Cardinality(InFlight(a)) - (IF a = me THEN 1 ELSE 0)
  BY <1>2, Ended DEF AdminInv
<1>4. /\ b \in Addresses /\ PastTheGuard(b, r) = InFlight(b)' /\ IsAdmin(b)
  BY <1>3 DEF PastTheGuard, InFlight, AdminInv, AdminTypes, IsAdmin
<1>5. \A a \in Addresses : /\ Cardinality(InFlight(a)) \in Nat
                           /\ Cardinality(InFlight(a)') \in Nat
                           /\ acted[a] \in Nat /\ overtaken[a] \in Nat
  <2>1. \A a \in Addresses : Cardinality(InFlight(a)) \in Nat /\ InFlight(a)' \subseteq AdminRequests
    BY InFlightIsFinite DEF InFlight
  <2> QED
    BY <2>1, AdministrationAssumption, FS_Subset, FS_CardinalityType DEF AdminInv, AdminTypes
<1>6. acted' \in [Addresses -> Nat]
      /\ \A a \in Addresses : acted'[a] = acted[a] + (IF a = me /\ ~IsAdmin(a) THEN 1 ELSE 0)
  BY <1>2, <1>3, <1>5 DEF Acts, AdminInv, AdminTypes
<1>7. \A a \in Addresses : IsAdmin(a)' <=> IsAdmin(a) /\ a # b
  BY <1>2 DEF IsAdmin, AdminInv, AdminTypes
<1>8. /\ overtaken' \in [Addresses -> Nat]
      /\ \A a \in Addresses :
           overtaken'[a] = overtaken[a] + (IF a = b THEN Cardinality(InFlight(a)') ELSE 0)
  BY <1>2, <1>4, <1>5
<1>9. \A a \in Addresses : acted'[a] + Outstanding(a)' <= overtaken'[a]
  <2> SUFFICES ASSUME NEW a \in Addresses PROVE acted'[a] + Outstanding(a)' <= overtaken'[a]
    OBVIOUS
  <2>1. acted[a] + Outstanding(a) <= overtaken[a]
    BY DEF AdminInv
  <2>2. Outstanding(a)' = IF IsAdmin(a)' THEN 0 ELSE Cardinality(InFlight(a)')
    BY DEF Outstanding
  <2> HIDE DEF me, b
  <2> QED
    BY <1>3, <1>4, <1>5, <1>6, <1>7, <1>8, <2>1, <2>2 DEF Outstanding
<1>10. AdminTypes'
  <2>1. selfRemoved' \in BOOLEAN
    BY <1>2
  <2> QED
    BY <1>2, <1>6, <1>8, <2>1, Ended DEF AdminInv, AdminTypes
<1>11. LockoutNeedsSelfRemovalOrRace'
  <2> SUFFICES ASSUME admins' = {}, b # me PROVE \E a \in Addresses : acted'[a] > 0
    BY <1>2 DEF LockoutNeedsSelfRemovalOrRace
  <2>1. ~IsAdmin(me)
    BY <1>2 DEF IsAdmin
  <2> QED
    BY <1>3, <1>5, <1>6, <2>1
<1> QED
  BY <1>9, <1>10, <1>11 DEF AdminInv

LEMMA FindSteps ==
  ASSUME AdminInv, NEW r \in AdminRequests, NEW id \in 1..lastAdminId, FindAdmin(r, id)
  PROVE  AdminInv'
<1>1. CASE EndAdminRequest(r)
  BY <1>1, ActsAndEnds DEF FindAdmin, adminHistory
<1>2. CASE adminReq' = [adminReq EXCEPT ![r].pc = "delete", ![r].row = id]
  <2> DEFINE q == [adminReq[r] EXCEPT !.pc = "delete", !.row = id]
  <2>1. /\ adminReq[r].pc = "find" /\ id \in Nat /\ adminReq[r] \in Request
        /\ adminReq[r].address \in Addresses
    BY DEF FindAdmin, AdminInv, AdminTypes, Request
  <2>2. q \in Request /\ q.pc = "delete" /\ q.address = adminReq[r].address
    BY <2>1 DEF Request
  <2>3. adminReq' = [adminReq EXCEPT ![r] = q]
    BY <1>2 DEF AdminInv, AdminTypes
  <2>4. r \in InFlight(adminReq[r].address)
    BY <2>1 DEF InFlight
  <2>5. /\ UNCHANGED <<admins, lastAdminId, overtaken, acted, selfRemoved>>
        /\ users' \subseteq Addresses
    BY DEF FindAdmin, adminHistory, AdminInv, AdminTypes
  <2> HIDE DEF q
  <2> QED
    BY <2>1, <2>2, <2>3, <2>4, <2>5, AdministrationAssumption, OneRequestGoesOn
<1> QED
  BY <1>1, <1>2 DEF FindAdmin

LEMMA AdminInitially == AdminInit => AdminInv
<1> SUFFICES ASSUME AdminInit PROVE AdminInv
  OBVIOUS
<1>1. AdminTypes
  <2>1. NoAdminRequest \in Request
    BY DEF NoAdminRequest, Request
  <2>2. /\ adminReq \in [AdminRequests -> Request]
        /\ \A q \in AdminRequests : adminReq[q].pc = "none" /\ adminReq[q].address = "none"
    BY <2>1 DEF AdminInit, NoAdminRequest
  <2>3. /\ lastAdminId \in Nat
        /\ admins \subseteq [id : 1..lastAdminId, address : Addresses]
        /\ \A x, y \in admins : x = y
    BY AdministrationAssumption DEF AdminInit
  <2> QED
    BY <2>2, <2>3 DEF AdminInit, AdminTypes
<1>2. \A a \in Addresses : InFlight(a) = {}
  BY AdministrationAssumption DEF AdminInit, InFlight, NoAdminRequest
<1>3. \A a \in Addresses : acted[a] + Outstanding(a) <= overtaken[a]
  BY <1>2, FS_EmptySet DEF AdminInit, Outstanding
<1> QED
  BY <1>1, <1>3 DEF AdminInit, AdminInv, LockoutNeedsSelfRemovalOrRace

LEMMA AdminSteps == AdminInv /\ [AdminNext]_adminVars => AdminInv'
<1> SUFFICES ASSUME AdminInv, [AdminNext]_adminVars PROVE AdminInv'
  OBVIOUS
<1>1. CASE UNCHANGED adminVars
  BY <1>1 DEF adminVars, adminHistory, AdminInv, AdminTypes, Outstanding, InFlight, IsAdmin,
              LockoutNeedsSelfRemovalOrRace
<1>2. ASSUME NEW r \in AdminRequests, NEW a \in Addresses, CreateAdmin(r, a), IsAdmin(a)
      PROVE  AdminInv'
  BY <1>2, ActsAndEnds DEF CreateAdmin
<1>3. ASSUME NEW r \in AdminRequests, DeleteAdmin(r), RowOf(adminReq[r].row) = {}
      PROVE  AdminInv'
  <2>1. /\ adminReq[r].pc = "delete" /\ EndAdminRequest(r)
        /\ UNCHANGED <<admins, lastAdminId, users, overtaken, acted, selfRemoved>>
    BY <1>3 DEF DeleteAdmin, AdminInv, AdminTypes
  <2> QED
    BY <2>1, ActsAndEnds
<1>4. ASSUME NEW r \in AdminRequests, OtherWrite(r) PROVE AdminInv'
  BY <1>4, ActsAndEnds DEF OtherWrite
<1> QED
  BY <1>1, <1>2, <1>3, <1>4, GuardSteps, CreateSteps, DeleteSteps, FindSteps DEF AdminNext

\* Through the guarded routes, an address that is not in the table of
\* administrators changes nothing, but for one step of each request it had past
\* AdminGuard when it was removed.
THEOREM RemovedAdminsOnlyFinish == AdminSpec => []RemovedAdminsFinishRequestsOnly
<1>1. AdminSpec => []AdminInv
  BY AdminInitially, AdminSteps, PTL DEF AdminSpec
<1>2. AdminInv => RemovedAdminsFinishRequestsOnly
  <2> SUFFICES ASSUME AdminInv, NEW a \in Addresses PROVE acted[a] <= overtaken[a]
    BY DEF RemovedAdminsFinishRequestsOnly
  <2>1. acted[a] \in Nat /\ overtaken[a] \in Nat /\ Outstanding(a) \in Nat
    BY InFlightIsFinite DEF AdminInv, AdminTypes, Outstanding
  <2> QED
    BY <2>1 DEF AdminInv
<1> QED
  BY <1>1, <1>2, PTL

\* The table of administrators gets empty only when one removes itself, or is
\* removed while it removes another.
THEOREM LockoutsAreExplained == AdminSpec => []LockoutNeedsSelfRemovalOrRace
<1>1. AdminSpec => []AdminInv
  BY AdminInitially, AdminSteps, PTL DEF AdminSpec
<1>2. AdminInv => LockoutNeedsSelfRemovalOrRace
  BY DEF AdminInv
<1> QED
  BY <1>1, <1>2, PTL

\* The types of the administration's variables; and the ids and the addresses of
\* the table stay unique through overlapping creations and removals.
THEOREM AdminTypesAreRight == AdminSpec => []AdminTypeOK
<1>1. AdminSpec => []AdminInv
  BY AdminInitially, AdminSteps, PTL DEF AdminSpec
<1>2. AdminInv => AdminTypeOK
  BY DEF AdminInv, AdminTypes, AdminTypeOK, Request
<1> QED
  BY <1>1, <1>2, PTL
=============================================================================
