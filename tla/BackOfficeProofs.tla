-------------------------- MODULE BackOfficeProofs --------------------------
(***************************************************************************)
(* Theorems about the parts around the listener: logins, bank transfers    *)
(* and submissions, certificates and the health report, for every number   *)
(* of requests, wallets, rows, senders and nodes.                          *)
(***************************************************************************)
EXTENDS MCBackOffice, AdministrationProofs, FiniteSetTheorems, TLAPS

-----------------------------------------------------------------------------
(***************************************************************************)
(* Login by wallet                                                         *)
(***************************************************************************)

LoginRecord == [pc : {"idle", "create", "update", "expire", "consume", "user"},
                wallet : Wallets \cup {"none"}, nonce : 0..MaxNonces]

\* The requests that took a wallet's row away and have no token yet, and those
\* about to store a nonce.
Admitted(w) == {r \in LoginRequests : loginReq[r].pc = "user" /\ loginReq[r].wallet = w}
Storing(w)  == {r \in LoginRequests : loginReq[r].pc \in {"create", "update"} /\ loginReq[r].wallet = w}

Present(w) == IF authNonce[w] = NoRow THEN 0 ELSE 1

LoginTypes ==
  /\ authNonce \in [Wallets -> [nonce : 0..MaxNonces, expired : BOOLEAN]]
  /\ lastNonce \in 0..MaxNonces
  /\ given \in [Wallets -> SUBSET (1..MaxNonces)]
  /\ loginReq \in [LoginRequests -> LoginRecord]
  /\ tokens \subseteq Wallets
  /\ stored \in [Wallets -> Nat]
  /\ logins \in [Wallets -> Nat]
  /\ uses \in [1..MaxNonces -> Nat]
  /\ \A r \in LoginRequests :
       loginReq[r].pc # "idle" => loginReq[r].wallet \in Wallets /\ loginReq[r].nonce > 0

\* A nonce stored is in the row, was replaced there, was taken by a request that
\* is let in, or expired.
NoncesAddUp(w) ==
  /\ logins[w] + Cardinality(Admitted(w)) + Present(w) <= stored[w]
  /\ stored[w] + Cardinality(Storing(w)) <= lastNonce

LoginInv ==
  /\ LoginTypes
  /\ \A w \in Wallets : IsFiniteSet(Admitted(w)) /\ IsFiniteSet(Storing(w)) /\ NoncesAddUp(w)

\* A set that one request may enter or leave.
LEMMA OneInOrOut ==
  ASSUME NEW S, NEW T, NEW r, IsFiniteSet(S), T = S \cup {r} \/ T = S \ {r}
  PROVE  /\ IsFiniteSet(T) /\ Cardinality(S) \in Nat /\ Cardinality(T) \in Nat
         /\ Cardinality(T) = Cardinality(S) - (IF r \in S THEN 1 ELSE 0) + (IF r \in T THEN 1 ELSE 0)
<1>1. IsFiniteSet(T)
  BY FS_AddElement, FS_RemoveElement
<1>2. Cardinality(S) \in Nat /\ Cardinality(T) \in Nat
  BY <1>1, FS_CardinalityType
<1>3. CASE T = S \cup {r}
  BY <1>1, <1>2, <1>3, FS_AddElement
<1>4. CASE T = S \ {r}
  BY <1>1, <1>2, <1>4, FS_RemoveElement
<1> QED
  BY <1>1, <1>2, <1>3, <1>4

AdmittedBy(q, w) == IF q.pc = "user" /\ q.wallet = w THEN 1 ELSE 0
StoringBy(q, w)  == IF q.pc \in {"create", "update"} /\ q.wallet = w THEN 1 ELSE 0

\* What one request's move makes of the two sets of a wallet.
LEMMA OneRequestMoves ==
  ASSUME LoginInv, NEW r \in LoginRequests, NEW q \in LoginRecord,
         loginReq' = [loginReq EXCEPT ![r] = q], NEW w \in Wallets
  PROVE  /\ IsFiniteSet(Admitted(w)') /\ IsFiniteSet(Storing(w)')
         /\ Cardinality(Admitted(w)) \in Nat /\ Cardinality(Admitted(w)') \in Nat
         /\ Cardinality(Storing(w)) \in Nat /\ Cardinality(Storing(w)') \in Nat
         /\ Cardinality(Admitted(w)') =
              Cardinality(Admitted(w)) - AdmittedBy(loginReq[r], w) + AdmittedBy(q, w)
         /\ Cardinality(Storing(w)') =
              Cardinality(Storing(w)) - StoringBy(loginReq[r], w) + StoringBy(q, w)
<1>1. \A s \in LoginRequests : loginReq'[s] = IF s = r THEN q ELSE loginReq[s]
  BY DEF LoginInv, LoginTypes
<1>2. IsFiniteSet(Admitted(w)) /\ IsFiniteSet(Storing(w))
  BY DEF LoginInv
<1>3. /\ (IF r \in Admitted(w) THEN 1 ELSE 0) = AdmittedBy(loginReq[r], w)
      /\ (IF r \in Storing(w) THEN 1 ELSE 0) = StoringBy(loginReq[r], w)
  BY DEF Admitted, Storing, AdmittedBy, StoringBy
<1>4. /\ (IF r \in Admitted(w)' THEN 1 ELSE 0) = AdmittedBy(q, w)
      /\ (IF r \in Storing(w)' THEN 1 ELSE 0) = StoringBy(q, w)
  BY <1>1 DEF Admitted, Storing, AdmittedBy, StoringBy
<1>5. /\ Admitted(w)' = Admitted(w) \cup {r} \/ Admitted(w)' = Admitted(w) \ {r}
      /\ Storing(w)' = Storing(w) \cup {r} \/ Storing(w)' = Storing(w) \ {r}
  BY <1>1 DEF Admitted, Storing
<1>6. /\ IsFiniteSet(Admitted(w)') /\ Cardinality(Admitted(w)) \in Nat /\ Cardinality(Admitted(w)') \in Nat
      /\ Cardinality(Admitted(w)') = Cardinality(Admitted(w))
           - (IF r \in Admitted(w) THEN 1 ELSE 0) + (IF r \in Admitted(w)' THEN 1 ELSE 0)
  BY <1>2, <1>5, OneInOrOut
<1>7. /\ IsFiniteSet(Storing(w)') /\ Cardinality(Storing(w)) \in Nat /\ Cardinality(Storing(w)') \in Nat
      /\ Cardinality(Storing(w)') = Cardinality(Storing(w))
           - (IF r \in Storing(w) THEN 1 ELSE 0) + (IF r \in Storing(w)' THEN 1 ELSE 0)
  BY <1>2, <1>5, OneInOrOut
<1> QED
  BY <1>3, <1>4, <1>6, <1>7

LEMMA Counted ==
  ASSUME LoginTypes, NEW w \in Wallets, NEW q \in LoginRecord
  PROVE  /\ logins[w] \in Nat /\ stored[w] \in Nat /\ lastNonce \in Nat
         /\ Present(w) \in {0, 1} /\ AdmittedBy(q, w) \in {0, 1} /\ StoringBy(q, w) \in {0, 1}
  BY LoginAssumption DEF LoginTypes, Present, AdmittedBy, StoringBy

\* Nothing that is counted against the nonces stored, or against those generated,
\* grows by more than they do.
LEMMA NoncesStayEnough ==
  ASSUME LoginInv, NEW r \in LoginRequests, NEW q \in LoginRecord,
         loginReq' = [loginReq EXCEPT ![r] = q], LoginTypes',
         \A w \in Wallets :
           /\ logins'[w] + AdmittedBy(q, w) + Present(w)' + stored[w]
                <= logins[w] + AdmittedBy(loginReq[r], w) + Present(w) + stored'[w]
           /\ stored'[w] + StoringBy(q, w) + lastNonce <= stored[w] + StoringBy(loginReq[r], w) + lastNonce'
  PROVE  LoginInv'
<1>1. LoginTypes /\ loginReq[r] \in LoginRecord
  BY DEF LoginInv, LoginTypes
<1>2. ASSUME NEW w \in Wallets
      PROVE  IsFiniteSet(Admitted(w)') /\ IsFiniteSet(Storing(w)') /\ NoncesAddUp(w)'
  <2>1. NoncesAddUp(w)
    BY DEF LoginInv
  <2>2. /\ logins'[w] \in Nat /\ stored'[w] \in Nat /\ lastNonce' \in Nat /\ Present(w)' \in {0, 1}
    BY LoginAssumption DEF LoginTypes, Present
  <2>3. /\ logins[w] \in Nat /\ stored[w] \in Nat /\ lastNonce \in Nat /\ Present(w) \in {0, 1}
        /\ AdmittedBy(q, w) \in {0, 1} /\ StoringBy(q, w) \in {0, 1}
        /\ AdmittedBy(loginReq[r], w) \in {0, 1} /\ StoringBy(loginReq[r], w) \in {0, 1}
    BY <1>1, Counted
  <2>4. /\ IsFiniteSet(Admitted(w)') /\ IsFiniteSet(Storing(w)')
        /\ Cardinality(Admitted(w)) \in Nat /\ Cardinality(Admitted(w)') \in Nat
        /\ Cardinality(Storing(w)) \in Nat /\ Cardinality(Storing(w)') \in Nat
        /\ Cardinality(Admitted(w)') =
              Cardinality(Admitted(w)) - AdmittedBy(loginReq[r], w) + AdmittedBy(q, w)
        /\ Cardinality(Storing(w)') =
              Cardinality(Storing(w)) - StoringBy(loginReq[r], w) + StoringBy(q, w)
    BY OneRequestMoves
  <2>5. /\ logins[w] + Cardinality(Admitted(w)) + Present(w) <= stored[w]
        /\ stored[w] + Cardinality(Storing(w)) <= lastNonce
    BY <2>1 DEF NoncesAddUp
  <2>6. /\ logins'[w] + Cardinality(Admitted(w)') + Present(w)' <= stored'[w]
        /\ stored'[w] + Cardinality(Storing(w)') <= lastNonce'
    BY <2>2, <2>3, <2>4, <2>5
  <2> QED
    BY <2>4, <2>6 DEF NoncesAddUp
<1> QED
  BY <1>2 DEF LoginInv

LEMMA LoginInitially == LoginInit => LoginInv
<1> SUFFICES ASSUME LoginInit PROVE LoginInv
  OBVIOUS
<1>1. LoginTypes
  BY LoginAssumption DEF LoginInit, LoginTypes, LoginRecord, NoRow, NoRequest
<1>2. \A w \in Wallets : Admitted(w) = {} /\ Storing(w) = {}
  BY DEF LoginInit, Admitted, Storing, NoRequest
<1>3. \A w \in Wallets : Present(w) = 0 /\ logins[w] = 0 /\ stored[w] = 0 /\ lastNonce = 0
  BY DEF LoginInit, Present
<1> QED
  BY <1>1, <1>2, <1>3, FS_EmptySet DEF LoginInv, NoncesAddUp

LEMMA LoginSteps ==
  ASSUME LoginInv, [LoginNext]_loginVars
  PROVE  LoginInv'
<1> USE LoginAssumption DEF loginHistory
<1>1. NoRequest \in LoginRecord /\ NoRequest.pc = "idle"
  BY DEF NoRequest, LoginRecord
<1>2. LoginTypes
  BY DEF LoginInv
<1>3. ASSUME NEW w \in Wallets PROVE AdmittedBy(NoRequest, w) = 0 /\ StoringBy(NoRequest, w) = 0
  BY DEF NoRequest, AdmittedBy, StoringBy
<1>4. ASSUME NEW r \in LoginRequests, NEW w \in Wallets, LookUpRow(r, w)
      PROVE  LoginInv'
  <2> DEFINE q == [pc |-> IF authNonce[w] = NoRow THEN "create" ELSE "update",
                   wallet |-> w, nonce |-> lastNonce + 1]
  <2>1. /\ loginReq[r] = NoRequest /\ lastNonce < MaxNonces /\ lastNonce' = lastNonce + 1
        /\ loginReq' = [loginReq EXCEPT ![r] = q]
        /\ UNCHANGED <<authNonce, given, tokens, stored, logins, uses>>
    BY <1>4 DEF LookUpRow, NoLogin
  <2>2. q \in LoginRecord /\ q.pc \in {"create", "update"} /\ q.wallet = w /\ q.nonce > 0
    BY <1>2, <2>1 DEF LoginRecord, LoginTypes
  <2> HIDE DEF q
  <2>3. LoginTypes'
    BY <1>2, <2>1, <2>2 DEF LoginTypes
  <2>4. ASSUME NEW v \in Wallets
        PROVE  Present(v)' = Present(v) /\ AdmittedBy(q, v) = 0 /\ StoringBy(q, v) \in {0, 1}
    BY <2>1, <2>2 DEF Present, AdmittedBy, StoringBy
  <2>5. ASSUME NEW v \in Wallets
        PROVE  /\ logins'[v] + AdmittedBy(q, v) + Present(v)' + stored[v]
                    <= logins[v] + AdmittedBy(loginReq[r], v) + Present(v) + stored'[v]
               /\ stored'[v] + StoringBy(q, v) + lastNonce <= stored[v] + StoringBy(loginReq[r], v) + lastNonce'
    <3>1. /\ logins[v] \in Nat /\ stored[v] \in Nat /\ lastNonce \in Nat /\ Present(v) \in {0, 1}
      BY <1>1, <1>2, Counted
    <3> QED
      BY <1>3, <2>1, <2>4, <3>1
  <2> QED
    BY <2>1, <2>2, <2>3, <2>5, NoncesStayEnough
<1>5. ASSUME NEW r \in LoginRequests, StoreNonce(r)
      PROVE  LoginInv'
  <2> DEFINE w == loginReq[r].wallet
             n == loginReq[r].nonce
  <2>1. /\ loginReq[r].pc \in {"create", "update"} /\ loginReq' = [loginReq EXCEPT ![r] = NoRequest]
        /\ UNCHANGED <<lastNonce, tokens, logins, uses>>
    BY <1>5 DEF StoreNonce, EndLogin
  <2>2. w \in Wallets /\ n \in 1..MaxNonces
    BY <1>2, <2>1 DEF LoginTypes, LoginRecord
  <2>3. Row(n) \in [nonce : 0..MaxNonces, expired : BOOLEAN]
    BY <2>2 DEF Row
  <2>4. \/ UNCHANGED <<authNonce, given, stored>>
        \/ /\ authNonce' = [authNonce EXCEPT ![w] = Row(n)]
           /\ given' = [given EXCEPT ![w] = @ \cup {n}]
           /\ stored' = [stored EXCEPT ![w] = @ + 1]
    BY <1>5 DEF StoreNonce
  <2>5. \A v \in Wallets : StoringBy(loginReq[r], v) = IF v = w THEN 1 ELSE 0
    BY <2>1 DEF StoringBy
  <2> HIDE DEF w, n
  <2>6. LoginTypes'
    <3>1. loginReq' \in [LoginRequests -> LoginRecord] /\ \A s \in LoginRequests : loginReq'[s] \in {NoRequest, loginReq[s]}
      BY <1>1, <1>2, <2>1 DEF LoginTypes
    <3>2. authNonce' \in [Wallets -> [nonce : 0..MaxNonces, expired : BOOLEAN]]
      BY <1>2, <2>2, <2>3, <2>4 DEF LoginTypes
    <3>3. given' \in [Wallets -> SUBSET (1..MaxNonces)]
      <4>1. given[w] \cup {n} \in SUBSET (1..MaxNonces)
        BY <1>2, <2>2 DEF LoginTypes
      <4> QED
        BY <1>2, <2>2, <2>4, <4>1 DEF LoginTypes
    <3>4. stored' \in [Wallets -> Nat]
      BY <1>2, <2>2, <2>4 DEF LoginTypes
    <3> QED
      BY <1>1, <1>2, <2>1, <3>1, <3>2, <3>3, <3>4 DEF LoginTypes, NoRequest
  <2>7. ASSUME NEW v \in Wallets
        PROVE  \/ Present(v)' = Present(v) /\ stored'[v] = stored[v]
               \/ v = w /\ Present(v)' \in {0, 1} /\ stored'[v] = stored[v] + 1
    BY <1>2, <2>4 DEF Present, LoginTypes
  <2>8. ASSUME NEW v \in Wallets
        PROVE  /\ logins'[v] + AdmittedBy(NoRequest, v) + Present(v)' + stored[v]
                    <= logins[v] + AdmittedBy(loginReq[r], v) + Present(v) + stored'[v]
               /\ stored'[v] + StoringBy(NoRequest, v) + lastNonce
                    <= stored[v] + StoringBy(loginReq[r], v) + lastNonce'
    <3>1. /\ logins[v] \in Nat /\ stored[v] \in Nat /\ lastNonce \in Nat /\ Present(v) \in {0, 1}
          /\ AdmittedBy(loginReq[r], v) \in {0, 1}
      BY <1>1, <1>2, Counted DEF LoginTypes
    <3> QED
      BY <1>3, <2>1, <2>5, <2>7, <3>1
  <2> QED
    BY <1>1, <2>1, <2>6, <2>8, NoncesStayEnough
<1>6. ASSUME NEW r \in LoginRequests, NEW w \in Wallets, NEW n \in given[w], CheckNonce(r, w, n)
      PROVE  LoginInv'
  <2>1. /\ loginReq[r] = NoRequest
        /\ UNCHANGED <<authNonce, lastNonce, given, tokens, stored, logins, uses>>
    BY <1>6 DEF CheckNonce, NoLogin
  <2>2. PICK pc \in {"expire", "consume"} :
          loginReq' = [loginReq EXCEPT ![r] = [pc |-> pc, wallet |-> w, nonce |-> n]]
    BY <1>6 DEF CheckNonce
  <2> DEFINE q == [pc |-> pc, wallet |-> w, nonce |-> n]
  <2>3. q \in LoginRecord /\ q.pc \in {"expire", "consume"} /\ q.wallet \in Wallets /\ q.nonce > 0
    BY <1>2 DEF LoginRecord, LoginTypes
  <2> HIDE DEF q
  <2>4. LoginTypes'
    BY <1>2, <2>1, <2>2, <2>3 DEF LoginTypes, q
  <2>5. ASSUME NEW v \in Wallets
        PROVE  Present(v)' = Present(v) /\ AdmittedBy(q, v) = 0 /\ StoringBy(q, v) = 0
    BY <2>1, <2>3 DEF Present, AdmittedBy, StoringBy
  <2>6. ASSUME NEW v \in Wallets
        PROVE  /\ logins'[v] + AdmittedBy(q, v) + Present(v)' + stored[v]
                    <= logins[v] + AdmittedBy(loginReq[r], v) + Present(v) + stored'[v]
               /\ stored'[v] + StoringBy(q, v) + lastNonce <= stored[v] + StoringBy(loginReq[r], v) + lastNonce'
    <3>1. /\ logins[v] \in Nat /\ stored[v] \in Nat /\ lastNonce \in Nat /\ Present(v) \in {0, 1}
      BY <1>1, <1>2, Counted
    <3> QED
      BY <1>3, <2>1, <2>5, <3>1
  <2>7. loginReq' = [loginReq EXCEPT ![r] = q]
    BY <2>2 DEF q
  <2> QED
    BY <2>3, <2>4, <2>6, <2>7, NoncesStayEnough
<1>7. ASSUME NEW r \in LoginRequests, DeleteExpired(r) \/ ConsumeNonce(r)
      PROVE  LoginInv'
  <2> DEFINE w == loginReq[r].wallet
  <2>1. /\ loginReq[r].pc \in {"expire", "consume"} /\ authNonce' = [authNonce EXCEPT ![w] = NoRow]
        /\ UNCHANGED <<lastNonce, given, tokens, stored, logins, uses>>
    BY <1>7 DEF DeleteExpired, ConsumeNonce, LoginAt, DeleteRow
  <2>2. w \in Wallets /\ loginReq[r] \in LoginRecord
    BY <1>2, <2>1 DEF LoginTypes
  <2>3. PICK q : /\ loginReq' = [loginReq EXCEPT ![r] = q]
                 /\ q = NoRequest \/ (q = [loginReq[r] EXCEPT !.pc = "user"] /\ authNonce[w] # NoRow)
    BY <1>7 DEF DeleteExpired, ConsumeNonce, EndLogin, Deletes
  <2>4. q \in LoginRecord /\ (q.pc # "idle" => q.wallet = w /\ q.nonce = loginReq[r].nonce) /\ q.pc \notin {"create", "update"}
    BY <1>1, <2>2, <2>3 DEF LoginRecord
  <2>5. q.pc = "user" => q.wallet = w /\ authNonce[w] # NoRow
    BY <1>1, <2>3, <2>4
  <2> HIDE DEF w
  <2>6. LoginTypes'
    BY <1>2, <2>1, <2>2, <2>3, <2>4 DEF LoginTypes, NoRow
  <2>7. ASSUME NEW v \in Wallets
        PROVE  /\ Present(v)' + AdmittedBy(q, v) <= Present(v) /\ StoringBy(q, v) = 0
               /\ AdmittedBy(loginReq[r], v) = 0 /\ StoringBy(loginReq[r], v) = 0
    <3>1. authNonce'[v] = IF v = w THEN NoRow ELSE authNonce[v]
      BY <1>2, <2>1 DEF LoginTypes
    <3> QED
      BY <2>1, <2>4, <2>5, <3>1 DEF Present, AdmittedBy, StoringBy
  <2>8. ASSUME NEW v \in Wallets
        PROVE  /\ logins'[v] + AdmittedBy(q, v) + Present(v)' + stored[v]
                    <= logins[v] + AdmittedBy(loginReq[r], v) + Present(v) + stored'[v]
               /\ stored'[v] + StoringBy(q, v) + lastNonce <= stored[v] + StoringBy(loginReq[r], v) + lastNonce'
    <3>1. /\ logins[v] \in Nat /\ stored[v] \in Nat /\ lastNonce \in Nat /\ Present(v) \in {0, 1}
          /\ AdmittedBy(q, v) \in {0, 1} /\ Present(v)' \in {0, 1}
      BY <1>2, <2>4, Counted DEF Present
    <3> QED
      BY <2>1, <2>7, <3>1
  <2> QED
    BY <2>3, <2>4, <2>6, <2>8, NoncesStayEnough
<1>8. ASSUME NEW r \in LoginRequests, IssueToken(r)
      PROVE  LoginInv'
  <2> DEFINE w == loginReq[r].wallet
  <2>1. /\ loginReq[r].pc = "user" /\ loginReq' = [loginReq EXCEPT ![r] = NoRequest]
        /\ UNCHANGED <<authNonce, lastNonce, given, stored>>
    BY <1>8 DEF IssueToken, LoginAt, EndLogin
  <2>2. \/ /\ tokens' = tokens \cup {w} /\ logins' = [logins EXCEPT ![w] = @ + 1]
           /\ uses' = [uses EXCEPT ![loginReq[r].nonce] = @ + 1]
        \/ UNCHANGED <<tokens, logins, uses>>
    BY <1>8 DEF IssueToken
  <2>3. w \in Wallets
    BY <1>2, <2>1 DEF LoginTypes
  <2>4. \A v \in Wallets : AdmittedBy(loginReq[r], v) = IF v = w THEN 1 ELSE 0
    BY <2>1 DEF AdmittedBy
  <2> HIDE DEF w
  <2>5. LoginTypes'
    <3>1. tokens' \subseteq Wallets /\ logins' \in [Wallets -> Nat] /\ uses' \in [1..MaxNonces -> Nat]
      <4>1. loginReq[r].nonce \in 0..MaxNonces /\ loginReq[r].nonce > 0
        BY <1>2, <2>1 DEF LoginTypes, LoginRecord
      <4>2. loginReq[r].nonce \in 1..MaxNonces
        BY <4>1
      <4>3. PICK n : n = loginReq[r].nonce
        OBVIOUS
      <4>4. uses' = [uses EXCEPT ![n] = @ + 1] \/ uses' = uses
        BY <2>2, <4>3
      <4>5. uses \in [1..MaxNonces -> Nat] /\ n \in 1..MaxNonces
        BY <1>2, <4>2, <4>3 DEF LoginTypes
      <4>6. uses' \in [1..MaxNonces -> Nat]
        BY <4>4, <4>5
      <4>7. \/ tokens' = tokens \cup {w} /\ logins' = [logins EXCEPT ![w] = @ + 1]
            \/ UNCHANGED <<tokens, logins>>
        BY <2>2
      <4>8. tokens \subseteq Wallets /\ logins \in [Wallets -> Nat]
        BY <1>2 DEF LoginTypes
      <4> QED
        BY <2>3, <4>6, <4>7, <4>8
    <3>2. NoRequest \in LoginRecord
      BY <1>1, <1>2 DEF NoRequest, LoginRecord, LoginTypes
    <3>3. /\ loginReq' \in [LoginRequests -> LoginRecord]
          /\ \A x \in LoginRequests : loginReq'[x] = IF x = r THEN NoRequest ELSE loginReq[x]
      BY <1>2, <2>1, <3>2 DEF LoginTypes
    <3>4. \A x \in LoginRequests :
            loginReq'[x].pc # "idle" => loginReq'[x].wallet \in Wallets /\ loginReq'[x].nonce > 0
      BY <1>2, <3>3 DEF LoginTypes, NoRequest
    <3> QED
      BY <1>2, <2>1, <3>1, <3>3, <3>4 DEF LoginTypes
  <2>6. ASSUME NEW v \in Wallets
        PROVE  Present(v)' = Present(v) /\ StoringBy(loginReq[r], v) = 0
               /\ (logins'[v] = logins[v] \/ (v = w /\ logins'[v] = logins[v] + 1))
    BY <1>2, <2>1, <2>2 DEF Present, StoringBy, LoginTypes
  <2>7. ASSUME NEW v \in Wallets
        PROVE  /\ logins'[v] + AdmittedBy(NoRequest, v) + Present(v)' + stored[v]
                    <= logins[v] + AdmittedBy(loginReq[r], v) + Present(v) + stored'[v]
               /\ stored'[v] + StoringBy(NoRequest, v) + lastNonce
                    <= stored[v] + StoringBy(loginReq[r], v) + lastNonce'
    <3>1. /\ logins[v] \in Nat /\ stored[v] \in Nat /\ lastNonce \in Nat /\ Present(v) \in {0, 1}
      BY <1>1, <1>2, Counted
    <3> QED
      BY <1>3, <2>1, <2>4, <2>6, <3>1
  <2> QED
    BY <1>1, <2>1, <2>5, <2>7, NoncesStayEnough
<1>9. ASSUME UNCHANGED <<lastNonce, given, loginReq, stored, logins, uses>>,
             UNCHANGED <<authNonce, tokens>> \/ \E w \in Wallets : NonceExpires(w) \/ TokenExpires(w)
      PROVE  LoginInv'
  <2>1. LoginTypes'
    <3>1. CASE UNCHANGED <<authNonce, tokens>>
      BY <1>2, <1>9, <3>1 DEF LoginTypes
    <3>2. ASSUME NEW w \in Wallets, NonceExpires(w) PROVE LoginTypes'
      BY <1>2, <1>9, <3>2 DEF LoginTypes, NonceExpires
    <3>3. ASSUME NEW w \in Wallets, TokenExpires(w) PROVE LoginTypes'
      BY <1>2, <1>9, <3>3 DEF LoginTypes, TokenExpires
    <3> QED
      BY <1>9, <3>1, <3>2, <3>3
  <2>2. ASSUME NEW w \in Wallets
        PROVE  Admitted(w)' = Admitted(w) /\ Storing(w)' = Storing(w)
    BY <1>9 DEF Admitted, Storing
  <2>3. ASSUME NEW w \in Wallets PROVE Present(w)' = Present(w)
    <3>1. CASE UNCHANGED authNonce
      BY <3>1 DEF Present
    <3>2. ASSUME NEW v \in Wallets, NonceExpires(v) PROVE Present(w)' = Present(w)
      BY <1>2, <3>2 DEF Present, NonceExpires, LoginTypes, NoRow
    <3>3. ASSUME NEW v \in Wallets, TokenExpires(v) PROVE UNCHANGED authNonce
      BY <3>3 DEF TokenExpires
    <3> QED
      BY <1>9, <3>1, <3>2, <3>3
  <2> QED
    BY <1>9, <2>1, <2>2, <2>3 DEF LoginInv, NoncesAddUp
<1>10. CASE LoginNext
  <2>1. CASE \E r \in LoginRequests : \/ StoreNonce(r) \/ DeleteExpired(r) \/ ConsumeNonce(r) \/ IssueToken(r)
                                     \/ \E w \in Wallets : LookUpRow(r, w)
                                                          \/ \E n \in given[w] : CheckNonce(r, w, n)
    BY <1>4, <1>5, <1>6, <1>7, <1>8, <2>1
  <2>2. ASSUME NEW w \in Wallets, NonceExpires(w) \/ TokenExpires(w)
        PROVE  LoginInv'
    <3>1. UNCHANGED <<lastNonce, given, loginReq, stored, logins, uses>>
      BY <2>2 DEF NonceExpires, TokenExpires
    <3> QED
      BY <1>9, <2>2, <3>1
  <2> QED
    BY <1>10, <2>1, <2>2 DEF LoginNext
<1>11. CASE UNCHANGED loginVars
  BY <1>9, <1>11 DEF loginVars
<1> QED
  BY <1>10, <1>11

LEMMA LoginsHold == LoginSpec => []LoginInv
<1>1. ASSUME LoginInv, [LoginNext]_loginVars PROVE LoginInv'
  BY <1>1, LoginSteps
<1> QED
  BY <1>1, LoginInitially, PTL DEF LoginSpec

\* The variables of the login have their types; in particular no wallet has
\* more nonces stored than were generated (generateNonce, verifySignature).
THEOREM LoginTypesAreRight == LoginSpec => []LoginTypeOK
<1>1. LoginInv => LoginTypeOK
  <2> SUFFICES ASSUME LoginInv PROVE LoginTypeOK
    OBVIOUS
  <2>1. stored \in [Wallets -> 0..MaxNonces]
    <3>1. ASSUME NEW w \in Wallets PROVE stored[w] \in 0..MaxNonces
      <4>1. Cardinality(Storing(w)) \in Nat /\ stored[w] + Cardinality(Storing(w)) <= lastNonce
            /\ lastNonce \in 0..MaxNonces /\ stored[w] \in Nat
        BY FS_CardinalityType DEF LoginInv, LoginTypes, NoncesAddUp
      <4> QED
        BY <4>1, LoginAssumption
    <3> QED
      BY <3>1 DEF LoginInv, LoginTypes
  <2> QED
    BY <2>1 DEF LoginInv, LoginTypes, LoginRecord, LoginTypeOK
<1> QED
  BY <1>1, LoginsHold, PTL

\* Whatever requests for a wallet overlap, each login has taken a row away, so
\* there are no more of them than nonces stored (verifySignature, generateNonce).
THEOREM LoginsAreBounded == LoginSpec => []LoginsUseUpNonces
<1>1. LoginInv => LoginsUseUpNonces
  <2> SUFFICES ASSUME LoginInv, NEW w \in Wallets PROVE logins[w] <= stored[w]
    BY DEF LoginsUseUpNonces
  <2>1. /\ logins[w] + Cardinality(Admitted(w)) + Present(w) <= stored[w] /\ Cardinality(Admitted(w)) \in Nat
        /\ Present(w) \in {0, 1} /\ logins[w] \in Nat /\ stored[w] \in Nat
    BY FS_CardinalityType DEF LoginInv, NoncesAddUp, Present, LoginTypes
  <2> QED
    BY <2>1
<1> QED
  BY <1>1, LoginsHold, PTL

\* Where the nonces are.  One that was given to a client is no other's and is not
\* stored again, so the row it has left stays without it.
Storer(r)    == loginReq[r].pc \in {"create", "update"}
Presenter(r) == loginReq[r].pc \in {"expire", "consume", "user"}

NoncesGiven ==
  /\ \A w \in Wallets : \A n \in given[w] : n <= lastNonce
  /\ \A v, w \in Wallets : \A n \in given[v] : n \in given[w] => v = w

StoringAreNew ==
  /\ \A r \in LoginRequests : Storer(r) =>
       /\ loginReq[r].nonce <= lastNonce
       /\ \A w \in Wallets : loginReq[r].nonce \notin given[w]
  /\ \A r, s \in LoginRequests :
       Storer(r) /\ Storer(s) /\ loginReq[r].nonce = loginReq[s].nonce => r = s

PresentedAreGiven ==
  \A r \in LoginRequests : Presenter(r) =>
    /\ loginReq[r].nonce \in given[loginReq[r].wallet]
    /\ loginReq[r].pc = "user" => authNonce[loginReq[r].wallet].nonce # loginReq[r].nonce

UsedAreGone ==
  \A n \in 1..MaxNonces : uses[n] > 0 =>
    \E w \in Wallets : n \in given[w] /\ authNonce[w].nonce # n

NonceInv ==
  /\ LoginTypes
  /\ NoncesGiven /\ StoringAreNew /\ PresentedAreGiven /\ UsedAreGone

\* A request's move that leaves the nonces where they are.
LEMMA RequestKeepsNonces ==
  ASSUME NonceInv, LoginTypes', NEW r \in LoginRequests, NEW q, loginReq' = [loginReq EXCEPT ![r] = q],
         q.pc \notin {"create", "update"},
         q.pc \in {"expire", "consume", "user"} => q.nonce \in given[q.wallet],
         q.pc = "user" => authNonce'[q.wallet].nonce # q.nonce,
         UNCHANGED <<lastNonce, given, uses>>,
         \A w \in Wallets : authNonce'[w].nonce \in {0, authNonce[w].nonce}
  PROVE  NonceInv'
<1>1. \A s \in LoginRequests : loginReq'[s] = IF s = r THEN q ELSE loginReq[s]
  BY DEF NonceInv, LoginTypes
<1>2. NoncesGiven'
  BY DEF NonceInv, NoncesGiven
<1>3. StoringAreNew'
  BY <1>1 DEF NonceInv, StoringAreNew, Storer
<1>4. PresentedAreGiven'
  <2> SUFFICES ASSUME NEW s \in LoginRequests, Presenter(s)'
               PROVE  /\ loginReq'[s].nonce \in given[loginReq'[s].wallet]
                      /\ loginReq'[s].pc = "user" =>
                           authNonce'[loginReq'[s].wallet].nonce # loginReq'[s].nonce
    BY DEF PresentedAreGiven
  <2>1. CASE s = r
    BY <1>1, <2>1 DEF Presenter
  <2>2. CASE s # r
    <3>1. loginReq'[s] = loginReq[s] /\ Presenter(s)
      BY <1>1, <2>2 DEF Presenter
    <3>2. loginReq[s].wallet \in Wallets /\ loginReq[s].nonce > 0
      BY <3>1 DEF NonceInv, LoginTypes, Presenter
    <3> QED
      BY <3>1, <3>2 DEF NonceInv, PresentedAreGiven
  <2> QED
    BY <2>1, <2>2
<1>5. UsedAreGone'
  BY DEF NonceInv, UsedAreGone
<1> QED
  BY <1>2, <1>3, <1>4, <1>5 DEF NonceInv

LEMMA NonceSteps ==
  ASSUME NonceInv, LoginTypes', [LoginNext]_loginVars
  PROVE  NonceInv'
<1> USE DEF loginHistory
<1>0. LoginTypes
  BY DEF NonceInv
<1>1. ASSUME NEW r \in LoginRequests, NEW w \in Wallets, LookUpRow(r, w)
      PROVE  NonceInv'
  <2>1. /\ lastNonce' = lastNonce + 1 /\ lastNonce \in Nat /\ UNCHANGED <<authNonce, given, uses>>
        /\ loginReq[r] = NoRequest
    BY <1>0, <1>1, LoginAssumption DEF LookUpRow, NoLogin, LoginTypes
  <2> DEFINE q == [pc |-> IF authNonce[w] = NoRow THEN "create" ELSE "update",
                   wallet |-> w, nonce |-> lastNonce + 1]
  <2>2. /\ loginReq' = [loginReq EXCEPT ![r] = q] /\ q.nonce = lastNonce + 1
        /\ q.pc \in {"create", "update"}
    BY <1>1 DEF LookUpRow
  <2> HIDE DEF q
  <2>3. \A s \in LoginRequests : loginReq'[s] = IF s = r THEN q ELSE loginReq[s]
    BY <1>0, <2>2 DEF LoginTypes
  <2>4. \A v \in Wallets : \A n \in given[v] : n \in Nat /\ n <= lastNonce
    BY <1>0 DEF NonceInv, NoncesGiven, LoginTypes
  <2>5. NoncesGiven'
    BY <2>1, <2>4 DEF NonceInv, NoncesGiven
  <2>6. StoringAreNew'
    <3>1. \A s \in LoginRequests : s # r /\ Storer(s)' =>
            /\ Storer(s) /\ loginReq'[s] = loginReq[s]
            /\ loginReq[s].nonce \in Nat /\ loginReq[s].nonce <= lastNonce
      BY <1>0, <2>3 DEF NonceInv, StoringAreNew, Storer, LoginTypes, LoginRecord
    <3>2. \A v \in Wallets : q.nonce \notin given[v]
      BY <2>1, <2>2, <2>4
    <3> QED
      BY <2>1, <2>2, <2>3, <3>1, <3>2 DEF NonceInv, StoringAreNew
  <2>7. PresentedAreGiven' /\ UsedAreGone'
    BY <2>1, <2>2, <2>3 DEF NonceInv, PresentedAreGiven, Presenter, UsedAreGone
  <2> QED
    BY <2>5, <2>6, <2>7 DEF NonceInv
<1>2. ASSUME NEW r \in LoginRequests, StoreNonce(r), authNonce' # authNonce \/ given' # given
      PROVE  NonceInv'
  <2>1. PICK w, n : w = loginReq[r].wallet /\ n = loginReq[r].nonce
    OBVIOUS
  <2>2. /\ authNonce' = [authNonce EXCEPT ![w] = Row(n)] /\ given' = [given EXCEPT ![w] = @ \cup {n}]
        /\ Storer(r) /\ loginReq' = [loginReq EXCEPT ![r] = NoRequest] /\ UNCHANGED <<lastNonce, uses>>
    BY <1>2, <2>1 DEF StoreNonce, Storer, EndLogin
  <2>3. w \in Wallets /\ n <= lastNonce /\ \A v \in Wallets : n \notin given[v]
    BY <1>0, <2>1, <2>2 DEF NonceInv, StoringAreNew, Storer, LoginTypes
  <2>4. /\ \A s \in LoginRequests : loginReq'[s] = IF s = r THEN NoRequest ELSE loginReq[s]
        /\ \A v \in Wallets : /\ given'[v] = IF v = w THEN given[v] \cup {n} ELSE given[v]
                              /\ authNonce'[v].nonce = IF v = w THEN n ELSE authNonce[v].nonce
    BY <1>0, <2>2, <2>3 DEF LoginTypes, Row
  <2>5. NoncesGiven'
    BY <2>2, <2>3, <2>4 DEF NonceInv, NoncesGiven
  <2>6. StoringAreNew'
    <3>1. \A s \in LoginRequests : Storer(s)' =>
            s # r /\ Storer(s) /\ loginReq'[s] = loginReq[s] /\ loginReq[s].nonce # n
      BY <2>1, <2>2, <2>4 DEF NonceInv, StoringAreNew, Storer, NoRequest
    <3> QED
      BY <2>2, <2>4, <3>1 DEF NonceInv, StoringAreNew
  <2>7. PresentedAreGiven'
    <3>1. \A s \in LoginRequests : Presenter(s)' => Presenter(s) /\ loginReq'[s] = loginReq[s]
                                                   /\ loginReq[s].wallet \in Wallets
      BY <1>0, <2>4 DEF Presenter, NoRequest, LoginTypes
    <3> SUFFICES ASSUME NEW s \in LoginRequests, Presenter(s)'
                 PROVE  /\ loginReq'[s].nonce \in given'[loginReq'[s].wallet]
                        /\ loginReq'[s].pc = "user" =>
                             authNonce'[loginReq'[s].wallet].nonce # loginReq'[s].nonce
      BY DEF PresentedAreGiven
    <3>2. PICK p : p = loginReq[s]
      OBVIOUS
    <3>3. loginReq'[s] = p /\ p.wallet \in Wallets /\ Presenter(s)
      BY <3>1, <3>2
    <3>4. p.nonce \in given[p.wallet] /\ (p.pc = "user" => authNonce[p.wallet].nonce # p.nonce)
      BY <3>2, <3>3 DEF NonceInv, PresentedAreGiven
    <3>5. p.nonce # n
      BY <2>3, <3>3, <3>4
    <3> QED
      BY <2>4, <3>3, <3>4, <3>5
  <2>8. UsedAreGone'
    BY <2>2, <2>3, <2>4 DEF NonceInv, UsedAreGone
  <2> QED
    BY <2>5, <2>6, <2>7, <2>8 DEF NonceInv
<1>3. ASSUME NEW r \in LoginRequests, StoreNonce(r), UNCHANGED <<authNonce, given>>
      PROVE  NonceInv'
  <2>1. loginReq' = [loginReq EXCEPT ![r] = NoRequest] /\ UNCHANGED <<lastNonce, uses>>
    BY <1>3 DEF StoreNonce, EndLogin
  <2> QED
    BY <1>3, <2>1, RequestKeepsNonces DEF NoRequest
<1>4. ASSUME NEW r \in LoginRequests, NEW w \in Wallets, NEW n \in given[w], CheckNonce(r, w, n)
      PROVE  NonceInv'
  <2>0. PICK pc \in {"expire", "consume"} :
          loginReq' = [loginReq EXCEPT ![r] = [pc |-> pc, wallet |-> w, nonce |-> n]]
    BY <1>4 DEF CheckNonce
  <2> DEFINE q == [pc |-> pc, wallet |-> w, nonce |-> n]
  <2>1. /\ loginReq' = [loginReq EXCEPT ![r] = q]
        /\ q.pc \in {"expire", "consume"} /\ q.wallet = w /\ q.nonce = n
    BY <2>0
  <2> HIDE DEF q
  <2>2. UNCHANGED <<authNonce, lastNonce, given, uses>>
    BY <1>4 DEF CheckNonce
  <2> QED
    BY <2>1, <2>2, RequestKeepsNonces
<1>5. ASSUME NEW r \in LoginRequests, DeleteExpired(r) \/ ConsumeNonce(r)
      PROVE  NonceInv'
  <2>1. PICK p : p = loginReq[r]
    OBVIOUS
  <2>2. /\ p.pc \in {"expire", "consume"} /\ authNonce' = [authNonce EXCEPT ![p.wallet] = NoRow]
        /\ UNCHANGED <<lastNonce, given, uses>>
    BY <1>5, <2>1 DEF DeleteExpired, ConsumeNonce, LoginAt, DeleteRow
  <2>3. PICK q : loginReq' = [loginReq EXCEPT ![r] = q] /\ (q = NoRequest \/ q = [p EXCEPT !.pc = "user"])
    BY <1>5, <2>1 DEF DeleteExpired, ConsumeNonce, EndLogin
  <2>4. p \in LoginRecord /\ p.wallet \in Wallets /\ p.nonce > 0 /\ p.nonce \in given[p.wallet]
    BY <1>0, <2>1, <2>2 DEF LoginTypes, NonceInv, PresentedAreGiven, Presenter
  <2>5. q.pc = "idle" \/ (q.pc = "user" /\ q.wallet = p.wallet /\ q.nonce = p.nonce)
    BY <2>3, <2>4 DEF NoRequest, LoginRecord
  <2>6. \A w \in Wallets : authNonce'[w].nonce = IF w = p.wallet THEN 0 ELSE authNonce[w].nonce
    BY <1>0, <2>2 DEF LoginTypes, NoRow
  <2>7. /\ q.pc \notin {"create", "update"}
        /\ q.pc \in {"expire", "consume", "user"} => q.nonce \in given[q.wallet]
        /\ q.pc = "user" => authNonce'[q.wallet].nonce # q.nonce
        /\ \A w \in Wallets : authNonce'[w].nonce \in {0, authNonce[w].nonce}
    BY <2>4, <2>5, <2>6
  <2>8. loginReq' = [loginReq EXCEPT ![r] = q]
    BY <2>3
  <2> QED
    BY <2>2, <2>7, <2>8, RequestKeepsNonces
<1>6. ASSUME NEW r \in LoginRequests, IssueToken(r)
      PROVE  NonceInv'
  <2>1. PICK p : p = loginReq[r]
    OBVIOUS
  <2>2. /\ p.pc = "user" /\ loginReq' = [loginReq EXCEPT ![r] = NoRequest]
        /\ UNCHANGED <<authNonce, lastNonce, given>>
        /\ uses' = [uses EXCEPT ![p.nonce] = @ + 1] \/ UNCHANGED uses
    BY <1>6, <2>1 DEF IssueToken, LoginAt, EndLogin
  <2>3. p.wallet \in Wallets /\ p.nonce \in given[p.wallet] /\ authNonce[p.wallet].nonce # p.nonce
    BY <1>0, <2>1, <2>2 DEF LoginTypes, NonceInv, PresentedAreGiven, Presenter
  <2>4. \A s \in LoginRequests : loginReq'[s] = IF s = r THEN NoRequest ELSE loginReq[s]
    BY <1>0, <2>2 DEF LoginTypes
  <2>5. NoncesGiven' /\ StoringAreNew' /\ PresentedAreGiven'
    BY <2>2, <2>4 DEF NonceInv, NoncesGiven, StoringAreNew, PresentedAreGiven, Storer, Presenter, NoRequest
  <2>6. \A n \in 1..MaxNonces : n = p.nonce \/ uses'[n] = uses[n]
    BY <1>0, <2>2 DEF LoginTypes
  <2>7. UsedAreGone'
    BY <2>2, <2>3, <2>6 DEF NonceInv, UsedAreGone
  <2> QED
    BY <2>5, <2>7 DEF NonceInv
<1>7. ASSUME UNCHANGED <<lastNonce, given, loginReq, uses>>,
             \A w \in Wallets : authNonce'[w].nonce = authNonce[w].nonce
      PROVE  NonceInv'
  <2>1. \A r \in LoginRequests : Presenter(r) => loginReq[r].wallet \in Wallets
    BY <1>0 DEF LoginTypes, Presenter
  <2> QED
    BY <1>7, <2>1 DEF NonceInv, NoncesGiven, StoringAreNew, PresentedAreGiven, Storer, Presenter, UsedAreGone
<1>8. ASSUME NEW w \in Wallets, NonceExpires(w) PROVE NonceInv'
  <2>1. \A v \in Wallets : authNonce'[v].nonce = authNonce[v].nonce
    BY <1>0, <1>8 DEF NonceExpires, LoginTypes
  <2> QED
    BY <1>7, <1>8, <2>1 DEF NonceExpires
<1>9. ASSUME NEW w \in Wallets, TokenExpires(w) PROVE NonceInv'
  BY <1>7, <1>9 DEF TokenExpires
<1>10. CASE UNCHANGED loginVars
  BY <1>7, <1>10 DEF loginVars
<1> QED
  BY <1>1, <1>2, <1>3, <1>4, <1>5, <1>6, <1>8, <1>9, <1>10 DEF LoginNext

LEMMA NoncesHold == LoginSpec => []NonceInv
<1>1. LoginInit => NonceInv
  <2> SUFFICES ASSUME LoginInit PROVE NonceInv
    OBVIOUS
  <2>1. LoginTypes
    BY LoginInitially DEF LoginInv
  <2> QED
    BY <2>1 DEF LoginInit, NonceInv, NoncesGiven, StoringAreNew, PresentedAreGiven, UsedAreGone,
                Storer, Presenter, NoRequest
<1>2. LoginInv => LoginTypes
  BY DEF LoginInv
<1>3. NonceInv /\ LoginTypes' /\ [LoginNext]_loginVars => NonceInv'
  BY NonceSteps
<1> QED
  BY <1>1, <1>2, <1>3, LoginsHold, PTL DEF LoginSpec

\* Once a nonce has logged in, every verification that starts then is refused at
\* the check, whatever requests are on their way: the nonce is in no row and is not
\* stored again (verifySignature, generateNonce).
THEOREM UsedNoncesStayRefused == LoginSpec => UsedNoncesAreRefused
<1>1. ASSUME NonceInv, [LoginNext]_loginVars, NEW r \in LoginRequests,
             LoginAt(r, "idle"), loginReq'[r].pc = "consume"
      PROVE  uses[loginReq'[r].nonce] = 0
  <2>0. LoginTypes
    BY <1>1 DEF NonceInv
  <2>1. ASSUME NEW t \in LoginRequests, NEW q, loginReq' = [loginReq EXCEPT ![t] = q]
        PROVE  loginReq'[r] = q \/ loginReq'[r].pc = "idle"
    BY <1>1, <2>0, <2>1 DEF LoginTypes, LoginAt
  <2>2. loginReq' # loginReq
    BY <1>1 DEF LoginAt
  <2>3. ASSUME NEW t \in LoginRequests,
               StoreNonce(t) \/ DeleteExpired(t) \/ ConsumeNonce(t) \/ IssueToken(t)
                 \/ \E w \in Wallets : LookUpRow(t, w)
        PROVE  FALSE
    <3>1. CASE ConsumeNonce(t) /\ loginReq' = [loginReq EXCEPT ![t].pc = "user"]
      BY <1>1, <2>0, <3>1 DEF LoginTypes, LoginAt, LoginRecord
    <3>2. CASE loginReq' = [loginReq EXCEPT ![t] = NoRequest]
      <4>1. loginReq'[r] = NoRequest \/ loginReq'[r].pc = "idle"
        BY <2>1, <3>2
      <4> QED
        BY <1>1, <4>1 DEF NoRequest
    <3>3. ASSUME NEW w \in Wallets, LookUpRow(t, w) PROVE FALSE
      <4> DEFINE q == [pc |-> IF authNonce[w] = NoRow THEN "create" ELSE "update",
                       wallet |-> w, nonce |-> lastNonce + 1]
      <4>1. loginReq' = [loginReq EXCEPT ![t] = q] /\ q.pc \in {"create", "update"}
        BY <3>3 DEF LookUpRow
      <4> HIDE DEF q
      <4>2. loginReq'[r] = q \/ loginReq'[r].pc = "idle"
        BY <2>1, <4>1
      <4> QED
        BY <1>1, <4>1, <4>2
    <3> QED
      BY <2>3, <3>1, <3>2, <3>3 DEF StoreNonce, DeleteExpired, ConsumeNonce, IssueToken, EndLogin
  <2>4. PICK s \in LoginRequests, w \in Wallets : \E n \in given[w] : CheckNonce(s, w, n)
    BY <1>1, <2>2, <2>3 DEF LoginNext, NonceExpires, TokenExpires, loginVars
  <2>5. PICK n \in given[w] : CheckNonce(s, w, n)
    BY <2>4
  <2>6. authNonce[w] = Row(n) /\ loginReq' = [loginReq EXCEPT ![s] = [pc |-> "consume", wallet |-> w, nonce |-> n]]
    <3>1. CASE loginReq' = [loginReq EXCEPT ![s] = [pc |-> "expire", wallet |-> w, nonce |-> n]]
      <4> DEFINE q == [pc |-> "expire", wallet |-> w, nonce |-> n]
      <4>1. loginReq' = [loginReq EXCEPT ![s] = q] /\ q.pc = "expire"
        BY <3>1
      <4> HIDE DEF q
      <4>2. loginReq'[r] = q \/ loginReq'[r].pc = "idle"
        BY <2>1, <4>1
      <4> QED
        BY <1>1, <4>1, <4>2
    <3> QED
      BY <2>5, <3>1 DEF CheckNonce
  <2>7. loginReq'[r].nonce = n
    BY <1>1, <2>0, <2>6 DEF LoginTypes, LoginAt
  <2>8. n \in 1..MaxNonces /\ uses[n] \in Nat
    BY <2>0 DEF LoginTypes
  <2>9. ~(uses[n] > 0)
    BY <1>1, <2>6, <2>8 DEF NonceInv, UsedAreGone, NoncesGiven, Row
  <2> QED
    BY <2>7, <2>8, <2>9
<1>2. NonceInv /\ [LoginNext]_loginVars =>
        [\A r \in LoginRequests :
           LoginAt(r, "idle") /\ loginReq'[r].pc = "consume" => uses[loginReq'[r].nonce] = 0]_loginVars
  BY <1>1
<1> QED
  BY <1>2, NoncesHold, PTL DEF LoginSpec, UsedNoncesAreRefused

-----------------------------------------------------------------------------
(***************************************************************************)
(* Bank transfers and submissions                                          *)
(***************************************************************************)

RowRecord == [table : Tables, number : 1..MaxRows, id : 1..MaxRows, status : Statuses,
              verifiedBy : Names \cup {"none"}, rejectedBy : Names \cup {"none"}]

DeskRecord == [pc : {"idle", "create", "open", "write"}, table : Tables \cup {"none"},
               number : 0..MaxRows, seen : 0..MaxRows, row : 0..MaxRows,
               op : AllOperations \cup {"none"}, by : Names \cup {"none"}]

\* Ids are given once, and a number once in its table.
RowsInv ==
  /\ rows \subseteq RowRecord /\ IsFiniteSet(rows)
  /\ \A x \in rows : x.id <= lastId
  /\ \A x, y \in rows : x.id = y.id => x = y
  /\ \A x, y \in rows : x.table = y.table /\ x.number = y.number => x = y

\* While nothing was removed from its table, the number a request is about to
\* give is the next one or is taken by now.  The row it looks for is the one seen
\* on the screen as long as that is there, and it writes to another one only when
\* that is gone.
DeskOK(q) ==
  /\ q \in DeskRecord
  /\ q.pc # "idle" => q.table \in Tables
  /\ q.pc = "create" => q.number >= 1
  /\ q.pc = "create" /\ ~RemovedFrom(q.table) => q.number <= Cardinality(RowsOf(q.table)) + 1
  /\ q.pc \in {"open", "write"} => q.seen \in 1..lastId
  /\ q.pc = "open" =>
       \A x \in rows : x.id = q.seen => x.table = q.table /\ q.number \in {ById, x.number}
  /\ q.pc = "write" =>
       /\ q.op \in AllOperations /\ q.row <= lastId
       /\ \A x \in rows : x.id = q.row => x.table = q.table
       /\ q.row # q.seen => \A x \in rows : x.id # q.seen

DeskInv ==
  /\ RowsInv
  /\ lastId \in 0..MaxRows
  /\ removals \in [Tables -> 0..MaxRemovals]
  /\ \A t \in Tables : Cardinality(RowsOf(t)) <= lastId
  /\ NumbersHaveNoGaps
  /\ deskReq \in [DeskRequests -> DeskRecord] /\ \A d \in DeskRequests : DeskOK(deskReq[d])
  /\ misread \subseteq 1..MaxRows /\ \A id \in misread : id <= lastId
  /\ DecisionsHitTheRowSeen

LEMMA RowsAreFinite ==
  ASSUME RowsInv, NEW t
  PROVE  RowsOf(t) \subseteq rows /\ IsFiniteSet(RowsOf(t)) /\ Cardinality(RowsOf(t)) \in Nat
  BY FS_Subset, FS_CardinalityType DEF RowsInv, RowsOf

\* What a step of the tables may do, so that what is true of the requests and of
\* the rows misread stays true.
TablesGrow ==
  /\ lastId' >= lastId
  /\ \A t \in Tables : RemovedFrom(t) => RemovedFrom(t)'
  /\ \A t \in Tables : ~RemovedFrom(t)' => Cardinality(RowsOf(t)') >= Cardinality(RowsOf(t))
  /\ \A x \in rows' : x.id <= lastId =>
       \E y \in rows : y.id = x.id /\ y.table = x.table /\ y.number = x.number

LEMMA RequestsStayOK ==
  ASSUME TablesGrow, NEW q, DeskOK(q), lastId \in Nat, lastId' \in Nat, RowsInv, RowsInv'
  PROVE  DeskOK(q)'
<1>1. q.row \in Nat /\ q.number \in Nat /\ q.seen \in Nat
  BY DEF DeskOK, DeskRecord
<1>2. Cardinality(RowsOf(q.table)) \in Nat /\ Cardinality(RowsOf(q.table)') \in Nat
  BY RowsAreFinite, FS_Subset, FS_CardinalityType DEF RowsInv, RowsOf
<1>3. q.pc = "create" /\ ~RemovedFrom(q.table)' => q.number <= Cardinality(RowsOf(q.table)') + 1
  BY <1>1, <1>2 DEF DeskOK, TablesGrow
<1>4. q.pc \in {"open", "write"} => q.seen \in 1..lastId'
  BY <1>1 DEF DeskOK, TablesGrow
<1>5. q.pc = "open" =>
        \A x \in rows' : x.id = q.seen => x.table = q.table /\ q.number \in {ById, x.number}
  BY <1>1 DEF DeskOK, TablesGrow
<1>6. q.pc = "write" =>
       /\ q.op \in AllOperations /\ q.row <= lastId'
       /\ \A x \in rows' : x.id = q.row => x.table = q.table
       /\ q.row # q.seen => \A x \in rows' : x.id # q.seen
  BY <1>1 DEF DeskOK, TablesGrow
<1> QED
  BY <1>3, <1>4, <1>5, <1>6 DEF DeskOK

LEMMA MisreadsStayOK ==
  ASSUME TablesGrow, DeskInv, lastId' \in Nat, UNCHANGED misread
  PROVE  (\A id \in misread' : id <= lastId') /\ DecisionsHitTheRowSeen'
<1>1. \A id \in misread : id \in Nat /\ id <= lastId /\ lastId <= lastId' /\ lastId \in Nat
  BY DEF DeskInv, TablesGrow
<1>2. ASSUME NEW x \in rows', x.id \in misread PROVE FALSE
  BY <1>1, <1>2 DEF TablesGrow, DeskInv, DecisionsHitTheRowSeen
<1> QED
  BY <1>1, <1>2 DEF DecisionsHitTheRowSeen

LEMMA TablesStay ==
  ASSUME UNCHANGED <<rows, lastId, removals>>, lastId \in Nat, RowsInv
  PROVE  /\ TablesGrow /\ RowsInv'
         /\ NumbersHaveNoGaps => NumbersHaveNoGaps'
         /\ \A t : RowsOf(t)' = RowsOf(t)
<1>1. \A t : RowsOf(t)' = RowsOf(t) /\ (RemovedFrom(t)' <=> RemovedFrom(t))
  BY DEF RowsOf, RemovedFrom
<1>3. \A t : Cardinality(RowsOf(t)) >= Cardinality(RowsOf(t))
  BY RowsAreFinite
<1>4. TablesGrow
  BY <1>1, <1>3 DEF TablesGrow
<1>5. RowsInv'
  BY DEF RowsInv
<1> QED
  BY <1>1, <1>4, <1>5 DEF NumbersHaveNoGaps

\* A new row gets the next id and a number its table did not have.
LEMMA RowCreated ==
  ASSUME DeskInv, NEW x \in RowRecord, x.id = lastId + 1, ~InUse(x.table, x.number),
         rows' = rows \cup {x}, lastId' = lastId + 1, lastId < MaxRows, UNCHANGED removals
  PROVE  /\ RowsInv' /\ TablesGrow
         /\ \A t \in Tables : Cardinality(RowsOf(t)') <= lastId'
         /\ Cardinality(RowsOf(x.table)') = Cardinality(RowsOf(x.table)) + 1
         /\ \A t \in Tables \ {x.table} : RowsOf(t)' = RowsOf(t)
         /\ RowsOf(x.table)' = RowsOf(x.table) \cup {x}
<1>1. RowsInv /\ lastId \in Nat /\ MaxRows \in Nat
  BY DeskAssumption DEF DeskInv
<1>2. RowsInv'
  <2>1. IsFiniteSet(rows')
    BY <1>1, FS_AddElement DEF RowsInv
  <2>2. \A y \in rows : y.id # x.id /\ ~(y.table = x.table /\ y.number = x.number) /\ y.id \in Nat
    BY <1>1 DEF RowsInv, RowRecord, InUse, RowsOf
  <2>3. \A y \in rows' : y.id <= lastId'
    BY <1>1, <2>2 DEF RowsInv
  <2> QED
    BY <1>1, <2>1, <2>2, <2>3 DEF RowsInv
<1>3. \A t \in Tables \ {x.table} : RowsOf(t)' = RowsOf(t)
  BY DEF RowsOf
<1>4. RowsOf(x.table)' = RowsOf(x.table) \cup {x} /\ x \notin RowsOf(x.table)
  BY DEF RowsOf, InUse
<1>5. Cardinality(RowsOf(x.table)') = Cardinality(RowsOf(x.table)) + 1
  BY <1>1, <1>4, RowsAreFinite, FS_AddElement
<1>6. \A t \in Tables : Cardinality(RowsOf(t)) \in Nat /\ Cardinality(RowsOf(t)) <= lastId
  BY <1>1, RowsAreFinite DEF DeskInv
<1>7. \A t \in Tables : /\ Cardinality(RowsOf(t)') >= Cardinality(RowsOf(t))
                        /\ Cardinality(RowsOf(t)') <= lastId'
  <2> SUFFICES ASSUME NEW t \in Tables
               PROVE  Cardinality(RowsOf(t)') >= Cardinality(RowsOf(t)) /\ Cardinality(RowsOf(t)') <= lastId'
    OBVIOUS
  <2>1. CASE t = x.table
    BY <1>1, <1>5, <1>6, <2>1
  <2>2. CASE t # x.table
    BY <1>1, <1>3, <1>6, <2>2
  <2> QED
    BY <2>1, <2>2
<1>8. TablesGrow
  <2>1. \A y \in rows' : y.id <= lastId => y \in rows
    BY <1>1
  <2> QED
    BY <1>1, <1>7, <2>1 DEF TablesGrow, RemovedFrom
<1> QED
  BY <1>2, <1>3, <1>4, <1>5, <1>7, <1>8

\* A decision, or an edit, changes neither the table nor the number nor the id.
LEMMA RowReviewed ==
  ASSUME DeskInv, NEW x \in rows, NEW y \in RowRecord,
         y.table = x.table, y.number = x.number, y.id = x.id,
         rows' = (rows \ {x}) \cup {y}, UNCHANGED <<lastId, removals>>
  PROVE  /\ RowsInv' /\ TablesGrow /\ NumbersHaveNoGaps'
         /\ \A t \in Tables : Cardinality(RowsOf(t)') <= lastId'
<1>1. RowsInv /\ lastId \in Nat
  BY DeskAssumption DEF DeskInv
<1>2. y \notin rows \ {x}
  BY <1>1 DEF RowsInv
<1>3. RowsInv'
  <2>1. IsFiniteSet(rows')
    BY <1>1, FS_AddElement, FS_RemoveElement DEF RowsInv
  <2> QED
    BY <1>1, <2>1 DEF RowsInv
<1>4. \A t \in Tables : Cardinality(RowsOf(t)') = Cardinality(RowsOf(t)) /\ Cardinality(RowsOf(t)) \in Nat
  <2> SUFFICES ASSUME NEW t \in Tables
               PROVE  Cardinality(RowsOf(t)') = Cardinality(RowsOf(t)) /\ Cardinality(RowsOf(t)) \in Nat
    OBVIOUS
  <2>1. CASE t = x.table
    <3>1. RowsOf(t)' = (RowsOf(t) \ {x}) \cup {y} /\ x \in RowsOf(t) /\ y \notin RowsOf(t) \ {x}
      BY <1>2, <2>1 DEF RowsOf
    <3>2. IsFiniteSet(RowsOf(t)) /\ Cardinality(RowsOf(t)) \in Nat
      BY <1>1, RowsAreFinite
    <3>3. IsFiniteSet(RowsOf(t) \ {x}) /\ Cardinality(RowsOf(t) \ {x}) = Cardinality(RowsOf(t)) - 1
      BY <3>1, <3>2, FS_RemoveElement
    <3>4. Cardinality((RowsOf(t) \ {x}) \cup {y}) = Cardinality(RowsOf(t) \ {x}) + 1
      BY <3>1, <3>3, FS_AddElement
    <3> QED
      BY <3>1, <3>2, <3>3, <3>4
  <2>2. CASE t # x.table
    <3>1. RowsOf(t)' = RowsOf(t)
      BY <2>2 DEF RowsOf
    <3> QED
      BY <1>1, <3>1, RowsAreFinite
  <2> QED
    BY <2>1, <2>2
<1>5. \A t \in Tables : /\ {z.number : z \in RowsOf(t)}' = {z.number : z \in RowsOf(t)}
                        /\ RemovedFrom(t)' <=> RemovedFrom(t)
  BY DEF RowsOf, RemovedFrom
<1>6. NumbersHaveNoGaps'
  BY <1>4, <1>5 DEF NumbersHaveNoGaps, DeskInv
<1>7. TablesGrow
  BY <1>1, <1>4, <1>5 DEF TablesGrow
<1> QED
  BY <1>3, <1>4, <1>6, <1>7 DEF DeskInv

\* A removal is counted in the table of the row.
LEMMA RowRemoved ==
  ASSUME DeskInv, NEW t \in Tables, NEW x \in rows, x.table = t, rows' = rows \ {x},
         removals[t] < MaxRemovals, removals' = [removals EXCEPT ![t] = @ + 1], UNCHANGED lastId
  PROVE  /\ RowsInv' /\ TablesGrow /\ NumbersHaveNoGaps'
         /\ \A u \in Tables : Cardinality(RowsOf(u)') <= lastId'
         /\ removals' \in [Tables -> 0..MaxRemovals] /\ RemovedFrom(t)'
<1>1. RowsInv /\ lastId \in Nat /\ removals \in [Tables -> 0..MaxRemovals] /\ MaxRemovals \in Nat
  BY DeskAssumption DEF DeskInv
<1>2. RowsInv'
  <2>1. IsFiniteSet(rows')
    BY <1>1, FS_RemoveElement DEF RowsInv
  <2> QED
    BY <1>1, <2>1 DEF RowsInv
<1>3. /\ removals' \in [Tables -> 0..MaxRemovals] /\ RemovedFrom(t)'
      /\ \A u \in Tables \ {t} : RemovedFrom(u)' <=> RemovedFrom(u)
  BY <1>1 DEF RemovedFrom
<1>4. \A u \in Tables \ {t} : RowsOf(u)' = RowsOf(u)
  BY DEF RowsOf
<1>5. \A u \in Tables : /\ Cardinality(RowsOf(u)) \in Nat /\ Cardinality(RowsOf(u)') \in Nat
                        /\ Cardinality(RowsOf(u)') <= Cardinality(RowsOf(u))
  <2> SUFFICES ASSUME NEW u \in Tables
               PROVE  /\ Cardinality(RowsOf(u)) \in Nat /\ Cardinality(RowsOf(u)') \in Nat
                      /\ Cardinality(RowsOf(u)') <= Cardinality(RowsOf(u))
    OBVIOUS
  <2>1. RowsOf(u)' \in SUBSET RowsOf(u)
    BY DEF RowsOf
  <2>2. IsFiniteSet(RowsOf(u))
    BY <1>1, RowsAreFinite
  <2> QED
    BY <2>1, <2>2, FS_Subset, FS_CardinalityType
<1>6. NumbersHaveNoGaps'
  BY <1>3, <1>4 DEF NumbersHaveNoGaps, DeskInv
<1>7. TablesGrow
  <2>1. \A u \in Tables : RemovedFrom(u) => RemovedFrom(u)'
    BY <1>3
  <2>2. \A u \in Tables : u # t => Cardinality(RowsOf(u)') >= Cardinality(RowsOf(u))
    BY <1>4, <1>5
  <2> QED
    BY <1>1, <1>3, <2>1, <2>2 DEF TablesGrow
<1>8. \A u \in Tables : Cardinality(RowsOf(u)') <= lastId'
  BY <1>1, <1>5 DEF DeskInv
<1> QED
  BY <1>2, <1>3, <1>6, <1>7, <1>8

LEMMA OneDeskMoves ==
  ASSUME DeskInv, TablesGrow, RowsInv', lastId' \in Nat, NEW d \in DeskRequests, NEW q, DeskOK(q)',
         deskReq' = [deskReq EXCEPT ![d] = q]
  PROVE  deskReq' \in [DeskRequests -> DeskRecord] /\ \A e \in DeskRequests : DeskOK(deskReq[e])'
<1>1. lastId \in Nat /\ RowsInv /\ deskReq \in [DeskRequests -> DeskRecord]
  BY DeskAssumption DEF DeskInv
<1>2. q \in DeskRecord
  BY DEF DeskOK
<1>3. ASSUME NEW e \in DeskRequests PROVE DeskOK(deskReq[e])'
  <2>1. deskReq'[e] = IF e = d THEN q ELSE deskReq[e]
    BY <1>1
  <2>2. CASE e = d
    BY <2>1, <2>2 DEF DeskOK
  <2>3. CASE e # d
    <3>1. DeskOK(deskReq[e])
      BY DEF DeskInv
    <3>2. PICK p : p = deskReq[e]
      OBVIOUS
    <3>3. DeskOK(p)'
      BY <1>1, <3>1, <3>2, RequestsStayOK
    <3> QED
      BY <2>1, <2>3, <3>2, <3>3 DEF DeskOK
  <2> QED
    BY <2>2, <2>3
<1> QED
  BY <1>1, <1>2, <1>3

LEMMA IdleIsOK == DeskOK(NoDesk) /\ DeskOK(NoDesk)'
  BY DeskAssumption DEF DeskOK, NoDesk, DeskRecord

\* A request that only looks leaves the tables as they are.
LEMMA OnlyRequestMoves ==
  ASSUME DeskInv, NEW d \in DeskRequests, NEW q, DeskOK(q), deskReq' = [deskReq EXCEPT ![d] = q],
         UNCHANGED <<rows, lastId, removals, misread>>
  PROVE  DeskInv'
<1>1. lastId \in Nat /\ lastId' \in Nat /\ RowsInv
  BY DeskAssumption DEF DeskInv
<1>2. TablesGrow /\ RowsInv' /\ NumbersHaveNoGaps' /\ \A t : RowsOf(t)' = RowsOf(t)
  BY <1>1, TablesStay DEF DeskInv
<1>3. DeskOK(q)'
  BY <1>1, <1>2, RequestsStayOK
<1>4. deskReq' \in [DeskRequests -> DeskRecord] /\ \A e \in DeskRequests : DeskOK(deskReq[e])'
  BY <1>1, <1>2, <1>3, OneDeskMoves
<1>5. (\A id \in misread' : id <= lastId') /\ DecisionsHitTheRowSeen'
  BY <1>1, <1>2, MisreadsStayOK
<1> QED
  BY <1>2, <1>3, <1>4, <1>5 DEF DeskInv

LEMMA CountSteps ==
  ASSUME DeskInv, NEW d \in DeskRequests, NEW t \in Tables, CountRows(d, t)
  PROVE  DeskInv'
<1> DEFINE q == [NoDesk EXCEPT !.pc = "create", !.table = t, !.number = NextNumber(t)]
<1>1. lastId < MaxRows /\ lastId \in Nat /\ MaxRows \in Nat
  BY DeskAssumption DEF CountRows, DeskInv
<1>2. Cardinality(RowsOf(t)) \in Nat /\ Cardinality(RowsOf(t)) <= lastId
  BY RowsAreFinite DEF DeskInv
<1>3. /\ q.pc = "create" /\ q.table = t /\ q.number = Cardinality(RowsOf(t)) + 1
      /\ q \in DeskRecord
  <2>1. NextNumber(t) \in 0..MaxRows /\ NextNumber(t) = Cardinality(RowsOf(t)) + 1
    BY <1>1, <1>2 DEF NextNumber
  <2>2. NoDesk \in DeskRecord /\ q = [NoDesk EXCEPT !.pc = "create", !.table = t, !.number = NextNumber(t)]
    BY IdleIsOK DEF DeskOK
  <2> HIDE DEF q
  <2> QED
    BY <2>1, <2>2 DEF DeskRecord
<1> HIDE DEF q
<1>4. DeskOK(q)
  BY <1>2, <1>3 DEF DeskOK
<1>5. deskReq' = [deskReq EXCEPT ![d] = q]
  BY DEF CountRows, q
<1> QED
  BY <1>4, <1>5, OnlyRequestMoves DEF CountRows

LEMMA OpenSteps ==
  ASSUME DeskInv, NEW d \in DeskRequests, NEW x \in rows, OpenRow(d, x)
  PROVE  DeskInv'
<1>1. x \in RowRecord /\ x.id <= lastId /\ RowsInv
  BY DEF DeskInv, RowsInv
<1>2. PICK number \in {x.number, ById} : deskReq' = [deskReq EXCEPT ![d] =
        [NoDesk EXCEPT !.pc = "open", !.table = x.table, !.number = number, !.seen = x.id]]
  BY DEF OpenRow
<1> DEFINE q == [NoDesk EXCEPT !.pc = "open", !.table = x.table, !.number = number, !.seen = x.id]
<1>3. /\ q.pc = "open" /\ q.table = x.table /\ q.number = number /\ q.seen = x.id /\ q \in DeskRecord
  <2>1. x.table \in Tables /\ number \in 0..MaxRows /\ x.id \in 0..MaxRows
    BY <1>1, DeskAssumption DEF RowRecord, ById
  <2>2. /\ NoDesk \in DeskRecord
        /\ q = [NoDesk EXCEPT !.pc = "open", !.table = x.table, !.number = number, !.seen = x.id]
    BY IdleIsOK DEF DeskOK
  <2> HIDE DEF q
  <2> QED
    BY <2>1, <2>2 DEF DeskRecord
<1>4. /\ x.table \in Tables /\ x.id \in 1..lastId
      /\ \A y \in rows : y.id = x.id => y.table = x.table /\ number \in {ById, y.number}
  BY <1>1, <1>2, DeskAssumption DEF RowsInv, RowRecord, DeskInv
<1> HIDE DEF q
<1>5. DeskOK(q)
  BY <1>3, <1>4 DEF DeskOK
<1>6. deskReq' = [deskReq EXCEPT ![d] = q]
  BY <1>2 DEF q
<1> QED
  BY <1>5, <1>6, OnlyRequestMoves DEF OpenRow

LEMMA FindRowSteps ==
  ASSUME DeskInv, NEW d \in DeskRequests, NEW op \in AllOperations, NEW by \in Names, FindRow(d, op, by)
  PROVE  DeskInv'
<1> DEFINE p == deskReq[d]
<1>1. /\ p.pc = "open" /\ p \in DeskRecord /\ DeskOK(p) /\ p.table \in Tables
      /\ UNCHANGED <<rows, lastId, removals, misread>>
  BY DEF FindRow, DeskAt, DeskInv, DeskOK
<1>2. CASE EndDesk(d)
  BY <1>1, <1>2, IdleIsOK, OnlyRequestMoves DEF EndDesk
<1>3. ASSUME NEW x \in Found(d),
             deskReq' = [deskReq EXCEPT ![d].pc = "write", ![d].row = x.id, ![d].op = op, ![d].by = by]
      PROVE  DeskInv'
  <2> DEFINE q == [p EXCEPT !.pc = "write", !.row = x.id, !.op = op, !.by = by]
  <2>1. x \in rows /\ x \in RowRecord /\ x.table = p.table /\ IsNamed(d, x) /\ x.id <= lastId
    BY DEF Found, RowsOf, DeskInv, RowsInv
  <2>2. /\ q.pc = "write" /\ q.table = p.table /\ q.number = p.number /\ q.seen = p.seen
        /\ q.row = x.id /\ q.op = op /\ q.by = by /\ q \in DeskRecord
    <3>1. x.id \in 0..MaxRows
      BY <2>1, DeskAssumption DEF RowRecord
    <3>2. p \in DeskRecord /\ q = [p EXCEPT !.pc = "write", !.row = x.id, !.op = op, !.by = by]
      BY <1>1
    <3> HIDE DEF p, q
    <3> QED
      BY <3>1, <3>2 DEF DeskRecord
  <2>3. x.id # p.seen => \A z \in rows : z.id # p.seen
    <3> SUFFICES ASSUME x.id # p.seen, NEW z \in rows, z.id = p.seen PROVE FALSE
      OBVIOUS
    <3>1. z.table = p.table /\ p.number \in {ById, z.number} /\ z \in RowRecord
      BY <1>1 DEF DeskOK, DeskInv, RowsInv
    <3>2. CASE p.number = ById
      BY <2>1, <3>2 DEF IsNamed, ById, RowRecord
    <3>3. CASE p.number # ById
      BY <2>1, <3>1, <3>3 DEF IsNamed, DeskInv, RowsInv
    <3> QED
      BY <3>1, <3>2, <3>3
  <2>4. \A y \in rows : y.id = x.id => y.table = p.table
    BY <2>1 DEF DeskInv, RowsInv
  <2>5. deskReq' = [deskReq EXCEPT ![d] = q]
    BY <1>3 DEF DeskInv
  <2>6. p.seen \in 1..lastId
    BY <1>1 DEF DeskOK
  <2> HIDE DEF p, q
  <2>7. DeskOK(q)
    BY <1>1, <2>1, <2>2, <2>3, <2>4, <2>6 DEF DeskOK
  <2> QED
    BY <1>1, <2>5, <2>7, OnlyRequestMoves
<1> QED
  BY <1>2, <1>3 DEF FindRow

LEMMA CreateRowSteps ==
  ASSUME DeskInv, NEW d \in DeskRequests, CreateRow(d)
  PROVE  DeskInv'
<1>0. PICK t, n, x : /\ t = deskReq[d].table /\ n = deskReq[d].number
                     /\ x = [table |-> t, number |-> n, id |-> lastId + 1, status |-> "Pending",
                             verifiedBy |-> "none", rejectedBy |-> "none"]
  OBVIOUS
<1>1. /\ deskReq[d].pc = "create" /\ DeskOK(deskReq[d]) /\ lastId < MaxRows /\ lastId \in Nat /\ MaxRows \in Nat
      /\ deskReq' = [deskReq EXCEPT ![d] = NoDesk] /\ UNCHANGED <<removals, misread>>
  BY DeskAssumption DEF CreateRow, DeskAt, EndDesk, DeskInv
<1>2. /\ t \in Tables /\ n \in 1..MaxRows
      /\ ~RemovedFrom(t) => n <= Cardinality(RowsOf(t)) + 1
  BY <1>0, <1>1 DEF DeskOK, DeskRecord
<1>3. CASE UNCHANGED <<rows, lastId>>
  BY <1>1, <1>3, IdleIsOK, OnlyRequestMoves
<1>4. CASE /\ ~InUse(t, n) /\ lastId' = lastId + 1 /\ rows' = rows \cup {x}
  <2>1. x \in RowRecord /\ x.table = t /\ x.number = n /\ x.id = lastId + 1
    BY <1>0, <1>1, <1>2 DEF RowRecord, Statuses
  <2>a. ~InUse(x.table, x.number) /\ rows' = rows \cup {x} /\ lastId' = lastId + 1 /\ lastId < MaxRows
    BY <1>1, <1>4, <2>1
  <2>b. UNCHANGED removals
    BY <1>1
  <2>2. /\ RowsInv' /\ TablesGrow /\ \A u \in Tables : Cardinality(RowsOf(u)') <= lastId'
        /\ Cardinality(RowsOf(t)') = Cardinality(RowsOf(t)) + 1
        /\ \A u \in Tables \ {t} : RowsOf(u)' = RowsOf(u)
        /\ RowsOf(t)' = RowsOf(t) \cup {x}
    BY <2>1, <2>a, <2>b, RowCreated
  <2>3. NumbersHaveNoGaps'
    <3> SUFFICES ASSUME NEW u \in Tables, ~RemovedFrom(u)'
                 PROVE  {z.number : z \in RowsOf(u)'} = 1..Cardinality(RowsOf(u)')
      BY DEF NumbersHaveNoGaps
    <3>1. ~RemovedFrom(u) /\ {z.number : z \in RowsOf(u)} = 1..Cardinality(RowsOf(u))
      BY <1>1 DEF RemovedFrom, DeskInv, NumbersHaveNoGaps
    <3>2. CASE u # t
      BY <2>2, <3>1, <3>2
    <3>3. CASE u = t
      <4>1. Cardinality(RowsOf(t)) \in Nat
        BY RowsAreFinite DEF DeskInv
      <4>2. n \notin {z.number : z \in RowsOf(t)}
        BY <1>4 DEF InUse
      <4>3. n = Cardinality(RowsOf(t)) + 1
        BY <1>2, <3>1, <3>3, <4>1, <4>2
      <4>4. {z.number : z \in RowsOf(t)'} = {z.number : z \in RowsOf(t)} \cup {n}
        BY <2>1, <2>2
      <4>5. 1..(Cardinality(RowsOf(t)) + 1) = 1..Cardinality(RowsOf(t)) \cup {n}
        BY <4>1, <4>3
      <4> QED
        BY <2>2, <3>1, <3>3, <4>3, <4>4, <4>5
    <3> QED
      BY <3>2, <3>3
  <2>4. deskReq' \in [DeskRequests -> DeskRecord] /\ \A e \in DeskRequests : DeskOK(deskReq[e])'
    <3>1. lastId' \in Nat
      BY <1>1, <1>4
    <3>2. DeskOK(NoDesk)'
      BY IdleIsOK
    <3> QED
      BY <1>1, <2>2, <3>1, <3>2, OneDeskMoves
  <2>6. /\ lastId' \in 0..MaxRows /\ removals' \in [Tables -> 0..MaxRemovals]
        /\ misread' \subseteq 1..MaxRows
    BY <1>1, <1>4 DEF DeskInv
  <2>7. (\A id \in misread' : id <= lastId') /\ DecisionsHitTheRowSeen'
    BY <1>1, <2>2, <2>6, MisreadsStayOK
  <2> QED
    BY <2>2, <2>3, <2>4, <2>6, <2>7 DEF DeskInv
<1> QED
  BY <1>0, <1>1, <1>3, <1>4 DEF CreateRow

\* When a write to a row other than the one seen is noted, that one is gone.
LEMMA MisreadsExplained ==
  ASSUME DeskInv, NEW d \in DeskRequests, deskReq[d].pc = "write", Misread(d), TablesGrow, UNCHANGED lastId
  PROVE  /\ misread' \subseteq 1..MaxRows /\ \A id \in misread' : id <= lastId'
         /\ DecisionsHitTheRowSeen'
<1> DEFINE seen == deskReq[d].seen
<1>1. DeskOK(deskReq[d]) /\ lastId \in 0..MaxRows /\ MaxRows \in Nat
  BY DeskAssumption DEF DeskInv
<1>2. seen \in 1..lastId /\ seen \in 1..MaxRows
  BY <1>1 DEF DeskOK
<1>3. deskReq[d].row # seen => \A x \in rows : x.id # seen
  BY <1>1 DEF DeskOK
<1>4. misread' = misread \/ (misread' = misread \cup {seen} /\ \A x \in rows : x.id # seen)
  BY <1>3 DEF Misread
<1> HIDE DEF seen
<1>5. misread' \subseteq 1..MaxRows /\ \A id \in misread' : id <= lastId'
  <2>1. misread \subseteq 1..MaxRows /\ \A id \in misread : id <= lastId
    BY DEF DeskInv
  <2>2. seen <= lastId
    BY <1>1, <1>2
  <2> QED
    BY <1>2, <1>4, <2>1, <2>2
<1>6. ASSUME NEW x \in rows', x.id \in misread' PROVE FALSE
  <2>1. x.id <= lastId
    BY <1>5, <1>6
  <2>2. PICK y \in rows : y.id = x.id
    BY <2>1 DEF TablesGrow
  <2> QED
    BY <1>4, <1>6, <2>2 DEF DeskInv, DecisionsHitTheRowSeen
<1> QED
  BY <1>5, <1>6 DEF DecisionsHitTheRowSeen

LEMMA WriteRowSteps ==
  ASSUME DeskInv, NEW d \in DeskRequests, WriteRow(d)
  PROVE  DeskInv'
<1> DEFINE p == deskReq[d]
<1>1. /\ p.pc = "write" /\ p.op # "remove" /\ DeskOK(p) /\ p \in DeskRecord /\ p.op \in AllOperations
      /\ deskReq' = [deskReq EXCEPT ![d] = NoDesk] /\ UNCHANGED <<lastId, removals>>
  BY DEF WriteRow, DeskAt, EndDesk, DeskInv, DeskOK
<1>2. CASE UNCHANGED <<rows, misread>>
  BY <1>1, <1>2, IdleIsOK, OnlyRequestMoves
<1>3. ASSUME NEW x \in Target(d), Misread(d),
             \/ p.op # "edit" /\ rows' = (rows \ {x}) \cup {Reviewed(x, p.op, p.by)}
             \/ \E status \in Statuses : rows' = (rows \ {x}) \cup {Edited(x, status)}
      PROVE  DeskInv'
  <2>1. x \in rows /\ x \in RowRecord
    BY DEF Target, DeskInv, RowsInv
  <2>2. PICK y \in RowRecord : /\ y.table = x.table /\ y.number = x.number /\ y.id = x.id
                               /\ rows' = (rows \ {x}) \cup {y}
    <3>1. CASE p.op # "edit" /\ rows' = (rows \ {x}) \cup {Reviewed(x, p.op, p.by)}
      <4>1. p.op \in Statuses /\ p.by \in Names \cup {"none"}
        BY <1>1, <3>1 DEF AllOperations, DeskRecord
      <4>2. Reviewed(x, p.op, p.by) \in RowRecord
        BY <2>1, <4>1 DEF Reviewed, RowRecord
      <4>3. /\ Reviewed(x, p.op, p.by).table = x.table /\ Reviewed(x, p.op, p.by).number = x.number
            /\ Reviewed(x, p.op, p.by).id = x.id
        BY <2>1 DEF Reviewed, RowRecord
      <4> QED
        BY <3>1, <4>2, <4>3
    <3>2. ASSUME NEW status \in Statuses, rows' = (rows \ {x}) \cup {Edited(x, status)}
          PROVE  \E y \in RowRecord : /\ y.table = x.table /\ y.number = x.number /\ y.id = x.id
                                      /\ rows' = (rows \ {x}) \cup {y}
      <4>1. /\ Edited(x, status) \in RowRecord
            /\ Edited(x, status).table = x.table /\ Edited(x, status).number = x.number
            /\ Edited(x, status).id = x.id
        BY <2>1 DEF Edited, RowRecord
      <4> QED
        BY <3>2, <4>1
    <3> QED
      BY <1>3, <3>1, <3>2
  <2>3. /\ RowsInv' /\ TablesGrow /\ NumbersHaveNoGaps'
        /\ \A t \in Tables : Cardinality(RowsOf(t)') <= lastId'
    BY <1>1, <2>1, <2>2, RowReviewed
  <2>4. lastId' \in Nat /\ lastId' \in 0..MaxRows /\ removals' \in [Tables -> 0..MaxRemovals]
    BY <1>1, DeskAssumption DEF DeskInv
  <2>5. deskReq' \in [DeskRequests -> DeskRecord] /\ \A e \in DeskRequests : DeskOK(deskReq[e])'
    BY <1>1, <2>3, <2>4, IdleIsOK, OneDeskMoves
  <2>7. /\ misread' \subseteq 1..MaxRows /\ \A id \in misread' : id <= lastId'
        /\ DecisionsHitTheRowSeen'
    BY <1>1, <1>3, <2>3, MisreadsExplained
  <2> QED
    BY <2>3, <2>4, <2>5, <2>7 DEF DeskInv
<1> QED
  BY <1>2, <1>3 DEF WriteRow

LEMMA RemoveRowSteps ==
  ASSUME DeskInv, NEW d \in DeskRequests, RemoveRow(d)
  PROVE  DeskInv'
<1> DEFINE p == deskReq[d]
<1>1. /\ p.pc = "write" /\ DeskOK(p) /\ p.table \in Tables
      /\ deskReq' = [deskReq EXCEPT ![d] = NoDesk] /\ UNCHANGED lastId
  BY DEF RemoveRow, DeskAt, EndDesk, DeskInv, DeskOK
<1>2. CASE UNCHANGED <<rows, removals, misread>>
  BY <1>1, <1>2, IdleIsOK, OnlyRequestMoves
<1>3. CASE /\ Target(d) # {} /\ removals[p.table] < MaxRemovals /\ rows' = rows \ Target(d)
           /\ removals' = [removals EXCEPT ![p.table] = @ + 1] /\ Misread(d)
  <2>1. PICK x \in Target(d) : TRUE
    BY <1>3
  <2>2. x \in rows /\ Target(d) = {x} /\ x.table = p.table
    BY <1>1, <2>1 DEF Target, DeskInv, RowsInv, DeskOK
  <2>3. /\ RowsInv' /\ TablesGrow /\ NumbersHaveNoGaps'
        /\ \A t \in Tables : Cardinality(RowsOf(t)') <= lastId'
        /\ removals' \in [Tables -> 0..MaxRemovals]
    BY <1>1, <1>3, <2>2, RowRemoved
  <2>4. lastId' \in Nat /\ lastId' \in 0..MaxRows
    BY <1>1, DeskAssumption DEF DeskInv
  <2>5. deskReq' \in [DeskRequests -> DeskRecord] /\ \A e \in DeskRequests : DeskOK(deskReq[e])'
    BY <1>1, <2>3, <2>4, IdleIsOK, OneDeskMoves
  <2>7. /\ misread' \subseteq 1..MaxRows /\ \A id \in misread' : id <= lastId'
        /\ DecisionsHitTheRowSeen'
    BY <1>1, <1>3, <2>3, MisreadsExplained
  <2> QED
    BY <2>3, <2>4, <2>5, <2>7 DEF DeskInv
<1> QED
  BY <1>2, <1>3 DEF RemoveRow

LEMMA DeskInitially == DeskInit => DeskInv
<1> SUFFICES ASSUME DeskInit PROVE DeskInv
  OBVIOUS
<1>1. \A t : RowsOf(t) = {}
  BY DEF DeskInit, RowsOf
<1>2. RowsInv /\ \A t : Cardinality(RowsOf(t)) = 0
  BY <1>1, FS_EmptySet DEF DeskInit, RowsInv
<1>3. NumbersHaveNoGaps
  BY <1>1, <1>2 DEF NumbersHaveNoGaps
<1>4. deskReq \in [DeskRequests -> DeskRecord] /\ \A d \in DeskRequests : DeskOK(deskReq[d])
  BY IdleIsOK DEF DeskInit, DeskOK
<1>5. lastId = 0 /\ misread = {} /\ removals \in [Tables -> 0..MaxRemovals]
  BY DeskAssumption DEF DeskInit
<1> QED
  BY <1>2, <1>3, <1>4, <1>5, DeskAssumption DEF DeskInv, DecisionsHitTheRowSeen

LEMMA DeskHolds == DeskSpec => []DeskInv
<1>1. ASSUME DeskInv, [DeskNext]_deskVars PROVE DeskInv'
  <2>1. CASE UNCHANGED deskVars
    <3>1. UNCHANGED <<rows, lastId, deskReq, removals, misread>>
      BY <2>1 DEF deskVars
    <3>2. lastId \in Nat /\ RowsInv
      BY <1>1, DeskAssumption DEF DeskInv
    <3>3. TablesGrow /\ RowsInv' /\ NumbersHaveNoGaps' /\ \A t : RowsOf(t)' = RowsOf(t)
      BY <1>1, <3>1, <3>2, TablesStay DEF DeskInv
    <3>4. (\A id \in misread' : id <= lastId') /\ DecisionsHitTheRowSeen'
      BY <1>1, <3>1, <3>2, <3>3, MisreadsStayOK
    <3>5. \A d \in DeskRequests : DeskOK(deskReq[d])'
      <4> SUFFICES ASSUME NEW d \in DeskRequests PROVE DeskOK(deskReq[d])'
        OBVIOUS
      <4>1. PICK p : p = deskReq[d]
        OBVIOUS
      <4>2. DeskOK(p)'
        BY <1>1, <3>1, <3>2, <3>3, <4>1, RequestsStayOK DEF DeskInv
      <4> QED
        BY <3>1, <4>1, <4>2 DEF DeskOK
    <3> QED
      BY <1>1, <3>1, <3>3, <3>4, <3>5 DEF DeskInv
  <2>2. CASE DeskNext
    BY <1>1, <2>2, CountSteps, OpenSteps, FindRowSteps, CreateRowSteps, WriteRowSteps, RemoveRowSteps
       DEF DeskNext, Desk
  <2> QED
    BY <1>1, <2>1, <2>2
<1> QED
  BY <1>1, DeskInitially, PTL DEF DeskSpec

\* The numbers of a table run from 1 without a gap until a row is removed,
\* however many creations count and insert at once (BankTransfersService.create,
\* PrivateSaleService.create).
THEOREM NumbersRunOn == DeskSpec => []NumbersHaveNoGaps
<1>1. DeskInv => NumbersHaveNoGaps
  BY DEF DeskInv
<1> QED
  BY <1>1, DeskHolds, PTL

\* A review, an edit or a removal is written to the row that was on the screen as
\* long as that row is there, whatever else was removed, and numbered anew, since
\* (findOne, verify, update, remove).
THEOREM DecisionsAreNotMisplaced == DeskSpec => []DecisionsHitTheRowSeen
<1>1. DeskInv => DecisionsHitTheRowSeen
  BY DEF DeskInv
<1> QED
  BY <1>1, DeskHolds, PTL

\* All types of the desks' variables.
THEOREM DeskTypesAreRight == DeskSpec => []DeskTypeOK
<1>1. DeskInv => DeskTypeOK
  <2> SUFFICES ASSUME DeskInv PROVE DeskTypeOK
    OBVIOUS
  <2>1. rows \subseteq RowRecord
    BY DEF DeskInv, RowsInv
  <2> QED
    BY <2>1 DEF DeskInv, DeskTypeOK, RowRecord, DeskRecord
<1> QED
  BY <1>1, DeskHolds, PTL

-----------------------------------------------------------------------------
(***************************************************************************)
(* The health report                                                       *)
(***************************************************************************)

Reports == {"none", "healthy", "degraded", "critical"}

\* The head noted when the request came in is one the chain had, and the report
\* is about the position read then.
ProbeInv(q) ==
  /\ q \in [pc : {"none", "block", "answered"}, cursor : -1..MaxHead, healthy : SUBSET Providers,
            since : 0..MaxHead, status : Reports]
  /\ q.since <= head
  /\ q.status = "healthy" => q.since - q.cursor < HealthyLag + NodeLag

ReportsInv ==
  /\ head \in 1..MaxHead
  /\ cursor \in -1..MaxHead
  /\ DOMAIN probe = Probes
  /\ \A r \in Probes : ProbeInv(probe[r])

\* The healthy nodes' places are on a circle.  Since the list last changed, the
\* index went round it some times, and then from place s to the one it is at.
Served(s, e, k) == IF s <= e THEN s <= k /\ k < e ELSE s <= k \/ k < e

Rounds(s, c) ==
  LET n == Cardinality(HealthyProviders) IN
  /\ s \in 0..(n - 1)
  /\ \A p \in HealthyProviders :
       handedOut[p] = IF Served(s, currentProviderIndex % n, Place(p)) THEN c + 1 ELSE c

RotationInv ==
  /\ PoolTypeOK
  /\ currentProviderIndex \in 0..MaxHandOuts
  /\ handedOut \in [Providers -> 0..MaxHandOuts]
  /\ \A p \in Providers : handedOut[p] <= currentProviderIndex
  /\ HealthyProviders # {} => \E s, c \in Nat : Rounds(s, c)

LEMMA ProbesStay ==
  ASSUME ReportsInv, NEW q, ProbeInv(q), head' \in 1..MaxHead, head' >= head
  PROVE  ProbeInv(q)'
<1>1. q.since \in Nat /\ head \in Nat /\ head' \in Nat
  BY MonitoringAssumption DEF ProbeInv, ReportsInv
<1>2. q.since <= head'
  BY <1>1 DEF ProbeInv
<1> QED
  BY <1>2 DEF ProbeInv

\* A request's own step, while the chain and the listener stand still.
LEMMA ProbeMoves ==
  ASSUME ReportsInv, NEW r \in Probes, NEW q, ProbeInv(q), UNCHANGED <<head, cursor>>,
         probe' = [probe EXCEPT ![r] = q]
  PROVE  ReportsInv'
<1>1. \A e \in Probes : probe'[e] = IF e = r THEN q ELSE probe[e]
  BY DEF ReportsInv
<1>2. ASSUME NEW e \in Probes PROVE ProbeInv(probe[e])'
  <2>1. PICK p : p = probe'[e]
    OBVIOUS
  <2>2. ProbeInv(p)
    BY <1>1, <2>1 DEF ReportsInv
  <2> QED
    BY <2>1, <2>2 DEF ProbeInv
<1> QED
  BY <1>2 DEF ReportsInv

LEMMA ReportIsSound ==
  ASSUME ReportsInv, NEW r \in Probes, Report(r)
  PROVE  ReportsInv'
<1>1. PICK block \in 0..head :
        /\ block = 0 \/ block >= head - NodeLag
        /\ probe' = [probe EXCEPT ![r].pc = "answered",
                       ![r].status = Status(probe[r].healthy, block, probe[r].cursor)]
  BY DEF Report
<1>2. PICK status : status = Status(probe[r].healthy, block, probe[r].cursor)
  OBVIOUS
<1>3. /\ status \in Reports
      /\ status = "healthy" => block > 0 /\ block - probe[r].cursor < HealthyLag
  BY <1>2 DEF Status, Near, Reports
<1>4. PICK p : p = probe[r] /\ ProbeInv(p)
  BY DEF ReportsInv
<1>5. PICK q : q = [p EXCEPT !.pc = "answered", !.status = status]
  OBVIOUS
<1>6. q.since = p.since /\ q.cursor = p.cursor /\ q.status = status
      /\ q \in [pc : {"none", "block", "answered"}, cursor : -1..MaxHead, healthy : SUBSET Providers,
                since : 0..MaxHead, status : Reports]
  BY <1>3, <1>4, <1>5 DEF ProbeInv
<1>7. p.since \in Nat /\ p.cursor \in Int /\ head \in Nat /\ block \in Nat /\ p.since <= head
  BY <1>1, <1>4, MonitoringAssumption DEF ProbeInv, ReportsInv
<1>8. status = "healthy" => p.since - p.cursor < HealthyLag + NodeLag
  BY <1>1, <1>3, <1>4, <1>7, MonitoringAssumption
<1>9. ProbeInv(q)
  BY <1>6, <1>7, <1>8 DEF ProbeInv
<1>10. probe' = [probe EXCEPT ![r] = q]
  BY <1>1, <1>2, <1>4, <1>5 DEF ReportsInv
<1> QED
  BY <1>9, <1>10, ProbeMoves DEF Report

LEMMA ReportsHold == MonitorSpec => []ReportsInv
<1>1. MonitorInit => ReportsInv
  BY MonitoringAssumption DEF MonitorInit, ReportsInv, ProbeInv, NoProbe, Reports
<1>2. ReportsInv /\ [MonitorNext]_monitorVars => ReportsInv'
  <2> SUFFICES ASSUME ReportsInv, [MonitorNext]_monitorVars PROVE ReportsInv'
    OBVIOUS
  <2>1. head \in Nat /\ cursor \in -1..MaxHead /\ MaxHead \in Nat /\ head <= MaxHead
    BY MonitoringAssumption DEF ReportsInv
  <2>2. ASSUME UNCHANGED probe, head' \in 1..MaxHead, cursor' \in -1..MaxHead, head' >= head
        PROVE  ReportsInv'
    <3>1. ASSUME NEW r \in Probes PROVE ProbeInv(probe[r])'
      <4>1. PICK p : p = probe[r] /\ ProbeInv(p)
        BY DEF ReportsInv
      <4>2. ProbeInv(p)'
        BY <2>2, <4>1, ProbesStay
      <4> QED
        BY <2>2, <4>1, <4>2 DEF ProbeInv
    <3> QED
      BY <2>2, <3>1 DEF ReportsInv
  <2>3. CASE UNCHANGED <<head, cursor, probe>>
    BY <2>1, <2>2, <2>3 DEF ReportsInv
  <2>4. CASE ChainGrows
    BY <2>1, <2>2, <2>4 DEF ChainGrows
  <2>5. CASE ListenerMoves
    BY <2>1, <2>2, <2>5 DEF ListenerMoves, ReportsInv
  <2>6. ASSUME NEW r \in Probes, ReadStatus(r) PROVE ReportsInv'
    <3>1. PICK q : q = [pc |-> "block", cursor |-> cursor, healthy |-> HealthyProviders, since |-> head,
                        status |-> "none"]
      OBVIOUS
    <3>2. ProbeInv(q)
      BY <2>1, <3>1 DEF ProbeInv, Reports, HealthyProviders, ReportsInv
    <3> QED
      BY <2>6, <3>1, <3>2, ProbeMoves DEF ReadStatus
  <2>7. ASSUME NEW r \in Probes, Forget(r) PROVE ReportsInv'
    <3>1. ProbeInv(NoProbe)
      BY <2>1 DEF ProbeInv, NoProbe, Reports
    <3> QED
      BY <2>7, <3>1, ProbeMoves DEF Forget
  <2> QED
    BY <2>3, <2>4, <2>5, <2>6, <2>7, ReportIsSound DEF MonitorNext, FlagsMove, monitorVars
<1> QED
  BY <1>1, <1>2, PTL DEF MonitorSpec

\* A report says "healthy" only if the position it read is within the allowed lag
\* of the head the chain had when the request came in, give or take the lag of the
\* node asked, wherever the listener is sent meanwhile (getHealth).
THEOREM HealthIsNotOverstated == MonitorSpec => []HealthyReportsAreSound
<1>1. ReportsInv => HealthyReportsAreSound
  <2> SUFFICES ASSUME ReportsInv, NEW r \in Probes, probe[r].status = "healthy"
               PROVE  probe[r].since - probe[r].cursor < HealthyLag + NodeLag
    BY DEF HealthyReportsAreSound
  <2> QED
    BY DEF ReportsInv, ProbeInv
<1> QED
  BY <1>1, ReportsHold, PTL

-----------------------------------------------------------------------------
(***************************************************************************)
(* The rotation over the healthy nodes                                     *)
(***************************************************************************)

LEMMA NextMod ==
  ASSUME NEW a \in Nat, NEW n \in Nat \ {0}
  PROVE  (a + 1) % n = IF (a % n) + 1 = n THEN 0 ELSE (a % n) + 1
<1>1. PICK q, r, q2, r2 : q = a \div n /\ r = a % n /\ q2 = (a + 1) \div n /\ r2 = (a + 1) % n
  OBVIOUS
<1>2. /\ q \in Int /\ r \in 0..(n - 1) /\ a = n * q + r
      /\ q2 \in Int /\ r2 \in 0..(n - 1) /\ a + 1 = n * q2 + r2
  BY <1>1
<1>3. PICK d \in Int : d = q2 - q
  BY <1>2
<1>4. n * q2 = n * q + n * d
  BY <1>2, <1>3
<1>5. n * d = r + 1 - r2
  BY <1>2, <1>4
<1>6. d = 0 \/ d = 1
  <2>1. ASSUME d >= 2 PROVE FALSE
    <3>1. n * d >= n * 2
      BY <2>1
    <3> QED
      BY <3>1, <1>2, <1>5
  <2>2. ASSUME d <= -1 PROVE FALSE
    <3>1. n * d <= n * (-1)
      BY <2>2
    <3> QED
      BY <3>1, <1>2, <1>5
  <2> QED
    BY <2>1, <2>2
<1> QED
  BY <1>1, <1>2, <1>5, <1>6

LEMMA HealthyAreFinite ==
  /\ HealthyProviders \subseteq Providers /\ IsFiniteSet(HealthyProviders)
  /\ Cardinality(HealthyProviders) \in Nat
  /\ HealthyProviders # {} => Cardinality(HealthyProviders) >= 1
<1>1. IsFiniteSet(Providers)
  BY PoolAssumption, FS_Interval DEF Providers
<1>2. HealthyProviders \subseteq Providers
  BY DEF HealthyProviders
<1>3. IsFiniteSet(HealthyProviders) /\ Cardinality(HealthyProviders) \in Nat
  BY <1>1, <1>2, FS_Subset, FS_CardinalityType
<1> QED
  BY <1>2, <1>3, FS_EmptySet

\* The healthy nodes have the places 0, 1, 2, ..., one each.
LEMMA PlacesAreDistinct ==
  ASSUME NEW p \in HealthyProviders, NEW q \in HealthyProviders
  PROVE  /\ Place(p) \in 0..(Cardinality(HealthyProviders) - 1)
         /\ p < q => Place(p) < Place(q)
         /\ Place(p) = Place(q) => p = q
<1> DEFINE Earlier(x) == {y \in HealthyProviders : y < x}
<1>1. p \in Nat /\ q \in Nat
  BY HealthyAreFinite, PoolAssumption DEF Providers
<1>2. ASSUME NEW S, IsFiniteSet(S), NEW T \in SUBSET S, T # S
      PROVE  Cardinality(T) < Cardinality(S)
  <2>1. Cardinality(S) \in Nat /\ IsFiniteSet(T) /\ Cardinality(T) \in Nat
    BY <1>2, FS_Subset, FS_CardinalityType
  <2> QED
    BY <1>2, <2>1, FS_Subset
<1>0. \A x : Place(x) = Cardinality(Earlier(x))
  BY DEF Place
<1>3. ASSUME NEW x \in HealthyProviders
      PROVE  IsFiniteSet(Earlier(x)) /\ Place(x) \in 0..(Cardinality(HealthyProviders) - 1)
  <2>1. Earlier(x) \subseteq HealthyProviders /\ x \notin Earlier(x) /\ x \in Nat
    BY <1>3, HealthyAreFinite, PoolAssumption DEF Providers
  <2>2. IsFiniteSet(Earlier(x)) /\ Cardinality(Earlier(x)) \in Nat
        /\ Cardinality(Earlier(x)) < Cardinality(HealthyProviders)
    BY <1>2, <1>3, <2>1, HealthyAreFinite, FS_Subset, FS_CardinalityType
  <2> HIDE DEF Earlier
  <2> QED
    BY <1>0, <2>2, HealthyAreFinite
<1>4. ASSUME NEW x \in HealthyProviders, NEW y \in HealthyProviders, x < y
      PROVE  Place(x) < Place(y)
  <2>1. x \in Nat /\ y \in Nat /\ \A z \in HealthyProviders : z \in Nat
    BY HealthyAreFinite, PoolAssumption DEF Providers
  <2>2. Earlier(x) \subseteq Earlier(y) /\ x \in Earlier(y) /\ x \notin Earlier(x)
    <3>1. x < y /\ ~(x < x) /\ \A z \in HealthyProviders : z < x => z < y
      BY <1>4, <2>1
    <3> QED
      BY <3>1
  <2>3. Place(x) = Cardinality(Earlier(x)) /\ Place(y) = Cardinality(Earlier(y)) /\ IsFiniteSet(Earlier(y))
    BY <1>0, <1>3
  <2> HIDE DEF Earlier
  <2> QED
    BY <1>2, <2>2, <2>3
<1>5. Place(p) \in Int /\ Place(q) \in Int
  <2>1. Place(p) \in 0..(Cardinality(HealthyProviders) - 1) /\ Place(q) \in 0..(Cardinality(HealthyProviders) - 1)
    BY <1>3
  <2> QED
    BY <2>1, HealthyAreFinite
<1> HIDE DEF Earlier
<1>6. p < q \/ q < p \/ p = q
  BY <1>1
<1> QED
  BY <1>3, <1>4, <1>5, <1>6

\* Whoever's turn it is, is a healthy node, the only one of its place.
LEMMA TurnIsAHealthyNode ==
  ASSUME HealthyProviders # {}, currentProviderIndex \in Nat
  PROVE  Turn \in HealthyProviders /\ Place(Turn) = currentProviderIndex % Cardinality(HealthyProviders)
<1> DEFINE n == Cardinality(HealthyProviders)
           k == currentProviderIndex % n
<1>1. n \in Nat \ {0} /\ k \in 0..(n - 1)
  BY HealthyAreFinite
<1>2. \E p \in HealthyProviders : Place(p) = k
  <2> SUFFICES ASSUME \A p \in HealthyProviders : Place(p) # k PROVE FALSE
    OBVIOUS
  <2> DEFINE T == (0..(n - 1)) \ {k}
             f == [p \in HealthyProviders |-> Place(p)]
  <2>1. IsFiniteSet(0..(n - 1)) /\ Cardinality(0..(n - 1)) = n
    BY <1>1, FS_Interval
  <2>2. IsFiniteSet(T) /\ Cardinality(T) = n - 1
    <3>1. PICK S, i : S = 0..(n - 1) /\ i = k /\ i \in S
      BY <1>1
    <3>2. IsFiniteSet(S \ {i}) /\ Cardinality(S \ {i}) = Cardinality(S) - 1
      BY <2>1, <3>1, FS_RemoveElement
    <3> QED
      BY <2>1, <3>1, <3>2
  <2>3. \A p \in HealthyProviders : Place(p) \in T
    BY PlacesAreDistinct
  <2>4. Cardinality(T) < Cardinality(HealthyProviders)
    BY <1>1, <2>2
  <2> HIDE DEF T, n, k
  <2>6. f \in [HealthyProviders -> T] /\ \A p \in HealthyProviders : f[p] = Place(p)
    BY <2>3
  <2> HIDE DEF f
  <2>5. \E p, q \in HealthyProviders : p # q /\ f[p] = f[q]
    BY <2>2, <2>6, <2>4, HealthyAreFinite, FS_PigeonHole
  <2> QED
    BY <2>5, <2>6, PlacesAreDistinct
<1> QED
  BY <1>2 DEF Turn

\* One hand-out more: the node at the index is served, and the round ends where
\* it began.
LEMMA OneMoreServed ==
  ASSUME NEW n \in Nat \ {0}, NEW s \in 0..(n - 1), NEW e \in 0..(n - 1), NEW k \in 0..(n - 1),
         NEW next, next = IF e + 1 = n THEN 0 ELSE e + 1
  PROVE  /\ ~Served(s, e, e)
         /\ next # s => (Served(s, next, k) <=> Served(s, e, k) \/ k = e)
         /\ next = s => (Served(s, e, k) \/ k = e) /\ ~Served(s, next, k)
  BY DEF Served

LEMMA PoolTypesStay ==
  ASSUME PoolTypeOK, PoolStep
  PROVE  PoolTypeOK'
<1>1. PICK p \in Providers : \/ HealthCheckSucceeds(p) \/ HealthCheckFails(p)
                             \/ \E healthy \in BOOLEAN : SetProviderHealth(p, healthy)
  BY DEF PoolStep
<1>2. ASSUME Answered(p)
      PROVE  /\ isHealthy' \in [Providers -> BOOLEAN]
             /\ consecutiveFailures' \in [Providers -> 0..MaxConsecutiveFailures]
             /\ setAside' \subseteq Providers
  BY <1>2, PoolAssumption DEF Answered, PoolTypeOK
<1>3. ASSUME Failed(p)
      PROVE  /\ isHealthy' \in [Providers -> BOOLEAN]
             /\ consecutiveFailures' \in [Providers -> 0..MaxConsecutiveFailures]
             /\ setAside' \subseteq Providers
  <2>1. PICK n : n = OneMore(consecutiveFailures[p])
    OBVIOUS
  <2>2. n \in 0..MaxConsecutiveFailures
    BY <2>1, PoolAssumption DEF OneMore, PoolTypeOK
  <2>3. consecutiveFailures' \in [Providers -> 0..MaxConsecutiveFailures]
    BY <1>3, <2>1, <2>2 DEF Failed, PoolTypeOK
  <2>4. PICK b : b = (isHealthy[p] /\ ~TooMany(n))
    OBVIOUS
  <2>5. b \in BOOLEAN
    BY <2>4
  <2>6. isHealthy' = [isHealthy EXCEPT ![p] = b]
    BY <1>3, <2>1, <2>4 DEF Failed
  <2> QED
    BY <1>3, <2>3, <2>5, <2>6 DEF Failed, PoolTypeOK
<1>4. CASE HealthCheckSucceeds(p)
  BY <1>2, <1>4 DEF HealthCheckSucceeds, PoolTypeOK
<1>5. CASE HealthCheckFails(p)
  BY <1>3, <1>5, PoolAssumption DEF HealthCheckFails, PoolTypeOK
<1>6. ASSUME NEW healthy \in BOOLEAN, SetProviderHealth(p, healthy) PROVE PoolTypeOK'
  <2>1. UNCHANGED call /\ verdicts' \in 0..MaxVerdicts
    BY <1>6, PoolAssumption DEF SetProviderHealth, PoolTypeOK
  <2>2. CASE healthy
    BY <1>2, <1>6, <2>1, <2>2 DEF SetProviderHealth, PoolTypeOK
  <2>3. CASE ~healthy
    BY <1>6, <2>1, <2>3 DEF SetProviderHealth, PoolTypeOK
  <2> QED
    BY <2>2, <2>3
<1> QED
  BY <1>1, <1>4, <1>5, <1>6

LEMMA SameListSamePlaces ==
  ASSUME HealthyProviders' = HealthyProviders
  PROVE  \A p : Place(p)' = Place(p)
<1>1. ASSUME NEW p PROVE {q \in HealthyProviders' : q < p} = {q \in HealthyProviders : q < p}
  OBVIOUS
<1> QED
  BY <1>1 DEF Place

LEMMA HandOutKeepsRotation ==
  ASSUME RotationInv, GetProvider
  PROVE  RotationInv'
<1>1. PoolTypeOK' /\ HealthyProviders' = HealthyProviders /\ \A p : Place(p)' = Place(p)
  <2>1. UNCHANGED poolVars
    BY DEF GetProvider
  <2>2. HealthyProviders' = HealthyProviders
    BY <2>1 DEF HealthyProviders, poolVars, health
  <2> QED
    BY <2>1, <2>2, SameListSamePlaces DEF RotationInv, PoolTypeOK, poolVars, health
<1>2. CASE HealthyProviders = {}
  BY <1>1, <1>2 DEF RotationInv, GetProvider
<1>3. CASE HealthyProviders # {}
  <2>1. /\ currentProviderIndex \in Nat /\ currentProviderIndex' = currentProviderIndex + 1
        /\ currentProviderIndex' \in 0..MaxHandOuts
        /\ handedOut' = [handedOut EXCEPT ![Turn] = @ + 1]
        /\ handedOut \in [Providers -> 0..MaxHandOuts]
        /\ MaxHandOuts \in Nat /\ currentProviderIndex < MaxHandOuts
    BY <1>3, MonitoringAssumption DEF RotationInv, GetProvider, Advanced
  <2>2. Turn \in HealthyProviders /\ Place(Turn) = currentProviderIndex % Cardinality(HealthyProviders)
    BY <1>3, <2>1, TurnIsAHealthyNode
  <2>3. PICK turn : turn = Turn /\ turn \in Providers
    BY <2>2, HealthyAreFinite
  <2>4. /\ \A p \in Providers : handedOut'[p] = IF p = turn THEN handedOut[p] + 1 ELSE handedOut[p]
        /\ \A p \in Providers : handedOut[p] \in Nat /\ handedOut[p] <= currentProviderIndex
        /\ DOMAIN handedOut' = Providers
    BY <2>1, <2>3 DEF RotationInv
  <2>5. \A p \in Providers : handedOut'[p] \in 0..MaxHandOuts /\ handedOut'[p] <= currentProviderIndex'
    BY <2>1, <2>4
  <2>6. handedOut' \in [Providers -> 0..MaxHandOuts]
    BY <2>1, <2>3, <2>4, <2>5
  <2>7. PICK n \in Nat \ {0} : n = Cardinality(HealthyProviders)
    BY <1>3, HealthyAreFinite
  <2>8. PICK s, c \in Nat : Rounds(s, c)
    BY <1>3 DEF RotationInv
  <2>9. PICK e, next : /\ e = currentProviderIndex % n /\ next = (currentProviderIndex + 1) % n
                       /\ e \in 0..(n - 1) /\ next = IF e + 1 = n THEN 0 ELSE e + 1
    <3>1. /\ (currentProviderIndex + 1) % n
               = IF (currentProviderIndex % n) + 1 = n THEN 0 ELSE (currentProviderIndex % n) + 1
          /\ currentProviderIndex % n \in 0..(n - 1)
      <4>1. \A a \in Nat, m \in Nat \ {0} :
              (a + 1) % m = IF (a % m) + 1 = m THEN 0 ELSE (a % m) + 1
        BY NextMod, Zenon
      <4>2. \A a \in Nat, m \in Nat \ {0} : a % m \in 0..(m - 1)
        OBVIOUS
      <4> QED
        BY <2>1, <2>7, <4>1, <4>2, Zenon
    <3> QED
      BY <3>1
  <2>10. /\ s \in 0..(n - 1)
         /\ \A p \in HealthyProviders : handedOut[p] = IF Served(s, e, Place(p)) THEN c + 1 ELSE c
    BY <2>7, <2>8, <2>9 DEF Rounds
  <2>11. \A p \in HealthyProviders : /\ Place(p) \in 0..(n - 1) /\ p \in Providers
                                     /\ Place(p) = e <=> p = turn
    BY <2>2, <2>3, <2>7, <2>9, PlacesAreDistinct, HealthyAreFinite
  <2>12. next # s => \A p \in HealthyProviders :
           handedOut'[p] = IF Served(s, next, Place(p)) THEN c + 1 ELSE c
    BY <2>4, <2>9, <2>10, <2>11, OneMoreServed
  <2>13. next = s => \A p \in HealthyProviders :
           handedOut'[p] = IF Served(s, next, Place(p)) THEN c + 2 ELSE c + 1
    BY <2>4, <2>9, <2>10, <2>11, OneMoreServed
  <2>14. n = Cardinality(HealthyProviders') /\ next = currentProviderIndex' % n
    BY <1>1, <2>1, <2>7, <2>9
  <2>15. \E s2, c2 \in Nat : Rounds(s2, c2)'
    <3>1. CASE next # s
      BY <1>1, <2>10, <2>12, <2>14, <3>1 DEF Rounds
    <3>2. CASE next = s
      <4>1. c + 1 \in Nat /\ (c + 1) + 1 = c + 2
        OBVIOUS
      <4>2. Rounds(s, c + 1)'
        BY <1>1, <2>10, <2>13, <2>14, <3>2, <4>1 DEF Rounds
      <4> QED
        BY <4>1, <4>2
    <3> QED
      BY <3>1, <3>2
  <2> QED
    BY <1>1, <2>1, <2>5, <2>6, <2>15 DEF RotationInv
<1> QED
  BY <1>2, <1>3

\* A new list of healthy nodes begins a new round wherever the index stands.
LEMMA NewListNewRound ==
  ASSUME PoolTypeOK, currentProviderIndex \in 0..MaxHandOuts, handedOut = [p \in Providers |-> 0]
  PROVE  RotationInv
<1>1. MaxHandOuts \in Nat /\ currentProviderIndex \in Nat
  BY MonitoringAssumption
<1>2. ASSUME HealthyProviders # {} PROVE \E s, c \in Nat : Rounds(s, c)
  <2>1. PICK n \in Nat \ {0} : n = Cardinality(HealthyProviders)
    BY <1>2, HealthyAreFinite
  <2>2. PICK e : e = currentProviderIndex % n /\ e \in 0..(n - 1) /\ e \in Nat
    BY <1>1, <2>1
  <2>3. \A p \in HealthyProviders : /\ Place(p) \in 0..(n - 1) /\ p \in Providers
                                    /\ ~Served(e, e, Place(p))
    BY <2>1, <2>2, PlacesAreDistinct, HealthyAreFinite DEF Served
  <2>4. Rounds(e, 0)
    BY <2>1, <2>2, <2>3 DEF Rounds
  <2> QED
    BY <2>2, <2>4
<1> QED
  BY <1>1, <1>2 DEF RotationInv

LEMMA RotationHolds == MonitorSpec => []RotationInv
<1>1. MonitorInit => RotationInv
  <2> SUFFICES ASSUME MonitorInit PROVE RotationInv
    OBVIOUS
  <2>1. PoolTypeOK
    BY PoolAssumption DEF MonitorInit, PoolInit, PoolTypeOK, NoCall
  <2> QED
    BY <2>1, NewListNewRound, MonitoringAssumption DEF MonitorInit
<1>2. RotationInv /\ [MonitorNext]_monitorVars => RotationInv'
  <2> SUFFICES ASSUME RotationInv, [MonitorNext]_monitorVars PROVE RotationInv'
    OBVIOUS
  <2>1. ASSUME PoolTypeOK', HealthyProviders' = HealthyProviders, UNCHANGED <<currentProviderIndex, handedOut>>
        PROVE  RotationInv'
    <3>1. \A p : Place(p)' = Place(p)
      BY <2>1, SameListSamePlaces
    <3>2. \A s, c : Rounds(s, c)' <=> Rounds(s, c)
      BY <2>1, <3>1 DEF Rounds
    <3> QED
      BY <2>1, <3>2 DEF RotationInv
  <2>2. CASE UNCHANGED <<poolVars, currentProviderIndex, handedOut>>
    BY <2>1, <2>2 DEF RotationInv, PoolTypeOK, HealthyProviders, poolVars, health
  <2>3. CASE FlagsMove
    <3>1. PoolTypeOK' /\ UNCHANGED currentProviderIndex
      BY <2>3, PoolTypesStay DEF RotationInv, FlagsMove
    <3>2. CASE HealthyProviders' = HealthyProviders
      BY <2>1, <2>3, <3>1, <3>2 DEF FlagsMove
    <3>3. CASE HealthyProviders' # HealthyProviders
      <4>1. handedOut' = [p \in Providers |-> 0] /\ (currentProviderIndex \in 0..MaxHandOuts)'
        BY <2>3, <3>1, <3>3 DEF FlagsMove, RotationInv
      <4>2. (PoolTypeOK /\ currentProviderIndex \in 0..MaxHandOuts /\ handedOut = [p \in Providers |-> 0])'
        BY <3>1, <4>1 DEF Providers
      <4>3. (PoolTypeOK /\ currentProviderIndex \in 0..MaxHandOuts /\ handedOut = [p \in Providers |-> 0]
              => RotationInv)'
        BY NewListNewRound, PTL
      <4> QED
        BY <4>2, <4>3
    <3> QED
      BY <3>2, <3>3
  <2> QED
    BY <2>2, <2>3, HandOutKeepsRotation
       DEF MonitorNext, ChainGrows, ListenerMoves, ReadStatus, Report, Forget, monitorVars
<1> QED
  BY <1>1, <1>2, PTL DEF MonitorSpec

\* As long as the list of healthy nodes stays the same, no healthy node is handed
\* out more than once oftener than another, wherever the index stood
\* (ProviderPoolService.getProvider).
THEOREM EveryNodeGetsItsTurn == MonitorSpec => []RotationIsFair
<1>1. RotationInv => RotationIsFair
  <2> SUFFICES ASSUME RotationInv, NEW p \in HealthyProviders, NEW q \in HealthyProviders
               PROVE  handedOut[p] <= handedOut[q] + 1
    BY DEF RotationIsFair
  <2>1. PICK s, c \in Nat : Rounds(s, c)
    BY DEF RotationInv
  <2>2. handedOut[p] \in {c, c + 1} /\ handedOut[q] \in {c, c + 1}
    BY <2>1 DEF Rounds
  <2> QED
    BY <2>2
<1> QED
  BY <1>1, RotationHolds, PTL

\* All types of the health report's variables.
THEOREM MonitorTypesAreRight == MonitorSpec => []MonitorTypeOK
<1>1. RotationInv /\ ReportsInv => MonitorTypeOK
  BY DEF RotationInv, ReportsInv, ProbeInv, MonitorTypeOK, Reports
<1> QED
  BY <1>1, RotationHolds, ReportsHold, PTL

-----------------------------------------------------------------------------
(***************************************************************************)
(* Certificates                                                            *)
(***************************************************************************)

Stages  == {"free", "lookup", "open", "write", "upload", "mail", "record", "hung"}
Nowhen  == <<"none", 0>>
PdfFile == [pages : SUBSET Documents, whole : BOOLEAN]

SenderRecord == [pc : Stages, doc : Documents, at : Instants \cup {Nowhen},
                 ref : Instants \cup {Nowhen}, url : BOOLEAN, sent : BOOLEAN]

SenderOK(q) ==
  /\ q \in SenderRecord
  /\ q.pc # "free" => q.at \in Instants /\ q.ref = q.at
  /\ q.pc = "record" => q.doc # Sample

CertTypes ==
  /\ now \in 0..MaxTime
  /\ failures \in 0..MaxFailures
  /\ file \in [References -> PdfFile]
  /\ cloud \in [PublicIds -> [file : PdfFile, at : Instants \cup {Nowhen}]]
  /\ began \in [Instants -> Nat]
  /\ mailed \subseteq [doc : Documents, at : Instants, ref : Instants, attachment : PdfFile]
  /\ \A m \in mailed : m.ref = m.at
  /\ activity \subseteq [doc : Purchases, ref : References, url : BOOLEAN, emailSent : BOOLEAN]
  /\ DOMAIN sender = Senders
  /\ \A s \in Senders : SenderOK(sender[s])

\* A sending has an address; it may still write its file or mail it.
Begun(q) == q.pc \notin {"free", "lookup"}
Busy(q)  == q.pc \in {"open", "write", "upload", "mail"}

StageOK(q) ==
  q.pc \in {"write", "upload", "mail"} /\ AloneInItsInstant(q.at) =>
    /\ q.pc = "write" => file[q.at] = NoFile
    /\ q.pc \in {"upload", "mail"} => file[q.at] = OwnCertificate(q.doc)

\* Whatever a sending left behind, it was counted.
BeginningsAreCounted ==
  /\ \A s \in Senders : Begun(sender[s]) => began[sender[s].at] >= 1
  /\ \A m \in mailed : began[m.at] >= 1
  /\ \A id \in PublicIds : cloud[id] # NoCopy => cloud[id].at \in Instants /\ began[cloud[id].at] >= 1

\* Of an instant with one sending there is one sender, and it mails once.
OneSending ==
  /\ \A s, t \in Senders : Begun(sender[s]) /\ Begun(sender[t]) /\ sender[s].at = sender[t].at
       => s = t \/ ~AloneInItsInstant(sender[s].at)
  /\ \A s \in Senders, m \in mailed : Busy(sender[s]) /\ m.at = sender[s].at
       => ~AloneInItsInstant(m.at)

OwnInv ==
  /\ CertTypes
  /\ BeginningsAreCounted
  /\ OneSending
  /\ \A s \in Senders : StageOK(sender[s])
  /\ CertificatesAreTheirOwn

\* A sender's notes are true: what it calls sent was mailed, what it has a link
\* to was uploaded.
NotesInv(q) ==
  /\ q.sent => q.pc \in {"free", "record"} /\ \E m \in mailed : Key(m) = Key(q)
  /\ q.url /\ q.doc # Sample => cloud[q.doc.tx] # NoCopy

NotesAreTrue ==
  /\ RecordsAreTrue
  /\ \A s \in Senders : NotesInv(sender[s])

Becomes(s, q) == sender' = [sender EXCEPT ![s] = q]
GoesOn(p, q)  == q.doc = p.doc /\ q.at = p.at /\ q.ref = p.ref

LEMMA OneSenderMoves ==
  ASSUME CertTypes, NEW s \in Senders, NEW q, SenderOK(q), Becomes(s, q)
  PROVE  /\ \A t \in Senders : sender'[t] = IF t = s THEN q ELSE sender[t]
         /\ DOMAIN sender' = Senders
         /\ \A t \in Senders : SenderOK(sender[t])'
<1>1. /\ \A t \in Senders : sender'[t] = IF t = s THEN q ELSE sender[t]
      /\ DOMAIN sender' = Senders
  BY DEF CertTypes, Becomes
<1>2. ASSUME NEW t \in Senders PROVE SenderOK(sender[t])'
  <2>1. PICK p : p = sender'[t] /\ SenderOK(p)
    BY <1>1 DEF CertTypes
  <2> QED
    BY <2>1 DEF SenderOK
<1> QED
  BY <1>1, <1>2

\* A sender goes on to the next stage with the same certificate.
LEMMA MovingTo ==
  ASSUME CertTypes, NEW s \in Senders, NEW pc \in Stages, sender[s].pc # "free",
         pc = "record" => sender[s].doc # Sample, MoveTo(s, pc)
  PROVE  \E q : /\ SenderOK(q) /\ Becomes(s, q) /\ GoesOn(sender[s], q)
                /\ q.pc = pc /\ q.url = sender[s].url /\ q.sent = sender[s].sent
<1>1. PICK p : p = sender[s] /\ SenderOK(p)
  BY DEF CertTypes
<1>2. PICK q : q = [p EXCEPT !.pc = pc]
  OBVIOUS
<1>3. /\ q.pc = pc /\ q.url = p.url /\ q.sent = p.sent /\ q.doc = p.doc /\ q.at = p.at /\ q.ref = p.ref
      /\ q \in SenderRecord
  BY <1>1, <1>2 DEF SenderOK, SenderRecord
<1>4. SenderOK(q)
  BY <1>1, <1>3 DEF SenderOK
<1>5. GoesOn(sender[s], q)
  BY <1>1, <1>3 DEF GoesOn
<1>6. Becomes(s, q)
  BY <1>1, <1>2 DEF MoveTo, CertTypes, Becomes
<1> QED
  BY <1>1, <1>3, <1>4, <1>5, <1>6

LEMMA FreeIsOK == SenderOK(Free) /\ Free.pc = "free" /\ Free.doc = Sample /\ ~Free.url /\ ~Free.sent
  BY DEF SenderOK, SenderRecord, Free, Stages, Documents, Nowhen

\* What may happen in a step of one sender, while nothing begins: it goes on or
\* stops, its file changes, its certificate is uploaded or mailed as it is in the
\* file.
LEMMA StepOfASender ==
  ASSUME OwnInv, CertTypes', NEW s \in Senders, NEW q, SenderOK(q), Becomes(s, q), StageOK(q)',
         UNCHANGED began,
         Begun(q) => Begun(sender[s]) /\ q.at = sender[s].at,
         Busy(q) => Busy(sender[s]),
         \A r \in References : file'[r] = file[r] \/ (Busy(sender[s]) /\ r = sender[s].at),
         \A m \in mailed' \ mailed :
           /\ sender[s].pc = "mail" /\ ~Busy(q) /\ file' = file
           /\ m.at = sender[s].at /\ m.doc = sender[s].doc /\ m.attachment = file[m.at],
         \A id \in PublicIds : cloud'[id] = cloud[id] \/
           /\ sender[s].pc = "upload"
           /\ cloud'[id].at = sender[s].at /\ cloud'[id].file = file[sender[s].at]
           /\ id = PublicId(sender[s].doc, sender[s].at)
  PROVE  OwnInv'
<1>1. /\ \A t \in Senders : sender'[t] = IF t = s THEN q ELSE sender[t]
      /\ \A t \in Senders : SenderOK(sender[t])
      /\ BeginningsAreCounted /\ OneSending /\ CertTypes
  BY OneSenderMoves DEF OwnInv, CertTypes
<1>2. sender[s].pc = "mail" \/ sender[s].pc = "upload" => Begun(sender[s]) /\ Busy(sender[s])
  BY DEF Begun, Busy
<1>3. \A at : AloneInItsInstant(at)' <=> AloneInItsInstant(at)
  BY DEF AloneInItsInstant
<1>a. \A t \in Senders : (Begun(sender[t]) => sender[t].at \in Instants) /\ (Busy(sender[t]) => Begun(sender[t]))
  BY <1>1 DEF SenderOK, Begun, Busy
<1>4. BeginningsAreCounted'
  <2>1. ASSUME NEW t \in Senders, Begun(sender'[t]) PROVE began'[sender'[t].at] >= 1
    BY <1>1, <2>1 DEF BeginningsAreCounted
  <2>2. ASSUME NEW m \in mailed' PROVE began'[m.at] >= 1
    BY <1>1, <1>2 DEF BeginningsAreCounted
  <2>3. ASSUME NEW id \in PublicIds, cloud'[id] # NoCopy
        PROVE  cloud'[id].at \in Instants /\ began'[cloud'[id].at] >= 1
    BY <1>1, <1>2, <1>a, <2>3 DEF BeginningsAreCounted
  <2> QED
    BY <2>1, <2>2, <2>3 DEF BeginningsAreCounted, Begun, PublicIds, TestIds, NoCopy, NoFile
<1>5. OneSending'
  <2>1. ASSUME NEW t \in Senders, NEW u \in Senders, Begun(sender'[t]), Begun(sender'[u]),
               sender'[t].at = sender'[u].at, t # u
        PROVE  ~AloneInItsInstant(sender'[t].at)
    BY <1>1, <2>1 DEF OneSending
  <2>2. ASSUME NEW t \in Senders, NEW m \in mailed', Busy(sender'[t]), m.at = sender'[t].at
        PROVE  ~AloneInItsInstant(m.at)
    <3>1. CASE m \in mailed
      BY <1>1, <1>a, <2>2, <3>1 DEF OneSending, Busy, Begun
    <3>2. CASE m \notin mailed
      <4>1. t # s /\ Begun(sender[t]) /\ Begun(sender[s]) /\ sender[t].at = sender[s].at
        BY <1>1, <1>2, <1>a, <2>2, <3>2
      <4> QED
        BY <2>2, <3>2, <4>1, <1>1 DEF OneSending
    <3> QED
      BY <3>1, <3>2
  <2> QED
    BY <1>3, <2>1, <2>2 DEF OneSending, Begun, Busy
<1>6. ASSUME NEW t \in Senders PROVE StageOK(sender[t])'
  <2>1. PICK p : p = sender'[t]
    OBVIOUS
  <2>2. CASE t = s
    BY <1>1, <2>1, <2>2 DEF StageOK, AloneInItsInstant, OwnCertificate
  <2>3. CASE t # s
    <3>1. p = sender[t] /\ StageOK(p) /\ SenderOK(p)
      BY <1>1, <2>1, <2>3 DEF OwnInv
    <3>2. ASSUME p.pc \in {"write", "upload", "mail"}, AloneInItsInstant(p.at) PROVE file'[p.at] = file[p.at]
      <4>1. p.at \in References /\ Begun(p)
        BY <3>1, <3>2 DEF SenderOK, References, Begun
      <4>2. ~(Busy(sender[s]) /\ p.at = sender[s].at)
        BY <1>1, <1>a, <2>3, <3>1, <3>2, <4>1 DEF OneSending
      <4> QED
        BY <4>1, <4>2
    <3>3. StageOK(p)'
      BY <1>3, <3>1, <3>2 DEF StageOK, OwnCertificate
    <3> QED
      BY <2>1, <3>3 DEF StageOK, AloneInItsInstant, OwnCertificate
  <2> QED
    BY <2>2, <2>3
<1>7. CertificatesAreTheirOwn'
  <2>1. ASSUME NEW m \in mailed', AloneInItsInstant(m.at)
        PROVE  m.attachment = OwnCertificate(m.doc) /\ file'[m.ref] = m.attachment
    <3>1. m.ref = m.at /\ m.at \in References
      BY DEF CertTypes, References
    <3>2. CASE m \in mailed
      <4>1. m.attachment = OwnCertificate(m.doc) /\ file[m.ref] = m.attachment
        BY <2>1, <3>2 DEF OwnInv, CertificatesAreTheirOwn
      <4>2. ~(Busy(sender[s]) /\ m.at = sender[s].at)
        BY <1>1, <2>1, <3>2 DEF OneSending
      <4> QED
        BY <3>1, <4>1, <4>2
    <3>3. CASE m \notin mailed
      BY <2>1, <3>1, <3>3 DEF OwnInv, StageOK
    <3> QED
      BY <3>2, <3>3
  <2>2. ASSUME NEW id \in {p.tx : p \in Purchases}, cloud'[id] # NoCopy, AloneInItsInstant(cloud'[id].at)
        PROVE  \E p \in Purchases : p.tx = id /\ cloud'[id].file = OwnCertificate(p)
    <3>1. id \in PublicIds /\ id \notin TestIds
      BY CertificatesAssumption DEF PublicIds
    <3>2. CASE cloud'[id] = cloud[id]
      BY <2>2, <3>1, <3>2 DEF OwnInv, CertificatesAreTheirOwn
    <3>3. CASE cloud'[id] # cloud[id]
      <4>1. PICK p : p = sender[s] /\ SenderOK(p) /\ StageOK(p) /\ p.pc = "upload"
        BY <3>1, <3>3 DEF OwnInv, CertTypes
      <4>2. id = PublicId(p.doc, p.at) /\ cloud'[id].at = p.at /\ cloud'[id].file = file[p.at]
        BY <3>1, <3>3, <4>1
      <4>3. p.at \in Instants /\ p.doc \in Documents
        BY <4>1 DEF SenderOK, SenderRecord
      <4>4. p.at[2] \in 0..MaxTime
        BY <4>3 DEF Instants
      <4>5. p.doc \in Purchases /\ p.doc.tx = id
        BY <3>1, <4>2, <4>3, <4>4 DEF PublicId, TestIds, Documents
      <4>6. cloud'[id].file = OwnCertificate(p.doc)
        BY <2>2, <4>1, <4>2 DEF StageOK
      <4> QED
        BY <4>5, <4>6
    <3> QED
      BY <3>2, <3>3
  <2> QED
    BY <1>3, <2>1, <2>2 DEF CertificatesAreTheirOwn, OwnCertificate
<1> QED
  BY <1>4, <1>5, <1>6, <1>7 DEF OwnInv

LEMMA SameKey == \A x, y : Key(x) = Key(y) <=> x.doc = y.doc /\ x.ref = y.ref
  BY DEF Key

LEMMA NotesOfAStep ==
  ASSUME NotesAreTrue, CertTypes, CertTypes', NEW s \in Senders, NEW q, SenderOK(q), Becomes(s, q), NotesInv(q)',
         mailed \subseteq mailed', activity \subseteq activity', cutShort \subseteq cutShort',
         \A id \in PublicIds : cloud[id] # NoCopy => cloud'[id] # NoCopy,
         sender[s].pc = "record" =>
           \/ Key(sender[s]) \in cutShort'
           \/ \E row \in activity' : row.doc = sender[s].doc /\ row.ref = sender[s].ref,
         \A m \in mailed' \ mailed :
           m.doc = Sample \/ (q.pc = "record" /\ Key(q) = Key(m)) \/ Key(m) \in cutShort',
         \A row \in activity' \ activity :
           /\ row.emailSent => \E m \in mailed' : Key(m) = Key(row)
           /\ row.url => cloud'[row.doc.tx] # NoCopy
  PROVE  NotesAreTrue'
<1>1. /\ \A t \in Senders : sender'[t] = IF t = s THEN q ELSE sender[t]
      /\ \A t \in Senders : SenderOK(sender[t])
      /\ RecordsAreTrue /\ \A t \in Senders : NotesInv(sender[t])
  BY OneSenderMoves DEF CertTypes, NotesAreTrue
<1>2. \A p \in Purchases : p.tx \in PublicIds
  BY DEF PublicIds
<1>3. ASSUME NEW m \in mailed', m.doc # Sample
      PROVE  \/ \E row \in activity' : row.doc = m.doc /\ row.ref = m.ref
             \/ \E t \in Senders : sender'[t].pc = "record" /\ Key(sender'[t]) = Key(m)
             \/ Key(m) \in cutShort'
  <2>1. CASE m \in mailed
    <3>1. \/ \E row \in activity : row.doc = m.doc /\ row.ref = m.ref
          \/ \E t \in Senders : At(t, "record") /\ Key(sender[t]) = Key(m)
          \/ Key(m) \in cutShort
      BY <1>1, <1>3, <2>1 DEF RecordsAreTrue
    <3>2. ASSUME NEW t \in Senders, sender[t].pc = "record", Key(sender[t]) = Key(m), t # s
          PROVE  sender'[t].pc = "record" /\ Key(sender'[t]) = Key(m)
      BY <1>1, <3>2
    <3>3. ASSUME sender[s].pc = "record", Key(sender[s]) = Key(m)
          PROVE  \/ \E row \in activity' : row.doc = m.doc /\ row.ref = m.ref
                 \/ Key(m) \in cutShort'
      BY <3>3, SameKey
    <3> QED
      BY <3>1, <3>2, <3>3 DEF At
  <2>2. CASE m \notin mailed
    <3>1. (q.pc = "record" /\ Key(q) = Key(m)) \/ Key(m) \in cutShort'
      BY <1>3, <2>2
    <3> QED
      BY <1>1, <3>1
  <2> QED
    BY <2>1, <2>2
<1>4. ASSUME NEW row \in activity'
      PROVE  /\ row.emailSent => \E m \in mailed' : Key(m) = Key(row)
             /\ row.url => cloud'[row.doc.tx] # NoCopy
  <2>1. CASE row \in activity
    <3>1. row.doc.tx \in PublicIds
      BY <1>2, <2>1 DEF CertTypes
    <3>2. /\ row.emailSent => \E m \in mailed : Key(m) = Key(row)
          /\ row.url => cloud[row.doc.tx] # NoCopy
      BY <1>1, <2>1 DEF RecordsAreTrue
    <3> QED
      BY <3>1, <3>2
  <2> QED
    BY <2>1
<1>5. ASSUME NEW t \in Senders PROVE NotesInv(sender[t])'
  <2>1. PICK p : p = sender'[t]
    OBVIOUS
  <2>2. CASE t = s
    BY <1>1, <2>1, <2>2 DEF NotesInv, Key, NoCopy, NoFile
  <2>3. CASE t # s
    <3>1. p = sender[t] /\ NotesInv(p) /\ SenderOK(p)
      BY <1>1, <2>1, <2>3
    <3>2. p.doc # Sample => p.doc.tx \in PublicIds
      BY <1>2, <3>1 DEF SenderOK, SenderRecord, Documents
    <3>3. /\ p.sent => p.pc \in {"free", "record"} /\ \E m \in mailed' : Key(m) = Key(p)
          /\ p.url /\ p.doc # Sample => cloud'[p.doc.tx] # NoCopy
      BY <3>1, <3>2 DEF NotesInv
    <3> QED
      BY <2>1, <3>3 DEF NotesInv, Key, NoCopy, NoFile
  <2> QED
    BY <2>2, <2>3
<1>6. RecordsAreTrue'
  BY <1>3, <1>4 DEF RecordsAreTrue, At, Key, NoCopy, NoFile
<1> QED
  BY <1>5, <1>6 DEF NotesAreTrue

CertInv == OwnInv /\ NotesAreTrue

\* A step of a sender that leaves cloud, mails and feed alone.
LEMMA QuietStep ==
  ASSUME CertInv, NEW s \in Senders, NEW q, SenderOK(q), Becomes(s, q), StageOK(q)',
         UNCHANGED <<began, mailed, cloud, activity, cutShort>>,
         now' \in 0..MaxTime, failures' \in 0..MaxFailures, file' \in [References -> PdfFile],
         Begun(q) => Begun(sender[s]) /\ q.at = sender[s].at,
         Busy(q) => Busy(sender[s]),
         q.url => sender[s].url /\ q.doc = sender[s].doc,
         q.sent => sender[s].sent /\ q.doc = sender[s].doc /\ q.ref = sender[s].ref /\ q.pc \in {"free", "record"},
         sender[s].pc # "record",
         \A r \in References : file'[r] = file[r] \/ (Busy(sender[s]) /\ r = sender[s].at)
  PROVE  CertInv'
<1>1. OwnInv /\ CertTypes /\ NotesAreTrue /\ NotesInv(sender[s])
  BY DEF CertInv, OwnInv, NotesAreTrue
<1>2. CertTypes'
  BY <1>1, OneSenderMoves DEF CertTypes
<1>3. NotesInv(q)'
  BY <1>1, SameKey DEF NotesInv, Key, NoCopy, NoFile
<1>4. OwnInv'
  BY <1>1, <1>2, StepOfASender
<1>5. NotesAreTrue'
  BY <1>1, <1>2, <1>3, NotesOfAStep
<1> QED
  BY <1>4, <1>5 DEF CertInv

LEMMA SendSteps ==
  ASSUME CertInv, NEW s \in Senders, NEW doc \in Documents, Send(s, doc)
  PROVE  CertInv'
<1>1. CertTypes /\ sender[s].pc = "free" /\ now \in 0..MaxTime
  BY DEF Send, At, CertInv, OwnInv, CertTypes
<1>2. PICK at : at = <<IF doc = Sample THEN "MLC-TEST" ELSE "MLC", now>> /\ at \in Instants
  <2>1. PICK kind : kind = (IF doc = Sample THEN "MLC-TEST" ELSE "MLC")
    OBVIOUS
  <2>2. kind \in {"MLC", "MLC-TEST"}
    BY <2>1
  <2>3. <<kind, now>> \in Instants
    BY <1>1, <2>2 DEF Instants
  <2> QED
    BY <2>1, <2>3
<1>3. PICK q : q = [pc |-> "lookup", doc |-> doc, at |-> at, ref |-> at, url |-> FALSE, sent |-> FALSE]
  OBVIOUS
<1>4. Becomes(s, q)
  BY <1>2, <1>3 DEF Send, Reference, Becomes
<1>5. SenderOK(q) /\ q.pc = "lookup" /\ ~q.url /\ ~q.sent
  BY <1>2, <1>3 DEF SenderOK, SenderRecord, Stages
<1>6. UNCHANGED <<now, file, began, mailed, cloud, activity, cutShort, failures>>
  BY DEF Send
<1>7. StageOK(q)' /\ ~Begun(q) /\ ~Busy(q)
  BY <1>5 DEF StageOK, Begun, Busy
<1> QED
  BY <1>1, <1>4, <1>5, <1>6, <1>7, QuietStep DEF CertTypes

LEMMA StopSteps ==
  ASSUME CertInv, NEW s \in Senders, sender[s].pc # "record", sender' = [sender EXCEPT ![s] = Free],
         UNCHANGED <<now, file, began, mailed, cloud, activity, cutShort>>, failures' \in 0..MaxFailures
  PROVE  CertInv'
<1>1. CertTypes /\ Becomes(s, Free)
  BY DEF CertInv, OwnInv, Becomes
<1>2. PICK q : q = Free /\ SenderOK(q) /\ q.pc = "free" /\ ~q.url /\ ~q.sent
  BY FreeIsOK
<1>3. StageOK(q)' /\ ~Begun(q) /\ ~Busy(q)
  BY <1>2 DEF StageOK, Begun, Busy
<1> QED
  BY <1>1, <1>2, <1>3, QuietStep DEF CertTypes

LEMMA OneFailureMore ==
  ASSUME CertInv, SomeCallFails
  PROVE  failures' \in 0..MaxFailures
  BY CertificatesAssumption DEF CertInv, OwnInv, CertTypes, SomeCallFails

\* The sending gets its address: it counts from here on.
LEMMA LookupSteps ==
  ASSUME CertInv, NEW s \in Senders, Lookup(s)
  PROVE  CertInv'
<1>1. /\ OwnInv /\ NotesAreTrue /\ CertTypes /\ BeginningsAreCounted /\ OneSending /\ sender[s].pc = "lookup"
      /\ UNCHANGED <<now, file, cloud, mailed, activity, cutShort, sends, failures>>
  BY DEF Lookup, At, CertInv, OwnInv
<1>2. CASE sender' = [sender EXCEPT ![s] = Free] /\ UNCHANGED began
  BY <1>1, <1>2, StopSteps DEF CertTypes
<1>3. CASE MoveTo(s, "open") /\ began' = [began EXCEPT ![sender[s].at] = @ + 1]
  <2>1. PICK q : /\ SenderOK(q) /\ Becomes(s, q) /\ GoesOn(sender[s], q)
                 /\ q.pc = "open" /\ q.url = sender[s].url /\ q.sent = sender[s].sent
    BY <1>1, <1>3, MovingTo DEF Stages
  <2>2. PICK at \in Instants : at = sender[s].at /\ at = q.at
    BY <1>1, <2>1 DEF GoesOn, SenderOK
  <2>3. /\ \A i \in Instants : began'[i] = IF i = at THEN began[i] + 1 ELSE began[i]
        /\ \A i \in Instants : began[i] \in Nat
        /\ began' \in [Instants -> Nat]
    BY <1>1, <1>3, <2>2 DEF CertTypes
  <2>4. /\ \A t \in Senders : sender'[t] = IF t = s THEN q ELSE sender[t]
        /\ \A t \in Senders : SenderOK(sender[t])
        /\ CertTypes'
    BY <1>1, <2>1, <2>3, OneSenderMoves DEF CertTypes
  <2>5. \A i \in Instants : AloneInItsInstant(i)' => \/ i # at /\ AloneInItsInstant(i)
                                                     \/ i = at /\ began[i] = 0
    BY <2>3 DEF AloneInItsInstant
  <2>6. \A i \in Instants : began'[i] >= 1 <=> began[i] >= 1 \/ i = at
    BY <2>3
  <2>7. \A t \in Senders : (Begun(sender[t]) => sender[t].at \in Instants) /\ (Busy(sender[t]) => Begun(sender[t]))
    BY <2>4 DEF SenderOK, Begun, Busy
  <2>8. BeginningsAreCounted'
    <3>1. ASSUME NEW t \in Senders, Begun(sender'[t]) PROVE began'[sender'[t].at] >= 1
      BY <1>1, <2>2, <2>4, <2>6, <2>7, <3>1 DEF BeginningsAreCounted
    <3>2. ASSUME NEW m \in mailed PROVE began'[m.at] >= 1
      BY <1>1, <2>6, <3>2 DEF BeginningsAreCounted, CertTypes
    <3>3. ASSUME NEW id \in PublicIds, cloud[id] # NoCopy
          PROVE  cloud[id].at \in Instants /\ began'[cloud[id].at] >= 1
      BY <1>1, <2>6, <3>3 DEF BeginningsAreCounted
    <3> QED
      BY <1>1, <3>1, <3>2, <3>3 DEF BeginningsAreCounted, Begun, NoCopy, NoFile
  <2>9. ASSUME AloneInItsInstant(at)'
        PROVE  /\ \A t \in Senders : Begun(sender[t]) => sender[t].at # at
               /\ \A m \in mailed : m.at # at
               /\ \A id \in PublicIds : cloud[id] # NoCopy => cloud[id].at # at
    BY <1>1, <2>2, <2>5, <2>9 DEF BeginningsAreCounted
  <2>10. OneSending'
    <3>1. ASSUME NEW t \in Senders, NEW u \in Senders, Begun(sender'[t]), Begun(sender'[u]),
                 sender'[t].at = sender'[u].at, t # u
          PROVE  began'[sender'[t].at] # 1
      <4>1. CASE sender'[t].at = at
        <5>1. ASSUME AloneInItsInstant(at)' PROVE FALSE
          <6>1. PICK v \in Senders : v # s /\ v \in {t, u}
            BY <3>1
          <6>2. Begun(sender[v]) /\ sender[v].at = at
            BY <2>4, <3>1, <4>1, <6>1
          <6> QED
            BY <2>9, <5>1, <6>2
        <5> QED
          BY <4>1, <5>1 DEF AloneInItsInstant
      <4>2. CASE sender'[t].at # at
        <5>1. /\ Begun(sender[t]) /\ Begun(sender[u]) /\ sender[t].at = sender[u].at
              /\ sender[t].at = sender'[t].at /\ sender[t].at \in Instants
          BY <2>2, <2>4, <2>7, <3>1, <4>2
        <5>2. ~AloneInItsInstant(sender[t].at)
          BY <1>1, <3>1, <5>1 DEF OneSending
        <5> QED
          BY <2>3, <4>2, <5>1, <5>2 DEF AloneInItsInstant
      <4> QED
        BY <4>1, <4>2
    <3>2. ASSUME NEW t \in Senders, NEW m \in mailed, Busy(sender'[t]), m.at = sender'[t].at
          PROVE  began'[m.at] # 1
      <4>1. CASE m.at = at
        <5>1. ASSUME AloneInItsInstant(at)' PROVE FALSE
          BY <2>9, <4>1, <5>1
        <5> QED
          BY <4>1, <5>1 DEF AloneInItsInstant
      <4>2. CASE m.at # at
        <5>1. Busy(sender[t]) /\ m.at = sender[t].at /\ m.at \in Instants
          BY <1>1, <2>2, <2>4, <3>2, <4>2 DEF CertTypes
        <5>2. ~AloneInItsInstant(m.at)
          BY <1>1, <5>1 DEF OneSending
        <5> QED
          BY <2>3, <4>2, <5>1, <5>2 DEF AloneInItsInstant
      <4> QED
        BY <4>1, <4>2
    <3> QED
      BY <1>1, <3>1, <3>2 DEF OneSending, AloneInItsInstant, Begun, Busy
  <2>11. ASSUME NEW t \in Senders PROVE StageOK(sender[t])'
    <3>1. PICK p : p = sender'[t]
      OBVIOUS
    <3>2. CASE t = s
      BY <2>1, <2>4, <3>1, <3>2 DEF StageOK
    <3>3. CASE t # s
      <4>1. p = sender[t] /\ StageOK(p) /\ SenderOK(p)
        BY <2>4, <3>1, <3>3 DEF OwnInv, CertInv
      <4>2. ASSUME p.pc \in {"write", "upload", "mail"}, AloneInItsInstant(p.at)' PROVE AloneInItsInstant(p.at)
        <5>1. p.at \in Instants /\ Begun(p)
          BY <4>1, <4>2 DEF SenderOK, Begun
        <5>2. p.at # at
          BY <2>9, <4>1, <4>2, <5>1
        <5> QED
          BY <2>5, <4>2, <5>1, <5>2
      <4>3. p.pc \in {"write", "upload", "mail"} /\ AloneInItsInstant(p.at)' =>
              /\ p.pc = "write" => file'[p.at] = NoFile
              /\ p.pc \in {"upload", "mail"} => file'[p.at] = OwnCertificate(p.doc)
        BY <1>1, <4>1, <4>2 DEF StageOK
      <4> QED
        BY <3>1, <4>3 DEF StageOK, AloneInItsInstant, NoFile, OwnCertificate
    <3> QED
      BY <3>2, <3>3
  <2>12. CertificatesAreTheirOwn'
    <3>1. CertificatesAreTheirOwn
      BY <1>1 DEF OwnInv
    <3>2. ASSUME NEW m \in mailed, AloneInItsInstant(m.at)'
          PROVE  m.attachment = OwnCertificate(m.doc) /\ file'[m.ref] = m.attachment
      <4>1. m.at \in Instants /\ m.at # at
        BY <1>1, <2>9, <3>2 DEF CertTypes
      <4> QED
        BY <1>1, <2>5, <3>1, <3>2, <4>1 DEF CertificatesAreTheirOwn
    <3>3. ASSUME NEW id \in {p.tx : p \in Purchases}, cloud[id] # NoCopy, AloneInItsInstant(cloud[id].at)'
          PROVE  \E p \in Purchases : p.tx = id /\ cloud[id].file = OwnCertificate(p)
      <4>1. cloud[id].at \in Instants /\ cloud[id].at # at
        BY <1>1, <2>9, <3>3 DEF PublicIds, BeginningsAreCounted
      <4> QED
        BY <1>1, <2>5, <3>1, <3>3, <4>1 DEF CertificatesAreTheirOwn
    <3> QED
      BY <1>1, <3>2, <3>3 DEF CertificatesAreTheirOwn, OwnCertificate, AloneInItsInstant, NoCopy, NoFile
  <2>13. NotesAreTrue'
    <3>1. NotesInv(sender[s]) /\ SenderOK(sender[s])
      BY <1>1, <2>4 DEF NotesAreTrue
    <3>2. NotesInv(q)'
      BY <1>1, <2>1, <3>1, SameKey DEF NotesInv, GoesOn, Key, NoCopy, NoFile
    <3> QED
      BY <1>1, <2>1, <2>4, <3>2, NotesOfAStep
  <2> QED
    BY <2>4, <2>8, <2>10, <2>11, <2>12, <2>13 DEF CertInv, OwnInv
<1> QED
  BY <1>2, <1>3 DEF Lookup

\* The pages of a file may have been mixed up only by a second sending.
LEMMA FileSteps ==
  ASSUME CertInv, NEW s \in Senders, Open(s) \/ Finish(s) \/ PdfFails(s)
  PROVE  CertInv'
<1>1. /\ OwnInv /\ NotesAreTrue /\ CertTypes
      /\ UNCHANGED <<now, cloud, mailed, activity, began, cutShort>>
  BY DEF CertInv, OwnInv, Open, Finish, PdfFails
<1>2. PICK p : p = sender[s] /\ SenderOK(p) /\ StageOK(p) /\ NotesInv(p)
  BY <1>1 DEF OwnInv, CertTypes, NotesAreTrue
<1>3. CASE PdfFails(s)
  <2>1. failures' \in 0..MaxFailures
    BY <1>3, OneFailureMore DEF PdfFails
  <2> QED
    BY <1>1, <1>3, <2>1, StopSteps DEF PdfFails
<1>4. ASSUME NEW pc \in {"write", "upload"}, p.pc \in {"open", "write"}, MoveTo(s, pc), UNCHANGED failures,
             NEW f \in PdfFile, file' = [file EXCEPT ![p.ref] = f],
             AloneInItsInstant(p.at) => f = IF pc = "write" THEN NoFile ELSE OwnCertificate(p.doc)
      PROVE  CertInv'
  <2>1. PICK q : /\ SenderOK(q) /\ Becomes(s, q) /\ GoesOn(p, q)
                 /\ q.pc = pc /\ q.url = p.url /\ q.sent = p.sent
    BY <1>1, <1>2, <1>4, MovingTo DEF Stages
  <2>2. p.ref = p.at /\ p.at \in References /\ q.at = p.at /\ q.doc = p.doc /\ q.ref = p.ref
    BY <1>2, <1>4, <2>1 DEF SenderOK, References, GoesOn
  <2>3. /\ file' \in [References -> PdfFile]
        /\ \A r \in References : file'[r] = IF r = p.at THEN f ELSE file[r]
    BY <1>1, <1>4, <2>2 DEF CertTypes
  <2>4. StageOK(q)'
    BY <1>1, <1>4, <2>1, <2>2, <2>3 DEF StageOK, AloneInItsInstant, NoFile, OwnCertificate
  <2>5. Begun(q) /\ Begun(p) /\ Busy(q) /\ Busy(p)
    BY <1>4, <2>1 DEF Begun, Busy
  <2>6. ~p.sent
    BY <1>2, <1>4 DEF NotesInv
  <2> QED
    BY <1>1, <1>2, <1>4, <2>1, <2>2, <2>3, <2>4, <2>5, <2>6, QuietStep DEF CertTypes
<1>5. p.pc # "free" => p.ref \in References /\ file[p.ref] \in PdfFile /\ p.ref = p.at
  BY <1>1, <1>2 DEF SenderOK, CertTypes, References
<1>6. CASE Open(s)
  <2>1. NoFile \in PdfFile
    BY DEF NoFile, PdfFile
  <2>2. p.pc = "open" /\ MoveTo(s, "write") /\ UNCHANGED failures /\ file' = [file EXCEPT ![p.ref] = NoFile]
    BY <1>2, <1>6 DEF Open, At, AfterOpen
  <2> QED
    BY <1>4, <2>1, <2>2
<1>7. CASE Finish(s)
  <2>1. PICK pages \in {{p.doc}, file[p.ref].pages \cup {p.doc}} :
          file' = [file EXCEPT ![p.ref] = [pages |-> pages, whole |-> TRUE]]
    BY <1>2, <1>7 DEF Finish
  <2>2. p.pc = "write" /\ MoveTo(s, "upload") /\ UNCHANGED failures
    BY <1>2, <1>7 DEF Finish, At
  <2>3. PICK f : f = [pages |-> pages, whole |-> TRUE]
    OBVIOUS
  <2>4. p.doc \in Documents /\ file[p.ref].pages \subseteq Documents
    BY <1>2, <1>5, <2>2 DEF SenderOK, SenderRecord, PdfFile
  <2>5. f \in PdfFile
    BY <2>1, <2>3, <2>4 DEF PdfFile
  <2>6. ASSUME AloneInItsInstant(p.at) PROVE f = OwnCertificate(p.doc)
    <3>1. file[p.ref].pages = {}
      BY <1>2, <1>5, <2>2, <2>6 DEF StageOK, NoFile
    <3> QED
      BY <2>1, <2>3, <3>1 DEF OwnCertificate
  <2> QED
    BY <1>4, <2>1, <2>2, <2>3, <2>5, <2>6
<1> QED
  BY <1>3, <1>6, <1>7

LEMMA UploadSteps ==
  ASSUME CertInv, NEW s \in Senders, Upload(s)
  PROVE  CertInv'
<1>1. /\ OwnInv /\ NotesAreTrue /\ CertTypes
      /\ UNCHANGED <<now, file, mailed, activity, began, cutShort>>
  BY DEF CertInv, OwnInv, Upload
<1>2. PICK p : p = sender[s] /\ SenderOK(p) /\ StageOK(p) /\ NotesInv(p) /\ p.pc = "upload" /\ ~p.sent
  BY <1>1 DEF OwnInv, CertTypes, NotesAreTrue, NotesInv, Upload, At
<1>3. Begun(p) /\ Busy(p) /\ p.at \in Instants /\ p.ref = p.at /\ p.doc \in Documents
  BY <1>2 DEF Begun, Busy, SenderOK, SenderRecord
<1>4. ASSUME NEW q, SenderOK(q), GoesOn(p, q), q.pc = "mail"
      PROVE  StageOK(q)' /\ q.at = p.at /\ q.ref = p.ref /\ q.doc = p.doc /\ Begun(q) /\ Busy(q)
  BY <1>1, <1>2, <1>4 DEF GoesOn, StageOK, AloneInItsInstant, OwnCertificate, NoFile, Begun, Busy
<1>5. CASE SomeCallFails /\ MoveTo(s, "mail") /\ UNCHANGED cloud
  <2>1. PICK q : /\ SenderOK(q) /\ Becomes(s, q) /\ GoesOn(p, q)
                 /\ q.pc = "mail" /\ q.url = p.url /\ q.sent = p.sent
    BY <1>1, <1>2, <1>5, MovingTo DEF Stages
  <2>2. failures' \in 0..MaxFailures
    BY <1>5, OneFailureMore
  <2>3. StageOK(q)' /\ q.at = p.at /\ q.ref = p.ref /\ q.doc = p.doc
    BY <1>4, <2>1
  <2> QED
    BY <1>1, <1>2, <1>3, <1>5, <2>1, <2>2, <2>3, QuietStep DEF CertTypes
<1>6. CASE /\ cloud' = [cloud EXCEPT ![PublicId(p.doc, p.at)] = [file |-> file[p.ref], at |-> p.at]]
           /\ sender' = [sender EXCEPT ![s].pc = "mail", ![s].url = TRUE]
           /\ UNCHANGED failures
  <2>1. PICK q : q = [p EXCEPT !.pc = "mail", !.url = TRUE]
    OBVIOUS
  <2>2. p \in SenderRecord
    BY <1>2 DEF SenderOK
  <2>3. SenderOK(q) /\ GoesOn(p, q) /\ q.pc = "mail" /\ q.url = TRUE /\ q.sent = p.sent
    <3>1. q.pc = "mail" /\ q.doc = p.doc /\ q.at = p.at /\ q.ref = p.ref /\ q.url = TRUE /\ q.sent = p.sent
      BY <2>1, <2>2 DEF SenderRecord
    <3>2. q \in SenderRecord
      BY <2>1, <2>2 DEF SenderRecord, Stages
    <3> QED
      BY <1>2, <3>1, <3>2 DEF SenderOK, GoesOn
  <2>4. Becomes(s, q)
    <3>1. sender' = [sender EXCEPT ![s] = [sender[s] EXCEPT !.pc = "mail", !.url = TRUE]]
      BY <1>1, <1>6 DEF CertTypes
    <3> QED
      BY <1>2, <2>1, <3>1 DEF Becomes
  <2>5. PICK id : id = PublicId(p.doc, p.at)
    OBVIOUS
  <2>6. id \in PublicIds /\ (p.doc # Sample => id = p.doc.tx)
    <3>1. p.at[2] \in 0..MaxTime
      BY <1>3 DEF Instants
    <3> QED
      BY <1>3, <2>5, <3>1 DEF PublicId, PublicIds, TestIds, Documents
  <2>7. PICK copy : copy = [file |-> file[p.at], at |-> p.at]
    OBVIOUS
  <2>8. /\ copy.file = file[p.at] /\ copy.at = p.at
        /\ copy \in [file : PdfFile, at : Instants \cup {Nowhen}]
    BY <1>1, <1>3, <2>7 DEF CertTypes, References
  <2>9. copy # NoCopy
    <3>1. <<"none", 0>> \notin Instants
      BY DEF Instants
    <3> QED
      BY <1>3, <2>8, <3>1 DEF NoCopy
  <2>10. cloud' = [cloud EXCEPT ![id] = copy]
    BY <1>3, <1>6, <2>5, <2>7
  <2>11. /\ cloud' \in [PublicIds -> [file : PdfFile, at : Instants \cup {Nowhen}]]
         /\ \A i \in PublicIds : cloud'[i] = IF i = id THEN copy ELSE cloud[i]
    BY <1>1, <2>6, <2>8, <2>10 DEF CertTypes
  <2>12. CertTypes'
    BY <1>1, <1>2, <1>6, <2>3, <2>4, <2>11, OneSenderMoves DEF CertTypes
  <2>13. OwnInv'
    BY <1>1, <1>2, <1>3, <1>4, <2>3, <2>4, <2>5, <2>8, <2>11, <2>12, StepOfASender
  <2>14. NotesInv(q)'
    <3>1. q.doc = p.doc /\ ~q.sent /\ q.url
      BY <1>2, <2>3 DEF GoesOn
    <3>2. q.doc # Sample => cloud'[q.doc.tx] # NoCopy
      BY <2>6, <2>9, <2>11, <3>1
    <3> QED
      BY <3>1, <3>2 DEF NotesInv, NoCopy, NoFile
  <2>15. NotesAreTrue'
    BY <1>1, <1>2, <2>3, <2>4, <2>9, <2>11, <2>12, <2>14, NotesOfAStep
  <2> QED
    BY <2>13, <2>15 DEF CertInv
<1> QED
  BY <1>2, <1>5, <1>6 DEF Upload

\* The mail as it would go out.
Letter(p) == [doc |-> p.doc, at |-> p.at, ref |-> p.ref, attachment |-> file[p.ref]]

LEMMA LetterSteps ==
  ASSUME CertInv, NEW s \in Senders, sender[s].pc = "mail", NEW q, SenderOK(q), Becomes(s, q),
         GoesOn(sender[s], q), q.pc \in {"free", "record", "hung"}, q.url = sender[s].url,
         NEW M \in SUBSET {Letter(sender[s])}, mailed' = mailed \cup M,
         q.sent => q.pc \in {"free", "record"} /\ M # {},
         M # {} => sender[s].doc = Sample \/ q.pc = "record" \/ Key(sender[s]) \in cutShort',
         UNCHANGED <<now, file, cloud, activity, began>>, cutShort \subseteq cutShort',
         failures' \in 0..MaxFailures
  PROVE  CertInv'
<1>1. /\ OwnInv /\ NotesAreTrue /\ CertTypes
  BY DEF CertInv, OwnInv
<1>2. PICK p : p = sender[s] /\ SenderOK(p) /\ NotesInv(p)
  BY <1>1 DEF CertTypes, NotesAreTrue
<1>3. /\ p.at \in Instants /\ p.at \in References /\ p.ref = p.at /\ p.doc \in Documents
      /\ q.doc = p.doc /\ q.at = p.at /\ q.ref = p.ref
  BY <1>2 DEF SenderOK, SenderRecord, GoesOn, References
<1>4. ASSUME NEW m \in mailed', m \notin mailed
      PROVE  /\ m.doc = p.doc /\ m.at = p.at /\ m.ref = p.at /\ m.attachment = file[p.at]
             /\ m \in [doc : Documents, at : Instants, ref : Instants, attachment : PdfFile]
  <2>1. m = Letter(p)
    BY <1>2, <1>4
  <2> QED
    BY <1>1, <1>3, <2>1 DEF Letter, CertTypes
<1>5. CertTypes'
  <2>1. /\ \A m \in mailed' : m.ref = m.at
        /\ mailed' \subseteq [doc : Documents, at : Instants, ref : Instants, attachment : PdfFile]
    BY <1>1, <1>4 DEF CertTypes
  <2> QED
    BY <1>1, <2>1, OneSenderMoves DEF CertTypes
<1>6. StageOK(q)' /\ ~Busy(q) /\ (Begun(q) => Begun(p) /\ q.at = p.at)
  BY <1>2, <1>3 DEF StageOK, Busy, Begun
<1>7. OwnInv'
  BY <1>1, <1>2, <1>3, <1>4, <1>5, <1>6, StepOfASender
<1>8. NotesInv(q)'
  <2>1. ASSUME q.sent PROVE \E m \in mailed' : Key(m) = Key(q)
    <3>1. Letter(p) \in mailed'
      BY <1>2, <2>1
    <3>2. Key(Letter(p)) = Key(q)
      BY <1>3 DEF Key, Letter
    <3> QED
      BY <3>1, <3>2
  <2>2. q.url /\ q.doc # Sample => cloud'[q.doc.tx] # NoCopy
    BY <1>2, <1>3 DEF NotesInv
  <2> QED
    BY <2>1, <2>2 DEF NotesInv, Key, NoCopy, NoFile
<1>9. \A m \in mailed' \ mailed :
         m.doc = Sample \/ (q.pc = "record" /\ Key(q) = Key(m)) \/ Key(m) \in cutShort'
  <2> SUFFICES ASSUME NEW m \in mailed', m \notin mailed
               PROVE  m.doc = Sample \/ (q.pc = "record" /\ Key(q) = Key(m)) \/ Key(m) \in cutShort'
    OBVIOUS
  <2>1. m.doc = p.doc /\ m.ref = p.ref /\ M # {}
    BY <1>3, <1>4
  <2>2. Key(m) = Key(p) /\ Key(m) = Key(q)
    BY <1>3, <2>1, SameKey
  <2> QED
    BY <1>2, <2>1, <2>2
<1>10. NotesAreTrue'
  BY <1>1, <1>5, <1>8, <1>9, NotesOfAStep
<1> QED
  BY <1>7, <1>10 DEF CertInv

LEMMA MailSteps ==
  ASSUME CertInv, NEW s \in Senders, Mail(s) \/ Hang(s)
  PROVE  CertInv'
<1>1. CertTypes /\ sender[s].pc = "mail" /\ UNCHANGED <<now, file, cloud, activity, began>>
  BY DEF CertInv, OwnInv, Mail, Hang, At
<1>2. PICK p : p = sender[s] /\ SenderOK(p) /\ NotesInv(p) /\ p.pc = "mail" /\ ~p.sent
               /\ p.doc \in Documents /\ p \in SenderRecord
  BY <1>1 DEF CertInv, NotesAreTrue, CertTypes, SenderOK, SenderRecord, NotesInv
<1>3. CASE Hang(s)
  <2>1. PICK q : /\ SenderOK(q) /\ Becomes(s, q) /\ GoesOn(sender[s], q)
                 /\ q.pc = "hung" /\ q.url = sender[s].url /\ q.sent = sender[s].sent
    BY <1>1, <1>3, MovingTo DEF Hang, Stages
  <2>2. PICK M \in SUBSET {Letter(sender[s])} : mailed' = mailed \cup M
    BY <1>3 DEF Hang, Letter
  <2>3. failures' \in 0..MaxFailures
    BY <1>3, OneFailureMore DEF Hang
  <2>4. Key(sender[s]) \in cutShort' /\ cutShort \subseteq cutShort'
    BY <1>3 DEF Hang
  <2> QED
    BY <1>1, <1>2, <2>1, <2>2, <2>3, <2>4, LetterSteps
<1>4. CASE p.doc = Sample /\ MoveTo(s, "free") /\ UNCHANGED <<mailed, failures>> /\ Mail(s)
  <2>1. PICK q : /\ SenderOK(q) /\ Becomes(s, q) /\ GoesOn(sender[s], q)
                 /\ q.pc = "free" /\ q.url = sender[s].url /\ q.sent = sender[s].sent
    BY <1>1, <1>4, MovingTo DEF Stages
  <2>2. /\ {} \in SUBSET {Letter(sender[s])} /\ mailed' = mailed \cup {} /\ failures' \in 0..MaxFailures
        /\ cutShort \subseteq cutShort'
    BY <1>1, <1>4 DEF CertTypes, Mail
  <2> QED
    BY <1>1, <1>2, <2>1, <2>2, LetterSteps
<1>5. ASSUME NEW accepted \in BOOLEAN, NEW answered \in BOOLEAN, Mail(s),
             IF accepted /\ answered THEN UNCHANGED failures ELSE SomeCallFails,
             mailed' = IF accepted THEN mailed \cup {Letter(p)} ELSE mailed,
             sender' = [sender EXCEPT ![s].pc = RecordAnyway(p.doc, ReportsSent(accepted, answered)),
                                      ![s].sent = ReportsSent(accepted, answered)]
      PROVE  CertInv'
  <2>1. PICK pc, sent : pc = RecordAnyway(p.doc, ReportsSent(accepted, answered))
                        /\ sent = ReportsSent(accepted, answered)
    OBVIOUS
  <2>2. /\ sent \in BOOLEAN /\ (sent => accepted)
        /\ pc = IF p.doc = Sample THEN "free" ELSE "record"
    BY <2>1 DEF ReportsSent, RecordAnyway
  <2>3. PICK q : q = [p EXCEPT !.pc = pc, !.sent = sent]
    OBVIOUS
  <2>4. q.pc = pc /\ q.doc = p.doc /\ q.at = p.at /\ q.ref = p.ref /\ q.url = p.url /\ q.sent = sent
    BY <1>2, <2>3 DEF SenderRecord
  <2>5. pc \in Stages
    BY <2>2 DEF Stages
  <2>6. q \in SenderRecord
    BY <1>2, <2>2, <2>3, <2>5 DEF SenderRecord
  <2>7. SenderOK(q) /\ GoesOn(p, q)
    BY <1>2, <2>2, <2>4, <2>6 DEF SenderOK, GoesOn
  <2>8. Becomes(s, q)
    <3>1. sender' = [sender EXCEPT ![s] = [sender[s] EXCEPT !.pc = pc, !.sent = sent]]
      BY <1>1, <1>5, <2>1 DEF CertTypes
    <3> QED
      BY <1>2, <2>3, <3>1 DEF Becomes
  <2>9. failures' \in 0..MaxFailures
    <3>1. CASE accepted /\ answered
      BY <1>1, <1>5, <3>1 DEF CertTypes
    <3>2. CASE ~(accepted /\ answered)
      BY <1>5, <3>2, OneFailureMore
    <3> QED
      BY <3>1, <3>2
  <2>10. PICK M \in SUBSET {Letter(sender[s])} : mailed' = mailed \cup M /\ (accepted <=> M # {})
    <3>1. CASE accepted
      BY <1>2, <1>5, <3>1
    <3>2. CASE ~accepted
      BY <1>2, <1>5, <3>2
    <3> QED
      BY <3>1, <3>2
  <2>11. UNCHANGED cutShort
    BY <1>5 DEF Mail
  <2> QED
    BY <1>1, <1>2, <2>2, <2>4, <2>7, <2>8, <2>9, <2>10, <2>11, LetterSteps
<1>6. CASE Mail(s)
  BY <1>2, <1>4, <1>5, <1>6 DEF Mail, Letter
<1> QED
  BY <1>3, <1>6

LEMMA RecordSteps ==
  ASSUME CertInv, NEW s \in Senders, Record(s)
  PROVE  CertInv'
<1>1. /\ OwnInv /\ NotesAreTrue /\ CertTypes /\ sender[s].pc = "record"
      /\ sender' = [sender EXCEPT ![s] = Free]
      /\ UNCHANGED <<now, file, cloud, mailed, began>>
  BY DEF CertInv, OwnInv, Record, At
<1>2. PICK p : p = sender[s] /\ SenderOK(p) /\ NotesInv(p) /\ p.pc = "record"
               /\ p.doc \in Documents /\ p.url \in BOOLEAN /\ p.sent \in BOOLEAN
  BY <1>1 DEF CertTypes, NotesAreTrue, SenderOK, SenderRecord
<1>3. p.doc \in Purchases /\ p.doc # Sample /\ p.ref \in References
  BY <1>2 DEF SenderOK, Documents, References
<1>4. PICK q : q = Free /\ SenderOK(q) /\ q.pc = "free" /\ ~q.url /\ ~q.sent
  BY FreeIsOK
<1>5. Becomes(s, q) /\ StageOK(q)' /\ ~Begun(q) /\ ~Busy(q) /\ NotesInv(q)'
  BY <1>1, <1>4 DEF Becomes, StageOK, Begun, Busy, NotesInv
<1>6. PICK row : row = [doc |-> p.doc, ref |-> p.ref, url |-> p.url, emailSent |-> p.sent]
  OBVIOUS
<1>7. /\ row.doc = p.doc /\ row.ref = p.ref /\ row.url = p.url /\ row.emailSent = p.sent
      /\ row \in [doc : Purchases, ref : References, url : BOOLEAN, emailSent : BOOLEAN]
  BY <1>2, <1>3, <1>6
<1>8. \/ activity' = activity \cup {row} /\ UNCHANGED <<cutShort, failures>>
      \/ UNCHANGED activity /\ cutShort' = cutShort \cup {Key(p)} /\ SomeCallFails
  BY <1>2, <1>6 DEF Record
<1>9. failures' \in 0..MaxFailures
  BY <1>1, <1>8, OneFailureMore DEF CertTypes
<1>10. CertTypes'
  BY <1>1, <1>4, <1>5, <1>7, <1>8, <1>9, OneSenderMoves DEF CertTypes
<1>11. OwnInv'
  BY <1>1, <1>4, <1>5, <1>10, StepOfASender
<1>12. ASSUME NEW new \in activity', new \notin activity
       PROVE  /\ new.emailSent => \E m \in mailed' : Key(m) = Key(new)
              /\ new.url => cloud'[new.doc.tx] # NoCopy
  <2>1. new = row
    BY <1>8, <1>12
  <2>2. Key(row) = Key(p)
    BY <1>7, SameKey
  <2> QED
    BY <1>1, <1>2, <1>3, <1>7, <2>1, <2>2 DEF NotesInv
<1>13. \/ Key(sender[s]) \in cutShort'
       \/ \E new \in activity' : new.doc = sender[s].doc /\ new.ref = sender[s].ref
  BY <1>2, <1>7, <1>8
<1>14. activity \subseteq activity' /\ cutShort \subseteq cutShort'
  BY <1>8
<1>15. NotesAreTrue'
  BY <1>1, <1>4, <1>5, <1>10, <1>12, <1>13, <1>14, NotesOfAStep
<1> QED
  BY <1>11, <1>15 DEF CertInv

\* After a restart the files and the mails are what they were, and nobody sends.
LEMMA RestartSteps ==
  ASSUME CertInv, Restart
  PROVE  CertInv'
<1>1. /\ OwnInv /\ NotesAreTrue /\ CertTypes
      /\ sender' = [s \in Senders |-> Free] /\ cutShort' = cutShort \cup {Key(sender[s]) : s \in Senders}
      /\ UNCHANGED <<file, cloud, mailed, activity, began>>
      /\ now' \in 0..MaxTime /\ failures' \in 0..MaxFailures
  BY OneFailureMore, CertificatesAssumption DEF CertInv, OwnInv, CertTypes, Restart
<1>2. PICK q : q = Free /\ SenderOK(q) /\ q.pc = "free" /\ ~q.url /\ ~q.sent
  BY FreeIsOK
<1>3. \A s \in Senders : sender'[s] = q
  BY <1>1, <1>2
<1>4. SenderOK(q)' /\ ~Begun(q) /\ ~Busy(q) /\ StageOK(q)' /\ NotesInv(q)'
  BY <1>2 DEF Begun, Busy, StageOK, NotesInv, SenderOK
<1>5. CertTypes'
  BY <1>1, <1>2, <1>3, <1>4 DEF CertTypes, SenderOK
<1>6. OwnInv'
  <2>1. BeginningsAreCounted' /\ OneSending'
    BY <1>1, <1>3, <1>4 DEF OwnInv, BeginningsAreCounted, OneSending, Begun, Busy, NoCopy, NoFile
  <2>2. \A s \in Senders : StageOK(sender[s])'
    BY <1>2, <1>3 DEF StageOK
  <2>3. CertificatesAreTheirOwn'
    BY <1>1 DEF OwnInv, CertificatesAreTheirOwn, AloneInItsInstant, OwnCertificate, NoCopy, NoFile
  <2> QED
    BY <1>5, <2>1, <2>2, <2>3 DEF OwnInv
<1>7. NotesAreTrue'
  <2>1. \A s \in Senders : NotesInv(sender[s])'
    BY <1>2, <1>3 DEF NotesInv
  <2>2. ASSUME NEW m \in mailed, m.doc # Sample
        PROVE  (\E row \in activity : row.doc = m.doc /\ row.ref = m.ref) \/ Key(m) \in cutShort'
    BY <1>1, <2>2 DEF NotesAreTrue, RecordsAreTrue
  <2>3. RecordsAreTrue'
    <3>1. \A row \in activity : /\ row.emailSent => \E m \in mailed : Key(m) = Key(row)
                                /\ row.url => cloud[row.doc.tx] # NoCopy
      BY <1>1 DEF NotesAreTrue, RecordsAreTrue
    <3> QED
      BY <1>1, <2>2, <3>1 DEF RecordsAreTrue, Key, NoCopy, NoFile
  <2> QED
    BY <2>1, <2>3 DEF NotesAreTrue
<1> QED
  BY <1>6, <1>7 DEF CertInv

LEMMA ClockSteps ==
  ASSUME CertInv, now' \in 0..MaxTime,
         UNCHANGED <<file, cloud, mailed, activity, sender, began, cutShort, failures>>
  PROVE  CertInv'
<1>1. OwnInv /\ NotesAreTrue /\ CertTypes
  BY DEF CertInv, OwnInv
<1>2. CertTypes'
  BY <1>1 DEF CertTypes, SenderOK
<1>3. OwnInv'
  BY <1>1, <1>2 DEF OwnInv, BeginningsAreCounted, OneSending, StageOK, CertificatesAreTheirOwn,
                    AloneInItsInstant, OwnCertificate, NoCopy, NoFile, Begun, Busy
<1>4. NotesAreTrue'
  BY <1>1 DEF NotesAreTrue, RecordsAreTrue, NotesInv, Key, NoCopy, NoFile, At
<1> QED
  BY <1>3, <1>4 DEF CertInv

LEMMA CertificatesInitially == CertInit => CertInv
<1> SUFFICES ASSUME CertInit PROVE CertInv
  OBVIOUS
<1>1. PICK q : q = Free /\ SenderOK(q) /\ q.pc = "free" /\ ~q.url /\ ~q.sent
  BY FreeIsOK
<1>2. \A s \in Senders : sender[s] = q
  BY <1>1 DEF CertInit
<1>3. NoFile \in PdfFile /\ NoCopy \in [file : PdfFile, at : Instants \cup {Nowhen}]
  BY DEF NoFile, PdfFile, NoCopy, Nowhen
<1>4. CertTypes
  BY <1>1, <1>2, <1>3, CertificatesAssumption DEF CertInit, CertTypes
<1>5. BeginningsAreCounted /\ OneSending /\ CertificatesAreTheirOwn
  BY <1>1, <1>2 DEF CertInit, BeginningsAreCounted, OneSending, CertificatesAreTheirOwn, Begun, Busy, PublicIds
<1>6. \A s \in Senders : StageOK(sender[s]) /\ NotesInv(sender[s])
  BY <1>1, <1>2 DEF StageOK, NotesInv
<1>7. RecordsAreTrue
  BY DEF CertInit, RecordsAreTrue
<1> QED
  BY <1>4, <1>5, <1>6, <1>7 DEF CertInv, OwnInv, NotesAreTrue

LEMMA CertificatesHold == CertSpec => []CertInv
<1>1. CertInv /\ [CertNext]_certVars => CertInv'
  <2> SUFFICES ASSUME CertInv, [CertNext]_certVars PROVE CertInv'
    OBVIOUS
  <2>1. CASE UNCHANGED certVars
    BY <2>1, ClockSteps DEF certVars, CertInv, OwnInv, CertTypes
  <2>2. CASE Tick
    <3>1. now' \in 0..MaxTime
      BY <2>2, CertificatesAssumption DEF Tick, CertInv, OwnInv, CertTypes
    <3> QED
      BY <2>2, <3>1, ClockSteps DEF Tick
  <2> QED
    BY <2>1, <2>2, RestartSteps, SendSteps, LookupSteps, FileSteps, UploadSteps, MailSteps, RecordSteps
       DEF CertNext
<1> QED
  BY <1>1, CertificatesInitially, PTL DEF CertSpec

\* A mail carries the whole certificate of its own purchase and the reference in
\* it finds that certificate for good; an uploaded copy is the certificate of a
\* purchase of its transaction: unless two sendings share a millisecond
\* (PresaleBuyHandler.sendSAFTCertificate, PdfGeneratorService).
THEOREM CertificatesAreNotMixedUp == CertSpec => []CertificatesAreTheirOwn
<1>1. CertInv => CertificatesAreTheirOwn
  BY DEF CertInv, OwnInv
<1> QED
  BY <1>1, CertificatesHold, PTL

\* A mail about a purchase has its row in the activity feed, unless its sender
\* was cut short, and no row claims a mail or a copy there is not.
THEOREM FeedTellsTheTruth == CertSpec => []RecordsAreTrue
<1>1. CertInv => RecordsAreTrue
  BY DEF CertInv, NotesAreTrue
<1> QED
  BY <1>1, CertificatesHold, PTL

\* All types of the senders' variables.
THEOREM CertTypesAreRight == CertSpec => []CertTypeOK
<1>1. CertInv => CertTypeOK
  BY DEF CertInv, OwnInv, CertTypes, CertTypeOK, PdfFile, References
<1> QED
  BY <1>1, CertificatesHold, PTL

-----------------------------------------------------------------------------
(***************************************************************************)
(* The parts side by side, as the runs check them                          *)
(***************************************************************************)

\* Each part behaves in the composition as it does alone, so that whatever was
\* proved of it holds there.
THEOREM PartsBehaveAsAlone == Spec => LoginSpec /\ DeskSpec /\ CertSpec /\ AdminSpec /\ MonitorSpec
<1>1. Init => LoginInit /\ DeskInit /\ CertInit /\ AdminInit /\ MonitorInit
  BY DEF Init
<1>2. [Next]_allVars => [LoginNext]_loginVars
  BY DEF Next, allVars
<1>3. [Next]_allVars => [DeskNext]_deskVars
  BY DEF Next, allVars
<1>4. [Next]_allVars => [CertNext]_certVars
  BY DEF Next, allVars
<1>5. [Next]_allVars => [AdminNext]_adminVars
  BY DEF Next, allVars
<1>6. [Next]_allVars => [MonitorNext]_monitorVars
  BY DEF Next, allVars
<1> QED
  BY <1>1, <1>2, <1>3, <1>4, <1>5, <1>6, PTL DEF Spec, LoginSpec, DeskSpec, CertSpec, AdminSpec, MonitorSpec

\* All types of all variables of the five parts.
THEOREM TypesAreRight == Spec => []TypeOK
<1>1. LoginTypeOK /\ DeskTypeOK /\ CertTypeOK /\ AdminTypeOK /\ MonitorTypeOK => TypeOK
  BY DEF TypeOK
<1> QED
  BY <1>1, PartsBehaveAsAlone, LoginTypesAreRight, DeskTypesAreRight, CertTypesAreRight,
     AdminTypesAreRight, MonitorTypesAreRight, PTL
=============================================================================
