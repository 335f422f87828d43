---------------------------- MODULE WalletLogin ----------------------------
(***************************************************************************)
(* Login by wallet (AuthService): a nonce is stored for the wallet, the    *)
(* client signs a message that contains it, and the verification consumes  *)
(* it and issues a token.  Each database call is a step of its own, and    *)
(* requests for the same wallet may overlap.  Signatures are those of the  *)
(* wallet: the code rejects all others before it reads anything.           *)
(***************************************************************************)
EXTENDS Integers, FiniteSets

CONSTANTS
  Wallets,
  LoginRequests,  \* requests that may be in progress at once
  MaxNonces       \* bound: nonces generated

ASSUME LoginAssumption == MaxNonces \in Nat

VARIABLES
  authNonce,   \* the row of each wallet in auth_nonces
  lastNonce,   \* nonces are random: the model numbers them
  given,       \* the nonces returned for each wallet
  loginReq,    \* locals of each request
  tokens,      \* wallets with a token that has not expired
  stored,      \* history: how often a nonce was stored for a wallet
  logins,      \* history: successful verifications of each wallet
  uses         \* history: successful verifications with each nonce

loginHistory == <<stored, logins, uses>>
loginVars    == <<authNonce, lastNonce, given, loginReq, tokens, loginHistory>>

NoRow == [nonce |-> 0, expired |-> FALSE]
Row(nonce) == [nonce |-> nonce, expired |-> FALSE]

\* One record for both kinds of request: its arguments and where it is.
NoRequest == [pc |-> "idle", wallet |-> "none", nonce |-> 0]

NoLogin(r)     == loginReq[r] = NoRequest
LoginAt(r, pc) == loginReq[r].pc = pc
EndLogin(r)    == loginReq' = [loginReq EXCEPT ![r] = NoRequest]

-----------------------------------------------------------------------------
\* generateNonce: the row is looked up, then updated or created.
LookUpRow(r, w) ==
  /\ NoLogin(r)
  /\ lastNonce < MaxNonces
  /\ lastNonce' = lastNonce + 1
  /\ loginReq' = [loginReq EXCEPT ![r] =
       [pc |-> IF authNonce[w] = NoRow THEN "create" ELSE "update",
        wallet |-> w, nonce |-> lastNonce + 1]]
  /\ UNCHANGED <<authNonce, given, tokens, loginHistory>>

\* The update of a row that is gone and the creation of one that is there
\* throw, and the client gets no nonce.
StoreNonce(r) ==
  LET w == loginReq[r].wallet
      n == loginReq[r].nonce
      writes == IF LoginAt(r, "create") THEN authNonce[w] = NoRow ELSE authNonce[w] # NoRow
  IN /\ loginReq[r].pc \in {"create", "update"}
     /\ \/ /\ writes
           /\ authNonce' = [authNonce EXCEPT ![w] = Row(n)]
           /\ given' = [given EXCEPT ![w] = @ \cup {n}]
           /\ stored' = [stored EXCEPT ![w] = @ + 1]
        \/ ~writes /\ UNCHANGED <<authNonce, given, stored>>
     /\ EndLogin(r)
     /\ UNCHANGED <<lastNonce, tokens, logins, uses>>

\* verifySignature up to its first delete: without a row, or with another
\* nonce in the row than in the message, it throws.
CheckNonce(r, w, n) ==
  /\ NoLogin(r)
  /\ n \in given[w]
  /\ \/ /\ authNonce[w] # NoRow
        /\ authNonce[w].expired
        /\ loginReq' = [loginReq EXCEPT ![r] = [pc |-> "expire", wallet |-> w, nonce |-> n]]
     \/ /\ authNonce[w] = Row(n)
        /\ loginReq' = [loginReq EXCEPT ![r] = [pc |-> "consume", wallet |-> w, nonce |-> n]]
  /\ UNCHANGED <<authNonce, lastNonce, given, tokens, loginHistory>>

KeepRow(w)   == UNCHANGED authNonce
DeleteRow(w) == authNonce' = [authNonce EXCEPT ![w] = NoRow]

DeleteExpired(r) ==
  /\ LoginAt(r, "expire")
  /\ DeleteRow(loginReq[r].wallet)
  /\ EndLogin(r)
  /\ UNCHANGED <<lastNonce, given, tokens, loginHistory>>

AnyCountDeleted(w) == TRUE
Deletes(w)         == authNonce[w] # NoRow

\* The delete names the wallet, not the nonce; it throws when no row is there.
ConsumeNonce(r) ==
  /\ LoginAt(r, "consume")
  /\ DeleteRow(loginReq[r].wallet)
  /\ IF Deletes(loginReq[r].wallet)
     THEN loginReq' = [loginReq EXCEPT ![r].pc = "user"]
     ELSE EndLogin(r)
  /\ UNCHANGED <<lastNonce, given, tokens, loginHistory>>

\* createOrUpdate and the token; the database may fail once more.
IssueToken(r) ==
  LET w == loginReq[r].wallet IN
  /\ LoginAt(r, "user")
  /\ \/ /\ tokens' = tokens \cup {w}
        /\ logins' = [logins EXCEPT ![w] = @ + 1]
        /\ uses' = [uses EXCEPT ![loginReq[r].nonce] = @ + 1]
     \/ UNCHANGED <<tokens, logins, uses>>
  /\ EndLogin(r)
  /\ UNCHANGED <<authNonce, lastNonce, given, stored>>

-----------------------------------------------------------------------------
\* Five minutes go by for a nonce, seven days for a token.
NonceExpires(w) ==
  /\ authNonce[w] # NoRow /\ ~authNonce[w].expired
  /\ authNonce' = [authNonce EXCEPT ![w].expired = TRUE]
  /\ UNCHANGED <<lastNonce, given, loginReq, tokens, loginHistory>>

TokenExpires(w) ==
  /\ w \in tokens
  /\ tokens' = tokens \ {w}
  /\ UNCHANGED <<authNonce, lastNonce, given, loginReq, loginHistory>>

LoginInit ==
  /\ authNonce = [w \in Wallets |-> NoRow]
  /\ lastNonce = 0
  /\ given = [w \in Wallets |-> {}]
  /\ loginReq = [r \in LoginRequests |-> NoRequest]
  /\ tokens = {}
  /\ stored = [w \in Wallets |-> 0]
  /\ logins = [w \in Wallets |-> 0]
  /\ uses = [n \in 1..MaxNonces |-> 0]

LoginNext ==
  \/ \E r \in LoginRequests :
       \/ StoreNonce(r) \/ DeleteExpired(r) \/ ConsumeNonce(r) \/ IssueToken(r)
       \/ \E w \in Wallets : LookUpRow(r, w) \/ \E n \in given[w] : CheckNonce(r, w, n)
  \/ \E w \in Wallets : NonceExpires(w) \/ TokenExpires(w)

LoginSpec == LoginInit /\ [][LoginNext]_loginVars

-----------------------------------------------------------------------------
\* Types of all variables.
LoginTypeOK ==
  /\ authNonce \in [Wallets -> [nonce : 0..MaxNonces, expired : BOOLEAN]]
  /\ lastNonce \in 0..MaxNonces
  /\ given \in [Wallets -> SUBSET (1..MaxNonces)]
  /\ loginReq \in [LoginRequests -> [pc : {"idle", "create", "update", "expire", "consume", "user"},
                                     wallet : Wallets \cup {"none"}, nonce : 0..MaxNonces]]
  /\ tokens \subseteq Wallets
  /\ stored \in [Wallets -> 0..MaxNonces]
  /\ logins \in [Wallets -> Nat]
  /\ uses \in [1..MaxNonces -> Nat]

\* However verifications overlap with each other and with new nonces, a wallet
\* never logs in more often than nonces were stored for it: each login takes a
\* row away, although not always the one of its own nonce (verifySignature).
LoginsUseUpNonces ==
  \A w \in Wallets : logins[w] <= stored[w]

\* Once a nonce has logged in, no verification that starts then gets past the
\* check with it: only those that had read the row before can still log in
\* (verifySignature, generateNonce).
UsedNoncesAreRefused ==
  [][\A r \in LoginRequests :
       LoginAt(r, "idle") /\ loginReq'[r].pc = "consume" => uses[loginReq'[r].nonce] = 0]_loginVars

-----------------------------------------------------------------------------
\* AuthService.verifySignature, "Consume the nonce (one-time use)".
NoncesAreUsedOnce ==
  \A n \in 1..MaxNonces : uses[n] <= 1
=============================================================================
