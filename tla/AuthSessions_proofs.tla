-------------------------- MODULE AuthSessions_proofs --------------------------
(* Theorems about AuthSessions for any number of users, requests and tokens. *)
EXTENDS AuthSessions, TLAPS

-------------------------------------------------------------------------------
(* Type correctness *)

\* A refresh that has consumed its token holds a token the server has signed.
ConsumedIsMinted ==
    \A r \in Request : tx[r].at = "consumed" =>
        tx[r].presented \in Token /\ minted[tx[r].presented] # Unminted

\* The record of a transaction that begins, and of one that ended.
LEMMA IdleType == Idle \in Transactions /\ Idle.at = "idle"
BY DEF Idle, Transactions, Steps

\* Issuing signs well-formed claims and keeps the transaction well-formed.
LEMMA IssueTypes ==
    ASSUME TypeOK, NEW r \in Request, NEW u, NEW kind \in Kinds, NEW basis \in Nat,
           NEW chain \in Token \cup {NoToken}, chain # NoToken => minted[chain] # Unminted,
           Issue(r, u, kind, chain, basis)
    PROVE  /\ minted' \in [Token -> Claims \cup {Unminted}]
           /\ tx' \in [Request -> Transactions]
           /\ tx'[r].at = "ready"
           /\ \A q \in Request \ {r} : tx'[q] = tx[q]
           /\ \A t \in Token : minted[t] # Unminted => minted'[t] = minted[t]
<1> USE SentinelsApart
<1>1. u \in User
  BY DEF Issue, TypeOK
<1>2. PICK t \in Unused :
        /\ minted' = [minted EXCEPT ![t] =
             [user |-> u, kind |-> kind, basis |-> basis,
              root |-> IF chain = NoToken THEN t ELSE minted[chain].root]]
        /\ tx' = [tx EXCEPT ![r].at = "ready", ![r].user = u, ![r].issued = t]
  BY DEF Issue
<1>3. t \in Token /\ minted[t] = Unminted
  BY <1>2 DEF Unused
<1>4. (IF chain = NoToken THEN t ELSE minted[chain].root) \in Token
  BY <1>3 DEF TypeOK, Claims
<1>5. minted' \in [Token -> Claims \cup {Unminted}]
  BY <1>1, <1>2, <1>3, <1>4 DEF TypeOK, Claims
<1>6. tx' \in [Request -> Transactions] /\ tx'[r].at = "ready"
  <2> DEFINE new == [tx[r] EXCEPT !.at = "ready", !.user = u, !.issued = t]
  <2>1. tx[r] \in Transactions
    BY DEF TypeOK
  <2>2. new \in Transactions /\ new.at = "ready"
    BY <1>1, <1>3, <2>1 DEF Transactions, Steps
  <2>3. tx' = [tx EXCEPT ![r] = new]
    BY <1>2 DEF TypeOK
  <2>4. QED
    BY <2>2, <2>3 DEF TypeOK
<1>7. QED
  BY <1>2, <1>3, <1>5, <1>6 DEF TypeOK

\* The first statement of a request that writes nothing but its own transaction.
LEMMA BeginTypes ==
    ASSUME TypeOK, NEW r \in Request, Begin(r)
    PROVE  \/ \E u \in User : RequestReset(r, u)
           \/ /\ UNCHANGED <<accounts, password, rows, expired, minted, spent>>
              /\ tx' \in [Request -> Transactions]
              /\ \A q \in Request \ {r} : tx'[q] = tx[q]
              /\ tx'[r].at = "consumed" =>
                   tx'[r].presented \in Token /\ minted[tx'[r].presented] # Unminted
<1> USE SentinelsApart, IdleType
<1> DEFINE Starts == /\ UNCHANGED <<accounts, password, rows, expired, minted, spent>>
                     /\ tx' \in [Request -> Transactions]
                     /\ \A q \in Request \ {r} : tx'[q] = tx[q]
                     /\ tx'[r].at = "consumed" =>
                          tx'[r].presented \in Token /\ minted[tx'[r].presented] # Unminted
<1>1. ASSUME NEW u \in User, LoginVerify(r, u)  PROVE  Starts
  <2> DEFINE new == [Idle EXCEPT !.at = "verified", !.user = u, !.seen = password[u]]
  <2>1. new \in Transactions /\ new.at = "verified"
    BY DEF Transactions, Steps, TypeOK
  <2>2. QED
    BY <1>1, <2>1 DEF LoginVerify, TypeOK
<1>2. ASSUME NEW u \in User, RequestErasure(r, u)  PROVE  Starts
  <2> DEFINE new == [Idle EXCEPT !.at = "closing", !.user = u]
  <2>1. new \in Transactions /\ new.at = "closing"
    BY DEF Transactions, Steps
  <2>2. QED
    BY <1>2, <2>1 DEF RequestErasure, TypeOK
<1>3. ASSUME NEW t \in Token, NEW kind \in Kinds,
             NEW next \in {"consumed", "redeemed", "ready"}, Consume(r, t, kind, next)
      PROVE  Starts
  <2> DEFINE new == [Idle EXCEPT !.at = next, !.user = minted[t].user,
                                 !.presented = t, !.removed = {t}]
  <2>1. minted[t] # Unminted /\ minted[t].user \in User
    BY <1>3 DEF Consume, TypeOK, Claims, Unminted, Kinds
  <2>2. new \in Transactions /\ new.presented = t
    BY <2>1 DEF Transactions, Steps, Idle
  <2>3. QED
    BY <1>3, <2>1, <2>2 DEF Consume, TypeOK
<1>4. ASSUME NEW t \in Token, RevokeSession(r, t)  PROVE  Starts
  <2> DEFINE new == [Idle EXCEPT !.at = "ready", !.user = minted[t].user,
                                 !.presented = t, !.removed = {t}]
  <2>1. minted[t].user \in User
    BY <1>4 DEF RevokeSession, TypeOK
  <2>2. new \in Transactions /\ new.at = "ready"
    BY <2>1 DEF Transactions, Steps, Idle
  <2>3. QED
    BY <1>4, <2>2 DEF RevokeSession, TypeOK
<1>5. QED
  BY <1>1, <1>2, <1>3, <1>4
     DEF Begin, RefreshConsume, ResetConsume, Logout, Kinds

\* The statements and endings that only rewrite the transaction of r.
LEMMA AdvanceTypes ==
    ASSUME TypeOK, NEW r \in Request,
           \/ ResetPassword(r) \/ RevokeAll(r) \/ EraseAccount(r) \/ DeleteDone(r)
           \/ \E t \in Token : DeleteTarget(r, t)
           \/ Rollback(r) \/ UserGone(r) \/ DeadlockAbort(r)
    PROVE  /\ UNCHANGED <<accounts, password, rows, expired, minted, spent>>
           /\ tx' \in [Request -> Transactions]
           /\ \A q \in Request \ {r} : tx'[q] = tx[q]
           /\ tx'[r].at # "consumed"
<1>0. tx[r] \in Transactions
  BY DEF TypeOK
<1>1. CASE ResetPassword(r)
  <2> DEFINE new == [tx[r] EXCEPT !.at = "updated", !.writes = "password"]
  <2>1. new \in Transactions /\ new.at = "updated"
    BY <1>0 DEF Transactions, Steps
  <2>2. tx' = [tx EXCEPT ![r] = new]
    BY <1>1 DEF ResetPassword, TypeOK
  <2>3. QED
    BY <1>1, <2>1, <2>2 DEF ResetPassword, TypeOK
<1>2. CASE RevokeAll(r)
  <2> DEFINE new == [tx[r] EXCEPT !.at = "deleting",
                                  !.targets = RowsOf(tx[r].user) \ tx[r].removed]
  <2>1. new \in Transactions /\ new.at = "deleting"
    BY <1>0 DEF Transactions, Steps, RowsOf, TypeOK
  <2>2. tx' = [tx EXCEPT ![r] = new]
    BY <1>2 DEF RevokeAll, TypeOK
  <2>3. QED
    BY <1>2, <2>1, <2>2 DEF RevokeAll, TypeOK
<1>3. CASE EraseAccount(r)
  <2> DEFINE new == [tx[r] EXCEPT !.at = "deleting", !.writes = "account",
                                  !.targets = RowsOf(tx[r].user)]
  <2>1. new \in Transactions /\ new.at = "deleting"
    BY <1>0 DEF Transactions, Steps, RowsOf, TypeOK
  <2>2. tx' = [tx EXCEPT ![r] = new]
    BY <1>3 DEF EraseAccount, TypeOK
  <2>3. QED
    BY <1>3, <2>1, <2>2 DEF EraseAccount, TypeOK
<1>4. CASE DeleteDone(r)
  <2> DEFINE new == [tx[r] EXCEPT !.at = "ready"]
  <2>1. new \in Transactions /\ new.at = "ready"
    BY <1>0 DEF Transactions, Steps
  <2>2. QED
    BY <1>4, <2>1 DEF DeleteDone, TypeOK
<1>5. ASSUME NEW t \in Token, DeleteTarget(r, t)
      PROVE  /\ UNCHANGED <<accounts, password, rows, expired, minted, spent>>
             /\ tx' \in [Request -> Transactions]
             /\ \A q \in Request \ {r} : tx'[q] = tx[q]
             /\ tx'[r].at # "consumed"
  <2> DEFINE new == [tx[r] EXCEPT !.targets = @ \ {t}, !.removed = @ \cup ({t} \cap rows)]
  <2>1. new \in Transactions /\ new.at = "deleting"
    BY <1>0, <1>5 DEF DeleteTarget, Transactions, Steps
  <2>2. tx' = [tx EXCEPT ![r] = new]
    BY <1>5 DEF DeleteTarget, TypeOK
  <2>3. QED
    BY <1>5, <2>1, <2>2 DEF DeleteTarget, TypeOK
<1>6. CASE Rollback(r) \/ UserGone(r) \/ DeadlockAbort(r)
  BY <1>6, IdleType DEF Rollback, UserGone, DeadlockAbort, Discard, TypeOK
<1>7. QED
  BY <1>1, <1>2, <1>3, <1>4, <1>5, <1>6

Typed == TypeOK /\ ConsumedIsMinted

\* A transaction that consumes keeps naming a minted token if only r moved and
\* signed tokens keep their claims.
LEMMA ConsumedKept ==
    ASSUME Typed, NEW r \in Request,
           \A q \in Request \ {r} : tx'[q] = tx[q],
           \A t \in Token : minted[t] # Unminted => minted'[t] = minted[t],
           tx'[r].at = "consumed" =>
               tx'[r].presented \in Token /\ minted'[tx'[r].presented] # Unminted
    PROVE  ConsumedIsMinted'
BY DEF Typed, ConsumedIsMinted

\* The tables, without the history variable overlap.
Tables ==
    /\ accounts \subseteq User
    /\ password \in [User -> Nat]
    /\ rows \subseteq Token
    /\ expired \subseteq Token
    /\ minted \in [Token -> Claims \cup {Unminted}]
    /\ tx \in [Request -> Transactions]
    /\ spent \subseteq Token
    /\ ConsumedIsMinted

\* One step of the system keeps the types of every table and transaction.
LEMMA StepTypes == Typed /\ Step => Tables'
<1> SUFFICES ASSUME Typed, Step  PROVE Tables'
  OBVIOUS
<1>0. TypeOK
  BY DEF Typed
<1>1. ASSUME NEW r \in Request, NEW u, NEW kind \in Kinds, NEW basis \in Nat,
             NEW chain \in Token \cup {NoToken}, chain # NoToken => minted[chain] # Unminted,
             Issue(r, u, kind, chain, basis)
      PROVE  Tables'
  <2>1. /\ minted' \in [Token -> Claims \cup {Unminted}]
        /\ tx' \in [Request -> Transactions] /\ tx'[r].at = "ready"
        /\ \A q \in Request \ {r} : tx'[q] = tx[q]
        /\ \A t \in Token : minted[t] # Unminted => minted'[t] = minted[t]
    BY <1>0, <1>1, IssueTypes
  <2>2. ConsumedIsMinted'
    BY <2>1, ConsumedKept
  <2>3. QED
    BY <1>0, <1>1, <2>1, <2>2 DEF Issue, Tables, TypeOK
<1>2. ASSUME NEW r \in Request, Begin(r)  PROVE  Tables'
  <2>1. CASE \E u \in User : RequestReset(r, u)
    <3>1. PICK u \in User : Issue(r, u, "reset", NoToken, password[u])
      BY <2>1 DEF RequestReset
    <3>2. password[u] \in Nat
      BY <1>0 DEF TypeOK
    <3>3. QED
      BY <1>1, <3>1, <3>2 DEF Kinds
  <2>2. CASE ~\E u \in User : RequestReset(r, u)
    <3>1. ConsumedIsMinted'
      BY <1>0, <1>2, <2>2, BeginTypes, ConsumedKept
    <3>2. QED
      BY <1>0, <1>2, <2>2, <3>1, BeginTypes DEF Tables, TypeOK
  <2>3. QED
    BY <2>1, <2>2
<1>3. ASSUME NEW r \in Request, LoginIssue(r)  PROVE  Tables'
  <2>1. tx[r].seen \in Nat
    BY <1>0 DEF TypeOK, Transactions
  <2>2. QED
    BY <1>1, <1>3, <2>1 DEF LoginIssue, Kinds
<1>4. ASSUME NEW r \in Request, RefreshIssue(r)  PROVE  Tables'
  <2>1. tx[r].presented \in Token /\ minted[tx[r].presented] # Unminted
    BY <1>4 DEF RefreshIssue, Typed, ConsumedIsMinted
  <2>2. minted[tx[r].presented].basis \in Nat
    BY <1>0, <2>1 DEF TypeOK, Claims
  <2>3. QED
    BY <1>1, <1>4, <2>1, <2>2 DEF RefreshIssue, Kinds
<1>5. ASSUME NEW r \in Request, Commit(r)  PROVE  Tables'
  <2>1. tx'[r] = Idle /\ \A q \in Request \ {r} : tx'[q] = tx[q]
    BY <1>0, <1>5 DEF Commit, TypeOK
  <2>2. ConsumedIsMinted'
    <3>1. tx'[r].at # "consumed" /\ minted' = minted
      BY <1>5, <2>1, IdleType DEF Commit
    <3>2. QED
      BY <2>1, <3>1, ConsumedKept
  <2>3. tx[r].removed \subseteq Token /\ tx[r].issued \in Token \cup {NoToken}
    BY <1>0 DEF TypeOK, Transactions
  <2>4. QED
    BY <1>0, <1>5, <2>2, <2>3, IdleType DEF Commit, Tables, TypeOK
<1>6. ASSUME NEW r \in Request,
             \/ ResetPassword(r) \/ RevokeAll(r) \/ EraseAccount(r) \/ DeleteDone(r)
             \/ \E t \in Token : DeleteTarget(r, t)
             \/ Rollback(r) \/ UserGone(r) \/ DeadlockAbort(r)
      PROVE  Tables'
  <2>1. ConsumedIsMinted'
    BY <1>0, <1>6, AdvanceTypes, ConsumedKept
  <2>2. QED
    BY <1>0, <1>6, <2>1, AdvanceTypes DEF Tables, TypeOK
<1>7. ASSUME NEW t \in Token, Expire(t)  PROVE  Tables'
  BY <1>7 DEF Expire, Tables, Typed, TypeOK, ConsumedIsMinted
<1>8. QED
  BY <1>2, <1>3, <1>4, <1>5, <1>6, <1>7 DEF Step, Advance

\* The types and the consumed tokens are invariant.
LEMMA TypedInvariant == Spec => []Typed
<1>1. Init => Typed
  BY IdleType DEF Init, Typed, TypeOK, ConsumedIsMinted
<1>2. Typed /\ [Next]_vars => Typed'
  <2>1. ASSUME Typed, Next  PROVE  Typed'
    <3>1. Tables'
      BY <2>1, StepTypes DEF Next
    <3>2. overlap' \subseteq User
      BY <2>1 DEF Next, Overlapping, Typed, TypeOK
    <3>3. QED
      BY <3>1, <3>2 DEF Tables, Typed, TypeOK
  <2>2. ASSUME Typed, UNCHANGED vars  PROVE  Typed'
    BY <2>2 DEF vars, Typed, TypeOK, ConsumedIsMinted
  <2>3. QED
    BY <2>1, <2>2
<1>3. QED
  BY <1>1, <1>2, PTL DEF Spec

\* Type correctness: every request, in whatever order requests interleave, leaves
\* well-formed rows and transactions (sql_repositories.py).
THEOREM TypeCorrect == Spec => []TypeOK
BY TypedInvariant, PTL DEF Typed

-------------------------------------------------------------------------------
(* Rotation: at most one usable token per chain *)

\* Signing a fresh token for r keeps the rotation invariant, if it opens a chain
\* or continues the chain of the one row that r has consumed.
LEMMA IssueRotates ==
    ASSUME Typed, RotationInv, NEW r \in Request, NEW u, NEW kind \in Kinds,
           NEW basis \in Nat, NEW chain \in Token \cup {NoToken},
           \/ chain = NoToken /\ tx[r].presented = NoToken /\ tx[r].removed = {}
           \/ chain \in Token /\ tx[r].presented = chain /\ tx[r].removed = {chain},
           tx[r].issued = NoToken,
           Issue(r, u, kind, chain, basis)
    PROVE  RotationInv'
<1> USE SentinelsApart
<1>0. PICK s \in Unused :
        /\ minted' = [minted EXCEPT ![s] =
             [user |-> u, kind |-> kind, basis |-> basis,
              root |-> IF chain = NoToken THEN s ELSE minted[chain].root]]
        /\ tx' = [tx EXCEPT ![r].at = "ready", ![r].user = u, ![r].issued = s]
  BY DEF Issue
<1>1. /\ s \in Token /\ minted[s] = Unminted /\ s \notin rows \cup spent
      /\ rows' = rows /\ spent' = spent /\ rows \subseteq Token
  BY <1>0 DEF Unused, Issue, RotationInv, FreshTokens, Typed, TypeOK
<1>2. chain \in Token => chain \in rows /\ minted[chain] # Unminted /\ chain # s
  BY <1>1 DEF RotationInv, LocksHold, FreshTokens
<1>3. /\ \A t \in Token \ {s} : minted'[t] = minted[t]
      /\ minted'[s].user = u /\ minted'[s] # Unminted
      /\ minted'[s].root = IF chain = NoToken THEN s ELSE minted[chain].root
  BY <1>0, <1>1 DEF Typed, TypeOK, Unminted, Kinds
<1>4. /\ \A q \in Request \ {r} : tx'[q] = tx[q]
      /\ tx'[r].at = "ready" /\ tx'[r].user = u /\ tx'[r].issued = s
      /\ tx'[r].presented = tx[r].presented /\ tx'[r].removed = tx[r].removed
  BY <1>0 DEF Typed, TypeOK, Transactions
<1>5. FreshTokens'
  BY <1>1, <1>2, <1>3 DEF RotationInv, FreshTokens, Typed, TypeOK, Claims, Unminted
<1>6. Progressed'
  BY <1>1, <1>3, <1>4 DEF RotationInv, Progressed, LocksHold
<1>7. LocksHold'
  BY <1>1, <1>4 DEF RotationInv, LocksHold
<1>8. PendingIsPrivate'
  BY <1>1, <1>3, <1>4 DEF RotationInv, PendingIsPrivate, FreshTokens, Typed, TypeOK, Transactions
<1>9. PendingIsNext'
  <2>1. ASSUME NEW q \in Request \ {r}, tx[q].issued # NoToken
        PROVE  /\ tx[q].issued \in Token /\ tx[q].issued # s
               /\ tx[q].presented = NoToken => minted'[s].root # tx[q].issued
               /\ tx[q].presented # NoToken => tx[q].presented \in Token \ {s}
    <3>1. tx[q].issued \in Token \ rows /\ tx[q].issued # s
      BY <1>1, <2>1 DEF RotationInv, PendingIsPrivate, Typed, TypeOK, Transactions
    <3>2. tx[q].presented # NoToken => tx[q].presented \in rows
      BY <2>1 DEF RotationInv, PendingIsNext, LocksHold
    <3>3. tx[q].presented = NoToken =>
            \A t \in Token : minted[t].root = tx[q].issued => t = tx[q].issued
      BY <2>1 DEF RotationInv, PendingIsNext
    <3>4. QED
      BY <1>1, <1>2, <1>3, <3>1, <3>2, <3>3
  <2>2. \A t \in Token : minted[t].root # s
    BY <1>1 DEF RotationInv, FreshTokens, Unminted, Typed, TypeOK
  <2>3. \/ /\ tx'[r].presented = NoToken /\ tx'[r].removed = {} /\ minted'[s].root = s
           /\ \A t \in Token : minted'[t].root = s => t = s
        \/ /\ tx'[r].presented \in Token /\ tx'[r].removed = {tx'[r].presented}
           /\ minted'[s].root = minted'[tx'[r].presented].root
    BY <1>2, <1>3, <1>4, <2>2
  <2>4. ASSUME NEW q \in Request \ {r}, tx[q].issued # NoToken
        PROVE  \/ /\ tx'[q].presented = NoToken /\ tx'[q].removed = {}
                  /\ minted'[tx'[q].issued].root = tx'[q].issued
                  /\ \A t \in Token : minted'[t].root = tx'[q].issued => t = tx'[q].issued
               \/ /\ tx'[q].presented \in Token /\ tx'[q].removed = {tx'[q].presented}
                  /\ minted'[tx'[q].issued].root = minted'[tx'[q].presented].root
    <3>1. tx'[q] = tx[q]
      BY <1>4
    <3>2. CASE tx[q].presented = NoToken
      BY <1>3, <2>1, <2>4, <3>1, <3>2 DEF RotationInv, PendingIsNext
    <3>3. CASE tx[q].presented # NoToken
      BY <1>3, <2>1, <2>4, <3>1, <3>3 DEF RotationInv, PendingIsNext
    <3>4. QED
      BY <3>2, <3>3
  <2>5. QED
    BY <1>4, <2>3, <2>4 DEF PendingIsNext
<1>10. OneLivePerFamily'
  BY <1>1, <1>3 DEF RotationInv, OneLivePerFamily
<1>11. QED
  BY <1>1, <1>5, <1>6, <1>7, <1>8, <1>9, <1>10 DEF RotationInv

\* A first statement that signs nothing keeps it: a consumed row was unlocked.
LEMMA BeginRotates ==
    ASSUME Typed, RotationInv, NEW r \in Request, tx[r].at = "idle",
           NEW new \in Transactions, tx' = [tx EXCEPT ![r] = new],
           UNCHANGED <<rows, minted, spent>>,
           new.issued = NoToken, new.at # "idle",
           \/ new.presented = NoToken /\ new.removed = {} /\ new.at # "consumed"
           \/ \E t \in rows : /\ ~RowLocked(r, t) /\ new.at # "verified"
                             /\ new.presented = t /\ new.removed = {t}
                             /\ new.user = minted[t].user
    PROVE  RotationInv'
<1>1. tx'[r] = new /\ \A q \in Request \ {r} : tx'[q] = tx[q]
  BY DEF Typed, TypeOK
<1>2. rows \subseteq Token
  BY DEF Typed, TypeOK
<1>3. FreshTokens' /\ OneLivePerFamily' /\ (rows \cap spent = {})'
  BY DEF RotationInv, FreshTokens, OneLivePerFamily
<1>4. Progressed'
  BY <1>1, <1>2 DEF RotationInv, Progressed
<1>5. LocksHold'
  BY <1>1 DEF RotationInv, LocksHold, RowLocked
<1>6. PendingIsPrivate'
  BY <1>1 DEF RotationInv, PendingIsPrivate
<1>7. PendingIsNext'
  BY <1>1 DEF RotationInv, PendingIsNext
<1>8. QED
  BY <1>3, <1>4, <1>5, <1>6, <1>7 DEF RotationInv

\* A commit puts the pending token in the place of the rows the request removed.
LEMMA CommitRotates ==
    ASSUME Typed, RotationInv, NEW r \in Request, Commit(r)
    PROVE  RotationInv'
<1> USE SentinelsApart
<1>1. tx'[r] = Idle /\ \A q \in Request \ {r} : tx'[q] = tx[q]
  BY DEF Commit, Typed, TypeOK
<1>2. /\ rows' = (rows \ tx[r].removed) \cup ({tx[r].issued} \ {NoToken})
      /\ spent' = spent \cup tx[r].removed /\ minted' = minted
      /\ tx[r].removed \subseteq rows /\ rows \subseteq Token
      /\ tx[r].issued \in Token \cup {NoToken}
  BY DEF Commit, RotationInv, LocksHold, Typed, TypeOK, Transactions
<1>3. tx[r].issued # NoToken =>
        tx[r].issued \notin rows \cup spent /\ minted[tx[r].issued] # Unminted
  BY DEF RotationInv, PendingIsPrivate
<1>4. FreshTokens'
  BY <1>2, <1>3 DEF RotationInv, FreshTokens
<1>5. Progressed'
  BY <1>1, <1>2, IdleType DEF RotationInv, Progressed
<1>6. LocksHold'
  BY <1>1, <1>2 DEF RotationInv, LocksHold, Idle
<1>7. PendingIsPrivate'
  BY <1>1, <1>2, <1>3 DEF RotationInv, PendingIsPrivate, Idle
<1>8. PendingIsNext'
  BY <1>1, <1>2 DEF RotationInv, PendingIsNext, Idle
<1>9. (rows \cap spent = {})'
  BY <1>2, <1>3 DEF RotationInv
<1>10. OneLivePerFamily'
  <2>1. ASSUME tx[r].issued # NoToken, NEW t \in rows \ tx[r].removed,
               minted[t].root = minted[tx[r].issued].root
        PROVE  FALSE
    BY <1>2, <1>3, <2>1 DEF RotationInv, PendingIsNext, OneLivePerFamily
  <2>2. QED
    BY <1>2, <2>1 DEF RotationInv, OneLivePerFamily
<1>11. QED
  BY <1>4, <1>5, <1>6, <1>7, <1>8, <1>9, <1>10 DEF RotationInv

\* A later statement of r that commits nothing keeps it: what r newly locks was
\* a committed row nobody else had locked.
LEMMA AdvanceRotates ==
    ASSUME Typed, RotationInv, NEW r \in Request,
           NEW new \in Transactions, tx' = [tx EXCEPT ![r] = new],
           UNCHANGED <<rows, minted, spent>>,
           \/ new = Idle
           \/ /\ new.at \notin {"idle", "verified", "consumed"}
              /\ tx[r].issued = NoToken /\ new.issued = NoToken
              /\ new.removed \subseteq rows
              /\ \A t \in new.removed \ tx[r].removed : ~RowLocked(r, t)
    PROVE  RotationInv'
<1>1. tx'[r] = new /\ \A q \in Request \ {r} : tx'[q] = tx[q]
  BY DEF Typed, TypeOK
<1>2. FreshTokens' /\ OneLivePerFamily' /\ (rows \cap spent = {})'
  BY DEF RotationInv, FreshTokens, OneLivePerFamily
<1>3. Progressed'
  BY <1>1, IdleType DEF RotationInv, Progressed
<1>4. LocksHold'
  BY <1>1 DEF RotationInv, LocksHold, RowLocked, Idle
<1>5. PendingIsPrivate'
  BY <1>1 DEF RotationInv, PendingIsPrivate, Idle
<1>6. PendingIsNext'
  BY <1>1 DEF RotationInv, PendingIsNext, Idle
<1>7. QED
  BY <1>2, <1>3, <1>4, <1>5, <1>6 DEF RotationInv

\* The rotation invariant survives every step.
LEMMA StepRotates == Typed /\ RotationInv /\ Step => RotationInv'
<1> SUFFICES ASSUME Typed, RotationInv, Step  PROVE RotationInv'
  OBVIOUS
<1> USE SentinelsApart
<1>0. TypeOK /\ Tables' /\ \A r \in Request : tx[r] \in Transactions
  BY StepTypes DEF Typed, TypeOK
<1>1. ASSUME NEW r \in Request, Begin(r)  PROVE  RotationInv'
  <2>1. CASE \E u \in User : RequestReset(r, u)
    <3>1. PICK u \in User : Issue(r, u, "reset", NoToken, password[u]) /\ tx[r].at = "idle"
      BY <2>1 DEF RequestReset
    <3>2. tx[r] = Idle /\ password[u] \in Nat
      BY <1>0, <3>1 DEF RotationInv, Progressed, TypeOK
    <3>3. QED
      BY <3>1, <3>2, IssueRotates DEF Idle, Kinds
  <2>2. CASE \E u \in User : LoginVerify(r, u) \/ RequestErasure(r, u)
    <3>1. PICK u \in User : LoginVerify(r, u) \/ RequestErasure(r, u)
      BY <2>2
    <3>2. PICK new \in {[Idle EXCEPT !.at = "verified", !.user = u, !.seen = password[u]],
                        [Idle EXCEPT !.at = "closing", !.user = u]} :
            tx' = [tx EXCEPT ![r] = new]
      BY <3>1 DEF LoginVerify, RequestErasure
    <3>3. tx[r].at = "idle" /\ UNCHANGED <<rows, minted, spent>>
      BY <3>1 DEF LoginVerify, RequestErasure
    <3>4. /\ new.issued = NoToken /\ new.at \in {"verified", "closing"}
          /\ new.presented = NoToken /\ new.removed = {}
      BY <3>2 DEF Idle
    <3>5. new = tx'[r] /\ tx'[r] \in Transactions
      BY <1>0, <3>2 DEF Tables, TypeOK
    <3>6. QED
      BY <3>2, <3>3, <3>4, <3>5, BeginRotates
  <2>3. ASSUME NEW t \in Token, NEW kind \in Kinds,
               NEW next \in {"consumed", "redeemed", "ready"}, 
               Consume(r, t, kind, next) \/ RevokeSession(r, t)
        PROVE  RotationInv'
    <3>1. PICK at \in {"consumed", "redeemed", "ready"} :
            tx' = [tx EXCEPT ![r] = [Idle EXCEPT !.at = at, !.user = minted[t].user,
                                                 !.presented = t, !.removed = {t}]]
      BY <2>3 DEF Consume, RevokeSession
    <3> DEFINE new == [Idle EXCEPT !.at = at, !.user = minted[t].user,
                                   !.presented = t, !.removed = {t}]
    <3>2. tx[r].at = "idle" /\ t \in rows /\ ~RowLocked(r, t) /\ UNCHANGED <<rows, minted, spent>>
      BY <2>3 DEF Consume, RevokeSession, CanDelete
    <3>3. minted[t].user \in User
      BY <1>0, <3>2 DEF RotationInv, FreshTokens, TypeOK, Claims
    <3>4. /\ new \in Transactions /\ new.issued = NoToken /\ new.at = at
          /\ new.presented = t /\ new.removed = {t} /\ new.user = minted[t].user
      BY <3>3 DEF Idle, Transactions, Steps
    <3>5. QED
      BY <3>1, <3>2, <3>4, BeginRotates
  <2>4. QED
    BY <1>1, <2>1, <2>2, <2>3 DEF Begin, RefreshConsume, ResetConsume, Logout, Kinds
<1>2. ASSUME NEW r \in Request, LoginIssue(r)  PROVE  RotationInv'
  <2>1. tx[r].seen \in Nat
    BY <1>0 DEF Transactions
  <2>2. tx[r].issued = NoToken /\ tx[r].presented = NoToken /\ tx[r].removed = {}
    BY <1>2 DEF LoginIssue, RotationInv, Progressed
  <2>3. QED
    BY <1>2, <2>1, <2>2, IssueRotates DEF LoginIssue, Kinds
<1>3. ASSUME NEW r \in Request, RefreshIssue(r)  PROVE  RotationInv'
  <2>1. /\ tx[r].issued = NoToken /\ tx[r].presented \in Token
        /\ tx[r].removed = {tx[r].presented} /\ minted[tx[r].presented] # Unminted
    BY <1>3 DEF RefreshIssue, RotationInv, Progressed, Typed, ConsumedIsMinted
  <2>2. minted[tx[r].presented].basis \in Nat
    BY <1>0, <2>1 DEF TypeOK, Claims
  <2>3. QED
    BY <1>3, <2>1, <2>2, IssueRotates DEF RefreshIssue, Kinds
<1>4. ASSUME NEW r \in Request, Commit(r)  PROVE  RotationInv'
  BY <1>4, CommitRotates
<1>5. ASSUME NEW r \in Request,
             \/ ResetPassword(r) \/ RevokeAll(r) \/ EraseAccount(r) \/ DeleteDone(r)
             \/ \E t \in Token : DeleteTarget(r, t)
      PROVE  RotationInv'
  <2>1. /\ tx'[r] \in Transactions /\ tx' = [tx EXCEPT ![r] = tx'[r]]
        /\ UNCHANGED <<rows, minted, spent>>
        /\ tx'[r].at \in {"updated", "deleting", "ready"}
        /\ tx'[r].issued = tx[r].issued
        /\ tx[r].at \in {"redeemed", "updated", "closing", "deleting"}
        /\ tx'[r].removed \subseteq rows
        /\ \A t \in tx'[r].removed \ tx[r].removed : ~RowLocked(r, t)
    <3>1. tx[r].removed \subseteq rows
      BY DEF RotationInv, LocksHold
    <3>2. /\ tx'[r] \in Transactions /\ tx[r] \in Transactions
          /\ UNCHANGED <<rows, minted, spent>>
      BY <1>0, <1>5 DEF ResetPassword, RevokeAll, EraseAccount, DeleteDone, DeleteTarget, Tables
    <3>3. CASE ResetPassword(r)
      <4> DEFINE new == [tx[r] EXCEPT !.at = "updated", !.writes = "password"]
      <4>1. tx' = [tx EXCEPT ![r] = new] /\ tx[r].at = "redeemed"
        BY <1>0, <3>3 DEF ResetPassword, TypeOK
      <4>2. new.at = "updated" /\ new.issued = tx[r].issued /\ new.removed = tx[r].removed
        BY <3>2 DEF Transactions
      <4>3. tx'[r] = new
        BY <1>0, <4>1 DEF TypeOK
      <4> HIDE DEF new
      <4>4. QED
        BY <3>1, <3>2, <4>1, <4>2, <4>3
    <3>4. CASE RevokeAll(r)
      <4> DEFINE new == [tx[r] EXCEPT !.at = "deleting",
                                  !.targets = RowsOf(tx[r].user) \ tx[r].removed]
      <4>1. tx' = [tx EXCEPT ![r] = new] /\ tx[r].at = "updated"
        BY <1>0, <3>4 DEF RevokeAll, TypeOK
      <4>2. new.at = "deleting" /\ new.issued = tx[r].issued /\ new.removed = tx[r].removed
        BY <3>2 DEF Transactions
      <4>3. tx'[r] = new
        BY <1>0, <4>1 DEF TypeOK
      <4> HIDE DEF new
      <4>4. QED
        BY <3>1, <3>2, <4>1, <4>2, <4>3
    <3>5. CASE EraseAccount(r)
      <4> DEFINE new == [tx[r] EXCEPT !.at = "deleting", !.writes = "account",
                                  !.targets = RowsOf(tx[r].user)]
      <4>1. tx' = [tx EXCEPT ![r] = new] /\ tx[r].at = "closing"
        BY <1>0, <3>5 DEF EraseAccount, TypeOK
      <4>2. new.at = "deleting" /\ new.issued = tx[r].issued /\ new.removed = tx[r].removed
        BY <3>2 DEF Transactions
      <4>3. tx'[r] = new
        BY <1>0, <4>1 DEF TypeOK
      <4> HIDE DEF new
      <4>4. QED
        BY <3>1, <3>2, <4>1, <4>2, <4>3
    <3>6. CASE DeleteDone(r)
      BY <1>0, <3>1, <3>2, <3>6 DEF DeleteDone, TypeOK, Transactions
    <3>7. ASSUME NEW t \in Token, DeleteTarget(r, t)
          PROVE  /\ tx' = [tx EXCEPT ![r] = tx'[r]]
                 /\ tx'[r].at \in {"updated", "deleting", "ready"}
                 /\ tx'[r].issued = tx[r].issued
                 /\ tx[r].at \in {"redeemed", "updated", "closing", "deleting"}
                 /\ tx'[r].removed \subseteq rows
                 /\ \A s \in tx'[r].removed \ tx[r].removed : ~RowLocked(r, s)
      <4> DEFINE new == [tx[r] EXCEPT !.targets = @ \ {t}, !.removed = @ \cup ({t} \cap rows)]
      <4>1. tx' = [tx EXCEPT ![r] = new] /\ tx[r].at = "deleting" /\ ~RowLocked(r, t)
        BY <1>0, <3>7 DEF DeleteTarget, TypeOK
      <4>2. /\ new.at = tx[r].at /\ new.issued = tx[r].issued
            /\ new.removed = tx[r].removed \cup ({t} \cap rows)
        BY <3>2 DEF Transactions
      <4>3. tx'[r] = new
        BY <1>0, <4>1 DEF TypeOK
      <4> HIDE DEF new
      <4>4. QED
        BY <3>1, <3>2, <4>1, <4>2, <4>3
    <3>8. QED
      BY <1>5, <3>2, <3>3, <3>4, <3>5, <3>6, <3>7
  <2>2. tx[r].issued = NoToken
    BY <2>1 DEF RotationInv, PendingIsPrivate
  <2>3. QED
    BY <2>1, <2>2, AdvanceRotates
<1>6. ASSUME NEW r \in Request, Rollback(r) \/ UserGone(r) \/ DeadlockAbort(r)
      PROVE  RotationInv'
  BY <1>6, IdleType, AdvanceRotates DEF Rollback, UserGone, DeadlockAbort, Discard
<1>7. ASSUME NEW t \in Token, Expire(t)  PROVE  RotationInv'
  BY <1>7 DEF Expire, RotationInv, FreshTokens, Progressed, LocksHold, PendingIsPrivate,
              PendingIsNext, OneLivePerFamily
<1>8. QED
  BY <1>1, <1>2, <1>3, <1>4, <1>5, <1>6, <1>7 DEF Step, Advance

\* The rotation invariant holds in every reachable state.
LEMMA RotationInvariant == Spec => []RotationInv
<1>1. Init => RotationInv
  BY SentinelsApart DEF Init, RotationInv, FreshTokens, Progressed, LocksHold,
     PendingIsPrivate, PendingIsNext, OneLivePerFamily, Idle, Unminted
<1>2. Typed /\ RotationInv /\ [Next]_vars => RotationInv'
  <2>1. ASSUME RotationInv, UNCHANGED vars  PROVE  RotationInv'
    BY <2>1 DEF vars, RotationInv, FreshTokens, Progressed, LocksHold,
       PendingIsPrivate, PendingIsNext, OneLivePerFamily
  <2>2. QED
    BY <2>1, StepRotates DEF Next
<1>3. QED
  BY <1>1, <1>2, TypedInvariant, PTL DEF Spec

\* Rotation is safe under any concurrency: at most one token of a login's chain is
\* ever usable (service.refresh, SqlSessionRepository.consume).
THEOREM RotationSafe == Spec => []OneLivePerFamily
BY RotationInvariant, PTL DEF RotationInv

-------------------------------------------------------------------------------
(* Erasure: no session row outlives its account *)

\* What ErasureInv says of one erasure in progress.
Alone(r) ==
    /\ tx[r].user \in accounts /\ tx[r].issued = NoToken
    /\ tx[r].at \in {"deleting", "ready"}
    /\ RowsOf(tx[r].user) \subseteq tx[r].removed \cup tx[r].targets
    /\ tx[r].at = "ready" => tx[r].targets = {}
    /\ \A q \in Request \ {r} : tx[q].user = tx[r].user =>
         ~References(q) /\ tx[q].writes = "nothing"

\* A step of r that commits nothing keeps it, if r stays off accounts that another
\* request is erasing and r's own erasure, if any, is alone.
LEMMA LocalStepErases ==
    ASSUME Typed, ErasureInv, NEW r \in Request,
           \A q \in Request \ {r} : tx'[q] = tx[q],
           UNCHANGED <<accounts, rows>>, \A t \in rows : minted'[t] = minted[t],
           tx'[r].issued # NoToken \/ tx'[r].at = "closing" \/ tx'[r].writes # "nothing" =>
               ~UserErasing(r, tx'[r].user),
           References(r)' => tx'[r].user \in accounts,
           tx'[r].writes = "account" => Alone(r)'
    PROVE  ErasureInv'
<1>1. RowsHaveAccounts'
  BY DEF ErasureInv, RowsHaveAccounts
<1>2. \A q \in Request : References(q)' => tx'[q].user \in accounts'
  BY DEF ErasureInv, References
<1>3. ASSUME NEW p \in Request, tx'[p].writes = "account"  PROVE  Alone(p)'
  <2>1. CASE p = r
    BY <1>3, <2>1
  <2>2. CASE p # r
    <3>1. tx'[p] = tx[p] /\ tx[p].writes = "account"
      BY <1>3, <2>2
    <3>2. RowsOf(tx[p].user)' = RowsOf(tx[p].user)
      BY <3>1 DEF RowsOf
    <3>3. Alone(p)
      BY <3>1 DEF ErasureInv, Alone
    <3>4. tx'[r].user = tx[p].user => ~References(r)' /\ tx'[r].writes = "nothing"
      BY <2>2, <3>1 DEF UserErasing, References
    <3>5. QED
      BY <3>1, <3>2, <3>3, <3>4 DEF Alone, References
  <2>3. QED
    BY <2>1, <2>2
<1>4. QED
  BY <1>1, <1>2, <1>3 DEF ErasureInv, Alone

\* While r writes to its account or references it, nobody else is erasing it.
LEMMA NotErasedByOthers ==
    ASSUME ErasureInv, NEW r \in Request, References(r) \/ tx[r].writes # "nothing"
    PROVE  ~UserErasing(r, tx[r].user)
BY DEF ErasureInv, UserErasing

\* The first statement of a request starts with nothing pending.
LEMMA BeginErases ==
    ASSUME Typed, RotationInv, ErasureInv, NEW r \in Request, Begin(r)
    PROVE  ErasureInv'
<1> USE SentinelsApart
<1>0. TypeOK /\ (tx[r].at = "idle" => tx[r] = Idle)
  BY DEF Typed, RotationInv, Progressed
<1>1. ASSUME NEW u \in User, RequestReset(r, u)  PROVE  ErasureInv'
  <2>1. PICK s \in Unused :
          /\ minted' = [minted EXCEPT ![s] =
               [user |-> u, kind |-> "reset", basis |-> password[u],
                root |-> IF NoToken = NoToken THEN s ELSE minted[NoToken].root]]
          /\ tx' = [tx EXCEPT ![r].at = "ready", ![r].user = u, ![r].issued = s]
    BY <1>1 DEF RequestReset, Issue
  <2>2. /\ \A q \in Request \ {r} : tx'[q] = tx[q]
        /\ tx'[r].user = u /\ tx'[r].writes = tx[r].writes /\ tx[r].writes = "nothing"
    BY <1>0, <1>1, <2>1 DEF TypeOK, Transactions, RequestReset, Idle
  <2>3. \A t \in rows : minted'[t] = minted[t]
    BY <2>1 DEF Unused, TypeOK, Typed, RotationInv, FreshTokens
  <2>4. /\ UNCHANGED <<accounts, rows>> /\ u \in accounts /\ ~UserErasing(r, u)
    BY <1>1 DEF RequestReset, Issue
  <2>5. QED
    BY <2>2, <2>3, <2>4, LocalStepErases
<1>2. ASSUME NEW u \in User, LoginVerify(r, u)  PROVE  ErasureInv'
  <2>1. /\ \A q \in Request \ {r} : tx'[q] = tx[q]
        /\ tx'[r].at = "verified" /\ tx'[r].issued = NoToken /\ tx'[r].writes = "nothing"
    BY <1>0, <1>2 DEF TypeOK, LoginVerify, Idle
  <2>2. QED
    BY <1>2, <2>1, LocalStepErases DEF LoginVerify, References
<1>3. ASSUME NEW u \in User, RequestErasure(r, u)  PROVE  ErasureInv'
  <2>1. /\ \A q \in Request \ {r} : tx'[q] = tx[q]
        /\ tx'[r].user = u /\ tx'[r].writes = "nothing"
    BY <1>0, <1>3 DEF TypeOK, RequestErasure, Idle
  <2>2. QED
    BY <1>3, <2>1, LocalStepErases DEF RequestErasure
<1>4. ASSUME NEW t \in Token, NEW kind, NEW next \in {"consumed", "redeemed", "ready"},
             Consume(r, t, kind, next) \/ RevokeSession(r, t)
      PROVE  ErasureInv'
  <2>1. /\ \A q \in Request \ {r} : tx'[q] = tx[q]
        /\ tx'[r].at \in {"consumed", "redeemed", "ready"}
        /\ tx'[r].issued = NoToken /\ tx'[r].writes = "nothing"
    <3>1. PICK at \in {"consumed", "redeemed", "ready"} :
            tx' = [tx EXCEPT ![r] = [Idle EXCEPT !.at = at, !.user = minted[t].user,
                                                 !.presented = t, !.removed = {t}]]
      BY <1>4 DEF Consume, RevokeSession
    <3>2. QED
      BY <1>0, <3>1 DEF TypeOK, Idle
  <2>2. UNCHANGED <<accounts, rows, minted>>
    BY <1>4 DEF Consume, RevokeSession
  <2>3. QED
    BY <2>1, <2>2, LocalStepErases DEF References
<1>5. QED
  BY <1>1, <1>2, <1>3, <1>4 DEF Begin, RefreshConsume, ResetConsume, Logout

\* A commit ends the references of r: it publishes a row whose account stays, or
\* removes the account together with every row it has.
LEMMA CommitErases ==
    ASSUME Typed, RotationInv, ErasureInv, NEW r \in Request, Commit(r)
    PROVE  ErasureInv'
<1> USE SentinelsApart
<1>1. /\ tx'[r] = Idle /\ \A q \in Request \ {r} : tx'[q] = tx[q]
      /\ minted' = minted /\ tx[r].at = "ready"
      /\ rows' = (rows \ tx[r].removed) \cup ({tx[r].issued} \ {NoToken})
      /\ accounts' = IF tx[r].writes = "account" THEN accounts \ {tx[r].user} ELSE accounts
  BY DEF Commit, Typed, TypeOK
<1>2. tx[r].issued # NoToken =>
        minted[tx[r].issued].user = tx[r].user /\ tx[r].user \in accounts
  BY DEF RotationInv, PendingIsPrivate, ErasureInv, References
<1>3. tx[r].writes = "account" => Alone(r) /\ RowsOf(tx[r].user) \subseteq tx[r].removed
  BY <1>1 DEF ErasureInv, Alone
<1>4. RowsHaveAccounts'
  <2>1. CASE tx[r].writes = "account"
    <3>1. rows' = rows \ tx[r].removed /\ accounts' = accounts \ {tx[r].user}
      BY <1>1, <1>3, <2>1 DEF Alone
    <3>2. \A t \in rows' : minted[t].user # tx[r].user
      BY <1>3, <2>1, <3>1 DEF RowsOf
    <3>3. QED
      BY <1>1, <3>1, <3>2 DEF ErasureInv, RowsHaveAccounts
  <2>2. CASE tx[r].writes # "account"
    BY <1>1, <1>2, <2>2 DEF ErasureInv, RowsHaveAccounts
  <2>3. QED
    BY <2>1, <2>2
<1>5. ASSUME NEW q \in Request, References(q)'  PROVE  tx'[q].user \in accounts'
  BY <1>1, <1>3, <1>5 DEF ErasureInv, References, Alone, Idle
<1>6. ASSUME NEW p \in Request, tx'[p].writes = "account"  PROVE  Alone(p)'
  <2>1. p # r /\ tx'[p] = tx[p] /\ Alone(p)
    BY <1>1, <1>6 DEF ErasureInv, Alone, Idle
  <2>2. tx[r].user = tx[p].user => tx[r].issued = NoToken /\ tx[r].writes = "nothing"
    BY <2>1 DEF Alone, References
  <2>3. RowsOf(tx[p].user)' \subseteq RowsOf(tx[p].user)
    BY <1>1, <1>2, <2>1, <2>2 DEF RowsOf
  <2>4. tx[p].user \in accounts'
    BY <1>1, <2>1, <2>2 DEF Alone
  <2>5. QED
    BY <1>1, <2>1, <2>3, <2>4 DEF Alone, References, Idle
<1>7. QED
  BY <1>4, <1>5, <1>6 DEF ErasureInv, Alone

\* Rolling back drops r's references and locks.
LEMMA DiscardErases ==
    ASSUME Typed, ErasureInv, NEW r \in Request, Discard(r)
    PROVE  ErasureInv'
<1>1. /\ \A q \in Request \ {r} : tx'[q] = tx[q]
      /\ tx'[r].at = "idle" /\ tx'[r].issued = NoToken /\ tx'[r].writes = "nothing"
  BY DEF Discard, Typed, TypeOK, Idle
<1>2. UNCHANGED <<accounts, rows, minted>>
  BY DEF Discard
<1>3. QED
  BY <1>1, <1>2, LocalStepErases DEF References

\* Every other statement of r keeps it too.
LEMMA AdvanceErases ==
    ASSUME Typed, RotationInv, ErasureInv, NEW r \in Request, Advance(r), ~Commit(r)
    PROVE  ErasureInv'
<1> USE SentinelsApart
<1>0. /\ TypeOK /\ tx[r] \in Transactions
      /\ tx[r].at # "ready" => tx[r].issued = NoToken
      /\ tx[r].writes = "account" => Alone(r)
  BY DEF Typed, TypeOK, RotationInv, PendingIsPrivate, ErasureInv, Alone
<1>1. ASSUME NEW kind, NEW chain, NEW basis, Issue(r, tx[r].user, kind, chain, basis),
             tx[r].at \in {"verified", "consumed"}
      PROVE  ErasureInv'
  <2>1. PICK s \in Unused :
          /\ minted' = [minted EXCEPT ![s] =
               [user |-> tx[r].user, kind |-> kind, basis |-> basis,
                root |-> IF chain = NoToken THEN s ELSE minted[chain].root]]
          /\ tx' = [tx EXCEPT ![r].at = "ready", ![r].user = tx[r].user, ![r].issued = s]
    BY <1>1 DEF Issue
  <2>2. /\ \A q \in Request \ {r} : tx'[q] = tx[q]
        /\ tx'[r].user = tx[r].user /\ tx'[r].writes = tx[r].writes
    BY <1>0, <2>1 DEF TypeOK, Transactions
  <2>3. \A t \in rows : minted'[t] = minted[t]
    BY <2>1 DEF Unused, TypeOK, Typed, RotationInv, FreshTokens
  <2>4. /\ UNCHANGED <<accounts, rows>> /\ tx[r].user \in accounts
        /\ ~UserErasing(r, tx[r].user)
    BY <1>1 DEF Issue
  <2>5. tx[r].writes # "account"
    BY <1>0, <1>1 DEF Alone
  <2>6. QED
    BY <2>2, <2>3, <2>4, <2>5, LocalStepErases
<1>2. CASE LoginIssue(r) \/ RefreshIssue(r)
  BY <1>1, <1>2 DEF LoginIssue, RefreshIssue
<1>3. CASE ResetPassword(r)
  <2>1. /\ \A q \in Request \ {r} : tx'[q] = tx[q]
        /\ tx'[r] = [tx[r] EXCEPT !.at = "updated", !.writes = "password"]
    BY <1>0, <1>3 DEF ResetPassword, TypeOK
  <2>2. /\ tx'[r].user = tx[r].user /\ tx'[r].issued = NoToken
        /\ tx'[r].at = "updated" /\ tx'[r].writes = "password"
    <3>1. tx[r].at = "redeemed" /\ tx[r].issued = NoToken
      BY <1>0, <1>3 DEF ResetPassword
    <3>2. QED
      BY <1>0, <2>1, <3>1 DEF Transactions
  <2>3. ~UserErasing(r, tx[r].user) /\ UNCHANGED <<accounts, rows, minted>>
    BY <1>3 DEF ResetPassword, UserLocked, UserErasing
  <2>4. QED
    BY <2>1, <2>2, <2>3, LocalStepErases DEF References
<1>4. CASE RevokeAll(r)
  <2>1. /\ \A q \in Request \ {r} : tx'[q] = tx[q]
        /\ tx'[r] = [tx[r] EXCEPT !.at = "deleting",
                                  !.targets = RowsOf(tx[r].user) \ tx[r].removed]
    BY <1>0, <1>4 DEF RevokeAll, TypeOK
  <2>2. /\ tx'[r].user = tx[r].user /\ tx'[r].issued = NoToken
        /\ tx'[r].at = "deleting" /\ tx'[r].writes = tx[r].writes
    <3>1. tx[r].at = "updated" /\ tx[r].issued = NoToken
      BY <1>0, <1>4 DEF RevokeAll
    <3>2. QED
      BY <1>0, <2>1, <3>1 DEF Transactions
  <2>3. tx[r].writes # "account" /\ UNCHANGED <<accounts, rows, minted>>
    BY <1>0, <1>4 DEF RevokeAll, Alone
  <2>4. QED
    BY <2>1, <2>2, <2>3, LocalStepErases, NotErasedByOthers DEF References
<1>5. CASE EraseAccount(r)
  <2>1. /\ \A q \in Request \ {r} : tx'[q] = tx[q]
        /\ tx'[r] = [tx[r] EXCEPT !.at = "deleting", !.writes = "account",
                                  !.targets = RowsOf(tx[r].user)]
    BY <1>0, <1>5 DEF EraseAccount, TypeOK
  <2>2. /\ tx'[r].user = tx[r].user /\ tx'[r].issued = NoToken
        /\ tx'[r].at = "deleting" /\ tx'[r].targets = RowsOf(tx[r].user)
    <3>1. tx[r].at = "closing" /\ tx[r].issued = NoToken
      BY <1>0, <1>5 DEF EraseAccount
    <3>2. QED
      BY <1>0, <2>1, <3>1 DEF Transactions
  <2>3. /\ UNCHANGED <<accounts, rows, minted>> /\ tx[r].user \in accounts
        /\ ~UserErasing(r, tx[r].user)
    BY <1>5 DEF EraseAccount, UserLocked, UserErasing, ErasureInv, References
  <2>4. \A q \in Request \ {r} : tx[q].user = tx[r].user =>
          ~References(q) /\ tx[q].writes = "nothing"
    BY <1>5 DEF EraseAccount, UserLocked, UserReferenced
  <2>5. RowsOf(tx[r].user)' = RowsOf(tx[r].user)
    BY <2>2, <2>3 DEF RowsOf
  <2>6. Alone(r)'
    BY <2>1, <2>2, <2>3, <2>4, <2>5 DEF Alone, References
  <2>7. QED
    BY <2>1, <2>2, <2>3, <2>6, LocalStepErases DEF References
<1>6. ASSUME NEW t \in Token, DeleteTarget(r, t)  PROVE  ErasureInv'
  <2>1. /\ \A q \in Request \ {r} : tx'[q] = tx[q]
        /\ tx'[r] = [tx[r] EXCEPT !.targets = @ \ {t}, !.removed = @ \cup ({t} \cap rows)]
    BY <1>0, <1>6 DEF DeleteTarget, TypeOK
  <2>2. /\ tx'[r].user = tx[r].user /\ tx'[r].issued = NoToken
        /\ tx'[r].at = "deleting" /\ tx'[r].writes = tx[r].writes
        /\ tx'[r].targets = tx[r].targets \ {t}
        /\ tx'[r].removed = tx[r].removed \cup ({t} \cap rows)
    <3>1. tx[r].at = "deleting" /\ tx[r].issued = NoToken
      BY <1>0, <1>6 DEF DeleteTarget
    <3>2. QED
      BY <1>0, <2>1, <3>1 DEF Transactions
  <2>3. UNCHANGED <<accounts, rows, minted>>
    BY <1>6 DEF DeleteTarget
  <2>4. RowsOf(tx[r].user)' = RowsOf(tx[r].user) /\ RowsOf(tx[r].user) \subseteq rows
    BY <2>2, <2>3 DEF RowsOf
  <2>5. tx[r].writes = "account" => Alone(r)'
    BY <1>0, <2>1, <2>2, <2>3, <2>4 DEF Alone, References
  <2>6. QED
    BY <2>1, <2>2, <2>3, <2>5, LocalStepErases, NotErasedByOthers DEF References
<1>7. CASE DeleteDone(r)
  <2>1. /\ \A q \in Request \ {r} : tx'[q] = tx[q]
        /\ tx'[r] = [tx[r] EXCEPT !.at = "ready"]
    BY <1>0, <1>7 DEF DeleteDone, TypeOK
  <2>2. /\ tx'[r].user = tx[r].user /\ tx'[r].issued = NoToken
        /\ tx'[r].at = "ready" /\ tx'[r].writes = tx[r].writes
        /\ tx'[r].targets = {} /\ tx'[r].removed = tx[r].removed
    BY <1>0, <1>7, <2>1 DEF DeleteDone, Transactions
  <2>3. UNCHANGED <<accounts, rows, minted>>
    BY <1>7 DEF DeleteDone
  <2>4. RowsOf(tx[r].user)' = RowsOf(tx[r].user) /\ tx[r].targets = {}
    BY <1>7, <2>2, <2>3 DEF RowsOf, DeleteDone
  <2>5. tx[r].writes = "account" => Alone(r)'
    BY <1>0, <2>1, <2>2, <2>3, <2>4 DEF Alone, References
  <2>6. QED
    BY <2>1, <2>2, <2>3, <2>5, LocalStepErases, NotErasedByOthers DEF References
<1>8. CASE Discard(r)
  BY <1>8, DiscardErases
<1>9. QED
  BY <1>2, <1>3, <1>4, <1>5, <1>6, <1>7, <1>8 DEF Advance, UserGone, DeadlockAbort

\* ErasureInv holds throughout.
LEMMA ErasureInvariant == Spec => []ErasureInv
<1> USE SentinelsApart
<1>1. Init => ErasureInv
  BY DEF Init, ErasureInv, RowsHaveAccounts, References, Idle
<1>2. Typed /\ RotationInv /\ ErasureInv /\ [Next]_vars => ErasureInv'
  <2> SUFFICES ASSUME Typed, RotationInv, ErasureInv, [Next]_vars  PROVE  ErasureInv'
    OBVIOUS
  <2>1. CASE UNCHANGED vars
    BY <2>1 DEF vars, ErasureInv, RowsHaveAccounts, References, RowsOf
  <2>2. ASSUME NEW t \in Token, Expire(t)  PROVE  ErasureInv'
    BY <2>2 DEF Expire, ErasureInv, RowsHaveAccounts, References, RowsOf
  <2>3. ASSUME NEW r \in Request, Begin(r) \/ Advance(r) \/ Rollback(r)  PROVE  ErasureInv'
    BY <2>3, BeginErases, CommitErases, AdvanceErases, DiscardErases DEF Rollback
  <2>4. QED
    BY <2>1, <2>2, <2>3 DEF Next, Step
<1>3. QED
  BY <1>1, <1>2, TypedInvariant, RotationInvariant, PTL DEF Spec

\* Every usable session belongs to an account that still exists, however logins,
\* refreshes and resets interleave with delete_account.
THEOREM SessionsOwned == Spec => []SessionsHaveAccounts
<1>1. ErasureInv /\ TypeOK => SessionsHaveAccounts
  BY DEF ErasureInv, SessionsHaveAccounts
<1>2. QED
  BY <1>1, ErasureInvariant, TypeCorrect, PTL

-------------------------------------------------------------------------------
(* The committed rows implement the credential ledger *)

\* A signed token keeps its claims, so a step that commits nothing is a stutter.
LEMMA SignedKept ==
    ASSUME Typed, Step, NEW t \in Token, minted[t] # Unminted
    PROVE  minted'[t] = minted[t]
<1>1. ASSUME NEW r, NEW u, NEW kind, NEW chain, NEW basis, Issue(r, u, kind, chain, basis)
      PROVE  minted'[t] = minted[t]
  BY <1>1 DEF Issue, Unused, Typed, TypeOK
<1>2. ASSUME NEW r \in Request, Begin(r)  PROVE minted'[t] = minted[t]
  BY <1>1, <1>2 DEF Begin, LoginVerify, RequestReset, RequestErasure, Consume, RefreshConsume,
     ResetConsume, Logout, RevokeSession
<1>3. ASSUME NEW r \in Request, LoginIssue(r) \/ RefreshIssue(r)  PROVE minted'[t] = minted[t]
  BY <1>1, <1>3 DEF LoginIssue, RefreshIssue
<1>4. ASSUME NEW r \in Request, ResetPassword(r) \/ RevokeAll(r) \/ EraseAccount(r)
      PROVE  minted'[t] = minted[t]
  BY <1>4 DEF ResetPassword, RevokeAll, EraseAccount
<1>5. ASSUME NEW r \in Request, \/ (\E s \in Token : DeleteTarget(r, s)) \/ DeleteDone(r) \/ Commit(r)
                                \/ UserGone(r) \/ DeadlockAbort(r) \/ Rollback(r)
      PROVE  minted'[t] = minted[t]
  BY <1>5 DEF DeleteTarget, DeleteDone, Commit, UserGone, DeadlockAbort, Rollback, Discard
<1>6. ASSUME NEW s \in Token, Expire(s)  PROVE minted'[t] = minted[t]
  BY <1>6 DEF Expire
<1>7. QED
  BY <1>2, <1>3, <1>4, <1>5, <1>6 DEF Step, Advance

\* Rows change only when a transaction commits.
LEMMA OnlyCommitsWrite ==
    ASSUME Step, \A r \in Request : ~Commit(r)  PROVE  UNCHANGED <<rows, spent>>
<1>0. ASSUME NEW r, NEW u, NEW kind, NEW chain, NEW basis, Issue(r, u, kind, chain, basis)
      PROVE  UNCHANGED <<rows, spent>>
  BY <1>0 DEF Issue
<1>1. ASSUME NEW r \in Request, Begin(r)  PROVE UNCHANGED <<rows, spent>>
  BY <1>0, <1>1 DEF Begin, LoginVerify, RequestReset, RequestErasure, Consume, RefreshConsume,
     ResetConsume, Logout, RevokeSession
<1>2. ASSUME NEW r \in Request, LoginIssue(r) \/ RefreshIssue(r)  PROVE UNCHANGED <<rows, spent>>
  BY <1>0, <1>2 DEF LoginIssue, RefreshIssue
<1>3. ASSUME NEW r \in Request, ResetPassword(r) \/ RevokeAll(r) \/ EraseAccount(r)
      PROVE  UNCHANGED <<rows, spent>>
  BY <1>3 DEF ResetPassword, RevokeAll, EraseAccount
<1>4. ASSUME NEW r \in Request, \/ (\E t \in Token : DeleteTarget(r, t)) \/ DeleteDone(r)
                                \/ UserGone(r) \/ DeadlockAbort(r) \/ Rollback(r)
      PROVE  UNCHANGED <<rows, spent>>
  BY <1>4 DEF DeleteTarget, DeleteDone, UserGone, DeadlockAbort, Rollback, Discard
<1>5. ASSUME NEW t \in Token, Expire(t)  PROVE UNCHANGED <<rows, spent>>
  BY <1>5 DEF Expire
<1>6. QED
  BY <1>1, <1>2, <1>3, <1>4, <1>5 DEF Step, Advance

Standing == [t \in Token |-> IF t \in rows THEN "live"
                             ELSE IF t \in spent THEN "spent" ELSE "absent"]
Origin == [t \in Token |-> IF t \in rows \cup spent THEN minted[t].root ELSE NoToken]

\* A commit is one step of the ledger.
LEMMA CommitRefines ==
    ASSUME Typed, RotationInv, NEW r \in Request, Commit(r)
    PROVE  Ledger!Next
<1> USE SentinelsApart
<1>1. /\ rows' = (rows \ tx[r].removed) \cup ({tx[r].issued} \ {NoToken})
      /\ spent' = spent \cup tx[r].removed /\ minted' = minted
      /\ tx[r].removed \subseteq rows /\ rows \subseteq Token /\ rows \cap spent = {}
      /\ tx[r].issued \in Token \cup {NoToken}
  BY DEF Commit, RotationInv, LocksHold, Typed, TypeOK, Transactions
<1>2. CASE tx[r].issued = NoToken
  <2>0. PICK gone \in SUBSET Token : gone = tx[r].removed
    BY <1>1
  <2>1. \A t \in gone : Standing[t] = "live"
    BY <1>1, <2>0 DEF Standing
  <2>2. Standing' = [t \in Token |-> IF t \in gone THEN "spent" ELSE Standing[t]]
    BY <1>1, <1>2, <2>0 DEF Standing
  <2>3. Origin' = Origin
    BY <1>1, <1>2 DEF Origin
  <2>4. Ledger!Void(gone)
    BY <2>1, <2>2, <2>3 DEF Ledger!Void, Standing, Origin
  <2>5. QED
    BY <2>4 DEF Ledger!Next
<1>3. CASE tx[r].issued # NoToken
  <2>0. PICK s \in Token : s = tx[r].issued
    BY <1>1, <1>3
  <2>1. s \notin rows \cup spent
    BY <1>3, <2>0 DEF RotationInv, PendingIsPrivate
  <2>2. CASE tx[r].presented = NoToken
    <3>1. tx[r].removed = {} /\ minted[s].root = s
      BY <1>3, <2>0, <2>2 DEF RotationInv, PendingIsNext
    <3>2. Standing[s] = "absent" /\ Standing' = [Standing EXCEPT ![s] = "live"]
      BY <1>1, <1>3, <2>0, <2>1, <3>1 DEF Standing
    <3>3. Origin' = [Origin EXCEPT ![s] = s]
      BY <1>1, <1>3, <2>0, <2>1, <3>1 DEF Origin
    <3>4. Ledger!Open(s)
      BY <3>2, <3>3 DEF Ledger!Open, Standing, Origin
    <3>5. QED
      BY <3>4 DEF Ledger!Next
  <2>3. CASE tx[r].presented # NoToken
    <3>0. PICK c \in Token : c = tx[r].presented
      BY <1>3, <2>3 DEF RotationInv, PendingIsNext
    <3>1. tx[r].removed = {c} /\ minted[s].root = minted[c].root
      BY <1>3, <2>0, <2>3, <3>0 DEF RotationInv, PendingIsNext
    <3>2. c \in rows /\ Standing[c] = "live" /\ Standing[s] = "absent"
      BY <1>1, <2>1, <3>1 DEF Standing
    <3>3. Standing' = [Standing EXCEPT ![c] = "spent", ![s] = "live"]
      BY <1>1, <1>3, <2>0, <2>1, <3>1, <3>2 DEF Standing
    <3>4. Origin' = [Origin EXCEPT ![s] = Origin[c]]
      BY <1>1, <1>3, <2>0, <2>1, <3>1, <3>2 DEF Origin
    <3>5. Ledger!Exchange(c, s)
      BY <3>2, <3>3, <3>4 DEF Ledger!Exchange, Standing, Origin
    <3>6. QED
      BY <3>5 DEF Ledger!Next
  <2>4. QED
    BY <2>2, <2>3
<1>4. QED
  BY <1>2, <1>3

\* The sessions table, under concurrent logins, refreshes, resets, revocations and
\* erasures, behaves as the ledger of docs/session-contract.md promises.
THEOREM Refinement == Spec => ImplementsLedger
<1> USE SentinelsApart
<1>1. Init => Ledger!Init
  BY DEF Init, Ledger!Init
<1>2. Typed /\ RotationInv /\ [Next]_vars => [Ledger!Next]_<<Standing, Origin>>
  <2>1. ASSUME Typed, RotationInv, Step, \A r \in Request : ~Commit(r)
        PROVE  Standing' = Standing /\ Origin' = Origin
    <3>1. rows' = rows /\ spent' = spent
      BY <2>1, OnlyCommitsWrite
    <3>2. \A t \in rows \cup spent : minted'[t] = minted[t]
      BY <2>1, SignedKept DEF RotationInv, FreshTokens, Typed, TypeOK
    <3>3. QED
      BY <3>1, <3>2 DEF Standing, Origin
  <2>2. ASSUME UNCHANGED vars  PROVE  Standing' = Standing /\ Origin' = Origin
    BY <2>2 DEF vars, Standing, Origin
  <2>3. QED
    BY <2>1, <2>2, CommitRefines DEF Next
<1>3. QED
  BY <1>1, <1>2, TypedInvariant, RotationInvariant, PTL
     DEF Spec, ImplementsLedger, Ledger!Spec, Ledger!ledger, Standing, Origin

-------------------------------------------------------------------------------
(* Password resets: what survives a reset was issued during one *)

\* What RevokesAllButOverlap says of one transaction.
Revokes(r) ==
    tx[r].writes = "password" =>
        /\ tx[r].issued = NoToken /\ tx[r].at \in {"updated", "deleting", "ready"}
        /\ tx[r].at = "ready" => tx[r].targets = {}
        /\ tx[r].at \in {"deleting", "ready"} /\ tx[r].user \notin overlap =>
             RowsOf(tx[r].user) \subseteq tx[r].removed \cup tx[r].targets

\* What PendingNeedsOverlap says of one transaction.
NotAhead(r) ==
    /\ tx[r].at = "verified" =>
         /\ tx[r].user \in User /\ tx[r].seen <= password[tx[r].user]
         /\ tx[r].seen < password[tx[r].user] => tx[r].user \in overlap
    /\ tx[r].issued # NoToken =>
         (minted[tx[r].issued].basis < password[tx[r].user] => tx[r].user \in overlap)

\* Every row, and every token a transaction has signed, has its claims.
LEMMA RowsAreSigned ==
    ASSUME Typed, RotationInv
    PROVE  /\ \A t \in rows : t \in Token /\ minted[t] # Unminted
           /\ \A q \in Request : tx[q].issued # NoToken =>
                /\ tx[q].issued \in Token /\ minted[tx[q].issued] # Unminted
                /\ minted[tx[q].issued].user = tx[q].user
           /\ \A t \in Token : minted[t] # Unminted =>
                minted[t].user \in User /\ minted[t].basis \in Nat
BY DEF Typed, TypeOK, Transactions, RotationInv, FreshTokens, PendingIsPrivate, Claims

\* A step of r that commits nothing keeps the invariant, if it keeps r's part.
LEMMA LocalStepSurvives ==
    ASSUME Typed, RotationInv, SurvivalInv, NEW r \in Request,
           \A q \in Request \ {r} : tx'[q] = tx[q],
           UNCHANGED <<password, rows>>, overlap' = overlap \cup Overlapping',
           \A t \in Token : minted[t] # Unminted => minted'[t] = minted[t],
           \A t \in Token : minted'[t] # minted[t] =>
               minted'[t].basis <= password[minted'[t].user],
           NotAhead(r)', Revokes(r)'
    PROVE  SurvivalInv'
<1>1. SurvivorsNeedOverlap'
  BY RowsAreSigned DEF SurvivalInv, SurvivorsNeedOverlap
<1>2. PendingNeedsOverlap'
  <2>1. \A t \in Token : minted'[t] # Unminted => minted'[t].basis <= password'[minted'[t].user]
    BY DEF SurvivalInv, PendingNeedsOverlap
  <2>2. ASSUME NEW q \in Request \ {r}  PROVE  NotAhead(q)'
    BY RowsAreSigned DEF SurvivalInv, PendingNeedsOverlap, NotAhead
  <2>3. QED
    BY <2>1, <2>2 DEF PendingNeedsOverlap, NotAhead
<1>3. RevokesAllButOverlap'
  <2>1. ASSUME NEW q \in Request \ {r}  PROVE  Revokes(q)'
    <3>1. Revokes(q) /\ tx'[q] = tx[q]
      BY DEF SurvivalInv, RevokesAllButOverlap, Revokes
    <3>2. RowsOf(tx[q].user)' = RowsOf(tx[q].user)
      BY <3>1, RowsAreSigned DEF RowsOf
    <3>3. QED
      BY <3>1, <3>2 DEF Revokes
  <2>2. QED
    BY <2>1 DEF RevokesAllButOverlap, Revokes
<1>4. (Overlapping \subseteq overlap)'
  OBVIOUS
<1>5. QED
  BY <1>1, <1>2, <1>3, <1>4 DEF SurvivalInv

\* Signing a token under the version a request has read keeps it.
LEMMA IssueSurvives ==
    ASSUME Typed, RotationInv, SurvivalInv, NEW r \in Request, NEW u \in User, NEW kind,
           NEW chain, NEW basis \in Nat, Issue(r, u, kind, chain, basis),
           overlap' = overlap \cup Overlapping', tx[r].writes # "password",
           basis <= password[u], basis < password[u] => u \in overlap
    PROVE  SurvivalInv'
<1> USE SentinelsApart
<1>1. PICK s \in Unused :
        /\ minted' = [minted EXCEPT ![s] =
             [user |-> u, kind |-> kind, basis |-> basis,
              root |-> IF chain = NoToken THEN s ELSE minted[chain].root]]
        /\ tx' = [tx EXCEPT ![r].at = "ready", ![r].user = u, ![r].issued = s]
  BY DEF Issue
<1>2. s \in Token /\ minted[s] = Unminted
  BY <1>1 DEF Unused
<1>3. /\ minted'[s].user = u /\ minted'[s].basis = basis
      /\ \A t \in Token \ {s} : minted'[t] = minted[t]
  BY <1>1, <1>2 DEF Typed, TypeOK
<1>4. /\ \A q \in Request \ {r} : tx'[q] = tx[q]
      /\ tx'[r].at = "ready" /\ tx'[r].user = u /\ tx'[r].issued = s
      /\ tx'[r].writes = tx[r].writes
  BY <1>1 DEF Typed, TypeOK, Transactions
<1>5. UNCHANGED <<password, rows>>
  BY DEF Issue
<1>6. NotAhead(r)'
  BY <1>3, <1>4, <1>5 DEF NotAhead
<1>7. Revokes(r)'
  BY <1>4 DEF Revokes
<1>8. QED
  BY <1>2, <1>3, <1>4, <1>5, <1>6, <1>7, LocalStepSurvives

\* A step that leaves r with nothing read, signed or written by a reset keeps it.
LEMMA QuietStepSurvives ==
    ASSUME Typed, RotationInv, SurvivalInv, NEW r \in Request,
           \A q \in Request \ {r} : tx'[q] = tx[q],
           UNCHANGED <<password, rows, minted>>, overlap' = overlap \cup Overlapping',
           tx'[r].at # "verified", tx'[r].issued = NoToken, tx'[r].writes # "password"
    PROVE  SurvivalInv'
<1>1. NotAhead(r)' /\ Revokes(r)'
  BY DEF NotAhead, Revokes
<1>2. QED
  BY <1>1, LocalStepSurvives

\* The first statement of a request reads the committed password version.
LEMMA BeginSurvives ==
    ASSUME Typed, RotationInv, SurvivalInv, NEW r \in Request, Begin(r),
           overlap' = overlap \cup Overlapping'
    PROVE  SurvivalInv'
<1>0. /\ TypeOK /\ (tx[r].at = "idle" => tx[r] = Idle)
      /\ Idle.writes = "nothing" /\ Idle.issued = NoToken
  BY DEF Typed, RotationInv, Progressed, Idle
<1>1. ASSUME NEW u \in User, RequestReset(r, u)  PROVE  SurvivalInv'
  <2>1. /\ tx[r].writes # "password" /\ Issue(r, u, "reset", NoToken, password[u])
        /\ password[u] \in Nat
    BY <1>0, <1>1 DEF RequestReset, TypeOK
  <2>2. QED
    BY <2>1, IssueSurvives
<1>2. ASSUME NEW u \in User, LoginVerify(r, u)  PROVE  SurvivalInv'
  <2>1. /\ \A q \in Request \ {r} : tx'[q] = tx[q]
        /\ tx'[r].at = "verified" /\ tx'[r].issued = NoToken /\ tx'[r].writes = "nothing"
        /\ tx'[r].user = u /\ tx'[r].seen = password[u]
    BY <1>0, <1>2 DEF TypeOK, LoginVerify, Idle
  <2>2. UNCHANGED <<password, rows, minted>> /\ password[u] \in Nat
    BY <1>0, <1>2 DEF LoginVerify, TypeOK
  <2>3. NotAhead(r)' /\ Revokes(r)'
    BY <2>1, <2>2 DEF NotAhead, Revokes
  <2>4. QED
    BY <2>1, <2>2, <2>3, LocalStepSurvives
<1>3. ASSUME NEW u \in User, RequestErasure(r, u)  PROVE  SurvivalInv'
  <2>1. /\ \A q \in Request \ {r} : tx'[q] = tx[q]
        /\ tx'[r].at = "closing" /\ tx'[r].issued = NoToken /\ tx'[r].writes = "nothing"
    BY <1>0, <1>3 DEF TypeOK, RequestErasure, Idle
  <2>2. QED
    BY <1>3, <2>1, QuietStepSurvives DEF RequestErasure
<1>4. ASSUME NEW t \in Token, NEW kind, NEW next \in {"consumed", "redeemed", "ready"},
             Consume(r, t, kind, next) \/ RevokeSession(r, t)
      PROVE  SurvivalInv'
  <2>1. PICK at \in {"consumed", "redeemed", "ready"} :
          tx' = [tx EXCEPT ![r] = [Idle EXCEPT !.at = at, !.user = minted[t].user,
                                               !.presented = t, !.removed = {t}]]
    BY <1>4 DEF Consume, RevokeSession
  <2>2. /\ \A q \in Request \ {r} : tx'[q] = tx[q]
        /\ tx'[r].at # "verified" /\ tx'[r].issued = NoToken /\ tx'[r].writes = "nothing"
    BY <1>0, <2>1 DEF TypeOK, Idle
  <2>3. UNCHANGED <<password, rows, minted>>
    BY <1>4 DEF Consume, RevokeSession
  <2>4. QED
    BY <2>2, <2>3, QuietStepSurvives
<1>5. QED
  BY <1>1, <1>2, <1>3, <1>4 DEF Begin, RefreshConsume, ResetConsume, Logout

\* A row that a reset deletes is one its revoke_all saw; every other statement of r
\* signs under the version it read or only moves its own transaction.
LEMMA AdvanceSurvives ==
    ASSUME Typed, RotationInv, SurvivalInv, NEW r \in Request, Advance(r), ~Commit(r),
           overlap' = overlap \cup Overlapping'
    PROVE  SurvivalInv'
<1> USE SentinelsApart
<1>0. /\ TypeOK /\ tx[r] \in Transactions
      /\ tx[r].at # "ready" => tx[r].issued = NoToken
      /\ Revokes(r) /\ NotAhead(r) /\ RowsOf(tx[r].user) \subseteq Token
  BY DEF Typed, RowsOf, TypeOK, RotationInv, PendingIsPrivate, SurvivalInv, RevokesAllButOverlap,
         PendingNeedsOverlap, Revokes, NotAhead
<1>1. CASE LoginIssue(r)
  <2>1. /\ tx[r].at = "verified" /\ Issue(r, tx[r].user, "refresh", NoToken, tx[r].seen)
        /\ tx[r].seen \in Nat
    BY <1>0, <1>1 DEF LoginIssue, Transactions
  <2>2. /\ tx[r].writes # "password" /\ tx[r].user \in User
        /\ tx[r].seen <= password[tx[r].user]
        /\ tx[r].seen < password[tx[r].user] => tx[r].user \in overlap
    BY <1>0, <2>1 DEF Revokes, NotAhead
  <2>3. QED
    BY <2>1, <2>2, IssueSurvives
<1>2. CASE RefreshIssue(r)
  <2> DEFINE t == tx[r].presented
  <2>1. /\ tx[r].at = "consumed" /\ tx[r].writes # "password"
        /\ Issue(r, tx[r].user, "refresh", t, minted[t].basis)
    BY <1>0, <1>2 DEF RefreshIssue, Revokes
  <2>2. t \in rows /\ t \in Token /\ minted[t] # Unminted /\ minted[t].user = tx[r].user
    <3>1. t \in rows /\ minted[t].user = tx[r].user
      BY <2>1 DEF RotationInv, Progressed, LocksHold
    <3>2. QED
      BY <3>1, RowsAreSigned
  <2>3. tx[r].user \in User /\ minted[t].basis \in Nat
    BY <2>2, RowsAreSigned
  <2>4. /\ minted[t].basis <= password[tx[r].user]
        /\ minted[t].basis < password[tx[r].user] => tx[r].user \in overlap
    BY <2>2 DEF SurvivalInv, PendingNeedsOverlap, SurvivorsNeedOverlap
  <2>5. QED
    BY <2>1, <2>3, <2>4, IssueSurvives
<1>3. ASSUME NEW new \in Transactions, tx' = [tx EXCEPT ![r] = new],
             UNCHANGED <<password, rows, minted>>, new.at # "verified",
             new.issued = NoToken, Revokes(r)'
      PROVE  SurvivalInv'
  <2>1. tx'[r] = new /\ \A q \in Request \ {r} : tx'[q] = tx[q]
    BY <1>0, <1>3 DEF TypeOK
  <2>2. NotAhead(r)'
    BY <1>3, <2>1 DEF NotAhead
  <2>3. QED
    BY <1>3, <2>1, <2>2, LocalStepSurvives
<1>4. CASE ResetPassword(r)
  <2> DEFINE new == [tx[r] EXCEPT !.at = "updated", !.writes = "password"]
  <2>1. /\ tx' = [tx EXCEPT ![r] = new] /\ tx[r].issued = NoToken
        /\ UNCHANGED <<password, rows, minted>>
    BY <1>0, <1>4 DEF ResetPassword, TypeOK
  <2>2. new \in Transactions /\ new.at = "updated" /\ new.issued = NoToken
    BY <1>0, <2>1 DEF Transactions, Steps
  <2>3. tx'[r] = new
    BY <1>0, <2>1 DEF TypeOK
  <2> HIDE DEF new
  <2>4. Revokes(r)'
    BY <2>2, <2>3 DEF Revokes
  <2>5. QED
    BY <1>3, <2>1, <2>2, <2>4
<1>5. CASE RevokeAll(r)
  <2> DEFINE new == [tx[r] EXCEPT !.at = "deleting",
                                  !.targets = RowsOf(tx[r].user) \ tx[r].removed]
  <2>1. /\ tx' = [tx EXCEPT ![r] = new] /\ tx[r].issued = NoToken
        /\ UNCHANGED <<password, rows, minted>>
    BY <1>0, <1>5 DEF RevokeAll, TypeOK
  <2>2. /\ new \in Transactions /\ new.at = "deleting" /\ new.issued = NoToken
        /\ new.user = tx[r].user /\ new.removed = tx[r].removed
        /\ new.targets = RowsOf(tx[r].user) \ tx[r].removed
    BY <1>0, <2>1 DEF Transactions, Steps
  <2>3. tx'[r] = new
    BY <1>0, <2>1 DEF TypeOK
  <2> HIDE DEF new
  <2>4. RowsOf(tx[r].user)' = RowsOf(tx[r].user)
    BY <2>1, <2>2, <2>3 DEF RowsOf
  <2>5. Revokes(r)'
    BY <2>2, <2>3, <2>4 DEF Revokes
  <2>6. QED
    BY <1>3, <2>1, <2>2, <2>5
<1>6. CASE EraseAccount(r)
  <2> DEFINE new == [tx[r] EXCEPT !.at = "deleting", !.writes = "account",
                                  !.targets = RowsOf(tx[r].user)]
  <2>1. /\ tx' = [tx EXCEPT ![r] = new] /\ tx[r].issued = NoToken
        /\ UNCHANGED <<password, rows, minted>>
    BY <1>0, <1>6 DEF EraseAccount, TypeOK
  <2>2. /\ new \in Transactions /\ new.at = "deleting" /\ new.issued = NoToken
        /\ new.writes = "account"
    BY <1>0, <2>1 DEF Transactions, Steps
  <2>3. tx'[r] = new
    BY <1>0, <2>1 DEF TypeOK
  <2> HIDE DEF new
  <2>4. Revokes(r)'
    BY <2>2, <2>3 DEF Revokes
  <2>5. QED
    BY <1>3, <2>1, <2>2, <2>4
<1>7. ASSUME NEW t \in Token, DeleteTarget(r, t)  PROVE  SurvivalInv'
  <2> DEFINE new == [tx[r] EXCEPT !.targets = @ \ {t}, !.removed = @ \cup ({t} \cap rows)]
  <2>1. /\ tx' = [tx EXCEPT ![r] = new] /\ tx[r].issued = NoToken /\ tx[r].at = "deleting"
        /\ UNCHANGED <<password, rows, minted>>
    BY <1>0, <1>7 DEF DeleteTarget, TypeOK
  <2>2. /\ new \in Transactions /\ new.at = "deleting" /\ new.issued = NoToken
        /\ new.user = tx[r].user /\ new.writes = tx[r].writes
        /\ new.targets = tx[r].targets \ {t}
        /\ new.removed = tx[r].removed \cup ({t} \cap rows)
    BY <1>0, <2>1 DEF Transactions
  <2>3. tx'[r] = new
    BY <1>0, <2>1 DEF TypeOK
  <2> HIDE DEF new
  <2>4. RowsOf(tx[r].user)' = RowsOf(tx[r].user) /\ RowsOf(tx[r].user) \subseteq rows
    BY <2>1, <2>2, <2>3 DEF RowsOf
  <2>5. Revokes(r)'
    BY <1>0, <2>1, <2>2, <2>3, <2>4 DEF Revokes
  <2>6. QED
    BY <1>3, <2>1, <2>2, <2>5
<1>8. CASE DeleteDone(r)
  <2> DEFINE new == [tx[r] EXCEPT !.at = "ready"]
  <2>1. /\ tx' = [tx EXCEPT ![r] = new] /\ tx[r].issued = NoToken /\ tx[r].at = "deleting"
        /\ tx[r].targets = {} /\ UNCHANGED <<password, rows, minted>>
    BY <1>0, <1>8 DEF DeleteDone, TypeOK
  <2>2. /\ new \in Transactions /\ new.at = "ready" /\ new.issued = NoToken
        /\ new.user = tx[r].user /\ new.writes = tx[r].writes
        /\ new.targets = {} /\ new.removed = tx[r].removed
    BY <1>0, <2>1 DEF Transactions, Steps
  <2>3. tx'[r] = new
    BY <1>0, <2>1 DEF TypeOK
  <2> HIDE DEF new
  <2>4. RowsOf(tx[r].user)' = RowsOf(tx[r].user)
    BY <2>1, <2>2, <2>3 DEF RowsOf
  <2>5. Revokes(r)'
    BY <1>0, <2>1, <2>2, <2>3, <2>4 DEF Revokes
  <2>6. QED
    BY <1>3, <2>1, <2>2, <2>5
<1>9. CASE Discard(r)
  <2>1. /\ \A q \in Request \ {r} : tx'[q] = tx[q]
        /\ tx'[r].at = "idle" /\ tx'[r].issued = NoToken /\ tx'[r].writes = "nothing"
    BY <1>0, <1>9 DEF Discard, TypeOK, Idle
  <2>2. QED
    BY <1>9, <2>1, QuietStepSurvives DEF Discard
<1>10. QED
  BY <1>1, <1>2, <1>4, <1>5, <1>6, <1>7, <1>8, <1>9 DEF Advance, UserGone, DeadlockAbort

\* A commit publishes a row that an overlap explains if it is behind; a reset's
\* commit moves the version on, past rows it has deleted or an overlap explains.
LEMMA CommitSurvives ==
    ASSUME Typed, RotationInv, SurvivalInv, NEW r \in Request, Commit(r),
           overlap' = overlap \cup Overlapping'
    PROVE  SurvivalInv'
<1> USE SentinelsApart
<1> DEFINE Resets(u) == tx[r].writes = "password" /\ tx[r].user = u
<1>1. /\ tx'[r] = Idle /\ \A q \in Request \ {r} : tx'[q] = tx[q]
      /\ minted' = minted /\ tx[r].at = "ready"
      /\ rows' = (rows \ tx[r].removed) \cup ({tx[r].issued} \ {NoToken})
      /\ tx[r] \in Transactions
  BY DEF Commit, Typed, TypeOK
<1>2. /\ password \in [User -> Nat]
      /\ \A u \in User : password'[u] = IF Resets(u) THEN password[u] + 1 ELSE password[u]
  BY DEF Commit, Typed, TypeOK
<1>3. Revokes(r) /\ \A q \in Request : NotAhead(q)
  BY DEF SurvivalInv, RevokesAllButOverlap, PendingNeedsOverlap, Revokes, NotAhead
<1>4. ASSUME NEW q \in Request \ {r}, NEW u \in User, tx[q].user = u, Resets(u),
             tx[q].at = "verified" \/ tx[q].issued # NoToken
      PROVE  u \in overlap
  <2>1. r \in Revoking(u) /\ q \in Issuing(u)
    BY <1>1, <1>4 DEF Revoking, Issuing
  <2>2. QED
    BY <2>1 DEF Overlapping, SurvivalInv
<1>5. SurvivorsNeedOverlap'
  <2> SUFFICES ASSUME NEW t \in rows', minted[t].basis < password'[minted[t].user]
               PROVE  minted[t].user \in overlap
    BY <1>1 DEF SurvivorsNeedOverlap
  <2>1. CASE t \in rows \ tx[r].removed
    <3>1. minted[t].user \in User
      BY <2>1, RowsAreSigned
    <3>2. CASE Resets(minted[t].user)
      <4>1. t \in RowsOf(tx[r].user)
        BY <2>1, <3>2 DEF RowsOf
      <4>2. QED
        BY <1>1, <1>3, <2>1, <3>2, <4>1 DEF Revokes
    <3>3. CASE ~Resets(minted[t].user)
      BY <1>2, <2>1, <3>1, <3>3 DEF SurvivalInv, SurvivorsNeedOverlap
    <3>4. QED
      BY <3>2, <3>3
  <2>2. CASE t = tx[r].issued /\ t # NoToken
    <3>1. minted[t].user = tx[r].user /\ minted[t].user \in User
      BY <2>2, RowsAreSigned
    <3>2. tx[r].writes # "password"
      BY <1>3, <2>2 DEF Revokes
    <3>3. minted[t].basis < password[tx[r].user]
      BY <1>2, <3>1, <3>2
    <3>4. QED
      BY <1>3, <2>2, <3>1, <3>3 DEF NotAhead
  <2>3. QED
    BY <1>1, <2>1, <2>2
<1>6. PendingNeedsOverlap'
  <2>1. ASSUME NEW t \in Token, minted[t] # Unminted
        PROVE  minted[t].basis <= password'[minted[t].user]
    <3>1. minted[t].user \in User /\ minted[t].basis \in Nat
      BY <2>1, RowsAreSigned
    <3>2. minted[t].basis <= password[minted[t].user] /\ password[minted[t].user] \in Nat
      BY <1>2, <2>1, <3>1 DEF SurvivalInv, PendingNeedsOverlap
    <3>3. QED
      BY <1>2, <3>1, <3>2
  <2>2. ASSUME NEW q \in Request  PROVE  NotAhead(q)'
    <3>1. CASE q = r
      BY <1>1, <3>1 DEF NotAhead, Idle
    <3>2. CASE q # r /\ tx[q].at = "verified"
      <4>1. /\ tx[q].user \in User /\ tx[q].seen <= password[tx[q].user]
            /\ tx[q].seen < password[tx[q].user] => tx[q].user \in overlap
            /\ tx[q].issued = NoToken /\ tx'[q] = tx[q]
            /\ tx[q].seen \in Nat /\ password[tx[q].user] \in Nat
        <5>1. tx[q].user \in User
          BY <1>3, <3>2 DEF NotAhead
        <5>2. QED
          BY <1>1, <1>2, <1>3, <3>2, <5>1
             DEF NotAhead, RotationInv, Progressed, Typed, TypeOK, Transactions
      <4>2. Resets(tx[q].user) => tx[q].user \in overlap
        BY <1>4, <3>2, <4>1
      <4>3. tx[q].seen <= password'[tx[q].user]
        BY <1>2, <4>1
      <4>4. tx[q].seen < password'[tx[q].user] => tx[q].user \in overlap'
        BY <1>2, <4>1, <4>2
      <4>5. QED
        BY <4>1, <4>3, <4>4 DEF NotAhead
    <3>3. CASE q # r /\ tx[q].issued # NoToken /\ tx[q].at # "verified"
      <4>1. tx'[q] = tx[q] /\ tx[q].user \in User
        BY <1>1, <3>3, RowsAreSigned
      <4>2. Resets(tx[q].user) => tx[q].user \in overlap
        BY <1>4, <3>3, <4>1
      <4>3. minted[tx[q].issued].basis < password'[tx[q].user] => tx[q].user \in overlap'
        BY <1>2, <1>3, <3>3, <4>1, <4>2 DEF NotAhead
      <4>4. QED
        BY <1>1, <3>3, <4>1, <4>3 DEF NotAhead
    <3>4. CASE q # r /\ tx[q].issued = NoToken /\ tx[q].at # "verified"
      BY <1>1, <3>4 DEF NotAhead
    <3>5. QED
      BY <3>1, <3>2, <3>3, <3>4
  <2>3. QED
    BY <1>1, <2>1, <2>2 DEF PendingNeedsOverlap, NotAhead
<1>7. ASSUME NEW p \in Request, tx'[p].writes = "password"  PROVE  Revokes(p)'
  <2>1. p # r /\ tx'[p] = tx[p] /\ Revokes(p)
    BY <1>1, <1>7 DEF Idle, SurvivalInv, RevokesAllButOverlap, Revokes
  <2>2. ASSUME tx[p].at \in {"deleting", "ready"}, tx[p].user \notin overlap'
        PROVE  RowsOf(tx[p].user)' \subseteq RowsOf(tx[p].user)
    <3> SUFFICES ASSUME NEW t \in rows', minted[t].user = tx[p].user  PROVE  t \in rows
      BY <1>1, <2>1 DEF RowsOf
    <3>1. ASSUME t = tx[r].issued, t # NoToken  PROVE  FALSE
      <4>1. tx[r].user = tx[p].user /\ tx[r].user \in User
        BY <3>1, RowsAreSigned
      <4>2. p \in Revoking(tx[p].user) /\ r \in Issuing(tx[p].user)
        BY <1>7, <2>1, <2>2, <3>1, <4>1 DEF Revoking, Issuing
      <4>3. tx[p].user \in overlap
        BY <4>1, <4>2 DEF Overlapping, SurvivalInv
      <4>4. QED
        BY <2>2, <4>3
    <3>2. QED
      BY <1>1, <3>1
  <2>3. QED
    BY <1>7, <2>1, <2>2 DEF Revokes
<1>8. RevokesAllButOverlap'
  BY <1>7 DEF RevokesAllButOverlap, Revokes
<1>9. QED
  BY <1>5, <1>6, <1>8 DEF SurvivalInv

\* SurvivalInv holds throughout.
LEMMA SurvivalInvariant == Spec => []SurvivalInv
<1>1. Init => SurvivalInv
  BY SentinelsApart DEF Init, SurvivalInv, SurvivorsNeedOverlap, PendingNeedsOverlap,
     RevokesAllButOverlap, Overlapping, Revoking, Issuing, Idle, Unminted
<1>2. Typed /\ RotationInv /\ SurvivalInv /\ [Next]_vars => SurvivalInv'
  <2> SUFFICES ASSUME Typed, RotationInv, SurvivalInv, [Next]_vars  PROVE  SurvivalInv'
    OBVIOUS
  <2>1. CASE UNCHANGED vars
    BY <2>1 DEF vars, SurvivalInv, SurvivorsNeedOverlap, PendingNeedsOverlap,
       RevokesAllButOverlap, RowsOf, Overlapping, Revoking, Issuing
  <2>2. ASSUME Next, NEW t \in Token, Expire(t)  PROVE  SurvivalInv'
    BY <2>2 DEF Next, Expire, SurvivalInv, SurvivorsNeedOverlap, PendingNeedsOverlap,
       RevokesAllButOverlap, RowsOf
  <2>3. ASSUME Next, NEW r \in Request, Begin(r) \/ Advance(r)  PROVE  SurvivalInv'
    BY <2>3, BeginSurvives, CommitSurvives, AdvanceSurvives DEF Next
  <2>4. ASSUME Next, NEW r \in Request, Rollback(r)  PROVE  SurvivalInv'
    <3>1. /\ \A q \in Request \ {r} : tx'[q] = tx[q]
          /\ tx'[r].at = "idle" /\ tx'[r].issued = NoToken /\ tx'[r].writes = "nothing"
          /\ UNCHANGED <<password, rows, minted>>
      BY <2>4 DEF Rollback, Discard, Typed, TypeOK, Idle
    <3>2. QED
      BY <2>4, <3>1, QuietStepSurvives DEF Next
  <2>5. QED
    BY <2>1, <2>2, <2>3, <2>4 DEF Next, Step
<1>3. QED
  BY <1>1, <1>2, TypedInvariant, RotationInvariant, PTL DEF Spec

\* Whatever is still usable from before the current password of its user was
\* issued while a reset of that user ran: service.reset_password revokes all the rest.
THEOREM ResetsRevokeTheRest == Spec => []SurvivorsNeedOverlap
<1>1. SurvivalInv => SurvivorsNeedOverlap
  BY DEF SurvivalInv
<1>2. QED
  BY <1>1, SurvivalInvariant, PTL
================================================================================
