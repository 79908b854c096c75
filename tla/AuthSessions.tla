----------------------------- MODULE AuthSessions -----------------------------
(***************************************************************************)
(* The sessions table of the identity module and the HTTP requests that    *)
(* write it.  Every request runs in one PostgreSQL transaction             *)
(* (infrastructure/database.py:20-22) at READ COMMITTED: its statements    *)
(* read what is committed when they start, its row locks last until it     *)
(* commits, and any exception raised by the route rolls all of it back.    *)
(* One action is one statement that reads or writes shared state; requests *)
(* that fail before they write anything change nothing and are left out.   *)
(***************************************************************************)
EXTENDS Naturals, FiniteSets

CONSTANTS User,      \* the accounts, registered and verified
          Request,   \* the request slots of all API replicas
          Token,     \* the token ids uuid4() will produce, each one once
          NoUser,
          NoToken

ASSUME SentinelsApart == NoUser \notin User /\ NoToken \notin Token

VARIABLES
    accounts,   \* committed rows of users
    password,   \* committed users.password_hash, as a version number
    rows,       \* committed rows of sessions
    expired,    \* tokens whose exp and expires_at have passed
    minted,     \* what the server signed into each token
    tx,         \* the transaction of each request slot
    spent,      \* history: tokens whose row a committed delete removed
    overlap     \* history: users for whom a reset revoked while a session was being issued

vars == <<accounts, password, rows, expired, minted, tx, spent, overlap>>

-------------------------------------------------------------------------------
Steps == {"idle", "verified", "consumed", "redeemed", "updated", "closing", "deleting", "ready"}
Kinds == {"refresh", "reset"}

\* The claims of a token, with two history fields: root is the first token of
\* its rotation chain, basis the password version that chain was opened under.
Claims == [user : User, kind : Kinds, root : Token, basis : Nat]
Unminted == [user |-> NoUser, kind |-> "none", root |-> NoToken, basis |-> 0]

\* at: the last statement executed; seen: the password version that was read;
\* removed: rows deleted here, not yet committed, whose locks are held;
\* targets: rows a running multi-row DELETE still has to visit;
\* writes: the users row this transaction has updated or deleted.
Transactions == [at : Steps, user : User \cup {NoUser}, seen : Nat,
                 presented : Token \cup {NoToken}, issued : Token \cup {NoToken},
                 removed : SUBSET Token, targets : SUBSET Token,
                 writes : {"nothing", "password", "account"}]
Idle == [at |-> "idle", user |-> NoUser, seen |-> 0,
         presented |-> NoToken, issued |-> NoToken,
         removed |-> {}, targets |-> {}, writes |-> "nothing"]

Init ==
    /\ accounts = User
    /\ password = [u \in User |-> 0]
    /\ rows = {}
    /\ expired = {}
    /\ minted = [t \in Token |-> Unminted]
    /\ tx = [r \in Request |-> Idle]
    /\ spent = {}
    /\ overlap = {}

-------------------------------------------------------------------------------
(* PostgreSQL row locks *)

\* Another transaction has deleted row t and not yet ended: a DELETE of t waits.
RowLocked(r, t) == \E q \in Request \ {r} : t \in tx[q].removed

\* Another transaction has written the users row of u: an UPDATE or DELETE waits.
UserLocked(r, u) ==
    \E q \in Request \ {r} : tx[q].user = u /\ tx[q].writes # "nothing"

\* Another transaction has deleted the users row of u: the foreign-key check of
\* an INSERT waits.  (A password UPDATE does not block that check.)
UserErasing(r, u) ==
    \E q \in Request \ {r} : tx[q].user = u /\ tx[q].writes = "account"

\* q has inserted a row that references its user (a session, a deletion request).
References(q) == tx[q].issued # NoToken \/ tx[q].at = "closing"

\* Another transaction has inserted a row that references u: a DELETE waits.
UserReferenced(r, u) == \E q \in Request \ {r} : tx[q].user = u /\ References(q)

RowsOf(u) == {t \in rows : minted[t].user = u}

\* Mutants of CanDelete: the token is read without locking its row; a token whose
\* row is gone is accepted again.
CanDeleteUnlocked(r, t) == tx[r].at = "idle" /\ t \in rows
CanReplay(r, t) == tx[r].at = "idle" /\ t \in rows \cup spent /\ ~RowLocked(r, t)

\* A single-row DELETE of t, as the first write of the transaction.
CanDelete(r, t) == tx[r].at = "idle" /\ t \in rows /\ ~RowLocked(r, t)

-------------------------------------------------------------------------------
(* Issuing *)

Unused == {t \in Token : minted[t] = Unminted}

\* Bound: a request that will mint starts only while token ids are left for it.
TokensSuffice ==
    Cardinality({q \in Request : tx[q].at \in {"verified", "consumed"}}) < Cardinality(Unused)

\* Mutant of Issue: the row is inserted without a foreign key on users.
IssueUnreferenced(r, u, kind, chain, basis) ==
    /\ u \in accounts
    /\ \E t \in Unused :
         /\ minted' = [minted EXCEPT ![t] =
                [user |-> u, kind |-> kind, basis |-> basis,
                 root |-> IF chain = NoToken THEN t ELSE minted[chain].root]]
         /\ tx' = [tx EXCEPT ![r].at = "ready", ![r].user = u, ![r].issued = t]
    /\ UNCHANGED <<accounts, password, rows, expired, spent>>

\* Sign a token with a fresh uuid4 and INSERT its row, once the foreign key allows.
Issue(r, u, kind, chain, basis) ==
    /\ u \in accounts /\ ~UserErasing(r, u)
    /\ \E t \in Unused :
         /\ minted' = [minted EXCEPT ![t] =
                [user |-> u, kind |-> kind, basis |-> basis,
                 root |-> IF chain = NoToken THEN t ELSE minted[chain].root]]
         /\ tx' = [tx EXCEPT ![r].at = "ready", ![r].user = u, ![r].issued = t]
    /\ UNCHANGED <<accounts, password, rows, expired, spent>>

\* login: the limiter admits the attempt and the password read now verifies.
LoginVerify(r, u) ==
    /\ tx[r].at = "idle" /\ u \in accounts /\ TokensSuffice
    /\ tx' = [tx EXCEPT ![r] = [Idle EXCEPT !.at = "verified", !.user = u,
                                            !.seen = password[u]]]
    /\ UNCHANGED <<accounts, password, rows, expired, minted, spent>>

LoginIssue(r) ==
    /\ tx[r].at = "verified"
    /\ Issue(r, tx[r].user, "refresh", NoToken, tx[r].seen)

\* request_password_reset: the reset token's id is stored as a row of sessions.
\* The mail leaves before the commit, so a token may exist without its row.
RequestReset(r, u) ==
    /\ tx[r].at = "idle" /\ TokensSuffice
    /\ Issue(r, u, "reset", NoToken, password[u])

\* Decode a presented token and DELETE its unexpired row, returning the owner.
Consume(r, t, kind, next) ==
    /\ CanDelete(r, t)
    /\ minted[t].kind = kind /\ t \notin expired
    /\ tx' = [tx EXCEPT ![r] = [Idle EXCEPT !.at = next, !.user = minted[t].user,
                                            !.presented = t, !.removed = {t}]]
    /\ UNCHANGED <<accounts, password, rows, expired, minted, spent>>

RefreshConsume(r, t) == TokensSuffice /\ Consume(r, t, "refresh", "consumed")

RefreshIssue(r) ==
    /\ tx[r].at = "consumed"
    /\ Issue(r, tx[r].user, "refresh", tx[r].presented, minted[tx[r].presented].basis)

-------------------------------------------------------------------------------
(* Revoking *)

\* logout: revokes the presented refresh token unless it has expired.
Logout(r, t) == Consume(r, t, "refresh", "ready")

\* DELETE /auth/sessions/{id}: any listed row of the authenticated owner.
RevokeSession(r, t) ==
    /\ CanDelete(r, t) /\ minted[t].user \in accounts
    /\ tx' = [tx EXCEPT ![r] = [Idle EXCEPT !.at = "ready", !.user = minted[t].user,
                                            !.presented = t, !.removed = {t}]]
    /\ UNCHANGED <<accounts, password, rows, expired, minted, spent>>

\* reset_password: redeem the token, rewrite the password, revoke every session.
ResetConsume(r, t) == Consume(r, t, "reset", "redeemed")

ResetPassword(r) ==
    /\ tx[r].at = "redeemed" /\ tx[r].user \in accounts /\ ~UserLocked(r, tx[r].user)
    /\ tx' = [tx EXCEPT ![r].at = "updated", ![r].writes = "password"]
    /\ UNCHANGED <<accounts, password, rows, expired, minted, spent>>

\* Mutant of RevokeAll: outstanding reset links survive a reset.
RevokeRefreshOnly(r) ==
    /\ tx[r].at = "updated"
    /\ tx' = [tx EXCEPT ![r].at = "deleting",
                        ![r].targets = {t \in RowsOf(tx[r].user) : minted[t].kind = "refresh"}
                                         \ tx[r].removed]
    /\ UNCHANGED <<accounts, password, rows, expired, minted, spent>>

\* revoke_all: the statement's snapshot is taken here and never sees later rows.
RevokeAll(r) ==
    /\ tx[r].at = "updated"
    /\ tx' = [tx EXCEPT ![r].at = "deleting", ![r].targets = RowsOf(tx[r].user) \ tx[r].removed]
    /\ UNCHANGED <<accounts, password, rows, expired, minted, spent>>

\* delete_account first INSERTs its data-rights request, which references the user.
RequestErasure(r, u) ==
    /\ tx[r].at = "idle" /\ u \in accounts /\ ~UserErasing(r, u)
    /\ tx' = [tx EXCEPT ![r] = [Idle EXCEPT !.at = "closing", !.user = u]]
    /\ UNCHANGED <<accounts, password, rows, expired, minted, spent>>

\* DELETE FROM users waits for every such reference; its cascade then visits the
\* sessions rows that are committed by now.
EraseAccount(r) ==
    /\ tx[r].at = "closing"
    /\ ~UserLocked(r, tx[r].user) /\ ~UserReferenced(r, tx[r].user)
    /\ tx' = [tx EXCEPT ![r].at = "deleting", ![r].writes = "account",
                        ![r].targets = RowsOf(tx[r].user)]
    /\ UNCHANGED <<accounts, password, rows, expired, minted, spent>>

\* One row of a multi-row DELETE: wait for its lock, skip it if it is gone.
DeleteTarget(r, t) ==
    /\ tx[r].at = "deleting" /\ t \in tx[r].targets /\ ~RowLocked(r, t)
    /\ tx' = [tx EXCEPT ![r].targets = @ \ {t}, ![r].removed = @ \cup ({t} \cap rows)]
    /\ UNCHANGED <<accounts, password, rows, expired, minted, spent>>

DeleteDone(r) ==
    /\ tx[r].at = "deleting" /\ tx[r].targets = {}
    /\ tx' = [tx EXCEPT ![r].at = "ready"]
    /\ UNCHANGED <<accounts, password, rows, expired, minted, spent>>

-------------------------------------------------------------------------------
(* Ending a request *)

Commit(r) ==
    /\ tx[r].at = "ready"
    /\ rows' = (rows \ tx[r].removed) \cup ({tx[r].issued} \ {NoToken})
    /\ spent' = spent \cup tx[r].removed
    /\ password' = [u \in User |-> IF u = tx[r].user /\ tx[r].writes = "password"
                                     THEN password[u] + 1 ELSE password[u]]
    /\ accounts' = IF tx[r].writes = "account" THEN accounts \ {tx[r].user} ELSE accounts
    /\ tx' = [tx EXCEPT ![r] = Idle]
    /\ UNCHANGED <<expired, minted>>

Discard(r) ==
    /\ tx' = [tx EXCEPT ![r] = Idle]
    /\ UNCHANGED <<accounts, password, rows, expired, minted, spent>>

\* Any exception, a mail that cannot be sent, a lost connection, a crashed replica.
Rollback(r) == tx[r].at # "idle" /\ Discard(r)

\* Mutant of UserGone: a login whose account was erased is not refused.
UserGoneIgnored(r) ==
    /\ tx[r].at \in {"consumed", "redeemed"} /\ tx[r].user \notin accounts
    /\ Discard(r)

\* The account read at the start is gone: the lookup or the foreign key rejects.
UserGone(r) ==
    /\ tx[r].at \in {"verified", "consumed", "redeemed"} /\ tx[r].user \notin accounts
    /\ Discard(r)

\* r's next statement needs a lock that q holds.
WaitsFor(r, q) ==
    \/ tx[r].at \in {"verified", "consumed"} /\ tx[q].writes = "account"
         /\ tx[q].user = tx[r].user
    \/ tx[r].at = "redeemed" /\ tx[q].writes # "nothing" /\ tx[q].user = tx[r].user
    \/ tx[r].at = "closing" /\ (tx[q].writes # "nothing" \/ References(q))
         /\ tx[q].user = tx[r].user
    \/ tx[r].at = "deleting" /\ tx[r].targets \cap tx[q].removed # {}

\* PostgreSQL's deadlock detector fails one of two transactions in a cycle.
DeadlockAbort(r) ==
    /\ \E q \in Request \ {r} : WaitsFor(r, q) /\ WaitsFor(q, r)
    /\ Discard(r)

\* The clock passes the token's exp claim, which is also the row's expires_at.
Expire(t) ==
    /\ minted[t] # Unminted /\ t \notin expired
    /\ expired' = expired \cup {t}
    /\ UNCHANGED <<accounts, password, rows, minted, tx, spent>>

-------------------------------------------------------------------------------
\* The next statement of a request already in progress.
Advance(r) ==
    \/ LoginIssue(r)
    \/ RefreshIssue(r)
    \/ ResetPassword(r)
    \/ RevokeAll(r)
    \/ EraseAccount(r)
    \/ \E t \in Token : DeleteTarget(r, t)
    \/ DeleteDone(r)
    \/ Commit(r)
    \/ UserGone(r)
    \/ DeadlockAbort(r)

Begin(r) ==
    \/ \E u \in User : LoginVerify(r, u) \/ RequestReset(r, u) \/ RequestErasure(r, u)
    \/ \E t \in Token : \/ RefreshConsume(r, t)
                        \/ ResetConsume(r, t)
                        \/ Logout(r, t)
                        \/ RevokeSession(r, t)

Step ==
    \/ \E r \in Request : Begin(r) \/ Advance(r) \/ Rollback(r)
    \/ \E t \in Token : Expire(t)

\* Users with a reset between its revoke_all and its commit while another
\* request has read their credentials and not yet committed the session.
Revoking(u) == {r \in Request : /\ tx[r].user = u /\ tx[r].writes = "password"
                                /\ tx[r].at \in {"deleting", "ready"}}
Issuing(u) == {r \in Request : /\ tx[r].user = u
                               /\ \/ tx[r].at \in {"verified", "consumed"}
                                  \/ tx[r].issued # NoToken}
Overlapping == {u \in User : Revoking(u) # {} /\ Issuing(u) # {}}

Next == Step /\ overlap' = overlap \cup Overlapping'

Spec == Init /\ [][Next]_vars

\* A started request takes its next statement if that is possible again and again:
\* PostgreSQL queues lock waiters in order and its detector ends every deadlock.
FairSpec ==
    Spec /\ \A r \in Request : SF_vars(Advance(r) /\ overlap' = overlap \cup Overlapping')

-------------------------------------------------------------------------------
(* Properties *)

\* Every variable and every transaction record has its type.
TypeOK ==
    /\ accounts \subseteq User
    /\ password \in [User -> Nat]
    /\ rows \subseteq Token
    /\ expired \subseteq Token
    /\ minted \in [Token -> Claims \cup {Unminted}]
    /\ tx \in [Request -> Transactions]
    /\ spent \subseteq Token
    /\ overlap \subseteq User

\* Rotation (service.refresh, sql_repositories.consume): however many requests
\* present the tokens of one login at once, at most one of its tokens is usable.
OneLivePerFamily ==
    \A s, t \in rows : minted[s].root = minted[t].root => s = t

\* Every row of the sessions table references an account (sessions.user_id).
RowsHaveAccounts == \A t \in rows : minted[t].user \in accounts

\* No session row outlives its account, although logins and refreshes insert
\* rows while delete_account is cascading (sessions.user_id ON DELETE CASCADE);
\* and everything has its type.
SessionsHaveAccounts == TypeOK /\ RowsHaveAccounts

\* A session or reset link opened under an older password is still usable only
\* if, for that user, a reset once ran its revoke_all while another request was
\* between reading the credentials and committing its row (service.reset_password).
SurvivorsNeedOverlap ==
    \A t \in rows : minted[t].basis < password[minted[t].user] => minted[t].user \in overlap

\* tests/test_auth.py:171 says a reset "revokes existing sessions": no usable row
\* dates from before the current password.
ResetRevokesExistingSessions ==
    \A t \in rows : minted[t].basis = password[minted[t].user]

\* docs/session-contract.md:15 says the listed sessions are refresh tokens; the
\* list (service.list_sessions) shows every row of the owner.
ListedSessionsAreRefreshTokens == \A t \in rows : minted[t].kind = "refresh"

\* The committed rows behave as CredentialLedger says: a chain per login or reset
\* request, one successor per exchanged token, nothing usable again once spent.
Ledger == INSTANCE CredentialLedger WITH
    Credential <- Token, None <- NoToken,
    standing <- [t \in Token |-> IF t \in rows THEN "live"
                                 ELSE IF t \in spent THEN "spent" ELSE "absent"],
    origin <- [t \in Token |-> IF t \in rows \cup spent THEN minted[t].root ELSE NoToken]
ImplementsLedger == Ledger!Spec

\* Every request ends, although resets and erasures can wait on the rows of
\* requests that wait on them (two resets of one user, a refresh and an erasure).
RequestsFinish == \A r \in Request : tx[r].at # "idle" ~> tx[r].at = "idle"

-------------------------------------------------------------------------------
(* The inductive invariant behind the safety properties *)

\* A token id that was never signed is nowhere, and a chain starts with a signed token.
FreshTokens ==
    \A t \in Token :
        /\ minted[t] = Unminted => t \notin rows \cup spent
        /\ minted[t] # Unminted => minted[minted[t].root] # Unminted

\* A transaction holds what its last statement implies.
Progressed ==
    \A r \in Request :
        /\ tx[r].at = "idle" => tx[r] = Idle
        /\ tx[r].at = "verified" =>
             tx[r].issued = NoToken /\ tx[r].presented = NoToken /\ tx[r].removed = {}
        /\ tx[r].at = "consumed" =>
             /\ tx[r].issued = NoToken /\ tx[r].presented \in Token
             /\ tx[r].removed = {tx[r].presented}
             /\ minted[tx[r].presented].user = tx[r].user

\* Row locks are exclusive, and only committed rows are locked.
LocksHold ==
    \A r \in Request :
        /\ tx[r].removed \subseteq rows
        /\ \A q \in Request \ {r} : tx[r].removed \cap tx[q].removed = {}

\* An uncommitted token is signed for the requester and belongs to nobody else.
PendingIsPrivate ==
    \A r \in Request : tx[r].issued # NoToken =>
        /\ tx[r].at = "ready" /\ tx[r].issued \notin rows \cup spent
        /\ minted[tx[r].issued] # Unminted /\ minted[tx[r].issued].user = tx[r].user
        /\ \A q \in Request \ {r} : tx[q].issued # tx[r].issued

\* It opens a chain of its own, or continues the chain of the token it replaces.
PendingIsNext ==
    \A r \in Request : tx[r].issued # NoToken =>
        \/ /\ tx[r].presented = NoToken /\ tx[r].removed = {}
           /\ minted[tx[r].issued].root = tx[r].issued
           /\ \A t \in Token : minted[t].root = tx[r].issued => t = tx[r].issued
        \/ /\ tx[r].presented \in Token /\ tx[r].removed = {tx[r].presented}
           /\ minted[tx[r].issued].root = minted[tx[r].presented].root

RotationInv ==
    /\ FreshTokens
    /\ Progressed
    /\ LocksHold
    /\ PendingIsPrivate
    /\ PendingIsNext
    /\ rows \cap spent = {}
    /\ OneLivePerFamily

\* A request that references the account keeps it in the table, and an erasure in
\* progress is alone with the account and has deleted, or will visit, all its rows.
ErasureInv ==
    /\ RowsHaveAccounts
    /\ \A r \in Request : References(r) => tx[r].user \in accounts
    /\ \A r \in Request : tx[r].writes = "account" =>
         /\ tx[r].user \in accounts /\ tx[r].issued = NoToken
         /\ tx[r].at \in {"deleting", "ready"}
         /\ RowsOf(tx[r].user) \subseteq tx[r].removed \cup tx[r].targets
         /\ tx[r].at = "ready" => tx[r].targets = {}
         /\ \A q \in Request \ {r} : tx[q].user = tx[r].user =>
              ~References(q) /\ tx[q].writes = "nothing"

\* What a reset that has run its revoke_all guarantees: it has deleted, or will
\* visit, every row of its user, unless a session was being issued meanwhile.
RevokesAllButOverlap ==
    \A r \in Request : tx[r].writes = "password" =>
        /\ tx[r].issued = NoToken /\ tx[r].at \in {"updated", "deleting", "ready"}
        /\ tx[r].at = "ready" => tx[r].targets = {}
        /\ tx[r].at \in {"deleting", "ready"} /\ tx[r].user \notin overlap =>
             RowsOf(tx[r].user) \subseteq tx[r].removed \cup tx[r].targets

\* Credentials read or signed under a password version are never ahead of the
\* committed one, and behind it, before their row is committed, only by an overlap.
PendingNeedsOverlap ==
    /\ \A t \in Token : minted[t] # Unminted =>
         minted[t].basis <= password[minted[t].user]
    /\ \A r \in Request : tx[r].at = "verified" =>
         /\ tx[r].user \in User /\ tx[r].seen <= password[tx[r].user]
         /\ tx[r].seen < password[tx[r].user] => tx[r].user \in overlap
    /\ \A r \in Request : tx[r].issued # NoToken =>
         (minted[tx[r].issued].basis < password[tx[r].user] => tx[r].user \in overlap)

SurvivalInv ==
    /\ SurvivorsNeedOverlap
    /\ PendingNeedsOverlap
    /\ RevokesAllButOverlap
    /\ Overlapping \subseteq overlap
================================================================================
