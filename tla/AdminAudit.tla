------------------------------ MODULE AdminAudit ------------------------------
(***************************************************************************)
(* The hash chain of privileged actions and the TOTP enrolment of          *)
(* privileged accounts.  Replicas append to one table under a              *)
(* transaction-level advisory lock; the last thing a privileged request    *)
(* does is to append.  A digest is modelled as what it stands for: the     *)
(* contents it was computed over, oldest first (SHA-256 is injective on    *)
(* what occurs).  Somebody with the database may damage the table once.    *)
(***************************************************************************)
EXTENDS Integers, Sequences, FiniteSets

CONSTANTS User, Request, Secret,
          MaxSequence,    \* bound: inserts in a behaviour
          NoSecret, Nobody

AuditShapes == MaxSequence \in Nat /\ NoSecret \notin Secret /\ Nobody \notin User

VARIABLES
    rows,       \* committed admin_audit_events
    sequence,   \* the identity sequence, which a rollback does not give back
    mfa,        \* committed mfa_secret and mfa_enabled of each privileged account
    tx,         \* the transaction of each request slot
    report,     \* the last answer of the integrity endpoint
    done,       \* history: the privileged mutations, in commit order
    confirmed,  \* history: secrets a valid code was presented for
    overlap,    \* history: accounts whose confirmation overlapped a later enrolment
    damaged     \* history: how the table was damaged

vars == <<rows, sequence, mfa, tx, report, done, confirmed, overlap, damaged>>

-------------------------------------------------------------------------------
Actions == {"mfa_setup_started", "mfa_enabled", "report_decided"}
Content == [actor : User, action : Actions]
GENESIS_HASH == <<>>

\* event_hash: over the content and the previous hash.
event_hash(content, previous) == Append(previous, content)

\* AdminAuditRow
IsRow(r) == /\ r.sequence \in 1..MaxSequence /\ r.content \in Content
            /\ r.previous_hash \in Seq(Content) /\ r.event_hash \in Seq(Content)
Mfa == [secret : Secret \cup {NoSecret}, enabled : BOOLEAN]

\* at: the last step; mfa: what current_user read, then what set_mfa wrote;
\* draft: the row it inserted.
Idle == [at |-> "idle", actor |-> Nobody, action |-> "none",
         mfa |-> [secret |-> NoSecret, enabled |-> FALSE], draft |-> {}]

Init ==
    /\ rows = {} /\ sequence = 0
    /\ mfa = [u \in User |-> Idle.mfa]
    /\ tx = [q \in Request |-> Idle]
    /\ report = "none" /\ done = <<>>
    /\ confirmed = {} /\ overlap = {} /\ damaged = "no"

-------------------------------------------------------------------------------
(* modules/identity/mfa.py *)

\* A code of the secret from at most one period ago or ahead.
verify_totp(secret, code) == code.secret = secret /\ code.drift \in -1..1

Codes == [secret : Secret, drift : -2..2]

-------------------------------------------------------------------------------
(* Beginning a privileged request: its dependencies read the account *)

SetMfa(q) == tx[q].action \in {"mfa_setup_started", "mfa_enabled"} /\ tx[q].at \in {"set", "locked", "appended"}
Locked(q, u) == \E o \in Request \ {q} : SetMfa(o) /\ tx[o].actor = u

Enter(q, next) == tx' = [tx EXCEPT ![q] = next]
NothingCommitted == UNCHANGED <<rows, sequence, mfa, report, done, overlap, damaged>>

\* Mutant of Setup: the enrolment is enabled before a code was presented for it.
SetupEnables(q, u, secret) ==
    /\ tx[q].at = "idle" /\ ~Locked(q, u) /\ mfa[u].secret # secret
    /\ Enter(q, [Idle EXCEPT !.at = "set", !.actor = u, !.action = "mfa_setup_started",
                             !.mfa = [secret |-> secret, enabled |-> TRUE]])
    /\ UNCHANGED confirmed /\ NothingCommitted

\* setup_mfa: a fresh secret, not enabled, replaces what there was.
Setup(q, u, secret) ==
    /\ tx[q].at = "idle" /\ ~Locked(q, u)
    /\ \A v \in User : mfa[v].secret # secret /\ \A o \in Request : tx[o].mfa.secret # secret
    /\ secret \notin confirmed
    /\ Enter(q, [Idle EXCEPT !.at = "set", !.actor = u, !.action = "mfa_setup_started",
                             !.mfa = [secret |-> secret, enabled |-> FALSE]])
    /\ UNCHANGED confirmed /\ NothingCommitted

\* confirm_mfa: a code is verified against the secret the request read.
Confirm(q, u, code) ==
    /\ tx[q].at = "idle"
    /\ mfa[u].secret # NoSecret /\ verify_totp(mfa[u].secret, code)
    /\ Enter(q, [Idle EXCEPT !.at = "read", !.actor = u, !.action = "mfa_enabled", !.mfa = mfa[u]])
    /\ confirmed' = confirmed \cup ({code.secret} \cap {mfa[u].secret})
    /\ NothingCommitted

\* set_mfa(user.id, user.mfa_secret, True): the secret that was read is written back.
Enabled(q) == [tx[q].mfa EXCEPT !.enabled = TRUE]

ConfirmSet(q) ==
    /\ tx[q].at = "read" /\ ~Locked(q, tx[q].actor)
    /\ Enter(q, [tx[q] EXCEPT !.at = "set", !.mfa = Enabled(q)])
    /\ UNCHANGED confirmed /\ NothingCommitted

\* privileged_user: enrolled, enabled, and a valid code in the header.
Privileged(u, code) == mfa[u].enabled /\ mfa[u].secret # NoSecret /\ verify_totp(mfa[u].secret, code)

\* moderate_report and the other mutations that are audited; Moderation has what they write.
Decide(q, u, code) ==
    /\ tx[q].at = "idle" /\ Privileged(u, code)
    /\ Enter(q, [Idle EXCEPT !.at = "set", !.actor = u, !.action = "report_decided"])
    /\ UNCHANGED confirmed /\ NothingCommitted

-------------------------------------------------------------------------------
(* SqlAdminAuditTrail.append *)

\* Mutant of LockFree: every replica has a lock of its own.
LockFreeHere(q) == TRUE

LockFree(q) == \A o \in Request \ {q} : tx[o].at \notin {"locked", "appended"}

\* pg_advisory_xact_lock
Lock(q) ==
    /\ tx[q].at = "set" /\ LockFree(q)
    /\ Enter(q, [tx[q] EXCEPT !.at = "locked"])
    /\ UNCHANGED confirmed /\ NothingCommitted

Newest(table, r) == \A s \in table : s.sequence <= r.sequence

Draft(q, previous, content) ==
    [sequence |-> sequence + 1, content |-> content,
     previous_hash |-> previous, event_hash |-> event_hash(content, previous)]

\* The head is read after the lock was granted: it is the last committed row.
Insert(q) ==
    /\ tx[q].at = "locked" /\ sequence < MaxSequence
    /\ LET previous == IF rows = {} THEN GENESIS_HASH
                       ELSE (CHOOSE r \in rows : Newest(rows, r)).event_hash
           content == [actor |-> tx[q].actor, action |-> tx[q].action]
       IN  Enter(q, [tx[q] EXCEPT !.at = "appended", !.draft = {Draft(q, previous, content)}])
    /\ sequence' = sequence + 1
    /\ UNCHANGED <<rows, mfa, report, done, confirmed, overlap, damaged>>

Commit(q) ==
    /\ tx[q].at = "appended"
    /\ rows' = rows \cup tx[q].draft
    /\ mfa' = IF SetMfa(q) THEN [mfa EXCEPT ![tx[q].actor] = tx[q].mfa] ELSE mfa
    /\ done' = Append(done, [actor |-> tx[q].actor, action |-> tx[q].action])
    /\ overlap' = overlap \cup {u \in {tx[q].actor} : tx[q].action = "mfa_setup_started" /\
                      \E o \in Request \ {q} : tx[o].actor = u /\ tx[o].action = "mfa_enabled"}
    /\ Enter(q, Idle)
    /\ UNCHANGED <<sequence, report, confirmed, damaged>>

\* Any exception, a lost connection or a crashed replica.
Rollback(q) ==
    /\ tx[q].at # "idle"
    /\ Enter(q, Idle)
    /\ UNCHANGED confirmed /\ NothingCommitted

-------------------------------------------------------------------------------
(* verify_chain *)

Before(table, r) == {s \in table : s.sequence < r.sequence}

\* Mutant of Follows: the stored link to the previous row is not compared.
FollowsAny(table, r) == TRUE

Follows(table, r) ==
    r.previous_hash = IF Before(table, r) = {} THEN GENESIS_HASH
        ELSE (CHOOSE s \in Before(table, r) : Newest(Before(table, r), s)).event_hash

verify_chain(table) ==
    \A r \in table : Follows(table, r) /\ r.event_hash = event_hash(r.content, r.previous_hash)

\* audit_integrity
Inspect(u, code) ==
    /\ Privileged(u, code)
    /\ report' = IF verify_chain(rows) THEN "valid" ELSE "invalid"
    /\ UNCHANGED <<rows, sequence, mfa, tx, done, confirmed, overlap, damaged>>

-------------------------------------------------------------------------------
(* Damage to the stored table, once *)

Damage(kind, table) ==
    /\ damaged = "no" /\ rows # {}
    /\ rows' = table /\ damaged' = kind
    /\ UNCHANGED <<sequence, mfa, tx, report, done, confirmed, overlap>>

Modify(r, content) ==
    /\ content # r.content
    /\ Damage("modified", (rows \ {r}) \cup {[r EXCEPT !.content = content]})

Reorder(r, s) ==
    /\ r # s
    /\ Damage("reordered", (rows \ {r, s}) \cup {[r EXCEPT !.sequence = s.sequence],
                                                 [s EXCEPT !.sequence = r.sequence]})

Remove(r) == Damage(IF Newest(rows, r) THEN "tail removed" ELSE "removed", rows \ {r})

-------------------------------------------------------------------------------
Next ==
    \/ \E q \in Request :
        \/ \E u \in User : \/ \E secret \in Secret : Setup(q, u, secret)
                           \/ \E code \in Codes : Confirm(q, u, code) \/ Decide(q, u, code)
        \/ ConfirmSet(q)
        \/ Lock(q)
        \/ Insert(q)
        \/ Commit(q)
        \/ Rollback(q)
    \/ \E u \in User, code \in Codes : Inspect(u, code)
    \/ \E r \in rows : \/ \E content \in Content : Modify(r, content)
                       \/ \E s \in rows : Reorder(r, s)
                       \/ Remove(r)

Spec == Init /\ [][Next]_vars

-------------------------------------------------------------------------------
(* Properties *)

\* Every variable has its type, and the identity sequence is ahead of every row.
TypeOK ==
    /\ \A r \in rows : IsRow(r) /\ r.sequence <= sequence
    /\ sequence \in 0..MaxSequence
    /\ mfa \in [User -> Mfa]
    /\ report \in {"none", "valid", "invalid"}
    /\ confirmed \subseteq Secret /\ overlap \subseteq User
    /\ \A q \in Request : tx[q].mfa \in Mfa /\ \A r \in tx[q].draft : IsRow(r)

\* Appends of concurrent replicas never fork the chain: an undamaged table verifies.
UndamagedChainVerifies == damaged = "no" => verify_chain(rows)

\* docs/phase-8:13: every committed privileged mutation has its record, and the records
\* are in the order the mutations were committed in: the newest hash is computed over them all.
ChainIsCommitOrder ==
    damaged = "no" =>
        /\ Cardinality(rows) = Len(done)
        /\ rows # {} => (CHOOSE r \in rows : Newest(rows, r)).event_hash = done

\* docs/phase-8:12-13: without damage the table is the log of the privileged mutations.
ChainIsTheLog == UndamagedChainVerifies /\ ChainIsCommitOrder

\* Damage other than removing the newest record stays detected, whatever is appended after it.
DamageIsDetected == damaged \in {"modified", "reordered", "removed"} => ~verify_chain(rows)

\* docs/phase-8:12: the integrity endpoint "detects modified, reordered, or removed records".
RemovalIsDetected == damaged # "no" => ~verify_chain(rows)

\* An enabled secret is one its holder presented a code for, although confirmations
\* and new enrolments of the account overlap.
EnabledSecretWasConfirmed == \A u \in User : mfa[u].enabled => mfa[u].secret \in confirmed

\* A confirmation that writes back a secret other than the stored one, undoing a newer
\* enrolment, overlapped the commit of that enrolment.
NewerEnrolmentLostByOverlap ==
    [][\A u \in User : mfa'[u].enabled /\ mfa'[u].secret # mfa[u].secret => u \in overlap]_vars
===============================================================================
