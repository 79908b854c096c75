-------------------------------- MODULE Privacy --------------------------------
(***************************************************************************)
(* Consent decisions, data exports, account erasure and the product        *)
(* analytics that consent allows.  A request is one PostgreSQL transaction *)
(* (READ COMMITTED: every statement sees what has committed by then), an   *)
(* action is one statement; the analytics events are a list in the memory  *)
(* of the process, which no rollback restores: a set here, whose ids are   *)
(* the order of the list.  The row a request inserts for an account holds  *)
(* a key-share lock on the account until it ends.                          *)
(***************************************************************************)
EXTENDS Integers, FiniteSets

CONSTANTS User, Request, Purpose,
          analytics,    \* the purpose that product analytics needs
          MaxTime,      \* bound: the clock
          MaxRows,      \* bound: rows written in a behaviour
          max_events,   \* InMemoryAnalyticsProvider
          Nobody

PrivacyShapes == /\ analytics \in Purpose /\ Nobody \notin User
                 /\ MaxTime \in Nat /\ MaxRows \in Nat /\ max_events \in Nat \ {0}

VARIABLES
    users,      \* accounts that exist
    consents,   \* committed privacy_consent_events
    receipts,   \* committed data_rights_requests
    audit,      \* committed audit_events
    events,     \* the analytics events in memory
    tx,         \* the transaction of each request slot
    now,
    written,    \* rows written so far
    exports,    \* history: the exports that were answered
    tracked,    \* history: every event that was accepted, of Nobody once an erasure deleted it
    refusals    \* history: the refusals in force when an event was accepted, and when its request began

vars == <<users, consents, receipts, audit, events, tx, now, written, exports, tracked, refusals>>

-------------------------------------------------------------------------------
(* Rows.  stamp is the order in which rows were committed. *)

ConsentDecision == [id : (-MaxRows)..MaxRows, user : User, purpose : Purpose, granted : BOOLEAN,
                    at : 0..MaxTime, stamp : 0..MaxRows]
DataRightsRequest == [id : 1..MaxRows, user : User \cup {Nobody}, subject_reference : User,
                      type : {"export", "deletion"}, status : {"processing", "completed"}]
AuditEvent == [id : 1..MaxRows, subject : User \cup {Nobody}, stamp : 0..MaxRows]
ProductEvent == [id : 1..MaxRows, subject_reference : User]

Kinds == {"none", "consent", "export", "deletion", "track", "logout"}
Ats == {"idle", "authenticated", "inserted", "read", "erased_outside", "completed",
        "nulled", "deleted", "consented"}

\* asked: the rows written when it began; row: what it inserted; seen: what it read;
\* nulled: the audit rows an erasure has updated.
Idle == [at |-> "idle", kind |-> "none", user |-> Nobody, asked |-> 0, row |-> {}, seen |-> {},
         nulled |-> {}]

Init ==
    /\ users = User
    /\ consents = {} /\ receipts = {} /\ audit = {} /\ events = {}
    /\ tx = [q \in Request |-> Idle]
    /\ now = 0 /\ written = 0
    /\ exports = {} /\ tracked = {} /\ refusals = {}

Enter(q, next) == tx' = [tx EXCEPT ![q] = next]
Step(q, at) == Enter(q, [tx[q] EXCEPT !.at = at])
NothingCommitted == UNCHANGED <<users, consents, receipts, audit, exports>>
NoEvents == UNCHANGED <<events, tracked, refusals>>

NextId == written + 1

-------------------------------------------------------------------------------
(* Consent *)

\* Mutant of Newest: the decision that committed last.
NewestCommitted(rows) == {c \in rows : \A d \in rows : c.stamp >= d.stamp}

\* latest_consents: ORDER BY occurred_at DESC, id DESC, the first one per purpose.
Newest(rows) ==
    {c \in rows : \A d \in rows : c.at > d.at \/ (c.at = d.at /\ c.id >= d.id)}

DecisionsOf(u, p) == {c \in consents : c.user = u /\ c.purpose = p}
Latest(u, p) == Newest(DecisionsOf(u, p))

\* Mutant of Granted: any decision ever made counts.
GrantedOnce(u, p) == \E c \in DecisionsOf(u, p) : c.granted

\* record_product_event: any(decision.purpose is PRODUCT_ANALYTICS and decision.granted).
Granted(u, p) == \E c \in Latest(u, p) : c.granted

-------------------------------------------------------------------------------
(* Locks *)

\* The row q inserted refers to the account: FOR KEY SHARE until q ends.
Holds(q, u) == tx[q].user = u /\ tx[q].row # {} /\ tx[q].kind # "logout"

Deleting(q, u) == tx[q].user = u /\ tx[q].at = "deleted"
Nulled(q) == UNION {tx[o].nulled : o \in Request \ {q}}
SubjectRows(u) == {a \in audit : a.subject = u}

NullWaits(q, o) == /\ tx[q].at = "completed" /\ tx[q].kind = "deletion"
                   /\ {a.id : a \in SubjectRows(tx[q].user)} \cap tx[o].nulled # {}
DeleteWaits(q, o) == tx[q].at = "nulled" /\ Holds(o, tx[q].user)
Waits(q, o) == q # o /\ (NullWaits(q, o) \/ DeleteWaits(q, o))

-------------------------------------------------------------------------------
(* Requests that write a row of the account *)

\* current_user; delete_account's guards (role, confirmation, password, code) hold
\* for the deletions that get this far.  A decision takes its time before its INSERT.
Begin(q, kind, u, new) ==
    /\ tx[q].at = "idle" /\ u \in users /\ written < MaxRows
    /\ written' = written + 1
    /\ Enter(q, [Idle EXCEPT !.at = "authenticated", !.kind = kind, !.user = u,
                             !.asked = IF kind = "export" THEN written ELSE 0, !.seen = {new}])
    /\ NothingCommitted /\ NoEvents /\ UNCHANGED now

Decide(q, u, p, grant) ==
    \E id \in {NextId, -NextId} :  \* a random id, which may sort anywhere
        Begin(q, "consent", u, [id |-> id, user |-> u, purpose |-> p, granted |-> grant,
                                at |-> now, stamp |-> 0])
RequestFor(q, u, type) ==
    Begin(q, type, u, [id |-> NextId, user |-> u, subject_reference |-> u,
                       type |-> type, status |-> "processing"])

\* record_consent, add_request: the foreign key waits for an erasure in progress.
Insert(q) ==
    /\ tx[q].at = "authenticated" /\ tx[q].user \in users
    /\ \A o \in Request : ~Deleting(o, tx[q].user)
    /\ Enter(q, [tx[q] EXCEPT !.at = "inserted", !.row = tx[q].seen, !.seen = {}])
    /\ NothingCommitted /\ NoEvents /\ UNCHANGED <<now, written>>

InsertRaises(q) ==
    /\ tx[q].at = "authenticated" /\ tx[q].user \notin users
    /\ Enter(q, Idle)
    /\ NothingCommitted /\ NoEvents /\ UNCHANGED <<now, written>>

CommitConsent(q) ==
    /\ tx[q].kind = "consent" /\ tx[q].at = "inserted" /\ written < MaxRows
    /\ consents' = consents \cup {[c EXCEPT !.stamp = NextId] : c \in tx[q].row}
    /\ written' = written + 1
    /\ Enter(q, Idle)
    /\ NoEvents /\ UNCHANGED <<users, receipts, audit, exports, now>>

-------------------------------------------------------------------------------
(* Export *)

\* Mutant of OwnSections: the decisions in force instead of the history.
OwnSectionsLatest(u) == UNION {Latest(u, p) : p \in Purpose}

\* export_for_user reads a table at a time; two of its eleven stand for all of them.
OwnSections(u) == {c \in consents : c.user = u}
ReadSections(q) ==
    /\ tx[q].kind = "export" /\ tx[q].at = "inserted"
    /\ Enter(q, [tx[q] EXCEPT !.at = "read", !.seen = OwnSections(tx[q].user)])
    /\ NothingCommitted /\ NoEvents /\ UNCHANGED <<now, written>>

\* The security events, the last section; complete_request follows in the transaction.
ReadAudit(q) ==
    /\ tx[q].kind = "export" /\ tx[q].at = "read"
    /\ Enter(q, [tx[q] EXCEPT !.at = "completed",
                              !.seen = {[first |-> tx[q].seen, last |-> SubjectRows(tx[q].user)]},
                              !.row = {[r EXCEPT !.status = "completed"] : r \in tx[q].row}])
    /\ NothingCommitted /\ NoEvents /\ UNCHANGED <<now, written>>

CommitExport(q) ==
    /\ tx[q].kind = "export" /\ tx[q].at = "completed"
    /\ receipts' = receipts \cup tx[q].row
    /\ exports' = exports \cup {[user |-> tx[q].user, request |-> tx[q].asked, first |-> s.first, last |-> s.last,
                                 missing |-> DecisionsOf(tx[q].user, analytics) \ s.first] : s \in tx[q].seen}
    /\ Enter(q, Idle)
    /\ NoEvents /\ UNCHANGED <<users, consents, audit, now, written>>

-------------------------------------------------------------------------------
(* Erasure *)

delete_subject(list, u) == {e \in list : e.subject_reference # u}

\* The media objects and then the analytics events, outside of the transaction.
EraseOutside(q) ==
    /\ tx[q].kind = "deletion" /\ tx[q].at = "inserted"
    /\ events' = delete_subject(events, tx[q].user)
    /\ tracked' = {IF e.subject_reference = tx[q].user THEN [e EXCEPT !.subject_reference = Nobody] ELSE e :
                      e \in tracked}
    /\ Step(q, "erased_outside")
    /\ NothingCommitted /\ UNCHANGED <<now, written, refusals>>

\* ExternalDataDeletionError: nothing of the account was deleted in the database.
OutsideFails(q) ==
    /\ tx[q].kind = "deletion" /\ tx[q].at = "inserted"
    /\ Enter(q, Idle)
    /\ NothingCommitted /\ NoEvents /\ UNCHANGED <<now, written>>

\* Mutant of Completed: the receipt is written by a transaction of its own.
CompletedAtOnce(q) ==
    /\ tx[q].kind = "deletion" /\ tx[q].at = "erased_outside"
    /\ receipts' = receipts \cup {[r EXCEPT !.status = "completed"] : r \in tx[q].row}
    /\ Enter(q, [tx[q] EXCEPT !.at = "completed",
                              !.row = {[r EXCEPT !.status = "completed"] : r \in tx[q].row}])
    /\ NoEvents /\ UNCHANGED <<users, consents, audit, exports, now, written>>

\* complete_request, in the same transaction
Completed(q) ==
    /\ tx[q].kind = "deletion" /\ tx[q].at = "erased_outside"
    /\ Enter(q, [tx[q] EXCEPT !.at = "completed",
                              !.row = {[r EXCEPT !.status = "completed"] : r \in tx[q].row}])
    /\ NothingCommitted /\ NoEvents /\ UNCHANGED <<now, written>>

\* UPDATE audit_events SET subject_id = NULL: the rows that have committed by now.
NullSubjects(q) ==
    /\ tx[q].kind = "deletion" /\ tx[q].at = "completed" /\ \A o \in Request : ~Waits(q, o)
    /\ Enter(q, [tx[q] EXCEPT !.at = "nulled", !.nulled = {a.id : a \in SubjectRows(tx[q].user)}])
    /\ NothingCommitted /\ NoEvents /\ UNCHANGED <<now, written>>

\* DELETE FROM users waits for every row that refers to the account.
DeleteUser(q) ==
    /\ tx[q].at = "nulled" /\ tx[q].user \in users /\ \A o \in Request : ~Waits(q, o)
    /\ Step(q, "deleted")
    /\ NothingCommitted /\ NoEvents /\ UNCHANGED <<now, written>>

\* delete_account found no account: PrivacyRequestError, and everything is rolled back.
AccountGone(q) ==
    /\ tx[q].at = "nulled" /\ tx[q].user \notin users
    /\ Enter(q, Idle)
    /\ NothingCommitted /\ NoEvents /\ UNCHANGED <<now, written>>

\* ON DELETE CASCADE
Cascade(u) == {c \in consents : c.user # u}

\* ON DELETE SET NULL
Unlinked(rows, u) == {IF r.user = u THEN [r EXCEPT !.user = Nobody] ELSE r : r \in rows}

CommitErasure(q) ==
    LET u == tx[q].user IN
    /\ tx[q].kind = "deletion" /\ tx[q].at = "deleted"
    /\ users' = users \ {u}
    /\ consents' = Cascade(u)
    /\ receipts' = Unlinked(receipts \cup tx[q].row, u)
    /\ audit' = {IF a.id \in tx[q].nulled THEN [a EXCEPT !.subject = Nobody] ELSE a : a \in audit}
    /\ Enter(q, Idle)
    /\ NoEvents /\ UNCHANGED <<exports, now, written>>

\* Two erasures of one account wait for one another; the server ends one of them.
DeadlockAbort(q) ==
    /\ \E o \in Request : Waits(q, o) /\ Waits(o, q)
    /\ Enter(q, Idle)
    /\ NothingCommitted /\ NoEvents /\ UNCHANGED <<now, written>>

-------------------------------------------------------------------------------
(* Sign-out and product analytics *)

\* logout: the refresh token is not looked up, and audit_events has no foreign key.
Logout(q, u) ==
    /\ tx[q].at = "idle" /\ written < MaxRows
    /\ written' = written + 1
    /\ Enter(q, [Idle EXCEPT !.at = "inserted", !.kind = "logout", !.user = u,
                             !.row = {[id |-> NextId, subject |-> u, stamp |-> 0]}])
    /\ NothingCommitted /\ NoEvents /\ UNCHANGED now

CommitLogout(q) ==
    /\ tx[q].kind = "logout" /\ written < MaxRows
    /\ audit' = audit \cup {[a EXCEPT !.stamp = NextId] : a \in tx[q].row}
    /\ written' = written + 1
    /\ Enter(q, Idle)
    /\ NoEvents /\ UNCHANGED <<users, consents, receipts, exports, now>>

\* record_product_event: the latest decisions are read; what was read decides.
Track(q, u) ==
    /\ tx[q].at = "idle" /\ u \in users
    /\ Enter(q, [Idle EXCEPT !.at = "consented", !.kind = "track", !.user = u, !.asked = written,
                             !.seen = IF Granted(u, analytics) THEN Latest(u, analytics) ELSE {}])
    /\ NothingCommitted /\ NoEvents /\ UNCHANGED <<now, written>>

After(list, e) == {f \in list : f.id > e.id}

\* publish: the oldest events make room.
Bounded(list) == {e \in list : Cardinality(After(list, e)) < max_events}

Publish(q) ==
    /\ tx[q].at = "consented" /\ tx[q].seen # {} /\ written < MaxRows
    /\ LET e == [id |-> NextId, subject_reference |-> tx[q].user] IN
        /\ events' = Bounded(events \cup {e})
        /\ tracked' = tracked \cup {e}
        /\ refusals' = refusals \cup {[asked |-> tx[q].asked, refused |-> c.stamp] :
                                        c \in {d \in Latest(tx[q].user, analytics) : ~d.granted}}
    /\ written' = written + 1
    /\ Enter(q, Idle)
    /\ NothingCommitted /\ UNCHANGED now

\* Analytics is disabled, the purpose was not granted, or a property is not allowlisted.
Rejected(q) ==
    /\ tx[q].at = "consented"
    /\ Enter(q, Idle)
    /\ NothingCommitted /\ NoEvents /\ UNCHANGED <<now, written>>

Tick ==
    /\ now < MaxTime /\ now' = now + 1
    /\ NothingCommitted /\ NoEvents /\ UNCHANGED <<tx, written>>

-------------------------------------------------------------------------------
Consenting(q) ==
    \/ \E u \in User, p \in Purpose, grant \in BOOLEAN : Decide(q, u, p, grant)
    \/ Insert(q) \/ InsertRaises(q) \/ CommitConsent(q)
Exporting(q) ==
    \/ \E u \in User : RequestFor(q, u, "export")
    \/ ReadSections(q) \/ ReadAudit(q) \/ CommitExport(q)
Erasing(q) ==
    \/ \E u \in User : RequestFor(q, u, "deletion")
    \/ EraseOutside(q) \/ OutsideFails(q) \/ Completed(q) \/ NullSubjects(q) \/ DeleteUser(q)
    \/ CommitErasure(q) \/ DeadlockAbort(q)
Tracking(q) ==
    \/ \E u \in User : Track(q, u)
    \/ Publish(q) \/ Rejected(q)
SigningOut(q) ==
    \/ \E u \in User : Logout(q, u)
    \/ CommitLogout(q)

Next == Tick \/ \E q \in Request : Consenting(q) \/ Exporting(q) \/ Erasing(q) \/ Tracking(q) \/ SigningOut(q)

Spec == Init /\ [][Next]_vars

-------------------------------------------------------------------------------
(* Properties *)

\* Rows have their columns, and the buffer its limit.
TypeOK ==
    /\ users \subseteq User
    /\ consents \subseteq ConsentDecision /\ receipts \subseteq DataRightsRequest
    /\ audit \subseteq AuditEvent
    /\ events \subseteq ProductEvent /\ Cardinality(events) <= max_events
    /\ \A q \in Request : tx[q].at \in Ats /\ tx[q].kind \in Kinds /\ tx[q].user \in User \cup {Nobody}
    /\ now \in 0..MaxTime /\ written \in 0..MaxRows

\* A completed deletion receipt is kept exactly for the accounts that are gone, once
\* for each, and names the account by its reference only: a deletion that failed at
\* any later statement, or that lost to another one, leaves none.
ReceiptsProveErasure ==
    \A u \in User :
        LET own == {r \in receipts : r.subject_reference = u /\ r.type = "deletion"} IN
        /\ u \in users => own = {}
        /\ u \notin users => /\ Cardinality({r \in own : r.status = "completed"}) = 1
                             /\ \A r \in receipts : r.user # u

\* An erasure never finds its account gone: two of one account end in a deadlock
\* that the server breaks, not in delete_account returning False.
ErasuresFindTheirAccount == \A q \in Request : tx[q].at = "nulled" => tx[q].user \in users

\* No decision outlives its account, whatever was being inserted when it went.
NoConsentWithoutAccount == \A c \in consents : c.user \in users

\* docs/phase-15-privacy-rights.md: an erasure that commits took everything with it, and
\* one that does not leaves no receipt.
ErasureIsComplete == ReceiptsProveErasure /\ ErasuresFindTheirAccount /\ NoConsentWithoutAccount

\* What an export lacks was committed after it was asked for: the consent history is
\* complete up to the request.
ExportsAreComplete == \A x \in exports : \A m \in x.missing : m.stamp > x.request

\* The effective decision never goes back to an older one, in whatever order the
\* decisions commit.
ConsentNeverGoesBack ==
    [][\A u \in users', p \in Purpose :
        \A c \in Latest(u, p), d \in Latest(u, p)' : d.at > c.at \/ (d.at = c.at /\ d.id >= c.id)]_consents

\* An event is accepted against a refusal only when the refusal was committed after
\* the request had read the decisions.
UnwantedEventWasOvertaken == \A r \in refusals : r.refused > r.asked

\* A full buffer loses its oldest events: of the last max_events that were accepted, the
\* erased ones included, those of no erased account are there.
NewestEventsKept ==
    \A e \in tracked :
        e.subject_reference # Nobody /\ Cardinality(After(tracked, e)) < max_events => e \in events

\* docs/phase-19: what is in the buffer was consented to, and the newest of it is there.
EventsAreConsented == UnwantedEventWasOvertaken /\ NewestEventsKept

-------------------------------------------------------------------------------
(* What the documents say *)

\* docs/phase-15-privacy-rights.md:15 "Database removal nulls linkable identity audit
\* subjects": no audit event names an account that is gone.
AuditSubjectsAreNulled == \A a \in audit : a.subject \in users \cup {Nobody}

\* docs/phase-19-observability-analytics.md: erasure "deletes the subject's in-memory
\* events during account deletion".
ErasedSubjectsHaveNoEvents == \A e \in events : e.subject_reference \in users

\* docs/phase-15-privacy-rights.md:11 an export "returns a current JSON snapshot": it
\* has no row that was committed after one it lacks.
ExportsAreSnapshots ==
    \A x \in exports : \A m \in x.missing, a \in x.last : m.stamp > a.stamp
===============================================================================
