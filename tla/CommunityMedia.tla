---------------------------- MODULE CommunityMedia ----------------------------
(***************************************************************************)
(* Photo evidence of community reports: the rows of community_reports in   *)
(* PostgreSQL and the objects of the private S3 bucket, which no common    *)
(* transaction covers.  Submissions, moderation, the retention purge and   *)
(* account erasure each run in one READ COMMITTED transaction and call S3  *)
(* in the middle of it; an S3 call that raises may have taken effect.      *)
(* Reports without a photo never touch the bucket and are left out, and so *)
(* are requests refused before they write anything.                        *)
(***************************************************************************)
EXTENDS Naturals, FiniteSets

CONSTANTS User, Request, NoUser,
          MaxReports   \* bound: report ids drawn in a behaviour

ASSUME Sentinels == NoUser \notin User /\ "never" \notin Request /\ MaxReports \in Nat

\* Report ids in the order of their photo_retained_until; one object key each.
Report == 1..MaxReports

VARIABLES
    accounts,   \* committed rows of users
    reports,    \* committed rows of community_reports
    objects,    \* reports whose object the bucket serves
    expired,    \* reports whose photo_retained_until has passed
    author,     \* who submitted each report id, NoUser while it is not drawn
    tx,         \* the transaction of each request slot
    vanished,   \* history: objects removed by something that did not commit
    stranded,   \* history: objects put by a submission that did not commit
    late        \* history: reports committed after an erasure listed their owner's keys

vars == <<accounts, reports, objects, expired, author, tx, vanished, stranded, late>>

-------------------------------------------------------------------------------
Statuses == {"pending", "published", "rejected"}
Never == "never"     \* photo_deleted_at IS NULL; otherwise the request that set it
Rows == [owner : User, status : Statuses, deleted : Request \cup {Never}]
Absent == [owner |-> NoUser, status |-> "pending", deleted |-> Never]

\* does: the use case; marks: rows whose photo_deleted_at this transaction set;
\* todo: objects still to delete; gone: objects it has deleted (history).
Transactions ==
    [at : {"idle", "submitting", "stored", "discarding", "judged", "crediting", "purging",
           "marking", "listing", "erasing", "cascading", "ready"},
     does : {"nothing", "submit", "moderate", "purge", "erase"},
     user : User \cup {NoUser}, report : Report \cup {0}, verdict : Statuses,
     todo : SUBSET Report, marks : SUBSET Report, gone : SUBSET Report]
Idle == [at |-> "idle", does |-> "nothing", user |-> NoUser, report |-> 0,
         verdict |-> "pending", todo |-> {}, marks |-> {}, gone |-> {}]

Init ==
    /\ accounts = User
    /\ reports = [r \in Report |-> Absent]
    /\ objects = {} /\ expired = {}
    /\ author = [r \in Report |-> NoUser]
    /\ tx = [q \in Request |-> Idle]
    /\ vanished = {} /\ stranded = {} /\ late = {}

Recorded == {r \in Report : reports[r] # Absent}
Available == {r \in Recorded : reports[r].deleted = Never}    \* photo_available
OwnedBy(u) == {r \in Recorded : reports[r].owner = u}

-------------------------------------------------------------------------------
(* PostgreSQL row locks *)

Locks(q) ==
    tx[q].marks \cup IF tx[q].does = "moderate" THEN {tx[q].report}
                     ELSE IF tx[q].does = "erase" /\ tx[q].at = "ready" THEN OwnedBy(tx[q].user)
                     ELSE {}
RowLocked(q, r) == \E p \in Request \ {q} : r \in Locks(p)

\* p has deleted the users row of u: a foreign-key check on u waits.
Erases(p, u) == tx[p].does = "erase" /\ tx[p].user = u /\ tx[p].at \in {"cascading", "ready"}
UserErasing(q, u) == \E p \in Request \ {q} : Erases(p, u)

\* p has inserted a report, a reputation or a deletion request of u: a DELETE waits.
References(p, u) ==
    /\ tx[p].user = u
    /\ \/ tx[p].does \in {"submit", "moderate"} /\ tx[p].at = "ready"
       \/ tx[p].does = "erase" /\ tx[p].at \in {"listing", "erasing"}

-------------------------------------------------------------------------------
(* S3: a call that raises may nevertheless have been carried out *)

Begin(q, start) == tx[q].at = "idle" /\ tx' = [tx EXCEPT ![q] = start]

\* Delete the object of r; gone records it until the transaction ends.
DeleteObject(q, r, next) ==
    /\ objects' = objects \ {r}
    /\ tx' = [tx EXCEPT ![q] = [next EXCEPT !.gone = @ \cup {r}]]
    /\ UNCHANGED <<accounts, reports, expired, author, vanished, stranded, late>>

DeleteRaises(q, r, next) ==
    /\ \E took \in SUBSET {r} : objects' = objects \ took /\ vanished' = vanished \cup took
    /\ tx' = [tx EXCEPT ![q] = next]

-------------------------------------------------------------------------------
(* CommunityReportService.submit *)

\* Bound: a submission starts only while a report id is left for it.
IdsSuffice ==
    Cardinality({p \in Request : tx[p].at = "submitting"})
      < Cardinality({r \in Report : author[r] = NoUser})

\* The account is read and no duplicate of the last 24 hours is found.
SubmitBegin(q, u) ==
    /\ u \in accounts /\ IdsSuffice
    /\ Begin(q, [Idle EXCEPT !.at = "submitting", !.does = "submit", !.user = u])
    /\ UNCHANGED <<accounts, reports, objects, expired, author, vanished, stranded, late>>

Draw(q, r) ==
    /\ tx[q].at = "submitting"
    /\ author[r] = NoUser /\ \A s \in Report : s < r => author[s] # NoUser
    /\ author' = [author EXCEPT ![r] = tx[q].user]
    /\ UNCHANGED <<accounts, reports, expired, vanished, late>>

SubmitPut(q, r) ==
    /\ Draw(q, r)
    /\ objects' = objects \cup {r}
    /\ \E score \in {"pending", "published"} :
         tx' = [tx EXCEPT ![q].at = "stored", ![q].report = r, ![q].verdict = score]
    /\ UNCHANGED stranded

\* The upload raises: the request ends with 503 and discards nothing.
SubmitPutRaises(q, r) ==
    /\ Draw(q, r)
    /\ \E took \in SUBSET {r} : objects' = objects \cup took /\ stranded' = stranded \cup took
    /\ tx' = [tx EXCEPT ![q] = Idle]

SubmitInsert(q) ==
    /\ tx[q].at = "stored" /\ tx[q].user \in accounts /\ ~UserErasing(q, tx[q].user)
    /\ tx' = [tx EXCEPT ![q].at = "ready"]
    /\ UNCHANGED <<accounts, reports, objects, expired, author, vanished, stranded, late>>

\* Mutant of SubmitInsertRaises: the stored object is not discarded.
InsertRaisesOnly(q) ==
    /\ tx[q].at = "stored"
    /\ tx' = [tx EXCEPT ![q] = Idle]
    /\ UNCHANGED <<accounts, reports, objects, expired, author, vanished, stranded, late>>

\* The INSERT raises: the account is gone, or the database fails.
SubmitInsertRaises(q) ==
    /\ tx[q].at = "stored"
    /\ tx' = [tx EXCEPT ![q].at = "discarding"]
    /\ UNCHANGED <<accounts, reports, objects, expired, author, vanished, stranded, late>>

\* The compensating deletion; the request then fails either way.
SubmitDiscard(q) ==
    /\ tx[q].at = "discarding"
    /\ objects' = objects \ {tx[q].report}
    /\ tx' = [tx EXCEPT ![q] = Idle]
    /\ UNCHANGED <<accounts, reports, expired, author, vanished, stranded, late>>

SubmitDiscardRaises(q) ==
    /\ tx[q].at = "discarding"
    /\ \E left \in SUBSET {tx[q].report} :
         objects' = objects \ ({tx[q].report} \ left) /\ stranded' = stranded \cup left
    /\ tx' = [tx EXCEPT ![q] = Idle]
    /\ UNCHANGED <<accounts, reports, expired, author, vanished, late>>

-------------------------------------------------------------------------------
(* CommunityReportService.moderate *)

\* set_status waits for the row, updates it and reads it back; a rejection goes on
\* to delete_report_photo if the photo is still available.
Moderate(q, r, verdict) ==
    /\ r \in Recorded /\ ~RowLocked(q, r)
    /\ Begin(q, [Idle EXCEPT !.does = "moderate", !.report = r, !.verdict = verdict,
                             !.user = reports[r].owner,
                             !.at = IF verdict = "rejected" /\ r \in Available
                                      THEN "judged" ELSE "crediting"])
    /\ UNCHANGED <<accounts, reports, objects, expired, author, vanished, stranded, late>>

\* The object is deleted, then the row, already locked, is marked.
RejectDelete(q) ==
    /\ tx[q].at = "judged"
    /\ DeleteObject(q, tx[q].report,
                    [tx[q] EXCEPT !.at = "crediting", !.marks = {tx[q].report}])

\* Mutant of RejectRaises: the failed deletion is swallowed and the rejection stands.
RejectCarriesOn(q) ==
    /\ tx[q].at = "judged"
    /\ DeleteRaises(q, tx[q].report, [tx[q] EXCEPT !.at = "crediting"])
    /\ UNCHANGED <<accounts, reports, expired, author, stranded, late>>

RejectRaises(q) ==
    /\ tx[q].at = "judged"
    /\ DeleteRaises(q, tx[q].report, Idle)
    /\ UNCHANGED <<accounts, reports, expired, author, stranded, late>>

\* adjust_reputation's upsert waits for an erasure of the reporter.
Credit(q) ==
    /\ tx[q].at = "crediting" /\ ~UserErasing(q, tx[q].user)
    /\ tx' = [tx EXCEPT ![q].at = "ready"]
    /\ UNCHANGED <<accounts, reports, objects, expired, author, vanished, stranded, late>>

-------------------------------------------------------------------------------
(* CommunityMediaLifecycle.purge_expired, with a limit no smaller than MaxReports *)

PurgeSelect(q) ==
    /\ Begin(q, [Idle EXCEPT !.at = "purging", !.does = "purge", !.todo = expired \cap Available])
    /\ UNCHANGED <<accounts, reports, objects, expired, author, vanished, stranded, late>>

\* The selected reports are visited in the order of photo_retained_until.
Oldest(q, r) == tx[q].at = "purging" /\ r \in tx[q].todo /\ \A s \in tx[q].todo : r <= s

PurgeDelete(q, r) ==
    /\ Oldest(q, r)
    /\ DeleteObject(q, r, [tx[q] EXCEPT !.at = "marking", !.report = r, !.todo = @ \ {r}])

\* A failed deletion is counted and the purge goes on with the next report.
PurgeRaises(q, r) ==
    /\ Oldest(q, r)
    /\ DeleteRaises(q, r, [tx[q] EXCEPT !.todo = @ \ {r}])
    /\ UNCHANGED <<accounts, reports, expired, author, stranded, late>>

\* Mutants of PurgeMark: the IS NULL guard is dropped; the marking is dropped.
PurgeRemarks(q) ==
    /\ tx[q].at = "marking" /\ ~RowLocked(q, tx[q].report)
    /\ tx' = [tx EXCEPT ![q].at = "purging",
                        ![q].marks = @ \cup ({tx[q].report} \cap Recorded)]
    /\ UNCHANGED <<accounts, reports, objects, expired, author, vanished, stranded, late>>
PurgeForgets(q) ==
    /\ tx[q].at = "marking"
    /\ tx' = [tx EXCEPT ![q].at = "purging"]
    /\ UNCHANGED <<accounts, reports, objects, expired, author, vanished, stranded, late>>

\* mark_photo_deleted: the UPDATE waits for the row and skips it if it is gone or
\* its photo_deleted_at is no longer null.
PurgeMark(q) ==
    /\ tx[q].at = "marking" /\ ~RowLocked(q, tx[q].report)
    /\ tx' = [tx EXCEPT ![q].at = "purging",
                        ![q].marks = @ \cup ({tx[q].report} \cap Available)]
    /\ UNCHANGED <<accounts, reports, objects, expired, author, vanished, stranded, late>>

PurgeDone(q) ==
    /\ tx[q].at = "purging" /\ tx[q].todo = {}
    /\ tx' = [tx EXCEPT ![q].at = "ready"]
    /\ UNCHANGED <<accounts, reports, objects, expired, author, vanished, stranded, late>>

-------------------------------------------------------------------------------
(* PrivacyService.delete_account *)

\* add_request inserts a row that references the account.
EraseRequest(q, u) ==
    /\ u \in accounts /\ ~UserErasing(q, u)
    /\ Begin(q, [Idle EXCEPT !.at = "listing", !.does = "erase", !.user = u])
    /\ UNCHANGED <<accounts, reports, objects, expired, author, vanished, stranded, late>>

\* active_media_keys reads what is committed now; nothing keeps it current.
EraseList(q) ==
    /\ tx[q].at = "listing"
    /\ tx' = [tx EXCEPT ![q].at = "erasing", ![q].todo = OwnedBy(tx[q].user) \cap Available]
    /\ UNCHANGED <<accounts, reports, objects, expired, author, vanished, stranded, late>>

EraseDelete(q, r) ==
    /\ tx[q].at = "erasing" /\ r \in tx[q].todo
    /\ DeleteObject(q, r, [tx[q] EXCEPT !.todo = @ \ {r}])

\* The erasure fails with 503; objects it deleted before stay deleted.
EraseRaises(q, r) ==
    /\ tx[q].at = "erasing" /\ r \in tx[q].todo
    /\ \E took \in SUBSET {r} :
         objects' = objects \ took /\ vanished' = vanished \cup took \cup tx[q].gone
    /\ tx' = [tx EXCEPT ![q] = Idle]
    /\ UNCHANGED <<accounts, reports, expired, author, stranded, late>>

\* DELETE FROM users waits for everything that references the account.
EraseAccount(q) ==
    /\ tx[q].at = "erasing" /\ tx[q].todo = {}
    /\ \A p \in Request \ {q} : ~References(p, tx[q].user) /\ ~Erases(p, tx[q].user)
    /\ tx' = [tx EXCEPT ![q].at = "cascading"]
    /\ UNCHANGED <<accounts, reports, objects, expired, author, vanished, stranded, late>>

\* The cascade then waits for the report rows that are committed by now.
EraseCascade(q) ==
    /\ tx[q].at = "cascading" /\ \A r \in OwnedBy(tx[q].user) : ~RowLocked(q, r)
    /\ tx' = [tx EXCEPT ![q].at = "ready"]
    /\ UNCHANGED <<accounts, reports, objects, expired, author, vanished, stranded, late>>

-------------------------------------------------------------------------------
(* Ending a request *)

\* An erasure of u has read the list of its keys and has not ended.
Listed(u) == \E p \in Request : tx[p].does = "erase" /\ tx[p].user = u /\ tx[p].at # "listing"

Marked(q, r) == IF r \in tx[q].marks THEN [reports[r] EXCEPT !.deleted = q] ELSE reports[r]

\* The row of r as the transaction of q leaves it.
Written(q, r) ==
    CASE tx[q].does = "submit" /\ r = tx[q].report ->
           [owner |-> tx[q].user, status |-> tx[q].verdict, deleted |-> Never]
      [] tx[q].does = "moderate" /\ r = tx[q].report -> [Marked(q, r) EXCEPT !.status = tx[q].verdict]
      [] tx[q].does = "erase" /\ r \in OwnedBy(tx[q].user) -> Absent
      [] OTHER -> Marked(q, r)

Commit(q) ==
    /\ tx[q].at = "ready"
    /\ reports' = [r \in Report |-> Written(q, r)]
    /\ accounts' = IF tx[q].does = "erase" THEN accounts \ {tx[q].user} ELSE accounts
    /\ late' = IF tx[q].does = "submit" /\ Listed(tx[q].user) THEN late \cup {tx[q].report} ELSE late
    /\ tx' = [tx EXCEPT ![q] = Idle]
    /\ UNCHANGED <<objects, expired, author, vanished, stranded>>

\* The transaction rolls back; what it did in the bucket stays done.
Discard(q) ==
    /\ tx' = [tx EXCEPT ![q] = Idle]
    /\ vanished' = vanished \cup tx[q].gone
    /\ stranded' = IF tx[q].does = "submit" THEN stranded \cup ({tx[q].report} \ {0}) ELSE stranded
    /\ UNCHANGED <<accounts, reports, objects, expired, author, late>>

\* A failed commit, a lost connection, a crashed replica.
Rollback(q) == tx[q].at # "idle" /\ Discard(q)

\* q's next statement needs a lock that p holds.
WaitsFor(q, p) ==
    \/ tx[q].at \in {"stored", "crediting"} /\ Erases(p, tx[q].user)
    \/ tx[q].at = "marking" /\ tx[q].report \in Locks(p)
    \/ /\ tx[q].at = "erasing" /\ tx[q].todo = {}
       /\ References(p, tx[q].user) \/ Erases(p, tx[q].user)
    \/ tx[q].at = "cascading" /\ OwnedBy(tx[q].user) \cap Locks(p) # {}

\* PostgreSQL's deadlock detector fails one of two transactions in a cycle.
DeadlockAbort(q) ==
    /\ \E p \in Request \ {q} : WaitsFor(q, p) /\ WaitsFor(p, q)
    /\ Discard(q)

-------------------------------------------------------------------------------
(* Time *)

\* The clock passes the retention deadline of r.
Expire(r) ==
    /\ author[r] # NoUser /\ r \notin expired /\ \A s \in Report : s < r => s \in expired
    /\ expired' = expired \cup {r}
    /\ UNCHANGED <<accounts, reports, objects, author, tx, vanished, stranded, late>>

\* The bucket's lifecycle rule removes an object of 30 days, the longest retention.
Lapse(r) ==
    /\ r \in objects \cap expired
    /\ objects' = objects \ {r} /\ vanished' = vanished \cup {r}
    /\ UNCHANGED <<accounts, reports, expired, author, tx, stranded, late>>

-------------------------------------------------------------------------------
Start(q) ==
    \/ \E u \in User : SubmitBegin(q, u) \/ EraseRequest(q, u)
    \/ \E r \in Report, verdict \in {"published", "rejected"} : Moderate(q, r, verdict)
    \/ PurgeSelect(q)

\* The next statement of a request already in progress, when nothing fails.
Advance(q) ==
    \/ \E r \in Report : \/ SubmitPut(q, r)
                         \/ PurgeDelete(q, r)
                         \/ EraseDelete(q, r)
    \/ SubmitInsert(q)
    \/ tx[q].user \notin accounts /\ SubmitInsertRaises(q)
    \/ SubmitDiscard(q)
    \/ RejectDelete(q)
    \/ Credit(q)
    \/ PurgeMark(q)
    \/ PurgeDone(q)
    \/ EraseList(q)
    \/ EraseAccount(q)
    \/ EraseCascade(q)
    \/ Commit(q)
    \/ DeadlockAbort(q)

Fail(q) ==
    \/ \E r \in Report : SubmitPutRaises(q, r) \/ PurgeRaises(q, r) \/ EraseRaises(q, r)
    \/ SubmitInsertRaises(q)
    \/ SubmitDiscardRaises(q)
    \/ RejectRaises(q)
    \/ Rollback(q)

Next ==
    \/ \E q \in Request : Start(q) \/ Advance(q) \/ Fail(q)
    \/ \E r \in Report : Expire(r) \/ Lapse(r)

Spec == Init /\ [][Next]_vars

\* A started request takes its next statement if that is possible again and again:
\* PostgreSQL queues lock waiters in order and its detector ends every deadlock.
FairSpec == Spec /\ \A q \in Request : SF_vars(Advance(q))

-------------------------------------------------------------------------------
(* Properties *)

\* Every variable and every transaction record has its type.
TypeOK ==
    /\ accounts \subseteq User
    /\ reports \in [Report -> Rows \cup {Absent}]
    /\ objects \subseteq Report /\ expired \subseteq Report
    /\ author \in [Report -> User \cup {NoUser}]
    /\ tx \in [Request -> Transactions]
    /\ vanished \subseteq Report /\ stranded \subseteq Report /\ late \subseteq Report

\* docs/phase-14:14-15: whatever fails in between, a report whose row says that the
\* evidence was deleted, or that it was rejected, has no object left in the bucket
\* (service.moderate, media.delete_report_photo, media.purge_expired).
DeletedEvidenceIsGone ==
    \A r \in Recorded : reports[r].deleted # Never \/ reports[r].status = "rejected"
                          => r \notin objects

\* A row that still offers its photo has the object, unless a deletion is under way,
\* one was cut short before its commit, or the bucket's own lifecycle came first.
MissingEvidenceIsExplained ==
    \A r \in Available \ objects : r \in vanished \/ \E q \in Request : r \in tx[q].gone

\* An object without a row that offers it belongs to a submission in progress, to one
\* that failed after its upload, or was committed behind the back of an erasure.
OrphansAreExplained ==
    \A r \in objects \ Available :
        r \in stranded \cup late \/ \E q \in Request : tx[q].does = "submit" /\ tx[q].report = r

\* The recorded deletion time of a photo never changes: of a purge and a rejection,
\* or of two purges that selected the same report, one marks it (the IS NULL guard).
DeletedOnce ==
    [][\A r \in Recorded : reports[r].deleted # Never /\ r \in Recorded'
         => reports'[r].deleted = reports[r].deleted]_vars

\* Every request ends, although a rejection holds a report row while it waits for an
\* erasure that waits for the row, and two erasures of one account wait for each other.
RequestsFinish == \A q \in Request : tx[q].at # "idle" ~> tx[q].at = "idle"

\* docs/phase-15-privacy-rights.md:13 says every retained object is confirmed deleted
\* before the account is removed.
ErasureDeletesEvidence ==
    [][\A u \in accounts \ accounts' : OwnedBy(u) \cap objects = {}]_vars
===============================================================================
