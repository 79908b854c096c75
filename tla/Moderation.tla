------------------------------ MODULE Moderation ------------------------------
(***************************************************************************)
(* Moderator decisions on community reports, the appeals of their          *)
(* reporters and the reporters' reputation.  Each request is one READ      *)
(* COMMITTED transaction that locks rows as it updates them, and the       *)
(* privileged ones end by appending to the administrative audit chain      *)
(* under a global advisory lock.  Photo evidence and account erasure are   *)
(* in CommunityMedia; refused requests change nothing and are left out.    *)
(***************************************************************************)
EXTENDS Naturals, Integers, FiniteSets

CONSTANTS User, Report, Appeal, Request,
          ReporterOf,       \* reporter_id of each report
          NoAppeal, NoReport,
          MaxDecisions      \* bound: decisions in a behaviour

ModerationShapes ==
    /\ ReporterOf \in [Report -> User] /\ MaxDecisions \in Nat
    /\ NoAppeal \notin Appeal /\ NoReport \notin Report
    \* The locks of rows of different tables, and the advisory lock, are different locks.
    /\ Appeal \cap Report = {} /\ (Appeal \cup Report) \cap User = {}
    /\ "audit" \notin Appeal \cup Report \cup User

VARIABLES
    status,       \* committed status of each report
    appeals,      \* committed rows of report_appeals
    reputation,   \* committed rows of reporter_reputations
    tx,           \* the transaction of each request slot
    decisions,    \* history: committed moderations and overturned appeals
    overlap       \* history: reports with two appeals filed in transactions that overlap

vars == <<status, appeals, reputation, tx, decisions, overlap>>

-------------------------------------------------------------------------------
Statuses == {"pending", "published", "rejected"}
Unfiled == [report |-> NoReport, state |-> "unfiled"]
AppealRows == [report : Report, state : {"open", "upheld", "overturned"}]

\* score counts twentieths: 0.5 to start with, +0.05 or -0.1 for each decision.
Scores == [score : Int, approved : Nat, rejected : Nat]
Fresh == [score |-> 10, approved |-> 0, rejected |-> 0]

\* What a transaction can hold: rows, and the advisory lock of the audit chain.
Locks == (Appeal \cup Report \cup User) \cup {"audit"}

\* report, appeal: what is decided; verdict: the status and the resolution to be
\* written; draft: the reputation row it wrote; locks: what it holds.
Transactions ==
    [at : {"idle", "resolved", "decided", "credited", "appealing", "filed", "ready"},
     report : Report \cup {NoReport}, appeal : Appeal \cup {NoAppeal},
     verdict : Statuses, state : {"unfiled", "upheld", "overturned"},
     draft : Scores, locks : SUBSET Locks]
Idle == [at |-> "idle", report |-> NoReport, appeal |-> NoAppeal, verdict |-> "pending",
         state |-> "unfiled", draft |-> Fresh, locks |-> {}]

Init ==
    /\ status \in [Report -> {"pending", "published"}]
    /\ appeals = [a \in Appeal |-> Unfiled]
    /\ reputation = [u \in User |-> Fresh]
    /\ tx = [q \in Request |-> Idle]
    /\ decisions = [u \in User |-> [approved |-> 0, rejected |-> 0]]
    /\ overlap = {}

-------------------------------------------------------------------------------
Open(r) == {a \in Appeal : appeals[a] = [report |-> r, state |-> "open"]}

\* A statement waits while another transaction holds what it is about to lock.
Free(q, x) == \A p \in Request \ {q} : x \notin tx[p].locks

Enter(q, x, next) ==
    /\ Free(q, x)
    /\ tx' = [tx EXCEPT ![q] = [next EXCEPT !.locks = @ \cup {x}]]
    /\ UNCHANGED <<status, appeals, reputation, decisions, overlap>>

Undecided ==
    LET total(u) == decisions[u].approved + decisions[u].rejected
    IN  \A u \in User : total(u) + Cardinality({q \in Request : tx[q].at # "idle"}) < MaxDecisions

-------------------------------------------------------------------------------
(* CommunityReportService.moderate *)

\* Mutant of Moderate: the audit event is appended before the decision is made.
AuditedFirst(q, r, verdict) ==
    /\ tx[q].at = "idle" /\ Undecided /\ Free(q, "audit")
    /\ Enter(q, r, [Idle EXCEPT !.at = "decided", !.report = r, !.verdict = verdict,
                                !.locks = {"audit"}])

\* set_status, whatever the report's status was.
Moderate(q, r, verdict) ==
    /\ tx[q].at = "idle" /\ Undecided
    /\ Enter(q, r, [Idle EXCEPT !.at = "decided", !.report = r, !.verdict = verdict])

\* adjust_reputation: the upsert applies its deltas to the row it finds committed.
Adjusted(old, approved) ==
    [score |-> old.score + (IF approved THEN 1 ELSE -2),
     approved |-> old.approved + (IF approved THEN 1 ELSE 0),
     rejected |-> old.rejected + (IF approved THEN 0 ELSE 1)]

Reporter(q) == ReporterOf[tx[q].report]

\* Mutant of Adjust: the reputation is read and written back without a row lock.
AdjustedUnlocked(q) ==
    /\ tx[q].at = "decided"
    /\ tx' = [tx EXCEPT ![q].at = "credited", ![q].locks = @ \cup {Reporter(q)},
                ![q].draft = Adjusted(reputation[Reporter(q)], tx[q].verdict = "published")]
    /\ UNCHANGED <<status, appeals, reputation, decisions, overlap>>

Adjust(q) ==
    /\ tx[q].at = "decided"
    /\ Enter(q, Reporter(q),
             [tx[q] EXCEPT !.at = "credited",
                           !.draft = Adjusted(reputation[Reporter(q)], tx[q].verdict = "published")])

\* audit.append: the last statement of both privileged requests.
Audit(q) ==
    /\ tx[q].at = "credited" \/ (tx[q].at = "resolved" /\ tx[q].state = "upheld")
    /\ Enter(q, "audit", [tx[q] EXCEPT !.at = "ready"])

-------------------------------------------------------------------------------
(* CommunityReportService.resolve_appeal: the appeal need not be open *)

Resolve(q, a, state) ==
    /\ tx[q].at = "idle" /\ Undecided /\ appeals[a] # Unfiled
    /\ Enter(q, a, [Idle EXCEPT !.at = "resolved", !.appeal = a, !.state = state])

Overturn(q) ==
    /\ tx[q].at = "resolved" /\ tx[q].state = "overturned"
    /\ LET r == appeals[tx[q].appeal].report
       IN  Enter(q, r, [tx[q] EXCEPT !.at = "decided", !.report = r, !.verdict = "published"])

-------------------------------------------------------------------------------
(* CommunityReportService.appeal *)

\* The report is read and is rejected.
AppealBegin(q, r) ==
    /\ tx[q].at = "idle" /\ status[r] = "rejected"
    /\ tx' = [tx EXCEPT ![q] = [Idle EXCEPT !.at = "appealing", !.report = r]]
    /\ UNCHANGED <<status, appeals, reputation, decisions, overlap>>

\* Mutant of NoneOpen: open_appeal is not consulted.
Unchecked(r) == TRUE

NoneOpen(r) == Open(r) = {}

\* No open appeal is committed for it, and one is inserted.
AppealFile(q, a) ==
    /\ tx[q].at = "appealing" /\ NoneOpen(tx[q].report)
    /\ appeals[a] = Unfiled /\ \A p \in Request : tx[p].appeal # a
    /\ tx' = [tx EXCEPT ![q].at = "filed", ![q].appeal = a]
    /\ overlap' = overlap \cup {r \in {tx[q].report} :
                     \E p \in Request : tx[p].at = "filed" /\ tx[p].report = r}
    /\ UNCHANGED <<status, appeals, reputation, decisions>>

-------------------------------------------------------------------------------
(* Ending a request *)

CommitAppeal(q) ==
    /\ tx[q].at = "filed"
    /\ appeals' = [appeals EXCEPT ![tx[q].appeal] = [report |-> tx[q].report, state |-> "open"]]
    /\ tx' = [tx EXCEPT ![q] = Idle]
    /\ UNCHANGED <<status, reputation, decisions, overlap>>

CommitDecision(q) ==
    /\ tx[q].at = "ready"
    /\ appeals' = [a \in Appeal |-> IF a = tx[q].appeal
                     THEN [appeals[a] EXCEPT !.state = tx[q].state] ELSE appeals[a]]
    /\ status' = [r \in Report |-> IF r = tx[q].report THEN tx[q].verdict ELSE status[r]]
    /\ reputation' = [u \in User |-> IF u \in tx[q].locks THEN tx[q].draft ELSE reputation[u]]
    /\ decisions' = [u \in User |->
         IF tx[q].report # NoReport /\ u = Reporter(q)
           THEN IF tx[q].verdict = "published" THEN [decisions[u] EXCEPT !.approved = @ + 1]
                                               ELSE [decisions[u] EXCEPT !.rejected = @ + 1]
           ELSE decisions[u]]
    /\ tx' = [tx EXCEPT ![q] = Idle]
    /\ UNCHANGED overlap

\* Any exception, a lost connection or a crashed replica.
Rollback(q) ==
    /\ tx[q].at # "idle"
    /\ tx' = [tx EXCEPT ![q] = Idle]
    /\ UNCHANGED <<status, appeals, reputation, decisions, overlap>>

-------------------------------------------------------------------------------
Next ==
    \E q \in Request :
        \/ \E r \in Report : \/ \E verdict \in {"published", "rejected"} : Moderate(q, r, verdict)
                             \/ AppealBegin(q, r)
        \/ \E a \in Appeal : \/ \E state \in {"upheld", "overturned"} : Resolve(q, a, state)
                             \/ AppealFile(q, a)
        \/ Adjust(q)
        \/ Audit(q)
        \/ Overturn(q)
        \/ CommitAppeal(q)
        \/ CommitDecision(q)
        \/ Rollback(q)

Spec == Init /\ [][Next]_vars

-------------------------------------------------------------------------------
(* Properties *)

\* Every variable and every transaction record has its type.
TypeOK ==
    /\ status \in [Report -> Statuses]
    /\ appeals \in [Appeal -> AppealRows \cup {Unfiled}]
    /\ reputation \in [User -> Scores]
    /\ tx \in [Request -> Transactions]
    /\ overlap \subseteq Report

\* docs/phase-7:11: a reputation is exactly what the committed decisions made it, even
\* when decisions on several reports of one reporter run at once or roll back.
ReputationFollowsDecisions ==
    \A u \in User :
        /\ reputation[u].approved = decisions[u].approved
        /\ reputation[u].rejected = decisions[u].rejected
        /\ reputation[u].score = 10 + decisions[u].approved - 2 * decisions[u].rejected

\* q's next statement needs a lock that p holds.
Needs(q) ==
    CASE tx[q].at = "decided" -> {Reporter(q)}
      [] tx[q].at = "resolved" /\ tx[q].state = "overturned" -> {appeals[tx[q].appeal].report}
      [] tx[q].at = "resolved" /\ tx[q].state = "upheld" -> {"audit"}
      [] tx[q].at = "credited" -> {"audit"}
      [] OTHER -> {}
WaitsFor(q, p) == Needs(q) \cap tx[p].locks # {}

\* Moderations and resolutions take their locks in one order (appeal, report,
\* reputation, audit chain), so they never wait for each other in a cycle.
NoLockCycle ==
    \A waiting \in (SUBSET Request) \ {{}} :
        \E q \in waiting : \A p \in waiting \ {q} : ~WaitsFor(q, p)

\* A report has two open appeals only if both were filed in transactions that
\* overlapped: nothing but the check-then-insert of service.appeal keeps them single.
SecondAppealNeedsOverlap == \A r \in Report : Cardinality(Open(r)) > 1 => r \in overlap

\* docs/phase-7-community-reports.md:12 promises a "single-open-appeal workflow".
SingleOpenAppeal == \A r \in Report : Cardinality(Open(r)) <= 1
===============================================================================
