------------------------------ MODULE MCCommunity ------------------------------
(***************************************************************************)
(* Community reports for TLC: the photos (CommunityMedia), the decisions   *)
(* (Moderation) and the chain that privileged requests append to           *)
(* (AdminAudit).  Each module takes from the others only the lock it says  *)
(* (the report row, the chain), so a behaviour moves one of them.          *)
(***************************************************************************)
EXTENDS MCCommunityMedia

CONSTANTS ReportId, Appeal, Moderator, ReporterOf, NoAppeal, NoReport, MaxDecisions,
          Admin, Operator, Secret, MaxSequence, NoSecret, Nobody

VARIABLES component,
          status, appeals, reputation, decided, decisions, overlap,
          rows, sequence, mfa, privileged, report, done, confirmed, overtaken, damaged

\* One reporter wrote every report, so that decisions meet at one reputation row.
SameReporter == [r \in ReportId |-> CHOOSE u \in User : TRUE]

Desk == INSTANCE Moderation WITH Report <- ReportId, Request <- Moderator, tx <- decided
Audit == INSTANCE AdminAudit WITH User <- Admin, Request <- Operator, tx <- privileged, overlap <- overtaken

desk == <<status, appeals, reputation, decided, decisions, overlap>>
audit == <<rows, sequence, mfa, privileged, report, done, confirmed, overtaken, damaged>>

ASSUME CommunityShapes == Desk!ModerationShapes /\ Audit!AuditShapes

CommunityInit ==
    /\ component \in {"media", "desk", "audit"}
    /\ Init /\ Desk!Init /\ Audit!Init
    /\ component # "desk" => \A r \in ReportId : status[r] = "pending"

CommunityNext ==
    /\ \/ component = "media" /\ Next /\ UNCHANGED <<desk, audit>>
       \/ component = "desk" /\ Desk!Next /\ UNCHANGED <<vars, audit>>
       \/ component = "audit" /\ Audit!Next /\ UNCHANGED <<vars, desk>>
    /\ UNCHANGED component

CommunitySpec == CommunityInit /\ [][CommunityNext]_<<vars, desk, audit, component>>

\* Request slots that every component has, reports and secrets, and appeals are interchangeable.
Alike == Permutations(Request) \cup Permutations(ReportId) \cup Permutations(Appeal)

\* The tables of all three modules have their types.
CommunityTypeOK == TypeOK /\ Desk!TypeOK /\ Audit!TypeOK

\* docs/phase-7:11: a reputation is exactly what the committed decisions made it.
ReputationFollowsDecisions == Desk!ReputationFollowsDecisions

\* Moderations and resolutions never wait for each other in a cycle.
NoLockCycle == Desk!NoLockCycle

\* Two open appeals of one report were filed in transactions that overlapped.
SecondAppealNeedsOverlap == Desk!SecondAppealNeedsOverlap

\* docs/phase-7-community-reports.md:12, which the code does not keep.
SingleOpenAppeal == Desk!SingleOpenAppeal

\* docs/phase-8:12-13: without damage the chain verifies and is the log of the
\* privileged mutations in the order of their commits, whatever runs at once.
ChainIsTheLog == CommunityTypeOK /\ Audit!ChainIsTheLog

\* docs/phase-8:12: a changed, moved or removed record stays detected, whatever is
\* appended after it.
DamageIsDetected == Audit!DamageIsDetected

\* A confirmation undoes a newer enrolment only if it overlapped its commit.
NewerEnrolmentLostByOverlap == Audit!NewerEnrolmentLostByOverlap
===============================================================================
