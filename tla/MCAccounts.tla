------------------------------ MODULE MCAccounts ------------------------------
(***************************************************************************)
(* What hangs on an account, for TLC: its notifications, its privacy       *)
(* rights, its subscriptions, and the alerts of its device.  The modules   *)
(* share the account only, whose erasure each has for itself (the device   *)
(* asks the server, and moves no row), so a behaviour moves one of them.   *)
(***************************************************************************)
EXTENDS MCNotifications

CONSTANTS Account, Subject, Purpose, analytics, MaxTime, MaxRows, max_events, Nobody,
          u1, u2, p1, p2, e1, e2, apple, google, Purchase, Event, Product, Catalog,
          ProductOf, EnvironmentOf, Deployment, Evidence, MaxClock, Never,
          Page, MaxFaults, MaxChanges, MaxStops

VARIABLES component,
          users, consents, receipts, audit, events, asked, now, written, exports, tracked, refusals,
          rows, recorded, owners, verifying, clock, reconciled,
          permission, consent, page, live, armed, evaluations, served, stops, faults, changes, stray

\* The purchases, and what the stores answer about them.
OneEach == p1 :> apple @@ p2 :> google
Sandbox == p1 :> "sandbox" @@ p2 :> "sandbox"

Say(u, p, status, event, expires, verified) ==
    [user |-> u, purchase |-> p, status |-> status, event |-> event,
     purchased_at |-> 0, expires_at |-> expires, verified_at |-> verified]

\* One purchase that is bought, revoked and restored by another account; a second one;
\* a redelivered event; and evidence whose expiry is not after its purchase.
Answers ==
    {Say(u1, p1, "active", e1, 2, 0), Say(u1, p1, "revoked", e2, Never, 1),
     Say(u2, p1, "active", e1, Never, 1), Say(u1, p2, "expired", e2, 1, 1),
     Say(u2, p2, "grace_period", e2, 0, 0)}

Rights == INSTANCE Privacy WITH User <- Subject, tx <- asked
Sales == INSTANCE Billing WITH User <- Account, MaxTime <- MaxClock, events <- recorded,
                               accounts <- owners, tx <- verifying, now <- clock

Alerts == INSTANCE AlertStream

rights == <<users, consents, receipts, audit, events, asked, now, written, exports, tracked, refusals>>
sales == <<rows, recorded, owners, verifying, clock, reconciled>>
device == <<permission, consent, page, live, armed, evaluations, served, stops, faults, changes, stray>>

ASSUME AccountsShapes ==
    Rights!PrivacyShapes /\ Sales!BillingShapes /\ Sales!EvidenceIsVerified /\ Alerts!AlertShapes

\* docs/phase-9:8: the quiet window is the hours one meets walking from its start to its end.
ASSUME QuietWindow

AccountsInit ==
    /\ component \in {"notifications", "rights", "sales", "device"}
    /\ Init /\ Rights!Init /\ Sales!Init /\ Alerts!Init
    /\ component # "device" => permission = "denied" /\ ~consent

AccountsNext ==
    /\ \/ component = "notifications" /\ Next /\ UNCHANGED <<rights, sales, device>>
       \/ component = "rights" /\ Rights!Next /\ UNCHANGED <<vars, sales, device>>
       \/ component = "sales" /\ Sales!Next /\ UNCHANGED <<vars, rights, device>>
       \/ component = "device" /\ Alerts!Next /\ UNCHANGED <<vars, rights, sales>>
    /\ UNCHANGED component

AccountsSpec == AccountsInit /\ [][AccountsNext]_<<vars, rights, sales, device, component>>

\* The tables of the privacy and billing modules have their types.
AccountsTypeOK == Rights!TypeOK /\ Sales!TypeOK

\* docs/phase-15-privacy-rights.md: an erasure that commits took the decisions with it and
\* left one completed receipt; one that fails or loses left none.
ErasureIsComplete == AccountsTypeOK /\ Rights!ErasureIsComplete

\* The effective consent never goes back to an older decision, in whatever order they commit.
ConsentNeverGoesBack == Rights!ConsentNeverGoesBack

\* What an export lacks was committed after it was asked for.
ExportsAreComplete == Rights!ExportsAreComplete

\* docs/phase-19: an event against a refusal had overtaken it, and a full buffer keeps the
\* newest events.
EventsAreConsented == Rights!EventsAreConsented

\* docs/phase-17:21: a row carries the newest evidence ever reconciled for its purchase,
\* whatever order the verifications commit in, and an event is recorded once, never before
\* its subscription.
NewestEvidenceWins == Sales!NewestEvidenceWins /\ Sales!EventsAreIdempotent

\* A subscription never names an account that is gone, although verifications that began
\* before an erasure write after it.
OwnersExist == Sales!OwnersExist

\* An account is premium only by evidence that names it, is in force and is not superseded.
PremiumIsEarned == Sales!PremiumIsEarned

\* docs/phase-9:19: at rest the location stream runs for the page on the screen whose switch
\* and preferences say so.
StreamsAreExplained == Alerts!StreamsAreExplained

\* docs/phase-9:12: a stop of the car reaches the server at most once.
OneEvaluationPerStop == Alerts!OneEvaluationPerStop

\* docs/phase-19-observability-analytics.md:60: erasure "deletes the subject's in-memory events".
ErasedSubjectsHaveNoEvents == Rights!ErasedSubjectsHaveNoEvents
===============================================================================
