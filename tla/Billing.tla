-------------------------------- MODULE Billing --------------------------------
(***************************************************************************)
(* Store purchases and the entitlement they give: verification requests    *)
(* ask a gateway over HTTP, validate its answer, upsert the subscription   *)
(* row of the purchase, record the provider's event and evaluate the       *)
(* account's entitlement, in one READ COMMITTED transaction each, while    *)
(* accounts are erased and answers arrive late and out of order.           *)
(***************************************************************************)
EXTENDS Naturals, FiniteSets, FiniteSetsExt

CONSTANTS User, Purchase, Event, Request,
          Product,         \* the store products the API is asked for
          Catalog,         \* those the configuration approves
          ProductOf,       \* the product of each purchase, on its platform
          EnvironmentOf,   \* "sandbox" or "production"
          Deployment,      \* the environment the server runs in
          Evidence,        \* bound: what the gateway may answer
          MaxTime,         \* bound: the clock
          NoUser, Never

BillingShapes ==
    /\ Catalog \subseteq Product /\ ProductOf \in [Purchase -> Product]
    /\ EnvironmentOf \in [Purchase -> {"sandbox", "production"}]
    /\ MaxTime \in Nat /\ NoUser \notin User

VARIABLES
    rows,       \* committed billing_subscriptions, one for each purchase
    events,     \* committed billing_events
    accounts,   \* committed users rows
    tx,         \* the transaction of each request slot
    now,        \* the clock
    reconciled  \* history: the evidence of every committed verification

vars == <<rows, events, accounts, tx, now, reconciled>>

-------------------------------------------------------------------------------
Time == 0..MaxTime
SubscriptionStatus == {"active", "grace_period", "paused", "expired", "revoked"}

\* billing_service: production accepts production evidence only, every other deployment
\* sandbox evidence only.
Approved == IF Deployment = "production" THEN "production" ELSE "sandbox"

\* VerifiedPurchase: a purchase stands for platform, environment and original transaction.
VerifiedPurchase ==
    [user : User, purchase : Purchase, status : SubscriptionStatus, event : Event,
     purchased_at : Time, expires_at : Time \cup {Never}, verified_at : Time]

EvidenceIsVerified == Evidence \subseteq VerifiedPurchase

Rows == [user : User \cup {NoUser}, status : SubscriptionStatus,
         expires_at : Time \cup {Never}, verified_at : Time]
Absent == [user |-> NoUser, status |-> "none"]

Events == [ref : Event, purchase : Purchase, status : SubscriptionStatus, occurred_at : Time]

\* at: the last step; product: what was asked for; evidence: the validated answer, a singleton once there is one;
\* draft: the row as this transaction leaves it; event: the event it inserts, if any;
\* tier: the entitlement it answers.
Idle == [at |-> "idle", user |-> NoUser, product |-> {}, evidence |-> {},
         draft |-> Absent, event |-> {}, tier |-> "free"]

Init ==
    /\ rows = [p \in Purchase |-> Absent]
    /\ events = {} /\ reconciled = {}
    /\ accounts = User
    /\ tx = [q \in Request |-> Idle]
    /\ now = 0

-------------------------------------------------------------------------------
(* What the statements of a transaction wait for *)

Bought(q) == UNION {{v.purchase} : v \in tx[q].evidence}
Holds(q) == IF tx[q].at \in {"upserted", "recorded", "evaluated"} THEN Bought(q) ELSE {}
Locked(q, p) == \E o \in Request \ {q} : p \in Holds(o)
Erasing(u) == \E o \in Request : tx[o].user = u /\ tx[o].at = "erasing"

\* A row that begins to name u is checked against the users row of u and pins it.
Names(old, u) == old = Absent \/ old.user # u
Pinned(u) == \E o \in Request : Holds(o) # {} /\ tx[o].draft.user = u
                                  /\ \E p \in Holds(o) : Names(rows[p], u)

Step(q, next) == tx' = [tx EXCEPT ![q] = next]
NothingWritten == UNCHANGED <<rows, events, accounts, now, reconciled>>

-------------------------------------------------------------------------------
(* BillingService.verify_purchase *)

\* The product is in the approved catalog and the gateway is asked.
Ask(q, u, product) ==
    /\ tx[q].at = "idle" /\ u \in accounts /\ product \in Catalog
    /\ Step(q, [Idle EXCEPT !.at = "asked", !.user = u, !.product = {product}])
    /\ NothingWritten

\* _validate_verified
Valid(v, u, product) ==
    /\ v.user = u
    /\ ProductOf[v.purchase] = product
    /\ EnvironmentOf[v.purchase] = Approved
    /\ v.expires_at # Never => v.expires_at > v.purchased_at
    /\ v.verified_at >= v.purchased_at

\* The gateway answers with evidence it verified at some moment up to now.
Answer(q, v) ==
    /\ tx[q].at = "asked" /\ \A product \in tx[q].product : Valid(v, tx[q].user, product)
    /\ v.verified_at <= now
    /\ Step(q, [tx[q] EXCEPT !.at = "verified", !.evidence = {v}])
    /\ NothingWritten

\* _subscription: what of the evidence the row keeps.
RowOf(v) == [user |-> v.user, status |-> v.status,
             expires_at |-> v.expires_at, verified_at |-> v.verified_at]

\* Mutant of Supersedes: the upsert has no WHERE clause.
SupersedesAlways(v, old) == TRUE

\* The WHERE clause of the upsert, on the row version it locked.
Supersedes(v, old) == old = Absent \/ v.verified_at >= old.verified_at

\* INSERT ... ON CONFLICT DO UPDATE: waits for the row, then for the erasure of the account
\* a changed user_id names; once that account is gone the foreign key refuses.
Upsert(q, v) ==
    /\ tx[q].at = "verified" /\ v \in tx[q].evidence /\ ~Locked(q, v.purchase)
    /\ Supersedes(v, rows[v.purchase]) /\ Names(rows[v.purchase], v.user)
         => ~Erasing(v.user) /\ v.user \in accounts
    /\ Step(q, [tx[q] EXCEPT !.at = "upserted",
                  !.draft = IF Supersedes(v, rows[v.purchase]) THEN RowOf(v) ELSE rows[v.purchase]])
    /\ NothingWritten

Recorded(ref) == \E e \in events : e.ref = ref

\* The event is inserted unless its reference exists; a concurrent insert is waited for.
RecordEvent(q, v) ==
    /\ tx[q].at = "upserted" /\ v \in tx[q].evidence
    /\ \A o \in Request \ {q} : \A e \in tx[o].event : e.ref # v.event
    /\ Step(q, [tx[q] EXCEPT !.at = "recorded",
                  !.event = IF Recorded(v.event) THEN {}
                            ELSE {[ref |-> v.event, purchase |-> v.purchase,
                                   status |-> v.status, occurred_at |-> v.verified_at]}])
    /\ NothingWritten

-------------------------------------------------------------------------------
(* BillingService.entitlement *)

Owned(view, u) == {p \in Purchase : view[p].user = u}

\* current: a row of the account with the newest verification.
Current(view, u) ==
    {p \in Owned(view, u) : \A o \in Owned(view, u) : view[o].verified_at <= view[p].verified_at}

\* Mutant of InForce: the expiry of the row is not compared with the clock.
InForceByStatus(row) == row.status \in {"active", "grace_period"}

InForce(row) ==
    /\ row.status \in {"active", "grace_period"}
    /\ row.expires_at # Never => row.expires_at > now

Tier(view, p) == IF InForce(view[p]) THEN "premium" ELSE "free"
Tiers(view, u) == IF Owned(view, u) = {} THEN {"free"} ELSE {Tier(view, p) : p \in Current(view, u)}

\* The transaction evaluates the committed rows and its own.
View(q) == [p \in Purchase |-> IF p \in Bought(q) THEN tx[q].draft ELSE rows[p]]

Evaluate(q) ==
    /\ tx[q].at = "recorded"
    /\ \E tier \in Tiers(View(q), tx[q].user) :
           Step(q, [tx[q] EXCEPT !.at = "evaluated", !.tier = tier])
    /\ NothingWritten

CommitPurchase(q) ==
    /\ tx[q].at = "evaluated"
    /\ rows' = View(q)
    /\ events' = events \cup tx[q].event
    /\ reconciled' = reconciled \cup tx[q].evidence
    /\ Step(q, Idle)
    /\ UNCHANGED <<accounts, now>>

-------------------------------------------------------------------------------
(* PrivacyService.delete_account, as the billing tables see it *)

\* DELETE waits while an uncommitted row pins the users row, or another erasure holds it.
EraseBegin(q, u) ==
    /\ tx[q].at = "idle" /\ u \in accounts /\ ~Pinned(u) /\ ~Erasing(u)
    /\ Step(q, [Idle EXCEPT !.at = "erasing", !.user = u])
    /\ NothingWritten

\* Mutant of Unlinked: the account's rows keep their user_id.
UnlinkedNever(u) == rows

\* ON DELETE SET NULL
Unlinked(u) == [p \in Purchase |-> IF rows[p].user = u THEN [rows[p] EXCEPT !.user = NoUser] ELSE rows[p]]

\* The cascade waits for the rows it changes; then the erasure commits.
EraseCommit(q) ==
    /\ tx[q].at = "erasing" /\ \A p \in Owned(rows, tx[q].user) : ~Locked(q, p)
    /\ rows' = Unlinked(tx[q].user)
    /\ accounts' = accounts \ {tx[q].user}
    /\ Step(q, Idle)
    /\ UNCHANGED <<events, now, reconciled>>

-------------------------------------------------------------------------------
\* The gateway fails or its answer is refused, a foreign key refuses, or the replica crashes.
Rollback(q) ==
    /\ tx[q].at # "idle"
    /\ Step(q, Idle)
    /\ NothingWritten

Tick ==
    /\ now < MaxTime
    /\ now' = now + 1
    /\ UNCHANGED <<rows, events, accounts, tx, reconciled>>

Next ==
    \/ \E q \in Request :
        \/ \E u \in User, product \in Product : Ask(q, u, product)
        \/ \E v \in Evidence : Answer(q, v) \/ Upsert(q, v) \/ RecordEvent(q, v)
        \/ Evaluate(q)
        \/ CommitPurchase(q)
        \/ \E u \in User : EraseBegin(q, u)
        \/ EraseCommit(q)
        \/ Rollback(q)
    \/ Tick

Spec == Init /\ [][Next]_vars

-------------------------------------------------------------------------------
(* Properties *)

\* Every variable has its type, and what a transaction writes has the type of a row.
TypeOK ==
    /\ rows \in [Purchase -> Rows \cup {Absent}]
    /\ events \subseteq Events /\ accounts \subseteq User
    /\ now \in Time /\ reconciled \subseteq VerifiedPurchase
    /\ \A q \in Request : /\ tx[q].user \in User \cup {NoUser}
                          /\ tx[q].evidence \subseteq VerifiedPurchase
                          /\ tx[q].draft \in Rows \cup {Absent}
                          /\ tx[q].event \subseteq Events

\* docs/phase-17:21: a row carries the newest evidence that was ever reconciled for its
\* purchase, whatever order the verifications commit in, or has lost its account since.
NewestEvidenceWins ==
    \A v \in reconciled :
        LET row == rows[v.purchase]
        IN  /\ row # Absent /\ row.verified_at >= v.verified_at
            /\ \E w \in reconciled : /\ w.purchase = v.purchase
                                     /\ row = RowOf(w) \/ row = [RowOf(w) EXCEPT !.user = NoUser]

\* A subscription never names an account that is gone, although verifications that
\* began before an erasure write after it.
OwnersExist == \A p \in Purchase : rows[p].user \in accounts \cup {NoUser}

\* An account is premium only by evidence that names it, is in force now, and has not been
\* superseded by newer evidence on that purchase from any account.
PremiumIsEarned ==
    \A u \in accounts : "premium" \in Tiers(rows, u) =>
        \E v \in reconciled :
            /\ v.user = u /\ v.status \in {"active", "grace_period"}
            /\ v.expires_at # Never => v.expires_at > now
            /\ \A w \in reconciled : w.purchase = v.purchase => w.verified_at <= v.verified_at

\* docs/phase-17:21: a provider event is recorded once, and never before its subscription.
EventsAreIdempotent ==
    /\ \A e, f \in events : e.ref = f.ref => e = f
    /\ \A e \in events : rows[e.purchase] # Absent

\* The verification of a row never goes back, and a row never disappears.
VerificationNeverGoesBack ==
    [][\A p \in Purchase : rows[p] # Absent =>
           rows'[p] # Absent /\ rows'[p].verified_at >= rows[p].verified_at]_vars
===============================================================================
