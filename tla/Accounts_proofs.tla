----------------------------- MODULE Accounts_proofs -----------------------------
(***************************************************************************)
(* Theorems about the parts of MCAccounts other than its notifications,    *)
(* for any number of accounts, purchases, requests and pages.              *)
(***************************************************************************)
EXTENDS MCAccounts, FiniteSetTheorems, WellFoundedInduction, TLAPS

-------------------------------------------------------------------------------
(* Each part of a behaviour of the composite is a behaviour of its module. *)

LEMMA SalesMoveAlone == AccountsSpec => Sales!Spec
<1>1. AccountsInit => Sales!Init
  BY DEF AccountsInit
<1>2. [AccountsNext]_<<vars, rights, sales, device, component>> => [Sales!Next]_Sales!vars
  BY DEF AccountsNext, sales, Sales!vars
<1> QED
  BY <1>1, <1>2, PTL DEF AccountsSpec, Sales!Spec

-------------------------------------------------------------------------------
(* Billing: the transactions that verify a purchase *)

Verifying == [at : {"idle", "asked", "verified", "upserted", "recorded", "evaluated", "erasing"},
              user : Account \cup {NoUser}, product : SUBSET Product,
              evidence : SUBSET Sales!VerifiedPurchase, draft : Sales!Rows \cup {Sales!Absent},
              event : SUBSET Sales!Events, tier : {"free", "premium"}]

\* TypeOK of Billing, with the shape of a transaction.
SalesTypes == Sales!TypeOK /\ verifying \in [Request -> Verifying]

\* Two transactions never hold one row of billing_subscriptions.
RowLocks ==
    \A q, o \in Request : q # o => Sales!Holds(q) \cap Sales!Holds(o) = {}

Held == {"upserted", "recorded", "evaluated"}

\* A verification has one answer of the store, and no event before it recorded it.
AnswersAreSingle ==
    \A q \in Request :
        /\ verifying[q].at \in Held \cup {"verified"} =>
               \E v \in Sales!VerifiedPurchase : verifying[q].evidence = {v}
        /\ verifying[q].at \notin {"recorded", "evaluated"} => verifying[q].event = {}

Written(v) == IF Sales!Supersedes(v, rows[v.purchase]) THEN Sales!RowOf(v) ELSE rows[v.purchase]

\* What service.verify_purchase wrote and has not committed is what its evidence makes of
\* the committed row, which nobody changes meanwhile.
DraftsAreCurrent ==
    \A q \in Request : verifying[q].at \in Held =>
        \A v \in verifying[q].evidence : verifying[q].draft = Written(v)

\* A committed row comes from evidence: nothing else writes one.
RowFrom(row, w) == row = Sales!RowOf(w) \/ row = [Sales!RowOf(w) EXCEPT !.user = NoUser]
RowsComeFromEvidence ==
    \A p \in Purchase : rows[p] # Sales!Absent =>
        \E w \in reconciled : w.purchase = p /\ RowFrom(rows[p], w)

\* The other half of NewestEvidenceWins: evidence that was reconciled is not newer than its row.
RowsAreNewest ==
    \A v \in reconciled : /\ rows[v.purchase] # Sales!Absent
                          /\ rows[v.purchase].verified_at >= v.verified_at

RowInv ==
    /\ SalesTypes /\ RowLocks /\ AnswersAreSingle /\ DraftsAreCurrent
    /\ RowsComeFromEvidence /\ RowsAreNewest

LEMMA IdleVerifying ==
    /\ Sales!Idle \in Verifying /\ Sales!Idle.at = "idle"
    /\ Sales!Idle.evidence = {} /\ Sales!Idle.event = {}
BY DEF Verifying, Sales!Idle

\* A step of one transaction leaves the others as they are.
LEMMA StepOfOne ==
    ASSUME verifying \in [Request -> Verifying], NEW q \in Request, NEW next \in Verifying,
           Sales!Step(q, next)
    PROVE  /\ verifying' \in [Request -> Verifying] /\ verifying'[q] = next
           /\ \A o \in Request \ {q} : verifying'[o] = verifying[o]
BY DEF Sales!Step

\* The records that the steps of a transaction write.
LEMMA AskWrites ==
    ASSUME SalesTypes, NEW q \in Request, NEW u \in Account, NEW product \in Product, Sales!Ask(q, u, product)
    PROVE  [Sales!Idle EXCEPT !.at = "asked", !.user = u, !.product = {product}] \in Verifying
BY DEF Verifying, Sales!Idle

LEMMA AnswerWrites ==
    ASSUME SalesTypes, NEW q \in Request, NEW v \in Evidence, Sales!Answer(q, v)
    PROVE  [verifying[q] EXCEPT !.at = "verified", !.evidence = {v}] \in Verifying
<1>1. verifying[q] \in Verifying /\ v \in Sales!VerifiedPurchase
  BY AccountsShapes DEF SalesTypes, Sales!EvidenceIsVerified
<1> QED
  BY <1>1 DEF Verifying

LEMMA RowOfTyped ==
    ASSUME NEW v \in Sales!VerifiedPurchase
    PROVE  /\ Sales!RowOf(v) \in Sales!Rows /\ Sales!RowOf(v) # Sales!Absent
           /\ [Sales!RowOf(v) EXCEPT !.user = NoUser] # Sales!Absent
           /\ v.purchase \in Purchase /\ v.verified_at \in Nat
           /\ Sales!RowOf(v).verified_at = v.verified_at
           /\ [Sales!RowOf(v) EXCEPT !.user = NoUser].verified_at = v.verified_at
<1>1. "none" \notin Sales!SubscriptionStatus
  BY DEF Sales!SubscriptionStatus
<1>2. Sales!RowOf(v).status \in Sales!SubscriptionStatus /\ Sales!Absent.status = "none"
  BY DEF Sales!RowOf, Sales!VerifiedPurchase, Sales!Absent
<1>3. [Sales!RowOf(v) EXCEPT !.user = NoUser].status = Sales!RowOf(v).status
  BY DEF Sales!RowOf
<1>4. v.verified_at \in Nat /\ v.purchase \in Purchase
  BY AccountsShapes DEF Sales!VerifiedPurchase, Sales!Time, Sales!BillingShapes
<1>5. Sales!RowOf(v) \in Sales!Rows
  BY DEF Sales!RowOf, Sales!Rows, Sales!VerifiedPurchase
<1>6. /\ Sales!RowOf(v).verified_at = v.verified_at
      /\ [Sales!RowOf(v) EXCEPT !.user = NoUser].verified_at = v.verified_at
  BY DEF Sales!RowOf
<1> QED
  BY <1>1, <1>2, <1>3, <1>4, <1>5, <1>6

LEMMA UpsertWrites ==
    ASSUME SalesTypes, NEW q \in Request, NEW v \in Evidence, Sales!Upsert(q, v)
    PROVE  [verifying[q] EXCEPT !.at = "upserted",
                !.draft = IF Sales!Supersedes(v, rows[v.purchase]) THEN Sales!RowOf(v)
                                                                   ELSE rows[v.purchase]] \in Verifying
<1> DEFINE fresh == IF Sales!Supersedes(v, rows[v.purchase]) THEN Sales!RowOf(v) ELSE rows[v.purchase]
<1>1. verifying[q] \in Verifying /\ v \in Sales!VerifiedPurchase
  BY AccountsShapes DEF SalesTypes, Sales!EvidenceIsVerified
<1>2. fresh \in Sales!Rows \cup {Sales!Absent}
  BY <1>1, RowOfTyped DEF SalesTypes, Sales!TypeOK
<1> HIDE DEF fresh
<1>3. [verifying[q] EXCEPT !.at = "upserted", !.draft = fresh] \in Verifying
  BY <1>1, <1>2 DEF Verifying
<1> QED
  BY <1>3 DEF fresh

LEMMA RecordWrites ==
    ASSUME SalesTypes, NEW q \in Request, NEW v \in Evidence, Sales!RecordEvent(q, v)
    PROVE  [verifying[q] EXCEPT !.at = "recorded",
                !.event = IF Sales!Recorded(v.event) THEN {}
                          ELSE {[ref |-> v.event, purchase |-> v.purchase,
                                 status |-> v.status, occurred_at |-> v.verified_at]}] \in Verifying
<1> DEFINE e == [ref |-> v.event, purchase |-> v.purchase, status |-> v.status, occurred_at |-> v.verified_at]
<1> DEFINE fresh == IF Sales!Recorded(v.event) THEN {} ELSE {e}
<1>1. verifying[q] \in Verifying /\ v \in Sales!VerifiedPurchase
  BY AccountsShapes DEF SalesTypes, Sales!EvidenceIsVerified
<1>2. e \in Sales!Events
  BY <1>1 DEF Sales!Events, Sales!VerifiedPurchase
<1>3. fresh \in SUBSET Sales!Events
  BY <1>2
<1> HIDE DEF fresh
<1>4. [verifying[q] EXCEPT !.at = "recorded", !.event = fresh] \in Verifying
  BY <1>1, <1>3 DEF Verifying
<1> QED
  BY <1>4 DEF fresh

LEMMA EvaluateWrites ==
    ASSUME SalesTypes, NEW q \in Request, NEW tier \in Sales!Tiers(Sales!View(q), verifying[q].user)
    PROVE  [verifying[q] EXCEPT !.at = "evaluated", !.tier = tier] \in Verifying
<1>1. tier \in {"free", "premium"}
  BY DEF Sales!Tiers, Sales!Tier
<1> QED
  BY <1>1 DEF Verifying, SalesTypes

LEMMA EraseWrites ==
    ASSUME NEW u \in Account
    PROVE  [Sales!Idle EXCEPT !.at = "erasing", !.user = u] \in Verifying
BY DEF Verifying, Sales!Idle

\* TypeOK of a transaction is what Verifying says of it.
LEMMA SalesTypesOf ==
    ASSUME verifying' \in [Request -> Verifying], rows' \in [Purchase -> Sales!Rows \cup {Sales!Absent}],
           recorded' \subseteq Sales!Events, owners' \subseteq Account, clock' \in Sales!Time,
           reconciled' \subseteq Sales!VerifiedPurchase
    PROVE  SalesTypes'
BY DEF SalesTypes, Sales!TypeOK, Verifying

LEMMA StepTypes ==
    ASSUME SalesTypes, NEW q \in Request, NEW next \in Verifying, Sales!Step(q, next), Sales!NothingWritten
    PROVE  SalesTypes'
<1>1. verifying' \in [Request -> Verifying]
  BY StepOfOne DEF SalesTypes
<1> QED
  BY <1>1, SalesTypesOf DEF SalesTypes, Sales!TypeOK, Sales!NothingWritten

LEMMA CommitPurchaseTypes ==
    ASSUME SalesTypes, NEW q \in Request, Sales!CommitPurchase(q)
    PROVE  SalesTypes'
<1>1. verifying[q] \in Verifying
  BY DEF SalesTypes
<1>2. verifying' \in [Request -> Verifying]
  BY StepOfOne, IdleVerifying DEF SalesTypes, Sales!CommitPurchase
<1>3. rows' \in [Purchase -> Sales!Rows \cup {Sales!Absent}]
  BY <1>1 DEF Sales!CommitPurchase, Sales!View, SalesTypes, Sales!TypeOK, Verifying
<1>4. recorded' \subseteq Sales!Events /\ reconciled' \subseteq Sales!VerifiedPurchase
  BY <1>1 DEF Sales!CommitPurchase, SalesTypes, Sales!TypeOK, Verifying
<1> QED
  BY <1>2, <1>3, <1>4, SalesTypesOf DEF SalesTypes, Sales!TypeOK, Sales!CommitPurchase

\* ON DELETE SET NULL leaves a row or none.
LEMMA UnlinkedTypes ==
    ASSUME SalesTypes, NEW u, NEW p \in Purchase
    PROVE  /\ Sales!Unlinked(u)[p] \in Sales!Rows \cup {Sales!Absent}
           /\ Sales!Unlinked(u)[p] = Sales!Absent <=> rows[p] = Sales!Absent
           /\ rows[p] # Sales!Absent => Sales!Unlinked(u)[p].verified_at = rows[p].verified_at
<1>1. rows[p] \in Sales!Rows \cup {Sales!Absent}
  BY DEF SalesTypes, Sales!TypeOK
<1>2. CASE rows[p] = Sales!Absent
  BY <1>2 DEF Sales!Unlinked, Sales!Absent
<1>3. CASE rows[p] \in Sales!Rows
  <2>1. [rows[p] EXCEPT !.user = NoUser] \in Sales!Rows
    BY <1>3 DEF Sales!Rows
  <2>2. [rows[p] EXCEPT !.user = NoUser].verified_at = rows[p].verified_at
    BY <1>3 DEF Sales!Rows
  <2>3. \A r \in Sales!Rows : r # Sales!Absent
    BY DEF Sales!Rows, Sales!Absent, Sales!SubscriptionStatus
  <2> QED
    BY <1>3, <2>1, <2>2, <2>3 DEF Sales!Unlinked
<1> QED
  BY <1>1, <1>2, <1>3

LEMMA EraseCommitTypes ==
    ASSUME SalesTypes, NEW q \in Request, Sales!EraseCommit(q)
    PROVE  SalesTypes'
<1>1. verifying' \in [Request -> Verifying]
  BY StepOfOne, IdleVerifying DEF SalesTypes, Sales!EraseCommit
<1>2. rows' = Sales!Unlinked(verifying[q].user) /\ owners' \subseteq Account
  BY DEF Sales!EraseCommit, SalesTypes, Sales!TypeOK
<1>3. rows' \in [Purchase -> Sales!Rows \cup {Sales!Absent}]
  BY <1>2, UnlinkedTypes DEF Sales!Unlinked
<1> QED
  BY <1>1, <1>2, <1>3, SalesTypesOf DEF SalesTypes, Sales!TypeOK, Sales!EraseCommit

\* The clock moves nothing.
LEMMA TickTypes ==
    ASSUME SalesTypes, Sales!Tick
    PROVE  SalesTypes'
<1>1. clock' \in Sales!Time
  BY AccountsShapes DEF SalesTypes, Sales!TypeOK, Sales!Tick, Sales!Time, Sales!BillingShapes
<1> QED
  BY <1>1, SalesTypesOf DEF SalesTypes, Sales!TypeOK, Sales!Tick

\* A step that writes no row: a request begins, the store answers, an erasure begins, or
\* the transaction rolls back.
LEMMA UnheldStepKeepsRows ==
    ASSUME RowInv, NEW q \in Request, NEW next \in Verifying, Sales!Step(q, next), Sales!NothingWritten,
           next.at \notin Held, next.event = {},
           next.at = "verified" => \E v \in Sales!VerifiedPurchase : next.evidence = {v}
    PROVE  RowInv'
<1>1. SalesTypes'
  BY StepTypes DEF RowInv
<1>2. verifying'[q] = next /\ \A o \in Request \ {q} : verifying'[o] = verifying[o]
  BY StepOfOne DEF RowInv, SalesTypes
<1>3. rows' = rows /\ reconciled' = reconciled
  BY DEF Sales!NothingWritten
<1>4. RowLocks'
  BY <1>2 DEF RowInv, RowLocks, Sales!Holds, Sales!Bought, Held
<1>5. AnswersAreSingle'
  BY <1>2 DEF RowInv, AnswersAreSingle, Held
<1>6. DraftsAreCurrent'
  BY <1>2, <1>3 DEF RowInv, DraftsAreCurrent, Written, Sales!Supersedes
<1>7. RowsComeFromEvidence' /\ RowsAreNewest'
  BY <1>3 DEF RowInv, RowsComeFromEvidence, RowsAreNewest
<1> QED
  BY <1>1, <1>4, <1>5, <1>6, <1>7 DEF RowInv

\* sql_repository.upsert_verified: the row is locked, and the draft follows the committed row.
LEMMA UpsertKeepsRows ==
    ASSUME RowInv, NEW q \in Request, NEW v \in Evidence, Sales!Upsert(q, v)
    PROVE  RowInv'
<1> DEFINE next == [verifying[q] EXCEPT !.at = "upserted", !.draft = Written(v)]
<1>1. next \in Verifying /\ Sales!Step(q, next) /\ Sales!NothingWritten
  BY UpsertWrites DEF RowInv, Written, Sales!Upsert
<1>2. verifying[q] \in Verifying /\ verifying[q].at = "verified" /\ v \in verifying[q].evidence
  BY DEF RowInv, SalesTypes, Sales!Upsert
<1>3. verifying[q].evidence = {v} /\ verifying[q].event = {} /\ v \in Sales!VerifiedPurchase
  BY <1>2 DEF RowInv, AnswersAreSingle, Held
<1>4. /\ next.at = "upserted" /\ next.evidence = {v} /\ next.event = {}
      /\ next.draft = Written(v)
  BY <1>2, <1>3 DEF Verifying
<1> HIDE DEF next
<1>5. SalesTypes'
  BY <1>1, StepTypes DEF RowInv
<1>6. verifying'[q] = next /\ \A o \in Request \ {q} : verifying'[o] = verifying[o]
  BY <1>1, StepOfOne DEF RowInv, SalesTypes
<1>7. rows' = rows /\ reconciled' = reconciled
  BY <1>1 DEF Sales!NothingWritten
<1>8. RowLocks'
  <2>1. \A o \in Request \ {q} : v.purchase \notin Sales!Holds(o)
    BY DEF Sales!Upsert, Sales!Locked
  <2>2. Sales!Holds(q)' = {v.purchase}
    BY <1>4, <1>6 DEF Sales!Holds, Sales!Bought
  <2>3. \A o \in Request \ {q} : Sales!Holds(o)' = Sales!Holds(o)
    BY <1>6 DEF Sales!Holds, Sales!Bought
  <2> QED
    BY <2>1, <2>2, <2>3 DEF RowInv, RowLocks
<1>9. AnswersAreSingle'
  BY <1>3, <1>4, <1>6 DEF RowInv, AnswersAreSingle, Held
<1>10. DraftsAreCurrent'
  BY <1>4, <1>6, <1>7 DEF RowInv, DraftsAreCurrent, Written, Sales!Supersedes
<1>11. RowsComeFromEvidence' /\ RowsAreNewest'
  BY <1>7 DEF RowInv, RowsComeFromEvidence, RowsAreNewest
<1> QED
  BY <1>5, <1>8, <1>9, <1>10, <1>11 DEF RowInv

\* record_event and entitlement read and write beside the row.
LEMMA HeldStepKeepsRows ==
    ASSUME RowInv, NEW q \in Request, NEW next \in Verifying, Sales!Step(q, next), Sales!NothingWritten,
           verifying[q].at \in Held, next.at \in {"recorded", "evaluated"},
           next.evidence = verifying[q].evidence, next.draft = verifying[q].draft
    PROVE  RowInv'
<1>1. SalesTypes'
  BY StepTypes DEF RowInv
<1>2. verifying'[q] = next /\ \A o \in Request \ {q} : verifying'[o] = verifying[o]
  BY StepOfOne DEF RowInv, SalesTypes
<1>3. rows' = rows /\ reconciled' = reconciled
  BY DEF Sales!NothingWritten
<1>4. RowLocks'
  <2>1. \A o \in Request : Sales!Holds(o)' = Sales!Holds(o)
    BY <1>2 DEF Sales!Holds, Sales!Bought, Held
  <2> QED
    BY <2>1 DEF RowInv, RowLocks
<1>5. AnswersAreSingle'
  BY <1>2 DEF RowInv, AnswersAreSingle, Held
<1>6. DraftsAreCurrent'
  BY <1>2, <1>3 DEF RowInv, DraftsAreCurrent, Written, Sales!Supersedes, Held
<1>7. RowsComeFromEvidence' /\ RowsAreNewest'
  BY <1>3 DEF RowInv, RowsComeFromEvidence, RowsAreNewest
<1> QED
  BY <1>1, <1>4, <1>5, <1>6, <1>7 DEF RowInv

\* The commit of a verification: its row is the one its evidence made of the committed one.
LEMMA CommitPurchaseKeepsRows ==
    ASSUME RowInv, NEW q \in Request, Sales!CommitPurchase(q)
    PROVE  RowInv'
<1>1. SalesTypes'
  BY CommitPurchaseTypes DEF RowInv
<1>2. verifying'[q] = Sales!Idle /\ \A o \in Request \ {q} : verifying'[o] = verifying[o]
  BY StepOfOne, IdleVerifying DEF RowInv, SalesTypes, Sales!CommitPurchase
<1>3. PICK v \in Sales!VerifiedPurchase : verifying[q].evidence = {v}
  BY DEF RowInv, AnswersAreSingle, Held, Sales!CommitPurchase
<1>4. verifying[q].at = "evaluated" /\ verifying[q].draft = Written(v)
  BY <1>3 DEF RowInv, DraftsAreCurrent, Held, Sales!CommitPurchase
<1>5. v.purchase \in Purchase /\ reconciled' = reconciled \cup {v}
  BY <1>3, RowOfTyped DEF Sales!CommitPurchase
<1>6. /\ rows'[v.purchase] = Written(v)
      /\ \A p \in Purchase \ {v.purchase} : rows'[p] = rows[p]
  BY <1>3, <1>4, <1>5 DEF Sales!CommitPurchase, Sales!View, Sales!Bought
<1>7. RowLocks'
  <2>1. Sales!Holds(q)' = {} /\ \A o \in Request \ {q} : Sales!Holds(o)' = Sales!Holds(o)
    BY <1>2, IdleVerifying DEF Sales!Holds, Sales!Bought
  <2> QED
    BY <2>1 DEF RowInv, RowLocks
<1>8. AnswersAreSingle'
  BY <1>2, IdleVerifying DEF RowInv, AnswersAreSingle, Held
<1>9. DraftsAreCurrent'
  <2> SUFFICES ASSUME NEW o \in Request, verifying'[o].at \in Held, NEW w \in verifying'[o].evidence
               PROVE  verifying'[o].draft = Written(w)'
    BY DEF DraftsAreCurrent
  <2>1. o # q /\ verifying'[o] = verifying[o]
    BY <1>2, IdleVerifying DEF Held
  <2>2. w.purchase \in Sales!Holds(o) /\ v.purchase \in Sales!Holds(q)
    BY <1>3, <1>4, <2>1 DEF Sales!Holds, Sales!Bought, Held
  <2>3. w.purchase # v.purchase /\ w.purchase \in Purchase
    <3>1. w \in Sales!VerifiedPurchase
      BY <2>1 DEF RowInv, SalesTypes, Verifying
    <3> QED
      BY <2>1, <2>2, <3>1, RowOfTyped DEF RowInv, RowLocks
  <2> QED
    BY <1>6, <2>1, <2>3 DEF RowInv, DraftsAreCurrent, Written, Sales!Supersedes
<1>10. Written(v) = Sales!RowOf(v) \/ (Written(v) = rows[v.purchase] /\ rows[v.purchase] # Sales!Absent)
  BY DEF Written, Sales!Supersedes
<1>11. RowsComeFromEvidence'
  <2> SUFFICES ASSUME NEW p \in Purchase, rows'[p] # Sales!Absent
               PROVE  \E w \in reconciled' : w.purchase = p /\ RowFrom(rows'[p], w)
    BY DEF RowsComeFromEvidence
  <2>1. CASE rows'[p] = rows[p]
    BY <1>5, <2>1 DEF RowInv, RowsComeFromEvidence
  <2>2. CASE p = v.purchase /\ rows'[p] = Sales!RowOf(v)
    BY <1>5, <2>2 DEF RowFrom
  <2> QED
    BY <1>6, <1>10, <2>1, <2>2
<1>12. RowsAreNewest'
  <2> SUFFICES ASSUME NEW w \in reconciled'
               PROVE  /\ rows'[w.purchase] # Sales!Absent
                      /\ rows'[w.purchase].verified_at >= w.verified_at
    BY DEF RowsAreNewest
  <2>1. w \in Sales!VerifiedPurchase /\ w.purchase \in Purchase /\ w.verified_at \in Nat
    BY <1>1, RowOfTyped DEF SalesTypes, Sales!TypeOK
  <2>2. CASE w.purchase # v.purchase
    BY <1>5, <1>6, <2>1, <2>2 DEF RowInv, RowsAreNewest
  <2>3. CASE w.purchase = v.purchase
    <3>1. \A r \in Sales!Rows : r.verified_at \in Nat
      BY AccountsShapes DEF Sales!Rows, Sales!Time, Sales!BillingShapes
    <3>2. rows[v.purchase] # Sales!Absent => rows[v.purchase].verified_at \in Nat
      BY <1>5, <3>1 DEF RowInv, SalesTypes, Sales!TypeOK
    <3>3. w # v => /\ rows[v.purchase] # Sales!Absent
                   /\ rows[v.purchase].verified_at >= w.verified_at
      BY <1>5, <2>3 DEF RowInv, RowsAreNewest
    <3>4. CASE Sales!Supersedes(v, rows[v.purchase])
      <4>1. Written(v) = Sales!RowOf(v)
        BY <3>4 DEF Written
      <4>2. v.verified_at >= w.verified_at
        BY <2>1, <3>2, <3>3, <3>4, RowOfTyped DEF Sales!Supersedes
      <4> QED
        BY <1>6, <2>3, <4>1, <4>2, RowOfTyped
    <3>5. CASE ~Sales!Supersedes(v, rows[v.purchase])
      <4>1. Written(v) = rows[v.purchase] /\ rows[v.purchase] # Sales!Absent
        BY <3>5 DEF Written, Sales!Supersedes
      <4>2. rows[v.purchase].verified_at >= v.verified_at
        BY <3>2, <3>5, <4>1, RowOfTyped DEF Sales!Supersedes
      <4> QED
        BY <1>6, <2>3, <3>3, <4>1, <4>2
    <3> QED
      BY <3>4, <3>5
  <2> QED
    BY <2>2, <2>3
<1> QED
  BY <1>1, <1>7, <1>8, <1>9, <1>11, <1>12 DEF RowInv

\* The cascade of delete_account changes rows that nobody holds, and only their account.
LEMMA CascadeSparesHeldRows ==
    ASSUME SalesTypes, NEW q \in Request, Sales!EraseCommit(q), NEW o \in Request, NEW p \in Sales!Holds(o),
           p \in Purchase
    PROVE  rows'[p] = rows[p]
<1>1. o # q
  BY DEF Sales!EraseCommit, Sales!Holds
<1>2. rows[p].user # verifying[q].user
  BY <1>1 DEF Sales!EraseCommit, Sales!Locked, Sales!Owned
<1> QED
  BY <1>2 DEF Sales!EraseCommit, Sales!Unlinked

LEMMA EraseCommitKeepsRows ==
    ASSUME RowInv, NEW q \in Request, Sales!EraseCommit(q)
    PROVE  RowInv'
<1> DEFINE u == verifying[q].user
<1>1. SalesTypes'
  BY EraseCommitTypes DEF RowInv
<1>2. verifying'[q] = Sales!Idle /\ \A o \in Request \ {q} : verifying'[o] = verifying[o]
  BY StepOfOne, IdleVerifying DEF RowInv, SalesTypes, Sales!EraseCommit
<1>3. rows' = Sales!Unlinked(u) /\ reconciled' = reconciled
  BY DEF Sales!EraseCommit
<1>4. RowLocks'
  <2>1. Sales!Holds(q)' = {} /\ \A o \in Request \ {q} : Sales!Holds(o)' = Sales!Holds(o)
    BY <1>2, IdleVerifying DEF Sales!Holds, Sales!Bought
  <2> QED
    BY <2>1 DEF RowInv, RowLocks
<1>5. AnswersAreSingle'
  BY <1>2, IdleVerifying DEF RowInv, AnswersAreSingle, Held
<1>6. DraftsAreCurrent'
  <2> SUFFICES ASSUME NEW o \in Request, verifying'[o].at \in Held, NEW w \in verifying'[o].evidence
               PROVE  verifying'[o].draft = Written(w)'
    BY DEF DraftsAreCurrent
  <2>1. o # q /\ verifying'[o] = verifying[o]
    BY <1>2, IdleVerifying DEF Held
  <2>2. w.purchase \in Sales!Holds(o) /\ w.purchase \in Purchase
    <3>1. w \in Sales!VerifiedPurchase
      BY <2>1 DEF RowInv, SalesTypes, Verifying
    <3> QED
      BY <2>1, <3>1, RowOfTyped DEF Sales!Holds, Sales!Bought, Held
  <2>3. rows'[w.purchase] = rows[w.purchase]
    BY <2>2, CascadeSparesHeldRows DEF RowInv
  <2> QED
    BY <2>1, <2>3 DEF RowInv, DraftsAreCurrent, Written, Sales!Supersedes
<1>7. RowsComeFromEvidence'
  <2> SUFFICES ASSUME NEW p \in Purchase, rows'[p] # Sales!Absent
               PROVE  \E w \in reconciled : w.purchase = p /\ RowFrom(rows'[p], w)
    BY <1>3 DEF RowsComeFromEvidence
  <2>1. PICK w \in reconciled : w.purchase = p /\ RowFrom(rows[p], w)
    BY <1>3, UnlinkedTypes DEF RowInv, RowsComeFromEvidence
  <2>2. rows'[p] = rows[p] \/ rows'[p] = [rows[p] EXCEPT !.user = NoUser]
    BY <1>3 DEF Sales!Unlinked
  <2>3. \A r : [[Sales!RowOf(w) EXCEPT !.user = NoUser] EXCEPT !.user = NoUser]
               = [Sales!RowOf(w) EXCEPT !.user = NoUser]
    BY DEF Sales!RowOf
  <2> QED
    BY <2>1, <2>2, <2>3 DEF RowFrom
<1>8. RowsAreNewest'
  <2> SUFFICES ASSUME NEW w \in reconciled
               PROVE  /\ rows'[w.purchase] # Sales!Absent
                      /\ rows'[w.purchase].verified_at >= w.verified_at
    BY <1>3 DEF RowsAreNewest
  <2>1. w.purchase \in Purchase
    BY RowOfTyped DEF RowInv, SalesTypes, Sales!TypeOK
  <2> QED
    BY <1>3, <2>1, UnlinkedTypes DEF RowInv, RowsAreNewest
<1> QED
  BY <1>1, <1>4, <1>5, <1>6, <1>7, <1>8 DEF RowInv

LEMMA RowInvInit == Sales!Init => RowInv
<1> SUFFICES ASSUME Sales!Init  PROVE RowInv
  OBVIOUS
<1>1. \A q \in Request : verifying[q] = Sales!Idle
  BY DEF Sales!Init
<1>2. SalesTypes
  BY <1>1, IdleVerifying, AccountsShapes
     DEF SalesTypes, Sales!TypeOK, Sales!Init, Verifying, Sales!Time, Sales!BillingShapes
<1>3. RowLocks /\ AnswersAreSingle /\ DraftsAreCurrent
  BY <1>1, IdleVerifying DEF RowLocks, AnswersAreSingle, DraftsAreCurrent, Held, Sales!Holds
<1>4. RowsComeFromEvidence /\ RowsAreNewest
  BY DEF Sales!Init, RowsComeFromEvidence, RowsAreNewest
<1> QED
  BY <1>2, <1>3, <1>4 DEF RowInv

LEMMA RowInvKept == RowInv /\ [Sales!Next]_Sales!vars => RowInv'
<1> SUFFICES ASSUME RowInv, [Sales!Next]_Sales!vars  PROVE RowInv'
  OBVIOUS
<1> USE IdleVerifying
<1>0. SalesTypes
  BY DEF RowInv
<1>1. ASSUME NEW q \in Request, NEW u \in Account, NEW product \in Product, Sales!Ask(q, u, product)
      PROVE  RowInv'
  <2> DEFINE next == [Sales!Idle EXCEPT !.at = "asked", !.user = u, !.product = {product}]
  <2>1. next \in Verifying /\ next.at = "asked" /\ next.event = {}
    BY <1>0, <1>1, AskWrites DEF Sales!Idle
  <2> QED
    BY <1>1, <2>1, UnheldStepKeepsRows DEF Sales!Ask, Held
<1>2. ASSUME NEW q \in Request, NEW v \in Evidence, Sales!Answer(q, v)
      PROVE  RowInv'
  <2> DEFINE next == [verifying[q] EXCEPT !.at = "verified", !.evidence = {v}]
  <2>1. verifying[q] \in Verifying /\ verifying[q].at = "asked" /\ verifying[q].event = {}
    BY <1>2 DEF Sales!Answer, RowInv, SalesTypes, AnswersAreSingle
  <2>2. next \in Verifying /\ next.at = "verified" /\ next.event = {} /\ next.evidence = {v}
    BY <1>0, <1>2, <2>1, AnswerWrites DEF Verifying
  <2>3. v \in Sales!VerifiedPurchase
    BY AccountsShapes DEF Sales!EvidenceIsVerified
  <2> QED
    BY <1>2, <2>2, <2>3, UnheldStepKeepsRows DEF Sales!Answer, Held
<1>3. ASSUME NEW q \in Request, NEW v \in Evidence, Sales!RecordEvent(q, v)
      PROVE  RowInv'
  <2> DEFINE recorded_event == IF Sales!Recorded(v.event) THEN {}
                               ELSE {[ref |-> v.event, purchase |-> v.purchase,
                                      status |-> v.status, occurred_at |-> v.verified_at]}
             next == [verifying[q] EXCEPT !.at = "recorded", !.event = recorded_event]
  <2>1. verifying[q] \in Verifying /\ verifying[q].at \in Held
    BY <1>3 DEF Sales!RecordEvent, RowInv, SalesTypes, Held
  <2> HIDE DEF recorded_event
  <2>2. /\ next.at = "recorded" /\ next.evidence = verifying[q].evidence
        /\ next.draft = verifying[q].draft
    BY <2>1 DEF Verifying
  <2>3. next \in Verifying /\ Sales!Step(q, next) /\ Sales!NothingWritten
    BY <1>0, <1>3, RecordWrites DEF Sales!RecordEvent, recorded_event
  <2> QED
    BY <2>1, <2>2, <2>3, HeldStepKeepsRows
<1>4. ASSUME NEW q \in Request, Sales!Evaluate(q)
      PROVE  RowInv'
  <2>1. verifying[q] \in Verifying /\ verifying[q].at \in Held
    BY <1>4 DEF Sales!Evaluate, RowInv, SalesTypes, Held
  <2>2. PICK tier \in Sales!Tiers(Sales!View(q), verifying[q].user) :
            Sales!Step(q, [verifying[q] EXCEPT !.at = "evaluated", !.tier = tier])
    BY <1>4 DEF Sales!Evaluate
  <2> DEFINE next == [verifying[q] EXCEPT !.at = "evaluated", !.tier = tier]
  <2>3. /\ next.at = "evaluated" /\ next.evidence = verifying[q].evidence
        /\ next.draft = verifying[q].draft
    BY <2>1 DEF Verifying
  <2>4. next \in Verifying /\ Sales!NothingWritten
    BY <1>0, <1>4, EvaluateWrites DEF Sales!Evaluate
  <2> QED
    BY <2>1, <2>2, <2>3, <2>4, HeldStepKeepsRows
<1>5. ASSUME NEW q \in Request, NEW u \in Account, Sales!EraseBegin(q, u)
      PROVE  RowInv'
  <2> DEFINE next == [Sales!Idle EXCEPT !.at = "erasing", !.user = u]
  <2>1. next \in Verifying /\ next.at = "erasing" /\ next.event = {}
    BY EraseWrites DEF Sales!Idle
  <2> QED
    BY <1>5, <2>1, UnheldStepKeepsRows DEF Sales!EraseBegin, Held
<1>6. ASSUME NEW q \in Request, Sales!Rollback(q)
      PROVE  RowInv'
  BY <1>6, UnheldStepKeepsRows DEF Sales!Rollback, Held
<1>7. CASE Sales!Tick \/ UNCHANGED Sales!vars
  <2>1. verifying' = verifying /\ rows' = rows /\ reconciled' = reconciled
    BY <1>7 DEF Sales!Tick, Sales!vars
  <2>2. SalesTypes'
    BY <1>7, <1>0, TickTypes DEF Sales!vars, SalesTypes, Sales!TypeOK
  <2> QED
    BY <2>1, <2>2 DEF RowInv, RowLocks, AnswersAreSingle, DraftsAreCurrent, RowsComeFromEvidence, RowsAreNewest,
                      Sales!Holds, Sales!Bought, Written, Sales!Supersedes
<1> QED
  BY <1>1, <1>2, <1>3, <1>4, <1>5, <1>6, <1>7, UpsertKeepsRows, CommitPurchaseKeepsRows, EraseCommitKeepsRows
     DEF Sales!Next

-------------------------------------------------------------------------------
(* Billing: what the rows mean *)

\* docs/phase-17:21: a row of billing_subscriptions never disappears.
LEMMA RowsStay ==
    ASSUME RowInv, [Sales!Next]_Sales!vars, NEW p \in Purchase, rows[p] # Sales!Absent
    PROVE  rows'[p] # Sales!Absent
<1>1. CASE rows' = rows
  BY <1>1
<1>2. ASSUME NEW q \in Request, Sales!CommitPurchase(q)
      PROVE  rows'[p] # Sales!Absent
  <2>1. PICK v \in Sales!VerifiedPurchase : verifying[q].evidence = {v}
    BY <1>2 DEF RowInv, AnswersAreSingle, Held, Sales!CommitPurchase
  <2>2. verifying[q].draft = Written(v)
    BY <1>2, <2>1 DEF RowInv, DraftsAreCurrent, Held, Sales!CommitPurchase
  <2>3. Written(v) # Sales!Absent
    BY RowOfTyped DEF Written, Sales!Supersedes
  <2> QED
    BY <1>2, <2>1, <2>2, <2>3 DEF Sales!CommitPurchase, Sales!View, Sales!Bought
<1>3. ASSUME NEW q \in Request, Sales!EraseCommit(q)
      PROVE  rows'[p] # Sales!Absent
  BY <1>3, UnlinkedTypes DEF RowInv, Sales!EraseCommit
<1> QED
  BY <1>1, <1>2, <1>3 DEF Sales!Next, Sales!vars, Sales!Ask, Sales!Answer, Sales!Upsert, Sales!RecordEvent,
     Sales!Evaluate, Sales!EraseBegin, Sales!Rollback, Sales!Tick, Sales!NothingWritten

\* The event a verification is about to commit is new, is about its purchase, and no other
\* verification is about to commit one with its reference.
NewEvents ==
    /\ \A q \in Request : \A e \in verifying[q].event :
           /\ \A f \in recorded : f.ref # e.ref
           /\ \A f \in verifying[q].event : f = e
           /\ \E v \in verifying[q].evidence : e.purchase = v.purchase
    /\ \A q, o \in Request : q # o =>
           \A e \in verifying[q].event, f \in verifying[o].event : e.ref # f.ref

EventInv == NewEvents /\ Sales!EventsAreIdempotent

\* A step that commits no event, and leaves the transaction of q with its event or with none.
LEMMA QuietStepKeepsEvents ==
    ASSUME RowInv, EventInv, [Sales!Next]_Sales!vars, recorded' = recorded,
           NEW q \in Request, NEW next \in Verifying, Sales!Step(q, next),
           next.event = {} \/ (next.event = verifying[q].event /\ next.evidence = verifying[q].evidence)
    PROVE  EventInv'
<1>1. verifying'[q] = next /\ \A o \in Request \ {q} : verifying'[o] = verifying[o]
  BY StepOfOne DEF RowInv, SalesTypes
<1>2. NewEvents'
  BY <1>1 DEF EventInv, NewEvents
<1>3. Sales!EventsAreIdempotent'
  <2>1. \A e \in recorded : e.purchase \in Purchase
    BY DEF RowInv, SalesTypes, Sales!TypeOK, Sales!Events
  <2> QED
    BY <2>1, RowsStay DEF EventInv, Sales!EventsAreIdempotent
<1> QED
  BY <1>2, <1>3 DEF EventInv

\* sql_repository.record_event: ON CONFLICT DO NOTHING, after a concurrent insert ended.
LEMMA RecordKeepsEvents ==
    ASSUME RowInv, EventInv, NEW q \in Request, NEW v \in Evidence, Sales!RecordEvent(q, v)
    PROVE  EventInv'
<1> DEFINE e == [ref |-> v.event, purchase |-> v.purchase, status |-> v.status, occurred_at |-> v.verified_at]
           fresh == IF Sales!Recorded(v.event) THEN {} ELSE {e}
           next == [verifying[q] EXCEPT !.at = "recorded", !.event = fresh]
<1>1. next \in Verifying /\ Sales!Step(q, next) /\ Sales!NothingWritten
  BY RecordWrites DEF RowInv, Sales!RecordEvent
<1>2. verifying'[q] = next /\ \A o \in Request \ {q} : verifying'[o] = verifying[o]
  BY <1>1, StepOfOne DEF RowInv, SalesTypes
<1>3. v \in verifying[q].evidence /\ verifying[q] \in Verifying
  BY DEF Sales!RecordEvent, RowInv, SalesTypes
<1>4. e.ref = v.event /\ e.purchase = v.purchase
  OBVIOUS
<1>5. fresh = {} \/ (fresh = {e} /\ \A f \in recorded : f.ref # e.ref)
  BY <1>4 DEF Sales!Recorded
<1>6. \A o \in Request \ {q} : \A f \in verifying[o].event : f.ref # e.ref
  BY <1>4 DEF Sales!RecordEvent
<1> HIDE DEF e, fresh
<1>7. next.event = fresh /\ next.evidence = verifying[q].evidence
  BY <1>3 DEF Verifying
<1> HIDE DEF next
<1>8. rows' = rows /\ recorded' = recorded
  BY <1>1 DEF Sales!NothingWritten
<1>9. NewEvents'
  BY <1>2, <1>3, <1>4, <1>5, <1>6, <1>7, <1>8 DEF EventInv, NewEvents
<1>10. Sales!EventsAreIdempotent'
  BY <1>8 DEF EventInv, Sales!EventsAreIdempotent
<1> QED
  BY <1>9, <1>10 DEF EventInv

\* The commit publishes the event together with the row it is about.
LEMMA CommitPurchaseKeepsEvents ==
    ASSUME RowInv, EventInv, NEW q \in Request, Sales!CommitPurchase(q), [Sales!Next]_Sales!vars
    PROVE  EventInv'
<1>1. verifying'[q] = Sales!Idle /\ \A o \in Request \ {q} : verifying'[o] = verifying[o]
  BY StepOfOne, IdleVerifying DEF RowInv, SalesTypes, Sales!CommitPurchase
<1>2. recorded' = recorded \cup verifying[q].event
  BY DEF Sales!CommitPurchase
<1>3. PICK v \in Sales!VerifiedPurchase : verifying[q].evidence = {v}
  BY DEF RowInv, AnswersAreSingle, Held, Sales!CommitPurchase
<1>4. verifying[q].draft = Written(v) /\ Written(v) # Sales!Absent /\ v.purchase \in Purchase
  BY <1>3, RowOfTyped DEF RowInv, DraftsAreCurrent, Held, Written, Sales!Supersedes, Sales!CommitPurchase
<1>5. rows'[v.purchase] # Sales!Absent
  BY <1>3, <1>4 DEF Sales!CommitPurchase, Sales!View, Sales!Bought
<1>6. \A e \in verifying[q].event : e.purchase = v.purchase
  BY <1>3 DEF EventInv, NewEvents
<1>7. NewEvents'
  BY <1>1, <1>2, IdleVerifying DEF EventInv, NewEvents
<1>8. \A e, f \in recorded' : e.ref = f.ref => e = f
  BY <1>2 DEF EventInv, NewEvents, Sales!EventsAreIdempotent
<1>9. \A e \in recorded' : rows'[e.purchase] # Sales!Absent
  <2>1. \A e \in recorded : e.purchase \in Purchase
    BY DEF RowInv, SalesTypes, Sales!TypeOK, Sales!Events
  <2>2. \A e \in recorded : rows'[e.purchase] # Sales!Absent
    BY <2>1, RowsStay DEF EventInv, Sales!EventsAreIdempotent
  <2> QED
    BY <1>2, <1>5, <1>6, <2>2
<1> QED
  BY <1>7, <1>8, <1>9 DEF EventInv, Sales!EventsAreIdempotent

LEMMA EventInvKept == RowInv /\ EventInv /\ [Sales!Next]_Sales!vars => EventInv'
<1> SUFFICES ASSUME RowInv, EventInv, [Sales!Next]_Sales!vars  PROVE EventInv'
  OBVIOUS
<1> USE IdleVerifying
<1>0. SalesTypes
  BY DEF RowInv
<1>1. ASSUME NEW q \in Request, NEW u \in Account, NEW product \in Product, Sales!Ask(q, u, product)
      PROVE  EventInv'
  <2> DEFINE next == [Sales!Idle EXCEPT !.at = "asked", !.user = u, !.product = {product}]
  <2>1. next \in Verifying /\ next.event = {}
    BY <1>0, <1>1, AskWrites DEF Sales!Idle
  <2> QED
    BY <1>1, <2>1, QuietStepKeepsEvents DEF Sales!Ask, Sales!NothingWritten
<1>2. ASSUME NEW q \in Request, NEW v \in Evidence, Sales!Answer(q, v)
      PROVE  EventInv'
  <2> DEFINE next == [verifying[q] EXCEPT !.at = "verified", !.evidence = {v}]
  <2>1. verifying[q] \in Verifying /\ verifying[q].event = {}
    BY <1>2 DEF Sales!Answer, RowInv, SalesTypes, AnswersAreSingle
  <2>2. next \in Verifying /\ next.event = {}
    BY <1>0, <1>2, <2>1, AnswerWrites DEF Verifying
  <2> QED
    BY <1>2, <2>2, QuietStepKeepsEvents DEF Sales!Answer, Sales!NothingWritten
<1>3. ASSUME NEW q \in Request, NEW v \in Evidence, Sales!Upsert(q, v)
      PROVE  EventInv'
  <2> DEFINE next == [verifying[q] EXCEPT !.at = "upserted", !.draft = Written(v)]
  <2>1. next \in Verifying /\ Sales!Step(q, next) /\ Sales!NothingWritten
    BY <1>0, <1>3, UpsertWrites DEF Written, Sales!Upsert
  <2>2. verifying[q] \in Verifying
    BY <1>0 DEF SalesTypes
  <2>3. next.event = verifying[q].event /\ next.evidence = verifying[q].evidence
    BY <2>2 DEF Verifying
  <2> QED
    BY <2>1, <2>3, QuietStepKeepsEvents DEF Sales!NothingWritten
<1>4. ASSUME NEW q \in Request, Sales!Evaluate(q)
      PROVE  EventInv'
  <2>1. PICK tier \in Sales!Tiers(Sales!View(q), verifying[q].user) :
            Sales!Step(q, [verifying[q] EXCEPT !.at = "evaluated", !.tier = tier])
    BY <1>4 DEF Sales!Evaluate
  <2> DEFINE next == [verifying[q] EXCEPT !.at = "evaluated", !.tier = tier]
  <2>2. verifying[q] \in Verifying
    BY <1>0 DEF SalesTypes
  <2>3. next.event = verifying[q].event /\ next.evidence = verifying[q].evidence
    BY <2>2 DEF Verifying
  <2>4. next \in Verifying /\ Sales!NothingWritten
    BY <1>0, <1>4, EvaluateWrites DEF Sales!Evaluate
  <2> QED
    BY <2>1, <2>3, <2>4, QuietStepKeepsEvents DEF Sales!NothingWritten
<1>5. ASSUME NEW q \in Request, NEW u \in Account, Sales!EraseBegin(q, u)
      PROVE  EventInv'
  <2> DEFINE next == [Sales!Idle EXCEPT !.at = "erasing", !.user = u]
  <2>1. next \in Verifying /\ next.event = {}
    BY EraseWrites DEF Sales!Idle
  <2> QED
    BY <1>5, <2>1, QuietStepKeepsEvents DEF Sales!EraseBegin, Sales!NothingWritten
<1>6. ASSUME NEW q \in Request, Sales!EraseCommit(q) \/ Sales!Rollback(q)
      PROVE  EventInv'
  BY <1>6, QuietStepKeepsEvents DEF Sales!EraseCommit, Sales!Rollback, Sales!NothingWritten
<1>7. CASE Sales!Tick \/ UNCHANGED Sales!vars
  <2>1. verifying' = verifying /\ rows' = rows /\ recorded' = recorded
    BY <1>7 DEF Sales!Tick, Sales!vars
  <2> QED
    BY <2>1 DEF EventInv, NewEvents, Sales!EventsAreIdempotent
<1> QED
  BY <1>1, <1>2, <1>3, <1>4, <1>5, <1>6, <1>7, RecordKeepsEvents, CommitPurchaseKeepsEvents DEF Sales!Next

\* docs/phase-17:21: a row carries the newest evidence ever reconciled for its purchase, in
\* whatever order the verifications commit, and an event is recorded once, never before its
\* subscription: for any number of accounts, purchases and requests at once.
THEOREM NewestEvidenceStands == AccountsSpec => []NewestEvidenceWins
<1>1. Sales!Init => RowInv /\ EventInv
  <2>1. Sales!Init => EventInv
    BY IdleVerifying DEF Sales!Init, EventInv, NewEvents, Sales!EventsAreIdempotent
  <2> QED
    BY <2>1, RowInvInit
<1>2. RowInv /\ EventInv /\ [Sales!Next]_Sales!vars => (RowInv /\ EventInv)'
  BY RowInvKept, EventInvKept
<1>3. RowInv /\ EventInv => NewestEvidenceWins
  <2> SUFFICES ASSUME RowInv, EventInv, NEW v \in reconciled
               PROVE  \E w \in reconciled : /\ w.purchase = v.purchase
                                            /\ RowFrom(rows[v.purchase], w)
    BY DEF NewestEvidenceWins, Sales!NewestEvidenceWins, RowInv, RowsAreNewest, EventInv, RowFrom
  <2>1. v.purchase \in Purchase
    BY RowOfTyped DEF RowInv, SalesTypes, Sales!TypeOK
  <2> QED
    BY <2>1 DEF RowInv, RowsAreNewest, RowsComeFromEvidence
<1> QED
  BY <1>1, <1>2, <1>3, SalesMoveAlone, PTL DEF Sales!Spec

\* service.entitlement: an account is premium only by evidence that names it, is in force and
\* is not superseded on that purchase, for any number of accounts and purchases.
THEOREM PremiumIsAlwaysEarned == AccountsSpec => []PremiumIsEarned
<1>1. RowInv => PremiumIsEarned
  <2> SUFFICES ASSUME RowInv, NEW u \in owners, "premium" \in Sales!Tiers(rows, u)
               PROVE  \E v \in reconciled :
                          /\ v.user = u /\ v.status \in {"active", "grace_period"}
                          /\ v.expires_at # Never => v.expires_at > clock
                          /\ \A w \in reconciled : w.purchase = v.purchase => w.verified_at <= v.verified_at
    BY DEF PremiumIsEarned, Sales!PremiumIsEarned
  <2>1. u \in Account /\ u # NoUser
    BY AccountsShapes DEF RowInv, SalesTypes, Sales!TypeOK, Sales!BillingShapes
  <2>2. PICK p \in Sales!Current(rows, u) : Sales!Tier(rows, p) = "premium"
    BY DEF Sales!Tiers
  <2>3. p \in Purchase /\ rows[p].user = u
    BY <2>2 DEF Sales!Current, Sales!Owned
  <2>4. PICK v \in reconciled : v.purchase = p /\ RowFrom(rows[p], v)
    BY <2>1, <2>3 DEF RowInv, RowsComeFromEvidence, Sales!Absent
  <2>5. rows[p] = Sales!RowOf(v)
    BY <2>1, <2>3, <2>4 DEF RowFrom, Sales!RowOf
  <2>6. v.user = u /\ v.status = rows[p].status /\ v.expires_at = rows[p].expires_at
        /\ v.verified_at = rows[p].verified_at
    BY <2>3, <2>5 DEF Sales!RowOf
  <2>7. Sales!InForce(rows[p])
    BY <2>2 DEF Sales!Tier
  <2>8. \A w \in reconciled : w.purchase = v.purchase => w.verified_at <= v.verified_at
    <3>1. \A w \in reconciled : w.verified_at \in Nat
      BY RowOfTyped DEF RowInv, SalesTypes, Sales!TypeOK
    <3> QED
      BY <2>4, <2>6, <3>1 DEF RowInv, RowsAreNewest
  <2> QED
    BY <2>6, <2>7, <2>8 DEF Sales!InForce
<1> QED
  BY <1>1, RowInvInit, RowInvKept, SalesMoveAlone, PTL DEF Sales!Spec

-------------------------------------------------------------------------------
(* Billing: no row names an account that is gone *)

\* What a verification is about to commit names an account that exists, and that no erasure
\* began to delete unless the cascade will wait for the row.
DraftsNameOwners ==
    \A q \in Request : verifying[q].at \in Held =>
        \A v \in verifying[q].evidence :
            /\ verifying[q].draft.user \in owners \cup {NoUser}
            /\ Sales!Names(rows[v.purchase], verifying[q].draft.user) =>
                   ~Sales!Erasing(verifying[q].draft.user)

\* delete_account is asked by an account.
ErasersAreAccounts ==
    \A q \in Request : verifying[q].at = "erasing" => verifying[q].user \in Account

OwnerInv == DraftsNameOwners /\ ErasersAreAccounts /\ Sales!OwnersExist

\* A step that writes no row and erases nobody new keeps the names.
LEMMA QuietStepKeepsOwners ==
    ASSUME RowInv, OwnerInv, NEW q \in Request, NEW next \in Verifying, Sales!Step(q, next),
           Sales!NothingWritten, next.at # "erasing",
           next.at \in Held => /\ verifying[q].at \in Held /\ next.draft = verifying[q].draft
                               /\ next.evidence = verifying[q].evidence
    PROVE  OwnerInv'
<1>1. verifying'[q] = next /\ \A o \in Request \ {q} : verifying'[o] = verifying[o]
  BY StepOfOne DEF RowInv, SalesTypes
<1>2. rows' = rows /\ owners' = owners
  BY DEF Sales!NothingWritten
<1>3. \A u : Sales!Erasing(u)' => Sales!Erasing(u)
  BY <1>1 DEF Sales!Erasing
<1>4. ErasersAreAccounts' /\ Sales!OwnersExist'
  BY <1>1, <1>2 DEF OwnerInv, ErasersAreAccounts, Sales!OwnersExist
<1>5. DraftsNameOwners'
  BY <1>1, <1>2, <1>3 DEF OwnerInv, DraftsNameOwners, Sales!Names
<1> QED
  BY <1>4, <1>5 DEF OwnerInv

\* sql_repository.upsert_verified: the foreign key waits for an erasure of the account.
LEMMA UpsertKeepsOwners ==
    ASSUME RowInv, OwnerInv, NEW q \in Request, NEW v \in Evidence, Sales!Upsert(q, v)
    PROVE  OwnerInv'
<1> DEFINE next == [verifying[q] EXCEPT !.at = "upserted", !.draft = Written(v)]
<1>1. next \in Verifying /\ Sales!Step(q, next) /\ Sales!NothingWritten
  BY UpsertWrites DEF RowInv, Written, Sales!Upsert
<1>2. verifying[q] \in Verifying /\ verifying[q].evidence = {v} /\ v \in Sales!VerifiedPurchase
  <2>1. verifying[q].at = "verified" /\ v \in verifying[q].evidence
    BY DEF Sales!Upsert
  <2> QED
    BY <2>1 DEF RowInv, SalesTypes, AnswersAreSingle, Held
<1>3. next.at = "upserted" /\ next.evidence = {v} /\ next.draft = Written(v)
  BY <1>2 DEF Verifying
<1> HIDE DEF next
<1>4. verifying'[q] = next /\ \A o \in Request \ {q} : verifying'[o] = verifying[o]
  BY <1>1, StepOfOne DEF RowInv, SalesTypes
<1>5. rows' = rows /\ owners' = owners
  BY <1>1 DEF Sales!NothingWritten
<1>6. \A u : Sales!Erasing(u)' => Sales!Erasing(u)
  BY <1>3, <1>4 DEF Sales!Erasing
<1>7. ErasersAreAccounts' /\ Sales!OwnersExist'
  BY <1>3, <1>4, <1>5 DEF OwnerInv, ErasersAreAccounts, Sales!OwnersExist
<1>8. /\ Written(v).user \in owners \cup {NoUser}
      /\ Sales!Names(rows[v.purchase], Written(v).user) => ~Sales!Erasing(Written(v).user)
  <2>1. v.purchase \in Purchase
    BY <1>2, RowOfTyped
  <2>2. rows[v.purchase].user \in owners \cup {NoUser}
    BY <2>1 DEF OwnerInv, Sales!OwnersExist
  <2>3. Sales!RowOf(v).user = v.user
    BY DEF Sales!RowOf
  <2>4. CASE Sales!Supersedes(v, rows[v.purchase])
    BY <2>2, <2>3, <2>4 DEF Written, Sales!Upsert, Sales!Names
  <2>5. CASE ~Sales!Supersedes(v, rows[v.purchase])
    BY <2>2, <2>5 DEF Written, Sales!Supersedes, Sales!Names
  <2> QED
    BY <2>4, <2>5
<1>9. DraftsNameOwners'
  BY <1>3, <1>4, <1>5, <1>6, <1>8 DEF OwnerInv, DraftsNameOwners, Sales!Names
<1> QED
  BY <1>7, <1>9 DEF OwnerInv

\* The commit of a verification writes the name the draft had.
LEMMA CommitPurchaseKeepsOwners ==
    ASSUME RowInv, OwnerInv, NEW q \in Request, Sales!CommitPurchase(q)
    PROVE  OwnerInv'
<1>1. verifying'[q] = Sales!Idle /\ \A o \in Request \ {q} : verifying'[o] = verifying[o]
  BY StepOfOne, IdleVerifying DEF RowInv, SalesTypes, Sales!CommitPurchase
<1>2. PICK v \in Sales!VerifiedPurchase : verifying[q].evidence = {v}
  BY DEF RowInv, AnswersAreSingle, Held, Sales!CommitPurchase
<1>3. verifying[q].at \in Held /\ owners' = owners
  BY DEF Held, Sales!CommitPurchase
<1>4. \A p \in Purchase : rows'[p] = IF p = v.purchase THEN verifying[q].draft ELSE rows[p]
  BY <1>2 DEF Sales!CommitPurchase, Sales!View, Sales!Bought
<1>5. \A u : Sales!Erasing(u)' => Sales!Erasing(u)
  BY <1>1, IdleVerifying DEF Sales!Erasing
<1>6. ErasersAreAccounts'
  BY <1>1, IdleVerifying DEF OwnerInv, ErasersAreAccounts
<1>7. Sales!OwnersExist'
  <2>1. verifying[q].draft.user \in owners \cup {NoUser}
    BY <1>2, <1>3 DEF OwnerInv, DraftsNameOwners
  <2> QED
    BY <1>3, <1>4, <2>1 DEF OwnerInv, Sales!OwnersExist
<1>8. DraftsNameOwners'
  <2> SUFFICES ASSUME NEW o \in Request, verifying'[o].at \in Held, NEW w \in verifying'[o].evidence
               PROVE  /\ verifying'[o].draft.user \in owners' \cup {NoUser}
                      /\ Sales!Names(rows'[w.purchase], verifying'[o].draft.user) =>
                             ~Sales!Erasing(verifying[o].draft.user)'
    <3>1. \A o \in Request : verifying'[o].at \in Held => verifying'[o] = verifying[o]
      BY <1>1, IdleVerifying DEF Held
    <3> QED
      BY <3>1 DEF DraftsNameOwners, Sales!Names, Sales!Erasing
  <2>1. o # q /\ verifying'[o] = verifying[o]
    BY <1>1, IdleVerifying DEF Held
  <2>2. w \in Sales!VerifiedPurchase
    BY <2>1 DEF RowInv, SalesTypes, Verifying
  <2>3. w.purchase \in Purchase /\ w.purchase # v.purchase
    BY <1>2, <1>3, <2>1, <2>2, RowOfTyped DEF RowInv, RowLocks, Sales!Holds, Sales!Bought, Held
  <2>4. rows'[w.purchase] = rows[w.purchase]
    BY <1>4, <2>3
  <2> QED
    BY <1>3, <1>5, <2>1, <2>4 DEF OwnerInv, DraftsNameOwners, Sales!Names
<1> QED
  BY <1>6, <1>7, <1>8 DEF OwnerInv

\* delete_account begins: no verification in flight is about to name the account anew.
LEMMA EraseBeginKeepsOwners ==
    ASSUME RowInv, OwnerInv, NEW q \in Request, NEW u \in Account, Sales!EraseBegin(q, u)
    PROVE  OwnerInv'
<1> DEFINE next == [Sales!Idle EXCEPT !.at = "erasing", !.user = u]
<1>1. next \in Verifying /\ next.at = "erasing" /\ next.user = u
  BY EraseWrites, IdleVerifying DEF Sales!Idle
<1>2. verifying'[q] = next /\ \A o \in Request \ {q} : verifying'[o] = verifying[o]
  BY <1>1, StepOfOne DEF RowInv, SalesTypes, Sales!EraseBegin
<1>3. rows' = rows /\ owners' = owners
  BY DEF Sales!EraseBegin, Sales!NothingWritten
<1>4. \A w : Sales!Erasing(w)' => Sales!Erasing(w) \/ w = u
  BY <1>1, <1>2 DEF Sales!Erasing
<1>5. ErasersAreAccounts' /\ Sales!OwnersExist'
  BY <1>1, <1>2, <1>3 DEF OwnerInv, ErasersAreAccounts, Sales!OwnersExist
<1>6. ASSUME NEW o \in Request, verifying[o].at \in Held, NEW v \in verifying[o].evidence,
             verifying[o].draft.user = u
      PROVE  ~Sales!Names(rows[v.purchase], u)
  <2>1. v.purchase \in Sales!Holds(o)
    BY <1>6 DEF Sales!Holds, Sales!Bought, Held
  <2> QED
    BY <1>6, <2>1 DEF Sales!EraseBegin, Sales!Pinned
<1>7. \A o \in Request : verifying'[o].at \in Held => verifying'[o] = verifying[o]
  BY <1>1, <1>2 DEF Held
<1>8. DraftsNameOwners'
  BY <1>3, <1>4, <1>6, <1>7 DEF OwnerInv, DraftsNameOwners, Sales!Names
<1> QED
  BY <1>5, <1>8 DEF OwnerInv

\* The cascade: no verification in flight names the account that goes.
LEMMA EraseCommitKeepsOwners ==
    ASSUME RowInv, OwnerInv, NEW q \in Request, Sales!EraseCommit(q)
    PROVE  OwnerInv'
<1> DEFINE u == verifying[q].user
<1>1. verifying'[q] = Sales!Idle /\ \A o \in Request \ {q} : verifying'[o] = verifying[o]
  BY StepOfOne, IdleVerifying DEF RowInv, SalesTypes, Sales!EraseCommit
<1>2. rows' = Sales!Unlinked(u) /\ owners' = owners \ {u} /\ Sales!Erasing(u) /\ u # NoUser
  BY AccountsShapes DEF Sales!EraseCommit, Sales!Erasing, OwnerInv, ErasersAreAccounts, Sales!BillingShapes
<1>3. \A w : Sales!Erasing(w)' => Sales!Erasing(w)
  BY <1>1, IdleVerifying DEF Sales!Erasing
<1>4. ErasersAreAccounts'
  BY <1>1, IdleVerifying DEF OwnerInv, ErasersAreAccounts
<1>5. Sales!OwnersExist'
  <2> SUFFICES ASSUME NEW p \in Purchase  PROVE rows'[p].user \in owners' \cup {NoUser}
    BY DEF Sales!OwnersExist
  <2>1. CASE rows[p].user = u
    <3>1. rows[p] \in Sales!Rows
      BY <1>2, <2>1 DEF RowInv, SalesTypes, Sales!TypeOK, Sales!Absent
    <3>2. [rows[p] EXCEPT !.user = NoUser].user = NoUser
      BY <3>1 DEF Sales!Rows
    <3> QED
      BY <1>2, <2>1, <3>2 DEF Sales!Unlinked
  <2>2. CASE rows[p].user # u
    BY <1>2, <2>2 DEF OwnerInv, Sales!OwnersExist, Sales!Unlinked
  <2> QED
    BY <2>1, <2>2
<1>6. ASSUME NEW o \in Request, verifying[o].at \in Held, NEW v \in verifying[o].evidence
      PROVE  rows'[v.purchase] = rows[v.purchase] /\ verifying[o].draft.user # u
  <2>1. v.purchase \in Sales!Holds(o) /\ v.purchase \in Purchase
    <3>1. v \in Sales!VerifiedPurchase
      BY <1>6 DEF RowInv, SalesTypes, Verifying
    <3> QED
      BY <1>6, <3>1, RowOfTyped DEF Sales!Holds, Sales!Bought, Held
  <2>2. rows'[v.purchase] = rows[v.purchase]
    BY <2>1, CascadeSparesHeldRows DEF RowInv
  <2>3. o # q
    BY <1>6 DEF Held, Sales!EraseCommit
  <2>4. rows[v.purchase].user # u
    BY <2>1, <2>3 DEF Sales!EraseCommit, Sales!Locked, Sales!Owned
  <2>5. Sales!Names(rows[v.purchase], u)
    BY <2>4 DEF Sales!Names
  <2> QED
    BY <1>2, <1>6, <2>2, <2>5 DEF OwnerInv, DraftsNameOwners
<1>7. \A o \in Request : verifying'[o].at \in Held => verifying'[o] = verifying[o]
  BY <1>1, IdleVerifying DEF Held
<1>8. DraftsNameOwners'
  BY <1>2, <1>3, <1>6, <1>7 DEF OwnerInv, DraftsNameOwners, Sales!Names
<1> QED
  BY <1>4, <1>5, <1>8 DEF OwnerInv

LEMMA OwnerInvKept == RowInv /\ OwnerInv /\ [Sales!Next]_Sales!vars => OwnerInv'
<1> SUFFICES ASSUME RowInv, OwnerInv, [Sales!Next]_Sales!vars  PROVE OwnerInv'
  OBVIOUS
<1> USE IdleVerifying
<1>0. SalesTypes
  BY DEF RowInv
<1>1. ASSUME NEW q \in Request, NEW u \in Account, NEW product \in Product, Sales!Ask(q, u, product)
      PROVE  OwnerInv'
  <2> DEFINE next == [Sales!Idle EXCEPT !.at = "asked", !.user = u, !.product = {product}]
  <2>1. next \in Verifying /\ next.at = "asked"
    BY <1>0, <1>1, AskWrites DEF Sales!Idle
  <2> QED
    BY <1>1, <2>1, QuietStepKeepsOwners DEF Sales!Ask, Held
<1>2. ASSUME NEW q \in Request, NEW v \in Evidence, Sales!Answer(q, v)
      PROVE  OwnerInv'
  <2> DEFINE next == [verifying[q] EXCEPT !.at = "verified", !.evidence = {v}]
  <2>1. verifying[q] \in Verifying
    BY <1>0 DEF SalesTypes
  <2>2. next \in Verifying /\ next.at = "verified"
    BY <1>0, <1>2, <2>1, AnswerWrites DEF Verifying
  <2> QED
    BY <1>2, <2>2, QuietStepKeepsOwners DEF Sales!Answer, Held
<1>3. ASSUME NEW q \in Request, NEW v \in Evidence, Sales!RecordEvent(q, v)
      PROVE  OwnerInv'
  <2> DEFINE fresh == IF Sales!Recorded(v.event) THEN {}
                        ELSE {[ref |-> v.event, purchase |-> v.purchase,
                               status |-> v.status, occurred_at |-> v.verified_at]}
             next == [verifying[q] EXCEPT !.at = "recorded", !.event = fresh]
  <2>1. verifying[q] \in Verifying /\ verifying[q].at \in Held
    BY <1>0, <1>3 DEF Sales!RecordEvent, SalesTypes, Held
  <2> HIDE DEF fresh
  <2>2. /\ next.at = "recorded" /\ next.evidence = verifying[q].evidence
        /\ next.draft = verifying[q].draft
    BY <2>1 DEF Verifying
  <2>3. next \in Verifying /\ Sales!Step(q, next) /\ Sales!NothingWritten
    BY <1>0, <1>3, RecordWrites DEF Sales!RecordEvent, fresh
  <2> QED
    BY <2>1, <2>2, <2>3, QuietStepKeepsOwners
<1>4. ASSUME NEW q \in Request, Sales!Evaluate(q)
      PROVE  OwnerInv'
  <2>1. verifying[q] \in Verifying /\ verifying[q].at \in Held
    BY <1>0, <1>4 DEF Sales!Evaluate, SalesTypes, Held
  <2>2. PICK tier \in Sales!Tiers(Sales!View(q), verifying[q].user) :
            Sales!Step(q, [verifying[q] EXCEPT !.at = "evaluated", !.tier = tier])
    BY <1>4 DEF Sales!Evaluate
  <2> DEFINE next == [verifying[q] EXCEPT !.at = "evaluated", !.tier = tier]
  <2>3. /\ next.at = "evaluated" /\ next.evidence = verifying[q].evidence
        /\ next.draft = verifying[q].draft
    BY <2>1 DEF Verifying
  <2>4. next \in Verifying /\ Sales!NothingWritten
    BY <1>0, <1>4, EvaluateWrites DEF Sales!Evaluate
  <2> QED
    BY <2>1, <2>2, <2>3, <2>4, QuietStepKeepsOwners
<1>5. ASSUME NEW q \in Request, Sales!Rollback(q)
      PROVE  OwnerInv'
  BY <1>5, QuietStepKeepsOwners DEF Sales!Rollback, Held
<1>6. CASE Sales!Tick \/ UNCHANGED Sales!vars
  <2>1. verifying' = verifying /\ rows' = rows /\ owners' = owners
    BY <1>6 DEF Sales!Tick, Sales!vars
  <2> QED
    BY <2>1 DEF OwnerInv, DraftsNameOwners, ErasersAreAccounts, Sales!OwnersExist, Sales!Names, Sales!Erasing
<1> QED
  BY <1>1, <1>2, <1>3, <1>4, <1>5, <1>6, UpsertKeepsOwners, CommitPurchaseKeepsOwners,
     EraseBeginKeepsOwners, EraseCommitKeepsOwners DEF Sales!Next

\* delete_account and service.verify_purchase: a subscription never names an account that is
\* gone, whatever verifications are in flight when an erasure begins and ends.
THEOREM OwnersAlwaysExist == AccountsSpec => []OwnersExist
<1>1. Sales!Init => RowInv /\ OwnerInv
  <2>1. Sales!Init => OwnerInv
    BY IdleVerifying DEF Sales!Init, OwnerInv, DraftsNameOwners, ErasersAreAccounts, Sales!OwnersExist, Held,
       Sales!Absent
  <2> QED
    BY <2>1, RowInvInit
<1>2. RowInv /\ OwnerInv /\ [Sales!Next]_Sales!vars => (RowInv /\ OwnerInv)'
  BY RowInvKept, OwnerInvKept
<1>3. OwnerInv => OwnersExist
  BY DEF OwnerInv, OwnersExist
<1> QED
  BY <1>1, <1>2, <1>3, SalesMoveAlone, PTL DEF Sales!Spec

-------------------------------------------------------------------------------
(* Alerts of the device: the page, its stream and its evaluations *)

LEMMA DeviceMovesAlone == AccountsSpec => Alerts!Spec
<1>1. AccountsInit => Alerts!Init
  BY DEF AccountsInit
<1>2. [AccountsNext]_<<vars, rights, sales, device, component>> => [Alerts!Next]_Alerts!vars
  BY DEF AccountsNext, device, Alerts!vars
<1> QED
  BY <1>1, <1>2, PTL DEF AccountsSpec, Alerts!Spec

Pages == [at : Alerts!Places, op : {"load", "on", "off"}, enabled : BOOLEAN, mounted : BOOLEAN]

\* AlertsPage is on the screen at most once, and one that was never built runs nothing.
OnScreen ==
    /\ \A p, q \in Page : page[p].mounted /\ page[q].mounted => p = q
    /\ \A p \in Page : page[p].at = "absent" => ~page[p].mounted /\ p \notin live \cup armed

\* What a page that no failure left behind is on its way to.
OnItsWay(p) ==
    /\ ~page[p].mounted => page[p].at \in {"absent", "ready"} /\ p \notin live
    /\ page[p].at = "loading" => page[p].op = "load" /\ p \notin live
    /\ page[p].at = "starting" /\ page[p].op = "load" => p \notin live
    /\ page[p].at \in {"starting", "permitted", "cancelling", "listening"} => consent
    /\ page[p].at = "stopping" => ~consent
    /\ page[p].at = "ready" =>
         /\ p \in live => page[p].mounted /\ page[p].enabled /\ consent
         /\ page[p].mounted /\ page[p].op # "load" => (consent <=> p \in live)

StreamInv == Alerts!TypeOK /\ stops \in Nat /\ OnScreen /\ \A p \in Page \ stray : OnItsWay(p)

\* What a step of page p may do to the stream, whatever it does to the page.
LEMMA PageStepKeepsStreams ==
    ASSUME StreamInv, NEW p \in Page, NEW next \in Pages, page' = [page EXCEPT ![p] = next],
           permission' \in {"denied", "in_use", "always"}, consent' \in BOOLEAN,
           live' \in {live, live \cup {p}, live \ {p}}, armed' \in {armed, armed \ {p}},
           stray' \subseteq Page, stray \ {p} \subseteq stray',
           evaluations' = evaluations, stops' = stops,
           consent' = consent \/ \A q \in Page \ {p} : page[q].mounted => q \in stray',
           next.at # "absent",
           next.mounted => page[p].mounted \/ \A q \in Page : ~page[q].mounted,
           p \notin stray' => OnItsWay(p)'
    PROVE  StreamInv'
<1>1. /\ page' \in [Page -> Pages] /\ page'[p] = next
      /\ \A q \in Page \ {p} : page'[q] = page[q]
  BY DEF StreamInv, Alerts!TypeOK, Pages
<1>2. Alerts!TypeOK'
  BY <1>1 DEF StreamInv, Alerts!TypeOK, Pages
<1>3. OnScreen'
  <2>1. ASSUME NEW q \in Page, NEW o \in Page, page'[q].mounted, page'[o].mounted
        PROVE  q = o
    BY <1>1, <2>1 DEF StreamInv, OnScreen
  <2>2. ASSUME NEW q \in Page, page'[q].at = "absent"
        PROVE  ~page'[q].mounted /\ q \notin live' \cup armed'
    BY <1>1, <2>2 DEF StreamInv, OnScreen
  <2> QED
    BY <2>1, <2>2 DEF OnScreen
<1>4. ASSUME NEW q \in Page \ {p}, q \notin stray'  PROVE  OnItsWay(q)'
  <2>1. OnItsWay(q) /\ page'[q] = page[q] /\ (q \in live' <=> q \in live)
    BY <1>1, <1>4 DEF StreamInv
  <2>2. CASE consent' = consent
    BY <2>1, <2>2 DEF OnItsWay
  <2>3. CASE consent' # consent
    <3>1. ~page[q].mounted /\ q \notin live /\ page[q].at \in {"absent", "ready"}
      BY <1>4, <2>1, <2>3 DEF OnItsWay
    <3> QED
      BY <2>1, <3>1 DEF OnItsWay
  <2> QED
    BY <2>2, <2>3
<1> QED
  BY <1>2, <1>3, <1>4 DEF StreamInv

\* The page that moves, and the records that its steps write.
LEMMA PageWrites ==
    ASSUME StreamInv, NEW p \in Page
    PROVE  /\ page[p] \in Pages /\ page[p].mounted \in BOOLEAN /\ page[p].enabled \in BOOLEAN
           /\ consent \in BOOLEAN /\ permission \in {"denied", "in_use", "always"}
           /\ p \notin stray => OnItsWay(p)
           /\ \A at \in Alerts!Places, on \in BOOLEAN :
                /\ [page[p] EXCEPT !.at = at] \in Pages
                /\ [page[p] EXCEPT !.at = at, !.enabled = on] \in Pages
           /\ \A at \in Alerts!Places, op \in {"on", "off"} :
                [page[p] EXCEPT !.at = at, !.op = op] \in Pages
<1>1. PICK x \in Pages : x = page[p]
  BY DEF StreamInv, Alerts!TypeOK, Pages
<1>2. /\ x.mounted \in BOOLEAN /\ x.enabled \in BOOLEAN
      /\ consent \in BOOLEAN /\ permission \in {"denied", "in_use", "always"}
      /\ p \notin stray => OnItsWay(p)
  BY DEF StreamInv, Alerts!TypeOK, Pages
<1>3. \A at \in Alerts!Places, on \in BOOLEAN :
          /\ [x EXCEPT !.at = at] \in Pages
          /\ [x EXCEPT !.at = at, !.enabled = on] \in Pages
  BY DEF Pages
<1>4. \A at \in Alerts!Places, op \in {"on", "off"} : [x EXCEPT !.at = at, !.op = op] \in Pages
  BY DEF Pages
<1> QED
  BY <1>1, <1>2, <1>3, <1>4

\* The server keeps what the page saved, or nobody knows whether it does.
LEMMA PutKeepsStreams ==
    ASSUME StreamInv, NEW p \in Page, NEW on \in BOOLEAN, NEW next \in Pages, NEW left,
           page[p].at \in {"saving", "rolling"}, Alerts!Put(p, on, [page EXCEPT ![p] = next], left),
           left \subseteq {p}, next.mounted = page[p].mounted,
           permission' = permission, UNCHANGED <<live, armed, evaluations, served, stops>>,
           \/ next.at = "starting" /\ on /\ next.op # "load"
           \/ next.at = "stopping" /\ ~on
           \/ next.at = "ready" /\ ~on /\ (p \notin left => p \notin live)
    PROVE  StreamInv'
<1>0. page[p] \in Pages /\ consent \in BOOLEAN /\ permission \in {"denied", "in_use", "always"}
  BY PageWrites
<1>1. CASE /\ page[p].mounted /\ consent' = on /\ page' = [page EXCEPT ![p] = next]
           /\ stray' = (stray \ {p}) \cup left
  <2>1. page'[p] = next
    BY <1>1 DEF StreamInv, Alerts!TypeOK
  <2>2. \A q \in Page \ {p} : ~page[q].mounted
    BY <1>1 DEF StreamInv, OnScreen
  <2>3. OnItsWay(p)' \/ p \in stray'
    BY <1>1, <2>1 DEF OnItsWay
  <2>4. stray' \subseteq Page /\ stray \ {p} \subseteq stray'
    BY <1>1 DEF StreamInv, Alerts!TypeOK
  <2>5. next.at # "absent"
    OBVIOUS
  <2> QED
    BY <1>0, <1>1, <2>2, <2>3, <2>4, <2>5, PageStepKeepsStreams
<1>2. CASE /\ consent' \in {consent, on} /\ Alerts!Goes(p, "ready")
           /\ stray' = stray \cup {p} \cup {q \in Page : page[q].mounted}
  <2> DEFINE then == [page[p] EXCEPT !.at = "ready"]
  <2>1. then \in Pages /\ then.at = "ready" /\ then.mounted = page[p].mounted
    BY <1>0 DEF Pages, Alerts!Places
  <2>2. page' = [page EXCEPT ![p] = then]
    BY <1>2 DEF Alerts!Goes, StreamInv, Alerts!TypeOK
  <2>3. stray' \subseteq Page /\ stray \ {p} \subseteq stray' /\ p \in stray'
    BY <1>2 DEF StreamInv, Alerts!TypeOK
  <2>4. \A q \in Page \ {p} : page[q].mounted => q \in stray'
    BY <1>2
  <2> HIDE DEF then
  <2> QED
    BY <1>0, <1>2, <2>1, <2>2, <2>3, <2>4, PageStepKeepsStreams
<1> QED
  BY <1>1, <1>2 DEF Alerts!Put

\* The same for a step that leaves the preferences on the server as they are.
LEMMA QuietPageStep ==
    ASSUME StreamInv, NEW p \in Page, NEW next \in Pages, page' = [page EXCEPT ![p] = next],
           permission' \in {"denied", "in_use", "always"}, consent' = consent,
           live' \in {live, live \cup {p}, live \ {p}}, armed' \in {armed, armed \ {p}},
           stray' \in {stray, stray \cup {p}}, evaluations' = evaluations, stops' = stops,
           next.at # "absent",
           next.mounted => page[p].mounted \/ \A q \in Page : ~page[q].mounted,
           p \notin stray' => OnItsWay(p)'
    PROVE  StreamInv'
<1>1. consent' \in BOOLEAN /\ stray' \subseteq Page /\ stray \ {p} \subseteq stray'
  BY DEF StreamInv, Alerts!TypeOK
<1> QED
  BY <1>1, PageStepKeepsStreams

LEMMA BuildKeepsStreams ==
    ASSUME StreamInv, NEW p \in Page, Alerts!Build(p)
    PROVE  StreamInv'
<1> DEFINE next == Alerts!Built
<1>1. next \in Pages /\ next.at = "loading" /\ next.op = "load" /\ next.mounted
  BY DEF Alerts!Built, Pages, Alerts!Places
<1>2. page' = [page EXCEPT ![p] = next] /\ page[p].at = "absent"
  BY DEF Alerts!Build
<1>3. page'[p] = next /\ p \notin live
  BY <1>2 DEF StreamInv, OnScreen, Alerts!TypeOK
<1>4. /\ \A q \in Page : ~page[q].mounted
      /\ UNCHANGED <<permission, consent, stray, live, armed, evaluations, stops>>
  BY DEF Alerts!Build, Alerts!UNCHANGED_STREAM
<1> HIDE DEF next
<1>5. OnItsWay(p)'
  BY <1>1, <1>3, <1>4 DEF OnItsWay
<1> QED
  BY <1>1, <1>2, <1>4, <1>5, PageWrites, QuietPageStep

LEMMA LoadKeepsStreams ==
    ASSUME StreamInv, NEW p \in Page, Alerts!Load(p)
    PROVE  StreamInv'
<1>0. /\ page[p] \in Pages /\ page[p].at = "loading"
      /\ p \notin stray => page[p].op = "load" /\ p \notin live /\ page[p].mounted
      /\ UNCHANGED <<permission, consent, stray, live, armed, evaluations, stops>>
      /\ consent \in BOOLEAN /\ permission \in {"denied", "in_use", "always"}
  BY PageWrites DEF Alerts!Load, Alerts!UNCHANGED_STREAM, OnItsWay
<1>1. ASSUME NEW next \in Pages, page' = [page EXCEPT ![p] = next], next.at \in {"starting", "ready"},
             next.at = "starting" => consent, next.op = page[p].op, next.mounted = page[p].mounted
      PROVE  StreamInv'
  <2>1. page'[p] = next
    BY <1>1 DEF StreamInv, Alerts!TypeOK
  <2>2. p \notin stray => OnItsWay(p)'
    BY <1>0, <1>1, <2>1 DEF OnItsWay
  <2> QED
    BY <1>0, <1>1, <2>2, QuietPageStep
<1>2. CASE page' = [page EXCEPT ![p].enabled = consent,
                                ![p].at = IF consent THEN "starting" ELSE "ready"]
  <2> DEFINE next == [page[p] EXCEPT !.enabled = consent, !.at = IF consent THEN "starting" ELSE "ready"]
  <2>1. /\ next \in Pages /\ next.at \in {"starting", "ready"} /\ (next.at = "starting" => consent)
        /\ next.op = page[p].op /\ next.mounted = page[p].mounted
    BY <1>0 DEF Pages, Alerts!Places
  <2>2. page' = [page EXCEPT ![p] = next]
    BY <1>2 DEF StreamInv, Alerts!TypeOK
  <2> HIDE DEF next
  <2> QED
    BY <1>1, <2>1, <2>2
<1>3. CASE Alerts!Goes(p, "ready")
  <2> DEFINE next == [page[p] EXCEPT !.at = "ready"]
  <2>1. next \in Pages /\ next.at = "ready" /\ next.op = page[p].op /\ next.mounted = page[p].mounted
    BY <1>0 DEF Pages, Alerts!Places
  <2>2. page' = [page EXCEPT ![p] = next]
    BY <1>3 DEF Alerts!Goes, StreamInv, Alerts!TypeOK
  <2> HIDE DEF next
  <2> QED
    BY <1>1, <2>1, <2>2
<1> QED
  BY <1>2, <1>3 DEF Alerts!Load

\* The switch and the permission: the page moves on, its stream as it was.
LEMMA MoveKeepsStreams ==
    ASSUME StreamInv, NEW p \in Page, NEW at \in Alerts!Places, Alerts!Goes(p, at),
           permission' \in {"denied", "in_use", "always"},
           UNCHANGED <<consent, armed, evaluations, stops>>,
           stray' \in {stray, stray \cup {p}}, live' \in {live, live \ {p}},
           page[p].at \in {"starting", "permitted", "cancelling"},
           \/ at = "ready" /\ page[p].op = "load" /\ page[p].at = "starting"
           \/ at = "ready" /\ p \in stray'
           \/ at \in {"rolling", "permitted", "cancelling", "listening"}
    PROVE  StreamInv'
<1> DEFINE next == [page[p] EXCEPT !.at = at]
<1>0. page[p] \in Pages /\ (p \notin stray => OnItsWay(p))
  BY PageWrites
<1>1. /\ next \in Pages /\ next.at = at /\ next.op = page[p].op
      /\ next.mounted = page[p].mounted /\ next.enabled = page[p].enabled
  BY <1>0 DEF Pages
<1>2. page' = [page EXCEPT ![p] = next] /\ page'[p] = next
  BY DEF Alerts!Goes, StreamInv, Alerts!TypeOK
<1> HIDE DEF next
<1>3. p \notin stray' => OnItsWay(p)'
  <2> SUFFICES ASSUME p \notin stray'  PROVE  OnItsWay(p)'
    OBVIOUS
  <2>1. OnItsWay(p) /\ p \notin stray /\ page[p].mounted /\ consent
    BY <1>0 DEF OnItsWay
  <2>2. page'[p].mounted /\ page'[p].at = at /\ page'[p].op = page[p].op
    BY <1>1, <1>2, <2>1
  <2>3. CASE at = "ready"
    <3>1. p \notin live /\ p \notin live' /\ page'[p].op = "load"
      BY <2>1, <2>2, <2>3 DEF OnItsWay
    <3> QED
      BY <2>2, <2>3, <3>1 DEF OnItsWay
  <2>4. CASE at # "ready"
    BY <2>1, <2>2, <2>4 DEF OnItsWay
  <2> QED
    BY <2>3, <2>4
<1>4. next.at # "absent"
  BY <1>1
<1> QED
  BY <1>1, <1>2, <1>3, <1>4, QuietPageStep

LEMMA ToggleKeepsStreams ==
    ASSUME StreamInv, NEW p \in Page, NEW on \in BOOLEAN, Alerts!Toggle(p, on)
    PROVE  StreamInv'
<1> DEFINE next == [page[p] EXCEPT !.at = "saving", !.op = IF on THEN "on" ELSE "off"]
<1>0. page[p] \in Pages /\ permission \in {"denied", "in_use", "always"}
  BY PageWrites
<1>1. next \in Pages /\ next.at = "saving" /\ next.mounted = page[p].mounted
  BY <1>0 DEF Pages, Alerts!Places
<1>2. page' = [page EXCEPT ![p] = next] /\ page'[p] = next
  BY DEF Alerts!Toggle, StreamInv, Alerts!TypeOK
<1>3. /\ page[p].mounted
      /\ UNCHANGED <<permission, consent, stray, live, armed, evaluations, stops>>
  BY DEF Alerts!Toggle, Alerts!UNCHANGED_STREAM
<1> HIDE DEF next
<1>4. OnItsWay(p)'
  BY <1>1, <1>2, <1>3 DEF OnItsWay
<1> QED
  BY <1>0, <1>1, <1>2, <1>3, <1>4, QuietPageStep

LEMMA ListenKeepsStreams ==
    ASSUME StreamInv, NEW p \in Page, Alerts!Listen(p)
    PROVE  StreamInv'
<1> DEFINE next == [page[p] EXCEPT !.at = "ready", !.enabled = TRUE]
<1>0. page[p] \in Pages /\ permission \in {"denied", "in_use", "always"} /\ (p \notin stray => OnItsWay(p))
  BY PageWrites
<1>1. next \in Pages /\ next.at = "ready" /\ next.enabled /\ next.mounted = page[p].mounted
  BY <1>0 DEF Pages, Alerts!Places
<1>2. page' = [page EXCEPT ![p] = next] /\ page'[p] = next
  BY DEF Alerts!Listen, StreamInv, Alerts!TypeOK
<1>3. /\ page[p].at = "listening" /\ live' = live \cup {p} /\ armed' = armed \ {p}
      /\ UNCHANGED <<permission, consent, stray, evaluations, stops>>
  BY DEF Alerts!Listen
<1> HIDE DEF next
<1>4. p \notin stray' => OnItsWay(p)'
  <2> SUFFICES ASSUME p \notin stray  PROVE  OnItsWay(p)'
    BY <1>3
  <2>1. page[p].mounted /\ consent
    BY <1>0, <1>3 DEF OnItsWay
  <2> QED
    BY <1>1, <1>2, <1>3, <2>1 DEF OnItsWay
<1> QED
  BY <1>0, <1>1, <1>2, <1>3, <1>4, QuietPageStep

LEMMA StopKeepsStreams ==
    ASSUME StreamInv, NEW p \in Page, Alerts!Stop(p)
    PROVE  StreamInv'
<1> DEFINE next == [page[p] EXCEPT !.at = "ready", !.enabled = FALSE]
<1>0. page[p] \in Pages /\ permission \in {"denied", "in_use", "always"} /\ (p \notin stray => OnItsWay(p))
  BY PageWrites
<1>1. next \in Pages /\ next.at = "ready" /\ next.mounted = page[p].mounted
  BY <1>0 DEF Pages, Alerts!Places
<1>2. page' = [page EXCEPT ![p] = next] /\ page'[p] = next
  BY DEF Alerts!Stop, StreamInv, Alerts!TypeOK
<1>3. /\ page[p].at = "stopping" /\ live' = live \ {p} /\ armed' = armed \ {p}
      /\ UNCHANGED <<permission, consent, stray, evaluations, stops>>
  BY DEF Alerts!Stop
<1> HIDE DEF next
<1>4. p \notin stray' => OnItsWay(p)'
  <2> SUFFICES ASSUME p \notin stray  PROVE  OnItsWay(p)'
    BY <1>3
  <2>1. ~consent
    BY <1>0, <1>3 DEF OnItsWay
  <2> QED
    BY <1>1, <1>2, <1>3, <2>1 DEF OnItsWay
<1> QED
  BY <1>0, <1>1, <1>2, <1>3, <1>4, QuietPageStep

LEMMA DisposeKeepsStreams ==
    ASSUME StreamInv, NEW p \in Page, Alerts!Dispose(p)
    PROVE  StreamInv'
<1> DEFINE next == [page[p] EXCEPT !.mounted = FALSE]
<1>0. /\ page[p] \in Pages /\ permission \in {"denied", "in_use", "always"}
      /\ page[p].mounted /\ page[p].at # "absent"
  BY PageWrites DEF Alerts!Dispose, StreamInv, OnScreen
<1>1. next \in Pages /\ next.at = page[p].at /\ next.mounted = FALSE
  BY <1>0 DEF Pages
<1>2. page' = [page EXCEPT ![p] = next] /\ page'[p] = next
  BY DEF Alerts!Dispose, StreamInv, Alerts!TypeOK
<1>3. /\ live' = live \ {p} /\ armed' = armed \ {p}
      /\ stray' = IF page[p].at = "ready" THEN stray ELSE stray \cup {p}
      /\ UNCHANGED <<permission, consent, evaluations, stops>>
  BY DEF Alerts!Dispose
<1> HIDE DEF next
<1>4. p \notin stray' => OnItsWay(p)'
  BY <1>1, <1>2, <1>3 DEF OnItsWay
<1> QED
  BY <1>0, <1>1, <1>2, <1>3, <1>4, QuietPageStep

LEMMA SaveKeepsStreams ==
    ASSUME StreamInv, NEW p \in Page, Alerts!Save(p)
    PROVE  StreamInv'
<1> DEFINE on == page[p].op = "on"
           next == [page[p] EXCEPT !.at = IF on THEN "starting" ELSE "stopping"]
<1>0. page[p] \in Pages
  BY PageWrites
<1>1. /\ next \in Pages /\ next.mounted = page[p].mounted
      /\ \/ next.at = "starting" /\ on /\ next.op # "load"
         \/ next.at = "stopping" /\ ~on
  BY <1>0 DEF Pages, Alerts!Places
<1>2. [page EXCEPT ![p].at = IF on THEN "starting" ELSE "stopping"] = [page EXCEPT ![p] = next]
  BY DEF StreamInv, Alerts!TypeOK
<1>3. /\ page[p].at = "saving" /\ permission' = permission
      /\ UNCHANGED <<live, armed, evaluations, served, stops>>
      /\ Alerts!Put(p, on, [page EXCEPT ![p].at = IF on THEN "starting" ELSE "stopping"], {})
  BY DEF Alerts!Save, Alerts!UNCHANGED_STREAM
<1>4. on \in BOOLEAN
  OBVIOUS
<1>5. Alerts!Put(p, on, [page EXCEPT ![p] = next], {})
  BY <1>2, <1>3
<1> HIDE DEF next, on
<1> QED
  BY <1>1, <1>3, <1>4, <1>5, PutKeepsStreams

LEMMA RollbackKeepsStreams ==
    ASSUME StreamInv, NEW p \in Page, Alerts!Rollback(p)
    PROVE  StreamInv'
<1> DEFINE next == [page[p] EXCEPT !.at = "ready", !.enabled = FALSE]
<1>0. page[p] \in Pages
  BY PageWrites
<1>1. next \in Pages /\ next.mounted = page[p].mounted /\ next.at = "ready"
  BY <1>0 DEF Pages, Alerts!Places
<1>2. [page EXCEPT ![p].at = "ready", ![p].enabled = FALSE] = [page EXCEPT ![p] = next]
  BY DEF StreamInv, Alerts!TypeOK
<1>3. /\ page[p].at = "rolling" /\ permission' = permission
      /\ UNCHANGED <<live, armed, evaluations, served, stops>>
      /\ Alerts!Put(p, FALSE, [page EXCEPT ![p] = next], live \cap {p})
  BY <1>2 DEF Alerts!Rollback, Alerts!UNCHANGED_STREAM
<1> DEFINE left == live \cap {p}
           off == FALSE
<1>4. left \subseteq {p} /\ (p \notin left => p \notin live) /\ off \in BOOLEAN /\ ~off
  OBVIOUS
<1>5. Alerts!Put(p, off, [page EXCEPT ![p] = next], left)
  BY <1>3
<1> HIDE DEF next, left, off
<1> QED
  BY <1>1, <1>3, <1>4, <1>5, PutKeepsStreams

LEMMA CoordinatorKeepsStreams ==
    ASSUME StreamInv, NEW p \in Page,
           \/ Alerts!ServicesOff(p) \/ Alerts!Permit(p) \/ Alerts!Raise(p) \/ Alerts!Initialize(p)
           \/ Alerts!CancelOld(p)
    PROVE  StreamInv'
<1>0. /\ permission \in {"denied", "in_use", "always"}
      /\ {"ready", "rolling", "permitted", "cancelling", "listening"} \subseteq Alerts!Places
  BY PageWrites DEF Alerts!Places
<1>1. CASE Alerts!Permit(p)
  <2>1. /\ page[p].at = "starting" /\ permission' \in {"denied", "in_use", "always"}
        /\ UNCHANGED <<consent, stray, live, armed, evaluations, stops>>
    BY <1>0, <1>1 DEF Alerts!Permit, Alerts!UNCHANGED_STREAM
  <2>2. \/ Alerts!Goes(p, "permitted")
        \/ page[p].op = "load" /\ Alerts!Goes(p, "ready")
        \/ Alerts!Goes(p, "rolling")
    BY <1>1 DEF Alerts!Permit, Alerts!Refused
  <2> QED
    BY <1>0, <2>1, <2>2, MoveKeepsStreams
<1>2. CASE Alerts!Raise(p)
  BY <1>0, <1>2, MoveKeepsStreams DEF Alerts!Raise, Alerts!UNCHANGED_STREAM
<1>3. CASE Alerts!Initialize(p)
  BY <1>0, <1>3, MoveKeepsStreams DEF Alerts!Initialize, Alerts!UNCHANGED_STREAM
<1>4. CASE Alerts!CancelOld(p)
  BY <1>0, <1>4, MoveKeepsStreams DEF Alerts!CancelOld
<1>5. CASE Alerts!ServicesOff(p)
  BY <1>0, <1>5, MoveKeepsStreams DEF Alerts!ServicesOff, Alerts!Refused, Alerts!UNCHANGED_STREAM
<1> QED
  BY <1>1, <1>2, <1>3, <1>4, <1>5

\* The car, the settings of the device and the requests about a stop leave the pages alone.
LEMMA OutsideKeepsStreams ==
    ASSUME StreamInv,
           \/ Alerts!Drive \/ Alerts!Park \/ Alerts!ChangePermission \/ UNCHANGED Alerts!vars
           \/ \E e \in evaluations : Alerts!Evaluate(e)
    PROVE  StreamInv'
<1>1. /\ UNCHANGED <<page, live, consent, stray>> /\ armed' \in {armed, live, {}}
      /\ permission' \in {"denied", "in_use", "always"}
  BY DEF Alerts!Drive, Alerts!Park, Alerts!ChangePermission, Alerts!vars, Alerts!Evaluate,
         Alerts!UNCHANGED_STREAM, StreamInv, Alerts!TypeOK
<1>2. \A e \in evaluations' : e.page \in Page /\ e.stop \in 1..stops'
  <2>1. CASE Alerts!Park
    <3>1. stops' = stops + 1 /\ evaluations' = evaluations \cup {[page |-> p, stop |-> stops'] : p \in armed}
      BY <2>1 DEF Alerts!Park
    <3>2. \A e \in evaluations : e.page \in Page /\ e.stop \in 1..stops'
      BY <3>1 DEF StreamInv, Alerts!TypeOK
    <3>3. \A p \in armed : /\ [page |-> p, stop |-> stops'].page \in Page
                            /\ [page |-> p, stop |-> stops'].stop \in 1..stops'
      BY <3>1 DEF StreamInv, Alerts!TypeOK
    <3> QED
      BY <3>1, <3>2, <3>3
  <2>2. CASE ~Alerts!Park
    <3>1. evaluations' \subseteq evaluations /\ stops' = stops
      BY <2>2 DEF Alerts!Drive, Alerts!ChangePermission, Alerts!vars, Alerts!Evaluate, Alerts!UNCHANGED_STREAM
    <3> QED
      BY <3>1 DEF StreamInv, Alerts!TypeOK
  <2> QED
    BY <2>1, <2>2
<1>3. Alerts!TypeOK' /\ stops' \in Nat
  <2>1. stops' \in {stops, stops + 1}
    BY DEF Alerts!Drive, Alerts!Park, Alerts!ChangePermission, Alerts!vars, Alerts!Evaluate,
           Alerts!UNCHANGED_STREAM
  <2> QED
    BY <1>1, <1>2, <2>1 DEF StreamInv, Alerts!TypeOK
<1>4. OnScreen' /\ \A p \in Page \ stray' : OnItsWay(p)'
  BY <1>1 DEF StreamInv, OnScreen, OnItsWay
<1> QED
  BY <1>3, <1>4 DEF StreamInv

LEMMA StreamInvKept == StreamInv /\ [Alerts!Next]_Alerts!vars => StreamInv'
<1>1. ASSUME StreamInv, NEW p \in Page, Alerts!Step(p)  PROVE  StreamInv'
  BY <1>1, LoadKeepsStreams, SaveKeepsStreams, RollbackKeepsStreams, CoordinatorKeepsStreams,
     ListenKeepsStreams, StopKeepsStreams DEF Alerts!Step
<1> QED
  BY <1>1, BuildKeepsStreams, DisposeKeepsStreams, ToggleKeepsStreams, OutsideKeepsStreams DEF Alerts!Next

LEMMA StreamInvInit == Alerts!Init => StreamInv
<1> SUFFICES ASSUME Alerts!Init  PROVE  StreamInv
  OBVIOUS
<1> DEFINE none == [Alerts!Built EXCEPT !.at = "absent", !.mounted = FALSE]
<1>1. none \in Pages /\ none.at = "absent" /\ none.mounted = FALSE
  BY DEF Alerts!Built, Pages, Alerts!Places
<1>2. page = [p \in Page |-> none]
  BY DEF Alerts!Init
<1> HIDE DEF none
<1>3. Alerts!TypeOK
  BY <1>1, <1>2 DEF Alerts!Init, Alerts!TypeOK, Pages
<1> QED
  BY <1>1, <1>2, <1>3 DEF Alerts!Init, StreamInv, OnScreen, OnItsWay

\* docs/phase-9:19: at rest the location stream runs for the page on the screen whose switch
\* and preferences say so, for any number of pages, and whatever fails at any await of
\* AlertsPage and its coordinator, but for the pages named stray.
THEOREM StreamsStayExplained == AccountsSpec => []StreamsAreExplained
<1>1. StreamInv => StreamsAreExplained
  BY DEF StreamInv, StreamsAreExplained, Alerts!StreamsAreExplained, OnItsWay
<1> QED
  BY <1>1, StreamInvInit, StreamInvKept, DeviceMovesAlone, PTL DEF Alerts!Spec

\* A stop that a request of the page on the screen is about has not reached the server.
StopInv ==
    /\ stops <= MaxStops /\ served \in [1..MaxStops -> {0, 1}]
    /\ \A s \in 1..MaxStops : s > stops => served[s] = 0
    /\ evaluations \subseteq [page : Page, stop : 1..MaxStops]
    /\ \A e \in evaluations : /\ page[e.page].at # "absent" /\ e.stop <= stops
                              /\ page[e.page].mounted => served[e.stop] = 0

\* No page comes back to the screen, and one that was never built has asked for nothing.
LEMMA PagesComeOnce ==
    ASSUME StreamInv, NEW p \in Page,
           \/ Alerts!Step(p) \/ Alerts!Build(p) \/ Alerts!Dispose(p)
           \/ \E on \in BOOLEAN : Alerts!Toggle(p, on)
    PROVE  \A q \in Page : /\ page'[q].mounted => page[q].mounted \/ page[q].at = "absent"
                           /\ page'[q].at = "absent" => page[q].at = "absent"
<1>0. page \in [Page -> Pages]
  BY DEF StreamInv, Alerts!TypeOK, Pages
<1>1. ASSUME NEW at, at # "absent", Alerts!Goes(p, at)
      PROVE  \A q \in Page : /\ page'[q].mounted => page[q].mounted \/ page[q].at = "absent"
                             /\ page'[q].at = "absent" => page[q].at = "absent"
  BY <1>0, <1>1 DEF Alerts!Goes, Pages
<1>2. CASE Alerts!Load(p)
  <2>1. CASE page' = [page EXCEPT ![p].enabled = consent,
                                  ![p].at = IF consent THEN "starting" ELSE "ready"]
    BY <1>0, <2>1 DEF Pages
  <2> QED
    BY <1>1, <1>2, <2>1 DEF Alerts!Load
<1>3. CASE Alerts!Save(p)
  <2>1. CASE page' = [page EXCEPT ![p].at = IF page[p].op = "on" THEN "starting" ELSE "stopping"]
    BY <1>0, <2>1 DEF Pages
  <2> QED
    BY <1>1, <1>3, <2>1 DEF Alerts!Save, Alerts!Put
<1>4. CASE Alerts!Rollback(p)
  <2>1. CASE page' = [page EXCEPT ![p].at = "ready", ![p].enabled = FALSE]
    BY <1>0, <2>1 DEF Pages
  <2> QED
    BY <1>1, <1>4, <2>1 DEF Alerts!Rollback, Alerts!Put
<1>5. CASE \/ Alerts!ServicesOff(p) \/ Alerts!Permit(p) \/ Alerts!Raise(p) \/ Alerts!Initialize(p)
           \/ Alerts!CancelOld(p)
  <2>1. \E at \in {"permitted", "ready", "rolling", "cancelling", "listening"} : Alerts!Goes(p, at)
    BY <1>5 DEF Alerts!ServicesOff, Alerts!Permit, Alerts!Refused, Alerts!Raise, Alerts!Initialize, Alerts!CancelOld
  <2> QED
    BY <1>1, <2>1
<1>6. CASE Alerts!Listen(p) \/ Alerts!Stop(p)
  BY <1>0, <1>6 DEF Alerts!Listen, Alerts!Stop, Pages
<1>7. CASE Alerts!Build(p)
  BY <1>0, <1>7 DEF Alerts!Build, Alerts!Built
<1>8. CASE Alerts!Dispose(p)
  BY <1>0, <1>8 DEF Alerts!Dispose, Pages
<1>9. ASSUME NEW on \in BOOLEAN, Alerts!Toggle(p, on)
      PROVE  \A q \in Page : /\ page'[q].mounted => page[q].mounted \/ page[q].at = "absent"
                             /\ page'[q].at = "absent" => page[q].at = "absent"
  <2> DEFINE next == [page[p] EXCEPT !.at = "saving", !.op = IF on THEN "on" ELSE "off"]
  <2>1. page' = [page EXCEPT ![p] = next] /\ next.at = "saving" /\ page[p].mounted
    BY <1>0, <1>9 DEF Alerts!Toggle, Pages
  <2> HIDE DEF next
  <2> QED
    BY <1>0, <2>1
<1> QED
  BY <1>2, <1>3, <1>4, <1>5, <1>6, <1>7, <1>8, <1>9 DEF Alerts!Step

\* Every armed stream asks about a new stop, the streams of pages that are gone too.
LEMMA ParkKeepsStops ==
    ASSUME StreamInv, StopInv, Alerts!Park
    PROVE  StopInv'
<1> USE AccountsShapes DEF Alerts!AlertShapes
<1>1. /\ stops \in Nat /\ stops < MaxStops /\ stops' = stops + 1 /\ armed \subseteq Page
      /\ evaluations' = evaluations \cup {[page |-> p, stop |-> stops'] : p \in armed}
      /\ page' = page /\ served' = served
  BY DEF Alerts!Park, StreamInv, Alerts!TypeOK
<1>2. stops' \in 1..MaxStops /\ served[stops'] = 0
  BY <1>1 DEF StopInv
<1>3. ASSUME NEW p \in armed
      PROVE  LET e == [page |-> p, stop |-> stops']
             IN  /\ e \in [page : Page, stop : 1..MaxStops]
                 /\ page[e.page].at # "absent" /\ e.stop <= stops' /\ served[e.stop] = 0
  BY <1>1, <1>2 DEF StreamInv, OnScreen
<1>4. \A e \in evaluations : e.stop \in 1..MaxStops /\ e.stop <= stops'
  BY <1>1 DEF StopInv
<1> QED
  BY <1>1, <1>2, <1>3, <1>4 DEF StopInv

\* A request that reaches the server is of the page on the screen: no other one of its stop
\* still will.
LEMMA EvaluateKeepsStops ==
    ASSUME StreamInv, StopInv, NEW e \in evaluations, Alerts!Evaluate(e)
    PROVE  StopInv'
<1>1. /\ evaluations' = evaluations \ {e} /\ UNCHANGED <<page, stops>>
      /\ e.page \in Page /\ e.stop \in 1..MaxStops /\ e.stop <= stops
  BY DEF Alerts!Evaluate, StopInv
<1>2. CASE served' = served
  BY <1>1, <1>2 DEF StopInv
<1>3. CASE page[e.page].mounted /\ served' = [served EXCEPT ![e.stop] = @ + 1]
  <2>1. served[e.stop] = 0
    BY <1>3 DEF StopInv
  <2>2. /\ served' \in [1..MaxStops -> {0, 1}]
        /\ \A s \in 1..MaxStops : s # e.stop => served'[s] = served[s]
    BY <1>1, <1>3, <2>1 DEF StopInv
  <2>3. ASSUME NEW f \in evaluations, f # e, page[f.page].mounted
        PROVE  f.stop # e.stop
    <3>1. e.page = f.page
      BY <1>1, <1>3, <2>3 DEF StopInv, StreamInv, OnScreen
    <3>2. e \in [page : Page, stop : 1..MaxStops] /\ f \in [page : Page, stop : 1..MaxStops]
      BY DEF StopInv
    <3> QED
      BY <2>3, <3>1, <3>2
  <2>4. \A s \in 1..MaxStops : s > stops => s # e.stop
    BY <1>1, AccountsShapes DEF Alerts!AlertShapes, StreamInv
  <2>5. \A f \in evaluations' : f.stop \in 1..MaxStops
    BY <1>1 DEF StopInv
  <2> QED
    BY <1>1, <2>2, <2>3, <2>4, <2>5 DEF StopInv
<1> QED
  BY <1>2, <1>3 DEF Alerts!Evaluate

LEMMA StopInvKept == StreamInv /\ StopInv /\ [Alerts!Next]_Alerts!vars => StopInv'
<1> SUFFICES ASSUME StreamInv, StopInv, [Alerts!Next]_Alerts!vars  PROVE  StopInv'
  OBVIOUS
<1>1. ASSUME NEW p \in Page,
             \/ Alerts!Step(p) \/ Alerts!Build(p) \/ Alerts!Dispose(p)
             \/ \E on \in BOOLEAN : Alerts!Toggle(p, on)
      PROVE  StopInv'
  <2>1. UNCHANGED <<evaluations, served, stops>>
    BY <1>1 DEF Alerts!Step, Alerts!Load, Alerts!Save, Alerts!Rollback, Alerts!ServicesOff, Alerts!Permit,
       Alerts!Raise, Alerts!Initialize, Alerts!CancelOld, Alerts!Listen, Alerts!Stop, Alerts!UNCHANGED_STREAM,
       Alerts!Build, Alerts!Dispose, Alerts!Toggle
  <2>2. \A q \in Page : /\ page'[q].mounted => page[q].mounted \/ page[q].at = "absent"
                        /\ page'[q].at = "absent" => page[q].at = "absent"
    BY <1>1, PagesComeOnce
  <2>3. \A e \in evaluations : e.page \in Page
    BY DEF StopInv
  <2> QED
    BY <2>1, <2>2, <2>3 DEF StopInv
<1>2. CASE Alerts!Drive \/ Alerts!ChangePermission \/ UNCHANGED Alerts!vars
  BY <1>2 DEF Alerts!Drive, Alerts!ChangePermission, Alerts!vars, Alerts!UNCHANGED_STREAM, StopInv
<1> QED
  BY <1>1, <1>2, ParkKeepsStops, EvaluateKeepsStops DEF Alerts!Next

\* docs/phase-9:12: a stop of the car reaches the server at most once, for any number of
\* pages, whose streams may outlive them, and any order of their requests.
THEOREM StopsAreAskedOnce == AccountsSpec => []OneEvaluationPerStop
<1>1. Alerts!Init => StopInv
  BY AccountsShapes DEF Alerts!AlertShapes, Alerts!Init, StopInv
<1>2. StopInv => OneEvaluationPerStop
  BY DEF StopInv, OneEvaluationPerStop, Alerts!OneEvaluationPerStop
<1> QED
  BY <1>1, <1>2, StreamInvInit, StreamInvKept, StopInvKept, DeviceMovesAlone, PTL DEF Alerts!Spec

-------------------------------------------------------------------------------
(* Privacy rights: the requests of Privacy and what they hold *)

LEMMA RightsMoveAlone == AccountsSpec => Rights!Spec
<1>1. AccountsInit => Rights!Init
  BY DEF AccountsInit
<1>2. [AccountsNext]_<<vars, rights, sales, device, component>> => [Rights!Next]_Rights!vars
  BY DEF AccountsNext, rights, Rights!vars
<1> QED
  BY <1>1, <1>2, PTL DEF AccountsSpec, Rights!Spec

SectionsRead == [first : SUBSET Rights!ConsentDecision, last : SUBSET Rights!AuditEvent]
RightsRow == Rights!ConsentDecision \cup Rights!DataRightsRequest \cup Rights!AuditEvent
RightsRequest == [at : Rights!Ats, kind : Rights!Kinds, user : Subject \cup {Nobody},
                  asked : 0..MaxRows, row : SUBSET RightsRow,
                  seen : SUBSET (RightsRow \cup SectionsRead), nulled : SUBSET (1..MaxRows)]

DecisionsBy(t) == {c \in Rights!ConsentDecision : c.user = t.user}
ReceiptsOf(t, status) ==
    {r \in Rights!DataRightsRequest : /\ r.user = t.user /\ r.subject_reference = t.user
                                      /\ r.type = t.kind /\ r.status = status}

Writing == {"consent", "export", "deletion"}

\* What a request of privacy/service.py holds at each of its statements.
WellFormed(t) ==
    /\ t.at = "idle" => t.kind = "none" /\ t.row = {}
    /\ t.kind = "none" => t.at = "idle"
    /\ t.at \in {"read", "nulled", "deleted", "erased_outside", "completed"} => t.kind \in {"export", "deletion"}
    /\ t.kind \in Writing \cup {"track"} => t.user \in Subject
    /\ t.at = "authenticated" =>
         /\ t.kind \in Writing /\ t.row = {}
         /\ t.kind = "consent" => \E c \in DecisionsBy(t) : t.seen = {c}
         /\ t.kind # "consent" => \E r \in ReceiptsOf(t, "processing") : t.seen = {r}
    /\ t.kind = "consent" /\ t.at # "authenticated" =>
         t.at = "inserted" /\ t.seen = {} /\ \E c \in DecisionsBy(t) : t.row = {c}
    /\ t.kind \in {"export", "deletion"} /\ t.at \in {"inserted", "read", "erased_outside"} =>
         \E r \in ReceiptsOf(t, "processing") : t.row = {r}
    /\ t.kind \in {"export", "deletion"} /\ t.at \in {"completed", "nulled", "deleted"} =>
         \E r \in ReceiptsOf(t, "completed") : t.row = {r}
    /\ t.kind = "export" =>
         /\ t.at \in {"authenticated", "inserted", "read", "completed"}
         /\ t.at = "read" => t.seen \subseteq Rights!ConsentDecision
         /\ t.at = "completed" => t.seen \subseteq SectionsRead
    /\ t.kind = "deletion" =>
         t.at \in {"authenticated", "inserted", "erased_outside", "completed", "nulled", "deleted"}
    /\ t.kind = "track" => t.at = "consented" /\ t.row = {}
    /\ t.kind = "logout" => t.at = "inserted" /\ t.seen = {} /\ t.row \subseteq Rights!AuditEvent

\* TypeOK of Privacy but for the length of the buffer, with the shape of a request.
RightsTypes ==
    /\ users \subseteq Subject
    /\ consents \subseteq Rights!ConsentDecision /\ receipts \subseteq Rights!DataRightsRequest
    /\ audit \subseteq Rights!AuditEvent /\ events \subseteq Rights!ProductEvent
    /\ now \in 0..MaxTime /\ written \in 0..MaxRows
    /\ asked \in [Request -> RightsRequest] /\ \A q \in Request : WellFormed(asked[q])

LEMMA IdleAsks == Rights!Idle \in RightsRequest /\ WellFormed(Rights!Idle)
<1> MaxRows \in Nat
  BY AccountsShapes DEF Rights!PrivacyShapes
<1>1. Rights!Idle \in RightsRequest
  BY DEF RightsRequest, Rights!Idle, Rights!Ats, Rights!Kinds
<1>2. WellFormed(Rights!Idle)
  BY DEF WellFormed, Rights!Idle, Writing
<1> QED
  BY <1>1, <1>2

\* A statement of one request leaves the others as they are.
LEMMA EnterOne ==
    ASSUME RightsTypes, NEW q \in Request, NEW next \in RightsRequest, WellFormed(next),
           Rights!Enter(q, next)
    PROVE  /\ asked' \in [Request -> RightsRequest] /\ asked'[q] = next
           /\ \A o \in Request \ {q} : asked'[o] = asked[o]
           /\ \A o \in Request : WellFormed(asked'[o])
BY DEF Rights!Enter, RightsTypes

\* The record of a request that begins.
LEMMA BeginAsks ==
    ASSUME RightsTypes, NEW q \in Request, NEW kind \in Writing, NEW u \in Subject, NEW new,
           Rights!Begin(q, kind, u, new),
           kind = "consent" => new \in Rights!ConsentDecision /\ new.user = u,
           kind # "consent" => /\ new \in Rights!DataRightsRequest /\ new.type = kind
                               /\ new.user = u /\ new.subject_reference = u /\ new.status = "processing"
    PROVE  /\ asked' \in [Request -> RightsRequest] /\ \A o \in Request : WellFormed(asked'[o])
           /\ \A o \in Request \ {q} : asked'[o] = asked[o]
           /\ asked'[q].at = "authenticated" /\ asked'[q].kind = kind /\ asked'[q].user = u
           /\ asked'[q].row = {} /\ asked'[q].seen = {new} /\ asked'[q].asked \in {0, written}
<1> DEFINE next == [Rights!Idle EXCEPT !.at = "authenticated", !.kind = kind, !.user = u,
                      !.asked = IF kind = "export" THEN written ELSE 0, !.seen = {new}]
<1>0. MaxRows \in Nat /\ written \in 0..MaxRows /\ 0 \in 0..MaxRows
  BY AccountsShapes DEF Rights!PrivacyShapes, RightsTypes
<1>1. /\ next.at = "authenticated" /\ next.kind = kind /\ next.user = u
      /\ next.asked \in {0, written} /\ next.seen = {new} /\ next.row = {}
  BY DEF Rights!Idle
<1>2. new \in RightsRow
  BY DEF RightsRow
<1>3. next \in RightsRequest
  BY <1>0, <1>2 DEF RightsRequest, Rights!Idle, Rights!Ats, Rights!Kinds, Writing
<1>4. Rights!Enter(q, next)
  BY DEF Rights!Begin
<1> HIDE DEF next
<1>5. WellFormed(next)
  <2>1. kind = "consent" => \E c \in DecisionsBy(next) : next.seen = {c}
    BY <1>1 DEF DecisionsBy
  <2>2. kind # "consent" => \E r \in ReceiptsOf(next, "processing") : next.seen = {r}
    BY <1>1 DEF ReceiptsOf
  <2> QED
    BY <1>1, <2>1, <2>2 DEF WellFormed, Writing
<1> QED
  BY <1>1, <1>3, <1>4, <1>5, EnterOne

\* A rejected statement, a lost deadlock or an end: the request holds nothing any more.
LEMMA EndAsks ==
    ASSUME RightsTypes, NEW q \in Request, Rights!Enter(q, Rights!Idle)
    PROVE  /\ asked' \in [Request -> RightsRequest] /\ \A o \in Request : WellFormed(asked'[o])
           /\ asked'[q] = Rights!Idle /\ \A o \in Request \ {q} : asked'[o] = asked[o]
BY IdleAsks, EnterOne

\* A request that moves on to another statement keeps what it has, but what is named.
Moves(q, at, row, seen) ==
    /\ asked' \in [Request -> RightsRequest] /\ \A o \in Request : WellFormed(asked'[o])
    /\ \A o \in Request \ {q} : asked'[o] = asked[o]
    /\ asked'[q].kind = asked[q].kind /\ asked'[q].user = asked[q].user
    /\ asked'[q].asked = asked[q].asked
    /\ asked'[q].at = at /\ asked'[q].row = row /\ asked'[q].seen = seen

LEMMA InsertAsks ==
    ASSUME RightsTypes, NEW q \in Request, Rights!Insert(q)
    PROVE  Moves(q, "inserted", asked[q].seen, {})
<1> DEFINE t == asked[q]
           next == [t EXCEPT !.at = "inserted", !.row = t.seen, !.seen = {}]
<1>0. t \in RightsRequest /\ WellFormed(t) /\ t.at = "authenticated"
  BY DEF RightsTypes, Rights!Insert
<1>1. /\ next.at = "inserted" /\ next.kind = t.kind /\ next.user = t.user
      /\ next.asked = t.asked /\ next.row = t.seen /\ next.seen = {}
  BY <1>0 DEF RightsRequest
<1>2. t.seen \subseteq RightsRow /\ t.kind \in Writing
  <2>1. t.kind \in Writing
    BY <1>0 DEF WellFormed
  <2>2. \E x \in RightsRow : t.seen = {x}
    BY <1>0 DEF WellFormed, DecisionsBy, ReceiptsOf, RightsRow
  <2> QED
    BY <2>1, <2>2
<1>3. next \in RightsRequest
  BY <1>0, <1>2 DEF RightsRequest, Rights!Ats
<1>4. Rights!Enter(q, next)
  BY DEF Rights!Insert
<1> HIDE DEF next
<1>5. WellFormed(next)
  BY <1>0, <1>1, <1>2 DEF WellFormed, Writing, DecisionsBy, ReceiptsOf
<1> QED
  BY <1>1, <1>3, <1>4, <1>5, EnterOne DEF Moves

LEMMA StatementAsks ==
    ASSUME RightsTypes, NEW q \in Request
    PROVE  /\ Rights!EraseOutside(q) => Moves(q, "erased_outside", asked[q].row, asked[q].seen)
           /\ Rights!DeleteUser(q) => Moves(q, "deleted", asked[q].row, asked[q].seen)
<1> DEFINE t == asked[q]
<1>0. t \in RightsRequest /\ WellFormed(t)
  BY DEF RightsTypes
<1>1. ASSUME NEW at \in {"erased_outside", "deleted"}, t.kind = "deletion",
             t.at = IF at = "deleted" THEN "nulled" ELSE "inserted", Rights!Step(q, at)
      PROVE  Moves(q, at, t.row, t.seen)
  <2> DEFINE next == [t EXCEPT !.at = at]
  <2>1. /\ next.at = at /\ next.kind = t.kind /\ next.user = t.user
        /\ next.asked = t.asked /\ next.row = t.row /\ next.seen = t.seen
    BY <1>0 DEF RightsRequest
  <2>2. next \in RightsRequest /\ Rights!Enter(q, next)
    BY <1>0, <1>1 DEF RightsRequest, Rights!Ats, Rights!Step
  <2> HIDE DEF next
  <2>3. WellFormed(next)
    BY <1>0, <1>1, <2>1 DEF WellFormed, Writing, DecisionsBy, ReceiptsOf
  <2> QED
    BY <2>1, <2>2, <2>3, EnterOne DEF Moves
<1>2. t.at = "nulled" => t.kind = "deletion"
  BY <1>0 DEF WellFormed
<1> QED
  BY <1>1, <1>2 DEF Rights!EraseOutside, Rights!DeleteUser

LEMMA ReadSectionsAsks ==
    ASSUME RightsTypes, NEW q \in Request, Rights!ReadSections(q)
    PROVE  Moves(q, "read", asked[q].row, Rights!OwnSections(asked[q].user))
<1> DEFINE t == asked[q]
           next == [t EXCEPT !.at = "read", !.seen = Rights!OwnSections(t.user)]
<1>0. t \in RightsRequest /\ WellFormed(t) /\ t.at = "inserted" /\ t.kind = "export"
  BY DEF RightsTypes, Rights!ReadSections
<1>1. /\ next.at = "read" /\ next.kind = t.kind /\ next.user = t.user
      /\ next.asked = t.asked /\ next.row = t.row /\ next.seen = Rights!OwnSections(t.user)
  BY <1>0 DEF RightsRequest
<1>2. Rights!OwnSections(t.user) \subseteq Rights!ConsentDecision
  BY DEF RightsTypes, Rights!OwnSections
<1>3. next \in RightsRequest
  BY <1>0, <1>2 DEF RightsRequest, RightsRow, Rights!Ats
<1>4. Rights!Enter(q, next)
  BY DEF Rights!ReadSections
<1> HIDE DEF next
<1>5. WellFormed(next)
  BY <1>0, <1>1, <1>2 DEF WellFormed, Writing, ReceiptsOf
<1> QED
  BY <1>1, <1>3, <1>4, <1>5, EnterOne DEF Moves

\* complete_request rewrites the row the request has inserted.
Done(row) == {[r EXCEPT !.status = "completed"] : r \in row}
LEMMA ReceiptCompletes ==
    ASSUME NEW t, \E r \in ReceiptsOf(t, "processing") : t.row = {r}
    PROVE  Done(t.row) \subseteq RightsRow /\ \E r \in ReceiptsOf(t, "completed") : Done(t.row) = {r}
<1>1. PICK r \in ReceiptsOf(t, "processing") : t.row = {r}
  OBVIOUS
<1> DEFINE done == [r EXCEPT !.status = "completed"]
<1>2. done \in ReceiptsOf(t, "completed")
  BY <1>1 DEF ReceiptsOf, Rights!DataRightsRequest
<1>3. Done(t.row) = {done}
  BY <1>1 DEF Done
<1> QED
  BY <1>2, <1>3 DEF ReceiptsOf, RightsRow

LEMMA ReadAuditAsks ==
    ASSUME RightsTypes, NEW q \in Request, Rights!ReadAudit(q)
    PROVE  Moves(q, "completed", Done(asked[q].row),
                 {[first |-> asked[q].seen, last |-> Rights!SubjectRows(asked[q].user)]})
<1> DEFINE t == asked[q]
           row == Done(t.row)
           seen == {[first |-> t.seen, last |-> Rights!SubjectRows(t.user)]}
           next == [t EXCEPT !.at = "completed", !.seen = seen, !.row = row]
<1>0. t \in RightsRequest /\ WellFormed(t) /\ t.at = "read" /\ t.kind = "export"
  BY DEF RightsTypes, Rights!ReadAudit
<1>1. /\ next.at = "completed" /\ next.kind = t.kind /\ next.user = t.user
      /\ next.asked = t.asked /\ next.row = row /\ next.seen = seen
  BY <1>0 DEF RightsRequest
<1>2. row \subseteq RightsRow /\ \E r \in ReceiptsOf(t, "completed") : row = {r}
  <2>1. \E r \in ReceiptsOf(t, "processing") : t.row = {r}
    BY <1>0 DEF WellFormed
  <2> QED
    BY <2>1, ReceiptCompletes
<1>3. seen \subseteq SectionsRead
  BY <1>0 DEF WellFormed, SectionsRead, Rights!SubjectRows, RightsTypes
<1> HIDE DEF row, seen
<1>4. next \in RightsRequest
  BY <1>0, <1>2, <1>3 DEF RightsRequest, Rights!Ats
<1>5. Rights!Enter(q, next)
  BY DEF Rights!ReadAudit, Done, row, seen
<1> HIDE DEF next
<1>6. WellFormed(next)
  BY <1>0, <1>1, <1>2, <1>3 DEF WellFormed, Writing, ReceiptsOf
<1>7. Moves(q, "completed", row, seen)
  BY <1>1, <1>4, <1>5, <1>6, EnterOne DEF Moves
<1> QED
  BY <1>7 DEF row, seen

LEMMA CompletedAsks ==
    ASSUME RightsTypes, NEW q \in Request, Rights!Completed(q)
    PROVE  Moves(q, "completed", Done(asked[q].row), asked[q].seen)
<1> DEFINE t == asked[q]
           row == Done(t.row)
           next == [t EXCEPT !.at = "completed", !.row = row]
<1>0. t \in RightsRequest /\ WellFormed(t) /\ t.at = "erased_outside" /\ t.kind = "deletion"
  BY DEF RightsTypes, Rights!Completed
<1>1. /\ next.at = "completed" /\ next.kind = t.kind /\ next.user = t.user
      /\ next.asked = t.asked /\ next.row = row /\ next.seen = t.seen
  BY <1>0 DEF RightsRequest
<1>2. row \subseteq RightsRow /\ \E r \in ReceiptsOf(t, "completed") : row = {r}
  <2>1. \E r \in ReceiptsOf(t, "processing") : t.row = {r}
    BY <1>0 DEF WellFormed
  <2> QED
    BY <2>1, ReceiptCompletes
<1> HIDE DEF row
<1>3. next \in RightsRequest
  BY <1>0, <1>2 DEF RightsRequest, Rights!Ats
<1>4. Rights!Enter(q, next)
  BY DEF Rights!Completed, Done, row
<1> HIDE DEF next
<1>5. WellFormed(next)
  BY <1>0, <1>1, <1>2 DEF WellFormed, Writing, ReceiptsOf
<1>6. Moves(q, "completed", row, t.seen)
  BY <1>1, <1>3, <1>4, <1>5, EnterOne DEF Moves
<1> QED
  BY <1>6 DEF row

LEMMA NullSubjectsAsks ==
    ASSUME RightsTypes, NEW q \in Request, Rights!NullSubjects(q)
    PROVE  Moves(q, "nulled", asked[q].row, asked[q].seen)
<1> DEFINE t == asked[q]
           ids == {a.id : a \in Rights!SubjectRows(t.user)}
           next == [t EXCEPT !.at = "nulled", !.nulled = ids]
<1>0. t \in RightsRequest /\ WellFormed(t) /\ t.at = "completed" /\ t.kind = "deletion"
  BY DEF RightsTypes, Rights!NullSubjects
<1>1. /\ next.at = "nulled" /\ next.kind = t.kind /\ next.user = t.user
      /\ next.asked = t.asked /\ next.row = t.row /\ next.seen = t.seen
  BY <1>0 DEF RightsRequest
<1>2. ids \subseteq 1..MaxRows
  BY DEF RightsTypes, Rights!SubjectRows, Rights!AuditEvent
<1>3. next \in RightsRequest
  BY <1>0, <1>2 DEF RightsRequest, Rights!Ats
<1>4. Rights!Enter(q, next)
  BY DEF Rights!NullSubjects
<1> HIDE DEF next
<1>5. WellFormed(next)
  BY <1>0, <1>1 DEF WellFormed, Writing, ReceiptsOf
<1> QED
  BY <1>1, <1>3, <1>4, <1>5, EnterOne DEF Moves

LEMMA LogoutAsks ==
    ASSUME RightsTypes, NEW q \in Request, NEW u \in Subject, Rights!Logout(q, u)
    PROVE  /\ asked' \in [Request -> RightsRequest] /\ \A o \in Request : WellFormed(asked'[o])
           /\ \A o \in Request \ {q} : asked'[o] = asked[o]
           /\ asked'[q].at = "inserted" /\ asked'[q].kind = "logout" /\ asked'[q].asked = 0
<1> DEFINE new == [id |-> Rights!NextId, subject |-> u, stamp |-> 0]
           next == [Rights!Idle EXCEPT !.at = "inserted", !.kind = "logout", !.user = u, !.row = {new}]
<1>0. MaxRows \in Nat /\ written \in 0..MaxRows /\ written < MaxRows
  BY AccountsShapes DEF Rights!PrivacyShapes, RightsTypes, Rights!Logout
<1>1. /\ next.at = "inserted" /\ next.kind = "logout" /\ next.user = u /\ next.row = {new}
      /\ next.seen = {} /\ next.asked = 0
  BY DEF Rights!Idle
<1>2. new \in Rights!AuditEvent
  BY <1>0 DEF Rights!AuditEvent, Rights!NextId
<1> HIDE DEF new
<1>3. next \in RightsRequest
  <2>1. {new} \subseteq RightsRow /\ 0 \in 0..MaxRows
    BY <1>0, <1>2 DEF RightsRow
  <2> QED
    BY <2>1 DEF RightsRequest, Rights!Idle, Rights!Ats, Rights!Kinds
<1>4. Rights!Enter(q, next)
  BY DEF Rights!Logout, new
<1> HIDE DEF next
<1>5. WellFormed(next)
  BY <1>1, <1>2 DEF WellFormed, Writing
<1> QED
  BY <1>1, <1>3, <1>4, <1>5, EnterOne

LEMMA TrackAsks ==
    ASSUME RightsTypes, NEW q \in Request, NEW u \in Subject, Rights!Track(q, u)
    PROVE  /\ asked' \in [Request -> RightsRequest] /\ \A o \in Request : WellFormed(asked'[o])
           /\ \A o \in Request \ {q} : asked'[o] = asked[o]
           /\ asked'[q].at = "consented" /\ asked'[q].kind = "track" /\ asked'[q].user = u
           /\ asked'[q].asked = written /\ asked'[q].row = {}
           /\ asked'[q].seen = IF Rights!Granted(u, analytics) THEN Rights!Latest(u, analytics) ELSE {}
<1> DEFINE seen == IF Rights!Granted(u, analytics) THEN Rights!Latest(u, analytics) ELSE {}
           next == [Rights!Idle EXCEPT !.at = "consented", !.kind = "track", !.user = u,
                      !.asked = written, !.seen = seen]
<1>1. /\ next.at = "consented" /\ next.kind = "track" /\ next.user = u
      /\ next.asked = written /\ next.row = {} /\ next.seen = seen
  BY DEF Rights!Idle
<1>2. seen \subseteq RightsRow /\ written \in 0..MaxRows
  BY DEF RightsTypes, Rights!Latest, Rights!Newest, Rights!DecisionsOf, RightsRow
<1> HIDE DEF seen
<1>3. next \in RightsRequest
  BY <1>2 DEF RightsRequest, Rights!Idle, Rights!Ats, Rights!Kinds
<1>4. Rights!Enter(q, next)
  BY DEF Rights!Track, seen
<1> HIDE DEF next
<1>5. WellFormed(next)
  BY <1>1 DEF WellFormed, Writing
<1> QED
  BY <1>1, <1>3, <1>4, <1>5, EnterOne DEF seen

\* The decision that a consent commits: the one it inserted, stamped with its order.
LEMMA CommittedDecision ==
    ASSUME RightsTypes, NEW q \in Request, Rights!CommitConsent(q)
    PROVE  \E c \in Rights!ConsentDecision, d \in Rights!ConsentDecision :
              /\ asked[q].row = {c} /\ consents' = consents \cup {d}
              /\ c.user = asked[q].user /\ d.user = c.user /\ d.id = c.id /\ d.at = c.at
              /\ d.purpose = c.purpose /\ d.granted = c.granted /\ d.stamp = written + 1
<1>0. MaxRows \in Nat /\ written \in 0..MaxRows /\ written < MaxRows
  BY AccountsShapes DEF Rights!PrivacyShapes, RightsTypes, Rights!CommitConsent
<1>1. asked[q].kind = "consent" /\ asked[q].at = "inserted"
  BY DEF Rights!CommitConsent
<1>2. PICK c \in DecisionsBy(asked[q]) : asked[q].row = {c}
  BY <1>1 DEF RightsTypes, WellFormed
<1> DEFINE d == [c EXCEPT !.stamp = Rights!NextId]
<1>3. c \in Rights!ConsentDecision /\ c.user = asked[q].user
  BY DEF DecisionsBy
<1>4. /\ d \in Rights!ConsentDecision /\ d.user = c.user /\ d.id = c.id /\ d.at = c.at
      /\ d.purpose = c.purpose /\ d.granted = c.granted /\ d.stamp = written + 1
  BY <1>0, <1>3 DEF Rights!ConsentDecision, Rights!NextId
<1>5. consents' = consents \cup {d}
  BY <1>2 DEF Rights!CommitConsent
<1> QED
  BY <1>2, <1>3, <1>4, <1>5

\* ON DELETE SET NULL keeps the shape of a receipt, and what it says of the erased account.
LEMMA UnlinkedKeeps ==
    ASSUME NEW S \in SUBSET Rights!DataRightsRequest, NEW u
    PROVE  /\ Rights!Unlinked(S, u) \subseteq Rights!DataRightsRequest
           /\ \A r \in S : r.user # u => r \in Rights!Unlinked(S, u)
           /\ \A x \in Rights!Unlinked(S, u) :
                \E r \in S : /\ x.subject_reference = r.subject_reference /\ x.type = r.type
                             /\ x.status = r.status
                             /\ r.user # u => x = r
                             /\ r.user = u => x = [r EXCEPT !.user = Nobody] /\ x.user = Nobody
<1>1. ASSUME NEW r \in S
      PROVE  LET x == [r EXCEPT !.user = Nobody]
             IN  /\ x \in Rights!DataRightsRequest /\ x.user = Nobody
                 /\ x.subject_reference = r.subject_reference /\ x.type = r.type /\ x.status = r.status
  BY DEF Rights!DataRightsRequest
<1> QED
  BY <1>1 DEF Rights!Unlinked

LEMMA RightsBegin ==
    ASSUME RightsTypes, NEW q \in Request, NEW u \in Subject
    PROVE  /\ \A p \in Purpose, grant \in BOOLEAN : Rights!Decide(q, u, p, grant) =>
                \E new \in Rights!ConsentDecision :
                   new.user = u /\ Rights!Begin(q, "consent", u, new) /\ new.id \in {written + 1, -(written + 1)}
           /\ \A type \in {"export", "deletion"} : Rights!RequestFor(q, u, type) =>
                \E new \in Rights!DataRightsRequest :
                   /\ new.user = u /\ new.subject_reference = u /\ new.type = type
                   /\ new.status = "processing" /\ Rights!Begin(q, type, u, new)
<1>0. MaxRows \in Nat /\ MaxTime \in Nat /\ written \in 0..MaxRows /\ now \in 0..MaxTime
  BY AccountsShapes DEF Rights!PrivacyShapes, RightsTypes
<1>1. ASSUME NEW p \in Purpose, NEW grant \in BOOLEAN, Rights!Decide(q, u, p, grant)
      PROVE  \E new \in Rights!ConsentDecision :
                new.user = u /\ Rights!Begin(q, "consent", u, new) /\ new.id \in {written + 1, -(written + 1)}
  <2>1. PICK id \in {Rights!NextId, -Rights!NextId} :
               Rights!Begin(q, "consent", u, [id |-> id, user |-> u, purpose |-> p, granted |-> grant,
                                              at |-> now, stamp |-> 0])
    BY <1>1 DEF Rights!Decide
  <2> DEFINE new == [id |-> id, user |-> u, purpose |-> p, granted |-> grant, at |-> now, stamp |-> 0]
  <2>2. written < MaxRows
    BY <2>1 DEF Rights!Begin
  <2>3. id \in (-MaxRows)..MaxRows /\ 0 \in 0..MaxRows
    BY <1>0, <2>1, <2>2 DEF Rights!NextId
  <2>4. new \in Rights!ConsentDecision
    BY <1>0, <2>3 DEF Rights!ConsentDecision
  <2> QED
    BY <2>1, <2>4 DEF Rights!NextId
<1>2. ASSUME NEW type \in {"export", "deletion"}, Rights!RequestFor(q, u, type)
      PROVE  \E new \in Rights!DataRightsRequest :
                /\ new.user = u /\ new.subject_reference = u /\ new.type = type
                /\ new.status = "processing" /\ Rights!Begin(q, type, u, new)
  <2> DEFINE new == [id |-> Rights!NextId, user |-> u, subject_reference |-> u,
                     type |-> type, status |-> "processing"]
  <2>1. Rights!Begin(q, type, u, new)
    BY <1>2 DEF Rights!RequestFor
  <2>2. written < MaxRows
    BY <2>1 DEF Rights!Begin
  <2>3. Rights!NextId \in 1..MaxRows
    BY <1>0, <2>2 DEF Rights!NextId
  <2>4. new \in Rights!DataRightsRequest
    BY <2>3 DEF Rights!DataRightsRequest
  <2> QED
    BY <2>1, <2>4
<1> QED
  BY <1>1, <1>2

\* The statements that end a request and change nothing else.
GivesUp(q) ==
    \/ Rights!InsertRaises(q) \/ Rights!OutsideFails(q) \/ Rights!DeadlockAbort(q) \/ Rights!Rejected(q)

\* The statements of a transaction whose rows nobody else sees yet.
Works(q) ==
    \/ Rights!Insert(q) \/ Rights!ReadSections(q) \/ Rights!ReadAudit(q) \/ Rights!Completed(q)
    \/ Rights!NullSubjects(q) \/ Rights!DeleteUser(q)

Begins(q, u) ==
    \/ \E new \in Rights!ConsentDecision :
         new.user = u /\ Rights!Begin(q, "consent", u, new) /\ new.id \in {written + 1, -(written + 1)}
    \/ \E type \in {"export", "deletion"}, new \in Rights!DataRightsRequest :
         /\ new.user = u /\ new.subject_reference = u /\ new.type = type /\ new.status = "processing"
         /\ Rights!Begin(q, type, u, new)
    \/ Rights!Logout(q, u)
    \/ Rights!Track(q, u)

Commits(q) ==
    \/ Rights!CommitConsent(q) \/ Rights!CommitExport(q) \/ Rights!CommitErasure(q) \/ Rights!CommitLogout(q)
    \/ Rights!EraseOutside(q) \/ Rights!Publish(q)

\* What a step of the module does, by the kind of its effect.
LEMMA RightsSteps ==
    ASSUME RightsTypes, Rights!Next
    PROVE  \/ Rights!Tick
           \/ \E q \in Request : \/ GivesUp(q) \/ Works(q) \/ Commits(q)
                                 \/ \E u \in Subject : Begins(q, u)
<1>1. CASE Rights!Tick
  BY <1>1
<1>2. ASSUME NEW q \in Request, Rights!Consenting(q)
      PROVE  GivesUp(q) \/ Works(q) \/ Commits(q) \/ \E u \in Subject : Begins(q, u)
  BY <1>2, RightsBegin DEF Rights!Consenting, GivesUp, Works, Commits, Begins
<1>3. ASSUME NEW q \in Request, Rights!Exporting(q)
      PROVE  GivesUp(q) \/ Works(q) \/ Commits(q) \/ \E u \in Subject : Begins(q, u)
  BY <1>3, RightsBegin DEF Rights!Exporting, Works, Commits, Begins
<1>4. ASSUME NEW q \in Request, Rights!Erasing(q)
      PROVE  GivesUp(q) \/ Works(q) \/ Commits(q) \/ \E u \in Subject : Begins(q, u)
  BY <1>4, RightsBegin DEF Rights!Erasing, GivesUp, Works, Commits, Begins
<1>5. ASSUME NEW q \in Request, Rights!Tracking(q) \/ Rights!SigningOut(q)
      PROVE  GivesUp(q) \/ Works(q) \/ Commits(q) \/ \E u \in Subject : Begins(q, u)
  BY <1>5 DEF Rights!Tracking, Rights!SigningOut, GivesUp, Works, Commits, Begins
<1> QED
  BY <1>1, <1>2, <1>3, <1>4, <1>5 DEF Rights!Next

Tables == <<users, consents, receipts, audit, exports>>
Buffer == <<events, tracked, refusals>>

LEMMA GivesUpAsks ==
    ASSUME RightsTypes, NEW q \in Request, GivesUp(q)
    PROVE  /\ asked' \in [Request -> RightsRequest] /\ \A o \in Request : WellFormed(asked'[o])
           /\ asked'[q] = Rights!Idle /\ \A o \in Request \ {q} : asked'[o] = asked[o]
           /\ UNCHANGED <<Tables, Buffer, now, written>>
<1>1. Rights!Enter(q, Rights!Idle) /\ UNCHANGED <<Tables, Buffer, now, written>>
  BY DEF GivesUp, Rights!InsertRaises, Rights!OutsideFails, Rights!DeadlockAbort, Rights!Rejected,
         Rights!NothingCommitted, Rights!NoEvents, Tables, Buffer
<1> QED
  BY <1>1, EndAsks

LEMMA WorksAsks ==
    ASSUME RightsTypes, NEW q \in Request, Works(q)
    PROVE  /\ \E at, row, seen : Moves(q, at, row, seen)
           /\ UNCHANGED <<Tables, Buffer, now, written>>
<1>1. UNCHANGED <<Tables, Buffer, now, written>>
  BY DEF Works, Rights!Insert, Rights!ReadSections, Rights!ReadAudit, Rights!Completed,
         Rights!NullSubjects, Rights!DeleteUser, Rights!NothingCommitted, Rights!NoEvents, Tables, Buffer
<1>2. \E at, row, seen : Moves(q, at, row, seen)
  BY InsertAsks, ReadSectionsAsks, ReadAuditAsks, CompletedAsks, NullSubjectsAsks, StatementAsks DEF Works
<1> QED
  BY <1>1, <1>2

\* What an erasure commits.
LEMMA CommittedErasure ==
    ASSUME RightsTypes, NEW q \in Request, Rights!CommitErasure(q)
    PROVE  \E u \in Subject, r \in Rights!DataRightsRequest :
              /\ asked[q].user = u /\ asked[q].kind = "deletion" /\ asked[q].at = "deleted"
              /\ asked[q].row = {r} /\ r.user = u /\ r.subject_reference = u
              /\ r.type = "deletion" /\ r.status = "completed"
              /\ users' = users \ {u} /\ consents' = {c \in consents : c.user # u}
              /\ receipts' = Rights!Unlinked(receipts \cup {r}, u)
              /\ audit' \subseteq Rights!AuditEvent
<1>1. /\ asked[q].kind = "deletion" /\ asked[q].at = "deleted" /\ asked[q] \in RightsRequest
      /\ WellFormed(asked[q])
  BY DEF Rights!CommitErasure, RightsTypes
<1>2. PICK r \in ReceiptsOf(asked[q], "completed") : asked[q].row = {r}
  BY <1>1 DEF WellFormed
<1>3. asked[q].user \in Subject
  BY <1>1 DEF WellFormed, Writing
<1>4. ASSUME NEW a \in audit PROVE [a EXCEPT !.subject = Nobody] \in Rights!AuditEvent /\ a \in Rights!AuditEvent
  BY DEF RightsTypes, Rights!AuditEvent
<1>5. audit' \subseteq Rights!AuditEvent
  BY <1>4 DEF Rights!CommitErasure
<1>6. /\ r \in Rights!DataRightsRequest /\ r.user = asked[q].user /\ r.subject_reference = asked[q].user
      /\ r.type = "deletion" /\ r.status = "completed"
  BY <1>1 DEF ReceiptsOf
<1> QED
  BY <1>1, <1>2, <1>3, <1>5, <1>6 DEF Rights!CommitErasure, Rights!Cascade

\* What an export commits.
LEMMA CommittedExport ==
    ASSUME RightsTypes, NEW q \in Request, Rights!CommitExport(q)
    PROVE  \E u \in Subject, r \in Rights!DataRightsRequest :
              /\ asked[q].user = u /\ asked[q].kind = "export" /\ asked[q].at = "completed"
              /\ asked[q].seen \subseteq SectionsRead
              /\ asked[q].row = {r} /\ r.user = u /\ r.subject_reference = u
              /\ r.type = "export" /\ receipts' = receipts \cup {r}
<1>1. /\ asked[q].kind = "export" /\ asked[q].at = "completed" /\ asked[q] \in RightsRequest
      /\ WellFormed(asked[q])
  BY DEF Rights!CommitExport, RightsTypes
<1>2. PICK r \in ReceiptsOf(asked[q], "completed") : asked[q].row = {r}
  BY <1>1 DEF WellFormed
<1>3. asked[q].user \in Subject /\ asked[q].seen \subseteq SectionsRead
  BY <1>1 DEF WellFormed, Writing
<1>4. /\ r \in Rights!DataRightsRequest /\ r.user = asked[q].user /\ r.subject_reference = asked[q].user
      /\ r.type = "export"
  BY <1>1 DEF ReceiptsOf
<1> QED
  BY <1>1, <1>2, <1>3, <1>4 DEF Rights!CommitExport

LEMMA CommitsAsks ==
    ASSUME RightsTypes, NEW q \in Request, Commits(q)
    PROVE  /\ asked' \in [Request -> RightsRequest] /\ \A o \in Request : WellFormed(asked'[o])
           /\ \A o \in Request \ {q} : asked'[o] = asked[o]
           /\ asked'[q] = Rights!Idle \/ Moves(q, "erased_outside", asked[q].row, asked[q].seen)
<1>1. CASE Rights!EraseOutside(q)
  BY <1>1, StatementAsks DEF Moves
<1>2. CASE Rights!Enter(q, Rights!Idle)
  BY <1>2, EndAsks
<1> QED
  BY <1>1, <1>2 DEF Commits, Rights!CommitConsent, Rights!CommitExport, Rights!CommitErasure,
     Rights!CommitLogout, Rights!Publish

LEMMA BeginsAsks ==
    ASSUME RightsTypes, NEW q \in Request, NEW u \in Subject, Begins(q, u)
    PROVE  /\ asked' \in [Request -> RightsRequest] /\ \A o \in Request : WellFormed(asked'[o])
           /\ \A o \in Request \ {q} : asked'[o] = asked[o]
           /\ asked[q].at = "idle" /\ asked'[q].asked <= written'
           /\ asked'[q].at \in {"authenticated", "inserted", "consented"}
           /\ asked'[q].kind # "logout" => asked'[q].row = {}
           /\ written' \in 0..MaxRows /\ written <= written' /\ UNCHANGED <<Tables, Buffer, now>>
<1>0. MaxRows \in Nat /\ written \in 0..MaxRows
  BY AccountsShapes DEF Rights!PrivacyShapes, RightsTypes
<1>1. ASSUME NEW new \in Rights!ConsentDecision, new.user = u, Rights!Begin(q, "consent", u, new)
      PROVE  /\ asked' \in [Request -> RightsRequest] /\ \A o \in Request : WellFormed(asked'[o])
             /\ \A o \in Request \ {q} : asked'[o] = asked[o]
             /\ asked'[q].at = "authenticated" /\ asked'[q].row = {} /\ asked'[q].asked \in {0, written}
             /\ written < MaxRows /\ written' = written + 1 /\ UNCHANGED <<Tables, Buffer, now>>
             /\ asked[q].at = "idle"
  <2>1. "consent" \in Writing
    BY DEF Writing
  <2>2. /\ written < MaxRows /\ written' = written + 1 /\ UNCHANGED <<Tables, Buffer, now>>
        /\ asked[q].at = "idle"
    BY <1>1 DEF Rights!Begin, Rights!NothingCommitted, Rights!NoEvents, Tables, Buffer
  <2> QED
    BY <1>1, <2>1, <2>2, BeginAsks
<1>2. ASSUME NEW type \in {"export", "deletion"}, NEW new \in Rights!DataRightsRequest,
             new.user = u, new.subject_reference = u, new.type = type, new.status = "processing",
             Rights!Begin(q, type, u, new)
      PROVE  /\ asked' \in [Request -> RightsRequest] /\ \A o \in Request : WellFormed(asked'[o])
             /\ \A o \in Request \ {q} : asked'[o] = asked[o]
             /\ asked'[q].at = "authenticated" /\ asked'[q].row = {} /\ asked'[q].asked \in {0, written}
             /\ written < MaxRows /\ written' = written + 1 /\ UNCHANGED <<Tables, Buffer, now>>
             /\ asked[q].at = "idle"
  <2>1. type \in Writing /\ type # "consent"
    BY DEF Writing
  <2>2. /\ written < MaxRows /\ written' = written + 1 /\ UNCHANGED <<Tables, Buffer, now>>
        /\ asked[q].at = "idle"
    BY <1>2 DEF Rights!Begin, Rights!NothingCommitted, Rights!NoEvents, Tables, Buffer
  <2> QED
    BY <1>2, <2>1, <2>2, BeginAsks
<1>3. CASE Rights!Logout(q, u)
  <2>1. /\ written < MaxRows /\ written' = written + 1 /\ UNCHANGED <<Tables, Buffer, now>>
        /\ asked[q].at = "idle"
    BY <1>3 DEF Rights!Logout, Rights!NothingCommitted, Rights!NoEvents, Tables, Buffer
  <2> QED
    BY <1>0, <1>3, <2>1, LogoutAsks DEF Writing
<1>4. CASE Rights!Track(q, u)
  <2>1. written' = written /\ UNCHANGED <<Tables, Buffer, now>> /\ asked[q].at = "idle"
    BY <1>4 DEF Rights!Track, Rights!NothingCommitted, Rights!NoEvents, Tables, Buffer
  <2> QED
    BY <1>0, <1>4, <2>1, TrackAsks DEF Writing
<1> QED
  BY <1>0, <1>1, <1>2, <1>3, <1>4 DEF Begins

LEMMA CommitsTables ==
    ASSUME RightsTypes, NEW q \in Request, Commits(q)
    PROVE  /\ users' \subseteq Subject
           /\ consents' \subseteq Rights!ConsentDecision /\ receipts' \subseteq Rights!DataRightsRequest
           /\ audit' \subseteq Rights!AuditEvent /\ events' \subseteq Rights!ProductEvent
           /\ now' = now /\ written' \in 0..MaxRows /\ written <= written'
<1>0. /\ MaxRows \in Nat /\ written \in 0..MaxRows /\ users \subseteq Subject
      /\ consents \subseteq Rights!ConsentDecision /\ receipts \subseteq Rights!DataRightsRequest
      /\ audit \subseteq Rights!AuditEvent /\ events \subseteq Rights!ProductEvent
  BY AccountsShapes DEF Rights!PrivacyShapes, RightsTypes
<1>1. CASE Rights!CommitConsent(q)
  <2>1. /\ UNCHANGED <<users, receipts, audit, events, now>> /\ written < MaxRows /\ written' = written + 1
    BY <1>1 DEF Rights!CommitConsent, Rights!NoEvents
  <2>2. consents' \subseteq Rights!ConsentDecision
    BY <1>0, <1>1, CommittedDecision
  <2> QED
    BY <1>0, <2>1, <2>2
<1>2. CASE Rights!CommitExport(q)
  <2>1. UNCHANGED <<users, consents, audit, events, now, written>>
    BY <1>2 DEF Rights!CommitExport, Rights!NoEvents
  <2>2. receipts' \subseteq Rights!DataRightsRequest
    BY <1>0, <1>2, CommittedExport
  <2> QED
    BY <1>0, <2>1, <2>2
<1>3. CASE Rights!CommitErasure(q)
  <2>1. UNCHANGED <<events, now, written>>
    BY <1>3 DEF Rights!CommitErasure, Rights!NoEvents
  <2>2. PICK u \in Subject, r \in Rights!DataRightsRequest :
              /\ users' = users \ {u} /\ consents' = {c \in consents : c.user # u}
              /\ receipts' = Rights!Unlinked(receipts \cup {r}, u)
              /\ audit' \subseteq Rights!AuditEvent
    BY <1>3, CommittedErasure
  <2>3. receipts' \subseteq Rights!DataRightsRequest
    BY <1>0, <2>2, UnlinkedKeeps
  <2> QED
    BY <1>0, <2>1, <2>2, <2>3
<1>4. CASE Rights!CommitLogout(q)
  <2>1. /\ UNCHANGED <<users, consents, receipts, events, now>> /\ written < MaxRows /\ written' = written + 1
        /\ asked[q].kind = "logout"
    BY <1>4 DEF Rights!CommitLogout, Rights!NoEvents
  <2>2. asked[q].row \subseteq Rights!AuditEvent
    BY <2>1 DEF RightsTypes, WellFormed
  <2>3. written + 1 \in 0..MaxRows
    BY <1>0, <2>1
  <2>4. \A a \in Rights!AuditEvent : [a EXCEPT !.stamp = written + 1] \in Rights!AuditEvent
    BY <2>3 DEF Rights!AuditEvent
  <2>5. audit' \subseteq Rights!AuditEvent
    BY <1>0, <1>4, <2>2, <2>4 DEF Rights!CommitLogout, Rights!NextId
  <2> QED
    BY <1>0, <2>1, <2>3, <2>5
<1>5. CASE Rights!EraseOutside(q)
  BY <1>0, <1>5 DEF Rights!EraseOutside, Rights!NothingCommitted, Rights!delete_subject
<1>6. CASE Rights!Publish(q)
  <2> DEFINE e == [id |-> Rights!NextId, subject_reference |-> asked[q].user]
  <2>1. /\ UNCHANGED <<users, consents, receipts, audit, now>> /\ written < MaxRows /\ written' = written + 1
        /\ asked[q].at = "consented" /\ events' = Rights!Bounded(events \cup {e})
    BY <1>6 DEF Rights!Publish, Rights!NothingCommitted
  <2>2. asked[q].user \in Subject
    BY <2>1 DEF RightsTypes, WellFormed, RightsRequest, Rights!Kinds, Writing
  <2>3. e \in Rights!ProductEvent
    BY <1>0, <2>1, <2>2 DEF Rights!ProductEvent, Rights!NextId
  <2>4. events' \subseteq Rights!ProductEvent
    BY <1>0, <2>1, <2>3 DEF Rights!Bounded
  <2>5. written' \in 0..MaxRows /\ written <= written'
    BY <1>0, <2>1
  <2> HIDE DEF e
  <2> QED
    BY <1>0, <2>1, <2>4, <2>5
<1> QED
  BY <1>1, <1>2, <1>3, <1>4, <1>5, <1>6 DEF Commits

LEMMA RightsTypesStep ==
    ASSUME RightsTypes, [Rights!Next]_Rights!vars
    PROVE  RightsTypes' /\ written <= written'
<1>0. /\ MaxRows \in Nat /\ MaxTime \in Nat /\ written \in 0..MaxRows /\ users \subseteq Subject
      /\ consents \subseteq Rights!ConsentDecision /\ receipts \subseteq Rights!DataRightsRequest
      /\ audit \subseteq Rights!AuditEvent /\ events \subseteq Rights!ProductEvent
      /\ now \in 0..MaxTime /\ asked \in [Request -> RightsRequest]
      /\ \A q \in Request : WellFormed(asked[q])
  BY AccountsShapes DEF Rights!PrivacyShapes, RightsTypes
<1>1. CASE UNCHANGED Rights!vars
  BY <1>0, <1>1 DEF Rights!vars, RightsTypes
<1>2. CASE Rights!Tick
  <2>1. UNCHANGED <<users, consents, receipts, audit, events, asked, written>> /\ now' = now + 1 /\ now < MaxTime
    BY <1>2 DEF Rights!Tick, Rights!NothingCommitted, Rights!NoEvents
  <2>2. now' \in 0..MaxTime
    BY <1>0, <2>1
  <2> QED
    BY <1>0, <2>1, <2>2 DEF RightsTypes
<1>3. ASSUME NEW q \in Request, GivesUp(q)
      PROVE  RightsTypes' /\ written <= written'
  BY <1>0, <1>3, GivesUpAsks DEF RightsTypes, Tables, Buffer
<1>4. ASSUME NEW q \in Request, Works(q)
      PROVE  RightsTypes' /\ written <= written'
  <2>1. asked' \in [Request -> RightsRequest] /\ \A o \in Request : WellFormed(asked'[o])
    BY <1>4, WorksAsks DEF Moves
  <2> QED
    BY <1>0, <1>4, <2>1, WorksAsks DEF RightsTypes, Tables, Buffer
<1>5. ASSUME NEW q \in Request, Commits(q)
      PROVE  RightsTypes' /\ written <= written'
  BY <1>0, <1>5, CommitsAsks, CommitsTables DEF RightsTypes
<1>6. ASSUME NEW q \in Request, NEW u \in Subject, Begins(q, u)
      PROVE  RightsTypes' /\ written <= written'
  BY <1>0, <1>6, BeginsAsks DEF RightsTypes, Tables, Buffer
<1> QED
  BY <1>1, <1>2, <1>3, <1>4, <1>5, <1>6, RightsSteps

LEMMA RightsTypesKept == Rights!Spec => []RightsTypes
<1>1. Rights!Init => RightsTypes
  <2> SUFFICES ASSUME Rights!Init PROVE RightsTypes
    OBVIOUS
  <2>1. asked \in [Request -> RightsRequest] /\ \A q \in Request : WellFormed(asked[q])
    BY IdleAsks DEF Rights!Init
  <2>2. 0 \in 0..MaxRows /\ 0 \in 0..MaxTime
    BY AccountsShapes DEF Rights!PrivacyShapes
  <2> QED
    BY <2>1, <2>2 DEF Rights!Init, RightsTypes
<1>2. RightsTypes /\ [Rights!Next]_Rights!vars => RightsTypes'
  BY RightsTypesStep
<1> QED
  BY <1>1, <1>2, PTL DEF Rights!Spec

-------------------------------------------------------------------------------
(* Erasure: an account goes once, with its decisions, and leaves one receipt *)

\* A request that has inserted a row for an account finds it there until it ends; one that
\* has deleted it is the only one that had.
HoldInv ==
    \A q \in Request, u \in Subject :
        /\ Rights!Holds(q, u) => u \in users
        /\ Rights!Deleting(q, u) => \A o \in Request \ {q} : ~Rights!Holds(o, u)

\* A transaction at a later statement has its row, and one before has none.
LEMMA WhoHolds ==
    ASSUME RightsTypes, NEW q \in Request, NEW u \in Subject
    PROVE  /\ Rights!Deleting(q, u) => Rights!Holds(q, u) /\ asked[q].kind = "deletion"
           /\ asked[q].user = u /\ asked[q].at \in {"nulled", "deleted"} => Rights!Holds(q, u)
           /\ asked[q].user = u /\ asked[q].at = "inserted" /\ asked[q].kind \in Writing => Rights!Holds(q, u)
           /\ asked[q].user = u /\ asked[q].kind = "export" /\ asked[q].at = "completed" => Rights!Holds(q, u)
<1> DEFINE t == asked[q]
<1>1. WellFormed(t)
  BY DEF RightsTypes
<1>2. t.at \in {"nulled", "deleted"} => t.row # {} /\ t.kind \in {"export", "deletion"}
  BY <1>1 DEF WellFormed
<1>3. t.at \in {"nulled", "deleted"} => t.kind = "deletion"
  BY <1>1, <1>2 DEF WellFormed
<1>4. t.at = "inserted" /\ t.kind \in Writing => t.row # {}
  BY <1>1 DEF WellFormed, Writing
<1>5. t.at = "completed" /\ t.kind = "export" => t.row # {}
  BY <1>1 DEF WellFormed
<1> QED
  BY <1>2, <1>3, <1>4, <1>5 DEF Rights!Holds, Rights!Deleting, Writing

LEMMA HoldQuiet ==
    ASSUME HoldInv, NEW q \in Request, \A o \in Request \ {q} : asked'[o] = asked[o],
           \A u \in Subject : ~Rights!Holds(q, u)' /\ ~Rights!Deleting(q, u)',
           users' = users
    PROVE  HoldInv'
<1> SUFFICES ASSUME NEW p \in Request, NEW u \in Subject
             PROVE  /\ Rights!Holds(p, u)' => u \in users'
                    /\ Rights!Deleting(p, u)' => \A o \in Request \ {p} : ~Rights!Holds(o, u)'
  BY DEF HoldInv
<1>1. CASE p = q
  BY <1>1
<1>2. CASE p # q
  <2>1. Rights!Holds(p, u)' <=> Rights!Holds(p, u)
    BY <1>2 DEF Rights!Holds
  <2>2. Rights!Deleting(p, u)' => Rights!Deleting(p, u)
    BY <1>2 DEF Rights!Deleting
  <2>3. ASSUME NEW o \in Request \ {p}, Rights!Deleting(p, u)
        PROVE  ~Rights!Holds(o, u)'
    <3>1. o # q => ~Rights!Holds(o, u)'
      BY <2>3 DEF HoldInv, Rights!Holds
    <3> QED
      BY <3>1
  <2> QED
    BY <2>1, <2>2, <2>3 DEF HoldInv
<1> QED
  BY <1>1, <1>2

\* A statement after the insertion: what the request holds, it held.
LEMMA HoldMoves ==
    ASSUME HoldInv, NEW q \in Request, NEW at, NEW row, NEW seen, Moves(q, at, row, seen),
           at # "deleted", row # {} => asked[q].row # {}, users' = users
    PROVE  HoldInv'
<1> SUFFICES ASSUME NEW p \in Request, NEW u \in Subject
             PROVE  /\ Rights!Holds(p, u)' => u \in users'
                    /\ Rights!Deleting(p, u)' => \A o \in Request \ {p} : ~Rights!Holds(o, u)'
  BY DEF HoldInv
<1>1. ASSUME NEW o \in Request, Rights!Holds(o, u)' PROVE Rights!Holds(o, u)
  <2>1. CASE o = q
    BY <1>1, <2>1 DEF Rights!Holds, Moves
  <2>2. CASE o # q
    BY <1>1, <2>2 DEF Rights!Holds, Moves
  <2> QED
    BY <2>1, <2>2
<1>2. Rights!Deleting(p, u)' => Rights!Deleting(p, u)
  BY DEF Rights!Deleting, Moves
<1> QED
  BY <1>1, <1>2 DEF HoldInv

LEMMA HoldWorks ==
    ASSUME RightsTypes, HoldInv, NEW q \in Request, Works(q)
    PROVE  HoldInv'
<1>0. users' = users
  BY WorksAsks DEF Tables
<1>1. CASE Rights!Insert(q)
  <2>1. Moves(q, "inserted", asked[q].seen, {}) /\ asked[q].user \in users
        /\ \A o \in Request : ~Rights!Deleting(o, asked[q].user)
    BY <1>1, InsertAsks DEF Rights!Insert
  <2> SUFFICES ASSUME NEW p \in Request, NEW u \in Subject
               PROVE  /\ Rights!Holds(p, u)' => u \in users'
                      /\ Rights!Deleting(p, u)' => \A o \in Request \ {p} : ~Rights!Holds(o, u)'
    BY DEF HoldInv
  <2>2. ~Rights!Deleting(q, u)' /\ (Rights!Holds(q, u)' => u = asked[q].user)
    BY <2>1 DEF Moves, Rights!Deleting, Rights!Holds
  <2>3. \A o \in Request \ {q} : /\ Rights!Holds(o, u)' <=> Rights!Holds(o, u)
                                 /\ Rights!Deleting(o, u)' <=> Rights!Deleting(o, u)
    BY <2>1 DEF Moves, Rights!Deleting, Rights!Holds
  <2>4. Rights!Holds(p, u)' => u \in users'
    BY <1>0, <2>1, <2>2, <2>3 DEF HoldInv
  <2>5. ASSUME Rights!Deleting(p, u)', NEW o \in Request \ {p} PROVE ~Rights!Holds(o, u)'
    <3>1. p # q /\ Rights!Deleting(p, u)
      BY <2>2, <2>3, <2>5
    <3>2. u # asked[q].user
      BY <2>1, <3>1
    <3> QED
      BY <2>2, <2>3, <3>1, <3>2 DEF HoldInv
  <2> QED
    BY <2>4, <2>5
<1>2. CASE Rights!ReadSections(q)
  BY <1>0, <1>2, ReadSectionsAsks, HoldMoves
<1>3. CASE Rights!ReadAudit(q)
  <2>1. Done(asked[q].row) # {} => asked[q].row # {}
    BY DEF Done
  <2> QED
    BY <1>0, <1>3, <2>1, ReadAuditAsks, HoldMoves
<1>4. CASE Rights!Completed(q)
  <2>1. Done(asked[q].row) # {} => asked[q].row # {}
    BY DEF Done
  <2> QED
    BY <1>0, <1>4, <2>1, CompletedAsks, HoldMoves
<1>5. CASE Rights!NullSubjects(q)
  BY <1>0, <1>5, NullSubjectsAsks, HoldMoves
<1>6. CASE Rights!DeleteUser(q)
  <2>1. Moves(q, "deleted", asked[q].row, asked[q].seen) /\ asked[q].at = "nulled"
        /\ \A o \in Request : ~Rights!Waits(q, o)
    BY <1>6, StatementAsks DEF Rights!DeleteUser
  <2> SUFFICES ASSUME NEW p \in Request, NEW u \in Subject
               PROVE  /\ Rights!Holds(p, u)' => u \in users'
                      /\ Rights!Deleting(p, u)' => \A o \in Request \ {p} : ~Rights!Holds(o, u)'
    BY DEF HoldInv
  <2>2. \A o \in Request : Rights!Holds(o, u)' <=> Rights!Holds(o, u)
    <3>1. Rights!Holds(q, u)' <=> Rights!Holds(q, u)
      BY <2>1 DEF Moves, Rights!Holds
    <3>2. \A o \in Request \ {q} : Rights!Holds(o, u)' <=> Rights!Holds(o, u)
      BY <2>1 DEF Moves, Rights!Holds
    <3> QED
      BY <3>1, <3>2
  <2>3. p # q => (Rights!Deleting(p, u)' <=> Rights!Deleting(p, u))
    BY <2>1 DEF Moves, Rights!Deleting
  <2>4. Rights!Deleting(q, u)' => u = asked[q].user
    BY <2>1 DEF Moves, Rights!Deleting
  <2>5. \A o \in Request \ {q} : ~Rights!Holds(o, asked[q].user)
    BY <2>1 DEF Rights!Waits, Rights!DeleteWaits
  <2>6. Rights!Holds(p, u)' => u \in users'
    BY <1>0, <2>2 DEF HoldInv
  <2>7. CASE p = q
    BY <2>2, <2>4, <2>5, <2>6, <2>7
  <2>8. CASE p # q
    BY <2>2, <2>3, <2>6, <2>8 DEF HoldInv
  <2> QED
    BY <2>7, <2>8
<1> QED
  BY <1>1, <1>2, <1>3, <1>4, <1>5, <1>6 DEF Works

LEMMA HoldCommits ==
    ASSUME RightsTypes, HoldInv, NEW q \in Request, Commits(q)
    PROVE  HoldInv'
<1>1. CASE Rights!EraseOutside(q)
  <2>1. users' = users
    BY <1>1 DEF Rights!EraseOutside, Rights!NothingCommitted
  <2> QED
    BY <1>1, <2>1, StatementAsks, HoldMoves
<1>2. ASSUME asked'[q] = Rights!Idle
      PROVE  \A u \in Subject : ~Rights!Holds(q, u)' /\ ~Rights!Deleting(q, u)'
  BY <1>2 DEF Rights!Idle, Rights!Holds, Rights!Deleting
<1>3. ASSUME Rights!Enter(q, Rights!Idle), users' = users
      PROVE  HoldInv'
  BY <1>2, <1>3, EndAsks, HoldQuiet
<1>4. CASE Rights!CommitErasure(q)
  <2>1. PICK v \in Subject : asked[q].user = v /\ asked[q].at = "deleted" /\ users' = users \ {v}
    BY <1>4, CommittedErasure
  <2>2. asked'[q] = Rights!Idle /\ \A o \in Request \ {q} : asked'[o] = asked[o]
    BY <1>4, EndAsks DEF Rights!CommitErasure
  <2>3. \A o \in Request \ {q} : ~Rights!Holds(o, v)
    BY <2>1 DEF HoldInv, Rights!Deleting
  <2> SUFFICES ASSUME NEW p \in Request, NEW u \in Subject
               PROVE  /\ Rights!Holds(p, u)' => u \in users'
                      /\ Rights!Deleting(p, u)' => \A o \in Request \ {p} : ~Rights!Holds(o, u)'
    BY DEF HoldInv
  <2>4. \A o \in Request \ {q} : /\ Rights!Holds(o, u)' <=> Rights!Holds(o, u)
                                 /\ Rights!Deleting(o, u)' <=> Rights!Deleting(o, u)
    BY <2>2 DEF Rights!Holds, Rights!Deleting
  <2>5. ~Rights!Holds(q, u)' /\ ~Rights!Deleting(q, u)'
    BY <1>2, <2>2
  <2>6. Rights!Holds(p, u)' => u \in users'
    BY <2>1, <2>3, <2>4, <2>5 DEF HoldInv
  <2>7. ASSUME Rights!Deleting(p, u)', NEW o \in Request \ {p} PROVE ~Rights!Holds(o, u)'
    BY <2>4, <2>5, <2>7 DEF HoldInv
  <2> QED
    BY <2>6, <2>7
<1> QED
  BY <1>1, <1>3, <1>4 DEF Commits, Rights!CommitConsent, Rights!CommitExport, Rights!CommitLogout,
     Rights!Publish, Rights!NothingCommitted

LEMMA HoldStep ==
    ASSUME RightsTypes, HoldInv, [Rights!Next]_Rights!vars
    PROVE  HoldInv'
<1>1. ASSUME asked' = asked, users' = users
      PROVE  HoldInv'
  BY <1>1 DEF HoldInv, Rights!Holds, Rights!Deleting
<1>2. CASE UNCHANGED Rights!vars
  BY <1>1, <1>2 DEF Rights!vars
<1>3. CASE Rights!Tick
  BY <1>1, <1>3 DEF Rights!Tick, Rights!NothingCommitted
<1>4. ASSUME NEW q \in Request, GivesUp(q)
      PROVE  HoldInv'
  <2>1. \A u \in Subject : ~Rights!Holds(q, u)' /\ ~Rights!Deleting(q, u)'
    BY <1>4, GivesUpAsks DEF Rights!Idle, Rights!Holds, Rights!Deleting
  <2> QED
    BY <1>4, <2>1, GivesUpAsks, HoldQuiet DEF Tables
<1>5. ASSUME NEW q \in Request, NEW u \in Subject, Begins(q, u)
      PROVE  HoldInv'
  <2>1. \A v \in Subject : ~Rights!Holds(q, v)' /\ ~Rights!Deleting(q, v)'
    BY <1>5, BeginsAsks DEF Rights!Holds, Rights!Deleting
  <2> QED
    BY <1>5, <2>1, BeginsAsks, HoldQuiet DEF Tables
<1> QED
  BY <1>2, <1>3, <1>4, <1>5, HoldWorks, HoldCommits, RightsSteps

Completions(S, u) ==
    {r \in S : r.subject_reference = u /\ r.type = "deletion" /\ r.status = "completed"}

\* The receipts of an account that exists, and of one that is gone; the decisions.
AccountInv ==
    /\ \A u \in Subject :
        /\ u \in users => \A r \in receipts : ~(r.subject_reference = u /\ r.type = "deletion")
        /\ u \notin users => /\ \E r \in Rights!DataRightsRequest : Completions(receipts, u) = {r}
                             /\ \A r \in receipts : r.user # u
    /\ \A c \in consents : c.user \in users

\* Nulling the account of some receipts keeps how many of them complete an erasure.
LEMMA UnlinkedCompletions ==
    ASSUME NEW S \in SUBSET Rights!DataRightsRequest, NEW v, NEW u,
           NEW r \in Rights!DataRightsRequest, Completions(S, u) = {r}
    PROVE  \E x \in Rights!DataRightsRequest : Completions(Rights!Unlinked(S, v), u) = {x}
<1> DEFINE gone == [r EXCEPT !.user = Nobody]
           x == IF r.user = v THEN gone ELSE r
<1>1. r \in S /\ r.subject_reference = u /\ r.type = "deletion" /\ r.status = "completed"
  BY DEF Completions
<1>2. /\ gone \in Rights!DataRightsRequest /\ gone.subject_reference = u /\ gone.type = "deletion"
      /\ gone.status = "completed"
  BY <1>1 DEF Rights!DataRightsRequest
<1> HIDE DEF gone
<1>3. x \in Completions(Rights!Unlinked(S, v), u)
  <2>1. x \in Rights!Unlinked(S, v)
    BY <1>1 DEF Rights!Unlinked, gone
  <2> QED
    BY <1>1, <1>2, <2>1 DEF Completions
<1>4. ASSUME NEW y \in Completions(Rights!Unlinked(S, v), u)
      PROVE  y = x
  <2>1. PICK s \in S : /\ y.subject_reference = s.subject_reference /\ y.type = s.type
                       /\ y.status = s.status
                       /\ s.user # v => y = s
                       /\ s.user = v => y = [s EXCEPT !.user = Nobody]
    BY <1>4, UnlinkedKeeps DEF Completions
  <2>2. s = r
    BY <1>4, <2>1 DEF Completions
  <2> QED
    BY <2>1, <2>2 DEF gone
<1>5. x \in Rights!DataRightsRequest
  BY <1>2
<1> HIDE DEF x
<1> QED
  BY <1>3, <1>4, <1>5

LEMMA AccountCommits ==
    ASSUME RightsTypes, HoldInv, AccountInv, NEW q \in Request, Commits(q)
    PROVE  AccountInv'
<1>0. receipts \subseteq Rights!DataRightsRequest /\ consents \subseteq Rights!ConsentDecision
      /\ users \subseteq Subject
  BY DEF RightsTypes
<1>1. CASE Rights!CommitConsent(q)
  <2>1. UNCHANGED <<users, receipts>>
    BY <1>1 DEF Rights!CommitConsent
  <2>2. PICK d \in Rights!ConsentDecision : consents' = consents \cup {d} /\ d.user = asked[q].user
    BY <1>1, CommittedDecision
  <2>3. asked[q].at = "inserted" /\ asked[q].kind \in Writing
    BY <1>1 DEF Rights!CommitConsent, Writing
  <2>4. d.user \in users
    <3>1. d.user \in Subject
      BY DEF Rights!ConsentDecision
    <3>2. Rights!Holds(q, d.user)
      BY <2>2, <2>3, <3>1, WhoHolds
    <3> QED
      BY <3>1, <3>2 DEF HoldInv
  <2> QED
    BY <2>1, <2>2, <2>4 DEF AccountInv
<1>2. CASE Rights!CommitExport(q)
  <2>1. UNCHANGED <<users, consents>>
    BY <1>2 DEF Rights!CommitExport
  <2>2. PICK v \in Subject, r \in Rights!DataRightsRequest :
              /\ asked[q].user = v /\ asked[q].kind = "export" /\ asked[q].at = "completed"
              /\ r.user = v /\ r.type = "export" /\ receipts' = receipts \cup {r}
    BY <1>2, CommittedExport
  <2>3. v \in users
    <3>1. Rights!Holds(q, v)
      BY <2>2, WhoHolds
    <3> QED
      BY <3>1 DEF HoldInv
  <2>4. \A u \in Subject : Completions(receipts', u) = Completions(receipts, u)
    BY <2>2 DEF Completions
  <2>5. ASSUME NEW u \in Subject, u \in users
        PROVE  \A s \in receipts' : ~(s.subject_reference = u /\ s.type = "deletion")
    BY <2>2, <2>5 DEF AccountInv
  <2>6. ASSUME NEW u \in Subject, u \notin users
        PROVE  /\ \E s \in Rights!DataRightsRequest : Completions(receipts', u) = {s}
               /\ \A s \in receipts' : s.user # u
    BY <2>2, <2>3, <2>4, <2>6 DEF AccountInv
  <2>7. \A c \in consents' : c.user \in users'
    BY <2>1 DEF AccountInv
  <2> QED
    BY <2>1, <2>5, <2>6, <2>7 DEF AccountInv
<1>3. CASE Rights!CommitErasure(q)
  <2>1. PICK v \in Subject, r \in Rights!DataRightsRequest :
              /\ asked[q].user = v /\ asked[q].at = "deleted"
              /\ r.user = v /\ r.subject_reference = v
              /\ r.type = "deletion" /\ r.status = "completed"
              /\ users' = users \ {v} /\ consents' = {c \in consents : c.user # v}
              /\ receipts' = Rights!Unlinked(receipts \cup {r}, v)
    BY <1>3, CommittedErasure
  <2> DEFINE S == receipts \cup {r}
  <2>2. v \in users
    <3>1. Rights!Holds(q, v)
      BY <2>1, WhoHolds
    <3> QED
      BY <3>1 DEF HoldInv
  <2>3. S \in SUBSET Rights!DataRightsRequest
    BY <1>0
  <2>4. ASSUME NEW u \in Subject, u \in users'
        PROVE  \A x \in receipts' : ~(x.subject_reference = u /\ x.type = "deletion")
    <3>1. u \in users /\ u # v
      BY <2>1, <2>4
    <3>2. ASSUME NEW x \in Rights!Unlinked(S, v)
          PROVE  ~(x.subject_reference = u /\ x.type = "deletion")
      <4>1. PICK s \in S : x.subject_reference = s.subject_reference /\ x.type = s.type
        BY <2>3, <3>2, UnlinkedKeeps
      <4> QED
        BY <2>1, <3>1, <4>1 DEF AccountInv
    <3> QED
      BY <2>1, <3>2
  <2>5. ASSUME NEW u \in Subject, u \notin users'
        PROVE  /\ \E x \in Rights!DataRightsRequest : Completions(receipts', u) = {x}
               /\ \A x \in receipts' : x.user # u
    <3>1. \E s \in Rights!DataRightsRequest : Completions(S, u) = {s}
      <4>1. CASE u = v
        BY <2>1, <2>2, <4>1 DEF AccountInv, Completions
      <4>2. CASE u # v
        <5>1. u \notin users /\ Completions(S, u) = Completions(receipts, u)
          BY <2>1, <2>5, <4>2 DEF Completions
        <5> QED
          BY <5>1 DEF AccountInv
      <4> QED
        BY <4>1, <4>2
    <3>2. \E x \in Rights!DataRightsRequest : Completions(receipts', u) = {x}
      <4>1. PICK s \in Rights!DataRightsRequest : Completions(S, u) = {s}
        BY <3>1
      <4>2. S \in SUBSET Rights!DataRightsRequest /\ receipts' = Rights!Unlinked(S, v)
        BY <2>1, <2>3
      <4> HIDE DEF S
      <4>3. \E x \in Rights!DataRightsRequest : Completions(Rights!Unlinked(S, v), u) = {x}
        BY <4>1, <4>2, UnlinkedCompletions
      <4> QED
        BY <4>2, <4>3
    <3>3. ASSUME NEW x \in Rights!Unlinked(S, v)
          PROVE  x.user # u
      <4>1. PICK s \in S : /\ s.user # v => x = s
                           /\ s.user = v => x.user = Nobody
        BY <2>3, <3>3, UnlinkedKeeps
      <4>2. Nobody # u
        BY AccountsShapes DEF Rights!PrivacyShapes
      <4>3. s.user # v => s.user # u
        BY <2>1, <2>5 DEF AccountInv
      <4> QED
        BY <4>1, <4>2, <4>3
    <3> QED
      BY <2>1, <3>2, <3>3
  <2>6. \A c \in consents' : c.user \in users'
    BY <2>1 DEF AccountInv
  <2> QED
    BY <2>4, <2>5, <2>6 DEF AccountInv
<1>4. CASE UNCHANGED <<users, receipts, consents>>
  BY <1>4 DEF AccountInv
<1> QED
  BY <1>1, <1>2, <1>3, <1>4 DEF Commits, Rights!CommitLogout, Rights!EraseOutside, Rights!Publish,
     Rights!NothingCommitted

\* The steps that commit nothing.
LEMMA OnlyCommits ==
    ASSUME RightsTypes, [Rights!Next]_Rights!vars
    PROVE  \/ UNCHANGED <<Tables, Buffer>> /\ written <= written'
           \/ \E q \in Request : Commits(q)
<1>1. CASE UNCHANGED Rights!vars
  BY <1>1, RightsTypesStep DEF Rights!vars, Tables, Buffer
<1>2. CASE Rights!Tick
  BY <1>2, RightsTypesStep DEF Rights!Tick, Rights!NothingCommitted, Rights!NoEvents, Tables, Buffer
<1> QED
  BY <1>1, <1>2, RightsSteps, RightsTypesStep, GivesUpAsks, WorksAsks, BeginsAsks

LEMMA AccountStep ==
    ASSUME RightsTypes, HoldInv, AccountInv, [Rights!Next]_Rights!vars
    PROVE  AccountInv'
<1>1. CASE UNCHANGED <<Tables, Buffer>>
  BY <1>1 DEF Tables, AccountInv
<1> QED
  BY <1>1, OnlyCommits, AccountCommits

LEMMA AccountInvariant == Rights!Spec => [](RightsTypes /\ HoldInv /\ AccountInv)
<1>1. Rights!Init => HoldInv /\ AccountInv
  BY DEF Rights!Init, Rights!Idle, HoldInv, AccountInv, Rights!Holds, Rights!Deleting
<1>2. RightsTypes /\ HoldInv /\ AccountInv /\ [Rights!Next]_Rights!vars => (HoldInv /\ AccountInv)'
  BY HoldStep, AccountStep
<1> QED
  BY <1>1, <1>2, RightsTypesKept, PTL DEF Rights!Spec

\* The module counts with its own copy of the definition of Cardinality.
LEMMA SameCardinality == \A S : Rights!Cardinality(S) = Cardinality(S)
BY DEF Rights!Cardinality, Cardinality

LEMMA ErasedOnce ==
    ASSUME RightsTypes, HoldInv, AccountInv
    PROVE  Rights!ErasureIsComplete
<1> DEFINE own(u) == {r \in receipts : r.subject_reference = u /\ r.type = "deletion"}
<1>1. ASSUME NEW u \in Subject, u \in users
      PROVE  own(u) = {}
  BY <1>1 DEF AccountInv
<1>2. ASSUME NEW u \in Subject, u \notin users
      PROVE  /\ Rights!Cardinality({r \in own(u) : r.status = "completed"}) = 1
             /\ \A r \in receipts : r.user # u
  <2>1. {r \in own(u) : r.status = "completed"} = Completions(receipts, u)
    BY DEF Completions
  <2>2. PICK r \in Rights!DataRightsRequest : Completions(receipts, u) = {r}
    BY <1>2 DEF AccountInv
  <2> HIDE DEF own
  <2>3. Rights!Cardinality({r}) = 1
    BY FS_Singleton, SameCardinality
  <2> QED
    BY <1>2, <2>1, <2>2, <2>3 DEF AccountInv
<1>3. ASSUME NEW q \in Request, asked[q].at = "nulled"
      PROVE  asked[q].user \in users
  <2>1. asked[q].user \in Subject
    BY <1>3 DEF RightsTypes, WellFormed, Writing
  <2> QED
    BY <1>3, <2>1, WhoHolds DEF HoldInv
<1>4. Rights!ReceiptsProveErasure
  <2> SUFFICES ASSUME NEW u \in Subject
               PROVE  /\ u \in users => own(u) = {}
                      /\ u \notin users => /\ Rights!Cardinality({r \in own(u) : r.status = "completed"}) = 1
                                           /\ \A r \in receipts : r.user # u
    BY DEF Rights!ReceiptsProveErasure
  <2> HIDE DEF own
  <2> QED
    BY <1>1, <1>2
<1>5. Rights!ErasuresFindTheirAccount
  BY <1>3 DEF Rights!ErasuresFindTheirAccount
<1>6. Rights!NoConsentWithoutAccount
  BY DEF AccountInv, Rights!NoConsentWithoutAccount
<1> QED
  BY <1>4, <1>5, <1>6 DEF Rights!ErasureIsComplete

-------------------------------------------------------------------------------
(* The buffer of the product analytics keeps the newest events *)

\* A set of naturals that is not empty has a least element.
LEMMA LeastOf ==
    ASSUME NEW S, S \subseteq Nat, S # {}
    PROVE  \E x \in S : \A y \in S : x <= y
<1> DEFINE Less == {p \in Nat \X Nat : p[1] < p[2]}
<1>1. IsWellFoundedOn(Less, Nat)
  BY NatLessThanWellFounded, Zenon DEF OpToRel
<1> HIDE DEF Less
<1>2. PICK x \in S : \A y \in S : ~(<<y, x>> \in Less)
  BY <1>1, WFMin
<1>3. ASSUME NEW y \in S PROVE x <= y
  <2>1. y < x => <<y, x>> \in Less
    BY DEF Less
  <2> QED
    BY <1>2, <2>1
<1> QED
  BY <1>3

IdsOf(S) == {e.id : e \in S}
DistinctIds(S) == \A e \in S, f \in S : e.id = f.id => e = f

\* A set has no more ids than elements, and as many when they differ.
LEMMA CountIds ==
    ASSUME NEW S, IsFiniteSet(S)
    PROVE  /\ IsFiniteSet(IdsOf(S)) /\ Cardinality(IdsOf(S)) <= Cardinality(S)
           /\ DistinctIds(S) => Cardinality(S) <= Cardinality(IdsOf(S))
<1> DEFINE f == [e \in S |-> e.id]
<1>1. f \in Surjection(S, IdsOf(S))
  BY DEF Surjection, IdsOf
<1>2. DistinctIds(S) => f \in Injection(S, IdsOf(S))
  BY DEF Injection, IsInjective, IdsOf, DistinctIds
<1> HIDE DEF f
<1>3. IsFiniteSet(IdsOf(S)) /\ Cardinality(IdsOf(S)) <= Cardinality(S)
  BY <1>1, FS_Surjection
<1>4. DistinctIds(S) => Cardinality(S) <= Cardinality(IdsOf(S))
  BY <1>2, <1>3, FS_Injection
<1> QED
  BY <1>3, <1>4

\* publish leaves no more than max_events of them.
LEMMA BoundedLength ==
    ASSUME NEW S, S \subseteq Rights!ProductEvent, IsFiniteSet(S), DistinctIds(S)
    PROVE  IsFiniteSet(Rights!Bounded(S)) /\ Cardinality(Rights!Bounded(S)) <= max_events
<1> DEFINE B == Rights!Bounded(S)
<1>0. max_events \in Nat \ {0}
  BY AccountsShapes DEF Rights!PrivacyShapes
<1>1. B \subseteq S /\ \A e \in B : Cardinality(Rights!After(S, e)) < max_events
  BY SameCardinality DEF Rights!Bounded
<1> HIDE DEF B
<1>2. IsFiniteSet(B) /\ Cardinality(B) \in Nat
  BY <1>1, FS_Subset, FS_CardinalityType
<1>3. CASE B = {}
  <2>1. Cardinality(B) = 0
    BY <1>3, FS_EmptySet
  <2> QED
    BY <1>0, <1>2, <2>1 DEF B
<1>4. CASE B # {}
  <2>1. IdsOf(B) \subseteq Nat /\ IdsOf(B) # {}
    BY <1>1, <1>4 DEF IdsOf, Rights!ProductEvent
  <2>2. PICK b \in B : \A e \in B : b.id <= e.id
    <3>1. PICK x \in IdsOf(B) : \A y \in IdsOf(B) : x <= y
      BY <2>1, LeastOf
    <3> QED
      BY <3>1 DEF IdsOf
  <2>3. B \ {b} \subseteq Rights!After(S, b)
    <3> SUFFICES ASSUME NEW e \in B \ {b} PROVE e \in S /\ e.id > b.id
      BY DEF Rights!After
    <3>1. e \in S /\ b \in S /\ e.id # b.id
      BY <1>1 DEF DistinctIds
    <3>2. e.id \in Nat /\ b.id \in Nat
      BY <3>1 DEF Rights!ProductEvent
    <3> QED
      BY <2>2, <3>1, <3>2
  <2>4. IsFiniteSet(Rights!After(S, b)) /\ Cardinality(Rights!After(S, b)) \in Nat
    <3>1. Rights!After(S, b) \in SUBSET S
      BY DEF Rights!After
    <3> QED
      BY <3>1, FS_Subset, FS_CardinalityType
  <2>5. Cardinality(B \ {b}) <= Cardinality(Rights!After(S, b))
    BY <2>3, <2>4, FS_Subset
  <2>6. Cardinality(B \ {b}) = Cardinality(B) - 1
    BY <1>2, FS_RemoveElement
  <2>7. Cardinality(B) <= max_events
    BY <1>0, <1>1, <1>2, <2>4, <2>5, <2>6
  <2> QED
    BY <1>2, <2>7 DEF B
<1> QED
  BY <1>3, <1>4

TrackedEvent == [id : 1..MaxRows, subject_reference : Subject \cup {Nobody}]

\* The buffer is what is left of the accepted events: of an event that is neither there nor
\* erased, max_events newer ones have been accepted.
BufferInv ==
    /\ tracked \subseteq TrackedEvent /\ IsFiniteSet(tracked) /\ events \subseteq tracked
    /\ \A e \in events : e.id <= written
    /\ DistinctIds(events) /\ Cardinality(events) <= max_events
    /\ \A e \in tracked : e.subject_reference # Nobody /\ e \notin events =>
                            Cardinality(IdsOf(Rights!After(tracked, e))) >= max_events

LEMMA AfterIds ==
    ASSUME NEW S, IsFiniteSet(S), NEW e
    PROVE  /\ IsFiniteSet(Rights!After(S, e)) /\ IsFiniteSet(IdsOf(Rights!After(S, e)))
           /\ Cardinality(Rights!After(S, e)) \in Nat /\ Cardinality(IdsOf(Rights!After(S, e))) \in Nat
           /\ Cardinality(IdsOf(Rights!After(S, e))) <= Cardinality(Rights!After(S, e))
           /\ DistinctIds(S) => Cardinality(Rights!After(S, e)) = Cardinality(IdsOf(Rights!After(S, e)))
<1> DEFINE A == Rights!After(S, e)
<1>1. A \in SUBSET S /\ (DistinctIds(S) => DistinctIds(A))
  BY DEF Rights!After, DistinctIds
<1> HIDE DEF A
<1>2. IsFiniteSet(A)
  BY <1>1, FS_Subset
<1>3. IsFiniteSet(IdsOf(A)) /\ Cardinality(A) \in Nat /\ Cardinality(IdsOf(A)) \in Nat
  BY <1>2, CountIds, FS_CardinalityType
<1>4. /\ Cardinality(IdsOf(A)) <= Cardinality(A)
      /\ DistinctIds(A) => Cardinality(A) <= Cardinality(IdsOf(A))
  BY <1>2, CountIds
<1>5. DistinctIds(S) => Cardinality(A) = Cardinality(IdsOf(A))
  BY <1>1, <1>3, <1>4
<1> QED
  BY <1>2, <1>3, <1>4, <1>5 DEF A

\* Two sets of ids, one in the other.
LEMMA MoreIds ==
    ASSUME NEW S, NEW T, IsFiniteSet(T), IdsOf(S) \subseteq IdsOf(T)
    PROVE  Cardinality(IdsOf(S)) <= Cardinality(IdsOf(T))
BY CountIds, FS_Subset

LEMMA BufferErases ==
    ASSUME RightsTypes, BufferInv, NEW q \in Request, Rights!EraseOutside(q)
    PROVE  BufferInv'
<1> DEFINE u == asked[q].user
           Gone(e) == IF e.subject_reference = u THEN [e EXCEPT !.subject_reference = Nobody] ELSE e
<1>1. /\ asked[q].kind = "deletion" /\ written' = written
      /\ events' = {e \in events : e.subject_reference # u} /\ tracked' = {Gone(e) : e \in tracked}
  BY DEF Rights!EraseOutside, Rights!delete_subject
<1>2. u \in Subject /\ Nobody \notin Subject
  BY <1>1, AccountsShapes DEF RightsTypes, WellFormed, Writing, Rights!PrivacyShapes
<1>3. ASSUME NEW e \in tracked
      PROVE  /\ Gone(e) \in TrackedEvent /\ Gone(e).id = e.id
             /\ e.subject_reference = u => Gone(e).subject_reference = Nobody
             /\ e.subject_reference # u => Gone(e) = e
  BY DEF BufferInv, TrackedEvent
<1> HIDE DEF Gone, u
<1>4. tracked' \subseteq TrackedEvent
  BY <1>1, <1>3
<1>5. IsFiniteSet(tracked')
  <2> DEFINE f == [e \in tracked |-> Gone(e)]
  <2>1. f \in Surjection(tracked, tracked')
    BY <1>1 DEF Surjection
  <2> HIDE DEF f
  <2> QED
    BY <2>1, FS_Surjection DEF BufferInv
<1>6. events' \subseteq tracked' /\ events' \subseteq events
  BY <1>1, <1>3 DEF BufferInv
<1>7. DistinctIds(events') /\ (\A e \in events' : e.id <= written') /\ Cardinality(events') <= max_events
  <2>1. IsFiniteSet(events) /\ Cardinality(events) \in Nat /\ Cardinality(events) <= max_events
    BY FS_Subset, FS_CardinalityType DEF BufferInv
  <2>2. Cardinality(events') <= Cardinality(events) /\ Cardinality(events') \in Nat
    BY <1>6, <2>1, FS_Subset, FS_CardinalityType
  <2>3. Cardinality(events') <= max_events
    BY <2>1, <2>2, AccountsShapes DEF Rights!PrivacyShapes
  <2> QED
    BY <1>1, <1>6, <2>3 DEF BufferInv, DistinctIds
<1>8. ASSUME NEW x \in tracked', x.subject_reference # Nobody, x \notin events'
      PROVE  Cardinality(IdsOf(Rights!After(tracked', x))) >= max_events
  <2>1. x \in tracked /\ x.subject_reference # u
    BY <1>1, <1>3, <1>8
  <2>2. x \notin events
    BY <1>1, <1>8, <2>1
  <2>3. IdsOf(Rights!After(tracked', x)) = IdsOf(Rights!After(tracked, x))
    BY <1>1, <1>3 DEF IdsOf, Rights!After
  <2> QED
    BY <1>8, <2>1, <2>2, <2>3 DEF BufferInv
<1> QED
  BY <1>4, <1>5, <1>6, <1>7, <1>8 DEF BufferInv

LEMMA BufferPublishes ==
    ASSUME RightsTypes, BufferInv, NEW q \in Request, Rights!Publish(q)
    PROVE  BufferInv'
<1> DEFINE e == [id |-> Rights!NextId, subject_reference |-> asked[q].user]
           S == events \cup {e}
<1>0. MaxRows \in Nat /\ written \in 0..MaxRows /\ max_events \in Nat \ {0}
  BY AccountsShapes DEF Rights!PrivacyShapes, RightsTypes
<1>1. /\ asked[q].at = "consented" /\ written < MaxRows /\ written' = written + 1
      /\ events' = Rights!Bounded(S) /\ tracked' = tracked \cup {e}
  BY DEF Rights!Publish
<1>2. asked[q].user \in Subject
  BY <1>1 DEF RightsTypes, WellFormed, RightsRequest, Rights!Kinds, Writing
<1>3. e.id = written + 1 /\ e \in Rights!ProductEvent /\ e \in TrackedEvent
  BY <1>0, <1>1, <1>2 DEF Rights!NextId, Rights!ProductEvent, TrackedEvent
<1> HIDE DEF e
<1>4. /\ S \subseteq Rights!ProductEvent /\ IsFiniteSet(S) /\ DistinctIds(S)
      /\ \A f \in S : f.id \in Nat /\ f.id <= written + 1
  <2>1. events \subseteq Rights!ProductEvent /\ IsFiniteSet(events)
    BY FS_Subset DEF RightsTypes, BufferInv
  <2>2. \A f \in events : f.id \in Nat /\ f.id <= written
    BY <2>1 DEF BufferInv, Rights!ProductEvent
  <2>3. IsFiniteSet(S)
    BY <2>1, FS_AddElement
  <2>4. DistinctIds(S)
    BY <1>0, <1>3, <2>2 DEF DistinctIds, BufferInv
  <2> QED
    BY <1>0, <1>3, <2>1, <2>2, <2>3, <2>4
<1>5. /\ events' \subseteq S
      /\ \A f \in S : f \notin events' => Cardinality(Rights!After(S, f)) >= max_events
  <2>1. \A f \in S : Cardinality(Rights!After(S, f)) \in Nat
    BY <1>4, AfterIds
  <2> HIDE DEF S
  <2> QED
    BY <1>0, <1>1, <2>1, SameCardinality DEF Rights!Bounded
<1>6. e \in events'
  <2>1. Rights!After(S, e) = {}
    BY <1>0, <1>3, <1>4 DEF Rights!After
  <2>2. Cardinality(Rights!After(S, e)) = 0
    BY <2>1, FS_EmptySet
  <2> QED
    BY <1>0, <1>5, <2>2
<1>7. IsFiniteSet(tracked')
  BY <1>1, FS_AddElement DEF BufferInv
<1>8. tracked' \subseteq TrackedEvent /\ events' \subseteq tracked'
  BY <1>1, <1>3, <1>5 DEF BufferInv
<1>9. ASSUME NEW f \in tracked', f.subject_reference # Nobody, f \notin events'
      PROVE  Cardinality(IdsOf(Rights!After(tracked', f))) >= max_events
  <2>1. f \in tracked
    BY <1>1, <1>6, <1>9
  <2>2. IsFiniteSet(IdsOf(Rights!After(tracked', f))) /\ IsFiniteSet(Rights!After(tracked', f))
        /\ Cardinality(IdsOf(Rights!After(tracked', f))) \in Nat
    BY <1>7, AfterIds
  <2>3. CASE f \in events
    <3>1. Cardinality(Rights!After(S, f)) >= max_events
      BY <1>5, <1>9, <2>3
    <3>2. /\ Cardinality(Rights!After(S, f)) = Cardinality(IdsOf(Rights!After(S, f)))
          /\ Cardinality(Rights!After(S, f)) \in Nat
      BY <1>4, AfterIds
    <3>3. IdsOf(Rights!After(S, f)) \subseteq IdsOf(Rights!After(tracked', f))
      BY <1>1 DEF IdsOf, Rights!After, BufferInv
    <3>4. Cardinality(IdsOf(Rights!After(S, f))) <= Cardinality(IdsOf(Rights!After(tracked', f)))
      BY <2>2, <3>3, MoreIds
    <3> HIDE DEF S
    <3> QED
      BY <1>0, <2>2, <3>1, <3>2, <3>4
  <2>4. CASE f \notin events
    <3>1. Cardinality(IdsOf(Rights!After(tracked, f))) >= max_events
      BY <1>9, <2>1, <2>4 DEF BufferInv
    <3>2. IdsOf(Rights!After(tracked, f)) \subseteq IdsOf(Rights!After(tracked', f))
      BY <1>1 DEF IdsOf, Rights!After
    <3>3. Cardinality(IdsOf(Rights!After(tracked, f))) <= Cardinality(IdsOf(Rights!After(tracked', f)))
      BY <2>2, <3>2, MoreIds
    <3>4. Cardinality(IdsOf(Rights!After(tracked, f))) \in Nat
      BY AfterIds DEF BufferInv
    <3> QED
      BY <1>0, <2>2, <3>1, <3>3, <3>4
  <2> QED
    BY <2>3, <2>4
<1>10. Cardinality(events') <= max_events
  <2> HIDE DEF S
  <2> QED
    BY <1>1, <1>4, BoundedLength
<1>11. DistinctIds(events') /\ \A f \in events' : f.id <= written'
  BY <1>1, <1>4, <1>5 DEF DistinctIds
<1> HIDE DEF S
<1> QED
  BY <1>7, <1>8, <1>9, <1>10, <1>11 DEF BufferInv

LEMMA BufferStep ==
    ASSUME RightsTypes, BufferInv, [Rights!Next]_Rights!vars
    PROVE  BufferInv'
<1>1. ASSUME events' = events, tracked' = tracked PROVE BufferInv'
  <2>1. \A e \in events : e.id \in Nat /\ e.id <= written
    BY DEF BufferInv, RightsTypes, Rights!ProductEvent
  <2>2. written \in Nat /\ written' \in Nat /\ written <= written'
    BY RightsTypesStep, AccountsShapes DEF RightsTypes, Rights!PrivacyShapes
  <2>3. \A e \in events' : e.id <= written'
    BY <1>1, <2>1, <2>2
  <2> QED
    BY <1>1, <2>3 DEF BufferInv, Rights!After
<1>2. CASE UNCHANGED <<Tables, Buffer>>
  BY <1>1, <1>2 DEF Buffer
<1>3. ASSUME NEW q \in Request, Commits(q)
      PROVE  BufferInv'
  BY <1>1, <1>3, BufferErases, BufferPublishes DEF Commits, Rights!CommitConsent, Rights!CommitExport,
     Rights!CommitErasure, Rights!CommitLogout, Rights!NoEvents
<1> QED
  BY <1>2, <1>3, OnlyCommits

LEMMA BufferInvariant == Rights!Spec => []BufferInv
<1>1. Rights!Init => BufferInv
  <2>1. IsFiniteSet({}) /\ Cardinality({}) = 0 /\ max_events \in Nat \ {0}
    BY FS_EmptySet, AccountsShapes DEF Rights!PrivacyShapes
  <2> QED
    BY <2>1 DEF Rights!Init, BufferInv, DistinctIds
<1>2. RightsTypes /\ BufferInv /\ [Rights!Next]_Rights!vars => BufferInv'
  BY BufferStep
<1> QED
  BY <1>1, <1>2, RightsTypesKept, PTL DEF Rights!Spec

LEMMA NewestStay ==
    ASSUME RightsTypes, BufferInv
    PROVE  Rights!NewestEventsKept
<1>0. max_events \in Nat \ {0}
  BY AccountsShapes DEF Rights!PrivacyShapes
<1> SUFFICES ASSUME NEW e \in tracked, e.subject_reference # Nobody, e \notin events
             PROVE  ~(Cardinality(Rights!After(tracked, e)) < max_events)
  BY SameCardinality DEF Rights!NewestEventsKept
<1>1. Cardinality(IdsOf(Rights!After(tracked, e))) >= max_events
  BY DEF BufferInv
<1>2. /\ Cardinality(IdsOf(Rights!After(tracked, e))) <= Cardinality(Rights!After(tracked, e))
      /\ Cardinality(IdsOf(Rights!After(tracked, e))) \in Nat /\ Cardinality(Rights!After(tracked, e)) \in Nat
  BY AfterIds DEF BufferInv
<1> QED
  BY <1>0, <1>1, <1>2

\* What RightsTypes and BufferInv say of each request and of the buffer is its type.
LEMMA RightsAreTyped ==
    ASSUME RightsTypes, BufferInv
    PROVE  Rights!TypeOK
<1>1. Rights!Cardinality(events) <= max_events
  BY SameCardinality DEF BufferInv
<1>2. ASSUME NEW q \in Request
      PROVE  asked[q].at \in Rights!Ats /\ asked[q].kind \in Rights!Kinds /\ asked[q].user \in Subject \cup {Nobody}
  BY DEF RightsTypes, RightsRequest
<1> QED
  BY <1>1, <1>2 DEF RightsTypes, Rights!TypeOK

\* privacy/service.py delete_account and its transaction: an erasure that commits took the
\* decisions of the account with it and left one completed receipt that does not name it; one
\* that fails at any statement, or loses to another one, leaves none, for any number of
\* accounts and requests.
THEOREM ErasuresAreComplete == AccountsSpec => []ErasureIsComplete
<1>1. RightsTypes /\ HoldInv /\ AccountInv /\ BufferInv /\ RowInv => ErasureIsComplete
  BY ErasedOnce, RightsAreTyped DEF ErasureIsComplete, AccountsTypeOK, RowInv, SalesTypes
<1>2. AccountsSpec => []RowInv
  BY SalesMoveAlone, RowInvInit, RowInvKept, PTL DEF Sales!Spec
<1> QED
  BY <1>1, <1>2, AccountInvariant, BufferInvariant, RightsMoveAlone, PTL

-------------------------------------------------------------------------------
(* Consent decisions: the one in force, and the events it allows *)

\* A decision in force after a step that only adds decisions is no older than one before.
LEMMA NewerInForce ==
    ASSUME NEW u, NEW p, consents \subseteq consents'
    PROVE  \A c \in Rights!Latest(u, p), d \in Rights!Latest(u, p)' :
              d.at > c.at \/ (d.at = c.at /\ d.id >= c.id)
BY DEF Rights!Latest, Rights!Newest, Rights!DecisionsOf

\* An erasure that commits leaves the decisions of the other accounts as they are.
LEMMA ErasureSparesOthers ==
    ASSUME NEW u, NEW p, NEW v, v # u, consents' = {c \in consents : c.user # v}
    PROVE  Rights!Latest(u, p)' = Rights!Latest(u, p)
<1>1. Rights!DecisionsOf(u, p)' = Rights!DecisionsOf(u, p)
  BY DEF Rights!DecisionsOf
<1> QED
  BY <1>1 DEF Rights!Latest, Rights!Newest

\* latest_consents of sql_repository.py: of an account that stays, the effective decision is
\* replaced by a later one only, in whatever order the transactions that record them commit.
THEOREM ConsentNeverRevives == AccountsSpec => ConsentNeverGoesBack
<1> DEFINE A == \A u \in users', p \in Purpose :
                  \A c \in Rights!Latest(u, p), d \in Rights!Latest(u, p)' :
                     d.at > c.at \/ (d.at = c.at /\ d.id >= c.id)
<1>1. ASSUME RightsTypes, [Rights!Next]_Rights!vars
      PROVE  [A]_consents
  <2> SUFFICES ASSUME consents' # consents, NEW u \in users', NEW p \in Purpose
               PROVE  \A c \in Rights!Latest(u, p), d \in Rights!Latest(u, p)' :
                        d.at > c.at \/ (d.at = c.at /\ d.id >= c.id)
    OBVIOUS
  <2>1. PICK q \in Request : Commits(q)
    BY <1>1, OnlyCommits DEF Tables
  <2>2. CASE consents \subseteq consents'
    BY <2>2, NewerInForce
  <2>3. CASE Rights!CommitErasure(q)
    <3>1. PICK v \in Subject : users' = users \ {v} /\ consents' = {c \in consents : c.user # v}
      BY <1>1, <2>3, CommittedErasure
    <3>2. Rights!Latest(u, p)' = Rights!Latest(u, p)
      BY <3>1, ErasureSparesOthers
    <3>3. ASSUME NEW c \in Rights!Latest(u, p), NEW d \in Rights!Latest(u, p)
          PROVE  d.at > c.at \/ (d.at = c.at /\ d.id >= c.id)
      BY DEF Rights!Latest, Rights!Newest
    <3> QED
      BY <3>2, <3>3
  <2>4. CASE Rights!CommitConsent(q)
    BY <2>2, <2>4 DEF Rights!CommitConsent
  <2> QED
    BY <2>1, <2>3, <2>4 DEF Commits, Rights!CommitExport, Rights!CommitLogout, Rights!EraseOutside,
       Rights!Publish, Rights!NothingCommitted
<1> HIDE DEF A
<1>2. RightsTypes /\ [Rights!Next]_Rights!vars => [A]_consents
  BY <1>1
<1>3. Rights!Spec => [][A]_consents
  BY <1>2, RightsTypesKept, PTL DEF Rights!Spec
<1> USE DEF A
<1> QED
  BY <1>3, RightsMoveAlone DEF ConsentNeverGoesBack, Rights!ConsentNeverGoesBack

\* An export has every decision of its account that had committed when it was asked for.
ExportInv ==
    /\ \A q \in Request :
        /\ asked[q].asked <= written
        /\ asked[q].kind = "export" /\ asked[q].at = "read" =>
             \A c \in Rights!OwnSections(asked[q].user) : c \in asked[q].seen \/ c.stamp > asked[q].asked
        /\ asked[q].kind = "export" /\ asked[q].at = "completed" =>
             \A s \in asked[q].seen, c \in Rights!OwnSections(asked[q].user) :
                c \in s.first \/ c.stamp > asked[q].asked
    /\ \A x \in exports : \A m \in x.missing : m.stamp > x.request

\* A statement of another kind, or of an export that has not read yet.
LEMMA ExportQuiet ==
    ASSUME RightsTypes, RightsTypes', ExportInv, written <= written', NEW q \in Request,
           \A o \in Request \ {q} : asked'[o] = asked[o],
           asked'[q].asked <= written',
           asked'[q].kind = "export" => asked'[q].at \notin {"read", "completed"},
           \A c \in consents' : c \in consents \/ c.stamp > written, exports' = exports
    PROVE  ExportInv'
<1>0. /\ written \in Nat /\ written' \in Nat
      /\ \A o \in Request : asked[o].asked \in Nat
      /\ \A c \in consents' : c.stamp \in Nat
  BY AccountsShapes DEF RightsTypes, RightsRequest, Rights!PrivacyShapes, Rights!ConsentDecision
<1>1. ASSUME NEW o \in Request \ {q}, NEW c \in consents', c \notin consents
      PROVE  c.stamp > asked'[o].asked
  BY <1>0, <1>1 DEF ExportInv
<1>2. ASSUME NEW o \in Request \ {q}
      PROVE  /\ asked'[o].asked <= written'
             /\ asked'[o].kind = "export" /\ asked'[o].at = "read" =>
                  \A c \in Rights!OwnSections(asked[o].user)' : c \in asked'[o].seen \/ c.stamp > asked'[o].asked
             /\ asked'[o].kind = "export" /\ asked'[o].at = "completed" =>
                  \A s \in asked'[o].seen, c \in Rights!OwnSections(asked[o].user)' :
                     c \in s.first \/ c.stamp > asked'[o].asked
  <2>1. asked'[o] = asked[o] /\ asked'[o].asked <= written'
    BY <1>0 DEF ExportInv
  <2>2. \A c \in Rights!OwnSections(asked[o].user)' :
           c \in Rights!OwnSections(asked[o].user) \/ c.stamp > asked'[o].asked
    BY <1>1, <2>1 DEF Rights!OwnSections
  <2> QED
    BY <2>1, <2>2 DEF ExportInv
<1> QED
  BY <1>2 DEF ExportInv

LEMMA ExportWorks ==
    ASSUME RightsTypes, RightsTypes', ExportInv, NEW q \in Request, Works(q)
    PROVE  ExportInv'
<1>0. /\ UNCHANGED <<consents, exports, written>> /\ written \in Nat
      /\ \A o \in Request \ {q} : asked'[o] = asked[o]
      /\ asked'[q].kind = asked[q].kind /\ asked'[q].user = asked[q].user /\ asked'[q].asked = asked[q].asked
  BY WorksAsks, AccountsShapes DEF Tables, Moves, RightsTypes, Rights!PrivacyShapes
<1>1. asked'[q].asked <= written' /\ written <= written'
  BY <1>0 DEF ExportInv
<1>2. CASE asked'[q].kind = "export" => asked'[q].at \notin {"read", "completed"}
  BY <1>0, <1>1, <1>2, ExportQuiet
<1>3. CASE Rights!ReadSections(q)
  <2>1. asked'[q].at = "read" /\ asked'[q].seen = Rights!OwnSections(asked[q].user)
    BY <1>3, ReadSectionsAsks DEF Moves
  <2>2. Rights!OwnSections(asked[q].user)' = Rights!OwnSections(asked[q].user)
    BY <1>0 DEF Rights!OwnSections
  <2>3. \A o \in Request \ {q} : Rights!OwnSections(asked[o].user)' = Rights!OwnSections(asked[o].user)
    BY <1>0 DEF Rights!OwnSections
  <2> QED
    BY <1>0, <1>1, <2>1, <2>2, <2>3 DEF ExportInv
<1>4. CASE Rights!ReadAudit(q)
  <2>1. /\ asked'[q].at = "completed" /\ asked[q].at = "read" /\ asked[q].kind = "export"
        /\ asked'[q].seen = {[first |-> asked[q].seen, last |-> Rights!SubjectRows(asked[q].user)]}
    BY <1>4, ReadAuditAsks DEF Moves, Rights!ReadAudit
  <2>2. \A o \in Request : Rights!OwnSections(asked[o].user)' = Rights!OwnSections(asked[o].user)
    BY <1>0 DEF Rights!OwnSections
  <2>3. \A s \in asked'[q].seen : s.first = asked[q].seen
    BY <2>1
  <2>4. \A s \in asked'[q].seen, c \in Rights!OwnSections(asked[q].user)' :
           c \in s.first \/ c.stamp > asked'[q].asked
    BY <1>0, <2>1, <2>2, <2>3 DEF ExportInv
  <2> QED
    BY <1>0, <1>1, <2>1, <2>2, <2>4 DEF ExportInv
<1>5. ~Rights!ReadSections(q) /\ ~Rights!ReadAudit(q) => (asked'[q].kind = "export" => asked'[q].at \notin {"read", "completed"})
  <2>1. Rights!Insert(q) => asked'[q].at = "inserted"
    BY InsertAsks DEF Moves
  <2>2. Rights!Completed(q) => asked'[q].kind = "deletion"
    BY <1>0 DEF Rights!Completed
  <2>3. Rights!NullSubjects(q) => asked'[q].at = "nulled"
    BY NullSubjectsAsks DEF Moves
  <2>4. Rights!DeleteUser(q) => asked'[q].at = "deleted"
    BY StatementAsks DEF Moves
  <2> QED
    BY <2>1, <2>2, <2>3, <2>4 DEF Works
<1> QED
  BY <1>2, <1>3, <1>4, <1>5

LEMMA ExportCommits ==
    ASSUME RightsTypes, RightsTypes', ExportInv, NEW q \in Request, Commits(q)
    PROVE  ExportInv'
<1>0. written \in Nat /\ written' \in Nat
  BY AccountsShapes DEF RightsTypes, Rights!PrivacyShapes
<1>1. written <= written'
  BY CommitsTables
<1>2. /\ \A o \in Request \ {q} : asked'[o] = asked[o]
      /\ asked'[q].asked <= written'
      /\ asked'[q].kind = "export" => asked'[q].at \notin {"read", "completed"}
  <2>1. CASE asked'[q] = Rights!Idle
    BY <1>0, <2>1, CommitsAsks DEF Rights!Idle
  <2>2. CASE Moves(q, "erased_outside", asked[q].row, asked[q].seen)
    <3>1. asked'[q].asked = asked[q].asked /\ asked[q].asked \in Nat
      BY <2>2, AccountsShapes DEF Moves, RightsTypes, RightsRequest, Rights!PrivacyShapes
    <3>2. asked'[q].asked <= written'
      BY <1>0, <1>1, <3>1 DEF ExportInv
    <3> QED
      BY <2>2, <3>2 DEF Moves
  <2> QED
    BY <2>1, <2>2, CommitsAsks
<1>3. CASE exports' = exports /\ \A c \in consents' : c \in consents \/ c.stamp > written
  BY <1>1, <1>2, <1>3, ExportQuiet
<1>4. CASE Rights!CommitConsent(q)
  <2>1. PICK d \in Rights!ConsentDecision : consents' = consents \cup {d} /\ d.stamp = written + 1
    BY <1>4, CommittedDecision
  <2>2. d.stamp > written
    BY <1>0, <2>1
  <2>3. exports' = exports
    BY <1>4 DEF Rights!CommitConsent
  <2> QED
    BY <1>3, <2>1, <2>2, <2>3
<1>5. CASE Rights!CommitErasure(q)
  <2>1. consents' \subseteq consents
    BY <1>5, CommittedErasure
  <2> QED
    BY <1>3, <1>5, <2>1 DEF Rights!CommitErasure
<1>6. CASE Rights!CommitExport(q)
  <2> DEFINE X(s) == [user |-> asked[q].user, request |-> asked[q].asked, first |-> s.first, last |-> s.last,
                      missing |-> Rights!DecisionsOf(asked[q].user, analytics) \ s.first]
  <2>1. /\ consents' = consents /\ written' = written /\ asked[q].kind = "export" /\ asked[q].at = "completed"
        /\ exports' = exports \cup {X(s) : s \in asked[q].seen}
    BY <1>6 DEF Rights!CommitExport
  <2>2. ASSUME NEW s \in asked[q].seen
        PROVE  \A m \in X(s).missing : m.stamp > X(s).request
    <3>1. Rights!DecisionsOf(asked[q].user, analytics) \subseteq Rights!OwnSections(asked[q].user)
      BY DEF Rights!DecisionsOf, Rights!OwnSections
    <3> QED
      BY <2>1, <2>2, <3>1 DEF ExportInv
  <2> HIDE DEF X
  <2>3. \A x \in exports' : \A m \in x.missing : m.stamp > x.request
    BY <2>1, <2>2 DEF ExportInv
  <2>4. \A o \in Request : Rights!OwnSections(asked[o].user)' = {c \in consents : c.user = asked'[o].user}
    BY <2>1 DEF Rights!OwnSections
  <2>5. ASSUME NEW o \in Request \ {q}
        PROVE  Rights!OwnSections(asked[o].user)' = Rights!OwnSections(asked[o].user)
    BY <1>2, <2>4 DEF Rights!OwnSections
  <2> QED
    BY <1>2, <2>1, <2>3, <2>5 DEF ExportInv
<1> QED
  BY <1>3, <1>4, <1>5, <1>6 DEF Commits, Rights!CommitLogout, Rights!EraseOutside, Rights!Publish,
     Rights!NothingCommitted

LEMMA ExportStep ==
    ASSUME RightsTypes, ExportInv, [Rights!Next]_Rights!vars
    PROVE  ExportInv'
<1>0. RightsTypes' /\ written <= written' /\ written \in Nat /\ written' \in Nat
  BY RightsTypesStep, AccountsShapes DEF RightsTypes, Rights!PrivacyShapes
<1>1. CASE UNCHANGED <<asked, consents, exports, written>>
  BY <1>1 DEF ExportInv, Rights!OwnSections
<1>2. CASE UNCHANGED Rights!vars
  BY <1>1, <1>2 DEF Rights!vars
<1>3. CASE Rights!Tick
  BY <1>1, <1>3 DEF Rights!Tick, Rights!NothingCommitted
<1>4. ASSUME NEW q \in Request, GivesUp(q)
      PROVE  ExportInv'
  <2>1. asked'[q].asked = 0 /\ asked'[q].kind = "none" /\ UNCHANGED <<consents, exports>>
    BY <1>4, GivesUpAsks DEF Rights!Idle, Tables
  <2> QED
    BY <1>0, <1>4, <2>1, GivesUpAsks, ExportQuiet
<1>5. ASSUME NEW q \in Request, NEW u \in Subject, Begins(q, u)
      PROVE  ExportInv'
  <2>1. UNCHANGED <<consents, exports>>
    BY <1>5, BeginsAsks DEF Tables
  <2> QED
    BY <1>0, <1>5, <2>1, BeginsAsks, ExportQuiet
<1> QED
  BY <1>0, <1>2, <1>3, <1>4, <1>5, ExportWorks, ExportCommits, RightsSteps

\* export_for_user: the decisions an export lacks had not committed when it was asked for, for
\* any number of accounts, purposes and requests, although every table is read by a statement
\* of its own and decisions commit between them.
THEOREM ExportsStayComplete == AccountsSpec => []ExportsAreComplete
<1>1. Rights!Init => ExportInv
  BY DEF Rights!Init, Rights!Idle, ExportInv
<1>2. RightsTypes /\ ExportInv /\ [Rights!Next]_Rights!vars => ExportInv'
  BY ExportStep
<1>3. ExportInv => ExportsAreComplete
  BY DEF ExportInv, ExportsAreComplete, Rights!ExportsAreComplete
<1> QED
  BY <1>1, <1>2, <1>3, RightsTypesKept, RightsMoveAlone, PTL DEF Rights!Spec

\* The decisions of a request that records consent.
Drawn(t) == IF t.kind = "consent" THEN t.seen \cup t.row ELSE {}

\* No two decisions have one id: ids sort anywhere, but are drawn once.
IdInv ==
    /\ \A c \in consents : -written <= c.id /\ c.id <= written
    /\ DistinctIds(consents)
    /\ \A q \in Request : \A c \in Drawn(asked[q]) :
         -written <= c.id /\ c.id <= written /\ \A d \in consents : d.id # c.id
    /\ \A q, o \in Request : q # o => \A c \in Drawn(asked[q]), d \in Drawn(asked[o]) : c.id # d.id

\* An event that is about to be accepted was granted, or has been overtaken by a refusal;
\* so were those that are.
TrackInv ==
    /\ \A q \in Request, u \in Subject :
         asked[q].at = "consented" /\ asked[q].user = u /\ asked[q].seen # {} =>
            \A d \in Rights!Latest(u, analytics) : d.granted \/ d.stamp > asked[q].asked
    /\ \A r \in refusals : r.refused > r.asked

LEMMA OneInForce ==
    ASSUME RightsTypes, IdInv, NEW u, NEW p, NEW c \in Rights!Latest(u, p), NEW d \in Rights!Latest(u, p)
    PROVE  c = d
<1>1. c \in consents /\ d \in consents
  BY DEF Rights!Latest, Rights!Newest, Rights!DecisionsOf
<1>2. c.id \in Int /\ d.id \in Int /\ c.at \in Int /\ d.at \in Int
  BY <1>1, AccountsShapes DEF RightsTypes, Rights!ConsentDecision, Rights!PrivacyShapes
<1>3. (c.at > d.at \/ (c.at = d.at /\ c.id >= d.id)) /\ (d.at > c.at \/ (d.at = c.at /\ d.id >= c.id))
  BY DEF Rights!Latest, Rights!Newest
<1> QED
  BY <1>1, <1>2, <1>3 DEF IdInv, DistinctIds

LEMMA DrawnTyped ==
    ASSUME RightsTypes, NEW q \in Request
    PROVE  /\ Drawn(asked[q]) \subseteq Rights!ConsentDecision
           /\ asked[q].kind # "consent" => Drawn(asked[q]) = {}
<1>1. WellFormed(asked[q])
  BY DEF RightsTypes
<1>2. asked[q].kind = "consent" => asked[q].seen \cup asked[q].row \subseteq Rights!ConsentDecision
  BY <1>1 DEF WellFormed, DecisionsBy
<1> QED
  BY <1>2 DEF Drawn

LEMMA WiderBounds ==
    ASSUME NEW a \in Int, NEW b \in Int, a <= b, NEW x \in Int, -a <= x, x <= a
    PROVE  -b <= x /\ x <= b
OBVIOUS

\* A statement that draws no new decision, and commits none.
LEMMA IdQuiet ==
    ASSUME RightsTypes, RightsTypes', IdInv, written <= written', consents' \subseteq consents,
           \A o \in Request : Drawn(asked'[o]) \subseteq Drawn(asked[o])
    PROVE  IdInv'
<1>0. /\ written \in Int /\ written' \in Int
      /\ \A c \in consents : c.id \in Int
      /\ \A o \in Request : \A c \in Drawn(asked[o]) : c.id \in Int
  BY DrawnTyped, AccountsShapes DEF RightsTypes, Rights!ConsentDecision, Rights!PrivacyShapes
<1>1. \A x \in Int : -written <= x /\ x <= written => -written' <= x /\ x <= written'
  BY <1>0, WiderBounds
<1>2. \A c \in consents' : -written' <= c.id /\ c.id <= written'
  BY <1>0, <1>1 DEF IdInv
<1>3. DistinctIds(consents')
  BY DEF IdInv, DistinctIds
<1>4. \A q \in Request : \A c \in Drawn(asked'[q]) :
         -written' <= c.id /\ c.id <= written' /\ \A d \in consents' : d.id # c.id
  BY <1>0, <1>1 DEF IdInv
<1>5. \A q, o \in Request : q # o => \A c \in Drawn(asked'[q]), d \in Drawn(asked'[o]) : c.id # d.id
  BY DEF IdInv
<1> QED
  BY <1>2, <1>3, <1>4, <1>5 DEF IdInv

LEMMA IdBegins ==
    ASSUME RightsTypes, RightsTypes', IdInv, NEW q \in Request, NEW u \in Subject, Begins(q, u)
    PROVE  IdInv'
<1>0. /\ written \in Int /\ written' \in Int /\ written >= 0
      /\ \A c \in consents : c.id \in Int
      /\ \A o \in Request : \A c \in Drawn(asked[o]) : c.id \in Int
  BY DrawnTyped, AccountsShapes DEF RightsTypes, Rights!ConsentDecision, Rights!PrivacyShapes
<1>1. /\ consents' = consents /\ written <= written' /\ \A o \in Request \ {q} : asked'[o] = asked[o]
  BY BeginsAsks DEF Tables
<1>2. CASE asked'[q].kind # "consent"
  BY <1>1, <1>2, IdQuiet DEF Drawn
<1>3. ASSUME NEW new \in Rights!ConsentDecision, new.user = u, Rights!Begin(q, "consent", u, new),
             new.id \in {written + 1, -(written + 1)}
      PROVE  IdInv'
  <2>0. "consent" \in Writing /\ written' = written + 1
    BY <1>3 DEF Writing, Rights!Begin
  <2>1. asked'[q].seen = {new} /\ asked'[q].row = {} /\ written' = written + 1
    BY <1>3, <2>0, BeginAsks
  <2>2. Drawn(asked'[q]) \subseteq {new}
    BY <2>1 DEF Drawn
  <2>3. /\ new.id \in Int /\ -written' <= new.id /\ new.id <= written'
        /\ \A x \in Int : -written <= x /\ x <= written => x # new.id /\ -written' <= x /\ x <= written'
    BY <1>0, <1>3, <2>1
  <2>4. \A c \in consents : c.id # new.id /\ -written' <= c.id /\ c.id <= written'
    BY <1>0, <2>3 DEF IdInv
  <2>5. \A o \in Request \ {q} : \A c \in Drawn(asked'[o]) :
           c.id # new.id /\ -written' <= c.id /\ c.id <= written' /\ \A d \in consents : d.id # c.id
    BY <1>0, <1>1, <2>3 DEF IdInv
  <2>6. \A o \in Request : \A c \in Drawn(asked'[o]) :
           -written' <= c.id /\ c.id <= written' /\ \A d \in consents' : d.id # c.id
    BY <1>1, <2>2, <2>3, <2>4, <2>5
  <2>7. \A o, p \in Request : o # p => \A c \in Drawn(asked'[o]), d \in Drawn(asked'[p]) : c.id # d.id
    <3> SUFFICES ASSUME NEW o \in Request, NEW p \in Request, o # p,
                        NEW c \in Drawn(asked'[o]), NEW d \in Drawn(asked'[p])
                 PROVE  c.id # d.id
      OBVIOUS
    <3>1. CASE o = q
      BY <2>2, <2>5, <3>1
    <3>2. CASE p = q
      BY <2>2, <2>5, <3>2
    <3>3. CASE o # q /\ p # q
      BY <1>1, <3>3 DEF IdInv
    <3> QED
      BY <3>1, <3>2, <3>3
  <2>8. DistinctIds(consents') /\ \A c \in consents' : -written' <= c.id /\ c.id <= written'
    BY <1>1, <2>4 DEF IdInv
  <2> QED
    BY <2>6, <2>7, <2>8 DEF IdInv
<1>4. asked'[q].kind = "consent" =>
        \E new \in Rights!ConsentDecision :
           /\ new.user = u /\ Rights!Begin(q, "consent", u, new) /\ new.id \in {written + 1, -(written + 1)}
  <2>1. ASSUME NEW type \in {"export", "deletion"}, NEW new \in Rights!DataRightsRequest,
               new.user = u, new.subject_reference = u, new.type = type, new.status = "processing",
               Rights!Begin(q, type, u, new)
        PROVE  asked'[q].kind # "consent"
    <3>1. type \in Writing /\ type # "consent"
      BY DEF Writing
    <3> QED
      BY <2>1, <3>1, BeginAsks
  <2>2. Rights!Logout(q, u) => asked'[q].kind # "consent"
    BY LogoutAsks
  <2>3. Rights!Track(q, u) => asked'[q].kind # "consent"
    BY TrackAsks
  <2> QED
    BY <2>1, <2>2, <2>3 DEF Begins
<1> QED
  BY <1>2, <1>3, <1>4

LEMMA IdCommits ==
    ASSUME RightsTypes, RightsTypes', IdInv, NEW q \in Request, Commits(q)
    PROVE  IdInv'
<1>0. written <= written' /\ \A o \in Request \ {q} : asked'[o] = asked[o]
  BY CommitsTables, CommitsAsks
<1>1. Drawn(asked'[q]) \subseteq Drawn(asked[q])
  <2>1. asked'[q] = Rights!Idle => Drawn(asked'[q]) = {}
    BY DEF Rights!Idle, Drawn
  <2>2. Moves(q, "erased_outside", asked[q].row, asked[q].seen) => Drawn(asked'[q]) = Drawn(asked[q])
    BY DEF Moves, Drawn
  <2> QED
    BY <2>1, <2>2, CommitsAsks
<1>2. CASE consents' \subseteq consents
  <2>1. \A o \in Request : Drawn(asked'[o]) \subseteq Drawn(asked[o])
    BY <1>0, <1>1
  <2> QED
    BY <1>0, <1>2, <2>1, IdQuiet
<1>3. CASE Rights!CommitErasure(q)
  BY <1>2, <1>3, CommittedErasure
<1>4. CASE Rights!CommitConsent(q)
  <2>1. PICK c \in Rights!ConsentDecision, d \in Rights!ConsentDecision :
              asked[q].row = {c} /\ consents' = consents \cup {d} /\ d.id = c.id
    BY <1>4, CommittedDecision
  <2>2. /\ written \in Int /\ written' \in Int
        /\ \A x \in consents : x.id \in Int
        /\ \A o \in Request : \A x \in Drawn(asked[o]) : x.id \in Int
    BY DrawnTyped, AccountsShapes DEF RightsTypes, Rights!ConsentDecision, Rights!PrivacyShapes
  <2>3. c \in Drawn(asked[q])
    BY <1>4, <2>1 DEF Drawn, Rights!CommitConsent
  <2>4. \A x \in Int : -written <= x /\ x <= written => -written' <= x /\ x <= written'
    BY <1>0, <2>2, WiderBounds
  <2>5. /\ -written' <= d.id /\ d.id <= written' /\ \A x \in consents : x.id # d.id
    BY <2>1, <2>2, <2>3, <2>4 DEF IdInv
  <2>6. DistinctIds(consents') /\ \A x \in consents' : -written' <= x.id /\ x.id <= written'
    BY <2>1, <2>2, <2>4, <2>5 DEF IdInv, DistinctIds
  <2>7. asked'[q] = Rights!Idle
    BY <1>4, EndAsks DEF Rights!CommitConsent
  <2>8. Drawn(asked'[q]) = {}
    BY <2>7 DEF Rights!Idle, Drawn
  <2>9. ASSUME NEW o \in Request \ {q}, NEW x \in Drawn(asked[o])
        PROVE  -written' <= x.id /\ x.id <= written' /\ \A y \in consents' : y.id # x.id
    <3>1. x.id # d.id
      BY <2>1, <2>3 DEF IdInv
    <3> QED
      BY <2>1, <2>2, <2>4, <3>1 DEF IdInv
  <2>10. \A o, p \in Request : o # p => \A x \in Drawn(asked'[o]), y \in Drawn(asked'[p]) : x.id # y.id
    BY <1>0, <2>8 DEF IdInv
  <2>11. \A o \in Request : \A x \in Drawn(asked'[o]) :
            -written' <= x.id /\ x.id <= written' /\ \A y \in consents' : y.id # x.id
    BY <1>0, <2>8, <2>9
  <2> QED
    BY <2>6, <2>10, <2>11 DEF IdInv
<1> QED
  BY <1>2, <1>3, <1>4 DEF Commits, Rights!CommitExport, Rights!CommitLogout, Rights!EraseOutside,
     Rights!Publish, Rights!NothingCommitted

LEMMA IdStep ==
    ASSUME RightsTypes, IdInv, [Rights!Next]_Rights!vars
    PROVE  IdInv'
<1>0. RightsTypes' /\ written <= written'
  BY RightsTypesStep
<1>1. CASE UNCHANGED <<asked, consents>>
  BY <1>0, <1>1, IdQuiet
<1>2. CASE UNCHANGED Rights!vars
  BY <1>1, <1>2 DEF Rights!vars
<1>3. CASE Rights!Tick
  BY <1>1, <1>3 DEF Rights!Tick, Rights!NothingCommitted
<1>4. ASSUME NEW q \in Request, GivesUp(q)
      PROVE  IdInv'
  <2>1. Drawn(asked'[q]) = {} /\ consents' = consents
    BY <1>4, GivesUpAsks DEF Rights!Idle, Drawn, Tables
  <2>2. \A o \in Request : Drawn(asked'[o]) \subseteq Drawn(asked[o])
    BY <1>4, <2>1, GivesUpAsks
  <2> QED
    BY <1>0, <2>1, <2>2, IdQuiet
<1>5. ASSUME NEW q \in Request, Works(q)
      PROVE  IdInv'
  <2>1. consents' = consents /\ \A o \in Request \ {q} : asked'[o] = asked[o]
    BY <1>5, WorksAsks DEF Moves, Tables
  <2>2. Drawn(asked'[q]) \subseteq Drawn(asked[q])
    <3>1. Rights!Insert(q) => Drawn(asked'[q]) \subseteq Drawn(asked[q])
      BY InsertAsks DEF Moves, Drawn
    <3>2. ~Rights!Insert(q) => asked[q].kind # "consent"
      BY <1>5 DEF Works, Rights!ReadSections, Rights!ReadAudit, Rights!Completed, Rights!NullSubjects,
                  Rights!DeleteUser, RightsTypes, WellFormed
    <3>3. asked'[q].kind = asked[q].kind
      BY <1>5, WorksAsks DEF Moves
    <3> QED
      BY <3>1, <3>2, <3>3 DEF Drawn
  <2>3. \A o \in Request : Drawn(asked'[o]) \subseteq Drawn(asked[o])
    BY <2>1, <2>2
  <2> QED
    BY <1>0, <2>1, <2>3, IdQuiet
<1> QED
  BY <1>0, <1>2, <1>3, <1>4, <1>5, IdBegins, IdCommits, RightsSteps

\* A statement that accepts no event: the decisions in force stay, or are newer.
LEMMA TrackQuiet ==
    ASSUME RightsTypes, RightsTypes', ExportInv, TrackInv, NEW q \in Request,
           \A o \in Request \ {q} : asked'[o] = asked[o],
           asked'[q].at # "consented" \/ asked'[q] = asked[q], refusals' = refusals,
           \A u \in Subject : \A d \in Rights!Latest(u, analytics)' :
              d \in Rights!Latest(u, analytics) \/ d.stamp > written
    PROVE  TrackInv'
<1> SUFFICES ASSUME NEW o \in Request, NEW u \in Subject,
                    asked'[o].at = "consented", asked'[o].user = u, asked'[o].seen # {},
                    NEW d \in Rights!Latest(u, analytics)'
             PROVE  d.granted \/ d.stamp > asked'[o].asked
  BY DEF TrackInv
<1>1. asked'[o] = asked[o]
  BY DEF TrackInv
<1>3. d \in Rights!Latest(u, analytics) \/ d.stamp > written
  OBVIOUS
<1>4. d \in Rights!ConsentDecision
  BY DEF Rights!Latest, Rights!Newest, Rights!DecisionsOf, RightsTypes
<1>5. /\ written \in Nat /\ asked[o].asked \in Nat /\ asked[o].asked <= written /\ d.stamp \in Nat
  BY <1>4, AccountsShapes DEF ExportInv, RightsTypes, RightsRequest, Rights!ConsentDecision, Rights!PrivacyShapes
<1>6. CASE d \in Rights!Latest(u, analytics)
  BY <1>1, <1>6 DEF TrackInv
<1>7. CASE d.stamp > written
  BY <1>1, <1>5, <1>7
<1> QED
  BY <1>3, <1>6, <1>7

LEMMA TrackBegins ==
    ASSUME RightsTypes, RightsTypes', ExportInv, IdInv, TrackInv, NEW q \in Request, NEW u \in Subject,
           Begins(q, u)
    PROVE  TrackInv'
<1>1. /\ UNCHANGED <<consents, refusals>> /\ \A o \in Request \ {q} : asked'[o] = asked[o]
  BY BeginsAsks DEF Tables, Buffer
<1>2. \A v : Rights!Latest(v, analytics)' = Rights!Latest(v, analytics)
  BY <1>1 DEF Rights!Latest, Rights!Newest, Rights!DecisionsOf
<1>3. CASE asked'[q].at # "consented"
  BY <1>1, <1>2, <1>3, TrackQuiet
<1>4. CASE Rights!Track(q, u)
  <2>1. /\ asked'[q].user = u
        /\ asked'[q].seen = IF Rights!Granted(u, analytics) THEN Rights!Latest(u, analytics) ELSE {}
    BY <1>4, TrackAsks
  <2>2. ASSUME asked'[q].seen # {}, NEW d \in Rights!Latest(u, analytics)
        PROVE  d.granted
    <3>1. PICK c \in Rights!Latest(u, analytics) : c.granted
      BY <2>1, <2>2 DEF Rights!Granted
    <3>2. c = d
      BY OneInForce
    <3> QED
      BY <3>1, <3>2
  <2>3. \A v \in Subject : asked'[q].at = "consented" /\ asked'[q].user = v /\ asked'[q].seen # {} =>
          \A d \in Rights!Latest(v, analytics)' : d.granted \/ d.stamp > asked'[q].asked
    BY <1>2, <2>1, <2>2
  <2>4. \A o \in Request \ {q}, v \in Subject :
          asked'[o].at = "consented" /\ asked'[o].user = v /\ asked'[o].seen # {} =>
            \A d \in Rights!Latest(v, analytics)' : d.granted \/ d.stamp > asked'[o].asked
    BY <1>1, <1>2 DEF TrackInv
  <2>5. \A r \in refusals' : r.refused > r.asked
    BY <1>1 DEF TrackInv
  <2> QED
    BY <2>3, <2>4, <2>5 DEF TrackInv
<1>5. ~Rights!Track(q, u) => asked'[q].at # "consented"
  <2>1. ASSUME NEW new \in Rights!ConsentDecision, new.user = u, Rights!Begin(q, "consent", u, new)
        PROVE  asked'[q].at # "consented"
    <3>1. "consent" \in Writing
      BY DEF Writing
    <3> QED
      BY <2>1, <3>1, BeginAsks
  <2>2. ASSUME NEW type \in {"export", "deletion"}, NEW new \in Rights!DataRightsRequest,
               new.user = u, new.subject_reference = u, new.type = type, new.status = "processing",
               Rights!Begin(q, type, u, new)
        PROVE  asked'[q].at # "consented"
    <3>1. type \in Writing /\ type # "consent"
      BY DEF Writing
    <3> QED
      BY <2>2, <3>1, BeginAsks
  <2>3. Rights!Logout(q, u) => asked'[q].at # "consented"
    BY LogoutAsks
  <2> QED
    BY <2>1, <2>2, <2>3 DEF Begins
<1> QED
  BY <1>3, <1>4, <1>5

LEMMA TrackCommits ==
    ASSUME RightsTypes, RightsTypes', ExportInv, TrackInv, NEW q \in Request, Commits(q)
    PROVE  TrackInv'
<1>1. /\ \A o \in Request \ {q} : asked'[o] = asked[o]
      /\ asked'[q].at # "consented"
  BY CommitsAsks DEF Rights!Idle, Moves
<1>2. CASE UNCHANGED <<consents, refusals>>
  <2>1. \A v : Rights!Latest(v, analytics)' = Rights!Latest(v, analytics)
    BY <1>2 DEF Rights!Latest, Rights!Newest, Rights!DecisionsOf
  <2> QED
    BY <1>1, <1>2, <2>1, TrackQuiet
<1>3. CASE Rights!CommitConsent(q)
  <2>1. PICK d \in Rights!ConsentDecision : consents' = consents \cup {d} /\ d.stamp = written + 1
    BY <1>3, CommittedDecision
  <2>2. d.stamp > written
    BY <2>1, AccountsShapes DEF RightsTypes, Rights!PrivacyShapes
  <2>3. \A u : Rights!Latest(u, analytics)' \subseteq Rights!Latest(u, analytics) \cup {d}
    BY <2>1 DEF Rights!Latest, Rights!Newest, Rights!DecisionsOf
  <2>4. refusals' = refusals
    BY <1>3 DEF Rights!CommitConsent, Rights!NoEvents
  <2> QED
    BY <1>1, <2>2, <2>3, <2>4, TrackQuiet
<1>4. CASE Rights!CommitErasure(q)
  <2>1. PICK v \in Subject : consents' = {c \in consents : c.user # v}
    BY <1>4, CommittedErasure
  <2>2. Rights!Latest(v, analytics)' = {}
    BY <2>1 DEF Rights!Latest, Rights!Newest, Rights!DecisionsOf
  <2>3. \A u \in Subject : Rights!Latest(u, analytics)' \subseteq Rights!Latest(u, analytics)
    BY <2>1, <2>2, ErasureSparesOthers
  <2>4. refusals' = refusals
    BY <1>4 DEF Rights!CommitErasure, Rights!NoEvents
  <2> QED
    BY <1>1, <2>3, <2>4, TrackQuiet
<1>5. CASE Rights!Publish(q)
  <2> DEFINE u == asked[q].user
             refused == {[asked |-> asked[q].asked, refused |-> c.stamp] :
                           c \in {d \in Rights!Latest(u, analytics) : ~d.granted}}
  <2>0. u \in Subject
    BY <1>5 DEF Rights!Publish, RightsTypes, WellFormed, RightsRequest, Rights!Kinds, Writing
  <2>1. /\ asked[q].at = "consented" /\ asked[q].seen # {} /\ consents' = consents
        /\ refusals' = refusals \cup refused
    BY <1>5 DEF Rights!Publish, Rights!NothingCommitted
  <2>2. ASSUME NEW r \in refused PROVE r.refused > r.asked
    <3>1. PICK c \in Rights!Latest(u, analytics) : ~c.granted /\ r.asked = asked[q].asked /\ r.refused = c.stamp
      BY <2>2
    <3> QED
      BY <2>0, <2>1, <3>1 DEF TrackInv
  <2> HIDE DEF refused
  <2>3. \A r \in refusals' : r.refused > r.asked
    BY <2>1, <2>2 DEF TrackInv
  <2>4. \A v : Rights!Latest(v, analytics)' = Rights!Latest(v, analytics)
    BY <2>1 DEF Rights!Latest, Rights!Newest, Rights!DecisionsOf
  <2>5. \A o \in Request, v \in Subject :
          asked'[o].at = "consented" /\ asked'[o].user = v /\ asked'[o].seen # {} =>
            \A d \in Rights!Latest(v, analytics)' : d.granted \/ d.stamp > asked'[o].asked
    BY <1>1, <2>4 DEF TrackInv
  <2> QED
    BY <2>3, <2>5 DEF TrackInv
<1> QED
  BY <1>2, <1>3, <1>4, <1>5 DEF Commits, Rights!CommitExport, Rights!CommitLogout, Rights!EraseOutside,
     Rights!NothingCommitted, Rights!NoEvents

LEMMA TrackStep ==
    ASSUME RightsTypes, ExportInv, IdInv, TrackInv, [Rights!Next]_Rights!vars
    PROVE  TrackInv'
<1>0. RightsTypes'
  BY RightsTypesStep
<1>1. ASSUME UNCHANGED <<consents, refusals>>, NEW q \in Request,
             asked'[q].at # "consented" \/ asked'[q] = asked[q], \A o \in Request \ {q} : asked'[o] = asked[o]
      PROVE  TrackInv'
  <2>1. \A v : Rights!Latest(v, analytics)' = Rights!Latest(v, analytics)
    BY <1>1 DEF Rights!Latest, Rights!Newest, Rights!DecisionsOf
  <2> QED
    BY <1>0, <1>1, <2>1, TrackQuiet
<1>2. CASE UNCHANGED <<asked, consents, refusals>>
  BY <1>2 DEF TrackInv, Rights!Latest, Rights!Newest, Rights!DecisionsOf
<1>3. CASE UNCHANGED Rights!vars
  BY <1>2, <1>3 DEF Rights!vars
<1>4. CASE Rights!Tick
  BY <1>2, <1>4 DEF Rights!Tick, Rights!NothingCommitted, Rights!NoEvents
<1>5. ASSUME NEW q \in Request, GivesUp(q)
      PROVE  TrackInv'
  <2>1. asked'[q].at = "idle"
    BY <1>5, GivesUpAsks DEF Rights!Idle
  <2> QED
    BY <1>1, <1>5, <2>1, GivesUpAsks DEF Tables, Buffer
<1>6. ASSUME NEW q \in Request, Works(q)
      PROVE  TrackInv'
  <2>1. asked'[q].kind = asked[q].kind /\ asked[q].kind # "track"
    <3>1. asked[q].kind = "track" => asked[q].at = "consented"
      BY DEF RightsTypes, WellFormed
    <3>2. asked[q].at # "consented"
      BY <1>6 DEF Works, Rights!Insert, Rights!ReadSections, Rights!ReadAudit, Rights!Completed,
                  Rights!NullSubjects, Rights!DeleteUser
    <3> QED
      BY <1>6, <3>1, <3>2, WorksAsks DEF Moves
  <2>2. asked'[q].at # "consented"
    BY <1>0, <2>1 DEF RightsTypes, WellFormed, RightsRequest, Rights!Kinds, Writing
  <2> QED
    BY <1>1, <1>6, <2>2, WorksAsks DEF Moves, Tables, Buffer
<1> QED
  BY <1>0, <1>3, <1>4, <1>5, <1>6, TrackBegins, TrackCommits, RightsSteps

\* record_product_event and publish: an event against a refusal had read the decisions before
\* the refusal committed, and the buffer keeps the newest events of the accounts that are not
\* erased, for any number of accounts, requests and purposes and any length of the buffer.
THEOREM EventsStayConsented == AccountsSpec => []EventsAreConsented
<1>1. Rights!Init => ExportInv /\ IdInv /\ TrackInv
  BY DEF Rights!Init, Rights!Idle, ExportInv, IdInv, TrackInv, Drawn, DistinctIds
<1>2. RightsTypes /\ ExportInv /\ IdInv /\ TrackInv /\ [Rights!Next]_Rights!vars =>
        (ExportInv /\ IdInv /\ TrackInv)'
  BY ExportStep, IdStep, TrackStep
<1>3. RightsTypes /\ BufferInv /\ TrackInv => EventsAreConsented
  BY NewestStay DEF TrackInv, EventsAreConsented, Rights!EventsAreConsented,
     Rights!UnwantedEventWasOvertaken
<1>4. Rights!Spec => []TrackInv
  BY <1>1, <1>2, RightsTypesKept, PTL DEF Rights!Spec
<1> QED
  BY <1>3, <1>4, BufferInvariant, RightsTypesKept, RightsMoveAlone, PTL
================================================================================
