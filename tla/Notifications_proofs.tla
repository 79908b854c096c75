-------------------------- MODULE Notifications_proofs --------------------------
(***************************************************************************)
(* Theorems of Notifications, for any number of accounts, devices, places  *)
(* and evaluations at once.                                                *)
(***************************************************************************)
EXTENDS Notifications, FiniteSetTheorems, TLAPS

-------------------------------------------------------------------------------
(* The shape of what the evaluations hold and the tables keep *)

Evaluation ==
    [at : {"idle", "read", "alerting", "claimed", "pushing", "done"}, user : User \cup {NoUser},
     moment : 0..MaxHour, preferences : Preferences, key : SUBSET Keys, devices : SUBSET Device,
     delivered : BOOLEAN, changed : SUBSET {"preferences", "devices"}]

\* TypeOK, with the domains of the functions, and at most one row of preferences an account.
Types ==
    /\ accounts \subseteq User /\ hour \in 0..MaxHour
    /\ saved \in [User -> SUBSET Preferences]
    /\ \A u \in User : saved[u] = {} \/ \E p \in Preferences : saved[u] = {p}
    /\ owner \in [Device -> User \cup {NoUser}]
    /\ claims \subseteq User \X Keys
    /\ outcomes \subseteq [user : User, hour : 0..MaxHour, status : {"delivered", "failed"}]
    /\ tx \in [Request -> Evaluation]

\* An evaluation that decided to alert has one dedupe key, and an account.
Decided == {"alerting", "claimed", "pushing", "done"}
KeysAreSingle ==
    \A q \in Request : tx[q].at \in Decided =>
        tx[q].user \in User /\ \E k \in Keys : tx[q].key = {k}

\* An evaluation that goes on has an account.
ReadersAreAccounts == \A q \in Request : tx[q].at # "idle" => tx[q].user \in User

ClaimInd == Types /\ ReadersAreAccounts /\ KeysAreSingle /\ ClaimsAreExclusive /\ CommittedClaimsStay

LEMMA IdleEvaluation ==
    /\ Idle \in Evaluation /\ Idle.at = "idle" /\ Idle.devices = {} /\ Defaults \in Preferences
BY NotificationShapes DEF Idle, Evaluation, Defaults, Preferences

LEMMA PreferencesTyped ==
    ASSUME Types, NEW u \in User
    PROVE  PreferencesOf(u) \in Preferences
<1>1. CASE saved[u] = {}
  BY <1>1, IdleEvaluation DEF PreferencesOf
<1>2. ASSUME NEW p \in Preferences, saved[u] = {p}
      PROVE  PreferencesOf(u) \in Preferences
  BY <1>2 DEF PreferencesOf
<1> QED
  BY <1>1, <1>2 DEF Types

\* The step of one evaluation leaves the others as they are.
LEMMA EnterOne ==
    ASSUME Types, NEW q \in Request, NEW next \in Evaluation, Enter(q, next)
    PROVE  /\ tx' \in [Request -> Evaluation] /\ tx'[q] = next
           /\ \A o \in Request \ {q} : tx'[o] = tx[o]
BY DEF Types, Enter

\* A commit beside the evaluations changes what they know of, and nothing else.
LEMMA OvertakenKeeps ==
    ASSUME Types, NEW what \in {"preferences", "devices"}, NEW readers, Overtaken(what, readers)
    PROVE  /\ tx' \in [Request -> Evaluation]
           /\ \A q \in Request :
                 /\ tx'[q].at = tx[q].at /\ tx'[q].user = tx[q].user /\ tx'[q].key = tx[q].key
                 /\ tx'[q].preferences = tx[q].preferences /\ tx'[q].devices = tx[q].devices
                 /\ tx[q].changed \subseteq tx'[q].changed
                 /\ q \in readers => what \in tx'[q].changed
<1> SUFFICES ASSUME NEW q \in Request
             PROVE  /\ tx'[q] \in Evaluation
                    /\ tx'[q].at = tx[q].at /\ tx'[q].user = tx[q].user /\ tx'[q].key = tx[q].key
                    /\ tx'[q].preferences = tx[q].preferences /\ tx'[q].devices = tx[q].devices
                    /\ tx[q].changed \subseteq tx'[q].changed
                    /\ q \in readers => what \in tx'[q].changed
  BY DEF Overtaken
<1>1. tx[q] \in Evaluation
  BY DEF Types
<1>2. CASE q \in readers
  <2>1. tx'[q] = [tx[q] EXCEPT !.changed = tx[q].changed \cup {what}]
    BY <1>2 DEF Overtaken
  <2>2. tx[q].changed \cup {what} \in SUBSET {"preferences", "devices"}
    BY <1>1 DEF Evaluation
  <2> QED
    BY <1>1, <2>1, <2>2 DEF Evaluation
<1>3. CASE q \notin readers
  BY <1>1, <1>3 DEF Overtaken
<1> QED
  BY <1>2, <1>3

-------------------------------------------------------------------------------
(* What each step of an evaluation writes *)

LEMMA EvaluateWrites ==
    ASSUME Types, NEW q \in Request, NEW u \in User, Evaluate(q, u)
    PROVE  [Idle EXCEPT !.at = "read", !.user = u, !.moment = hour,
                        !.preferences = PreferencesOf(u)] \in Evaluation
<1>1. PreferencesOf(u) \in Preferences /\ hour \in 0..MaxHour
  BY PreferencesTyped DEF Types
<1> QED
  BY <1>1, IdleEvaluation DEF Evaluation, Idle

LEMMA AlertWrites ==
    ASSUME Types, NEW q \in Request, NEW place \in Place, NEW zone \in Zones, Alert(q, place, zone)
    PROVE  /\ <<place, zone.risk_level, tx[q].moment>> \in Keys
           /\ [tx[q] EXCEPT !.at = "alerting", !.key = {<<place, zone.risk_level, tx[q].moment>>}] \in Evaluation
<1>1. zone.risk_level \in {"low", "medium", "high"}
  BY NotificationShapes DEF Alert
<1>2. tx[q] \in Evaluation
  BY DEF Types
<1>3. <<place, zone.risk_level, tx[q].moment>> \in Keys
  BY <1>1, <1>2 DEF Evaluation, Keys
<1> QED
  BY <1>2, <1>3 DEF Evaluation

LEMMA ClaimWrites ==
    ASSUME Types, NEW q \in Request, NEW next, next \in {"claimed", "done"}
    PROVE  [tx[q] EXCEPT !.at = next] \in Evaluation
BY DEF Types, Evaluation

LEMMA ReadDevicesWrites ==
    ASSUME Types, NEW q \in Request
    PROVE  [tx[q] EXCEPT !.at = "pushing", !.devices = DevicesOf(tx[q].user)] \in Evaluation
<1>1. tx[q] \in Evaluation
  BY DEF Types
<1>2. DevicesOf(tx[q].user) \in SUBSET Device
  BY DEF DevicesOf
<1> QED
  BY <1>1, <1>2 DEF Evaluation

LEMMA SendWrites ==
    ASSUME Types, NEW q \in Request, NEW d \in Device, NEW succeeds \in BOOLEAN
    PROVE  [tx[q] EXCEPT !.devices = @ \ {d}, !.delivered = @ \/ succeeds] \in Evaluation
<1>1. tx[q] \in Evaluation
  BY DEF Types
<1>2. tx[q].devices \ {d} \in SUBSET Device /\ (tx[q].delivered \/ succeeds) \in BOOLEAN
  BY <1>1 DEF Evaluation
<1> QED
  BY <1>1, <1>2 DEF Evaluation

-------------------------------------------------------------------------------
(* The claim of an alert *)

\* A step of one evaluation that commits nothing and claims nothing it had not claimed.
LEMMA QuietStepKeepsClaims ==
    ASSUME ClaimInd, NEW q \in Request, NEW next \in Evaluation, Enter(q, next), NothingCommitted,
           next.at # "idle" => next.user \in User,
           next.at \in Decided => \E k \in Keys : next.key = {k},
           next.at \in {"claimed", "pushing", "done"} =>
               Claimed(q) /\ next.user = tx[q].user /\ next.key = tx[q].key
    PROVE  ClaimInd'
<1>1. /\ tx' \in [Request -> Evaluation] /\ tx'[q] = next
      /\ \A o \in Request \ {q} : tx'[o] = tx[o]
  BY EnterOne DEF ClaimInd
<1>2. Types'
  BY <1>1 DEF ClaimInd, Types, NothingCommitted
<1>3. ReadersAreAccounts' /\ KeysAreSingle'
  BY <1>1 DEF ClaimInd, ReadersAreAccounts, KeysAreSingle, Decided
<1>4. ClaimsAreExclusive' /\ CommittedClaimsStay'
  BY <1>1 DEF ClaimInd, ClaimsAreExclusive, CommittedClaimsStay, Claimed, NothingCommitted
<1> QED
  BY <1>2, <1>3, <1>4 DEF ClaimInd

\* claim_delivery: nobody has claimed the alert, and nobody is about to.
LEMMA ClaimKeepsClaims ==
    ASSUME ClaimInd, NEW q \in Request, NEW k \in Keys, Claim(q, k)
    PROVE  ClaimInd'
<1>1. PICK at \in {"claimed", "done"} : Enter(q, [tx[q] EXCEPT !.at = at])
  BY DEF Claim
<1> DEFINE next == [tx[q] EXCEPT !.at = at]
<1>2. tx[q] \in Evaluation /\ tx[q].at = "alerting" /\ tx[q].user \in User /\ tx[q].key = {k}
  BY DEF ClaimInd, Types, KeysAreSingle, Decided, Claim
<1>3. next \in Evaluation /\ next.at = at /\ next.user = tx[q].user /\ next.key = {k}
  BY <1>2, ClaimWrites DEF Evaluation, ClaimInd
<1>4. /\ tx' \in [Request -> Evaluation] /\ tx'[q] = next
      /\ \A o \in Request \ {q} : tx'[o] = tx[o]
  BY <1>1, <1>3, EnterOne DEF ClaimInd
<1> HIDE DEF next
<1>5. Types'
  BY <1>4 DEF ClaimInd, Types, NothingCommitted, Claim
<1>6. ReadersAreAccounts' /\ KeysAreSingle'
  BY <1>2, <1>3, <1>4 DEF ClaimInd, ReadersAreAccounts, KeysAreSingle, Decided
<1>7. \A o \in Request \ {q} : Claimed(o) /\ tx[o].user = tx[q].user => k \notin tx[o].key
  BY DEF Claim, ClaimedElsewhere
<1>8. ClaimsAreExclusive'
  BY <1>3, <1>4, <1>7 DEF ClaimInd, ClaimsAreExclusive, Claimed
<1>9. \A c \in claims : c[1] = tx[q].user => c[2] # k
  BY DEF ClaimInd, Types, Claim, Duplicate
<1>10. CommittedClaimsStay'
  BY <1>3, <1>4, <1>9 DEF ClaimInd, CommittedClaimsStay, Claimed, NothingCommitted, Claim
<1> QED
  BY <1>5, <1>6, <1>8, <1>10 DEF ClaimInd

\* The commit of an evaluation publishes its claim.
LEMMA CommitKeepsClaims ==
    ASSUME ClaimInd, NEW q \in Request, Claimed(q), Enter(q, Idle),
           claims' = claims \cup {<<tx[q].user, k>> : k \in tx[q].key},
           outcomes' = outcomes \/ outcomes' \subseteq
               [user : User, hour : 0..MaxHour, status : {"delivered", "failed"}],
           UNCHANGED <<accounts, saved, owner, hour>>
    PROVE  ClaimInd'
<1>1. /\ tx' \in [Request -> Evaluation] /\ tx'[q] = Idle
      /\ \A o \in Request \ {q} : tx'[o] = tx[o]
  BY IdleEvaluation, EnterOne DEF ClaimInd
<1>2. PICK k \in Keys : tx[q].key = {k} /\ tx[q].user \in User
  BY DEF ClaimInd, KeysAreSingle, Decided, Claimed
<1>3. claims' = claims \cup {<<tx[q].user, k>>}
  BY <1>2
<1>4. Types'
  BY <1>1, <1>2, <1>3 DEF ClaimInd, Types
<1>5. ReadersAreAccounts' /\ KeysAreSingle'
  BY <1>1, IdleEvaluation DEF ClaimInd, ReadersAreAccounts, KeysAreSingle, Decided
<1>6. ClaimsAreExclusive'
  BY <1>1, IdleEvaluation DEF ClaimInd, ClaimsAreExclusive, Claimed
<1>7. CommittedClaimsStay'
  <2> SUFFICES ASSUME NEW o \in Request, NEW c \in claims', Claimed(o)'
               PROVE  tx'[o].user # c[1] \/ c[2] \notin tx'[o].key
    BY DEF CommittedClaimsStay
  <2>1. o # q /\ tx'[o] = tx[o] /\ Claimed(o)
    BY <1>1, IdleEvaluation DEF Claimed
  <2>2. CASE c \in claims
    BY <2>1, <2>2 DEF ClaimInd, CommittedClaimsStay
  <2>3. CASE c = <<tx[q].user, k>>
    BY <1>2, <2>1, <2>3 DEF ClaimInd, ClaimsAreExclusive
  <2> QED
    BY <1>3, <2>2, <2>3
<1> QED
  BY <1>4, <1>5, <1>6, <1>7 DEF ClaimInd

\* A commit beside the evaluations adds no claim.
LEMMA OvertakingKeepsClaims ==
    ASSUME ClaimInd, NEW what \in {"preferences", "devices"}, NEW readers, Overtaken(what, readers),
           claims' \subseteq claims, Types'
    PROVE  ClaimInd'
<1>1. \A q \in Request : /\ tx'[q].at = tx[q].at /\ tx'[q].user = tx[q].user
                         /\ tx'[q].key = tx[q].key
  BY OvertakenKeeps DEF ClaimInd
<1>2. ReadersAreAccounts' /\ KeysAreSingle'
  BY <1>1 DEF ClaimInd, ReadersAreAccounts, KeysAreSingle
<1>3. ClaimsAreExclusive' /\ CommittedClaimsStay'
  BY <1>1 DEF ClaimInd, ClaimsAreExclusive, CommittedClaimsStay, Claimed
<1> QED
  BY <1>2, <1>3 DEF ClaimInd

LEMMA ClaimIndInit == Init => ClaimInd
<1> SUFFICES ASSUME Init  PROVE ClaimInd
  OBVIOUS
<1>1. \A q \in Request : tx[q] = Idle
  BY DEF Init
<1>2. Types
  BY IdleEvaluation, NotificationShapes DEF Init, Types
<1>3. ReadersAreAccounts /\ KeysAreSingle /\ ClaimsAreExclusive /\ CommittedClaimsStay
  BY <1>1, IdleEvaluation
     DEF ReadersAreAccounts, KeysAreSingle, Decided, ClaimsAreExclusive, CommittedClaimsStay, Claimed
<1> QED
  BY <1>2, <1>3 DEF ClaimInd

LEMMA ClaimIndKept == ClaimInd /\ [Next]_vars => ClaimInd'
<1> SUFFICES ASSUME ClaimInd, [Next]_vars  PROVE ClaimInd'
  OBVIOUS
<1> USE IdleEvaluation
<1>0. Types
  BY DEF ClaimInd
<1>1. ASSUME NEW u \in User, NEW p \in Choices, UpdatePreferences(u, p)
      PROVE  ClaimInd'
  <2>1. p \in Preferences /\ tx' \in [Request -> Evaluation]
    BY <1>0, <1>1, OvertakenKeeps, NotificationShapes DEF UpdatePreferences
  <2>2. Types'
    BY <1>0, <1>1, <2>1 DEF Types, UpdatePreferences
  <2> QED
    BY <1>1, <2>2, OvertakingKeepsClaims DEF UpdatePreferences
<1>2. ASSUME NEW u \in User, NEW d \in Device, RegisterDevice(u, d)
      PROVE  ClaimInd'
  <2>1. tx' \in [Request -> Evaluation]
    BY <1>0, <1>2, OvertakenKeeps DEF RegisterDevice
  <2>2. Types'
    BY <1>0, <1>2, <2>1 DEF Types, RegisterDevice
  <2> QED
    BY <1>2, <2>2, OvertakingKeepsClaims DEF RegisterDevice
<1>3. ASSUME NEW u \in User, EraseAccount(u)
      PROVE  ClaimInd'
  <2>1. tx' \in [Request -> Evaluation]
    BY <1>0, <1>3, OvertakenKeeps DEF EraseAccount
  <2>2. owner' \in [Device -> User \cup {NoUser}]
    BY <1>0, <1>3 DEF Types, EraseAccount
  <2>3. Types'
    BY <1>0, <1>3, <2>1, <2>2 DEF Types, EraseAccount
  <2> QED
    BY <1>3, <2>3, OvertakingKeepsClaims DEF EraseAccount
<1>4. ASSUME NEW q \in Request, NEW u \in User, Evaluate(q, u)
      PROVE  ClaimInd'
  <2> DEFINE next == [Idle EXCEPT !.at = "read", !.user = u, !.moment = hour,
                                  !.preferences = PreferencesOf(u)]
  <2>1. next \in Evaluation /\ next.at = "read" /\ next.user = u
    BY <1>0, <1>4, EvaluateWrites DEF Idle
  <2> HIDE DEF next
  <2>2. Enter(q, next) /\ NothingCommitted
    BY <1>4 DEF Evaluate, next
  <2> QED
    BY <2>1, <2>2, QuietStepKeepsClaims DEF Decided
<1>5. ASSUME NEW q \in Request, NEW place \in Place, NEW zone \in Zones, Alert(q, place, zone)
      PROVE  ClaimInd'
  <2> DEFINE k == <<place, zone.risk_level, tx[q].moment>>
             next == [tx[q] EXCEPT !.at = "alerting", !.key = {k}]
  <2>1. next \in Evaluation /\ k \in Keys
    BY <1>0, <1>5, AlertWrites
  <2>2. tx[q] \in Evaluation /\ tx[q].user \in User
    BY <1>0, <1>5 DEF Types, Alert, ClaimInd, ReadersAreAccounts
  <2> HIDE DEF k
  <2>3. next.at = "alerting" /\ next.user \in User /\ next.key = {k}
    BY <2>2 DEF Evaluation
  <2>4. Enter(q, next) /\ NothingCommitted
    BY <1>5 DEF Alert, k
  <2> HIDE DEF next
  <2> QED
    BY <2>1, <2>3, <2>4, QuietStepKeepsClaims
<1>6. ASSUME NEW q \in Request, ReadDevices(q)
      PROVE  ClaimInd'
  <2> DEFINE next == [tx[q] EXCEPT !.at = "pushing", !.devices = DevicesOf(tx[q].user)]
  <2>1. tx[q] \in Evaluation /\ next \in Evaluation
    BY <1>0, ReadDevicesWrites DEF Types
  <2>2. next.at = "pushing" /\ next.user = tx[q].user /\ next.key = tx[q].key
    BY <2>1 DEF Evaluation
  <2>3. Enter(q, next) /\ NothingCommitted /\ Claimed(q)
    BY <1>6 DEF ReadDevices, Claimed
  <2>4. tx[q].user \in User /\ \E k \in Keys : tx[q].key = {k}
    BY <2>3 DEF ClaimInd, KeysAreSingle, Claimed, Decided
  <2> HIDE DEF next
  <2> QED
    BY <2>1, <2>2, <2>3, <2>4, QuietStepKeepsClaims
<1>7. ASSUME NEW q \in Request, NEW d \in Device, NEW k \in Keys, NEW arrives \in BOOLEAN,
             NEW succeeds \in BOOLEAN, Send(q, d, k, arrives, succeeds)
      PROVE  ClaimInd'
  <2> DEFINE next == [tx[q] EXCEPT !.devices = @ \ {d}, !.delivered = @ \/ succeeds]
  <2>1. tx[q] \in Evaluation /\ next \in Evaluation
    BY <1>0, SendWrites DEF Types
  <2>2. next.at = tx[q].at /\ next.user = tx[q].user /\ next.key = tx[q].key
    BY <2>1 DEF Evaluation
  <2>3. Enter(q, next) /\ NothingCommitted /\ Claimed(q)
    BY <1>7 DEF Send, Claimed
  <2>4. tx[q].user \in User /\ \E key \in Keys : tx[q].key = {key}
    BY <2>3 DEF ClaimInd, KeysAreSingle, Claimed, Decided
  <2> HIDE DEF next
  <2> QED
    BY <2>1, <2>2, <2>3, <2>4, QuietStepKeepsClaims
<1>8. ASSUME NEW q \in Request, Record(q)
      PROVE  ClaimInd'
  <2>1. tx[q] \in Evaluation /\ tx[q].user \in User /\ Claimed(q)
    BY <1>0, <1>8 DEF Types, Record, ClaimInd, ReadersAreAccounts, Claimed
  <2>2. [user |-> tx[q].user, hour |-> tx[q].moment,
         status |-> IF tx[q].delivered THEN "delivered" ELSE "failed"]
        \in [user : User, hour : 0..MaxHour, status : {"delivered", "failed"}]
    BY <2>1 DEF Evaluation
  <2>3. outcomes' \subseteq [user : User, hour : 0..MaxHour, status : {"delivered", "failed"}]
    BY <1>0, <1>8, <2>2 DEF Types, Record
  <2> QED
    BY <1>8, <2>1, <2>3, CommitKeepsClaims DEF Record
<1>9. ASSUME NEW q \in Request, CommitClaim(q)
      PROVE  ClaimInd'
  BY <1>9, CommitKeepsClaims DEF CommitClaim, Claimed
<1>10. ASSUME NEW q \in Request, Stop(q)
       PROVE  ClaimInd'
  BY <1>10, QuietStepKeepsClaims DEF Stop, Decided
<1>11. CASE Tick
  BY <1>0, <1>11, NotificationShapes DEF Tick, Types, ClaimInd, ReadersAreAccounts, KeysAreSingle,
     ClaimsAreExclusive, CommittedClaimsStay, Claimed
<1>12. CASE UNCHANGED vars
  BY <1>0, <1>12 DEF vars, Types, ClaimInd, ReadersAreAccounts, KeysAreSingle,
     ClaimsAreExclusive, CommittedClaimsStay, Claimed
<1> QED
  BY <1>1, <1>2, <1>3, <1>4, <1>5, <1>6, <1>7, <1>8, <1>9, <1>10, <1>11, <1>12, ClaimKeepsClaims DEF Next

\* docs/phase-9:9: the claim of an alert belongs to one evaluation, from its push on, for any
\* number of evaluations at once.
THEOREM ClaimsBelongToOne == Spec => []ClaimInv
<1>1. ClaimInd => ClaimInv
  <2>1. Types => TypeOK
    <3> SUFFICES ASSUME Types, NEW u \in User  PROVE Cardinality(saved[u]) <= 1
      BY DEF Types, TypeOK, Evaluation
    <3>1. CASE saved[u] = {}
      BY <3>1, FS_EmptySet
    <3>2. ASSUME NEW p \in Preferences, saved[u] = {p}
          PROVE  Cardinality(saved[u]) <= 1
      BY <3>2, FS_Singleton
    <3> QED
      BY <3>1, <3>2 DEF Types
  <2> QED
    BY <2>1 DEF ClaimInd, ClaimInv
<1> QED
  BY <1>1, ClaimIndInit, ClaimIndKept, PTL DEF Spec

-------------------------------------------------------------------------------
(* What a push owes to what the evaluation read *)

\* delete_account waits for an evaluation that claimed.
ClaimersExist == \A q \in Request : Claimed(q) => tx[q].user \in accounts

\* An evaluation alerts with the preferences it read, which are the account's unless a
\* change overtook it, and which consented.
ReadsAreMarked ==
    \A q \in Request :
        /\ tx[q].at # "idle" => \/ tx[q].preferences = PreferencesOf(tx[q].user)
                                \/ "preferences" \in tx[q].changed
        /\ tx[q].at \in Decided => Consents(tx[q].preferences)
        /\ \A d \in tx[q].devices : owner[d] = tx[q].user \/ "devices" \in tx[q].changed
        /\ tx[q].at # "pushing" => tx[q].devices = {}

AlertInd == ClaimersExist /\ ReadsAreMarked /\ AlertsAreExplained

LEMMA PreferencesKept ==
    ASSUME NEW u \in User, saved'[u] = saved[u]
    PROVE  PreferencesOf(u)' = PreferencesOf(u)
BY DEF PreferencesOf

\* A step of one evaluation that pushes nothing.
LEMMA QuietStepKeepsAlerts ==
    ASSUME ClaimInd, AlertInd, NEW q \in Request, NEW next \in Evaluation, Enter(q, next),
           UNCHANGED <<accounts, saved, owner, pushes>>,
           claims' = claims \/ \A c \in claims' : c \in claims \/ c[1] \in accounts,
           next.at # "idle" => next.user \in User,
           next.at # "idle" => \/ next.preferences = PreferencesOf(next.user)
                               \/ "preferences" \in next.changed,
           next.at \in Decided => Consents(next.preferences),
           next.at \in {"claimed", "pushing", "done"} => next.user \in accounts,
           \A d \in next.devices : owner[d] = next.user \/ "devices" \in next.changed,
           next.at # "pushing" => next.devices = {}
    PROVE  AlertInd'
<1>1. tx'[q] = next /\ \A o \in Request \ {q} : tx'[o] = tx[o]
  BY EnterOne DEF ClaimInd
<1>2. \A u \in User : PreferencesOf(u)' = PreferencesOf(u)
  BY PreferencesKept
<1>3. ClaimersExist'
  BY <1>1 DEF AlertInd, ClaimersExist, Claimed
<1>4. ReadsAreMarked'
  <2> SUFFICES ASSUME NEW o \in Request
               PROVE  /\ tx'[o].at # "idle" => \/ tx'[o].preferences = PreferencesOf(tx[o].user)'
                                               \/ "preferences" \in tx'[o].changed
                      /\ tx'[o].at \in Decided => Consents(tx'[o].preferences)
                      /\ \A d \in tx'[o].devices : owner'[d] = tx'[o].user \/ "devices" \in tx'[o].changed
                      /\ tx'[o].at # "pushing" => tx'[o].devices = {}
    BY DEF ReadsAreMarked, Consents
  <2>1. CASE o = q
    BY <1>1, <1>2, <2>1 DEF PreferencesOf
  <2>2. CASE o # q
    <3>1. tx'[o].at # "idle" => tx'[o].user \in User
      BY <1>1, <2>2 DEF ClaimInd, ReadersAreAccounts
    <3> QED
      BY <1>1, <1>2, <2>2, <3>1 DEF AlertInd, ReadsAreMarked, PreferencesOf
  <2> QED
    BY <2>1, <2>2
<1>5. AlertsAreExplained'
  BY DEF AlertInd, AlertsAreExplained, PushesAreExplained, UnwantedPushWasOvertaken,
     MisdirectedPushWasOvertaken, ErasedAccountsAreSilent
<1> QED
  BY <1>3, <1>4, <1>5 DEF AlertInd

\* HttpPushProvider.send: the evaluation holds a claim, so that its account exists.
LEMMA SendKeepsAlerts ==
    ASSUME ClaimInd, AlertInd, NEW q \in Request, NEW d \in Device, NEW k \in Keys,
           NEW arrives \in BOOLEAN, NEW succeeds \in BOOLEAN, Send(q, d, k, arrives, succeeds)
    PROVE  AlertInd'
<1> DEFINE next == [tx[q] EXCEPT !.devices = @ \ {d}, !.delivered = @ \/ succeeds]
           push == [user |-> tx[q].user, device |-> d, key |-> k,
                    nth |-> Cardinality({p \in pushes : p.user = tx[q].user /\ p.device = d /\ p.key = k}),
                    account |-> tx[q].user \in accounts,
                    consents |-> LET p == PreferencesOf(tx[q].user) IN p.alerts /\ p.background,
                    owned |-> owner[d] = tx[q].user, changed |-> tx[q].changed]
<1>1. tx[q] \in Evaluation /\ next \in Evaluation /\ tx[q].at = "pushing" /\ tx[q].user \in User
  BY SendWrites DEF ClaimInd, Types, ReadersAreAccounts, Send
<1>2. /\ next.at = "pushing" /\ next.user = tx[q].user /\ next.key = tx[q].key
      /\ next.preferences = tx[q].preferences /\ next.changed = tx[q].changed
      /\ next.devices \subseteq tx[q].devices
  BY <1>1 DEF Evaluation
<1>3. Enter(q, next) /\ NothingCommitted /\ d \in tx[q].devices
  BY DEF Send
<1>4. pushes' = pushes \/ pushes' = pushes \cup {push}
  BY DEF Send
<1>5. /\ push.account <=> tx[q].user \in accounts
      /\ push.consents <=> Consents(PreferencesOf(tx[q].user))
      /\ push.owned <=> owner[d] = tx[q].user
      /\ push.changed = tx[q].changed
  BY DEF Consents
<1> HIDE DEF next, push
<1>6. tx'[q] = next /\ \A o \in Request \ {q} : tx'[o] = tx[o]
  BY <1>1, <1>3, EnterOne DEF ClaimInd
<1>7. /\ tx[q].user \in accounts /\ Consents(tx[q].preferences)
      /\ tx[q].preferences = PreferencesOf(tx[q].user) \/ "preferences" \in tx[q].changed
      /\ owner[d] = tx[q].user \/ "devices" \in tx[q].changed
  BY <1>1, <1>3 DEF AlertInd, ClaimersExist, ReadsAreMarked, Claimed, Decided
<1>8. ClaimersExist'
  BY <1>2, <1>3, <1>6, <1>7 DEF AlertInd, ClaimersExist, Claimed, NothingCommitted
<1>9. ReadsAreMarked'
  <2>1. \A u : PreferencesOf(u)' = PreferencesOf(u)
    BY <1>3 DEF PreferencesOf, NothingCommitted
  <2> SUFFICES ASSUME NEW o \in Request
               PROVE  /\ tx'[o].at # "idle" => \/ tx'[o].preferences = PreferencesOf(tx[o].user)'
                                               \/ "preferences" \in tx'[o].changed
                      /\ tx'[o].at \in Decided => Consents(tx'[o].preferences)
                      /\ \A e \in tx'[o].devices : owner'[e] = tx'[o].user \/ "devices" \in tx'[o].changed
                      /\ tx'[o].at # "pushing" => tx'[o].devices = {}
    BY DEF ReadsAreMarked, Consents
  <2>2. /\ tx'[o].at = tx[o].at /\ tx'[o].user = tx[o].user /\ tx'[o].preferences = tx[o].preferences
        /\ tx'[o].changed = tx[o].changed /\ tx'[o].devices \subseteq tx[o].devices
    BY <1>1, <1>2, <1>6
  <2>3. owner' = owner
    BY <1>3 DEF NothingCommitted
  <2> QED
    BY <2>1, <2>2, <2>3 DEF AlertInd, ReadsAreMarked
<1>10. push.account /\ (~push.consents => "preferences" \in push.changed)
                    /\ (~push.owned => "devices" \in push.changed)
  BY <1>5, <1>7
<1>11. AlertsAreExplained'
  BY <1>3, <1>4, <1>10 DEF AlertInd, AlertsAreExplained, PushesAreExplained, UnwantedPushWasOvertaken,
     MisdirectedPushWasOvertaken, ErasedAccountsAreSilent, NothingCommitted
<1> QED
  BY <1>8, <1>9, <1>11 DEF AlertInd

\* update_preferences marks whoever has read the account's preferences.
LEMMA UpdateKeepsAlerts ==
    ASSUME ClaimInd, AlertInd, NEW u \in User, NEW p \in Choices, UpdatePreferences(u, p)
    PROVE  AlertInd'
<1>1. /\ \A q \in Request :
            /\ tx'[q].at = tx[q].at /\ tx'[q].user = tx[q].user
            /\ tx'[q].preferences = tx[q].preferences /\ tx'[q].devices = tx[q].devices
            /\ tx[q].changed \subseteq tx'[q].changed
            /\ q \in Evaluating(u) => "preferences" \in tx'[q].changed
  BY OvertakenKeeps DEF ClaimInd, UpdatePreferences
<1>2. \A w \in User : w # u => PreferencesOf(w)' = PreferencesOf(w)
  BY PreferencesKept DEF UpdatePreferences, ClaimInd, Types
<1>3. ClaimersExist' /\ AlertsAreExplained'
  BY <1>1 DEF AlertInd, ClaimersExist, Claimed, AlertsAreExplained, PushesAreExplained,
     UnwantedPushWasOvertaken, MisdirectedPushWasOvertaken, ErasedAccountsAreSilent, UpdatePreferences
<1>4. ReadsAreMarked'
  <2> SUFFICES ASSUME NEW o \in Request
               PROVE  /\ tx'[o].at # "idle" => \/ tx'[o].preferences = PreferencesOf(tx[o].user)'
                                               \/ "preferences" \in tx'[o].changed
                      /\ tx'[o].at \in Decided => Consents(tx'[o].preferences)
                      /\ \A d \in tx'[o].devices : owner'[d] = tx'[o].user \/ "devices" \in tx'[o].changed
                      /\ tx'[o].at # "pushing" => tx'[o].devices = {}
    BY DEF ReadsAreMarked, Consents
  <2>1. tx'[o].at # "idle" => \/ tx'[o].preferences = PreferencesOf(tx[o].user)'
                              \/ "preferences" \in tx'[o].changed
    BY <1>1, <1>2 DEF AlertInd, ReadsAreMarked, Evaluating, ClaimInd, ReadersAreAccounts
  <2> QED
    BY <1>1, <2>1 DEF AlertInd, ReadsAreMarked, UpdatePreferences
<1> QED
  BY <1>3, <1>4 DEF AlertInd

\* register_device marks whoever is about to push to the device.
LEMMA RegisterKeepsAlerts ==
    ASSUME ClaimInd, AlertInd, NEW u \in User, NEW d \in Device, RegisterDevice(u, d)
    PROVE  AlertInd'
<1>1. /\ \A q \in Request :
            /\ tx'[q].at = tx[q].at /\ tx'[q].user = tx[q].user
            /\ tx'[q].preferences = tx[q].preferences /\ tx'[q].devices = tx[q].devices
            /\ tx[q].changed \subseteq tx'[q].changed
            /\ d \in tx[q].devices => "devices" \in tx'[q].changed
  BY OvertakenKeeps DEF ClaimInd, RegisterDevice
<1>2. /\ u \in accounts /\ owner'[d] = u
      /\ \A e \in Device : e # d => owner'[e] = owner[e]
  BY DEF RegisterDevice, ClaimInd, Types
<1>3. \A w : PreferencesOf(w)' = PreferencesOf(w)
  BY DEF PreferencesOf, RegisterDevice
<1>4. ClaimersExist' /\ AlertsAreExplained'
  BY <1>1, <1>2 DEF AlertInd, ClaimersExist, Claimed, AlertsAreExplained, PushesAreExplained,
     UnwantedPushWasOvertaken, MisdirectedPushWasOvertaken, ErasedAccountsAreSilent, RegisterDevice
<1>5. ReadsAreMarked'
  <2> SUFFICES ASSUME NEW o \in Request
               PROVE  /\ tx'[o].at # "idle" => \/ tx'[o].preferences = PreferencesOf(tx[o].user)'
                                               \/ "preferences" \in tx'[o].changed
                      /\ tx'[o].at \in Decided => Consents(tx'[o].preferences)
                      /\ \A e \in tx'[o].devices : owner'[e] = tx'[o].user \/ "devices" \in tx'[o].changed
                      /\ tx'[o].at # "pushing" => tx'[o].devices = {}
    BY DEF ReadsAreMarked, Consents
  <2>1. tx[o].devices \subseteq Device
    BY DEF ClaimInd, Types, Evaluation
  <2>2. \A e \in tx'[o].devices : owner'[e] = tx'[o].user \/ "devices" \in tx'[o].changed
    BY <1>1, <1>2, <2>1 DEF AlertInd, ReadsAreMarked
  <2>3. tx'[o].at # "idle" => \/ tx'[o].preferences = PreferencesOf(tx[o].user)'
                              \/ "preferences" \in tx'[o].changed
    BY <1>1, <1>3 DEF AlertInd, ReadsAreMarked
  <2> QED
    BY <1>1, <2>2, <2>3 DEF AlertInd, ReadsAreMarked
<1> QED
  BY <1>4, <1>5 DEF AlertInd

\* delete_account marks the readers of the account and waits for its claims, so that no
\* device about to be pushed to loses its account.
LEMMA EraseKeepsAlerts ==
    ASSUME ClaimInd, AlertInd, NEW u \in User, EraseAccount(u)
    PROVE  AlertInd'
<1>1. /\ \A q \in Request :
            /\ tx'[q].at = tx[q].at /\ tx'[q].user = tx[q].user
            /\ tx'[q].preferences = tx[q].preferences /\ tx'[q].devices = tx[q].devices
            /\ tx[q].changed \subseteq tx'[q].changed
            /\ q \in Evaluating(u) => "preferences" \in tx'[q].changed
  BY OvertakenKeeps DEF ClaimInd, EraseAccount
<1>2. \A w \in User : w # u => PreferencesOf(w)' = PreferencesOf(w)
  BY PreferencesKept DEF EraseAccount, ClaimInd, Types
<1>3. \A q \in Request : Claimed(q) => tx[q].user # u
  BY DEF EraseAccount, Pinned
<1>4. \A d \in Device : owner'[d] = IF owner[d] = u THEN NoUser ELSE owner[d]
  BY DEF EraseAccount
<1>5. ClaimersExist'
  BY <1>1, <1>3 DEF AlertInd, ClaimersExist, Claimed, EraseAccount
<1>6. AlertsAreExplained'
  <2>1. \A d \in Device : owner'[d] \in accounts' \cup {NoUser}
    BY <1>4 DEF AlertInd, AlertsAreExplained, ErasedAccountsAreSilent, EraseAccount
  <2>2. \A c \in claims' : c[1] \in accounts'
    BY DEF AlertInd, AlertsAreExplained, ErasedAccountsAreSilent, EraseAccount
  <2> QED
    BY <2>1, <2>2 DEF AlertInd, AlertsAreExplained, PushesAreExplained, UnwantedPushWasOvertaken,
       MisdirectedPushWasOvertaken, ErasedAccountsAreSilent, EraseAccount
<1>7. ReadsAreMarked'
  <2> SUFFICES ASSUME NEW o \in Request
               PROVE  /\ tx'[o].at # "idle" => \/ tx'[o].preferences = PreferencesOf(tx[o].user)'
                                               \/ "preferences" \in tx'[o].changed
                      /\ tx'[o].at \in Decided => Consents(tx'[o].preferences)
                      /\ \A d \in tx'[o].devices : owner'[d] = tx'[o].user \/ "devices" \in tx'[o].changed
                      /\ tx'[o].at # "pushing" => tx'[o].devices = {}
    BY DEF ReadsAreMarked, Consents
  <2>1. tx[o].devices \subseteq Device
    BY DEF ClaimInd, Types, Evaluation
  <2>2. \A d \in tx[o].devices : tx[o].user # u
    BY <1>3 DEF AlertInd, ReadsAreMarked, Claimed
  <2>3. \A d \in tx'[o].devices : owner'[d] = tx'[o].user \/ "devices" \in tx'[o].changed
    BY <1>1, <1>4, <2>1, <2>2 DEF AlertInd, ReadsAreMarked
  <2>4. tx'[o].at # "idle" => \/ tx'[o].preferences = PreferencesOf(tx[o].user)'
                              \/ "preferences" \in tx'[o].changed
    BY <1>1, <1>2 DEF AlertInd, ReadsAreMarked, Evaluating, ClaimInd, ReadersAreAccounts
  <2> QED
    BY <1>1, <2>3, <2>4 DEF AlertInd, ReadsAreMarked
<1> QED
  BY <1>5, <1>6, <1>7 DEF AlertInd

LEMMA AlertIndKept == ClaimInd /\ AlertInd /\ [Next]_vars => AlertInd'
<1> SUFFICES ASSUME ClaimInd, AlertInd, [Next]_vars  PROVE AlertInd'
  OBVIOUS
<1> USE IdleEvaluation
<1>0. Types
  BY DEF ClaimInd
<1>1. ASSUME NEW q \in Request, NEW u \in User, Evaluate(q, u)
      PROVE  AlertInd'
  <2> DEFINE next == [Idle EXCEPT !.at = "read", !.user = u, !.moment = hour,
                                  !.preferences = PreferencesOf(u)]
  <2>1. next \in Evaluation
    BY <1>0, <1>1, EvaluateWrites
  <2>2. next.at = "read" /\ next.user = u /\ next.preferences = PreferencesOf(u) /\ next.devices = {}
    BY DEF Idle
  <2> HIDE DEF next
  <2>3. Enter(q, next) /\ UNCHANGED <<accounts, saved, owner, pushes>> /\ claims' = claims
    BY <1>1 DEF Evaluate, next, NothingCommitted
  <2> QED
    BY <2>1, <2>2, <2>3, QuietStepKeepsAlerts DEF Decided
<1>2. ASSUME NEW q \in Request, NEW place \in Place, NEW zone \in Zones, Alert(q, place, zone)
      PROVE  AlertInd'
  <2> DEFINE k == <<place, zone.risk_level, tx[q].moment>>
             next == [tx[q] EXCEPT !.at = "alerting", !.key = {k}]
  <2>1. next \in Evaluation
    BY <1>0, <1>2, AlertWrites
  <2>2. tx[q] \in Evaluation /\ tx[q].at = "read" /\ tx[q].user \in User
    BY <1>0, <1>2 DEF Types, Alert, ClaimInd, ReadersAreAccounts
  <2> HIDE DEF k
  <2>3. /\ next.at = "alerting" /\ next.user = tx[q].user /\ next.preferences = tx[q].preferences
        /\ next.devices = tx[q].devices /\ next.changed = tx[q].changed
    BY <2>2 DEF Evaluation
  <2>4. Enter(q, next) /\ UNCHANGED <<accounts, saved, owner, pushes>> /\ claims' = claims
    BY <1>2 DEF Alert, k, NothingCommitted
  <2>5. Consents(tx[q].preferences)
    BY <1>2 DEF Alert
  <2>6. /\ tx[q].preferences = PreferencesOf(tx[q].user) \/ "preferences" \in tx[q].changed
        /\ tx[q].devices = {}
    BY <2>2 DEF AlertInd, ReadsAreMarked
  <2> HIDE DEF next
  <2> QED
    BY <2>1, <2>2, <2>3, <2>4, <2>5, <2>6, QuietStepKeepsAlerts
<1>3. ASSUME NEW q \in Request, NEW k \in Keys, Claim(q, k)
      PROVE  AlertInd'
  <2>1. PICK at \in {"claimed", "done"} : Enter(q, [tx[q] EXCEPT !.at = at])
    BY <1>3 DEF Claim
  <2> DEFINE next == [tx[q] EXCEPT !.at = at]
  <2>2. tx[q] \in Evaluation /\ tx[q].at = "alerting" /\ tx[q].user \in accounts
    BY <1>0, <1>3 DEF Types, Claim
  <2>3. next \in Evaluation
    BY <1>0, ClaimWrites
  <2>4. /\ next.at = at /\ next.user = tx[q].user /\ next.preferences = tx[q].preferences
        /\ next.devices = tx[q].devices /\ next.changed = tx[q].changed
    BY <2>2 DEF Evaluation
  <2>5. UNCHANGED <<accounts, saved, owner, pushes>> /\ claims' = claims
    BY <1>3 DEF Claim, NothingCommitted
  <2>6. /\ Consents(tx[q].preferences) /\ tx[q].devices = {}
        /\ tx[q].preferences = PreferencesOf(tx[q].user) \/ "preferences" \in tx[q].changed
    BY <2>2 DEF AlertInd, ReadsAreMarked, Decided
  <2>7. tx[q].user \in User
    BY <1>0, <2>2 DEF Types
  <2> HIDE DEF next
  <2> QED
    BY <2>1, <2>2, <2>3, <2>4, <2>5, <2>6, <2>7, QuietStepKeepsAlerts DEF next
<1>4. ASSUME NEW q \in Request, ReadDevices(q)
      PROVE  AlertInd'
  <2> DEFINE next == [tx[q] EXCEPT !.at = "pushing", !.devices = DevicesOf(tx[q].user)]
  <2>1. tx[q] \in Evaluation /\ tx[q].at = "claimed" /\ next \in Evaluation
    BY <1>0, <1>4, ReadDevicesWrites DEF Types, ReadDevices
  <2>2. /\ next.at = "pushing" /\ next.user = tx[q].user /\ next.preferences = tx[q].preferences
        /\ next.devices = DevicesOf(tx[q].user) /\ next.changed = tx[q].changed
    BY <2>1 DEF Evaluation
  <2>3. Enter(q, next) /\ UNCHANGED <<accounts, saved, owner, pushes>> /\ claims' = claims
    BY <1>4 DEF ReadDevices, NothingCommitted
  <2>4. /\ Consents(tx[q].preferences) /\ tx[q].user \in accounts
        /\ tx[q].preferences = PreferencesOf(tx[q].user) \/ "preferences" \in tx[q].changed
    BY <2>1 DEF AlertInd, ReadsAreMarked, Decided, ClaimersExist, Claimed
  <2>5. tx[q].user \in User /\ \A d \in DevicesOf(tx[q].user) : owner[d] = tx[q].user
    BY <1>0, <2>4 DEF Types, DevicesOf
  <2> HIDE DEF next
  <2> QED
    BY <2>1, <2>2, <2>3, <2>4, <2>5, QuietStepKeepsAlerts
<1>5. ASSUME NEW q \in Request, Record(q) \/ CommitClaim(q)
      PROVE  AlertInd'
  <2>1. tx[q].user \in accounts
    BY <1>5 DEF AlertInd, ClaimersExist, Claimed, Record, CommitClaim
  <2>2. Enter(q, Idle) /\ UNCHANGED <<accounts, saved, owner, pushes>>
    BY <1>5 DEF Record, CommitClaim
  <2>3. \A c \in claims' : c \in claims \/ c[1] \in accounts
    BY <1>5, <2>1 DEF Record, CommitClaim
  <2> QED
    BY <2>2, <2>3, QuietStepKeepsAlerts DEF Decided
<1>6. ASSUME NEW q \in Request, Stop(q)
      PROVE  AlertInd'
  BY <1>6, QuietStepKeepsAlerts DEF Stop, Decided, NothingCommitted
<1>7. CASE Tick \/ UNCHANGED vars
  <2>1. UNCHANGED <<accounts, saved, owner, claims, tx, pushes>>
    BY <1>7 DEF Tick, vars
  <2>2. ClaimersExist' /\ AlertsAreExplained'
    BY <2>1 DEF AlertInd, ClaimersExist, Claimed, AlertsAreExplained, PushesAreExplained,
       UnwantedPushWasOvertaken, MisdirectedPushWasOvertaken, ErasedAccountsAreSilent
  <2>3. ReadsAreMarked'
    BY <2>1 DEF AlertInd, ReadsAreMarked, PreferencesOf, Consents
  <2> QED
    BY <2>2, <2>3 DEF AlertInd
<1> QED
  BY <1>1, <1>2, <1>3, <1>4, <1>5, <1>6, <1>7, SendKeepsAlerts, UpdateKeepsAlerts, RegisterKeepsAlerts,
     EraseKeepsAlerts DEF Next

\* docs/phase-9:19: only a change that overtakes an evaluation misdirects its push, and an
\* erased account gets none, for any number of accounts, devices and evaluations.
THEOREM AlertsAreAlwaysExplained == Spec => []AlertsAreExplained
<1>1. Init => AlertInd
  BY IdleEvaluation DEF Init, AlertInd, ClaimersExist, Claimed, ReadsAreMarked, Decided, AlertsAreExplained,
     PushesAreExplained, UnwantedPushWasOvertaken, MisdirectedPushWasOvertaken, ErasedAccountsAreSilent
<1>2. AlertInd => AlertsAreExplained
  BY DEF AlertInd
<1> QED
  BY <1>1, <1>2, AlertIndKept, ClaimIndInit, ClaimIndKept, PTL DEF Spec
===============================================================================
