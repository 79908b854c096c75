----------------------------- MODULE Notifications -----------------------------
(***************************************************************************)
(* Preventive alerts.  An evaluation of a location reads the account's     *)
(* preferences, asks the parking map, claims the alert in PostgreSQL,      *)
(* reads the account's devices, pushes to each over HTTP and records the   *)
(* outcome, all in one transaction that commits after the pushes, while    *)
(* preferences change, devices are registered anew and accounts erased.    *)
(***************************************************************************)
EXTENDS Naturals, FiniteSets

CONSTANTS User, Device, Place, Request,
          Zones,         \* bound: what the parking map may answer
          Choices,       \* bound: the preferences accounts may ask for
          MaxHour,       \* bound: the clock, in hours
          MaxPushes,     \* bound: pushes in a behaviour
          NoUser, NoZone

Preferences == [alerts : BOOLEAN, background : BOOLEAN, push : BOOLEAN,
                quiet_start : 0..23, quiet_end : 0..23, offset : 0..23]

ASSUME NotificationShapes ==
    /\ Zones \subseteq [score : 0..100, risk_level : {"low", "medium", "high"}] \cup {NoZone}
    /\ Choices \subseteq Preferences /\ MaxHour \in Nat /\ MaxPushes \in Nat
    /\ NoUser \notin User

VARIABLES
    accounts,    \* committed users rows
    saved,       \* committed notification_preferences: none, or the one of each account
    owner,       \* committed push_devices: the account of each token
    claims,      \* committed alert_deliveries that have a dedupe key
    outcomes,    \* committed alert_deliveries that have none (equal rows collapse)
    tx,          \* the evaluation in each request slot
    hour,        \* the clock
    pushes       \* history: what left for the push gateway

vars == <<accounts, saved, owner, claims, outcomes, tx, hour, pushes>>

-------------------------------------------------------------------------------
\* preferences: what an account without a row has.
Defaults == [alerts |-> FALSE, background |-> FALSE, push |-> FALSE,
             quiet_start |-> 22, quiet_end |-> 7, offset |-> 0]
PreferencesOf(u) == IF saved[u] = {} THEN Defaults ELSE CHOOSE p \in saved[u] : TRUE

is_quiet(start, end, local) ==
    /\ start # end
    /\ IF start < end THEN start <= local /\ local < end ELSE local >= start \/ local < end

\* A dedupe key: place, risk level and hour.
Keys == Place \X {"low", "medium", "high"} \X (0..MaxHour)

\* at: the last step; moment: the hour it began in; preferences: what it read; key: its
\* dedupe key; devices: still to be pushed to; delivered: whether a push succeeded;
\* changed: what was committed over since it read it.
Idle == [at |-> "idle", user |-> NoUser, moment |-> 0, preferences |-> Defaults, key |-> {},
         devices |-> {}, delivered |-> FALSE, changed |-> {}]

Init ==
    /\ accounts = User
    /\ saved = [u \in User |-> {}]
    /\ owner = [d \in Device |-> NoUser]
    /\ claims = {} /\ outcomes = {} /\ pushes = {}
    /\ tx = [q \in Request |-> Idle]
    /\ hour = 0

Enter(q, next) == tx' = [tx EXCEPT ![q] = next]
NothingCommitted == UNCHANGED <<accounts, saved, owner, claims, outcomes, hour>>

-------------------------------------------------------------------------------
(* Preferences, devices and accounts: requests of one statement *)

Evaluating(u) == {q \in Request : tx[q].at # "idle" /\ tx[q].user = u}

\* Marks the evaluations that have read what a commit changes.
Overtaken(what, readers) ==
    tx' = [q \in Request |-> IF q \in readers THEN [tx[q] EXCEPT !.changed = @ \cup {what}] ELSE tx[q]]

\* update_preferences: background location requires alerts.
UpdatePreferences(u, p) ==
    /\ u \in accounts /\ (p.background => p.alerts)
    /\ saved' = [saved EXCEPT ![u] = {p}]
    /\ Overtaken("preferences", Evaluating(u))
    /\ UNCHANGED <<accounts, owner, claims, outcomes, hour, pushes>>

\* register_device: the token moves to the account that registers it.
RegisterDevice(u, d) ==
    /\ u \in accounts
    /\ owner' = [owner EXCEPT ![d] = u]
    /\ Overtaken("devices", {q \in Request : d \in tx[q].devices})
    /\ UNCHANGED <<accounts, saved, claims, outcomes, hour, pushes>>

\* An uncommitted claim or outcome references the users row and pins it.
Claimed(q) == tx[q].at \in {"claimed", "pushing", "done"}

Pinned(u) == \E q \in Request : Claimed(q) /\ tx[q].user = u

\* delete_account: the cascade takes preferences, devices and deliveries.
EraseAccount(u) ==
    /\ u \in accounts /\ ~Pinned(u)
    /\ accounts' = accounts \ {u}
    /\ saved' = [saved EXCEPT ![u] = {}]
    /\ owner' = [d \in Device |-> IF owner[d] = u THEN NoUser ELSE owner[d]]
    /\ claims' = {c \in claims : c[1] # u} /\ outcomes' = {o \in outcomes : o.user # u}
    /\ Overtaken("preferences", Evaluating(u))
    /\ UNCHANGED <<hour, pushes>>

-------------------------------------------------------------------------------
(* NotificationService.evaluate_location *)

Evaluate(q, u) ==
    /\ tx[q].at = "idle" /\ u \in accounts
    /\ Enter(q, [Idle EXCEPT !.at = "read", !.user = u, !.moment = hour,
                             !.preferences = PreferencesOf(u)])
    /\ NothingCommitted /\ UNCHANGED pushes

Consents(p) == p.alerts /\ p.background

Quiet(p, moment) == is_quiet(p.quiet_start, p.quiet_end, (moment + p.offset) % 24)

\* An alert is called for: consent, a covered place that scores below 60, no quiet hour.
Alert(q, place, zone) ==
    /\ tx[q].at = "read" /\ Consents(tx[q].preferences)
    /\ zone # NoZone /\ zone.score < 60 /\ ~Quiet(tx[q].preferences, tx[q].moment)
    /\ Enter(q, [tx[q] EXCEPT !.at = "alerting", !.key = {<<place, zone.risk_level, tx[q].moment>>}])
    /\ NothingCommitted /\ UNCHANGED pushes

Duplicate(u, k) == <<u, k>> \in claims

\* Mutant of ClaimedElsewhere: an uncommitted claim is not waited for.
ClaimedNowhere(q, k) == FALSE

ClaimedElsewhere(q, k) ==
    \E o \in Request \ {q} : Claimed(o) /\ tx[o].user = tx[q].user /\ k \in tx[o].key

\* claim_delivery: waits for an uncommitted claim of the same alert; the account exists.
Claim(q, k) ==
    /\ tx[q].at = "alerting" /\ k \in tx[q].key /\ tx[q].user \in accounts
    /\ ~Duplicate(tx[q].user, k)
    /\ ~ClaimedElsewhere(q, k)
    /\ Enter(q, [tx[q] EXCEPT !.at = IF tx[q].preferences.push THEN "claimed" ELSE "done"])
    /\ NothingCommitted /\ UNCHANGED pushes

\* Mutant of DevicesOf: the devices of every account are read.
DevicesOfAll(u) == {d \in Device : owner[d] # NoUser}

DevicesOf(u) == {d \in Device : owner[d] = u}

ReadDevices(q) ==
    /\ tx[q].at = "claimed"
    /\ Enter(q, [tx[q] EXCEPT !.at = "pushing", !.devices = DevicesOf(tx[q].user)])
    /\ NothingCommitted /\ UNCHANGED pushes

\* HttpPushProvider.send: a refused or failed call returns FALSE, whether or not the
\* notification reached the gateway.
Send(q, d, k, arrives, succeeds) ==
    /\ tx[q].at = "pushing" /\ d \in tx[q].devices /\ k \in tx[q].key
    /\ succeeds => arrives
    /\ Cardinality(pushes) < MaxPushes
    /\ pushes' = IF ~arrives THEN pushes
         ELSE pushes \cup {[user |-> tx[q].user, device |-> d, key |-> k,
                nth |-> Cardinality({p \in pushes : p.user = tx[q].user /\ p.device = d /\ p.key = k}),
                account |-> tx[q].user \in accounts,
                consents |-> LET p == PreferencesOf(tx[q].user) IN p.alerts /\ p.background,
                owned |-> owner[d] = tx[q].user, changed |-> tx[q].changed]}
    /\ Enter(q, [tx[q] EXCEPT !.devices = @ \ {d}, !.delivered = @ \/ succeeds])
    /\ NothingCommitted

\* record_delivery is inserted by the flush of the commit.
Record(q) ==
    /\ tx[q].at = "pushing" /\ tx[q].devices = {}
    /\ outcomes' = outcomes \cup {[user |-> tx[q].user, hour |-> tx[q].moment,
                                   status |-> IF tx[q].delivered THEN "delivered" ELSE "failed"]}
    /\ claims' = claims \cup {<<tx[q].user, k>> : k \in tx[q].key}
    /\ Enter(q, Idle)
    /\ UNCHANGED <<accounts, saved, owner, hour, pushes>>

\* The account does not want pushes: the claim alone commits.
CommitClaim(q) ==
    /\ tx[q].at = "done"
    /\ claims' = claims \cup {<<tx[q].user, k>> : k \in tx[q].key}
    /\ Enter(q, Idle)
    /\ UNCHANGED <<accounts, saved, owner, outcomes, hour, pushes>>

\* Nothing to alert about or an alert claimed before: the evaluation commits nothing.
\* An exception, a lost connection or a crash ends it the same way, wherever it is.
Stop(q) ==
    /\ tx[q].at # "idle"
    /\ Enter(q, Idle)
    /\ NothingCommitted /\ UNCHANGED pushes

Tick ==
    /\ hour < MaxHour
    /\ hour' = hour + 1
    /\ UNCHANGED <<accounts, saved, owner, claims, outcomes, tx, pushes>>

Next ==
    \/ \E u \in User : \/ \E p \in Choices : UpdatePreferences(u, p)
                       \/ \E d \in Device : RegisterDevice(u, d)
                       \/ EraseAccount(u)
    \/ \E q \in Request :
        \/ \E u \in User : Evaluate(q, u)
        \/ \E place \in Place, zone \in Zones : Alert(q, place, zone)
        \/ \E k \in Keys : \/ Claim(q, k)
                           \/ \E d \in Device, arrives, succeeds \in BOOLEAN :
                                  Send(q, d, k, arrives, succeeds)
        \/ ReadDevices(q)
        \/ Record(q)
        \/ CommitClaim(q)
        \/ Stop(q)
    \/ Tick

Spec == Init /\ [][Next]_vars

-------------------------------------------------------------------------------
(* Properties *)

\* Every variable has its type.
TypeOK ==
    /\ accounts \subseteq User /\ hour \in 0..MaxHour
    /\ \A u \in User : saved[u] \subseteq Preferences /\ Cardinality(saved[u]) <= 1
    /\ owner \in [Device -> User \cup {NoUser}]
    /\ claims \subseteq User \X Keys
    /\ outcomes \subseteq [user : User, hour : 0..MaxHour, status : {"delivered", "failed"}]
    /\ \A q \in Request : tx[q].preferences \in Preferences /\ tx[q].key \subseteq Keys
                          /\ tx[q].devices \subseteq Device

\* Two evaluations never push one alert at a time: while one that has pushed can still
\* commit, no other holds the claim, and none gets it afterwards.
ClaimsAreExclusive ==
    \A q, o \in Request : q # o /\ Claimed(q) /\ Claimed(o) =>
        tx[q].user # tx[o].user \/ tx[q].key \cap tx[o].key = {}
CommittedClaimsStay ==
    \A q \in Request, c \in claims : Claimed(q) => tx[q].user # c[1] \/ c[2] \notin tx[q].key

\* docs/phase-9:9: the claim of an alert belongs to one evaluation, from its push on.
ClaimInv == TypeOK /\ ClaimsAreExclusive /\ CommittedClaimsStay

\* docs/phase-9:9 promises "deduplication claimed atomically in PostgreSQL before
\* delivery": a device is told of an alert once.
PushedOnce == \A p \in pushes : p.nth = 0

\* An erasure waits for evaluations that hold a claim, so that no device is pushed to
\* for an account that is gone, nor does an erased account keep deliveries or devices.
ErasedAccountsAreSilent ==
    /\ \A p \in pushes : p.account
    /\ \A c \in claims : c[1] \in accounts
    /\ \A d \in Device : owner[d] \in accounts \cup {NoUser}

\* docs/phase-9:19: the server applies consent.  A push without consent was decided
\* before the preferences changed under the evaluation.
UnwantedPushWasOvertaken == \A p \in pushes : ~p.consents => "preferences" \in p.changed

\* A push to a device of somebody else was sent while that device was registered anew.
MisdirectedPushWasOvertaken == \A p \in pushes : ~p.owned => "devices" \in p.changed

\* docs/phase-9:19: only a change that overtakes an evaluation misdirects its push.
PushesAreExplained == UnwantedPushWasOvertaken /\ MisdirectedPushWasOvertaken

\* docs/phase-9: a push to a device, place or account that no longer wanted it had overtaken
\* the change, and an erased account gets none that was not on its way.
AlertsAreExplained == PushesAreExplained /\ ErasedAccountsAreSilent

\* The quiet window is the hours one meets walking from its start to its end, midnight
\* included: docs/phase-9:8.
QuietWindow ==
    \A start, end, local \in 0..23 :
        is_quiet(start, end, local) <=>
            \E k \in 0..23 : local = (start + k) % 24 /\ k < (end + 24 - start) % 24
===============================================================================
