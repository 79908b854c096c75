---------------------------- MODULE ParkingDecision ----------------------------
(***************************************************************************)
(* The authoritative parking decision for one location: the zones that     *)
(* cover it are imported while requests are evaluated.  A request reads    *)
(* the clock of its transaction first (func.now()), its own clock second,  *)
(* the current zone third and, without one, the expired zone fourth.       *)
(* Times are minutes since a Monday, 00:00 UTC.                            *)
(***************************************************************************)
EXTENDS Integers, FiniteSets

CONSTANTS Zones,        \* zones an import may put on the location
          Inputs,       \* what a client sends
          Times,        \* the readings of the clock
          Offset,       \* minutes ahead of UTC, by known timezone
          ImproperKeys, \* names of timezones that ZoneInfo takes for a path out of its database
          Request,
          Never, NoZone, Naive, MaxImports

Provenance == <<"official", "community_verified", "ai_prediction", "estimated">>
Effects == {"PARK", "CAUTION", "DO_NOT_PARK"}

\* Scores are what ZoneProperties admits; the times of day of a window are minutes.
ASSUME DecisionShapes ==
    /\ Times \subseteq Nat /\ Times # {} /\ MaxImports \in Nat
    /\ \A tz \in DOMAIN Offset : Offset[tz] \in Int
    /\ ImproperKeys \cap DOMAIN Offset = {}
    /\ NoZone \notin Zones
    /\ \A z \in Zones :
        /\ z.parking_score \in 0..100 /\ \E i \in 1..4 : Provenance[i] = z.provenance
        /\ \A r \in z.temporal_rules :
            /\ r.effect \in Effects /\ r.exception_dates \subseteq Int
            /\ \A w \in {r.window} \cup r.not_applicable_windows :
                   w.starts_at \in 0..1439 /\ w.ends_at \in 0..1439
    /\ Naive \notin Int /\ \A input \in Inputs : input.located_at \in Int \cup {Naive}

VARIABLES
    zones,      \* the zones that cover the location
    now,
    tx,         \* the request of each slot
    imports,    \* imports so far
    overtaken   \* history: what was imported between the two reads of a request

vars == <<zones, now, tx, imports, overtaken>>

-------------------------------------------------------------------------------
(* modules/parking/domain.py *)

Rank(z) == CHOOSE i \in 1..4 : Provenance[i] = z.provenance

Current(z, at) == z.expires_at = Never \/ z.expires_at > at

\* Mutant of at_location: the best score wins over the provenance.
at_location_by_score(set) ==
    IF set = {} THEN NoZone
    ELSE CHOOSE z \in set : \A o \in set : z.parking_score <= o.parking_score

\* ORDER BY provenance, parking_score LIMIT 1
at_location(set) ==
    IF set = {} THEN NoZone
    ELSE CHOOSE z \in set : \A o \in set :
            Rank(z) < Rank(o) \/ (Rank(z) = Rank(o) /\ z.parking_score <= o.parking_score)

-------------------------------------------------------------------------------
(* Temporal rules *)

Day == 1440
Malformed(r) ==
    \/ r.weekdays = {} \/ ~(r.weekdays \subseteq 0..6)
    \/ r.window.starts_at = r.window.ends_at
    \/ r.valid_until = Never \/ r.valid_until <= r.valid_from

\* No ZoneInfo knows its timezone, or it is malformed.
Unverifiable(r) == r.timezone \notin DOMAIN Offset \/ Malformed(r)

\* _in_window, over midnight when it starts no earlier than it ends
in_window(minute, w) ==
    IF w.starts_at < w.ends_at THEN w.starts_at <= minute /\ minute < w.ends_at
                               ELSE minute >= w.starts_at \/ minute < w.ends_at

Local(r, t) == t + Offset[r.timezone]

\* Mutant of OnItsDay: the weekday and the date are those of UTC.
OnItsDayInUtc(r, t) ==
    /\ r.valid_from <= t /\ t < r.valid_until
    /\ (t \div Day) % 7 \in r.weekdays
    /\ t \div Day \notin r.exception_dates

OnItsDay(r, t) ==
    /\ r.valid_from <= t /\ t < r.valid_until
    /\ (Local(r, t) \div Day) % 7 \in r.weekdays
    /\ Local(r, t) \div Day \notin r.exception_dates

Active(r, t) == /\ OnItsDay(r, t) /\ in_window(Local(r, t) % Day, r.window)
                /\ \A w \in r.not_applicable_windows : ~in_window(Local(r, t) % Day, w)

\* A local time has no zone: comparing it with a window that has one raises TypeError,
\* unless an earlier window in which the rule does not apply was found to cover it.
MayRaise(r, t) ==
    OnItsDay(r, t) /\ \/ r.window.aware
                      \/ /\ in_window(Local(r, t) % Day, r.window)
                         /\ \E w \in r.not_applicable_windows : w.aware
MustRaise(r, t) ==
    MayRaise(r, t) /\ \/ r.window.aware
                      \/ \A w \in r.not_applicable_windows : ~w.aware => ~in_window(Local(r, t) % Day, w)

Severity(effect) == CASE effect = "PARK" -> 0 [] effect = "CAUTION" -> 1 [] effect = "DO_NOT_PARK" -> 2

MostSevere(rules) ==
    CHOOSE effect \in {r.effect : r \in rules} : \A r \in rules : Severity(effect) >= Severity(r.effect)

\* _temporal_decision: the rules are looked at one after another.  The first that is unknown
\* or malformed answers for all of them, and the first that raises ends the request: only
\* ZoneInfoNotFoundError is caught, not the ValueError for an improper key.
TemporalOutcomes(z, t) ==
    LET improper == {r \in z.temporal_rules : r.timezone \in ImproperKeys}
        unverifiable == {r \in z.temporal_rules \ improper : Unverifiable(r)}
        compared == z.temporal_rules \ (improper \cup unverifiable)
        active == {r \in compared : Active(r, t)}
    IN (IF unverifiable # {} THEN {"INDETERMINATE"} ELSE {})
       \cup (IF improper # {} \/ \E r \in compared : MayRaise(r, t) THEN {"raised"} ELSE {})
       \cup (IF improper \cup unverifiable # {} \/ \E r \in compared : MustRaise(r, t) THEN {}
             ELSE IF active = {} THEN {"INDETERMINATE"} ELSE {MostSevere(active)})

\* _from_verified_zone
StaticOutcome(z, permit) ==
    IF \/ z.zone_type = "private_property"
       \/ z.zone_type = "resident_only" /\ ~permit
       \/ z.towing_hotspot \/ z.zone_type = "towing_hotspot"
    THEN "DO_NOT_PARK"
    ELSE IF z.parking_score >= 75 THEN "PARK" ELSE "CAUTION"

-------------------------------------------------------------------------------
(* ParkingDecisionService.evaluate *)

Verified(z) == z.provenance = "official" /\ z.confidence >= 90

Timed(z) == z.temporal_schedule_required \/ z.temporal_rules # {}
ZoneOutcomes(z, permit, t) ==
    IF Timed(z) THEN TemporalOutcomes(z, t) ELSE {StaticOutcome(z, permit)}

Idle == [at |-> "idle", input |-> {}, started |-> 0, evaluated_at |-> 0, zone |-> NoZone,
         outcome |-> "none", coverage |-> "none"]

Init == /\ zones = {} /\ now \in Times
        /\ tx = [q \in Request |-> Idle]
        /\ imports = 0 /\ overtaken = [q \in Request |-> {}]

Enter(q, next) == tx' = [tx EXCEPT ![q] = next]
Answer(q, outcome, coverage, zone) ==
    Enter(q, [tx[q] EXCEPT !.at = "answered", !.outcome = outcome, !.coverage = coverage, !.zone = zone])
Refuse(q, coverage, zone) == Answer(q, "INDETERMINATE", coverage, zone)
In(q) == CHOOSE i \in tx[q].input : TRUE

\* The transaction starts with the request's first statement, current_user's.
Begin(q, input) ==
    /\ tx[q].at = "idle"
    /\ Enter(q, [Idle EXCEPT !.at = "begun", !.input = {input}, !.started = now])
    /\ UNCHANGED <<zones, now, imports, overtaken>>

\* Mutant of Fresh: only a location from the past can be too old.
FreshBackwards(input, t) == IF input.located_at = Naive THEN FALSE ELSE t - input.located_at <= 2

\* The age of the location in minutes, whatever its sign; a time without a zone has none.
Fresh(input, t) == IF input.located_at = Naive THEN FALSE
                   ELSE t - input.located_at <= 2 /\ input.located_at - t <= 2

\* evaluated_at = now, and the checks that read nothing
Check(q) ==
    /\ tx[q].at = "begun"
    /\ \/ ~In(q).location_consent /\ Refuse(q, "LOCATION_CONSENT_REQUIRED", NoZone)
       \/ /\ In(q).location_consent /\ In(q).accuracy_meters > 20
          /\ Refuse(q, "LOCATION_PRECISION_INSUFFICIENT", NoZone)
       \/ /\ In(q).location_consent /\ In(q).accuracy_meters <= 20 /\ ~Fresh(In(q), now)
          /\ Refuse(q, "LOCATION_STALE", NoZone)
       \/ /\ In(q).location_consent /\ In(q).accuracy_meters <= 20 /\ Fresh(In(q), now)
          /\ Enter(q, [tx[q] EXCEPT !.at = "checked", !.evaluated_at = now])
    /\ UNCHANGED <<zones, now, imports, overtaken>>

CurrentZone(q) == at_location({z \in zones : Current(z, tx[q].started)})

ReadCurrent(q) ==
    LET z == CurrentZone(q) IN
    /\ tx[q].at = "checked"
    /\ \/ z = NoZone /\ Enter(q, [tx[q] EXCEPT !.at = "uncovered"])
       \/ z # NoZone /\ ~Verified(z) /\ Refuse(q, "UNVERIFIABLE_SOURCE", z)
       \/ /\ z # NoZone /\ Verified(z)
          /\ \E outcome \in ZoneOutcomes(z, In(q).has_resident_permit, tx[q].evaluated_at) :
                Answer(q, outcome, "VERIFIED_COVERAGE", z)
    /\ UNCHANGED <<zones, now, imports, overtaken>>

\* expired_decision: the second read may find what was imported after the first.
ReadExpired(q) ==
    /\ tx[q].at = "uncovered"
    /\ IF zones = {} THEN Refuse(q, "NO_VERIFIED_COVERAGE", NoZone)
                     ELSE Refuse(q, "STALE_DATA", at_location(zones))
    /\ UNCHANGED <<zones, now, imports, overtaken>>

Respond(q) ==
    /\ tx[q].at = "answered"
    /\ Enter(q, Idle) /\ overtaken' = [overtaken EXCEPT ![q] = {}]
    /\ UNCHANGED <<zones, now, imports>>

\* SqlMunicipalIngestionRepository: the record replaces the one of its external id, and its
\* new geometry may no longer cover the location.
Import(z, covers) ==
    LET put == IF covers THEN {z} ELSE {} IN
    /\ imports < MaxImports
    /\ zones' = {o \in zones : o.id # z.id} \cup put
    /\ imports' = imports + 1
    /\ overtaken' = [q \in Request |-> IF tx[q].at = "uncovered" THEN overtaken[q] \cup put ELSE overtaken[q]]
    /\ UNCHANGED <<now, tx>>

Tick == /\ \E t \in Times : t > now /\ now' = t
        /\ UNCHANGED <<zones, tx, imports, overtaken>>

Next == \/ Tick \/ \E z \in Zones, covers \in BOOLEAN : Import(z, covers)
        \/ \E q \in Request :
            \/ \E input \in Inputs : Begin(q, input)
            \/ Check(q) \/ ReadCurrent(q) \/ ReadExpired(q) \/ Respond(q)

Spec == Init /\ [][Next]_vars

-------------------------------------------------------------------------------
(* Properties *)

TypeOK ==
    /\ zones \subseteq Zones /\ now \in Times /\ imports \in 0..MaxImports
    /\ \A q \in Request : tx[q].at \in {"idle", "begun", "checked", "uncovered", "answered"}
                          /\ tx[q].outcome \in Effects \cup {"INDETERMINATE", "none", "raised"}
                          /\ tx[q].zone \in Zones \cup {NoZone} /\ overtaken[q] \subseteq Zones
    /\ \A z, o \in zones : z.id = o.id => z = o

Answers == {tx[q] : q \in {r \in Request : tx[r].at = "answered"}}

\* An answer other than INDETERMINATE rests on consent, a precise and recent location,
\* and an official zone of confidence 0.90 that had not expired when the request began.
DecisionsAreFailClosed ==
    \A a \in Answers : a.outcome \in Effects =>
        /\ \A i \in a.input : /\ i.location_consent /\ i.accuracy_meters <= 20
                              /\ i.located_at \in (a.evaluated_at - 2)..(a.evaluated_at + 2)
        /\ a.zone.provenance = "official" /\ a.zone.confidence >= 90
        /\ Current(a.zone, a.started)

\* Minutes of the day that a window covers: going round the clock from its start, those
\* before its end; all of them if it ends where it starts.
Covered(w) == {m \in 0..Day - 1 : (m - w.starts_at) % Day <= (w.ends_at - w.starts_at - 1) % Day}

\* A rule's own days: a local time less than a day after the midnight that begins one of
\* its weekdays, in any week, and not after that of one of its exceptions.
OnOwnDays(r, t) ==
    /\ r.valid_from <= t /\ t < r.valid_until
    /\ \E d \in r.weekdays : (Local(r, t) - d * Day) % (7 * Day) < Day
    /\ \A date \in r.exception_dates : Local(r, t) - date * Day \notin 0..(Day - 1)

\* The rules that apply by their own days and minutes, and the gravest of them.
AppliesTo(z, t) ==
    {r \in z.temporal_rules :
        /\ OnOwnDays(r, t)
        /\ Local(r, t) % Day \in Covered(r.window) \ UNION {Covered(w) : w \in r.not_applicable_windows}}
Gravest(rules) == IF \E r \in rules : r.effect = "DO_NOT_PARK" THEN "DO_NOT_PARK"
                  ELSE IF \E r \in rules : r.effect = "CAUTION" THEN "CAUTION" ELSE "PARK"

\* docs/parking-temporal-contract.md: where rules decide and all of them can be verified, the
\* answer is the gravest of those whose own days and minutes, without their exceptions, the
\* local time falls into, and INDETERMINATE where there is none.
RulesDecideConservatively ==
    \A a \in Answers :
        (a.coverage = "VERIFIED_COVERAGE" /\ a.zone.temporal_rules # {} /\ a.outcome # "raised") =>
            \/ a.outcome = "INDETERMINATE" /\ \E r \in a.zone.temporal_rules : Unverifiable(r)
            \/ a.outcome = LET applies == AppliesTo(a.zone, a.evaluated_at)
                           IN  IF applies = {} THEN "INDETERMINATE" ELSE Gravest(applies)

\* Official evidence is never hidden by other evidence of the same place: a request is
\* refused for a source that is not official only if no official zone is current.
OfficialEvidenceWins ==
    [][\A q \in Request :
        (tx[q].at = "checked" /\ tx'[q].coverage = "UNVERIFIABLE_SOURCE" /\ tx'[q].zone.provenance # "official")
            => \A z \in zones : Current(z, tx[q].started) => z.provenance # "official"]_vars

\* Evidence called stale has expired; or an import put it there between the two reads.
StaleIsExpired ==
    \A q \in Request :
        tx[q].at = "answered" /\ tx[q].coverage = "STALE_DATA" =>
            ~Current(tx[q].zone, tx[q].started) \/ tx[q].zone \in overtaken[q]

\* docs/parking-decision-contract.md: an answer says of the evidence what is true of it.
AnswersFollowEvidence == DecisionsAreFailClosed /\ StaleIsExpired

-------------------------------------------------------------------------------
(* What the documents say *)

\* docs/parking-decision-contract.md:34 "Private property, a resident-only zone without
\* a declared permit, and a towing hotspot return DO_NOT_PARK": whatever their schedule.
RestrictedZonesRefuse ==
    \A a \in Answers : a.coverage = "VERIFIED_COVERAGE" =>
        \A i \in a.input : StaticOutcome(a.zone, i.has_resident_permit) = "DO_NOT_PARK" => a.outcome # "PARK"

\* docs/parking-decision-contract.md:34 "PARK is possible only with current official
\* evidence": the evidence has not expired at the evaluated_at of the answer.
ParkOnCurrentEvidence ==
    \A a \in Answers : a.outcome = "PARK" => Current(a.zone, a.evaluated_at)

\* docs/parking-temporal-contract.md:17: "a malformed rule" among others "produces
\* INDETERMINATE"; no schedule makes the evaluation fail.
MalformedIsIndeterminate == \A a \in Answers : a.outcome # "raised"
===============================================================================
