---------------------------- MODULE Municipal_proofs ----------------------------
(***************************************************************************)
(* Theorems about the way of municipal evidence of MCMunicipal: the feed,  *)
(* its imports and the decisions that rest on them, for any feeds, zones,  *)
(* inputs and requests.                                                    *)
(***************************************************************************)
EXTENDS MCMunicipal, Sequences, FiniteSetTheorems, WellFoundedInduction, TLAPS

-------------------------------------------------------------------------------
(* What DecisionShapes says, one fact at a time *)

Minutes == 0..1439

LEMMA TimesAreNat == Times \subseteq Nat /\ MaxImports \in Nat /\ NoZone \notin Zones
BY DecisionShapes

LEMMA OffsetsAreInt == \A tz \in DOMAIN Offset : Offset[tz] \in Int
BY DecisionShapes

LEMMA ZonesAreScored ==
    \A z \in Zones : z.parking_score \in 0..100 /\ \E i \in 1..4 : Provenance[i] = z.provenance
BY DecisionShapes

LEMMA RulesAreEffects ==
    \A z \in Zones : \A r \in z.temporal_rules : r.effect \in Effects /\ r.exception_dates \subseteq Int
BY DecisionShapes

IsMinutes(w) == w.starts_at \in Minutes /\ w.ends_at \in Minutes

LEMMA WindowsAreMinutes ==
    ASSUME NEW z \in Zones, NEW r \in z.temporal_rules
    PROVE  IsMinutes(r.window) /\ \A w \in r.not_applicable_windows : IsMinutes(w)
<1>1. \A w \in {r.window} \cup r.not_applicable_windows : w.starts_at \in 0..1439 /\ w.ends_at \in 0..1439
  BY DecisionShapes
<1>2. ASSUME NEW w \in {r.window} \cup r.not_applicable_windows  PROVE IsMinutes(w)
  BY <1>1 DEF IsMinutes, Minutes
<1> QED
  BY <1>2

LEMMA InputsAreLocated == Naive \notin Int /\ \A input \in Inputs : input.located_at \in Int \cup {Naive}
BY DecisionShapes

-------------------------------------------------------------------------------
(* The best zone *)

\* A set of naturals that is not empty has a least element.
LEMMA LeastNatural ==
    ASSUME NEW S, S \subseteq Nat, S # {}
    PROVE  \E x \in S : \A y \in S : x <= y
<1> DEFINE Less == {p \in Nat \X Nat : p[1] < p[2]}
<1>1. IsWellFoundedOn(Less, Nat)
  BY NatLessThanWellFounded, Zenon DEF OpToRel
<1> HIDE DEF Less
<1>2. PICK x \in S : \A y \in S : ~(<<y, x>> \in Less)
  BY <1>1, WFMin
<1>3. ASSUME NEW y \in S  PROVE x <= y
  <2>1. x \in Nat /\ y \in Nat
    OBVIOUS
  <2>2. y < x => <<y, x>> \in Less
    BY <2>1 DEF Less
  <2> QED
    BY <1>2, <2>1, <2>2
<1> QED
  BY <1>3

\* The rank of a zone is the place of its provenance in the order.
LEMMA RankIs ==
    ASSUME NEW z \in Zones
    PROVE  Rank(z) \in 1..4 /\ Provenance[Rank(z)] = z.provenance /\ z.parking_score \in Nat
<1>1. PICK i \in 1..4 : Provenance[i] = z.provenance
  BY ZonesAreScored
<1>2. Rank(z) \in 1..4 /\ Provenance[Rank(z)] = z.provenance
  BY <1>1 DEF Rank
<1>3. z.parking_score \in 0..100
  BY ZonesAreScored
<1> QED
  BY <1>2, <1>3

\* The ORDER BY of at_location finds a row of the set: no better provenance, and no lower
\* score of the same provenance.
LEMMA BestZone ==
    ASSUME NEW S, S \subseteq Zones, S # {}
    PROVE  /\ at_location(S) \in S
           /\ \A o \in S : \/ Rank(at_location(S)) < Rank(o)
                          \/ /\ Rank(at_location(S)) = Rank(o)
                             /\ at_location(S).parking_score <= o.parking_score
<1>1. \A z \in Zones : Rank(z) \in 1..4 /\ z.parking_score \in Nat
  BY RankIs
<1> DEFINE Ranks == {Rank(z) : z \in S}
<1>2. Ranks \subseteq Nat /\ Ranks # {}
  BY <1>1
<1>3. PICK k \in Ranks : \A y \in Ranks : k <= y
  BY <1>2, LeastNatural
<1> DEFINE Scores == {z.parking_score : z \in {o \in S : Rank(o) = k}}
<1>4. Scores \subseteq Nat /\ Scores # {}
  BY <1>1, <1>3
<1>5. PICK s \in Scores : \A y \in Scores : s <= y
  BY <1>4, LeastNatural
<1>6. PICK z \in S : Rank(z) = k /\ z.parking_score = s
  BY <1>5
<1>7. \A o \in S : Rank(z) < Rank(o) \/ (Rank(z) = Rank(o) /\ z.parking_score <= o.parking_score)
  <2> TAKE o \in S
  <2>1. k <= Rank(o) /\ k \in Nat /\ Rank(o) \in Nat
    BY <1>1, <1>2, <1>3
  <2>2. Rank(o) = k => s <= o.parking_score
    BY <1>5
  <2> QED
    BY <1>6, <2>1, <2>2
<1> QED
  BY <1>7 DEF at_location

\* An official zone outranks what is not.
LEMMA OfficialFirst ==
    ASSUME NEW z \in Zones, NEW o \in Zones, o.provenance = "official", Rank(z) <= Rank(o)
    PROVE  z.provenance = "official"
<1>1. Provenance[Rank(o)] = "official" /\ Rank(o) \in 1..4
  BY RankIs
<1>2. Provenance[Rank(z)] = z.provenance /\ Rank(z) \in 1..4
  BY RankIs
<1> QED
  BY <1>1, <1>2 DEF Provenance

-------------------------------------------------------------------------------
(* Rules *)

\* A time as a minute of the day, and a difference of two minutes on the clock.
LEMMA MinuteOfTheDay == \A l \in Int : l % 1440 \in 0..1439
OBVIOUS

LEMMA OnTheClock == \A l \in -1439..1439 : l % 1440 = IF l < 0 THEN l + 1440 ELSE l
OBVIOUS

\* From s to m round the clock is no further than from s to the last minute before e.
LEMMA RoundTheClock ==
    ASSUME NEW s \in Minutes, NEW e \in Minutes, NEW m \in Minutes
    PROVE  (m - s) % 1440 <= (e - s - 1) % 1440 <=> IF s < e THEN s <= m /\ m < e ELSE m >= s \/ m < e
<1>1. (m - s) % 1440 = IF m - s < 0 THEN m - s + 1440 ELSE m - s
  BY OnTheClock DEF Minutes
<1>2. (e - s - 1) % 1440 = IF e - s - 1 < 0 THEN e - s - 1 + 1440 ELSE e - s - 1
  BY OnTheClock DEF Minutes
<1> QED
  BY <1>1, <1>2 DEF Minutes

\* The code's comparison and the minutes of the window agree, over midnight too.
LEMMA InWindow ==
    ASSUME NEW w, IsMinutes(w), NEW m \in Minutes
    PROVE  in_window(m, w) <=> m \in Covered(w)
<1>1. (m - w.starts_at) % 1440 <= (w.ends_at - w.starts_at - 1) % 1440
          <=> IF w.starts_at < w.ends_at THEN w.starts_at <= m /\ m < w.ends_at
              ELSE m >= w.starts_at \/ m < w.ends_at
  BY RoundTheClock DEF IsMinutes
<1>2. m \in Covered(w) <=> (m - w.starts_at) % 1440 <= (w.ends_at - w.starts_at - 1) % 1440
  BY DEF Covered, Day, Minutes
<1> QED
  BY <1>1, <1>2 DEF in_window

\* A time as its day and its minute, and a day as its week and its weekday.
LEMMA DayAndMinute == \A l \in Int : l = (l \div 1440) * 1440 + (l % 1440)
OBVIOUS

LEMMA TimeOfDay ==
    ASSUME NEW l \in Int
    PROVE  l \div 1440 \in Int /\ l % 1440 \in 0..1439 /\ l = (l \div 1440) * 1440 + (l % 1440)
<1>1. l % 1440 \in 0..1439
  BY MinuteOfTheDay
<1>2. l = (l \div 1440) * 1440 + (l % 1440)
  BY DayAndMinute
<1>3. l \div 1440 \in Int
  OBVIOUS
<1> QED
  BY <1>1, <1>2, <1>3

LEMMA WeekAndDay == \A d \in Int : d = (d \div 7) * 7 + (d % 7)
OBVIOUS

LEMMA Weekdays == \A d \in Int : d % 7 \in 0..6
OBVIOUS

LEMMA WithinTheWeek ==
    ASSUME NEW l \in Int, NEW k \in Int, NEW x \in Int, 0 <= x, x < 10080, l = k * 10080 + x
    PROVE  l % 10080 = x
OBVIOUS

\* The day of a time is a given weekday just when the time is less than a day after the
\* midnight of that weekday, in any week.
LEMMA OnTheWeekday ==
    ASSUME NEW l \in Int, NEW d \in 0..6
    PROVE  (l - d * 1440) % 10080 < 1440 <=> (l \div 1440) % 7 = d
<1> DEFINE day == l \div 1440  m == l % 1440  k == day \div 7  w == day % 7
<1>1. day \in Int /\ m \in 0..1439 /\ l = day * 1440 + m
  BY TimeOfDay
<1>2. k \in Int /\ w \in 0..6 /\ day = k * 7 + w
  BY <1>1, WeekAndDay, Weekdays
<1> HIDE DEF day, m, k, w
<1>3. CASE w >= d
  <2> DEFINE x == 1440 * (w - d) + m
  <2>1. l - d * 1440 \in Int /\ l - d * 1440 = k * 10080 + x
    BY <1>1, <1>2
  <2>2. x \in Int /\ 0 <= x /\ x < 10080
    <3>1. PICK y \in 0..6 : y = w - d
      BY <1>2, <1>3
    <3>2. x = 1440 * y + m
      BY <3>1
    <3> QED
      BY <1>1, <3>1, <3>2
  <2>3. x < 1440 <=> w = d
    BY <1>1, <1>2, <1>3
  <2> HIDE DEF x
  <2>4. (l - d * 1440) % 10080 = x
    BY <1>2, <2>1, <2>2, WithinTheWeek
  <2> QED
    BY <2>3, <2>4 DEF w, day
<1>4. CASE w < d
  <2> DEFINE x == 1440 * (w - d + 7) + m
  <2>1. l - d * 1440 \in Int /\ k - 1 \in Int /\ l - d * 1440 = (k - 1) * 10080 + x
    BY <1>1, <1>2
  <2>2. x \in Int /\ 1440 <= x /\ x < 10080
    <3>1. PICK y \in 1..6 : y = w - d + 7
      BY <1>2, <1>4
    <3>2. x = 1440 * y + m
      BY <3>1
    <3> QED
      BY <1>1, <3>1, <3>2
  <2> HIDE DEF x
  <2>3. (l - d * 1440) % 10080 = x
    BY <2>1, <2>2, WithinTheWeek
  <2>4. ~(x < 1440) /\ w # d
    BY <1>2, <1>4, <2>2
  <2> QED
    BY <2>3, <2>4 DEF w, day
<1>5. w >= d \/ w < d
  BY <1>2
<1> QED
  BY <1>3, <1>4, <1>5

\* A time is on a date just when it is less than a day after the midnight that begins it.
OnDate(l, date) == l - date * 1440 \in 0..1439

LEMMA OnTheDate ==
    ASSUME NEW l \in Int, NEW date \in Int
    PROVE  OnDate(l, date) <=> l \div 1440 = date
<1>1. PICK day \in Int, m \in 0..1439 : day = l \div 1440 /\ l = day * 1440 + m
  BY TimeOfDay
<1>2. day \in Int /\ m \in 0..1439 /\ l = day * 1440 + m
  BY <1>1
<1>3. PICK k \in Int : k = day - date
  BY <1>2
<1>4. l - date * 1440 = k * 1440 + m
  BY <1>2, <1>3
<1>5. k * 1440 + m \in 0..1439 <=> k = 0
  <2>1. k \in Int /\ m \in 0..1439
    BY <1>2, <1>3
  <2> QED
    BY <2>1
<1>6. OnDate(l, date) <=> k = 0
  BY <1>4, <1>5 DEF OnDate
<1> QED
  BY <1>1, <1>2, <1>3, <1>6

\* The code's weekday and date are the rule's own days.
LEMMA OwnDays ==
    ASSUME NEW z \in Zones, NEW t \in Nat, NEW r \in z.temporal_rules,
           r.timezone \in DOMAIN Offset, r.weekdays \subseteq 0..6
    PROVE  OnItsDay(r, t) <=> OnOwnDays(r, t)
<1>1. PICK l \in Int : l = Local(r, t)
  BY OffsetsAreInt DEF Local
<1>2. ASSUME NEW d \in r.weekdays
      PROVE  (l - d * 1440) % 10080 < 1440 <=> (l \div 1440) % 7 = d
  BY <1>1, OnTheWeekday
<1>3. (l \div 1440) % 7 \in r.weekdays <=> \E d \in r.weekdays : (l - d * 1440) % 10080 < 1440
  BY <1>2
<1>4. ASSUME NEW date \in Int  PROVE OnDate(l, date) <=> l \div 1440 = date
  BY <1>1, OnTheDate
<1>5. l \div 1440 \notin r.exception_dates <=> \A date \in r.exception_dates : ~OnDate(l, date)
  BY <1>4, RulesAreEffects
<1>6. Day = 1440 /\ 7 * Day = 10080 /\ Day - 1 = 1439
  BY DEF Day
<1> QED
  BY <1>1, <1>3, <1>5, <1>6 DEF OnItsDay, OnOwnDays, OnDate

ZoneRules == UNION {z.temporal_rules : z \in Zones}

\* The gravest effect of some rules.
LEMMA GravestEffect ==
    ASSUME NEW rules, rules \subseteq ZoneRules, rules # {}
    PROVE  MostSevere(rules) = Gravest(rules)
<1>1. \A r \in rules : r.effect \in Effects
  BY RulesAreEffects DEF ZoneRules
<1> DEFINE gravest == Gravest(rules)
           effects == {r.effect : r \in rules}
<1>2. gravest \in effects
  BY <1>1 DEF Effects, Gravest
<1>3. \A r \in rules : Severity(gravest) >= Severity(r.effect)
  BY <1>1 DEF Effects, Severity, Gravest
<1>4. ASSUME NEW x \in effects, \A r \in rules : Severity(x) >= Severity(r.effect)
      PROVE  x = gravest
  <2>1. x \in Effects
    BY <1>1
  <2>2. gravest \in Effects
    BY DEF Effects, Gravest
  <2>3. Severity(x) >= Severity(gravest)
    BY <1>2, <1>4
  <2>4. Severity(gravest) >= Severity(x)
    BY <1>3
  <2> HIDE DEF gravest
  <2> QED
    BY <2>1, <2>2, <2>3, <2>4 DEF Effects, Severity
<1> HIDE DEF gravest
<1>5. MostSevere(rules) = CHOOSE x \in effects : \A r \in rules : Severity(x) >= Severity(r.effect)
  BY DEF MostSevere
<1> HIDE DEF effects
<1>6. MostSevere(rules) = gravest
  BY <1>2, <1>3, <1>4, <1>5
<1> QED
  BY <1>6 DEF gravest

\* When a time falls into the window of a rule and none of its exceptions, whatever the code
\* compares it with.
LEMMA ActiveApplies ==
    ASSUME NEW z \in Zones, NEW t \in Nat, NEW r \in z.temporal_rules,
           r.timezone \in DOMAIN Offset, r.weekdays \subseteq 0..6
    PROVE  Active(r, t) <=> r \in AppliesTo(z, t)
<1>1. PICK m \in Minutes : m = Local(r, t) % Day
  <2>1. PICK l \in Int : l = Local(r, t)
    BY OffsetsAreInt DEF Local
  <2>2. l % 1440 \in Minutes
    BY MinuteOfTheDay DEF Minutes
  <2>3. Local(r, t) % Day = l % 1440
    BY <2>1 DEF Day
  <2> QED
    BY <2>2, <2>3
<1>2. ASSUME NEW w \in {r.window} \cup r.not_applicable_windows
      PROVE  in_window(m, w) <=> m \in Covered(w)
  <2>1. IsMinutes(w)
    BY WindowsAreMinutes
  <2> QED
    BY <2>1, InWindow
<1>3. r \in AppliesTo(z, t) <=>
          /\ OnItsDay(r, t) /\ m \in Covered(r.window)
          /\ \A w \in r.not_applicable_windows : m \notin Covered(w)
  BY <1>1, OwnDays DEF AppliesTo
<1> QED
  BY <1>1, <1>2, <1>3 DEF Active

\* An answer of the rules is the gravest of those that apply; none, if none applies or one
\* cannot be verified.
LEMMA RulesAnswer ==
    ASSUME NEW z \in Zones, NEW t \in Nat, NEW o \in TemporalOutcomes(z, t), o # "raised"
    PROVE  \/ o = "INDETERMINATE" /\ \E r \in z.temporal_rules : Unverifiable(r)
           \/ o = IF AppliesTo(z, t) = {} THEN "INDETERMINATE" ELSE Gravest(AppliesTo(z, t))
<1> DEFINE improper == {r \in z.temporal_rules : r.timezone \in ImproperKeys}
           unverifiable == {r \in z.temporal_rules \ improper : Unverifiable(r)}
           active == {r \in z.temporal_rules \ (improper \cup unverifiable) : Active(r, t)}
<1>1. \/ o = "INDETERMINATE" /\ unverifiable # {}
      \/ /\ improper \cup unverifiable = {}
         /\ o = IF active = {} THEN "INDETERMINATE" ELSE MostSevere(active)
  BY Zenon DEF TemporalOutcomes
<1>2. CASE o = "INDETERMINATE" /\ unverifiable # {}
  BY <1>2
<1>3. CASE improper \cup unverifiable = {} /\ o = IF active = {} THEN "INDETERMINATE" ELSE MostSevere(active)
  <2>1. \A r \in z.temporal_rules : r.timezone \in DOMAIN Offset /\ r.weekdays \subseteq 0..6
    BY <1>3 DEF Unverifiable, Malformed
  <2>2. active = AppliesTo(z, t)
    <3>1. \A r \in z.temporal_rules : Active(r, t) <=> r \in AppliesTo(z, t)
      BY <2>1, ActiveApplies
    <3> QED
      BY <1>3, <3>1 DEF AppliesTo
  <2> HIDE DEF active
  <2>3. AppliesTo(z, t) \subseteq ZoneRules
    BY DEF AppliesTo, ZoneRules
  <2> QED
    BY <1>3, <2>2, <2>3, GravestEffect
<1> QED
  BY <1>1, <1>2, <1>3

-------------------------------------------------------------------------------
(* The decision: shapes *)

Outcomes == Effects \cup {"INDETERMINATE", "none", "raised"}

Refusals == {"LOCATION_CONSENT_REQUIRED", "LOCATION_PRECISION_INSUFFICIENT", "LOCATION_STALE",
             "UNVERIFIABLE_SOURCE", "NO_VERIFIED_COVERAGE", "STALE_DATA"}

Draft == [at : {"idle", "begun", "checked", "uncovered", "answered"}, input : SUBSET Inputs,
          started : Times \cup {0}, evaluated_at : Times \cup {0}, zone : Zones \cup {NoZone},
          outcome : Outcomes, coverage : Refusals \cup {"none", "VERIFIED_COVERAGE"}]

\* What Check found of the input.
Passed(d) ==
    /\ d.evaluated_at \in Times
    /\ \E i \in d.input : /\ d.input = {i} /\ i.location_consent /\ i.accuracy_meters <= 20
                          /\ Fresh(i, d.evaluated_at)

\* What an answer rests on: nothing, or a verified zone that the transaction found current.
Rests(d) ==
    \/ d.outcome = "INDETERMINATE" /\ d.coverage # "VERIFIED_COVERAGE"
    \/ /\ d.coverage = "VERIFIED_COVERAGE" /\ Passed(d)
       /\ d.zone \in Zones /\ Verified(d.zone) /\ Current(d.zone, d.started)
       /\ \E i \in d.input : d.outcome \in ZoneOutcomes(d.zone, i.has_resident_permit, d.evaluated_at)

Founded(d) ==
    /\ d.at \notin {"idle", "answered"} => \E i \in d.input : d.input = {i}
    /\ d.at # "answered" => d.coverage = "none" /\ d.outcome = "none"
    /\ d.at \in {"checked", "uncovered"} => Passed(d)
    /\ d.at = "answered" => Rests(d)

DecisionTypes ==
    /\ zones \subseteq Zones /\ now \in Times /\ imports \in 0..MaxImports
    /\ \A z, o \in zones : z.id = o.id => z = o
    /\ tx \in [Request -> Draft] /\ overtaken \in [Request -> SUBSET Zones]

\* What a request found expired is so still, but for what was imported since.
ExpiredSince(d, imported) ==
    /\ d.at = "uncovered" => \A z \in zones \ imported : ~Current(z, d.started)
    /\ d.at = "answered" /\ d.coverage = "STALE_DATA" => ~Current(d.zone, d.started) \/ d.zone \in imported
ExpiredStays == \A q \in Request : ExpiredSince(tx[q], overtaken[q])

DecisionInv == DecisionTypes /\ (\A q \in Request : Founded(tx[q])) /\ ExpiredStays

LEMMA StaticIsEffect == \A z, permit : StaticOutcome(z, permit) \in Effects
BY DEF StaticOutcome, Effects

LEMMA OutcomesAreTyped ==
    ASSUME NEW z \in Zones, NEW t \in Nat, NEW permit
    PROVE  ZoneOutcomes(z, permit, t) \subseteq Outcomes \ {"none"}
<1> SUFFICES ASSUME NEW o \in ZoneOutcomes(z, permit, t)  PROVE o \in Outcomes \ {"none"}
  OBVIOUS
<1>1. CASE Timed(z)
  <2>1. o \in TemporalOutcomes(z, t)
    BY <1>1 DEF ZoneOutcomes
  <2> QED
    BY <2>1, RulesAnswer DEF Outcomes, Effects, Gravest
<1>2. CASE ~Timed(z)
  <2>1. o \in Effects
    BY <1>2, StaticIsEffect DEF ZoneOutcomes
  <2> QED
    BY <2>1 DEF Outcomes, Effects
<1> QED
  BY <1>1, <1>2

LEMMA IdleIsDraft == Idle \in Draft /\ Founded(Idle) /\ Idle.at = "idle"
<1>1. "none" \in Refusals \cup {"none", "VERIFIED_COVERAGE"} /\ "none" \in Outcomes
  BY DEF Outcomes
<1> QED
  BY <1>1 DEF Idle, Draft, Founded

LEMMA DecisionInvInit == Init => DecisionInv
<1> SUFFICES ASSUME Init  PROVE DecisionInv
  OBVIOUS
<1>1. \A q \in Request : tx[q] = Idle
  BY DEF Init
<1>2. tx \in [Request -> Draft]
  BY IdleIsDraft DEF Init
<1>3. 0 \in 0..MaxImports
  BY TimesAreNat
<1> QED
  BY <1>1, <1>2, <1>3, IdleIsDraft DEF Init, DecisionInv, DecisionTypes, ExpiredStays, ExpiredSince

\* A step of one request: what it must establish of the request itself.
LEMMA RequestStep ==
    ASSUME DecisionInv, NEW q \in Request, NEW next \in Draft, Founded(next),
           tx' = [tx EXCEPT ![q] = next], zones' = zones, now' = now, imports' = imports,
           overtaken' = overtaken \/ overtaken' = [overtaken EXCEPT ![q] = {}],
           ExpiredSince(next, overtaken'[q])
    PROVE  DecisionInv'
<1>1. tx' \in [Request -> Draft] /\ tx'[q] = next /\ \A p \in Request \ {q} : tx'[p] = tx[p]
  BY DEF DecisionInv, DecisionTypes
<1>2. overtaken' \in [Request -> SUBSET Zones] /\ \A p \in Request \ {q} : overtaken'[p] = overtaken[p]
  BY DEF DecisionInv, DecisionTypes
<1>3. DecisionTypes'
  BY <1>1, <1>2 DEF DecisionInv, DecisionTypes
<1>4. ASSUME NEW p \in Request  PROVE Founded(tx'[p])
  BY <1>1 DEF DecisionInv
<1>5. ASSUME NEW p \in Request  PROVE ExpiredSince(tx[p], overtaken[p])' 
  <2>1. CASE p = q
    BY <1>1, <2>1 DEF ExpiredSince
  <2>2. CASE p # q
    <3>1. p \in Request \ {q} /\ tx'[p] = tx[p] /\ overtaken'[p] = overtaken[p]
      BY <1>1, <1>2, <2>2
    <3>2. ExpiredSince(tx[p], overtaken[p])
      BY DEF DecisionInv, ExpiredStays
    <3> QED
      BY <3>1, <3>2 DEF ExpiredSince
  <2> QED
    BY <2>1, <2>2
<1> QED
  BY <1>3, <1>4, <1>5 DEF DecisionInv, ExpiredStays

LEMMA BeginKeeps ==
    ASSUME DecisionInv, NEW q \in Request, NEW input \in Inputs, Begin(q, input)  PROVE DecisionInv'
<1> DEFINE next == [Idle EXCEPT !.at = "begun", !.input = {input}, !.started = now]
<1>1. next \in Draft /\ Founded(next) /\ next.at = "begun"
  <2>1. /\ next.at = "begun" /\ next.input = {input} /\ next.coverage = "none" /\ next.outcome = "none"
        /\ next \in Draft
    <3>1. "none" \in Refusals \cup {"none", "VERIFIED_COVERAGE"} /\ "none" \in Outcomes /\ now \in Times
      BY DEF Outcomes, DecisionInv, DecisionTypes
    <3> QED
      BY <3>1 DEF Idle, Draft
  <2> QED
    BY <2>1 DEF Founded
<1>2. tx' = [tx EXCEPT ![q] = next]
  BY DEF Begin, Enter
<1> HIDE DEF next
<1>3. ExpiredSince(next, overtaken[q])
  BY <1>1 DEF ExpiredSince
<1> QED
  BY <1>1, <1>2, <1>3, RequestStep DEF Begin

\* A refusal of request q rests on nothing.
LEMMA RefusalKeeps ==
    ASSUME DecisionInv, NEW q \in Request, NEW coverage \in Refusals, NEW zone \in Zones \cup {NoZone},
           Refuse(q, coverage, zone),
           UNCHANGED <<zones, now, imports, overtaken>>,
           coverage = "STALE_DATA" => ~Current(zone, tx[q].started) \/ zone \in overtaken[q]
    PROVE  DecisionInv'
<1> DEFINE next == [tx[q] EXCEPT !.at = "answered", !.outcome = "INDETERMINATE", !.coverage = coverage, !.zone = zone]
<1>1. tx[q] \in Draft
  BY DEF DecisionInv, DecisionTypes
<1>2. /\ next \in Draft /\ next.at = "answered" /\ next.outcome = "INDETERMINATE"
      /\ next.coverage = coverage /\ next.zone = zone /\ next.started = tx[q].started
  BY <1>1 DEF Draft, Outcomes
<1>3. tx' = [tx EXCEPT ![q] = next]
  BY DEF Refuse, Answer, Enter
<1> HIDE DEF next
<1>4. Founded(next) /\ ExpiredSince(next, overtaken[q])
  BY <1>2 DEF Founded, Rests, Refusals, ExpiredSince
<1> QED
  BY <1>2, <1>3, <1>4, RequestStep

LEMMA TheInput ==
    ASSUME NEW q \in Request, Founded(tx[q]), tx[q].at \notin {"idle", "answered"}
    PROVE  tx[q].input = {In(q)}
BY DEF Founded, In

LEMMA CheckKeeps ==
    ASSUME DecisionInv, NEW q \in Request, Check(q)  PROVE DecisionInv'
<1>0. tx[q] \in Draft /\ Founded(tx[q]) /\ NoZone \in Zones \cup {NoZone} /\ tx[q].at = "begun"
  BY DEF DecisionInv, DecisionTypes, Check
<1>1. ASSUME NEW coverage \in {"LOCATION_CONSENT_REQUIRED", "LOCATION_PRECISION_INSUFFICIENT", "LOCATION_STALE"},
             Refuse(q, coverage, NoZone)
      PROVE  DecisionInv'
  <2>1. coverage \in Refusals /\ coverage # "STALE_DATA"
    BY DEF Refusals
  <2>2. UNCHANGED <<zones, now, imports, overtaken>>
    BY DEF Check
  <2> QED
    BY <1>0, <1>1, <2>1, <2>2, RefusalKeeps
<1>2. ASSUME In(q).location_consent, In(q).accuracy_meters <= 20, Fresh(In(q), now),
             Enter(q, [tx[q] EXCEPT !.at = "checked", !.evaluated_at = now])
      PROVE  DecisionInv'
  <2> DEFINE next == [tx[q] EXCEPT !.at = "checked", !.evaluated_at = now]
  <2>1. /\ next \in Draft /\ next.at = "checked" /\ next.evaluated_at = now /\ next.input = tx[q].input
        /\ next.coverage = tx[q].coverage /\ next.outcome = tx[q].outcome
    BY <1>0 DEF Draft, DecisionInv, DecisionTypes
  <2>2. tx' = [tx EXCEPT ![q] = next]
    BY <1>2 DEF Enter
  <2> HIDE DEF next
  <2>3. tx[q].input = {In(q)} /\ tx[q].coverage = "none" /\ tx[q].outcome = "none"
    BY <1>0, TheInput DEF Founded
  <2>4. now \in Times
    BY DEF DecisionInv, DecisionTypes
  <2>5. Passed(next)
    BY <1>2, <2>1, <2>3, <2>4 DEF Passed
  <2>6. Founded(next) /\ ExpiredSince(next, overtaken[q])
    BY <2>1, <2>3, <2>5 DEF Founded, ExpiredSince
  <2> QED
    BY <2>1, <2>2, <2>6, RequestStep DEF Check
<1> QED
  BY <1>1, <1>2 DEF Check

LEMMA AnswerKeeps ==
    ASSUME DecisionInv, NEW q \in Request, NEW z \in Zones, NEW outcome, tx[q].at = "checked",
           Verified(z), Current(z, tx[q].started),
           outcome \in ZoneOutcomes(z, In(q).has_resident_permit, tx[q].evaluated_at),
           Answer(q, outcome, "VERIFIED_COVERAGE", z), UNCHANGED <<zones, now, imports, overtaken>>
    PROVE  DecisionInv'
<1> DEFINE next == [tx[q] EXCEPT !.at = "answered", !.outcome = outcome, !.coverage = "VERIFIED_COVERAGE", !.zone = z]
<1>1. tx[q] \in Draft /\ Founded(tx[q]) /\ Passed(tx[q])
  BY DEF DecisionInv, DecisionTypes, Founded
<1>2. outcome \in Outcomes
  <2>1. tx[q].evaluated_at \in Nat
    BY <1>1, TimesAreNat DEF Passed
  <2> QED
    BY <2>1, OutcomesAreTyped
<1>3. /\ next \in Draft /\ next.at = "answered" /\ next.outcome = outcome
      /\ next.coverage = "VERIFIED_COVERAGE" /\ next.zone = z /\ next.started = tx[q].started
      /\ next.input = tx[q].input /\ next.evaluated_at = tx[q].evaluated_at
  BY <1>1, <1>2 DEF Draft
<1>4. tx' = [tx EXCEPT ![q] = next]
  BY DEF Answer, Enter
<1> HIDE DEF next
<1>5. next.input = {In(q)}
  BY <1>1, <1>3, TheInput
<1>6. Passed(next)
  BY <1>1, <1>3 DEF Passed
<1>7. Rests(next)
  BY <1>3, <1>5, <1>6 DEF Rests
<1>8. Founded(next) /\ ExpiredSince(next, overtaken[q])
  BY <1>3, <1>7 DEF Founded, ExpiredSince
<1> QED
  BY <1>3, <1>4, <1>8, RequestStep

\* The zone a request reads is one of the current ones, and the best.
LEMMA CurrentZoneIsBest ==
    ASSUME DecisionInv, NEW q \in Request
    PROVE  /\ CurrentZone(q) = NoZone <=> \A z \in zones : ~Current(z, tx[q].started)
           /\ CurrentZone(q) # NoZone =>
                /\ CurrentZone(q) \in zones /\ CurrentZone(q) \in Zones /\ Current(CurrentZone(q), tx[q].started)
                /\ \A o \in zones : Current(o, tx[q].started) => Rank(CurrentZone(q)) <= Rank(o)
<1> DEFINE current == {z \in zones : Current(z, tx[q].started)}
<1>1. CurrentZone(q) = at_location(current) /\ current \subseteq Zones
  BY DEF CurrentZone, DecisionInv, DecisionTypes
<1>2. \A o \in zones : Rank(o) \in 1..4
  BY RankIs DEF DecisionInv, DecisionTypes
<1>3. CASE current = {}
  <2>1. CurrentZone(q) = NoZone
    BY <1>1, <1>3 DEF at_location
  <2> QED
    BY <1>3, <2>1
<1>4. CASE current # {}
  <2>1. at_location(current) \in current
    BY <1>1, <1>4, BestZone
  <2>2. \A o \in current : \/ Rank(at_location(current)) < Rank(o)
                           \/ Rank(at_location(current)) = Rank(o)
    BY <1>1, <1>4, BestZone
  <2>3. at_location(current) # NoZone
    BY <1>1, <2>1, TimesAreNat
  <2>4. \A o \in current : Rank(at_location(current)) <= Rank(o)
    BY <1>2, <2>1, <2>2
  <2> QED
    BY <1>1, <1>4, <2>1, <2>3, <2>4
<1> QED
  BY <1>3, <1>4

LEMMA ReadCurrentKeeps ==
    ASSUME DecisionInv, NEW q \in Request, ReadCurrent(q)  PROVE DecisionInv'
<1>0. /\ tx[q] \in Draft /\ Founded(tx[q]) /\ tx[q].at = "checked" /\ UNCHANGED <<zones, now, imports, overtaken>>
  BY DEF DecisionInv, DecisionTypes, ReadCurrent
<1>1. CASE CurrentZone(q) = NoZone /\ Enter(q, [tx[q] EXCEPT !.at = "uncovered"])
  <2> DEFINE next == [tx[q] EXCEPT !.at = "uncovered"]
  <2>1. /\ next \in Draft /\ next.at = "uncovered" /\ next.input = tx[q].input
        /\ next.coverage = tx[q].coverage /\ next.outcome = tx[q].outcome
        /\ next.started = tx[q].started /\ next.evaluated_at = tx[q].evaluated_at
    BY <1>0 DEF Draft
  <2>2. tx' = [tx EXCEPT ![q] = next]
    BY <1>1 DEF Enter
  <2> HIDE DEF next
  <2>3. Founded(next)
    BY <1>0, <2>1 DEF Founded, Passed
  <2>4. ExpiredSince(next, overtaken[q])
    <3>1. \A z \in zones : ~Current(z, next.started)
      BY <1>1, <2>1, CurrentZoneIsBest
    <3> QED
      BY <2>1, <3>1 DEF ExpiredSince
  <2> QED
    BY <1>0, <2>1, <2>2, <2>3, <2>4, RequestStep
<1>2. CASE CurrentZone(q) # NoZone /\ Refuse(q, "UNVERIFIABLE_SOURCE", CurrentZone(q))
  <2>1. CurrentZone(q) \in Zones \cup {NoZone}
    BY <1>2, CurrentZoneIsBest
  <2>2. "UNVERIFIABLE_SOURCE" \in Refusals
    BY DEF Refusals
  <2> QED
    BY <1>0, <1>2, <2>1, <2>2, RefusalKeeps
<1>3. ASSUME CurrentZone(q) # NoZone, Verified(CurrentZone(q)),
             NEW outcome \in ZoneOutcomes(CurrentZone(q), In(q).has_resident_permit, tx[q].evaluated_at),
             Answer(q, outcome, "VERIFIED_COVERAGE", CurrentZone(q))
      PROVE  DecisionInv'
  <2>1. CurrentZone(q) \in Zones /\ Current(CurrentZone(q), tx[q].started)
    BY <1>3, CurrentZoneIsBest
  <2> QED
    BY <1>0, <1>3, <2>1, AnswerKeeps
<1> QED
  BY <1>1, <1>2, <1>3 DEF ReadCurrent

LEMMA ReadExpiredKeeps ==
    ASSUME DecisionInv, NEW q \in Request, ReadExpired(q)  PROVE DecisionInv'
<1>0. tx[q].at = "uncovered" /\ UNCHANGED <<zones, now, imports, overtaken>>
  BY DEF ReadExpired
<1>1. CASE zones = {}
  <2>1. Refuse(q, "NO_VERIFIED_COVERAGE", NoZone) /\ "NO_VERIFIED_COVERAGE" \in Refusals
    BY <1>1 DEF ReadExpired, Refusals
  <2> QED
    BY <1>0, <2>1, RefusalKeeps
<1>2. CASE zones # {}
  <2>1. Refuse(q, "STALE_DATA", at_location(zones)) /\ "STALE_DATA" \in Refusals
    BY <1>2 DEF ReadExpired, Refusals
  <2>2. at_location(zones) \in zones /\ zones \subseteq Zones
    BY <1>2, BestZone DEF DecisionInv, DecisionTypes
  <2>3. ~Current(at_location(zones), tx[q].started) \/ at_location(zones) \in overtaken[q]
    BY <1>0, <2>2 DEF DecisionInv, ExpiredStays, ExpiredSince
  <2> QED
    BY <1>0, <2>1, <2>2, <2>3, RefusalKeeps
<1> QED
  BY <1>1, <1>2

LEMMA RespondKeeps ==
    ASSUME DecisionInv, NEW q \in Request, Respond(q)  PROVE DecisionInv'
<1>1. tx' = [tx EXCEPT ![q] = Idle] /\ overtaken' = [overtaken EXCEPT ![q] = {}] /\ UNCHANGED <<zones, now, imports>>
  BY DEF Respond, Enter
<1>2. ExpiredSince(Idle, overtaken'[q])
  BY IdleIsDraft DEF ExpiredSince
<1> QED
  BY <1>1, <1>2, IdleIsDraft, RequestStep

LEMMA ImportKeeps ==
    ASSUME DecisionInv, NEW z \in Zones, NEW covers \in BOOLEAN, Import(z, covers)  PROVE DecisionInv'
<1> DEFINE put == IF covers THEN {z} ELSE {}
<1>1. /\ zones' = {o \in zones : o.id # z.id} \cup put /\ imports' = imports + 1 /\ imports < MaxImports
      /\ overtaken' = [q \in Request |-> IF tx[q].at = "uncovered" THEN overtaken[q] \cup put ELSE overtaken[q]]
      /\ now' = now /\ tx' = tx
  BY DEF Import
<1>2. put \subseteq {z}
  OBVIOUS
<1> HIDE DEF put
<1>3. DecisionTypes'
  <2>1. zones' \subseteq Zones /\ \A x, o \in zones' : x.id = o.id => x = o
    BY <1>1, <1>2 DEF DecisionInv, DecisionTypes
  <2>2. imports' \in 0..MaxImports
    BY <1>1, TimesAreNat DEF DecisionInv, DecisionTypes
  <2>3. overtaken' \in [Request -> SUBSET Zones]
    BY <1>1, <1>2 DEF DecisionInv, DecisionTypes
  <2> QED
    BY <1>1, <2>1, <2>2, <2>3 DEF DecisionInv, DecisionTypes
<1>4. ASSUME NEW q \in Request  PROVE ExpiredSince(tx[q], overtaken[q])'
  <2>1. ExpiredSince(tx[q], overtaken[q]) /\ tx'[q] = tx[q]
    BY <1>1 DEF DecisionInv, ExpiredStays
  <2>2. CASE tx[q].at = "uncovered"
    <3>1. overtaken'[q] = overtaken[q] \cup put /\ zones' \ overtaken'[q] \subseteq zones \ overtaken[q]
      BY <1>1, <2>2
    <3> QED
      BY <2>1, <2>2, <3>1 DEF ExpiredSince
  <2>3. CASE tx[q].at # "uncovered"
    <3>1. overtaken'[q] = overtaken[q]
      BY <1>1, <2>3
    <3> QED
      BY <2>1, <2>3, <3>1 DEF ExpiredSince
  <2> QED
    BY <2>2, <2>3
<1> QED
  BY <1>1, <1>3, <1>4 DEF DecisionInv, ExpiredStays

LEMMA DecisionInvKept == DecisionInv /\ [Next]_vars => DecisionInv'
<1> SUFFICES ASSUME DecisionInv, [Next]_vars  PROVE DecisionInv'
  OBVIOUS
<1>1. CASE UNCHANGED vars
  BY <1>1 DEF vars, DecisionInv, DecisionTypes, ExpiredStays, ExpiredSince
<1>2. CASE Tick
  <2>1. now' \in Times /\ UNCHANGED <<zones, tx, imports, overtaken>>
    BY <1>2 DEF Tick
  <2> QED
    BY <2>1 DEF DecisionInv, DecisionTypes, ExpiredStays, ExpiredSince
<1> QED
  BY <1>1, <1>2, ImportKeeps, BeginKeeps, CheckKeeps, ReadCurrentKeeps, ReadExpiredKeeps, RespondKeeps DEF Next

-------------------------------------------------------------------------------
(* The decision: theorems *)

LEMMA DecisionMovesAlone == MunicipalSpec => Spec
<1>1. MunicipalInit => Init
  BY DEF MunicipalInit
<1>2. [MunicipalNext]_<<vars, feed, import, component>> => [Next]_vars
  BY DEF MunicipalNext
<1> QED
  BY <1>1, <1>2, PTL DEF MunicipalSpec, Spec

LEMMA DecisionHolds == MunicipalSpec => []DecisionInv
BY DecisionMovesAlone, DecisionInvInit, DecisionInvKept, PTL DEF Spec

LEMMA DecisionIsTyped == DecisionInv => TypeOK
BY DEF DecisionInv, DecisionTypes, Draft, Outcomes, TypeOK

\* docs/parking-decision-contract.md: for any zones, inputs and requests at once, an answer other
\* than INDETERMINATE rests on consent, a precise and recent location and current official
\* evidence, and what is called stale has expired or was imported between the two reads.
THEOREM AnswersAlwaysFollow == MunicipalSpec => []AnswersFollowEvidence
<1>1. DecisionInv => DecisionsAreFailClosed
  <2> SUFFICES ASSUME DecisionInv, NEW q \in Request, tx[q].at = "answered", tx[q].outcome \in Effects
               PROVE  /\ \A i \in tx[q].input : /\ i.location_consent /\ i.accuracy_meters <= 20
                              /\ i.located_at \in (tx[q].evaluated_at - 2)..(tx[q].evaluated_at + 2)
                      /\ tx[q].zone.provenance = "official" /\ tx[q].zone.confidence >= 90
                      /\ Current(tx[q].zone, tx[q].started)
    BY DEF DecisionsAreFailClosed, Answers
  <2>1. Rests(tx[q]) /\ tx[q].outcome # "INDETERMINATE" /\ tx[q].input \subseteq Inputs
    BY DEF DecisionInv, DecisionTypes, Draft, Founded, Effects
  <2>2. /\ Passed(tx[q]) /\ Verified(tx[q].zone) /\ Current(tx[q].zone, tx[q].started)
    BY <2>1 DEF Rests
  <2>3. ASSUME NEW i \in tx[q].input
        PROVE  /\ i.location_consent /\ i.accuracy_meters <= 20
               /\ i.located_at \in (tx[q].evaluated_at - 2)..(tx[q].evaluated_at + 2)
    <3>1. i.location_consent /\ i.accuracy_meters <= 20 /\ Fresh(i, tx[q].evaluated_at)
      BY <2>2 DEF Passed
    <3>2. tx[q].evaluated_at \in Nat /\ i.located_at \in Int
      <4>1. i \in Inputs /\ tx[q].evaluated_at \in Times
        BY <2>1, <2>2 DEF Passed
      <4>2. i.located_at \in Int \cup {Naive}
        BY <4>1, InputsAreLocated
      <4>3. tx[q].evaluated_at \in Nat
        <5>1. Times \subseteq Nat
          BY TimesAreNat
        <5> QED
          BY <4>1, <5>1
      <4>4. i.located_at # Naive
        BY <3>1 DEF Fresh
      <4> QED
        BY <4>2, <4>3, <4>4
    <3>3. tx[q].evaluated_at - i.located_at <= 2 /\ i.located_at - tx[q].evaluated_at <= 2
      BY <3>1, <3>2 DEF Fresh
    <3> QED
      BY <3>1, <3>2, <3>3
  <2> QED
    BY <2>2, <2>3 DEF Verified
<1>2. DecisionInv => StaleIsExpired
  BY DEF DecisionInv, ExpiredStays, ExpiredSince, StaleIsExpired
<1> QED
  BY <1>1, <1>2, DecisionHolds, PTL DEF AnswersFollowEvidence

\* docs/parking-temporal-contract.md: for any rules that can be verified, the answer is the gravest
\* effect of those whose own days and minutes, without their exceptions, the local time falls into.
THEOREM RulesAlwaysDecideConservatively == MunicipalSpec => []RulesDecideConservatively
<1>1. DecisionInv => RulesDecideConservatively
  <2> SUFFICES ASSUME DecisionInv, NEW q \in Request, tx[q].at = "answered",
                      tx[q].coverage = "VERIFIED_COVERAGE", tx[q].zone.temporal_rules # {},
                      tx[q].outcome # "raised"
               PROVE  \/ tx[q].outcome = "INDETERMINATE" /\ \E r \in tx[q].zone.temporal_rules : Unverifiable(r)
                      \/ tx[q].outcome = IF AppliesTo(tx[q].zone, tx[q].evaluated_at) = {} THEN "INDETERMINATE"
                                         ELSE Gravest(AppliesTo(tx[q].zone, tx[q].evaluated_at))
    BY DEF RulesDecideConservatively, Answers
  <2>1. Rests(tx[q]) /\ tx[q].outcome # "raised"
    BY DEF DecisionInv, Founded
  <2>2. tx[q].zone \in Zones /\ Passed(tx[q])
    BY <2>1 DEF Rests
  <2>3. tx[q].evaluated_at \in Nat
    BY <2>2, TimesAreNat DEF Passed
  <2>4. tx[q].outcome \in TemporalOutcomes(tx[q].zone, tx[q].evaluated_at)
    BY <2>1 DEF Rests, ZoneOutcomes, Timed
  <2> QED
    BY <2>1, <2>2, <2>3, <2>4, RulesAnswer
<1> QED
  BY <1>1, DecisionHolds, PTL

\* docs/parking-decision-contract.md: no other evidence of a place hides official evidence that is
\* current, for any zones.
THEOREM OfficialEvidenceAlwaysWins == MunicipalSpec => OfficialEvidenceWins
<1>1. ASSUME DecisionInv, [Next]_vars, NEW q \in Request, tx[q].at = "checked",
             tx'[q].coverage = "UNVERIFIABLE_SOURCE", tx'[q].zone.provenance # "official",
             NEW o \in zones, Current(o, tx[q].started)
      PROVE  o.provenance # "official"
  <2>0. tx[q] \in Draft /\ Founded(tx[q]) /\ tx \in [Request -> Draft] /\ zones \subseteq Zones
    BY <1>1 DEF DecisionInv, DecisionTypes
  <2>1. tx[q].coverage = "none"
    BY <1>1, <2>0 DEF Founded
  <2>2. tx'[q] # tx[q]
    BY <1>1, <2>1
  <2>3. ReadCurrent(q) \/ Check(q)
    <3>1. ASSUME NEW p \in Request \ {q}, NEW next, Enter(p, next)  PROVE FALSE
      BY <2>0, <2>2, <3>1 DEF Enter
    <3>2. \A p \in Request \ {q} : (\E input \in Inputs : Begin(p, input)) \/ Check(p) \/ ReadCurrent(p)
             \/ ReadExpired(p) \/ Respond(p) => \E next : Enter(p, next)
      BY DEF Begin, Check, ReadCurrent, ReadExpired, Respond, Answer, Refuse
    <3>3. UNCHANGED vars \/ Tick \/ (\E z \in Zones, covers \in BOOLEAN : Import(z, covers)) => tx' = tx
      BY DEF vars, Tick, Import
    <3>4. tx[q].at \notin {"idle", "uncovered", "answered"}
      BY <1>1
    <3>5. ~Respond(q) /\ ~ReadExpired(q) /\ \A input \in Inputs : ~Begin(q, input)
      BY <3>4 DEF Respond, ReadExpired, Begin
    <3> QED
      BY <1>1, <2>2, <3>1, <3>2, <3>3, <3>5 DEF Next
  <2>4. ReadCurrent(q)
    BY <1>1, <2>3 DEF Check
  <2>5. CurrentZone(q) # NoZone /\ tx'[q].zone = CurrentZone(q)
    <3>1. ASSUME Enter(q, [tx[q] EXCEPT !.at = "uncovered"])  PROVE FALSE
      BY <1>1, <2>0, <2>1, <3>1 DEF Enter, Draft
    <3>2. ASSUME NEW outcome, NEW coverage, Answer(q, outcome, coverage, CurrentZone(q))
          PROVE  tx'[q].zone = CurrentZone(q)
      BY <2>0, <3>2 DEF Answer, Enter, Draft
    <3> QED
      BY <2>4, <3>1, <3>2 DEF ReadCurrent, Refuse
  <2>6. CurrentZone(q) \in Zones /\ Rank(CurrentZone(q)) <= Rank(o)
    BY <1>1, <2>5, CurrentZoneIsBest
  <2> QED
    BY <1>1, <2>0, <2>5, <2>6, OfficialFirst
<1>2. DecisionInv /\ [Next]_vars =>
          [\A q \in Request :
             (tx[q].at = "checked" /\ tx'[q].coverage = "UNVERIFIABLE_SOURCE" /\ tx'[q].zone.provenance # "official")
               => \A z \in zones : Current(z, tx[q].started) => z.provenance # "official"]_vars
  BY <1>1
<1> QED
  BY <1>2, DecisionMovesAlone, DecisionHolds, PTL DEF Spec, OfficialEvidenceWins

-------------------------------------------------------------------------------
(* Imports: shapes *)

ImportTx == [at : {"idle", "parsed", "inserted", "audited"}, source : Source \cup {NoSource},
             payload : Payload \cup {NoPayload}, existing : BOOLEAN, done : Nat]

ImportTypes ==
    /\ sources \in [Source -> {"absent", "official", "estimated"}]
    /\ batches \in Seq(Source \X Payload)
    /\ rows \in [Source \X Record -> Imports!Rows \cup {Imports!Absent}]
    /\ importing \in [Importer -> ImportTx]

\* A request imports a payload of a source that exists, and audits it when every record of
\* it was upserted.
Importing(d) ==
    d.at # "idle" =>
        /\ d.source \in Source /\ d.payload \in Payload /\ sources[d.source] # "absent"
        /\ d.done <= Len(Accepted[d.payload])
        /\ d.at = "parsed" => ~d.existing
        /\ d.at = "audited" => d.done = Len(Accepted[d.payload])

\* An open transaction that inserted a batch: the unique key is its own, and is not committed.
HoldsKey(d) == d.at \in {"inserted", "audited"} /\ ~d.existing
Key(d) == <<d.source, d.payload>>

KeysAreApart ==
    \A q \in Importer : HoldsKey(importing[q]) =>
        /\ Key(importing[q]) \notin Imports!Committed
        /\ \A p \in Importer \ {q} : HoldsKey(importing[p]) => Key(importing[p]) # Key(importing[q])

\* The last committed imports that carry a record: one, if any.
LastImports(s, r) ==
    {i \in DOMAIN batches : Imports!Carries(i, s, r) /\ \A j \in i + 1..Len(batches) : ~Imports!Carries(j, s, r)}

RowFollows(s, r) ==
    IF LastImports(s, r) = {} THEN rows[<<s, r>>] = Imports!Absent
    ELSE \A i \in LastImports(s, r) : rows[<<s, r>>] = [payload |-> batches[i][2], provenance |-> sources[s]]

RowsFollow == \A s \in Source, r \in Record : RowFollows(s, r)

BatchesCounted ==
    /\ IsFiniteSet(Imports!Committed) /\ Cardinality(Imports!Committed) = Len(batches)
    /\ \A i \in DOMAIN batches : sources[batches[i][1]] # "absent"
    /\ quarantine = UNION {{<<k[1], k[2], i>> : i \in 1..Quarantined[k[2]]} : k \in Imports!Committed}

ImportInv ==
    /\ ImportTypes /\ KeysAreApart /\ BatchesCounted /\ RowsFollow
    /\ \A q \in Importer : Importing(importing[q])

LEMMA RowsAreRecords == RowsFollow => Imports!RecordsFollowLastImport
BY DEF RowsFollow, RowFollows, LastImports, Imports!RecordsFollowLastImport

LEMMA IdleImport == Imports!Idle \in ImportTx /\ Importing(Imports!Idle) /\ ~HoldsKey(Imports!Idle)
BY DEF Imports!Idle, ImportTx, Importing, HoldsKey

LEMMA ImportInvInit == Imports!Init => ImportInv
<1> SUFFICES ASSUME Imports!Init  PROVE ImportInv
  OBVIOUS
<1>1. batches = <<>> /\ Imports!Committed = {} /\ Len(batches) = 0 /\ DOMAIN batches = {}
  BY DEF Imports!Init, Imports!Committed
<1>2. \A q \in Importer : importing[q] = Imports!Idle
  BY DEF Imports!Init
<1>3. rows \in [Source \X Record -> Imports!Rows \cup {Imports!Absent}]
      /\ \A s \in Source, r \in Record : rows[<<s, r>>] = Imports!Absent
  <2>1. rows = [k \in Source \X Record |-> Imports!Absent]
    BY DEF Imports!Init
  <2> QED
    BY <2>1
<1>4. ImportTypes
  BY <1>1, <1>3, IdleImport DEF Imports!Init, ImportTypes
<1>5. KeysAreApart /\ \A q \in Importer : Importing(importing[q])
  BY <1>2, IdleImport DEF KeysAreApart
<1>6. BatchesCounted
  BY <1>1, FS_EmptySet DEF BatchesCounted, Imports!Init
<1>7. RowsFollow
  BY <1>1, <1>3 DEF RowsFollow, RowFollows, LastImports
<1> QED
  BY <1>4, <1>5, <1>6, <1>7 DEF ImportInv

\* A step of one import that commits nothing.
LEMMA ImportStep ==
    ASSUME ImportInv, NEW q \in Importer, NEW next \in ImportTx, Importing(next),
           importing' = [importing EXCEPT ![q] = next], UNCHANGED <<sources, batches, quarantine, rows>>,
           HoldsKey(next) =>
               /\ Key(next) \notin Imports!Committed
               /\ \A p \in Importer \ {q} : HoldsKey(importing[p]) => Key(importing[p]) # Key(next)
    PROVE  ImportInv'
<1>1. importing' \in [Importer -> ImportTx] /\ importing'[q] = next
      /\ \A p \in Importer \ {q} : importing'[p] = importing[p]
  BY DEF ImportInv, ImportTypes
<1>2. ImportTypes' /\ BatchesCounted'
  BY <1>1 DEF ImportInv, ImportTypes, BatchesCounted, Imports!Committed
<1>6. RowsFollow'
  <2>1. \A s \in Source, r \in Record : LastImports(s, r)' = LastImports(s, r)
    BY DEF LastImports, Imports!Carries
  <2>2. rows' = rows /\ sources' = sources /\ batches' = batches
    OBVIOUS
  <2>3. \A s \in Source, r \in Record : RowFollows(s, r)
    BY DEF ImportInv, RowsFollow
  <2>4. ASSUME NEW s \in Source, NEW r \in Record  PROVE RowFollows(s, r)'
    BY <2>1, <2>2, <2>3 DEF RowFollows
  <2> QED
    BY <2>4 DEF RowsFollow
<1>3. ASSUME NEW p \in Importer  PROVE Importing(importing[p])'
  <2>1. sources' = sources
    OBVIOUS
  <2> QED
    BY <1>1, <2>1 DEF ImportInv, Importing
<1>4. Imports!Committed' = Imports!Committed
  BY DEF Imports!Committed
<1>5. KeysAreApart'
  <2> SUFFICES ASSUME NEW p \in Importer, HoldsKey(importing'[p])
               PROVE  /\ Key(importing'[p]) \notin Imports!Committed
                      /\ \A o \in Importer \ {p} : HoldsKey(importing'[o]) => Key(importing'[o]) # Key(importing'[p])
    BY <1>4 DEF KeysAreApart
  <2>1. CASE p = q
    BY <1>1, <2>1
  <2>2. CASE p # q
    BY <1>1, <2>2 DEF ImportInv, KeysAreApart
  <2> QED
    BY <2>1, <2>2
<1> QED
  BY <1>2, <1>3, <1>5, <1>6 DEF ImportInv

LEMMA IdleKeeps ==
    ASSUME ImportInv, NEW q \in Importer, Imports!Enter(q, Imports!Idle),
           UNCHANGED <<sources, batches, quarantine, rows>>
    PROVE  ImportInv'
BY IdleImport, ImportStep DEF Imports!Enter

LEMMA CreateSourceKeeps ==
    ASSUME ImportInv, NEW s \in Source, NEW official, NEW licensed, Imports!CreateSource(s, official, licensed)
    PROVE  ImportInv'
<1>1. /\ sources[s] = "absent" /\ sources' = [sources EXCEPT ![s] = Imports!Provenance(official)]
      /\ UNCHANGED <<batches, quarantine, rows, importing>>
  BY DEF Imports!CreateSource
<1>2. Imports!Provenance(official) \in {"official", "estimated"}
  BY DEF Imports!Provenance
<1>3. sources' \in [Source -> {"absent", "official", "estimated"}] /\ \A o \in Source \ {s} : sources'[o] = sources[o]
      /\ sources'[s] # "absent"
  BY <1>1, <1>2 DEF ImportInv, ImportTypes
<1>4. \A i \in DOMAIN batches : batches[i][1] # s /\ batches[i] \in Source \X Payload
  BY <1>1 DEF ImportInv, ImportTypes, BatchesCounted
<1>5. ImportTypes' /\ KeysAreApart'
  BY <1>1, <1>3 DEF ImportInv, ImportTypes, KeysAreApart, Imports!Committed
<1>6. BatchesCounted'
  BY <1>1, <1>3, <1>4 DEF ImportInv, BatchesCounted, Imports!Committed
<1>7. ASSUME NEW p \in Importer  PROVE Importing(importing[p])'
  BY <1>1, <1>3 DEF ImportInv, Importing
<1>8. RowsFollow'
  <2> SUFFICES ASSUME NEW o \in Source, NEW r \in Record  PROVE RowFollows(o, r)'
    BY DEF RowsFollow
  <2>1. LastImports(o, r)' = LastImports(o, r) /\ RowFollows(o, r)
    BY <1>1 DEF LastImports, Imports!Carries, ImportInv, RowsFollow
  <2>2. LastImports(o, r) # {} => o # s
    BY <1>4 DEF LastImports, Imports!Carries
  <2> QED
    BY <1>1, <1>3, <2>1, <2>2 DEF RowFollows
<1> QED
  BY <1>5, <1>6, <1>7, <1>8 DEF ImportInv

LEMMA AcceptedShapes ==
    /\ Accepted \in [Payload -> Seq(Record)] /\ Quarantined \in [Payload -> Nat]
    /\ NoSource \notin Source /\ NoPayload \notin Payload
BY MunicipalShapes DEF Imports!IngestionShapes

LEMMA ImportPayloadKeeps ==
    ASSUME ImportInv, NEW q \in Importer, NEW s \in Source, NEW p \in Payload, Imports!ImportPayload(q, s, p)
    PROVE  ImportInv'
<1> DEFINE existing == <<s, p>> \in Imports!Committed
           next == [at |-> IF existing THEN "inserted" ELSE "parsed", source |-> s, payload |-> p,
                    existing |-> existing, done |-> IF existing THEN Len(Accepted[p]) ELSE 0]
<1>1. Len(Accepted[p]) \in Nat /\ sources[s] # "absent"
  BY AcceptedShapes DEF Imports!ImportPayload
<1>2. existing \in BOOLEAN
  OBVIOUS
<1> HIDE DEF existing
<1>3. /\ next \in ImportTx /\ next.at # "idle" /\ next.source = s /\ next.payload = p /\ next.existing = existing
      /\ next.at = "inserted" => existing
      /\ next.at = "parsed" => ~existing
      /\ next.at # "audited"
      /\ next.done <= Len(Accepted[p])
  BY <1>1, <1>2 DEF ImportTx
<1>4. importing' = [importing EXCEPT ![q] = next] /\ UNCHANGED <<sources, batches, quarantine, rows>>
  BY DEF Imports!ImportPayload, Imports!Enter, Imports!NothingCommitted, existing
<1> HIDE DEF next
<1>5. Importing(next) /\ ~HoldsKey(next)
  BY <1>1, <1>3 DEF Importing, HoldsKey
<1> QED
  BY <1>3, <1>4, <1>5, ImportStep

LEMMA InsertBatchKeeps ==
    ASSUME ImportInv, NEW q \in Importer, Imports!InsertBatch(q)  PROVE ImportInv'
<1> DEFINE next == [importing[q] EXCEPT !.at = "inserted"]
<1>1. importing[q] \in ImportTx /\ Importing(importing[q]) /\ importing[q].at = "parsed"
  BY DEF ImportInv, ImportTypes, Imports!InsertBatch
<1>2. /\ next \in ImportTx /\ next.at = "inserted" /\ next.source = importing[q].source
      /\ next.payload = importing[q].payload /\ next.done = importing[q].done
  BY <1>1 DEF ImportTx
<1>3. importing' = [importing EXCEPT ![q] = next] /\ UNCHANGED <<sources, batches, quarantine, rows>>
  BY DEF Imports!InsertBatch, Imports!Enter, Imports!NothingCommitted
<1> HIDE DEF next
<1>4. Importing(next) /\ Key(next) = Imports!Batch(q)
  BY <1>1, <1>2 DEF Importing, Key, Imports!Batch
<1>5. Key(next) \notin Imports!Committed
      /\ \A p \in Importer \ {q} : HoldsKey(importing[p]) => Key(importing[p]) # Key(next)
  BY <1>4 DEF Imports!InsertBatch, Imports!UniqueBatch, Imports!HoldsBatch, HoldsKey, Key, Imports!Batch
<1> QED
  BY <1>2, <1>3, <1>4, <1>5, ImportStep

LEMMA UpsertKeeps ==
    ASSUME ImportInv, NEW q \in Importer, Imports!Upsert(q)  PROVE ImportInv'
<1> DEFINE next == [importing[q] EXCEPT !.done = @ + 1]
<1>1. importing[q] \in ImportTx /\ Importing(importing[q]) /\ importing[q].at = "inserted"
      /\ importing[q].done < Len(Accepted[importing[q].payload])
  BY DEF ImportInv, ImportTypes, Imports!Upsert
<1>2. /\ next \in ImportTx /\ next.at = importing[q].at /\ next.source = importing[q].source
      /\ next.payload = importing[q].payload /\ next.existing = importing[q].existing
      /\ next.done = importing[q].done + 1
  BY <1>1 DEF ImportTx
<1>3. importing' = [importing EXCEPT ![q] = next] /\ UNCHANGED <<sources, batches, quarantine, rows>>
  BY DEF Imports!Upsert, Imports!Enter, Imports!NothingCommitted
<1> HIDE DEF next
<1>4. Importing(next)
  <2>1. Len(Accepted[importing[q].payload]) \in Nat /\ importing[q].done \in Nat
    BY <1>1, AcceptedShapes DEF ImportTx, Importing
  <2> QED
    BY <1>1, <1>2, <2>1 DEF Importing
<1>5. Key(next) = Key(importing[q]) /\ (HoldsKey(next) <=> HoldsKey(importing[q]))
  BY <1>2 DEF Key, HoldsKey
<1> QED
  BY <1>2, <1>3, <1>4, <1>5, ImportStep DEF ImportInv, KeysAreApart

LEMMA ImportAuditKeeps ==
    ASSUME ImportInv, NEW q \in Importer, Imports!Audit(q)  PROVE ImportInv'
<1> DEFINE next == [importing[q] EXCEPT !.at = "audited"]
<1>1. importing[q] \in ImportTx /\ Importing(importing[q]) /\ importing[q].at = "inserted"
      /\ importing[q].done = Len(Accepted[importing[q].payload])
  BY DEF ImportInv, ImportTypes, Imports!Audit
<1>2. /\ next \in ImportTx /\ next.at = "audited" /\ next.source = importing[q].source
      /\ next.payload = importing[q].payload /\ next.existing = importing[q].existing
      /\ next.done = importing[q].done
  BY <1>1 DEF ImportTx
<1>3. importing' = [importing EXCEPT ![q] = next] /\ UNCHANGED <<sources, batches, quarantine, rows>>
  BY DEF Imports!Audit, Imports!Enter, Imports!NothingCommitted
<1> HIDE DEF next
<1>4. Importing(next)
  BY <1>1, <1>2 DEF Importing
<1>5. Key(next) = Key(importing[q]) /\ (HoldsKey(next) <=> HoldsKey(importing[q]))
  BY <1>1, <1>2 DEF Key, HoldsKey
<1> QED
  BY <1>2, <1>3, <1>4, <1>5, ImportStep DEF ImportInv, KeysAreApart

\* The evidence of the rejections of a committed feed.
Evidence(k) == {<<k[1], k[2], i>> : i \in 1..Quarantined[k[2]]}

LEMMA EvidenceOfOneMore ==
    ASSUME NEW C, NEW k
    PROVE  UNION {Evidence(x) : x \in C \cup {k}} = (UNION {Evidence(x) : x \in C}) \cup Evidence(k)
<1>1. \A e : e \in UNION {Evidence(x) : x \in C \cup {k}} <=> \E x \in C \cup {k} : e \in Evidence(x)
  OBVIOUS
<1>2. \A e : e \in (UNION {Evidence(x) : x \in C}) \cup Evidence(k) <=>
                 (\E x \in C : e \in Evidence(x)) \/ e \in Evidence(k)
  OBVIOUS
<1> QED
  BY <1>1, <1>2

LEMMA CommitImportKeeps ==
    ASSUME ImportInv, NEW q \in Importer, Imports!CommitImport(q)  PROVE ImportInv'
<1>1. CASE importing[q].existing
  BY <1>1, IdleKeeps DEF Imports!CommitImport
<1>2. CASE ~importing[q].existing
  <2> DEFINE d == importing[q]
             s == d.source
             p == d.payload
  <2>0. /\ d \in ImportTx /\ d.at = "audited" /\ s \in Source /\ p \in Payload /\ sources[s] # "absent"
        /\ d.done = Len(Accepted[p]) /\ Accepted[p] \in Seq(Record) /\ HoldsKey(d)
    BY <1>2, AcceptedShapes DEF ImportInv, ImportTypes, Importing, HoldsKey, Imports!CommitImport
  <2>1. /\ batches' = Append(batches, <<s, p>>)
        /\ quarantine' = quarantine \cup {<<s, p, i>> : i \in 1..Quarantined[p]}
        /\ rows' = [k \in Source \X Record |-> IF k[1] = s /\ k[2] \in Imports!Upserted(q)
                                                THEN Imports!Written(k[1], k[2], p) ELSE rows[k]]
        /\ importing' = [importing EXCEPT ![q] = Imports!Idle] /\ sources' = sources
    BY <1>2 DEF Imports!CommitImport, Imports!Batch, Imports!Enter
  <2>2. batches \in Seq(Source \X Payload) /\ Len(batches) \in Nat
    BY DEF ImportInv, ImportTypes
  <2>n. PICK n \in Nat : n = Len(batches)
    BY <2>2
  <2>3. /\ batches' \in Seq(Source \X Payload) /\ Len(batches') = n + 1 /\ batches'[n + 1] = <<s, p>>
        /\ DOMAIN batches' = 1..n + 1 /\ DOMAIN batches = 1..n /\ \A i \in 1..n : batches'[i] = batches[i]
    BY <2>0, <2>1, <2>2, <2>n
  <2>4. importing' \in [Importer -> ImportTx] /\ importing'[q] = Imports!Idle
        /\ \A o \in Importer \ {q} : importing'[o] = importing[o]
    BY <2>1, IdleImport DEF ImportInv, ImportTypes
  <2>5. Imports!Committed' = Imports!Committed \cup {<<s, p>>} /\ <<s, p>> \notin Imports!Committed
    <3>1. Imports!Committed' = Imports!Committed \cup {<<s, p>>}
      <4>1. Imports!Committed = {batches[i] : i \in 1..n}
        BY <2>3 DEF Imports!Committed
      <4>2. Imports!Committed' = {batches'[i] : i \in 1..n + 1}
        BY <2>3 DEF Imports!Committed
      <4>3. \A i \in 1..n + 1 : i \in 1..n \/ i = n + 1
        OBVIOUS
      <4>4. \A i \in 1..n : i \in 1..n + 1
        OBVIOUS
      <4>5. n + 1 \in 1..n + 1
        OBVIOUS
      <4> QED
        BY <2>3, <4>1, <4>2, <4>3, <4>4, <4>5
    <3>2. Key(d) \notin Imports!Committed
      BY <2>0 DEF ImportInv, KeysAreApart
    <3> QED
      BY <3>1, <3>2 DEF Key
  <2>6. ASSUME NEW o \in Source, NEW r \in Record
        PROVE  /\ Imports!Carries(n + 1, o, r)' <=> o = s /\ r \in Imports!Upserted(q)
               /\ \A i \in 1..n : Imports!Carries(i, o, r)' <=> Imports!Carries(i, o, r)
    <3>1. Imports!Upserted(q) = {Accepted[p][i] : i \in 1..Len(Accepted[p])}
      BY <2>0 DEF Imports!Upserted
    <3>2. DOMAIN Accepted[p] = 1..Len(Accepted[p])
      BY <2>0
    <3>3. Imports!Carries(n + 1, o, r)' <=> s = o /\ \E j \in DOMAIN Accepted[p] : Accepted[p][j] = r
      BY <2>3 DEF Imports!Carries
    <3> QED
      BY <2>3, <3>1, <3>2, <3>3 DEF Imports!Carries
  <2>7. ImportTypes'
    <3>1. \A k \in Source \X Record : Imports!Written(k[1], k[2], p) \in Imports!Rows \/ k[1] # s
      <4>1. sources[s] \in {"official", "estimated"}
        BY <2>0 DEF ImportInv, ImportTypes
      <4> QED
        BY <2>0, <4>1 DEF Imports!Written, Imports!Rows
    <3>2. rows' \in [Source \X Record -> Imports!Rows \cup {Imports!Absent}]
      BY <2>1, <3>1 DEF ImportInv, ImportTypes
    <3> QED
      BY <2>1, <2>3, <2>4, <3>2 DEF ImportInv, ImportTypes
  <2>8. KeysAreApart'
    <3> SUFFICES ASSUME NEW o \in Importer, HoldsKey(importing'[o])
                 PROVE  /\ Key(importing'[o]) \notin Imports!Committed'
                        /\ \A x \in Importer \ {o} : HoldsKey(importing'[x]) => Key(importing'[x]) # Key(importing'[o])
      BY DEF KeysAreApart
    <3>1. o # q /\ importing'[o] = importing[o]
      BY <2>4, IdleImport
    <3>2. Key(importing[o]) # <<s, p>>
      BY <2>0, <3>1 DEF ImportInv, KeysAreApart, Key
    <3>3. Key(importing[o]) \notin Imports!Committed
      BY <3>1 DEF ImportInv, KeysAreApart
    <3>4. ASSUME NEW x \in Importer \ {o}, HoldsKey(importing'[x])  PROVE Key(importing'[x]) # Key(importing'[o])
      <4>1. x # q /\ importing'[x] = importing[x]
        BY <2>4, <3>4, IdleImport
      <4> QED
        BY <3>1, <3>4, <4>1 DEF ImportInv, KeysAreApart
    <3> QED
      BY <2>5, <3>1, <3>2, <3>3, <3>4
  <2>9. BatchesCounted'
    <3>1. IsFiniteSet(Imports!Committed) /\ Cardinality(Imports!Committed) = n
      BY <2>n DEF ImportInv, BatchesCounted
    <3>2. IsFiniteSet(Imports!Committed') /\ Cardinality(Imports!Committed') = n + 1
      BY <2>5, <3>1, FS_AddElement
    <3>3. \A i \in DOMAIN batches' : sources'[batches'[i][1]] # "absent"
      BY <2>0, <2>1, <2>2, <2>3 DEF ImportInv, BatchesCounted
    <3>4. quarantine' = UNION {{<<k[1], k[2], i>> : i \in 1..Quarantined[k[2]]} : k \in Imports!Committed'}
      <4>1. quarantine = UNION {Evidence(k) : k \in Imports!Committed}
        BY DEF ImportInv, BatchesCounted, Evidence
      <4>2. {<<s, p, i>> : i \in 1..Quarantined[p]} = Evidence(<<s, p>>)
        BY DEF Evidence
      <4>3. quarantine' = (UNION {Evidence(k) : k \in Imports!Committed}) \cup Evidence(<<s, p>>)
        BY <2>1, <4>1, <4>2
      <4>4. quarantine' = UNION {Evidence(k) : k \in Imports!Committed'}
        BY <2>5, <4>3, EvidenceOfOneMore
      <4> QED
        BY <4>4 DEF Evidence
    <3> QED
      BY <2>3, <3>2, <3>3, <3>4 DEF BatchesCounted
  <2>10. ASSUME NEW o \in Importer  PROVE Importing(importing[o])'
    <3>1. importing'[o] = importing[o] \/ importing'[o] = Imports!Idle
      BY <2>4
    <3> QED
      BY <2>1, <3>1, IdleImport DEF ImportInv, Importing, Imports!Idle
  <2>11. RowsFollow'
    <3> SUFFICES ASSUME NEW o \in Source, NEW r \in Record  PROVE RowFollows(o, r)'
      BY DEF RowsFollow
    <3>0. n \in Nat /\ RowFollows(o, r) /\ <<o, r>> \in Source \X Record
      BY DEF ImportInv, RowsFollow
    <3>1. CASE o = s /\ r \in Imports!Upserted(q)
      <4>1. LastImports(o, r)' = {n + 1}
        <5>1. LastImports(o, r)' = {i \in 1..n + 1 : Imports!Carries(i, o, r)'
                                        /\ \A j \in i + 1..n + 1 : ~Imports!Carries(j, o, r)'}
          BY <2>3 DEF LastImports
        <5>2. Imports!Carries(n + 1, o, r)'
          BY <2>6, <3>1
        <5>3. \A i \in 1..n : n + 1 \in i + 1..n + 1
          OBVIOUS
        <5>4. \A i \in 1..n + 1 : i \in 1..n \/ i = n + 1
          OBVIOUS
        <5>5. n + 1 \in 1..n + 1 /\ (n + 1) + 1..n + 1 = {}
          OBVIOUS
        <5> QED
          BY <5>1, <5>2, <5>3, <5>4, <5>5
      <4>2. rows'[<<o, r>>] = [payload |-> p, provenance |-> sources[o]]
        BY <2>1, <3>0, <3>1 DEF Imports!Written
      <4> QED
        BY <2>1, <2>3, <4>1, <4>2 DEF RowFollows
    <3>2. CASE ~(o = s /\ r \in Imports!Upserted(q))
      <4>1. LastImports(o, r)' = LastImports(o, r)
        <5>1. LastImports(o, r)' = {i \in 1..n + 1 : Imports!Carries(i, o, r)'
                                        /\ \A j \in i + 1..n + 1 : ~Imports!Carries(j, o, r)'}
          BY <2>3 DEF LastImports
        <5>2. LastImports(o, r) = {i \in 1..n : Imports!Carries(i, o, r)
                                        /\ \A j \in i + 1..n : ~Imports!Carries(j, o, r)}
          BY <2>3, <2>n DEF LastImports
        <5>3. ~Imports!Carries(n + 1, o, r)'
          BY <2>6, <3>2
        <5>4. \A i \in 1..n + 1 : i \in 1..n \/ i = n + 1
          OBVIOUS
        <5>5. \A i \in 1..n : i \in 1..n + 1 /\ \A j : j \in i + 1..n + 1 <=> j \in i + 1..n \/ j = n + 1
          OBVIOUS
        <5>6. \A i \in 1..n : \A j \in i + 1..n : j \in 1..n
          OBVIOUS
        <5>7. \A i \in 1..n : Imports!Carries(i, o, r)' <=> Imports!Carries(i, o, r)
          BY <2>6
        <5> QED
          BY <5>1, <5>2, <5>3, <5>4, <5>5, <5>6, <5>7
      <4>2. rows'[<<o, r>>] = rows[<<o, r>>]
        BY <2>1, <3>0, <3>2
      <4>3. \A i \in LastImports(o, r) : batches'[i] = batches[i]
        BY <2>3 DEF LastImports
      <4> QED
        BY <2>1, <3>0, <4>1, <4>2, <4>3 DEF RowFollows
    <3> QED
      BY <3>1, <3>2
  <2> QED
    BY <2>7, <2>8, <2>9, <2>10, <2>11 DEF ImportInv
<1> QED
  BY <1>1, <1>2

LEMMA ImportInvKept == ImportInv /\ [Imports!Next]_Imports!vars => ImportInv'
<1> SUFFICES ASSUME ImportInv, [Imports!Next]_Imports!vars  PROVE ImportInv'
  OBVIOUS
<1>1. CASE UNCHANGED Imports!vars
  <2>1. UNCHANGED <<sources, batches, quarantine, rows, importing>>
    BY <1>1 DEF Imports!vars
  <2>2. Imports!Committed' = Imports!Committed /\ \A s \in Source, r \in Record : RowFollows(s, r)' <=> RowFollows(s, r)
    BY <2>1 DEF Imports!Committed, RowFollows, LastImports, Imports!Carries
  <2>3. \A q \in Importer : Importing(importing[q])' <=> Importing(importing[q])
    BY <2>1 DEF Importing
  <2> QED
    BY <2>1, <2>2, <2>3 DEF ImportInv, ImportTypes, KeysAreApart, BatchesCounted, RowsFollow
<1>2. ASSUME NEW q \in Importer, Imports!InsertRaises(q) \/ Imports!Rollback(q) \/ Imports!DeadlockAbort(q)
      PROVE  ImportInv'
  BY <1>2, IdleKeeps DEF Imports!InsertRaises, Imports!Rollback, Imports!DeadlockAbort, Imports!NothingCommitted
<1> QED
  BY <1>1, <1>2, CreateSourceKeeps, ImportPayloadKeeps, InsertBatchKeeps, UpsertKeeps, ImportAuditKeeps,
     CommitImportKeeps DEF Imports!Next, Imports!Advance

-------------------------------------------------------------------------------
(* Feeds: shapes *)

AnyRecord == Features \cup FacilityRows

FeedTypes ==
    /\ at \in {"payload", "records", "done", "raised"} /\ connector \in {"geojson", "csv"}
    /\ records \in Seq(AnyRecord) /\ seen \subseteq Id
    /\ accepted \in Seq(Nat) /\ rejected \in Seq(Nat \cup {-1}) /\ count \in 0..MAX_RECORDS \cup {1}

\* A feed refused as a whole, or not opened, read no record.
NothingRead == records = <<>> /\ accepted = <<>> /\ seen = {}
Refused ==
    /\ at = "payload" => NothingRead /\ rejected = <<>>
    /\ rejected = <<-1>> => NothingRead /\ at = "done" /\ count = 1

\* Every record read is accepted or rejected, and none is both.
Parted ==
    rejected # <<-1>> =>
        /\ Feed!Elements(accepted) \cup Feed!Elements(rejected) = 0..Len(records) - 1
        /\ Feed!Elements(accepted) \cap Feed!Elements(rejected) = {}
        /\ Len(accepted) + Len(rejected) = Len(records)
        /\ at = "records" => Len(records) <= count
        /\ at = "done" => Len(records) = count

\* What marked an id as seen: an accepted record, or a feature whose rules alone were wrong.
Marks(j) ==
    \/ j - 1 \in Feed!Elements(accepted)
    \/ connector = "geojson" /\ Feed!FeatureStands(records[j]) /\ ~Feed!RulesParse(records[j])

SeenIsMarked ==
    /\ Feed!AcceptedIds \subseteq seen
    /\ \A x \in seen : \E j \in 1..Len(records) : records[j].external_id = x /\ Marks(j)

AcceptedInv ==
    /\ Feed!Elements(accepted) \subseteq 0..Len(records) - 1
    /\ \A i \in Feed!Elements(accepted) : Feed!Valid(records[i + 1])
    /\ IsFiniteSet(Feed!AcceptedIds) /\ Cardinality(Feed!AcceptedIds) = Len(accepted)

\* A valid record is left out for an earlier one of its id that marked it.
LeftOut ==
    \A i \in 1..Len(records) : Feed!Valid(records[i]) /\ i - 1 \notin Feed!Elements(accepted) =>
        \E j \in 1..i - 1 : records[j].external_id = records[i].external_id /\ Marks(j)

FeedInv == FeedTypes /\ Refused /\ Parted /\ SeenIsMarked /\ AcceptedInv /\ LeftOut

LEMMA FeedShaped == MAX_RECORDS \in Nat /\ \A r \in AnyRecord : r.external_id \in Id
BY MunicipalShapes DEF Feed!FeedShapes, AnyRecord

LEMMA NoElements == Feed!Elements(<<>>) = {}
BY DEF Feed!Elements

LEMMA MoreElements ==
    ASSUME NEW S, NEW s \in Seq(S), NEW x \in S
    PROVE  Feed!Elements(Append(s, x)) = Feed!Elements(s) \cup {x}
<1>1. PICK n \in Nat : n = Len(s)
  OBVIOUS
<1>2. /\ DOMAIN s = 1..n /\ DOMAIN Append(s, x) = 1..n + 1
      /\ Append(s, x)[n + 1] = x /\ \A i \in 1..n : Append(s, x)[i] = s[i]
  BY <1>1
<1>3. Feed!Elements(s) = {s[i] : i \in 1..n}
  BY <1>2 DEF Feed!Elements
<1>4. Feed!Elements(Append(s, x)) = {Append(s, x)[i] : i \in 1..n + 1}
  BY <1>2 DEF Feed!Elements
<1>5. \A i \in 1..n + 1 : i \in 1..n \/ i = n + 1
  OBVIOUS
<1>6. (\A i \in 1..n : i \in 1..n + 1) /\ n + 1 \in 1..n + 1
  OBVIOUS
<1> QED
  BY <1>2, <1>3, <1>4, <1>5, <1>6

LEMMA NothingReadIsFine ==
    ASSUME records = <<>>, accepted = <<>>, seen = {}
    PROVE  SeenIsMarked /\ AcceptedInv /\ LeftOut
<1>1. Len(records) = 0 /\ Len(accepted) = 0 /\ Feed!Elements(accepted) = {}
  BY NoElements
<1>2. Feed!AcceptedIds = {}
  BY <1>1 DEF Feed!AcceptedIds
<1>3. IsFiniteSet({}) /\ Cardinality({}) = 0
  BY FS_EmptySet
<1>4. 1..0 = {}
  OBVIOUS
<1> QED
  BY <1>1, <1>2, <1>3, <1>4 DEF SeenIsMarked, AcceptedInv, LeftOut

LEMMA FeedInvInit == Feed!Init => FeedInv
<1> SUFFICES ASSUME Feed!Init  PROVE FeedInv
  OBVIOUS
<1>1. /\ records = <<>> /\ accepted = <<>> /\ seen = {} /\ rejected = <<>> /\ count = 0 /\ at = "payload"
      /\ connector \in {"geojson", "csv"}
  BY DEF Feed!Init
<1>2. FeedTypes
  BY <1>1, FeedShaped DEF FeedTypes
<1>3. rejected # <<-1>>
  BY <1>1
<1>4. Parted
  <2>1. 0..-1 = {}
    OBVIOUS
  <2> QED
    BY <1>1, <2>1, NoElements DEF Parted
<1> QED
  BY <1>1, <1>2, <1>3, <1>4, NothingReadIsFine DEF FeedInv, Refused, NothingRead

\* The same records and verdicts: only where the loop is may have changed.
LEMMA SameRecords ==
    ASSUME FeedInv, UNCHANGED <<connector, records, seen, accepted>>
    PROVE  SeenIsMarked' /\ AcceptedInv' /\ LeftOut'
<1>1. Feed!AcceptedIds' = Feed!AcceptedIds /\ Feed!Elements(accepted)' = Feed!Elements(accepted)
  BY DEF Feed!AcceptedIds, Feed!Elements
<1>2. \A j : Marks(j)' <=> Marks(j)
  BY <1>1 DEF Marks
<1>3. ASSUME NEW i \in Nat  PROVE Feed!Valid(records[i])' <=> Feed!Valid(records[i])
  BY DEF Feed!Valid
<1>4. SeenIsMarked'
  BY <1>1, <1>2 DEF FeedInv, SeenIsMarked
<1>5. AcceptedInv'
  <2>1. \A i \in Feed!Elements(accepted) : Feed!Valid(records[i + 1])'
    BY DEF FeedInv, AcceptedInv, Feed!Valid
  <2> QED
    BY <1>1, <2>1 DEF FeedInv, AcceptedInv
<1>6. LeftOut'
  BY <1>1, <1>2, <1>3 DEF FeedInv, LeftOut
<1> QED
  BY <1>4, <1>5, <1>6

LEMMA NoRecordYet == FeedInv /\ at = "payload" => NothingRead /\ rejected = <<>> /\ Len(records) = 0 /\ Len(accepted) = 0
BY DEF FeedInv, Refused, NothingRead

\* A feed that is opened, refused, or whose reader raises.
LEMMA OpeningKeeps ==
    ASSUME FeedInv, at = "payload",
           Feed!RejectPayload \/ Feed!ReaderRaises \/ \E n \in 0..MAX_RECORDS + 1 : Feed!OpenFeed(n)
    PROVE  FeedInv'
<1>1. NothingRead /\ rejected = <<>> /\ Len(records) = 0 /\ Len(accepted) = 0 /\ UNCHANGED <<connector, records, seen, accepted>>
  BY NoRecordYet DEF Feed!RejectPayload, Feed!ReaderRaises, Feed!OpenFeed
<1>2. SeenIsMarked' /\ AcceptedInv' /\ LeftOut'
  BY <1>1, SameRecords
<1>3. \/ at' = "done" /\ rejected' = <<-1>> /\ count' = 1
      \/ at' = "raised" /\ rejected' = rejected /\ count' = count
      \/ at' = "records" /\ rejected' = rejected /\ count' \in 0..MAX_RECORDS
  BY FeedShaped DEF Feed!RejectPayload, Feed!ReaderRaises, Feed!OpenFeed
<1>4. FeedTypes'
  <2>1. <<-1>> \in Seq(Nat \cup {-1}) /\ 1 \in 0..MAX_RECORDS \cup {1}
    OBVIOUS
  <2>2. rejected' \in Seq(Nat \cup {-1})
    BY <1>3, <2>1 DEF FeedInv, FeedTypes
  <2>3. count' \in 0..MAX_RECORDS \cup {1} /\ at' \in {"payload", "records", "done", "raised"}
    BY <1>3, <2>1 DEF FeedInv, FeedTypes
  <2> QED
    BY <1>1, <2>2, <2>3 DEF FeedInv, FeedTypes
<1>5. <<>> # <<-1>>
  OBVIOUS
<1>6. Refused'
  BY <1>1, <1>3, <1>5 DEF Refused, NothingRead
<1>7. Parted'
  <2>1. CASE rejected' = <<-1>>
    BY <2>1 DEF Parted
  <2>2. CASE rejected' = <<>>
    <3>1. Feed!Elements(accepted') = {} /\ Feed!Elements(rejected') = {} /\ Len(rejected') = 0
      BY <1>1, <2>2, NoElements DEF NothingRead
    <3>2. 0..Len(records') - 1 = {} /\ Len(records') = 0 /\ Len(accepted') = 0
      BY <1>1
    <3>3. at' # "done" /\ (at' = "records" => 0 <= count')
      BY <1>3, <1>5, <2>2, FeedShaped
    <3> QED
      BY <3>1, <3>2, <3>3 DEF Parted
  <2> QED
    BY <1>1, <1>3, <2>1, <2>2
<1> QED
  BY <1>2, <1>4, <1>6, <1>7 DEF FeedInv

LEMMA ReturnKeeps == ASSUME FeedInv, Feed!Return  PROVE FeedInv'
<1>1. /\ at = "records" /\ Len(records) = count /\ at' = "done"
      /\ UNCHANGED <<connector, records, seen, accepted, rejected, count>>
  BY DEF Feed!Return
<1>2. SeenIsMarked' /\ AcceptedInv' /\ LeftOut'
  BY <1>1, SameRecords
<1> QED
  BY <1>1, <1>2 DEF FeedInv, FeedTypes, Refused, NothingRead, Parted

\* One record: it is kept if it is valid and new; only records whose rules alone are wrong are
\* marked without being kept.
LEMMA LoopKeeps ==
    ASSUME FeedInv, NEW r \in AnyRecord, NEW keep \in BOOLEAN, NEW mark \in BOOLEAN, Feed!Loop(r, keep, mark),
           connector' = connector,
           keep <=> Feed!Valid(r) /\ Feed!New(r), keep => mark, mark => Feed!New(r),
           Feed!Valid(r) /\ ~keep => ~Feed!New(r),
           mark /\ ~keep => connector = "geojson" /\ Feed!FeatureStands(r) /\ ~Feed!RulesParse(r)
    PROVE  FeedInv'
<1>1. records \in Seq(AnyRecord) /\ Len(records) \in Nat /\ accepted \in Seq(Nat) /\ rejected \in Seq(Nat \cup {-1})
  BY DEF FeedInv, FeedTypes
<1>2. PICK n \in Nat : n = Len(records)
  BY <1>1
<1>3. /\ at = "records" /\ at' = "records" /\ n < count /\ count' = count /\ records' = Append(records, r)
      /\ seen' = (IF mark THEN seen \cup {r.external_id} ELSE seen)
      /\ accepted' = (IF keep THEN Append(accepted, n) ELSE accepted)
      /\ rejected' = (IF keep THEN rejected ELSE Append(rejected, n))
  BY <1>2 DEF Feed!Loop
<1>4. /\ records' \in Seq(AnyRecord) /\ Len(records') = n + 1 /\ records'[n + 1] = r
      /\ \A i \in 1..n : records'[i] = records[i]
  BY <1>1, <1>2, <1>3
<1>5. rejected # <<-1>>
  BY <1>3 DEF FeedInv, Refused
<1>6. /\ Feed!Elements(accepted) \cup Feed!Elements(rejected) = 0..n - 1
      /\ Feed!Elements(accepted) \cap Feed!Elements(rejected) = {}
      /\ Len(accepted) + Len(rejected) = n
  BY <1>2, <1>5 DEF FeedInv, Parted
<1>7. Feed!Elements(accepted') = (IF keep THEN Feed!Elements(accepted) \cup {n} ELSE Feed!Elements(accepted))
  <2>1. Feed!Elements(Append(accepted, n)) = Feed!Elements(accepted) \cup {n}
    BY <1>1, MoreElements
  <2>2. CASE keep
    BY <1>3, <2>1, <2>2
  <2>3. CASE ~keep
    BY <1>3, <2>3
  <2> QED
    BY <2>2, <2>3
<1>8. Feed!Elements(rejected') = (IF keep THEN Feed!Elements(rejected) ELSE Feed!Elements(rejected) \cup {n})
  <2>0. n \in Nat \cup {-1}
    OBVIOUS
  <2>1. Feed!Elements(Append(rejected, n)) = Feed!Elements(rejected) \cup {n}
    BY <1>1, <2>0, MoreElements
  <2>2. CASE keep
    BY <1>3, <2>2
  <2>3. CASE ~keep
    BY <1>3, <2>1, <2>3
  <2> QED
    BY <2>2, <2>3
<1>9. FeedTypes'
  <2>1. r.external_id \in Id
    BY FeedShaped
  <2>2. accepted' \in Seq(Nat) /\ rejected' \in Seq(Nat \cup {-1})
    BY <1>1, <1>3
  <2> QED
    BY <1>3, <1>4, <2>1, <2>2 DEF FeedInv, FeedTypes
<1>10. rejected' # <<-1>>
  <2>1. CASE keep
    BY <1>3, <1>5, <2>1
  <2>2. CASE ~keep
    <3>1. n \in Feed!Elements(rejected')
      BY <1>8, <2>2
    <3>2. Feed!Elements(<<-1>>) = {-1}
      BY DEF Feed!Elements
    <3> QED
      BY <3>1, <3>2
  <2> QED
    BY <2>1, <2>2
<1>11. Refused'
  BY <1>3, <1>10 DEF Refused
<1>12. Parted'
  <2>1. 0..(n + 1) - 1 = (0..n - 1) \cup {n} /\ n \notin 0..n - 1
    OBVIOUS
  <2>2. Feed!Elements(accepted') \cup Feed!Elements(rejected') = 0..(n + 1) - 1
    BY <1>6, <1>7, <1>8, <2>1
  <2>3. Feed!Elements(accepted') \cap Feed!Elements(rejected') = {}
    BY <1>6, <1>7, <1>8, <2>1
  <2>4. Len(accepted') + Len(rejected') = n + 1
    BY <1>1, <1>3, <1>6
  <2>5. n + 1 <= count
    BY <1>3 DEF FeedInv, FeedTypes
  <2> QED
    BY <1>3, <1>4, <2>2, <2>3, <2>4, <2>5 DEF Parted, Feed!Elements
<1>13. Feed!Valid(r)' <=> Feed!Valid(r)
  BY DEF Feed!Valid
<1>14. \A i \in 1..n : Feed!Valid(records[i])' <=> Feed!Valid(records[i])
  BY <1>4 DEF Feed!Valid
<1>15. Feed!Valid(records[n + 1])' <=> Feed!Valid(r)
  BY <1>4 DEF Feed!Valid
<1>16. ASSUME NEW j \in 1..n, Marks(j)  PROVE Marks(j)'
  BY <1>4, <1>7, <1>16 DEF Marks
<1>17. mark => Marks(n + 1)'
  BY <1>4, <1>7 DEF Marks
<1>18. Feed!AcceptedIds' = IF keep THEN Feed!AcceptedIds \cup {r.external_id} ELSE Feed!AcceptedIds
  <2>1. \A i \in Feed!Elements(accepted) : i \in 0..n - 1 /\ i + 1 \in 1..n
    BY <1>6
  <2>2. Feed!AcceptedIds' = {records'[i + 1].external_id : i \in Feed!Elements(accepted')}
    BY DEF Feed!AcceptedIds, Feed!Elements
  <2> QED
    BY <1>4, <1>7, <2>1, <2>2 DEF Feed!AcceptedIds
<1>19. SeenIsMarked'
  <2>1. Feed!AcceptedIds' \subseteq seen'
    BY <1>3, <1>18 DEF FeedInv, SeenIsMarked
  <2>2. ASSUME NEW x \in seen'  PROVE \E j \in 1..n + 1 : records'[j].external_id = x /\ Marks(j)'
    <3>1. CASE x \in seen
      <4>1. PICK j \in 1..n : records[j].external_id = x /\ Marks(j)
        BY <1>2, <3>1 DEF FeedInv, SeenIsMarked
      <4> QED
        BY <1>4, <1>16, <4>1
    <3>2. CASE x \notin seen
      BY <1>3, <1>4, <1>17, <3>2
    <3> QED
      BY <3>1, <3>2
  <2> QED
    BY <1>4, <2>1, <2>2 DEF SeenIsMarked
<1>20. AcceptedInv'
  <2>1. Feed!Elements(accepted') \subseteq 0..(n + 1) - 1
    BY <1>6, <1>7
  <2>2. ASSUME NEW i \in Feed!Elements(accepted')  PROVE Feed!Valid(records[i + 1])'
    <3>1. CASE i \in Feed!Elements(accepted)
      <4>1. i + 1 \in 1..n /\ Feed!Valid(records[i + 1])
        BY <1>6, <3>1 DEF FeedInv, AcceptedInv
      <4> QED
        BY <1>4, <4>1 DEF Feed!Valid
    <3>2. CASE i \notin Feed!Elements(accepted)
      <4>1. i = n /\ keep
        BY <1>7, <3>2
      <4> QED
        BY <1>4, <4>1 DEF Feed!Valid
    <3> QED
      BY <3>1, <3>2
  <2>3. IsFiniteSet(Feed!AcceptedIds) /\ Cardinality(Feed!AcceptedIds) = Len(accepted)
    BY DEF FeedInv, AcceptedInv
  <2>4. keep => r.external_id \notin Feed!AcceptedIds
    BY DEF Feed!New, FeedInv, SeenIsMarked
  <2>5. IsFiniteSet(Feed!AcceptedIds') /\ Cardinality(Feed!AcceptedIds') = Len(accepted')
    <3>1. CASE keep
      <4>1. Feed!AcceptedIds' = Feed!AcceptedIds \cup {r.external_id} /\ Len(accepted') = Len(accepted) + 1
        BY <1>1, <1>3, <1>18, <3>1
      <4> QED
        BY <2>3, <2>4, <3>1, <4>1, FS_AddElement
    <3>2. CASE ~keep
      BY <1>3, <1>18, <2>3, <3>2
    <3> QED
      BY <3>1, <3>2
  <2> QED
    BY <1>4, <2>1, <2>2, <2>5 DEF AcceptedInv, Feed!Elements
<1>21. LeftOut'
  <2> SUFFICES ASSUME NEW i \in 1..n + 1, Feed!Valid(records[i])', i - 1 \notin Feed!Elements(accepted')
               PROVE  \E j \in 1..i - 1 : records'[j].external_id = records'[i].external_id /\ Marks(j)'
    BY <1>4 DEF LeftOut, Feed!Elements
  <2>1. CASE i \in 1..n
    <3>1. Feed!Valid(records[i]) /\ i - 1 \notin Feed!Elements(accepted)
      BY <1>7, <1>14, <2>1
    <3>2. PICK j \in 1..i - 1 : records[j].external_id = records[i].external_id /\ Marks(j)
      BY <1>2, <2>1, <3>1 DEF FeedInv, LeftOut
    <3>3. j \in 1..n
      BY <2>1
    <3> QED
      BY <1>4, <1>16, <2>1, <3>2, <3>3
  <2>2. CASE i = n + 1
    <3>1. Feed!Valid(r) /\ ~keep
      BY <1>7, <1>15, <2>2
    <3>2. r.external_id \in seen
      BY <3>1 DEF Feed!New
    <3>3. PICK j \in 1..n : records[j].external_id = r.external_id /\ Marks(j)
      BY <1>2, <3>2 DEF FeedInv, SeenIsMarked
    <3>4. j \in 1..i - 1
      BY <2>2
    <3> QED
      BY <1>4, <1>16, <2>2, <3>3, <3>4
  <2> QED
    BY <2>1, <2>2
<1> QED
  BY <1>9, <1>11, <1>12, <1>19, <1>20, <1>21 DEF FeedInv

\* An error that leaves the loop leaves what was read as it is.
LEMMA LoopRaisesKeeps == ASSUME FeedInv, Feed!LoopRaises  PROVE FeedInv'
<1>1. /\ UNCHANGED <<connector, records, seen, accepted, rejected, count>> /\ at = "records" /\ at' = "raised"
  BY DEF Feed!LoopRaises
<1>2. SeenIsMarked' /\ AcceptedInv' /\ LeftOut'
  BY <1>1, SameRecords
<1>3. rejected # <<-1>>
  BY <1>1 DEF FeedInv, Refused
<1>4. FeedTypes' /\ Refused'
  BY <1>1, <1>3 DEF FeedInv, FeedTypes, Refused
<1>5. Parted'
  BY <1>1 DEF FeedInv, Parted
<1> QED
  BY <1>2, <1>4, <1>5 DEF FeedInv

LEMMA FeedInvKept == FeedInv /\ [Feed!Next]_Feed!vars => FeedInv'
<1> SUFFICES ASSUME FeedInv, [Feed!Next]_Feed!vars  PROVE FeedInv'
  OBVIOUS
<1>1. CASE UNCHANGED Feed!vars
  <2>1. UNCHANGED <<connector, at, records, seen, accepted, rejected, count>>
    BY <1>1 DEF Feed!vars
  <2>2. SeenIsMarked' /\ AcceptedInv' /\ LeftOut'
    BY <2>1, SameRecords
  <2> QED
    BY <2>1, <2>2 DEF FeedInv, FeedTypes, Refused, NothingRead, Parted
<1>2. CASE Feed!RejectPayload \/ Feed!ReaderRaises \/ \E n \in 0..MAX_RECORDS + 1 : Feed!OpenFeed(n)
  <2>1. at = "payload"
    BY <1>2 DEF Feed!RejectPayload, Feed!ReaderRaises, Feed!OpenFeed
  <2> QED
    BY <1>2, <2>1, OpeningKeeps
<1>3. ASSUME NEW f \in Features, Feed!ReadFeature(f)  PROVE FeedInv'
  <2> DEFINE keep == Feed!FeatureStands(f) /\ Feed!New(f) /\ Feed!RulesParse(f)
             mark == Feed!FeatureStands(f) /\ Feed!New(f)
  <2> SUFFICES ASSUME ~Feed!LoopRaises  PROVE FeedInv'
    BY LoopRaisesKeeps
  <2>1. f \in AnyRecord /\ connector = "geojson" /\ Feed!Loop(f, keep, mark)
    BY <1>3 DEF AnyRecord, Feed!ReadFeature
  <2>2. connector' = connector
    BY <2>1 DEF Feed!Loop
  <2>3. Feed!Valid(f) <=> Feed!FeatureStands(f) /\ Feed!RulesParse(f)
    BY <2>1 DEF Feed!Valid
  <2>4. /\ keep \in BOOLEAN /\ mark \in BOOLEAN
        /\ keep <=> Feed!Valid(f) /\ Feed!New(f)
        /\ keep => mark
        /\ mark => Feed!New(f)
        /\ Feed!Valid(f) /\ ~keep => ~Feed!New(f)
        /\ mark /\ ~keep => Feed!FeatureStands(f) /\ ~Feed!RulesParse(f)
    BY <2>3
  <2> HIDE DEF keep, mark
  <2> QED
    BY <2>1, <2>2, <2>4, LoopKeeps
<1>4. ASSUME NEW f \in FacilityRows, Feed!ReadRow(f)  PROVE FeedInv'
  <2> DEFINE keep == Feed!FacilityStands(f) /\ Feed!New(f)
  <2> SUFFICES ASSUME ~Feed!LoopRaises  PROVE FeedInv'
    BY LoopRaisesKeeps
  <2>1. f \in AnyRecord /\ connector = "csv" /\ Feed!Loop(f, keep, keep)
    BY <1>4 DEF AnyRecord, Feed!ReadRow
  <2>2. connector' = connector
    BY <2>1 DEF Feed!Loop
  <2>3. Feed!Valid(f) <=> Feed!FacilityStands(f)
    BY <2>1 DEF Feed!Valid
  <2>4. /\ keep \in BOOLEAN
        /\ keep <=> Feed!Valid(f) /\ Feed!New(f)
        /\ keep => Feed!New(f)
        /\ Feed!Valid(f) /\ ~keep => ~Feed!New(f)
    BY <2>3
  <2> HIDE DEF keep
  <2> QED
    BY <2>1, <2>2, <2>4, LoopKeeps
<1> QED
  BY <1>1, <1>2, <1>3, <1>4, ReturnKeeps DEF Feed!Next

\* Records of one id are fewer ids than records.
LEMMA FewerIds ==
    ASSUME NEW n \in Nat, NEW f, NEW i \in 1..n, NEW j \in 1..n, i # j, f[i].external_id = f[j].external_id
    PROVE  Cardinality({f[k].external_id : k \in 1..n}) < n
<1> DEFINE others == (1..n) \ {i}
           ids == {f[k].external_id : k \in 1..n}
           g == [k \in others |-> f[k].external_id]
<1>1. IsFiniteSet(1..n) /\ Cardinality(1..n) = n
  <2>1. 1 \in Int /\ n \in Int
    OBVIOUS
  <2>2. IsFiniteSet(1..n) /\ Cardinality(1..n) = IF 1 > n THEN 0 ELSE n - 1 + 1
    BY <2>1, FS_Interval
  <2> QED
    BY <2>2
<1>2. IsFiniteSet(others) /\ Cardinality(others) = n - 1
  BY <1>1, FS_RemoveElement
<1>3. g \in Surjection(others, ids)
  <2>1. g \in [others -> ids]
    OBVIOUS
  <2>2. ASSUME NEW x \in ids  PROVE \E k \in others : g[k] = x
    <3>1. PICK k \in 1..n : x = f[k].external_id
      BY <2>2
    <3>2. CASE k # i
      BY <3>1, <3>2
    <3>3. CASE k = i
      <4>1. j \in others /\ g[j] = x
        BY <3>1, <3>3
      <4> QED
        BY <4>1
    <3> QED
      BY <3>2, <3>3
  <2> QED
    BY <2>1, <2>2 DEF Surjection
<1> HIDE DEF g, others, ids
<1>4. IsFiniteSet(ids) /\ Cardinality(ids) <= Cardinality(others)
  BY <1>2, <1>3, FS_Surjection
<1>5. Cardinality(ids) \in Nat
  BY <1>4, FS_CardinalityType
<1>6. Cardinality(ids) < n
  BY <1>2, <1>4, <1>5
<1> QED
  BY <1>6 DEF ids

LEMMA FeedMovesAlone == MunicipalSpec => Feed!Spec
<1>1. MunicipalInit => Feed!Init
  BY DEF MunicipalInit
<1>2. [MunicipalNext]_<<vars, feed, import, component>> => [Feed!Next]_Feed!vars
  BY DEF MunicipalNext, feed, Feed!vars
<1> QED
  BY <1>1, <1>2, PTL DEF MunicipalSpec, Feed!Spec

LEMMA FeedHolds == MunicipalSpec => []FeedInv
BY FeedMovesAlone, FeedInvInit, FeedInvKept, PTL DEF Feed!Spec

LEMMA FeedIsTyped == FeedInv => Feed!TypeOK
BY DEF FeedInv, FeedTypes, AnyRecord, Feed!TypeOK

LEMMA StatusTells ==
    ASSUME FeedInv, at = "done", rejected # <<-1>>
    PROVE  /\ (\A i \in DOMAIN records : ~Feed!Valid(records[i])) => Feed!Status = "rejected"
           /\ Feed!Status = "committed" <=>
                 /\ records # <<>> /\ \A i \in DOMAIN records : Feed!Valid(records[i])
                 /\ Cardinality({r.external_id : r \in Feed!Elements(records)}) = Len(records)
<1>1. PICK n \in Nat : n = Len(records)
  BY DEF FeedInv, FeedTypes
<1>2. /\ records \in Seq(AnyRecord) /\ accepted \in Seq(Nat) /\ rejected \in Seq(Nat \cup {-1})
      /\ DOMAIN records = 1..n
  BY <1>1 DEF FeedInv, FeedTypes
<1>3. /\ Feed!Elements(accepted) \cup Feed!Elements(rejected) = 0..n - 1
      /\ Feed!Elements(accepted) \cap Feed!Elements(rejected) = {}
      /\ Len(accepted) + Len(rejected) = n
  BY <1>1 DEF FeedInv, Parted
<1>4. \A i \in Feed!Elements(accepted) : Feed!Valid(records[i + 1]) /\ i + 1 \in 1..n
  BY <1>3 DEF FeedInv, AcceptedInv
<1>5. accepted # <<>> => accepted[1] \in Feed!Elements(accepted)
  BY <1>2 DEF Feed!Elements
<1>6. rejected # <<>> => rejected[1] \in Feed!Elements(rejected)
  BY <1>2 DEF Feed!Elements
<1>7. ASSUME \A i \in DOMAIN records : ~Feed!Valid(records[i])  PROVE Feed!Status = "rejected"
  <2>1. accepted = <<>>
    BY <1>2, <1>4, <1>5, <1>7
  <2> QED
    BY <2>1 DEF Feed!Status
<1> DEFINE ids == {records[k].external_id : k \in 1..n}
<1>8. ids = {r.external_id : r \in Feed!Elements(records)}
  BY <1>2 DEF Feed!Elements
<1>9. ASSUME Feed!Status = "committed"
      PROVE  /\ records # <<>> /\ \A i \in DOMAIN records : Feed!Valid(records[i])
             /\ Cardinality(ids) = Len(records)
  <2>1. accepted # <<>> /\ rejected = <<>>
    BY <1>9 DEF Feed!Status
  <2>2. Feed!Elements(accepted) = 0..n - 1 /\ Len(accepted) = n
    <3>1. Len(rejected) = 0 /\ Len(accepted) \in Nat
      BY <1>2, <2>1
    <3>2. Feed!Elements(rejected) = {}
      BY <2>1, NoElements
    <3>3. Feed!Elements(accepted) = 0..n - 1
      BY <1>3, <3>2
    <3>4. Len(accepted) = n
      BY <1>3, <3>1
    <3> QED
      BY <3>3, <3>4
  <2>3. \A i \in 1..n : i - 1 \in 0..n - 1 /\ (i - 1) + 1 = i
    OBVIOUS
  <2>4. \A i \in 1..n : Feed!Valid(records[i])
    BY <1>4, <2>2, <2>3
  <2>5. Feed!AcceptedIds = ids
    <3>1. Feed!AcceptedIds = {records[i + 1].external_id : i \in 0..n - 1}
      BY <2>2 DEF Feed!AcceptedIds
    <3>2. \A i \in 0..n - 1 : i + 1 \in 1..n
      OBVIOUS
    <3> QED
      BY <2>3, <3>1, <3>2
  <2>6. Cardinality(Feed!AcceptedIds) = Len(accepted)
    BY DEF FeedInv, AcceptedInv
  <2>7. records # <<>>
    <3>1. 1 <= n
      BY <1>2, <2>1, <2>2
    <3> QED
      BY <1>1, <3>1
  <2> QED
    BY <1>1, <1>2, <2>2, <2>4, <2>5, <2>6, <2>7
<1>10. ASSUME records # <<>>, \A i \in DOMAIN records : Feed!Valid(records[i]), Cardinality(ids) = Len(records)
       PROVE  Feed!Status = "committed"
  <2>1. ASSUME rejected # <<>>  PROVE FALSE
    <3>1. PICK i \in 0..n - 1 : i = rejected[1] /\ i \notin Feed!Elements(accepted)
      BY <1>3, <1>6, <2>1
    <3>2. i + 1 \in 1..n /\ (i + 1) - 1 = i
      OBVIOUS
    <3>3. PICK j \in 1..(i + 1) - 1 : records[j].external_id = records[i + 1].external_id
      BY <1>1, <1>2, <1>10, <3>1, <3>2 DEF FeedInv, LeftOut
    <3>4. j \in 1..n /\ j # i + 1
      BY <3>2, <3>3
    <3>5. Cardinality(ids) < n
      BY <3>2, <3>3, <3>4, FewerIds
    <3>6. Cardinality(ids) = n
      BY <1>1, <1>10
    <3> HIDE DEF ids
    <3> QED
      BY <3>5, <3>6
  <2>2. accepted # <<>>
    <3>1. n # 0
      BY <1>1, <1>2, <1>10
    <3> QED
      BY <1>3, <2>1, <3>1
  <2> QED
    BY <2>1, <2>2 DEF Feed!Status
<1> HIDE DEF ids
<1> QED
  BY <1>7, <1>8, <1>9, <1>10

\* docs/phase-16:52: what a batch says of its feed - accepted, rejected, its status - is what the
\* feed was, record by record, for feeds of any length and any records.
THEOREM FeedsAreAccounted == MunicipalSpec => []FeedIsAccounted
<1> SUFFICES FeedInv => Feed!FeedIsAccounted
  BY FeedHolds, PTL DEF FeedIsAccounted
<1> SUFFICES ASSUME FeedInv  PROVE Feed!FeedIsAccounted
  OBVIOUS
<1>1. Feed!EveryRecordCounted
  <2>1. CASE rejected = <<-1>>
    <3>1. at = "done" /\ count = 1 /\ accepted = <<>>
      BY <2>1 DEF FeedInv, Refused, NothingRead
    <3> QED
      BY <2>1, <3>1 DEF Feed!EveryRecordCounted
  <2>2. CASE rejected # <<-1>>
    BY <2>2 DEF FeedInv, Parted, Feed!EveryRecordCounted
  <2> QED
    BY <2>1, <2>2
<1>2. Feed!AcceptedAreValidAndDistinct
  <2>1. Feed!Cardinality(Feed!AcceptedIds) = Cardinality(Feed!AcceptedIds)
    BY DEF Feed!Cardinality, Cardinality
  <2> QED
    BY <2>1 DEF FeedInv, AcceptedInv, Feed!AcceptedAreValidAndDistinct
<1>3. Feed!ValidRecordsAreKept
  <2>1. DOMAIN records = 1..Len(records)
    BY DEF FeedInv, FeedTypes
  <2> QED
    BY <2>1 DEF FeedInv, LeftOut, Marks, Feed!ValidRecordsAreKept
<1>4. Feed!StatusTellsTheFeed
  <2> DEFINE ids == {r.external_id : r \in Feed!Elements(records)}
  <2>1. Feed!Cardinality(ids) = Cardinality(ids)
    BY DEF Feed!Cardinality, Cardinality
  <2> QED
    BY <2>1, StatusTells DEF Feed!StatusTellsTheFeed
<1> QED
  BY <1>1, <1>2, <1>3, <1>4 DEF Feed!FeedIsAccounted

-------------------------------------------------------------------------------
(* Imports: the theorem *)

LEMMA ImportsMoveAlone == MunicipalSpec => Imports!Spec
<1>1. MunicipalInit => Imports!Init
  BY DEF MunicipalInit
<1>2. [MunicipalNext]_<<vars, feed, import, component>> => [Imports!Next]_Imports!vars
  BY DEF MunicipalNext, import, Imports!vars
<1> QED
  BY <1>1, <1>2, PTL DEF MunicipalSpec, Imports!Spec

LEMMA ImportsHold == MunicipalSpec => []ImportInv
BY ImportsMoveAlone, ImportInvInit, ImportInvKept, PTL DEF Imports!Spec

LEMMA ImportsAreTyped == ImportInv => Imports!TypeOK
BY DEF ImportInv, ImportTypes, ImportTx, Imports!TypeOK

\* docs/phase-16:15: a feed has one batch although any number of imports of it overlap, and a record
\* is what the last committed import that carries it says; everything keeps its type.
THEOREM ImportsAlwaysIdempotent == MunicipalSpec => []ImportsAreIdempotent
<1>1. ImportInv => Imports!ImportsAreIdempotent
  <2> SUFFICES ASSUME ImportInv  PROVE Imports!OneBatchPerFeed /\ Imports!RecordsFollowLastImport
    BY DEF Imports!ImportsAreIdempotent
  <2>1. Imports!Cardinality(Imports!Committed) = Cardinality(Imports!Committed)
    BY DEF Imports!Cardinality, Cardinality
  <2>2. Imports!OneBatchPerFeed
    BY <2>1 DEF ImportInv, BatchesCounted, Imports!OneBatchPerFeed
  <2> QED
    BY <2>2, RowsAreRecords DEF ImportInv
<1>2. DecisionInv /\ FeedInv /\ ImportInv => ImportsAreIdempotent
  BY <1>1, DecisionIsTyped, FeedIsTyped, ImportsAreTyped DEF ImportsAreIdempotent, MunicipalTypeOK
<1> QED
  BY <1>2, DecisionHolds, FeedHolds, ImportsHold, PTL

-------------------------------------------------------------------------------
(* The committed tables implement the log of imports *)

LEMMA EmptyLog == Imports!Init => Log!Init
BY DEF Imports!Init, Imports!Absent, Log!Init, Log!Unknown

\* A source is added by the one statement that commits it.
LEMMA SourceIsAdded ==
    ASSUME NEW s \in Source, NEW official \in BOOLEAN, NEW licensed, Imports!CreateSource(s, official, licensed)
    PROVE  Log!Next
<1>1. Imports!Provenance(official) \in {"official", "estimated"}
  BY DEF Imports!Provenance
<1>2. Log!AddSource(s, Imports!Provenance(official))
  BY DEF Imports!CreateSource, Log!AddSource
<1> QED
  BY <1>1, <1>2 DEF Log!Next

\* The commit of an import of a new feed is the import of the log: the request upserted every
\* record of the feed (Importing), and no other import of it can have committed (KeysAreApart).
LEMMA CommitIsImport ==
    ASSUME ImportInv, NEW q \in Importer, Imports!CommitImport(q), ~importing[q].existing
    PROVE  Log!Next
<1> DEFINE d == importing[q]
           s == d.source
           p == d.payload
<1>1. /\ d \in ImportTx /\ d.at = "audited" /\ s \in Source /\ p \in Payload /\ sources[s] # "absent"
      /\ d.done = Len(Accepted[p]) /\ Accepted[p] \in Seq(Record) /\ HoldsKey(d)
  BY AcceptedShapes DEF ImportInv, ImportTypes, Importing, HoldsKey, Imports!CommitImport
<1>2. /\ batches' = Append(batches, <<s, p>>)
      /\ quarantine' = quarantine \cup {<<s, p, i>> : i \in 1..Quarantined[p]}
      /\ rows' = [k \in Source \X Record |-> IF k[1] = s /\ k[2] \in Imports!Upserted(q)
                                              THEN Imports!Written(k[1], k[2], p) ELSE rows[k]]
      /\ sources' = sources
  BY DEF Imports!CommitImport, Imports!Batch
<1>3. ~Log!Imported(s, p)
  <2>1. Key(d) \notin Imports!Committed
    BY <1>1 DEF ImportInv, KeysAreApart
  <2> QED
    BY <2>1 DEF Key, Imports!Committed, Log!Imported
<1>4. Imports!Upserted(q) = Log!Carried(p)
  <2>1. Imports!Upserted(q) = {Accepted[p][i] : i \in 1..Len(Accepted[p])}
    BY <1>1 DEF Imports!Upserted
  <2>2. DOMAIN Accepted[p] = 1..Len(Accepted[p])
    BY <1>1
  <2> QED
    BY <2>1, <2>2 DEF Log!Carried
<1>5. rows' = [k \in Source \X Record |-> IF k[1] = s /\ k[2] \in Log!Carried(p)
                                           THEN [payload |-> p, provenance |-> sources[s]] ELSE rows[k]]
  BY <1>2, <1>4 DEF Imports!Written
<1>6. Log!Import(s, p)
  BY <1>1, <1>2, <1>3, <1>5 DEF Log!Import
<1> QED
  BY <1>1, <1>6 DEF Log!Next

\* Every other step of an import leaves the committed tables alone.
LEMMA OthersStutter ==
    ASSUME NEW q \in Importer,
           \/ \E s \in Source, p \in Payload : Imports!ImportPayload(q, s, p)
           \/ Imports!InsertBatch(q) \/ Imports!InsertRaises(q) \/ Imports!Upsert(q) \/ Imports!Audit(q)
           \/ Imports!DeadlockAbort(q) \/ Imports!Rollback(q)
           \/ Imports!CommitImport(q) /\ importing[q].existing
    PROVE  UNCHANGED Log!imports
BY DEF Imports!ImportPayload, Imports!InsertBatch, Imports!InsertRaises, Imports!Upsert, Imports!Audit,
       Imports!DeadlockAbort, Imports!Rollback, Imports!CommitImport, Imports!NothingCommitted, Log!imports

\* docs/phase-16:15-16: whatever requests overlap, fail or deadlock, the tables of PostgreSQL
\* show a sequence of whole imports, each of a feed that was not there
\* (sql_repository.commit_import, service.import_payload).
THEOREM ImportsAreSerial == MunicipalSpec => ImplementsImportLog
<1>1. ImportInv /\ [Imports!Next]_Imports!vars => [Log!Next]_Log!imports
  <2> SUFFICES ASSUME ImportInv, [Imports!Next]_Imports!vars  PROVE [Log!Next]_Log!imports
    OBVIOUS
  <2>1. CASE UNCHANGED Imports!vars
    BY <2>1 DEF Imports!vars, Log!imports
  <2>2. ASSUME NEW q \in Importer, Imports!CommitImport(q)  PROVE [Log!Next]_Log!imports
    BY <2>2, CommitIsImport, OthersStutter
  <2> QED
    BY <2>1, <2>2, SourceIsAdded, OthersStutter DEF Imports!Next, Imports!Advance
<1> QED
  BY <1>1, EmptyLog, ImportsMoveAlone, ImportsHold, PTL DEF Imports!Spec, ImplementsImportLog, Log!Spec

LEMMA LogIsTyped == Log!Spec => []Log!TypeOK
<1>1. Log!Init => Log!TypeOK
  BY DEF Log!Init, Log!TypeOK
<1>2. Log!TypeOK /\ [Log!Next]_Log!imports => Log!TypeOK'
  <2> SUFFICES ASSUME Log!TypeOK, [Log!Next]_Log!imports  PROVE Log!TypeOK'
    OBVIOUS
  <2>1. CASE UNCHANGED Log!imports
    BY <2>1 DEF Log!imports, Log!TypeOK, Log!Unknown
  <2>2. ASSUME NEW s \in Source, NEW x \in {"official", "estimated"}, Log!AddSource(s, x)  PROVE Log!TypeOK'
    BY <2>2 DEF Log!AddSource, Log!TypeOK, Log!Unknown
  <2>3. ASSUME NEW s \in Source, NEW p \in Payload, Log!Import(s, p)  PROVE Log!TypeOK'
    <3>1. sources[s] \in {"official", "estimated"} /\ batches' \in Seq(Source \X Payload)
      BY <2>3 DEF Log!Import, Log!TypeOK
    <3> QED
      BY <2>3, <3>1 DEF Log!Import, Log!TypeOK, Log!Unknown
  <2> QED
    BY <2>1, <2>2, <2>3 DEF Log!Next
<1> QED
  BY <1>1, <1>2, PTL DEF Log!Spec

\* docs/phase-16:28: batches are immutable, and a record is replaced by an import that carries
\* it and by nothing else; the tables inherit it from the log (sql_repository.commit_import).
THEOREM HistoryAlwaysStands == MunicipalSpec => Log!HistoryStands
<1> DEFINE Stands ==
           /\ \A i \in DOMAIN batches : i \in DOMAIN batches' /\ batches'[i] = batches[i]
           /\ quarantine \subseteq quarantine'
           /\ \A k \in Source \X Record : rows'[k] # rows[k] =>
                  \E p \in Payload : batches' = Append(batches, <<k[1], p>>) /\ k[2] \in Log!Carried(p)
           /\ \A s \in Source : sources[s] # "absent" => sources'[s] = sources[s]
<1>1. ASSUME Log!TypeOK, NEW s \in Source, NEW x, Log!AddSource(s, x)  PROVE Stands
  BY <1>1 DEF Log!AddSource, Log!TypeOK
<1>2. ASSUME Log!TypeOK, NEW s \in Source, NEW p \in Payload, Log!Import(s, p)  PROVE Stands
  <2>1. \A i \in DOMAIN batches : i \in DOMAIN batches' /\ batches'[i] = batches[i]
    BY <1>2 DEF Log!Import, Log!TypeOK
  <2>2. ASSUME NEW k \in Source \X Record, rows'[k] # rows[k]  PROVE k[1] = s /\ k[2] \in Log!Carried(p)
    BY <1>2, <2>2 DEF Log!Import
  <2> QED
    BY <1>2, <2>1, <2>2 DEF Log!Import
<1>3. Log!TypeOK /\ [Log!Next]_Log!imports => [Stands]_Log!imports
  BY <1>1, <1>2 DEF Log!Next
<1>4. Log!Spec => Log!HistoryStands
  BY <1>3, LogIsTyped, PTL DEF Log!Spec, Log!HistoryStands
<1> QED
  BY <1>4, ImportsAreSerial DEF ImplementsImportLog
===============================================================================
