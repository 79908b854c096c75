------------------------------ MODULE Connectors ------------------------------
(***************************************************************************)
(* The two connectors that normalise an uploaded municipal feed: the loop  *)
(* over GeoJSON parking zones and the loop over CSV parking facilities,    *)
(* record by record, with what makes either refuse the whole feed.  Texts  *)
(* are modelled by whether they meet their length and URL rules, times by  *)
(* a number and whether they carry a timezone.                             *)
(***************************************************************************)
EXTENDS Integers, Sequences, FiniteSets

CONSTANTS Id,
          Features, FacilityRows,   \* bound: the records a feed may hold
          MAX_RECORDS, None

FeedShapes == MAX_RECORDS \in Nat /\ \A r \in Features \cup FacilityRows : r.external_id \in Id

VARIABLES
    connector,   \* "geojson" or "csv"
    at,          \* "payload", "records", "done", or "raised"
    records,     \* the records read so far
    seen,        \* the loop's set of ids
    accepted,    \* indexes of the accepted records, in order
    rejected,    \* indexes of the rejected ones; -1 is the feed itself
    count        \* NormalizedImport.input_count

vars == <<connector, at, records, seen, accepted, rejected, count>>

-------------------------------------------------------------------------------
(* The contract of a record *)

\* _aware_timestamps
aware_timestamps(observed, expires) ==
    /\ observed.aware /\ (expires # None => expires.aware)
    /\ expires # None => expires.moment > observed.moment

\* _validate_polygon
validate_polygon(rings) ==
    /\ rings # <<>>
    /\ \A i \in DOMAIN rings :
        LET ring == rings[i]
        IN  /\ Len(ring) >= 4 /\ ring[1] = ring[Len(ring)]
            /\ \A j \in DOMAIN ring : /\ Len(ring[j]) = 2
                                      /\ ring[j][1] \in -180..180 /\ ring[j][2] \in -90..90

\* _temporal_rule: the fields parse, there are weekdays, and the validity has a timezone.
temporal_rule(rule) ==
    /\ ~rule.overflows /\ rule.parses
    /\ rule.weekdays # {} /\ rule.weekdays \subseteq 0..6
    /\ rule.valid_from.aware /\ (rule.valid_until # None => rule.valid_until.aware)

\* ZoneFeature, its two types and what is checked before the id is marked as seen.
FeatureStands(f) ==
    /\ f.typed /\ f.geometry = "Polygon" /\ validate_polygon(f.rings)
    /\ aware_timestamps(f.observed_at, f.expires_at)
RulesParse(f) == \A i \in DOMAIN f.temporal_rules : temporal_rule(f.temporal_rules[i])

\* int() of an infinite weekday raises OverflowError, which is none of the errors caught;
\* the rules are parsed in order, and an earlier one that is wrong rejects the record.
RulesRaise(f) ==
    \E i \in DOMAIN f.temporal_rules :
        f.temporal_rules[i].overflows /\ \A j \in 1..i - 1 : temporal_rule(f.temporal_rules[j])

Within(value, low, high) == value # None /\ value \in low..high
Optional(value, low, high) == value = None \/ value \in low..high

\* _row
FacilityStands(row) ==
    /\ row.texts   \* external_id, name, address and an HTTPS navigation_url
    /\ Within(row.latitude, -90, 90) /\ Within(row.longitude, -180, 180)
    /\ Within(row.safety_score, 0, 100) /\ Within(row.towing_incidents_per_1000, 0, 1000)
    /\ row.observed_at # None /\ aware_timestamps(row.observed_at, row.expires_at)
    /\ Optional(row.hourly_price_cents, 0, 1000000) /\ Optional(row.rating, 0, 5)
    /\ Optional(row.capacity, 0, 1000000) /\ Optional(row.available_spaces, 0, 1000000)
    /\ row.available_spaces = None \/ row.capacity = None \/ row.available_spaces <= row.capacity

Valid(r) == IF connector = "geojson" THEN FeatureStands(r) /\ RulesParse(r) ELSE FacilityStands(r)

-------------------------------------------------------------------------------
Init ==
    /\ connector \in {"geojson", "csv"}
    /\ at = "payload"
    /\ records = <<>> /\ seen = {} /\ accepted = <<>> /\ rejected = <<>> /\ count = 0

\* Not UTF-8, not JSON, no FeatureCollection or missing columns: one rejection, at -1.
RejectPayload ==
    /\ at = "payload"
    /\ at' = "done" /\ rejected' = <<-1>> /\ count' = 1
    /\ UNCHANGED <<connector, records, seen, accepted>>

\* The reader raises what nothing catches: csv.Error on a field above its size limit;
\* json.loads RecursionError on deep nesting, ValueError on an integer too long to convert.
ReaderRaises ==
    /\ at = "payload"
    /\ at' = "raised"
    /\ UNCHANGED <<connector, records, seen, accepted, rejected, count>>

\* n records; more than MAX_RECORDS reject the feed.
OpenFeed(n) ==
    /\ at = "payload"
    /\ IF n <= MAX_RECORDS
       THEN at' = "records" /\ count' = n /\ UNCHANGED rejected
       ELSE at' = "done" /\ count' = 1 /\ rejected' = <<-1>>
    /\ UNCHANGED <<connector, records, seen, accepted>>

\* The loop body: what it keeps and what it marks as seen.
Loop(r, keep, mark) ==
    /\ at = "records" /\ Len(records) < count
    /\ records' = Append(records, r)
    /\ seen' = IF mark THEN seen \cup {r.external_id} ELSE seen
    /\ accepted' = IF keep THEN Append(accepted, Len(records)) ELSE accepted
    /\ rejected' = IF keep THEN rejected ELSE Append(rejected, Len(records))
    /\ UNCHANGED <<connector, at, count>>

\* An error that the loop does not catch leaves it, and with it the request.
LoopRaises ==
    /\ at = "records" /\ Len(records) < count
    /\ at' = "raised"
    /\ UNCHANGED <<connector, records, seen, accepted, rejected, count>>

New(r) == r.external_id \notin seen

\* GeoJsonParkingZoneConnector.parse: the id is seen before the rules are parsed.
ReadFeature(f) ==
    /\ connector = "geojson"
    /\ IF FeatureStands(f) /\ New(f) /\ RulesRaise(f)
       THEN LoopRaises
       ELSE Loop(f, FeatureStands(f) /\ New(f) /\ RulesParse(f), FeatureStands(f) /\ New(f))

\* Mutant of ReadRow: the id is seen before the row is validated.
ReadRowMarksFirst(row) ==
    /\ connector = "csv"
    /\ Loop(row, New(row) /\ FacilityStands(row), TRUE)

\* CsvParkingFacilityConnector.parse: the id is seen after the whole row is valid.  A row of
\* more cells than columns keeps the surplus under the key None; rejecting it raises
\* TypeError, for json.dumps cannot sort None among the names of the columns.
ReadRow(row) ==
    LET stands == FacilityStands(row) /\ New(row) IN
    /\ connector = "csv"
    /\ IF row.surplus /\ ~stands THEN LoopRaises ELSE Loop(row, stands, stands)

Return ==
    /\ at = "records" /\ Len(records) = count
    /\ at' = "done"
    /\ UNCHANGED <<connector, records, seen, accepted, rejected, count>>

Next ==
    \/ RejectPayload
    \/ ReaderRaises
    \/ \E n \in 0..MAX_RECORDS + 1 : OpenFeed(n)
    \/ \E f \in Features : ReadFeature(f)
    \/ \E row \in FacilityRows : ReadRow(row)
    \/ Return

Spec == Init /\ [][Next]_vars

\* MunicipalIngestionService.import_payload
Status ==
    IF accepted = <<>> THEN "rejected" ELSE IF rejected # <<>> THEN "partial" ELSE "committed"

-------------------------------------------------------------------------------
(* Properties *)

Elements(s) == {s[i] : i \in DOMAIN s}
AcceptedIds == {records[i + 1].external_id : i \in Elements(accepted)}

\* Every variable has its type.
TypeOK ==
    /\ at \in {"payload", "records", "done", "raised"} /\ connector \in {"geojson", "csv"}
    /\ records \in Seq(Features \cup FacilityRows) /\ seen \subseteq Id
    /\ accepted \in Seq(Nat) /\ rejected \in Seq(Nat \cup {-1}) /\ count \in 0..MAX_RECORDS \cup {1}

\* Each record read is accepted or rejected, once; and the counts of a finished feed add
\* up, which the table's check constraint demands of a batch.
EveryRecordCounted ==
    /\ rejected # <<-1>> => /\ Elements(accepted) \cup Elements(rejected) = 0..Len(records) - 1
                            /\ Len(accepted) + Len(rejected) = Len(records)
    /\ at = "done" => Len(accepted) + Len(rejected) = count

\* Accepted records are valid to the last rule and have distinct ids: the upserts of one
\* import never meet twice at a row.
AcceptedAreValidAndDistinct ==
    /\ \A i \in Elements(accepted) : Valid(records[i + 1])
    /\ Cardinality(AcceptedIds) = Len(accepted)

\* A valid record is left out only for an earlier record of its id that was accepted or,
\* in a GeoJSON feed, one whose temporal rules alone were wrong.
ValidRecordsAreKept ==
    \A i \in DOMAIN records : Valid(records[i]) /\ i - 1 \notin Elements(accepted) =>
        \E j \in 1..i - 1 :
            /\ records[j].external_id = records[i].external_id
            /\ \/ j - 1 \in Elements(accepted)
               \/ connector = "geojson" /\ FeatureStands(records[j]) /\ ~RulesParse(records[j])

\* docs/phase-16:52: "An entirely invalid feed is stored as a rejected batch; a mixed feed
\* is partial; a fully valid feed is committed."
StatusTellsTheFeed ==
    at = "done" /\ rejected # <<-1>> =>
        /\ (\A i \in DOMAIN records : ~Valid(records[i])) => Status = "rejected"
        /\ Status = "committed" <=>
              /\ records # <<>> /\ \A i \in DOMAIN records : Valid(records[i])
              /\ Cardinality({r.external_id : r \in Elements(records)}) = Len(records)

\* docs/phase-16:52: what a batch says of its feed is what the feed was.
FeedIsAccounted ==
    EveryRecordCounted /\ AcceptedAreValidAndDistinct /\ ValidRecordsAreKept /\ StatusTellsTheFeed

\* The same line: no feed, however invalid or mixed, ends the request with an error instead.
InvalidFeedsAreStored == at # "raised"
===============================================================================
