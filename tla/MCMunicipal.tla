------------------------------ MODULE MCMunicipal ------------------------------
(***************************************************************************)
(* The way of municipal evidence, for TLC: a feed is read (Connectors),    *)
(* imported (Ingestion), and answers a driver (ParkingDecision).  Each     *)
(* stage takes the finished rows of the one before, which its bounds       *)
(* enumerate, so a behaviour moves one of them.                            *)
(***************************************************************************)
EXTENDS MCParkingDecision

CONSTANTS Id, Features, FacilityRows, MAX_RECORDS, None,
          a, b, c, r1, r2, Source, Payload, Record, Importer, Accepted, Quarantined,
          MaxBatches, NoSource, NoPayload

VARIABLES component,
          connector, at, records, seen, accepted, rejected, count,
          sources, batches, quarantine, rows, importing, refused

-------------------------------------------------------------------------------
(* Records of uploaded feeds: valid ones, and one for every rule they can break. *)

Zoned(moment) == [moment |-> moment, aware |-> TRUE]
Unzoned(moment) == [moment |-> moment, aware |-> FALSE]
Square == <<<<0, 0>>, <<180, 0>>, <<180, 90>>, <<0, 0>>>>
Season == [parses |-> TRUE, overflows |-> FALSE, weekdays |-> {0, 6}, valid_from |-> Zoned(0), valid_until |-> None]

Feature(id) == [external_id |-> id, typed |-> TRUE, geometry |-> "Polygon", rings |-> <<Square>>,
                observed_at |-> Zoned(1), expires_at |-> None, temporal_rules |-> <<Season>>]

\* Every way a feature can fail, for one id; and a valid feature of each id.
FeaturesOf(ids) ==
    {Feature(id) : id \in ids} \cup
    UNION {{[Feature(id) EXCEPT !.temporal_rules = <<Season, [Season EXCEPT !.weekdays = {7}]>>],
            [Feature(id) EXCEPT !.temporal_rules = <<[Season EXCEPT !.valid_until = Unzoned(9)]>>],
            [Feature(id) EXCEPT !.temporal_rules = <<[Season EXCEPT !.overflows = TRUE], [Season EXCEPT !.parses = FALSE]>>],
            [Feature(id) EXCEPT !.rings = <<Square, <<<<0, 0>>, <<1, 1>>, <<0, 0>>>>>>],
            [Feature(id) EXCEPT !.rings = <<[Square EXCEPT ![2] = <<181, 0>>]>>],
            [Feature(id) EXCEPT !.expires_at = Zoned(1)],
            [Feature(id) EXCEPT !.geometry = "Point"]} : id \in {CHOOSE i \in ids : TRUE}}

Facility(id) ==
    [external_id |-> id, texts |-> TRUE, latitude |-> 90, longitude |-> -180, safety_score |-> 100,
     towing_incidents_per_1000 |-> 0, observed_at |-> Zoned(1), expires_at |-> Zoned(2),
     hourly_price_cents |-> None, rating |-> 5, capacity |-> 3, available_spaces |-> 3,
     surplus |-> FALSE]

FacilitiesOf(ids) ==
    {Facility(id) : id \in ids} \cup
    UNION {{[Facility(id) EXCEPT !.available_spaces = 4], [Facility(id) EXCEPT !.safety_score = 101],
            [Facility(id) EXCEPT !.observed_at = Unzoned(1)], [Facility(id) EXCEPT !.latitude = None],
            [Facility(id) EXCEPT !.capacity = None], [Facility(id) EXCEPT !.surplus = TRUE],
            [Facility(id) EXCEPT !.surplus = TRUE, !.safety_score = 101]} : id \in {CHOOSE i \in ids : TRUE}}

SomeFeatures == FeaturesOf(Id)
SomeFacilities == FacilitiesOf(Id)

\* Two feeds that carry the same records in opposite orders; and one that is
\* rejected as a whole.
Feeds == a :> <<r1, r2>> @@ b :> <<r2, r1>> @@ c :> <<>>
Rejections == a :> 1 @@ b :> 0 @@ c :> 2

-------------------------------------------------------------------------------
Feed == INSTANCE Connectors
Imports == INSTANCE Ingestion WITH Request <- Importer, MaxImports <- MaxBatches,
                                  zones <- rows, tx <- importing

\* The tables of Ingestion as the log that its repository promises.
Log == INSTANCE ImportLog WITH log <- batches, evidence <- quarantine, records <- rows

feed == <<connector, at, records, seen, accepted, rejected, count>>
import == <<sources, batches, quarantine, rows, importing, refused>>

ASSUME MunicipalShapes == Feed!FeedShapes /\ Imports!IngestionShapes

MunicipalInit ==
    /\ component \in {"feed", "import", "decision"}
    /\ Init /\ Feed!Init /\ Imports!Init
    /\ component # "feed" => connector = "csv"
    /\ component # "decision" => now = CHOOSE t \in Times : TRUE

MunicipalNext ==
    /\ \/ component = "feed" /\ Feed!Next /\ UNCHANGED <<vars, import>>
       \/ component = "import" /\ Imports!Next /\ UNCHANGED <<vars, feed>>
       \/ component = "decision" /\ Next /\ UNCHANGED <<feed, import>>
    /\ UNCHANGED component

\* Ingestion!FairSpec: PostgreSQL serves its lock queues in order and ends deadlocks.
MunicipalSpec ==
    /\ MunicipalInit /\ [][MunicipalNext]_<<vars, feed, import, component>>
    /\ \A q \in Importer : SF_import(Imports!Advance(q))

\* Feeds, imports and answers have their types.
MunicipalTypeOK == TypeOK /\ Feed!TypeOK /\ Imports!TypeOK

\* docs/phase-16:52: what a batch says of its feed - accepted, rejected, its status - is
\* what the feed was, record by record.
FeedIsAccounted == Feed!FeedIsAccounted

\* docs/phase-16:15: a feed has one batch although imports of it overlap, and a record is
\* what the last committed import that carries it says.
ImportsAreIdempotent == MunicipalTypeOK /\ Imports!ImportsAreIdempotent

\* What is committed moves as on ImportLog: an import, spread over many statements beside
\* others, is seen at once or not at all, and a feed is imported once (docs/phase-16:15).
ImplementsImportLog == Log!Spec

\* docs/phase-16:52 and :15 say these two as well; the code does not keep them.
InvalidFeedsAreStored == Feed!InvalidFeedsAreStored
ReplaysReturnTheOriginal == Imports!ReplaysReturnTheOriginal

\* Every import ends, although two imports of the same records in different orders wait
\* for each other.
ImportsFinish == Imports!ImportsFinish
===============================================================================
