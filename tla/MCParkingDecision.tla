-------------------------- MODULE MCParkingDecision --------------------------
(* Instances of ParkingDecision for TLC: see the .cfg files for the bounds. *)
EXTENDS ParkingDecision, TLC

\* Monday 07:58 and 08:00 UTC, which in Los Angeles (UTC-8) is Sunday 23:58 and Monday
\* 00:00; and Monday 23:30.
SomeTimes == {478, 480, 1410}
SomeOffsets == [utc |-> 0, los_angeles |-> -480]
SomeImproperKeys == {"", "../utc"}

W(s, e) == [starts_at |-> s, ends_at |-> e, aware |-> FALSE]
Rule(effect, window) ==
    [effect |-> effect, weekdays |-> {0}, window |-> window, timezone |-> "utc", valid_from |-> 0,
     valid_until |-> 2000, exception_dates |-> {}, not_applicable_windows |-> {}]

Plain == [id |-> 1, zone_type |-> "general", parking_score |-> 75, provenance |-> "official",
          confidence |-> 100, towing_hotspot |-> FALSE, expires_at |-> Never,
          temporal_rules |-> {}, temporal_schedule_required |-> FALSE]
With(rules) == [Plain EXCEPT !.temporal_rules = rules]

Morning == Rule("PARK", W(420, 480))
Overnight == Rule("CAUTION", W(1380, 479))
AllDay == Rule("DO_NOT_PARK", W(0, 1439))

StaticZones ==
    {[Plain EXCEPT !.expires_at = 480], [Plain EXCEPT !.parking_score = 74],
     [Plain EXCEPT !.id = 2, !.provenance = "community_verified", !.parking_score = 10],
     [Plain EXCEPT !.id = 2, !.confidence = 50],
     [Plain EXCEPT !.zone_type = "resident_only"], [Plain EXCEPT !.towing_hotspot = TRUE],
     [Plain EXCEPT !.temporal_schedule_required = TRUE]}

TimedZones ==
    {With({Morning, Overnight}), With({Morning, [AllDay EXCEPT !.not_applicable_windows = {W(478, 1000)}]}),
     With({[Morning EXCEPT !.timezone = "mars"]}), With({[Overnight EXCEPT !.exception_dates = {0}]}),
     With({[Morning EXCEPT !.timezone = ""], [AllDay EXCEPT !.timezone = "mars"]}),
     With({[Overnight EXCEPT !.timezone = "los_angeles", !.weekdays = {6}], Rule("PARK", W(1000, 478))}),
     With({Morning, [Overnight EXCEPT !.valid_until = Never]}),
     With({[AllDay EXCEPT !.weekdays = {0, 6}, !.exception_dates = {-1}, !.timezone = "los_angeles"]}),
     [With({Morning}) EXCEPT !.zone_type = "private_property"],
     With({[Morning EXCEPT !.window.aware = TRUE]}),
     With({Morning, [AllDay EXCEPT !.not_applicable_windows = {W(500, 500)}]}),
     With({[Morning EXCEPT !.not_applicable_windows = {[W(1000, 470) EXCEPT !.aware = TRUE], W(479, 480)}]})}

SomeZones == StaticZones \cup TimedZones

Good == [location_consent |-> TRUE, accuracy_meters |-> 20, located_at |-> 478, has_resident_permit |-> FALSE]
SomeInputs ==
    {Good, [Good EXCEPT !.located_at = 1410, !.has_resident_permit = TRUE], [Good EXCEPT !.accuracy_meters = 21],
     [Good EXCEPT !.located_at = Naive], [Good EXCEPT !.location_consent = FALSE], [Good EXCEPT !.located_at = 481]}
===============================================================================
