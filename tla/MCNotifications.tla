---------------------------- MODULE MCNotifications ----------------------------
(* Instances of Notifications for TLC: see the .cfg files for the bounds. *)
EXTENDS Notifications, TLC

\* No coverage, a safe zone, and a zone that calls for a warning.
SomeZones == {NoZone, [score |-> 60, risk_level |-> "low"], [score |-> 59, risk_level |-> "high"]}

\* Alerts with pushes, without pushes, and no consent to background location; quiet
\* in the second hour of the clock.
SomeChoices ==
    {[alerts |-> TRUE, background |-> b, push |-> p, quiet_start |-> 23, quiet_end |-> 0, offset |-> 22] :
        b \in BOOLEAN, p \in {TRUE}}
    \cup {[Defaults EXCEPT !.alerts = TRUE, !.background = TRUE]}

Interchangeable == Permutations(Request) \cup Permutations(User)
===============================================================================
