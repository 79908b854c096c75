------------------------------ MODULE AlertStream ------------------------------
(***************************************************************************)
(* Preventive alerts of the Flutter client: AlertsPage, which a sign-in    *)
(* builds and a sign-out disposes of at any await, its coordinator with    *)
(* the location stream and the stop detector, and the preferences the      *)
(* server keeps.  Requests fail or lose their answer, and the user changes *)
(* the permission at any time.                                             *)
(***************************************************************************)
EXTENDS Naturals, FiniteSets

CONSTANTS Page,        \* bound: how often AlertsPage is built
          MaxFaults,   \* bound: failed requests, lost answers, failures of the plugins
          MaxChanges,  \* bound: changes of the permission
          MaxStops     \* bound: parking stops

AlertShapes == MaxStops \in Nat

VARIABLES
    permission,   \* what the OS grants: "denied", "in_use" or "always"
    consent,      \* notification preferences of the account, on the server
    page,         \* where each page is, see Built
    live,         \* pages whose coordinator has a running stream
    armed,        \* streams whose detector saw the car drive
    evaluations,  \* requests in flight: the page and the stop they are about
    served,       \* history: how many evaluations of each stop reached the server
    stops, faults, changes,
    stray         \* history: pages a failure left with another stream than the preferences say

vars == <<permission, consent, page, live, armed, evaluations, served, stops, faults, changes, stray>>

Places == {"absent", "loading", "ready", "saving", "starting", "permitted", "cancelling",
           "listening", "rolling", "stopping"}
Built == [at |-> "loading", op |-> "load", enabled |-> FALSE, mounted |-> TRUE]

Init ==
    /\ permission \in {"denied", "in_use", "always"} /\ consent \in BOOLEAN
    /\ page = [p \in Page |-> [Built EXCEPT !.at = "absent", !.mounted = FALSE]]
    /\ live = {} /\ armed = {} /\ evaluations = {}
    /\ served = [s \in 1..MaxStops |-> 0]
    /\ stops = 0 /\ faults = 0 /\ changes = 0 /\ stray = {}

Fault == faults < MaxFaults /\ faults' = faults + 1
Goes(p, at) == page' = [page EXCEPT ![p].at = at]

UNCHANGED_STREAM == UNCHANGED <<live, armed, evaluations, served, stops>>

-------------------------------------------------------------------------------
(* The page *)

Build(p) ==
    /\ page[p].at = "absent" /\ \A q \in Page : ~page[q].mounted
    /\ page' = [page EXCEPT ![p] = Built]
    /\ UNCHANGED <<permission, consent, faults, changes, stray>> /\ UNCHANGED_STREAM

\* _load: the preferences are read, and alerts that are on resume.
Load(p) ==
    /\ page[p].at = "loading"
    /\ \/ /\ page[p].mounted
          /\ page' = [page EXCEPT ![p].enabled = consent,
                                  ![p].at = IF consent THEN "starting" ELSE "ready"]
          /\ UNCHANGED faults
       \/ (IF page[p].mounted THEN Fault ELSE UNCHANGED faults) /\ Goes(p, "ready")
    /\ UNCHANGED <<permission, consent, changes, stray>> /\ UNCHANGED_STREAM

\* The switch, and the button that saves the quiet hours: both wait while one is under way.
Toggle(p, on) ==
    /\ page[p].mounted /\ page[p].at = "ready"
    /\ page' = [page EXCEPT ![p].at = "saving", ![p].op = IF on THEN "on" ELSE "off"]
    /\ UNCHANGED <<permission, consent, faults, changes, stray>> /\ UNCHANGED_STREAM

\* updatePreferences: answered; or, when it fails or the client is closed, carried out or not.
Put(p, on, next, left) ==
    \/ /\ page[p].mounted /\ consent' = on /\ page' = next
       /\ stray' = (stray \ {p}) \cup left /\ UNCHANGED faults
    \/ /\ IF page[p].mounted THEN Fault ELSE UNCHANGED faults
       /\ consent' \in {consent, on} /\ Goes(p, "ready")
       /\ stray' = stray \cup {p} \cup {q \in Page : page[q].mounted}

Save(p) ==
    /\ page[p].at = "saving"
    /\ LET on == page[p].op = "on"
       IN Put(p, on, [page EXCEPT ![p].at = IF on THEN "starting" ELSE "stopping"], {})
    /\ UNCHANGED <<permission, changes>> /\ UNCHANGED_STREAM

\* A page that could not start undoes what it saved.
Rollback(p) ==
    /\ page[p].at = "rolling"
    /\ Put(p, FALSE, [page EXCEPT ![p].at = "ready", ![p].enabled = FALSE], live \cap {p})
    /\ UNCHANGED <<permission, changes>> /\ UNCHANGED_STREAM

\* Signing out removes the page: dispose stops the coordinator and closes the client.
Dispose(p) ==
    /\ page[p].mounted
    /\ page' = [page EXCEPT ![p].mounted = FALSE]
    /\ live' = live \ {p} /\ armed' = armed \ {p}
    /\ stray' = IF page[p].at = "ready" THEN stray ELSE stray \cup {p}
    /\ UNCHANGED <<permission, consent, evaluations, served, stops, faults, changes>>

-------------------------------------------------------------------------------
(* start and stop of the coordinator *)

\* Mutant of Refused: a start that is refused is reported, and the consent stays.
RefusedOnly(p) == Goes(p, "ready")

\* start returns false, and leaves a stream of before as it is.
Refused(p) == Goes(p, IF page[p].op = "load" THEN "ready" ELSE "rolling")

\* Location services may be off, whatever the permission.
ServicesOff(p) ==
    /\ page[p].at = "starting" /\ Refused(p)
    /\ UNCHANGED <<permission, consent, faults, changes, stray>> /\ UNCHANGED_STREAM

\* Only a denied permission is asked for.
Permit(p) ==
    /\ page[p].at = "starting"
    /\ permission' \in IF permission = "denied" THEN {"denied", "in_use", "always"} ELSE {permission}
    /\ IF permission' = "always" THEN Goes(p, "permitted") ELSE Refused(p)
    /\ UNCHANGED <<consent, faults, changes, stray>> /\ UNCHANGED_STREAM

\* A plugin - location, permission or notifier - raises: the page reports an error.
Raise(p) ==
    /\ page[p].at \in {"starting", "permitted"} /\ Fault
    /\ Goes(p, "ready") /\ stray' = stray \cup {p}
    /\ UNCHANGED <<permission, consent, changes>> /\ UNCHANGED_STREAM

Initialize(p) ==
    /\ page[p].at = "permitted" /\ Goes(p, "cancelling")
    /\ UNCHANGED <<permission, consent, faults, changes, stray>> /\ UNCHANGED_STREAM

CancelOld(p) ==
    /\ page[p].at = "cancelling" /\ Goes(p, "listening")
    /\ live' = live \ {p}
    /\ UNCHANGED <<permission, consent, armed, evaluations, served, stops, faults, changes, stray>>

\* The detector is reset, and the stream runs - also when the page is gone meanwhile.
Listen(p) ==
    /\ page[p].at = "listening"
    /\ page' = [page EXCEPT ![p].at = "ready", ![p].enabled = TRUE]
    /\ live' = live \cup {p} /\ armed' = armed \ {p}
    /\ UNCHANGED <<permission, consent, evaluations, served, stops, faults, changes, stray>>

Stop(p) ==
    /\ page[p].at = "stopping"
    /\ page' = [page EXCEPT ![p].at = "ready", ![p].enabled = FALSE]
    /\ live' = live \ {p} /\ armed' = armed \ {p}
    /\ UNCHANGED <<permission, consent, evaluations, served, stops, faults, changes, stray>>

-------------------------------------------------------------------------------
(* Positions, and the user *)

\* Every stream gets the positions of the one car.
Drive ==
    /\ permission # "denied" /\ live # {} /\ armed' = live
    /\ UNCHANGED <<permission, consent, page, live, evaluations, served, stops, faults, changes, stray>>

\* A stable cluster: a detector that is armed emits once, and its listener asks the server.
Park ==
    /\ permission # "denied" /\ live # {} /\ stops < MaxStops /\ stops' = stops + 1
    /\ evaluations' = evaluations \cup {[page |-> p, stop |-> stops'] : p \in armed}
    /\ armed' = {}
    /\ UNCHANGED <<permission, consent, page, live, served, faults, changes, stray>>

\* Mutant of Evaluate: the client outlives its page.
EvaluateAlways(e) ==
    /\ e \in evaluations /\ evaluations' = evaluations \ {e}
    /\ served' = [served EXCEPT ![e.stop] = @ + 1]
    /\ UNCHANGED <<permission, consent, page, live, armed, stops, faults, changes, stray>>

\* The request reaches the server, unless it fails or the page closed its client.
Evaluate(e) ==
    /\ e \in evaluations /\ evaluations' = evaluations \ {e}
    /\ \/ page[e.page].mounted /\ served' = [served EXCEPT ![e.stop] = @ + 1] /\ UNCHANGED faults
       \/ UNCHANGED served /\ IF page[e.page].mounted THEN Fault ELSE UNCHANGED faults
    /\ UNCHANGED <<permission, consent, page, live, armed, stops, changes, stray>>

\* In the settings of the device.
ChangePermission ==
    /\ changes < MaxChanges /\ changes' = changes + 1
    /\ permission' \in {"denied", "in_use", "always"} \ {permission}
    /\ UNCHANGED <<consent, page, faults, stray>> /\ UNCHANGED_STREAM

-------------------------------------------------------------------------------
Step(p) ==
    \/ Load(p) \/ Save(p) \/ Rollback(p) \/ ServicesOff(p) \/ Permit(p) \/ Raise(p) \/ Initialize(p)
    \/ CancelOld(p) \/ Listen(p) \/ Stop(p)

Next ==
    \/ \E p \in Page : Step(p) \/ Build(p) \/ Dispose(p) \/ \E on \in BOOLEAN : Toggle(p, on)
    \/ Drive \/ Park \/ ChangePermission
    \/ \E e \in evaluations : Evaluate(e)

Spec == Init /\ [][Next]_vars

-------------------------------------------------------------------------------
(* Properties *)

TypeOK ==
    /\ permission \in {"denied", "in_use", "always"} /\ consent \in BOOLEAN
    /\ page \in [Page -> [at : Places, op : {"load", "on", "off"}, enabled : BOOLEAN, mounted : BOOLEAN]]
    /\ live \subseteq Page /\ armed \subseteq Page
    /\ \A e \in evaluations : e.page \in Page /\ e.stop \in 1..stops
    /\ stray \subseteq Page

Settled == \A p \in Page : page[p].at \in {"absent", "ready"}

\* docs/phase-9:19 "Location monitoring starts only after the user enables the feature
\* ... Disabling alerts cancels the stream": at rest a stream runs for a page on the
\* screen whose switch is on, as the preferences say, and preferences without a stream
\* are rolled back - but for a page disposed of half-way, a page whose stream ran when a
\* start was refused, and failures.
StreamsAreExplained ==
    /\ TypeOK
    /\ \A p \in Page \ stray : page[p].at = "ready" =>
            /\ p \in live => page[p].mounted /\ page[p].enabled /\ consent
            /\ page[p].mounted /\ page[p].op # "load" => (consent <=> p \in live)

\* docs/phase-9:12 "triggers one evaluation": a stop of the car reaches the server at most
\* once, although streams of pages that are gone may still run.
OneEvaluationPerStop == \A s \in 1..MaxStops : served[s] <= 1

\* docs/phase-9:19 "Disabling alerts cancels the stream."
DisablingCancelsTheStream ==
    Settled /\ ~consent /\ (\A p \in Page : page[p].mounted => ~page[p].enabled) => live = {}
===============================================================================
