----------------------------- MODULE NativeSession -----------------------------
(***************************************************************************)
(* SessionController of the native clients: calls of one process overlap   *)
(* at every await, on one secure store and against the server of           *)
(* CredentialLedger.  Requests and answers get lost or arrive late, the    *)
(* store fails, and the process may die at any await.  A pair of tokens is *)
(* named by its refresh credential.                                        *)
(***************************************************************************)
EXTENDS CredentialLedger, Naturals

CONSTANTS Call,         \* bound: calls of the controller under way at once
          Root,         \* the AuthRoot views that use it
          NoCall,
          Raises,       \* whether a request without an answer raises (Android) or fails (iOS)
          MaxFaults     \* bound: lost requests, failures of the store, deaths of the process

ClientShapes == None \notin Credential /\ NoCall \notin Call /\ MaxFaults \in Nat

VARIABLES
    stored,    \* the secure store: refresh and access token
    flight,    \* inFlightRefresh: the call that leads the refresh
    calls,     \* where each call is
    ui,        \* what each view shows: "login" when signed out and when failed
    late,      \* credentials of requests the client gave up, which the server may still serve
    faults,    \* how many there were
    past       \* history, see Past

client == <<stored, flight, calls, ui, late, faults, past>>
vars == <<ledger, client>>

Idle == [op |-> "none", root |-> None, at |-> "idle", token |-> None, won |-> None, result |-> "none",
         unseen |-> {}]

\* sent: stored, and submitted to a refresh by this process; twice: was submitted again;
\* kept: a logout ended and left what it read; excused: live, and taken from the client
\* by a fault; stuck: stored, because a removal failed; mixed: two calls met half-way.
Past == [sent |-> {}, twice |-> FALSE, kept |-> FALSE, excused |-> {}, stuck |-> {}, mixed |-> FALSE]

InitClient ==
    /\ Init
    /\ stored = [refresh |-> None, access |-> None]
    /\ flight = NoCall /\ calls = [c \in Call |-> Idle]
    /\ ui = [w \in Root |-> "restoring"]
    /\ late = {} /\ faults = 0 /\ past = Past

Live(x) == x # None /\ standing[x] = "live"
Coherent(s) == s.access = None \/ s.access = s.refresh

\* Between the two writes of save, or in clear.
Halfway(c) == calls[c].at \in {"half_saved", "clearing", "half_cleared"}

\* A step of c on the store.  What a login replaces is lost, and what was not stored when
\* c began and c overwrites or removes is lost by the overlap.
Touch(c, s, p) ==
    /\ stored' = s
    /\ past' = [p EXCEPT
        !.sent = @ \cap {s.refresh}, !.stuck = p.stuck \cap {s.refresh, s.access},
        !.excused = @ \cup {x \in {stored.refresh} \ {s.refresh, None} :
                                calls[c].op = "login" \/ x \in calls[c].unseen},
        !.mixed = (@ /\ ~Coherent(s)) \/ \E d \in Call \ {c} : Halfway(d)]

-------------------------------------------------------------------------------
(* Calls of the views *)

\* What the server answered and the client has not stored.
AnswersOf(gone) == {calls[c].won : c \in {d \in gone : calls[d].at = "answered"}} \ {None}

Begin(c, op, w, at) ==
    [Idle EXCEPT !.op = op, !.root = w, !.at = at,
                 !.unseen = {x \in Credential : standing[x] = "absent" \/ x \in AnswersOf(Call)}]

\* Calls are alike: which idle slot a new one takes makes no difference.
Free(c) == calls[c] = Idle /\ c = CHOOSE d \in Call : calls[d] = Idle

Busy(w, op) == \E c \in Call : calls[c].op = op /\ calls[c].root = w

\* Mutant of Joins: the mutex does not make the refresh single-flight.
JoinsNever == FALSE

\* refresh: a call joins the refresh in flight.
Joins == flight # NoCall

\* restore, once per view, and refresh: the first call leads.
Restore(c, w) ==
    /\ Free(c) /\ ui[w] = "restoring" /\ ~Busy(w, "refresh")
    /\ IF Joins
       THEN /\ calls' = [calls EXCEPT ![c] =
                    IF calls[flight].at = "releasing"
                    THEN [Begin(c, "refresh", w, "returning") EXCEPT !.result = calls[flight].result]
                    ELSE Begin(c, "refresh", w, "waiting")]
            /\ UNCHANGED flight
       ELSE calls' = [calls EXCEPT ![c] = Begin(c, "refresh", w, "reading")] /\ flight' = c
    /\ UNCHANGED <<ledger, stored, ui, late, faults, past>>

\* The login button is disabled while it works; the sign-out button is not.
Login(c, w) ==
    /\ Free(c) /\ ui[w] = "login" /\ ~Busy(w, "login")
    /\ calls' = [calls EXCEPT ![c] = Begin(c, "login", w, "sent")]
    /\ UNCHANGED <<ledger, stored, flight, ui, late, faults, past>>

Logout(c, w) ==
    /\ Free(c) /\ ui[w] = "signed_in"
    /\ calls' = [calls EXCEPT ![c] = Begin(c, "logout", w, "reading")]
    /\ UNCHANGED <<ledger, stored, flight, ui, late, faults, past>>

\* deferred.complete: those that wait get the result of the leader.
Finished(c, result) ==
    [d \in Call |->
        IF d = c
        THEN [Idle EXCEPT !.op = calls[c].op, !.root = calls[c].root, !.result = result,
                          !.at = IF flight = c THEN "releasing" ELSE "returning"]
        ELSE IF flight = c /\ calls[d].at = "waiting"
             THEN [calls[d] EXCEPT !.result = result, !.at = "returning"] ELSE calls[d]]

Clearing(c) == [calls EXCEPT ![c].at = "clearing", ![c].token = None, ![c].won = None]

Fault == faults < MaxFaults /\ faults' = faults + 1

\* refreshInternal, logout: sessions.refreshToken().
Read(c) ==
    LET t == stored.refresh  op == calls[c].op
    IN /\ calls[c].at = "reading"
       /\ \E readable \in BOOLEAN :
            /\ IF readable THEN UNCHANGED faults ELSE Fault
            /\ calls' = IF ~readable \/ t = None
                        THEN IF op = "logout" THEN Clearing(c) ELSE Finished(c, "login")
                        ELSE [calls EXCEPT ![c].at = "sent", ![c].token = t]
       /\ past' = IF calls'[c].at # "sent" THEN [past EXCEPT !.excused = @ \cup ({t} \ {None})]
                  ELSE IF op = "logout" THEN past
                  ELSE [past EXCEPT !.twice = @ \/ t \in past.sent \ past.stuck, !.sent = {t}]
       /\ UNCHANGED <<ledger, stored, flight, ui, late>>

-------------------------------------------------------------------------------
(* The server and the network *)

Answered(c, at, x) == calls' = [calls EXCEPT ![c].at = at, ![c].won = x]

\* Token ids are random; which one comes next makes no difference.
Fresh ==
    LET free == {x \in Credential : standing[x] = "absent"}
    IN IF free = {} THEN {} ELSE {CHOOSE x \in free : TRUE}

Serve(c) ==
    LET t == calls[c].token  op == calls[c].op
    IN /\ calls[c].at = "sent"
       /\ \/ op = "refresh" /\ \E x \in Fresh : Exchange(t, x) /\ Answered(c, "answered", x)
          \/ op = "login" /\ \E x \in Fresh : Open(x) /\ Answered(c, "answered", x)
          \/ op = "logout" /\ Void({x \in {t} : Live(x)}) /\ Answered(c, "answered", None)
          \/ op = "login" /\ UNCHANGED ledger /\ Answered(c, "refused", None)
          \/ op = "refresh" /\ ~Live(t) /\ UNCHANGED ledger /\ Answered(c, "refused", None)
       /\ past' = [past EXCEPT !.excused = {x \in @ : standing'[x] = "live"}]
       /\ UNCHANGED <<stored, flight, ui, late, faults>>

\* What a client no longer waits for the server may still serve, or not.
Requests(gone) == {calls[c].token : c \in {d \in gone : calls[d].at = "sent"}} \ {None}

\* An error status, a timeout: a refresh clears the session, a login fails, a logout goes on.
Unanswered(c) ==
    IF calls[c].op = "login" THEN Finished(c, "login") ELSE Clearing(c)

\* Where the bound leaves no credential to answer with, requests always fail.
GiveUp(c) ==
    /\ calls[c].at \in {"sent", "answered"}
    /\ \/ Fault
       \/ Fresh = {} /\ UNCHANGED faults
    /\ calls' = Unanswered(c)
    /\ late' = late \cup Requests({c})
    /\ past' = [past EXCEPT !.excused = @ \cup AnswersOf({c}) \cup {x \in {calls[c].token} : Live(x)}]
    /\ UNCHANGED <<ledger, stored, flight, ui>>

\* A late refresh or logout spends its credential; no client sees the successor.
ServeLate(x) ==
    /\ x \in late /\ late' = late \ {x}
    /\ Void({x} \cap {y \in Credential : Live(y)})
    /\ past' = [past EXCEPT !.excused = @ \ {x}]
    /\ UNCHANGED <<stored, flight, calls, ui, faults>>

\* The process dies, and starts again.
Die(ended) ==
    /\ Fault
    /\ calls' = [c \in Call |-> Idle] /\ flight' = NoCall /\ ui' = [w \in Root |-> "restoring"]
    /\ late' = late \cup Requests(Call)
    /\ past' = [past EXCEPT !.sent = {}, !.excused = @ \cup AnswersOf(Call), !.kept = @ \/ stored.refresh \in ended,
                            !.mixed = ~Coherent(stored) /\ (@ \/ \E c \in Call : Halfway(c))]
    /\ UNCHANGED <<ledger, stored>>

Killed == Die({})

\* HttpUrlConnection raises: refresh catches it, and in a login or a logout nobody does,
\* which ends the process.
Raise(c) ==
    /\ Raises /\ calls[c].at \in {"sent", "answered"}
    /\ IF calls[c].op = "refresh"
       THEN /\ Fault
            /\ calls' = Finished(c, "login") /\ late' = late \cup Requests({c})
            /\ past' = [past EXCEPT !.excused = @ \cup AnswersOf({c})]
            /\ UNCHANGED <<ledger, stored, flight, ui>>
       ELSE Die({calls[c].token} \ {None})

-------------------------------------------------------------------------------
(* The answer: persist, save and clear *)

\* refresh, login: SESSION_INVALID clears, a refused login does not.
Refused(c) ==
    /\ calls[c].at = "refused"
    /\ calls' = IF calls[c].op = "refresh" THEN Clearing(c) ELSE Finished(c, "login")
    /\ UNCHANGED <<ledger, stored, flight, ui, late, faults, past>>

\* logout ignores the answer.
Revoked(c) ==
    /\ calls[c].at = "answered" /\ calls[c].op = "logout"
    /\ calls' = Clearing(c)
    /\ UNCHANGED <<ledger, stored, flight, ui, late, faults, past>>

\* Mutant of WriteFails: a write that fails leaves what is stored.
WriteFailsKept(c) ==
    /\ calls[c].at = "half_saved" /\ Fault
    /\ calls' = Finished(c, "login")
    /\ past' = [past EXCEPT !.excused = @ \cup {calls[c].won}]
    /\ UNCHANGED <<ledger, stored, flight, ui, late>>

\* A write that fails clears the store.
WriteFails(c) ==
    /\ \/ calls[c].at = "answered" /\ calls[c].op # "logout"
       \/ calls[c].at = "half_saved"
    /\ Fault
    /\ calls' = Clearing(c)
    /\ past' = [past EXCEPT !.excused = @ \cup {calls[c].won}]
    /\ UNCHANGED <<ledger, stored, flight, ui, late>>

\* Mutant of SaveRefresh: the refresh token a refresh brings is not stored.
SaveRefreshOnce(c) ==
    /\ calls[c].at = "answered" /\ calls[c].op # "logout"
    /\ IF stored.refresh = None THEN Touch(c, [stored EXCEPT !.refresh = calls[c].won], past)
       ELSE UNCHANGED <<stored, past>>
    /\ calls' = [calls EXCEPT ![c].at = "half_saved"]
    /\ UNCHANGED <<ledger, flight, ui, late, faults>>

\* save writes the refresh token first.
SaveRefresh(c) ==
    /\ calls[c].at = "answered" /\ calls[c].op # "logout"
    /\ Touch(c, [stored EXCEPT !.refresh = calls[c].won], past)
    /\ calls' = [calls EXCEPT ![c].at = "half_saved"]
    /\ UNCHANGED <<ledger, flight, ui, late, faults>>

SaveAccess(c) ==
    /\ calls[c].at = "half_saved"
    /\ Touch(c, [stored EXCEPT !.access = calls[c].won], past)
    /\ calls' = Finished(c, "signed_in")
    /\ UNCHANGED <<ledger, flight, ui, late, faults>>

\* clear removes the access token first, and swallows what fails.
ClearAccess(c) ==
    /\ calls[c].at = "clearing"
    /\ \/ Touch(c, [stored EXCEPT !.access = None], past) /\ UNCHANGED faults
       \/ Touch(c, stored, [past EXCEPT !.stuck = @ \cup ({stored.access} \ {None})]) /\ Fault
    /\ calls' = [calls EXCEPT ![c].at = "half_cleared"]
    /\ UNCHANGED <<ledger, flight, ui, late>>

ClearRefresh(c) ==
    /\ calls[c].at = "half_cleared"
    /\ \/ Touch(c, [stored EXCEPT !.refresh = None], past) /\ UNCHANGED faults
       \/ Touch(c, stored, [past EXCEPT !.stuck = @ \cup ({stored.refresh} \ {None})]) /\ Fault
    /\ calls' = Finished(c, "login")
    /\ UNCHANGED <<ledger, flight, ui, late>>

\* The view shows the result, but of a logout after a rejected request, which leaves it as
\* it is; the leader makes room for the next refresh.
Return(c) ==
    /\ calls[c].at \in {"returning", "releasing"}
    /\ flight' = IF calls[c].at = "releasing" THEN NoCall ELSE flight
    /\ \/ ui' = [ui EXCEPT ![calls[c].root] = calls[c].result]
       \/ calls[c].op = "logout" /\ UNCHANGED ui
    /\ calls' = [calls EXCEPT ![c] = Idle]
    /\ UNCHANGED <<ledger, stored, late, faults, past>>

-------------------------------------------------------------------------------
Step(c) ==
    \/ Read(c) \/ Serve(c) \/ GiveUp(c) \/ Refused(c) \/ Revoked(c)
    \/ WriteFails(c) \/ SaveRefresh(c) \/ SaveAccess(c) \/ ClearAccess(c) \/ ClearRefresh(c) \/ Return(c)

NextClient ==
    \/ \E c \in Call : Step(c) \/ Raise(c)
    \/ \E c \in Call, w \in Root : Restore(c, w) \/ Login(c, w) \/ Logout(c, w)
    \/ \E x \in late : ServeLate(x)
    \/ Killed

SpecClient == InitClient /\ [][NextClient]_vars

\* Every await of a call is resumed, and a request without an answer times out.
FairClient == SpecClient /\ \A c \in Call : WF_vars(Step(c))

-------------------------------------------------------------------------------
(* Properties *)

TypeOKClient ==
    /\ TypeOK
    /\ stored \in [refresh : Credential \cup {None}, access : Credential \cup {None}]
    /\ flight \in Call \cup {NoCall} /\ faults \in 0..MaxFaults
    /\ ui \in [Root -> {"restoring", "signed_in", "login"}]
    /\ late \subseteq Credential
    /\ \A c \in Call : /\ calls[c].token \in Credential \cup {None} /\ calls[c].won \in Credential \cup {None}
                       /\ calls[c].at = "idle" <=> calls[c].op = "none"
                       /\ flight = c => calls[c].op = "refresh"
    /\ \A f \in {"sent", "excused", "stuck"} : past[f] \subseteq Credential

\* A refresh of c between its lock and its result.
Refreshing(c) == calls[c].op = "refresh" /\ calls[c].at \notin {"waiting", "returning", "releasing"}

\* docs/session-contract.md:15 "Clients must serialize refresh work locally and treat all
\* refresh failures as terminal": one refresh at a time, and a process that treats every
\* failure so never submits a credential twice, unless the store kept it against a clear.
\* The refresh of Android, which catches what a request raises, keeps the credential.
RefreshesAreSerialized ==
    /\ TypeOKClient
    /\ \A c, d \in Call : Refreshing(c) /\ Refreshing(d) => c = d
    /\ Raises \/ ~past.twice

\* SecureSessionStore.kt:11 "access is only useful with a matching durable refresh token":
\* a store at rest holds one pair, unless a removal failed or two calls met half-way.
PairsMatch ==
    (\A c \in Call : ~Halfway(c)) /\ ~Coherent(stored) => past.mixed \/ stored.access \in past.stuck

\* A session that is open on the server is in the store of the client, on the way there,
\* or was lost to a lost answer, a failing store, a call that overlapped, or a new login.
SessionsAreHeld ==
    \A x \in Credential : Live(x) =>
        x = stored.refresh \/ x \in past.excused \/ \E c \in Call : calls[c].won = x

\* Every call returns: none that joined a refresh waits for a leader that is gone.
CallsFinish == \A c \in Call : calls[c].at # "idle" ~> calls[c].at = "idle"

\* docs/session-contract.md:22 "Clients must clear their local credentials immediately
\* after logout": what a logout read is not stored once the logout ended.
LogoutForgets == ~past.kept
===============================================================================
