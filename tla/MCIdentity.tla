------------------------------ MODULE MCIdentity ------------------------------
(***************************************************************************)
(* Identity for TLC: the sessions of the server (AuthSessions), its        *)
(* LoginLimiter, and the native clients (NativeSession).  Server and       *)
(* limiter share no table, a login of AuthSessions is one that the limiter *)
(* admits, and the clients run against CredentialLedger, which             *)
(* AuthSessions implements: no interleaving of the three shows more than   *)
(* each alone, so a behaviour moves one of them.                           *)
(***************************************************************************)
EXTENDS MCAuthSessions

CONSTANTS MaxFailures, Window, Lock, FailuresCommit, MaxTime,
          Credential, None, Call, Root, NoCall, Raises, MaxFaults

VARIABLES component, now, row, attempts, strikes,
          standing, origin, stored, flight, calls, ui, late, faults, past

\* The views of the client are interchangeable too; its calls are not, see Free.
IdentitySymmetry == Interchangeable \cup Permutations(Root)

Limiter == INSTANCE LoginLimiter WITH tx <- attempts
Client == INSTANCE NativeSession

limiter == <<now, row, attempts, strikes>>
client == <<standing, origin, stored, flight, calls, ui, late, faults, past>>

ASSUME IdentityShapes == Limiter!LimiterValues /\ Client!ClientShapes

IdentityInit ==
    component \in {"sessions", "limiter", "client"} /\ Init /\ Limiter!Init /\ Client!InitClient

IdentityNext ==
    /\ \/ component = "sessions" /\ Next /\ UNCHANGED <<limiter, client>>
       \/ component = "limiter" /\ Limiter!Next /\ UNCHANGED <<vars, client>>
       \/ component = "client" /\ Client!NextClient /\ UNCHANGED <<vars, limiter>>
    /\ UNCHANGED component

IdentitySpec == IdentityInit /\ [][IdentityNext]_<<vars, limiter, client, component>>

\* FairSpec of AuthSessions, and FairClient of NativeSession.
FairIdentitySpec ==
    /\ IdentitySpec
    /\ \A r \in Request : SF_vars(Advance(r) /\ overlap' = overlap \cup Overlapping')
    /\ \A c \in Call : WF_client(Client!Step(c))

\* docs/phase-2-authentication.md:7: a row of the limiter that reached the limit is
\* locked, and attempts in flight are all that can take it past the limit.
RowKeepsTheLimit == Limiter!RowKeepsTheLimit

\* docs/phase-2-authentication.md:7: the guesses that replicas admit together, in one
\* instant, are bounded by the limit and the requests in flight.
GuessesAreLimited == Limiter!GuessesAreLimited

\* docs/session-contract.md:15 "Clients must serialize refresh work locally": a process runs
\* one refresh at a time, and where failures are terminal submits no credential twice.
RefreshesAreSerialized == Client!RefreshesAreSerialized

\* SecureSessionStore.kt:11 "access is only useful with a matching durable refresh token":
\* the two writes of a save, the two of a clear and the calls between them leave one pair.
PairsMatch == Client!PairsMatch

\* A session that is open on the server is known to the client, or was lost to a fault.
SessionsAreHeld == Client!SessionsAreHeld

\* Every request of the server and every call of a client ends.
SessionsFinish == RequestsFinish /\ Client!CallsFinish
===============================================================================
