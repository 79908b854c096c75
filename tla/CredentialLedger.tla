--------------------------- MODULE CredentialLedger ---------------------------
(***************************************************************************)
(* What the identity module promises about the server-side row behind a    *)
(* refresh or password-reset credential (docs/session-contract.md:9-17):   *)
(* a login or a reset request opens a chain of credentials, only the live  *)
(* credential of a chain can be exchanged for the next one, and once       *)
(* exchanged or revoked a credential never becomes usable again.           *)
(* AuthSessions implements this module; the transactions, locks, failures  *)
(* and expiry of the real service are hidden here.                         *)
(***************************************************************************)
CONSTANTS Credential, None

VARIABLES standing,    \* Credential -> "absent", "live" or "spent"
          origin       \* Credential -> the first credential of its chain

ledger == <<standing, origin>>

Init ==
    /\ standing = [c \in Credential |-> "absent"]
    /\ origin = [c \in Credential |-> None]

\* A login or a reset request opens a chain.
Open(c) ==
    /\ standing[c] = "absent"
    /\ standing' = [standing EXCEPT ![c] = "live"]
    /\ origin' = [origin EXCEPT ![c] = c]

\* A refresh spends one live credential and puts its successor in the chain.
Exchange(c, successor) ==
    /\ standing[c] = "live" /\ standing[successor] = "absent"
    /\ standing' = [standing EXCEPT ![c] = "spent", ![successor] = "live"]
    /\ origin' = [origin EXCEPT ![successor] = origin[c]]

\* Logout, revocation, a completed reset and account erasure spend credentials.
Void(gone) ==
    /\ \A c \in gone : standing[c] = "live"
    /\ standing' = [c \in Credential |-> IF c \in gone THEN "spent" ELSE standing[c]]
    /\ UNCHANGED origin

Next ==
    \/ \E c \in Credential : Open(c)
    \/ \E c, successor \in Credential : Exchange(c, successor)
    \/ \E gone \in SUBSET Credential : Void(gone)

Spec == Init /\ [][Next]_ledger

\* Every credential has a standing, and a chain starts with a credential.
TypeOK ==
    /\ standing \in [Credential -> {"absent", "live", "spent"}]
    /\ origin \in [Credential -> Credential \cup {None}]

\* Rotation (service.refresh): at most one credential of a chain can be exchanged at
\* any time, whatever was exchanged and voided before.
OneLivePerChain ==
    \A c, d \in Credential :
        standing[c] = "live" /\ standing[d] = "live" /\ origin[c] = origin[d] => c = d

\* A credential that was exchanged or revoked is never usable again
\* (docs/session-contract.md:9-17; no operation of the service inserts an old id).
SpentForGood ==
    [][\A c \in Credential : standing[c] = "spent" => standing'[c] = "spent"]_ledger
===============================================================================
