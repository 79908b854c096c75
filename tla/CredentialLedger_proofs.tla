------------------------ MODULE CredentialLedger_proofs ------------------------
(***************************************************************************)
(* What every implementation of CredentialLedger inherits: one live        *)
(* credential per chain, and no way back from spent.                       *)
(***************************************************************************)
EXTENDS CredentialLedger, TLAPS

\* A credential that was opened belongs to a chain whose first credential was opened.
ChainsAreOpen ==
    \A c \in Credential : standing[c] # "absent" =>
        origin[c] \in Credential /\ standing[origin[c]] # "absent"

ChainInv == TypeOK /\ ChainsAreOpen /\ OneLivePerChain

\* Login and reset requests (service.login, request_password_reset) open new chains only.
LEMMA OpenKeepsChains ==
    ASSUME ChainInv, NEW c \in Credential, Open(c)
    PROVE  ChainInv'
<1>1. TypeOK'
  BY DEF ChainInv, TypeOK, Open
<1>2. ChainsAreOpen'
  BY DEF ChainInv, TypeOK, ChainsAreOpen, Open
<1>3. OneLivePerChain'
  BY DEF ChainInv, TypeOK, ChainsAreOpen, OneLivePerChain, Open
<1> QED BY <1>1, <1>2, <1>3 DEF ChainInv

\* A refresh (service.refresh) leaves its chain with one live credential again.
LEMMA ExchangeKeepsChains ==
    ASSUME ChainInv, NEW c \in Credential, NEW s \in Credential, Exchange(c, s)
    PROVE  ChainInv'
<1>1. TypeOK'
  BY DEF ChainInv, TypeOK, Exchange
<1>2. ChainsAreOpen'
  BY DEF ChainInv, TypeOK, ChainsAreOpen, Exchange
<1>3. OneLivePerChain'
  BY DEF ChainInv, TypeOK, ChainsAreOpen, OneLivePerChain, Exchange
<1> QED BY <1>1, <1>2, <1>3 DEF ChainInv

\* Logout, revocation, reset and erasure only spend.
LEMMA VoidKeepsChains ==
    ASSUME ChainInv, NEW gone \in SUBSET Credential, Void(gone)
    PROVE  ChainInv'
<1>1. TypeOK'
  BY DEF ChainInv, TypeOK, Void
<1>2. ChainsAreOpen'
  BY DEF ChainInv, TypeOK, ChainsAreOpen, Void
<1>3. OneLivePerChain'
  BY DEF ChainInv, TypeOK, ChainsAreOpen, OneLivePerChain, Void
<1> QED BY <1>1, <1>2, <1>3 DEF ChainInv

\* docs/session-contract.md:9-17: however chains are opened, exchanged and voided, at
\* most one credential of each can be used.
THEOREM ChainsHaveOneLive == Spec => []OneLivePerChain
<1>1. Init => ChainInv
  BY DEF Init, ChainInv, TypeOK, ChainsAreOpen, OneLivePerChain
<1>2. ChainInv /\ [Next]_ledger => ChainInv'
  <2> SUFFICES ASSUME ChainInv, [Next]_ledger  PROVE ChainInv'
    OBVIOUS
  <2>1. CASE Next
    BY <2>1, OpenKeepsChains, ExchangeKeepsChains, VoidKeepsChains DEF Next
  <2>2. CASE UNCHANGED ledger
    BY <2>2 DEF ledger, ChainInv, TypeOK, ChainsAreOpen, OneLivePerChain
  <2> QED BY <2>1, <2>2
<1>3. ChainInv => OneLivePerChain
  BY DEF ChainInv
<1> QED BY <1>1, <1>2, <1>3, PTL DEF Spec

\* The type invariant alone, for the next theorem.
LEMMA LedgerTyped == Spec => []TypeOK
<1>1. Init => TypeOK
  BY DEF Init, TypeOK
<1>2. TypeOK /\ [Next]_ledger => TypeOK'
  BY DEF TypeOK, Next, Open, Exchange, Void, ledger
<1> QED BY <1>1, <1>2, PTL DEF Spec

\* docs/session-contract.md:9-17: what was exchanged or revoked is never usable again.
THEOREM SpentStaysSpent == Spec => SpentForGood
<1>1. TypeOK /\ [Next]_ledger =>
        [\A c \in Credential : standing[c] = "spent" => standing'[c] = "spent"]_ledger
  BY DEF TypeOK, Next, Open, Exchange, Void, ledger
<1> QED BY <1>1, LedgerTyped, PTL DEF Spec, SpentForGood
===============================================================================
