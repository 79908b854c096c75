---------------------------- MODULE Community_proofs ----------------------------
(***************************************************************************)
(* Theorems about the moderation desk and the audit chain of MCCommunity,  *)
(* for any number of reports, appeals, accounts and requests at once.      *)
(***************************************************************************)
EXTENDS MCCommunity, CommunityMedia_proofs, Sequences, FiniteSetTheorems

-------------------------------------------------------------------------------
(* Each part of a behaviour of the composite is a behaviour of its module. *)

LEMMA AuditMovesAlone == CommunitySpec => Audit!Spec
<1>1. CommunityInit => Audit!Init
  BY DEF CommunityInit
<1>2. [CommunityNext]_<<vars, desk, audit, component>> => [Audit!Next]_Audit!vars
  BY DEF CommunityNext, audit, Audit!vars
<1> QED
  BY <1>1, <1>2, PTL DEF CommunitySpec, Audit!Spec

-------------------------------------------------------------------------------
(* The audit chain: shapes *)

AuditRow == [sequence : 1..MaxSequence, content : Audit!Content,
             previous_hash : Seq(Audit!Content), event_hash : Seq(Audit!Content)]

Privilege ==
    [at : {"idle", "read", "set", "locked", "appended"}, actor : Admin \cup {Nobody},
     action : Audit!Actions \cup {"none"}, mfa : Audit!Mfa, draft : SUBSET AuditRow]

AuditTypes ==
    /\ rows \subseteq AuditRow /\ IsFiniteSet(rows)
    /\ \A r \in rows : r.sequence <= sequence
    /\ sequence \in 0..MaxSequence
    /\ mfa \in [Admin -> Audit!Mfa]
    /\ report \in {"none", "valid", "invalid"}
    /\ confirmed \subseteq Secret /\ overtaken \subseteq Admin
    /\ done \in Seq(Audit!Content)
    /\ privileged \in [Operator -> Privilege]
    /\ \A q \in Operator : privileged[q].at # "idle" =>
           privileged[q].actor \in Admin /\ privileged[q].action \in Audit!Actions

\* append: one replica at a time is between its lock and its commit.
OneAppender ==
    \A q, o \in Operator : q # o =>
        privileged[q].at \notin {"locked", "appended"} \/ privileged[o].at \notin {"locked", "appended"}

\* What it inserted is numbered after every committed row, and is linked to the newest one
\* unless the table was damaged meanwhile.
DraftIsNext ==
    \A q \in Operator : privileged[q].at = "appended" =>
        \E d \in AuditRow :
            /\ privileged[q].draft = {d} /\ \A r \in rows : r.sequence < d.sequence
            /\ d.sequence <= sequence
            /\ d.content = [actor |-> privileged[q].actor, action |-> privileged[q].action]
            /\ d.event_hash = Append(d.previous_hash, d.content)
            /\ damaged = "no" => d.previous_hash = done

\* The place of a row in the chain is the length of what its hash is computed over.
Place(r) == Len(r.event_hash)

\* The undamaged table is one chain, in the order of its sequence numbers, and ends with
\* the hash over every committed mutation.
OneChain ==
    /\ \A r \in rows : /\ Place(r) \in 1..Len(done)
                       /\ r.event_hash = Append(r.previous_hash, r.content)
                       /\ Place(r) = 1 => r.previous_hash = <<>>
                       /\ Place(r) = Len(done) => r.event_hash = done
    /\ \A r, s \in rows : /\ r.sequence < s.sequence <=> Place(r) < Place(s)
                          /\ r.sequence = s.sequence => r = s
                          /\ Place(s) = Place(r) + 1 => s.previous_hash = r.event_hash
    /\ \A n \in 1..Len(done) : \E r \in rows : Place(r) = n
    /\ Cardinality(rows) = Len(done)

\* A table that is not empty has a newest row, damaged or not.
HasNewest == rows # {} => \E r \in rows : Audit!Newest(rows, r)

AuditInv ==
    /\ AuditTypes /\ OneAppender /\ DraftIsNext /\ HasNewest
    /\ damaged = "no" => OneChain
    /\ Audit!DamageIsDetected

LEMMA IdlePrivilege ==
    /\ Audit!Idle \in Privilege /\ Audit!Idle.at = "idle" /\ Audit!Idle.draft = {}
    /\ Audit!Idle.mfa \in Audit!Mfa /\ Audit!Idle.action = "none"
BY DEF Privilege, Audit!Idle, Audit!Mfa

LEMMA EnterOne ==
    ASSUME AuditTypes, NEW q \in Operator, NEW next \in Privilege, Audit!Enter(q, next)
    PROVE  /\ privileged' \in [Operator -> Privilege] /\ privileged'[q] = next
           /\ \A o \in Operator \ {q} : privileged'[o] = privileged[o]
BY DEF AuditTypes, Audit!Enter

\* The previous row of a chain is found by its place, and its hash is the link.
LEMMA ChainVerifies ==
    ASSUME AuditTypes, OneChain
    PROVE  Audit!verify_chain(rows)
<1> SUFFICES ASSUME NEW r \in rows  PROVE Audit!Follows(rows, r) /\ r.event_hash = Append(r.previous_hash, r.content)
  BY DEF Audit!verify_chain, Audit!event_hash
<1> DEFINE before == Audit!Before(rows, r)
<1>0. \A s \in rows : Place(s) \in Nat /\ Place(s) >= 1 /\ s.sequence \in Nat
  <2>1. \A s \in rows : Place(s) \in 1..Len(done)
    BY DEF OneChain
  <2>2. \A s \in rows : s.sequence \in 1..MaxSequence
    BY DEF AuditTypes, AuditRow
  <2> QED
    BY <2>1, <2>2
<1>1. CASE Place(r) = 1
  <2>1. before = {}
    BY <1>0, <1>1 DEF OneChain, Audit!Before
  <2> QED
    BY <1>1, <2>1 DEF OneChain, Audit!Follows, Audit!GENESIS_HASH
<1>2. CASE Place(r) # 1
  <2>1. PICK s \in rows : Place(s) = Place(r) - 1
    <3>1. Place(r) - 1 \in 1..Len(done)
      BY <1>0, <1>2 DEF OneChain
    <3> QED
      BY <3>1 DEF OneChain
  <2>2. s \in before
    BY <1>0, <2>1 DEF OneChain, Audit!Before
  <2>3. \A t \in before : Place(t) <= Place(s)
    BY <1>0, <2>1 DEF OneChain, Audit!Before
  <2>4. Audit!Newest(before, s)
    <3> SUFFICES ASSUME NEW t \in before  PROVE t.sequence <= s.sequence
      BY DEF Audit!Newest
    <3>1. t \in rows
      BY DEF Audit!Before
    <3> QED
      BY <1>0, <2>3, <3>1 DEF OneChain
  <2>5. \A t \in before : Audit!Newest(before, t) => t = s
    <3> SUFFICES ASSUME NEW t \in before, Audit!Newest(before, t)  PROVE t = s
      OBVIOUS
    <3>1. t \in rows /\ s.sequence <= t.sequence /\ t.sequence <= s.sequence
      BY <2>2, <2>4 DEF Audit!Newest, Audit!Before
    <3> QED
      BY <1>0, <3>1 DEF OneChain
  <2>6. (CHOOSE t \in before : Audit!Newest(before, t)) = s
    BY <2>2, <2>4, <2>5
  <2>7. r.previous_hash = s.event_hash
    BY <1>0, <2>1 DEF OneChain
  <2> QED
    BY <2>2, <2>6, <2>7 DEF OneChain, Audit!Follows
<1> QED
  BY <1>1, <1>2

\* The newest row of an undamaged chain has the hash over every committed mutation.
LEMMA NewestOfChain ==
    ASSUME AuditTypes, OneChain, NEW r \in rows, Audit!Newest(rows, r)
    PROVE  r.event_hash = done
<1>0. \A s \in rows : Place(s) \in 1..Len(done) /\ s.sequence \in Nat
  BY DEF OneChain, AuditTypes, AuditRow
<1>1. PICK s \in rows : Place(s) = Len(done)
  <2>1. Len(done) \in 1..Len(done)
    BY <1>0
  <2> QED
    BY <2>1 DEF OneChain
<1>2. ~(r.sequence < s.sequence)
  BY <1>0 DEF Audit!Newest
<1>3. Place(r) = Len(done)
  BY <1>0, <1>1, <1>2 DEF OneChain
<1> QED
  BY <1>3 DEF OneChain

\* A row numbered after every row leaves the links of the others alone.
LEMMA TopRowKeepsLinks ==
    ASSUME AuditTypes, NEW d \in AuditRow, \A r \in rows : r.sequence < d.sequence,
           NEW r \in rows
    PROVE  Audit!Follows(rows \cup {d}, r) <=> Audit!Follows(rows, r)
<1>1. r.sequence \in Nat /\ d.sequence \in Nat
  BY DEF AuditTypes, AuditRow
<1>2. Audit!Before(rows \cup {d}, r) = Audit!Before(rows, r)
  BY <1>1 DEF Audit!Before
<1> QED
  BY <1>2 DEF Audit!Follows

-------------------------------------------------------------------------------
(* The audit chain: appends *)

\* A step of one request that commits nothing, and appends nothing unless it holds the lock.
LEMMA QuietStepKeepsAudit ==
    ASSUME AuditInv, NEW q \in Operator, NEW next \in Privilege, Audit!Enter(q, next),
           UNCHANGED <<rows, sequence, mfa, report, done, overtaken, damaged>>,
           confirmed' \subseteq Secret,
           next.at # "idle" => next.actor \in Admin /\ next.action \in Audit!Actions,
           next.at \in {"locked", "appended"} => next.at = "locked" /\ Audit!LockFree(q)
    PROVE  AuditInv'
<1>1. /\ privileged' \in [Operator -> Privilege] /\ privileged'[q] = next
      /\ \A o \in Operator \ {q} : privileged'[o] = privileged[o]
  BY EnterOne DEF AuditInv
<1>2. AuditTypes'
  BY <1>1 DEF AuditInv, AuditTypes
<1>3. OneAppender'
  BY <1>1 DEF AuditInv, OneAppender, Audit!LockFree
<1>4. DraftIsNext'
  BY <1>1 DEF AuditInv, DraftIsNext
<1>5. HasNewest' /\ (damaged' = "no" => OneChain') /\ Audit!DamageIsDetected'
  BY DEF AuditInv, HasNewest, OneChain, Audit!DamageIsDetected, Audit!Newest, Audit!verify_chain,
     Audit!Follows, Audit!Before
<1> QED
  BY <1>2, <1>3, <1>4, <1>5 DEF AuditInv

\* SqlAdminAuditTrail.append: the head is read under the lock, so that it stays the head.
LEMMA InsertKeepsAudit ==
    ASSUME AuditInv, NEW q \in Operator, Audit!Insert(q)
    PROVE  AuditInv'
<1> DEFINE previous == IF rows = {} THEN Audit!GENESIS_HASH
                       ELSE (CHOOSE r \in rows : Audit!Newest(rows, r)).event_hash
           content == [actor |-> privileged[q].actor, action |-> privileged[q].action]
           d == Audit!Draft(q, previous, content)
           next == [privileged[q] EXCEPT !.at = "appended", !.draft = {d}]
<1>1. /\ Audit!Enter(q, next) /\ sequence < MaxSequence /\ sequence' = sequence + 1
      /\ UNCHANGED <<rows, mfa, report, done, confirmed, overtaken, damaged>>
      /\ privileged[q].at = "locked"
  BY DEF Audit!Insert
<1>2. privileged[q] \in Privilege /\ privileged[q].actor \in Admin /\ privileged[q].action \in Audit!Actions
  BY <1>1 DEF AuditInv, AuditTypes
<1>3. content \in Audit!Content
  BY <1>2 DEF Audit!Content
<1>4. previous \in Seq(Audit!Content) /\ (damaged = "no" => previous = done)
  <2>1. CASE rows = {}
    <3>1. damaged = "no" => Len(done) = 0
      BY <2>1, FS_EmptySet DEF AuditInv, OneChain
    <3>2. Len(done) = 0 => done = <<>>
      BY DEF AuditInv, AuditTypes
    <3> QED
      BY <2>1, <3>1, <3>2 DEF Audit!GENESIS_HASH
  <2>2. CASE rows # {}
    <3>1. PICK r \in rows : r = (CHOOSE x \in rows : Audit!Newest(rows, x)) /\ Audit!Newest(rows, r)
      BY <2>2 DEF AuditInv, HasNewest
    <3>2. r.event_hash \in Seq(Audit!Content)
      BY DEF AuditInv, AuditTypes, AuditRow
    <3>3. damaged = "no" => r.event_hash = done
      BY <3>1, NewestOfChain DEF AuditInv
    <3> QED
      BY <2>2, <3>1, <3>2, <3>3
  <2> QED
    BY <2>1, <2>2
<1> HIDE DEF previous, content
<1>5. /\ d.sequence = sequence + 1 /\ d.content = content /\ d.previous_hash = previous
      /\ d.event_hash = Append(previous, content)
  BY DEF Audit!Draft, Audit!event_hash
<1>6. d \in AuditRow
  <2>1. sequence + 1 \in 1..MaxSequence
    BY <1>1, CommunityShapes DEF AuditInv, AuditTypes, Audit!AuditShapes
  <2>2. Append(previous, content) \in Seq(Audit!Content)
    BY <1>3, <1>4
  <2> QED
    BY <1>3, <1>4, <2>1, <2>2 DEF AuditRow, Audit!Draft, Audit!event_hash
<1> HIDE DEF d
<1>7. /\ next \in Privilege /\ next.at = "appended" /\ next.draft = {d}
      /\ next.actor = privileged[q].actor /\ next.action = privileged[q].action
  BY <1>2, <1>6 DEF Privilege
<1> HIDE DEF next
<1>8. /\ privileged' \in [Operator -> Privilege] /\ privileged'[q] = next
      /\ \A o \in Operator \ {q} : privileged'[o] = privileged[o]
  BY <1>1, <1>7, EnterOne DEF AuditInv
<1>9. \A r \in rows : r.sequence \in Nat /\ r.sequence <= sequence
  BY DEF AuditInv, AuditTypes, AuditRow
<1>10. AuditTypes'
  <2>1. sequence' \in 0..MaxSequence /\ sequence \in Nat
    BY <1>1, CommunityShapes DEF AuditInv, AuditTypes, Audit!AuditShapes
  <2>2. \A r \in rows' : r.sequence <= sequence'
    BY <1>1, <1>9, <2>1
  <2> QED
    BY <1>1, <1>2, <1>7, <1>8, <2>1, <2>2 DEF AuditInv, AuditTypes
<1>11. OneAppender'
  BY <1>1, <1>8 DEF AuditInv, OneAppender
<1>12. DraftIsNext'
  <2>1. \A o \in Operator \ {q} : privileged[o].at # "appended"
    BY <1>1 DEF AuditInv, OneAppender
  <2>2. sequence \in Nat
    BY DEF AuditInv, AuditTypes
  <2>3. \A r \in rows' : r.sequence < d.sequence
    BY <1>1, <1>5, <1>9, <2>2
  <2>4. d.sequence <= sequence' /\ (damaged' = "no" => d.previous_hash = done')
    BY <1>1, <1>4, <1>5, <2>2
  <2>5. d.content = [actor |-> privileged'[q].actor, action |-> privileged'[q].action]
    BY <1>5, <1>7, <1>8 DEF content
  <2>6. d.event_hash = Append(d.previous_hash, d.content)
    BY <1>5
  <2> QED
    BY <1>6, <1>7, <1>8, <2>1, <2>3, <2>4, <2>5, <2>6 DEF DraftIsNext
<1>13. HasNewest' /\ (damaged' = "no" => OneChain') /\ Audit!DamageIsDetected'
  BY <1>1 DEF AuditInv, HasNewest, OneChain, Audit!DamageIsDetected, Audit!Newest, Audit!verify_chain,
     Audit!Follows, Audit!Before
<1> QED
  BY <1>10, <1>11, <1>12, <1>13 DEF AuditInv

\* What the link of the new row adds to an undamaged chain.
LEMMA ChainGrows ==
    ASSUME AuditTypes, OneChain, NEW d \in AuditRow, \A r \in rows : r.sequence < d.sequence,
           d.event_hash = Append(d.previous_hash, d.content), d.previous_hash = done,
           rows' = rows \cup {d}, done' = Append(done, d.content)
    PROVE  OneChain'
<1>1. /\ Len(done) \in Nat /\ Len(done') = Len(done) + 1 /\ d.event_hash = done' /\ Place(d) = Len(done) + 1
      /\ d.content \in Audit!Content /\ done \in Seq(Audit!Content)
  BY DEF AuditTypes, AuditRow, Place
<1>2. \A r \in rows : Place(r) \in 1..Len(done) /\ r.sequence \in Nat
  BY DEF OneChain, AuditTypes, AuditRow
<1>3. d.sequence \in Nat /\ d \notin rows
  <2>1. d.sequence \in Nat
    BY DEF AuditRow
  <2> QED
    BY <2>1
<1>4. \A r \in rows' : /\ Place(r) \in 1..Len(done')
                       /\ r.event_hash = Append(r.previous_hash, r.content)
                       /\ Place(r) = 1 => r.previous_hash = <<>>
                       /\ Place(r) = Len(done') => r.event_hash = done'
  <2>1. Place(d) = 1 => d.previous_hash = <<>>
    BY <1>1
  <2>2. \A r \in rows : /\ Place(r) \in 1..Len(done')
                        /\ r.event_hash = Append(r.previous_hash, r.content)
                        /\ Place(r) = 1 => r.previous_hash = <<>>
                        /\ Place(r) # Len(done')
    <3>1. \A r \in rows : Place(r) \in 1..Len(done') /\ Place(r) # Len(done')
      BY <1>1, <1>2
    <3> QED
      BY <3>1 DEF OneChain
  <2>3. Place(d) \in 1..Len(done')
    BY <1>1
  <2> QED
    BY <1>1, <2>1, <2>2, <2>3
<1>5. \A r, s \in rows' : /\ r.sequence < s.sequence <=> Place(r) < Place(s)
                          /\ r.sequence = s.sequence => r = s
                          /\ Place(s) = Place(r) + 1 => s.previous_hash = r.event_hash
  <2> SUFFICES ASSUME NEW r \in rows', NEW s \in rows'
               PROVE  /\ r.sequence < s.sequence <=> Place(r) < Place(s)
                      /\ r.sequence = s.sequence => r = s
                      /\ Place(s) = Place(r) + 1 => s.previous_hash = r.event_hash
    OBVIOUS
  <2>1. CASE r \in rows /\ s \in rows
    BY <2>1 DEF OneChain
  <2>2. CASE r \in rows /\ s = d
    <3>1. Place(s) = Place(r) + 1 => r.event_hash = done
      BY <1>1, <1>2, <2>2 DEF OneChain
    <3>2. r.sequence < s.sequence /\ Place(r) < Place(s) /\ r.sequence # s.sequence
      BY <1>1, <1>2, <1>3, <2>2
    <3> QED
      BY <2>2, <3>1, <3>2
  <2>3. CASE r = d /\ s \in rows
    <3>1. ~(r.sequence < s.sequence) /\ ~(Place(r) < Place(s)) /\ r.sequence # s.sequence
      BY <1>1, <1>2, <1>3, <2>3
    <3>2. Place(s) # Place(r) + 1
      BY <1>1, <1>2, <2>3
    <3> QED
      BY <3>1, <3>2
  <2>4. CASE r = d /\ s = d
    <3>1. ~(r.sequence < s.sequence) /\ ~(Place(r) < Place(s)) /\ Place(s) # Place(r) + 1
      BY <1>1, <1>3, <2>4
    <3> QED
      BY <2>4, <3>1
  <2> QED
    BY <2>1, <2>2, <2>3, <2>4
<1>6. \A n \in 1..Len(done') : \E r \in rows' : Place(r) = n
  <2> SUFFICES ASSUME NEW n \in 1..Len(done')  PROVE \E r \in rows' : Place(r) = n
    OBVIOUS
  <2>1. CASE n = Len(done')
    BY <1>1, <2>1
  <2>2. CASE n # Len(done')
    <3>1. n \in 1..Len(done)
      BY <1>1, <2>2
    <3> QED
      BY <3>1 DEF OneChain
  <2> QED
    BY <2>1, <2>2
<1>7. Cardinality(rows') = Len(done')
  <2>1. IsFiniteSet(rows) /\ Cardinality(rows) = Len(done)
    BY DEF OneChain, AuditTypes
  <2>2. Cardinality(rows \cup {d}) = Cardinality(rows) + 1
    BY <1>3, <2>1, FS_AddElement
  <2> QED
    BY <1>1, <2>1, <2>2
<1>8. \A r : Place(r)' = Place(r)
  BY DEF Place
<1> QED
  BY <1>4, <1>5, <1>6, <1>7 DEF OneChain, Place

\* The commit of a privileged request: its record is numbered after all others.
LEMMA CommitKeepsAudit ==
    ASSUME AuditInv, NEW q \in Operator, Audit!Commit(q)
    PROVE  AuditInv'
<1>1. PICK d \in AuditRow :
          /\ privileged[q].draft = {d} /\ \A r \in rows : r.sequence < d.sequence
          /\ d.sequence <= sequence
          /\ d.content = [actor |-> privileged[q].actor, action |-> privileged[q].action]
          /\ d.event_hash = Append(d.previous_hash, d.content)
          /\ damaged = "no" => d.previous_hash = done
  BY DEF AuditInv, DraftIsNext, Audit!Commit
<1>2. /\ rows' = rows \cup {d} /\ done' = Append(done, d.content)
      /\ UNCHANGED <<sequence, report, confirmed, damaged>>
      /\ privileged[q].at = "appended" /\ Audit!Enter(q, Audit!Idle)
  BY <1>1 DEF Audit!Commit
<1>3. /\ privileged' \in [Operator -> Privilege] /\ privileged'[q] = Audit!Idle
      /\ \A o \in Operator \ {q} : privileged'[o] = privileged[o]
  BY <1>2, IdlePrivilege, EnterOne DEF AuditInv
<1>4. \A r \in rows : r.sequence \in Nat
  BY DEF AuditInv, AuditTypes, AuditRow
<1>5. d.sequence \in Nat
  BY DEF AuditRow
<1>6. AuditTypes'
  <2>1. privileged[q] \in Privilege /\ privileged[q].actor \in Admin
    BY <1>2 DEF AuditInv, AuditTypes
  <2>2. mfa' \in [Admin -> Audit!Mfa]
    BY <2>1 DEF Audit!Commit, AuditInv, AuditTypes, Privilege
  <2>3. overtaken' \subseteq Admin
    BY <2>1 DEF Audit!Commit, AuditInv, AuditTypes
  <2>4. done' \in Seq(Audit!Content)
    <3>1. d.content \in Audit!Content
      BY DEF AuditRow
    <3> QED
      BY <1>2, <3>1 DEF AuditInv, AuditTypes
  <2>5. rows' \subseteq AuditRow /\ IsFiniteSet(rows') /\ \A r \in rows' : r.sequence <= sequence'
    <3>1. IsFiniteSet(rows \cup {d})
      BY FS_AddElement DEF AuditInv, AuditTypes
    <3> QED
      BY <1>1, <1>2, <3>1 DEF AuditInv, AuditTypes
  <2>6. \A o \in Operator : privileged'[o].at # "idle" =>
            privileged'[o].actor \in Admin /\ privileged'[o].action \in Audit!Actions
    BY <1>3, IdlePrivilege DEF AuditInv, AuditTypes
  <2> QED
    BY <1>2, <1>3, <2>2, <2>3, <2>4, <2>5, <2>6 DEF AuditInv, AuditTypes
<1>7. OneAppender'
  BY <1>3, IdlePrivilege DEF AuditInv, OneAppender
<1>8. DraftIsNext'
  BY <1>2, <1>3, IdlePrivilege DEF AuditInv, OneAppender, DraftIsNext
<1>9. HasNewest'
  <2>1. Audit!Newest(rows', d)
    BY <1>1, <1>2, <1>4, <1>5 DEF Audit!Newest
  <2> QED
    BY <1>2, <2>1 DEF HasNewest
<1>10. damaged' = "no" => OneChain'
  BY <1>1, <1>2, ChainGrows DEF AuditInv
<1>11. Audit!DamageIsDetected'
  <2> SUFFICES ASSUME damaged \in {"modified", "reordered", "removed"}  PROVE ~Audit!verify_chain(rows')
    BY <1>2 DEF Audit!DamageIsDetected
  <2>1. PICK r \in rows : ~(Audit!Follows(rows, r) /\ r.event_hash = Audit!event_hash(r.content, r.previous_hash))
    BY DEF AuditInv, Audit!DamageIsDetected, Audit!verify_chain
  <2>2. Audit!Follows(rows', r) <=> Audit!Follows(rows, r)
    BY <1>1, <1>2, TopRowKeepsLinks DEF AuditInv
  <2> QED
    BY <1>2, <2>1, <2>2 DEF Audit!verify_chain
<1> QED
  BY <1>6, <1>7, <1>8, <1>9, <1>10, <1>11 DEF AuditInv

-------------------------------------------------------------------------------
(* The audit chain: damage *)

\* Two rows of an undamaged chain are linked to different hashes.
LEMMA LinksDiffer ==
    ASSUME AuditTypes, OneChain, NEW r \in rows, NEW s \in rows, r # s
    PROVE  /\ r.previous_hash # s.previous_hash /\ r.event_hash # s.event_hash
           /\ r.sequence # s.sequence
<1>1. /\ Place(r) \in Nat /\ Place(s) \in Nat /\ r.sequence \in Nat /\ s.sequence \in Nat
  <2>1. Place(r) \in 1..Len(done) /\ Place(s) \in 1..Len(done)
    BY DEF OneChain
  <2>2. r.sequence \in 1..MaxSequence /\ s.sequence \in 1..MaxSequence
    BY DEF AuditTypes, AuditRow
  <2> QED
    BY <2>1, <2>2
<1>2. r.sequence # s.sequence
  BY DEF OneChain
<1>3. Place(r) # Place(s)
  BY <1>1, <1>2 DEF OneChain
<1>4. /\ Place(r) = Len(r.previous_hash) + 1 /\ Place(s) = Len(s.previous_hash) + 1
  <2>1. /\ r.previous_hash \in Seq(Audit!Content) /\ s.previous_hash \in Seq(Audit!Content)
        /\ r.event_hash = Append(r.previous_hash, r.content)
        /\ s.event_hash = Append(s.previous_hash, s.content)
    BY DEF AuditTypes, AuditRow, OneChain
  <2> QED
    BY <2>1 DEF Place
<1> QED
  BY <1>2, <1>3, <1>4 DEF Place

\* A changed record no longer hashes to its hash.
LEMMA ModificationDetected ==
    ASSUME AuditTypes, OneChain, NEW r \in rows, NEW content \in Audit!Content, content # r.content,
           rows' = (rows \ {r}) \cup {[r EXCEPT !.content = content]}
    PROVE  ~Audit!verify_chain(rows')
<1> DEFINE m == [r EXCEPT !.content = content]
<1>1. /\ m \in rows' /\ m.content = content /\ m.previous_hash = r.previous_hash
      /\ m.event_hash = r.event_hash
  BY DEF AuditTypes, AuditRow
<1>2. r.event_hash = Append(r.previous_hash, r.content) /\ r.previous_hash \in Seq(Audit!Content)
      /\ r.content \in Audit!Content
  BY DEF OneChain, AuditTypes, AuditRow
<1>3. Append(r.previous_hash, r.content) # Append(r.previous_hash, content)
  <2>1. Append(r.previous_hash, r.content)[Len(r.previous_hash) + 1] = r.content
    BY <1>2
  <2>2. Append(r.previous_hash, content)[Len(r.previous_hash) + 1] = content
    BY <1>2
  <2> QED
    BY <2>1, <2>2
<1> HIDE DEF m
<1> QED
  BY <1>1, <1>2, <1>3 DEF Audit!verify_chain, Audit!event_hash

\* Of two records that changed places, the one that comes first has the link of the other.
LEMMA ReorderDetected ==
    ASSUME AuditTypes, OneChain, NEW r \in rows, NEW s \in rows, r.sequence < s.sequence,
           rows' = (rows \ {r, s}) \cup {[r EXCEPT !.sequence = s.sequence],
                                         [s EXCEPT !.sequence = r.sequence]}
    PROVE  ~Audit!verify_chain(rows')
<1> DEFINE later == [r EXCEPT !.sequence = s.sequence]
           sooner == [s EXCEPT !.sequence = r.sequence]
<1>1. /\ sooner.sequence = r.sequence /\ sooner.previous_hash = s.previous_hash
      /\ later.sequence = s.sequence
  BY DEF AuditTypes, AuditRow
<1>2. rows' = (rows \ {r, s}) \cup {later, sooner}
  OBVIOUS
<1> HIDE DEF later, sooner
<1>3. \A t \in rows : t.sequence \in Nat
  BY DEF AuditTypes, AuditRow
<1>4. Audit!Before(rows', sooner) = Audit!Before(rows, r)
  BY <1>1, <1>2, <1>3 DEF Audit!Before
<1>5. Audit!Follows(rows, r)
  BY ChainVerifies DEF Audit!verify_chain
<1>6. sooner.previous_hash # r.previous_hash
  BY <1>1, <1>3, LinksDiffer
<1> DEFINE link(before) == IF before = {} THEN Audit!GENESIS_HASH
                           ELSE (CHOOSE t \in before : Audit!Newest(before, t)).event_hash
<1>7. ~Audit!Follows(rows', sooner)
  <2>1. r.previous_hash = link(Audit!Before(rows, r))
    BY <1>5 DEF Audit!Follows
  <2>2. Audit!Follows(rows', sooner) => sooner.previous_hash = link(Audit!Before(rows', sooner))
    BY DEF Audit!Follows
  <2> HIDE DEF link
  <2> QED
    BY <1>4, <1>6, <2>1, <2>2
<1> QED
  BY <1>2, <1>7 DEF Audit!verify_chain

\* The record after a removed one is linked to nothing that is left before it.
LEMMA RemovalDetected ==
    ASSUME AuditTypes, OneChain, NEW r \in rows, ~Audit!Newest(rows, r), rows' = rows \ {r}
    PROVE  ~Audit!verify_chain(rows')
<1>0. \A s \in rows : Place(s) \in 1..Len(done) /\ s.sequence \in Nat
  BY DEF OneChain, AuditTypes, AuditRow
<1>1. PICK s \in rows : Place(s) = Place(r) + 1
  <2>1. PICK t \in rows : r.sequence < t.sequence
    BY <1>0 DEF Audit!Newest
  <2>2. Place(r) < Place(t)
    BY <2>1 DEF OneChain
  <2>3. Place(r) + 1 \in 1..Len(done)
    BY <1>0, <2>2
  <2> QED
    BY <2>3 DEF OneChain
<1>2. s.previous_hash = r.event_hash /\ s # r
  BY <1>0, <1>1 DEF OneChain
<1> DEFINE before == Audit!Before(rows', s)
<1>3. \A t \in before : t \in rows /\ t # r
  BY DEF Audit!Before
<1>4. CASE before = {}
  <2>1. r.event_hash # <<>>
    BY <1>0 DEF Place
  <2> QED
    BY <1>2, <1>4, <2>1 DEF Audit!verify_chain, Audit!Follows, Audit!GENESIS_HASH
<1>5. CASE before # {}
  <2> DEFINE t == CHOOSE t \in before : Audit!Newest(before, t)
  <2>1. \E x \in before : Audit!Newest(before, x)
    <3>1. Place(r) > 1
      <4>1. PICK x \in before : TRUE
        BY <1>5
      <4>2. x \in rows /\ x # r /\ x.sequence < s.sequence
        BY <4>1, <1>3 DEF Audit!Before
      <4>3. Place(x) < Place(s) /\ Place(x) # Place(r)
        <5>1. x.sequence # r.sequence
          BY <4>2 DEF OneChain
        <5>2. Place(x) # Place(r)
          BY <1>0, <4>2, <5>1 DEF OneChain
        <5> QED
          BY <4>2, <5>2 DEF OneChain
      <4> QED
        BY <1>0, <1>1, <4>2, <4>3
    <3>2. PICK x \in rows : Place(x) = Place(r) - 1
      <4>1. Place(r) - 1 \in 1..Len(done)
        BY <1>0, <3>1
      <4> QED
        BY <4>1 DEF OneChain
    <3>3. x \in before
      <4>1. Place(x) < Place(s) /\ x # r
        BY <1>0, <1>1, <3>2
      <4> QED
        BY <4>1 DEF OneChain, Audit!Before
    <3>4. Audit!Newest(before, x)
      <4> SUFFICES ASSUME NEW y \in before  PROVE y.sequence <= x.sequence
        BY DEF Audit!Newest
      <4>1. y \in rows /\ y # r /\ y.sequence < s.sequence
        BY <1>3 DEF Audit!Before
      <4>2. Place(y) < Place(s)
        BY <4>1 DEF OneChain
      <4>3. Place(y) # Place(r)
        <5>1. y.sequence # r.sequence
          BY <4>1 DEF OneChain
        <5> QED
          BY <1>0, <4>1, <5>1 DEF OneChain
      <4>4. ~(Place(x) < Place(y))
        BY <1>0, <1>1, <3>2, <4>1, <4>2, <4>3
      <4> QED
        BY <1>0, <4>1, <4>4 DEF OneChain
    <3> QED
      BY <3>3, <3>4
  <2>2. t \in before
    BY <2>1
  <2>3. t.event_hash # r.event_hash
    BY <1>3, <2>2, LinksDiffer
  <2> HIDE DEF t
  <2>4. ~Audit!Follows(rows', s)
    BY <1>2, <1>5, <2>3 DEF Audit!Follows, t
  <2> QED
    BY <1>2, <2>4 DEF Audit!verify_chain
<1> QED
  BY <1>4, <1>5

\* Damage changes the table and nothing else, and the chain no longer verifies unless the
\* newest record was removed.
LEMMA DamageKeepsAudit ==
    ASSUME AuditInv, damaged = "no", damaged' # "no", rows' \subseteq AuditRow, IsFiniteSet(rows'),
           \A r \in rows' : \E s \in rows : r.sequence = s.sequence,
           HasNewest', damaged' # "tail removed" => ~Audit!verify_chain(rows'),
           UNCHANGED <<sequence, mfa, privileged, report, done, confirmed, overtaken>>
    PROVE  AuditInv'
<1>1. AuditTypes'
  BY DEF AuditInv, AuditTypes
<1>2. OneAppender' /\ DraftIsNext'
  <2>1. OneAppender'
    BY DEF AuditInv, OneAppender
  <2>2. ASSUME NEW d, \A s \in rows : s.sequence < d.sequence
        PROVE  \A r \in rows' : r.sequence < d.sequence
    BY <2>2
  <2>3. DraftIsNext'
    BY <2>2 DEF AuditInv, DraftIsNext
  <2> QED
    BY <2>1, <2>3
<1>3. Audit!DamageIsDetected'
  BY DEF Audit!DamageIsDetected, Audit!verify_chain, Audit!Follows, Audit!Before, Audit!Newest, Audit!event_hash
<1> QED
  BY <1>1, <1>2, <1>3 DEF AuditInv

LEMMA ModifyKeepsAudit ==
    ASSUME AuditInv, NEW r \in rows, NEW content \in Audit!Content, Audit!Modify(r, content)
    PROVE  AuditInv'
<1> DEFINE m == [r EXCEPT !.content = content]
<1>1. /\ rows' = (rows \ {r}) \cup {m} /\ damaged = "no" /\ damaged' = "modified"
      /\ UNCHANGED <<sequence, mfa, privileged, report, done, confirmed, overtaken>> /\ content # r.content
  BY DEF Audit!Modify, Audit!Damage
<1>2. m \in AuditRow /\ m.sequence = r.sequence
  BY DEF AuditInv, AuditTypes, AuditRow
<1>3. AuditTypes /\ OneChain
  BY <1>1 DEF AuditInv
<1>4. ~Audit!verify_chain(rows')
  BY <1>1, <1>3, ModificationDetected
<1> HIDE DEF m
<1>5. IsFiniteSet(rows')
  <2>1. IsFiniteSet(rows \ {r})
    BY <1>3, FS_RemoveElement DEF AuditTypes
  <2> QED
    BY <1>1, <2>1, FS_AddElement
<1>6. HasNewest'
  <2>1. PICK x \in rows : Audit!Newest(rows, x)
    BY DEF AuditInv, HasNewest
  <2>2. \A t \in rows' : t.sequence <= x.sequence
    BY <1>1, <1>2, <2>1 DEF Audit!Newest
  <2>3. x \in rows' \/ (m \in rows' /\ m.sequence = x.sequence)
    BY <1>1, <1>2
  <2> QED
    BY <2>2, <2>3 DEF HasNewest, Audit!Newest
<1>7. rows' \subseteq AuditRow /\ \A t \in rows' : \E s \in rows : t.sequence = s.sequence
  BY <1>1, <1>2 DEF AuditInv, AuditTypes
<1> QED
  BY <1>1, <1>4, <1>5, <1>6, <1>7, DamageKeepsAudit

LEMMA ReorderKeepsAudit ==
    ASSUME AuditInv, NEW r \in rows, NEW s \in rows, Audit!Reorder(r, s)
    PROVE  AuditInv'
<1> DEFINE a == [r EXCEPT !.sequence = s.sequence]
           b == [s EXCEPT !.sequence = r.sequence]
<1>1. /\ rows' = (rows \ {r, s}) \cup {a, b} /\ damaged = "no" /\ damaged' = "reordered"
      /\ UNCHANGED <<sequence, mfa, privileged, report, done, confirmed, overtaken>> /\ r # s
  BY DEF Audit!Reorder, Audit!Damage
<1>2. a \in AuditRow /\ b \in AuditRow /\ a.sequence = s.sequence /\ b.sequence = r.sequence
  BY DEF AuditInv, AuditTypes, AuditRow
<1>3. AuditTypes /\ OneChain
  BY <1>1 DEF AuditInv
<1>4. ~Audit!verify_chain(rows')
  <2>1. r.sequence \in Nat /\ s.sequence \in Nat /\ r.sequence # s.sequence
    BY <1>1, <1>3, LinksDiffer DEF AuditTypes, AuditRow
  <2>2. CASE r.sequence < s.sequence
    BY <1>1, <1>3, <2>2, ReorderDetected
  <2>3. CASE s.sequence < r.sequence
    <3>1. rows' = (rows \ {s, r}) \cup {b, a}
      BY <1>1
    <3> QED
      BY <1>3, <2>3, <3>1, ReorderDetected
  <2> QED
    BY <2>1, <2>2, <2>3
<1> HIDE DEF a, b
<1>5. IsFiniteSet(rows')
  <2>1. IsFiniteSet(rows \ {r, s})
    BY <1>3, FS_Subset DEF AuditTypes
  <2>2. IsFiniteSet((rows \ {r, s}) \cup {a})
    BY <2>1, FS_AddElement
  <2>3. IsFiniteSet(((rows \ {r, s}) \cup {a}) \cup {b})
    BY <2>2, FS_AddElement
  <2>4. rows' = ((rows \ {r, s}) \cup {a}) \cup {b}
    BY <1>1
  <2> QED
    BY <2>3, <2>4
<1>6. HasNewest'
  <2>1. PICK x \in rows : Audit!Newest(rows, x)
    BY DEF AuditInv, HasNewest
  <2>2. \A t \in rows' : t.sequence <= x.sequence
    BY <1>1, <1>2, <2>1 DEF Audit!Newest
  <2>3. \E y \in rows' : y.sequence = x.sequence
    BY <1>1, <1>2
  <2> QED
    BY <2>2, <2>3 DEF HasNewest, Audit!Newest
<1>7. rows' \subseteq AuditRow /\ \A t \in rows' : \E u \in rows : t.sequence = u.sequence
  BY <1>1, <1>2 DEF AuditInv, AuditTypes
<1> QED
  BY <1>1, <1>4, <1>5, <1>6, <1>7, DamageKeepsAudit

LEMMA RemoveKeepsAudit ==
    ASSUME AuditInv, NEW r \in rows, Audit!Remove(r)
    PROVE  AuditInv'
<1>1. /\ rows' = rows \ {r} /\ damaged = "no" /\ damaged' = IF Audit!Newest(rows, r) THEN "tail removed" ELSE "removed"
      /\ UNCHANGED <<sequence, mfa, privileged, report, done, confirmed, overtaken>>
  BY DEF Audit!Remove, Audit!Damage
<1>2. AuditTypes /\ OneChain
  BY <1>1 DEF AuditInv
<1>3. damaged' # "tail removed" => ~Audit!verify_chain(rows')
  BY <1>1, <1>2, RemovalDetected
<1>4. IsFiniteSet(rows')
  BY <1>1, <1>2, FS_RemoveElement DEF AuditTypes
<1>5. HasNewest'
  <2>1. PICK x \in rows : Audit!Newest(rows, x)
    BY DEF AuditInv, HasNewest
  <2>2. CASE x # r
    BY <1>1, <2>1, <2>2 DEF HasNewest, Audit!Newest
  <2>3. CASE x = r /\ rows' # {}
    <3>0. \A t \in rows : Place(t) \in 1..Len(done) /\ t.sequence \in Nat
      BY <1>2 DEF OneChain, AuditTypes, AuditRow
    <3>1. \A t \in rows \ {r} : t.sequence < r.sequence /\ Place(t) < Place(r)
      <4>1. \A t \in rows \ {r} : t.sequence < r.sequence
        BY <1>2, <2>1, <2>3, <3>0, LinksDiffer DEF Audit!Newest
      <4> QED
        BY <1>2, <4>1 DEF OneChain
    <3>2. Place(r) - 1 \in 1..Len(done)
      <4>1. PICK t \in rows \ {r} : TRUE
        BY <1>1, <2>3
      <4>2. Place(t) < Place(r) /\ Place(t) \in 1..Len(done) /\ Place(r) \in 1..Len(done)
        BY <3>0, <3>1, <4>1
      <4> QED
        BY <4>2
    <3>3. PICK y \in rows : Place(y) = Place(r) - 1
      BY <1>2, <3>2 DEF OneChain
    <3>4. y # r
      BY <3>0, <3>3
    <3>5. \A t \in rows \ {r} : ~(Place(y) < Place(t))
      BY <3>0, <3>1, <3>3
    <3>6. \A t \in rows \ {r} : t.sequence <= y.sequence
      BY <1>2, <3>0, <3>5 DEF OneChain
    <3> QED
      BY <1>1, <3>4, <3>6 DEF HasNewest, Audit!Newest
  <2> QED
    BY <2>2, <2>3 DEF HasNewest
<1>6. rows' \subseteq AuditRow /\ \A t \in rows' : \E u \in rows : t.sequence = u.sequence
  BY <1>1, <1>2 DEF AuditTypes
<1> QED
  BY <1>1, <1>3, <1>4, <1>5, <1>6, DamageKeepsAudit

-------------------------------------------------------------------------------
(* The audit chain: the invariant *)

LEMMA AuditInvInit == Audit!Init => AuditInv
<1> SUFFICES ASSUME Audit!Init  PROVE AuditInv
  OBVIOUS
<1> USE IdlePrivilege
<1>1. \A q \in Operator : privileged[q] = Audit!Idle
  BY DEF Audit!Init
<1>2. AuditTypes
  BY <1>1, FS_EmptySet, CommunityShapes DEF AuditTypes, Audit!Init, Audit!AuditShapes
<1>3. OneAppender /\ DraftIsNext /\ HasNewest
  BY <1>1 DEF OneAppender, DraftIsNext, HasNewest, Audit!Init
<1>4. OneChain
  BY FS_EmptySet DEF OneChain, Audit!Init
<1>5. Audit!DamageIsDetected
  BY DEF Audit!DamageIsDetected, Audit!Init
<1> QED
  BY <1>2, <1>3, <1>4, <1>5 DEF AuditInv

LEMMA AuditInvKept == AuditInv /\ [Audit!Next]_Audit!vars => AuditInv'
<1> SUFFICES ASSUME AuditInv, [Audit!Next]_Audit!vars  PROVE AuditInv'
  OBVIOUS
<1> USE IdlePrivilege
<1>0. AuditTypes
  BY DEF AuditInv
<1>1. ASSUME NEW q \in Operator, NEW u \in Admin, NEW secret \in Secret, Audit!Setup(q, u, secret)
      PROVE  AuditInv'
  <2> DEFINE next == [Audit!Idle EXCEPT !.at = "set", !.actor = u, !.action = "mfa_setup_started",
                                        !.mfa = [secret |-> secret, enabled |-> FALSE]]
  <2>1. next \in Privilege /\ next.at = "set" /\ next.actor = u /\ next.action \in Audit!Actions
    BY DEF Privilege, Audit!Idle, Audit!Mfa, Audit!Actions
  <2> HIDE DEF next
  <2>2. Audit!Enter(q, next) /\ Audit!NothingCommitted /\ confirmed' = confirmed
    BY <1>1 DEF Audit!Setup, next
  <2> QED
    BY <1>0, <2>1, <2>2, QuietStepKeepsAudit DEF Audit!NothingCommitted, AuditTypes
<1>2. ASSUME NEW q \in Operator, NEW u \in Admin, NEW code \in Audit!Codes, Audit!Confirm(q, u, code)
      PROVE  AuditInv'
  <2> DEFINE next == [Audit!Idle EXCEPT !.at = "read", !.actor = u, !.action = "mfa_enabled", !.mfa = mfa[u]]
  <2>1. next \in Privilege /\ next.at = "read" /\ next.actor = u /\ next.action \in Audit!Actions
    BY <1>0 DEF Privilege, Audit!Idle, Audit!Mfa, Audit!Actions, AuditTypes
  <2> HIDE DEF next
  <2>2. Audit!Enter(q, next) /\ Audit!NothingCommitted
    BY <1>2 DEF Audit!Confirm, next
  <2>3. confirmed' \subseteq Secret
    BY <1>0, <1>2 DEF Audit!Confirm, Audit!Codes, AuditTypes
  <2> QED
    BY <2>1, <2>2, <2>3, QuietStepKeepsAudit DEF Audit!NothingCommitted
<1>3. ASSUME NEW q \in Operator, NEW u \in Admin, NEW code \in Audit!Codes, Audit!Decide(q, u, code)
      PROVE  AuditInv'
  <2> DEFINE next == [Audit!Idle EXCEPT !.at = "set", !.actor = u, !.action = "report_decided"]
  <2>1. next \in Privilege /\ next.at = "set" /\ next.actor = u /\ next.action \in Audit!Actions
    BY DEF Privilege, Audit!Idle, Audit!Mfa, Audit!Actions
  <2> HIDE DEF next
  <2>2. Audit!Enter(q, next) /\ Audit!NothingCommitted /\ confirmed' = confirmed
    BY <1>3 DEF Audit!Decide, next
  <2> QED
    BY <1>0, <2>1, <2>2, QuietStepKeepsAudit DEF Audit!NothingCommitted, AuditTypes
<1>4. ASSUME NEW q \in Operator, Audit!ConfirmSet(q)
      PROVE  AuditInv'
  <2> DEFINE next == [privileged[q] EXCEPT !.at = "set", !.mfa = Audit!Enabled(q)]
  <2>1. privileged[q] \in Privilege /\ privileged[q].actor \in Admin /\ privileged[q].action \in Audit!Actions
    BY <1>0, <1>4 DEF AuditTypes, Audit!ConfirmSet
  <2>2. Audit!Enabled(q) \in Audit!Mfa
    BY <2>1 DEF Audit!Enabled, Audit!Mfa, Privilege
  <2>3. /\ next \in Privilege /\ next.at = "set"
        /\ next.actor = privileged[q].actor /\ next.action = privileged[q].action
    BY <2>1, <2>2 DEF Privilege
  <2> HIDE DEF next
  <2>4. Audit!Enter(q, next) /\ Audit!NothingCommitted /\ confirmed' = confirmed
    BY <1>4 DEF Audit!ConfirmSet, next
  <2> QED
    BY <1>0, <2>1, <2>3, <2>4, QuietStepKeepsAudit DEF Audit!NothingCommitted, AuditTypes
<1>5. ASSUME NEW q \in Operator, Audit!Lock(q)
      PROVE  AuditInv'
  <2> DEFINE next == [privileged[q] EXCEPT !.at = "locked"]
  <2>1. privileged[q] \in Privilege /\ privileged[q].actor \in Admin /\ privileged[q].action \in Audit!Actions
    BY <1>0, <1>5 DEF AuditTypes, Audit!Lock
  <2>2. /\ next \in Privilege /\ next.at = "locked"
        /\ next.actor = privileged[q].actor /\ next.action = privileged[q].action
    BY <2>1 DEF Privilege
  <2> HIDE DEF next
  <2>3. Audit!Enter(q, next) /\ Audit!NothingCommitted /\ confirmed' = confirmed /\ Audit!LockFree(q)
    BY <1>5 DEF Audit!Lock, next
  <2> QED
    BY <1>0, <2>1, <2>2, <2>3, QuietStepKeepsAudit DEF Audit!NothingCommitted, AuditTypes
<1>6. ASSUME NEW q \in Operator, Audit!Rollback(q)
      PROVE  AuditInv'
  BY <1>0, <1>6, QuietStepKeepsAudit DEF Audit!Rollback, Audit!NothingCommitted, AuditTypes
<1>7. ASSUME NEW u \in Admin, NEW code \in Audit!Codes, Audit!Inspect(u, code)
      PROVE  AuditInv'
  <2>1. UNCHANGED <<rows, sequence, mfa, privileged, done, confirmed, overtaken, damaged>>
        /\ report' \in {"none", "valid", "invalid"}
    BY <1>7 DEF Audit!Inspect
  <2> QED
    BY <2>1 DEF AuditInv, AuditTypes, OneAppender, DraftIsNext, HasNewest, OneChain,
       Audit!DamageIsDetected, Audit!Newest, Audit!verify_chain, Audit!Follows, Audit!Before
<1>8. CASE UNCHANGED Audit!vars
  <2>1. UNCHANGED <<rows, sequence, mfa, privileged, report, done, confirmed, overtaken, damaged>>
    BY <1>8 DEF Audit!vars
  <2>2. AuditTypes'
    BY <1>0, <2>1 DEF AuditTypes
  <2>3. OneAppender' /\ HasNewest'
    BY <2>1 DEF AuditInv, OneAppender, HasNewest, Audit!Newest
  <2>4. DraftIsNext'
    BY <2>1 DEF AuditInv, DraftIsNext
  <2>5. damaged' = "no" => OneChain'
    BY <2>1 DEF AuditInv, OneChain
  <2>6. Audit!DamageIsDetected'
    BY <2>1 DEF AuditInv, Audit!DamageIsDetected, Audit!verify_chain, Audit!Follows, Audit!Before, Audit!Newest
  <2> QED
    BY <2>2, <2>3, <2>4, <2>5, <2>6 DEF AuditInv
<1> QED
  BY <1>1, <1>2, <1>3, <1>4, <1>5, <1>6, <1>7, <1>8, InsertKeepsAudit, CommitKeepsAudit, ModifyKeepsAudit,
     ReorderKeepsAudit, RemoveKeepsAudit DEF Audit!Next

\* docs/phase-8:12: a changed, moved or removed record stays detected, whatever is appended
\* after it, for any number of records and of privileged requests at once.
THEOREM DamageStaysDetected == CommunitySpec => []DamageIsDetected
<1>1. AuditInv => DamageIsDetected
  BY DEF AuditInv, DamageIsDetected
<1> QED
  BY <1>1, AuditInvInit, AuditInvKept, AuditMovesAlone, PTL DEF Audit!Spec

-------------------------------------------------------------------------------
(* The TOTP enrolment *)

\* A confirmation in flight will write the secret its account has, unless a newer enrolment
\* overlapped it, and an enrolment in flight will not enable its secret.
EnrolmentInv ==
    \A q \in Operator : privileged[q].at # "idle" =>
        /\ privileged[q].action = "mfa_enabled" =>
               \/ privileged[q].mfa.secret = mfa[privileged[q].actor].secret
               \/ privileged[q].actor \in overtaken
        /\ privileged[q].action = "mfa_setup_started" => ~privileged[q].mfa.enabled
        /\ privileged[q].at = "read" => privileged[q].action = "mfa_enabled"

\* A step of one request that commits nothing.
LEMMA QuietStepKeepsEnrolments ==
    ASSUME AuditInv, EnrolmentInv, NEW q \in Operator, NEW next \in Privilege, Audit!Enter(q, next),
           mfa' = mfa, overtaken' = overtaken,
           next.at # "idle" =>
               /\ next.action = "mfa_enabled" =>
                      next.mfa.secret = mfa[next.actor].secret \/ next.actor \in overtaken
               /\ next.action = "mfa_setup_started" => ~next.mfa.enabled
               /\ next.at = "read" => next.action = "mfa_enabled"
    PROVE  EnrolmentInv'
<1>1. privileged'[q] = next /\ \A o \in Operator \ {q} : privileged'[o] = privileged[o]
  BY EnterOne DEF AuditInv
<1> QED
  BY <1>1 DEF EnrolmentInv

\* set_mfa: the commit of an enrolment marks whoever is confirming an older one.
LEMMA CommitKeepsEnrolments ==
    ASSUME AuditInv, EnrolmentInv, NEW q \in Operator, Audit!Commit(q)
    PROVE  /\ EnrolmentInv'
           /\ \A u \in Admin : mfa'[u].enabled /\ mfa'[u].secret # mfa[u].secret => u \in overtaken
<1> DEFINE u == privileged[q].actor
<1>1. privileged'[q] = Audit!Idle /\ \A o \in Operator \ {q} : privileged'[o] = privileged[o]
  BY IdlePrivilege, EnterOne DEF AuditInv, Audit!Commit
<1>2. privileged[q].at = "appended" /\ u \in Admin /\ privileged[q] \in Privilege
  BY DEF AuditInv, AuditTypes, Audit!Commit
<1>3. \A w \in Admin : w # u => mfa'[w] = mfa[w]
  BY DEF Audit!Commit, AuditInv, AuditTypes
<1>4. overtaken \subseteq overtaken'
  BY DEF Audit!Commit
<1>5. CASE privileged[q].action = "mfa_setup_started"
  <2>1. mfa'[u] = privileged[q].mfa
    BY <1>2, <1>5 DEF Audit!Commit, Audit!SetMfa, AuditInv, AuditTypes
  <2>2. ~mfa'[u].enabled
    BY <1>2, <1>5, <2>1 DEF EnrolmentInv
  <2>3. \A o \in Operator \ {q} : privileged[o].actor = u /\ privileged[o].action = "mfa_enabled" => u \in overtaken'
    BY <1>5 DEF Audit!Commit
  <2>4. EnrolmentInv'
    <3> SUFFICES ASSUME NEW o \in Operator, o # q, privileged[o].at # "idle"
                 PROVE  /\ privileged[o].action = "mfa_enabled" =>
                               \/ privileged[o].mfa.secret = mfa'[privileged[o].actor].secret
                               \/ privileged[o].actor \in overtaken'
                        /\ privileged[o].action = "mfa_setup_started" => ~privileged[o].mfa.enabled
                        /\ privileged[o].at = "read" => privileged[o].action = "mfa_enabled"
      BY <1>1, IdlePrivilege DEF EnrolmentInv
    <3>1. privileged[o].actor \in Admin
      BY DEF AuditInv, AuditTypes
    <3> QED
      BY <1>3, <1>4, <2>3, <3>1 DEF EnrolmentInv
  <2> QED
    BY <1>3, <2>2, <2>4
<1>6. CASE privileged[q].action = "mfa_enabled"
  <2>1. mfa'[u] = privileged[q].mfa
    BY <1>2, <1>6 DEF Audit!Commit, Audit!SetMfa, AuditInv, AuditTypes
  <2>2. mfa'[u].secret = mfa[u].secret \/ u \in overtaken
    BY <1>2, <1>6, <2>1 DEF EnrolmentInv
  <2>3. EnrolmentInv'
    <3> SUFFICES ASSUME NEW o \in Operator, o # q, privileged[o].at # "idle"
                 PROVE  /\ privileged[o].action = "mfa_enabled" =>
                               \/ privileged[o].mfa.secret = mfa'[privileged[o].actor].secret
                               \/ privileged[o].actor \in overtaken'
                        /\ privileged[o].action = "mfa_setup_started" => ~privileged[o].mfa.enabled
                        /\ privileged[o].at = "read" => privileged[o].action = "mfa_enabled"
      BY <1>1, IdlePrivilege DEF EnrolmentInv
    <3>1. privileged[o].actor \in Admin
      BY DEF AuditInv, AuditTypes
    <3> QED
      BY <1>3, <1>4, <2>2, <3>1 DEF EnrolmentInv
  <2> QED
    BY <1>3, <2>2, <2>3
<1>7. CASE privileged[q].action \notin {"mfa_setup_started", "mfa_enabled"}
  <2>1. mfa' = mfa
    BY <1>7 DEF Audit!Commit, Audit!SetMfa
  <2> QED
    BY <1>1, <1>4, <2>1, IdlePrivilege DEF EnrolmentInv
<1> QED
  BY <1>5, <1>6, <1>7

LEMMA EnrolmentInvKept ==
    AuditInv /\ EnrolmentInv /\ [Audit!Next]_Audit!vars =>
        /\ EnrolmentInv'
        /\ \A u \in Admin : mfa'[u].enabled /\ mfa'[u].secret # mfa[u].secret => u \in overtaken
<1> SUFFICES ASSUME AuditInv, EnrolmentInv, [Audit!Next]_Audit!vars
             PROVE  /\ EnrolmentInv'
                    /\ \A u \in Admin : mfa'[u].enabled /\ mfa'[u].secret # mfa[u].secret => u \in overtaken
  OBVIOUS
<1> USE IdlePrivilege
<1>0. AuditTypes
  BY DEF AuditInv
<1>1. ASSUME NEW q \in Operator, NEW u \in Admin, NEW secret \in Secret, Audit!Setup(q, u, secret)
      PROVE  EnrolmentInv'
  <2> DEFINE next == [Audit!Idle EXCEPT !.at = "set", !.actor = u, !.action = "mfa_setup_started",
                                        !.mfa = [secret |-> secret, enabled |-> FALSE]]
  <2>1. next \in Privilege /\ next.at = "set" /\ next.action = "mfa_setup_started" /\ ~next.mfa.enabled
    BY DEF Privilege, Audit!Idle, Audit!Mfa, Audit!Actions
  <2> HIDE DEF next
  <2>2. Audit!Enter(q, next) /\ Audit!NothingCommitted
    BY <1>1 DEF Audit!Setup, next
  <2> QED
    BY <2>1, <2>2, QuietStepKeepsEnrolments DEF Audit!NothingCommitted
<1>2. ASSUME NEW q \in Operator, NEW u \in Admin, NEW code \in Audit!Codes, Audit!Confirm(q, u, code)
      PROVE  EnrolmentInv'
  <2> DEFINE next == [Audit!Idle EXCEPT !.at = "read", !.actor = u, !.action = "mfa_enabled", !.mfa = mfa[u]]
  <2>1. next \in Privilege /\ next.action = "mfa_enabled" /\ next.mfa = mfa[u] /\ next.actor = u
    BY <1>0 DEF Privilege, Audit!Idle, Audit!Mfa, Audit!Actions, AuditTypes
  <2> HIDE DEF next
  <2>2. Audit!Enter(q, next) /\ Audit!NothingCommitted
    BY <1>2 DEF Audit!Confirm, next
  <2> QED
    BY <2>1, <2>2, QuietStepKeepsEnrolments DEF Audit!NothingCommitted
<1>3. ASSUME NEW q \in Operator, NEW u \in Admin, NEW code \in Audit!Codes, Audit!Decide(q, u, code)
      PROVE  EnrolmentInv'
  <2> DEFINE next == [Audit!Idle EXCEPT !.at = "set", !.actor = u, !.action = "report_decided"]
  <2>1. next \in Privilege /\ next.at = "set" /\ next.action = "report_decided"
    BY DEF Privilege, Audit!Idle, Audit!Mfa, Audit!Actions
  <2> HIDE DEF next
  <2>2. Audit!Enter(q, next) /\ Audit!NothingCommitted
    BY <1>3 DEF Audit!Decide, next
  <2> QED
    BY <2>1, <2>2, QuietStepKeepsEnrolments DEF Audit!NothingCommitted
<1>4. ASSUME NEW q \in Operator, Audit!ConfirmSet(q)
      PROVE  EnrolmentInv'
  <2> DEFINE next == [privileged[q] EXCEPT !.at = "set", !.mfa = Audit!Enabled(q)]
  <2>1. privileged[q] \in Privilege /\ privileged[q].at = "read"
    BY <1>0, <1>4 DEF AuditTypes, Audit!ConfirmSet
  <2>2. Audit!Enabled(q) \in Audit!Mfa /\ Audit!Enabled(q).secret = privileged[q].mfa.secret
    BY <2>1 DEF Audit!Enabled, Audit!Mfa, Privilege
  <2>3. /\ next \in Privilege /\ next.at = "set" /\ next.mfa.secret = privileged[q].mfa.secret
        /\ next.actor = privileged[q].actor /\ next.action = privileged[q].action
    BY <2>1, <2>2 DEF Privilege
  <2> HIDE DEF next
  <2>4. Audit!Enter(q, next) /\ Audit!NothingCommitted
    BY <1>4 DEF Audit!ConfirmSet, next
  <2>5. privileged[q].action # "mfa_setup_started"
    BY <2>1 DEF EnrolmentInv
  <2> QED
    BY <2>1, <2>3, <2>4, <2>5, QuietStepKeepsEnrolments DEF Audit!NothingCommitted, EnrolmentInv
<1>5. ASSUME NEW q \in Operator, Audit!Lock(q)
      PROVE  EnrolmentInv'
  <2> DEFINE next == [privileged[q] EXCEPT !.at = "locked"]
  <2>1. privileged[q] \in Privilege /\ privileged[q].at = "set"
    BY <1>0, <1>5 DEF AuditTypes, Audit!Lock
  <2>2. /\ next \in Privilege /\ next.at = "locked" /\ next.mfa = privileged[q].mfa
        /\ next.actor = privileged[q].actor /\ next.action = privileged[q].action
    BY <2>1 DEF Privilege
  <2> HIDE DEF next
  <2>3. Audit!Enter(q, next) /\ Audit!NothingCommitted
    BY <1>5 DEF Audit!Lock, next
  <2> QED
    BY <2>1, <2>2, <2>3, QuietStepKeepsEnrolments DEF Audit!NothingCommitted, EnrolmentInv
<1>6. ASSUME NEW q \in Operator, Audit!Insert(q)
      PROVE  EnrolmentInv'
  <2>1. PICK next : /\ privileged'[q] = next /\ next.at = "appended" /\ next.mfa = privileged[q].mfa
                    /\ next.actor = privileged[q].actor /\ next.action = privileged[q].action
    <3>1. privileged[q] \in Privilege /\ \E d : privileged'[q] = [privileged[q] EXCEPT !.at = "appended", !.draft = {d}]
      BY <1>0, <1>6 DEF Audit!Insert, Audit!Enter, AuditTypes
    <3> QED
      BY <3>1 DEF Privilege
  <2>2. privileged[q].at = "locked" /\ mfa' = mfa /\ overtaken' = overtaken
        /\ \A o \in Operator \ {q} : privileged'[o] = privileged[o]
    BY <1>0, <1>6 DEF Audit!Insert, Audit!Enter, AuditTypes
  <2> QED
    BY <2>1, <2>2 DEF EnrolmentInv
<1>7. ASSUME NEW q \in Operator, Audit!Rollback(q)
      PROVE  EnrolmentInv'
  BY <1>7, QuietStepKeepsEnrolments DEF Audit!Rollback, Audit!NothingCommitted
<1>8. ASSUME privileged' = privileged, mfa' = mfa, overtaken' = overtaken
      PROVE  EnrolmentInv'
  BY <1>8 DEF EnrolmentInv
<1>9. CASE \E q \in Operator : Audit!Commit(q)
  BY <1>9, CommitKeepsEnrolments
<1>10. CASE ~\E q \in Operator : Audit!Commit(q)
  <2>1. mfa' = mfa
    BY <1>10 DEF Audit!Next, Audit!vars, Audit!Setup, Audit!Confirm, Audit!Decide, Audit!ConfirmSet, Audit!Lock,
       Audit!Insert, Audit!Rollback, Audit!Inspect, Audit!Modify, Audit!Reorder, Audit!Remove, Audit!Damage,
       Audit!NothingCommitted
  <2>2. EnrolmentInv'
    BY <1>1, <1>2, <1>3, <1>4, <1>5, <1>6, <1>7, <1>8, <1>10 DEF Audit!Next, Audit!vars,
       Audit!Inspect, Audit!Modify, Audit!Reorder, Audit!Remove, Audit!Damage
  <2> QED
    BY <2>1, <2>2
<1> QED
  BY <1>9, <1>10

\* confirm_mfa writes back the secret it read: it undoes a newer enrolment only if it
\* overlapped its commit, for any number of privileged accounts and requests.
THEOREM EnrolmentLossIsOverlap == CommunitySpec => NewerEnrolmentLostByOverlap
<1>1. Audit!Init => AuditInv /\ EnrolmentInv
  <2>1. Audit!Init => EnrolmentInv
    BY IdlePrivilege DEF Audit!Init, EnrolmentInv
  <2> QED
    BY <2>1, AuditInvInit
<1>2. AuditInv /\ EnrolmentInv /\ [Audit!Next]_Audit!vars =>
          /\ (AuditInv /\ EnrolmentInv)'
          /\ [\A u \in Admin : mfa'[u].enabled /\ mfa'[u].secret # mfa[u].secret => u \in overtaken]_Audit!vars
  BY AuditInvKept, EnrolmentInvKept
<1> QED
  BY <1>1, <1>2, AuditMovesAlone, PTL DEF Audit!Spec, NewerEnrolmentLostByOverlap, Audit!NewerEnrolmentLostByOverlap

-------------------------------------------------------------------------------
(* The moderation desk: shapes and locks *)

LEMMA DeskMovesAlone == CommunitySpec => Desk!Spec
<1>1. CommunityInit => Desk!Init
  BY DEF CommunityInit
<1>2. [CommunityNext]_<<vars, desk, audit, component>> => [Desk!Next]_Desk!vars
  BY DEF CommunityNext, desk, Desk!vars
<1> QED
  BY <1>1, <1>2, PTL DEF CommunitySpec, Desk!Spec

DeskTypes == Desk!TypeOK /\ decisions \in [User -> [approved : Nat, rejected : Nat]]

\* No two requests hold one lock.
LocksAreExclusive ==
    \A q, o \in Moderator : q # o => decided[q].locks \cap decided[o].locks = {}

\* What a request decides about, and the locks it took to get where it is: the appeal, the
\* report, the reputation row and last the audit chain.
Deciding(t) ==
    /\ t.at \in {"idle", "appealing", "filed"} => t.locks = {}
    /\ t.at = "resolved" => /\ t.locks \subseteq Appeal /\ t.appeal \in Appeal
                            /\ t.state # "unfiled" /\ t.report = NoReport
    /\ t.at = "decided" => t.locks \subseteq Appeal \cup ReportId
    /\ t.at = "credited" => t.locks \subseteq Appeal \cup ReportId \cup User
    /\ t.at \in {"decided", "credited", "appealing", "filed"} => t.report \in ReportId
    /\ t.at \in {"decided", "credited"} => t.verdict # "pending"
    /\ t.at \in {"decided", "credited", "ready"} /\ t.appeal \in Appeal => t.state # "unfiled"
    /\ t.at = "filed" => t.appeal \in Appeal
    /\ t.at = "credited" => t.locks \cap User = {ReporterOf[t.report]}
    /\ t.at = "ready" => /\ t.report \in ReportId => t.locks \cap User = {ReporterOf[t.report]}
                         /\ t.report = NoReport => t.locks \cap User = {}
                         /\ t.report \in ReportId => t.verdict # "pending"

\* An appeal that is being resolved was filed.
ResolvedWereFiled ==
    \A q \in Moderator : decided[q].at \in {"resolved", "decided", "credited", "ready"} /\ decided[q].appeal \in Appeal =>
        appeals[decided[q].appeal] # Desk!Unfiled

\* The reputation row it wrote is what its decision makes of the committed one.
DraftsFollow ==
    \A q \in Moderator : decided[q].at \in {"credited", "ready"} /\ decided[q].report \in ReportId =>
        decided[q].draft = Desk!Adjusted(reputation[ReporterOf[decided[q].report]],
                                         decided[q].verdict = "published")

DeskInv ==
    /\ DeskTypes /\ LocksAreExclusive /\ ResolvedWereFiled /\ DraftsFollow
    /\ \A q \in Moderator : Deciding(decided[q])
    /\ Desk!ReputationFollowsDecisions

LEMMA IdleDecision ==
    /\ Desk!Idle \in Desk!Transactions /\ Desk!Idle.at = "idle" /\ Desk!Idle.locks = {}
    /\ Deciding(Desk!Idle) /\ Desk!Fresh \in Desk!Scores
BY DEF Desk!Idle, Desk!Transactions, Deciding, Desk!Statuses, Desk!Scores, Desk!Fresh

\* A request that changes nothing but itself.
LEMMA QuietStepKeepsDesk ==
    ASSUME DeskInv, NEW q \in Moderator, NEW next \in Desk!Transactions,
           decided' = [decided EXCEPT ![q] = next],
           UNCHANGED <<status, appeals, reputation, decisions>>, overlap' \subseteq ReportId,
           Deciding(next),
           \A o \in Moderator \ {q} : next.locks \cap decided[o].locks = {},
           next.at \in {"resolved", "decided", "credited", "ready"} /\ next.appeal \in Appeal =>
               appeals[next.appeal] # Desk!Unfiled,
           next.at \in {"credited", "ready"} /\ next.report \in ReportId =>
               next.draft = Desk!Adjusted(reputation[ReporterOf[next.report]], next.verdict = "published")
    PROVE  DeskInv'
<1>1. /\ decided' \in [Moderator -> Desk!Transactions] /\ decided'[q] = next
      /\ \A o \in Moderator \ {q} : decided'[o] = decided[o]
  BY DEF DeskInv, DeskTypes, Desk!TypeOK
<1>2. DeskTypes'
  BY <1>1 DEF DeskInv, DeskTypes, Desk!TypeOK
<1>3. LocksAreExclusive'
  BY <1>1 DEF DeskInv, LocksAreExclusive
<1>4. ResolvedWereFiled'
  BY <1>1 DEF DeskInv, ResolvedWereFiled
<1>5. DraftsFollow'
  BY <1>1 DEF DeskInv, DraftsFollow, Desk!Adjusted
<1>6. \A o \in Moderator : Deciding(decided'[o])
  BY <1>1 DEF DeskInv
<1>7. Desk!ReputationFollowsDecisions'
  BY DEF DeskInv, Desk!ReputationFollowsDecisions
<1> QED
  BY <1>2, <1>3, <1>4, <1>5, <1>6, <1>7 DEF DeskInv, Deciding

\* A statement that takes a lock nobody else holds.
LEMMA EnterKeepsDesk ==
    ASSUME DeskInv, NEW q \in Moderator, NEW x \in Desk!Locks, NEW next \in Desk!Transactions,
           Desk!Enter(q, x, next), next.locks \subseteq decided[q].locks,
           \A t \in Desk!Transactions :
               /\ t.at = next.at /\ t.report = next.report /\ t.appeal = next.appeal
               /\ t.verdict = next.verdict /\ t.state = next.state /\ t.locks = next.locks \cup {x}
               => Deciding(t),
           next.at \in {"resolved", "decided", "credited", "ready"} /\ next.appeal \in Appeal =>
               appeals[next.appeal] # Desk!Unfiled,
           next.at \in {"credited", "ready"} /\ next.report \in ReportId =>
               next.draft = Desk!Adjusted(reputation[ReporterOf[next.report]], next.verdict = "published")
    PROVE  DeskInv'
<1> DEFINE after == [next EXCEPT !.locks = next.locks \cup {x}]
<1>1. next.locks \cup {x} \in SUBSET Desk!Locks
  BY DEF Desk!Transactions
<1>2. /\ after \in Desk!Transactions /\ after.at = next.at /\ after.report = next.report
      /\ after.appeal = next.appeal /\ after.verdict = next.verdict /\ after.state = next.state
      /\ after.draft = next.draft /\ after.locks = next.locks \cup {x}
  BY <1>1 DEF Desk!Transactions
<1>3. decided' = [decided EXCEPT ![q] = after]
      /\ UNCHANGED <<status, appeals, reputation, decisions, overlap>>
  BY DEF Desk!Enter
<1> HIDE DEF after
<1>4. \A o \in Moderator \ {q} : after.locks \cap decided[o].locks = {}
  <2> SUFFICES ASSUME NEW o \in Moderator \ {q}  PROVE (next.locks \cup {x}) \cap decided[o].locks = {}
    BY <1>2
  <2>1. x \notin decided[o].locks
    BY DEF Desk!Enter, Desk!Free
  <2>2. decided[q].locks \cap decided[o].locks = {}
    BY DEF DeskInv, LocksAreExclusive
  <2> QED
    BY <2>1, <2>2
<1>5. Deciding(after) /\ overlap' \subseteq ReportId
  BY <1>2, <1>3 DEF DeskInv, DeskTypes, Desk!TypeOK
<1>6. after.at \in {"resolved", "decided", "credited", "ready"} /\ after.appeal \in Appeal =>
          appeals[after.appeal] # Desk!Unfiled
  BY <1>2
<1>7. after.at \in {"credited", "ready"} /\ after.report \in ReportId =>
          after.draft = Desk!Adjusted(reputation[ReporterOf[after.report]], after.verdict = "published")
  BY <1>2
<1> QED
  BY <1>2, <1>3, <1>4, <1>5, <1>6, <1>7, QuietStepKeepsDesk

\* service.moderate
LEMMA ModerateKeepsDesk ==
    ASSUME DeskInv, NEW q \in Moderator, NEW r \in ReportId, NEW verdict \in {"published", "rejected"},
           Desk!Moderate(q, r, verdict)
    PROVE  DeskInv'
<1> DEFINE next == [Desk!Idle EXCEPT !.at = "decided", !.report = r, !.verdict = verdict]
<1>1. /\ next \in Desk!Transactions /\ next.at = "decided" /\ next.report = r /\ next.verdict = verdict
      /\ next.appeal = NoAppeal /\ next.locks = {}
  <2>1. /\ Desk!Idle \in Desk!Transactions /\ Desk!Idle.appeal = NoAppeal /\ Desk!Idle.report = NoReport
        /\ Desk!Idle.locks = {}
    BY IdleDecision DEF Desk!Idle
  <2> QED
    BY <2>1 DEF Desk!Transactions, Desk!Statuses
<1> HIDE DEF next
<1>2. Desk!Enter(q, r, next) /\ r \in Desk!Locks
  BY DEF Desk!Moderate, next, Desk!Locks
<1>3. NoAppeal \notin Appeal
  BY CommunityShapes DEF Desk!ModerationShapes
<1>4. ASSUME NEW t \in Desk!Transactions, t.at = next.at, t.report = next.report, t.appeal = next.appeal,
             t.verdict = next.verdict, t.locks = next.locks \cup {r}
      PROVE  Deciding(t)
  BY <1>1, <1>3, <1>4 DEF Deciding
<1> QED
  BY <1>1, <1>2, <1>3, <1>4, EnterKeepsDesk

\* adjust_reputation
LEMMA AdjustKeepsDesk ==
    ASSUME DeskInv, NEW q \in Moderator, Desk!Adjust(q)
    PROVE  DeskInv'
<1> DEFINE t0 == decided[q]
           draft == Desk!Adjusted(reputation[Desk!Reporter(q)], t0.verdict = "published")
           next == [t0 EXCEPT !.at = "credited", !.draft = draft]
<1>1. t0 \in Desk!Transactions /\ t0.at = "decided" /\ Deciding(t0)
  BY DEF DeskInv, DeskTypes, Desk!TypeOK, Desk!Adjust
<1>2. t0.report \in ReportId /\ Desk!Reporter(q) = ReporterOf[t0.report] /\ Desk!Reporter(q) \in User
  BY <1>1, CommunityShapes DEF Deciding, Desk!Reporter, Desk!ModerationShapes
<1>3. draft \in Desk!Scores
  <2>1. reputation[Desk!Reporter(q)] \in Desk!Scores
    BY <1>2 DEF DeskInv, DeskTypes, Desk!TypeOK
  <2> QED
    BY <2>1 DEF Desk!Adjusted, Desk!Scores
<1> HIDE DEF draft
<1>4. /\ next \in Desk!Transactions /\ next.at = "credited" /\ next.draft = draft /\ next.report = t0.report
      /\ next.appeal = t0.appeal /\ next.verdict = t0.verdict /\ next.state = t0.state /\ next.locks = t0.locks
  BY <1>1, <1>3 DEF Desk!Transactions
<1> HIDE DEF next
<1>5. Desk!Enter(q, Desk!Reporter(q), next) /\ Desk!Reporter(q) \in Desk!Locks
  BY <1>2 DEF Desk!Adjust, next, draft, Desk!Locks
<1>6. ASSUME NEW t \in Desk!Transactions, t.at = next.at, t.report = next.report, t.appeal = next.appeal,
             t.verdict = next.verdict, t.state = next.state, t.locks = next.locks \cup {Desk!Reporter(q)}
      PROVE  Deciding(t)
  <2>1. t.locks \cap User = {Desk!Reporter(q)}
    BY <1>1, <1>2, <1>4, <1>6, CommunityShapes DEF Deciding, Desk!ModerationShapes
  <2> QED
    BY <1>1, <1>2, <1>4, <1>6, <2>1 DEF Deciding
<1>7. t0.appeal \in Appeal => appeals[t0.appeal] # Desk!Unfiled
  BY <1>1 DEF DeskInv, ResolvedWereFiled
<1>8. next.draft = Desk!Adjusted(reputation[ReporterOf[next.report]], next.verdict = "published")
  BY <1>2, <1>4 DEF draft
<1> QED
  BY <1>4, <1>5, <1>6, <1>7, <1>8, EnterKeepsDesk

\* audit.append, the last statement of a decision.
LEMMA AuditKeepsDesk ==
    ASSUME DeskInv, NEW q \in Moderator, Desk!Audit(q)
    PROVE  DeskInv'
<1> DEFINE t0 == decided[q]
           next == [t0 EXCEPT !.at = "ready"]
<1>1. /\ t0 \in Desk!Transactions /\ Deciding(t0)
      /\ t0.at = "credited" \/ t0.at = "resolved"
  BY DEF DeskInv, DeskTypes, Desk!TypeOK, Desk!Audit
<1>2. /\ next \in Desk!Transactions /\ next.at = "ready" /\ next.draft = t0.draft /\ next.report = t0.report
      /\ next.appeal = t0.appeal /\ next.verdict = t0.verdict /\ next.state = t0.state /\ next.locks = t0.locks
  BY <1>1 DEF Desk!Transactions
<1> HIDE DEF next
<1>3. Desk!Enter(q, "audit", next) /\ "audit" \in Desk!Locks
  BY DEF Desk!Audit, next, Desk!Locks
<1>4. ASSUME NEW t \in Desk!Transactions, t.at = next.at, t.report = next.report, t.appeal = next.appeal,
             t.verdict = next.verdict, t.state = next.state, t.locks = next.locks \cup {"audit"}
      PROVE  Deciding(t)
  <2>1. t.locks \cap User = t0.locks \cap User
    BY <1>2, <1>4, CommunityShapes DEF Desk!ModerationShapes
  <2>2. NoReport \notin ReportId
    BY CommunityShapes DEF Desk!ModerationShapes
  <2>3. CASE t0.at = "credited"
    BY <1>1, <1>2, <1>4, <2>1, <2>2, <2>3 DEF Deciding
  <2>4. CASE t0.at = "resolved"
    <3>1. t0.locks \cap User = {}
      BY <1>1, <2>4, CommunityShapes DEF Deciding, Desk!ModerationShapes
    <3> QED
      BY <1>1, <1>2, <1>4, <2>1, <2>2, <2>4, <3>1 DEF Deciding
  <2> QED
    BY <1>1, <2>3, <2>4
<1>5. t0.appeal \in Appeal => appeals[t0.appeal] # Desk!Unfiled
  BY <1>1 DEF DeskInv, ResolvedWereFiled
<1>6. next.report \in ReportId =>
          next.draft = Desk!Adjusted(reputation[ReporterOf[next.report]], next.verdict = "published")
  <2>1. t0.report \in ReportId => t0.at = "credited"
    BY <1>1, CommunityShapes DEF Deciding, Desk!ModerationShapes
  <2> QED
    BY <1>2, <2>1 DEF DeskInv, DraftsFollow
<1> QED
  BY <1>2, <1>3, <1>4, <1>5, <1>6, EnterKeepsDesk

\* service.resolve_appeal locks the appeal it decides.
LEMMA ResolveKeepsDesk ==
    ASSUME DeskInv, NEW q \in Moderator, NEW a \in Appeal, NEW state \in {"upheld", "overturned"},
           Desk!Resolve(q, a, state)
    PROVE  DeskInv'
<1> DEFINE next == [Desk!Idle EXCEPT !.at = "resolved", !.appeal = a, !.state = state]
<1>1. /\ next \in Desk!Transactions /\ next.at = "resolved" /\ next.report = NoReport /\ next.state = state
      /\ next.appeal = a /\ next.locks = {}
  <2>1. /\ Desk!Idle \in Desk!Transactions /\ Desk!Idle.appeal = NoAppeal /\ Desk!Idle.report = NoReport
        /\ Desk!Idle.locks = {}
    BY IdleDecision DEF Desk!Idle
  <2> QED
    BY <2>1 DEF Desk!Transactions, Desk!Statuses
<1> HIDE DEF next
<1>2. Desk!Enter(q, a, next) /\ a \in Desk!Locks /\ appeals[a] # Desk!Unfiled
  BY DEF Desk!Resolve, next, Desk!Locks
<1>3. ASSUME NEW t \in Desk!Transactions, t.at = next.at, t.report = next.report, t.appeal = next.appeal,
             t.state = next.state, t.locks = next.locks \cup {a}
      PROVE  Deciding(t)
  BY <1>1, <1>3 DEF Deciding
<1> QED
  BY <1>1, <1>2, <1>3, EnterKeepsDesk

\* set_status of the report whose appeal is overturned.
LEMMA OverturnKeepsDesk ==
    ASSUME DeskInv, NEW q \in Moderator, Desk!Overturn(q)
    PROVE  DeskInv'
<1> DEFINE t0 == decided[q]
           r == appeals[t0.appeal].report
           next == [t0 EXCEPT !.at = "decided", !.report = r, !.verdict = "published"]
<1>1. t0 \in Desk!Transactions /\ t0.at = "resolved" /\ Deciding(t0)
  BY DEF DeskInv, DeskTypes, Desk!TypeOK, Desk!Overturn
<1>2. /\ t0.appeal \in Appeal /\ appeals[t0.appeal] # Desk!Unfiled
  BY <1>1 DEF Deciding, DeskInv, ResolvedWereFiled
<1>3. r \in ReportId
  <2>1. appeals[t0.appeal] \in Desk!AppealRows
    BY <1>2 DEF DeskInv, DeskTypes, Desk!TypeOK
  <2> QED
    BY <2>1 DEF Desk!AppealRows
<1> HIDE DEF r
<1>4. /\ next \in Desk!Transactions /\ next.at = "decided" /\ next.report = r /\ next.verdict = "published"
      /\ next.appeal = t0.appeal /\ next.state = t0.state /\ next.locks = t0.locks
  BY <1>1, <1>3 DEF Desk!Transactions, Desk!Statuses
<1> HIDE DEF next
<1>5. Desk!Enter(q, r, next) /\ r \in Desk!Locks
  BY <1>3 DEF Desk!Overturn, next, r, Desk!Locks
<1>6. ASSUME NEW t \in Desk!Transactions, t.at = next.at, t.report = next.report, t.appeal = next.appeal,
             t.verdict = next.verdict, t.state = next.state, t.locks = next.locks \cup {r}
      PROVE  Deciding(t)
  BY <1>1, <1>2, <1>3, <1>4, <1>6 DEF Deciding
<1> QED
  BY <1>2, <1>4, <1>5, <1>6, EnterKeepsDesk

\* service.appeal locks nothing.
LEMMA AppealKeepsDesk ==
    ASSUME DeskInv, NEW q \in Moderator,
           (\E r \in ReportId : Desk!AppealBegin(q, r)) \/ \E a \in Appeal : Desk!AppealFile(q, a)
    PROVE  DeskInv'
<1>1. ASSUME NEW r \in ReportId, Desk!AppealBegin(q, r)
      PROVE  DeskInv'
  <2> DEFINE next == [Desk!Idle EXCEPT !.at = "appealing", !.report = r]
  <2>1. /\ next \in Desk!Transactions /\ next.at = "appealing" /\ next.report = r /\ next.locks = {}
    <3>1. Desk!Idle \in Desk!Transactions /\ Desk!Idle.locks = {}
      BY IdleDecision
    <3> QED
      BY <3>1 DEF Desk!Transactions
  <2>2. decided' = [decided EXCEPT ![q] = next]
        /\ UNCHANGED <<status, appeals, reputation, decisions, overlap>>
    BY <1>1 DEF Desk!AppealBegin
  <2> HIDE DEF next
  <2>3. Deciding(next) /\ overlap' \subseteq ReportId
    BY <2>1, <2>2 DEF Deciding, DeskInv, DeskTypes, Desk!TypeOK
  <2> QED
    BY <2>1, <2>2, <2>3, QuietStepKeepsDesk
<1>2. ASSUME NEW a \in Appeal, Desk!AppealFile(q, a)
      PROVE  DeskInv'
  <2> DEFINE t0 == decided[q]
             next == [t0 EXCEPT !.at = "filed", !.appeal = a]
  <2>1. t0 \in Desk!Transactions /\ t0.at = "appealing" /\ Deciding(t0)
    BY <1>2 DEF DeskInv, DeskTypes, Desk!TypeOK, Desk!AppealFile
  <2>2. /\ next \in Desk!Transactions /\ next.at = "filed" /\ next.report = t0.report /\ next.locks = t0.locks
        /\ next.appeal = a
    BY <2>1 DEF Desk!Transactions
  <2>3. decided' = [decided EXCEPT ![q] = next]
        /\ UNCHANGED <<status, appeals, reputation, decisions>>
    BY <1>2 DEF Desk!AppealFile, DeskInv, DeskTypes, Desk!TypeOK
  <2> HIDE DEF next
  <2>4. Deciding(next) /\ next.locks = {}
    BY <2>1, <2>2 DEF Deciding
  <2>5. overlap' \subseteq ReportId
    BY <1>2, <2>1 DEF Desk!AppealFile, Deciding, DeskInv, DeskTypes, Desk!TypeOK
  <2> QED
    BY <2>2, <2>3, <2>4, <2>5, QuietStepKeepsDesk
<1> QED
  BY <1>1, <1>2

LEMMA RollbackKeepsDesk ==
    ASSUME DeskInv, NEW q \in Moderator, Desk!Rollback(q)
    PROVE  DeskInv'
<1>1. overlap' \subseteq ReportId
  BY DEF Desk!Rollback, DeskInv, DeskTypes, Desk!TypeOK
<1> QED
  BY <1>1, IdleDecision, QuietStepKeepsDesk DEF Desk!Rollback

\* The request ends, and what it held is free.
LEMMA EndsIdle ==
    ASSUME DeskInv, NEW q \in Moderator, decided' = [decided EXCEPT ![q] = Desk!Idle]
    PROVE  /\ decided' \in [Moderator -> Desk!Transactions] /\ decided'[q] = Desk!Idle
           /\ \A o \in Moderator \ {q} : decided'[o] = decided[o]
           /\ LocksAreExclusive' /\ \A o \in Moderator : Deciding(decided'[o])
<1>1. /\ decided' \in [Moderator -> Desk!Transactions] /\ decided'[q] = Desk!Idle
      /\ \A o \in Moderator \ {q} : decided'[o] = decided[o]
  BY IdleDecision DEF DeskInv, DeskTypes, Desk!TypeOK
<1>2. LocksAreExclusive' /\ \A o \in Moderator : Deciding(decided'[o])
  BY <1>1, IdleDecision DEF DeskInv, LocksAreExclusive
<1> QED
  BY <1>1, <1>2

LEMMA CommitAppealKeepsDesk ==
    ASSUME DeskInv, NEW q \in Moderator, Desk!CommitAppeal(q)
    PROVE  DeskInv'
<1> DEFINE t0 == decided[q]
           row == [report |-> t0.report, state |-> "open"]
<1>1. /\ t0.at = "filed" /\ appeals' = [appeals EXCEPT ![t0.appeal] = row]
      /\ decided' = [decided EXCEPT ![q] = Desk!Idle]
      /\ UNCHANGED <<status, reputation, decisions, overlap>>
  BY DEF Desk!CommitAppeal
<1>2. t0.report \in ReportId /\ t0.appeal \in Appeal
  BY <1>1 DEF DeskInv, Deciding
<1>3. row \in Desk!AppealRows /\ row # Desk!Unfiled
  BY <1>2 DEF Desk!AppealRows, Desk!Unfiled
<1> HIDE DEF row
<1>4. /\ decided' \in [Moderator -> Desk!Transactions] /\ decided'[q] = Desk!Idle
      /\ \A o \in Moderator \ {q} : decided'[o] = decided[o]
      /\ LocksAreExclusive' /\ \A o \in Moderator : Deciding(decided'[o])
  BY <1>1, EndsIdle
<1>5. DeskTypes'
  BY <1>1, <1>3, <1>4 DEF DeskInv, DeskTypes, Desk!TypeOK
<1>6. \A a \in Appeal : appeals[a] # Desk!Unfiled => appeals'[a] # Desk!Unfiled
  BY <1>1, <1>3 DEF DeskInv, DeskTypes, Desk!TypeOK
<1>7. ResolvedWereFiled'
  BY <1>4, <1>6, IdleDecision DEF DeskInv, ResolvedWereFiled, Desk!Unfiled
<1>8. DraftsFollow' /\ Desk!ReputationFollowsDecisions'
  BY <1>1, <1>4, IdleDecision DEF DeskInv, DraftsFollow, Desk!ReputationFollowsDecisions, Desk!Adjusted
<1> QED
  BY <1>4, <1>5, <1>7, <1>8 DEF DeskInv, Deciding

\* adjust_reputation: one decision counted, and its share of the score.
LEMMA AdjustedCounts ==
    ASSUME NEW old \in Desk!Scores, NEW approved \in BOOLEAN
    PROVE  LET new == Desk!Adjusted(old, approved)
           IN  /\ new \in Desk!Scores
               /\ approved => new.score = old.score + 1 /\ new.approved = old.approved + 1
                              /\ new.rejected = old.rejected
               /\ ~approved => new.score = old.score - 2 /\ new.approved = old.approved
                               /\ new.rejected = old.rejected + 1
<1>1. CASE approved
  BY <1>1 DEF Desk!Adjusted, Desk!Scores
<1>2. CASE ~approved
  BY <1>2 DEF Desk!Adjusted, Desk!Scores
<1> QED
  BY <1>1, <1>2

\* The commit of a decision: its reputation row is the committed one, adjusted.
LEMMA CommitDecisionKeepsDesk ==
    ASSUME DeskInv, NEW q \in Moderator, Desk!CommitDecision(q)
    PROVE  DeskInv'
<1> DEFINE t0 == decided[q]
           published == t0.verdict = "published"
<1>1. t0 \in Desk!Transactions /\ t0.at = "ready" /\ Deciding(t0)
      /\ decided' = [decided EXCEPT ![q] = Desk!Idle] /\ overlap' = overlap
  BY DEF DeskInv, DeskTypes, Desk!TypeOK, Desk!CommitDecision
<1>2. /\ decided' \in [Moderator -> Desk!Transactions] /\ decided'[q] = Desk!Idle
      /\ \A o \in Moderator \ {q} : decided'[o] = decided[o]
      /\ LocksAreExclusive' /\ \A o \in Moderator : Deciding(decided'[o])
  BY <1>1, EndsIdle
<1>3. \A a \in Appeal : /\ appeals'[a] \in Desk!AppealRows \cup {Desk!Unfiled}
                        /\ appeals[a] # Desk!Unfiled => appeals'[a] # Desk!Unfiled
  <2> SUFFICES ASSUME NEW a \in Appeal
               PROVE  /\ appeals'[a] \in Desk!AppealRows \cup {Desk!Unfiled}
                      /\ appeals[a] # Desk!Unfiled => appeals'[a] # Desk!Unfiled
    OBVIOUS
  <2>1. appeals[a] \in Desk!AppealRows \cup {Desk!Unfiled}
    BY DEF DeskInv, DeskTypes, Desk!TypeOK
  <2>2. CASE a # t0.appeal
    BY <2>1, <2>2 DEF Desk!CommitDecision
  <2>3. CASE a = t0.appeal
    <3>1. appeals[a] \in Desk!AppealRows
      BY <1>1, <2>1, <2>3 DEF DeskInv, ResolvedWereFiled
    <3>2. t0.state \in {"upheld", "overturned"}
      BY <1>1, <2>3 DEF Deciding, Desk!Transactions
    <3>3. appeals'[a] = [appeals[a] EXCEPT !.state = t0.state]
      BY <2>3 DEF Desk!CommitDecision
    <3>4. appeals'[a] \in Desk!AppealRows /\ appeals'[a].state = t0.state
      BY <3>1, <3>2, <3>3 DEF Desk!AppealRows
    <3> QED
      BY <3>2, <3>4 DEF Desk!Unfiled
  <2> QED
    BY <2>2, <2>3
<1>4. \A u \in User : u \in t0.locks <=> t0.report \in ReportId /\ u = ReporterOf[t0.report]
  <2>1. t0.report \in ReportId \/ t0.report = NoReport
    BY <1>1 DEF Desk!Transactions
  <2>2. NoReport \notin ReportId
    BY CommunityShapes DEF Desk!ModerationShapes
  <2> QED
    BY <1>1, <2>1, <2>2 DEF Deciding
<1>5. \A u \in User :
          /\ u \in t0.locks => /\ reputation'[u] = Desk!Adjusted(reputation[u], published)
                               /\ decisions'[u] = IF published
                                    THEN [decisions[u] EXCEPT !.approved = decisions[u].approved + 1]
                                    ELSE [decisions[u] EXCEPT !.rejected = decisions[u].rejected + 1]
          /\ u \notin t0.locks => reputation'[u] = reputation[u] /\ decisions'[u] = decisions[u]
  <2> SUFFICES ASSUME NEW u \in User
               PROVE  /\ u \in t0.locks => /\ reputation'[u] = Desk!Adjusted(reputation[u], published)
                                           /\ decisions'[u] = IF published
                                                THEN [decisions[u] EXCEPT !.approved = decisions[u].approved + 1]
                                                ELSE [decisions[u] EXCEPT !.rejected = decisions[u].rejected + 1]
                      /\ u \notin t0.locks => reputation'[u] = reputation[u] /\ decisions'[u] = decisions[u]
    OBVIOUS
  <2>1. NoReport \notin ReportId
    BY CommunityShapes DEF Desk!ModerationShapes
  <2>2. CASE u \in t0.locks
    <3>1. t0.report \in ReportId /\ u = ReporterOf[t0.report]
      BY <1>4, <2>2
    <3>2. t0.draft = Desk!Adjusted(reputation[u], published)
      BY <1>1, <3>1 DEF DeskInv, DraftsFollow
    <3>3. reputation'[u] = t0.draft
      BY <2>2 DEF Desk!CommitDecision
    <3>4. decisions'[u] = IF published
                            THEN [decisions[u] EXCEPT !.approved = decisions[u].approved + 1]
                            ELSE [decisions[u] EXCEPT !.rejected = decisions[u].rejected + 1]
      BY <2>1, <3>1 DEF Desk!CommitDecision, Desk!Reporter
    <3> QED
      BY <2>2, <3>2, <3>3, <3>4
  <2>3. CASE u \notin t0.locks
    <3>1. t0.report # NoReport => t0.report \in ReportId
      BY <1>1 DEF Desk!Transactions
    <3>2. ~(t0.report # NoReport /\ u = ReporterOf[t0.report])
      BY <1>4, <2>3, <3>1
    <3> QED
      BY <2>3, <3>2 DEF Desk!CommitDecision, Desk!Reporter
  <2> QED
    BY <2>2, <2>3
<1>6. \A u \in User : /\ reputation'[u] \in Desk!Scores /\ decisions'[u] \in [approved : Nat, rejected : Nat]
                      /\ reputation'[u].approved = decisions'[u].approved
                      /\ reputation'[u].rejected = decisions'[u].rejected
                      /\ reputation'[u].score = 10 + decisions'[u].approved - 2 * decisions'[u].rejected
  <2> SUFFICES ASSUME NEW u \in User
               PROVE  /\ reputation'[u] \in Desk!Scores /\ decisions'[u] \in [approved : Nat, rejected : Nat]
                      /\ reputation'[u].approved = decisions'[u].approved
                      /\ reputation'[u].rejected = decisions'[u].rejected
                      /\ reputation'[u].score = 10 + decisions'[u].approved - 2 * decisions'[u].rejected
    OBVIOUS
  <2>1. /\ reputation[u] \in Desk!Scores /\ decisions[u] \in [approved : Nat, rejected : Nat]
        /\ reputation[u].approved = decisions[u].approved
        /\ reputation[u].rejected = decisions[u].rejected
        /\ reputation[u].score = 10 + decisions[u].approved - 2 * decisions[u].rejected
    BY DEF DeskInv, DeskTypes, Desk!TypeOK, Desk!ReputationFollowsDecisions
  <2>2. CASE u \notin t0.locks
    BY <1>5, <2>1, <2>2
  <2>3. CASE u \in t0.locks /\ published
    <3>1. /\ reputation'[u].score = reputation[u].score + 1
          /\ reputation'[u].approved = reputation[u].approved + 1
          /\ reputation'[u].rejected = reputation[u].rejected
          /\ reputation'[u] \in Desk!Scores
      <4>1. reputation'[u] = Desk!Adjusted(reputation[u], published) /\ published \in BOOLEAN
        BY <1>5, <2>3
      <4> QED
        BY <2>1, <2>3, <4>1, AdjustedCounts
    <3>2. decisions'[u] = [decisions[u] EXCEPT !.approved = decisions[u].approved + 1]
      BY <1>5, <2>3
    <3>3. /\ decisions'[u].approved = decisions[u].approved + 1
          /\ decisions'[u].rejected = decisions[u].rejected
          /\ decisions'[u] \in [approved : Nat, rejected : Nat]
      BY <2>1, <3>2
    <3>4. /\ reputation[u].score \in Int /\ reputation[u].approved \in Nat /\ reputation[u].rejected \in Nat
          /\ decisions[u].approved \in Nat /\ decisions[u].rejected \in Nat
      BY <2>1 DEF Desk!Scores
    <3> QED
      BY <2>1, <3>1, <3>3, <3>4
  <2>4. CASE u \in t0.locks /\ ~published
    <3>1. /\ reputation'[u].score = reputation[u].score - 2
          /\ reputation'[u].rejected = reputation[u].rejected + 1
          /\ reputation'[u].approved = reputation[u].approved
          /\ reputation'[u] \in Desk!Scores
      <4>1. reputation'[u] = Desk!Adjusted(reputation[u], published) /\ published \in BOOLEAN
        BY <1>5, <2>4
      <4> QED
        BY <2>1, <2>4, <4>1, AdjustedCounts
    <3>2. decisions'[u] = [decisions[u] EXCEPT !.rejected = decisions[u].rejected + 1]
      BY <1>5, <2>4
    <3>3. /\ decisions'[u].rejected = decisions[u].rejected + 1
          /\ decisions'[u].approved = decisions[u].approved
          /\ decisions'[u] \in [approved : Nat, rejected : Nat]
      BY <2>1, <3>2
    <3>4. /\ reputation[u].score \in Int /\ reputation[u].approved \in Nat /\ reputation[u].rejected \in Nat
          /\ decisions[u].approved \in Nat /\ decisions[u].rejected \in Nat
      BY <2>1 DEF Desk!Scores
    <3> QED
      BY <2>1, <3>1, <3>3, <3>4
  <2> QED
    BY <2>2, <2>3, <2>4
<1>7. DeskTypes'
  <2>1. appeals' \in [Appeal -> Desk!AppealRows \cup {Desk!Unfiled}]
    BY <1>3 DEF Desk!CommitDecision
  <2>2. status' \in [ReportId -> Desk!Statuses]
    BY <1>1 DEF Desk!CommitDecision, Desk!Transactions, DeskInv, DeskTypes, Desk!TypeOK
  <2>3. reputation' \in [User -> Desk!Scores]
    <3>1. reputation' = [u \in User |-> IF u \in t0.locks THEN t0.draft ELSE reputation[u]]
      BY DEF Desk!CommitDecision
    <3>2. t0.draft \in Desk!Scores /\ reputation \in [User -> Desk!Scores]
      BY <1>1 DEF Desk!Transactions, DeskInv, DeskTypes, Desk!TypeOK
    <3> QED
      BY <3>1, <3>2
  <2>4. decisions' \in [User -> [approved : Nat, rejected : Nat]]
    <3>1. \E f : decisions' = [u \in User |-> f[u]]
      <4>1. decisions' = [u \in User |-> decisions'[u]]
        BY DEF Desk!CommitDecision
      <4> QED
        BY <4>1
    <3> QED
      BY <1>6, <3>1
  <2> QED
    BY <1>1, <1>2, <2>1, <2>2, <2>3, <2>4 DEF DeskInv, DeskTypes, Desk!TypeOK, Desk!Unfiled
<1>8. ResolvedWereFiled'
  BY <1>2, <1>3, IdleDecision DEF DeskInv, ResolvedWereFiled, Desk!Unfiled
<1>9. DraftsFollow'
  <2> SUFFICES ASSUME NEW o \in Moderator, o # q, decided[o].at \in {"credited", "ready"}, decided[o].report \in ReportId
               PROVE  reputation'[ReporterOf[decided[o].report]] = reputation[ReporterOf[decided[o].report]]
    BY <1>2, IdleDecision DEF DeskInv, DraftsFollow, Desk!Adjusted
  <2>1. ReporterOf[decided[o].report] \in decided[o].locks
    BY DEF DeskInv, Deciding
  <2>2. ReporterOf[decided[o].report] \notin t0.locks
    BY <2>1 DEF DeskInv, LocksAreExclusive
  <2>3. ReporterOf[decided[o].report] \in User
    BY CommunityShapes DEF Desk!ModerationShapes
  <2> QED
    BY <1>5, <2>2, <2>3
<1>10. Desk!ReputationFollowsDecisions'
  BY <1>6 DEF Desk!ReputationFollowsDecisions
<1> QED
  BY <1>2, <1>7, <1>8, <1>9, <1>10 DEF DeskInv, Deciding

-------------------------------------------------------------------------------
(* The moderation desk: the invariant and what it shows *)

LEMMA DeskInvInit == Desk!Init => DeskInv
<1> SUFFICES ASSUME Desk!Init  PROVE DeskInv
  OBVIOUS
<1> USE IdleDecision
<1>1. \A q \in Moderator : decided[q] = Desk!Idle
  BY DEF Desk!Init
<1>2. DeskTypes
  BY DEF DeskTypes, Desk!TypeOK, Desk!Init, Desk!Statuses
<1>3. LocksAreExclusive /\ ResolvedWereFiled /\ DraftsFollow /\ \A q \in Moderator : Deciding(decided[q])
  BY <1>1 DEF LocksAreExclusive, ResolvedWereFiled, DraftsFollow
<1>4. Desk!ReputationFollowsDecisions
  BY DEF Desk!ReputationFollowsDecisions, Desk!Init, Desk!Fresh
<1> QED
  BY <1>2, <1>3, <1>4 DEF DeskInv

LEMMA DeskInvKept == DeskInv /\ [Desk!Next]_Desk!vars => DeskInv'
<1> SUFFICES ASSUME DeskInv, [Desk!Next]_Desk!vars  PROVE DeskInv'
  OBVIOUS
<1>1. CASE UNCHANGED Desk!vars
  BY <1>1 DEF Desk!vars, DeskInv, DeskTypes, Desk!TypeOK, LocksAreExclusive, ResolvedWereFiled, DraftsFollow,
     Deciding, Desk!ReputationFollowsDecisions, Desk!Adjusted, Desk!Unfiled
<1> QED
  BY <1>1, ModerateKeepsDesk, AdjustKeepsDesk, AuditKeepsDesk, ResolveKeepsDesk, OverturnKeepsDesk,
     AppealKeepsDesk, RollbackKeepsDesk, CommitAppealKeepsDesk, CommitDecisionKeepsDesk DEF Desk!Next

\* docs/phase-7:11: a reputation is exactly what the committed decisions made it, for any
\* number of reports, reporters and decisions at once.
THEOREM ReputationAlwaysFollows == CommunitySpec => []ReputationFollowsDecisions
<1>1. DeskInv => ReputationFollowsDecisions
  BY DEF DeskInv, ReputationFollowsDecisions
<1> QED
  BY <1>1, DeskInvInit, DeskInvKept, DeskMovesAlone, PTL DEF Desk!Spec

\* What the next statement of a request needs comes later in the order of the locks than
\* all that a request at the same statement, or at an earlier one, holds.
LEMMA NeedsInOrder ==
    ASSUME DeskInv, NEW q \in Moderator
    PROVE  /\ decided[q].at = "resolved" /\ decided[q].state = "overturned" => Desk!Needs(q) \subseteq ReportId
           /\ decided[q].at = "resolved" /\ decided[q].state = "upheld" => Desk!Needs(q) = {"audit"}
           /\ decided[q].at = "decided" => Desk!Needs(q) \subseteq User
           /\ decided[q].at = "credited" => Desk!Needs(q) = {"audit"}
           /\ decided[q].at \in {"idle", "appealing", "filed", "ready"} => Desk!Needs(q) = {}
           /\ decided[q].at = "resolved" => decided[q].state \in {"upheld", "overturned"}
<1>1. Deciding(decided[q]) /\ decided[q] \in Desk!Transactions
  BY DEF DeskInv, DeskTypes, Desk!TypeOK
<1>2. CASE decided[q].at = "resolved"
  <2>1. decided[q].appeal \in Appeal /\ appeals[decided[q].appeal] \in Desk!AppealRows
    BY <1>1, <1>2 DEF Deciding, DeskInv, ResolvedWereFiled, DeskTypes, Desk!TypeOK
  <2>2. appeals[decided[q].appeal].report \in ReportId
    BY <2>1 DEF Desk!AppealRows
  <2>3. decided[q].state \in {"upheld", "overturned"}
    BY <1>1, <1>2 DEF Deciding, Desk!Transactions
  <2>4. decided[q].state = "overturned" => Desk!Needs(q) = {appeals[decided[q].appeal].report}
    BY <1>2 DEF Desk!Needs
  <2>5. decided[q].state = "upheld" => Desk!Needs(q) = {"audit"}
    BY <1>2 DEF Desk!Needs
  <2> QED
    BY <1>2, <2>2, <2>3, <2>4, <2>5
<1>3. CASE decided[q].at = "decided"
  <2>1. Desk!Needs(q) = {ReporterOf[decided[q].report]}
    BY <1>3 DEF Desk!Needs, Desk!Reporter
  <2>2. ReporterOf[decided[q].report] \in User
    BY <1>1, <1>3, CommunityShapes DEF Deciding, Desk!ModerationShapes
  <2> QED
    BY <1>3, <2>1, <2>2
<1>4. CASE decided[q].at = "credited"
  BY <1>4 DEF Desk!Needs
<1>5. CASE decided[q].at \in {"idle", "appealing", "filed", "ready"}
  BY <1>5 DEF Desk!Needs
<1> QED
  BY <1>1, <1>2, <1>3, <1>4, <1>5 DEF Desk!Transactions

\* Moderations and resolutions never wait for each other in a cycle, for any number of them:
\* the one that came furthest in the order of the locks waits for none of the others.
THEOREM LocksAreOrdered == CommunitySpec => []NoLockCycle
<1>1. DeskInv => NoLockCycle
  <2> SUFFICES ASSUME DeskInv, NEW waiting \in SUBSET Moderator, waiting # {}
               PROVE  \E q \in waiting : \A p \in waiting \ {q} : ~Desk!WaitsFor(q, p)
    BY DEF NoLockCycle, Desk!NoLockCycle
  <2> USE CommunityShapes DEF Desk!WaitsFor, Desk!ModerationShapes
  <2>0. \A q \in Moderator :
            /\ decided[q].at \in {"idle", "resolved", "decided", "credited", "appealing", "filed", "ready"}
            /\ Deciding(decided[q])
    BY DEF DeskInv, DeskTypes, Desk!TypeOK, Desk!Transactions
  <2>1. CASE \E q \in waiting : decided[q].at \in {"idle", "appealing", "filed", "ready"}
    BY <2>1, NeedsInOrder
  <2>2. CASE \A q \in waiting : decided[q].at \notin {"idle", "appealing", "filed", "ready"}
    <3>1. \A p \in waiting : "audit" \notin decided[p].locks
      BY <2>0, <2>2 DEF Deciding
    <3>2. CASE \E q \in waiting : \/ decided[q].at = "credited"
                                  \/ decided[q].at = "resolved" /\ decided[q].state = "upheld"
      <4>1. PICK q \in waiting : Desk!Needs(q) = {"audit"}
        BY <3>2, NeedsInOrder
      <4> QED
        BY <3>1, <4>1
    <3>3. CASE \A q \in waiting : \/ decided[q].at = "decided"
                                  \/ decided[q].at = "resolved" /\ decided[q].state = "overturned"
      <4>1. \A p \in waiting : decided[p].locks \cap User = {}
        BY <2>0, <3>3 DEF Deciding
      <4>2. CASE \E q \in waiting : decided[q].at = "decided"
        <5>1. PICK q \in waiting : Desk!Needs(q) \subseteq User
          BY <4>2, NeedsInOrder
        <5> QED
          BY <4>1, <5>1
      <4>3. CASE \A q \in waiting : decided[q].at = "resolved" /\ decided[q].state = "overturned"
        <5>1. \A p \in waiting : decided[p].locks \cap ReportId = {}
          BY <2>0, <4>3 DEF Deciding
        <5>2. PICK q \in waiting : Desk!Needs(q) \subseteq ReportId
          BY <4>3, NeedsInOrder
        <5> QED
          BY <5>1, <5>2
      <4> QED
        BY <3>3, <4>2, <4>3
    <3> QED
      BY <2>0, <2>2, <3>2, <3>3, NeedsInOrder
  <2> QED
    BY <2>1, <2>2
<1> QED
  BY <1>1, DeskInvInit, DeskInvKept, DeskMovesAlone, PTL DEF Desk!Spec

-------------------------------------------------------------------------------
(* The moderation desk: appeals *)

\* service.appeal: two appeals of one report, open or about to be, met in their transactions.
AppealsOverlap ==
    /\ \A a, b \in Appeal, r \in ReportId : a # b /\ a \in Desk!Open(r) /\ b \in Desk!Open(r) => r \in overlap
    /\ \A q \in Moderator : decided[q].at = "filed" /\ Desk!Open(decided[q].report) # {} =>
           decided[q].report \in overlap
    /\ \A q, o \in Moderator : q # o /\ decided[q].at = "filed" /\ decided[o].at = "filed"
                                     /\ decided[q].report = decided[o].report =>
           decided[q].report \in overlap

LEMMA AppealsOverlapKept == DeskInv /\ AppealsOverlap /\ [Desk!Next]_Desk!vars => AppealsOverlap'
<1> SUFFICES ASSUME DeskInv, AppealsOverlap, [Desk!Next]_Desk!vars  PROVE AppealsOverlap'
  OBVIOUS
<1> USE IdleDecision
<1>0. decided \in [Moderator -> Desk!Transactions] /\ appeals \in [Appeal -> Desk!AppealRows \cup {Desk!Unfiled}]
  BY DEF DeskInv, DeskTypes, Desk!TypeOK
<1>1. ASSUME NEW q \in Moderator, \A o \in Moderator \ {q} : decided'[o] = decided[o], decided'[q].at # "filed",
             \A r : Desk!Open(r)' \subseteq Desk!Open(r), overlap' = overlap
      PROVE  AppealsOverlap'
  <2>1. \A o \in Moderator : decided'[o].at = "filed" => o # q /\ decided'[o] = decided[o]
    BY <1>1
  <2>2. \A a, b \in Appeal, r \in ReportId : a # b /\ a \in Desk!Open(r)' /\ b \in Desk!Open(r)' => r \in overlap'
    BY <1>1 DEF AppealsOverlap
  <2>3. \A o \in Moderator : decided'[o].at = "filed" /\ Desk!Open(decided[o].report)' # {} =>
            decided'[o].report \in overlap'
    <3> SUFFICES ASSUME NEW o \in Moderator, decided'[o].at = "filed", Desk!Open(decided[o].report)' # {}
                 PROVE  decided'[o].report \in overlap'
      OBVIOUS
    <3>1. decided'[o] = decided[o]
      BY <2>1
    <3>2. Desk!Open(decided[o].report) # {}
      BY <1>1, <3>1 DEF Desk!Open
    <3> QED
      BY <1>1, <3>1, <3>2 DEF AppealsOverlap
  <2>4. \A p, o \in Moderator : p # o /\ decided'[p].at = "filed" /\ decided'[o].at = "filed"
                                      /\ decided'[p].report = decided'[o].report => decided'[p].report \in overlap'
    BY <1>1, <2>1 DEF AppealsOverlap
  <2> QED
    BY <2>2, <2>3, <2>4 DEF AppealsOverlap, Desk!Open
<1>3. ASSUME NEW q \in Moderator, NEW a \in Appeal, Desk!AppealFile(q, a)  PROVE AppealsOverlap'
  <2> DEFINE r0 == decided[q].report
  <2>1. /\ decided'[q].at = "filed" /\ decided'[q].report = r0
        /\ \A o \in Moderator \ {q} : decided'[o] = decided[o]
    <3> DEFINE next == [decided[q] EXCEPT !.at = "filed", !.appeal = a]
    <3>1. decided' = [decided EXCEPT ![q] = next]
      BY <1>3 DEF Desk!AppealFile
    <3>2. next.at = "filed" /\ next.report = r0
      BY <1>0 DEF Desk!Transactions
    <3> HIDE DEF next
    <3> QED
      BY <1>0, <3>1, <3>2
  <2>2. Desk!Open(r0) = {} /\ appeals' = appeals
    BY <1>3 DEF Desk!AppealFile, Desk!NoneOpen
  <2>3. overlap' = overlap \cup {r \in {r0} : \E p \in Moderator : decided[p].at = "filed" /\ decided[p].report = r}
    BY <1>3 DEF Desk!AppealFile
  <2> HIDE DEF r0
  <2>4. \A r : Desk!Open(r)' = Desk!Open(r)
    BY <2>2 DEF Desk!Open
  <2>5. \A x, b \in Appeal, r \in ReportId : x # b /\ x \in Desk!Open(r)' /\ b \in Desk!Open(r)' => r \in overlap'
    BY <2>3, <2>4 DEF AppealsOverlap
  <2>6. \A o \in Moderator : decided'[o].at = "filed" /\ (Desk!Open(decided[o].report) # {})' =>
            decided'[o].report \in overlap'
    <3> SUFFICES ASSUME NEW o \in Moderator, decided'[o].at = "filed", (Desk!Open(decided[o].report) # {})'
                 PROVE  decided'[o].report \in overlap'
      OBVIOUS
    <3>1. Desk!Open(decided'[o].report) # {}
      BY <2>2 DEF Desk!Open
    <3>2. o # q
      BY <2>1, <2>2, <3>1
    <3> QED
      BY <2>1, <2>3, <3>1, <3>2 DEF AppealsOverlap
  <2>7. \A p, o \in Moderator : p # o /\ decided'[p].at = "filed" /\ decided'[o].at = "filed"
                                      /\ decided'[p].report = decided'[o].report => decided'[p].report \in overlap'
    <3>1. \A o \in Moderator \ {q} : decided'[o].at = "filed" /\ decided'[o].report = r0 => r0 \in overlap'
      BY <2>1, <2>3
    <3>2. \A p, o \in Moderator \ {q} : p # o /\ decided'[p].at = "filed" /\ decided'[o].at = "filed"
                                      /\ decided'[p].report = decided'[o].report => decided'[p].report \in overlap'
      BY <2>1, <2>3 DEF AppealsOverlap
    <3> QED
      BY <2>1, <3>1, <3>2
  <2> QED
    BY <2>5, <2>6, <2>7 DEF AppealsOverlap
<1>4. ASSUME NEW q \in Moderator, Desk!CommitAppeal(q)  PROVE AppealsOverlap'
  <2> DEFINE a0 == decided[q].appeal
             r0 == decided[q].report
  <2>1. decided'[q].at = "idle" /\ \A o \in Moderator \ {q} : decided'[o] = decided[o]
    BY <1>0, <1>4 DEF Desk!CommitAppeal
  <2>2. decided[q].at = "filed" /\ overlap' = overlap
    BY <1>4 DEF Desk!CommitAppeal
  <2>3. appeals' = [appeals EXCEPT ![a0] = [report |-> r0, state |-> "open"]]
    BY <1>4 DEF Desk!CommitAppeal
  <2> HIDE DEF a0, r0
  <2>4. \A r, a : a \in Desk!Open(r)' => a \in Desk!Open(r) \/ (a = a0 /\ r = r0)
    BY <1>0, <2>3 DEF Desk!Open
  <2>5. \A a, r : a \in Desk!Open(r) /\ r = r0 => r \in overlap
    BY <2>2 DEF AppealsOverlap, r0
  <2>6. \A a, b \in Appeal, r \in ReportId : a # b /\ a \in Desk!Open(r)' /\ b \in Desk!Open(r)' => r \in overlap'
    BY <2>2, <2>4, <2>5 DEF AppealsOverlap
  <2>7. \A o \in Moderator : decided'[o].at = "filed" /\ (Desk!Open(decided[o].report) # {})' =>
            decided'[o].report \in overlap'
    <3> SUFFICES ASSUME NEW o \in Moderator, decided'[o].at = "filed", (Desk!Open(decided[o].report) # {})'
                 PROVE  decided'[o].report \in overlap'
      OBVIOUS
    <3>1. o # q /\ decided'[o] = decided[o]
      BY <2>1
    <3>2. PICK a : a \in Desk!Open(decided[o].report)'
      OBVIOUS
    <3>3. \/ a \in Desk!Open(decided[o].report)
          \/ decided[o].report = r0
      BY <2>4, <3>1, <3>2 DEF Desk!Open
    <3> QED
      BY <2>2, <3>1, <3>3 DEF AppealsOverlap, r0
  <2>8. \A p, o \in Moderator : p # o /\ decided'[p].at = "filed" /\ decided'[o].at = "filed"
                                      /\ decided'[p].report = decided'[o].report => decided'[p].report \in overlap'
    BY <2>1, <2>2 DEF AppealsOverlap
  <2> QED
    BY <2>6, <2>7, <2>8 DEF AppealsOverlap
<1>5. ASSUME NEW q \in Moderator, Desk!CommitDecision(q)  PROVE AppealsOverlap'
  <2>1. decided'[q].at = "idle" /\ \A o \in Moderator \ {q} : decided'[o] = decided[o]
    BY <1>0, <1>5 DEF Desk!CommitDecision
  <2>2. overlap' = overlap /\ decided[q].state \in {"unfiled", "upheld", "overturned"}
    BY <1>0, <1>5 DEF Desk!CommitDecision, Desk!Transactions
  <2>3. ASSUME NEW r  PROVE Desk!Open(r)' \subseteq Desk!Open(r)
    BY <1>0, <1>5, <2>2 DEF Desk!Open, Desk!CommitDecision, Desk!AppealRows, Desk!Unfiled
  <2> QED
    BY <1>1, <2>1, <2>2, <2>3
<1>6. ASSUME NEW q \in Moderator, NEW x, NEW next, Desk!Enter(q, x, next),
             [next EXCEPT !.locks = @ \cup {x}].at # "filed"
      PROVE  AppealsOverlap'
  <2>1. decided'[q] = [next EXCEPT !.locks = @ \cup {x}] /\ \A o \in Moderator \ {q} : decided'[o] = decided[o]
    BY <1>0, <1>6 DEF Desk!Enter
  <2>2. appeals' = appeals /\ overlap' = overlap
    BY <1>6 DEF Desk!Enter
  <2>3. decided'[q].at # "filed"
    BY <1>6, <2>1
  <2>4. ASSUME NEW r  PROVE Desk!Open(r)' \subseteq Desk!Open(r)
    BY <2>2 DEF Desk!Open
  <2> QED
    BY <1>1, <2>1, <2>2, <2>3, <2>4
<1>7. CASE UNCHANGED Desk!vars
  BY <1>7 DEF Desk!vars, AppealsOverlap, Desk!Open
<1>8. ASSUME NEW q \in Moderator, NEW next, decided' = [decided EXCEPT ![q] = next], next.at # "filed",
             appeals' = appeals, overlap' = overlap
      PROVE  AppealsOverlap'
  <2>1. decided'[q].at # "filed" /\ \A o \in Moderator \ {q} : decided'[o] = decided[o]
    BY <1>0, <1>8
  <2>2. ASSUME NEW r  PROVE Desk!Open(r)' \subseteq Desk!Open(r)
    BY <1>8 DEF Desk!Open
  <2> QED
    BY <1>1, <1>8, <2>1, <2>2
<1>9. \A q \in Moderator : decided[q] \in Desk!Transactions
  BY <1>0
<1>10. ASSUME NEW q \in Moderator, NEW r \in ReportId, NEW verdict, Desk!Moderate(q, r, verdict)  PROVE AppealsOverlap'
  BY <1>6, <1>10 DEF Desk!Moderate, Desk!Idle
<1>11. ASSUME NEW q \in Moderator, NEW r \in ReportId, Desk!AppealBegin(q, r)  PROVE AppealsOverlap'
  <2> DEFINE next == [Desk!Idle EXCEPT !.at = "appealing", !.report = r]
  <2>1. decided' = [decided EXCEPT ![q] = next] /\ appeals' = appeals /\ overlap' = overlap
    BY <1>11 DEF Desk!AppealBegin
  <2>2. next.at # "filed"
    BY DEF Desk!Idle
  <2> HIDE DEF next
  <2> QED
    BY <1>8, <2>1, <2>2
<1>12. ASSUME NEW q \in Moderator, NEW a \in Appeal, NEW state, Desk!Resolve(q, a, state)  PROVE AppealsOverlap'
  BY <1>6, <1>12 DEF Desk!Resolve, Desk!Idle
<1>13. ASSUME NEW q \in Moderator, Desk!Adjust(q)  PROVE AppealsOverlap'
  BY <1>6, <1>9, <1>13 DEF Desk!Adjust, Desk!Transactions
<1>14. ASSUME NEW q \in Moderator, Desk!Audit(q)  PROVE AppealsOverlap'
  BY <1>6, <1>9, <1>14 DEF Desk!Audit, Desk!Transactions
<1>15. ASSUME NEW q \in Moderator, Desk!Overturn(q)  PROVE AppealsOverlap'
  BY <1>6, <1>9, <1>15 DEF Desk!Overturn, Desk!Transactions
<1>16. ASSUME NEW q \in Moderator, Desk!Rollback(q)  PROVE AppealsOverlap'
  BY <1>8, <1>16 DEF Desk!Rollback
<1> QED
  BY <1>3, <1>4, <1>5, <1>7, <1>10, <1>11, <1>12, <1>13, <1>14, <1>15, <1>16 DEF Desk!Next

\* A report has two open appeals only if their transactions overlapped, for any number of
\* reports, reporters and appeals.
THEOREM SecondAppeals == CommunitySpec => []SecondAppealNeedsOverlap
<1>1. AppealsOverlap => SecondAppealNeedsOverlap
  <2> SUFFICES ASSUME AppealsOverlap, NEW r \in ReportId, Desk!Cardinality(Desk!Open(r)) > 1, r \notin overlap
               PROVE  FALSE
    BY DEF SecondAppealNeedsOverlap, Desk!SecondAppealNeedsOverlap
  <2>0. Desk!Cardinality(Desk!Open(r)) = Cardinality(Desk!Open(r))
    BY DEF Desk!Cardinality, Cardinality
  <2>1. \A a, b \in Desk!Open(r) : a = b
    BY DEF AppealsOverlap, Desk!Open
  <2>2. CASE Desk!Open(r) = {}
    <3>1. Cardinality({}) = 0
      BY FS_EmptySet
    <3> QED
      BY <2>0, <2>2, <3>1
  <2>3. CASE Desk!Open(r) # {}
    <3>1. PICK a : a \in Desk!Open(r)
      BY <2>3
    <3>2. Desk!Open(r) = {a}
      BY <2>1, <3>1
    <3>3. Cardinality({a}) = 1
      BY FS_Singleton
    <3> QED
      BY <2>0, <3>2, <3>3
  <2> QED
    BY <2>2, <2>3
<1>2. Desk!Init => AppealsOverlap
  BY IdleDecision DEF Desk!Init, AppealsOverlap, Desk!Open, Desk!Unfiled
<1> QED
  BY <1>1, <1>2, DeskInvInit, DeskInvKept, AppealsOverlapKept, DeskMovesAlone, PTL DEF Desk!Spec

-------------------------------------------------------------------------------
(* The chain is the log *)

LEMMA MediaMovesAlone == CommunitySpec => Spec
<1>1. CommunityInit => Init
  BY DEF CommunityInit
<1>2. [CommunityNext]_<<vars, desk, audit, component>> => [Next]_vars
  BY DEF CommunityNext
<1> QED
  BY <1>1, <1>2, PTL DEF CommunitySpec, Spec

LEMMA AuditIsTyped == AuditInv => Audit!TypeOK
<1> SUFFICES ASSUME AuditInv  PROVE Audit!TypeOK
  OBVIOUS
<1>1. ASSUME NEW r \in AuditRow  PROVE Audit!IsRow(r)
  BY DEF AuditRow, Audit!IsRow
<1>2. \A r \in rows : Audit!IsRow(r) /\ r.sequence <= sequence
  BY <1>1 DEF AuditInv, AuditTypes
<1>3. \A q \in Operator : privileged[q].mfa \in Audit!Mfa /\ privileged[q].draft \subseteq AuditRow
  BY DEF AuditInv, AuditTypes, Privilege
<1> QED
  BY <1>1, <1>2, <1>3 DEF AuditInv, AuditTypes, Audit!TypeOK

\* docs/phase-8:12-13: appends of concurrent replicas never fork the chain, and without damage
\* it is the log of the privileged mutations in the order of their commits, for any number of
\* replicas; the tables of the three parts keep their types.
THEOREM ChainStaysTheLog == CommunitySpec => []ChainIsTheLog
<1>1. AuditInv => Audit!ChainIsTheLog
  <2> SUFFICES ASSUME AuditInv, damaged = "no"
               PROVE  /\ Audit!verify_chain(rows) /\ Audit!Cardinality(rows) = Len(done)
                      /\ rows # {} => (CHOOSE r \in rows : Audit!Newest(rows, r)).event_hash = done
    BY DEF Audit!ChainIsTheLog, Audit!UndamagedChainVerifies, Audit!ChainIsCommitOrder
  <2>1. Audit!verify_chain(rows)
    BY ChainVerifies DEF AuditInv
  <2>2. Audit!Cardinality(rows) = Len(done)
    <3>1. Cardinality(rows) = Len(done)
      BY DEF AuditInv, OneChain
    <3> QED
      BY <3>1 DEF Audit!Cardinality, Cardinality
  <2>3. ASSUME rows # {}  PROVE (CHOOSE r \in rows : Audit!Newest(rows, r)).event_hash = done
    <3>1. PICK r \in rows : r = (CHOOSE x \in rows : Audit!Newest(rows, x)) /\ Audit!Newest(rows, r)
      BY <2>3 DEF AuditInv, HasNewest
    <3>2. r.event_hash = done
      BY <3>1, NewestOfChain DEF AuditInv
    <3> QED
      BY <3>1, <3>2
  <2> QED
    BY <2>1, <2>2, <2>3
<1>2. TypeOK /\ DeskInv /\ AuditInv => ChainIsTheLog
  BY <1>1, AuditIsTyped DEF ChainIsTheLog, CommunityTypeOK, DeskInv, DeskTypes
<1>3. CommunitySpec => []AuditInv
  BY AuditMovesAlone, AuditInvInit, AuditInvKept, PTL DEF Audit!Spec
<1>4. CommunitySpec => []DeskInv
  BY DeskMovesAlone, DeskInvInit, DeskInvKept, PTL DEF Desk!Spec
<1>5. CommunitySpec => []TypeOK
  BY MediaMovesAlone, MediaIsTyped, PTL
<1> QED
  BY <1>2, <1>3, <1>4, <1>5, PTL
================================================================================
