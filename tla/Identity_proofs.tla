---------------------------- MODULE Identity_proofs ----------------------------
(***************************************************************************)
(* The login limiter and the native clients, for any number of request     *)
(* slots, any limits, and any number of calls, views and credentials.      *)
(***************************************************************************)
EXTENDS MCIdentity, FiniteSetTheorems, TLAPS

-------------------------------------------------------------------------------
(* The login limiter: the row of a key *)

\* A row is locked from the failure on that reached the limit.
RowStands(r) == /\ r.failures = 0 => r = Limiter!Absent
                /\ r.failures >= Limiter!Limit <=> r.locked # 0

\* Attempts still to be added to the count of the committed row.
Counts(t) == \/ t.at \in {"verifying", "failing"} /\ ~t.holds
             \/ t.at = "failed" /\ t.draft.failures = row.failures + 1
Adding == {q \in Request : Counts(attempts[q])}

\* What check, reset and record_failure leave in the transaction of an attempt.
Attempting(t) ==
    /\ t.at \in {"idle", "clearing"} => ~t.holds
    /\ t.at # "idle" => t.began <= now /\ now <= t.began + 1
    /\ t.at \in {"failing", "failed"} => t.began <= t.stamp /\ t.stamp <= now
    /\ t.at \in {"verifying", "failing"} /\ t.holds => t.draft = Limiter!Absent /\ row.failures > 0
    /\ t.at = "failed" => /\ t.holds
                          /\ \/ t.draft = Limiter!Counted(row, t.stamp)
                             \/ t.draft = Limiter!Counted(Limiter!Absent, t.stamp)

\* The row lock has one holder.
OneHolder == \A p, q \in Request : p # q => ~attempts[p].holds \/ ~attempts[q].holds

LimitInv ==
    /\ Limiter!TypeOK /\ RowStands(row) /\ OneHolder
    /\ \A q \in Request : Attempting(attempts[q])
    /\ row.failures >= Limiter!Limit => row.failures + Cardinality(Adding) < Limiter!Limit + Cardinality(Request)

LEMMA LimitIsTwo == /\ Limiter!Limit \in Nat /\ Limiter!Limit >= 2
                    /\ MaxFailures \in Nat /\ MaxFailures >= 1 /\ Window \in Nat /\ Window >= 2 /\ Lock \in Nat /\ Lock >= 2
                    /\ MaxTime \in Nat /\ FailuresCommit \in BOOLEAN /\ IsFiniteSet(Request)
                    /\ (MaxFailures = Limiter!Limit \/ (MaxFailures = 1 /\ Limiter!Limit = 2))
<1>1. Limiter!LimiterValues
  BY IdentityShapes
<1>2. IsFiniteSet(Request)
  BY <1>1 DEF Limiter!LimiterValues, Limiter!IsFiniteSet, IsFiniteSet
<1>3. MaxFailures \in Nat \ {0}
  BY <1>1 DEF Limiter!LimiterValues
<1> QED
  BY <1>1, <1>2, <1>3 DEF Limiter!LimiterValues, Limiter!Limit

LEMMA RequestsCounted ==
    /\ Cardinality(Request) \in Nat
    /\ \A S \in SUBSET Request : IsFiniteSet(S) /\ Cardinality(S) \in Nat /\ Cardinality(S) <= Cardinality(Request)
    /\ \A S \in SUBSET Request : \A q \in Request \ S : Cardinality(S) + 1 <= Cardinality(Request)
    /\ \A S \in SUBSET Request : \A T \in SUBSET S : Cardinality(T) <= Cardinality(S)
    /\ \A S \in SUBSET Request : \A q \in S : Cardinality(S \ {q}) = Cardinality(S) - 1
<1>1. IsFiniteSet(Request)
  BY LimitIsTwo
<1>2. ASSUME NEW S \in SUBSET Request
      PROVE  IsFiniteSet(S) /\ Cardinality(S) \in Nat /\ Cardinality(S) <= Cardinality(Request)
  BY <1>1, FS_Subset, FS_CardinalityType
<1>3. ASSUME NEW S \in SUBSET Request, NEW q \in Request \ S
      PROVE  Cardinality(S) + 1 <= Cardinality(Request)
  <2>1. Cardinality(S \cup {q}) = Cardinality(S) + 1
    BY <1>2, <1>3, FS_AddElement
  <2>2. S \cup {q} \in SUBSET Request
    BY <1>3
  <2> QED
    BY <1>2, <2>1, <2>2
<1>4. ASSUME NEW S \in SUBSET Request, NEW T \in SUBSET S  PROVE Cardinality(T) <= Cardinality(S)
  BY <1>2, FS_Subset
<1>5. ASSUME NEW S \in SUBSET Request, NEW q \in S  PROVE Cardinality(S \ {q}) = Cardinality(S) - 1
  BY <1>2, FS_RemoveElement
<1>6. Cardinality(Request) \in Nat
  BY <1>1, FS_CardinalityType
<1> QED
  BY <1>2, <1>3, <1>4, <1>5, <1>6

\* record_failure counts from the row it sees, or starts a window.
LEMMA CountedStands ==
    ASSUME NEW r \in Limiter!RowType, RowStands(r), NEW t \in Limiter!Time
    PROVE  LET s == Limiter!Counted(r, t) IN
           /\ s \in Limiter!RowType /\ RowStands(s) /\ s.failures > 0 /\ s.updated = t
           /\ s.locked = 0 \/ s.locked = t + Lock
           /\ \/ s.failures = 1 /\ s.started = t /\ s.locked = 0
              \/ s.failures = r.failures + 1 /\ s.started = r.started /\ r.failures > 0
<1> DEFINE s == Limiter!Counted(r, t)
<1> USE LimitIsTwo DEF Limiter!RowType, Limiter!Time, RowStands, Limiter!Unlocked
<1>a. r.failures \in Nat /\ r.started \in 0..MaxTime /\ r.locked \in 0..(MaxTime + Lock) /\ t \in 0..MaxTime
  OBVIOUS
<1>b. t + Lock \in 0..(MaxTime + Lock) /\ t + Lock # 0
  BY <1>a
<1>1. CASE r = Limiter!Absent \/ r.started + Window <= t
  <2>1. s = [failures |-> 1, started |-> t, locked |-> 0, updated |-> t]
    BY <1>1 DEF Limiter!Counted
  <2>2. s \in Limiter!RowType
    BY <1>a, <1>b, <2>1
  <2>3. s.failures = 1 /\ s.started = t /\ s.locked = 0 /\ s.updated = t
    BY <2>1
  <2> HIDE DEF s
  <2>4. RowStands(s)
    BY <2>3
  <2> QED
    BY <2>2, <2>3, <2>4 DEF s
<1>2. CASE ~(r = Limiter!Absent \/ r.started + Window <= t)
  <2> DEFINE lock == IF r.failures + 1 >= MaxFailures THEN t + Lock ELSE r.locked
  <2>1. s = [failures |-> r.failures + 1, started |-> r.started, updated |-> t, locked |-> lock]
    BY <1>2 DEF Limiter!Counted
  <2>2. r.failures > 0
    BY <1>2, <1>a
  <2>3. r.failures + 1 >= MaxFailures <=> r.failures + 1 >= Limiter!Limit
    BY <1>a, <2>2
  <2>4. /\ lock \in 0..(MaxTime + Lock) /\ (lock = 0 \/ lock = t + Lock)
        /\ r.failures + 1 >= Limiter!Limit <=> lock # 0
    <3>1. CASE r.failures + 1 >= MaxFailures
      BY <1>b, <2>3, <3>1
    <3>2. CASE ~(r.failures + 1 >= MaxFailures)
      <4>1. ~(r.failures >= Limiter!Limit)
        BY <1>a, <2>3, <3>2
      <4>2. r.locked = 0
        BY <4>1
      <4> QED
        BY <1>a, <2>3, <3>2, <4>2
    <3> QED
      BY <3>1, <3>2
  <2> HIDE DEF lock
  <2>5. s \in Limiter!RowType
    BY <1>a, <2>1, <2>4
  <2>6. s.failures = r.failures + 1 /\ s.started = r.started /\ s.locked = lock /\ s.updated = t
    BY <2>1
  <2> HIDE DEF s
  <2>7. RowStands(s)
    BY <1>a, <2>4, <2>6
  <2> QED
    BY <1>a, <2>2, <2>4, <2>5, <2>6, <2>7 DEF s
<1> QED
  BY <1>1, <1>2

LEMMA IdleAttempt ==
    /\ Limiter!Idle \in Limiter!Transactions /\ Limiter!Absent \in Limiter!RowType
    /\ Limiter!Idle.at = "idle" /\ ~Limiter!Idle.holds
    /\ RowStands(Limiter!Absent) /\ Limiter!Absent.failures = 0 /\ Limiter!Absent.locked = 0
<1>1. Limiter!Absent \in Limiter!RowType
  BY LimitIsTwo DEF Limiter!Absent, Limiter!RowType, Limiter!Time, Limiter!Unlocked
<1>2. Limiter!Absent.failures = 0 /\ Limiter!Absent.locked = 0
  BY DEF Limiter!Absent, Limiter!Unlocked
<1>3. Limiter!Idle \in Limiter!Transactions
  BY <1>1, LimitIsTwo DEF Limiter!Idle, Limiter!Transactions, Limiter!Time
<1>4. Limiter!Idle.at = "idle" /\ ~Limiter!Idle.holds
  BY DEF Limiter!Idle
<1> QED
  BY <1>1, <1>2, <1>3, <1>4, LimitIsTwo DEF RowStands

LEMMA LimitInvInit == Limiter!Init => LimitInv
<1> SUFFICES ASSUME Limiter!Init  PROVE LimitInv
  OBVIOUS
<1>1. /\ now = 0 /\ row = Limiter!Absent /\ strikes = 0
      /\ attempts = [q \in Request |-> Limiter!Idle]
  BY DEF Limiter!Init
<1>2. Limiter!TypeOK
  BY <1>1, IdleAttempt, LimitIsTwo DEF Limiter!TypeOK, Limiter!Time
<1>3. \A q \in Request : attempts[q].at = "idle" /\ ~attempts[q].holds
  BY <1>1, IdleAttempt
<1>4. \A q \in Request : Attempting(attempts[q])
  BY <1>3 DEF Attempting
<1> QED
  BY <1>1, <1>2, <1>3, <1>4, IdleAttempt, LimitIsTwo DEF LimitInv, OneHolder

\* A statement of one attempt that leaves the committed row as it is.
LEMMA AttemptMoves ==
    ASSUME LimitInv, NEW q \in Request, NEW next \in Limiter!Transactions,
           attempts' = [attempts EXCEPT ![q] = next], row' = row, now' = now, strikes' \in Nat,
           Attempting(next), next.holds => attempts[q].holds \/ Limiter!CanWrite(q),
           row.failures >= Limiter!Limit /\ Counts(next) => Counts(attempts[q])
    PROVE  LimitInv'
<1>1. /\ attempts \in [Request -> Limiter!Transactions] /\ row \in Limiter!RowType /\ now \in Limiter!Time
      /\ RowStands(row) /\ OneHolder /\ \A o \in Request : Attempting(attempts[o])
  BY DEF LimitInv, Limiter!TypeOK
<1>2. /\ attempts' \in [Request -> Limiter!Transactions] /\ attempts'[q] = next
      /\ \A o \in Request \ {q} : attempts'[o] = attempts[o]
  BY <1>1
<1>3. Limiter!TypeOK' /\ RowStands(row)'
  BY <1>1, <1>2 DEF Limiter!TypeOK, RowStands
<1>4. \A o \in Request : Attempting(attempts[o])'
  <2>1. \A o \in Request : Attempting(attempts'[o])
    BY <1>1, <1>2
  <2> QED
    BY <2>1 DEF Attempting
<1>5. OneHolder'
  <2>1. ASSUME NEW o \in Request \ {q}  PROVE ~next.holds \/ ~attempts[o].holds
    BY <1>1, <2>1 DEF OneHolder, Limiter!CanWrite
  <2> QED
    BY <1>1, <1>2, <2>1 DEF OneHolder
<1>6. ASSUME row.failures >= Limiter!Limit
      PROVE  row.failures + Cardinality(Adding') < Limiter!Limit + Cardinality(Request)
  <2>1. Adding' \subseteq Adding
    BY <1>2, <1>6 DEF Adding, Counts
  <2>2. Adding \in SUBSET Request
    BY DEF Adding
  <2>3. Cardinality(Adding') <= Cardinality(Adding) /\ Cardinality(Adding) \in Nat /\ Cardinality(Adding') \in Nat
    BY <2>1, <2>2, RequestsCounted
  <2>4. row.failures + Cardinality(Adding) < Limiter!Limit + Cardinality(Request)
    BY <1>6 DEF LimitInv
  <2>5. row.failures \in Nat
    BY <1>1 DEF Limiter!RowType
  <2> QED
    BY <2>3, <2>4, <2>5, RequestsCounted, LimitIsTwo
<1> QED
  BY <1>3, <1>4, <1>5, <1>6 DEF LimitInv

\* The holder of the row lock writes the row, and nobody holds it any more.
LEMMA RowIsWritten ==
    ASSUME LimitInv, attempts' \in [Request -> Limiter!Transactions], now' = now, strikes' \in Nat,
           \A o \in Request : ~attempts'[o].holds /\ (attempts'[o] = attempts[o] \/ attempts'[o] = Limiter!Idle),
           row' \in Limiter!RowType, RowStands(row'),
           row'.failures >= Limiter!Limit => row'.failures + Cardinality(Adding') < Limiter!Limit + Cardinality(Request)
    PROVE  LimitInv'
<1>1. Limiter!TypeOK' /\ RowStands(row)' /\ OneHolder'
  BY DEF LimitInv, Limiter!TypeOK, OneHolder, RowStands
<1>2. ASSUME NEW o \in Request  PROVE Attempting(attempts[o])'
  <2>1. CASE attempts'[o] = Limiter!Idle
    BY <2>1, IdleAttempt DEF Attempting
  <2>2. CASE attempts'[o] = attempts[o]
    <3>1. Attempting(attempts[o]) /\ ~attempts[o].holds
      BY <2>2 DEF LimitInv
    <3> QED
      BY <2>2, <3>1 DEF Attempting
  <2> QED
    BY <2>1, <2>2
<1> QED
  BY <1>1, <1>2 DEF LimitInv

\* A step of the clock, which every attempt under way outlives at most once.
LEMMA TickKeepsLimit == LimitInv /\ Limiter!Tick => LimitInv'
<1> SUFFICES ASSUME LimitInv, Limiter!Tick  PROVE LimitInv'
  OBVIOUS
<1>1. /\ now' = now + 1 /\ now < MaxTime /\ row' = row /\ attempts' = attempts /\ strikes' = 0
      /\ \A q \in Request : attempts[q].at # "idle" => attempts[q].began = now
  BY DEF Limiter!Tick
<1>2. /\ now \in 0..MaxTime /\ Limiter!TypeOK /\ RowStands(row) /\ OneHolder
      /\ \A q \in Request : Attempting(attempts[q]) /\ attempts[q] \in Limiter!Transactions
  BY DEF LimitInv, Limiter!TypeOK, Limiter!Time
<1>3. now' \in 0..MaxTime
  BY <1>1, <1>2, LimitIsTwo
<1>4. Limiter!TypeOK' /\ RowStands(row)' /\ OneHolder'
  BY <1>1, <1>2, <1>3 DEF Limiter!TypeOK, Limiter!Time, RowStands, OneHolder
<1>5. ASSUME NEW q \in Request  PROVE Attempting(attempts[q])'
  <2>1. attempts[q].began \in 0..MaxTime /\ attempts[q].stamp \in 0..MaxTime
    BY <1>2 DEF Limiter!Transactions, Limiter!Time
  <2> QED
    BY <1>1, <1>2, <2>1 DEF Attempting
<1>6. Adding' = Adding
  BY <1>1 DEF Adding, Counts
<1> QED
  BY <1>1, <1>4, <1>5, <1>6 DEF LimitInv

\* The 401 of an attempt whose failure was counted.
LEMMA FailureKeepsLimit ==
    ASSUME LimitInv, NEW q \in Request, Limiter!AnswerFailure(q)
    PROVE  LimitInv'
<1>1. /\ attempts[q].at = "failed" /\ row' = IF FailuresCommit THEN attempts[q].draft ELSE row
      /\ attempts' = [attempts EXCEPT ![q] = Limiter!Idle] /\ strikes' = strikes + 1 /\ now' = now
  BY DEF Limiter!AnswerFailure
<1>2. /\ attempts \in [Request -> Limiter!Transactions] /\ row \in Limiter!RowType /\ now \in Limiter!Time
      /\ strikes \in Nat /\ RowStands(row) /\ OneHolder /\ Attempting(attempts[q])
  BY DEF LimitInv, Limiter!TypeOK
<1>3. strikes' \in Nat
  BY <1>1, <1>2
<1>4. CASE row' = row
  BY <1>1, <1>3, <1>4, IdleAttempt, AttemptMoves DEF Attempting, Counts
<1>5. CASE row' = attempts[q].draft
  <2>1. attempts[q].holds /\ \A o \in Request \ {q} : ~attempts[o].holds /\ attempts[o].at # "failed"
    <3>1. attempts[q].holds
      BY <1>1, <1>2 DEF Attempting
    <3>2. ASSUME NEW o \in Request \ {q}  PROVE ~attempts[o].holds /\ attempts[o].at # "failed"
      BY <1>2, <3>1 DEF OneHolder, LimitInv, Attempting
    <3> QED
      BY <3>1, <3>2
  <2>2. attempts'[q] = Limiter!Idle /\ \A o \in Request \ {q} : attempts'[o] = attempts[o]
    BY <1>1, <1>2
  <2>3. attempts[q].stamp \in Limiter!Time /\ attempts' \in [Request -> Limiter!Transactions]
    BY <1>1, <1>2, IdleAttempt DEF Limiter!Transactions
  <2>4. \E r \in {row, Limiter!Absent} : row' = Limiter!Counted(r, attempts[q].stamp)
    BY <1>1, <1>2, <1>5 DEF Attempting
  <2>5. PICK r \in {row, Limiter!Absent} : row' = Limiter!Counted(r, attempts[q].stamp)
    BY <2>4
  <2>6. r \in Limiter!RowType /\ RowStands(r)
    BY <1>2, IdleAttempt
  <2>7. /\ row' \in Limiter!RowType /\ RowStands(row') /\ row'.failures > 0
        /\ row'.failures = 1 \/ (row'.failures = r.failures + 1 /\ r.failures > 0)
    BY <2>3, <2>5, <2>6, CountedStands
  <2>8. row.failures \in Nat /\ row'.failures \in Nat
    BY <1>2, <2>7 DEF Limiter!RowType
  <2>9. ASSUME row'.failures >= Limiter!Limit
        PROVE  row'.failures + Cardinality(Adding') < Limiter!Limit + Cardinality(Request)
    <3>1. row'.failures = row.failures + 1
      BY <2>5, <2>7, <2>9, LimitIsTwo, IdleAttempt
    <3>2. q \in Adding /\ Adding \in SUBSET Request
      BY <1>1, <1>5, <3>1 DEF Adding, Counts
    <3>3. Adding' \subseteq Adding \ {q}
      BY <2>1, <2>2, IdleAttempt DEF Adding, Counts
    <3>4. /\ Adding \ {q} \in SUBSET Request /\ q \in Request \ (Adding \ {q})
          /\ Cardinality(Adding') <= Cardinality(Adding \ {q}) /\ Cardinality(Adding') \in Nat
      BY <3>2, <3>3, RequestsCounted
    <3>5. /\ Cardinality(Adding \ {q}) + 1 <= Cardinality(Request)
          /\ Cardinality(Adding \ {q}) = Cardinality(Adding) - 1
          /\ Cardinality(Adding \ {q}) \in Nat /\ Cardinality(Adding) \in Nat /\ Cardinality(Request) \in Nat
      BY <3>2, <3>4, RequestsCounted
    <3>6. row.failures >= Limiter!Limit => row.failures + Cardinality(Adding) < Limiter!Limit + Cardinality(Request)
      BY DEF LimitInv
    <3> QED
      BY <2>8, <2>9, <3>1, <3>4, <3>5, <3>6, LimitIsTwo
  <2>10. \A o \in Request : ~attempts'[o].holds /\ (attempts'[o] = attempts[o] \/ attempts'[o] = Limiter!Idle)
    BY <2>1, <2>2, IdleAttempt
  <2> QED
    BY <1>1, <1>3, <2>3, <2>7, <2>9, <2>10, RowIsWritten
<1> QED
  BY <1>1, <1>4, <1>5

\* The statements of an attempt before its answer.
LEMMA StatementsKeepLimit ==
    ASSUME LimitInv, NEW q \in Request,
           Limiter!Check(q) \/ Limiter!Clear(q) \/ Limiter!Mismatch(q) \/ Limiter!RecordFailure(q)
               \/ Limiter!Reset(q) \/ Limiter!Rollback(q)
    PROVE  LimitInv'
<1> DEFINE t == attempts[q]
<1>1. /\ attempts \in [Request -> Limiter!Transactions] /\ row \in Limiter!RowType /\ now \in Limiter!Time
      /\ now \in Nat /\ strikes \in Nat /\ RowStands(row) /\ OneHolder /\ t \in Limiter!Transactions /\ Attempting(t)
  BY DEF LimitInv, Limiter!TypeOK, Limiter!Time
<1>2. CASE Limiter!Check(q)
  <2> DEFINE next == [t EXCEPT !.at = IF row.locked = 0 THEN "verifying" ELSE "clearing", !.began = now]
  <2>1. attempts' = [attempts EXCEPT ![q] = next] /\ t.at = "idle" /\ UNCHANGED <<now, row, strikes>>
    BY <1>1, <1>2 DEF Limiter!Check, Limiter!Unlocked
  <2>2. /\ next \in Limiter!Transactions /\ next.at \in {"verifying", "clearing"} /\ next.began = now
        /\ next.holds = t.holds /\ (next.at = "verifying" => row.locked = 0)
    BY <1>1 DEF Limiter!Transactions
  <2> HIDE DEF next
  <2>3. ~next.holds
    BY <1>1, <2>1, <2>2 DEF Attempting
  <2>4. Attempting(next)
    BY <1>1, <2>2, <2>3 DEF Attempting
  <2>5. row.failures >= Limiter!Limit => ~Counts(next)
    BY <1>1, <2>2 DEF RowStands, Counts
  <2> QED
    BY <1>1, <2>1, <2>2, <2>3, <2>4, <2>5, AttemptMoves
<1>3. CASE Limiter!Clear(q)
  <2> DEFINE next == [t EXCEPT !.at = "verifying", !.draft = Limiter!Absent, !.holds = @ \/ row # Limiter!Absent]
  <2>1. /\ attempts' = [attempts EXCEPT ![q] = next] /\ t.at = "clearing" /\ UNCHANGED <<now, row, strikes>>
        /\ row # Limiter!Absent => Limiter!CanWrite(q)
    BY <1>1, <1>3 DEF Limiter!Clear, Limiter!Delete
  <2>2. /\ next \in Limiter!Transactions /\ next.at = "verifying" /\ next.began = t.began
        /\ next.holds = (t.holds \/ row # Limiter!Absent) /\ next.draft = Limiter!Absent
        /\ next.holds \in BOOLEAN
    BY <1>1, IdleAttempt DEF Limiter!Transactions
  <2> HIDE DEF next
  <2>3. ~t.holds
    BY <1>1, <2>1 DEF Attempting
  <2>4. row.failures \in Nat /\ (row.failures = 0 => row = Limiter!Absent)
    BY <1>1 DEF RowStands, Limiter!RowType
  <2>7. IF row = Limiter!Absent THEN ~next.holds ELSE next.holds
    BY <2>2, <2>3
  <2>5. Attempting(next)
    BY <1>1, <2>1, <2>2, <2>4, <2>7 DEF Attempting
  <2>6. row.failures >= Limiter!Limit => ~Counts(next)
    BY <2>2, <2>7, LimitIsTwo, IdleAttempt DEF Counts
  <2> QED
    BY <1>1, <2>1, <2>2, <2>5, <2>6, AttemptMoves
<1>4. CASE Limiter!Mismatch(q)
  <2> DEFINE next == [t EXCEPT !.at = "failing", !.stamp = now]
  <2>1. attempts' = [attempts EXCEPT ![q] = next] /\ t.at = "verifying" /\ UNCHANGED <<now, row, strikes>>
    BY <1>1, <1>4 DEF Limiter!Mismatch
  <2>2. /\ next \in Limiter!Transactions /\ next.at = "failing" /\ next.began = t.began /\ next.stamp = now
        /\ next.holds = t.holds /\ next.draft = t.draft
    BY <1>1 DEF Limiter!Transactions
  <2> HIDE DEF next
  <2>3. Attempting(next) /\ (Counts(next) => Counts(t))
    BY <1>1, <2>1, <2>2 DEF Attempting, Counts
  <2> QED
    BY <1>1, <2>1, <2>2, <2>3, AttemptMoves
<1>5. CASE Limiter!RecordFailure(q)
  <2> DEFINE next == [t EXCEPT !.at = "failed", !.holds = TRUE, !.draft = Limiter!Counted(Limiter!Seen(q), t.stamp)]
  <2>1. /\ attempts' = [attempts EXCEPT ![q] = next] /\ t.at = "failing" /\ UNCHANGED <<now, row, strikes>>
        /\ Limiter!CanWrite(q)
    BY <1>1, <1>5 DEF Limiter!RecordFailure
  <2>2. Limiter!Seen(q) = IF t.holds THEN Limiter!Absent ELSE row
    BY <1>1, <2>1 DEF Limiter!Seen, Attempting
  <2>3. t.stamp \in Limiter!Time /\ Limiter!Seen(q) \in Limiter!RowType /\ RowStands(Limiter!Seen(q))
    BY <1>1, <2>2, IdleAttempt DEF Limiter!Transactions
  <2>4. Limiter!Counted(Limiter!Seen(q), t.stamp) \in Limiter!RowType
    BY <2>3, CountedStands
  <2>5. /\ next \in Limiter!Transactions /\ next.at = "failed" /\ next.began = t.began /\ next.stamp = t.stamp
        /\ next.holds /\ next.draft = Limiter!Counted(Limiter!Seen(q), t.stamp)
    BY <1>1, <2>4 DEF Limiter!Transactions
  <2> HIDE DEF next
  <2>6. Attempting(next)
    BY <1>1, <2>1, <2>2, <2>5 DEF Attempting
  <2>7. ASSUME row.failures >= Limiter!Limit, Counts(next)  PROVE Counts(t)
    <3>1. next.draft.failures = row.failures + 1
      BY <2>5, <2>7 DEF Counts
    <3>2. CASE t.holds
      <4>1. next.draft.failures = 1
        BY <2>2, <2>3, <2>5, <3>2, IdleAttempt, CountedStands
      <4>2. row.failures \in Nat
        BY <1>1 DEF Limiter!RowType
      <4> QED
        BY <2>7, <3>1, <4>1, <4>2, LimitIsTwo
    <3>3. CASE ~t.holds
      BY <2>1, <3>3 DEF Counts
    <3> QED
      BY <3>2, <3>3
  <2> QED
    BY <1>1, <2>1, <2>5, <2>6, <2>7, AttemptMoves
<1>6. CASE Limiter!Reset(q)
  <2> DEFINE next == [t EXCEPT !.at = "passed", !.draft = Limiter!Absent, !.holds = @ \/ row # Limiter!Absent]
  <2>1. /\ attempts' = [attempts EXCEPT ![q] = next] /\ t.at = "verifying" /\ UNCHANGED <<now, row, strikes>>
        /\ row # Limiter!Absent => Limiter!CanWrite(q)
    BY <1>1, <1>6 DEF Limiter!Reset, Limiter!Delete
  <2>2. /\ next \in Limiter!Transactions /\ next.at = "passed" /\ next.began = t.began
        /\ next.holds => t.holds \/ row # Limiter!Absent
    BY <1>1, IdleAttempt DEF Limiter!Transactions
  <2> HIDE DEF next
  <2>3. Attempting(next) /\ ~Counts(next)
    BY <1>1, <2>1, <2>2 DEF Attempting, Counts
  <2> QED
    BY <1>1, <2>1, <2>2, <2>3, AttemptMoves
<1>7. CASE Limiter!Rollback(q)
  BY <1>1, <1>7, IdleAttempt, AttemptMoves DEF Limiter!Rollback, Attempting, Counts
<1> QED
  BY <1>2, <1>3, <1>4, <1>5, <1>6, <1>7

\* The answer of a login that verified.
LEMMA SuccessKeepsLimit ==
    ASSUME LimitInv, NEW q \in Request, Limiter!AnswerSuccess(q)
    PROVE  LimitInv'
<1>1. /\ attempts[q].at = "passed" /\ row' = IF attempts[q].holds THEN Limiter!Absent ELSE row
      /\ attempts' = [attempts EXCEPT ![q] = Limiter!Idle] /\ strikes' = 0 /\ now' = now
  BY DEF Limiter!AnswerSuccess
<1>2. /\ attempts \in [Request -> Limiter!Transactions] /\ row \in Limiter!RowType /\ OneHolder
  BY DEF LimitInv, Limiter!TypeOK
<1>3. CASE ~attempts[q].holds
  BY <1>1, <1>3, IdleAttempt, AttemptMoves DEF Attempting, Counts
<1>4. CASE attempts[q].holds
  <2>1. /\ attempts' \in [Request -> Limiter!Transactions] /\ attempts'[q] = Limiter!Idle
        /\ \A o \in Request \ {q} : attempts'[o] = attempts[o] /\ ~attempts[o].holds
    BY <1>1, <1>2, <1>4, IdleAttempt DEF OneHolder
  <2>2. \A o \in Request : ~attempts'[o].holds /\ (attempts'[o] = attempts[o] \/ attempts'[o] = Limiter!Idle)
    BY <2>1, IdleAttempt
  <2>3. row' = Limiter!Absent /\ ~(row'.failures >= Limiter!Limit)
    BY <1>1, <1>4, IdleAttempt, LimitIsTwo
  <2> QED
    BY <1>1, <2>1, <2>2, <2>3, IdleAttempt, RowIsWritten
<1> QED
  BY <1>3, <1>4

LEMMA LimitInvKept == LimitInv /\ [Limiter!Next]_limiter => LimitInv'
<1> SUFFICES ASSUME LimitInv, [Limiter!Next]_limiter  PROVE LimitInv'
  OBVIOUS
<1>1. ASSUME NEW q \in Request,
             Limiter!Check(q) \/ Limiter!Clear(q) \/ Limiter!Mismatch(q) \/ Limiter!RecordFailure(q)
                 \/ Limiter!Reset(q) \/ Limiter!Rollback(q)
      PROVE  LimitInv'
  BY <1>1, StatementsKeepLimit
<1>2. ASSUME NEW q \in Request, Limiter!AnswerFailure(q)  PROVE LimitInv'
  BY <1>2, FailureKeepsLimit
<1>3. ASSUME NEW q \in Request, Limiter!AnswerSuccess(q)  PROVE LimitInv'
  BY <1>3, SuccessKeepsLimit
<1>4. CASE Limiter!Sweep
  <2>1. /\ row' = Limiter!Absent /\ now' = now /\ attempts' = attempts /\ strikes' = strikes
        /\ \A q \in Request : ~attempts[q].holds
    BY <1>4 DEF Limiter!Sweep
  <2>2. strikes \in Nat /\ attempts \in [Request -> Limiter!Transactions]
    BY DEF LimitInv, Limiter!TypeOK
  <2>3. ~(row'.failures >= Limiter!Limit)
    BY <2>1, IdleAttempt, LimitIsTwo
  <2> QED
    BY <2>1, <2>2, <2>3, IdleAttempt, RowIsWritten
<1>5. CASE Limiter!Tick
  BY <1>5, TickKeepsLimit
<1>6. CASE UNCHANGED limiter
  <2>1. UNCHANGED <<now, row, attempts, strikes>>
    BY <1>6 DEF limiter
  <2> QED
    BY <2>1 DEF LimitInv, Limiter!TypeOK, RowStands, OneHolder, Attempting, Adding, Counts
<1> QED
  BY <1>1, <1>2, <1>3, <1>4, <1>5, <1>6 DEF Limiter!Next

\* Each behaviour moves one part of identity.
LEMMA LimiterMovesAlone == IdentitySpec => Limiter!Init /\ [][Limiter!Next]_limiter
<1>1. IdentityInit => Limiter!Init
  BY DEF IdentityInit
<1>2. [IdentityNext]_<<vars, limiter, client, component>> => [Limiter!Next]_limiter
  BY DEF IdentityNext, limiter
<1> QED
  BY <1>1, <1>2, PTL DEF IdentitySpec

\* docs/phase-2-authentication.md:7: whichever replica's upsert takes the count to the limit
\* locks the row, and only attempts in flight take it further, for any number of requests, any
\* limit and periods.
THEOREM RowAlwaysKeepsTheLimit == IdentitySpec => []RowKeepsTheLimit
<1>1. LimitInv => RowKeepsTheLimit
  <2> SUFFICES ASSUME LimitInv  PROVE RowKeepsTheLimit
    OBVIOUS
  <2>1. row.failures \in Nat /\ Adding \in SUBSET Request
    BY DEF LimitInv, Limiter!TypeOK, Limiter!RowType, Adding
  <2>2. Cardinality(Adding) \in Nat /\ Cardinality(Request) \in Nat
    BY <2>1, RequestsCounted
  <2>3. row.failures < Limiter!Limit + Cardinality(Request)
    BY <2>1, <2>2, LimitIsTwo DEF LimitInv
  <2>4. Limiter!FailuresBounded
    BY <2>3 DEF Limiter!FailuresBounded, Limiter!Cardinality, Cardinality
  <2> QED
    BY <2>4 DEF LimitInv, RowStands, RowKeepsTheLimit, Limiter!RowKeepsTheLimit, Limiter!LockedAtLimit, Limiter!Unlocked
<1> QED
  BY <1>1, LimitInvInit, LimitInvKept, LimiterMovesAlone, PTL

-------------------------------------------------------------------------------
(* The login limiter: guesses in one instant *)

\* The window of the committed row has ended, so that the next failure starts another.
Stale == row.started + Window <= now

\* Attempts that will start the count afresh: they read a lock as passed and delete the row.
Clears(t) == \/ t.at = "clearing"
             \/ t.at \in {"verifying", "failing"} /\ t.holds
             \/ t.at = "failed" /\ t.draft.failures # row.failures + 1 /\ ~Stale
Clearers == {q \in Request : Clears(attempts[q])}

\* The failures that one count can still end with, and the counts still to come.
Round == Limiter!Limit + Cardinality(Request) - 1
Ahead == IF row.locked = 0 THEN Limiter!Limit - row.failures + Cardinality(Request) - 1
                           ELSE Cardinality(Adding)
Rounds == Cardinality(Clearers) + IF Stale THEN 1 ELSE 0

\* From the first 401 of an instant on the row is young and its lock, if any, has not passed.
GuessInv ==
    strikes > 0 =>
        /\ row.failures > 0 /\ now <= row.updated + 1 /\ (row.locked = 0 \/ row.locked > now)
        /\ strikes + Ahead + Rounds * Round <= (Cardinality(Request) + 1) * Round

LEMMA Products ==
    /\ \A n, k \in Nat : n * k \in Nat /\ (n + 1) * k = n * k + k
    /\ \A m, n, k \in Nat : m <= n => m * k <= n * k
<1>1. \A n, k \in Nat : n * k \in Nat /\ (n + 1) * k = n * k + k
  OBVIOUS
<1>2. ASSUME NEW m \in Nat, NEW n \in Nat, NEW k \in Nat, m <= n  PROVE m * k <= n * k
  <2>1. PICK d \in Nat : n = m + d
    BY <1>2
  <2>2. n * k = m * k + d * k /\ m * k \in Nat /\ d * k \in Nat
    BY <2>1
  <2> QED
    BY <2>2
<1> QED
  BY <1>1, <1>2

LEMMA GuessesTyped ==
    ASSUME LimitInv
    PROVE  /\ strikes \in Nat /\ row.failures \in Nat /\ now \in Nat /\ row.started \in Nat /\ row.locked \in Nat
           /\ row.updated \in Nat
           /\ Adding \in SUBSET Request /\ Clearers \in SUBSET Request
           /\ Cardinality(Adding) \in Nat /\ Cardinality(Clearers) \in Nat /\ Cardinality(Request) \in Nat
           /\ Round \in Nat /\ Round > Cardinality(Request) /\ Ahead \in Nat /\ Rounds \in Nat
           /\ row.locked = 0 => row.failures < Limiter!Limit
<1>1. /\ strikes \in Nat /\ row.failures \in Nat /\ now \in Nat /\ row.started \in Nat /\ row.locked \in Nat
      /\ row.updated \in Nat
  BY LimitIsTwo DEF LimitInv, Limiter!TypeOK, Limiter!RowType, Limiter!Time
<1>2. Adding \in SUBSET Request /\ Clearers \in SUBSET Request
  BY DEF Adding, Clearers
<1>3. Cardinality(Adding) \in Nat /\ Cardinality(Clearers) \in Nat /\ Cardinality(Request) \in Nat
  BY <1>2, RequestsCounted
<1>4. row.locked = 0 => row.failures < Limiter!Limit
  BY <1>1, LimitIsTwo DEF LimitInv, RowStands
<1> QED
  BY <1>1, <1>2, <1>3, <1>4, LimitIsTwo DEF Round, Ahead, Rounds

\* A statement that adds no attempt to either set, or happens before the first 401.
LEMMA GuessesStand ==
    ASSUME LimitInv, LimitInv', GuessInv, UNCHANGED <<now, row, strikes>>,
           strikes > 0 => Clearers' \subseteq Clearers /\ (row.locked = 0 \/ Adding' \subseteq Adding)
    PROVE  GuessInv'
<1> SUFFICES ASSUME strikes > 0
             PROVE  strikes + Ahead' + Rounds' * Round <= (Cardinality(Request) + 1) * Round
  BY DEF GuessInv, Round
<1>1. Cardinality(Clearers') <= Cardinality(Clearers) /\ Cardinality(Clearers') \in Nat
  BY GuessesTyped, RequestsCounted
<1>2. row.locked = 0 \/ Cardinality(Adding') <= Cardinality(Adding)
  BY GuessesTyped, RequestsCounted
<1>3. Stale' = Stale
  BY DEF Stale
<1>4. Rounds' <= Rounds /\ Rounds' \in Nat
  BY <1>1, <1>3, GuessesTyped DEF Rounds
<1>5. Ahead' <= Ahead /\ Ahead' \in Nat
  <2>1. CASE row.locked = 0
    BY <2>1, GuessesTyped DEF Ahead
  <2>2. CASE row.locked # 0
    <3>1. Ahead = Cardinality(Adding) /\ Ahead' = Cardinality(Adding')
      BY <2>2 DEF Ahead
    <3>2. Cardinality(Adding') \in Nat
      BY GuessesTyped, RequestsCounted, <2>2
    <3> QED
      BY <1>2, <2>2, <3>1, <3>2
  <2> QED
    BY <2>1, <2>2
<1>6. Rounds' * Round <= Rounds * Round /\ Rounds' * Round \in Nat /\ Rounds * Round \in Nat
  BY <1>4, GuessesTyped, Products
<1>7. strikes + Ahead + Rounds * Round <= (Cardinality(Request) + 1) * Round
  BY DEF GuessInv
<1>8. (Cardinality(Request) + 1) * Round \in Nat
  BY GuessesTyped, Products
<1> QED
  BY <1>5, <1>6, <1>7, <1>8, GuessesTyped

LEMMA OneAttemptStands ==
    ASSUME LimitInv, LimitInv', GuessInv, UNCHANGED <<now, row, strikes>>, NEW q \in Request, NEW next,
           attempts' = [attempts EXCEPT ![q] = next],
           strikes > 0 => /\ Clears(next) => Clears(attempts[q])
                          /\ row.locked = 0 \/ (Counts(next) => Counts(attempts[q]))
    PROVE  GuessInv'
<1>1. attempts'[q] = next /\ \A o \in Request \ {q} : attempts'[o] = attempts[o]
  BY DEF LimitInv, Limiter!TypeOK
<1>2. strikes > 0 => Clearers' \subseteq Clearers
  BY <1>1 DEF Clearers, Clears, Stale
<1>3. strikes > 0 => row.locked = 0 \/ Adding' \subseteq Adding
  BY <1>1 DEF Adding, Counts
<1> QED
  BY <1>2, <1>3, GuessesStand

LEMMA StatementsStand ==
    ASSUME LimitInv, LimitInv', GuessInv, NEW q \in Request,
           Limiter!Check(q) \/ Limiter!Clear(q) \/ Limiter!Mismatch(q) \/ Limiter!RecordFailure(q)
               \/ Limiter!Reset(q) \/ Limiter!Rollback(q)
    PROVE  GuessInv'
<1> DEFINE t == attempts[q]
<1>1. /\ attempts \in [Request -> Limiter!Transactions] /\ row \in Limiter!RowType /\ now \in Limiter!Time
      /\ now \in Nat /\ strikes \in Nat /\ RowStands(row) /\ OneHolder /\ t \in Limiter!Transactions /\ Attempting(t)
  BY DEF LimitInv, Limiter!TypeOK, Limiter!Time
<1>2. CASE Limiter!Check(q)
  <2> DEFINE next == [t EXCEPT !.at = IF row.locked = 0 THEN "verifying" ELSE "clearing", !.began = now]
  <2>1. /\ attempts' = [attempts EXCEPT ![q] = next] /\ t.at = "idle" /\ UNCHANGED <<now, row, strikes>>
        /\ row.locked <= now
    BY <1>1, <1>2 DEF Limiter!Check, Limiter!Unlocked
  <2>2. next.at = (IF row.locked = 0 THEN "verifying" ELSE "clearing") /\ next.holds = t.holds
    BY <1>1 DEF Limiter!Transactions
  <2> HIDE DEF next
  <2>3. ~next.holds
    BY <1>1, <2>1, <2>2 DEF Attempting
  <2>4. strikes > 0 => row.locked = 0
    BY <2>1, GuessesTyped DEF GuessInv
  <2>5. strikes > 0 => ~Clears(next)
    BY <2>2, <2>3, <2>4 DEF Clears
  <2> QED
    BY <2>1, <2>4, <2>5, OneAttemptStands
<1>3. CASE Limiter!Clear(q)
  <2> DEFINE next == [t EXCEPT !.at = "verifying", !.draft = Limiter!Absent, !.holds = @ \/ row # Limiter!Absent]
  <2>1. attempts' = [attempts EXCEPT ![q] = next] /\ t.at = "clearing" /\ UNCHANGED <<now, row, strikes>>
    BY <1>1, <1>3 DEF Limiter!Clear, Limiter!Delete
  <2>2. next.at = "verifying" /\ next.holds = (t.holds \/ row # Limiter!Absent)
    BY <1>1 DEF Limiter!Transactions
  <2> HIDE DEF next
  <2>3. strikes > 0 => row # Limiter!Absent
    BY IdleAttempt DEF GuessInv
  <2>4. Clears(t)
    BY <2>1 DEF Clears
  <2>5. strikes > 0 => ~Counts(next)
    BY <2>2, <2>3 DEF Counts
  <2> QED
    BY <2>1, <2>4, <2>5, OneAttemptStands
<1>4. CASE Limiter!Mismatch(q)
  <2> DEFINE next == [t EXCEPT !.at = "failing", !.stamp = now]
  <2>1. attempts' = [attempts EXCEPT ![q] = next] /\ t.at = "verifying" /\ UNCHANGED <<now, row, strikes>>
    BY <1>1, <1>4 DEF Limiter!Mismatch
  <2>2. next.at = "failing" /\ next.holds = t.holds
    BY <1>1 DEF Limiter!Transactions
  <2> HIDE DEF next
  <2>3. (Clears(next) => Clears(t)) /\ (Counts(next) => Counts(t))
    BY <2>1, <2>2 DEF Clears, Counts
  <2> QED
    BY <2>1, <2>3, OneAttemptStands
<1>5. CASE Limiter!RecordFailure(q)
  <2> DEFINE next == [t EXCEPT !.at = "failed", !.holds = TRUE, !.draft = Limiter!Counted(Limiter!Seen(q), t.stamp)]
  <2>1. attempts' = [attempts EXCEPT ![q] = next] /\ t.at = "failing" /\ UNCHANGED <<now, row, strikes>>
    BY <1>1, <1>5 DEF Limiter!RecordFailure
  <2>2. Limiter!Seen(q) = IF t.holds THEN Limiter!Absent ELSE row
    BY <1>1, <2>1 DEF Limiter!Seen, Attempting
  <2>3. next.at = "failed" /\ next.draft = Limiter!Counted(Limiter!Seen(q), t.stamp)
    BY <1>1 DEF Limiter!Transactions
  <2> HIDE DEF next
  <2>4. t.stamp \in Limiter!Time /\ t.stamp \in Nat /\ t.stamp <= now
    BY <1>1, <2>1 DEF Limiter!Transactions, Limiter!Time, Attempting
  <2>5. CASE t.holds
    <3>1. next.draft.failures = 1
      BY <2>2, <2>3, <2>4, <2>5, IdleAttempt, CountedStands
    <3>2. strikes > 0 => ~Counts(next)
      BY <2>3, <3>1, GuessesTyped DEF Counts, GuessInv
    <3>3. Clears(t)
      BY <2>1, <2>5 DEF Clears
    <3> QED
      BY <2>1, <3>2, <3>3, OneAttemptStands
  <2>6. CASE ~t.holds
    <3>1. Counts(t)
      BY <2>1, <2>6 DEF Counts
    <3>2. next.draft = Limiter!Counted(row, t.stamp)
      BY <2>2, <2>3, <2>6
    <3>3. ASSUME strikes > 0, next.draft.failures # row.failures + 1  PROVE Stale
      <4>1. row # Limiter!Absent
        BY <3>3, IdleAttempt DEF GuessInv
      <4>2. row.started + Window <= t.stamp
        BY <3>2, <3>3, <4>1 DEF Limiter!Counted
      <4> QED
        BY <2>4, <4>2, GuessesTyped, LimitIsTwo DEF Stale
    <3>4. strikes > 0 => ~Clears(next)
      BY <2>3, <3>3 DEF Clears
    <3> QED
      BY <2>1, <3>1, <3>4, OneAttemptStands
  <2> QED
    BY <2>5, <2>6
<1>6. CASE Limiter!Reset(q)
  <2> DEFINE next == [t EXCEPT !.at = "passed", !.draft = Limiter!Absent, !.holds = @ \/ row # Limiter!Absent]
  <2>1. attempts' = [attempts EXCEPT ![q] = next] /\ UNCHANGED <<now, row, strikes>>
    BY <1>1, <1>6 DEF Limiter!Reset, Limiter!Delete
  <2>2. next.at = "passed"
    BY <1>1 DEF Limiter!Transactions
  <2> HIDE DEF next
  <2>3. ~Clears(next) /\ ~Counts(next)
    BY <2>2 DEF Clears, Counts
  <2> QED
    BY <2>1, <2>3, OneAttemptStands
<1>7. CASE Limiter!Rollback(q)
  <2>1. attempts' = [attempts EXCEPT ![q] = Limiter!Idle] /\ UNCHANGED <<now, row, strikes>>
    BY <1>7 DEF Limiter!Rollback
  <2>2. ~Clears(Limiter!Idle) /\ ~Counts(Limiter!Idle)
    BY IdleAttempt DEF Clears, Counts
  <2> QED
    BY <2>1, <2>2, OneAttemptStands
<1> QED
  BY <1>2, <1>3, <1>4, <1>5, <1>6, <1>7

\* A 401 takes one of the failures left, or starts one of the counts to come.
LEMMA StrikeIsCounted ==
    ASSUME FailuresCommit, LimitInv, LimitInv', GuessInv, NEW q \in Request, Limiter!AnswerFailure(q)
    PROVE  GuessInv'
<1> DEFINE t == attempts[q]
<1>1. /\ t.at = "failed" /\ row' = t.draft /\ now' = now /\ strikes' = strikes + 1
      /\ attempts' = [attempts EXCEPT ![q] = Limiter!Idle]
  BY DEF Limiter!AnswerFailure
<1>2. /\ attempts \in [Request -> Limiter!Transactions] /\ row \in Limiter!RowType /\ RowStands(row) /\ OneHolder
      /\ t \in Limiter!Transactions /\ Attempting(t)
  BY DEF LimitInv, Limiter!TypeOK
<1>3. attempts'[q] = Limiter!Idle /\ \A o \in Request \ {q} : attempts'[o] = attempts[o]
  BY <1>1, <1>2
<1>4. \A o \in Request \ {q} : ~attempts[o].holds /\ attempts[o].at # "failed"
  <2>1. t.holds
    BY <1>1, <1>2 DEF Attempting
  <2>2. \A o \in Request : Attempting(attempts[o])
    BY DEF LimitInv
  <2> QED
    BY <1>2, <2>1, <2>2 DEF OneHolder, Attempting
<1>5. /\ t.stamp \in Limiter!Time /\ t.stamp \in Nat /\ t.stamp <= now /\ now <= t.stamp + 1
  <2>1. t.began \in Nat /\ t.stamp \in Limiter!Time /\ t.stamp \in Nat
    BY <1>2 DEF Limiter!Transactions, Limiter!Time
  <2> QED
    BY <1>1, <1>2, <2>1, GuessesTyped DEF Attempting
<1>6. PICK r \in {row, Limiter!Absent} : row' = Limiter!Counted(r, t.stamp)
  BY <1>1, <1>2 DEF Attempting
<1>7. /\ row'.failures > 0 /\ row'.updated = t.stamp /\ (row'.locked = 0 \/ row'.locked = t.stamp + Lock)
      /\ \/ row'.failures = 1 /\ row'.started = t.stamp /\ row'.locked = 0
         \/ row'.failures = r.failures + 1 /\ row'.started = r.started /\ r.failures > 0
  BY <1>2, <1>5, <1>6, IdleAttempt, CountedStands
<1>8. now' <= row'.updated + 1 /\ (row'.locked = 0 \/ row'.locked > now')
  BY <1>1, <1>5, <1>7, GuessesTyped, LimitIsTwo
<1>9. Clearers' \subseteq Clearers /\ q \notin Clearers' /\ Adding' \subseteq Adding /\ q \notin Adding'
  BY <1>3, <1>4, IdleAttempt DEF Clearers, Clears, Adding, Counts
<1>10. /\ Cardinality(Clearers') \in Nat /\ Cardinality(Adding') \in Nat /\ Rounds' \in Nat /\ Ahead' \in Nat
       /\ row'.failures \in Nat /\ strikes' \in Nat
  <2>1. \A n \in {0, 1} : \A m \in Nat : m + n \in Nat
    OBVIOUS
  <2>2. Clearers' \in SUBSET Request /\ Adding' \in SUBSET Request
    BY <1>9, GuessesTyped
  <2>3. Cardinality(Clearers') \in Nat /\ Cardinality(Adding') \in Nat
    BY <2>2, RequestsCounted
  <2>4. row'.failures \in Nat /\ strikes' \in Nat /\ (row'.locked = 0 => row'.failures < Limiter!Limit)
    BY LimitIsTwo DEF LimitInv, Limiter!TypeOK, Limiter!RowType, RowStands
  <2> QED
    BY <2>1, <2>3, <2>4, GuessesTyped, LimitIsTwo DEF Rounds, Ahead
<1>11. Cardinality(Clearers') <= Cardinality(Request) - 1 /\ Cardinality(Adding') <= Cardinality(Request) - 1
  <2>1. Clearers' \in SUBSET Request /\ Adding' \in SUBSET Request
    BY <1>9, GuessesTyped
  <2> QED
    BY <1>9, <1>10, <2>1, RequestsCounted
<1>12. row'.locked = 0 => Ahead' = Limiter!Limit - row'.failures + Cardinality(Request) - 1
  BY DEF Ahead
<1>13. row'.locked # 0 => Ahead' = Cardinality(Adding')
  BY DEF Ahead
<1>14. Ahead' <= Round - 1
  <2>1. Round = Limiter!Limit + Cardinality(Request) - 1
    BY DEF Round
  <2> QED
    BY <1>7, <1>10, <1>11, <1>12, <1>13, <2>1, GuessesTyped, LimitIsTwo
<1>15. SUFFICES strikes' + Ahead' + Rounds' * Round <= (Cardinality(Request) + 1) * Round
  BY <1>7, <1>8 DEF GuessInv, Round
<1>16. CASE strikes = 0
  <2>1. strikes' = 1 /\ Rounds' <= Cardinality(Request)
    BY <1>1, <1>10, <1>11, <1>16, GuessesTyped DEF Rounds
  <2>2. Rounds' * Round <= Cardinality(Request) * Round /\ Rounds' * Round \in Nat /\ Cardinality(Request) * Round \in Nat
    BY <1>10, <2>1, GuessesTyped, Products
  <2>3. (Cardinality(Request) + 1) * Round = Cardinality(Request) * Round + Round
    BY GuessesTyped, Products
  <2> QED
    BY <1>10, <1>14, <2>1, <2>2, <2>3, GuessesTyped
<1>17. CASE strikes # 0
  <2>1. strikes > 0 /\ row.failures > 0 /\ strikes + Ahead + Rounds * Round <= (Cardinality(Request) + 1) * Round
    BY <1>17, GuessesTyped DEF GuessInv
  <2>2. Rounds * Round \in Nat /\ Rounds' * Round \in Nat /\ (Cardinality(Request) + 1) * Round \in Nat
    BY <1>10, GuessesTyped, Products
  <2>3. CASE Rounds' + 1 <= Rounds
    <3>1. (Rounds' + 1) * Round <= Rounds * Round /\ (Rounds' + 1) * Round = Rounds' * Round + Round
      BY <1>10, <2>3, GuessesTyped, Products
    <3> QED
      BY <1>1, <1>10, <1>14, <2>1, <2>2, <3>1, GuessesTyped
  <2>4. CASE Rounds' <= Rounds /\ Ahead' + 1 <= Ahead
    <3>1. Rounds' * Round <= Rounds * Round
      BY <1>10, <2>4, GuessesTyped, Products
    <3> QED
      BY <1>1, <1>10, <2>1, <2>2, <2>4, <3>1, GuessesTyped
  <2>5. CASE row'.failures = 1 /\ row'.started = t.stamp
    <3>1. ~Stale'
      BY <1>1, <1>5, <2>5, GuessesTyped, LimitIsTwo DEF Stale
    <3>2. CASE Stale
      <4>1. Cardinality(Clearers') <= Cardinality(Clearers)
        BY <1>9, GuessesTyped, RequestsCounted
      <4>2. Rounds' = Cardinality(Clearers') /\ Rounds = Cardinality(Clearers) + 1
        BY <1>10, <3>1, <3>2, GuessesTyped DEF Rounds
      <4> QED
        BY <1>10, <2>3, <4>1, <4>2, GuessesTyped
    <3>3. CASE ~Stale
      <4>1. q \in Clearers
        BY <1>1, <2>1, <2>5, <3>3, GuessesTyped DEF Clearers, Clears
      <4>2. Clearers' \in SUBSET (Clearers \ {q})
        BY <1>9
      <4>3. Cardinality(Clearers') <= Cardinality(Clearers \ {q}) /\ Cardinality(Clearers \ {q}) = Cardinality(Clearers) - 1
        <5>1. Clearers \ {q} \in SUBSET Request
          BY GuessesTyped
        <5> QED
          BY <4>1, <4>2, <5>1, GuessesTyped, RequestsCounted
      <4>4. Rounds' = Cardinality(Clearers') /\ Rounds = Cardinality(Clearers)
        BY <1>10, <3>1, <3>3, GuessesTyped DEF Rounds
      <4> QED
        BY <1>10, <2>3, <4>3, <4>4, GuessesTyped
    <3> QED
      BY <3>2, <3>3
  <2>6. CASE row'.failures = row.failures + 1 /\ row'.started = row.started
    <3>1. Rounds' <= Rounds
      <4>1. Cardinality(Clearers') <= Cardinality(Clearers)
        BY <1>9, GuessesTyped, RequestsCounted
      <4>2. Stale' <=> Stale
        BY <1>1, <2>6 DEF Stale
      <4> QED
        BY <1>10, <4>1, <4>2, GuessesTyped DEF Rounds
    <3>2. q \in Adding
      BY <1>1, <2>6 DEF Adding, Counts
    <3>3. Ahead' + 1 <= Ahead
      <4>1. CASE row'.locked = 0
        <5>1. row'.failures < Limiter!Limit
          BY <1>10, <4>1, LimitIsTwo DEF LimitInv, RowStands
        <5>2. row.failures < Limiter!Limit /\ row.locked = 0
          <6>1. row.failures < Limiter!Limit
            BY <2>6, <5>1, GuessesTyped, LimitIsTwo
          <6> QED
            BY <1>2, <6>1, GuessesTyped, LimitIsTwo DEF RowStands
        <5>3. Ahead = Limiter!Limit - row.failures + Cardinality(Request) - 1
          BY <5>2 DEF Ahead
        <5> QED
          BY <1>12, <2>6, <4>1, <5>3, GuessesTyped, LimitIsTwo
      <4>2. CASE row'.locked # 0 /\ row.locked = 0
        <5>1. row.failures < Limiter!Limit /\ Ahead = Limiter!Limit - row.failures + Cardinality(Request) - 1
          BY <4>2, GuessesTyped DEF Ahead
        <5> QED
          BY <1>10, <1>11, <1>13, <4>2, <5>1, GuessesTyped, LimitIsTwo
      <4>3. CASE row'.locked # 0 /\ row.locked # 0
        <5>1. Adding' \in SUBSET (Adding \ {q}) /\ Adding \ {q} \in SUBSET Request
          BY <1>9, GuessesTyped
        <5>2. Cardinality(Adding') <= Cardinality(Adding \ {q}) /\ Cardinality(Adding \ {q}) = Cardinality(Adding) - 1
          BY <3>2, <5>1, GuessesTyped, RequestsCounted
        <5>3. Cardinality(Adding') + 1 <= Cardinality(Adding)
          BY <1>10, <5>2, GuessesTyped
        <5>4. Ahead = Cardinality(Adding)
          BY <4>3 DEF Ahead
        <5> QED
          BY <1>13, <4>3, <5>3, <5>4
      <4> QED
        BY <4>1, <4>2, <4>3
    <3> QED
      BY <2>4, <3>1, <3>3
  <2> QED
    BY <1>6, <1>7, <2>5, <2>6, IdleAttempt
<1> QED
  BY <1>16, <1>17

LEMMA GuessInvKept ==
    FailuresCommit /\ LimitInv /\ LimitInv' /\ GuessInv /\ [Limiter!Next]_limiter => GuessInv'
<1> SUFFICES ASSUME FailuresCommit, LimitInv, LimitInv', GuessInv, [Limiter!Next]_limiter  PROVE GuessInv'
  OBVIOUS
<1>1. ASSUME NEW q \in Request,
             Limiter!Check(q) \/ Limiter!Clear(q) \/ Limiter!Mismatch(q) \/ Limiter!RecordFailure(q)
                 \/ Limiter!Reset(q) \/ Limiter!Rollback(q)
      PROVE  GuessInv'
  BY <1>1, StatementsStand
<1>2. ASSUME NEW q \in Request, Limiter!AnswerFailure(q)  PROVE GuessInv'
  BY <1>2, StrikeIsCounted
<1>3. ASSUME NEW q \in Request, Limiter!AnswerSuccess(q)  PROVE GuessInv'
  <2>1. strikes' = 0
    BY <1>3 DEF Limiter!AnswerSuccess
  <2> QED
    BY <2>1 DEF GuessInv
<1>4. CASE Limiter!Sweep
  <2>1. strikes' = strikes /\ row.updated + 2 * Limiter!Longest < now
    BY <1>4 DEF Limiter!Sweep
  <2>2. Limiter!Longest \in Nat /\ Limiter!Longest >= 2
    BY LimitIsTwo DEF Limiter!Longest
  <2>3. ~(now <= row.updated + 1)
    BY <2>1, <2>2, GuessesTyped
  <2> QED
    BY <2>1, <2>3 DEF GuessInv
<1>5. CASE Limiter!Tick
  <2>1. strikes' = 0
    BY <1>5 DEF Limiter!Tick
  <2> QED
    BY <2>1 DEF GuessInv
<1>6. CASE UNCHANGED limiter
  <2>1. UNCHANGED <<now, row, attempts, strikes>>
    BY <1>6 DEF limiter
  <2>2. Clearers' = Clearers /\ Adding' = Adding
    BY <2>1 DEF Clearers, Clears, Stale, Adding, Counts
  <2> QED
    BY <2>1, <2>2, GuessesStand
<1> QED
  BY <1>1, <1>2, <1>3, <1>4, <1>5, <1>6 DEF Limiter!Next

\* docs/phase-2-authentication.md:7: if the caller commits the failures it answers, the guesses
\* that all replicas admit in one instant are bounded by the limit and the requests in flight,
\* for any number of requests, any limit and periods.
THEOREM GuessesAreAlwaysLimited == FailuresCommit => (IdentitySpec => []GuessesAreLimited)
<1> SUFFICES ASSUME FailuresCommit  PROVE IdentitySpec => []GuessesAreLimited
  OBVIOUS
<1>1. LimitInv /\ GuessInv => GuessesAreLimited
  <2> SUFFICES ASSUME LimitInv, GuessInv  PROVE strikes <= (Cardinality(Request) + 1) * Round
    BY DEF GuessesAreLimited, Limiter!GuessesAreLimited, Limiter!MostGuesses, Round, Limiter!Cardinality, Cardinality
  <2>1. (Cardinality(Request) + 1) * Round \in Nat /\ Rounds * Round \in Nat
    BY GuessesTyped, Products
  <2> QED
    BY <2>1, GuessesTyped DEF GuessInv
<1>2. Limiter!Init => GuessInv
  BY DEF Limiter!Init, GuessInv
<1>3. FailuresCommit
  OBVIOUS
<1>4. LimitInv /\ LimitInv' /\ GuessInv /\ [Limiter!Next]_limiter => GuessInv'
  BY <1>3, GuessInvKept
<1> QED
  BY <1>1, <1>2, <1>4, LimitInvInit, LimitInvKept, LimiterMovesAlone, PTL

-------------------------------------------------------------------------------
(* The native clients: what a call and the history are *)

Working == {"reading", "sent", "answered", "refused", "half_saved", "clearing", "half_cleared"}
CallType == [op : {"none", "refresh", "login", "logout"}, root : Root \cup {None},
             at : Working \cup {"idle", "waiting", "returning", "releasing"},
             token : Credential \cup {None}, won : Credential \cup {None},
             result : {"none", "login", "signed_in"}, unseen : SUBSET Credential]
PastType == [sent : SUBSET Credential, twice : BOOLEAN, kept : BOOLEAN, excused : SUBSET Credential,
             stuck : SUBSET Credential, mixed : BOOLEAN]

ClientTyped ==
    /\ Client!TypeOK
    /\ stored \in [refresh : Credential \cup {None}, access : Credential \cup {None}]
    /\ flight \in Call \cup {NoCall} /\ faults \in 0..MaxFaults
    /\ ui \in [Root -> {"restoring", "signed_in", "login"}]
    /\ late \subseteq Credential
    /\ calls \in [Call -> CallType]
    /\ past \in PastType

\* What a call has where it is; the refresh in flight is led by one call.
CallStands(c) ==
    /\ calls[c].at = "idle" <=> calls[c].op = "none"
    /\ calls[c].at \in {"answered", "half_saved"} /\ calls[c].op # "logout" => calls[c].won # None
    /\ calls[c].at = "answered" /\ calls[c].op = "logout" => calls[c].won = None
    /\ calls[c].at = "half_saved" => calls[c].op # "logout"
    /\ calls[c].at = "sent" /\ calls[c].op # "login" => calls[c].token # None
    /\ calls[c].at \in {"returning", "releasing"} => calls[c].result # "none"
    /\ calls[c].at \in {"waiting", "releasing"} => calls[c].op = "refresh"
    /\ calls[c].at = "reading" => calls[c].op \in {"refresh", "logout"}
    /\ calls[c].op = "refresh" /\ calls[c].at \notin {"waiting", "returning"} => flight = c
    /\ flight = c => calls[c].op = "refresh" /\ calls[c].at \notin {"waiting", "returning"}

CallsInv == ClientTyped /\ \A c \in Call : CallStands(c)

\* A step of c leaves the other calls where they are, or wakes those that wait for it.
OthersStay(c, next) ==
    \A d \in Call \ {c} :
        \/ next[d] = calls[d]
        \/ /\ calls[d].at = "waiting" /\ flight = c
           /\ next[d].at = "returning" /\ next[d].op = calls[d].op /\ next[d].result # "none"

\* The constants of the clients: a sentinel is nobody's name.
LEMMA ClientConstants == None \notin Credential /\ NoCall \notin Call /\ MaxFaults \in Nat
  BY IdentityShapes DEF Client!ClientShapes

\* An idle call has its type.
LEMMA IdleCall ==
    /\ Client!Idle \in CallType
    /\ Client!Idle.op = "none" /\ Client!Idle.at = "idle" /\ Client!Idle.token = None
    /\ Client!Idle.won = None /\ Client!Idle.result = "none"
  BY DEF Client!Idle, CallType

\* A call that goes on, or gets its result, stays a call.
GoesOn(x, at, token, won) == [x EXCEPT !.at = at, !.token = token, !.won = won]
Returns(x, result) == [x EXCEPT !.result = result, !.at = "returning"]

LEMMA CallGoesOn ==
    ASSUME NEW x \in CallType, NEW at \in Working, NEW token \in Credential \cup {None},
           NEW won \in Credential \cup {None}
    PROVE  /\ GoesOn(x, at, token, won) \in CallType
           /\ GoesOn(x, at, token, won).op = x.op /\ GoesOn(x, at, token, won).at = at
           /\ GoesOn(x, at, token, won).token = token /\ GoesOn(x, at, token, won).won = won
           /\ GoesOn(x, at, token, won).unseen = x.unseen
BY DEF GoesOn, CallType

LEMMA CallReturns ==
    ASSUME NEW x \in CallType, NEW result \in {"login", "signed_in"}
    PROVE  /\ Returns(x, result) \in CallType
           /\ Returns(x, result).op = x.op /\ Returns(x, result).result = result
           /\ Returns(x, result).at = "returning"
BY DEF Returns, CallType

\* What is not assigned stays as it is.
LEMMA CallAssigned ==
    ASSUME NEW x \in CallType
    PROVE  /\ \A at : [x EXCEPT !.at = at] = GoesOn(x, at, x.token, x.won)
           /\ \A at, token : [x EXCEPT !.at = at, !.token = token] = GoesOn(x, at, token, x.won)
BY DEF GoesOn, CallType

\* refresh, login, logout: what a call is when it begins.
LEMMA BeginCall ==
    ASSUME NEW c \in Call, NEW op \in {"refresh", "login", "logout"}, NEW w \in Root,
           NEW at \in {"reading", "sent", "waiting", "returning"}
    PROVE  /\ Client!Begin(c, op, w, at) \in CallType
           /\ Client!Begin(c, op, w, at).op = op /\ Client!Begin(c, op, w, at).at = at
           /\ Client!Begin(c, op, w, at).token = None /\ Client!Begin(c, op, w, at).won = None
           /\ Client!Begin(c, op, w, at).unseen =
                {x \in Credential : standing[x] = "absent" \/ x \in Client!AnswersOf(Call)}
  BY DEF Client!Begin, Client!Idle, CallType, Working

\* deferred.complete: c has its result, and so have those that wait.
LEMMA FinishedCalls ==
    ASSUME CallsInv, NEW c \in Call, NEW result \in {"login", "signed_in"}
    PROVE  /\ Client!Finished(c, result) \in [Call -> CallType]
           /\ OthersStay(c, Client!Finished(c, result))
           /\ Client!Finished(c, result)[c].op = calls[c].op
           /\ Client!Finished(c, result)[c].at = (IF flight = c THEN "releasing" ELSE "returning")
           /\ Client!Finished(c, result)[c].result = result
<1> DEFINE mine == [Client!Idle EXCEPT !.op = calls[c].op, !.root = calls[c].root, !.result = result,
                                       !.at = IF flight = c THEN "releasing" ELSE "returning"]
           joined(d) == Returns(calls[d], result)
<1>1. calls \in [Call -> CallType]
  BY DEF CallsInv, ClientTyped
<1>2. /\ mine \in CallType /\ mine.op = calls[c].op /\ mine.result = result
      /\ mine.at = IF flight = c THEN "releasing" ELSE "returning"
  BY <1>1, IdleCall DEF CallType
<1>3. \A d \in Call : /\ joined(d) \in CallType /\ joined(d).op = calls[d].op
                      /\ joined(d).result = result /\ joined(d).at = "returning"
  BY <1>1, CallReturns
<1>4. Client!Finished(c, result) =
        [d \in Call |-> IF d = c THEN mine
                        ELSE IF flight = c /\ calls[d].at = "waiting" THEN joined(d) ELSE calls[d]]
  BY DEF Client!Finished, Returns
<1> HIDE DEF mine, joined
<1> QED
  BY <1>1, <1>2, <1>3, <1>4 DEF OthersStay

\* sessions.clear: c goes on to clear the store.
LEMMA ClearingCalls ==
    ASSUME CallsInv, NEW c \in Call
    PROVE  /\ Client!Clearing(c) \in [Call -> CallType]
           /\ \A d \in Call \ {c} : Client!Clearing(c)[d] = calls[d]
           /\ Client!Clearing(c)[c].op = calls[c].op /\ Client!Clearing(c)[c].at = "clearing"
           /\ Client!Clearing(c)[c].token = None /\ Client!Clearing(c)[c].won = None
           /\ Client!Clearing(c)[c].unseen = calls[c].unseen
<1> DEFINE mine == GoesOn(calls[c], "clearing", None, None)
<1>1. calls \in [Call -> CallType]
  BY DEF CallsInv, ClientTyped
<1>2. /\ mine \in CallType /\ mine.op = calls[c].op /\ mine.at = "clearing" /\ mine.token = None
      /\ mine.won = None /\ mine.unseen = calls[c].unseen
  <2>1. calls[c] \in CallType /\ "clearing" \in Working
    BY <1>1 DEF Working
  <2> QED
    BY <2>1, CallGoesOn
<1>3. Client!Clearing(c) = [calls EXCEPT ![c] = mine]
  BY <1>1 DEF Client!Clearing, CallType, GoesOn
<1> HIDE DEF mine
<1> QED
  BY <1>1, <1>2, <1>3

-------------------------------------------------------------------------------
(* The native clients: steps of a call *)

\* c goes on to at, with the credentials token and won.
Moved(c, at, token, won) ==
    /\ calls' \in [Call -> CallType]
    /\ \A d \in Call \ {c} : calls'[d] = calls[d]
    /\ calls'[c].op = calls[c].op /\ calls'[c].unseen = calls[c].unseen
    /\ calls'[c].at = at /\ calls'[c].token = token /\ calls'[c].won = won

\* An assignment to where c is and what it has.
LEMMA MovedCall ==
    ASSUME CallsInv, NEW c \in Call, NEW at \in Working,
           NEW token \in Credential \cup {None}, NEW won \in Credential \cup {None},
           \/ calls' = [calls EXCEPT ![c].at = at] /\ token = calls[c].token /\ won = calls[c].won
           \/ calls' = [calls EXCEPT ![c].at = at, ![c].token = token] /\ won = calls[c].won
           \/ calls' = [calls EXCEPT ![c].at = at, ![c].won = won] /\ token = calls[c].token
           \/ calls' = Client!Clearing(c) /\ at = "clearing" /\ token = None /\ won = None
    PROVE  Moved(c, at, token, won)
<1>1. calls \in [Call -> CallType]
  BY DEF CallsInv, ClientTyped
<1>2. CASE calls' = [calls EXCEPT ![c].at = at] /\ token = calls[c].token /\ won = calls[c].won
  <2> DEFINE mine == GoesOn(calls[c], at, token, won)
  <2>1. /\ mine \in CallType /\ mine.op = calls[c].op /\ mine.at = at /\ mine.token = token
        /\ mine.won = won /\ mine.unseen = calls[c].unseen
    BY <1>1, CallGoesOn
  <2>2. calls' = [calls EXCEPT ![c] = mine]
    BY <1>1, <1>2, CallAssigned
  <2> HIDE DEF mine
  <2> QED
    BY <1>1, <2>1, <2>2 DEF Moved
<1>3. CASE calls' = [calls EXCEPT ![c].at = at, ![c].token = token] /\ won = calls[c].won
  <2> DEFINE mine == GoesOn(calls[c], at, token, won)
  <2>1. /\ mine \in CallType /\ mine.op = calls[c].op /\ mine.at = at /\ mine.token = token
        /\ mine.won = won /\ mine.unseen = calls[c].unseen
    BY <1>1, CallGoesOn
  <2>2. calls' = [calls EXCEPT ![c] = [calls[c] EXCEPT !.at = at, !.token = token]]
    BY <1>1, <1>3
  <2>3. PICK x \in CallType : x = calls[c]
    BY <1>1
  <2>4. [x EXCEPT !.at = at, !.token = token] = mine
    BY <1>3, <2>3, CallAssigned
  <2>5. calls' = [calls EXCEPT ![c] = mine]
    BY <2>2, <2>3, <2>4
  <2> HIDE DEF mine
  <2> QED
    BY <1>1, <2>1, <2>5 DEF Moved
<1>4. CASE calls' = [calls EXCEPT ![c].at = at, ![c].won = won] /\ token = calls[c].token
  <2> DEFINE mine == GoesOn(calls[c], at, token, won)
  <2>1. /\ mine \in CallType /\ mine.op = calls[c].op /\ mine.at = at /\ mine.token = token
        /\ mine.won = won /\ mine.unseen = calls[c].unseen
    BY <1>1, CallGoesOn
  <2>2. calls' = [calls EXCEPT ![c] = [calls[c] EXCEPT !.at = at, !.won = won]]
    BY <1>1, <1>4
  <2>3. PICK x \in CallType : x = calls[c]
    BY <1>1
  <2>4. [x EXCEPT !.at = at, !.won = won] = mine
    <3>1. [x EXCEPT !.at = at, !.won = won] = GoesOn(x, at, x.token, won)
      BY DEF GoesOn, CallType
    <3>2. token = x.token
      BY <1>4, <2>3
    <3> QED
      BY <2>3, <3>1, <3>2
  <2>5. calls' = [calls EXCEPT ![c] = mine]
    BY <2>2, <2>3, <2>4
  <2> HIDE DEF mine
  <2> QED
    BY <1>1, <2>1, <2>5 DEF Moved
<1>5. CASE calls' = Client!Clearing(c) /\ at = "clearing" /\ token = None /\ won = None
  BY <1>5, ClearingCalls DEF Moved
<1> QED
  BY <1>2, <1>3, <1>4, <1>5

\* A call that goes on has what it needs there, and leads the refresh it led.
LEMMA MovedStands ==
    ASSUME CallsInv, NEW c \in Call, NEW at \in Working, NEW token, NEW won, Moved(c, at, token, won),
           flight' = flight, calls[c].at \in Working,
           at \in {"answered", "half_saved"} /\ calls[c].op # "logout" => won # None,
           at = "answered" /\ calls[c].op = "logout" => won = None,
           at = "half_saved" => calls[c].op # "logout",
           at = "sent" /\ calls[c].op # "login" => token # None, at # "reading"
    PROVE  \A d \in Call : CallStands(d)'
<1>1. \A d \in Call : CallStands(d)
  BY DEF CallsInv
<1>2. CallStands(c)'
  BY <1>1 DEF CallStands, Moved, Working
<1>3. ASSUME NEW d \in Call \ {c}  PROVE CallStands(d)'
  BY <1>1 DEF CallStands, Moved
<1> QED
  BY <1>2, <1>3

\* A call that has its result no longer leads a refresh that others can miss.
LEMMA FinishedStands ==
    ASSUME CallsInv, NEW c \in Call, NEW result \in {"login", "signed_in"}, calls[c].at \in Working,
           calls' = Client!Finished(c, result), flight' = flight
    PROVE  \A d \in Call : CallStands(d)'
<1>1. \A d \in Call : CallStands(d)
  BY DEF CallsInv
<1>2. CallStands(c)'
  <2>1. CallStands(c)
    BY <1>1
  <2> QED
    BY <2>1, FinishedCalls DEF CallStands, Working
<1>3. ASSUME NEW d \in Call \ {c}  PROVE CallStands(d)'
  <2>1. CallStands(d)
    BY <1>1
  <2>2. \/ calls'[d] = calls[d]
        \/ /\ calls[d].at = "waiting" /\ flight = c
           /\ calls'[d].at = "returning" /\ calls'[d].op = calls[d].op /\ calls'[d].result # "none"
    BY FinishedCalls DEF OthersStay
  <2> QED
    BY <2>1, <2>2 DEF CallStands
<1> QED
  BY <1>2, <1>3

StoreType == [refresh : Credential \cup {None}, access : Credential \cup {None}]

\* What Touch makes of the history p.
Touched(c, s, p) ==
    /\ stored' = s /\ past' \in PastType
    /\ past'.sent = p.sent \cap {s.refresh} /\ past'.twice = p.twice
    /\ past'.stuck = p.stuck \cap {s.refresh, s.access}
    /\ past'.excused = p.excused \cup {x \in {stored.refresh} \ {s.refresh, None} :
                                          calls[c].op = "login" \/ x \in calls[c].unseen}
    /\ past'.mixed <=> \/ p.mixed /\ ~Client!Coherent(s)
                       \/ \E d \in Call \ {c} : Client!Halfway(d)

\* A step on the store.
LEMMA TouchStore ==
    ASSUME CallsInv, NEW c \in Call, NEW s \in StoreType, NEW p \in PastType, Client!Touch(c, s, p)
    PROVE  Touched(c, s, p)
<1> DEFINE lost == {x \in {stored.refresh} \ {s.refresh, None} :
                        calls[c].op = "login" \/ x \in calls[c].unseen}
           half == \E d \in Call \ {c} : Client!Halfway(d)
           next == [p EXCEPT !.sent = @ \cap {s.refresh}, !.stuck = p.stuck \cap {s.refresh, s.access},
                             !.excused = @ \cup lost, !.mixed = (@ /\ ~Client!Coherent(s)) \/ half]
<1>1. lost \in SUBSET Credential
  BY DEF CallsInv, ClientTyped
<1>2. half \in BOOLEAN /\ Client!Coherent(s) \in BOOLEAN
  BY DEF Client!Coherent
<1>3. stored' = s /\ past' = next
  BY DEF Client!Touch
<1> HIDE DEF lost, half
<1>4. p.mixed \in BOOLEAN
  BY DEF PastType
<1>5. ((p.mixed /\ ~Client!Coherent(s)) \/ half) \in BOOLEAN
  OBVIOUS
<1>6. next \in PastType
  BY <1>1, <1>5 DEF PastType
<1>7. /\ next.sent = p.sent \cap {s.refresh} /\ next.twice = p.twice
      /\ next.stuck = p.stuck \cap {s.refresh, s.access} /\ next.excused = p.excused \cup lost
      /\ next.mixed = ((p.mixed /\ ~Client!Coherent(s)) \/ half)
  BY DEF PastType
<1> HIDE DEF next
<1> QED
  BY <1>2, <1>3, <1>4, <1>6, <1>7 DEF Touched, lost, half

\* The credential that comes next was never handed out.
LEMMA FreshCredentials ==
    /\ Client!Fresh \subseteq Credential
    /\ \A x \in Client!Fresh : standing[x] = "absent"
  BY DEF Client!Fresh

\* refreshInternal, logout: the stored credential is read.
LEMMA ReadStep ==
    ASSUME CallsInv, NEW c \in Call, Client!Read(c)
    PROVE  /\ CallsInv'
           /\ UNCHANGED <<standing, origin, stored, flight>> /\ calls[c].at = "reading"
           /\ \/ /\ Moved(c, "sent", stored.refresh, calls[c].won) /\ stored.refresh # None
                 /\ past'.excused = past.excused /\ past'.stuck = past.stuck /\ past'.mixed = past.mixed
                 /\ calls[c].op = "logout" => past' = past
                 /\ calls[c].op # "logout" =>
                        /\ past'.sent = {stored.refresh}
                        /\ past'.twice = (past.twice \/ stored.refresh \in past.sent \ past.stuck)
              \/ /\ \/ calls[c].op = "logout" /\ Moved(c, "clearing", None, None)
                    \/ calls[c].op # "logout" /\ calls' = Client!Finished(c, "login")
                 /\ past' = [past EXCEPT !.excused = @ \cup ({stored.refresh} \ {None})]
<1> DEFINE t == stored.refresh
<1>1. /\ calls[c].at = "reading" /\ UNCHANGED <<standing, origin, stored, flight, ui, late>>
      /\ faults' \in 0..MaxFaults
      /\ past' = IF calls'[c].at # "sent" THEN [past EXCEPT !.excused = @ \cup ({t} \ {None})]
                 ELSE IF calls[c].op = "logout" THEN past
                 ELSE [past EXCEPT !.twice = @ \/ t \in past.sent \ past.stuck, !.sent = {t}]
  BY ClientConstants DEF Client!Read, Client!Fault, Client!ledger, CallsInv, ClientTyped
<1>2. t \in Credential \cup {None} /\ past \in PastType /\ calls[c].won \in Credential \cup {None}
  BY DEF CallsInv, ClientTyped, CallType
<1>3. ASSUME past' \in PastType, calls' \in [Call -> CallType], \A d \in Call : CallStands(d)'  PROVE CallsInv'
  BY <1>1, <1>3 DEF CallsInv, ClientTyped, Client!TypeOK
<1>4. CASE t # None /\ calls' = [calls EXCEPT ![c].at = "sent", ![c].token = t]
  <2>1. Moved(c, "sent", t, calls[c].won)
    BY <1>2, <1>4, MovedCall DEF Working
  <2>2. \A d \in Call : CallStands(d)'
    BY <1>1, <1>4, <2>1, MovedStands DEF Working
  <2>3. calls'[c].at = "sent" /\ calls' \in [Call -> CallType]
    BY <2>1 DEF Moved
  <2>4. CASE calls[c].op = "logout"
    BY <1>1, <1>2, <1>3, <1>4, <2>1, <2>2, <2>3, <2>4
  <2>5. CASE calls[c].op # "logout"
    <3> DEFINE again == past.twice \/ t \in past.sent \ past.stuck
               next == [past EXCEPT !.twice = again, !.sent = {t}]
    <3>1. again \in BOOLEAN
      BY <1>2 DEF PastType
    <3>2. past' = next
      BY <1>1, <2>3, <2>5
    <3> HIDE DEF again
    <3>3. /\ next \in PastType /\ next.sent = {t} /\ next.twice = again /\ next.excused = past.excused
          /\ next.stuck = past.stuck /\ next.mixed = past.mixed
      BY <1>2, <1>4, <3>1 DEF PastType
    <3> HIDE DEF next
    <3> QED
      BY <1>1, <1>3, <1>4, <2>1, <2>2, <2>3, <2>5, <3>2, <3>3 DEF again
  <2> QED
    BY <2>4, <2>5
<1>5. CASE calls' = IF calls[c].op = "logout" THEN Client!Clearing(c) ELSE Client!Finished(c, "login")
  <2>1. calls' \in [Call -> CallType] /\ calls'[c].at # "sent"
    BY <1>5, ClearingCalls, FinishedCalls
  <2>2. /\ past' = [past EXCEPT !.excused = @ \cup ({t} \ {None})]
        /\ past' \in PastType
    BY <1>1, <1>2, <2>1 DEF PastType
  <2>3. CASE calls[c].op = "logout"
    <3>1. Moved(c, "clearing", None, None)
      BY <1>5, <2>3, MovedCall DEF Working
    <3>2. \A d \in Call : CallStands(d)'
      BY <1>1, <3>1, MovedStands DEF Working
    <3> QED
      BY <1>1, <1>3, <2>1, <2>2, <2>3, <3>1, <3>2
  <2>4. CASE calls[c].op # "logout"
    <3>1. calls' = Client!Finished(c, "login")
      BY <1>5, <2>4
    <3>2. \A d \in Call : CallStands(d)'
      BY <1>1, <3>1, FinishedStands DEF Working
    <3> QED
      BY <1>1, <1>3, <2>1, <2>2, <2>4, <3>1, <3>2
  <2> QED
    BY <2>3, <2>4
<1> QED
  BY <1>4, <1>5 DEF Client!Read

\* What the server makes of the credentials: those in fresh become live, no other does, and
\* none becomes absent again.
Ledgered(fresh) ==
    /\ Client!TypeOK'
    /\ \A y \in Credential \ fresh : standing'[y] = "live" => standing[y] = "live"
    /\ \A y \in Credential : standing'[y] = "absent" => standing[y] = "absent" /\ y \notin fresh
    /\ \A y \in fresh : standing[y] = "absent"

\* The server answers the request of c, or refuses it.
LEMMA ServeStep ==
    ASSUME CallsInv, NEW c \in Call, Client!Serve(c)
    PROVE  /\ CallsInv'
           /\ UNCHANGED <<stored, flight>> /\ calls[c].at = "sent"
           /\ past' = [past EXCEPT !.excused = {x \in @ : standing'[x] = "live"}]
           /\ calls[c].op \in {"refresh", "logout"} =>
                  calls[c].token \in Credential /\ standing'[calls[c].token] # "live"
           /\ \/ \E x \in Credential : /\ Moved(c, "answered", calls[c].token, x) /\ Ledgered({x})
                                       /\ calls[c].op # "logout"
              \/ Moved(c, "answered", calls[c].token, None) /\ Ledgered({}) /\ calls[c].op = "logout"
              \/ Moved(c, "refused", calls[c].token, None) /\ Ledgered({})
<1> DEFINE t == calls[c].token
<1>1. /\ calls[c].at = "sent" /\ UNCHANGED <<stored, flight, ui, late, faults>>
      /\ past' = [past EXCEPT !.excused = {x \in @ : standing'[x] = "live"}]
  BY DEF Client!Serve
<1>2. /\ t \in Credential \cup {None} /\ past \in PastType /\ calls[c] \in CallType /\ Client!TypeOK
      /\ CallStands(c)
  BY DEF CallsInv, ClientTyped, CallType
<1>3. past' \in PastType
  BY <1>1, <1>2 DEF PastType
<1>4. ASSUME NEW at \in {"answered", "refused"}, NEW x \in Credential \cup {None},
             Client!Answered(c, at, x), Client!TypeOK',
             at = "answered" => (x = None <=> calls[c].op = "logout")
      PROVE  CallsInv' /\ Moved(c, at, t, x)
  <2>1. Moved(c, at, t, x)
    BY <1>2, <1>4, MovedCall DEF Client!Answered, Working
  <2>2. \A d \in Call : CallStands(d)'
    BY <1>1, <1>4, <2>1, MovedStands DEF Working
  <2> QED
    BY <1>1, <1>3, <1>4, <2>1, <2>2 DEF Moved, CallsInv, ClientTyped
<1>5. ASSUME NEW x \in Client!Fresh, calls[c].op = "refresh", Client!Exchange(t, x),
             Client!Answered(c, "answered", x)
      PROVE  /\ CallsInv' /\ Moved(c, "answered", t, x) /\ Ledgered({x})
             /\ t \in Credential /\ standing'[t] # "live"
  <2>1. x \in Credential /\ x # None /\ standing[x] = "absent" /\ t \in Credential
    BY <1>1, <1>2, <1>5, FreshCredentials, ClientConstants DEF CallStands
  <2>2. /\ standing[t] = "live" /\ standing' = [standing EXCEPT ![t] = "spent", ![x] = "live"]
        /\ origin' = [origin EXCEPT ![x] = origin[t]]
    BY <1>5 DEF Client!Exchange
  <2>3. standing'[t] # "live" /\ Client!TypeOK' /\ Ledgered({x})
    BY <1>2, <2>1, <2>2 DEF Client!TypeOK, Ledgered
  <2> QED
    BY <1>4, <1>5, <2>1, <2>3
<1>6. ASSUME NEW x \in Client!Fresh, calls[c].op = "login", Client!Open(x), Client!Answered(c, "answered", x)
      PROVE  CallsInv' /\ Moved(c, "answered", t, x) /\ Ledgered({x}) /\ x \in Credential
  <2>1. x \in Credential /\ x # None /\ standing[x] = "absent"
    BY FreshCredentials, ClientConstants
  <2>2. standing' = [standing EXCEPT ![x] = "live"] /\ origin' = [origin EXCEPT ![x] = x]
    BY <1>6 DEF Client!Open
  <2>3. Client!TypeOK' /\ Ledgered({x})
    BY <1>2, <2>1, <2>2 DEF Client!TypeOK, Ledgered
  <2> QED
    BY <1>4, <1>6, <2>1, <2>3
<1>7. ASSUME calls[c].op = "logout", Client!Void({x \in {t} : Client!Live(x)}),
             Client!Answered(c, "answered", None)
      PROVE  /\ CallsInv' /\ Moved(c, "answered", t, None) /\ Ledgered({})
             /\ t \in Credential /\ standing'[t] # "live"
  <2>1. t \in Credential /\ t # None
    BY <1>1, <1>2, <1>7, ClientConstants DEF CallStands
  <2>2. /\ standing' = [x \in Credential |-> IF x \in {y \in {t} : Client!Live(y)} THEN "spent" ELSE standing[x]]
        /\ UNCHANGED origin
    BY <1>7 DEF Client!Void
  <2>3. standing'[t] # "live" /\ Client!TypeOK' /\ Ledgered({})
    BY <1>2, <2>1, <2>2 DEF Client!TypeOK, Ledgered, Client!Live
  <2> QED
    BY <1>4, <1>7, <2>1, <2>3
<1>8. ASSUME calls[c].op # "logout", UNCHANGED <<standing, origin>>, Client!Answered(c, "refused", None)
      PROVE  CallsInv' /\ Moved(c, "refused", t, None) /\ Ledgered({})
  <2>1. Client!TypeOK' /\ Ledgered({})
    BY <1>2, <1>8 DEF Client!TypeOK, Ledgered
  <2> QED
    BY <1>4, <1>8, <2>1
<1>9. ASSUME calls[c].op = "refresh", ~Client!Live(t), UNCHANGED <<standing, origin>>
      PROVE  t \in Credential /\ standing'[t] # "live"
  BY <1>1, <1>2, <1>9, ClientConstants DEF CallStands, Client!Live
<1>10. \/ \E x \in Client!Fresh : /\ calls[c].op = "refresh" /\ Client!Exchange(t, x)
                                  /\ Client!Answered(c, "answered", x)
       \/ \E x \in Client!Fresh : /\ calls[c].op = "login" /\ Client!Open(x)
                                  /\ Client!Answered(c, "answered", x)
       \/ /\ calls[c].op = "logout" /\ Client!Void({x \in {t} : Client!Live(x)})
          /\ Client!Answered(c, "answered", None)
       \/ calls[c].op = "login" /\ UNCHANGED <<standing, origin>> /\ Client!Answered(c, "refused", None)
       \/ /\ calls[c].op = "refresh" /\ ~Client!Live(t) /\ UNCHANGED <<standing, origin>>
          /\ Client!Answered(c, "refused", None)
  BY DEF Client!Serve, Client!ledger
<1> QED
  <2>1. Client!Fresh \subseteq Credential
    BY FreshCredentials
  <2>2. CASE \E x \in Client!Fresh : /\ calls[c].op = "refresh" /\ Client!Exchange(t, x)
                                     /\ Client!Answered(c, "answered", x)
    BY <1>1, <1>5, <2>1, <2>2
  <2>3. CASE \E x \in Client!Fresh : /\ calls[c].op = "login" /\ Client!Open(x)
                                     /\ Client!Answered(c, "answered", x)
    BY <1>1, <1>6, <2>1, <2>3
  <2>4. CASE /\ calls[c].op = "logout" /\ Client!Void({x \in {t} : Client!Live(x)})
             /\ Client!Answered(c, "answered", None)
    BY <1>1, <1>7, <2>4
  <2>5. CASE calls[c].op = "login" /\ UNCHANGED <<standing, origin>> /\ Client!Answered(c, "refused", None)
    BY <1>1, <1>8, <2>5
  <2>6. CASE /\ calls[c].op = "refresh" /\ ~Client!Live(t) /\ UNCHANGED <<standing, origin>>
             /\ Client!Answered(c, "refused", None)
    BY <1>1, <1>8, <1>9, <2>6
  <2> QED
    BY <1>10, <2>2, <2>3, <2>4, <2>5, <2>6

\* What is won and what is asked are credentials.
LEMMA AnswersTyped ==
    ASSUME CallsInv, NEW gone \in SUBSET Call
    PROVE  Client!AnswersOf(gone) \subseteq Credential /\ Client!Requests(gone) \subseteq Credential
<1>1. \A c \in gone : calls[c].won \in Credential \cup {None} /\ calls[c].token \in Credential \cup {None}
  BY DEF CallsInv, ClientTyped, CallType
<1> QED
  BY <1>1 DEF Client!AnswersOf, Client!Requests

\* The client gives a request up: a login failed, a refresh and a logout clear the store.
LEMMA GiveUpStep ==
    ASSUME CallsInv, NEW c \in Call, Client!GiveUp(c)
    PROVE  /\ CallsInv'
           /\ UNCHANGED <<standing, origin, stored, flight>> /\ calls[c].at \in {"sent", "answered"}
           /\ past' = [past EXCEPT !.excused = @ \cup Client!AnswersOf({c})
                                                 \cup {x \in {calls[c].token} : Client!Live(x)}]
           /\ \/ calls[c].op = "login" /\ calls' = Client!Finished(c, "login")
              \/ calls[c].op # "login" /\ Moved(c, "clearing", None, None)
<1>1. /\ calls[c].at \in {"sent", "answered"} /\ UNCHANGED <<standing, origin, stored, flight, ui>>
      /\ calls' = Client!Unanswered(c) /\ late' = late \cup Client!Requests({c})
      /\ faults' \in 0..MaxFaults
      /\ past' = [past EXCEPT !.excused = @ \cup Client!AnswersOf({c})
                                            \cup {x \in {calls[c].token} : Client!Live(x)}]
  BY ClientConstants DEF Client!GiveUp, Client!Fault, Client!ledger, CallsInv, ClientTyped
<1>2. late' \subseteq Credential
  BY <1>1, AnswersTyped DEF CallsInv, ClientTyped
<1>3. {x \in {calls[c].token} : Client!Live(x)} \subseteq Credential
  BY DEF CallsInv, ClientTyped, CallType, Client!Live
<1>4. past' \in PastType
  <2>1. Client!AnswersOf({c}) \subseteq Credential
    BY AnswersTyped
  <2> QED
    BY <1>1, <1>3, <2>1 DEF CallsInv, ClientTyped, PastType
<1>5. ASSUME calls' \in [Call -> CallType], \A d \in Call : CallStands(d)'  PROVE CallsInv'
  BY <1>1, <1>2, <1>4, <1>5 DEF CallsInv, ClientTyped, Client!TypeOK
<1>6. CASE calls[c].op = "login"
  <2>1. calls' = Client!Finished(c, "login")
    BY <1>1, <1>6 DEF Client!Unanswered
  <2>2. calls' \in [Call -> CallType] /\ \A d \in Call : CallStands(d)'
    BY <1>1, <2>1, FinishedCalls, FinishedStands DEF Working
  <2> QED
    BY <1>1, <1>5, <1>6, <2>1, <2>2
<1>7. CASE calls[c].op # "login"
  <2>1. calls' = Client!Clearing(c)
    BY <1>1, <1>7 DEF Client!Unanswered
  <2>2. Moved(c, "clearing", None, None)
    BY <2>1, MovedCall DEF Working
  <2>3. calls' \in [Call -> CallType] /\ \A d \in Call : CallStands(d)'
    BY <1>1, <2>2, MovedStands DEF Working, Moved
  <2> QED
    BY <1>1, <1>5, <1>7, <2>2, <2>3
<1> QED
  BY <1>6, <1>7

\* The server serves a request that no call waits for.
LEMMA ServeLateStep ==
    ASSUME CallsInv, NEW x \in late, Client!ServeLate(x)
    PROVE  /\ CallsInv' /\ UNCHANGED <<stored, calls, flight>> /\ Ledgered({})
           /\ x \in Credential /\ standing'[x] # "live"
           /\ past' = [past EXCEPT !.excused = @ \ {x}]
<1>1. /\ UNCHANGED <<stored, flight, calls, ui, faults>> /\ late' = late \ {x}
      /\ past' = [past EXCEPT !.excused = @ \ {x}] /\ x \in Credential /\ origin' = origin
      /\ standing' = [c \in Credential |-> IF c \in {x} \cap {y \in Credential : Client!Live(y)}
                                           THEN "spent" ELSE standing[c]]
  BY DEF Client!ServeLate, Client!Void, CallsInv, ClientTyped
<1>2. Client!TypeOK /\ past \in PastType
  BY DEF CallsInv, ClientTyped
<1>3. Client!TypeOK' /\ Ledgered({}) /\ standing'[x] # "live"
  BY <1>1, <1>2, ClientConstants DEF Client!TypeOK, Ledgered, Client!Live
<1>4. past' \in PastType
  BY <1>1, <1>2 DEF PastType
<1> QED
  BY <1>1, <1>3, <1>4 DEF CallsInv, ClientTyped, CallStands

\* The process dies and starts again.
LEMMA DieStep ==
    ASSUME CallsInv, NEW ended, Client!Die(ended)
    PROVE  /\ CallsInv' /\ UNCHANGED <<standing, origin, stored>>
           /\ flight' = NoCall /\ \A c \in Call : calls'[c] = Client!Idle
           /\ past'.sent = {} /\ past'.twice = past.twice /\ past'.stuck = past.stuck
           /\ past'.excused = past.excused \cup Client!AnswersOf(Call)
           /\ past'.mixed <=> /\ ~Client!Coherent(stored)
                              /\ past.mixed \/ \E c \in Call : Client!Halfway(c)
<1> DEFINE some == \E c \in Call : Client!Halfway(c)
           kept == past.kept \/ stored.refresh \in ended
           mixed == ~Client!Coherent(stored) /\ (past.mixed \/ some)
           next == [past EXCEPT !.sent = {}, !.excused = @ \cup Client!AnswersOf(Call),
                                !.kept = kept, !.mixed = mixed]
<1>1. /\ calls' = [c \in Call |-> Client!Idle] /\ flight' = NoCall /\ ui' = [w \in Root |-> "restoring"]
      /\ late' = late \cup Client!Requests(Call) /\ UNCHANGED <<standing, origin, stored>>
      /\ faults' \in 0..MaxFaults /\ past' = next
  BY ClientConstants DEF Client!Die, Client!Fault, Client!ledger, CallsInv, ClientTyped
<1>2. Client!AnswersOf(Call) \subseteq Credential /\ Client!Requests(Call) \subseteq Credential
  BY AnswersTyped
<1>3. past \in PastType /\ late \subseteq Credential
  BY DEF CallsInv, ClientTyped
<1>4. kept \in BOOLEAN /\ mixed \in BOOLEAN
  BY <1>3 DEF PastType
<1> HIDE DEF kept, mixed
<1>5. /\ next \in PastType /\ next.sent = {} /\ next.twice = past.twice /\ next.stuck = past.stuck
      /\ next.excused = past.excused \cup Client!AnswersOf(Call) /\ next.mixed = mixed
  BY <1>2, <1>3, <1>4 DEF PastType
<1> HIDE DEF next
<1>6. ClientTyped'
  BY <1>1, <1>2, <1>3, <1>5, IdleCall DEF CallsInv, ClientTyped, Client!TypeOK
<1>7. \A c \in Call : CallStands(c)'
  <2>1. \A c \in Call : calls'[c] = Client!Idle /\ flight' # c
    BY <1>1, ClientConstants
  <2> QED
    BY <2>1, IdleCall DEF CallStands
<1> QED
  BY <1>1, <1>4, <1>5, <1>6, <1>7 DEF CallsInv, mixed

\* Android: a request raises; refresh catches it and keeps what is stored, else the process ends.
LEMMA RaiseStep ==
    ASSUME CallsInv, NEW c \in Call, Client!Raise(c)
    PROVE  /\ Raises /\ calls[c].at \in {"sent", "answered"}
           /\ \/ Client!Die({calls[c].token} \ {None})
              \/ /\ CallsInv' /\ UNCHANGED <<standing, origin, stored, flight>>
                 /\ calls[c].op = "refresh" /\ calls' = Client!Finished(c, "login")
                 /\ past' = [past EXCEPT !.excused = @ \cup Client!AnswersOf({c})]
<1>1. Raises /\ calls[c].at \in {"sent", "answered"}
  BY DEF Client!Raise
<1>2. CASE calls[c].op # "refresh"
  BY <1>1, <1>2 DEF Client!Raise
<1>3. CASE calls[c].op = "refresh"
  <2>1. /\ UNCHANGED <<standing, origin, stored, flight, ui>> /\ faults' \in 0..MaxFaults
        /\ calls' = Client!Finished(c, "login") /\ late' = late \cup Client!Requests({c})
        /\ past' = [past EXCEPT !.excused = @ \cup Client!AnswersOf({c})]
    <3>1. /\ Client!Fault
          /\ calls' = Client!Finished(c, "login") /\ late' = late \cup Client!Requests({c})
          /\ past' = [past EXCEPT !.excused = @ \cup Client!AnswersOf({c})]
          /\ UNCHANGED <<Client!ledger, stored, flight, ui>>
      BY <1>3 DEF Client!Raise
    <3> QED
      BY <3>1, ClientConstants DEF Client!Fault, Client!ledger, CallsInv, ClientTyped
  <2>2. calls' \in [Call -> CallType] /\ \A d \in Call : CallStands(d)'
    BY <1>1, <2>1, FinishedCalls, FinishedStands DEF Working
  <2>3. late' \subseteq Credential /\ Client!AnswersOf({c}) \subseteq Credential
    BY <2>1, AnswersTyped DEF CallsInv, ClientTyped
  <2>4. past' \in PastType
    BY <2>1, <2>3 DEF CallsInv, ClientTyped, PastType
  <2> QED
    BY <1>1, <1>3, <2>1, <2>2, <2>3, <2>4 DEF CallsInv, ClientTyped, Client!TypeOK
<1> QED
  BY <1>2, <1>3

\* A refused refresh clears the store, a refused login does not.
LEMMA RefusedStep ==
    ASSUME CallsInv, NEW c \in Call, Client!Refused(c)
    PROVE  /\ CallsInv' /\ UNCHANGED <<standing, origin, stored, flight, past>> /\ calls[c].at = "refused"
           /\ \/ calls[c].op = "refresh" /\ Moved(c, "clearing", None, None)
              \/ calls[c].op # "refresh" /\ calls' = Client!Finished(c, "login")
<1>1. /\ UNCHANGED <<standing, origin, stored, flight, ui, late, faults, past>> /\ calls[c].at = "refused"
      /\ calls' = IF calls[c].op = "refresh" THEN Client!Clearing(c) ELSE Client!Finished(c, "login")
  BY DEF Client!Refused, Client!ledger
<1>2. ASSUME calls' \in [Call -> CallType], \A d \in Call : CallStands(d)'  PROVE CallsInv'
  BY <1>1, <1>2 DEF CallsInv, ClientTyped, Client!TypeOK
<1>3. CASE calls[c].op = "refresh"
  <2>1. Moved(c, "clearing", None, None)
    BY <1>1, <1>3, MovedCall DEF Working
  <2>2. calls' \in [Call -> CallType] /\ \A d \in Call : CallStands(d)'
    BY <1>1, <2>1, MovedStands DEF Working, Moved
  <2> QED
    BY <1>1, <1>2, <1>3, <2>1, <2>2
<1>4. CASE calls[c].op # "refresh"
  <2>1. calls' = Client!Finished(c, "login")
    BY <1>1, <1>4
  <2>2. calls' \in [Call -> CallType] /\ \A d \in Call : CallStands(d)'
    BY <1>1, <2>1, FinishedCalls, FinishedStands DEF Working
  <2> QED
    BY <1>1, <1>2, <1>4, <2>1, <2>2
<1> QED
  BY <1>3, <1>4

\* A logout ignores its answer.
LEMMA RevokedStep ==
    ASSUME CallsInv, NEW c \in Call, Client!Revoked(c)
    PROVE  /\ CallsInv' /\ UNCHANGED <<standing, origin, stored, flight, past>>
           /\ calls[c].at = "answered" /\ calls[c].op = "logout" /\ Moved(c, "clearing", None, None)
<1>1. /\ UNCHANGED <<standing, origin, stored, flight, ui, late, faults, past>>
      /\ calls[c].at = "answered" /\ calls[c].op = "logout" /\ calls' = Client!Clearing(c)
  BY DEF Client!Revoked, Client!ledger
<1>2. Moved(c, "clearing", None, None)
  BY <1>1, MovedCall DEF Working
<1>3. calls' \in [Call -> CallType] /\ \A d \in Call : CallStands(d)'
  BY <1>1, <1>2, MovedStands DEF Working, Moved
<1> QED
  BY <1>1, <1>2, <1>3 DEF CallsInv, ClientTyped, Client!TypeOK

\* A write that fails clears the store.
LEMMA WriteFailsStep ==
    ASSUME CallsInv, NEW c \in Call, Client!WriteFails(c)
    PROVE  /\ CallsInv' /\ UNCHANGED <<standing, origin, stored, flight>>
           /\ calls[c].at \in {"answered", "half_saved"} /\ calls[c].op # "logout"
           /\ calls[c].won \in Credential
           /\ Moved(c, "clearing", None, None)
           /\ past' = [past EXCEPT !.excused = @ \cup {calls[c].won}]
<1>1. CallStands(c) /\ calls[c] \in CallType /\ past \in PastType
  BY DEF CallsInv, ClientTyped
<1>2. /\ UNCHANGED <<standing, origin, stored, flight, ui, late>> /\ faults' \in 0..MaxFaults
      /\ calls[c].at \in {"answered", "half_saved"} /\ calls[c].op # "logout"
      /\ calls' = Client!Clearing(c) /\ past' = [past EXCEPT !.excused = @ \cup {calls[c].won}]
  BY <1>1, ClientConstants DEF Client!WriteFails, Client!Fault, Client!ledger, CallsInv, ClientTyped, CallStands
<1>3. calls[c].won \in Credential
  BY <1>1, <1>2 DEF CallStands, CallType
<1>4. Moved(c, "clearing", None, None)
  BY <1>2, MovedCall DEF Working
<1>5. calls' \in [Call -> CallType] /\ \A d \in Call : CallStands(d)'
  BY <1>2, <1>4, MovedStands DEF Working, Moved
<1>6. past' \in PastType
  BY <1>1, <1>2, <1>3 DEF PastType
<1> QED
  BY <1>2, <1>3, <1>4, <1>5, <1>6 DEF CallsInv, ClientTyped, Client!TypeOK

\* save writes the refresh token, then the access token.
LEMMA SaveRefreshStep ==
    ASSUME CallsInv, NEW c \in Call, Client!SaveRefresh(c)
    PROVE  /\ CallsInv' /\ UNCHANGED <<standing, origin, flight>>
           /\ calls[c].at = "answered" /\ calls[c].op # "logout" /\ calls[c].won \in Credential
           /\ Moved(c, "half_saved", calls[c].token, calls[c].won)
           /\ Touched(c, [stored EXCEPT !.refresh = calls[c].won], past)
<1>1. CallStands(c) /\ calls[c] \in CallType /\ past \in PastType /\ stored \in StoreType
  BY DEF CallsInv, ClientTyped, StoreType
<1>2. /\ UNCHANGED <<standing, origin, flight, ui, late, faults>> /\ calls[c].at = "answered"
      /\ calls[c].op # "logout" /\ calls' = [calls EXCEPT ![c].at = "half_saved"]
      /\ Client!Touch(c, [stored EXCEPT !.refresh = calls[c].won], past)
  BY DEF Client!SaveRefresh, Client!ledger
<1>3. calls[c].won \in Credential /\ calls[c].won # None /\ calls[c].token \in Credential \cup {None}
  BY <1>1, <1>2, ClientConstants DEF CallStands, CallType
<1>4. Moved(c, "half_saved", calls[c].token, calls[c].won)
  BY <1>2, <1>3, MovedCall DEF Working
<1>5. calls' \in [Call -> CallType] /\ \A d \in Call : CallStands(d)'
  BY <1>2, <1>3, <1>4, MovedStands DEF Working, Moved
<1>6. [stored EXCEPT !.refresh = calls[c].won] \in StoreType
  BY <1>1, <1>3 DEF StoreType
<1>7. Touched(c, [stored EXCEPT !.refresh = calls[c].won], past)
  BY <1>1, <1>2, <1>6, TouchStore
<1>8. stored' \in StoreType /\ past' \in PastType
  BY <1>6, <1>7 DEF Touched
<1> QED
  BY <1>2, <1>3, <1>4, <1>5, <1>7, <1>8 DEF CallsInv, ClientTyped, Client!TypeOK, StoreType

LEMMA SaveAccessStep ==
    ASSUME CallsInv, NEW c \in Call, Client!SaveAccess(c)
    PROVE  /\ CallsInv' /\ UNCHANGED <<standing, origin, flight>>
           /\ calls[c].at = "half_saved" /\ calls[c].won \in Credential
           /\ calls' = Client!Finished(c, "signed_in")
           /\ Touched(c, [stored EXCEPT !.access = calls[c].won], past)
<1>1. CallStands(c) /\ calls[c] \in CallType /\ past \in PastType /\ stored \in StoreType
  BY DEF CallsInv, ClientTyped, StoreType
<1>2. /\ UNCHANGED <<standing, origin, flight, ui, late, faults>> /\ calls[c].at = "half_saved"
      /\ calls' = Client!Finished(c, "signed_in")
      /\ Client!Touch(c, [stored EXCEPT !.access = calls[c].won], past)
  BY DEF Client!SaveAccess, Client!ledger
<1>3. calls[c].won \in Credential
  BY <1>1, <1>2 DEF CallStands, CallType
<1>5. calls' \in [Call -> CallType] /\ \A d \in Call : CallStands(d)'
  BY <1>2, FinishedCalls, FinishedStands DEF Working
<1>6. [stored EXCEPT !.access = calls[c].won] \in StoreType
  BY <1>1, <1>3 DEF StoreType
<1>7. Touched(c, [stored EXCEPT !.access = calls[c].won], past)
  BY <1>1, <1>2, <1>6, TouchStore
<1>8. stored' \in StoreType /\ past' \in PastType
  BY <1>6, <1>7 DEF Touched
<1> QED
  BY <1>2, <1>3, <1>5, <1>7, <1>8 DEF CallsInv, ClientTyped, Client!TypeOK, StoreType

\* clear removes the access token, then the refresh token; a removal that fails is swallowed.
LEMMA ClearAccessStep ==
    ASSUME CallsInv, NEW c \in Call, Client!ClearAccess(c)
    PROVE  /\ CallsInv' /\ UNCHANGED <<standing, origin, flight>>
           /\ calls[c].at = "clearing" /\ Moved(c, "half_cleared", calls[c].token, calls[c].won)
           /\ \/ Touched(c, [stored EXCEPT !.access = None], past)
              \/ Touched(c, stored, [past EXCEPT !.stuck = @ \cup ({stored.access} \ {None})])
<1> DEFINE s == [stored EXCEPT !.access = None]
           p == [past EXCEPT !.stuck = @ \cup ({stored.access} \ {None})]
<1>1. calls[c] \in CallType /\ past \in PastType /\ stored \in StoreType
  BY DEF CallsInv, ClientTyped, StoreType
<1>2. /\ UNCHANGED <<standing, origin, flight, ui, late>> /\ faults' \in 0..MaxFaults
      /\ calls[c].at = "clearing" /\ calls' = [calls EXCEPT ![c].at = "half_cleared"]
      /\ Client!Touch(c, s, past) \/ Client!Touch(c, stored, p)
  BY ClientConstants DEF Client!ClearAccess, Client!Fault, Client!ledger, CallsInv, ClientTyped
<1>3. calls[c].won \in Credential \cup {None} /\ calls[c].token \in Credential \cup {None}
  BY <1>1 DEF CallType
<1>4. Moved(c, "half_cleared", calls[c].token, calls[c].won)
  BY <1>2, <1>3, MovedCall DEF Working
<1>5. calls' \in [Call -> CallType] /\ \A d \in Call : CallStands(d)'
  BY <1>2, <1>3, <1>4, MovedStands DEF Working, Moved
<1>6. s \in StoreType /\ p \in PastType
  BY <1>1 DEF StoreType, PastType
<1> HIDE DEF s, p
<1>7. Touched(c, s, past) \/ Touched(c, stored, p)
  BY <1>1, <1>2, <1>6, TouchStore
<1>8. stored' \in StoreType /\ past' \in PastType
  BY <1>1, <1>6, <1>7 DEF Touched
<1> QED
  BY <1>2, <1>3, <1>4, <1>5, <1>7, <1>8 DEF CallsInv, ClientTyped, Client!TypeOK, StoreType, s, p

LEMMA ClearRefreshStep ==
    ASSUME CallsInv, NEW c \in Call, Client!ClearRefresh(c)
    PROVE  /\ CallsInv' /\ UNCHANGED <<standing, origin, flight>>
           /\ calls[c].at = "half_cleared" /\ calls' = Client!Finished(c, "login")
           /\ \/ Touched(c, [stored EXCEPT !.refresh = None], past)
              \/ Touched(c, stored, [past EXCEPT !.stuck = @ \cup ({stored.refresh} \ {None})])
<1> DEFINE s == [stored EXCEPT !.refresh = None]
           p == [past EXCEPT !.stuck = @ \cup ({stored.refresh} \ {None})]
<1>1. calls[c] \in CallType /\ past \in PastType /\ stored \in StoreType
  BY DEF CallsInv, ClientTyped, StoreType
<1>2. /\ UNCHANGED <<standing, origin, flight, ui, late>> /\ faults' \in 0..MaxFaults
      /\ calls[c].at = "half_cleared" /\ calls' = Client!Finished(c, "login")
      /\ Client!Touch(c, s, past) \/ Client!Touch(c, stored, p)
  BY ClientConstants DEF Client!ClearRefresh, Client!Fault, Client!ledger, CallsInv, ClientTyped
<1>3. calls' \in [Call -> CallType] /\ \A d \in Call : CallStands(d)'
  BY <1>2, FinishedCalls, FinishedStands DEF Working
<1>4. s \in StoreType /\ p \in PastType
  BY <1>1 DEF StoreType, PastType
<1> HIDE DEF s, p
<1>5. Touched(c, s, past) \/ Touched(c, stored, p)
  BY <1>1, <1>2, <1>4, TouchStore
<1>6. stored' \in StoreType /\ past' \in PastType
  BY <1>1, <1>4, <1>5 DEF Touched
<1> QED
  BY <1>2, <1>3, <1>5, <1>6 DEF CallsInv, ClientTyped, Client!TypeOK, StoreType, s, p

\* The result of a call is shown; a leader makes room for the next refresh.
LEMMA ReturnStep ==
    ASSUME CallsInv, NEW c \in Call, Client!Return(c)
    PROVE  /\ CallsInv' /\ UNCHANGED <<standing, origin, stored, past>>
           /\ calls[c].at \in {"returning", "releasing"} /\ calls' = [calls EXCEPT ![c] = Client!Idle]
           /\ flight' = IF calls[c].at = "releasing" THEN NoCall ELSE flight
<1>1. /\ UNCHANGED <<standing, origin, stored, late, faults, past>>
      /\ calls[c].at \in {"returning", "releasing"} /\ calls' = [calls EXCEPT ![c] = Client!Idle]
      /\ flight' = IF calls[c].at = "releasing" THEN NoCall ELSE flight
      /\ ui' = ui \/ ui' = [ui EXCEPT ![calls[c].root] = calls[c].result]
  BY DEF Client!Return, Client!ledger
<1>2. /\ \A d \in Call : CallStands(d)
      /\ calls \in [Call -> CallType] /\ ui \in [Root -> {"restoring", "signed_in", "login"}]
  BY DEF CallsInv, ClientTyped
<1>3. ui' \in [Root -> {"restoring", "signed_in", "login"}]
  <2>1. calls[c].result \in {"signed_in", "login"}
    BY <1>1, <1>2 DEF CallStands, CallType
  <2> QED
    BY <1>1, <1>2, <2>1
<1>4. calls' \in [Call -> CallType] /\ flight' \in Call \cup {NoCall}
  BY <1>1, <1>2, IdleCall DEF CallsInv, ClientTyped
<1>5. ASSUME NEW d \in Call  PROVE CallStands(d)'
  <2>1. CallStands(c) /\ CallStands(d)
    BY <1>2
  <2>2. CASE d = c
    BY <1>1, <1>2, <2>1, <2>2, IdleCall, ClientConstants DEF CallStands
  <2>3. CASE d # c
    <3>1. calls'[d] = calls[d]
      BY <1>1, <1>2, <2>3
    <3>2. calls[c].at = "releasing" => flight # d
      <4> SUFFICES ASSUME calls[c].at = "releasing", flight = d  PROVE FALSE
        OBVIOUS
      <4>1. calls[c].op = "refresh"
        BY <1>2, <2>1 DEF CallStands, CallType
      <4> QED
        BY <2>1, <2>3, <4>1 DEF CallStands
    <3> QED
      BY <1>1, <2>1, <3>1, <3>2, ClientConstants DEF CallStands
  <2> QED
    BY <2>2, <2>3
<1> QED
  BY <1>1, <1>3, <1>4, <1>5 DEF CallsInv, ClientTyped, Client!TypeOK

\* A view begins a call: a refresh leads or joins one.
Begun(c) ==
    /\ UNCHANGED <<standing, origin, stored, past>> /\ calls[c].at = "idle"
    /\ \A d \in Call \ {c} : calls'[d] = calls[d]
    /\ calls'[c].at \in {"reading", "sent", "waiting", "returning"}
    /\ calls'[c].at = "sent" => calls'[c].op = "login"
    /\ calls'[c].unseen = {x \in Credential : standing[x] = "absent" \/ x \in Client!AnswersOf(Call)}
    /\ \/ flight' = flight
       \/ flight = NoCall /\ flight' = c /\ calls'[c].at = "reading"

LEMMA BegunStands ==
    ASSUME CallsInv, NEW c \in Call, NEW k \in CallType, calls[c] = Client!Idle, calls' = [calls EXCEPT ![c] = k],
           UNCHANGED <<standing, origin, stored, ui, late, faults, past>>,
           k.unseen = {x \in Credential : standing[x] = "absent" \/ x \in Client!AnswersOf(Call)},
           \/ k.op = "refresh" /\ k.at = "waiting" /\ flight' = flight
           \/ k.op = "refresh" /\ k.at = "returning" /\ k.result # "none" /\ flight' = flight
           \/ k.op = "refresh" /\ k.at = "reading" /\ flight = NoCall /\ flight' = c
           \/ k.op = "login" /\ k.at = "sent" /\ flight' = flight
           \/ k.op = "logout" /\ k.at = "reading" /\ flight' = flight
    PROVE  CallsInv' /\ Begun(c)
<1>1. calls \in [Call -> CallType] /\ \A d \in Call : CallStands(d)
  BY DEF CallsInv, ClientTyped
<1>2. /\ calls' \in [Call -> CallType] /\ calls'[c] = k /\ \A d \in Call \ {c} : calls'[d] = calls[d]
      /\ calls[c].at = "idle" /\ flight # c
  BY <1>1, IdleCall DEF CallStands
<1>3. CallStands(c)'
  BY <1>2 DEF CallStands
<1>4. ASSUME NEW d \in Call \ {c}  PROVE CallStands(d)'
  BY <1>1, <1>2, ClientConstants DEF CallStands
<1>5. flight' \in Call \cup {NoCall}
  BY DEF CallsInv, ClientTyped
<1>6. Begun(c)
  BY <1>2 DEF Begun
<1> QED
  BY <1>2, <1>3, <1>4, <1>5, <1>6 DEF CallsInv, ClientTyped, Client!TypeOK

LEMMA BeginStep ==
    ASSUME CallsInv, NEW c \in Call, NEW w \in Root,
           Client!Restore(c, w) \/ Client!Login(c, w) \/ Client!Logout(c, w)
    PROVE  CallsInv' /\ Begun(c)
<1> DEFINE unseen == {x \in Credential : standing[x] = "absent" \/ x \in Client!AnswersOf(Call)}
<1>1. UNCHANGED <<standing, origin, stored, ui, late, faults, past>> /\ calls[c] = Client!Idle
  BY DEF Client!Restore, Client!Login, Client!Logout, Client!ledger, Client!Free
<1>2. CASE Client!Login(c, w)
  <2> DEFINE k == Client!Begin(c, "login", w, "sent")
  <2>1. flight' = flight /\ calls' = [calls EXCEPT ![c] = k]
    BY <1>2 DEF Client!Login
  <2>2. k \in CallType /\ k.op = "login" /\ k.at = "sent" /\ k.unseen = unseen
    BY BeginCall
  <2> HIDE DEF k
  <2> QED
    BY <1>1, <2>1, <2>2, BegunStands
<1>3. CASE Client!Logout(c, w)
  <2> DEFINE k == Client!Begin(c, "logout", w, "reading")
  <2>1. flight' = flight /\ calls' = [calls EXCEPT ![c] = k]
    BY <1>3 DEF Client!Logout
  <2>2. k \in CallType /\ k.op = "logout" /\ k.at = "reading" /\ k.unseen = unseen
    BY BeginCall
  <2> HIDE DEF k
  <2> QED
    BY <1>1, <2>1, <2>2, BegunStands
<1>4. CASE Client!Restore(c, w)
  <2>1. CASE flight = NoCall
    <3> DEFINE k == Client!Begin(c, "refresh", w, "reading")
    <3>1. flight' = c /\ calls' = [calls EXCEPT ![c] = k]
      BY <1>4, <2>1 DEF Client!Restore, Client!Joins
    <3>2. k \in CallType /\ k.op = "refresh" /\ k.at = "reading" /\ k.unseen = unseen
      BY BeginCall
    <3> HIDE DEF k
    <3> QED
      BY <1>1, <2>1, <3>1, <3>2, BegunStands
  <2>2. CASE flight # NoCall /\ calls[flight].at # "releasing"
    <3> DEFINE k == Client!Begin(c, "refresh", w, "waiting")
    <3>1. flight' = flight /\ calls' = [calls EXCEPT ![c] = k]
      BY <1>4, <2>2 DEF Client!Restore, Client!Joins
    <3>2. k \in CallType /\ k.op = "refresh" /\ k.at = "waiting" /\ k.unseen = unseen
      BY BeginCall
    <3> HIDE DEF k
    <3> QED
      BY <1>1, <2>2, <3>1, <3>2, BegunStands
  <2>3. CASE flight # NoCall /\ calls[flight].at = "releasing"
    <3> DEFINE b == Client!Begin(c, "refresh", w, "returning")
               k == [b EXCEPT !.result = calls[flight].result]
    <3>1. flight' = flight /\ calls' = [calls EXCEPT ![c] = k]
      BY <1>4, <2>3 DEF Client!Restore, Client!Joins
    <3>2. calls[flight].result \in {"login", "signed_in"}
      BY <2>3 DEF CallsInv, ClientTyped, CallStands, CallType
    <3>3. b \in CallType /\ b.op = "refresh" /\ b.at = "returning" /\ b.unseen = unseen
      BY BeginCall
    <3> HIDE DEF b
    <3>4. k \in CallType /\ k.op = "refresh" /\ k.at = "returning" /\ k.unseen = unseen /\ k.result # "none"
      BY <3>2, <3>3 DEF CallType
    <3> HIDE DEF k
    <3> QED
      BY <1>1, <3>1, <3>4, BegunStands
  <2> QED
    BY <2>1, <2>2, <2>3
<1> QED
  BY <1>2, <1>3, <1>4

\* What every step of the clients is.
LEMMA ClientSteps ==
    ASSUME Client!NextClient,
           NEW ACTION P,
           \A c \in Call : Client!Read(c) => P,
           \A c \in Call : Client!Serve(c) => P,
           \A c \in Call : Client!GiveUp(c) => P,
           \A c \in Call : Client!Refused(c) => P,
           \A c \in Call : Client!Revoked(c) => P,
           \A c \in Call : Client!WriteFails(c) => P,
           \A c \in Call : Client!SaveRefresh(c) => P,
           \A c \in Call : Client!SaveAccess(c) => P,
           \A c \in Call : Client!ClearAccess(c) => P,
           \A c \in Call : Client!ClearRefresh(c) => P,
           \A c \in Call : Client!Return(c) => P,
           \A c \in Call : Client!Raise(c) => P,
           \A c \in Call : \A w \in Root : Client!Restore(c, w) \/ Client!Login(c, w) \/ Client!Logout(c, w) => P,
           \A x \in late : Client!ServeLate(x) => P,
           \A ended : Client!Die(ended) => P
    PROVE  P
  BY DEF Client!NextClient, Client!Step, Client!Killed

LEMMA CallsInvInit == Client!InitClient => CallsInv
<1> SUFFICES ASSUME Client!InitClient  PROVE CallsInv
  OBVIOUS
<1>1. Client!Past \in PastType
  BY DEF Client!Past, PastType
<1> QED
  BY <1>1, IdleCall, ClientConstants
     DEF Client!InitClient, Client!Init, CallsInv, ClientTyped, Client!TypeOK, CallStands

LEMMA CallsInvKept == CallsInv /\ [Client!NextClient]_client => CallsInv'
<1> SUFFICES ASSUME CallsInv, [Client!NextClient]_client  PROVE CallsInv'
  OBVIOUS
<1>1. CASE UNCHANGED client
  BY <1>1 DEF client, CallsInv, ClientTyped, Client!TypeOK, CallStands
<1>2. CASE Client!NextClient
  <2> DEFINE P == CallsInv'
  <2>1. \A c \in Call : Client!Read(c) \/ Client!Serve(c) \/ Client!GiveUp(c) => P
    BY ReadStep, ServeStep, GiveUpStep
  <2>2. \A c \in Call : Client!Refused(c) \/ Client!Revoked(c) \/ Client!WriteFails(c) => P
    BY RefusedStep, RevokedStep, WriteFailsStep
  <2>3. \A c \in Call : Client!SaveRefresh(c) \/ Client!SaveAccess(c) => P
    BY SaveRefreshStep, SaveAccessStep
  <2>4. \A c \in Call : Client!ClearAccess(c) \/ Client!ClearRefresh(c) \/ Client!Return(c) => P
    BY ClearAccessStep, ClearRefreshStep, ReturnStep
  <2>5. \A c \in Call : Client!Raise(c) => P
    BY RaiseStep, DieStep
  <2>6. \A c \in Call : \A w \in Root : Client!Restore(c, w) \/ Client!Login(c, w) \/ Client!Logout(c, w) => P
    BY BeginStep
  <2>7. \A x \in late : Client!ServeLate(x) => P
    BY ServeLateStep
  <2>8. \A ended : Client!Die(ended) => P
    BY DieStep
  <2> HIDE DEF P
  <2>9. P
    BY <1>2, <2>1, <2>2, <2>3, <2>4, <2>5, <2>6, <2>7, <2>8, ClientSteps
  <2> QED
    BY <2>9 DEF P
<1> QED
  BY <1>1, <1>2

-------------------------------------------------------------------------------
(* The native clients: a process refreshes one credential at a time *)

\* c has the answer x of the server, and has not stored it.
Answer(c, x) == calls[c].at = "answered" /\ calls[c].won = x

\* What is stored was handed out, and what is on its way there is nowhere else.
CredentialsStand ==
    /\ \A x \in Credential : x = stored.refresh => standing[x] # "absent"
    /\ \A c \in Call : \A x \in Credential : Answer(c, x) => standing[x] # "absent" /\ x # stored.refresh
    /\ \A c, d \in Call : \A x \in Credential : Answer(c, x) /\ Answer(d, x) => c = d

\* A stored credential that was submitted belongs to the refresh in flight, which replaces or clears it.
Spending == {"sent", "answered", "refused", "clearing", "half_cleared"}
Leading == flight \in Call /\ calls[flight].at \in Spending
SubmittedOnce ==
    /\ past.sent \subseteq {stored.refresh}
    /\ stored.refresh \in past.sent \ past.stuck => Leading
    /\ ~past.twice

RefreshInv == CredentialsStand /\ (~Raises => SubmittedOnce)

\* No answer is added.
NoNewAnswer == \A c \in Call : \A x \in Credential : Answer(c, x)' => Answer(c, x)

\* Credentials stand where neither the store nor the answers gain one.
LEMMA CredentialsStay ==
    ASSUME CredentialsStand, UNCHANGED standing, NoNewAnswer,
           stored'.refresh = stored.refresh \/ stored'.refresh = None
    PROVE  CredentialsStand'
  BY ClientConstants DEF CredentialsStand, NoNewAnswer

\* Only the server adds an answer.
LEMMA QuietSteps ==
    ASSUME CallsInv, NEW c \in Call
    PROVE  /\ \A at \in Working \ {"answered"} : \A t, w : Moved(c, at, t, w) => NoNewAnswer
           /\ \A r \in {"login", "signed_in"} : calls' = Client!Finished(c, r) => NoNewAnswer
           /\ calls' = [calls EXCEPT ![c] = Client!Idle] => NoNewAnswer
           /\ Begun(c) => NoNewAnswer
           /\ (\A d \in Call : calls'[d] = Client!Idle) => NoNewAnswer
<1>1. ASSUME NEW at \in Working \ {"answered"}, NEW t, NEW w, Moved(c, at, t, w)  PROVE NoNewAnswer
  <2> SUFFICES ASSUME NEW d \in Call, NEW x \in Credential, Answer(d, x)'  PROVE Answer(d, x)
    BY DEF NoNewAnswer
  <2> QED
    BY <1>1 DEF Moved, Answer
<1>2. ASSUME NEW r \in {"login", "signed_in"}, calls' = Client!Finished(c, r)  PROVE NoNewAnswer
  <2> SUFFICES ASSUME NEW d \in Call, NEW x \in Credential, Answer(d, x)'  PROVE Answer(d, x)
    BY DEF NoNewAnswer
  <2> QED
    BY <1>2, FinishedCalls DEF OthersStay, Answer
<1>3. ASSUME calls' = [calls EXCEPT ![c] = Client!Idle]  PROVE NoNewAnswer
  BY <1>3, IdleCall DEF NoNewAnswer, Answer, CallsInv, ClientTyped
<1>4. ASSUME Begun(c)  PROVE NoNewAnswer
  <2> SUFFICES ASSUME NEW d \in Call, NEW x \in Credential, Answer(d, x)'  PROVE Answer(d, x)
    BY DEF NoNewAnswer
  <2> QED
    BY <1>4 DEF Begun, Answer
<1>5. ASSUME \A d \in Call : calls'[d] = Client!Idle  PROVE NoNewAnswer
  BY <1>5, IdleCall DEF NoNewAnswer, Answer
<1> QED
  BY <1>1, <1>2, <1>3, <1>4, <1>5

\* A submission stays with its leader while that goes on to spend it.
LEMMA LeaderStays ==
    ASSUME CallsInv, NEW c \in Call, OthersStay(c, calls'), flight' = flight,
           Leading, flight = c => calls'[c].at \in Spending
    PROVE  Leading'
<1>1. flight \in Call /\ CallStands(flight)
  BY DEF Leading, CallsInv
<1>2. flight # c => calls'[flight] = calls[flight]
  BY <1>1 DEF OthersStay, CallStands
<1> QED
  BY <1>1, <1>2 DEF Leading

LEMMA MovedOthers ==
    ASSUME NEW c \in Call, NEW at, NEW t, NEW w, Moved(c, at, t, w)
    PROVE  OthersStay(c, calls') /\ calls'[c].at = at
  BY DEF Moved, OthersStay

\* What leaves the store and the history of submissions alone keeps a submission with its leader.
LEMMA SubmittedStays ==
    ASSUME CallsInv, NEW c \in Call, SubmittedOnce, OthersStay(c, calls'), flight' = flight,
           stored'.refresh = stored.refresh, past'.sent = past.sent,
           past'.twice = past.twice, stored.refresh \in past.stuck => stored.refresh \in past'.stuck,
           flight = c /\ calls[c].at \in Spending => calls'[c].at \in Spending
    PROVE  SubmittedOnce'
<1>1. stored'.refresh \in past'.sent \ past'.stuck => Leading
  BY DEF SubmittedOnce
<1>2. Leading => Leading'
  BY LeaderStays DEF Leading
<1> QED
  BY <1>1, <1>2 DEF SubmittedOnce

\* An answer brings a credential that nobody had.
LEMMA ServeKeepsCredentials ==
    ASSUME CallsInv, CredentialsStand, NEW c \in Call, Client!Serve(c)  PROVE CredentialsStand'
<1>1. stored' = stored
  BY ServeStep
<1>2. ASSUME NEW x \in Credential, Moved(c, "answered", calls[c].token, x), Ledgered({x})
      PROVE  CredentialsStand'
  <2>1. standing[x] = "absent" /\ x # stored.refresh /\ \A d \in Call : ~Answer(d, x)
    BY <1>2 DEF Ledgered, CredentialsStand
  <2>2. ASSUME NEW d \in Call, NEW y \in Credential, Answer(d, y)'
        PROVE  (d = c /\ y = x) \/ (d # c /\ Answer(d, y))
    BY <1>2, <2>2 DEF Moved, Answer
  <2>3. \A y \in Credential : standing'[y] = "absent" => standing[y] = "absent" /\ y # x
    BY <1>2 DEF Ledgered
  <2> QED
    BY <1>1, <2>1, <2>2, <2>3 DEF CredentialsStand
<1>3. ASSUME NEW at \in {"answered", "refused"}, Moved(c, at, calls[c].token, None), Ledgered({})
      PROVE  CredentialsStand'
  <2>1. NoNewAnswer
    <3> SUFFICES ASSUME NEW d \in Call, NEW x \in Credential, Answer(d, x)'  PROVE Answer(d, x)
      BY DEF NoNewAnswer
    <3> QED
      BY <1>3, ClientConstants DEF Moved, Answer
  <2>2. \A y \in Credential : standing'[y] = "absent" => standing[y] = "absent"
    BY <1>3 DEF Ledgered
  <2> QED
    BY <1>1, <2>1, <2>2 DEF CredentialsStand, NoNewAnswer
<1> QED
  BY <1>2, <1>3, ServeStep

\* Saving moves the credential from the answer to the store.
LEMMA SaveKeepsCredentials ==
    ASSUME CallsInv, CredentialsStand, NEW c \in Call, Client!SaveRefresh(c)  PROVE CredentialsStand'
<1> DEFINE x == calls[c].won
<1>1. /\ standing' = standing /\ Answer(c, x) /\ x \in Credential /\ stored \in StoreType
      /\ stored' = [stored EXCEPT !.refresh = x] /\ Moved(c, "half_saved", calls[c].token, x)
  BY SaveRefreshStep DEF Answer, Touched, CallsInv, ClientTyped, StoreType
<1>2. stored'.refresh = x
  BY <1>1 DEF StoreType
<1>3. ASSUME NEW d \in Call, NEW y \in Credential, Answer(d, y)'  PROVE d # c /\ Answer(d, y)
  BY <1>1, <1>3 DEF Moved, Answer
<1> HIDE DEF x
<1> QED
  BY <1>1, <1>2, <1>3 DEF CredentialsStand

LEMMA CredentialsKept == CallsInv /\ CredentialsStand /\ [Client!NextClient]_client => CredentialsStand'
<1> SUFFICES ASSUME CallsInv, CredentialsStand, [Client!NextClient]_client  PROVE CredentialsStand'
  OBVIOUS
<1> DEFINE P == CredentialsStand'
<1>1. CASE UNCHANGED client
  BY <1>1 DEF client, CredentialsStand, Answer
<1>2. CASE Client!NextClient
  <2>0. stored \in StoreType
    BY DEF CallsInv, ClientTyped, StoreType
  <2>1. ASSUME NEW c \in Call, Client!Read(c) \/ Client!GiveUp(c) \/ Client!Refused(c) \/ Client!Revoked(c)
                                   \/ Client!WriteFails(c)
        PROVE P
    <3>1. standing' = standing /\ stored' = stored
      BY <2>1, ReadStep, GiveUpStep, RefusedStep, RevokedStep, WriteFailsStep
    <3>2. \/ \E at \in Working \ {"answered"} : \E t, w : Moved(c, at, t, w)
          \/ \E r \in {"login", "signed_in"} : calls' = Client!Finished(c, r)
      BY <2>1, ReadStep, GiveUpStep, RefusedStep, RevokedStep, WriteFailsStep DEF Working
    <3>3. NoNewAnswer
      BY <3>2, QuietSteps
    <3> QED
      BY <3>1, <3>3, CredentialsStay
  <2>2. \A c \in Call : Client!Serve(c) \/ Client!SaveRefresh(c) => P
    BY ServeKeepsCredentials, SaveKeepsCredentials
  <2>3. ASSUME NEW c \in Call, Client!SaveAccess(c) \/ Client!ClearRefresh(c)  PROVE P
    <3>1. /\ standing' = standing /\ \E r \in {"login", "signed_in"} : calls' = Client!Finished(c, r)
      BY <2>3, SaveAccessStep, ClearRefreshStep
    <3>2. stored'.refresh = stored.refresh \/ stored'.refresh = None
      <4>1. \/ stored' = [stored EXCEPT !.access = calls[c].won]
            \/ stored' = [stored EXCEPT !.refresh = None] \/ stored' = stored
        BY <2>3, SaveAccessStep, ClearRefreshStep DEF Touched
      <4> QED
        BY <2>0, <4>1 DEF StoreType
    <3> QED
      BY <3>1, <3>2, QuietSteps, CredentialsStay
  <2>4. ASSUME NEW c \in Call, Client!ClearAccess(c)  PROVE P
    <3>1. standing' = standing /\ \E at \in Working \ {"answered"} : \E t, w : Moved(c, at, t, w)
      BY <2>4, ClearAccessStep DEF Working
    <3>2. stored'.refresh = stored.refresh
      BY <2>0, <2>4, ClearAccessStep DEF Touched, StoreType
    <3> QED
      BY <3>1, <3>2, QuietSteps, CredentialsStay
  <2>5. ASSUME NEW c \in Call, Client!Return(c)  PROVE P
    BY <2>5, ReturnStep, QuietSteps, CredentialsStay
  <2>6. ASSUME NEW ended, Client!Die(ended)  PROVE P
    <3>1. standing' = standing /\ stored' = stored /\ \A d \in Call : calls'[d] = Client!Idle
      BY <2>6, DieStep
    <3>2. NoNewAnswer
      BY <3>1, IdleCall DEF NoNewAnswer, Answer
    <3> QED
      BY <3>1, <3>2, CredentialsStay
  <2>7. ASSUME NEW c \in Call, Client!Raise(c)  PROVE P
    <3>1. CASE /\ standing' = standing /\ stored' = stored
               /\ calls' = Client!Finished(c, "login")
      BY <3>1, QuietSteps, CredentialsStay
    <3> QED
      BY <2>6, <2>7, <3>1, RaiseStep
  <2>8. ASSUME NEW c \in Call, NEW w \in Root,
               Client!Restore(c, w) \/ Client!Login(c, w) \/ Client!Logout(c, w)
        PROVE P
    <3>1. Begun(c)
      BY <2>8, BeginStep
    <3>2. standing' = standing /\ stored' = stored
      BY <3>1 DEF Begun
    <3> QED
      BY <3>1, <3>2, QuietSteps, CredentialsStay
  <2>9. ASSUME NEW x \in late, Client!ServeLate(x)  PROVE P
    <3>1. stored' = stored /\ calls' = calls /\ \A y \in Credential : standing'[y] = "absent" => standing[y] = "absent"
      BY <2>9, ServeLateStep DEF Ledgered
    <3> QED
      BY <3>1 DEF CredentialsStand, Answer
  <2> HIDE DEF P
  <2>10. P
    BY <1>2, <2>1, <2>2, <2>3, <2>4, <2>5, <2>6, <2>7, <2>8, <2>9, ClientSteps
  <2> QED
    BY <2>10 DEF P
<1> QED
  BY <1>1, <1>2

\* Reading: the call that leads the refresh submits the credential, and nobody did before.
LEMMA ReadSubmitsOnce ==
    ASSUME CallsInv, SubmittedOnce, NEW c \in Call, Client!Read(c)  PROVE SubmittedOnce'
<1>1. /\ CallStands(c) /\ past \in PastType /\ calls[c].at = "reading" /\ stored' = stored /\ flight' = flight
  BY ReadStep DEF CallsInv, ClientTyped
<1>2. CASE /\ Moved(c, "sent", stored.refresh, calls[c].won) /\ stored.refresh # None
           /\ past'.excused = past.excused /\ past'.stuck = past.stuck
           /\ calls[c].op = "logout" => past' = past
           /\ calls[c].op # "logout" =>
                 /\ past'.sent = {stored.refresh}
                 /\ past'.twice = (past.twice \/ stored.refresh \in past.sent \ past.stuck)
  <2>1. OthersStay(c, calls') /\ calls'[c].at = "sent"
    BY <1>2, MovedOthers
  <2>2. CASE calls[c].op = "logout"
    BY <1>1, <1>2, <2>1, <2>2, SubmittedStays DEF Spending
  <2>3. CASE calls[c].op # "logout"
    <3>1. flight = c /\ ~Leading
      BY <1>1, <2>3 DEF CallStands, Leading, Spending
    <3>2. past'.twice = FALSE
      BY <1>2, <2>3, <3>1 DEF SubmittedOnce
    <3>3. Leading'
      BY <1>1, <2>1, <3>1 DEF Leading, Spending
    <3> QED
      BY <1>1, <1>2, <2>3, <3>2, <3>3 DEF SubmittedOnce
  <2> QED
    BY <2>2, <2>3
<1>3. CASE /\ \/ calls[c].op = "logout" /\ Moved(c, "clearing", None, None)
              \/ calls[c].op # "logout" /\ calls' = Client!Finished(c, "login")
           /\ past' = [past EXCEPT !.excused = @ \cup ({stored.refresh} \ {None})]
  <2>1. past'.sent = past.sent /\ past'.twice = past.twice /\ past'.stuck = past.stuck
    BY <1>1, <1>3 DEF PastType
  <2>2. OthersStay(c, calls')
    BY <1>3, MovedOthers, FinishedCalls
  <2> QED
    BY <1>1, <2>1, <2>2, SubmittedStays DEF Spending
<1> QED
  BY <1>2, <1>3, ReadStep

\* Saving replaces what was submitted; clearing removes it, or the history says that it stayed.
LEMMA StoreSubmitsOnce ==
    ASSUME CallsInv, CredentialsStand, SubmittedOnce, NEW c \in Call,
           Client!SaveRefresh(c) \/ Client!SaveAccess(c) \/ Client!ClearAccess(c) \/ Client!ClearRefresh(c)
    PROVE  SubmittedOnce'
<1>1. stored \in StoreType /\ past \in PastType /\ past.sent \subseteq {stored.refresh}
  BY DEF CallsInv, ClientTyped, StoreType, SubmittedOnce
<1>2. CASE Client!SaveRefresh(c)
  <2> DEFINE s == [stored EXCEPT !.refresh = calls[c].won]
  <2>3. s.refresh = calls[c].won /\ Touched(c, s, past)
    BY <1>1, <1>2, SaveRefreshStep DEF StoreType
  <2> HIDE DEF s
  <2>1. /\ past'.sent = past.sent \cap {calls[c].won} /\ past'.twice = past.twice
        /\ stored'.refresh = calls[c].won
    BY <2>3 DEF Touched
  <2>2. calls[c].won # stored.refresh
    BY <1>2, SaveRefreshStep DEF CredentialsStand, Answer
  <2> QED
    BY <1>1, <2>1, <2>2 DEF SubmittedOnce
<1>3. CASE Client!SaveAccess(c)
  <2> DEFINE s == [stored EXCEPT !.access = calls[c].won]
  <2>2. s.refresh = stored.refresh /\ s.access = calls[c].won /\ Touched(c, s, past)
    BY <1>1, <1>3, SaveAccessStep DEF StoreType
  <2> HIDE DEF s
  <2>1. /\ past'.sent = past.sent \cap {stored.refresh} /\ past'.twice = past.twice
        /\ past'.stuck = past.stuck \cap {stored.refresh, calls[c].won}
        /\ stored'.refresh = stored.refresh /\ flight' = flight
        /\ calls[c].at = "half_saved" /\ calls' = Client!Finished(c, "signed_in")
    BY <1>3, <2>2, SaveAccessStep DEF Touched
  <2> QED
    BY <1>1, <2>1, FinishedCalls, SubmittedStays DEF Spending
<1>4. CASE Client!ClearAccess(c)
  <2> DEFINE p == [past EXCEPT !.stuck = @ \cup ({stored.access} \ {None})]
  <2>1. p.sent = past.sent /\ p.twice = past.twice /\ past.stuck \subseteq p.stuck
    BY <1>1 DEF PastType
  <2>2. /\ flight' = flight /\ calls[c].at = "clearing" /\ \E t, w : Moved(c, "half_cleared", t, w)
        /\ Touched(c, [stored EXCEPT !.access = None], past) \/ Touched(c, stored, p)
    BY <1>4, ClearAccessStep
  <2> HIDE DEF p
  <2>3. /\ past'.sent = past.sent \cap {stored.refresh} /\ past'.twice = past.twice
        /\ stored'.refresh = stored.refresh
        /\ stored.refresh \in past.stuck => stored.refresh \in past'.stuck
    BY <1>1, <2>1, <2>2 DEF Touched, StoreType
  <2>4. OthersStay(c, calls') /\ calls'[c].at = "half_cleared"
    BY <2>2, MovedOthers
  <2> QED
    BY <1>1, <2>2, <2>3, <2>4, SubmittedStays DEF Spending
<1>5. CASE Client!ClearRefresh(c)
  <2> DEFINE p == [past EXCEPT !.stuck = @ \cup ({stored.refresh} \ {None})]
  <2>1. p.sent = past.sent /\ p.twice = past.twice /\ (stored.refresh # None => stored.refresh \in p.stuck)
    BY <1>1 DEF PastType
  <2>2. Touched(c, [stored EXCEPT !.refresh = None], past) \/ Touched(c, stored, p)
    BY <1>5, ClearRefreshStep
  <2>3. None \notin past.sent
    BY <1>1, ClientConstants DEF PastType
  <2> HIDE DEF p
  <2>4. CASE Touched(c, [stored EXCEPT !.refresh = None], past)
    <3>1. past'.sent = past.sent \cap {None} /\ past'.twice = past.twice /\ stored'.refresh = None
      BY <1>1, <2>4 DEF Touched, StoreType
    <3> QED
      BY <2>3, <3>1 DEF SubmittedOnce
  <2>5. CASE Touched(c, stored, p)
    <3>1. /\ past'.sent = past.sent \cap {stored.refresh} /\ past'.twice = past.twice /\ stored' = stored
          /\ past'.stuck = p.stuck \cap {stored.refresh, stored.access}
      BY <2>1, <2>5 DEF Touched
    <3> QED
      BY <2>1, <2>3, <3>1 DEF SubmittedOnce
  <2> QED
    BY <2>2, <2>4, <2>5
<1> QED
  BY <1>2, <1>3, <1>4, <1>5

\* Where every failed refresh clears the store, no step submits a credential twice.
LEMMA SubmittedKept ==
    ~Raises /\ CallsInv /\ CredentialsStand /\ SubmittedOnce /\ [Client!NextClient]_client => SubmittedOnce'
<1> SUFFICES ASSUME ~Raises, CallsInv, CredentialsStand, SubmittedOnce, [Client!NextClient]_client
             PROVE  SubmittedOnce'
  OBVIOUS
<1> DEFINE P == SubmittedOnce'
<1>0. past \in PastType
  BY DEF CallsInv, ClientTyped
<1>1. CASE UNCHANGED client
  BY <1>1 DEF client, SubmittedOnce, Leading
<1>2. CASE Client!NextClient
  <2>1. ASSUME NEW c \in Call, Client!Serve(c)  PROVE P
    <3>1. /\ stored' = stored /\ flight' = flight /\ calls[c].at = "sent"
          /\ \E at \in {"answered", "refused"} : \E t, w : Moved(c, at, t, w)
      BY <2>1, ServeStep
    <3>2. past'.sent = past.sent /\ past'.twice = past.twice /\ past'.stuck = past.stuck
      BY <1>0, <2>1, ServeStep DEF PastType
    <3> QED
      BY <3>1, <3>2, MovedOthers, SubmittedStays DEF Spending
  <2>2. ASSUME NEW c \in Call, Client!GiveUp(c)  PROVE P
    <3>1. /\ stored' = stored /\ flight' = flight
          /\ \/ calls[c].op = "login" /\ calls' = Client!Finished(c, "login")
             \/ calls[c].op # "login" /\ Moved(c, "clearing", None, None)
      BY <2>2, GiveUpStep
    <3>2. past'.sent = past.sent /\ past'.twice = past.twice /\ past'.stuck = past.stuck
      BY <1>0, <2>2, GiveUpStep DEF PastType
    <3>3. CallStands(c)
      BY DEF CallsInv
    <3>4. OthersStay(c, calls') /\ (flight = c => calls'[c].at = "clearing")
      BY <3>1, <3>3, FinishedCalls, MovedOthers DEF CallStands
    <3> QED
      BY <3>1, <3>2, <3>4, SubmittedStays DEF Spending
  <2>3. ASSUME NEW c \in Call, Client!Refused(c) \/ Client!Revoked(c)  PROVE P
    <3>1. /\ stored' = stored /\ flight' = flight /\ past' = past
          /\ \/ calls[c].op # "refresh" /\ calls' = Client!Finished(c, "login")
             \/ Moved(c, "clearing", None, None)
      BY <2>3, RefusedStep, RevokedStep
    <3>2. CallStands(c)
      BY DEF CallsInv
    <3>3. OthersStay(c, calls') /\ (flight = c => calls'[c].at = "clearing")
      BY <3>1, <3>2, FinishedCalls, MovedOthers DEF CallStands
    <3> QED
      BY <3>1, <3>3, SubmittedStays DEF Spending
  <2>4. ASSUME NEW c \in Call, Client!WriteFails(c)  PROVE P
    <3>1. stored' = stored /\ flight' = flight /\ Moved(c, "clearing", None, None)
      BY <2>4, WriteFailsStep
    <3>2. past'.sent = past.sent /\ past'.twice = past.twice /\ past'.stuck = past.stuck
      BY <1>0, <2>4, WriteFailsStep DEF PastType
    <3> QED
      BY <3>1, <3>2, MovedOthers, SubmittedStays DEF Spending
  <2>5. \A c \in Call : Client!Read(c) => P
    BY ReadSubmitsOnce
  <2>6. \A c \in Call : Client!SaveRefresh(c) \/ Client!SaveAccess(c) \/ Client!ClearAccess(c) \/ Client!ClearRefresh(c) => P
    BY StoreSubmitsOnce
  <2>7. ASSUME NEW c \in Call, Client!Return(c)  PROVE P
    <3>1. /\ stored' = stored /\ past' = past /\ calls[c].at \in {"returning", "releasing"}
          /\ calls' = [calls EXCEPT ![c] = Client!Idle]
          /\ flight' = IF calls[c].at = "releasing" THEN NoCall ELSE flight
          /\ CallStands(c) /\ calls \in [Call -> CallType]
      BY <2>7, ReturnStep DEF CallsInv, ClientTyped
    <3>2. CASE Leading
      <4>1. flight # c
        BY <3>1, <3>2 DEF Leading, Spending
      <4>2. calls[c].at # "releasing"
        <5> SUFFICES ASSUME calls[c].at = "releasing"  PROVE FALSE
          OBVIOUS
        <5>1. flight = c
          BY <3>1 DEF CallStands
        <5> QED
          BY <4>1, <5>1
      <4>3. Leading'
        BY <3>1, <3>2, <4>1, <4>2 DEF Leading
      <4> QED
        BY <3>1, <4>3 DEF SubmittedOnce
    <3>3. CASE ~Leading
      BY <3>1, <3>3 DEF SubmittedOnce
    <3> QED
      BY <3>2, <3>3
  <2>8. \A c \in Call : Client!Raise(c) => P
    BY RaiseStep
  <2>9. ASSUME NEW c \in Call, NEW w \in Root,
               Client!Restore(c, w) \/ Client!Login(c, w) \/ Client!Logout(c, w)
        PROVE P
    <3>1. Begun(c)
      BY <2>9, BeginStep
    <3>2. stored' = stored /\ past' = past /\ (flight' = flight \/ flight = NoCall)
      BY <3>1 DEF Begun
    <3>3. Leading => Leading'
      BY <3>1, ClientConstants DEF Begun, Leading, Spending
    <3> QED
      BY <3>2, <3>3 DEF SubmittedOnce
  <2>10. ASSUME NEW x \in late, Client!ServeLate(x)  PROVE P
    <3>1. stored' = stored /\ calls' = calls /\ flight' = flight
      BY <2>10, ServeLateStep
    <3>2. past'.sent = past.sent /\ past'.twice = past.twice /\ past'.stuck = past.stuck
      BY <1>0, <2>10, ServeLateStep DEF PastType
    <3> QED
      BY <3>1, <3>2 DEF SubmittedOnce, Leading
  <2>11. ASSUME NEW ended, Client!Die(ended)  PROVE P
    <3>1. past'.sent = {} /\ past'.twice = past.twice
      BY <2>11, DieStep
    <3> QED
      BY <3>1 DEF SubmittedOnce
  <2> HIDE DEF P
  <2>12. P
    BY <1>2, <2>1, <2>2, <2>3, <2>4, <2>5, <2>6, <2>7, <2>8, <2>9, <2>10, <2>11, ClientSteps
  <2> QED
    BY <2>12 DEF P
<1> QED
  BY <1>1, <1>2

LEMMA RefreshInvInit == Client!InitClient => RefreshInv
<1> SUFFICES ASSUME Client!InitClient  PROVE RefreshInv
  OBVIOUS
<1>1. stored = [refresh |-> None, access |-> None] /\ past = Client!Past
  BY DEF Client!InitClient
<1>2. stored.refresh = None /\ past.sent = {} /\ ~past.twice
  BY <1>1 DEF Client!Past
<1>3. \A c \in Call : calls[c].at = "idle"
  BY IdleCall DEF Client!InitClient
<1> QED
  BY <1>2, <1>3, ClientConstants DEF RefreshInv, CredentialsStand, Answer, SubmittedOnce

LEMMA RefreshInvKept == CallsInv /\ RefreshInv /\ [Client!NextClient]_client => RefreshInv'
  BY CredentialsKept, SubmittedKept DEF RefreshInv

\* The server and the limiter leave the clients alone.
LEMMA ClientMovesAlone == IdentitySpec => Client!InitClient /\ [][Client!NextClient]_client
<1>1. IdentityInit => Client!InitClient
  BY DEF IdentityInit
<1>2. [IdentityNext]_<<vars, limiter, client, component>> => [Client!NextClient]_client
  BY DEF IdentityNext
<1> QED
  BY <1>1, <1>2, PTL DEF IdentitySpec

\* docs/session-contract.md:15: a process of a client runs one refresh at a time, and one that
\* treats every failure of a refresh as terminal never submits a credential twice, for any
\* number of overlapping calls, views and credentials and any faults.
THEOREM RefreshesStaySerialized == IdentitySpec => []RefreshesAreSerialized
<1>1. CallsInv /\ RefreshInv => RefreshesAreSerialized
  <2> SUFFICES ASSUME CallsInv, RefreshInv  PROVE RefreshesAreSerialized
    OBVIOUS
  <2>1. \A c \in Call : CallStands(c)
    BY DEF CallsInv
  <2>2. Client!TypeOKClient
    BY <2>1 DEF CallsInv, ClientTyped, CallType, PastType, CallStands, Client!TypeOKClient
  <2>3. \A c, d \in Call : Client!Refreshing(c) /\ Client!Refreshing(d) => c = d
    BY <2>1 DEF Client!Refreshing, CallStands
  <2>4. Raises \/ ~past.twice
    BY DEF RefreshInv, SubmittedOnce
  <2> QED
    BY <2>2, <2>3, <2>4 DEF RefreshesAreSerialized, Client!RefreshesAreSerialized
<1> QED
  BY <1>1, CallsInvInit, CallsInvKept, RefreshInvInit, RefreshInvKept, ClientMovesAlone, PTL

-------------------------------------------------------------------------------
(* The native clients: the store holds one pair *)

\* Unless two calls met half-way, a call half-way through a save or a clear knows what is stored.
PairInv ==
    ~past.mixed =>
        /\ \A c \in Call : calls[c].at = "half_saved" => stored.refresh = calls[c].won
        /\ \A c \in Call : calls[c].at = "half_cleared" => stored.access \in {None} \cup past.stuck
        /\ (\A c \in Call : ~Client!Halfway(c)) => Client!Coherent(stored) \/ stored.access \in past.stuck

\* Away from the store, no call reaches the middle of a save or of a clear, or leaves it.
LEMMA PairsStay ==
    ASSUME CallsInv, PairInv, UNCHANGED stored, past'.mixed = past.mixed, past'.stuck = past.stuck,
           \A d \in Call : /\ calls'[d].at = "half_saved" => calls[d].at = "half_saved" /\ calls'[d].won = calls[d].won
                           /\ calls'[d].at = "half_cleared" => calls[d].at = "half_cleared"
                           /\ Client!Halfway(d) => Client!Halfway(d)'
    PROVE  PairInv'
  BY DEF PairInv, Client!Coherent

\* A call that is not on the store goes on, or ends.
LEMMA QuietPairs ==
    ASSUME CallsInv, NEW c \in Call, OthersStay(c, calls'),
           calls'[c].at \notin {"half_saved", "half_cleared"},
           Client!Halfway(c) => calls'[c].at = "clearing"
    PROVE  \A d \in Call :
               /\ calls'[d].at = "half_saved" => calls[d].at = "half_saved" /\ calls'[d].won = calls[d].won
               /\ calls'[d].at = "half_cleared" => calls[d].at = "half_cleared"
               /\ Client!Halfway(d) => Client!Halfway(d)'
  BY DEF OthersStay, Client!Halfway

\* A step on the store while no other call is half-way.
LEMMA AloneOnStore ==
    ASSUME CallsInv, NEW c \in Call, OthersStay(c, calls'), NEW s, NEW p, Touched(c, s, p), ~past'.mixed
    PROVE  /\ \A d \in Call \ {c} : ~Client!Halfway(d) /\ ~Client!Halfway(d)'
           /\ ~p.mixed \/ Client!Coherent(s)
<1>1. \A d \in Call \ {c} : ~Client!Halfway(d)
  BY DEF Touched
<1>2. \A d \in Call \ {c} : ~Client!Halfway(d)'
  BY <1>1 DEF OthersStay, Client!Halfway
<1> QED
  BY <1>1, <1>2 DEF Touched

\* save and clear leave the pair coherent, or say which token a failed removal left.
LEMMA StoreKeepsPairs ==
    ASSUME CallsInv, PairInv, NEW c \in Call,
           Client!SaveRefresh(c) \/ Client!SaveAccess(c) \/ Client!ClearAccess(c) \/ Client!ClearRefresh(c)
    PROVE  PairInv'
<1> SUFFICES ASSUME ~past'.mixed  PROVE PairInv'
  BY DEF PairInv
<1>1. stored \in StoreType /\ past \in PastType
  BY DEF CallsInv, ClientTyped, StoreType
<1>2. CASE Client!SaveRefresh(c)
  <2> DEFINE s == [stored EXCEPT !.refresh = calls[c].won]
  <2>1. s.refresh = calls[c].won /\ Touched(c, s, past)
    BY <1>1, <1>2, SaveRefreshStep DEF StoreType
  <2> HIDE DEF s
  <2>2. OthersStay(c, calls') /\ calls'[c].at = "half_saved" /\ calls'[c].won = calls[c].won
    BY <1>2, SaveRefreshStep, MovedOthers DEF Moved
  <2>3. \A d \in Call \ {c} : ~Client!Halfway(d)'
    BY <2>1, <2>2, AloneOnStore
  <2>4. stored'.refresh = calls[c].won
    BY <2>1 DEF Touched
  <2> QED
    BY <2>2, <2>3, <2>4 DEF PairInv, Client!Halfway
<1>3. CASE Client!SaveAccess(c)
  <2> DEFINE s == [stored EXCEPT !.access = calls[c].won]
  <2>1. /\ s.refresh = stored.refresh /\ s.access = calls[c].won /\ Touched(c, s, past)
        /\ calls[c].at = "half_saved" /\ calls' = Client!Finished(c, "signed_in")
    BY <1>1, <1>3, SaveAccessStep DEF StoreType
  <2> HIDE DEF s
  <2>2. OthersStay(c, calls') /\ calls'[c].at \in {"returning", "releasing"}
    BY <2>1, FinishedCalls
  <2>3. (\A d \in Call \ {c} : ~Client!Halfway(d)') /\ (~past.mixed \/ Client!Coherent(s))
    BY <2>1, <2>2, AloneOnStore
  <2>4. Client!Coherent(s)
    BY <2>1, <2>3 DEF PairInv, Client!Coherent
  <2>5. stored' = s
    BY <2>1 DEF Touched
  <2> QED
    BY <2>2, <2>3, <2>4, <2>5 DEF PairInv, Client!Halfway, Client!Coherent
<1>4. CASE Client!ClearAccess(c)
  <2> DEFINE s == [stored EXCEPT !.access = None]
             p == [past EXCEPT !.stuck = @ \cup ({stored.access} \ {None})]
  <2>1. s.access = None /\ (stored.access # None => stored.access \in p.stuck)
    BY <1>1 DEF StoreType, PastType
  <2>2. Touched(c, s, past) \/ Touched(c, stored, p)
    BY <1>4, ClearAccessStep
  <2>3. OthersStay(c, calls') /\ calls'[c].at = "half_cleared"
    BY <1>4, ClearAccessStep, MovedOthers
  <2> HIDE DEF s, p
  <2>4. \A d \in Call \ {c} : ~Client!Halfway(d)'
    BY <2>2, <2>3, AloneOnStore
  <2>5. stored'.access \in {None} \cup past'.stuck
    BY <2>1, <2>2 DEF Touched
  <2> QED
    BY <2>3, <2>4, <2>5 DEF PairInv, Client!Halfway
<1>5. CASE Client!ClearRefresh(c)
  <2> DEFINE s == [stored EXCEPT !.refresh = None]
             p == [past EXCEPT !.stuck = @ \cup ({stored.refresh} \ {None})]
  <2>1. /\ s.access = stored.access /\ s.refresh = None /\ past.stuck \subseteq p.stuck
        /\ p.mixed = past.mixed
    BY <1>1 DEF StoreType, PastType
  <2>2. /\ Touched(c, s, past) \/ Touched(c, stored, p)
        /\ calls[c].at = "half_cleared" /\ calls' = Client!Finished(c, "login")
    BY <1>5, ClearRefreshStep
  <2>3. OthersStay(c, calls') /\ calls'[c].at \in {"returning", "releasing"}
    BY <2>2, FinishedCalls
  <2> HIDE DEF s, p
  <2>4. \A d \in Call \ {c} : ~Client!Halfway(d)'
    BY <2>2, <2>3, AloneOnStore
  <2>5. ~past.mixed \/ Client!Coherent(stored')
    BY <2>1, <2>2, <2>3, AloneOnStore DEF Touched
  <2>6. ~past.mixed => stored'.access \in {None} \cup past'.stuck
    <3> SUFFICES ASSUME ~past.mixed  PROVE stored'.access \in {None} \cup past'.stuck
      OBVIOUS
    <3>1. stored.access \in {None} \cup past.stuck
      BY <2>2 DEF PairInv
    <3> QED
      BY <2>1, <2>2, <3>1 DEF Touched
  <2> QED
    BY <2>3, <2>4, <2>5, <2>6 DEF PairInv, Client!Halfway, Client!Coherent
<1> QED
  BY <1>2, <1>3, <1>4, <1>5

\* Calls that do not touch the store leave the pair as it was.
LEMMA QuietKeepsPairs ==
    ASSUME CallsInv, PairInv, NEW c \in Call,
           Client!Read(c) \/ Client!Serve(c) \/ Client!GiveUp(c) \/ Client!Refused(c) \/ Client!Revoked(c)
               \/ Client!WriteFails(c)
    PROVE  PairInv'
<1>1. stored' = stored
  BY ReadStep, ServeStep, GiveUpStep, RefusedStep, RevokedStep, WriteFailsStep
<1>2. past'.mixed = past.mixed /\ past'.stuck = past.stuck
  <2>1. past \in PastType
    BY DEF CallsInv, ClientTyped
  <2>2. CASE \/ Client!Refused(c) \/ Client!Revoked(c)
    BY <2>2, RefusedStep, RevokedStep
  <2>3. CASE Client!Read(c)
    BY <2>1, <2>3, ReadStep DEF PastType
  <2>4. CASE Client!Serve(c)
    BY <2>1, <2>4, ServeStep DEF PastType
  <2>5. CASE Client!GiveUp(c)
    BY <2>1, <2>5, GiveUpStep DEF PastType
  <2>6. CASE Client!WriteFails(c)
    BY <2>1, <2>6, WriteFailsStep DEF PastType
  <2> QED
    BY <2>2, <2>3, <2>4, <2>5, <2>6
<1>3. \/ \E t, w : Moved(c, "clearing", t, w)
      \/ /\ calls[c].at \notin {"half_saved", "clearing", "half_cleared"}
         /\ \/ \E at \in {"sent", "answered", "refused"} : \E t, w : Moved(c, at, t, w)
            \/ calls' = Client!Finished(c, "login")
  BY ReadStep, ServeStep, GiveUpStep, RefusedStep, RevokedStep, WriteFailsStep
<1>4. /\ OthersStay(c, calls') /\ calls'[c].at \notin {"half_saved", "half_cleared"}
      /\ Client!Halfway(c) => calls'[c].at = "clearing"
  <2>1. CASE \E t, w : Moved(c, "clearing", t, w)
    BY <2>1, MovedOthers
  <2>2. CASE /\ calls[c].at \notin {"half_saved", "clearing", "half_cleared"}
             /\ \E at \in {"sent", "answered", "refused"} : \E t, w : Moved(c, at, t, w)
    BY <2>2, MovedOthers DEF Client!Halfway
  <2>3. CASE /\ calls[c].at \notin {"half_saved", "clearing", "half_cleared"}
             /\ calls' = Client!Finished(c, "login")
    BY <2>3, FinishedCalls DEF Client!Halfway
  <2> QED
    BY <1>3, <2>1, <2>2, <2>3
<1> QED
  BY <1>1, <1>2, <1>4, QuietPairs, PairsStay

LEMMA PairInvKept == CallsInv /\ PairInv /\ [Client!NextClient]_client => PairInv'
<1> SUFFICES ASSUME CallsInv, PairInv, [Client!NextClient]_client  PROVE PairInv'
  OBVIOUS
<1> DEFINE P == PairInv'
<1>1. CASE UNCHANGED client
  BY <1>1 DEF client, PairInv, Client!Halfway, Client!Coherent
<1>2. CASE Client!NextClient
  <2>1. \A c \in Call : Client!Read(c) \/ Client!Serve(c) \/ Client!GiveUp(c) => P
    BY QuietKeepsPairs
  <2>2. \A c \in Call : Client!Refused(c) \/ Client!Revoked(c) \/ Client!WriteFails(c) => P
    BY QuietKeepsPairs
  <2>3. \A c \in Call : Client!SaveRefresh(c) \/ Client!SaveAccess(c) \/ Client!ClearAccess(c) \/ Client!ClearRefresh(c) => P
    BY StoreKeepsPairs
  <2>4. ASSUME NEW c \in Call, Client!Return(c)  PROVE P
    <3>1. /\ stored' = stored /\ past' = past /\ calls[c].at \in {"returning", "releasing"}
          /\ calls' = [calls EXCEPT ![c] = Client!Idle] /\ calls \in [Call -> CallType]
      BY <2>4, ReturnStep DEF CallsInv, ClientTyped
    <3>2. /\ OthersStay(c, calls') /\ calls'[c].at = "idle" /\ ~Client!Halfway(c)
      BY <3>1, IdleCall DEF OthersStay, Client!Halfway
    <3> QED
      BY <3>1, <3>2, QuietPairs, PairsStay
  <2>5. ASSUME NEW ended, Client!Die(ended)  PROVE P
    <3>1. /\ stored' = stored /\ past'.stuck = past.stuck /\ \A c \in Call : calls'[c].at = "idle"
          /\ past'.mixed <=> /\ ~Client!Coherent(stored)
                             /\ past.mixed \/ \E c \in Call : Client!Halfway(c)
      BY <2>5, DieStep, IdleCall
    <3> QED
      BY <3>1 DEF PairInv, Client!Coherent
  <2>6. ASSUME NEW c \in Call, Client!Raise(c)  PROVE P
    <3>1. CASE /\ stored' = stored /\ calls' = Client!Finished(c, "login")
               /\ past' = [past EXCEPT !.excused = @ \cup Client!AnswersOf({c})]
      <4>1. past'.mixed = past.mixed /\ past'.stuck = past.stuck
        BY <3>1 DEF CallsInv, ClientTyped, PastType
      <4>2. calls[c].at \in {"sent", "answered"}
        BY <2>6, RaiseStep
      <4>3. OthersStay(c, calls') /\ calls'[c].at \in {"returning", "releasing"} /\ ~Client!Halfway(c)
        BY <3>1, <4>2, FinishedCalls DEF Client!Halfway
      <4> QED
        BY <3>1, <4>1, <4>3, QuietPairs, PairsStay
    <3> QED
      BY <2>5, <2>6, <3>1, RaiseStep
  <2>7. ASSUME NEW c \in Call, NEW w \in Root,
               Client!Restore(c, w) \/ Client!Login(c, w) \/ Client!Logout(c, w)
        PROVE P
    <3>1. Begun(c)
      BY <2>7, BeginStep
    <3>2. /\ stored' = stored /\ past' = past /\ OthersStay(c, calls') /\ ~Client!Halfway(c)
          /\ calls'[c].at \notin {"half_saved", "half_cleared"}
      BY <3>1 DEF Begun, OthersStay, Client!Halfway
    <3> QED
      BY <3>2, QuietPairs, PairsStay
  <2>8. ASSUME NEW x \in late, Client!ServeLate(x)  PROVE P
    <3>1. stored' = stored /\ calls' = calls
      BY <2>8, ServeLateStep
    <3>2. past'.mixed = past.mixed /\ past'.stuck = past.stuck
      BY <2>8, ServeLateStep DEF CallsInv, ClientTyped, PastType
    <3> QED
      BY <3>1, <3>2 DEF PairInv, Client!Halfway, Client!Coherent
  <2> HIDE DEF P
  <2>9. P
    BY <1>2, <2>1, <2>2, <2>3, <2>4, <2>5, <2>6, <2>7, <2>8, ClientSteps
  <2> QED
    BY <2>9 DEF P
<1> QED
  BY <1>1, <1>2

\* SecureSessionStore.kt:11: the store of a client at rest holds one pair, unless a removal failed
\* or two calls met half-way, for any number of calls, views and faults and death at any write.
THEOREM PairsAlwaysMatch == IdentitySpec => []PairsMatch
<1>1. PairInv => PairsMatch
  BY DEF PairInv, PairsMatch, Client!PairsMatch, Client!Coherent
<1>2. Client!InitClient => PairInv
  <2> SUFFICES ASSUME Client!InitClient  PROVE PairInv
    OBVIOUS
  <2>1. stored = [refresh |-> None, access |-> None] /\ \A c \in Call : calls[c].at = "idle"
    BY IdleCall DEF Client!InitClient
  <2>2. Client!Coherent(stored)
    BY <2>1 DEF Client!Coherent
  <2> QED
    BY <2>1, <2>2 DEF PairInv
<1> QED
  BY <1>1, <1>2, CallsInvInit, CallsInvKept, PairInvKept, ClientMovesAlone, PTL

-------------------------------------------------------------------------------
(* The native clients: no open session is lost unexplained *)

\* What is live is stored, on its way there, or excused.
Held(x) == x = stored.refresh \/ x \in past.excused \/ \E c \in Call : Answer(c, x)

\* What a refresh or a logout that has read the store finds there: what it read, what it saved, what
\* was handed out or stored since it began, or what is excused.
KnowsStore(d) ==
    calls[d].at \in Working \ {"reading"} /\ calls[d].op \in {"refresh", "logout"} =>
        \A x \in Credential : x = stored.refresh /\ standing[x] = "live" =>
            \/ x \in past.excused \cup calls[d].unseen
            \/ calls[d].at = "sent" /\ calls[d].token = x
            \/ calls[d].at = "half_saved" /\ calls[d].won = x

\* What others bring to the store after a call began, it has not seen.
KnowsOthers(d) ==
    calls[d].at \in Working =>
        \A x \in Credential : standing[x] = "absent" \/ (\E c \in Call \ {d} : Answer(c, x)) => x \in calls[d].unseen

HeldInv ==
    /\ \A x \in Credential : standing[x] = "live" => Held(x)
    /\ \A d \in Call : KnowsStore(d) /\ KnowsOthers(d)

\* What a call has not seen stays so while it works.
LEMMA OthersStayUnseen ==
    ASSUME HeldInv, NEW c \in Call, OthersStay(c, calls'),
           \A x \in Credential : standing'[x] = "absent" => standing[x] = "absent",
           \A d \in Call : \A x \in Credential : Answer(d, x)' => Answer(d, x) \/ standing[x] = "absent",
           calls'[c].at \in Working => calls[c].at \in Working /\ calls'[c].unseen = calls[c].unseen
    PROVE  \A d \in Call : KnowsOthers(d)'
<1> SUFFICES ASSUME NEW d \in Call, calls'[d].at \in Working, NEW x \in Credential,
                    standing'[x] = "absent" \/ (\E e \in Call \ {d} : Answer(e, x)')
             PROVE  x \in calls'[d].unseen
  BY DEF KnowsOthers, Answer
<1>1. calls[d].at \in Working /\ calls'[d].unseen = calls[d].unseen
  BY DEF OthersStay, Working
<1>2. standing[x] = "absent" \/ (\E e \in Call \ {d} : Answer(e, x))
  OBVIOUS
<1>3. KnowsOthers(d)
  BY DEF HeldInv
<1> QED
  BY <1>1, <1>2, <1>3 DEF KnowsOthers

\* What the others know of the store stays true while c leaves it alone.
LEMMA OthersKnowStore ==
    ASSUME HeldInv, NEW c \in Call, OthersStay(c, calls'),
           \A x \in Credential : x = stored'.refresh /\ standing'[x] = "live" =>
               x = stored.refresh /\ standing[x] = "live" /\ (x \in past.excused => x \in past'.excused)
    PROVE  \A d \in Call \ {c} : KnowsStore(d)'
<1> SUFFICES ASSUME NEW d \in Call \ {c}, calls'[d].at \in Working \ {"reading"},
                    calls'[d].op \in {"refresh", "logout"},
                    NEW x \in Credential, x = stored'.refresh, standing'[x] = "live"
             PROVE  \/ x \in past'.excused \cup calls'[d].unseen
                    \/ calls'[d].at = "sent" /\ calls'[d].token = x
                    \/ calls'[d].at = "half_saved" /\ calls'[d].won = x
  BY DEF KnowsStore
<1>1. calls'[d] = calls[d]
  BY DEF OthersStay, Working
<1>2. KnowsStore(d)
  BY DEF HeldInv
<1> QED
  BY <1>1, <1>2 DEF KnowsStore

\* A step that keeps the refresh token and excuses the answer it drops.
LEMMA HeldStays ==
    ASSUME HeldInv, NEW c \in Call, OthersStay(c, calls'), NoNewAnswer,
           standing' = standing, stored'.refresh = stored.refresh, past.excused \subseteq past'.excused,
           \A x \in Credential : Answer(c, x) => x \in past'.excused,
           calls'[c].at \in Working => calls[c].at \in Working /\ calls'[c].unseen = calls[c].unseen,
           KnowsStore(c)'
    PROVE  HeldInv'
<1>1. \A d \in Call : KnowsOthers(d)'
  BY OthersStayUnseen DEF NoNewAnswer
<1>2. \A d \in Call : KnowsStore(d)'
  BY OthersKnowStore
<1>3. ASSUME NEW x \in Credential, standing'[x] = "live"  PROVE Held(x)'
  <2>1. CASE \E e \in Call : Answer(e, x)
    <3>1. PICK e \in Call : Answer(e, x)
      BY <2>1
    <3>2. e = c \/ calls'[e] = calls[e]
      BY <3>1 DEF OthersStay, Answer
    <3> QED
      BY <3>1, <3>2 DEF Held, Answer
  <2> QED
    BY <1>3, <2>1 DEF HeldInv, Held
<1> QED
  BY <1>1, <1>2, <1>3 DEF HeldInv

\* A call that has its result knows nothing of the store any more.
LEMMA FinishedHeld ==
    ASSUME CallsInv, HeldInv, NEW c \in Call, NEW r \in {"login", "signed_in"}, calls' = Client!Finished(c, r),
           standing' = standing, stored'.refresh = stored.refresh, past.excused \subseteq past'.excused,
           \A x \in Credential : Answer(c, x) => x \in past'.excused
    PROVE  HeldInv'
<1>1. OthersStay(c, calls') /\ calls'[c].at \in {"returning", "releasing"}
  BY FinishedCalls
<1>2. KnowsStore(c)'
  BY <1>1 DEF KnowsStore, Working
<1> QED
  BY <1>1, <1>2, HeldStays, QuietSteps DEF Working

\* A call that goes on to clear the store knows what it cannot have seen there.
LEMMA ClearingHeld ==
    ASSUME CallsInv, HeldInv, NEW c \in Call, NEW at \in {"clearing", "half_cleared"}, NEW t, NEW w,
           Moved(c, at, t, w), calls[c].at \in Working,
           standing' = standing, stored'.refresh = stored.refresh, past.excused \subseteq past'.excused,
           \A x \in Credential : Answer(c, x) => x \in past'.excused,
           \A x \in Credential : /\ calls[c].op \in {"refresh", "logout"} /\ x = stored.refresh
                                 /\ standing[x] = "live"
                                 /\ \/ calls[c].at = "reading"
                                    \/ calls[c].at = "sent" /\ calls[c].token = x
                                    \/ calls[c].at = "half_saved" /\ calls[c].won = x
                                 => x \in past'.excused
    PROVE  HeldInv'
<1>1. /\ OthersStay(c, calls') /\ calls'[c].at = at /\ calls'[c].op = calls[c].op
      /\ calls'[c].unseen = calls[c].unseen
  BY MovedOthers DEF Moved
<1>2. KnowsStore(c)
  BY DEF HeldInv
<1>3. KnowsStore(c)'
  BY <1>1, <1>2 DEF KnowsStore
<1>4. NoNewAnswer
  BY QuietSteps DEF Working
<1> QED
  BY <1>1, <1>3, <1>4, HeldStays

\* Reading, giving up, and what ends or clears without an answer to store.
LEMMA QuietKeepsHeld ==
    ASSUME CallsInv, HeldInv, NEW c \in Call,
           Client!Read(c) \/ Client!GiveUp(c) \/ Client!Refused(c) \/ Client!Revoked(c) \/ Client!WriteFails(c)
    PROVE  HeldInv'
<1>1. standing' = standing /\ stored' = stored
  BY ReadStep, GiveUpStep, RefusedStep, RevokedStep, WriteFailsStep
<1>2. past \in PastType /\ CallStands(c) /\ calls[c] \in CallType
  BY DEF CallsInv, ClientTyped
<1>3. CASE Client!Read(c)
  <2>1. calls[c].at = "reading" /\ \A x \in Credential : ~Answer(c, x)
    BY <1>3, ReadStep DEF Answer
  <2>2. CASE Moved(c, "sent", stored.refresh, calls[c].won) /\ past'.excused = past.excused
    <3>1. /\ OthersStay(c, calls') /\ calls'[c].at = "sent" /\ calls'[c].token = stored.refresh
          /\ calls'[c].unseen = calls[c].unseen
      BY <2>2, MovedOthers DEF Moved
    <3>2. KnowsStore(c)'
      BY <1>1, <3>1 DEF KnowsStore
    <3>3. NoNewAnswer
      BY <2>2, QuietSteps DEF Working
    <3> QED
      BY <1>1, <2>1, <2>2, <3>1, <3>2, <3>3, HeldStays DEF Working
  <2>3. CASE /\ Moved(c, "clearing", None, None) \/ calls' = Client!Finished(c, "login")
             /\ past' = [past EXCEPT !.excused = @ \cup ({stored.refresh} \ {None})]
    <3>1. past'.excused = past.excused \cup ({stored.refresh} \ {None})
      BY <1>2, <2>3 DEF PastType
    <3>2. CASE Moved(c, "clearing", None, None)
      BY <1>1, <2>1, <3>1, <3>2, ClearingHeld, ClientConstants DEF Working
    <3>3. CASE calls' = Client!Finished(c, "login")
      BY <1>1, <2>1, <3>1, <3>3, FinishedHeld
    <3> QED
      BY <2>3, <3>2, <3>3
  <2> QED
    BY <1>3, <2>2, <2>3, ReadStep
<1>4. CASE Client!GiveUp(c)
  <2>1. /\ past'.excused = past.excused \cup Client!AnswersOf({c}) \cup {x \in {calls[c].token} : Client!Live(x)}
        /\ calls[c].at \in {"sent", "answered"}
    BY <1>2, <1>4, GiveUpStep DEF PastType
  <2>2. \A x \in Credential : Answer(c, x) => x \in past'.excused
    BY <2>1, ClientConstants DEF Answer, Client!AnswersOf
  <2>3. \A x \in Credential : standing[x] = "live" /\ calls[c].token = x => x \in past'.excused
    BY <2>1, ClientConstants DEF Client!Live
  <2>4. CASE calls' = Client!Finished(c, "login")
    BY <1>1, <2>1, <2>2, <2>4, FinishedHeld
  <2>5. CASE Moved(c, "clearing", None, None)
    BY <1>1, <2>1, <2>2, <2>3, <2>5, ClearingHeld DEF Working
  <2> QED
    BY <1>4, <2>4, <2>5, GiveUpStep
<1>5. CASE Client!Refused(c) \/ Client!Revoked(c)
  <2>1. past' = past /\ calls[c].at \in {"refused", "answered"} /\ \A x \in Credential : ~Answer(c, x)
    BY <1>2, <1>5, RefusedStep, RevokedStep, ClientConstants DEF Answer, CallStands
  <2>2. CASE calls' = Client!Finished(c, "login")
    BY <1>1, <2>1, <2>2, FinishedHeld
  <2>3. CASE Moved(c, "clearing", None, None)
    BY <1>1, <2>1, <2>3, ClearingHeld DEF Working
  <2> QED
    BY <1>5, <2>2, <2>3, RefusedStep, RevokedStep
<1>6. CASE Client!WriteFails(c)
  <2>1. /\ past'.excused = past.excused \cup {calls[c].won} /\ Moved(c, "clearing", None, None)
        /\ calls[c].at \in {"answered", "half_saved"}
    BY <1>2, <1>6, WriteFailsStep DEF PastType
  <2> QED
    BY <1>1, <2>1, ClearingHeld DEF Working, Answer
<1> QED
  BY <1>3, <1>4, <1>5, <1>6

\* The server spends what it is asked to, and its answer holds the successor.
LEMMA ServeKeepsHeld ==
    ASSUME CallsInv, CredentialsStand, HeldInv, NEW c \in Call, Client!Serve(c)  PROVE HeldInv'
<1>1. stored' = stored /\ calls[c].at = "sent"
  BY ServeStep
<1>2. past'.excused = {x \in past.excused : standing'[x] = "live"}
  BY ServeStep DEF CallsInv, ClientTyped, PastType
<1>3. ASSUME NEW at \in {"answered", "refused"}, NEW t, NEW won, NEW fresh \in SUBSET Credential,
             Moved(c, at, t, won), Ledgered(fresh), at = "answered" => fresh = {won} \cap Credential,
             at = "refused" => fresh = {}
      PROVE  HeldInv'
  <2>1. /\ OthersStay(c, calls') /\ calls'[c].at = at /\ calls'[c].won = won
        /\ calls'[c].op = calls[c].op /\ calls'[c].unseen = calls[c].unseen
    BY <1>3, MovedOthers DEF Moved
  <2>2. \A y \in Credential : standing'[y] = "live" => standing[y] = "live" \/ y \in fresh
    BY <1>3 DEF Ledgered
  <2>3. \A y \in fresh : standing[y] = "absent" /\ y # stored.refresh
    BY <1>3 DEF Ledgered, CredentialsStand
  <2>4. ASSUME NEW d \in Call, NEW x \in Credential, Answer(d, x)'  PROVE Answer(d, x) \/ standing[x] = "absent"
    <3>1. CASE d = c
      BY <1>3, <2>1, <2>3, <2>4, <3>1 DEF Answer
    <3>2. CASE d # c
      BY <1>3, <2>4, <3>2 DEF Answer, Moved
    <3> QED
      BY <3>1, <3>2
  <2>5. \A x \in Credential : standing'[x] = "absent" => standing[x] = "absent"
    BY <1>3 DEF Ledgered
  <2>6. \A d \in Call : KnowsOthers(d)'
    BY <1>1, <2>1, <2>4, <2>5, OthersStayUnseen DEF Working
  <2>7. \A d \in Call \ {c} : KnowsStore(d)'
    BY <1>1, <1>2, <2>1, <2>2, <2>3, OthersKnowStore
  <2>8. KnowsStore(c)'
    <3> SUFFICES ASSUME calls[c].op \in {"refresh", "logout"}, NEW x \in Credential,
                        x = stored.refresh, standing'[x] = "live"
                 PROVE  x \in past'.excused \cup calls[c].unseen
      BY <1>1, <2>1 DEF KnowsStore
    <3>1. standing[x] = "live" /\ calls[c].token # x
      BY <2>2, <2>3, ServeStep
    <3>2. KnowsStore(c)
      BY DEF HeldInv
    <3> QED
      BY <1>1, <1>2, <3>1, <3>2 DEF KnowsStore, Working
  <2>9. ASSUME NEW x \in Credential, standing'[x] = "live"  PROVE Held(x)'
    <3>1. CASE x \in fresh
      <4>1. Answer(c, x)'
        BY <1>3, <2>1, <3>1 DEF Answer
      <4> QED
        BY <4>1 DEF Held, Answer
    <3>2. CASE \E e \in Call : Answer(e, x)
      <4>1. PICK e \in Call : Answer(e, x)
        BY <3>2
      <4>2. e # c /\ calls'[e] = calls[e]
        BY <1>1, <1>3, <4>1 DEF Answer, Moved
      <4> QED
        BY <4>1, <4>2 DEF Held, Answer
    <3> QED
      BY <1>1, <1>2, <2>2, <2>9, <3>1, <3>2 DEF HeldInv, Held
  <2> QED
    BY <2>6, <2>7, <2>8, <2>9 DEF HeldInv
<1>4. ASSUME NEW x \in Credential, Moved(c, "answered", calls[c].token, x), Ledgered({x})  PROVE HeldInv'
  <2>1. {x} = {x} \cap Credential
    OBVIOUS
  <2> QED
    BY <1>3, <1>4, <2>1
<1>5. ASSUME Moved(c, "answered", calls[c].token, None), Ledgered({})  PROVE HeldInv'
  <2>1. {} = {None} \cap Credential
    BY ClientConstants
  <2> QED
    BY <1>3, <1>5, <2>1
<1>6. ASSUME Moved(c, "refused", calls[c].token, None), Ledgered({})  PROVE HeldInv'
  BY <1>3, <1>6
<1> QED
  BY <1>4, <1>5, <1>6, ServeStep

\* save: what it overwrites is excused, and its own credential was seen by no other call.
LEMMA SaveKeepsHeld ==
    ASSUME CallsInv, CredentialsStand, HeldInv, NEW c \in Call, Client!SaveRefresh(c)  PROVE HeldInv'
<1> DEFINE new == calls[c].won
           s == [stored EXCEPT !.refresh = new]
<1>1. /\ standing' = standing /\ calls[c].at = "answered" /\ calls[c].op # "logout" /\ new \in Credential
      /\ Moved(c, "half_saved", calls[c].token, new) /\ s.refresh = new /\ Touched(c, s, past)
  BY SaveRefreshStep DEF CallsInv, ClientTyped
<1> HIDE DEF s
<1>2. /\ stored'.refresh = new
      /\ past'.excused = past.excused \cup {x \in {stored.refresh} \ {new, None} :
                                               calls[c].op = "login" \/ x \in calls[c].unseen}
  BY <1>1 DEF Touched
<1>3. /\ OthersStay(c, calls') /\ calls'[c].at = "half_saved" /\ calls'[c].won = new
      /\ calls'[c].unseen = calls[c].unseen
  BY <1>1, MovedOthers DEF Moved
<1>4. Answer(c, new) /\ NoNewAnswer
  BY <1>1, QuietSteps DEF Answer, Working
<1>5. \A d \in Call : KnowsOthers(d)'
  BY <1>1, <1>3, <1>4, OthersStayUnseen DEF NoNewAnswer, Working
<1>6. ASSUME NEW d \in Call  PROVE KnowsStore(d)'
  <2>1. CASE d = c
    BY <1>2, <1>3, <2>1 DEF KnowsStore
  <2>2. CASE d # c
    <3> SUFFICES ASSUME calls'[d].at \in Working  PROVE new \in calls'[d].unseen
      BY <1>2 DEF KnowsStore
    <3>1. calls'[d] = calls[d] /\ KnowsOthers(d)
      BY <1>3, <2>2 DEF OthersStay, Working, HeldInv
    <3> QED
      BY <1>1, <1>4, <2>2, <3>1 DEF KnowsOthers
  <2> QED
    BY <2>1, <2>2
<1>7. ASSUME NEW x \in Credential, standing'[x] = "live"  PROVE Held(x)'
  <2>1. CASE x = stored.refresh /\ x # new
    <3>1. CASE calls[c].op = "login"
      BY <1>2, <2>1, <3>1, ClientConstants DEF Held
    <3>2. CASE calls[c].op # "login"
      <4>1. calls[c].op = "refresh"
        BY <1>1, <3>2 DEF CallsInv, ClientTyped, CallType, CallStands
      <4>2. KnowsStore(c)
        BY DEF HeldInv
      <4>3. x \in past.excused \cup calls[c].unseen
        BY <1>1, <1>7, <2>1, <4>1, <4>2 DEF KnowsStore, Working
      <4> QED
        BY <1>2, <2>1, <4>3, ClientConstants DEF Held
    <3> QED
      BY <3>1, <3>2
  <2>2. CASE \E e \in Call : Answer(e, x)
    <3>1. PICK e \in Call : Answer(e, x)
      BY <2>2
    <3>2. CASE e = c
      BY <1>2, <3>1, <3>2 DEF Held, Answer
    <3>3. CASE e # c
      <4>1. Answer(e, x)'
        BY <1>1, <3>1, <3>3 DEF Answer, Moved
      <4> QED
        BY <4>1 DEF Held, Answer
    <3> QED
      BY <3>2, <3>3
  <2> QED
    BY <1>1, <1>2, <1>7, <2>1, <2>2 DEF HeldInv, Held
<1> QED
  BY <1>5, <1>6, <1>7 DEF HeldInv

\* The access token, and a removal that fails, leave the refresh token; what clear removes is excused.
LEMMA StoreKeepsHeld ==
    ASSUME CallsInv, HeldInv, NEW c \in Call,
           Client!SaveAccess(c) \/ Client!ClearAccess(c) \/ Client!ClearRefresh(c)
    PROVE  HeldInv'
<1>1. stored \in StoreType /\ past \in PastType
  BY DEF CallsInv, ClientTyped, StoreType
<1>2. CASE Client!SaveAccess(c)
  <2> DEFINE s == [stored EXCEPT !.access = calls[c].won]
  <2>1. /\ s.refresh = stored.refresh /\ Touched(c, s, past) /\ standing' = standing
        /\ calls[c].at = "half_saved" /\ calls' = Client!Finished(c, "signed_in")
    BY <1>1, <1>2, SaveAccessStep DEF StoreType
  <2> HIDE DEF s
  <2>2. stored'.refresh = stored.refresh /\ past.excused \subseteq past'.excused
    BY <2>1 DEF Touched
  <2> QED
    BY <2>1, <2>2, FinishedHeld DEF Answer
<1>3. CASE Client!ClearAccess(c)
  <2> DEFINE s == [stored EXCEPT !.access = None]
             p == [past EXCEPT !.stuck = @ \cup ({stored.access} \ {None})]
  <2>1. s.refresh = stored.refresh /\ p.excused = past.excused
    BY <1>1 DEF StoreType, PastType
  <2>2. /\ standing' = standing /\ calls[c].at = "clearing" /\ \E t, w : Moved(c, "half_cleared", t, w)
        /\ Touched(c, s, past) \/ Touched(c, stored, p)
    BY <1>3, ClearAccessStep
  <2> HIDE DEF s, p
  <2>3. stored'.refresh = stored.refresh /\ past.excused \subseteq past'.excused
    BY <2>1, <2>2 DEF Touched
  <2> QED
    BY <2>2, <2>3, ClearingHeld DEF Answer, Working
<1>4. CASE Client!ClearRefresh(c)
  <2> DEFINE s == [stored EXCEPT !.refresh = None]
             p == [past EXCEPT !.stuck = @ \cup ({stored.refresh} \ {None})]
  <2>1. s.refresh = None /\ p.excused = past.excused
    BY <1>1 DEF StoreType, PastType
  <2>2. /\ standing' = standing /\ calls[c].at = "half_cleared" /\ calls' = Client!Finished(c, "login")
        /\ Touched(c, s, past) \/ Touched(c, stored, p)
    BY <1>4, ClearRefreshStep
  <2> HIDE DEF s, p
  <2>3. CASE Touched(c, stored, p)
    <3>1. stored'.refresh = stored.refresh /\ past.excused \subseteq past'.excused
      BY <2>1, <2>3 DEF Touched
    <3> QED
      BY <2>2, <3>1, FinishedHeld DEF Answer
  <2>4. CASE Touched(c, s, past)
    <3>1. /\ stored'.refresh = None
          /\ past'.excused = past.excused \cup {x \in {stored.refresh} \ {None} :
                                                   calls[c].op = "login" \/ x \in calls[c].unseen}
      BY <2>1, <2>4 DEF Touched
    <3>2. OthersStay(c, calls') /\ calls'[c].at \in {"returning", "releasing"} /\ NoNewAnswer
      BY <2>2, FinishedCalls, QuietSteps
    <3>3. \A d \in Call : KnowsOthers(d)'
      BY <2>2, <3>2, OthersStayUnseen DEF NoNewAnswer, Working
    <3>4. \A d \in Call : KnowsStore(d)'
      BY <3>1, ClientConstants DEF KnowsStore
    <3>5. ASSUME NEW x \in Credential, standing'[x] = "live"  PROVE Held(x)'
      <4>1. CASE x = stored.refresh
        <5>1. x \in past.excused \/ calls[c].op = "login" \/ x \in calls[c].unseen
          <6>1. calls[c].op \in {"login", "refresh", "logout"} /\ KnowsStore(c)
            BY <2>2 DEF HeldInv, CallsInv, ClientTyped, CallType, CallStands
          <6> QED
            BY <2>2, <3>5, <4>1, <6>1 DEF KnowsStore, Working
        <5> QED
          BY <3>1, <4>1, <5>1, ClientConstants DEF Held
      <4>2. CASE \E e \in Call : Answer(e, x)
        <5>1. PICK e \in Call : Answer(e, x)
          BY <4>2
        <5>2. Answer(e, x)'
          BY <2>2, <3>2, <5>1 DEF OthersStay, Answer
        <5> QED
          BY <5>2 DEF Held, Answer
      <4> QED
        BY <2>2, <3>1, <3>5, <4>1, <4>2 DEF HeldInv, Held
    <3> QED
      BY <3>3, <3>4, <3>5 DEF HeldInv
  <2> QED
    BY <2>2, <2>3, <2>4
<1> QED
  BY <1>2, <1>3, <1>4

\* A call that begins has seen nothing of what others will bring.
LEMMA BeginKeepsHeld ==
    ASSUME CallsInv, HeldInv, NEW c \in Call, Begun(c)  PROVE HeldInv'
<1>1. /\ standing' = standing /\ stored' = stored /\ past' = past /\ calls[c].at = "idle"
      /\ \A d \in Call \ {c} : calls'[d] = calls[d]
      /\ calls'[c].at \in {"reading", "sent", "waiting", "returning"}
      /\ calls'[c].at = "sent" => calls'[c].op = "login"
      /\ calls'[c].unseen = {x \in Credential : standing[x] = "absent" \/ x \in Client!AnswersOf(Call)}
  BY DEF Begun
<1>2. \A d \in Call : \A x \in Credential : Answer(d, x)' <=> Answer(d, x)
  BY <1>1 DEF Answer
<1>3. ASSUME NEW d \in Call  PROVE KnowsStore(d)' /\ KnowsOthers(d)'
  <2>1. CASE d = c
    <3>1. \A e \in Call : \A x \in Credential : Answer(e, x) => x \in Client!AnswersOf(Call)
      BY ClientConstants DEF Answer, Client!AnswersOf
    <3>2. KnowsStore(c)'
      BY <1>1 DEF KnowsStore, Working
    <3>3. KnowsOthers(c)'
      <4> SUFFICES ASSUME NEW x \in Credential,
                          standing'[x] = "absent" \/ (\E e \in Call \ {c} : Answer(e, x)')
                   PROVE  x \in calls'[c].unseen
        BY DEF KnowsOthers, Answer
      <4> QED
        BY <1>1, <1>2, <3>1
    <3> QED
      BY <2>1, <3>2, <3>3
  <2>2. CASE d # c
    <3>1. KnowsStore(d) /\ KnowsOthers(d) /\ calls'[d] = calls[d]
      BY <1>1, <2>2 DEF HeldInv
    <3>2. KnowsStore(d)'
      BY <1>1, <3>1 DEF KnowsStore
    <3>3. KnowsOthers(d)'
      BY <1>1, <1>2, <3>1 DEF KnowsOthers, Answer
    <3> QED
      BY <3>2, <3>3
  <2> QED
    BY <2>1, <2>2
<1>4. ASSUME NEW x \in Credential, standing'[x] = "live"  PROVE Held(x)'
  BY <1>1, <1>2, <1>4 DEF HeldInv, Held, Answer
<1> QED
  BY <1>3, <1>4 DEF HeldInv

LEMMA HeldInvKept == CallsInv /\ CredentialsStand /\ HeldInv /\ [Client!NextClient]_client => HeldInv'
<1> SUFFICES ASSUME CallsInv, CredentialsStand, HeldInv, [Client!NextClient]_client  PROVE HeldInv'
  OBVIOUS
<1> DEFINE P == HeldInv'
<1>0. past \in PastType
  BY DEF CallsInv, ClientTyped
<1>1. CASE UNCHANGED client
  BY <1>1 DEF client, HeldInv, Held, KnowsStore, KnowsOthers, Answer
<1>2. CASE Client!NextClient
  <2>1. \A c \in Call : Client!Read(c) \/ Client!GiveUp(c) \/ Client!Refused(c) => P
    BY QuietKeepsHeld
  <2>2. \A c \in Call : Client!Revoked(c) \/ Client!WriteFails(c) => P
    BY QuietKeepsHeld
  <2>3. \A c \in Call : Client!Serve(c) \/ Client!SaveRefresh(c) => P
    BY ServeKeepsHeld, SaveKeepsHeld
  <2>4. \A c \in Call : Client!SaveAccess(c) \/ Client!ClearAccess(c) \/ Client!ClearRefresh(c) => P
    BY StoreKeepsHeld
  <2>5. ASSUME NEW c \in Call, Client!Return(c)  PROVE P
    <3>1. /\ standing' = standing /\ stored' = stored /\ past' = past /\ calls[c].at \in {"returning", "releasing"}
          /\ calls' = [calls EXCEPT ![c] = Client!Idle] /\ calls \in [Call -> CallType]
      BY <2>5, ReturnStep DEF CallsInv, ClientTyped
    <3>2. OthersStay(c, calls') /\ calls'[c].at = "idle" /\ NoNewAnswer
      BY <3>1, IdleCall, QuietSteps DEF OthersStay
    <3>3. KnowsStore(c)' /\ \A x \in Credential : ~Answer(c, x)
      BY <3>1, <3>2 DEF KnowsStore, Working, Answer
    <3> QED
      BY <3>1, <3>2, <3>3, HeldStays DEF Working
  <2>6. ASSUME NEW ended, Client!Die(ended)  PROVE P
    <3>1. /\ standing' = standing /\ stored' = stored /\ \A c \in Call : calls'[c].at = "idle"
          /\ past'.excused = past.excused \cup Client!AnswersOf(Call)
      BY <2>6, DieStep, IdleCall
    <3>2. \A c \in Call : \A x \in Credential : Answer(c, x) => x \in past'.excused
      BY <3>1, ClientConstants DEF Answer, Client!AnswersOf
    <3> QED
      BY <3>1, <3>2 DEF HeldInv, Held, KnowsStore, KnowsOthers, Working, Answer
  <2>7. ASSUME NEW c \in Call, Client!Raise(c)  PROVE P
    <3>1. CASE /\ standing' = standing /\ stored' = stored /\ calls' = Client!Finished(c, "login")
               /\ past' = [past EXCEPT !.excused = @ \cup Client!AnswersOf({c})]
      <4>1. past'.excused = past.excused \cup Client!AnswersOf({c})
        BY <1>0, <3>1 DEF PastType
      <4>2. \A x \in Credential : Answer(c, x) => x \in past'.excused
        BY <4>1, ClientConstants DEF Answer, Client!AnswersOf
      <4> QED
        BY <3>1, <4>1, <4>2, FinishedHeld
    <3> QED
      BY <2>6, <2>7, <3>1, RaiseStep
  <2>8. \A c \in Call : \A w \in Root : Client!Restore(c, w) \/ Client!Login(c, w) \/ Client!Logout(c, w) => P
    BY BeginStep, BeginKeepsHeld
  <2>9. ASSUME NEW x \in late, Client!ServeLate(x)  PROVE P
    <3>1. /\ stored' = stored /\ calls' = calls /\ standing'[x] # "live"
          /\ \A y \in Credential : standing'[y] = "live" => standing[y] = "live"
          /\ \A y \in Credential : standing'[y] = "absent" => standing[y] = "absent"
      BY <2>9, ServeLateStep DEF Ledgered
    <3>2. past'.excused = past.excused \ {x}
      BY <1>0, <2>9, ServeLateStep DEF PastType
    <3> QED
      BY <3>1, <3>2 DEF HeldInv, Held, KnowsStore, KnowsOthers, Answer
  <2> HIDE DEF P
  <2>10. P
    BY <1>2, <2>1, <2>2, <2>3, <2>4, <2>5, <2>6, <2>7, <2>8, <2>9, ClientSteps
  <2> QED
    BY <2>10 DEF P
<1> QED
  BY <1>1, <1>2

\* A session open on the server is known to its client, or was lost to a lost answer, a failing
\* store, an overlapping call or a new login, for any number of calls, views and credentials.
THEOREM SessionsStayHeld == IdentitySpec => []SessionsAreHeld
<1>1. HeldInv => SessionsAreHeld
  BY DEF HeldInv, Held, Answer, SessionsAreHeld, Client!SessionsAreHeld, Client!Live
<1>2. Client!InitClient => HeldInv
  <2> SUFFICES ASSUME Client!InitClient  PROVE HeldInv
    OBVIOUS
  <2>1. standing = [x \in Credential |-> "absent"] /\ \A c \in Call : calls[c].at = "idle"
    BY IdleCall DEF Client!InitClient, Client!Init
  <2> QED
    BY <2>1 DEF HeldInv, KnowsStore, KnowsOthers, Working
<1>3. RefreshInv => CredentialsStand
  BY DEF RefreshInv
<1> QED
  BY <1>1, <1>2, <1>3, CallsInvInit, CallsInvKept, RefreshInvInit, RefreshInvKept, HeldInvKept,
     ClientMovesAlone, PTL
================================================================================
