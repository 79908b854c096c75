----------------------------- MODULE LoginLimiter -----------------------------
(***************************************************************************)
(* SqlLoginRateLimiter: the login_rate_limits row of one attempt key, and  *)
(* the login requests of all replicas that present that key at once.  Each *)
(* request runs in one READ COMMITTED transaction; FailuresCommit says     *)
(* whether the caller commits after a failed attempt, as the limiter's own *)
(* integration test does, or raises out of the transaction, as the login   *)
(* route does (routes/auth.py:187-188 inside database.py:20-22).           *)
(***************************************************************************)
EXTENDS Naturals, FiniteSets

CONSTANTS Request,
          MaxFailures, Window, Lock,   \* max_failures, window_seconds, lock_seconds
          FailuresCommit,
          MaxTime                      \* bound on the clock

\* A step of the clock is what a request may take at most; a window and a lock are longer.
LimiterValues ==
    /\ IsFiniteSet(Request)
    /\ MaxFailures \in Nat \ {0} /\ Window \in Nat \ {0, 1} /\ Lock \in Nat \ {0, 1}
    /\ FailuresCommit \in BOOLEAN /\ MaxTime \in Nat

VARIABLES
    now,        \* the clock
    row,        \* the committed row of the key
    tx,         \* the transaction of each request slot
    strikes     \* history: 401 answers since the clock moved or a login succeeded

vars == <<now, row, tx, strikes>>

-------------------------------------------------------------------------------
Time == 0..MaxTime
Unlocked == 0                \* locked_until IS NULL: a lock ends after the clock's start
Absent == [failures |-> 0, started |-> 0, locked |-> Unlocked, updated |-> 0]
RowType == [failures : Nat, started : Time, locked : 0..(MaxTime + Lock), updated : Time]

\* began: when the request started; stamp: the clock as read by record_failure; holds: this transaction has written
\* the row and keeps its lock; draft: the row as it leaves it.
Transactions == [at : {"idle", "clearing", "verifying", "failing", "failed", "passed"},
                 began : Time, stamp : Time, holds : BOOLEAN, draft : RowType]
Idle == [at |-> "idle", began |-> 0, stamp |-> 0, holds |-> FALSE, draft |-> Absent]

Init ==
    /\ now = 0 /\ row = Absent
    /\ tx = [q \in Request |-> Idle]
    /\ strikes = 0

\* The row a statement of q reads: its own version, else the last committed one.
Seen(q) == IF tx[q].holds THEN tx[q].draft ELSE row

\* An upsert of the row waits for the transaction that holds it.
CanWrite(q) == \A p \in Request \ {q} : ~tx[p].holds

-------------------------------------------------------------------------------
(* IdentityService.login *)

\* Mutant of Check: an attempt on an unknown email is refused before record_failure.
CheckUnrecorded(q) ==
    /\ tx[q].at = "idle" /\ row.locked <= now
    /\ tx' = [tx EXCEPT ![q].at = "failed", ![q].began = now, ![q].draft = row]
    /\ UNCHANGED <<now, row, strikes>>

\* check: a lock that has not passed refuses the attempt with 429.
Check(q) ==
    /\ tx[q].at = "idle" /\ row.locked <= now
    /\ tx' = [tx EXCEPT ![q].at = IF row.locked = Unlocked THEN "verifying" ELSE "clearing",
                        ![q].began = now]
    /\ UNCHANGED <<now, row, strikes>>

\* DELETE of the key's row: it waits for the transaction that holds a committed row, and
\* takes its lock; an INSERT that has not committed it neither sees nor waits for.
Delete(q, next) ==
    /\ row # Absent => CanWrite(q)
    /\ tx' = [tx EXCEPT ![q].at = next, ![q].draft = Absent, ![q].holds = @ \/ row # Absent]
    /\ UNCHANGED <<now, row, strikes>>

\* check: a lock that has passed is removed by a statement of its own.
Clear(q) == tx[q].at = "clearing" /\ Delete(q, "verifying")

\* The password does not verify: record_failure reads the clock.
Mismatch(q) ==
    /\ tx[q].at = "verifying"
    /\ tx' = [tx EXCEPT ![q].at = "failing", ![q].stamp = now]
    /\ UNCHANGED <<now, row, strikes>>

\* Mutant of Counted: locking one failure late.
CountedLate(old, time) ==
    IF old = Absent \/ old.started + Window <= time
      THEN [failures |-> 1, started |-> time, locked |-> Unlocked, updated |-> time]
      ELSE [failures |-> old.failures + 1, started |-> old.started, updated |-> time,
            locked |-> IF old.failures >= MaxFailures THEN time + Lock ELSE old.locked]

\* The row that record_failure's upsert makes of an old one.
Counted(old, time) ==
    IF old = Absent \/ old.started + Window <= time
      THEN [failures |-> 1, started |-> time, locked |-> Unlocked, updated |-> time]
      ELSE [failures |-> old.failures + 1, started |-> old.started, updated |-> time,
            locked |-> IF old.failures + 1 >= MaxFailures THEN time + Lock ELSE old.locked]

RecordFailure(q) ==
    /\ tx[q].at = "failing" /\ CanWrite(q)
    /\ tx' = [tx EXCEPT ![q].at = "failed", ![q].holds = TRUE,
                        ![q].draft = Counted(Seen(q), tx[q].stamp)]
    /\ UNCHANGED <<now, row, strikes>>

\* It verifies: reset, and the session is issued.
Reset(q) == tx[q].at = "verifying" /\ Delete(q, "passed")

\* AuthenticationError becomes 401.
AnswerFailure(q) ==
    /\ tx[q].at = "failed"
    /\ row' = IF FailuresCommit THEN tx[q].draft ELSE row
    /\ tx' = [tx EXCEPT ![q] = Idle]
    /\ strikes' = strikes + 1
    /\ UNCHANGED now

AnswerSuccess(q) ==
    /\ tx[q].at = "passed"
    /\ row' = IF tx[q].holds THEN Absent ELSE row
    /\ tx' = [tx EXCEPT ![q] = Idle]
    /\ strikes' = 0
    /\ UNCHANGED now

\* A lost connection or a crashed replica.
Rollback(q) ==
    /\ tx[q].at # "idle"
    /\ tx' = [tx EXCEPT ![q] = Idle]
    /\ UNCHANGED <<now, row, strikes>>

\* A failure recorded under another key deletes rows not updated for twice both periods.
Longest == IF Window >= Lock THEN Window ELSE Lock
Sweep ==
    /\ row # Absent /\ row.updated + 2 * Longest < now
    /\ \A q \in Request : ~tx[q].holds
    /\ row' = Absent
    /\ UNCHANGED <<now, tx, strikes>>

\* A request takes far less than a window or a lock: it sees the clock move once.
Tick ==
    /\ now < MaxTime
    /\ \A q \in Request : tx[q].at # "idle" => tx[q].began = now
    /\ now' = now + 1 /\ strikes' = 0
    /\ UNCHANGED <<row, tx>>

-------------------------------------------------------------------------------
\* The first failure is an INSERT, which never locks: a limit of one is enforced as two.
Limit == IF MaxFailures = 1 THEN 2 ELSE MaxFailures

\* Guesses in one instant: Cardinality(Request) + 1 rounds, in each Limit failures until the
\* lock and one of every other request that passed the check before it.
MostGuesses == (Cardinality(Request) + 1) * (Limit + Cardinality(Request) - 1)

\* Bound: no further attempt once GuessesAreLimited is broken.
StrikesBounded == strikes <= MostGuesses

Next ==
    \/ \E q \in Request : \/ StrikesBounded /\ Check(q)
                          \/ Clear(q)
                          \/ Mismatch(q)
                          \/ RecordFailure(q)
                          \/ Reset(q)
                          \/ AnswerFailure(q)
                          \/ AnswerSuccess(q)
                          \/ Rollback(q)
    \/ Sweep
    \/ Tick

Spec == Init /\ [][Next]_vars

-------------------------------------------------------------------------------
(* Properties *)

\* Every variable and every transaction record has its type.
TypeOK ==
    /\ now \in Time /\ row \in RowType
    /\ tx \in [Request -> Transactions]
    /\ strikes \in Nat

\* docs/phase-2-authentication.md:7 says the limiter is shared by every replica and
\* answers 429.  A request in flight can start the count afresh once in an instant: it read
\* the lock as passed and deletes its successor; and once a window can end.
GuessesAreLimited == strikes <= MostGuesses

\* The count passes the limit only by the attempts that were in flight when it was
\* reached: no attempt admitted after that is ever added to it.
FailuresBounded == row.failures < Limit + Cardinality(Request)

\* A row that reached the limit is locked, whichever replica's upsert took it there.
LockedAtLimit == row.failures >= Limit => row.locked # Unlocked

\* docs/phase-2-authentication.md:7: what the row of a key says at any moment.
RowKeepsTheLimit == TypeOK /\ LockedAtLimit /\ FailuresBounded
===============================================================================
