------------------------- MODULE CommunityMedia_proofs -------------------------
(***************************************************************************)
(* Theorems about CommunityMedia: what the rows say of the photos and what *)
(* the bucket holds agree, or disagree for a reason that is known, for any *)
(* number of accounts, reports and requests at once.                       *)
(***************************************************************************)
EXTENDS CommunityMedia, TLAPS

-------------------------------------------------------------------------------
(* The inductive invariant *)

\* What a request in state t locks, and whether it has deleted its users row.
LockSet(t) ==
    t.marks \cup IF t.does = "moderate" THEN {t.report}
                 ELSE IF t.does = "erase" /\ t.at = "ready" THEN OwnedBy(t.user)
                 ELSE {}
Erasing(t) == t.does = "erase" /\ t.at \in {"cascading", "ready"}
Uploaded(t) == t.does = "submit" /\ t.at # "submitting"

\* A submission owns an id nothing else knows, whose object it has put.
Submitting(t) ==
    /\ t.at \in {"submitting", "stored", "discarding", "ready"}
    /\ t.user \in User /\ t.gone = {} /\ t.todo = {} /\ t.marks = {} /\ t.verdict # "rejected"
    /\ t.at = "submitting" => t.report = 0
    /\ t.at # "submitting" => /\ t.report \in Report /\ author[t.report] = t.user
                              /\ reports[t.report] = Absent
                              /\ t.report \in objects \cup vanished

\* A moderation holds a row; a rejection has deleted its photo or found it deleted.
Moderating(t) ==
    /\ t.at \in {"judged", "crediting", "ready"}
    /\ t.report \in Recorded /\ t.gone = t.marks /\ t.marks \subseteq {t.report} /\ t.todo = {}
    /\ t.at = "judged" => t.report \in Available /\ t.marks = {}
    /\ t.verdict = "rejected" /\ t.at # "judged" =>
           t.report \in t.marks \/ reports[t.report].deleted # Never

\* A purge has marked what it deleted, unless another request marked it or took the row.
Purging(t) ==
    /\ t.at \in {"purging", "marking", "ready"}
    /\ \A r \in t.gone \cap Available : r \in t.marks \/ (t.at = "marking" /\ r = t.report)
    /\ t.at = "marking" => t.report \in t.gone

\* An erasure has deleted every object of the account that it could list.
ErasingAccount(t) ==
    /\ t.at \in {"listing", "erasing", "cascading", "ready"}
    /\ t.user \in User /\ t.marks = {}
    /\ t.at = "listing" => t.gone = {}
    /\ t.at # "erasing" => t.todo = {}
    /\ \A r \in t.gone \cup t.todo : author[r] = t.user
    /\ t.at # "listing" => OwnedBy(t.user) \cap Available \cap objects \subseteq t.todo \cup late

\* One request by itself.
Shaped(t) ==
    /\ t.at = "idle" <=> t.does = "nothing"
    /\ t.at = "idle" => t = Idle
    /\ t.does = "submit" => Submitting(t)
    /\ t.does = "moderate" => Moderating(t)
    /\ t.does = "purge" => Purging(t)
    /\ t.does = "erase" => ErasingAccount(t)
    /\ t.marks \subseteq Available /\ t.marks \subseteq t.gone /\ t.gone \cap objects = {}
    /\ \A r \in t.gone \cup t.todo : author[r] # NoUser

\* Two requests at once: rows are locked by one; an account is not erased while a
\* submission of it is about to commit; nobody else knows a report not yet committed.
Apart(s, t) ==
    /\ LockSet(s) \cap LockSet(t) = {}
    /\ Erasing(s) /\ t.does = "submit" /\ t.at = "ready" => s.user # t.user
    /\ Uploaded(s) => /\ s.report \notin t.gone \cup t.todo
                      /\ Uploaded(t) => t.report # s.report

\* The rows and the bucket.
Kept ==
    /\ \A r \in Recorded : /\ author[r] = reports[r].owner
                           /\ reports[r].status = "rejected" => reports[r].deleted # Never
                           /\ reports[r].deleted # Never => r \notin objects
    /\ \A r \in objects : author[r] # NoUser
    /\ MissingEvidenceIsExplained
    /\ OrphansAreExplained

MediaInv ==
    /\ TypeOK
    /\ \A q \in Request : Shaped(tx[q])
    /\ \A p, q \in Request : p # q => Apart(tx[p], tx[q])
    /\ Kept

-------------------------------------------------------------------------------
(* What one request does to the invariant *)

LEMMA IdleIsTyped == Idle \in Transactions /\ 0 \notin Report /\ Absent \notin Rows
BY Sentinels DEF Idle, Transactions, Statuses, Report, Absent, Rows

\* A step of q that writes no row and adds no object keeps the invariant if it leaves q's
\* record in order and apart from the others, and accounts for the objects that vanish.
LEMMA RequestMovesAlone ==
    ASSUME MediaInv, NEW q \in Request,
           tx' \in [Request -> Transactions], \A p \in Request \ {q} : tx'[p] = tx[p],
           UNCHANGED <<reports, expired, author, late>>, accounts' = accounts, objects' \subseteq objects,
           vanished \subseteq vanished', vanished' \subseteq Report,
           stranded \subseteq stranded', stranded' \subseteq Report,
           Shaped(tx[q])',
           \A p \in Request \ {q} : Apart(tx[q], tx[p])' /\ Apart(tx[p], tx[q])',
           \A r \in objects \ objects' :
               r \in vanished' \cup tx'[q].gone \/ (Uploaded(tx[q]) /\ r = tx[q].report),
           tx[q].gone \cap Available \subseteq vanished' \cup tx'[q].gone,
           Uploaded(tx[q]) /\ tx[q].report \in objects' =>
               tx[q].report \in stranded' \/ (tx'[q].does = "submit" /\ tx'[q].report = tx[q].report)
    PROVE  MediaInv'
<1>1. TypeOK'
  BY DEF MediaInv, TypeOK
<1>2. /\ Available' = Available /\ Recorded' = Recorded /\ \A u : OwnedBy(u)' = OwnedBy(u)
  BY DEF Available, Recorded, OwnedBy
<1>3. \A p \in Request \ {q} : Shaped(tx[p])'
  <2> SUFFICES ASSUME NEW p \in Request \ {q}  PROVE Shaped(tx[p])'
    OBVIOUS
  <2>1. Shaped(tx[p]) /\ Apart(tx[p], tx[q])' /\ Apart(tx[p], tx[q]) /\ tx'[p] = tx[p]
    BY DEF MediaInv
  <2>2. tx[p].does = "submit" => Submitting(tx[p])'
    <3> SUFFICES ASSUME tx[p].does = "submit", tx[p].at # "submitting"
                 PROVE  tx[p].report \in objects' \cup vanished'
      BY <2>1 DEF Shaped, Submitting
    <3>1. Uploaded(tx[p]) /\ Uploaded(tx[p])'
      BY <2>1 DEF Uploaded
    <3>2. tx[p].report \notin tx'[q].gone /\ ~(Uploaded(tx[q]) /\ tx[p].report = tx[q].report)
      BY <2>1, <3>1 DEF Apart
    <3>3. tx[p].report \in objects \cup vanished
      BY <2>1 DEF Shaped, Submitting
    <3> QED
      BY <3>2, <3>3
  <2>3. tx[p].does = "moderate" => Moderating(tx[p])'
    BY <1>2, <2>1 DEF Shaped, Moderating
  <2>4. tx[p].does = "purge" => Purging(tx[p])'
    BY <1>2, <2>1 DEF Shaped, Purging
  <2>5. tx[p].does = "erase" => ErasingAccount(tx[p])'
    BY <1>2, <2>1 DEF Shaped, ErasingAccount
  <2> QED
    BY <1>2, <2>1, <2>2, <2>3, <2>4, <2>5 DEF Shaped
<1>4. \A p, o \in Request : p # o => Apart(tx[p], tx[o])'
  <2> SUFFICES ASSUME NEW p \in Request, NEW o \in Request, p # o  PROVE Apart(tx[p], tx[o])'
    OBVIOUS
  <2>1. CASE p = q \/ o = q
    BY <2>1
  <2>2. CASE p # q /\ o # q
    <3>1. Apart(tx[p], tx[o]) /\ tx'[p] = tx[p] /\ tx'[o] = tx[o]
      BY <2>2 DEF MediaInv
    <3> QED
      BY <1>2, <3>1 DEF Apart, LockSet, Erasing, Uploaded
  <2> QED
    BY <2>1, <2>2
<1>5. MissingEvidenceIsExplained'
  <2> SUFFICES ASSUME NEW r \in Available, r \notin objects'
               PROVE  r \in vanished' \/ \E p \in Request : r \in tx'[p].gone
    BY <1>2 DEF MissingEvidenceIsExplained
  <2>1. CASE r \in objects
    <3>1. ~(Uploaded(tx[q]) /\ r = tx[q].report)
      BY DEF Uploaded, MediaInv, Shaped, Submitting, Available, Recorded
    <3> QED
      BY <2>1, <3>1
  <2>2. CASE r \notin objects
    BY <2>2 DEF MediaInv, Kept, MissingEvidenceIsExplained
  <2> QED
    BY <2>1, <2>2
<1>6. OrphansAreExplained'
  <2> SUFFICES ASSUME NEW r \in objects', r \notin Available
               PROVE  r \in stranded' \cup late' \/ \E p \in Request : tx'[p].does = "submit" /\ tx'[p].report = r
    BY <1>2 DEF OrphansAreExplained
  <2>1. r \in stranded \cup late \/ \E p \in Request : tx[p].does = "submit" /\ tx[p].report = r
    BY DEF MediaInv, Kept, OrphansAreExplained
  <2>2. r # 0
    BY IdleIsTyped DEF MediaInv, TypeOK
  <2>3. tx[q].does = "submit" /\ tx[q].report = r => Uploaded(tx[q])
    BY <2>2 DEF MediaInv, Shaped, Submitting, Uploaded
  <2> QED
    BY <2>1, <2>3
<1>7. Kept'
  BY <1>2, <1>5, <1>6 DEF MediaInv, Kept
<1> QED
  BY <1>1, <1>3, <1>4, <1>7 DEF MediaInv

\* A request that ends without a commit keeps it, if it accounts for what it did to the bucket.
LEMMA EndKeepsMedia ==
    ASSUME MediaInv, NEW q \in Request, tx' = [tx EXCEPT ![q] = Idle],
           UNCHANGED <<accounts, reports, expired, author, late>>, objects' \subseteq objects,
           vanished \subseteq vanished', vanished' \subseteq Report,
           stranded \subseteq stranded', stranded' \subseteq Report,
           \A r \in objects \ objects' : r \in vanished' \/ (Uploaded(tx[q]) /\ r = tx[q].report),
           tx[q].gone \cap Available \subseteq vanished',
           Uploaded(tx[q]) /\ tx[q].report \in objects' => tx[q].report \in stranded'
    PROVE  MediaInv'
<1> USE IdleIsTyped
<1>1. /\ tx' \in [Request -> Transactions] /\ tx'[q] = Idle
      /\ \A p \in Request \ {q} : tx'[p] = tx[p]
  BY DEF MediaInv, TypeOK
<1>2. Shaped(tx[q])'
  BY <1>1 DEF Shaped, Idle
<1>3. \A p \in Request \ {q} : Apart(tx[q], tx[p])' /\ Apart(tx[p], tx[q])'
  BY <1>1 DEF Apart, LockSet, Erasing, Uploaded, Idle
<1> QED
  BY <1>1, <1>2, <1>3, RequestMovesAlone

\* A step that leaves the bucket alone keeps it.
LEMMA StepKeepsMedia ==
    ASSUME MediaInv, NEW q \in Request,
           tx' \in [Request -> Transactions], \A p \in Request \ {q} : tx'[p] = tx[p],
           UNCHANGED <<accounts, reports, objects, expired, author, vanished, stranded, late>>,
           Shaped(tx[q])',
           \A p \in Request \ {q} : Apart(tx[q], tx[p])' /\ Apart(tx[p], tx[q])',
           tx'[q].gone = tx[q].gone,
           Uploaded(tx[q]) => tx'[q].does = "submit" /\ tx'[q].report = tx[q].report
    PROVE  MediaInv'
BY RequestMovesAlone DEF MediaInv, TypeOK

-------------------------------------------------------------------------------
(* Submissions *)

LEMMA SubmitBeginKeepsMedia ==
    ASSUME MediaInv, NEW q \in Request, NEW u \in User, SubmitBegin(q, u)  PROVE MediaInv'
<1> DEFINE next == [Idle EXCEPT !.at = "submitting", !.does = "submit", !.user = u]
<1>1. tx' = [tx EXCEPT ![q] = next] /\ tx[q] = Idle
  BY DEF SubmitBegin, Begin, MediaInv, Shaped
<1>2. /\ next \in Transactions /\ next.at = "submitting" /\ next.does = "submit" /\ next.user = u
      /\ next.report = 0 /\ next.verdict = "pending" /\ next.todo = {} /\ next.marks = {} /\ next.gone = {}
  BY DEF Idle, Transactions, Statuses
<1> HIDE DEF next
<1>3. tx'[q] = next /\ tx' \in [Request -> Transactions] /\ \A p \in Request \ {q} : tx'[p] = tx[p]
  BY <1>1, <1>2 DEF MediaInv, TypeOK
<1>4. Shaped(tx[q])'
  BY <1>2, <1>3 DEF Shaped, Submitting
<1>5. \A p \in Request \ {q} : Apart(tx[q], tx[p])' /\ Apart(tx[p], tx[q])'
  BY <1>2, <1>3 DEF Apart, LockSet, Erasing, Uploaded
<1> QED
  BY <1>1, <1>2, <1>3, <1>4, <1>5, StepKeepsMedia DEF SubmitBegin, Idle, Uploaded

\* The id that a submission draws is not in use, and its object is new.
LEMMA PutKeepsMedia ==
    ASSUME MediaInv, NEW q \in Request, NEW r \in Report, Draw(q, r),
           NEW put \in SUBSET {r}, objects' = objects \cup put,
           stranded \subseteq stranded', stranded' \subseteq Report,
           \/ put = {r} /\ \E score \in {"pending", "published"} :
                  tx' = [tx EXCEPT ![q].at = "stored", ![q].report = r, ![q].verdict = score]
           \/ put \subseteq stranded' /\ tx' = [tx EXCEPT ![q] = Idle]
    PROVE  MediaInv'
<1> USE IdleIsTyped, Sentinels
<1>1. /\ tx[q].at = "submitting" /\ tx[q].does = "submit" /\ Shaped(tx[q]) /\ Submitting(tx[q])
      /\ author[r] = NoUser /\ author' = [author EXCEPT ![r] = tx[q].user] /\ tx[q] \in Transactions
      /\ UNCHANGED <<accounts, reports, expired, vanished, late>> /\ tx[q].user \in User
  BY DEF Draw, MediaInv, Shaped, Submitting, TypeOK, Moderating, Purging, ErasingAccount, Transactions
<1>2. /\ tx' \in [Request -> Transactions] /\ \A p \in Request \ {q} : tx'[p] = tx[p]
      /\ tx'[q].marks = {} /\ tx'[q].todo = {} /\ tx'[q].gone = {}
      /\ \/ tx'[q].at = "stored" /\ tx'[q].does = "submit" /\ tx'[q].report = r /\ tx'[q].user = tx[q].user
            /\ tx'[q].verdict # "rejected" /\ put = {r}
         \/ tx'[q] = Idle /\ put \subseteq stranded'
  <2>1. CASE put \subseteq stranded' /\ tx' = [tx EXCEPT ![q] = Idle]
    BY <2>1 DEF MediaInv, TypeOK, Idle
  <2>2. CASE put = {r} /\ \E score \in {"pending", "published"} :
                 tx' = [tx EXCEPT ![q].at = "stored", ![q].report = r, ![q].verdict = score]
    <3>0. PICK score \in {"pending", "published"} :
              tx' = [tx EXCEPT ![q].at = "stored", ![q].report = r, ![q].verdict = score]
      BY <2>2
    <3> DEFINE next == [tx[q] EXCEPT !.at = "stored", !.report = r, !.verdict = score]
    <3>1. tx' = [tx EXCEPT ![q] = next]
      BY <3>0
    <3>2. /\ next \in Transactions /\ next.at = "stored" /\ next.does = "submit" /\ next.user = tx[q].user
          /\ next.report = r /\ next.verdict = score /\ next.todo = {} /\ next.marks = {} /\ next.gone = {}
      BY <1>1 DEF Transactions, Statuses, Submitting
    <3> HIDE DEF next
    <3>3. tx'[q] = next /\ tx' \in [Request -> Transactions] /\ \A p \in Request \ {q} : tx'[p] = tx[p]
      BY <3>1, <3>2 DEF MediaInv, TypeOK
    <3> QED
      BY <2>2, <3>2, <3>3
  <2> QED
    BY <2>1, <2>2
<1>3. TypeOK'
  BY <1>1, <1>2 DEF MediaInv, TypeOK
<1>4. Available' = Available /\ Recorded' = Recorded /\ \A u : OwnedBy(u)' = OwnedBy(u)
  BY <1>1 DEF Available, Recorded, OwnedBy
<1>5. /\ r \notin Recorded /\ r \notin objects
      /\ \A p \in Request : /\ r \notin tx[p].gone \cup tx[p].todo \cup tx[p].marks
                            /\ Uploaded(tx[p]) => tx[p].report # r
                            /\ tx[p].does = "moderate" => tx[p].report # r
  BY <1>1 DEF MediaInv, Kept, Shaped, Submitting, Moderating, Recorded, Absent, Rows, TypeOK, Uploaded
<1>6. ASSUME NEW p \in Request \ {q}  PROVE Shaped(tx[p])'
  <2>1. Shaped(tx[p]) /\ tx'[p] = tx[p] /\ tx[p] \in Transactions
    BY <1>2 DEF MediaInv, TypeOK
  <2>2. \A x \in Report : x # r => author'[x] = author[x]
    BY <1>1 DEF MediaInv, TypeOK
  <2>3. tx[p].does = "submit" => Submitting(tx[p])'
    BY <1>1, <1>5, <2>1, <2>2 DEF Shaped, Submitting, Uploaded
  <2>4. tx[p].does = "moderate" => Moderating(tx[p])'
    BY <1>1, <1>4, <2>1 DEF Shaped, Moderating
  <2>5. tx[p].does = "purge" => Purging(tx[p])'
    BY <1>4, <2>1 DEF Shaped, Purging
  <2>6. tx[p].gone \subseteq Report /\ tx[p].todo \subseteq Report /\ r \notin tx[p].gone /\ r \notin tx[p].todo
    BY <1>5, <2>1 DEF Transactions
  <2>7. tx[p].does = "erase" => ErasingAccount(tx[p])'
    <3> SUFFICES ASSUME tx[p].does = "erase"  PROVE ErasingAccount(tx[p])'
      OBVIOUS
    <3>1. \A x \in tx[p].gone \cup tx[p].todo : author'[x] = tx[p].user
      BY <2>1, <2>2, <2>6 DEF Shaped, ErasingAccount
    <3>2. OwnedBy(tx[p].user)' \cap Available' \cap objects' \subseteq tx[p].todo \cup late'
      \/ tx[p].at = "listing"
      BY <1>1, <1>4, <1>5, <2>1 DEF Shaped, ErasingAccount, Available
    <3> QED
      BY <2>1, <3>1, <3>2 DEF Shaped, ErasingAccount
  <2>8. tx[p].gone \cap objects' = {} /\ \A x \in tx[p].gone \cup tx[p].todo : author'[x] # NoUser
    BY <2>1, <2>2, <2>6 DEF Shaped
  <2> QED
    BY <1>4, <2>1, <2>3, <2>4, <2>5, <2>7, <2>8 DEF Shaped
<1>7. Shaped(tx[q])'
  BY <1>1, <1>2, <1>5, <1>4 DEF Shaped, Submitting, Idle, Recorded, MediaInv, TypeOK
<1>8. \A p, o \in Request : p # o => Apart(tx[p], tx[o])'
  <2> SUFFICES ASSUME NEW p \in Request, NEW o \in Request, p # o  PROVE Apart(tx[p], tx[o])'
    OBVIOUS
  <2>1. CASE p # q /\ o # q
    <3>1. Apart(tx[p], tx[o]) /\ tx'[p] = tx[p] /\ tx'[o] = tx[o]
      BY <1>2, <2>1 DEF MediaInv
    <3> QED
      BY <1>4, <3>1 DEF Apart, LockSet, Erasing, Uploaded
  <2>2. CASE p = q /\ o # q
    BY <1>2, <1>5, <2>2 DEF Apart, LockSet, Erasing, Uploaded, Idle
  <2>3. CASE p # q /\ o = q
    BY <1>2, <1>5, <2>3 DEF Apart, LockSet, Erasing, Uploaded, Idle
  <2> QED
    BY <2>1, <2>2, <2>3
<1>9. Kept'
  <2>1. MissingEvidenceIsExplained'
    <3>1. \A p \in Request : tx[p].gone \subseteq tx'[p].gone
      BY <1>1, <1>2 DEF Submitting
    <3> QED
      BY <1>1, <1>4, <3>1 DEF MediaInv, Kept, MissingEvidenceIsExplained
  <2>2. OrphansAreExplained'
    <3> SUFFICES ASSUME NEW x \in objects', x \notin Available
                 PROVE  x \in stranded' \cup late' \/ \E p \in Request : tx'[p].does = "submit" /\ tx'[p].report = x
      BY <1>4 DEF OrphansAreExplained
    <3>1. CASE x = r
      BY <1>2, <1>5, <3>1
    <3>2. CASE x # r
      <4>1. x \in stranded \cup late \/ \E p \in Request : tx[p].does = "submit" /\ tx[p].report = x
        BY <3>2 DEF MediaInv, Kept, OrphansAreExplained
      <4>2. x # tx[q].report
        BY <1>1 DEF Submitting, MediaInv, TypeOK
      <4> QED
        BY <1>1, <1>2, <4>1, <4>2
    <3> QED
      BY <3>1, <3>2
  <2>3. \A x \in Recorded' : /\ author'[x] = reports'[x].owner
                             /\ reports'[x].status = "rejected" => reports'[x].deleted # Never
                             /\ reports'[x].deleted # Never => x \notin objects'
    BY <1>1, <1>4, <1>5 DEF MediaInv, Kept, TypeOK, Recorded
  <2>4. \A x \in objects' : author'[x] # NoUser
    BY <1>1 DEF MediaInv, Kept, TypeOK
  <2> QED
    BY <2>1, <2>2, <2>3, <2>4 DEF Kept
<1> QED
  BY <1>3, <1>6, <1>7, <1>8, <1>9 DEF MediaInv

LEMMA InsertKeepsMedia ==
    ASSUME MediaInv, NEW q \in Request, SubmitInsert(q) \/ SubmitInsertRaises(q)  PROVE MediaInv'
<1> USE IdleIsTyped
<1>1. /\ tx[q].at = "stored" /\ tx[q].does = "submit" /\ Submitting(tx[q]) /\ tx[q] \in Transactions
      /\ Shaped(tx[q])
  BY DEF SubmitInsert, SubmitInsertRaises, MediaInv, Shaped, Moderating, Purging, ErasingAccount, TypeOK, Transactions
<1>2. /\ tx' \in [Request -> Transactions] /\ \A p \in Request \ {q} : tx'[p] = tx[p]
      /\ tx'[q].at = "ready" \/ tx'[q].at = "discarding"
      /\ tx'[q].does = tx[q].does /\ tx'[q].user = tx[q].user /\ tx'[q].report = tx[q].report
      /\ tx'[q].verdict = tx[q].verdict
      /\ tx'[q].todo = tx[q].todo /\ tx'[q].marks = tx[q].marks /\ tx'[q].gone = tx[q].gone
      /\ tx'[q].at = "ready" => ~UserErasing(q, tx[q].user)
  <2>1. \A at \in {"ready", "discarding"} : [tx[q] EXCEPT !.at = at] \in Transactions
    BY <1>1 DEF Transactions
  <2>2. PICK at \in {"ready", "discarding"} :
            tx' = [tx EXCEPT ![q] = [tx[q] EXCEPT !.at = at]] /\ (at = "ready" => ~UserErasing(q, tx[q].user))
    BY DEF SubmitInsert, SubmitInsertRaises
  <2> DEFINE next == [tx[q] EXCEPT !.at = at]
  <2>3. /\ next \in Transactions /\ next.at = at /\ next.does = tx[q].does /\ next.user = tx[q].user
        /\ next.report = tx[q].report /\ next.verdict = tx[q].verdict
        /\ next.todo = tx[q].todo /\ next.marks = tx[q].marks /\ next.gone = tx[q].gone
    BY <1>1, <2>1 DEF Transactions
  <2>4. tx' = [tx EXCEPT ![q] = next]
    BY <2>2
  <2> HIDE DEF next
  <2>5. tx'[q] = next /\ tx' \in [Request -> Transactions] /\ \A p \in Request \ {q} : tx'[p] = tx[p]
    BY <2>3, <2>4 DEF MediaInv, TypeOK
  <2> QED
    BY <2>2, <2>3, <2>5
<1>3. UNCHANGED <<accounts, reports, objects, expired, author, vanished, stranded, late>>
  BY DEF SubmitInsert, SubmitInsertRaises
<1>4. Shaped(tx[q])'
  BY <1>1, <1>2, <1>3 DEF Shaped, Submitting, Available, Recorded
<1>5. ASSUME NEW p \in Request \ {q}  PROVE Apart(tx[q], tx[p])' /\ Apart(tx[p], tx[q])'
  <2>1. Apart(tx[q], tx[p]) /\ Apart(tx[p], tx[q]) /\ tx'[p] = tx[p]
    BY <1>2 DEF MediaInv
  <2>2. Erasing(tx[p]) /\ tx'[q].at = "ready" => tx[p].user # tx[q].user
    BY <1>2 DEF UserErasing, Erases, Erasing
  <2>3. /\ LockSet(tx[q])' = {} /\ LockSet(tx[p])' = LockSet(tx[p])
        /\ Uploaded(tx[q])' /\ Uploaded(tx[q]) /\ Uploaded(tx[p])' = Uploaded(tx[p])
        /\ ~Erasing(tx[q])' /\ Erasing(tx[p])' = Erasing(tx[p])
    BY <1>1, <1>2, <1>3, <2>1 DEF LockSet, Uploaded, Erasing, OwnedBy, Recorded, Submitting
  <2> QED
    BY <1>1, <1>2, <2>1, <2>2, <2>3 DEF Apart
<1> QED
  BY <1>1, <1>2, <1>3, <1>4, <1>5, StepKeepsMedia

LEMMA DiscardKeepsMedia ==
    ASSUME MediaInv, NEW q \in Request, SubmitDiscard(q) \/ SubmitDiscardRaises(q)  PROVE MediaInv'
<1>1. /\ tx[q].at = "discarding" /\ Uploaded(tx[q]) /\ Submitting(tx[q])
      /\ tx[q].report \in Report /\ tx[q].gone = {}
  BY DEF SubmitDiscard, SubmitDiscardRaises, MediaInv, Shaped, Submitting, Moderating, Purging, ErasingAccount,
     TypeOK, Transactions, Uploaded
<1>2. /\ tx' = [tx EXCEPT ![q] = Idle] /\ UNCHANGED <<accounts, reports, expired, author, late, vanished>>
      /\ objects' \subseteq objects /\ \A r \in objects \ objects' : r = tx[q].report
      /\ stranded \subseteq stranded' /\ stranded' \subseteq stranded \cup {tx[q].report}
      /\ tx[q].report \in objects' => tx[q].report \in stranded'
  <2>1. CASE SubmitDiscard(q)
    BY <2>1 DEF SubmitDiscard
  <2>2. CASE SubmitDiscardRaises(q)
    BY <2>2 DEF SubmitDiscardRaises
  <2> QED
    BY <2>1, <2>2
<1>3. vanished \subseteq Report /\ stranded \subseteq Report
  BY DEF MediaInv, TypeOK
<1> QED
  BY <1>1, <1>2, <1>3, EndKeepsMedia

-------------------------------------------------------------------------------
(* Moderations *)

LEMMA ModerateKeepsMedia ==
    ASSUME MediaInv, NEW q \in Request, NEW r \in Report, NEW verdict \in {"published", "rejected"},
           Moderate(q, r, verdict)
    PROVE  MediaInv'
<1> USE IdleIsTyped
<1> DEFINE at == IF verdict = "rejected" /\ r \in Available THEN "judged" ELSE "crediting"
           next == [Idle EXCEPT !.does = "moderate", !.report = r, !.verdict = verdict,
                                !.user = reports[r].owner, !.at = at]
<1>1. /\ tx' = [tx EXCEPT ![q] = next] /\ tx[q] = Idle /\ r \in Recorded /\ ~RowLocked(q, r)
      /\ UNCHANGED <<accounts, reports, objects, expired, author, vanished, stranded, late>>
  BY DEF Moderate, Begin, MediaInv, Shaped
<1>2. at \in {"judged", "crediting"} /\ (at = "judged" => r \in Available)
      /\ (verdict = "rejected" /\ at # "judged" => reports[r].deleted # Never)
  BY <1>1 DEF Available
<1>3. reports[r].owner \in User
  BY <1>1 DEF Recorded, MediaInv, TypeOK, Rows
<1> HIDE DEF at
<1>4. /\ next \in Transactions /\ next.at = at /\ next.does = "moderate" /\ next.user \in User
      /\ next.report = r /\ next.verdict = verdict /\ next.todo = {} /\ next.marks = {} /\ next.gone = {}
  BY <1>2, <1>3 DEF Idle, Transactions, Statuses
<1> HIDE DEF next
<1>5. tx'[q] = next /\ tx' \in [Request -> Transactions] /\ \A p \in Request \ {q} : tx'[p] = tx[p]
  BY <1>1, <1>4 DEF MediaInv, TypeOK
<1>6. Shaped(tx[q])'
  BY <1>1, <1>2, <1>4, <1>5 DEF Shaped, Moderating, Available, Recorded
<1>7. ASSUME NEW p \in Request \ {q}  PROVE Apart(tx[q], tx[p])' /\ Apart(tx[p], tx[q])'
  <2>1. r \notin LockSet(tx[p])
    BY <1>1 DEF RowLocked, Locks, LockSet
  <2>2. Uploaded(tx[p]) => tx[p].report # r
    BY <1>1 DEF MediaInv, Shaped, Submitting, Uploaded, Recorded
  <2> QED
    BY <1>1, <1>2, <1>4, <1>5, <2>1, <2>2 DEF Apart, LockSet, Erasing, Uploaded, OwnedBy, Recorded
<1> QED
  BY <1>1, <1>4, <1>5, <1>6, <1>7, StepKeepsMedia DEF Idle, Uploaded

LEMMA CreditKeepsMedia ==
    ASSUME MediaInv, NEW q \in Request, Credit(q)  PROVE MediaInv'
<1> USE IdleIsTyped
<1>1. /\ tx[q].at = "crediting" /\ tx[q].does = "moderate" /\ Moderating(tx[q]) /\ tx[q] \in Transactions
      /\ Shaped(tx[q])
  BY DEF Credit, MediaInv, Shaped, Submitting, Moderating, Purging, ErasingAccount, TypeOK, Transactions
<1> DEFINE next == [tx[q] EXCEPT !.at = "ready"]
<1>2. /\ next \in Transactions /\ next.at = "ready" /\ next.does = tx[q].does /\ next.user = tx[q].user
      /\ next.report = tx[q].report /\ next.verdict = tx[q].verdict
      /\ next.todo = tx[q].todo /\ next.marks = tx[q].marks /\ next.gone = tx[q].gone
  BY <1>1 DEF Transactions
<1>3. /\ tx' = [tx EXCEPT ![q] = next]
      /\ UNCHANGED <<accounts, reports, objects, expired, author, vanished, stranded, late>>
  BY DEF Credit
<1> HIDE DEF next
<1>4. tx'[q] = next /\ tx' \in [Request -> Transactions] /\ \A p \in Request \ {q} : tx'[p] = tx[p]
  BY <1>2, <1>3 DEF MediaInv, TypeOK
<1>5. Shaped(tx[q])'
  BY <1>1, <1>2, <1>3, <1>4 DEF Shaped, Moderating, Available, Recorded
<1>6. ASSUME NEW p \in Request \ {q}  PROVE Apart(tx[q], tx[p])' /\ Apart(tx[p], tx[q])'
  <2>1. Apart(tx[q], tx[p]) /\ Apart(tx[p], tx[q]) /\ tx'[p] = tx[p]
    BY <1>4 DEF MediaInv
  <2> QED
    BY <1>1, <1>2, <1>3, <1>4, <2>1 DEF Apart, LockSet, Erasing, Uploaded, OwnedBy, Recorded
<1> QED
  BY <1>1, <1>2, <1>3, <1>4, <1>5, <1>6, StepKeepsMedia DEF Uploaded

LEMMA RejectKeepsMedia ==
    ASSUME MediaInv, NEW q \in Request, RejectDelete(q) \/ RejectRaises(q)  PROVE MediaInv'
<1> USE IdleIsTyped
<1>1. /\ tx[q].at = "judged" /\ tx[q].does = "moderate" /\ Moderating(tx[q]) /\ tx[q] \in Transactions
      /\ Shaped(tx[q]) /\ tx[q].gone = {} /\ tx[q].marks = {} /\ tx[q].report \in Available /\ tx[q].report \in Report
  BY DEF RejectDelete, RejectRaises, MediaInv, Shaped, Submitting, Moderating, Purging, ErasingAccount, TypeOK,
     Transactions, Recorded
<1>2. CASE RejectRaises(q)
  BY <1>1, <1>2, EndKeepsMedia DEF RejectRaises, DeleteRaises, MediaInv, TypeOK, Uploaded
<1>3. CASE RejectDelete(q)
  <2> DEFINE next == [[tx[q] EXCEPT !.at = "crediting", !.marks = {tx[q].report}] EXCEPT !.gone = @ \cup {tx[q].report}]
  <2>2. /\ next \in Transactions /\ next.at = "crediting" /\ next.does = tx[q].does /\ next.user = tx[q].user
        /\ next.report = tx[q].report /\ next.verdict = tx[q].verdict
        /\ next.todo = tx[q].todo /\ next.marks = {tx[q].report} /\ next.gone = {tx[q].report}
    BY <1>1 DEF Transactions
  <2>3. /\ tx' = [tx EXCEPT ![q] = next] /\ objects' = objects \ {tx[q].report}
        /\ UNCHANGED <<accounts, reports, expired, author, vanished, stranded, late>>
    BY <1>3 DEF RejectDelete, DeleteObject
  <2> HIDE DEF next
  <2>4. tx'[q] = next /\ tx' \in [Request -> Transactions] /\ \A p \in Request \ {q} : tx'[p] = tx[p]
    BY <2>2, <2>3 DEF MediaInv, TypeOK
  <2>5. Available' = Available /\ Recorded' = Recorded /\ \A u : OwnedBy(u)' = OwnedBy(u)
    BY <2>3 DEF Available, Recorded, OwnedBy
  <2>6. author[tx[q].report] # NoUser
    BY <1>1, Sentinels DEF MediaInv, Kept, Available, Recorded, TypeOK, Rows
  <2>7. Shaped(tx[q])'
    BY <1>1, <2>2, <2>3, <2>4, <2>5, <2>6 DEF Shaped, Moderating
  <2>8. ASSUME NEW p \in Request \ {q}  PROVE Apart(tx[q], tx[p])' /\ Apart(tx[p], tx[q])'
    <3>1. Apart(tx[q], tx[p]) /\ Apart(tx[p], tx[q]) /\ tx'[p] = tx[p]
      BY <2>4 DEF MediaInv
    <3>2. Uploaded(tx[p]) => tx[p].report # tx[q].report
      BY <1>1 DEF MediaInv, Shaped, Submitting, Uploaded, Available, Recorded
    <3> QED
      BY <1>1, <2>2, <2>4, <2>5, <3>1, <3>2 DEF Apart, LockSet, Erasing, Uploaded
  <2>9. \A r \in objects \ objects' : r \in tx'[q].gone
    BY <2>2, <2>3, <2>4
  <2> QED
    BY <1>1, <2>2, <2>3, <2>4, <2>7, <2>8, <2>9, RequestMovesAlone DEF MediaInv, TypeOK, Uploaded
<1> QED
  BY <1>2, <1>3

-------------------------------------------------------------------------------
(* Purges *)

LEMMA PurgeSelectKeepsMedia ==
    ASSUME MediaInv, NEW q \in Request, PurgeSelect(q)  PROVE MediaInv'
<1> USE IdleIsTyped
<1> DEFINE next == [Idle EXCEPT !.at = "purging", !.does = "purge", !.todo = expired \cap Available]
<1>1. /\ tx' = [tx EXCEPT ![q] = next] /\ tx[q] = Idle
      /\ UNCHANGED <<accounts, reports, objects, expired, author, vanished, stranded, late>>
  BY DEF PurgeSelect, Begin, MediaInv, Shaped
<1>2. /\ next \in Transactions /\ next.at = "purging" /\ next.does = "purge" /\ next.report = 0
      /\ next.todo = expired \cap Available /\ next.marks = {} /\ next.gone = {}
  BY DEF Idle, Transactions, Statuses, MediaInv, TypeOK
<1> HIDE DEF next
<1>3. tx'[q] = next /\ tx' \in [Request -> Transactions] /\ \A p \in Request \ {q} : tx'[p] = tx[p]
  BY <1>1, <1>2 DEF MediaInv, TypeOK
<1>4. \A r \in next.todo : author'[r] # NoUser /\ r \in Recorded
  BY <1>1, <1>2, Sentinels DEF MediaInv, Kept, Available, Recorded, TypeOK, Rows
<1>5. Shaped(tx[q])'
  BY <1>1, <1>2, <1>3, <1>4 DEF Shaped, Purging
<1>6. ASSUME NEW p \in Request \ {q}  PROVE Apart(tx[q], tx[p])' /\ Apart(tx[p], tx[q])'
  <2>1. Uploaded(tx[p]) => tx[p].report \notin Recorded
    BY DEF MediaInv, Shaped, Submitting, Uploaded, Recorded
  <2> QED
    BY <1>2, <1>3, <1>4, <2>1 DEF Apart, LockSet, Erasing, Uploaded
<1> QED
  BY <1>1, <1>2, <1>3, <1>5, <1>6, StepKeepsMedia DEF Idle, Uploaded

\* The object of r leaves the bucket, or the call raised and it may have left.
LEMMA PurgeDeleteKeepsMedia ==
    ASSUME MediaInv, NEW q \in Request, NEW r \in Report, PurgeDelete(q, r) \/ PurgeRaises(q, r)  PROVE MediaInv'
<1> USE IdleIsTyped
<1>1. /\ tx[q].at = "purging" /\ tx[q].does = "purge" /\ Purging(tx[q]) /\ tx[q] \in Transactions
      /\ Shaped(tx[q]) /\ r \in tx[q].todo /\ author[r] # NoUser
  BY DEF PurgeDelete, PurgeRaises, Oldest, MediaInv, Shaped, Submitting, Moderating, Purging, ErasingAccount,
     TypeOK, Transactions
<1>2. PICK next \in Transactions :
          /\ tx' = [tx EXCEPT ![q] = next] /\ objects' \subseteq objects /\ vanished' \subseteq Report
          /\ vanished \subseteq vanished'
          /\ \A x \in objects \ objects' : x \in vanished' \cup next.gone
          /\ UNCHANGED <<accounts, reports, expired, author, stranded, late>>
          /\ next.does = "purge" /\ next.user = tx[q].user
          /\ next.todo = tx[q].todo \ {r} /\ next.marks = tx[q].marks
          /\ \/ next.at = "purging" /\ next.gone = tx[q].gone
             \/ /\ next.at = "marking" /\ next.report = r /\ next.gone = tx[q].gone \cup {r}
                /\ r \notin objects'
  <2>1. CASE PurgeDelete(q, r)
    <3> DEFINE next == [[tx[q] EXCEPT !.at = "marking", !.report = r, !.todo = @ \ {r}] EXCEPT !.gone = @ \cup {r}]
    <3>1. /\ next \in Transactions /\ next.at = "marking" /\ next.does = tx[q].does /\ next.user = tx[q].user
          /\ next.report = r /\ next.todo = tx[q].todo \ {r} /\ next.marks = tx[q].marks
          /\ next.gone = tx[q].gone \cup {r}
      BY <1>1 DEF Transactions
    <3>2. /\ tx' = [tx EXCEPT ![q] = next] /\ objects' = objects \ {r}
          /\ UNCHANGED <<accounts, reports, expired, author, vanished, stranded, late>>
      BY <2>1 DEF PurgeDelete, DeleteObject
    <3> HIDE DEF next
    <3> QED
      BY <1>1, <3>1, <3>2 DEF MediaInv, TypeOK
  <2>2. CASE PurgeRaises(q, r)
    <3> DEFINE next == [tx[q] EXCEPT !.todo = @ \ {r}]
    <3>1. /\ next \in Transactions /\ next.at = tx[q].at /\ next.does = tx[q].does /\ next.user = tx[q].user
          /\ next.report = tx[q].report /\ next.todo = tx[q].todo \ {r} /\ next.marks = tx[q].marks
          /\ next.gone = tx[q].gone
      BY <1>1 DEF Transactions
    <3>2. tx' = [tx EXCEPT ![q] = next] /\ UNCHANGED <<accounts, reports, expired, author, stranded, late>>
      BY <2>2 DEF PurgeRaises, DeleteRaises
    <3>3. /\ objects' \subseteq objects /\ vanished' \subseteq Report /\ vanished \subseteq vanished'
          /\ \A x \in objects \ objects' : x \in vanished'
      BY <2>2 DEF PurgeRaises, DeleteRaises, MediaInv, TypeOK
    <3> HIDE DEF next
    <3> QED
      BY <1>1, <3>1, <3>2, <3>3
  <2> QED
    BY <2>1, <2>2
<1>3. tx'[q] = next /\ tx' \in [Request -> Transactions] /\ \A p \in Request \ {q} : tx'[p] = tx[p]
  BY <1>2 DEF MediaInv, TypeOK
<1>4. Available' = Available /\ Recorded' = Recorded /\ \A u : OwnedBy(u)' = OwnedBy(u)
  BY <1>2 DEF Available, Recorded, OwnedBy
<1>5. Shaped(tx[q])'
  <2>1. Purging(tx[q])'
    BY <1>1, <1>2, <1>3, <1>4 DEF Purging
  <2> QED
    BY <1>1, <1>2, <1>3, <1>4, <2>1 DEF Shaped
<1>6. ASSUME NEW p \in Request \ {q}  PROVE Apart(tx[q], tx[p])' /\ Apart(tx[p], tx[q])'
  <2>1. Apart(tx[q], tx[p]) /\ Apart(tx[p], tx[q]) /\ tx'[p] = tx[p]
    BY <1>3 DEF MediaInv
  <2> QED
    BY <1>1, <1>2, <1>3, <1>4, <2>1 DEF Apart, LockSet, Erasing, Uploaded
<1> QED
  BY <1>1, <1>2, <1>3, <1>5, <1>6, RequestMovesAlone DEF MediaInv, TypeOK, Uploaded

LEMMA PurgeMarkKeepsMedia ==
    ASSUME MediaInv, NEW q \in Request, PurgeMark(q)  PROVE MediaInv'
<1> USE IdleIsTyped
<1>1. /\ tx[q].at = "marking" /\ tx[q].does = "purge" /\ Purging(tx[q]) /\ tx[q] \in Transactions /\ Shaped(tx[q])
      /\ ~RowLocked(q, tx[q].report)
  BY DEF PurgeMark, MediaInv, Shaped, Submitting, Moderating, Purging, ErasingAccount, TypeOK, Transactions
<1> DEFINE marked == {tx[q].report} \cap Available
           next == [tx[q] EXCEPT !.at = "purging", !.marks = @ \cup marked]
<1>2. /\ next \in Transactions /\ next.at = "purging" /\ next.does = tx[q].does /\ next.user = tx[q].user
      /\ next.todo = tx[q].todo /\ next.marks = tx[q].marks \cup marked /\ next.gone = tx[q].gone
  BY <1>1 DEF Transactions, Available, Recorded
<1>3. /\ tx' = [tx EXCEPT ![q] = next]
      /\ UNCHANGED <<accounts, reports, objects, expired, author, vanished, stranded, late>>
  BY DEF PurgeMark
<1> HIDE DEF next
<1>4. tx'[q] = next /\ tx' \in [Request -> Transactions] /\ \A p \in Request \ {q} : tx'[p] = tx[p]
  BY <1>2, <1>3 DEF MediaInv, TypeOK
<1>5. Available' = Available /\ Recorded' = Recorded /\ \A u : OwnedBy(u)' = OwnedBy(u)
  BY <1>3 DEF Available, Recorded, OwnedBy
<1>6. Shaped(tx[q])'
  <2>1. Purging(tx[q])'
    BY <1>1, <1>2, <1>4, <1>5 DEF Purging
  <2> QED
    BY <1>1, <1>2, <1>3, <1>4, <1>5, <2>1 DEF Shaped, Purging
<1>7. ASSUME NEW p \in Request \ {q}  PROVE Apart(tx[q], tx[p])' /\ Apart(tx[p], tx[q])'
  <2>1. Apart(tx[q], tx[p]) /\ Apart(tx[p], tx[q]) /\ tx'[p] = tx[p]
    BY <1>4 DEF MediaInv
  <2>2. tx[q].report \notin LockSet(tx[p])
    BY <1>1 DEF RowLocked, Locks, LockSet
  <2>3. LockSet(tx[p])' = LockSet(tx[p]) /\ LockSet(tx[q])' = LockSet(tx[q]) \cup marked
    BY <1>1, <1>2, <1>4, <1>5, <2>1 DEF LockSet
  <2> QED
    BY <1>1, <1>2, <1>4, <2>1, <2>2, <2>3 DEF Apart, Erasing, Uploaded
<1> QED
  BY <1>1, <1>2, <1>3, <1>4, <1>6, <1>7, StepKeepsMedia DEF Uploaded

LEMMA PurgeDoneKeepsMedia ==
    ASSUME MediaInv, NEW q \in Request, PurgeDone(q)  PROVE MediaInv'
<1> USE IdleIsTyped
<1>1. /\ tx[q].at = "purging" /\ tx[q].does = "purge" /\ Purging(tx[q]) /\ tx[q] \in Transactions /\ Shaped(tx[q])
  BY DEF PurgeDone, MediaInv, Shaped, Submitting, Moderating, Purging, ErasingAccount, TypeOK, Transactions
<1> DEFINE next == [tx[q] EXCEPT !.at = "ready"]
<1>2. /\ next \in Transactions /\ next.at = "ready" /\ next.does = tx[q].does /\ next.user = tx[q].user
      /\ next.todo = tx[q].todo /\ next.marks = tx[q].marks /\ next.gone = tx[q].gone
  BY <1>1 DEF Transactions
<1>3. /\ tx' = [tx EXCEPT ![q] = next]
      /\ UNCHANGED <<accounts, reports, objects, expired, author, vanished, stranded, late>>
  BY DEF PurgeDone
<1> HIDE DEF next
<1>4. tx'[q] = next /\ tx' \in [Request -> Transactions] /\ \A p \in Request \ {q} : tx'[p] = tx[p]
  BY <1>2, <1>3 DEF MediaInv, TypeOK
<1>5. Available' = Available /\ Recorded' = Recorded /\ \A u : OwnedBy(u)' = OwnedBy(u)
  BY <1>3 DEF Available, Recorded, OwnedBy
<1>6. Shaped(tx[q])'
  BY <1>1, <1>2, <1>3, <1>4, <1>5 DEF Shaped, Purging
<1>7. ASSUME NEW p \in Request \ {q}  PROVE Apart(tx[q], tx[p])' /\ Apart(tx[p], tx[q])'
  <2>1. Apart(tx[q], tx[p]) /\ Apart(tx[p], tx[q]) /\ tx'[p] = tx[p]
    BY <1>4 DEF MediaInv
  <2> QED
    BY <1>1, <1>2, <1>4, <1>5, <2>1 DEF Apart, LockSet, Erasing, Uploaded
<1> QED
  BY <1>1, <1>2, <1>3, <1>4, <1>6, <1>7, StepKeepsMedia DEF Uploaded

-------------------------------------------------------------------------------
(* Erasures of accounts *)

LEMMA EraseRequestKeepsMedia ==
    ASSUME MediaInv, NEW q \in Request, NEW u \in User, EraseRequest(q, u)  PROVE MediaInv'
<1> USE IdleIsTyped
<1> DEFINE next == [Idle EXCEPT !.at = "listing", !.does = "erase", !.user = u]
<1>1. /\ tx' = [tx EXCEPT ![q] = next] /\ tx[q] = Idle
      /\ UNCHANGED <<accounts, reports, objects, expired, author, vanished, stranded, late>>
  BY DEF EraseRequest, Begin, MediaInv, Shaped
<1>2. /\ next \in Transactions /\ next.at = "listing" /\ next.does = "erase" /\ next.user = u
      /\ next.todo = {} /\ next.marks = {} /\ next.gone = {}
  BY DEF Idle, Transactions, Statuses
<1> HIDE DEF next
<1>3. tx'[q] = next /\ tx' \in [Request -> Transactions] /\ \A p \in Request \ {q} : tx'[p] = tx[p]
  BY <1>1, <1>2 DEF MediaInv, TypeOK
<1>4. Shaped(tx[q])'
  BY <1>2, <1>3 DEF Shaped, ErasingAccount
<1>5. \A p \in Request \ {q} : Apart(tx[q], tx[p])' /\ Apart(tx[p], tx[q])'
  BY <1>2, <1>3 DEF Apart, LockSet, Erasing, Uploaded
<1> QED
  BY <1>1, <1>2, <1>3, <1>4, <1>5, StepKeepsMedia DEF Idle, Uploaded

LEMMA EraseListKeepsMedia ==
    ASSUME MediaInv, NEW q \in Request, EraseList(q)  PROVE MediaInv'
<1> USE IdleIsTyped
<1>1. /\ tx[q].at = "listing" /\ tx[q].does = "erase" /\ ErasingAccount(tx[q]) /\ tx[q] \in Transactions
      /\ Shaped(tx[q])
  BY DEF EraseList, MediaInv, Shaped, Submitting, Moderating, Purging, ErasingAccount, TypeOK, Transactions
<1> DEFINE keys == OwnedBy(tx[q].user) \cap Available
           next == [tx[q] EXCEPT !.at = "erasing", !.todo = keys]
<1>2. keys \subseteq Report
  BY DEF Available, Recorded
<1>3. /\ next \in Transactions /\ next.at = "erasing" /\ next.does = tx[q].does /\ next.user = tx[q].user
      /\ next.report = tx[q].report /\ next.todo = keys /\ next.marks = tx[q].marks /\ next.gone = tx[q].gone
  BY <1>1, <1>2 DEF Transactions
<1>4. /\ tx' = [tx EXCEPT ![q] = next]
      /\ UNCHANGED <<accounts, reports, objects, expired, author, vanished, stranded, late>>
  BY DEF EraseList
<1> HIDE DEF next
<1>5. tx'[q] = next /\ tx' \in [Request -> Transactions] /\ \A p \in Request \ {q} : tx'[p] = tx[p]
  BY <1>3, <1>4 DEF MediaInv, TypeOK
<1>6. Available' = Available /\ Recorded' = Recorded /\ \A u : OwnedBy(u)' = OwnedBy(u)
  BY <1>4 DEF Available, Recorded, OwnedBy
<1>7. \A r \in keys : author[r] = tx[q].user /\ author[r] # NoUser /\ r \in Recorded
  BY <1>1, Sentinels DEF OwnedBy, MediaInv, Kept, Available, ErasingAccount
<1>8. Shaped(tx[q])'
  <2>1. ErasingAccount(tx[q])'
    BY <1>1, <1>3, <1>4, <1>5, <1>6, <1>7 DEF ErasingAccount
  <2> QED
    BY <1>1, <1>3, <1>4, <1>5, <1>6, <1>7, <2>1 DEF Shaped
<1>9. ASSUME NEW p \in Request \ {q}  PROVE Apart(tx[q], tx[p])' /\ Apart(tx[p], tx[q])'
  <2>1. Apart(tx[q], tx[p]) /\ Apart(tx[p], tx[q]) /\ tx'[p] = tx[p]
    BY <1>5 DEF MediaInv
  <2>2. Uploaded(tx[p]) => tx[p].report \notin Recorded
    BY DEF MediaInv, Shaped, Submitting, Uploaded, Recorded
  <2> QED
    BY <1>1, <1>3, <1>5, <1>6, <1>7, <2>1, <2>2 DEF Apart, LockSet, Erasing, Uploaded
<1> QED
  BY <1>1, <1>3, <1>4, <1>5, <1>8, <1>9, StepKeepsMedia DEF Uploaded

LEMMA EraseDeleteKeepsMedia ==
    ASSUME MediaInv, NEW q \in Request, NEW r \in Report, EraseDelete(q, r)  PROVE MediaInv'
<1> USE IdleIsTyped
<1>1. /\ tx[q].at = "erasing" /\ tx[q].does = "erase" /\ ErasingAccount(tx[q]) /\ tx[q] \in Transactions
      /\ Shaped(tx[q]) /\ r \in tx[q].todo
  BY DEF EraseDelete, MediaInv, Shaped, Submitting, Moderating, Purging, ErasingAccount, TypeOK, Transactions
<1> DEFINE next == [[tx[q] EXCEPT !.todo = @ \ {r}] EXCEPT !.gone = @ \cup {r}]
<1>2. /\ next \in Transactions /\ next.at = tx[q].at /\ next.does = tx[q].does /\ next.user = tx[q].user
      /\ next.todo = tx[q].todo \ {r} /\ next.marks = tx[q].marks /\ next.gone = tx[q].gone \cup {r}
  BY <1>1 DEF Transactions
<1>3. /\ tx' = [tx EXCEPT ![q] = next] /\ objects' = objects \ {r}
      /\ UNCHANGED <<accounts, reports, expired, author, vanished, stranded, late>>
  BY DEF EraseDelete, DeleteObject
<1> HIDE DEF next
<1>4. tx'[q] = next /\ tx' \in [Request -> Transactions] /\ \A p \in Request \ {q} : tx'[p] = tx[p]
  BY <1>2, <1>3 DEF MediaInv, TypeOK
<1>5. Available' = Available /\ Recorded' = Recorded /\ \A u : OwnedBy(u)' = OwnedBy(u)
  BY <1>3 DEF Available, Recorded, OwnedBy
<1>6. Shaped(tx[q])'
  <2>1. ErasingAccount(tx[q])'
    BY <1>1, <1>2, <1>3, <1>4, <1>5 DEF ErasingAccount
  <2> QED
    BY <1>1, <1>2, <1>3, <1>4, <1>5, <2>1 DEF Shaped
<1>7. ASSUME NEW p \in Request \ {q}  PROVE Apart(tx[q], tx[p])' /\ Apart(tx[p], tx[q])'
  <2>1. Apart(tx[q], tx[p]) /\ Apart(tx[p], tx[q]) /\ tx'[p] = tx[p]
    BY <1>4 DEF MediaInv
  <2> QED
    BY <1>1, <1>2, <1>4, <1>5, <2>1 DEF Apart, LockSet, Erasing, Uploaded
<1> QED
  BY <1>1, <1>2, <1>3, <1>4, <1>6, <1>7, RequestMovesAlone DEF MediaInv, TypeOK, Uploaded

LEMMA EraseRaisesKeepsMedia ==
    ASSUME MediaInv, NEW q \in Request, NEW r \in Report, EraseRaises(q, r)  PROVE MediaInv'
<1>1. tx[q] \in Transactions /\ tx[q].at = "erasing" /\ ~Uploaded(tx[q])
  BY DEF EraseRaises, MediaInv, TypeOK, Shaped, Submitting, Uploaded
<1>2. /\ tx' = [tx EXCEPT ![q] = Idle] /\ UNCHANGED <<accounts, reports, expired, author, stranded, late>>
      /\ objects' \subseteq objects /\ vanished \subseteq vanished' /\ vanished' \subseteq Report
      /\ \A x \in objects \ objects' : x \in vanished'
      /\ tx[q].gone \subseteq vanished'
  BY <1>1 DEF EraseRaises, MediaInv, TypeOK, Transactions
<1> QED
  BY <1>1, <1>2, EndKeepsMedia DEF MediaInv, TypeOK

LEMMA EraseWaitsKeepMedia ==
    ASSUME MediaInv, NEW q \in Request, EraseAccount(q) \/ EraseCascade(q)  PROVE MediaInv'
<1> USE IdleIsTyped
<1>1. /\ tx[q].at \in {"erasing", "cascading"} /\ tx[q].does = "erase" /\ ErasingAccount(tx[q])
      /\ tx[q] \in Transactions /\ Shaped(tx[q]) /\ tx[q].todo = {}
  BY DEF EraseAccount, EraseCascade, MediaInv, Shaped, Submitting, Moderating, Purging, ErasingAccount, TypeOK,
     Transactions
<1>2. PICK at \in {"cascading", "ready"} :
          /\ tx' = [tx EXCEPT ![q].at = at]
          /\ at = "cascading" => \A p \in Request \ {q} : ~References(p, tx[q].user)
          /\ at = "ready" => tx[q].at = "cascading" /\ \A r \in OwnedBy(tx[q].user) : ~RowLocked(q, r)
  BY DEF EraseAccount, EraseCascade
<1> DEFINE next == [tx[q] EXCEPT !.at = at]
<1>3. /\ next \in Transactions /\ next.at = at /\ next.does = tx[q].does /\ next.user = tx[q].user
      /\ next.todo = {} /\ next.marks = tx[q].marks /\ next.gone = tx[q].gone
  BY <1>1 DEF Transactions
<1>4. /\ tx' = [tx EXCEPT ![q] = next]
      /\ UNCHANGED <<accounts, reports, objects, expired, author, vanished, stranded, late>>
  BY <1>2 DEF EraseAccount, EraseCascade
<1> HIDE DEF next
<1>5. tx'[q] = next /\ tx' \in [Request -> Transactions] /\ \A p \in Request \ {q} : tx'[p] = tx[p]
  BY <1>3, <1>4 DEF MediaInv, TypeOK
<1>6. Available' = Available /\ Recorded' = Recorded /\ \A u : OwnedBy(u)' = OwnedBy(u)
  BY <1>4 DEF Available, Recorded, OwnedBy
<1>7. Shaped(tx[q])'
  <2>1. ErasingAccount(tx[q])'
    BY <1>1, <1>3, <1>4, <1>5, <1>6 DEF ErasingAccount
  <2> QED
    BY <1>1, <1>3, <1>4, <1>5, <1>6, <2>1 DEF Shaped
<1>8. ASSUME NEW p \in Request \ {q}  PROVE Apart(tx[q], tx[p])' /\ Apart(tx[p], tx[q])'
  <2>1. Apart(tx[q], tx[p]) /\ Apart(tx[p], tx[q]) /\ tx'[p] = tx[p]
    BY <1>5 DEF MediaInv
  <2>2. at = "ready" => OwnedBy(tx[q].user) \cap LockSet(tx[p]) = {}
    BY <1>2 DEF RowLocked, Locks, LockSet
  <2>3. LockSet(tx[p])' = LockSet(tx[p])
    BY <1>6, <2>1 DEF LockSet
  <2>4. LockSet(tx[q])' = IF at = "ready" THEN OwnedBy(tx[q].user) ELSE {}
    BY <1>1, <1>3, <1>5, <1>6 DEF LockSet, ErasingAccount
  <2>5. tx[p].does = "submit" /\ tx[p].at = "ready" => tx[p].user # tx[q].user
    <3>1. CASE at = "cascading"
      BY <1>2, <3>1 DEF References
    <3>2. CASE at = "ready"
      BY <1>1, <1>2, <2>1, <3>2 DEF Apart, Erasing
    <3> QED
      BY <3>1, <3>2
  <2> QED
    BY <1>1, <1>3, <1>5, <2>1, <2>2, <2>3, <2>4, <2>5 DEF Apart, Erasing, Uploaded
<1> QED
  BY <1>1, <1>3, <1>4, <1>5, <1>7, <1>8, StepKeepsMedia DEF Uploaded

-------------------------------------------------------------------------------
(* Failures and time *)

LEMMA RollbackKeepsMedia ==
    ASSUME MediaInv, NEW q \in Request, Discard(q)  PROVE MediaInv'
<1>1. /\ tx[q] \in Transactions /\ (tx[q].does = "submit" => Submitting(tx[q]))
      /\ vanished \subseteq Report /\ stranded \subseteq Report
  BY DEF MediaInv, TypeOK, Shaped
<1>2. /\ tx' = [tx EXCEPT ![q] = Idle] /\ UNCHANGED <<accounts, reports, objects, expired, author, late>>
      /\ vanished' = vanished \cup tx[q].gone
      /\ stranded' = IF tx[q].does = "submit" THEN stranded \cup ({tx[q].report} \ {0}) ELSE stranded
  BY DEF Discard
<1>3. tx[q].gone \subseteq Report /\ tx[q].report \in Report \cup {0}
  BY <1>1 DEF Transactions
<1>4. stranded \subseteq stranded' /\ stranded' \subseteq Report
  BY <1>1, <1>2, <1>3
<1>5. Uploaded(tx[q]) => tx[q].report \in stranded'
  BY <1>1, <1>2, IdleIsTyped DEF Uploaded, Submitting
<1> QED
  BY <1>1, <1>2, <1>3, <1>4, <1>5, EndKeepsMedia

LEMMA TimeKeepsMedia ==
    ASSUME MediaInv, NEW r \in Report, Expire(r) \/ Lapse(r)  PROVE MediaInv'
<1>1. /\ UNCHANGED <<accounts, reports, author, tx, stranded, late>>
      /\ objects' \subseteq objects /\ vanished \subseteq vanished' /\ vanished' \subseteq Report
      /\ \A x \in objects \ objects' : x \in vanished'
      /\ expired' \subseteq Report
  BY DEF Expire, Lapse, MediaInv, TypeOK
<1>2. Available' = Available /\ Recorded' = Recorded /\ \A u : OwnedBy(u)' = OwnedBy(u)
  BY <1>1 DEF Available, Recorded, OwnedBy
<1>3. ASSUME NEW q \in Request  PROVE Shaped(tx[q])'
  <2>1. Shaped(tx[q])
    BY DEF MediaInv
  <2>2. /\ tx[q].does = "submit" => Submitting(tx[q])'
        /\ tx[q].does = "moderate" => Moderating(tx[q])'
        /\ tx[q].does = "purge" => Purging(tx[q])'
    BY <1>1, <1>2, <2>1 DEF Shaped, Submitting, Moderating, Purging
  <2>3. tx[q].does = "erase" => ErasingAccount(tx[q])'
    BY <1>1, <1>2, <2>1 DEF Shaped, ErasingAccount
  <2> QED
    BY <1>1, <1>2, <2>1, <2>2, <2>3 DEF Shaped
<1>4. \A p, q \in Request : p # q => Apart(tx[p], tx[q])'
  BY <1>1, <1>2 DEF MediaInv, Apart, LockSet, Erasing, Uploaded
<1>5. Kept'
  BY <1>1, <1>2 DEF MediaInv, Kept, MissingEvidenceIsExplained, OrphansAreExplained
<1> QED
  BY <1>1, <1>3, <1>4, <1>5 DEF MediaInv, TypeOK

-------------------------------------------------------------------------------
(* Commits *)

\* What a commit does to each row: it writes only rows it locked and the row it inserts.
LEMMA RowsWritten ==
    ASSUME MediaInv, NEW q \in Request, Commit(q)
    PROVE  /\ reports' \in [Report -> Rows \cup {Absent}]
           /\ \A r \in Report :
                /\ tx[q].does = "submit" /\ r = tx[q].report =>
                       reports'[r] = [owner |-> tx[q].user, status |-> tx[q].verdict, deleted |-> Never]
                /\ ~(tx[q].does = "submit" /\ r = tx[q].report) =>
                       /\ r \notin LockSet(tx[q]) => reports'[r] = reports[r]
                       /\ tx[q].does = "erase" /\ r \in OwnedBy(tx[q].user) => reports'[r] = Absent
                       /\ ~(tx[q].does = "erase" /\ r \in OwnedBy(tx[q].user)) =>
                              /\ reports'[r].owner = reports[r].owner
                              /\ reports'[r].deleted = IF r \in tx[q].marks THEN q ELSE reports[r].deleted
                              /\ reports'[r].status =
                                     IF tx[q].does = "moderate" /\ r = tx[q].report THEN tx[q].verdict ELSE reports[r].status
<1> USE IdleIsTyped
<1>1. /\ tx[q].at = "ready" /\ Shaped(tx[q]) /\ tx[q] \in Transactions
      /\ reports \in [Report -> Rows \cup {Absent}]
      /\ reports' = [r \in Report |-> Written(q, r)]
  BY DEF Commit, MediaInv, TypeOK
<1>2. tx[q].does \in {"submit", "moderate", "purge", "erase"}
  BY <1>1 DEF Shaped, Transactions
<1>3. ASSUME NEW r \in Report
      PROVE  /\ Marked(q, r).owner = reports[r].owner /\ Marked(q, r).status = reports[r].status
             /\ Marked(q, r).deleted = IF r \in tx[q].marks THEN q ELSE reports[r].deleted
             /\ r \notin tx[q].marks => Marked(q, r) = reports[r]
             /\ Marked(q, r) \in Rows \cup {Absent}
             /\ r \in Recorded => Marked(q, r) \in Rows
  <2>1. r \in tx[q].marks => reports[r] \in Rows
    BY <1>1 DEF Shaped, Available, Recorded
  <2>2. r \in Recorded => reports[r] \in Rows
    BY <1>1 DEF Recorded
  <2> QED
    BY <1>1, <2>1, <2>2 DEF Marked, Rows, Absent
<1>4. ASSUME NEW r \in Report, tx[q].does = "submit", r = tx[q].report
      PROVE  reports'[r] = [owner |-> tx[q].user, status |-> tx[q].verdict, deleted |-> Never] /\ reports'[r] \in Rows
  BY <1>1, <1>4 DEF Written, Rows, Shaped, Submitting, Transactions
<1>5. ASSUME NEW r \in Report, tx[q].does = "moderate", r = tx[q].report
      PROVE  /\ reports'[r].owner = reports[r].owner /\ reports'[r].status = tx[q].verdict
             /\ reports'[r].deleted = IF r \in tx[q].marks THEN q ELSE reports[r].deleted
             /\ reports'[r] \in Rows
  <2> DEFINE old == Marked(q, r)
  <2>1. reports'[r] = [old EXCEPT !.status = tx[q].verdict]
    BY <1>1, <1>5 DEF Written
  <2>2. old \in Rows /\ tx[q].verdict \in Statuses
    BY <1>1, <1>3, <1>5 DEF Shaped, Moderating, Transactions
  <2>3. old.owner = reports[r].owner /\ old.deleted = IF r \in tx[q].marks THEN q ELSE reports[r].deleted
    BY <1>3
  <2> HIDE DEF old
  <2> QED
    BY <2>1, <2>2, <2>3 DEF Rows
<1>6. ASSUME NEW r \in Report, tx[q].does = "erase", r \in OwnedBy(tx[q].user)  PROVE reports'[r] = Absent
  BY <1>1, <1>6 DEF Written
<1>7. ASSUME NEW r \in Report, ~(tx[q].does \in {"submit", "moderate"} /\ r = tx[q].report),
             ~(tx[q].does = "erase" /\ r \in OwnedBy(tx[q].user))
      PROVE  reports'[r] = Marked(q, r)
  BY <1>1, <1>7 DEF Written
<1>8. reports' \in [Report -> Rows \cup {Absent}]
  <2>1. \A r \in Report : Written(q, r) \in Rows \cup {Absent}
    BY <1>1, <1>3, <1>4, <1>5, <1>6, <1>7
  <2> QED
    BY <1>1, <2>1
<1>9. ASSUME NEW r \in Report, r \notin LockSet(tx[q]), ~(tx[q].does = "submit" /\ r = tx[q].report)
      PROVE  reports'[r] = reports[r]
  BY <1>1, <1>3, <1>7, <1>9 DEF LockSet
<1> QED
  BY <1>3, <1>4, <1>5, <1>6, <1>7, <1>8, <1>9

LEMMA CommitKeepsMedia ==
    ASSUME MediaInv, NEW q \in Request, Commit(q)  PROVE MediaInv'
<1> USE IdleIsTyped
<1>1. /\ tx[q].at = "ready" /\ Shaped(tx[q]) /\ tx[q] \in Transactions /\ tx[q].does # "nothing"
      /\ UNCHANGED <<objects, expired, author, vanished, stranded>>
      /\ late' = IF tx[q].does = "submit" /\ Listed(tx[q].user) THEN late \cup {tx[q].report} ELSE late
      /\ tx'[q] = Idle /\ tx' \in [Request -> Transactions] /\ \A p \in Request \ {q} : tx'[p] = tx[p]
      /\ accounts' \subseteq User
  BY DEF Commit, MediaInv, TypeOK, Shaped
<1> DEFINE mine(r) == tx[q].does = "submit" /\ r = tx[q].report
           erased(r) == tx[q].does = "erase" /\ r \in OwnedBy(tx[q].user)
<1>2. \A r \in Report : mine(r) => reports[r] = Absent /\ author[r] = tx[q].user /\ tx[q].user \in User
                                   /\ tx[q].verdict # "rejected" /\ r \in objects \cup vanished
  BY <1>1 DEF Shaped, Submitting
<1>3. \A r \in Report : mine(r) => /\ r \in Recorded' /\ r \in Available' /\ reports'[r].owner = tx[q].user
                                   /\ reports'[r].status # "rejected" /\ reports'[r].deleted = Never
  <2> SUFFICES ASSUME NEW r \in Report, mine(r)
               PROVE  /\ r \in Recorded' /\ r \in Available' /\ reports'[r].owner = tx[q].user
                      /\ reports'[r].status # "rejected" /\ reports'[r].deleted = Never
    OBVIOUS
  <2>1. reports'[r] = [owner |-> tx[q].user, status |-> tx[q].verdict, deleted |-> Never]
    BY RowsWritten
  <2>2. reports'[r].owner # NoUser
    BY <1>2, <2>1, Sentinels
  <2> QED
    BY <1>2, <2>1, <2>2 DEF Recorded, Available, Absent
<1>4. ASSUME NEW r \in Report, ~mine(r)
      PROVE  /\ r \notin LockSet(tx[q]) => reports'[r] = reports[r]
             /\ erased(r) => r \notin Recorded'
             /\ ~erased(r) => /\ reports'[r].owner = reports[r].owner
                              /\ reports'[r].deleted = IF r \in tx[q].marks THEN q ELSE reports[r].deleted
                              /\ reports'[r].status =
                                     IF tx[q].does = "moderate" /\ r = tx[q].report THEN tx[q].verdict ELSE reports[r].status
             /\ r \in Recorded' <=> r \in Recorded /\ ~erased(r)
             /\ r \in Available' => r \in Available /\ r \notin tx[q].marks /\ ~erased(r)
  <2>1. /\ r \notin LockSet(tx[q]) => reports'[r] = reports[r]
        /\ erased(r) => reports'[r] = Absent
        /\ ~erased(r) => /\ reports'[r].owner = reports[r].owner
                         /\ reports'[r].deleted = IF r \in tx[q].marks THEN q ELSE reports[r].deleted
                         /\ reports'[r].status =
                                IF tx[q].does = "moderate" /\ r = tx[q].report THEN tx[q].verdict ELSE reports[r].status
        /\ reports'[r] \in Rows \cup {Absent}
    BY <1>4, RowsWritten
  <2>0. reports[r] \in Rows \cup {Absent}
    BY DEF MediaInv, TypeOK
  <2>2. \A row \in Rows \cup {Absent} : row # Absent <=> row.owner # NoUser
    BY Sentinels DEF Rows, Absent
  <2>3. r \in Recorded' <=> r \in Recorded /\ ~erased(r)
    BY <2>0, <2>1, <2>2 DEF Recorded
  <2>4. q # Never
    BY Sentinels DEF Never
  <2>5. r \in Available' => r \in Available /\ r \notin tx[q].marks /\ ~erased(r)
    BY <2>1, <2>3, <2>4 DEF Available
  <2> QED
    BY <2>1, <2>3, <2>5 DEF Recorded
<1>5. ASSUME NEW p \in Request \ {q}
      PROVE  /\ Shaped(tx[p]) /\ Apart(tx[p], tx[q]) /\ Apart(tx[q], tx[p]) /\ tx'[p] = tx[p] /\ tx[p] \in Transactions
  BY <1>1 DEF MediaInv, TypeOK
<1>6. ASSUME NEW p \in Request \ {q}  PROVE Shaped(tx[p])'
  <2>1. \A r \in LockSet(tx[p]) \cap Recorded : reports'[r] = reports[r]
    <3>1. \A r \in Recorded : r \in Report /\ ~mine(r)
      BY <1>2 DEF Recorded
    <3> QED
      BY <1>4, <1>5, <3>1 DEF Apart
  <2>2. tx[p].marks \subseteq Available /\ tx[p].marks \subseteq LockSet(tx[p])
    BY <1>5 DEF Shaped, LockSet
  <2>3. tx[p].marks \subseteq Available'
    BY <2>1, <2>2 DEF Available, Recorded
  <2>4. tx[p].does = "submit" => Submitting(tx[p])'
    <3> SUFFICES ASSUME tx[p].does = "submit", tx[p].at # "submitting"  PROVE reports'[tx[p].report] = Absent
      BY <1>1, <1>5 DEF Shaped, Submitting
    <3>1. tx[p].report \in Report /\ tx[p].report \notin Recorded /\ Uploaded(tx[p])
      BY <1>5 DEF Shaped, Submitting, Recorded, Uploaded
    <3>2. ~mine(tx[p].report)
      BY <1>1, <1>5, <3>1 DEF Apart, Uploaded
    <3> HIDE DEF mine
    <3> QED
      BY <1>4, <3>1, <3>2 DEF Recorded
  <2>5. tx[p].does = "moderate" => Moderating(tx[p])'
    <3> SUFFICES ASSUME tx[p].does = "moderate"  PROVE Moderating(tx[p])'
      OBVIOUS
    <3>1. tx[p].report \in LockSet(tx[p]) /\ Moderating(tx[p]) /\ tx[p].report \in Recorded
      BY <1>5 DEF LockSet, Shaped, Moderating
    <3>2. reports'[tx[p].report] = reports[tx[p].report]
      BY <2>1, <3>1
    <3> QED
      BY <1>5, <3>1, <3>2 DEF Moderating, Available, Recorded
  <2>6. \A r \in tx[p].gone \cup tx[p].todo : r \in Report /\ ~mine(r)
    BY <1>1, <1>5 DEF Apart, Uploaded, Transactions
  <2>7. tx[p].does = "purge" => Purging(tx[p])'
    <3>1. tx[p].gone \cap Available' \subseteq Available
      BY <1>4, <2>6
    <3> QED
      BY <1>5, <3>1 DEF Shaped, Purging
  <2>8. tx[p].does = "erase" => ErasingAccount(tx[p])'
    <3> SUFFICES ASSUME tx[p].does = "erase", tx[p].at # "listing",
                        NEW r \in OwnedBy(tx[p].user)', r \in Available', r \in objects
                 PROVE  r \in tx[p].todo \cup late'
      BY <1>1, <1>5 DEF Shaped, ErasingAccount
    <3>1. r \in Report /\ r \in Recorded' /\ reports'[r].owner = tx[p].user
      BY <1>5 DEF OwnedBy, Recorded
    <3>2. CASE mine(r)
      <4>1. tx[p].user = tx[q].user
        BY <1>3, <3>1, <3>2
      <4>2. Listed(tx[q].user)
        BY <4>1 DEF Listed
      <4> QED
        BY <1>1, <3>2, <4>2
    <3>3. CASE ~mine(r)
      <4>1. r \in Recorded /\ r \in Available /\ reports[r].owner = tx[p].user
        BY <1>4, <3>1, <3>3
      <4> QED
        BY <1>1, <1>5, <4>1 DEF Shaped, ErasingAccount, OwnedBy
    <3> QED
      BY <3>2, <3>3
  <2> QED
    BY <1>1, <1>5, <2>3, <2>4, <2>5, <2>7, <2>8 DEF Shaped
<1>7. Shaped(tx[q])'
  BY <1>1 DEF Shaped, Idle
<1>8. ASSUME NEW p \in Request  PROVE LockSet(tx[p])' \subseteq LockSet(tx[p])
  <2>1. CASE p = q
    BY <1>1, <2>1 DEF LockSet, Idle
  <2>2. CASE p # q
    <3>1. tx[p].does = "erase" /\ tx[p].at = "ready" => OwnedBy(tx[p].user)' \subseteq OwnedBy(tx[p].user)
      <4> SUFFICES ASSUME tx[p].does = "erase", tx[p].at = "ready", NEW r \in OwnedBy(tx[p].user)'
                   PROVE  r \in OwnedBy(tx[p].user)
        BY <1>5, <2>2
      <4>1. r \in Report /\ r \in Recorded' /\ reports'[r].owner = tx[p].user
        BY <1>5, <2>2 DEF OwnedBy, Recorded
      <4>2. ~mine(r)
        BY <1>1, <1>3, <1>5, <2>2, <4>1 DEF Apart, Erasing
      <4> QED
        BY <1>4, <4>1, <4>2 DEF OwnedBy
    <3> QED
      BY <1>5, <2>2, <3>1 DEF LockSet
  <2> QED
    BY <2>1, <2>2
<1>9. \A p, o \in Request : p # o => Apart(tx[p], tx[o])'
  <2> SUFFICES ASSUME NEW p \in Request, NEW o \in Request, p # o  PROVE Apart(tx[p], tx[o])'
    OBVIOUS
  <2>1. Apart(tx[p], tx[o])
    BY DEF MediaInv
  <2>2. LockSet(tx[p])' \cap LockSet(tx[o])' = {}
    BY <1>8, <2>1 DEF Apart
  <2>3. CASE p = q \/ o = q
    BY <1>1, <2>2, <2>3 DEF Apart, Erasing, Uploaded, Idle
  <2>4. CASE p # q /\ o # q
    BY <1>5, <2>1, <2>2, <2>4 DEF Apart, Erasing, Uploaded
  <2> QED
    BY <2>3, <2>4
<1>10. MissingEvidenceIsExplained'
  <2> SUFFICES ASSUME NEW r \in Available', r \notin objects
               PROVE  r \in vanished \/ \E p \in Request : r \in tx'[p].gone
    BY <1>1 DEF MissingEvidenceIsExplained
  <2>0. r \in Report
    BY DEF Available, Recorded
  <2>1. CASE mine(r)
    BY <1>2, <2>0, <2>1
  <2>2. CASE ~mine(r)
    <3>1. r \in Available /\ r \notin tx[q].marks /\ ~erased(r) /\ r \in Recorded
      BY <1>4, <2>0, <2>2 DEF Available
    <3>2. r \notin tx[q].gone
      <4>1. CASE tx[q].does \in {"submit", "moderate", "purge"}
        BY <1>1, <3>1, <4>1 DEF Shaped, Submitting, Moderating, Purging
      <4>2. CASE tx[q].does = "erase"
        <5>1. author[r] = reports[r].owner
          BY <3>1 DEF MediaInv, Kept
        <5> QED
          BY <1>1, <3>1, <4>2, <5>1 DEF Shaped, ErasingAccount, OwnedBy
      <4> QED
        BY <1>1, <4>1, <4>2 DEF Transactions
    <3>3. r \in vanished \/ \E p \in Request : r \in tx[p].gone
      BY <3>1 DEF MediaInv, Kept, MissingEvidenceIsExplained
    <3> QED
      BY <1>5, <3>2, <3>3
  <2> QED
    BY <2>1, <2>2
<1>11. OrphansAreExplained'
  <2> SUFFICES ASSUME NEW r \in objects, r \notin Available'
               PROVE  r \in stranded \cup late' \/ \E p \in Request : tx'[p].does = "submit" /\ tx'[p].report = r
    BY <1>1 DEF OrphansAreExplained
  <2>0. r \in Report /\ ~mine(r)
    <3>1. r \in Report
      BY DEF MediaInv, TypeOK
    <3> QED
      BY <1>3, <3>1
  <2>1. CASE r \in Available
    <3>1. r \notin tx[q].marks
      BY <1>1 DEF Shaped
    <3>2. erased(r)
      BY <1>4, <2>0, <2>1, <3>1 DEF Available
    <3>3. r \in late
      BY <1>1, <2>1, <3>2 DEF Shaped, ErasingAccount
    <3> QED
      BY <1>1, <3>3
  <2>2. CASE r \notin Available
    <3>1. r \in stranded \cup late \/ \E p \in Request : tx[p].does = "submit" /\ tx[p].report = r
      BY <2>2 DEF MediaInv, Kept, OrphansAreExplained
    <3> QED
      BY <1>1, <1>5, <2>0, <3>1
  <2> QED
    BY <2>1, <2>2
<1>12. ASSUME NEW r \in Recorded'
       PROVE  /\ author[r] = reports'[r].owner
              /\ reports'[r].status = "rejected" => reports'[r].deleted # Never
              /\ reports'[r].deleted # Never => r \notin objects
  <2>0. r \in Report
    BY DEF Recorded
  <2>1. CASE mine(r)
    BY <1>2, <1>3, <2>0, <2>1
  <2>2. CASE ~mine(r)
    <3>1. /\ r \in Recorded /\ ~erased(r) /\ reports'[r].owner = reports[r].owner
          /\ reports'[r].deleted = IF r \in tx[q].marks THEN q ELSE reports[r].deleted
          /\ reports'[r].status = IF tx[q].does = "moderate" /\ r = tx[q].report THEN tx[q].verdict ELSE reports[r].status
      BY <1>4, <2>0, <2>2
    <3>2. /\ author[r] = reports[r].owner
          /\ reports[r].status = "rejected" => reports[r].deleted # Never
          /\ reports[r].deleted # Never => r \notin objects
      BY <3>1 DEF MediaInv, Kept
    <3>3. r \in tx[q].marks => r \notin objects
      BY <1>1 DEF Shaped
    <3>4. q # Never
      BY Sentinels DEF Never
    <3>5. tx[q].does = "moderate" /\ r = tx[q].report /\ tx[q].verdict = "rejected" =>
              r \in tx[q].marks \/ reports[r].deleted # Never
      BY <1>1 DEF Shaped, Moderating
    <3> QED
      BY <3>1, <3>2, <3>3, <3>4, <3>5
  <2> QED
    BY <2>1, <2>2
<1>13. late' \subseteq Report
  BY <1>1 DEF MediaInv, TypeOK, Shaped, Submitting
<1>14. TypeOK'
  BY <1>1, <1>13, RowsWritten DEF MediaInv, TypeOK
<1>15. Kept'
  BY <1>1, <1>10, <1>11, <1>12 DEF Kept, MediaInv
<1> QED
  BY <1>6, <1>7, <1>9, <1>14, <1>15 DEF MediaInv

-------------------------------------------------------------------------------
(* The theorems *)

LEMMA MediaInvInit == Init => MediaInv
<1> SUFFICES ASSUME Init  PROVE MediaInv
  OBVIOUS
<1> USE IdleIsTyped
<1>1. \A q \in Request : tx[q] = Idle
  BY DEF Init
<1>2. TypeOK
  BY DEF Init, TypeOK
<1>3. \A q \in Request : Shaped(tx[q])
  BY <1>1 DEF Shaped, Idle
<1>4. \A p, q \in Request : Apart(tx[p], tx[q])
  BY <1>1 DEF Apart, LockSet, Erasing, Uploaded, Idle
<1>5. Recorded = {}
  BY DEF Init, Recorded
<1>6. Kept
  BY <1>5 DEF Init, Kept, MissingEvidenceIsExplained, OrphansAreExplained, Available
<1> QED
  BY <1>2, <1>3, <1>4, <1>6 DEF MediaInv

LEMMA MediaInvKept == MediaInv /\ [Next]_vars => MediaInv'
<1> SUFFICES ASSUME MediaInv, [Next]_vars  PROVE MediaInv'
  OBVIOUS
<1>1. ASSUME NEW q \in Request, Start(q)  PROVE MediaInv'
  BY <1>1, SubmitBeginKeepsMedia, EraseRequestKeepsMedia, ModerateKeepsMedia, PurgeSelectKeepsMedia DEF Start
<1>2. ASSUME NEW q \in Request, NEW r \in Report, SubmitPut(q, r)  PROVE MediaInv'
  <2>1. stranded' = stranded /\ stranded \subseteq Report /\ Draw(q, r) /\ objects' = objects \cup {r}
    BY <1>2 DEF SubmitPut, MediaInv, TypeOK
  <2>2. \E score \in {"pending", "published"} :
            tx' = [tx EXCEPT ![q].at = "stored", ![q].report = r, ![q].verdict = score]
    BY <1>2 DEF SubmitPut
  <2> QED
    BY <2>1, <2>2, PutKeepsMedia
<1>3. ASSUME NEW q \in Request, NEW r \in Report, SubmitPutRaises(q, r)  PROVE MediaInv'
  <2>1. PICK took \in SUBSET {r} : objects' = objects \cup took /\ stranded' = stranded \cup took
    BY <1>3 DEF SubmitPutRaises
  <2>2. Draw(q, r) /\ tx' = [tx EXCEPT ![q] = Idle]
    BY <1>3 DEF SubmitPutRaises
  <2>3. stranded \subseteq stranded' /\ stranded' \subseteq Report /\ took \subseteq stranded'
    BY <2>1 DEF MediaInv, TypeOK
  <2> QED
    BY <2>1, <2>2, <2>3, PutKeepsMedia
<1>4. ASSUME NEW q \in Request, Advance(q)  PROVE MediaInv'
  BY <1>2, <1>4, PurgeDeleteKeepsMedia, EraseDeleteKeepsMedia, InsertKeepsMedia, DiscardKeepsMedia,
     RejectKeepsMedia, CreditKeepsMedia, PurgeMarkKeepsMedia, PurgeDoneKeepsMedia, EraseListKeepsMedia,
     EraseWaitsKeepMedia, CommitKeepsMedia, RollbackKeepsMedia DEF Advance, DeadlockAbort
<1>5. ASSUME NEW q \in Request, Fail(q)  PROVE MediaInv'
  BY <1>3, <1>5, PurgeDeleteKeepsMedia, EraseRaisesKeepsMedia, InsertKeepsMedia, DiscardKeepsMedia,
     RejectKeepsMedia, RollbackKeepsMedia DEF Fail, Rollback
<1>6. CASE UNCHANGED vars
  <2>1. Available' = Available /\ Recorded' = Recorded /\ \A u : OwnedBy(u)' = OwnedBy(u)
    BY <1>6 DEF vars, Available, Recorded, OwnedBy
  <2>2. \A q \in Request : Shaped(tx[q])'
    BY <1>6, <2>1 DEF vars, MediaInv, Shaped, Submitting, Moderating, Purging, ErasingAccount
  <2>3. \A p, q \in Request : p # q => Apart(tx[p], tx[q])'
    BY <1>6, <2>1 DEF vars, MediaInv, Apart, LockSet, Erasing, Uploaded
  <2> QED
    BY <1>6, <2>1, <2>2, <2>3 DEF vars, MediaInv, TypeOK, Kept, MissingEvidenceIsExplained, OrphansAreExplained
<1> QED
  BY <1>1, <1>4, <1>5, <1>6, TimeKeepsMedia DEF Next

\* Every variable and every transaction record keeps its type.
THEOREM MediaIsTyped == Spec => []TypeOK
<1>1. MediaInv => TypeOK
  BY DEF MediaInv
<1> QED
  BY <1>1, MediaInvInit, MediaInvKept, PTL DEF Spec

\* docs/phase-14:14-15: whatever fails in between, evidence whose row says deleted or
\* rejected has no object left, for any number of reports and requests at once.
THEOREM DeletedEvidenceStaysGone == Spec => []DeletedEvidenceIsGone
<1>1. MediaInv => DeletedEvidenceIsGone
  BY DEF MediaInv, Kept, DeletedEvidenceIsGone
<1> QED
  BY <1>1, MediaInvInit, MediaInvKept, PTL DEF Spec

\* A row that offers a photo the bucket does not have is explained by a deletion that has
\* not ended, by one that failed, or by the lifecycle rule of the bucket.
THEOREM MissingEvidenceHasAReason == Spec => []MissingEvidenceIsExplained
<1>1. MediaInv => MissingEvidenceIsExplained
  BY DEF MediaInv, Kept
<1> QED
  BY <1>1, MediaInvInit, MediaInvKept, PTL DEF Spec

\* An object that no row offers is explained by a submission that has not ended, by one that
\* failed, or by one that committed after an erasure had listed the objects of its account.
THEOREM OrphansHaveAReason == Spec => []OrphansAreExplained
<1>1. MediaInv => OrphansAreExplained
  BY DEF MediaInv, Kept
<1> QED
  BY <1>1, MediaInvInit, MediaInvKept, PTL DEF Spec

\* The IS NULL guard of mark_photo_deleted: a recorded deletion time is never replaced.
THEOREM EvidenceIsDeletedOnce == Spec => DeletedOnce
<1> DEFINE Once == \A r \in Recorded : reports[r].deleted # Never /\ r \in Recorded' =>
                       reports'[r].deleted = reports[r].deleted
<1>1. ASSUME MediaInv, [Next]_vars  PROVE Once \/ UNCHANGED vars
  <2>1. ASSUME NEW q \in Request, Commit(q)  PROVE Once
    <3> SUFFICES ASSUME NEW r \in Recorded, reports[r].deleted # Never, r \in Recorded'
                 PROVE  reports'[r].deleted = reports[r].deleted
      OBVIOUS
    <3>1. r \in Report /\ r \notin tx[q].marks /\ reports[r] # Absent /\ reports'[r] # Absent
      BY <1>1 DEF MediaInv, Shaped, Available, Recorded
    <3>2. tx[q].does = "submit" => Submitting(tx[q]) /\ tx[q].at = "ready"
      BY <1>1, <2>1 DEF MediaInv, Shaped, Commit
    <3>3. ~(tx[q].does = "submit" /\ r = tx[q].report)
      BY <3>1, <3>2 DEF Submitting
    <3> QED
      BY <1>1, <2>1, <3>1, <3>3, RowsWritten
  <2>2. CASE reports' = reports
    BY <2>2
  <2>3. reports' = reports \/ (\E q \in Request : Commit(q)) \/ UNCHANGED vars
    <3>1. ASSUME NEW q \in Request, Start(q)  PROVE reports' = reports
      BY <3>1 DEF Start, SubmitBegin, EraseRequest, Moderate, PurgeSelect
    <3>2. ASSUME NEW q \in Request, Advance(q)  PROVE reports' = reports \/ Commit(q)
      BY <3>2 DEF Advance, SubmitPut, Draw, PurgeDelete, EraseDelete, DeleteObject, SubmitInsert, SubmitInsertRaises,
         SubmitDiscard, RejectDelete, Credit, PurgeMark, PurgeDone, EraseList, EraseAccount, EraseCascade,
         DeadlockAbort, Discard
    <3>3. ASSUME NEW q \in Request, Fail(q)  PROVE reports' = reports
      BY <3>3 DEF Fail, SubmitPutRaises, Draw, PurgeRaises, EraseRaises, SubmitInsertRaises, SubmitDiscardRaises,
         RejectRaises, Rollback, Discard
    <3>4. ASSUME NEW r \in Report, Expire(r) \/ Lapse(r)  PROVE reports' = reports
      BY <3>4 DEF Expire, Lapse
    <3> QED
      BY <1>1, <3>1, <3>2, <3>3, <3>4 DEF Next
  <2> QED
    BY <2>1, <2>2, <2>3
<1>2. MediaInv /\ [Next]_vars => [Once]_vars
  BY <1>1
<1> QED
  BY <1>2, MediaInvInit, MediaInvKept, PTL DEF Spec, DeletedOnce
================================================================================
