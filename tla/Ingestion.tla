------------------------------- MODULE Ingestion -------------------------------
(***************************************************************************)
(* Imports of municipal feeds.  A request looks for an earlier batch of    *)
(* the same source and digest, inserts the batch with its quarantine,      *)
(* upserts the accepted records one by one in the order of the feed, and   *)
(* appends to the audit chain, in one READ COMMITTED transaction.  What a  *)
(* payload parses to is in Connectors; here it is given.  What it amounts  *)
(* to is in ImportLog, which the committed tables implement.               *)
(***************************************************************************)
EXTENDS Naturals, Sequences, FiniteSets

CONSTANTS Source, Payload, Record, Request,
          Accepted,     \* the ids of the records of each payload, in the order of the feed
          Quarantined,  \* how many of its records are rejected
          MaxImports,   \* bound: committed imports
          NoSource, NoPayload

IngestionShapes ==
    /\ Accepted \in [Payload -> Seq(Record)] /\ Quarantined \in [Payload -> Nat]
    /\ MaxImports \in Nat /\ NoSource \notin Source /\ NoPayload \notin Payload

VARIABLES
    sources,    \* committed municipal_sources and whether each is official
    batches,    \* committed municipal_import_batches, in commit order
    quarantine, \* committed municipal_quarantine
    zones,      \* committed rows of parking_zones and parking_facilities
    tx,         \* the transaction of each request slot
    refused     \* history: feeds whose replay ended in a unique violation

vars == <<sources, batches, quarantine, zones, tx, refused>>

-------------------------------------------------------------------------------
\* MunicipalSource.provenance
Provenance(official) == IF official THEN "official" ELSE "estimated"

\* A record's content is known by the payload it came in; so is its import_batch_id.
Rows == [payload : Payload, provenance : {"official", "estimated"}]
Absent == [payload |-> NoPayload, provenance |-> "none"]

\* at: the last step; existing: a batch of the digest was found; done: records upserted.
Idle == [at |-> "idle", source |-> NoSource, payload |-> NoPayload, existing |-> FALSE, done |-> 0]

Init ==
    /\ sources = [s \in Source |-> "absent"]
    /\ batches = <<>> /\ quarantine = {} /\ refused = {}
    /\ zones = [z \in Source \X Record |-> Absent]
    /\ tx = [q \in Request |-> Idle]

Batch(q) == <<tx[q].source, tx[q].payload>>
Committed == {batches[i] : i \in DOMAIN batches}

\* What an open transaction holds: its batch key, the rows it upserted, the audit chain.
Upserted(q) == {Accepted[tx[q].payload][i] : i \in 1..tx[q].done}
HoldsBatch(q, b) == tx[q].at \in {"inserted", "audited"} /\ ~tx[q].existing /\ Batch(q) = b
HoldsRow(q, s, r) == /\ tx[q].at \in {"inserted", "audited"} /\ ~tx[q].existing
                     /\ tx[q].source = s /\ r \in Upserted(q)
HoldsAudit(q) == tx[q].at = "audited"

Enter(q, next) == tx' = [tx EXCEPT ![q] = next]
NothingCommitted == UNCHANGED <<sources, batches, quarantine, zones, refused>>

-------------------------------------------------------------------------------
\* create_source: an official source has a licence; its audit event waits for the chain.
CreateSource(s, official, licensed) ==
    /\ sources[s] = "absent" /\ (official => licensed)
    /\ \A q \in Request : ~HoldsAudit(q)
    /\ sources' = [sources EXCEPT ![s] = Provenance(official)]
    /\ UNCHANGED <<batches, quarantine, zones, tx, refused>>

\* import_payload: the source exists; batch_by_digest finds the payload or it is parsed.
ImportPayload(q, s, p) ==
    /\ tx[q].at = "idle" /\ sources[s] # "absent"
    /\ Len(batches) + Cardinality({o \in Request : tx[o].at # "idle"}) < MaxImports
    /\ LET existing == <<s, p>> \in Committed
       IN  Enter(q, [at |-> IF existing THEN "inserted" ELSE "parsed", source |-> s, payload |-> p,
                     existing |-> existing, done |-> IF existing THEN Len(Accepted[p]) ELSE 0])
    /\ NothingCommitted

UniqueBatch(q) == Batch(q) \notin Committed /\ \A o \in Request \ {q} : ~HoldsBatch(o, Batch(q))

\* commit_import: the flush of the batch and its quarantine rows.
InsertBatch(q) ==
    /\ tx[q].at = "parsed" /\ UniqueBatch(q)
    /\ Enter(q, [tx[q] EXCEPT !.at = "inserted"])
    /\ NothingCommitted

\* Mutant of InsertRaises: the error is caught and the same batch inserted again.
InsertRetries(q) ==
    /\ tx[q].at = "parsed" /\ Batch(q) \in Committed
    /\ refused' = refused \cup {Batch(q)}
    /\ UNCHANGED <<sources, batches, quarantine, zones, tx>>

\* An import of the same feed committed first: IntegrityError, which nothing catches.
InsertRaises(q) ==
    /\ tx[q].at = "parsed" /\ Batch(q) \in Committed
    /\ refused' = refused \cup {Batch(q)}
    /\ Enter(q, Idle)
    /\ UNCHANGED <<sources, batches, quarantine, zones>>

NextRecord(q) == Accepted[tx[q].payload][tx[q].done + 1]

RowFree(q) == \A o \in Request \ {q} : ~HoldsRow(o, tx[q].source, NextRecord(q))

\* Mutant of Upsert: every statement commits, so that others see half an import.
UpsertCommits(q) ==
    /\ tx[q].at = "inserted" /\ tx[q].done < Len(Accepted[tx[q].payload]) /\ RowFree(q)
    /\ zones' = [zones EXCEPT ![<<tx[q].source, NextRecord(q)>>] =
                   [payload |-> tx[q].payload, provenance |-> sources[tx[q].source]]]
    /\ Enter(q, [tx[q] EXCEPT !.done = @ + 1])
    /\ UNCHANGED <<sources, batches, quarantine, refused>>

\* INSERT ... ON CONFLICT DO UPDATE of the next record, whatever row is there.
Upsert(q) ==
    /\ tx[q].at = "inserted" /\ tx[q].done < Len(Accepted[tx[q].payload]) /\ RowFree(q)
    /\ Enter(q, [tx[q] EXCEPT !.done = @ + 1])
    /\ NothingCommitted

\* import_feed appends, for a replay too.
Audit(q) ==
    /\ tx[q].at = "inserted" /\ tx[q].done = Len(Accepted[tx[q].payload])
    /\ \A o \in Request \ {q} : ~HoldsAudit(o)
    /\ Enter(q, [tx[q] EXCEPT !.at = "audited"])
    /\ NothingCommitted

\* Mutant of Written: a record that exists keeps its lineage.
WrittenOnce(s, r, p) == IF zones[s, r] = Absent THEN [payload |-> p, provenance |-> sources[s]]
                        ELSE zones[s, r]

Written(s, r, p) == [payload |-> p, provenance |-> sources[s]]

CommitImport(q) ==
    /\ tx[q].at = "audited"
    /\ IF tx[q].existing THEN UNCHANGED <<batches, quarantine, zones>>
       ELSE /\ batches' = Append(batches, Batch(q))
            /\ quarantine' = quarantine \cup {<<tx[q].source, tx[q].payload, i>> : i \in 1..Quarantined[tx[q].payload]}
            /\ zones' = [z \in Source \X Record |->
                 IF z[1] = tx[q].source /\ z[2] \in Upserted(q)
                 THEN Written(z[1], z[2], tx[q].payload) ELSE zones[z]]
    /\ Enter(q, Idle)
    /\ UNCHANGED <<sources, refused>>

\* Any exception, a lost connection or a crashed replica.
Rollback(q) ==
    /\ tx[q].at # "idle"
    /\ Enter(q, Idle)
    /\ NothingCommitted

-------------------------------------------------------------------------------
(* Waiting *)

Blocked(q, o) ==
    \/ tx[q].at = "parsed" /\ HoldsBatch(o, Batch(q))
    \/ /\ tx[q].at = "inserted" /\ tx[q].done < Len(Accepted[tx[q].payload])
       /\ HoldsRow(o, tx[q].source, NextRecord(q))

\* PostgreSQL aborts a transaction that waits in a cycle: 500, nothing is written.
DeadlockAbort(q) ==
    /\ \E o \in Request \ {q} : Blocked(q, o) /\ Blocked(o, q)
    /\ Enter(q, Idle)
    /\ NothingCommitted

Advance(q) ==
    InsertBatch(q) \/ InsertRaises(q) \/ Upsert(q) \/ Audit(q) \/ CommitImport(q) \/ DeadlockAbort(q)

Next ==
    \/ \E s \in Source, official, licensed \in BOOLEAN : CreateSource(s, official, licensed)
    \/ \E q \in Request : \/ \E s \in Source, p \in Payload : ImportPayload(q, s, p)
                          \/ Advance(q)
                          \/ Rollback(q)

Spec == Init /\ [][Next]_vars

\* A request that can go on does so: the server and PostgreSQL run every statement, and
\* locks are granted to those that keep asking.
FairSpec == Spec /\ \A q \in Request : SF_vars(Advance(q))

-------------------------------------------------------------------------------
(* Properties *)

\* Every variable has its type.
TypeOK ==
    /\ sources \in [Source -> {"absent", "official", "estimated"}]
    /\ batches \in Seq(Source \X Payload)
    /\ zones \in [Source \X Record -> Rows \cup {Absent}]
    /\ \A q \in Request : tx[q].payload \in Payload \cup {NoPayload} /\ tx[q].done \in Nat

\* docs/phase-16:15: a feed has one batch, with the evidence of its rejections, although
\* imports of it overlap.
OneBatchPerFeed ==
    /\ Cardinality(Committed) = Len(batches)
    /\ quarantine = UNION {{<<b[1], b[2], i>> : i \in 1..Quarantined[b[2]]} : b \in Committed}

Carries(i, s, r) == batches[i][1] = s /\ \E j \in DOMAIN Accepted[batches[i][2]] : Accepted[batches[i][2]][j] = r

\* A record is what the last committed import that carries it says, down to its lineage,
\* however the upserts of concurrent imports were interleaved.
RecordsFollowLastImport ==
    \A s \in Source, r \in Record :
        LET last == {i \in DOMAIN batches : /\ Carries(i, s, r)
                                            /\ \A j \in i + 1..Len(batches) : ~Carries(j, s, r)}
        IN  IF last = {} THEN zones[s, r] = Absent
            ELSE \A i \in last : zones[s, r] = [payload |-> batches[i][2], provenance |-> sources[s]]

\* docs/phase-16:15: imports are idempotent, one by one and interleaved.
ImportsAreIdempotent == OneBatchPerFeed /\ RecordsFollowLastImport

\* docs/phase-16:15: "Replays of the same source/payload digest return the original batch".
ReplaysReturnTheOriginal == refused = {}

\* Every import ends, although two imports that upsert the same records in different
\* orders wait for each other.
ImportsFinish == \A q \in Request : tx[q].at # "idle" ~> tx[q].at = "idle"
===============================================================================
