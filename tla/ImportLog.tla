------------------------------- MODULE ImportLog -------------------------------
(***************************************************************************)
(* What MunicipalIngestionRepository promises to the service (domain.py):  *)
(* add_source persists a source, and commit_import "atomically" persists   *)
(* the batch, its quarantine and the accepted records, once per feed.  The *)
(* adapter in memory, on which tests/test_ingestion.py runs, does so under *)
(* a lock; Ingestion shows that the adapter on PostgreSQL does, although   *)
(* requests overlap, fail and deadlock.                                    *)
(***************************************************************************)
EXTENDS Integers, Sequences

CONSTANTS Source, Payload, Record,
          Accepted,     \* the ids of the records of each payload, in the order of the feed
          Quarantined,  \* how many of its records are rejected
          NoPayload

VARIABLES sources,    \* the provenance of each source, "absent" before it is added
          log,        \* the imports, in the order in which they happened
          evidence,   \* the rejected records, by their place in the feed
          records     \* what is known of each record of a source, and from which payload

imports == <<sources, log, evidence, records>>

Unknown == [payload |-> NoPayload, provenance |-> "none"]

Init ==
    /\ sources = [s \in Source |-> "absent"]
    /\ log = <<>> /\ evidence = {}
    /\ records = [k \in Source \X Record |-> Unknown]

AddSource(s, provenance) ==
    /\ sources[s] = "absent"
    /\ sources' = [sources EXCEPT ![s] = provenance]
    /\ UNCHANGED <<log, evidence, records>>

\* batch_by_digest
Imported(s, p) == \E i \in DOMAIN log : log[i] = <<s, p>>
Carried(p) == {Accepted[p][i] : i \in DOMAIN Accepted[p]}

\* import_payload: a feed whose batch is there is left alone, any other is committed.
Import(s, p) ==
    /\ sources[s] # "absent" /\ ~Imported(s, p)
    /\ log' = Append(log, <<s, p>>)
    /\ evidence' = evidence \cup {<<s, p, i>> : i \in 1..Quarantined[p]}
    /\ records' = [k \in Source \X Record |->
         IF k[1] = s /\ k[2] \in Carried(p) THEN [payload |-> p, provenance |-> sources[s]]
         ELSE records[k]]
    /\ UNCHANGED sources

Next ==
    \/ \E s \in Source, provenance \in {"official", "estimated"} : AddSource(s, provenance)
    \/ \E s \in Source, p \in Payload : Import(s, p)

Spec == Init /\ [][Next]_imports

-------------------------------------------------------------------------------
(* Properties *)

\* Every variable has its type.
TypeOK ==
    /\ sources \in [Source -> {"absent", "official", "estimated"}]
    /\ log \in Seq(Source \X Payload)
    /\ records \in [Source \X Record ->
                      [payload : Payload, provenance : {"official", "estimated"}] \cup {Unknown}]

\* docs/phase-16:28 "immutable batch results": an import and its evidence stay what they
\* were, a record is replaced only by an import of its source that carries it, and a source
\* keeps its provenance once it is added.
HistoryStands ==
    [][/\ \A i \in DOMAIN log : i \in DOMAIN log' /\ log'[i] = log[i]
       /\ evidence \subseteq evidence'
       /\ \A k \in Source \X Record : records'[k] # records[k] =>
              \E p \in Payload : log' = Append(log, <<k[1], p>>) /\ k[2] \in Carried(p)
       /\ \A s \in Source : sources[s] # "absent" => sources'[s] = sources[s]]_imports
===============================================================================
