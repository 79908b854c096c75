------------------------------- MODULE Migrations -------------------------------
(***************************************************************************)
(* The Alembic revisions and the deployments that run them.  A schema is   *)
(* its columns, foreign keys and unique indexes; a column is required,     *)
(* filled by a server default, nullable, or nullable and short.  A command *)
(* runs the operations of all its revisions in one transaction, one step   *)
(* each; the replicas keep serving with the previous release meanwhile.    *)
(***************************************************************************)
EXTENDS Integers, Sequences, FiniteSets
LOCAL INSTANCE SequencesExt

-------------------------------------------------------------------------------
(* Columns, references and operations *)

Kinds == {"required", "default", "nullable", "nullable_64"}
As(kind, table, names) == {<<table, name, kind>> : name \in names}
To(table, name, target, on_delete) == <<table, name, target, on_delete>>

create_table(table, required, nullable, fks, uniques) ==
    [do |-> "create_table", table |-> table, columns |-> As("required", table, required) \cup As("nullable", table, nullable),
     fks |-> fks, uniques |-> {<<table, u>> : u \in uniques}]
add_columns(table, columns, fks) ==
    [do |-> "add_column", table |-> table, columns |-> columns, fks |-> fks, uniques |-> {}]
create_unique(table, names) ==
    [do |-> "create_index", table |-> table, columns |-> {}, fks |-> {}, uniques |-> {<<table, names>>}]
alter_column(table, name, kind) ==
    [do |-> "alter_column", table |-> table, columns |-> {<<table, name, kind>>}, fks |-> {}, uniques |-> {}]
drop(do, table, names) == [do |-> do, table |-> table, names |-> names]

-------------------------------------------------------------------------------
(* migrations/versions: the references of a revision precede what refers to them *)

Rev0001 == [id |-> "0001", down |-> "base",
    up |-> << create_table("users", {"id", "email", "password_hash", "role", "is_active", "is_verified", "created_at"},
                           {}, {}, {{"email"}}),
              create_table("sessions", {"id", "user_id", "created_at", "expires_at"}, {},
                           {To("sessions", "user_id", "users", "CASCADE")}, {}),
              create_table("audit_events", {"id", "action"}, {"subject_id"}, {}, {}),
              add_columns("audit_events", As("default", "audit_events", {"occurred_at"}), {}) >>,
    undo |-> << drop("drop_table", "audit_events", {}), drop("drop_table", "sessions", {}), drop("drop_table", "users", {}) >>]

Rev0002 == [id |-> "0002", down |-> "0001",
    up |-> << create_table("parking_zones",
                           {"id", "name", "geometry", "parking_score", "provenance", "confidence", "observed_at"},
                           {"restriction_summary", "average_towing_cost_cents", "expires_at"}, {}, {}) >>,
    undo |-> << drop("drop_table", "parking_zones", {}) >>]

\* Mutant of Rev0003: the zone type has no server default.
Rev0003Required == [id |-> "0003", down |-> "0002",
    up |-> << add_columns("parking_zones", As("required", "parking_zones", {"zone_type"}), {}),
              add_columns("parking_zones", As("default", "parking_zones", {"towing_hotspot"}), {}) >>,
    undo |-> << drop("drop_column", "parking_zones", {"towing_hotspot"}), drop("drop_column", "parking_zones", {"zone_type"}) >>]

Rev0003 == [id |-> "0003", down |-> "0002",
    up |-> << add_columns("parking_zones", As("default", "parking_zones", {"zone_type"}), {}),
              add_columns("parking_zones", As("default", "parking_zones", {"towing_hotspot"}), {}) >>,
    undo |-> << drop("drop_column", "parking_zones", {"towing_hotspot"}), drop("drop_column", "parking_zones", {"zone_type"}) >>]

Rev0004 == [id |-> "0004", down |-> "0003",
    up |-> << create_table("community_reports",
                           {"id", "reporter_id", "category", "latitude", "longitude", "description", "status",
                            "validation_score", "fingerprint", "created_at", "expires_at"},
                           {"photo_sha256", "moderation_reason"},
                           {To("community_reports", "reporter_id", "users", "CASCADE")}, {}),
              create_table("reporter_reputations", {"user_id"}, {},
                           {To("reporter_reputations", "user_id", "users", "CASCADE")}, {}),
              add_columns("reporter_reputations",
                          As("default", "reporter_reputations", {"score", "approved_reports", "rejected_reports"}), {}),
              create_table("report_appeals",
                           {"id", "report_id", "appellant_id", "reason", "status", "created_at"},
                           {"resolved_at", "resolution_reason"},
                           {To("report_appeals", "report_id", "community_reports", "CASCADE"),
                            To("report_appeals", "appellant_id", "users", "CASCADE")}, {}) >>,
    undo |-> << drop("drop_table", "report_appeals", {}), drop("drop_table", "reporter_reputations", {}),
                drop("drop_table", "community_reports", {}) >>]

Rev0005 == [id |-> "0005", down |-> "0004",
    up |-> << add_columns("users", As("nullable_64", "users", {"mfa_secret"}), {}),
              add_columns("users", As("default", "users", {"mfa_enabled"}), {}) >>,
    undo |-> << drop("drop_column", "users", {"mfa_enabled"}), drop("drop_column", "users", {"mfa_secret"}) >>]

Rev0006 == [id |-> "0006", down |-> "0005",
    up |-> << create_table("admin_audit_events",
                           {"id", "actor_id", "action", "occurred_at", "previous_hash", "event_hash"},
                           {"subject_id"}, {}, {{"event_hash"}}),
              add_columns("admin_audit_events", As("default", "admin_audit_events", {"sequence"}), {}),
              create_unique("admin_audit_events", {"sequence"}) >>,
    undo |-> << drop("drop_table", "admin_audit_events", {}) >>]

Rev0007 == [id |-> "0007", down |-> "0006",
    up |-> << create_table("notification_preferences",
                           {"user_id", "parking_alerts_enabled", "background_location_enabled", "push_enabled",
                            "quiet_start_hour", "quiet_end_hour", "timezone", "updated_at"}, {},
                           {To("notification_preferences", "user_id", "users", "CASCADE")}, {}),
              create_table("push_devices",
                           {"id", "user_id", "platform", "token_ciphertext", "token_hash", "enabled", "updated_at"}, {},
                           {To("push_devices", "user_id", "users", "CASCADE")}, {{"token_hash"}}),
              create_table("alert_deliveries", {"id", "user_id", "status", "created_at"}, {"dedupe_key"},
                           {To("alert_deliveries", "user_id", "users", "CASCADE")}, {}),
              create_unique("alert_deliveries", {"user_id", "dedupe_key"}) >>,
    undo |-> << drop("drop_table", "alert_deliveries", {}), drop("drop_table", "push_devices", {}),
                drop("drop_table", "notification_preferences", {}) >>]

Rev0008 == [id |-> "0008", down |-> "0007",
    up |-> << create_table("parking_facilities",
                           {"id", "name", "address", "location", "safety_score", "towing_incidents_per_1000",
                            "navigation_url", "provenance", "confidence", "observed_at"},
                           {"hourly_price_cents", "rating", "available_spaces", "capacity", "expires_at"}, {}, {}) >>,
    undo |-> << drop("drop_table", "parking_facilities", {}) >>]

Rev0009 == [id |-> "0009", down |-> "0008",
    up |-> << create_table("login_rate_limits", {"key", "failure_count", "window_started_at", "updated_at"},
                           {"locked_until"}, {}, {}) >>,
    undo |-> << drop("drop_table", "login_rate_limits", {}) >>]

Rev0010 == [id |-> "0010", down |-> "0009",
    up |-> << alter_column("users", "mfa_secret", "nullable") >>,
    undo |-> << alter_column("users", "mfa_secret", "nullable_64") >>]

Photo == {"photo_object_key", "photo_content_type", "photo_size_bytes", "photo_retained_until", "photo_deleted_at"}

Rev0011 == [id |-> "0011", down |-> "0010",
    up |-> << add_columns("community_reports", As("nullable", "community_reports", Photo), {}) >>,
    undo |-> << drop("drop_column", "community_reports", Photo) >>]

Rev0012 == [id |-> "0012", down |-> "0011",
    up |-> << create_table("privacy_consent_events",
                           {"id", "user_id", "purpose", "policy_version", "granted", "occurred_at"}, {},
                           {To("privacy_consent_events", "user_id", "users", "CASCADE")}, {}),
              create_table("data_rights_requests",
                           {"id", "subject_reference", "request_type", "status", "requested_at"},
                           {"user_id", "completed_at"},
                           {To("data_rights_requests", "user_id", "users", "SET NULL")}, {}) >>,
    undo |-> << drop("drop_table", "data_rights_requests", {}), drop("drop_table", "privacy_consent_events", {}) >>]

Lineage == {"source_id", "import_batch_id", "external_record_id"}
add_lineage(table) ==
    add_columns(table, As("nullable", table, Lineage),
                {To(table, "source_id", "municipal_sources", "SET NULL"),
                 To(table, "import_batch_id", "municipal_import_batches", "SET NULL")})
Ingestion == << create_table("municipal_sources",
                    {"id", "name", "jurisdiction", "feed_kind", "data_format", "source_url", "official", "enabled",
                     "refresh_interval_minutes", "stale_after_minutes", "created_at", "updated_at"}, {"license_url"}, {}, {}),
                create_table("municipal_import_batches",
                    {"id", "source_id", "content_sha256", "importer_version", "status", "input_count", "accepted_count",
                     "rejected_count", "received_at", "completed_at"}, {},
                    {To("municipal_import_batches", "source_id", "municipal_sources", "RESTRICT")}, {{"source_id", "content_sha256"}}),
                create_table("municipal_quarantine",
                    {"id", "batch_id", "record_index", "record_sha256", "reason_code", "reason_detail", "created_at"}, {},
                    {To("municipal_quarantine", "batch_id", "municipal_import_batches", "CASCADE")}, {}),
                add_lineage("parking_zones"), create_unique("parking_zones", {"source_id", "external_record_id"}),
                add_lineage("parking_facilities"), create_unique("parking_facilities", {"source_id", "external_record_id"}) >>

Rev0013 == [id |-> "0013", down |-> "0012", up |-> Ingestion,
    undo |-> << drop("drop_column", "parking_facilities", Lineage), drop("drop_column", "parking_zones", Lineage),
                drop("drop_table", "municipal_quarantine", {}), drop("drop_table", "municipal_import_batches", {}),
                drop("drop_table", "municipal_sources", {}) >>]

Rev0014Billing == [id |-> "0014_billing", down |-> "0013",
    up |-> << create_table("billing_subscriptions",
                           {"id", "subject_reference", "platform", "product_id", "entitlement", "status", "environment",
                            "transaction_reference", "original_transaction_reference", "purchased_at", "verified_at",
                            "auto_renews"}, {"user_id", "expires_at"},
                           {To("billing_subscriptions", "user_id", "users", "SET NULL")},
                           {{"platform", "environment", "original_transaction_reference"}}),
              create_table("billing_events",
                           {"id", "subscription_id", "provider_event_reference", "status", "occurred_at", "received_at"}, {},
                           {To("billing_events", "subscription_id", "billing_subscriptions", "RESTRICT")},
                           {{"provider_event_reference"}}) >>,
    undo |-> << drop("drop_table", "billing_events", {}), drop("drop_table", "billing_subscriptions", {}) >>]

\* Mutant of Rev0014Temporal: the flag is nullable.
Rev0014TemporalLoose == [id |-> "0014_temporal", down |-> "0014_billing",
    up |-> << add_columns("parking_zones", As("nullable", "parking_zones", {"jurisdiction", "temporal_schedule_required"}), {}),
              add_columns("parking_zones", As("default", "parking_zones", {"temporal_rules"}), {}) >>,
    undo |-> << drop("drop_column", "parking_zones", {"temporal_schedule_required", "temporal_rules", "jurisdiction"}) >>]

Rev0014Temporal == [id |-> "0014_temporal", down |-> "0014_billing",
    up |-> << add_columns("parking_zones", As("nullable", "parking_zones", {"jurisdiction"}), {}),
              add_columns("parking_zones", As("default", "parking_zones", {"temporal_rules", "temporal_schedule_required"}), {}) >>,
    undo |-> << drop("drop_column", "parking_zones", {"temporal_schedule_required", "temporal_rules", "jurisdiction"}) >>]

Revisions == {Rev0001, Rev0002, Rev0003, Rev0004, Rev0005, Rev0006, Rev0007, Rev0008, Rev0009, Rev0010,
              Rev0011, Rev0012, Rev0013, Rev0014Billing, Rev0014Temporal}
Ids == {r.id : r \in Revisions} \cup {"base"}
Revision(id) == CHOOSE r \in Revisions : r.id = id
Followers(id) == {r \in Revisions : r.down = id}
-------------------------------------------------------------------------------
(* infrastructure/models.py: what the newest release expects.  A row class is the *)
(* create_table that would make its table.                                       *)

IdentityRows ==
    {create_table("users", {"id", "email", "password_hash", "role", "is_active", "is_verified", "created_at", "mfa_enabled"},
                  {"mfa_secret"}, {}, {{"email"}}),
     create_table("sessions", {"id", "user_id", "created_at", "expires_at"}, {},
                  {To("sessions", "user_id", "users", "CASCADE")}, {}),
     create_table("audit_events", {"id", "action", "occurred_at"}, {"subject_id"}, {}, {}),
     create_table("login_rate_limits", {"key", "failure_count", "window_started_at", "updated_at"}, {"locked_until"}, {}, {}),
     create_table("admin_audit_events",
                  {"id", "sequence", "actor_id", "action", "occurred_at", "previous_hash", "event_hash"}, {"subject_id"},
                  {}, {{"sequence"}, {"event_hash"}})}

LineageOf(table) == {To(table, "source_id", "municipal_sources", "SET NULL"),
                     To(table, "import_batch_id", "municipal_import_batches", "SET NULL")}
ParkingRows ==
    {create_table("parking_zones",
                  {"id", "name", "zone_type", "geometry", "parking_score", "provenance", "confidence", "towing_hotspot",
                   "observed_at", "temporal_rules", "temporal_schedule_required"},
                  {"restriction_summary", "average_towing_cost_cents", "expires_at", "jurisdiction"} \cup Lineage,
                  LineageOf("parking_zones"), {{"source_id", "external_record_id"}}),
     create_table("parking_facilities",
                  {"id", "name", "address", "location", "safety_score", "towing_incidents_per_1000", "navigation_url",
                   "provenance", "confidence", "observed_at"},
                  {"hourly_price_cents", "rating", "available_spaces", "capacity", "expires_at"} \cup Lineage,
                  LineageOf("parking_facilities"), {{"source_id", "external_record_id"}})}

CommunityRows ==
    {create_table("community_reports",
                  {"id", "reporter_id", "category", "latitude", "longitude", "description", "status", "validation_score",
                   "fingerprint", "created_at", "expires_at"}, {"photo_sha256", "moderation_reason"} \cup Photo,
                  {To("community_reports", "reporter_id", "users", "CASCADE")}, {}),
     create_table("reporter_reputations", {"user_id", "score", "approved_reports", "rejected_reports"}, {},
                  {To("reporter_reputations", "user_id", "users", "CASCADE")}, {}),
     create_table("report_appeals", {"id", "report_id", "appellant_id", "reason", "status", "created_at"},
                  {"resolved_at", "resolution_reason"},
                  {To("report_appeals", "report_id", "community_reports", "CASCADE"),
                   To("report_appeals", "appellant_id", "users", "CASCADE")}, {})}

NotificationRows ==
    {create_table("notification_preferences",
                  {"user_id", "parking_alerts_enabled", "background_location_enabled", "push_enabled",
                   "quiet_start_hour", "quiet_end_hour", "timezone", "updated_at"}, {},
                  {To("notification_preferences", "user_id", "users", "CASCADE")}, {}),
     create_table("push_devices",
                  {"id", "user_id", "platform", "token_ciphertext", "token_hash", "enabled", "updated_at"}, {},
                  {To("push_devices", "user_id", "users", "CASCADE")}, {{"token_hash"}}),
     create_table("alert_deliveries", {"id", "user_id", "status", "created_at"}, {"dedupe_key"},
                  {To("alert_deliveries", "user_id", "users", "CASCADE")}, {{"user_id", "dedupe_key"}})}

PrivacyRows ==
    {create_table("privacy_consent_events",
                  {"id", "user_id", "purpose", "policy_version", "granted", "occurred_at"}, {},
                  {To("privacy_consent_events", "user_id", "users", "CASCADE")}, {}),
     create_table("data_rights_requests", {"id", "subject_reference", "request_type", "status", "requested_at"},
                  {"user_id", "completed_at"}, {To("data_rights_requests", "user_id", "users", "SET NULL")}, {})}

MunicipalRows ==
    {create_table("municipal_sources",
                  {"id", "name", "jurisdiction", "feed_kind", "data_format", "source_url", "official", "enabled",
                   "refresh_interval_minutes", "stale_after_minutes", "created_at", "updated_at"}, {"license_url"}, {}, {}),
     create_table("municipal_import_batches",
                  {"id", "source_id", "content_sha256", "importer_version", "status", "input_count", "accepted_count",
                   "rejected_count", "received_at", "completed_at"}, {},
                  {To("municipal_import_batches", "source_id", "municipal_sources", "RESTRICT")}, {{"source_id", "content_sha256"}}),
     create_table("municipal_quarantine",
                  {"id", "batch_id", "record_index", "record_sha256", "reason_code", "reason_detail", "created_at"}, {},
                  {To("municipal_quarantine", "batch_id", "municipal_import_batches", "CASCADE")}, {})}

BillingRows ==
    {create_table("billing_subscriptions",
                  {"id", "subject_reference", "platform", "product_id", "entitlement", "status", "environment",
                   "transaction_reference", "original_transaction_reference", "purchased_at", "verified_at",
                   "auto_renews"}, {"user_id", "expires_at"},
                  {To("billing_subscriptions", "user_id", "users", "SET NULL")},
                  {{"platform", "environment", "original_transaction_reference"}}),
     create_table("billing_events",
                  {"id", "subscription_id", "provider_event_reference", "status", "occurred_at", "received_at"}, {},
                  {To("billing_events", "subscription_id", "billing_subscriptions", "RESTRICT")},
                  {{"provider_event_reference"}})}

Rows == IdentityRows \cup ParkingRows \cup CommunityRows
        \cup NotificationRows \cup PrivacyRows \cup MunicipalRows \cup BillingRows

-------------------------------------------------------------------------------
(* Schemas *)

Empty == [columns |-> {}, fks |-> {}, uniques |-> {}]
TablesOf(s) == {c[1] : c \in s.columns}
Has(s, table, name) == \E c \in s.columns : c[1] = table /\ c[2] = name

\* PostgreSQL refuses what already exists, what is missing and what others refer to.
Applies(op, s) ==
    CASE op.do = "create_table" -> op.table \notin TablesOf(s) /\ \A f \in op.fks : f[3] \in TablesOf(s) \cup {op.table}
      [] op.do = "add_column"   -> /\ op.table \in TablesOf(s) /\ \A c \in op.columns : ~Has(s, op.table, c[2])
                                   /\ \A f \in op.fks : f[3] \in TablesOf(s)
      [] op.do = "create_index" -> \A u \in op.uniques : \A name \in u[2] : Has(s, op.table, name)
      [] op.do = "alter_column" -> \A c \in op.columns : Has(s, op.table, c[2])
      [] op.do = "drop_column"  -> \A name \in op.names : Has(s, op.table, name)
      [] op.do = "drop_table"   -> op.table \in TablesOf(s) /\ \A f \in s.fks : f[3] = op.table => f[1] = op.table

\* A dropped table or column takes its constraints and indexes with it.
Applied(op, s) ==
    CASE op.do \in {"create_table", "add_column", "create_index"} ->
            [columns |-> s.columns \cup op.columns, fks |-> s.fks \cup op.fks, uniques |-> s.uniques \cup op.uniques]
      [] op.do = "alter_column" ->
            [s EXCEPT !.columns = {c \in @ : \A d \in op.columns : <<c[1], c[2]>> # <<d[1], d[2]>>} \cup op.columns]
      [] op.do = "drop_column" ->
            [columns |-> {c \in s.columns : c[1] # op.table \/ c[2] \notin op.names},
             fks |-> {f \in s.fks : f[1] # op.table \/ f[2] \notin op.names},
             uniques |-> {u \in s.uniques : u[1] # op.table \/ u[2] \cap op.names = {}}]
      [] op.do = "drop_table" ->
            [columns |-> {c \in s.columns : c[1] # op.table}, fks |-> {f \in s.fks : f[1] # op.table},
             uniques |-> {u \in s.uniques : u[1] # op.table}]

\* Releases of the time when the schema was s write every column of s that has no
\* default, may write NULL where s allows it, and know no other column.
Serves(s, app) ==
    /\ \A c \in app.columns : \E d \in s.columns : <<d[1], d[2]>> = <<c[1], c[2]>>
                                /\ (c[3] \in {"nullable", "nullable_64"} => d[3] \in {"nullable", "nullable_64"})
    /\ \A d \in s.columns : (d[1] \in TablesOf(app) /\ ~Has(app, d[1], d[2])) => d[3] # "required"
    /\ \A u \in s.uniques : (\A name \in u[2] : Has(app, u[1], name)) => u \in app.uniques

-------------------------------------------------------------------------------
\* The revisions below one; and the schema that upgrades from an empty database give it.
Below[id \in Ids] == IF id = "base" THEN {} ELSE {Revision(id).down} \cup Below[Revision(id).down]
SchemaOf[id \in Ids] ==
    IF id = "base" THEN Empty
    ELSE FoldLeft(LAMBDA s, op : Applied(op, s), SchemaOf[Revision(id).down], Revision(id).up)

VARIABLES
    committed,  \* the schema and the alembic_version that others see
    schema,     \* what the running command sees
    revision,   \* its alembic_version
    running,    \* the direction and the target of the command, and its next operation
    app,        \* the revision that the serving replicas were released with
    secrets,    \* the longest MFA secret that is stored
    refused     \* history: revisions and directions of which the server refused an operation

vars == <<committed, schema, revision, running, app, secrets, refused>>

None == [way |-> "none", to |-> "base", at |-> 0]

Init == /\ schema = Empty /\ revision = "base" /\ running = None
        /\ committed = [schema |-> Empty, revision |-> "base"]
        /\ app = "base" /\ secrets = "none" /\ refused = {}

Start(way, target) ==
    /\ running = None /\ running' = [way |-> way, to |-> target, at |-> 1]
    /\ UNCHANGED <<committed, schema, revision, app, secrets, refused>>

\* alembic upgrade, to the head of a release: one revision or several
Upgrade(target) == revision \in Below[target] /\ Start("up", target)

\* alembic downgrade, which the CI rehearses on a database that serves nobody
Downgrade(target) == target \in Below[revision] /\ app = "base" /\ Start("down", target)

\* The revision that the command is at, its operations, and the version it leaves.
Step == IF running.way = "up" THEN CHOOSE r \in Followers(revision) : r.id \in Below[running.to] \cup {running.to}
                              ELSE Revision(revision)
Ops == IF running.way = "up" THEN Step.up ELSE Step.undo
Left == IF running.way = "up" THEN Step.id ELSE Step.down
Due == revision # running.to /\ running.at <= Len(Ops)

\* The stored ciphertext does not fit the shorter type.
Truncates(op) == secrets = "sealed" /\ op.do = "alter_column" /\ \E c \in op.columns : c[3] = "nullable_64"

Refuses(op) == ~Applies(op, schema) \/ Truncates(op)

Operation ==
    /\ running # None /\ Due /\ ~Refuses(Ops[running.at])
    /\ schema' = Applied(Ops[running.at], schema)
    /\ running' = [running EXCEPT !.at = @ + 1]
    /\ UNCHANGED <<committed, revision, app, secrets, refused>>

\* The version row is updated after each revision, in the same transaction.
Stamp ==
    /\ running # None /\ revision # running.to /\ ~Due
    /\ revision' = Left /\ running' = [running EXCEPT !.at = 1]
    /\ UNCHANGED <<committed, schema, app, secrets, refused>>

\* The server refuses an operation, or the migration task dies: all of it is rolled back,
\* the revisions that were complete too.
RolledBack ==
    /\ running # None
    /\ refused' = refused \cup IF Due /\ Refuses(Ops[running.at]) THEN {<<Step.id, running.way>>} ELSE {}
    /\ running' = None /\ schema' = committed.schema /\ revision' = committed.revision
    /\ UNCHANGED <<committed, app, secrets>>

Commit ==
    /\ running # None /\ revision = running.to
    /\ committed' = [schema |-> schema, revision |-> revision]
    /\ running' = None
    /\ secrets' = IF Has(schema, "users", "mfa_secret") THEN secrets ELSE "none"
    /\ UNCHANGED <<schema, revision, app, refused>>

\* The service rolls out the release, or the circuit breaker keeps the previous one.
RollOut ==
    /\ running = None /\ app # revision
    /\ app' = revision
    /\ UNCHANGED <<committed, schema, revision, running, secrets, refused>>

\* Columns and references of users: an operation on them locks the table till the end.
Users(s) == {c \in s.columns : c[1] = "users"} \cup {f \in s.fks : f[3] = "users"}

\* An enrolment, the integration suite's too, stores a secret: since 0010 a ciphertext fits.
Enrol(secret) ==
    /\ Users(schema) = Users(committed.schema)
    /\ \E c \in schema.columns : <<c[1], c[2]>> = <<"users", "mfa_secret">> /\ (secret = "sealed" => c[3] = "nullable")
    /\ secrets # "sealed" /\ secrets' = secret
    /\ UNCHANGED <<committed, schema, revision, running, app, refused>>

Next == \/ \E id \in Ids : Upgrade(id) \/ Downgrade(id)
        \/ Operation \/ Stamp \/ RolledBack \/ Commit \/ RollOut
        \/ \E secret \in {"short", "sealed"} : Enrol(secret)

Spec == Init /\ [][Next]_vars

-------------------------------------------------------------------------------
(* Properties *)

TypeOK ==
    /\ revision \in Ids /\ app \in Ids /\ committed.revision \in Ids
    /\ secrets \in {"none", "short", "sealed"} /\ refused \subseteq Ids \X {"up", "down"}
    /\ \A c \in schema.columns : c[3] \in Kinds
    /\ \A c, d \in schema.columns : <<c[1], c[2]>> = <<d[1], d[2]>> => c = d
    /\ Cardinality(Followers(revision)) <= 1  \* one head

\* phase-3-database.md: "upgrade, downgrade to base, and a second upgrade": the server
\* refuses no operation, in either direction, but to shorten the column under a stored
\* ciphertext, which only the downgrade of 0010 asks for; and a revision has one schema,
\* by whatever ups and downs and failed attempts it was reached.
RevisionsHaveOneSchema ==
    /\ refused \subseteq {<<"0010", "down">>}
    /\ committed.schema = SchemaOf[committed.revision]
    /\ running = None => schema = committed.schema /\ revision = committed.revision

\* deployment-rollback.md:6 "a release must be safe with both the previous and next
\* application revision": the replicas that serve can write to every schema that a
\* deployment commits, while it rolls out and after it was rolled back.
ServingReplicasFit == app # "base" => Serves(committed.schema, SchemaOf[app])

\* The newest schema is the one the models expect: columns, which of them may be NULL,
\* references and unique indexes.
HeadMatchesModels ==
    committed.revision = "0014_temporal" =>
        LET Null(k) == k \in {"nullable", "nullable_64"}
            Plain(columns) == {<<c[1], c[2], Null(c[3])>> : c \in columns}
        IN /\ Plain(committed.schema.columns) = Plain(UNION {r.columns : r \in Rows})
           /\ committed.schema.fks = UNION {r.fks : r \in Rows}
           /\ committed.schema.uniques = UNION {r.uniques : r \in Rows}

\* 0010 "Store authenticated MFA ciphertext without truncation": no migration shortens
\* the column under a stored ciphertext.
CiphertextsAreWhole ==
    secrets = "sealed" =>
        \A c \in committed.schema.columns : <<c[1], c[2]>> = <<"users", "mfa_secret">> => c[3] = "nullable"

\* phase-3-database.md: every path through the revisions keeps the schema, its data and
\* the models together.
SchemaInv == TypeOK /\ RevisionsHaveOneSchema /\ HeadMatchesModels /\ CiphertextsAreWhole
===============================================================================
