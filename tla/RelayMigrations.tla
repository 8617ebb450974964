---------------------------- MODULE RelayMigrations ----------------------------
(***************************************************************************)
(* Schema migrations: what a process does to the database it opens before  *)
(* it serves.                                                              *)
(*                                                                         *)
(* Every process - the daemon, each connector, the command line - runs the *)
(* whole list at its start.  A migration reads the columns there are, adds *)
(* the missing ones, fills what it just added; each statement commits on   *)
(* its own, so another process may run between two of them and a crash     *)
(* leaves what is done so far.  Only the rebuilds are transactions.        *)
(***************************************************************************)
EXTENDS Naturals, Sequences, FiniteSets

CONSTANTS
  Openers,      \* processes that open the database
  Origins,      \* databases they may find
  Together,     \* those two processes may upgrade at once
  MaxCrashes    \* bound: processes killed while they migrate

ASSUME MigrationBounds == Together \subseteq Origins /\ MaxCrashes \in Nat

VARIABLES
  origin,    \* the database that was found
  cols,      \* columns, tables and constraints of the database
  ver,       \* schema_info.version, 0 with no row
  old,       \* an agent of before the upgrade, with what the migrations fill in
  late,      \* values the service wrote in columns of tasks and agents added after their rebuild
  edge,      \* relay_edge: its identity, "none" before
  opener,    \* the processes
  crashes

migVars == <<origin, cols, ver, old, late, edge, opener, crashes>>

CURRENT_SCHEMA_VERSION == 26

------------------------------------------------------------------------------
(* The list.  A step reads, adds or makes what is missing, fills a column it added, or rebuilds. *)

Do(what, C, n) == [do |-> what, of |-> C, skips |-> n]
Add(C) == Do("add", C, 0)
Make(T) == Do("make", T, 0)
Fill(c) == Do("fill", {c}, 0)
Update(what) == Do(what, {}, 0)

Built(steps) == UNION {steps[i].of : i \in DOMAIN steps}

\* One read of the columns, then the steps that add those it misses: none when none is missing.
Reading(steps) == <<Do("read", Built(steps), Len(steps))>> \o steps

\* The constraints the two rebuilds change, and the columns the rebuilt tables have.
NullableAssignee == "tasks.to_agent may be null"
RotationGrace == "agents.auth_state allows rotation_grace"
EdgeKey == "agent_bindings keyed by edge"

TasksRebuilt == {"lease_renewed_at", "required_capabilities"}
AgentsRebuilt == {"token_hash", "session_id", "agent_status", "description", "busy_expires_at", "auth_state",
                  "revoked_at", "recovery_token_hash", "managed", "rotation_grace_expires_at",
                  "previous_token_hash"}

Schema == <<Make({"agents", "messages", "tasks", "webhooks", "audit_log", "schema_info"}), Update("version")>>
V1_7 == Reading(<<Add({"token_hash"})>>) \o Reading(<<Add({"params_json"})>>)
V2_0 == <<Make({"channels", "agent_capabilities"}), Update("needs tasks"), Add(TasksRebuilt)>>
  \o Reading(<<Add({"session_id"}), Fill("session_id"), Add({"agent_status", "description"})>>)
  \o Reading(<<Add({"read_by_session"})>>) \o Reading(<<Add({"busy_expires_at"})>>)
  \o Reading(<<Add({"claimed_at", "claim_expires_at"})>>)
  \o <<Update("list"), Update("rebuild tasks")>>
  \o Reading(<<Add({"retry_count", "next_retry_at", "terminal_status"})>>) \o <<Update("capabilities")>>
V2_1 == Reading(<<Add({"auth_state", "revoked_at", "recovery_token_hash"})>>) \o <<Update("bootstrap")>>
V2_2 == <<Update("secrets")>>
V2_3 == Reading(<<Add({"managed", "rotation_grace_expires_at", "previous_token_hash"})>>)
  \o <<Update("needs agents"), Update("list"), Update("rebuild agents")>>
V2_4 == <<Make({"mailbox", "agent_cursor"})>> \o Reading(<<Add({"visibility"})>>)
V2_5 == <<Update("remap")>>
V2_6 == Reading(<<Add({"session_started_at"})>>)
V2_7 == Reading(<<Add({"terminal_title_ref"})>>)
V2_8 == <<Make({"dashboard_prefs"})>>
V2_9 == Reading(<<Add({"mailbox.agent_name", "mailbox.created_at"})>>)
  \o Reading(<<Add({"agent_cursor.agent_name", "agent_cursor.updated_at"})>>) \o Reading(<<Add({"seq", "epoch"})>>)
V2_10 == <<Make({"inbox_events"})>> \o Reading(<<Add({"last_drain_at"}), Fill("last_drain_at")>>)
V2_11 == Reading(<<Add({"signal_received_at", "signal_kind", "last_dispatched_at"})>>)
V2_12 == Reading(<<Add({"routed_capability"})>>)
V2_13 == <<Make({"task_schemas"})>> \o Reading(<<Add({"schema_id"})>>)
V2_14 == Reading(<<Add({"host_shell_pids", "host_id"})>>)
V2_15 == Reading(<<Add({"resolved_at"})>>)
V2_16 == Reading(<<Add({"last_alive", "agent_pid", "agent_pid_start"})>>)
V2_19 == <<Update("gate"), Update("reset statuses")>>
V2_20 == Reading(<<Add({"token_lookup", "previous_token_lookup"})>>) \o <<Make({"auth_meta"})>>
V2_21 == Reading(<<Add({"class"})>>)
V2_22 == Reading(<<Add({"server_version", "cli_profile"})>>)
V2_23 == Reading(<<Add({"first_authed_at"}), Fill("first_authed_at"), Add({"established_at"}), Fill("established_at"),
                   Add({"registration_recovery_hash", "registration_recovery_expires_at"})>>)
V2_24 == Reading(<<Add({"disposition", "deadline", "read_at"})>>)
V2_25 == <<Make({"relay_edge"}), Update("edge"), Update("bindings")>>
V2_26 == <<Make({"connectors"})>>
Finalize == <<Update("finalize")>>

\* Columns of tasks and of agents that come after their rebuild.
TasksLater == {"schema_id"}
AgentsLater == {"visibility", "session_started_at", "terminal_title_ref", "last_drain_at", "signal_received_at",
                "signal_kind", "last_dispatched_at", "host_shell_pids", "host_id", "last_alive", "agent_pid",
                "agent_pid_start", "token_lookup", "previous_token_lookup", "class", "server_version", "cli_profile",
                "first_authed_at", "established_at", "registration_recovery_hash",
                "registration_recovery_expires_at"}

ThroughV2_2 == Schema \o V1_7 \o V2_0 \o V2_1 \o V2_2
ThroughV2_16 == ThroughV2_2 \o V2_3 \o V2_4 \o V2_5 \o V2_6 \o V2_7 \o V2_8 \o V2_9 \o V2_10 \o V2_11 \o V2_12
                  \o V2_13 \o V2_14 \o V2_15 \o V2_16
ThroughV2_22 == ThroughV2_16 \o V2_19 \o V2_20 \o V2_21 \o V2_22

\* applySchemaSetup
Plan == ThroughV2_22 \o V2_23 \o V2_24 \o V2_25 \o V2_26 \o Finalize

FullSchema == Built(Plan) \cup {NullableAssignee, RotationGrace, EdgeKey}

------------------------------------------------------------------------------
(* Databases and processes *)

\* What a process finds: no file, one of before schema_info, or one of an earlier release.
Found(o) ==
  CASE o = "fresh" -> [cols |-> {}, ver |-> 0]
    [] o = "v1.6" -> [cols |-> {"agents", "messages", "tasks", "webhooks", "audit_log"}, ver |-> 0]
    [] o = "v2.2" -> [cols |-> Built(ThroughV2_2) \cup {NullableAssignee}, ver |-> 3]
    [] o = "v2.16" -> [cols |-> Built(ThroughV2_16) \cup {NullableAssignee, RotationGrace}, ver |-> 18]
    [] o = "v2.22" -> [cols |-> Built(ThroughV2_22) \cup {NullableAssignee, RotationGrace}, ver |-> 22]

\* status: "stale" is what V2_19 clears, "declared" what an operator set since.
Agent == [established : BOOLEAN, status : {"stale", "idle", "declared"}]

\* at: the step it runs next; seen: its last read of the columns; must: a rebuild is needed, or
\* the gate is open.
Opener == [state : {"down", "migrating", "up"}, at : 1 .. Len(Plan) + 1, seen : SUBSET FullSchema,
           must : BOOLEAN]
Unopened == [state |-> "down", at |-> 1, seen |-> {}, must |-> FALSE]

MigInit ==
  \E o \in Origins :
    /\ origin = o /\ cols = Found(o).cols /\ ver = Found(o).ver
    /\ old = [established |-> FALSE, status |-> "stale"]
    /\ late = {} /\ edge = "none" /\ crashes = 0
    /\ opener = [p \in Openers |-> Unopened]

MigTypeOK ==
  /\ origin \in Origins /\ cols \subseteq FullSchema /\ ver \in 0 .. CURRENT_SCHEMA_VERSION
  /\ old \in Agent /\ late \subseteq {"tasks", "agents"} /\ edge \in {"none"} \cup Openers
  /\ opener \in [Openers -> Opener] /\ crashes \in 0 .. MaxCrashes
  /\ \A p \in Openers : opener[p].state = "up" => ver = CURRENT_SCHEMA_VERSION /\ edge # "none"

------------------------------------------------------------------------------
(* Steps *)

PlanStep(p) == Plan[opener[p].at]
Does(p, what) == opener[p].state = "migrating" /\ opener[p].at <= Len(Plan) /\ PlanStep(p).do = what

Next1(p) == [opener EXCEPT ![p].at = @ + 1]
Fails(p) == opener' = [opener EXCEPT ![p] = Unopened]

\* The whole list runs at every start, whatever the version says.
FirstStep == 1

Starts(p) ==
  /\ opener[p].state = "down"
  /\ origin \in Together \/ \A q \in Openers : opener[q].state # "migrating"
  /\ opener' = [opener EXCEPT ![p].state = "migrating", ![p].at = FirstStep]
  /\ UNCHANGED <<origin, cols, ver, old, late, edge, crashes>>

ReadsColumns(p) ==
  /\ Does(p, "read")
  /\ opener' = IF PlanStep(p).of \subseteq cols THEN [opener EXCEPT ![p].at = @ + 1 + PlanStep(p).skips]
               ELSE [Next1(p) EXCEPT ![p].seen = cols \cap PlanStep(p).of]
  /\ UNCHANGED <<origin, cols, ver, old, late, edge, crashes>>

\* Columns the process misses and another process has added since its read.
Duplicate(p) == (PlanStep(p).of \ opener[p].seen) \cap cols

\* ALTER TABLE ADD COLUMN of what was not seen; a column there by now is a duplicate, and the
\* start fails.
AddsColumns(p) ==
  /\ Does(p, "add")
  /\ IF Duplicate(p) # {} THEN Fails(p) /\ cols' = cols
     ELSE opener' = Next1(p) /\ cols' = cols \cup PlanStep(p).of
  /\ UNCHANGED <<origin, ver, old, late, edge, crashes>>

\* CREATE TABLE IF NOT EXISTS.
MakesTables(p) ==
  /\ Does(p, "make")
  /\ cols' = cols \cup PlanStep(p).of /\ opener' = Next1(p)
  /\ UNCHANGED <<origin, ver, old, late, edge, crashes>>

\* The backfill runs only in the process that added the column.
FillsColumn(p) ==
  /\ Does(p, "fill")
  /\ opener' = Next1(p)
  /\ old' = IF PlanStep(p).of \subseteq opener[p].seen \/ PlanStep(p).of # {"established_at"} THEN old
            ELSE [old EXCEPT !.established = TRUE]
  /\ UNCHANGED <<origin, cols, ver, late, edge, crashes>>

\* initSchema: INSERT OR IGNORE of the current version.
WritesVersion(p) ==
  /\ Does(p, "version")
  /\ ver' = IF ver = 0 THEN CURRENT_SCHEMA_VERSION ELSE ver
  /\ opener' = Next1(p)
  /\ UNCHANGED <<origin, cols, old, late, edge, crashes>>

\* The column list and the constraint are read before the transaction of the rebuild.
LooksForRebuild(p) ==
  /\ \/ Does(p, "needs tasks") /\ opener' = [Next1(p) EXCEPT ![p].seen = cols \cap TasksRebuilt,
                                                              ![p].must = NullableAssignee \notin cols]
     \/ Does(p, "needs agents") /\ opener' = [Next1(p) EXCEPT ![p].must = RotationGrace \notin cols]
     \/ Does(p, "list") /\ opener' = [Next1(p) EXCEPT ![p].seen = cols \cap (TasksLater \cup AgentsLater)]
  /\ UNCHANGED <<origin, cols, ver, old, late, edge, crashes>>

\* The rebuilt table has the columns of its release: a column listed beyond them fails the copy,
\* one added after the list was read is dropped with the table.
Rebuild(p, later, marker, table) ==
  IF ~opener[p].must THEN cols' = cols /\ late' = late /\ opener' = [Next1(p) EXCEPT ![p].seen = {}]
  ELSE IF opener[p].seen \cap later # {} THEN cols' = cols /\ late' = late /\ Fails(p)
  ELSE /\ cols' = (cols \ later) \cup {marker}
       /\ late' = late \ {table}
       /\ opener' = [Next1(p) EXCEPT ![p].must = FALSE, ![p].seen = {}]

RebuildsTasks(p) ==
  /\ Does(p, "rebuild tasks")
  /\ Rebuild(p, TasksLater, NullableAssignee, "tasks")
  /\ UNCHANGED <<origin, ver, old, edge, crashes>>

RebuildsAgents(p) ==
  /\ Does(p, "rebuild agents")
  /\ Rebuild(p, AgentsLater, RotationGrace, "agents")
  /\ UNCHANGED <<origin, ver, old, edge, crashes>>

\* Mutant: the statuses are reset at every start.
GateOpen_Always == TRUE

\* migrateSchemaToV2_19 runs on a database whose version is behind it.
GateOpen == ver < 19

ReadsGate(p) ==
  /\ Does(p, "gate")
  /\ opener' = [Next1(p) EXCEPT ![p].must = GateOpen]
  /\ UNCHANGED <<origin, cols, ver, old, late, edge, crashes>>

ResetsStatuses(p) ==
  /\ Does(p, "reset statuses")
  /\ old' = IF opener[p].must THEN [old EXCEPT !.status = "idle"] ELSE old
  /\ opener' = [Next1(p) EXCEPT ![p].must = FALSE]
  /\ UNCHANGED <<origin, cols, ver, late, edge, crashes>>

\* Data updates that a second run of them does not change: capability rows, bootstrap states,
\* encrypted secrets, remapped statuses.
UpdatesRows(p) ==
  /\ \E what \in {"capabilities", "bootstrap", "secrets", "remap"} : Does(p, what)
  /\ opener' = Next1(p)
  /\ UNCHANGED <<origin, cols, ver, old, late, edge, crashes>>

\* INSERT ... WHERE NOT EXISTS: one statement, one identity.
Minted(p) == IF edge = "none" THEN p ELSE edge

EnsuresEdge(p) ==
  /\ Does(p, "edge")
  /\ edge' = Minted(p) /\ opener' = Next1(p)
  /\ UNCHANGED <<origin, cols, ver, old, late, crashes>>

\* The bindings table is made, or rebuilt under the edge-scoped key, in one transaction.
EnsuresBindings(p) ==
  /\ Does(p, "bindings")
  /\ cols' = cols \cup {EdgeKey} /\ opener' = Next1(p)
  /\ UNCHANGED <<origin, ver, old, late, edge, crashes>>

\* advanceSchemaVersionIfBehind
Recorded == IF ver < CURRENT_SCHEMA_VERSION THEN CURRENT_SCHEMA_VERSION ELSE ver

\* finalizeSchemaVersion, and the process serves.
Finalizes(p) ==
  /\ Does(p, "finalize")
  /\ ver' = Recorded
  /\ opener' = [opener EXCEPT ![p] = [Unopened EXCEPT !.state = "up"]]
  /\ UNCHANGED <<origin, cols, old, late, edge, crashes>>

\* Killed, or out of disk, between two statements.
Crashes(p) ==
  /\ opener[p].state = "migrating" /\ crashes < MaxCrashes
  /\ crashes' = crashes + 1 /\ Fails(p)
  /\ UNCHANGED <<origin, cols, ver, old, late, edge>>

Stops(p) ==
  /\ opener[p].state = "up" /\ Fails(p)
  /\ UNCHANGED <<origin, cols, ver, old, late, edge, crashes>>

------------------------------------------------------------------------------
(* The service, on a process that is up *)

Serving == \E p \in Openers : opener[p].state = "up"

WritesLater(table) ==
  /\ Serving /\ late' = late \cup {table}
  /\ (IF table = "tasks" THEN TasksLater ELSE AgentsLater) \subseteq cols
  /\ UNCHANGED <<origin, cols, ver, old, edge, opener, crashes>>

\* set_status, or a session closed by its signal.
DeclaresStatus ==
  /\ Serving /\ old' = [old EXCEPT !.status = "declared"]
  /\ UNCHANGED <<origin, cols, ver, late, edge, opener, crashes>>

------------------------------------------------------------------------------
RunsStep(p) ==
  \/ ReadsColumns(p) \/ AddsColumns(p) \/ MakesTables(p) \/ FillsColumn(p) \/ WritesVersion(p)
  \/ LooksForRebuild(p) \/ RebuildsTasks(p) \/ RebuildsAgents(p) \/ ReadsGate(p) \/ ResetsStatuses(p)
  \/ UpdatesRows(p) \/ EnsuresEdge(p) \/ EnsuresBindings(p) \/ Finalizes(p)

MigNext ==
  \/ \E p \in Openers : Starts(p) \/ RunsStep(p) \/ Crashes(p) \/ Stops(p)
  \/ \E t \in {"tasks", "agents"} : WritesLater(t)
  \/ DeclaresStatus

\* A process that runs goes on, and a service that failed to start is started again.
MigFairness == \A p \in Openers : WF_migVars(RunsStep(p)) /\ WF_migVars(Starts(p))

MigSpec == MigInit /\ [][MigNext]_migVars /\ MigFairness

------------------------------------------------------------------------------
(* Properties *)

\* A process that serves finds every column, table and constraint it was written for, whoever
\* else opened the database and wherever a start was cut off.
ServedSchema == Serving => FullSchema \subseteq cols

\* What the service wrote in a later column is still there after any other start.
NothingLost == [][late \subseteq late']_migVars

\* The reset of stale statuses never touches a status declared after it.
DeclaredStays == [][old.status = "declared" => old'.status = "declared"]_migVars

\* The identity of the database is minted once, by one of the processes that race for it.
OneEdge == [][edge # "none" => edge' = edge]_migVars

\* The promises of an upgrade through crashes and concurrent starts, its end apart: the
\* schema served is whole, no row or declared value is lost (db.ts).
UpgradeIsSafe ==
  /\ []MigTypeOK /\ []ServedSchema /\ NothingLost /\ DeclaredStays /\ OneEdge

\* Whatever was cut off, the next start completes it: however often the processes stop,
\* one of them serves the whole schema again.
UpgradeEnds == []<>(Serving /\ FullSchema \subseteq cols)

(* What the code says and does not do *)

\* "Stamping them non-NULL closes the window by construction": once a process serves, an agent
\* of before the upgrade is established.
OldEstablished == Serving => old.established

\* "Additive-only, idempotent"
AdditiveOnly == [][cols \subseteq cols']_migVars

==============================================================================
