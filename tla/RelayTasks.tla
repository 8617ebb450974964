----------------------------- MODULE RelayTasks -----------------------------
(***************************************************************************)
(* The task board of bot-relay-mcp: the tasks table, the columns of the    *)
(* agents table that routing and the health monitor read, and the server   *)
(* processes that share them.                                              *)
(*                                                                         *)
(* A handler runs to completion inside one Node process, but every stdio   *)
(* terminal has a process of its own on the same SQLite file, so two       *)
(* handlers interleave between SQL statements.  A handler is therefore one *)
(* action per statement that reads or writes shared rows; what it carries  *)
(* from a read to a later write is call[p].                                *)
(***************************************************************************)
EXTENDS Naturals, FiniteSets

CONSTANTS
  Agents,            \* names that may register
  Humans,            \* names tasks are addressed to that never register
  Caps,              \* capability strings
  Declared,          \* bound: the capability lists agents register with
  Statuses,          \* bound: the agent_status classes agents take
  Procs,             \* server processes sharing the database
  MaxTasks,          \* bound: task ids are 1..MaxTasks, in creation order
  Priorities,        \* priority ranks, 0 the most urgent
  AutoAssignLimit,   \* RELAY_AUTO_ASSIGN_LIMIT, 20 by default
  ScanLimit,         \* RELAY_HEALTH_SCAN_LIMIT, 50 by default
  NoOne              \* SQL NULL in to_agent

ASSUME NoOneAssumption == NoOne \notin Agents \cup Humans
ASSUME BoundAssumption == /\ MaxTasks \in Nat
                          /\ Priorities \subseteq Nat
                          /\ AutoAssignLimit \in Nat
                          /\ ScanLimit \in Nat
                          /\ Declared \subseteq SUBSET Caps
                          /\ Statuses \subseteq {"idle", "working", "offline"}
ASSUME NameAssumption == Agents \cap Humans = {}

VARIABLES
  task,    \* the tasks table
  agent,   \* the agents table, with its agent_capabilities rows
  call     \* what each process carries between two statements of a handler

vars == <<task, agent, call>>

Tasks == 1 .. MaxTasks
Names == Agents \cup Humans
Terminal == {"completed", "rejected", "cancelled"}
Actions == {"accept", "complete", "reject", "cancel", "heartbeat"}

(***************************************************************************)
(* A row of tasks.  req = {} is required_capabilities NULL (post_task).    *)
(* Timestamps keep only what a threshold can tell: "lease" is              *)
(* lease_renewed_at as NULL, within or past the reassign grace; "aged" is  *)
(* updated_at of a posted row past the posted-orphan grace.  "absent" is a *)
(* row not inserted yet, "purged" a deleted one (uuids are not reused).    *)
(***************************************************************************)
TaskRow == [status : Terminal \cup {"absent", "queued", "posted", "accepted", "purged"},
            to     : Names \cup {NoOne},
            from   : Agents \cup {NoOne},
            req    : SUBSET Caps,
            prio   : Priorities \cup {0},
            lease  : {"none", "live", "expired"},
            aged   : BOOLEAN]

NoTask == [status |-> "absent", to |-> NoOne, from |-> NoOne, req |-> {},
           prio |-> 0, lease |-> "none", aged |-> FALSE]

(***************************************************************************)
(* A row of agents.  mode is agent_status: "working" (working, blocked or  *)
(* waiting_user) while busy_expires_at lies ahead, "idle" after it as no   *)
(* query tells them apart, "offline" a terminal status.  recent is         *)
(* last_seen within the reassign grace.  caps is the JSON column, indexed  *)
(* the agent_capabilities rows, which can outlive the row.                 *)
(***************************************************************************)
AgentRow == [registered : BOOLEAN,
             session    : BOOLEAN,
             mode       : {"idle", "working", "offline"},
             recent     : BOOLEAN,
             caps       : SUBSET Caps,
             indexed    : SUBSET Caps]

NoAgent == [registered |-> FALSE, session |-> FALSE, mode |-> "idle",
            recent |-> FALSE, caps |-> {}, indexed |-> {}]

(***************************************************************************)
(* A call in flight.  todo holds the rows still to be written, each with   *)
(* the name the write will put in its WHERE clause or in to_agent; caps is *)
(* the capability list a registration works from.                          *)
(***************************************************************************)
CallKinds == {"idle", "update", "index", "sweep", "assign", "posted", "stale", "route"}
CallRow == [kind : CallKinds,
            act  : Actions \cup {"none", "read", "auto"},
            who  : Agents \cup {NoOne},
            caps : SUBSET Caps,
            todo : SUBSET (Tasks \X (Names \cup {NoOne}))]

Idle == [kind |-> "idle", act |-> "none", who |-> NoOne, caps |-> {}, todo |-> {}]

TypeOK == /\ task \in [Tasks -> TaskRow]
          /\ agent \in [Agents -> AgentRow]
          /\ call \in [Procs -> CallRow]
          /\ \A p \in Procs : call[p].kind = "update" => call[p].act \in Actions

Init == /\ task = [t \in Tasks |-> NoTask]
        /\ agent = [a \in Agents |-> NoAgent]
        /\ call = [p \in Procs |-> Idle]

-----------------------------------------------------------------------------
(* Predicates the handlers share.                                          *)

Registered(n) == n \in Agents /\ agent[n].registered

\* The next id to be inserted: ids follow created_at.
Fresh(t) == /\ task[t].status = "absent"
            /\ \A u \in Tasks : u < t => task[u].status # "absent"

\* UPDATE agents SET last_seen ... : a name without a row is left alone.
Touched(n) == IF Registered(n) THEN [agent EXCEPT ![n].recent = TRUE] ELSE agent

Routable(a) == Registered(a) /\ agent[a].session /\ agent[a].mode # "offline"

Load(a) == Cardinality({t \in Tasks : task[t].to = a /\ task[t].status \in {"posted", "accepted"}})

\* The assignee is unregistered or holds no session.
Gone(n) == ~ (Registered(n) /\ agent[n].session)

\* The assignee is unregistered, or silent and not protected by a busy TTL.
Absent(n) == ~ Registered(n) \/ (~ agent[n].recent /\ agent[n].mode # "working")

\* A LIMITed SELECT over a set of matching rows.
Limited(rows, limit) ==
  {S \in SUBSET rows : \/ S = rows
                       \/ Cardinality(S) = limit /\ limit < Cardinality(rows)}

-----------------------------------------------------------------------------
(* Posting.                                                                *)

PostTask(from, to, prio, t) ==
  /\ Fresh(t)
  /\ Registered(from)
  /\ task' = [task EXCEPT ![t] = [NoTask EXCEPT !.status = "posted", !.to = to,
                                                !.from = from, !.prio = prio]]
  /\ agent' = Touched(from)
  /\ UNCHANGED call

\* Rows that own every required capability, the sender left out unless allowed.
Candidates(from, req, self) ==
  {a \in Agents : Routable(a) /\ req \subseteq agent[a].indexed /\ (self \/ a # from)}

\* The head of ORDER BY load ASC, last_seen DESC; the sender was just touched.
BestCandidates(from, req, self) ==
  LET C     == Candidates(from, req, self)
      Light == {a \in C : \A b \in C : Load(a) <= Load(b)}
  IN IF from \in Light THEN {from}
     ELSE {a \in Light : agent[a].recent \/ \A b \in Light : ~ agent[b].recent}

\* postTaskAuto after the tick of its handler; SELECT and INSERT are one transaction.
PostTaskAuto(p, req, self, prio, t) ==
  LET from == call[p].who
      best == BestCandidates(from, req, self)
  IN /\ call[p].kind = "route"
     /\ Fresh(t)
     /\ req # {}
     /\ \E to \in IF best = {} THEN {NoOne} ELSE best :
          task' = [task EXCEPT ![t] = [NoTask EXCEPT
                     !.status = IF best = {} THEN "queued" ELSE "posted",
                     !.to = to, !.from = from, !.req = req, !.prio = prio]]
     /\ agent' = Touched(from)
     /\ call' = [call EXCEPT ![p] = Idle]

\* The model's bound: no id is left, and the call ends without a task.
BoardFull(p) ==
  /\ call[p].kind = "route"
  /\ Caps = {} \/ \A t \in Tasks : ~ Fresh(t)
  /\ call' = [call EXCEPT ![p] = Idle]
  /\ UNCHANGED <<task, agent>>

-----------------------------------------------------------------------------
(* update_task: a read that authorises, then a compare-and-set.            *)

AllowedFrom(act) ==
  CASE act = "accept" -> {"posted"}
    [] act \in {"complete", "heartbeat"} -> {"accepted"}
    [] act = "reject" -> {"posted", "accepted"}
    [] act = "cancel" -> {"queued", "posted", "accepted"}

\* Who may perform the action: assignee, requester, or either.
Party(act, t, who) ==
  \/ act # "cancel" /\ task[t].to = who
  \/ act \in {"cancel", "reject"} /\ task[t].from = who

\* The pre-read, and the same conditions again in the WHERE clause of the write.
UpdateAllowed(act, t, who) == task[t].status \in AllowedFrom(act) /\ Party(act, t, who)
\* Mutant: the write checks the status and trusts the read for the party.
UpdateMatches_StatusOnly(act, t, who) == task[t].status \in AllowedFrom(act)

UpdateMatches(act, t, who) == task[t].status \in AllowedFrom(act) /\ Party(act, t, who)

UpdateTaskRead(p, act, t, who) ==
  /\ call[p] = Idle
  /\ Registered(who)
  /\ UpdateAllowed(act, t, who)
  /\ call' = [call EXCEPT ![p] = [Idle EXCEPT !.kind = "update", !.act = act,
                                               !.who = who, !.todo = {<<t, who>>}]]
  /\ UNCHANGED <<task, agent>>

\* Mutant: a heartbeat goes through ACTION_TO_STATUS.
Updated_HeartbeatStatus(row, act) ==
  [row EXCEPT !.aged = FALSE, !.lease = "live", !.status = IF act = "heartbeat" THEN act ELSE "accepted"]

\* The row an action leaves behind; every write sets updated_at.
Updated(row, act) ==
  [row EXCEPT !.aged = FALSE,
              !.status = CASE act = "accept" -> "accepted"
                           [] act = "complete" -> "completed"
                           [] act = "reject" -> "rejected"
                           [] act = "cancel" -> "cancelled"
                           [] act = "heartbeat" -> @,
              !.lease = IF act \in {"accept", "heartbeat"} THEN "live" ELSE @]

UpdateTaskWrite(p, t) ==
  LET act == call[p].act
      who == call[p].who
  IN /\ call[p].kind = "update"
     /\ <<t, who>> \in call[p].todo
     /\ UpdateMatches(act, t, who)
     /\ task' = [task EXCEPT ![t] = Updated(@, act)]
     /\ agent' = Touched(who)
     /\ call' = [call EXCEPT ![p] = Idle]

\* No row matched: ConcurrentUpdateError.
UpdateTaskConflict(p, t) ==
  /\ call[p].kind = "update"
  /\ <<t, call[p].who>> \in call[p].todo
  /\ ~ UpdateMatches(call[p].act, t, call[p].who)
  /\ call' = [call EXCEPT ![p] = Idle]
  /\ UNCHANGED <<task, agent>>

-----------------------------------------------------------------------------
(* register_agent, as far as tasks depend on it.                           *)

\* statusAfterReregister: a terminal status is reset, an active one kept.
Reregister(row) ==
  [row EXCEPT !.session = TRUE, !.recent = TRUE,
              !.mode = IF @ = "offline" THEN "idle" ELSE @]

RegisterExisting(p, a) ==
  /\ call[p] = Idle
  /\ agent[a].registered
  /\ agent' = [agent EXCEPT ![a] = Reregister(@)]
  /\ call' = [call EXCEPT ![p] = [Idle EXCEPT !.kind = "sweep", !.who = a]]
  /\ UNCHANGED task

\* The INSERT into agents; the capability rows are separate statements.
RegisterNew(p, a, caps) ==
  /\ call[p] = Idle
  /\ ~ agent[a].registered
  /\ agent' = [agent EXCEPT ![a] = [registered |-> TRUE, session |-> TRUE, mode |-> "idle",
                                    recent |-> TRUE, caps |-> caps, indexed |-> @.indexed]]
  /\ call' = [call EXCEPT ![p] = [Idle EXCEPT !.kind = "index", !.who = a, !.caps = caps]]
  /\ UNCHANGED task

IndexCapabilities(p) ==
  /\ call[p].kind = "index"
  /\ agent' = [agent EXCEPT ![call[p].who].indexed = @ \cup call[p].caps]
  /\ call' = [call EXCEPT ![p].kind = "sweep", ![p].caps = {}]
  /\ UNCHANGED task

\* The queue in ORDER BY priority, created_at.
Before(u, t) == task[u].prio < task[t].prio \/ (task[u].prio = task[t].prio /\ u < t)
Queue == {t \in Tasks : task[t].status = "queued" /\ task[t].to = NoOne /\ task[t].req # {}}
\* Mutant: one row short of the LIMIT.
QueueHead_Short == {t \in Queue : Cardinality({u \in Queue : Before(u, t)}) + 1 < AutoAssignLimit}

QueueHead == {t \in Queue : Cardinality({u \in Queue : Before(u, t)}) < AutoAssignLimit}

\* tryAssignQueuedTasksTo: LIMIT first, the capability test after it.
AssignScan(p, a) ==
  /\ call[p].kind = "sweep"
  /\ call[p].who = a
  /\ agent[a].registered
  /\ call' = [call EXCEPT ![p].kind = "assign", ![p].caps = agent[a].caps,
                          ![p].todo = {t \in QueueHead : task[t].req \subseteq agent[a].caps} \X {a}]
  /\ UNCHANGED <<task, agent>>

\* The row read back after the write is gone: registerAgent throws.
AssignScanFails(p, a) ==
  /\ call[p].kind = "sweep"
  /\ call[p].who = a
  /\ ~ agent[a].registered
  /\ call' = [call EXCEPT ![p] = Idle]
  /\ UNCHANGED <<task, agent>>

\* Mutant: the write is by id only.
StillQueued_Unchecked(t) == TRUE

StillQueued(t) == task[t].status = "queued" /\ task[t].to = NoOne

AssignQueued(p, t, a) ==
  /\ call[p].kind = "assign"
  /\ <<t, a>> \in call[p].todo
  /\ task' = IF StillQueued(t)
             THEN [task EXCEPT ![t].status = "posted", ![t].to = a, ![t].aged = FALSE]
             ELSE task
  /\ call' = [call EXCEPT ![p].todo = @ \ {<<t, a>>}]
  /\ UNCHANGED agent

-----------------------------------------------------------------------------
(* The health monitor, run by get_messages, get_tasks ("read") and by      *)
(* post_task_auto ("auto") before their own work.                          *)

\* Mutant: only a registered assignee without a session counts as gone.
PostedOrphan_KnownOnly(t) == /\ task[t].status = "posted" /\ task[t].lease = "none"
                             /\ Registered(task[t].to) /\ task[t].aged /\ Gone(task[t].to)

PostedOrphan(t) == /\ task[t].status = "posted"
                   /\ task[t].lease = "none"
                   /\ task[t].to # NoOne
                   /\ task[t].aged
                   /\ Gone(task[t].to)

\* Mutant: presence is trusted from the scan.
StillPostedOrphan_NoRecheck(t, n) == task[t].status = "posted" /\ task[t].lease = "none" /\ task[t].to = n

\* The WHERE clause of the requeue, for the assignee the scan saw.
StillPostedOrphan(t, n) == /\ task[t].status = "posted"
                           /\ task[t].lease = "none"
                           /\ task[t].to = n
                           /\ Gone(n)

StaleAccepted(t) == /\ task[t].status = "accepted"
                    /\ task[t].lease = "expired"
                    /\ Absent(task[t].to)

\* Mutant: lease and assignee are rechecked, presence is not.
StillStaleAccepted_NoRecheck(t, n) == task[t].status = "accepted" /\ task[t].lease = "expired" /\ task[t].to = n

StillStaleAccepted(t, n) == /\ task[t].status = "accepted"
                            /\ task[t].lease = "expired"
                            /\ task[t].to = n
                            /\ Absent(n)

RowsWith(S) == {<<t, task[t].to>> : t \in S}

HealthTick(p, who, trigger) ==
  /\ call[p] = Idle
  /\ Registered(who)
  /\ \E S \in Limited({t \in Tasks : PostedOrphan(t)}, ScanLimit) :
       call' = [call EXCEPT ![p] = [Idle EXCEPT !.kind = "posted", !.act = trigger, !.todo = RowsWith(S),
                                                !.who = IF trigger = "auto" THEN who ELSE NoOne]]
  /\ UNCHANGED <<task, agent>>

\* Mutant: to_agent is left in place.
Requeued_KeepsHolder(row) == [row EXCEPT !.status = "queued", !.aged = FALSE]

Requeued(row) == [row EXCEPT !.status = "queued", !.to = NoOne, !.aged = FALSE]

RequeuePosted(p, t, n) ==
  /\ call[p].kind = "posted"
  /\ <<t, n>> \in call[p].todo
  /\ task' = IF StillPostedOrphan(t, n) THEN [task EXCEPT ![t] = Requeued(@)] ELSE task
  /\ call' = [call EXCEPT ![p].todo = @ \ {<<t, n>>}]
  /\ UNCHANGED agent

HealthScanStale(p) ==
  /\ call[p].kind = "posted"
  /\ call[p].todo = {}
  /\ \E S \in Limited({t \in Tasks : StaleAccepted(t)}, ScanLimit) :
       call' = [call EXCEPT ![p].kind = "stale", ![p].todo = RowsWith(S)]
  /\ UNCHANGED <<task, agent>>

RequeueStale(p, t, n) ==
  /\ call[p].kind = "stale"
  /\ <<t, n>> \in call[p].todo
  /\ task' = IF StillStaleAccepted(t, n) THEN [task EXCEPT ![t] = Requeued(@)] ELSE task
  /\ call' = [call EXCEPT ![p].todo = @ \ {<<t, n>>}]
  /\ UNCHANGED agent

\* The loop is over: the tick's caller, or the sweep's registerAgent, goes on.
EndLoop(p) ==
  /\ call[p].kind \in {"assign", "stale"}
  /\ call[p].todo = {}
  /\ call' = [call EXCEPT ![p] = IF call[p].act = "auto" THEN [@ EXCEPT !.kind = "route"] ELSE Idle]
  /\ UNCHANGED <<task, agent>>

-----------------------------------------------------------------------------
(* What else happens to the rows, and time.                                *)

\* markAgentOffline, closeAgentSession, releaseAgentBinding, endAgentSessionOnSignal.
SessionEnd(a, mode) ==
  /\ agent[a].registered /\ agent[a].session
  /\ agent' = [agent EXCEPT ![a].session = FALSE, ![a].mode = mode]
  /\ UNCHANGED <<task, call>>

SetStatus(a, mode) ==
  /\ agent[a].registered
  /\ agent' = [agent EXCEPT ![a].mode = mode]
  /\ UNCHANGED <<task, call>>

TouchAgent(a) ==
  /\ agent[a].registered
  /\ agent' = Touched(a)
  /\ UNCHANGED <<task, call>>

Unregister(a) ==
  /\ agent[a].registered
  /\ agent' = [agent EXCEPT ![a] = NoAgent]
  /\ UNCHANGED <<task, call>>

PurgeOldTask(t) ==
  /\ task[t].status \in Terminal
  /\ task' = [task EXCEPT ![t] = [NoTask EXCEPT !.status = "purged"]]
  /\ UNCHANGED <<agent, call>>

ProcessCrash(p) ==
  /\ call[p] # Idle
  /\ call' = [call EXCEPT ![p] = Idle]
  /\ UNCHANGED <<task, agent>>

\* A tick reads the clock once, so no threshold passes for it while it runs.
NoTickRuns == \A p \in Procs : call[p].kind \notin {"posted", "stale"}

UpdatedAtAges(t) ==
  /\ ~ task[t].aged /\ task[t].status = "posted"
  /\ task' = [task EXCEPT ![t].aged = TRUE]
  /\ UNCHANGED <<agent, call>>

LeaseExpires(t) ==
  /\ NoTickRuns
  /\ task[t].lease = "live" /\ task[t].status = "accepted"
  /\ task' = [task EXCEPT ![t].lease = "expired"]
  /\ UNCHANGED <<agent, call>>

LastSeenAges(a) ==
  /\ NoTickRuns
  /\ agent[a].recent
  /\ agent' = [agent EXCEPT ![a].recent = FALSE]
  /\ UNCHANGED <<task, call>>

BusyTtlPasses(a) ==
  /\ NoTickRuns
  /\ agent[a].mode = "working"
  /\ agent' = [agent EXCEPT ![a].mode = "idle"]
  /\ UNCHANGED <<task, call>>

-----------------------------------------------------------------------------
\* A handler that has begun takes its next step.
Continue(p) ==
  \/ \E t \in Tasks : UpdateTaskWrite(p, t) \/ UpdateTaskConflict(p, t)
  \/ IndexCapabilities(p)
  \/ \E a \in Agents : AssignScan(p, a) \/ AssignScanFails(p, a)
  \/ \E t \in Tasks, a \in Agents : AssignQueued(p, t, a)
  \/ \E t \in Tasks, n \in Names : RequeuePosted(p, t, n) \/ RequeueStale(p, t, n)
  \/ HealthScanStale(p)
  \/ EndLoop(p)
  \/ \E req \in SUBSET Caps, self \in BOOLEAN, prio \in Priorities, t \in Tasks :
       PostTaskAuto(p, req, self, prio, t)
  \/ BoardFull(p)

\* A request arrives.
Call ==
  \/ \E from \in Agents, to \in Names, prio \in Priorities, t \in Tasks : PostTask(from, to, prio, t)
  \/ \E p \in Procs, act \in Actions, t \in Tasks, who \in Agents : UpdateTaskRead(p, act, t, who)
  \/ \E p \in Procs, a \in Agents : RegisterExisting(p, a)
  \/ \E p \in Procs, a \in Agents, caps \in Declared : RegisterNew(p, a, caps)
  \/ \E p \in Procs, who \in Agents, trigger \in {"read", "auto"} : HealthTick(p, who, trigger)

Presence == \E a \in Agents :
              \/ \E mode \in Statuses \ {"working"} : SessionEnd(a, mode)
              \/ \E mode \in Statuses : SetStatus(a, mode)
              \/ TouchAgent(a)
              \/ Unregister(a)

Time == \/ \E t \in Tasks : PurgeOldTask(t) \/ UpdatedAtAges(t) \/ LeaseExpires(t)
        \/ \E a \in Agents : LastSeenAges(a) \/ BusyTtlPasses(a)

NextUp == Call \/ (\E p \in Procs : Continue(p)) \/ Presence \/ Time

Next == NextUp \/ (\E p \in Procs : ProcessCrash(p))

Spec == Init /\ [][Next]_vars

-----------------------------------------------------------------------------
(* Fairness, once processes stop crashing: a handler that has begun goes   *)
(* on, reads keep polling the health monitor however busy the processes    *)
(* are, and time passes (a tick is short against a lease).                 *)

Fairness ==
  /\ \A p \in Procs : WF_vars(Continue(p))
  /\ SF_vars(\E p \in Procs, who \in Agents : HealthTick(p, who, "read"))
  /\ \A t \in Tasks : WF_vars(UpdatedAtAges(t)) /\ SF_vars(LeaseExpires(t))

FairSpec == Init /\ [][NextUp]_vars /\ Fairness

-----------------------------------------------------------------------------
(* Safety.                                                                 *)

\* to_agent is NULL exactly while a task is pooled, and a task under way has
\* a lease and a registered name for its holder's name (db.ts 8106-8154, 8469, 8566).
WellAssigned ==
  \A t \in Tasks :
    /\ task[t].status \in {"absent", "queued", "purged"} => task[t].to = NoOne
    /\ task[t].status \in {"posted", "accepted", "completed"} => task[t].to # NoOne
    /\ task[t].status \in {"accepted", "completed"} => task[t].lease # "none" /\ task[t].to \in Agents

\* Whatever happened between its read and its write, an update_task that lands
\* is by the task's assignee or requester of that moment (db.ts 8040-8164).
ActorsEntitled ==
  [][\A t \in Tasks : LET by(n) == \E p \in Procs : call[p].kind = "update" /\ call[p].who = n /\ call'[p] = Idle
                      IN task'[t].status # task[t].status =>
       /\ task'[t].status \in {"accepted", "completed"} => by(task[t].to)
       /\ task'[t].status = "cancelled" => by(task[t].from)
       /\ task'[t].status = "rejected" => by(task[t].to) \/ by(task[t].from)]_vars

\* The health monitor takes a task from the agent that accepted it only if, at
\* the write and not merely at the scan, the lease has run out and the agent
\* is unregistered or silent (db.ts 8565-8588).
NoTheft ==
  [][\A t \in Tasks : task[t].status = "accepted" /\ task'[t].to # task[t].to
       => task[t].lease = "expired" /\ Absent(task[t].to)]_vars

\* A task offered to an agent is withdrawn only while that agent is gone, and a
\* sweep never overwrites another sweep's offer (db.ts 8358, 8469-8479).
OfferKept ==
  [][\A t \in Tasks : task[t].status = "posted" /\ task'[t].to # task[t].to /\ task'[t].status # "purged"
       => Gone(task[t].to)]_vars

\* The board as its users see it.
Phase(row) == CASE row.status = "absent" -> "new"
                [] row.status = "queued" -> "pooled"
                [] row.status = "posted" -> "offered"
                [] row.status = "accepted" -> "held"
                [] row.status = "completed" -> "done"
                [] row.status \in {"rejected", "cancelled"} -> "dropped"
                [] row.status = "purged" -> "purged"

Ledger == INSTANCE TaskLedger WITH NoOwner <- NoOne,
                                   phase <- [t \in Tasks |-> Phase(task[t])],
                                   owner <- [t \in Tasks |-> task[t].to]

\* The task board implements the ledger (db.ts 7839-8611).
ImplementsLedger == Ledger!Spec

-----------------------------------------------------------------------------
(* Liveness.                                                               *)

Polled == \E a \in Agents : agent[a].registered

\* A task never accepted does not stay with a gone assignee while somebody polls.
OrphanReleased ==
  \A t \in Tasks, n \in Names :
    (task[t].status = "posted" /\ task[t].lease = "none" /\ task[t].to = n /\ Gone(n) /\ Polled)
      ~> (task[t].status # "posted" \/ task[t].to # n \/ ~ Gone(n) \/ ~ Polled)

\* A task does not stay accepted by an absent agent while somebody polls.
AbandonedReleased ==
  \A t \in Tasks, n \in Names :
    (task[t].status = "accepted" /\ task[t].to = n /\ Absent(n) /\ Polled)
      ~> (task[t].status # "accepted" \/ task[t].to # n \/ ~ Absent(n) \/ ~ Polled)

\* Nothing stays with who is gone, accepted or not (db.ts 8420-8611).
GoneReleased == OrphanReleased /\ AbandonedReleased

\* If capable agents keep registering, a queued task does not wait for ever.
QueuedAssigned ==
  \A t \in Tasks :
    []<>(\E p \in Procs : call[p].kind = "assign" /\ task[t].req \subseteq call[p].caps)
      => []<>(task[t].status # "queued" \/ task[t].req = {})

-----------------------------------------------------------------------------
(* What the documentation says and the code does not do.                   *)

\* docs/task-coordination.md:40: the lane of a human "holds the tasks/obligations
\* addressed to them and still unresolved": a task leaves it only by being closed.
HumanLaneHolds ==
  [][\A t \in Tasks : task[t].status = "posted" /\ task[t].to \in Humans
       => task'[t].to = task[t].to \/ task'[t].status \in Terminal]_vars

\* db.ts:8441-8444: a task routed to an agent that is gone and never accepts it
\* must not dead-end: also when an earlier assignee had accepted it.
NeverDeadEnds ==
  \A t \in Tasks, n \in Names :
    (task[t].status = "posted" /\ task[t].to = n /\ Gone(n) /\ Polled)
      ~> (task[t].status # "posted" \/ task[t].to # n \/ ~ Gone(n) \/ ~ Polled)
=============================================================================
