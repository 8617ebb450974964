-------------------------- MODULE RelayTasksProofs --------------------------
(***************************************************************************)
(* Theorems about RelayTasks for every set of agents, humans, capabilities *)
(* and processes and every number of tasks.                                *)
(*                                                                         *)
(* The argument: a step changes at most one row of the tasks table, in one *)
(* of the ways Change lists (RowChange).  Every safety theorem then reads  *)
(* off Change, with WellAssigned as the inductive invariant beside TypeOK. *)
(***************************************************************************)
EXTENDS RelayTasks, TLAPS

-----------------------------------------------------------------------------
(* Typing of the rows the handlers build.                                  *)

\* The row that stands for "not inserted" is a row.
LEMMA NoTaskTyped == NoTask \in TaskRow
BY DEF NoTask, TaskRow, Terminal

\* Posting builds a row, whatever its route.
LEMMA PostedRowTyped ==
  ASSUME NEW s \in {"posted", "queued"}, NEW to \in Names \cup {NoOne}, NEW from \in Agents \cup {NoOne},
         NEW req \in SUBSET Caps, NEW prio \in Priorities
  PROVE  [NoTask EXCEPT !.status = s, !.to = to, !.from = from, !.req = req, !.prio = prio] \in TaskRow
BY DEF NoTask, TaskRow, Terminal

\* An update_task write keeps a row a row, with its assignee and requester.
LEMMA UpdatedTyped ==
  ASSUME NEW row \in TaskRow, NEW act \in Actions
  PROVE  /\ Updated(row, act) \in TaskRow
         /\ Updated(row, act).to = row.to
         /\ Updated(row, act).lease = IF act \in {"accept", "heartbeat"} THEN "live" ELSE row.lease
         /\ Updated(row, act).status = CASE act = "accept" -> "accepted"
                                         [] act = "complete" -> "completed"
                                         [] act = "reject" -> "rejected"
                                         [] act = "cancel" -> "cancelled"
                                         [] act = "heartbeat" -> row.status
BY DEF Updated, TaskRow, Terminal, Actions

\* The requeue keeps a row a row.
LEMMA RequeuedTyped ==
  ASSUME NEW row \in TaskRow
  PROVE  /\ Requeued(row) \in TaskRow
         /\ Requeued(row).status = "queued" /\ Requeued(row).to = NoOne
BY DEF Requeued, TaskRow, Terminal

\* A process with nothing in flight.
LEMMA IdleTyped == Idle \in CallRow /\ Idle.kind = "idle"
BY DEF Idle, CallRow, CallKinds, Actions

\* touchAgent keeps the agents table typed.
LEMMA TouchedTyped ==
  ASSUME NEW n, agent \in [Agents -> AgentRow]
  PROVE  Touched(n) \in [Agents -> AgentRow]
BY DEF Touched, Registered, AgentRow

\* The initial state is typed.
LEMMA InitTyped == Init => TypeOK
BY NoTaskTyped, IdleTyped DEF Init, TypeOK, NoAgent, AgentRow

-----------------------------------------------------------------------------
(* What a step can do to a row of tasks.                                   *)

Change(t, row) ==
  LET old == task[t]
  IN \/ old.status = "absent" /\ row.status = "posted" /\ row.to \in Names
     \/ old.status = "absent" /\ row.status = "queued" /\ row.to = NoOne
     \/ /\ old.status = "posted" /\ row.status = "accepted"
        /\ row.to = old.to /\ row.to \in Agents \cup {NoOne} /\ row.lease = "live"
     \/ old.status = "accepted" /\ row.status = "accepted" /\ row.to = old.to /\ row.lease # "none"
     \/ old.status = "accepted" /\ row.status = "completed" /\ row.to = old.to /\ row.lease = old.lease
     \/ /\ old.status \in {"queued", "posted", "accepted"} /\ row.status \in {"rejected", "cancelled"}
        /\ row.to = old.to
     \/ old.status = "queued" /\ row.status = "posted" /\ row.to \in Agents
     \/ old.status = "posted" /\ row.status = "posted" /\ row.to = old.to
     \/ old.status = "posted" /\ row.status = "queued" /\ row.to = NoOne /\ Gone(old.to)
     \/ /\ old.status = "accepted" /\ row.status = "queued" /\ row.to = NoOne
        /\ old.lease = "expired" /\ Absent(old.to)
     \/ old.status \in Terminal /\ row.status = "purged" /\ row.to = NoOne

OneRow == \E t \in Tasks, row \in TaskRow : task' = [task EXCEPT ![t] = row] /\ Change(t, row)

\* Every step leaves the tasks table alone or changes one row in one of those ways.
LEMMA RowChange == TypeOK /\ Next => UNCHANGED task \/ OneRow
<1> SUFFICES ASSUME TypeOK, Next PROVE UNCHANGED task \/ OneRow
  OBVIOUS
<1> USE DEF OneRow, Change
<1>1. ASSUME NEW from \in Agents, NEW to \in Names, NEW prio \in Priorities, NEW t \in Tasks,
             PostTask(from, to, prio, t)
      PROVE  OneRow
  <2> DEFINE row == [NoTask EXCEPT !.status = "posted", !.to = to, !.from = from, !.prio = prio]
  <2>1. row \in TaskRow /\ row.status = "posted" /\ row.to = to
    BY DEF NoTask, TaskRow, Terminal
  <2>2. task[t].status = "absent" /\ task' = [task EXCEPT ![t] = row]
    BY <1>1 DEF PostTask, Fresh
  <2> QED BY <2>1, <2>2
<1>2. ASSUME NEW p \in Procs, NEW req \in SUBSET Caps, NEW self \in BOOLEAN, NEW prio \in Priorities,
             NEW t \in Tasks, PostTaskAuto(p, req, self, prio, t)
      PROVE  OneRow
  <2> DEFINE from == call[p].who
             best == BestCandidates(from, req, self)
  <2>1. PICK to \in IF best = {} THEN {NoOne} ELSE best :
          task' = [task EXCEPT ![t] = [NoTask EXCEPT !.status = IF best = {} THEN "queued" ELSE "posted",
                                                     !.to = to, !.from = from, !.req = req, !.prio = prio]]
    BY <1>2 DEF PostTaskAuto
  <2> DEFINE row == [NoTask EXCEPT !.status = IF best = {} THEN "queued" ELSE "posted",
                                   !.to = to, !.from = from, !.req = req, !.prio = prio]
  <2>2. from \in Agents \cup {NoOne}
    BY DEF TypeOK, CallRow
  <2>3. best \subseteq Agents \cup {from}
    BY DEF BestCandidates, Candidates
  <2>4. from \in best => from \in Agents
    BY DEF BestCandidates, Candidates
  <2>5. best # {} => to \in Names
    BY <2>1, <2>3, <2>4 DEF Names
  <2>6. row \in TaskRow /\ row.to = to /\ row.status = IF best = {} THEN "queued" ELSE "posted"
    BY <2>1, <2>2, <2>5 DEF NoTask, TaskRow, Terminal
  <2>7. task[t].status = "absent"
    BY <1>2 DEF PostTaskAuto, Fresh
  <2> QED BY <2>1, <2>5, <2>6, <2>7
<1>3. ASSUME NEW p \in Procs, NEW t \in Tasks, UpdateTaskWrite(p, t)
      PROVE  OneRow
  <2> DEFINE act == call[p].act
             who == call[p].who
             row == Updated(task[t], act)
  <2>1. /\ task' = [task EXCEPT ![t] = row]
        /\ UpdateMatches(act, t, who)
    BY <1>3 DEF UpdateTaskWrite
  <2>2. task[t] \in TaskRow /\ who \in Agents \cup {NoOne} /\ act \in Actions \cup {"none", "read", "auto"}
    BY DEF TypeOK, CallRow
  <2>3. act \in Actions
    BY <1>3 DEF TypeOK, UpdateTaskWrite
  <2>4. row \in TaskRow /\ row.to = task[t].to
    BY <2>2, <2>3, UpdatedTyped
  <2>5. task[t].status \in AllowedFrom(act) /\ Party(act, t, who)
    BY <2>1 DEF UpdateMatches
  <2>6. Change(t, row)
    <3>1. CASE act = "accept"
      BY <3>1, <2>2, <2>3, <2>5, UpdatedTyped DEF AllowedFrom, Party
    <3>2. CASE act = "complete"
      BY <3>2, <2>2, <2>3, <2>5, UpdatedTyped DEF AllowedFrom
    <3>3. CASE act = "heartbeat"
      BY <3>3, <2>2, <2>3, <2>5, UpdatedTyped DEF AllowedFrom
    <3>4. CASE act = "reject"
      BY <3>4, <2>2, <2>3, <2>5, UpdatedTyped DEF AllowedFrom
    <3>5. CASE act = "cancel"
      BY <3>5, <2>2, <2>3, <2>5, UpdatedTyped DEF AllowedFrom
    <3> QED BY <2>3, <3>1, <3>2, <3>3, <3>4, <3>5 DEF Actions
  <2> QED BY <2>1, <2>4, <2>6
<1>4. ASSUME NEW p \in Procs, NEW t \in Tasks, NEW a \in Agents, AssignQueued(p, t, a)
      PROVE  UNCHANGED task \/ OneRow
  <2> DEFINE row == [task[t] EXCEPT !.status = "posted", !.to = a, !.aged = FALSE]
  <2>1. task[t] \in TaskRow
    BY DEF TypeOK
  <2>2. row \in TaskRow /\ row.status = "posted" /\ row.to = a
    BY <2>1 DEF TaskRow, Names, Terminal
  <2>3. CASE StillQueued(t)
    <3>1. task' = [task EXCEPT ![t] = row] /\ task[t].status = "queued"
      BY <1>4, <2>3 DEF AssignQueued, StillQueued
    <3> QED BY <3>1, <2>2
  <2>4. CASE ~ StillQueued(t)
    BY <1>4, <2>4 DEF AssignQueued
  <2> QED BY <2>3, <2>4
<1>5. ASSUME NEW p \in Procs, NEW t \in Tasks, NEW n \in Names, RequeuePosted(p, t, n)
      PROVE  UNCHANGED task \/ OneRow
  <2>1. task[t] \in TaskRow
    BY DEF TypeOK
  <2>2. CASE StillPostedOrphan(t, n)
    <3>1. task' = [task EXCEPT ![t] = Requeued(task[t])]
      BY <1>5, <2>2 DEF RequeuePosted
    <3>2. Change(t, Requeued(task[t])) /\ Requeued(task[t]) \in TaskRow
      BY <2>1, <2>2, RequeuedTyped DEF StillPostedOrphan
    <3> QED BY <3>1, <3>2
  <2>3. CASE ~ StillPostedOrphan(t, n)
    BY <1>5, <2>3 DEF RequeuePosted
  <2> QED BY <2>2, <2>3
<1>6. ASSUME NEW p \in Procs, NEW t \in Tasks, NEW n \in Names, RequeueStale(p, t, n)
      PROVE  UNCHANGED task \/ OneRow
  <2>1. task[t] \in TaskRow
    BY DEF TypeOK
  <2>2. CASE StillStaleAccepted(t, n)
    <3>1. task' = [task EXCEPT ![t] = Requeued(task[t])]
      BY <1>6, <2>2 DEF RequeueStale
    <3>2. Change(t, Requeued(task[t])) /\ Requeued(task[t]) \in TaskRow
      BY <2>1, <2>2, RequeuedTyped DEF StillStaleAccepted
    <3> QED BY <3>1, <3>2
  <2>3. CASE ~ StillStaleAccepted(t, n)
    BY <1>6, <2>3 DEF RequeueStale
  <2> QED BY <2>2, <2>3
<1>7. ASSUME NEW t \in Tasks, PurgeOldTask(t)
      PROVE  OneRow
  <2>1. [NoTask EXCEPT !.status = "purged"] \in TaskRow
    BY DEF NoTask, TaskRow, Terminal
  <2>2. [NoTask EXCEPT !.status = "purged"].status = "purged" /\ [NoTask EXCEPT !.status = "purged"].to = NoOne
    BY DEF NoTask
  <2> QED BY <1>7, <2>1, <2>2 DEF PurgeOldTask
<1>8. ASSUME NEW t \in Tasks, UpdatedAtAges(t)
      PROVE  OneRow
  <2> DEFINE row == [task[t] EXCEPT !.aged = TRUE]
  <2>1. task[t] \in TaskRow
    BY DEF TypeOK
  <2>2. row \in TaskRow /\ row.to = task[t].to /\ row.status = task[t].status
    BY <2>1 DEF TaskRow
  <2>3. task' = [task EXCEPT ![t] = row] /\ task[t].status = "posted"
    BY <1>8 DEF UpdatedAtAges
  <2> QED BY <2>2, <2>3
<1>9. ASSUME NEW t \in Tasks, LeaseExpires(t)
      PROVE  OneRow
  <2> DEFINE row == [task[t] EXCEPT !.lease = "expired"]
  <2>1. task[t] \in TaskRow
    BY DEF TypeOK
  <2>2. row \in TaskRow /\ row.to = task[t].to /\ row.status = task[t].status /\ row.lease = "expired"
    BY <2>1 DEF TaskRow
  <2>3. task' = [task EXCEPT ![t] = row] /\ task[t].status = "accepted"
    BY <1>9 DEF LeaseExpires
  <2> QED BY <2>2, <2>3
<1>10. CASE Call
  BY <1>1, <1>10 DEF Call, UpdateTaskRead, RegisterExisting, RegisterNew, HealthTick
<1>11. ASSUME NEW p \in Procs, Continue(p)
       PROVE  UNCHANGED task \/ OneRow
  BY <1>2, <1>3, <1>4, <1>5, <1>6, <1>11
     DEF Continue, UpdateTaskConflict, IndexCapabilities, AssignScan, AssignScanFails, HealthScanStale, EndLoop, BoardFull
<1>12. CASE Presence
  BY <1>12 DEF Presence, SessionEnd, SetStatus, TouchAgent, Unregister
<1>13. CASE Time
  BY <1>7, <1>8, <1>9, <1>13 DEF Time, LastSeenAges, BusyTtlPasses
<1>14. ASSUME NEW p \in Procs, ProcessCrash(p)
       PROVE  UNCHANGED task
  BY <1>14 DEF ProcessCrash
<1> QED BY <1>10, <1>11, <1>12, <1>13, <1>14 DEF Next, NextUp

-----------------------------------------------------------------------------
(* The type invariant.                                                     *)

\* A row written with fields of their types is a row.
LEMMA AgentsTyped == TypeOK /\ Next => agent' \in [Agents -> AgentRow]
<1> SUFFICES ASSUME TypeOK, Next PROVE agent' \in [Agents -> AgentRow]
  OBVIOUS
<1>0. agent \in [Agents -> AgentRow]
  BY DEF TypeOK
<1>1. \A n : Touched(n) \in [Agents -> AgentRow]
  BY <1>0, TouchedTyped
<1>2. CASE Call
  <2>1. ASSUME NEW p \in Procs, NEW a \in Agents, RegisterExisting(p, a)
        PROVE  agent' \in [Agents -> AgentRow]
    <3>1. Reregister(agent[a]) \in AgentRow
      BY <1>0 DEF Reregister, AgentRow
    <3> QED BY <1>0, <2>1, <3>1 DEF RegisterExisting
  <2>2. ASSUME NEW p \in Procs, NEW a \in Agents, NEW caps \in Declared, RegisterNew(p, a, caps)
        PROVE  agent' \in [Agents -> AgentRow]
    <3>1. caps \subseteq Caps
      BY BoundAssumption
    <3>2. [registered |-> TRUE, session |-> TRUE, mode |-> "idle", recent |-> TRUE,
           caps |-> caps, indexed |-> agent[a].indexed] \in AgentRow
      BY <1>0, <3>1 DEF AgentRow
    <3> QED BY <1>0, <2>2, <3>2 DEF RegisterNew
  <2> QED BY <1>0, <1>1, <1>2, <2>1, <2>2 DEF Call, PostTask, UpdateTaskRead, HealthTick
<1>3. ASSUME NEW p \in Procs, Continue(p)
      PROVE  agent' \in [Agents -> AgentRow]
  <2>1. CASE IndexCapabilities(p)
    <3>1. call[p].caps \subseteq Caps
      BY DEF TypeOK, CallRow
    <3>2. \A a \in Agents : [agent[a] EXCEPT !.indexed = @ \cup call[p].caps] \in AgentRow
      BY <1>0, <3>1 DEF AgentRow
    <3>3. agent' = [agent EXCEPT ![call[p].who] = [agent[call[p].who] EXCEPT !.indexed = @ \cup call[p].caps]]
      BY <2>1 DEF IndexCapabilities
    <3> QED BY <1>0, <3>2, <3>3
  <2>2. CASE ~ IndexCapabilities(p)
    BY <1>0, <1>1, <1>3, <2>2
       DEF Continue, UpdateTaskWrite, UpdateTaskConflict, AssignScan, AssignScanFails, AssignQueued,
           RequeuePosted, RequeueStale, HealthScanStale, EndLoop, PostTaskAuto, BoardFull
  <2> QED BY <2>1, <2>2
<1>4. CASE Presence
  <2>1. ASSUME NEW a \in Agents, NEW mode \in {"idle", "working", "offline"}
        PROVE  /\ [agent[a] EXCEPT !.session = FALSE, !.mode = mode] \in AgentRow
               /\ [agent[a] EXCEPT !.mode = mode] \in AgentRow
               /\ NoAgent \in AgentRow
    BY <1>0 DEF AgentRow, NoAgent
  <2>2. PICK a \in Agents : \/ \E mode \in Statuses \ {"working"} : SessionEnd(a, mode)
                            \/ \E mode \in Statuses : SetStatus(a, mode)
                            \/ TouchAgent(a)
                            \/ Unregister(a)
    BY <1>4 DEF Presence
  <2>3. ASSUME NEW mode \in Statuses, SessionEnd(a, mode)
        PROVE  agent' \in [Agents -> AgentRow]
    BY <1>0, <2>1, <2>3, BoundAssumption DEF SessionEnd
  <2>4. ASSUME NEW mode \in Statuses, SetStatus(a, mode)
        PROVE  agent' \in [Agents -> AgentRow]
    BY <1>0, <2>1, <2>4, BoundAssumption DEF SetStatus
  <2>5. CASE TouchAgent(a) \/ Unregister(a)
    BY <1>0, <1>1, <2>1, <2>5 DEF TouchAgent, Unregister
  <2> QED BY <2>2, <2>3, <2>4, <2>5
<1>5. CASE Time
  <2>1. \A a \in Agents : /\ [agent[a] EXCEPT !.recent = FALSE] \in AgentRow
                          /\ [agent[a] EXCEPT !.mode = "idle"] \in AgentRow
    BY <1>0 DEF AgentRow
  <2> QED BY <1>0, <1>5, <2>1
          DEF Time, PurgeOldTask, UpdatedAtAges, LeaseExpires, LastSeenAges, BusyTtlPasses
<1>6. ASSUME NEW p \in Procs, ProcessCrash(p)
      PROVE  agent' \in [Agents -> AgentRow]
  BY <1>0, <1>6 DEF ProcessCrash
<1> QED BY <1>2, <1>3, <1>4, <1>5, <1>6 DEF Next, NextUp

\* What a process carries stays well formed.
CallsTyped == /\ call \in [Procs -> CallRow]
              /\ \A p \in Procs : call[p].kind = "update" => call[p].act \in Actions

\* One process begins, continues or ends a handler and the others do not move.
LEMMA CallsStayTyped == TypeOK /\ Next => CallsTyped'
<1> SUFFICES ASSUME TypeOK, Next PROVE CallsTyped'
  OBVIOUS
<1>0. call \in [Procs -> CallRow] /\ (\A p \in Procs : call[p].kind = "update" => call[p].act \in Actions)
  BY DEF TypeOK
<1>1. ASSUME NEW p \in Procs, NEW c \in CallRow, c.kind = "update" => c.act \in Actions,
             call' = [call EXCEPT ![p] = c]
      PROVE  CallsTyped'
  BY <1>0, <1>1 DEF CallsTyped
<1>2. ASSUME NEW p \in Procs, call' = [call EXCEPT ![p] = Idle]
      PROVE  CallsTyped'
  BY <1>1, <1>2, IdleTyped
<1>3. UNCHANGED call => CallsTyped'
  BY <1>0 DEF CallsTyped
<1>4. ASSUME NEW p \in Procs, NEW S, S \subseteq call[p].todo, call' = [call EXCEPT ![p].todo = S],
             call[p].kind # "update"
      PROVE  CallsTyped'
  <2>1. [call[p] EXCEPT !.todo = S] \in CallRow /\ [call[p] EXCEPT !.todo = S].kind # "update"
    BY <1>0, <1>4 DEF CallRow
  <2> QED BY <1>1, <1>4, <2>1
<1>5. \A S : S \subseteq Tasks => RowsWith(S) \in SUBSET (Tasks \X (Names \cup {NoOne}))
  BY DEF TypeOK, TaskRow, RowsWith
<1>6. \A rows, limit : \A S \in Limited(rows, limit) : S \subseteq rows
  BY DEF Limited
<1>7. CASE Call
  <2>1. ASSUME NEW p \in Procs, NEW act \in Actions, NEW t \in Tasks, NEW who \in Agents,
               UpdateTaskRead(p, act, t, who)
        PROVE  CallsTyped'
    <3> DEFINE c == [Idle EXCEPT !.kind = "update", !.act = act, !.who = who, !.todo = {<<t, who>>}]
    <3>1. {<<t, who>>} \in SUBSET (Tasks \X (Names \cup {NoOne}))
      BY DEF Names
    <3>2. c \in CallRow /\ c.act \in Actions
      BY <3>1 DEF Idle, CallRow, CallKinds
    <3> QED BY <1>1, <2>1, <3>2 DEF UpdateTaskRead
  <2>2. ASSUME NEW p \in Procs, NEW a \in Agents, RegisterExisting(p, a)
        PROVE  CallsTyped'
    <3> DEFINE c == [Idle EXCEPT !.kind = "sweep", !.who = a]
    <3>1. c \in CallRow /\ c.kind # "update"
      BY DEF Idle, CallRow, CallKinds
    <3> QED BY <1>1, <2>2, <3>1 DEF RegisterExisting
  <2>3. ASSUME NEW p \in Procs, NEW a \in Agents, NEW caps \in Declared, RegisterNew(p, a, caps)
        PROVE  CallsTyped'
    <3> DEFINE c == [Idle EXCEPT !.kind = "index", !.who = a, !.caps = caps]
    <3>1. c \in CallRow /\ c.kind # "update"
      BY BoundAssumption DEF Idle, CallRow, CallKinds
    <3> QED BY <1>1, <2>3, <3>1 DEF RegisterNew
  <2>4. ASSUME NEW p \in Procs, NEW who \in Agents, NEW trigger \in {"read", "auto"},
               HealthTick(p, who, trigger)
        PROVE  CallsTyped'
    <3>1. PICK S \in Limited({t \in Tasks : PostedOrphan(t)}, ScanLimit) :
            call' = [call EXCEPT ![p] = [Idle EXCEPT !.kind = "posted", !.act = trigger, !.todo = RowsWith(S),
                                                     !.who = IF trigger = "auto" THEN who ELSE NoOne]]
      BY <2>4 DEF HealthTick
    <3> DEFINE c == [Idle EXCEPT !.kind = "posted", !.act = trigger, !.todo = RowsWith(S),
                                 !.who = IF trigger = "auto" THEN who ELSE NoOne]
    <3>2. RowsWith(S) \in SUBSET (Tasks \X (Names \cup {NoOne}))
      BY <1>5, <1>6
    <3> HIDE DEF RowsWith
    <3>3. c \in CallRow /\ c.kind # "update"
      BY <3>2 DEF Idle, CallRow, CallKinds
    <3> QED BY <1>1, <3>1, <3>3
  <2> QED BY <1>3, <1>7, <2>1, <2>2, <2>3, <2>4 DEF Call, PostTask
<1>8. ASSUME NEW p \in Procs, Continue(p)
      PROVE  CallsTyped'
  <2>1. CASE IndexCapabilities(p)
    <3> DEFINE c == [call[p] EXCEPT !.kind = "sweep", !.caps = {}]
    <3>1. c \in CallRow /\ c.kind # "update"
      BY <1>0 DEF CallRow, CallKinds
    <3>2. call' = [call EXCEPT ![p] = c]
      BY <1>0, <2>1 DEF IndexCapabilities
    <3> QED BY <1>1, <3>1, <3>2
  <2>2. ASSUME NEW a \in Agents, AssignScan(p, a)
        PROVE  CallsTyped'
    <3> DEFINE T == {t \in QueueHead : task[t].req \subseteq agent[a].caps} \X {a}
               c == [call[p] EXCEPT !.kind = "assign", !.caps = agent[a].caps, !.todo = T]
    <3>1. agent[a].caps \in SUBSET Caps
      BY DEF TypeOK, AgentRow
    <3>2. T \in SUBSET (Tasks \X (Names \cup {NoOne}))
      BY DEF QueueHead, Queue, Names
    <3> HIDE DEF T
    <3>3. c \in CallRow /\ c.kind # "update"
      BY <1>0, <3>1, <3>2 DEF CallRow, CallKinds
    <3>4. call' = [call EXCEPT ![p] = c]
      BY <1>0, <2>2 DEF AssignScan, T
    <3> QED BY <1>1, <3>3, <3>4
  <2>3. CASE HealthScanStale(p)
    <3>1. PICK S \in Limited({t \in Tasks : StaleAccepted(t)}, ScanLimit) :
            call' = [call EXCEPT ![p].kind = "stale", ![p].todo = RowsWith(S)]
      BY <2>3 DEF HealthScanStale
    <3> DEFINE c == [call[p] EXCEPT !.kind = "stale", !.todo = RowsWith(S)]
    <3>2. RowsWith(S) \in SUBSET (Tasks \X (Names \cup {NoOne}))
      BY <1>5, <1>6
    <3>3. c \in CallRow /\ c.kind # "update"
      BY <1>0, <3>2 DEF CallRow, CallKinds
    <3>4. call' = [call EXCEPT ![p] = c]
      BY <1>0, <3>1
    <3> QED BY <1>1, <3>3, <3>4
  <2>4. CASE EndLoop(p)
    <3>1. CASE call[p].act = "auto"
      <4> DEFINE c == [call[p] EXCEPT !.kind = "route"]
      <4>1. c \in CallRow /\ c.kind # "update"
        BY <1>0 DEF CallRow, CallKinds
      <4> QED BY <1>1, <2>4, <3>1, <4>1 DEF EndLoop
    <3>2. CASE call[p].act # "auto"
      BY <1>2, <2>4, <3>2 DEF EndLoop
    <3> QED BY <3>1, <3>2
  <2>5. ASSUME NEW t \in Tasks, NEW n, AssignQueued(p, t, n) \/ RequeuePosted(p, t, n) \/ RequeueStale(p, t, n)
        PROVE  CallsTyped'
    <3> DEFINE S == call[p].todo \ {<<t, n>>}
    <3>1. call' = [call EXCEPT ![p].todo = S] /\ call[p].kind # "update"
      BY <2>5 DEF AssignQueued, RequeuePosted, RequeueStale
    <3>2. S \subseteq call[p].todo
      OBVIOUS
    <3> HIDE DEF S
    <3> QED BY <1>4, <3>1, <3>2
  <2>6. CASE \/ \E t \in Tasks : UpdateTaskWrite(p, t) \/ UpdateTaskConflict(p, t)
             \/ \E a \in Agents : AssignScanFails(p, a)
             \/ \E req \in SUBSET Caps, self \in BOOLEAN, prio \in Priorities, t \in Tasks :
                  PostTaskAuto(p, req, self, prio, t)
             \/ BoardFull(p)
    BY <1>2, <2>6 DEF UpdateTaskWrite, UpdateTaskConflict, AssignScanFails, PostTaskAuto, BoardFull
  <2> QED BY <1>8, <2>1, <2>2, <2>3, <2>4, <2>5, <2>6 DEF Continue
<1>9. CASE Presence \/ Time
  BY <1>3, <1>9 DEF Presence, Time, SessionEnd, SetStatus, TouchAgent, Unregister,
                    PurgeOldTask, UpdatedAtAges, LeaseExpires, LastSeenAges, BusyTtlPasses
<1>10. ASSUME NEW p \in Procs, ProcessCrash(p)
       PROVE  CallsTyped'
  BY <1>2, <1>10 DEF ProcessCrash
<1> QED BY <1>7, <1>8, <1>9, <1>10 DEF Next, NextUp

\* TypeOK is inductive.
THEOREM TypeCorrect == Spec => []TypeOK
<1>1. TypeOK /\ [Next]_vars => TypeOK'
  <2> SUFFICES ASSUME TypeOK, [Next]_vars PROVE TypeOK'
    OBVIOUS
  <2>1. CASE Next
    <3>1. task' \in [Tasks -> TaskRow]
      BY <2>1, RowChange DEF TypeOK, OneRow
    <3> QED BY <2>1, <3>1, AgentsTyped, CallsStayTyped DEF TypeOK, CallsTyped
  <2>2. CASE UNCHANGED vars
    BY <2>2 DEF vars, TypeOK
  <2> QED BY <2>1, <2>2
<1> QED BY <1>1, InitTyped, PTL DEF Spec

-----------------------------------------------------------------------------
(* Safety, read off Change.                                                *)

\* One row of the assignment invariant.
Assigned(row) ==
  /\ row.status \in {"absent", "queued", "purged"} => row.to = NoOne
  /\ row.status \in {"posted", "accepted", "completed"} => row.to # NoOne
  /\ row.status \in {"accepted", "completed"} => row.lease # "none" /\ row.to \in Agents

\* A task is with nobody exactly while it is pooled, and work under way or done
\* is with a registered name and has had a lease.
THEOREM AssignmentSound == Spec => []WellAssigned
<1>1. Init => WellAssigned
  BY DEF Init, WellAssigned, NoTask
<1>2. TypeOK /\ TypeOK' /\ WellAssigned /\ [Next]_vars => WellAssigned'
  <2> SUFFICES ASSUME TypeOK, TypeOK', WellAssigned, [Next]_vars PROVE WellAssigned'
    OBVIOUS
  <2>1. \A u \in Tasks : Assigned(task[u])
    BY DEF WellAssigned, Assigned
  <2>2. CASE UNCHANGED task
    BY <2>2 DEF WellAssigned
  <2>3. CASE OneRow
    <3>1. PICK t \in Tasks, row \in TaskRow : task' = [task EXCEPT ![t] = row] /\ Change(t, row)
      BY <2>3 DEF OneRow
    <3>2. NoOne \notin Agents /\ NoOne \notin Names
      BY NoOneAssumption DEF Names
    <3>3. Assigned(row)
      BY <2>1, <3>1, <3>2 DEF Change, Assigned, Names, Terminal
    <3>4. \A u \in Tasks : Assigned(task'[u])
      BY <2>1, <3>1, <3>3 DEF TypeOK
    <3> QED BY <3>4 DEF WellAssigned, Assigned
  <2> QED BY <2>2, <2>3, RowChange DEF vars
<1> QED BY <1>1, <1>2, TypeCorrect, PTL DEF Spec

\* No step takes an accepted task away from an agent that is present or whose
\* lease still runs.
THEOREM HolderSafe == Spec => NoTheft
<1>1. TypeOK /\ [Next]_vars => [\A t \in Tasks : task[t].status = "accepted" /\ task'[t].to # task[t].to
                                  => task[t].lease = "expired" /\ Absent(task[t].to)]_vars
  <2> SUFFICES ASSUME TypeOK, Next, NEW u \in Tasks, task[u].status = "accepted", task'[u].to # task[u].to
               PROVE  task[u].lease = "expired" /\ Absent(task[u].to)
    OBVIOUS
  <2>1. PICK t \in Tasks, row \in TaskRow : task' = [task EXCEPT ![t] = row] /\ Change(t, row)
    BY RowChange DEF OneRow
  <2>2. u = t /\ row.to # task[t].to
    BY <2>1 DEF TypeOK
  <2> QED BY <2>1, <2>2 DEF Change, Terminal
<1> QED BY <1>1, TypeCorrect, PTL DEF Spec, NoTheft

\* No step withdraws an offer from an agent that is registered and has a session.
THEOREM OfferSafe == Spec => OfferKept
<1>1. TypeOK /\ [Next]_vars => [\A t \in Tasks : task[t].status = "posted" /\ task'[t].to # task[t].to
                                       /\ task'[t].status # "purged" => Gone(task[t].to)]_vars
  <2> SUFFICES ASSUME TypeOK, Next, NEW u \in Tasks, task[u].status = "posted", task'[u].to # task[u].to
               PROVE  Gone(task[u].to)
    OBVIOUS
  <2>1. PICK t \in Tasks, row \in TaskRow : task' = [task EXCEPT ![t] = row] /\ Change(t, row)
    BY RowChange DEF OneRow
  <2>2. u = t /\ row.to # task[t].to
    BY <2>1 DEF TypeOK
  <2> QED BY <2>1, <2>2 DEF Change, Terminal
<1> QED BY <1>1, TypeCorrect, PTL DEF Spec, OfferKept

\* A step that is no write of update_task closes and accepts nothing.
LEMMA OthersCloseNothing ==
  ASSUME TypeOK, Next, ~ \E p \in Procs, t \in Tasks : UpdateTaskWrite(p, t), NEW u \in Tasks
  PROVE  task'[u].status \in {task[u].status, "posted", "queued", "purged"}
<1>0. task \in [Tasks -> TaskRow]
  BY DEF TypeOK
<1>1. ASSUME NEW from \in Agents, NEW to \in Names, NEW prio \in Priorities, NEW t \in Tasks,
             PostTask(from, to, prio, t)
      PROVE  task'[u].status \in {task[u].status, "posted"}
  BY <1>0, <1>1 DEF PostTask, NoTask
<1>2. ASSUME NEW p \in Procs, NEW req \in SUBSET Caps, NEW self \in BOOLEAN, NEW prio \in Priorities,
             NEW t \in Tasks, PostTaskAuto(p, req, self, prio, t)
      PROVE  task'[u].status \in {task[u].status, "posted", "queued"}
  <2>1. PICK to : \E status \in {"posted", "queued"} :
          task' = [task EXCEPT ![t] = [NoTask EXCEPT !.status = status,
                                         !.to = to, !.from = call[p].who, !.req = req, !.prio = prio]]
    BY <1>2 DEF PostTaskAuto
  <2> QED BY <1>0, <2>1 DEF NoTask
<1>3. ASSUME NEW p \in Procs, NEW t \in Tasks, NEW n,
             AssignQueued(p, t, n) \/ RequeuePosted(p, t, n) \/ RequeueStale(p, t, n)
      PROVE  task'[u].status \in {task[u].status, "posted", "queued"}
  <2>1. task[u] \in TaskRow /\ task[t] \in TaskRow
    BY <1>0
  <2>2. Requeued(task[t]).status = "queued"
    BY <2>1, RequeuedTyped
  <2> HIDE DEF Requeued
  <2>3. CASE AssignQueued(p, t, n)
    BY <1>0, <2>3 DEF AssignQueued, TaskRow
  <2>4. CASE RequeuePosted(p, t, n)
    BY <1>0, <2>2, <2>4 DEF RequeuePosted
  <2>5. CASE RequeueStale(p, t, n)
    BY <1>0, <2>2, <2>5 DEF RequeueStale
  <2> QED BY <1>3, <2>3, <2>4, <2>5
<1>4. ASSUME NEW p \in Procs, Continue(p)
      PROVE  task'[u].status \in {task[u].status, "posted", "queued"}
  BY <1>2, <1>3, <1>4
     DEF Continue, UpdateTaskConflict, IndexCapabilities, AssignScan, AssignScanFails, HealthScanStale, EndLoop, BoardFull
<1>5. CASE Call
  BY <1>1, <1>5 DEF Call, UpdateTaskRead, RegisterExisting, RegisterNew, HealthTick
<1>6. CASE Presence
  BY <1>6 DEF Presence, SessionEnd, SetStatus, TouchAgent, Unregister
<1>7. CASE Time
  <2>1. ASSUME NEW t \in Tasks, PurgeOldTask(t)
        PROVE  task'[u].status \in {task[u].status, "purged"}
    BY <1>0, <2>1 DEF PurgeOldTask, NoTask
  <2>2. ASSUME NEW t \in Tasks, UpdatedAtAges(t) \/ LeaseExpires(t)
        PROVE  task'[u].status = task[u].status
    BY <1>0, <2>2 DEF UpdatedAtAges, LeaseExpires, TaskRow
  <2> QED BY <1>7, <2>1, <2>2 DEF Time, LastSeenAges, BusyTtlPasses
<1>8. ASSUME NEW p \in Procs, ProcessCrash(p)
      PROVE  task'[u].status = task[u].status
  BY <1>8 DEF ProcessCrash
<1> QED BY <1>4, <1>5, <1>6, <1>7, <1>8 DEF Next, NextUp

\* An update_task that lands is by the assignee or the requester of that moment.
THEOREM ActorsSafe == Spec => ActorsEntitled
<1> DEFINE by(n) == \E p \in Procs : call[p].kind = "update" /\ call[p].who = n /\ call'[p] = Idle
           Entitled(t) == task'[t].status # task[t].status =>
                            /\ task'[t].status \in {"accepted", "completed"} => by(task[t].to)
                            /\ task'[t].status = "cancelled" => by(task[t].from)
                            /\ task'[t].status = "rejected" => by(task[t].to) \/ by(task[t].from)
<1>1. TypeOK /\ Next => \A t \in Tasks : Entitled(t)
  <2> SUFFICES ASSUME TypeOK, Next, NEW u \in Tasks PROVE Entitled(u)
    OBVIOUS
  <2>1. CASE ~ \E p \in Procs, t \in Tasks : UpdateTaskWrite(p, t)
    BY <2>1, OthersCloseNothing
  <2>2. ASSUME NEW p \in Procs, NEW t \in Tasks, UpdateTaskWrite(p, t)
        PROVE  Entitled(u)
    <3> DEFINE act == call[p].act
               who == call[p].who
    <3>1. /\ task' = [task EXCEPT ![t] = Updated(task[t], act)]
          /\ call[p].kind = "update" /\ call'[p] = Idle
          /\ Party(act, t, who)
      BY <2>2 DEF UpdateTaskWrite, UpdateMatches, TypeOK
    <3>2. task \in [Tasks -> TaskRow] /\ act \in Actions
      BY <3>1 DEF TypeOK
    <3>3. Updated(task[t], act).status = CASE act = "accept" -> "accepted"
                                           [] act = "complete" -> "completed"
                                           [] act = "reject" -> "rejected"
                                           [] act = "cancel" -> "cancelled"
                                           [] act = "heartbeat" -> task[t].status
      BY <3>2, UpdatedTyped
    <3>4. by(who)
      BY <3>1
    <3>5. CASE u = t
      <4>1. task'[t].status = Updated(task[t], act).status
        BY <3>1, <3>2
      <4> HIDE DEF by
      <4>2. CASE act \in {"accept", "complete"}
        BY <3>1, <3>3, <3>4, <3>5, <4>1, <4>2 DEF Party
      <4>3. CASE act = "reject"
        BY <3>1, <3>3, <3>4, <3>5, <4>1, <4>3 DEF Party
      <4>4. CASE act = "cancel"
        BY <3>1, <3>3, <3>4, <3>5, <4>1, <4>4 DEF Party
      <4>5. CASE act = "heartbeat"
        BY <3>3, <3>5, <4>1, <4>5
      <4> QED BY <3>2, <4>2, <4>3, <4>4, <4>5 DEF Actions
    <3>6. CASE u # t
      BY <3>1, <3>2, <3>6
    <3> QED BY <3>5, <3>6
  <2> QED BY <2>1, <2>2
<1>2. TypeOK /\ [Next]_vars => [\A t \in Tasks : Entitled(t)]_vars
  BY <1>1
<1> QED BY <1>2, TypeCorrect, PTL DEF Spec, ActorsEntitled

-----------------------------------------------------------------------------
(* Refinement.                                                             *)

\* The task board implements the ledger: every change of a row is a step of the
\* ledger on that task, or leaves its phase and owner as they were.
THEOREM BoardImplementsLedger == Spec => ImplementsLedger
<1> DEFINE phase == [t \in Tasks |-> Phase(task[t])]
           owner == [t \in Tasks |-> task[t].to]
<1>1. Init => Ledger!Init
  BY DEF Init, NoTask, Phase, Ledger!Init
<1>2. TypeOK /\ WellAssigned /\ [Next]_vars => [Ledger!Next]_<<phase, owner>>
  <2> SUFFICES ASSUME TypeOK, WellAssigned, [Next]_vars PROVE [Ledger!Next]_<<phase, owner>>
    OBVIOUS
  <2>1. CASE UNCHANGED task
    BY <2>1
  <2>2. CASE OneRow
    <3>1. PICK t \in Tasks, row \in TaskRow : task' = [task EXCEPT ![t] = row] /\ Change(t, row)
      BY <2>2 DEF OneRow
    <3>2. task \in [Tasks -> TaskRow] /\ task[t] \in TaskRow
      BY DEF TypeOK
    <3>3. phase' = [phase EXCEPT ![t] = Phase(row)] /\ owner' = [owner EXCEPT ![t] = row.to]
      <4>1. \A u \in Tasks : task'[u] = IF u = t THEN row ELSE task[u]
        BY <3>1, <3>2
      <4>2. phase' = [u \in Tasks |-> Phase(task'[u])] /\ owner' = [u \in Tasks |-> task'[u].to]
        BY DEF Phase
      <4> QED BY <4>1, <4>2
    <3>4. phase[t] = Phase(task[t]) /\ owner[t] = task[t].to
      OBVIOUS
    <3>5. \A from, to : Phase(task[t]) \in from /\ to = Phase(row) => Ledger!Move(t, from, to, row.to)
      BY <3>3, <3>4 DEF Ledger!Move
    <3>6. CASE /\ task[t].status \in {"posted", "accepted"} /\ row.status = task[t].status
               /\ row.to = task[t].to
      <4>1. Phase(row) = Phase(task[t])
        BY <3>6 DEF Phase
      <4>2. phase' = [phase EXCEPT ![t] = phase[t]] /\ owner' = [owner EXCEPT ![t] = owner[t]]
        BY <3>3, <3>4, <3>6, <4>1
      <4> QED BY <4>2
    <3> USE DEF Ledger!Next
    <3>7. CASE task[t].status \in {"absent", "queued"} /\ row.status = "posted" /\ row.to \in Names
      BY <3>5, <3>7 DEF Ledger!Offer, Phase
    <3>8. CASE task[t].status = "absent" /\ row.status = "queued" /\ row.to = NoOne
      BY <3>5, <3>8 DEF Ledger!Pool, Phase
    <3>9. CASE task[t].status = "posted" /\ row.status = "accepted" /\ row.to = task[t].to
      <4>1. Phase(task[t]) = "offered" /\ Phase(row) = "held"
        BY <3>9 DEF Phase
      <4>2. Ledger!Take(t)
        BY <3>3, <3>4, <3>9, <4>1 DEF Ledger!Take, Ledger!Move
      <4> QED BY <4>2
    <3>10. CASE task[t].status = "accepted" /\ row.status = "completed" /\ row.to = task[t].to
      <4>1. Phase(task[t]) = "held" /\ Phase(row) = "done"
        BY <3>10 DEF Phase
      <4>2. Ledger!Finish(t)
        BY <3>3, <3>4, <3>10, <4>1 DEF Ledger!Finish, Ledger!Move
      <4> QED BY <4>2
    <3>11. CASE /\ task[t].status \in {"queued", "posted", "accepted"} /\ row.status \in {"rejected", "cancelled"}
                /\ row.to = task[t].to
      <4>1. Phase(task[t]) \in {"pooled", "offered", "held"} /\ Phase(row) = "dropped"
        BY <3>11 DEF Phase
      <4>2. Ledger!Drop(t)
        BY <3>3, <3>4, <3>11, <4>1 DEF Ledger!Drop, Ledger!Move
      <4> QED BY <4>2
    <3>12. CASE task[t].status \in {"posted", "accepted"} /\ row.status = "queued" /\ row.to = NoOne
      BY <3>5, <3>12 DEF Ledger!Release, Phase
    <3>13. CASE task[t].status \in Terminal /\ row.status = "purged" /\ row.to = NoOne
      BY <3>5, <3>13 DEF Ledger!Purge, Phase, Terminal
    <3> QED BY <3>1, <3>6, <3>7, <3>8, <3>9, <3>10, <3>11, <3>12, <3>13 DEF Change, Names
  <2> QED BY <2>1, <2>2, RowChange DEF vars
<1> QED
  BY <1>1, <1>2, TypeCorrect, AssignmentSound, PTL DEF Spec, ImplementsLedger, Ledger!Spec, Ledger!vars
=============================================================================
