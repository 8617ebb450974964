----------------------------- MODULE RelayBindings -----------------------------
(***************************************************************************)
(* Window bindings: the record of which conversation a window holds.       *)
(* `relay bind` runs as a hook of the window, in a process of its own that *)
(* writes the database directly, beside the hooks of other windows, of the *)
(* same window, and of windows still on a build from before the start      *)
(* token was pinned to UTC.                                                *)
(*                                                                         *)
(* A window is the process behind a pid: its boot number tells two         *)
(* processes with one pid apart, as the start token does.                  *)
(***************************************************************************)
EXTENDS Naturals, FiniteSets

CONSTANTS
  WindowPids,      \* process ids of windows
  Binders,         \* hook processes running relay bind
  Conversations,   \* conversation ids
  MaxBoots,        \* bound: processes a pid has been given to
  MaxBindings,     \* bound: rows of agent_bindings
  MaxAttempts      \* attempts that fit in BIND_BUDGET_MS

ASSUME BindBounds ==
  /\ MaxBoots \in Nat \ {0} /\ MaxBindings \in Nat /\ MaxAttempts \in Nat \ {0}
  /\ WindowPids # {} /\ Conversations # {}

VARIABLES
  boot,       \* the process behind each pid, 0 when there is none
  boots,      \* the processes each pid has been given to so far
  bindings,   \* the rows of agent_bindings, by binding_id in order of insertion
  binder      \* the hook processes

bindVars == <<boot, boots, bindings, binder>>

NoBinding == 0
Forms == {"utc", "legacy"}
Tokens == [form : Forms, boot : 1 .. MaxBoots]
Reasons == {"none", "switch", "start-token-migration"}

BindingRow == [pid : WindowPids, start : Tokens, conv : Conversations, version : Nat,
               by : Nat, reason : Reasons, ended : BOOLEAN]

(***************************************************************************)
(* A hook: its window's anchor (pid and UTC start token), the start token  *)
(* in the form written before the pin (0: the read failed), what it is to  *)
(* record, and whether the rows its transaction read are still the table's *)
(* (the commit of another process leaves it a snapshot SQLite refuses to   *)
(* write over).                                                            *)
(***************************************************************************)
Binder == [stage    : {"idle", "anchored", "ready", "reading", "recorded", "failed"},
           verb     : {"bind", "end"},
           pid      : WindowPids,
           start    : 1 .. MaxBoots,
           legacy   : 0 .. MaxBoots,
           conv     : Conversations,
           attempts : 0 .. MaxAttempts,
           fresh    : BOOLEAN]

IdleBinder == [stage |-> "idle", verb |-> "bind", pid |-> CHOOSE p \in WindowPids : TRUE,
               start |-> 1, legacy |-> 0, conv |-> CHOOSE c \in Conversations : TRUE,
               attempts |-> 0, fresh |-> TRUE]

BindTypeOK ==
  /\ boot \in [WindowPids -> 0 .. MaxBoots]
  /\ boots \in [WindowPids -> 0 .. MaxBoots]
  /\ DOMAIN bindings = 1 .. Cardinality(DOMAIN bindings)
  /\ \A i \in DOMAIN bindings : bindings[i] \in BindingRow
  /\ binder \in [Binders -> Binder]

BindInit == /\ boot = [p \in WindowPids |-> 0]
            /\ boots = [p \in WindowPids |-> 0]
            /\ bindings = <<>>
            /\ binder = [b \in Binders |-> IdleBinder]

------------------------------------------------------------------------------
(* Reading and writing the table *)

Current(rows, pid, tok) ==
  {i \in DOMAIN rows : rows[i].pid = pid /\ rows[i].start = tok /\ rows[i].by = NoBinding}

Utc(k) == [form |-> "utc", boot |-> k]
Legacy(k) == [form |-> "legacy", boot |-> k]

\* idx_agent_bindings_current_anchor: one current row per pid and start token.
AnchorIndex(rows) == \A i, j \in DOMAIN rows :
  (i # j /\ rows[i].by = NoBinding /\ rows[j].by = NoBinding) =>
     (rows[i].pid # rows[j].pid \/ rows[i].start # rows[j].start)

\* The legacy read failed and a current row of the pid is in the old form.
Undecidable(rows, b) == /\ b.legacy = 0
                        /\ \E i \in DOMAIN rows : /\ rows[i].pid = b.pid
                                                  /\ rows[i].by = NoBinding
                                                  /\ rows[i].start.form = "legacy"

\* Mutant: rows of the pid are moved whatever process they were bound by.
Migrated_ByPid(rows, b) ==
  LET utc == Current(rows, b.pid, Utc(b.start))
      old == IF b.legacy = 0 THEN {} ELSE UNION {Current(rows, b.pid, Legacy(k)) : k \in 1 .. MaxBoots}
  IN [i \in DOMAIN rows |->
        IF i \notin old THEN rows[i]
        ELSE IF utc = {} THEN [rows[i] EXCEPT !.start = Utc(b.start)]
        ELSE [rows[i] EXCEPT !.by = CHOOSE u \in utc : TRUE, !.reason = "start-token-migration"]]

\* The rows of this window still in the old form: superseded by its UTC row, or moved onto it.
Migrated(rows, b) ==
  LET utc == Current(rows, b.pid, Utc(b.start))
      old == IF b.legacy = 0 THEN {} ELSE Current(rows, b.pid, Legacy(b.legacy))
  IN [i \in DOMAIN rows |->
        IF i \notin old THEN rows[i]
        ELSE IF utc = {} THEN [rows[i] EXCEPT !.start = Utc(b.start)]
        ELSE [rows[i] EXCEPT !.by = CHOOSE u \in utc : TRUE, !.reason = "start-token-migration"]]

NewRow(pid, tok, conv, v) == [pid |-> pid, start |-> tok, conv |-> conv, version |-> v,
                              by |-> NoBinding, reason |-> "none", ended |-> FALSE]

\* created, refreshed, or superseded and created, on the anchor tok.
Upserted(rows, pid, tok, conv) ==
  LET cur == Current(rows, pid, tok)
      c   == CHOOSE i \in cur : TRUE
      n   == Cardinality(DOMAIN rows) + 1
  IN IF cur = {} THEN [i \in 1 .. n |-> IF i = n THEN NewRow(pid, tok, conv, 1) ELSE rows[i]]
     ELSE IF rows[c].conv = conv THEN rows
     ELSE [i \in 1 .. n |->
             IF i = n THEN NewRow(pid, tok, conv, rows[c].version + 1)
             ELSE IF i = c THEN [rows[i] EXCEPT !.by = n, !.reason = "switch"]
             ELSE rows[i]]

Ended(rows, b) == [i \in DOMAIN rows |->
  IF i \in Current(rows, b.pid, Utc(b.start)) THEN [rows[i] EXCEPT !.ended = TRUE] ELSE rows[i]]

\* The rows after the transaction of b over the rows it read.
Written(rows, b) ==
  LET m == Migrated(rows, b)
  IN IF b.verb = "end" THEN Ended(m, b)
     ELSE Upserted(m, b.pid, Utc(b.start), b.conv)

------------------------------------------------------------------------------
(* The windows *)

InFlight(p) == \E b \in Binders : binder[b].pid = p /\ binder[b].stage \in {"anchored", "ready", "reading"}

\* A window opens; a pid is not given away again while a hook of its last window still runs.
WindowOpens(p) ==
  /\ boot[p] = 0 /\ boots[p] < MaxBoots /\ ~InFlight(p)
  /\ boots' = [boots EXCEPT ![p] = @ + 1]
  /\ boot' = [boot EXCEPT ![p] = boots[p] + 1]
  /\ UNCHANGED <<bindings, binder>>

WindowCloses(p) ==
  /\ boot[p] # 0
  /\ boot' = [boot EXCEPT ![p] = 0]
  /\ UNCHANGED <<boots, bindings, binder>>

\* The bound on rows counts the one each hook in flight may write.
RoomForOne == Cardinality(DOMAIN bindings)
                + Cardinality({b \in Binders : binder[b].stage \in {"anchored", "ready", "reading"}}) < MaxBindings

\* A commit leaves every transaction that read before it a stale snapshot.
Overtaken(bs) == [b \in Binders |-> IF bs[b].stage = "reading" THEN [bs[b] EXCEPT !.fresh = FALSE] ELSE bs[b]]

\* A window on the build before the pin binds: the same upsert, on the legacy token, no migration.
OldBuildBinds(p, c) ==
  /\ boot[p] # 0 /\ RoomForOne
  /\ bindings' = Upserted(bindings, p, Legacy(boot[p]), c)
  /\ bindings' # bindings
  /\ binder' = Overtaken(binder)
  /\ UNCHANGED <<boot, boots>>

------------------------------------------------------------------------------
(* relay bind *)

\* The hook of a window starts: the payload is good, CLAUDE_PID and the process walk agree.
BindStarts(b, p, verb, c) ==
  /\ binder[b].stage = "idle" /\ boot[p] # 0 /\ RoomForOne
  /\ binder' = [binder EXCEPT ![b] = [IdleBinder EXCEPT !.stage = "anchored", !.verb = verb,
                                                        !.pid = p, !.start = boot[p], !.conv = c]]
  /\ UNCHANGED <<boot, boots, bindings>>

\* Its start time in the old form is read; the read may fail, and does once the window is gone.
ReadsLegacy(b) ==
  /\ binder[b].stage = "anchored"
  /\ \E k \in {0, boot[binder[b].pid]} :
       binder' = [binder EXCEPT ![b].stage = "ready", ![b].legacy = k]
  /\ UNCHANGED <<boot, boots, bindings>>

\* An attempt: the deferred transaction reads; no lock is held yet.
Attempts(b) ==
  /\ binder[b].stage = "ready" /\ binder[b].attempts < MaxAttempts
  /\ binder' = [binder EXCEPT ![b].stage = "reading", ![b].attempts = @ + 1, ![b].fresh = TRUE]
  /\ UNCHANGED <<boot, boots, bindings>>

\* isBindContentionError: the snapshot is stale, or the anchor index refuses the row.
Contended(b) == ~binder[b].fresh \/ ~AnchorIndex(Written(bindings, binder[b]))

Reported(bs, b, stage) == [bs EXCEPT ![b] = [IdleBinder EXCEPT !.stage = stage]]
Reports(b, stage) == binder' = Reported(binder, b, stage)

NothingToEnd(b) == /\ binder[b].verb = "end"
                   /\ Current(Migrated(bindings, binder[b]), binder[b].pid, Utc(binder[b].start)) = {}

\* The migration and the write commit together.
Records(b) ==
  /\ binder[b].stage = "reading"
  /\ ~Contended(b) /\ ~Undecidable(bindings, binder[b]) /\ ~NothingToEnd(b)
  /\ bindings' = Written(bindings, binder[b])
  /\ binder' = Reported(Overtaken(binder), b, "recorded")
  /\ UNCHANGED <<boot, boots>>

\* No binding to end: the hook reports a failure.
EndsNothing(b) ==
  /\ binder[b].stage = "reading"
  /\ ~Contended(b) /\ ~Undecidable(bindings, binder[b]) /\ NothingToEnd(b)
  /\ Reports(b, "failed")
  /\ UNCHANGED <<boot, boots, bindings>>

\* BIND_FAILED: the legacy form cannot be read beside a row in it; nothing is written.
Refuses(b) ==
  /\ binder[b].stage = "reading" /\ binder[b].fresh /\ Undecidable(bindings, binder[b])
  /\ Reports(b, "failed")
  /\ UNCHANGED <<boot, boots, bindings>>

\* The loser of a race reads again and decides again; relay bind --end does not retry.
Retries(b) ==
  /\ binder[b].stage = "reading" /\ Contended(b)
  /\ binder[b].verb # "end"
  /\ binder' = [binder EXCEPT ![b].stage = "ready", ![b].fresh = TRUE]
  /\ UNCHANGED <<boot, boots, bindings>>

EndContended(b) ==
  /\ binder[b].stage = "reading" /\ Contended(b)
  /\ binder[b].verb = "end"
  /\ Reports(b, "failed")
  /\ UNCHANGED <<boot, boots, bindings>>

\* The budget is spent.
Exhausted(b) ==
  /\ binder[b].stage = "ready" /\ binder[b].attempts = MaxAttempts
  /\ Reports(b, "failed")
  /\ UNCHANGED <<boot, boots, bindings>>

\* The process is killed (the hook timeout): an open transaction rolls back.
HookDies(b) ==
  /\ binder[b].stage \in {"anchored", "ready", "reading"}
  /\ Reports(b, "failed")
  /\ UNCHANGED <<boot, boots, bindings>>

HookExits(b) ==
  /\ binder[b].stage \in {"recorded", "failed"}
  /\ binder' = [binder EXCEPT ![b] = IdleBinder]
  /\ UNCHANGED <<boot, boots, bindings>>

BindStep(b) == \/ ReadsLegacy(b) \/ Attempts(b) \/ Records(b) \/ EndsNothing(b) \/ Refuses(b)
               \/ Retries(b) \/ EndContended(b) \/ Exhausted(b) \/ HookExits(b)

BindNext ==
  \/ \E p \in WindowPids : WindowOpens(p) \/ WindowCloses(p)
  \/ \E p \in WindowPids, c \in Conversations : OldBuildBinds(p, c)
  \/ \E b \in Binders, p \in WindowPids, v \in {"bind", "end"}, c \in Conversations : BindStarts(b, p, v, c)
  \/ \E b \in Binders : BindStep(b) \/ HookDies(b)

BindFairness == \A b \in Binders : WF_bindVars(BindStep(b))

BindSpec == BindInit /\ [][BindNext]_bindVars /\ BindFairness

------------------------------------------------------------------------------
(* Properties *)

\* The current rows the process behind a pid is recorded by, in either form.
Holds(p, k) == {i \in DOMAIN bindings : /\ bindings[i].pid = p /\ bindings[i].start.boot = k
                                        /\ bindings[i].by = NoBinding}

\* A bind that reports it recorded leaves its window exactly one current row, on its
\* conversation, whatever an older build or another hook of the window wrote before it:
\* upsertAgentBinding, "a window must never be observable with two current rows, nor with none".
BindConverges == [][\A b \in Binders :
  (/\ binder[b].stage = "reading" /\ binder[b].verb # "end" /\ binder'[b].stage = "recorded") =>
     LET h == {i \in DOMAIN bindings' : /\ bindings'[i].pid = binder[b].pid
                                        /\ bindings'[i].start.boot = binder[b].start
                                        /\ bindings'[i].by = NoBinding}
     IN /\ Cardinality(h) = 1
        /\ \A i \in h : bindings'[i].conv = binder[b].conv]_bindVars

\* A row gives way only to a later record of the same process, one version up when a
\* conversation is switched: the history of a window is a chain that never crosses into
\* another window's, pids being reused (upsertAgentBindingOnce, migrateLegacyBindingAnchor).
ChainOfOneWindow == \A i \in DOMAIN bindings :
  bindings[i].by # NoBinding =>
    /\ bindings[i].by \in DOMAIN bindings
    /\ LET s == bindings[bindings[i].by] IN
         /\ s.pid = bindings[i].pid /\ s.start.boot = bindings[i].start.boot
         /\ bindings[i].reason # "start-token-migration" => s.version = bindings[i].version + 1

\* A row never leaves the process it was recorded for.
RowsStay == [][\A i \in DOMAIN bindings : /\ i \in DOMAIN bindings'
                                          /\ bindings'[i].start.boot = bindings[i].start.boot]_bindVars

\* A hook never spins: every bind ends, recorded or failed (the deadline of upsertAgentBinding).
BindsEnd == \A b \in Binders : []<>(binder[b].stage \in {"recorded", "failed", "idle"})

\* The promises of the bindings: one chain per window, converging on its last conversation,
\* no row lost, every bind ended (db.ts upsertAgentBinding, cli/bind.ts).
ChainKept ==
  /\ []BindTypeOK /\ []ChainOfOneWindow /\ BindConverges /\ RowsStay /\ BindsEnd

==============================================================================
