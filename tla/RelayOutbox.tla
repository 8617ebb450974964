---------------------------- MODULE RelayOutbox ----------------------------
(***************************************************************************)
(* How a change of a mailbox reaches those who watch it.  Every commit     *)
(* that changes a mailbox appends rows to inbox_events.  The HTTP daemon   *)
(* learns of its own commits over the in-process bus and of those of other *)
(* processes by polling the table; both end in broadcastInboxChange, which *)
(* notifies the MCP clients subscribed to relay://inbox/<agent>.  The      *)
(* polling tail alone touches the wake markers.                            *)
(*                                                                         *)
(* The daemon is single threaded: a tick, the start of the tail and a      *)
(* handler of the daemon exclude each other.  Other processes commit       *)
(* between any two SQL statements.                                         *)
(***************************************************************************)
EXTENDS Naturals, Sequences, FiniteSets

CONSTANTS
  Agents,        \* mailboxes, one resource URI each
  Clients,       \* MCP clients connected to the daemon
  MaxEvents,     \* bound: rows of inbox_events
  MaxForeign,    \* bound: commits of other connections
  BatchLimit     \* rows a tick SELECTs, 500

ASSUME OutboxBounds == /\ MaxEvents \in Nat
                       /\ MaxForeign \in Nat
                       /\ BatchLimit \in Nat \ {0}

VARIABLES
  log,       \* inbox_events; ids are positions (AUTOINCREMENT)
  foreign,   \* commits of other connections: what PRAGMA data_version tells apart
  tail,      \* the module variables of outbox-tail
  bound,     \* whether the subscription registry listens to the bus
  last,      \* lastBroadcastIdByUri
  subs,      \* subscriptionsByUri
  heard,     \* per client and mailbox, the row of the last notice since it subscribed
  told,      \* for the properties only: how often a row was broadcast
  marked     \* for the properties only: rows that touched their wake marker

vars == <<log, foreign, tail, bound, last, subs, heard, told, marked>>
hub == <<bound, last, subs, heard, told>>

EventIds == 1 .. MaxEvents

\* wake: message_received or broadcast_received, and not message_read.
EventRow == [to : Agents, wake : BOOLEAN]

(***************************************************************************)
(* started: the cursor is read, data_version is not; select: a tick has    *)
(* read data_version into dv.  seen is lastDataVersion, dirty localDirty.  *)
(* For the properties only, from is the end of the table when the start    *)
(* read data_version and lost its end when a tick last failed.             *)
(***************************************************************************)
TailRow == [stage  : {"off", "started", "idle", "select"},
            cursor : Nat,
            seen   : Nat,
            dv     : Nat,
            dirty  : BOOLEAN,
            from   : Nat,
            lost   : Nat]

TailOff == [stage |-> "off", cursor |-> 0, seen |-> 0, dv |-> 0, dirty |-> FALSE,
            from |-> 0, lost |-> 0]

TypeOK == /\ log \in Seq(EventRow) /\ Len(log) <= MaxEvents
          /\ foreign \in 0 .. MaxForeign
          /\ tail \in TailRow
          /\ tail.cursor <= Len(log) /\ tail.seen <= foreign /\ tail.dv <= foreign
          /\ bound \in BOOLEAN
          /\ last \in [Agents -> 0 .. Len(log)]
          /\ subs \in [Agents -> SUBSET Clients]
          /\ heard \in [Clients -> [Agents -> 0 .. Len(log)]]
          /\ told \in [EventIds -> Nat]
          /\ marked \subseteq 1 .. Len(log)

Init == /\ log = <<>>
        /\ foreign = 0
        /\ tail = TailOff
        /\ bound = FALSE
        /\ last = [a \in Agents |-> 0]
        /\ subs = [a \in Agents |-> {}]
        /\ heard = [c \in Clients |-> [a \in Agents |-> 0]]
        /\ told = [i \in EventIds |-> 0]
        /\ marked = {}

-----------------------------------------------------------------------------
(* What one transaction appends: a send or a drain one row, a broadcast or  *)
(* a capability post a row for each of its recipients.                      *)
Batches == UNION {{b \in [1 .. n -> EventRow] :
                     n > 1 => /\ \A i \in 1 .. n : b[i].wake
                              /\ \A i, j \in 1 .. n : i # j => b[i].to # b[j].to} : n \in 1 .. Cardinality(Agents)}

Largest(S) == CHOOSE i \in S : \A j \in S : j <= i

\* Mutant: the row that was broadcast last passes again.
Newer_Equal(a, i) == i >= last[a]

\* A row at or below the mark of its mailbox has been broadcast before.
Newer(a, i) == i > last[a]

\* broadcastInboxChange for each of ids, in order: rows is the table by then.
Broadcast(rows, ids) ==
  LET news   == {i \in ids : Newer(rows[i].to, i)}
      for(a) == {i \in news : rows[i].to = a}
  IN /\ told' = [i \in EventIds |-> IF i \in news THEN told[i] + 1 ELSE told[i]]
     /\ last' = [a \in Agents |-> IF for(a) # {} THEN Largest(for(a)) ELSE last[a]]
     /\ heard' = [c \in Clients |-> [a \in Agents |->
                    IF c \in subs[a] /\ for(a) # {} THEN Largest(for(a)) ELSE heard[c][a]]]

-----------------------------------------------------------------------------
(* Commits.                                                                *)

\* A handler of the daemon commits and emits on the bus before it returns.
LocalCommit(batch) ==
  LET rows == log \o batch
  IN /\ tail.stage = "idle"
     /\ Len(rows) <= MaxEvents
     /\ log' = rows
     /\ tail' = [tail EXCEPT !.dirty = TRUE]
     /\ IF bound THEN Broadcast(rows, Len(log) + 1 .. Len(rows)) ELSE UNCHANGED <<told, last, heard>>
     /\ UNCHANGED <<foreign, bound, subs, marked>>

ForeignCommit(batch) ==
  /\ foreign < MaxForeign
  /\ Len(log) + Len(batch) <= MaxEvents
  /\ log' = log \o batch
  /\ foreign' = foreign + 1
  /\ UNCHANGED <<tail, hub, marked>>

\* A commit of another connection that appends no row.
OtherCommit ==
  /\ foreign < MaxForeign
  /\ foreign' = foreign + 1
  /\ UNCHANGED <<log, tail, hub, marked>>

-----------------------------------------------------------------------------
(* The tail.                                                               *)

MaxId == Len(log)

StartTail ==
  /\ tail.stage = "off"
  /\ tail' = [TailOff EXCEPT !.stage = "started", !.cursor = MaxId]
  /\ UNCHANGED <<log, foreign, hub, marked>>

StartVersion ==
  /\ tail.stage = "started"
  /\ tail' = [tail EXCEPT !.stage = "idle", !.seen = foreign, !.from = Len(log)]
  /\ UNCHANGED <<log, foreign, hub, marked>>

\* Nothing committed by others since the last SELECT, nor by this process.
Skips == ~ tail.dirty /\ foreign = tail.seen

\* A tick that skips changes nothing.
TickCheck ==
  /\ tail.stage = "idle"
  /\ ~ Skips
  /\ tail' = [tail EXCEPT !.stage = "select", !.dv = foreign, !.dirty = FALSE]
  /\ UNCHANGED <<log, foreign, hub, marked>>

Wakes(i) == log[i].wake

(***************************************************************************)
(* The SELECT and the loop over its rows.  A full batch has the next tick  *)
(* run at once instead of after the poll interval; that tick is like any   *)
(* other.                                                                  *)
(***************************************************************************)
TickSelect ==
  LET batch == {i \in 1 .. Len(log) : tail.cursor < i /\ i <= tail.cursor + BatchLimit}
  IN /\ tail.stage = "select"
     /\ marked' = marked \cup {i \in batch : Wakes(i)}
     /\ Broadcast(log, batch)
     /\ tail' = [tail EXCEPT !.stage = "idle", !.seen = tail.dv, !.dv = 0,
                             !.cursor = IF batch = {} THEN @ ELSE Largest(batch)]
     /\ UNCHANGED <<log, foreign, bound, subs>>

\* The SELECT throws: the tick is logged and given up, and localDirty stays off.
TickFails ==
  /\ tail.stage = "select"
  /\ tail' = [tail EXCEPT !.stage = "idle", !.dv = 0, !.lost = Len(log)]
  /\ UNCHANGED <<log, foreign, hub, marked>>

-----------------------------------------------------------------------------
(* Clients.                                                                *)

Subscribe(c, a) ==
  /\ tail.stage = "idle"
  /\ c \notin subs[a]
  /\ subs' = [subs EXCEPT ![a] = @ \cup {c}]
  /\ bound' = TRUE
  /\ UNCHANGED <<log, foreign, tail, last, heard, told, marked>>

\* By request, or because a notice could not be sent.  The mark stays.
Unsubscribe(c, a) ==
  /\ tail.stage = "idle"
  /\ c \in subs[a]
  /\ subs' = [subs EXCEPT ![a] = @ \ {c}]
  /\ heard' = [heard EXCEPT ![c][a] = 0]
  /\ UNCHANGED <<log, foreign, tail, bound, last, told, marked>>

\* The transport of a client closes.
Disconnect(c) ==
  /\ tail.stage = "idle"
  /\ \E a \in Agents : c \in subs[a]
  /\ subs' = [a \in Agents |-> subs[a] \ {c}]
  /\ heard' = [heard EXCEPT ![c] = [a \in Agents |-> 0]]
  /\ UNCHANGED <<log, foreign, tail, bound, last, told, marked>>

\* The daemon dies: nothing it knew was stored.
DaemonCrash ==
  /\ tail.stage # "off"
  /\ tail' = TailOff
  /\ bound' = FALSE
  /\ last' = [a \in Agents |-> 0]
  /\ subs' = [a \in Agents |-> {}]
  /\ heard' = [c \in Clients |-> [a \in Agents |-> 0]]
  /\ UNCHANGED <<log, foreign, told, marked>>

-----------------------------------------------------------------------------
Start == StartTail \/ StartVersion
Tick == TickCheck \/ TickSelect \/ TickFails
Commit == \/ \E batch \in Batches : LocalCommit(batch) \/ ForeignCommit(batch)
          \/ OtherCommit
Subscriber == \E c \in Clients : Disconnect(c) \/ \E a \in Agents : Subscribe(c, a) \/ Unsubscribe(c, a)

Next == Start \/ Tick \/ Commit \/ Subscriber \/ DaemonCrash

Spec == Init /\ [][Next]_vars

\* The poll timer of a running daemon fires for ever, and not every SELECT fails.
FairSpec == Spec /\ WF_vars(StartVersion) /\ WF_vars(TickCheck) /\ SF_vars(TickSelect)

-----------------------------------------------------------------------------
(* Properties.                                                             *)

\* A row is broadcast at most once, whether the bus, the tail or both see it,
\* in either order, and across restarts (mcp-subscriptions.ts 126-147).
OncePerEvent == \A i \in EventIds : told[i] <= 1

\* What the cursor has passed since the start is done: its mailbox has had a
\* broadcast at least as new, and new mail has touched the marker, also when
\* the bus was first (outbox-tail.ts 171-198).
CursorCovers ==
  tail.stage \in {"idle", "select"} =>
    \A i \in 1 .. Len(log) : tail.from < i /\ i <= tail.cursor =>
      /\ last[log[i].to] >= i
      /\ log[i].wake => i \in marked

\* The promises of the notification path, its liveness apart: one notice per row, and a
\* cursor never passes a row unreported (outbox-tail.ts, mcp-subscriptions.ts).
NoticesExact == TypeOK /\ OncePerEvent /\ CursorCovers

Running == tail.stage \in {"idle", "select"}

\* Committed since the tail runs and since a tick last failed.
Owed(i) == tail.from < i /\ tail.lost < i /\ i <= Len(log)

\* Client c, subscribed to mailbox a, has not been told of its row i, nor has anyone.
Due(i, a, c) == /\ Running /\ Owed(i)
                /\ log[i].to = a /\ c \in subs[a] /\ last[a] < i

\* It has been told, or nothing is owed to it any more.
Excused(i, a, c) == heard[c][a] >= i \/ c \notin subs[a] \/ ~ Owed(i) \/ ~ Running

\* A client that subscribed to a mailbox before a row of it was broadcast is told
\* of the row or of a newer one, whichever process committed it, with nothing
\* else having to happen first (outbox-tail.ts 132-200, mcp-subscriptions.ts
\* 126-176).
SubscribersHear ==
  /\ [][\A i \in EventIds, a \in Agents, c \in Clients :
          Due(i, a, c) => Due(i, a, c)' \/ Excused(i, a, c)']_vars
  /\ \A i \in EventIds, a \in Agents, c \in Clients : []<>~ Due(i, a, c)

\* outbox-tail.ts:22-24: the tail "polls inbox_events for rows past its in-memory
\* cursor and dispatches each one"; 43-45: also a burst beyond one batch.
RowsDispatched ==
  \A i \in EventIds :
    []<>(tail.cursor >= i \/ ~ Owed(i) \/ ~ Running)
=============================================================================
