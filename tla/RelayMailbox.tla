---------------------------- MODULE RelayMailbox ----------------------------
(***************************************************************************)
(* The mailboxes of bot-relay-mcp: the messages table, the per-agent       *)
(* numbering in the mailbox table, and the calls that send, drain, resolve *)
(* and purge.                                                              *)
(*                                                                         *)
(* As in RelayTasks a handler of one server process interleaves with those *)
(* of the others between its SQL statements.  get_messages is four of      *)
(* them: read the caller's session, SELECT, mark (one transaction), number *)
(* what was never observed (another transaction).                          *)
(***************************************************************************)
EXTENDS Naturals, FiniteSets

CONSTANTS
  Agents,        \* names that may register
  Outsiders,     \* recipients that never register
  Senders,       \* bound: who sends; SystemName is the relay itself
  SystemName,
  Procs,         \* server processes sharing the database
  MaxMessages,   \* bound: message ids are 1..MaxMessages, in creation order
  MaxSessions,   \* bound: sessions an agent is ever given
  Priorities,    \* priority ranks, 0 the most urgent
  ReadLimit,     \* the limit argument of get_messages
  ReadModes,     \* bound: the argument combinations get_messages is called with
  NoOne

ReadMode == [status : {"pending", "all", "read", "resolved"},
             peek   : BOOLEAN,
             ack    : BOOLEAN,
             recent : BOOLEAN]     \* a "since" bound that hides old rows

ASSUME MailNames == /\ SystemName \notin Agents \cup Outsiders
                    /\ NoOne \notin Agents \cup Outsiders \cup {SystemName}
                    /\ Agents \cap Outsiders = {}
                    /\ Senders \subseteq Agents \cup {SystemName}
ASSUME MailBounds == /\ MaxMessages \in Nat
                     /\ MaxSessions \in Nat
                     /\ Priorities \subseteq Nat
                     /\ ReadLimit \in Nat \ {0}
                     /\ ReadModes \subseteq ReadMode

VARIABLES
  msg,       \* the messages table
  agent,     \* the agents table: registration and session_id
  mailbox,   \* mailbox.next_seq, 0 while the row does not exist
  call       \* what each process carries between two statements of a handler

vars == <<msg, agent, mailbox, call>>

Messages == 1 .. MaxMessages
Sessions == 0 .. MaxSessions       \* 0 is session_id NULL
Names == Agents \cup Outsiders

(***************************************************************************)
(* A row of messages.  reader is read_by_session (0: never drained by a    *)
(* session), receipt whether read_at is set, resolved whether resolved_at  *)
(* is, seq the observation number (0: NULL).  age is created_at against    *)
(* the retention of 7 days ("old") and the grace of 30 ("ancient"); "old"  *)
(* also stands for what a since bound hides.  A deleted row keeps its seq  *)
(* and its mailbox, for the history only.                                  *)
(***************************************************************************)
MessageRow == [state    : {"absent", "stored", "deleted"},
               from     : Agents \cup {SystemName, NoOne},
               to       : Names \cup {NoOne},
               prio     : Priorities \cup {0},
               age      : {"new", "old", "ancient"},
               reader   : Sessions,
               receipt  : BOOLEAN,
               resolved : BOOLEAN,
               seq      : Nat]

NoMessage == [state |-> "absent", from |-> NoOne, to |-> NoOne, prio |-> 0, age |-> "new",
              reader |-> 0, receipt |-> FALSE, resolved |-> FALSE, seq |-> 0]

\* issued counts the session ids given: they are uuids, never given twice.
AgentRow == [registered : BOOLEAN, session : Sessions, issued : Sessions]

CallRow == [kind    : {"idle", "select", "mark", "observe", "fanout"},
            owner   : Agents \cup {NoOne},
            mode    : ReadMode,
            session : Sessions,
            rows    : SUBSET Messages,     \* what the SELECT returned
            unseen  : SUBSET Messages,     \* the returned rows whose seq was NULL
            names   : SUBSET Names]        \* the recipients of a fan-out

PlainRead == [status |-> "pending", peek |-> FALSE, ack |-> FALSE, recent |-> FALSE]

Idle == [kind |-> "idle", owner |-> NoOne, mode |-> PlainRead, session |-> 0,
         rows |-> {}, unseen |-> {}, names |-> {}]

TypeOK == /\ msg \in [Messages -> MessageRow]
          /\ agent \in [Agents -> AgentRow]
          /\ mailbox \in [Agents -> Nat]
          /\ call \in [Procs -> CallRow]
          /\ \A p \in Procs : /\ call[p].kind \in {"select", "mark", "observe"} => call[p].owner \in Agents
                              /\ call[p].kind = "mark" => ~ call[p].mode.peek

Init == /\ msg = [m \in Messages |-> NoMessage]
        /\ agent = [a \in Agents |-> [registered |-> FALSE, session |-> 0, issued |-> 0]]
        /\ mailbox = [a \in Agents |-> 0]
        /\ call = [p \in Procs |-> Idle]

-----------------------------------------------------------------------------
Registered(n) == n \in Agents /\ agent[n].registered
Stored == {m \in Messages : msg[m].state = "stored"}
Absent == {m \in Messages : msg[m].state = "absent"}

\* The first n ids not inserted yet: ids follow created_at.
Fresh(n) == {m \in Absent : Cardinality({k \in Absent : k < m}) < n}

NewMessage(from, to, prio) ==
  [NoMessage EXCEPT !.state = "stored", !.from = from, !.to = to, !.prio = prio]

-----------------------------------------------------------------------------
(* Sending.                                                                *)

SendMessage(from, to, prio) ==
  /\ from = SystemName \/ Registered(from)
  /\ Absent # {}
  /\ msg' = [m \in Messages |-> IF m \in Fresh(1) THEN NewMessage(from, to, prio) ELSE msg[m]]
  /\ UNCHANGED <<agent, mailbox, call>>

\* broadcast: every registered name but the sender's.
BroadcastRead(p, from) ==
  /\ call[p] = Idle
  /\ Registered(from)
  /\ call' = [call EXCEPT ![p] = [Idle EXCEPT !.kind = "fanout", !.owner = from,
                                               !.names = {n \in Agents : Registered(n)} \ {from}]]
  /\ UNCHANGED <<msg, agent, mailbox>>

\* post_to_capability: whoever has a row in agent_capabilities, registered or not.
CapabilityRead(p, from, owners) ==
  /\ call[p] = Idle
  /\ Registered(from)
  /\ owners # {}
  /\ call' = [call EXCEPT ![p] = [Idle EXCEPT !.kind = "fanout", !.owner = from, !.names = owners]]
  /\ UNCHANGED <<msg, agent, mailbox>>

\* One transaction inserts a row per recipient, in some order.
FanOut(p, prio) ==
  LET names == call[p].names
      ids   == Fresh(Cardinality(names))
  IN /\ call[p].kind = "fanout"
     /\ Cardinality(ids) = Cardinality(names)
     /\ \E to \in [ids -> names] :
          /\ \A i, j \in ids : i # j => to[i] # to[j]
          /\ msg' = [m \in Messages |-> IF m \in ids THEN NewMessage(call[p].owner, to[m], prio) ELSE msg[m]]
     /\ call' = [call EXCEPT ![p] = Idle]
     /\ UNCHANGED <<agent, mailbox>>

\* The model's bound: too few ids are left.
FanOutBound(p) ==
  /\ call[p].kind = "fanout"
  /\ Cardinality(Absent) < Cardinality(call[p].names)
  /\ call' = [call EXCEPT ![p] = Idle]
  /\ UNCHANGED <<msg, agent, mailbox>>

-----------------------------------------------------------------------------
(* get_messages.                                                           *)

\* pendingForSessionClause.
Pending(m, s) == ~ msg[m].resolved /\ (msg[m].reader = 0 \/ msg[m].reader # s)

\* buildMessageWhere; an unbound caller compares with the empty string.
Matches(m, mode, s) ==
  CASE mode.status = "pending"  -> Pending(m, s) /\ (mode.recent => msg[m].reader = 0 \/ msg[m].age = "new")
    [] mode.status = "all"      -> mode.recent => msg[m].age = "new"
    [] mode.status = "read"     -> msg[m].reader # 0 /\ msg[m].reader = s /\ (mode.recent => msg[m].age = "new")
    [] mode.status = "resolved" -> msg[m].resolved /\ (mode.recent => msg[m].age = "new")

\* Urgent first, then newest first.
Ahead(m, n) == msg[m].prio < msg[n].prio \/ (msg[m].prio = msg[n].prio /\ m > n)

Page(a, mode, s) ==
  LET found == {m \in Stored : msg[m].to = a /\ Matches(m, mode, s)}
  IN {m \in found : Cardinality({n \in found : Ahead(n, m)}) < ReadLimit}

\* The session is read in a statement of its own.
DrainOpen(p, a, mode) ==
  /\ call[p] = Idle
  /\ Registered(a)
  /\ ~ (mode.ack /\ mode.peek)
  /\ call' = [call EXCEPT ![p] = [Idle EXCEPT !.kind = "select", !.owner = a, !.mode = mode,
                                               !.session = agent[a].session]]
  /\ UNCHANGED <<msg, agent, mailbox>>

\* Mutant: the peek argument is not looked at.
Marks_Peeked(mode) == mode.status # "read"

\* Any read but a peek and status "read" marks what it returns.
Marks(mode) == ~ mode.peek /\ mode.status # "read"

DrainSelect(p) ==
  LET rows   == Page(call[p].owner, call[p].mode, call[p].session)
      unseen == {m \in rows : msg[m].seq = 0}
  IN /\ call[p].kind = "select"
     /\ call' = [call EXCEPT ![p] =
          IF rows # {} /\ Marks(@.mode) THEN [@ EXCEPT !.kind = "mark", !.rows = rows, !.unseen = unseen]
          ELSE IF unseen # {} THEN [@ EXCEPT !.kind = "observe", !.rows = rows, !.unseen = unseen]
          ELSE Idle]
     /\ UNCHANGED <<msg, agent, mailbox>>

\* Mutant: only an acking drain sets read_by_session.
Marked_AckOnly(row, mode, s) ==
  [row EXCEPT !.reader = IF s # 0 /\ mode.ack THEN s ELSE @, !.receipt = TRUE,
              !.resolved = @ \/ (mode.ack /\ mode.status = "pending")]

\* The row the marking transaction leaves behind.
Marked(row, mode, s) ==
  [row EXCEPT !.reader   = IF s # 0 THEN s ELSE @,
              !.receipt  = TRUE,
              !.resolved = @ \/ (mode.ack /\ mode.status = "pending")]

DrainMark(p) ==
  LET c == call[p]
  IN /\ c.kind = "mark"
     /\ msg' = [m \in Messages |-> IF m \in c.rows \cap Stored THEN Marked(msg[m], c.mode, c.session) ELSE msg[m]]
     /\ call' = [call EXCEPT ![p] = IF c.unseen # {} THEN [c EXCEPT !.kind = "observe"] ELSE Idle]
     /\ UNCHANGED <<agent, mailbox>>

\* Mutant: the UPDATE does not ask for seq IS NULL.
Claimable_Again(m) == m \in Stored

Claimable(m) == m \in Stored /\ msg[m].seq = 0

\* Mutant: a call that claims a single row does not advance next_seq.
LastGiven_Single(before, claimed) == IF Cardinality(claimed) = 1 THEN before ELSE before + Cardinality(claimed)

LastGiven(before, claimed) == before + Cardinality(claimed)

\* In the order of the page, one number per row still without one.
DrainObserve(p) ==
  LET a       == call[p].owner
      claimed == {m \in call[p].unseen : Claimable(m)}
  IN /\ call[p].kind = "observe"
     /\ msg' = [m \in Messages |->
          IF m \in claimed
          THEN [msg[m] EXCEPT !.seq = mailbox[a] + Cardinality({n \in claimed : n = m \/ Ahead(n, m)})]
          ELSE msg[m]]
     /\ mailbox' = [mailbox EXCEPT ![a] = LastGiven(@, claimed)]
     /\ call' = [call EXCEPT ![p] = Idle]
     /\ UNCHANGED agent

-----------------------------------------------------------------------------
(* resolve_messages, retention, sessions.                                  *)

Resolvable(a) ==
  {m \in Stored : ~ msg[m].resolved /\ (msg[m].to = a \/ (msg[m].from = a /\ ~ Registered(msg[m].to)))}

ResolveMessages(a, ids) ==
  /\ Registered(a)
  /\ ids # {} /\ ids \subseteq Resolvable(a)
  /\ msg' = [m \in Messages |-> IF m \in ids THEN [msg[m] EXCEPT !.resolved = TRUE] ELSE msg[m]]
  /\ UNCHANGED <<agent, mailbox, call>>

Deleted(row) == [NoMessage EXCEPT !.state = "deleted", !.to = row.to, !.seq = row.seq]

\* Mutant: undelivered means never observed, as before seq 867.
Undelivered_Unobserved(m) == ~ msg[m].resolved /\ msg[m].seq = 0

\* pendingGlobalClause.
Undelivered(m) == ~ msg[m].resolved /\ msg[m].reader = 0

PurgeOldMessages ==
  LET gone == {m \in Stored : msg[m].age # "new" /\ ~ (Undelivered(m) /\ msg[m].age # "ancient")}
  IN /\ gone # {}
     /\ msg' = [m \in Messages |-> IF m \in gone THEN Deleted(msg[m]) ELSE msg[m]]
     /\ UNCHANGED <<agent, mailbox, call>>

PurgeHistory(n) ==
  LET gone == {m \in Stored : n \in {msg[m].from, msg[m].to}}
  IN /\ gone # {}
     /\ msg' = [m \in Messages |-> IF m \in gone THEN Deleted(msg[m]) ELSE msg[m]]
     /\ UNCHANGED <<agent, mailbox, call>>

\* Every registration is given a session of its own.
Register(a) ==
  /\ agent[a].issued < MaxSessions
  /\ agent' = [agent EXCEPT ![a] = [registered |-> TRUE, session |-> @.issued + 1, issued |-> @.issued + 1]]
  /\ UNCHANGED <<msg, mailbox, call>>

\* Session end, offline, admin rotation of the token: session_id NULL.
SessionEnd(a) ==
  /\ agent[a].session # 0
  /\ agent' = [agent EXCEPT ![a].session = 0]
  /\ UNCHANGED <<msg, mailbox, call>>

Unregister(a) ==
  /\ agent[a].registered
  /\ agent' = [agent EXCEPT ![a].registered = FALSE, ![a].session = 0]
  /\ UNCHANGED <<msg, mailbox, call>>

Ages(m) ==
  /\ m \in Stored /\ msg[m].age # "ancient"
  /\ msg' = [msg EXCEPT ![m].age = IF @ = "new" THEN "old" ELSE "ancient"]
  /\ UNCHANGED <<agent, mailbox, call>>

ProcessCrash(p) ==
  /\ call[p] # Idle
  /\ call' = [call EXCEPT ![p] = Idle]
  /\ UNCHANGED <<msg, agent, mailbox>>

-----------------------------------------------------------------------------
Continue(p) == \/ \E prio \in Priorities : FanOut(p, prio)
               \/ FanOutBound(p)
               \/ DrainSelect(p)
               \/ DrainMark(p)
               \/ DrainObserve(p)

Call ==
  \/ \E from \in Senders, to \in Names, prio \in Priorities : SendMessage(from, to, prio)
  \/ \E p \in Procs, a \in Agents, mode \in ReadModes : DrainOpen(p, a, mode)
  \/ \E a \in Agents, ids \in SUBSET Messages : ResolveMessages(a, ids)

\* A fan-out gets its recipients; its senders are bounded like all senders.
FanOutCall ==
  \E p \in Procs, from \in Senders \cap Agents :
    \/ BroadcastRead(p, from)
    \/ \E owners \in SUBSET Agents : CapabilityRead(p, from, owners)

Sweep == \/ PurgeOldMessages
         \/ \E n \in Names : PurgeHistory(n)
         \/ \E m \in Messages : Ages(m)

Session == \E a \in Agents : Register(a) \/ SessionEnd(a) \/ Unregister(a)

NextUp == Call \/ FanOutCall \/ (\E p \in Procs : Continue(p)) \/ Sweep \/ Session

Next == NextUp \/ (\E p \in Procs : ProcessCrash(p))

Spec == Init /\ [][Next]_vars

(* Once processes stop crashing: a handler goes on, and an agent keeps      *)
(* asking for its pending mail, however busy the processes are.             *)
Fairness == /\ \A p \in Procs : WF_vars(Continue(p))
            /\ \A a \in Agents : SF_vars(\E p \in Procs : DrainOpen(p, a, PlainRead))

FairSpec == Init /\ [][NextUp]_vars /\ Fairness

-----------------------------------------------------------------------------
(* Properties.                                                             *)

\* A mailbox never gives one number twice, however many drains number its
\* mail at once and whatever was deleted meanwhile, and next_seq bounds all
\* it gave (db.ts 7220-7264).
SeqUnique ==
  /\ \A m, n \in Messages : m # n /\ msg[m].seq # 0 /\ msg[m].to = msg[n].to => msg[m].seq # msg[n].seq
  /\ \A m \in Messages : msg[m].seq # 0 => msg[m].to \in Agents /\ msg[m].seq <= mailbox[msg[m].to]

Log == INSTANCE ObservationLog WITH
         Boxes <- Agents, Items <- Messages, Nowhere <- NoOne, high <- mailbox,
         place <- [m \in Messages |-> msg[m].seq],
         box <- [m \in Messages |-> IF msg[m].seq = 0 THEN NoOne ELSE msg[m].to]

\* The numbering implements the log a cursor relies on (db.ts 7220-7264).
ImplementsLog == Log!Spec

\* Mail that no session ever drained and nobody resolved is deleted only past
\* the grace, however often it was peeked at, or with the whole history of a
\* name (db.ts 3177-3248, 7459-7478).
UndeliveredKept ==
  [][\A m \in Stored :
       msg'[m].state = "deleted" /\ ~ msg[m].resolved /\ msg[m].reader = 0 /\ msg[m].age # "ancient"
         => \E n \in {msg[m].from, msg[m].to} :
              \A k \in Stored : n \in {msg[k].from, msg[k].to} => msg'[k].state = "deleted"]_vars

\* Mail pending for a bound session that keeps draining does not stay pending
\* for it, whatever page limit, priorities and other processes are in the way
\* (db.ts 7039-7264).
PendingDrained ==
  \A m \in Messages, a \in Agents :
    (m \in Stored /\ msg[m].to = a /\ agent[a].session # 0 /\ Pending(m, agent[a].session))
      ~> (m \notin Stored \/ agent[a].session = 0 \/ ~ Pending(m, agent[a].session))

-----------------------------------------------------------------------------
(* What the documentation says and the code does not do.                   *)

\* server.ts:417: status='pending' "returns un-read messages and atomically marks
\* them read for THIS session": what is marked was un-read by it at the mark.
ReadOnce ==
  [][\A p \in Procs :
       call[p].kind = "mark" /\ call'[p].kind = "observe" /\ call[p].mode.status = "pending" /\ call[p].session # 0
         => \A m \in call[p].rows : msg[m].reader # call[p].session]_vars
=============================================================================
