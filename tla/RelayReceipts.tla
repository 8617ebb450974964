---------------------------- MODULE RelayReceipts ----------------------------
(***************************************************************************)
(* What the readers of mail are told: the receipt of get_messages and of   *)
(* get_messages_summary (counted in statements of their own before the     *)
(* drain), the receipt of resolve_messages, the sender's get_outstanding,  *)
(* the board's lane of humans and the inbox summary.                       *)
(*                                                                         *)
(* RelayMailbox has the numbering, the pages' order and retention; here a  *)
(* mailbox is a set, and a page is any part of it that fits.  One sender,  *)
(* always registered; a recipient without an agents row is a human.        *)
(***************************************************************************)
EXTENDS Naturals, FiniteSets

CONSTANTS
  Recipients,    \* names mail is sent to
  Desks,         \* server processes
  MaxPosted,     \* bound: messages ever sent
  MaxWindows,    \* bound: sessions a recipient is ever given
  PageSize,      \* the limit argument
  Readings,      \* bound: the arguments mail is read with
  Dispositions          \* bound: the dispositions sent

VARIABLES
  mails,     \* the messages table
  recips,    \* the agents rows of the recipients
  rcall      \* what each process carries between the statements of a handler

rcptVars == <<mails, recips, rcall>>

Posted == 1 .. MaxPosted

\* "dated" is an obligation with a deadline; a day is the default window of
\* history, the default bound of an ask, and the deadlines of the model.
MailRow == [state : {"none", "stored"}, to : Recipients,
            kind : {"log", "ask", "dated"}, old : BOOLEAN,
            reader : 0 .. MaxWindows, resolved : BOOLEAN]

\* status is pending or a history status; recent, a window of a day.
Reading == [status : {"pending", "all"}, peek : BOOLEAN, ack : BOOLEAN, recent : BOOLEAN]

ASSUME ReceiptBounds ==
  /\ MaxPosted \in Nat /\ MaxWindows \in Nat /\ PageSize \in Nat \ {0} /\ Recipients # {}
  /\ Readings \subseteq Reading /\ Dispositions \subseteq {"log", "ask", "dated"}

NoReading == [status |-> "all", peek |-> TRUE, ack |-> FALSE, recent |-> FALSE]

ReceiptTypeOK ==
  /\ \A m \in Posted : mails[m].state = "stored" => mails[m] \in MailRow
  /\ recips \in [Recipients -> [here : BOOLEAN, session : 0 .. MaxWindows,
                                given : 0 .. MaxWindows]]
  /\ rcall \in [Desks -> [stage : {"idle", "canonical", "select", "mark", "answer",
                                    "sender"},
                          who : Recipients, how : Reading, session : 0 .. MaxWindows,
                          windowed : 0 .. MaxPosted, complete : BOOLEAN,
                          rows : SUBSET Posted, resolved : SUBSET Posted]]

NotSent == [state |-> "none"]

AtRest == [stage |-> "idle", who |-> CHOOSE r \in Recipients : TRUE, how |-> NoReading,
           session |-> 0, windowed |-> 0, complete |-> TRUE,
           rows |-> {}, resolved |-> {}]

ReceiptInit ==
  /\ mails = [m \in Posted |-> NotSent]
  /\ recips = [r \in Recipients |-> [here |-> FALSE, session |-> 0, given |-> 0]]
  /\ rcall = [d \in Desks |-> AtRest]

InTable == {m \in Posted : mails[m].state = "stored"}

\* pendingForSessionClause: an unbound reader compares with no session.
PendingFor(m, s) ==
  ~mails[m].resolved /\ (mails[m].reader = 0 \/ mails[m].reader # s)

\* A window never hides pending mail nobody drained.
InWindow(m, how) ==
  how.recent => ~mails[m].old \/ (how.status = "pending" /\ mails[m].reader = 0)

\* buildMessageWhere.
Found(r, how, s) ==
  {m \in InTable :
     /\ mails[m].to = r
     /\ how.status = "pending" => PendingFor(m, s)
     /\ InWindow(m, how)}

-----------------------------------------------------------------------------
(* get_messages and get_messages_summary.                                  *)

\* pendingWindowReport, first count: what the query matches with its window.
\* An acking peek is refused.
GetMessages(d, r, how) ==
  /\ rcall[d] = AtRest /\ recips[r].here
  /\ ~(how.ack /\ how.peek)
  /\ rcall' = [rcall EXCEPT ![d] = [AtRest EXCEPT
       !.who = r, !.how = how, !.windowed = Cardinality(Found(r, how, recips[r].session)),
       !.stage = IF how.status = "pending" /\ how.recent THEN "canonical" ELSE "select"]]
  /\ UNCHANGED <<mails, recips>>

\* pendingWindowReport, second count, without the window: hidden_by_since.
CountsCanonical(d) ==
  /\ rcall[d].stage = "canonical"
  /\ LET c == rcall[d]
         queue == Found(c.who, [c.how EXCEPT !.recent = FALSE], recips[c.who].session)
     IN rcall' = [rcall EXCEPT ![d].stage = "select",
                               ![d].complete = Cardinality(queue) <= c.windowed]
  /\ UNCHANGED <<mails, recips>>

\* The page, under the session read with it, and has_more.  A receipt without
\* an effect is not kept: so with a peek, and with get_messages_summary.
SelectsPage(d) ==
  /\ rcall[d].stage = "select"
  /\ LET c == rcall[d]
         s == recips[c.who].session
         found == Found(c.who, c.how, s)
     IN \E rows \in SUBSET found :
          /\ Cardinality(rows) = PageSize
               \/ (rows = found /\ Cardinality(rows) < PageSize)
          /\ rcall' = [rcall EXCEPT ![d] =
               IF rows = {} \/ c.how.peek THEN AtRest
               ELSE [c EXCEPT !.stage = "mark", !.session = s, !.rows = rows, !.windowed = 0,
                       !.complete = @ /\ c.windowed <= Cardinality(rows)]]
  /\ UNCHANGED <<mails, recips>>

\* resolved_at IS NULL: only what this call resolves is counted as its own.
NewlyResolved(rows) == {m \in rows : ~mails[m].resolved}

\* One transaction marks the page for the session, stamps read_at, and
\* resolves when the call acks a pending drain.
MarksPage(d) ==
  /\ rcall[d].stage = "mark"
  /\ LET c == rcall[d]
         acks == c.how.ack /\ c.how.status = "pending"
     IN /\ mails' = [m \in Posted |->
             IF m \in c.rows
               THEN [mails[m] EXCEPT
                       !.reader = IF c.session # 0 THEN c.session ELSE @,
                       !.resolved = @ \/ acks]
               ELSE mails[m]]
        /\ rcall' = [rcall EXCEPT ![d] =
             IF acks THEN [AtRest EXCEPT !.stage = "answer", !.resolved = NewlyResolved(c.rows)]
             ELSE AtRest]
  /\ UNCHANGED recips

\* The receipt leaves.
Answers(d) ==
  /\ rcall[d].stage \in {"answer", "sender"}
  /\ rcall' = [rcall EXCEPT ![d] = AtRest]
  /\ UNCHANGED <<mails, recips>>

DeskCrash(d) ==
  /\ rcall[d] # AtRest
  /\ rcall' = [rcall EXCEPT ![d] = AtRest]
  /\ UNCHANGED <<mails, recips>>

-----------------------------------------------------------------------------
(* send_message, resolve_messages, register_agent and the rest.            *)

Sends(r, kind) ==
  /\ \E m \in Posted :
       /\ mails[m] = NotSent /\ \A k \in 1 .. m - 1 : mails[k] # NotSent
       /\ mails' = [mails EXCEPT ![m] = [state |-> "stored", to |-> r, kind |-> kind,
            old |-> FALSE, reader |-> 0, resolved |-> FALSE]]
  /\ UNCHANGED <<recips, rcall>>

\* Mutant: the sender closes whatever it asked for.
OpenToSender_Any(m) == ~mails[m].resolved

\* The sender's own clause: only while the recipient has no agents row.
OpenToSender(m) == ~mails[m].resolved /\ ~recips[mails[m].to].here

\* resolve_messages by the sender, for a human.
SenderResolves(d, ids) ==
  /\ rcall[d] = AtRest /\ ids # {}
  /\ LET own == {m \in ids : OpenToSender(m)}
     IN /\ mails' = [m \in Posted |-> IF m \in own THEN [mails[m] EXCEPT !.resolved = TRUE]
                                                   ELSE mails[m]]
        /\ rcall' = [rcall EXCEPT ![d] = [AtRest EXCEPT !.stage = "sender", !.resolved = own]]
  /\ UNCHANGED recips

\* resolve_messages by the recipient.
RecipientResolves(d, r, ids) ==
  /\ rcall[d] = AtRest /\ recips[r].here /\ ids # {}
  /\ LET own == NewlyResolved({m \in ids : mails[m].to = r})
     IN /\ mails' = [m \in Posted |-> IF m \in own THEN [mails[m] EXCEPT !.resolved = TRUE]
                                                   ELSE mails[m]]
        /\ rcall' = [rcall EXCEPT ![d] = [AtRest EXCEPT !.stage = "answer", !.resolved = own]]
  /\ UNCHANGED recips

\* Each registration is a new session.
Bound(row) == [here |-> TRUE, session |-> row.given + 1, given |-> row.given + 1]

\* A name registers, a human's as well.
Arrives(r) ==
  /\ recips[r].given < MaxWindows
  /\ recips' = [recips EXCEPT ![r] = Bound(@)]
  /\ UNCHANGED <<mails, rcall>>

\* A rotation or a session's end leaves session_id NULL.
Unbinds(r) ==
  /\ recips[r].session # 0
  /\ recips' = [recips EXCEPT ![r].session = 0]
  /\ UNCHANGED <<mails, rcall>>

Unregisters(r) ==
  /\ recips[r].here
  /\ recips' = [recips EXCEPT ![r].here = FALSE, ![r].session = 0]
  /\ UNCHANGED <<mails, rcall>>

\* A message gets older than the window, its bound and its deadline.
GetsOld(m) ==
  /\ m \in InTable /\ ~mails[m].old
  /\ mails' = [mails EXCEPT ![m].old = TRUE]
  /\ UNCHANGED <<recips, rcall>>

ReceiptNext ==
  \/ \E d \in Desks, r \in Recipients, how \in Readings : GetMessages(d, r, how)
  \/ \E d \in Desks : CountsCanonical(d) \/ SelectsPage(d) \/ MarksPage(d)
                      \/ Answers(d) \/ DeskCrash(d)
  \/ \E r \in Recipients, kind \in Dispositions : Sends(r, kind)
  \/ \E d \in Desks, ids \in SUBSET InTable : SenderResolves(d, ids)
  \/ \E d \in Desks, r \in Recipients, ids \in SUBSET InTable : RecipientResolves(d, r, ids)
  \/ \E r \in Recipients : Arrives(r) \/ Unbinds(r) \/ Unregisters(r)
  \/ \E m \in Posted : GetsOld(m)

ReceiptSpec == ReceiptInit /\ [][ReceiptNext]_rcptVars

-----------------------------------------------------------------------------
(* The lists made of the table.                                            *)

\* get_outstanding: what the sender waits for, with its overdue flag.
Outstanding == {m \in InTable : mails[m].kind # "log" /\ ~mails[m].resolved}

OutstandingOverdue(m) == m \in Outstanding /\ mails[m].old

\* getHumanPendingObligations.
HumanLane ==
  {m \in InTable : mails[m].kind # "log" /\ ~mails[m].resolved /\ ~recips[mails[m].to].here}

LaneOverdue(m) == m \in HumanLane /\ mails[m].kind = "dated" /\ mails[m].old

\* get_messages_summary with the window of a day.
Previewed(r) ==
  Found(r, [NoReading EXCEPT !.status = "pending", !.recent = TRUE], recips[r].session)

\* getInboxSummary: pending_count and unread_count of a registered agent.
SummaryOf(r) ==
  {m \in InTable : mails[m].to = r /\ recips[r].here /\ PendingFor(m, recips[r].session)}

-----------------------------------------------------------------------------
(* Properties.                                                             *)

\* A windowed preview of the queue leaves out only what some session drained,
\* whatever was peeked at, drained for another session or unbound since (db.ts
\* 6642-6668, 7385-7432).
PreviewHidesDelivered ==
  \A r \in Recipients : \A m \in SummaryOf(r) \ Previewed(r) : mails[m].reader # 0

\* No message is counted as resolved by two receipts, and what a receipt counts
\* is resolved, however acking drains and resolve_messages race (db.ts
\* 7110-7114: "neither double-counts nor drops").
CountedOnce ==
  /\ \A d \in Desks : \A m \in rcall[d].resolved : mails[m].resolved
  /\ \A d, e \in Desks : d # e => rcall[d].resolved \cap rcall[e].resolved = {}

\* A call of the sender's never closes mail of a registered agent, whenever the
\* recipient registered (db.ts 7352-7372).
SenderSparesAgents ==
  [][\A d \in Desks :
       rcall'[d].stage = "sender" /\ rcall[d].stage = "idle"
         => \A m \in rcall'[d].resolved : ~recips[mails[m].to].here]_rcptVars

\* An open ask or obligation is in somebody's sight, through registrations and
\* their ends: the board's lane of humans, its recipient's queue, or the
\* session that drained it (db.ts 6189-6224, 6284-6333).
OpenIsShown ==
  \A m \in Outstanding :
    LET r == mails[m].to
    IN \/ m \in HumanLane
       \/ m \in SummaryOf(r)
       \/ recips[r].session # 0 /\ mails[m].reader = recips[r].session

\* The promises of a receipt: what is settled is counted once, what is open is shown, what
\* was delivered is hidden, and a sender settles no agent's mail (db.ts).
ReceiptsTrue ==
  /\ []ReceiptTypeOK /\ []CountedOnce /\ []OpenIsShown /\ []PreviewHidesDelivered
  /\ SenderSparesAgents

-----------------------------------------------------------------------------
(* What the comments say and the code does not do.                         *)

\* tools/messaging.ts 309-310: "the response is structurally unable to claim a
\* completeness it does not have".  Counting and draining are two reads.
NoFalseCompleteness ==
  [][\A d \in Desks :
       LET c == rcall'[d]
       IN rcall[d].stage = "select" /\ c.stage = "mark" /\ c.complete
            /\ c.how.status = "pending" => SummaryOf(c.who) \subseteq c.rows]_rcptVars

\* db.ts 6279: the lane of humans is the "Recipient-side mirror of
\* getOutstanding".  It never calls an ask overdue.
LaneMirrors == \A m \in HumanLane : LaneOverdue(m) <=> OutstandingOverdue(m)

=============================================================================
