-------------------------- MODULE RelayMailboxProofs --------------------------
(***************************************************************************)
(* Theorems about RelayMailbox for every set of names, processes, read     *)
(* modes and every number of messages and sessions, and about the chain of *)
(* bindings that says whose window a mailbox is read in.                   *)
(*                                                                         *)
(* The argument for the mailbox: only DrainObserve gives numbers.  Every   *)
(* other step keeps the number of every message, and the mailbox of every  *)
(* message that was inserted (KeepsNumbers).  DrainObserve ranks the rows  *)
(* it claims, all of one mailbox (CallsSound), above next_seq; ranks are   *)
(* one to one.                                                             *)
(***************************************************************************)
EXTENDS RelayMailbox, RelayBindings, FiniteSetTheorems, TLAPS

-----------------------------------------------------------------------------
(* Typing of the rows the handlers build.                                  *)

\* No session, and the ranks of the priorities.
LEMMA Bounds == 0 \in Sessions /\ Priorities \cup {0} \subseteq Nat /\ Messages \subseteq Nat
BY MailBounds DEF Sessions, Messages

\* The row of an id not inserted yet.
LEMMA NoMessageTyped == NoMessage \in MessageRow
BY Bounds DEF NoMessage, MessageRow

\* An inserted row is a row, unread and unnumbered.
LEMMA NewMessageTyped ==
  ASSUME NEW from \in Agents \cup {SystemName, NoOne}, NEW to \in Names, NEW prio \in Priorities
  PROVE  /\ NewMessage(from, to, prio) \in MessageRow
         /\ NewMessage(from, to, prio).state = "stored"
         /\ NewMessage(from, to, prio).seq = 0
BY Bounds DEF NewMessage, NoMessage, MessageRow

\* Marking keeps a row a row, its mailbox and its number.
LEMMA MarkedTyped ==
  ASSUME NEW row \in MessageRow, NEW mode \in ReadMode, NEW s \in Sessions
  PROVE  /\ Marked(row, mode, s) \in MessageRow
         /\ Marked(row, mode, s).state = row.state
         /\ Marked(row, mode, s).to = row.to
         /\ Marked(row, mode, s).seq = row.seq
BY DEF Marked, MessageRow, ReadMode

\* Deleting keeps the mailbox and the number for the history.
LEMMA DeletedTyped ==
  ASSUME NEW row \in MessageRow
  PROVE  /\ Deleted(row) \in MessageRow
         /\ Deleted(row).state = "deleted"
         /\ Deleted(row).to = row.to
         /\ Deleted(row).seq = row.seq
BY Bounds DEF Deleted, NoMessage, MessageRow

\* A process with nothing in flight.
LEMMA IdleTyped == Idle \in CallRow /\ Idle.kind = "idle" /\ Idle.unseen = {}
BY MailBounds DEF Idle, CallRow, PlainRead, ReadMode, Sessions

\* The messages and every set of them are finite.
LEMMA MessagesFinite ==
  ASSUME NEW S \in SUBSET Messages
  PROVE  IsFiniteSet(S) /\ Cardinality(S) \in Nat
<1>1. MaxMessages \in Int /\ 1 \in Int
  BY MailBounds
<1>2. IsFiniteSet(Messages)
  BY <1>1, FS_Interval DEF Messages
<1>3. IsFiniteSet(S)
  BY <1>2, FS_Subset
<1> QED BY <1>3, FS_CardinalityType

-----------------------------------------------------------------------------
(* The rank of a message in a page.                                        *)

Rank(m, S) == Cardinality({n \in S : n = m \/ Ahead(n, m)})

\* Ranking is one to one onto 1 .. Cardinality(S): the order of a page is total.
LEMMA RankOnto ==
  ASSUME TypeOK, NEW S \in SUBSET Messages
  PROVE  /\ \A m \in S : Rank(m, S) \in 1 .. Cardinality(S)
         /\ \A m, n \in S : m # n => Rank(m, S) # Rank(n, S)
         /\ {Rank(m, S) : m \in S} = 1 .. Cardinality(S)
<1> DEFINE Upto(m) == {n \in S : n = m \/ Ahead(n, m)}
<1>0. \A m \in S : msg[m].prio \in Nat /\ m \in Nat
  <2>1. \A m \in S : msg[m] \in MessageRow /\ m \in Nat
    BY Bounds DEF TypeOK
  <2>2. \A row \in MessageRow : row.prio \in Nat
    <3>1. \A row \in MessageRow : row.prio \in Priorities \cup {0}
      BY DEF MessageRow
    <3> QED BY <3>1, Bounds
  <2> QED BY <2>1, <2>2
<1>1. IsFiniteSet(S) /\ Cardinality(S) \in Nat
  BY MessagesFinite
<1>2. \A m \in S : Upto(m) \in SUBSET S /\ m \in Upto(m)
  OBVIOUS
<1>3. \A m \in S : /\ IsFiniteSet(Upto(m)) /\ Cardinality(Upto(m)) \in Nat
                   /\ Cardinality(Upto(m)) <= Cardinality(S) /\ Cardinality(Upto(m)) # 0
  <2> SUFFICES ASSUME NEW m \in S
               PROVE  /\ IsFiniteSet(Upto(m)) /\ Cardinality(Upto(m)) \in Nat
                      /\ Cardinality(Upto(m)) <= Cardinality(S) /\ Cardinality(Upto(m)) # 0
    OBVIOUS
  <2> HIDE DEF Upto
  <2>1. IsFiniteSet(Upto(m)) /\ Cardinality(Upto(m)) <= Cardinality(S)
    BY <1>1, <1>2, FS_Subset
  <2>2. Cardinality(Upto(m)) \in Nat
    BY <2>1, FS_CardinalityType
  <2>3. Cardinality(Upto(m)) # 0
    BY <2>1, <1>2, FS_EmptySet
  <2> QED BY <2>1, <2>2, <2>3
<1>4. \A m, n \in S : Ahead(m, n) => Cardinality(Upto(m)) # Cardinality(Upto(n))
  <2> SUFFICES ASSUME NEW m \in S, NEW n \in S, Ahead(m, n)
               PROVE  Cardinality(Upto(m)) # Cardinality(Upto(n))
    OBVIOUS
  <2>1. Upto(m) \in SUBSET Upto(n)
    BY <1>0 DEF Ahead
  <2>2. n \in Upto(n) /\ n \notin Upto(m)
    BY <1>0 DEF Ahead
  <2> HIDE DEF Upto
  <2> QED BY <1>3, <2>1, <2>2, FS_Subset
<1>5. \A m, n \in S : m # n => Ahead(m, n) \/ Ahead(n, m)
  BY <1>0 DEF Ahead
<1>6. \A m \in S : Rank(m, S) = Cardinality(Upto(m))
  BY DEF Rank
<1> HIDE DEF Upto
<1>7. \A m \in S : Rank(m, S) \in 1 .. Cardinality(S)
  BY <1>1, <1>3, <1>6
<1>8. \A m, n \in S : m # n => Rank(m, S) # Rank(n, S)
  BY <1>4, <1>5, <1>6
<1>9. {Rank(m, S) : m \in S} = 1 .. Cardinality(S)
  <2> DEFINE T == 1 .. Cardinality(S)
             f == [m \in S |-> Rank(m, S)]
  <2>1. f \in Injection(S, T)
    BY <1>7, <1>8 DEF Injection, IsInjective
  <2>2. IsFiniteSet(T) /\ Cardinality(T) = Cardinality(S)
    BY <1>1, FS_Interval
  <2>3. f \in Surjection(S, T)
    <3> HIDE DEF T, f
    <3> QED BY <2>1, <2>2, FS_Injection
  <2>4. \A t \in T : \E m \in S : f[m] = t
    BY <2>3 DEF Surjection
  <2> QED BY <1>7, <2>4
<1> QED BY <1>7, <1>8, <1>9

-----------------------------------------------------------------------------
(* The inductive invariant.                                                *)

\* What a drain carries to its last statement are inserted rows of its owner.
CallsSound ==
  \A p \in Procs : \A m \in call[p].unseen :
    msg[m].state # "absent" /\ msg[m].to = call[p].owner

\* A row that was not inserted has no number.
AbsentClean == \A m \in Messages : msg[m].state = "absent" => msg[m].seq = 0

MailInv == TypeOK /\ SeqUnique /\ CallsSound /\ AbsentClean

-----------------------------------------------------------------------------
(* What the steps other than DrainSelect and DrainObserve do.              *)

\* In place of row m: inserted without a number, or in its mailbox with its number.
Keeps(row, m) ==
  /\ row.state # "absent"
  /\ IF msg[m].state = "absent" THEN row.seq = 0
     ELSE row.to = msg[m].to /\ row.seq = msg[m].seq

RowsKept ==
  /\ msg' \in [Messages -> MessageRow]
  /\ mailbox' = mailbox
  /\ \A m \in Messages : msg'[m] = msg[m] \/ Keeps(msg'[m], m)

\* What the last conjunct of TypeOK says of one process.
CallFits(c) == /\ c \in CallRow
               /\ c.kind \in {"select", "mark", "observe"} => c.owner \in Agents
               /\ c.kind = "mark" => ~ c.mode.peek

\* A process keeps the rows it is to number, or has none.
CallsKept ==
  /\ call' \in [Procs -> CallRow]
  /\ \A p \in Procs : /\ CallFits(call'[p])
                      /\ \/ call'[p].unseen = {}
                         \/ /\ call'[p].unseen = call[p].unseen
                            /\ call'[p].owner = call[p].owner

\* Leaving the rows alone keeps them.
LEMMA RowsUnchanged == TypeOK /\ UNCHANGED <<msg, mailbox>> => RowsKept
BY DEF TypeOK, RowsKept

\* Leaving the calls alone keeps them.
LEMMA CallsUnchanged == TypeOK /\ UNCHANGED call => CallsKept
BY DEF TypeOK, CallsKept, CallFits

\* So does giving one process a call with nothing to number, or the rows it had.
LEMMA CallReplaced ==
  ASSUME TypeOK, NEW p \in Procs, NEW c, CallFits(c), call' = [call EXCEPT ![p] = c],
         c.unseen = {} \/ (c.unseen = call[p].unseen /\ c.owner = call[p].owner)
  PROVE  CallsKept
<1>1. call \in [Procs -> CallRow] /\ \A q \in Procs : CallFits(call[q])
  BY DEF TypeOK, CallFits
<1>2. \A q \in Procs : call'[q] = IF q = p THEN c ELSE call[q]
  BY <1>1
<1> QED BY <1>1, <1>2 DEF CallsKept, CallFits

\* The idle call is one.
LEMMA IdleFits == CallFits(Idle) /\ Idle.unseen = {}
BY IdleTyped DEF CallFits

\* Rewriting the rows of S keeps the table.
LEMMA RowsReplaced ==
  ASSUME TypeOK, NEW S \in SUBSET Messages, NEW row, mailbox' = mailbox,
         msg' = [m \in Messages |-> IF m \in S THEN row[m] ELSE msg[m]],
         \A m \in S : row[m] \in MessageRow /\ Keeps(row[m], m)
  PROVE  RowsKept
BY DEF TypeOK, RowsKept

\* The ids a send takes are of rows not inserted.
LEMMA FreshAbsent ==
  ASSUME NEW n
  PROVE  Fresh(n) \subseteq Messages /\ \A m \in Fresh(n) : msg[m].state = "absent"
BY DEF Fresh, Absent

\* A row resolved or grown older keeps its mailbox and its number.
LEMMA TouchedTyped ==
  ASSUME NEW row \in MessageRow, NEW age \in {"new", "old", "ancient"}
  PROVE  /\ [row EXCEPT !.resolved = TRUE] \in MessageRow
         /\ [row EXCEPT !.resolved = TRUE].state = row.state
         /\ [row EXCEPT !.resolved = TRUE].to = row.to
         /\ [row EXCEPT !.resolved = TRUE].seq = row.seq
         /\ [row EXCEPT !.age = age] \in MessageRow
         /\ [row EXCEPT !.age = age].state = row.state
         /\ [row EXCEPT !.age = age].to = row.to
         /\ [row EXCEPT !.age = age].seq = row.seq
BY DEF MessageRow

\* Every step but DrainSelect and DrainObserve keeps the rows and the calls.
LEMMA OrdinaryStep ==
  ASSUME TypeOK, Next
  PROVE  \/ RowsKept /\ CallsKept /\ agent' \in [Agents -> AgentRow]
         \/ \E p \in Procs : DrainSelect(p) \/ DrainObserve(p)
<1> DEFINE Kept == RowsKept /\ CallsKept /\ agent' \in [Agents -> AgentRow]
<1>0. /\ msg \in [Messages -> MessageRow] /\ agent \in [Agents -> AgentRow]
      /\ call \in [Procs -> CallRow] /\ \A p \in Procs : CallFits(call[p])
  BY DEF TypeOK, CallFits
<1>1. ASSUME NEW from \in Senders, NEW to \in Names, NEW prio \in Priorities, SendMessage(from, to, prio)
      PROVE  Kept
  <2> DEFINE row == [m \in Messages |-> NewMessage(from, to, prio)]
  <2>1. from \in Agents \cup {SystemName, NoOne}
    BY MailNames
  <2>2. \A m \in Fresh(1) : row[m] \in MessageRow /\ Keeps(row[m], m)
    BY <2>1, FreshAbsent, NewMessageTyped DEF Keeps
  <2>3. msg' = [m \in Messages |-> IF m \in Fresh(1) THEN row[m] ELSE msg[m]] /\ UNCHANGED <<agent, mailbox, call>>
    BY <1>1 DEF SendMessage
  <2> HIDE DEF row
  <2>4. RowsKept
    BY <2>2, <2>3, FreshAbsent, RowsReplaced
  <2> QED BY <1>0, <2>3, <2>4, CallsUnchanged
<1>2. ASSUME NEW p \in Procs, NEW from \in Senders \cap Agents,
             BroadcastRead(p, from) \/ \E owners \in SUBSET Agents : CapabilityRead(p, from, owners)
      PROVE  Kept
  <2>1. PICK owners \in SUBSET Agents :
          call' = [call EXCEPT ![p] = [Idle EXCEPT !.kind = "fanout", !.owner = from, !.names = owners]]
    <3>1. CASE BroadcastRead(p, from)
      <4>1. {n \in Agents : Registered(n)} \ {from} \in SUBSET Agents
        OBVIOUS
      <4> QED BY <3>1, <4>1 DEF BroadcastRead
    <3>2. CASE \E owners \in SUBSET Agents : CapabilityRead(p, from, owners)
      BY <3>2 DEF CapabilityRead
    <3> QED BY <1>2, <3>1, <3>2
  <2> DEFINE c == [Idle EXCEPT !.kind = "fanout", !.owner = from, !.names = owners]
  <2>2. CallFits(c) /\ c.unseen = {}
    BY IdleTyped DEF CallFits, CallRow, Idle, Names
  <2>4. call' = [call EXCEPT ![p] = c]
    BY <2>1
  <2>3. UNCHANGED <<msg, agent, mailbox>>
    BY <1>2 DEF BroadcastRead, CapabilityRead
  <2> HIDE DEF c
  <2> QED BY <1>0, <2>2, <2>3, <2>4, CallReplaced, RowsUnchanged
<1>3. ASSUME NEW p \in Procs, NEW prio \in Priorities, FanOut(p, prio)
      PROVE  Kept
  <2> DEFINE ids == Fresh(Cardinality(call[p].names))
  <2>1. PICK to \in [ids -> call[p].names] :
          msg' = [m \in Messages |-> IF m \in ids THEN NewMessage(call[p].owner, to[m], prio) ELSE msg[m]]
    BY <1>3 DEF FanOut
  <2>2. call' = [call EXCEPT ![p] = Idle] /\ UNCHANGED <<agent, mailbox>>
    BY <1>3 DEF FanOut
  <2>3. ids \subseteq Messages /\ \A m \in ids : msg[m].state = "absent"
    BY FreshAbsent
  <2> DEFINE row == [m \in ids |-> NewMessage(call[p].owner, to[m], prio)]
  <2>4. call[p].owner \in Agents \cup {SystemName, NoOne} /\ call[p].names \subseteq Names
    BY <1>0 DEF CallRow
  <2>5. \A m \in ids : row[m] \in MessageRow /\ Keeps(row[m], m)
    BY <2>3, <2>4, NewMessageTyped DEF Keeps
  <2>6. msg' = [m \in Messages |-> IF m \in ids THEN row[m] ELSE msg[m]]
    BY <2>1
  <2> HIDE DEF ids, row
  <2>7. RowsKept
    BY <2>2, <2>3, <2>5, <2>6, RowsReplaced
  <2> QED BY <1>0, <2>2, <2>7, IdleFits, CallReplaced
<1>4. ASSUME NEW p \in Procs, FanOutBound(p) \/ ProcessCrash(p)
      PROVE  Kept
  <2>1. call' = [call EXCEPT ![p] = Idle] /\ UNCHANGED <<msg, agent, mailbox>>
    BY <1>4 DEF FanOutBound, ProcessCrash
  <2> QED BY <1>0, <2>1, IdleFits, CallReplaced, RowsUnchanged
<1>5. ASSUME NEW p \in Procs, NEW a \in Agents, NEW mode \in ReadModes, DrainOpen(p, a, mode)
      PROVE  Kept
  <2> DEFINE c == [Idle EXCEPT !.kind = "select", !.owner = a, !.mode = mode, !.session = agent[a].session]
  <2>1. mode \in ReadMode /\ agent[a].session \in Sessions
    BY <1>0, MailBounds DEF AgentRow
  <2>2. CallFits(c) /\ c.unseen = {}
    BY <2>1, IdleTyped DEF CallFits, CallRow, Idle
  <2>3. call' = [call EXCEPT ![p] = c] /\ UNCHANGED <<msg, agent, mailbox>>
    BY <1>5 DEF DrainOpen
  <2> HIDE DEF c
  <2> QED BY <1>0, <2>2, <2>3, CallReplaced, RowsUnchanged
<1>6. ASSUME NEW p \in Procs, DrainMark(p)
      PROVE  Kept
  <2> DEFINE S == call[p].rows \cap Stored
             row == [m \in S |-> Marked(msg[m], call[p].mode, call[p].session)]
             c == IF call[p].unseen # {} THEN [call[p] EXCEPT !.kind = "observe"] ELSE Idle
  <2>1. S \in SUBSET Messages /\ \A m \in S : msg[m].state = "stored"
    BY DEF Stored
  <2>2. call[p].mode \in ReadMode /\ call[p].session \in Sessions /\ call[p].kind = "mark" /\ call[p].owner \in Agents
    BY <1>0, <1>6 DEF CallRow, CallFits, DrainMark
  <2>3. \A m \in S : row[m] \in MessageRow /\ Keeps(row[m], m)
    BY <1>0, <2>1, <2>2, MarkedTyped DEF Keeps
  <2>4. /\ msg' = [m \in Messages |-> IF m \in S THEN row[m] ELSE msg[m]]
        /\ call' = [call EXCEPT ![p] = c] /\ UNCHANGED <<agent, mailbox>>
    BY <1>6 DEF DrainMark
  <2>5. CallFits(c) /\ (c.unseen = {} \/ (c.unseen = call[p].unseen /\ c.owner = call[p].owner))
    <3>1. CASE call[p].unseen = {}
      BY <3>1, IdleFits
    <3>2. CASE call[p].unseen # {}
      BY <1>0, <2>2, <3>2 DEF CallFits, CallRow
    <3> QED BY <3>1, <3>2
  <2> HIDE DEF S, row, c
  <2>6. RowsKept
    BY <2>1, <2>3, <2>4, RowsReplaced
  <2> QED BY <1>0, <2>4, <2>5, <2>6, CallReplaced
<1>7. ASSUME NEW a \in Agents, NEW ids \in SUBSET Messages, ResolveMessages(a, ids)
      PROVE  Kept
  <2> DEFINE row == [m \in ids |-> [msg[m] EXCEPT !.resolved = TRUE]]
  <2>1. ids \subseteq Stored
    BY <1>7 DEF ResolveMessages, Resolvable
  <2>2. \A m \in ids : row[m] \in MessageRow /\ Keeps(row[m], m)
    BY <1>0, <2>1, TouchedTyped DEF Stored, Keeps
  <2>3. /\ msg' = [m \in Messages |-> IF m \in ids THEN row[m] ELSE msg[m]]
        /\ UNCHANGED <<agent, mailbox, call>>
    BY <1>7 DEF ResolveMessages
  <2>4. \A m \in ids : msg[m].state = "stored"
    BY <2>1 DEF Stored
  <2> HIDE DEF row
  <2>5. RowsKept
    BY <2>2, <2>3, <2>4, RowsReplaced
  <2> QED BY <1>0, <2>3, <2>5, CallsUnchanged
<1>8. ASSUME PurgeOldMessages \/ \E n \in Names : PurgeHistory(n)
      PROVE  Kept
  <2>1. PICK gone \in SUBSET Stored :
          /\ msg' = [m \in Messages |-> IF m \in gone THEN Deleted(msg[m]) ELSE msg[m]]
          /\ UNCHANGED <<agent, mailbox, call>>
    BY <1>8 DEF PurgeOldMessages, PurgeHistory
  <2> DEFINE row == [m \in gone |-> Deleted(msg[m])]
  <2>2. \A m \in gone : row[m] \in MessageRow /\ Keeps(row[m], m)
    BY <1>0, DeletedTyped DEF Stored, Keeps
  <2>3. gone \subseteq Messages /\ \A m \in gone : msg[m].state = "stored"
    BY DEF Stored
  <2>4. msg' = [m \in Messages |-> IF m \in gone THEN row[m] ELSE msg[m]]
    BY <2>1
  <2> HIDE DEF row
  <2>5. RowsKept
    BY <2>1, <2>2, <2>3, <2>4, RowsReplaced
  <2> QED BY <1>0, <2>1, <2>5, CallsUnchanged
<1>9. ASSUME NEW m \in Messages, Ages(m)
      PROVE  Kept
  <2> DEFINE age == IF msg[m].age = "new" THEN "old" ELSE "ancient"
             row == [k \in {m} |-> [msg[k] EXCEPT !.age = age]]
  <2>1. msg[m].state = "stored" /\ UNCHANGED <<agent, mailbox, call>>
    BY <1>9 DEF Ages, Stored
  <2>2. msg' = [k \in Messages |-> IF k \in {m} THEN row[k] ELSE msg[k]]
    BY <1>0, <1>9 DEF Ages
  <2>3. {m} \in SUBSET Messages /\ \A k \in {m} : row[k] \in MessageRow /\ Keeps(row[k], k)
    <3>1. msg[m] \in MessageRow /\ age \in {"new", "old", "ancient"}
      BY <1>0
    <3>2. row[m] = [msg[m] EXCEPT !.age = age]
      OBVIOUS
    <3> HIDE DEF age, row
    <3>3. /\ row[m] \in MessageRow /\ row[m].state = msg[m].state
          /\ row[m].to = msg[m].to /\ row[m].seq = msg[m].seq
      BY <3>1, <3>2 DEF MessageRow
    <3> QED BY <2>1, <3>3 DEF Keeps
  <2> HIDE DEF row
  <2>4. RowsKept
    BY <2>1, <2>2, <2>3, RowsReplaced
  <2> QED BY <1>0, <2>1, <2>4, CallsUnchanged
<1>10. ASSUME NEW a \in Agents, Register(a) \/ SessionEnd(a) \/ Unregister(a)
       PROVE  Kept
  <2>1. UNCHANGED <<msg, mailbox, call>>
    BY <1>10 DEF Register, SessionEnd, Unregister
  <2>2. agent' \in [Agents -> AgentRow]
    <3>1. agent[a] \in AgentRow
      BY <1>0
    <3>2. CASE Register(a)
      <4>1. agent[a].issued + 1 \in Sessions
        BY <3>1, <3>2, MailBounds DEF AgentRow, Sessions, Register
      <4> QED BY <1>0, <3>2, <4>1 DEF AgentRow, Register
    <3>3. CASE SessionEnd(a)
      BY <1>0, <3>1, <3>3, Bounds DEF AgentRow, SessionEnd
    <3>4. CASE Unregister(a)
      BY <1>0, <3>1, <3>4, Bounds DEF AgentRow, Unregister
    <3> QED BY <1>10, <3>2, <3>3, <3>4
  <2> QED BY <2>1, <2>2, RowsUnchanged, CallsUnchanged
<1> QED
  BY <1>1, <1>2, <1>3, <1>4, <1>5, <1>6, <1>7, <1>8, <1>9, <1>10
  DEF Next, NextUp, Call, FanOutCall, Continue, Sweep, Session

\* Every step but DrainSelect and DrainObserve preserves the invariant.
LEMMA KeptIsEnough ==
  ASSUME MailInv, RowsKept, CallsKept, agent' \in [Agents -> AgentRow]
  PROVE  /\ MailInv'
         /\ \A m \in Messages : /\ msg'[m].seq = msg[m].seq
                                /\ msg[m].seq # 0 => msg'[m].to = msg[m].to
<1>1. \A m \in Messages : \/ msg'[m] = msg[m]
                          \/ msg[m].state # "absent" /\ msg'[m].state # "absent"
                             /\ msg'[m].to = msg[m].to /\ msg'[m].seq = msg[m].seq
                          \/ msg[m].seq = 0 /\ msg'[m].seq = 0 /\ msg'[m].state # "absent"
                             /\ msg[m].state = "absent"
  BY DEF MailInv, AbsentClean, RowsKept, Keeps
<1>2. \A m \in Messages : /\ msg'[m].seq = msg[m].seq
                          /\ msg[m].seq # 0 => msg'[m].to = msg[m].to
  BY <1>1
<1>3. TypeOK'
  BY DEF MailInv, TypeOK, RowsKept, CallsKept, CallFits
<1>4. SeqUnique'
  BY <1>2 DEF MailInv, SeqUnique, RowsKept
<1>5. AbsentClean'
  BY <1>1 DEF MailInv, AbsentClean
<1>6. CallsSound'
  <2> SUFFICES ASSUME NEW p \in Procs, NEW m \in call'[p].unseen
               PROVE  msg'[m].state # "absent" /\ msg'[m].to = call'[p].owner
    BY DEF CallsSound
  <2>1. m \in call[p].unseen /\ call'[p].owner = call[p].owner
    BY DEF CallsKept
  <2>2. call[p].unseen \subseteq Messages
    BY DEF MailInv, TypeOK, CallRow
  <2>3. msg[m].state # "absent" /\ msg[m].to = call[p].owner
    BY <2>1 DEF MailInv, CallsSound
  <2> QED BY <1>1, <2>1, <2>2, <2>3
<1> QED BY <1>2, <1>3, <1>4, <1>5, <1>6 DEF MailInv

\* DrainSelect takes inserted rows of the caller's mailbox.
LEMMA SelectStep ==
  ASSUME MailInv, NEW p \in Procs, DrainSelect(p)
  PROVE  MailInv' /\ UNCHANGED <<msg, agent, mailbox>>
<1> DEFINE rows == Page(call[p].owner, call[p].mode, call[p].session)
           unseen == {m \in rows : msg[m].seq = 0}
           c == IF rows # {} /\ Marks(call[p].mode)
                THEN [call[p] EXCEPT !.kind = "mark", !.rows = rows, !.unseen = unseen]
                ELSE IF unseen # {} THEN [call[p] EXCEPT !.kind = "observe", !.rows = rows, !.unseen = unseen]
                ELSE Idle
<1>1. call' = [call EXCEPT ![p] = c] /\ UNCHANGED <<msg, agent, mailbox>> /\ call[p].kind = "select"
  BY DEF DrainSelect
<1>2. call[p] \in CallRow /\ call[p].owner \in Agents /\ call \in [Procs -> CallRow]
  BY <1>1 DEF MailInv, TypeOK
<1>3. rows \in SUBSET Messages /\ \A m \in rows : msg[m].state = "stored" /\ msg[m].to = call[p].owner
  BY DEF Page, Stored
<1>4. unseen \in SUBSET Messages /\ \A m \in unseen : msg[m].state # "absent" /\ msg[m].to = call[p].owner
  BY <1>3
<1> HIDE DEF rows, unseen
<1>5. CallFits(c) /\ (c.unseen = {} \/ (c.unseen = unseen /\ c.owner = call[p].owner))
  <2>1. CASE rows # {} /\ Marks(call[p].mode)
    BY <2>1, <1>2, <1>3, <1>4 DEF CallRow, CallFits, Marks
  <2>2. CASE ~ (rows # {} /\ Marks(call[p].mode)) /\ unseen # {}
    BY <2>2, <1>2, <1>3, <1>4 DEF CallRow, CallFits
  <2>3. CASE ~ (rows # {} /\ Marks(call[p].mode)) /\ unseen = {}
    BY <2>3, IdleFits
  <2> QED BY <2>1, <2>2, <2>3
<1> HIDE DEF c
<1>6. \A q \in Procs : call'[q] = IF q = p THEN c ELSE call[q]
  BY <1>1, <1>2
<1>7. call' \in [Procs -> CallRow] /\ \A q \in Procs : CallFits(call'[q])
  <2>1. \A q \in Procs : CallFits(call[q])
    BY DEF MailInv, TypeOK, CallFits
  <2>2. \A q \in Procs : CallFits(call'[q])
    BY <1>5, <1>6, <2>1
  <2>3. c \in CallRow
    BY <1>5 DEF CallFits
  <2> QED BY <1>1, <1>2, <2>2, <2>3
<1>8. TypeOK'
  BY <1>1, <1>7 DEF MailInv, TypeOK, CallFits
<1>9. CallsSound'
  <2> SUFFICES ASSUME NEW q \in Procs, NEW m \in call'[q].unseen
               PROVE  msg[m].state # "absent" /\ msg[m].to = call'[q].owner
    BY <1>1 DEF CallsSound
  <2> QED BY <1>4, <1>5, <1>6 DEF MailInv, CallsSound
<1>10. SeqUnique' /\ AbsentClean'
  BY <1>1 DEF MailInv, SeqUnique, AbsentClean
<1> QED BY <1>1, <1>8, <1>9, <1>10 DEF MailInv

\* DrainObserve numbers what it claims 1, 2, 3, ... above next_seq.
LEMMA ObserveStep ==
  ASSUME MailInv, NEW p \in Procs, DrainObserve(p)
  PROVE  LET a == call[p].owner
             claimed == {m \in call[p].unseen : Claimable(m)}
         IN /\ MailInv'
            /\ a \in Agents
            /\ claimed \in SUBSET Messages
            /\ \A m \in claimed : msg[m].seq = 0 /\ msg[m].to = a
            /\ \A m \in Messages : msg'[m].to = msg[m].to /\ msg'[m].state = msg[m].state
            /\ \A m \in claimed : msg'[m].seq = mailbox[a] + Rank(m, claimed)
            /\ \A m \in Messages \ claimed : msg'[m] = msg[m]
            /\ mailbox' = [mailbox EXCEPT ![a] = @ + Cardinality(claimed)]
<1> DEFINE a == call[p].owner
           claimed == {m \in call[p].unseen : Claimable(m)}
<1>1. /\ msg \in [Messages -> MessageRow] /\ mailbox \in [Agents -> Nat] /\ call \in [Procs -> CallRow]
      /\ \A q \in Procs : CallFits(call[q]) /\ call[q].unseen \in SUBSET Messages
  BY DEF MailInv, TypeOK, CallFits, CallRow
<1>2. a \in Agents
  BY <1>1 DEF DrainObserve, CallFits
<1>3. /\ claimed \in SUBSET Messages
      /\ \A m \in claimed : msg[m].seq = 0 /\ msg[m].to = a /\ msg[m].state = "stored"
  BY <1>1 DEF MailInv, CallsSound, Claimable, Stored
<1>4. /\ msg' = [m \in Messages |->
                   IF m \in claimed THEN [msg[m] EXCEPT !.seq = mailbox[a] + Rank(m, claimed)] ELSE msg[m]]
      /\ mailbox' = [mailbox EXCEPT ![a] = mailbox[a] + Cardinality(claimed)]
      /\ call' = [call EXCEPT ![p] = Idle] /\ agent' = agent
  BY DEF DrainObserve, Rank, LastGiven
<1>5. Cardinality(claimed) \in Nat
  BY <1>3, MessagesFinite
<1>6. /\ \A m \in claimed : Rank(m, claimed) \in 1 .. Cardinality(claimed)
      /\ \A m, n \in claimed : m # n => Rank(m, claimed) # Rank(n, claimed)
  BY <1>3, RankOnto DEF MailInv
<1> HIDE DEF a, claimed
<1>7. mailbox[a] \in Nat /\ \A m \in claimed : mailbox[a] + Rank(m, claimed) \in Nat
  BY <1>1, <1>2, <1>5, <1>6
<1>8. \A m \in claimed : /\ msg'[m].seq = mailbox[a] + Rank(m, claimed)
                         /\ msg'[m].to = msg[m].to /\ msg'[m].state = msg[m].state
                         /\ msg'[m] \in MessageRow
  <2> SUFFICES ASSUME NEW m \in claimed
               PROVE  /\ msg'[m].seq = mailbox[a] + Rank(m, claimed)
                      /\ msg'[m].to = msg[m].to /\ msg'[m].state = msg[m].state
                      /\ msg'[m] \in MessageRow
    OBVIOUS
  <2>1. msg[m] \in MessageRow /\ msg'[m] = [msg[m] EXCEPT !.seq = mailbox[a] + Rank(m, claimed)]
    BY <1>1, <1>3, <1>4
  <2> DEFINE n == mailbox[a] + Rank(m, claimed)
  <2>2. n \in Nat /\ msg'[m] = [msg[m] EXCEPT !.seq = n]
    BY <1>7, <2>1
  <2> HIDE DEF n
  <2>3. msg'[m].seq = n /\ msg'[m].to = msg[m].to /\ msg'[m].state = msg[m].state /\ msg'[m] \in MessageRow
    BY <2>1, <2>2 DEF MessageRow
  <2> QED BY <2>3 DEF n
<1>9. \A m \in Messages \ claimed : msg'[m] = msg[m]
  BY <1>4
<1>10. TypeOK'
  <2>1. msg' \in [Messages -> MessageRow]
    BY <1>1, <1>4, <1>8, <1>9
  <2>2. mailbox' \in [Agents -> Nat]
    BY <1>1, <1>2, <1>4, <1>5
  <2>3. CallsKept
    BY <1>4, IdleFits, CallReplaced DEF MailInv
  <2> QED BY <1>4, <2>1, <2>2, <2>3 DEF MailInv, TypeOK, CallsKept, CallFits
<1>11. AbsentClean'
  BY <1>3, <1>8, <1>9 DEF MailInv, AbsentClean
<1>12. CallsSound'
  <2>1. \A q \in Procs : call'[q] = IF q = p THEN Idle ELSE call[q]
    BY <1>1, <1>4
  <2>2. \A m \in Messages : msg'[m].to = msg[m].to /\ msg'[m].state = msg[m].state
    BY <1>8, <1>9
  <2> QED BY <1>1, <2>1, <2>2, IdleFits DEF MailInv, CallsSound
<1>13. SeqUnique'
  <2>1. \A b \in Agents : mailbox'[b] = IF b = a THEN mailbox[a] + Cardinality(claimed) ELSE mailbox[b]
    BY <1>1, <1>2, <1>4
  <2>2. \A m \in Messages : msg[m].seq # 0 => msg[m].to \in Agents /\ msg[m].seq <= mailbox[msg[m].to]
    BY DEF MailInv, SeqUnique
  <2>3. \A m \in Messages : msg[m].seq \in Nat
    BY <1>1 DEF MessageRow
  <2>4. \A m \in claimed : /\ msg'[m].seq > mailbox[a] /\ msg'[m].seq <= mailbox[a] + Cardinality(claimed)
                           /\ msg'[m].to = a
    BY <1>3, <1>5, <1>6, <1>7, <1>8
  <2>5. \A m \in Messages : msg'[m].seq # 0 => msg'[m].to \in Agents /\ msg'[m].seq <= mailbox'[msg'[m].to]
    <3> SUFFICES ASSUME NEW m \in Messages, msg'[m].seq # 0
                 PROVE  msg'[m].to \in Agents /\ msg'[m].seq <= mailbox'[msg'[m].to]
      OBVIOUS
    <3>1. CASE m \in claimed
      BY <1>2, <2>1, <2>4, <3>1
    <3>2. CASE m \notin claimed
      <4>1. msg[m].to \in Agents /\ msg[m].seq <= mailbox[msg[m].to] /\ msg'[m] = msg[m]
        BY <1>9, <2>2, <3>2
      <4>2. mailbox[msg[m].to] \in Nat /\ mailbox'[msg[m].to] >= mailbox[msg[m].to]
        BY <1>1, <1>5, <2>1, <4>1
      <4> QED BY <1>1, <1>5, <2>1, <2>3, <4>1, <4>2
    <3> QED BY <3>1, <3>2
  <2>6. ASSUME NEW m \in Messages, NEW n \in Messages, m # n, msg'[m].seq # 0, msg'[m].to = msg'[n].to
        PROVE  msg'[m].seq # msg'[n].seq
    <3>1. CASE m \in claimed /\ n \in claimed
      <4>1. Rank(m, claimed) # Rank(n, claimed) /\ Rank(m, claimed) \in Nat /\ Rank(n, claimed) \in Nat
        BY <1>6, <2>6, <3>1
      <4> QED BY <1>7, <1>8, <3>1, <4>1
    <3>2. CASE m \in claimed /\ n \notin claimed
      <4>1. msg'[n] = msg[n] /\ msg[n].to = a
        BY <1>9, <2>4, <2>6, <3>2
      <4> QED BY <1>7, <2>2, <2>3, <2>4, <3>2, <4>1
    <3>3. CASE m \notin claimed /\ n \in claimed
      <4>1. msg'[m] = msg[m] /\ msg[m].to = a
        BY <1>9, <2>4, <2>6, <3>3
      <4> QED BY <1>7, <2>2, <2>3, <2>4, <3>3, <4>1
    <3>4. CASE m \notin claimed /\ n \notin claimed
      BY <1>9, <2>6, <3>4 DEF MailInv, SeqUnique
    <3> QED BY <3>1, <3>2, <3>3, <3>4
  <2> QED BY <2>5, <2>6 DEF SeqUnique
<1>14. \A m \in Messages : msg'[m].to = msg[m].to /\ msg'[m].state = msg[m].state
  BY <1>8, <1>9
<1>15. MailInv'
  BY <1>10, <1>11, <1>12, <1>13 DEF MailInv
<1> QED BY <1>2, <1>3, <1>4, <1>8, <1>9, <1>14, <1>15 DEF a, claimed

-----------------------------------------------------------------------------
(* Theorems.                                                               *)

\* No message, no number, nothing in flight.
LEMMA InitInv == Init => MailInv
<1> SUFFICES ASSUME Init PROVE MailInv
  OBVIOUS
<1>1. msg \in [Messages -> MessageRow] /\ \A m \in Messages : msg[m].seq = 0
  BY NoMessageTyped DEF Init, NoMessage
<1>2. agent \in [Agents -> AgentRow]
  BY Bounds DEF Init, AgentRow
<1>3. call \in [Procs -> CallRow] /\ \A p \in Procs : call[p] = Idle
  BY IdleTyped DEF Init
<1>4. TypeOK
  BY <1>1, <1>2, <1>3, IdleTyped DEF Init, TypeOK
<1> QED BY <1>1, <1>3, <1>4, IdleTyped DEF MailInv, SeqUnique, CallsSound, AbsentClean

\* A step is ordinary, selects, or numbers; each preserves the invariant.
LEMMA InvStep == MailInv /\ [Next]_vars => MailInv'
<1> SUFFICES ASSUME MailInv, [Next]_vars PROVE MailInv'
  OBVIOUS
<1>1. CASE UNCHANGED vars
  <2>1. RowsKept /\ CallsKept /\ agent' \in [Agents -> AgentRow]
    BY <1>1, RowsUnchanged, CallsUnchanged DEF vars, MailInv, TypeOK
  <2> QED BY <2>1, KeptIsEnough
<1>2. CASE Next
  BY <1>2, OrdinaryStep, KeptIsEnough, SelectStep, ObserveStep DEF MailInv
<1> QED BY <1>1, <1>2

\* The invariant holds in every state.
THEOREM MailboxInvariant == Spec => []MailInv
BY InitInv, InvStep, PTL DEF Spec

\* Every reachable state is well typed.
THEOREM MailboxTyped == Spec => []TypeOK
BY MailboxInvariant, PTL DEF MailInv

\* No mailbox gives a number twice, and next_seq bounds what it gave.
THEOREM NumbersUnique == Spec => []SeqUnique
BY MailboxInvariant, PTL DEF MailInv

\* Mail nobody drained or resolved is deleted past the grace only, or with the
\* whole history of a name.
THEOREM MailKept == Spec => UndeliveredKept
<1> DEFINE Lost(m) == /\ msg'[m].state = "deleted" /\ ~ msg[m].resolved
                      /\ msg[m].reader = 0 /\ msg[m].age # "ancient"
           Whole(m) == \E n \in {msg[m].from, msg[m].to} :
                         \A k \in Stored : n \in {msg[k].from, msg[k].to} => msg'[k].state = "deleted"
<1>1. MailInv /\ [Next]_vars =>
        [\A m \in Stored :
           msg'[m].state = "deleted" /\ ~ msg[m].resolved /\ msg[m].reader = 0 /\ msg[m].age # "ancient"
             => \E n \in {msg[m].from, msg[m].to} :
                  \A k \in Stored : n \in {msg[k].from, msg[k].to} => msg'[k].state = "deleted"]_vars
  <2> SUFFICES ASSUME MailInv, Next, NEW m \in Stored, Lost(m) PROVE Whole(m)
    OBVIOUS
  <2>1. m \in Messages /\ msg[m] \in MessageRow /\ msg[m].state = "stored" /\ msg \in [Messages -> MessageRow]
    BY DEF Stored, MailInv, TypeOK
  <2>2. msg'[m].state # msg[m].state /\ ~ UNCHANGED msg
    BY <2>1
  <2>3. ASSUME NEW n \in Names, PurgeHistory(n) PROVE Whole(m)
    <3> DEFINE gone == {k \in Stored : n \in {msg[k].from, msg[k].to}}
    <3>1. msg' = [k \in Messages |-> IF k \in gone THEN Deleted(msg[k]) ELSE msg[k]]
      BY <2>3 DEF PurgeHistory
    <3>2. m \in gone
      BY <2>1, <2>2, <3>1
    <3>3. \A k \in gone : k \in Messages /\ msg'[k].state = "deleted"
      BY <3>1, DeletedTyped, <2>1 DEF Stored
    <3> QED BY <3>2, <3>3
  <2>4. ~ PurgeOldMessages
    <3> SUFFICES ASSUME PurgeOldMessages PROVE FALSE
      OBVIOUS
    <3> DEFINE gone == {k \in Stored : msg[k].age # "new" /\ ~ (Undelivered(k) /\ msg[k].age # "ancient")}
    <3>1. msg' = [k \in Messages |-> IF k \in gone THEN Deleted(msg[k]) ELSE msg[k]]
      BY DEF PurgeOldMessages
    <3>2. m \in gone
      BY <2>1, <2>2, <3>1
    <3> QED BY <3>2 DEF Undelivered
  <2>5. ASSUME NEW from, NEW to, NEW prio, SendMessage(from, to, prio) PROVE FALSE
    <3>1. m \notin Fresh(1)
      BY <2>1, FreshAbsent
    <3> QED BY <2>1, <2>2, <2>5, <3>1 DEF SendMessage
  <2>6. ASSUME NEW p \in Procs, NEW prio \in Priorities, FanOut(p, prio) PROVE FALSE
    <3>1. m \notin Fresh(Cardinality(call[p].names))
      BY <2>1, FreshAbsent
    <3> QED BY <2>1, <2>2, <2>6, <3>1 DEF FanOut
  <2>7. ASSUME NEW p \in Procs, DrainMark(p) PROVE FALSE
    <3>1. call[p].mode \in ReadMode /\ call[p].session \in Sessions
      BY DEF MailInv, TypeOK, CallRow
    <3> QED BY <2>1, <2>2, <2>7, <3>1, MarkedTyped DEF DrainMark
  <2>8. ASSUME NEW p \in Procs, DrainObserve(p) PROVE FALSE
    <3>2. msg'[m].state = msg[m].state
      BY <2>1, <2>8, ObserveStep
    <3> QED BY <2>2, <3>2
  <2>9. ASSUME NEW a \in Agents, NEW ids \in SUBSET Messages, ResolveMessages(a, ids) PROVE FALSE
    BY <2>1, <2>2, <2>9, TouchedTyped DEF ResolveMessages
  <2>10. ASSUME NEW k \in Messages, Ages(k) PROVE FALSE
    <3>1. PICK age \in {"new", "old", "ancient"} : msg' = [msg EXCEPT ![k] = [msg[k] EXCEPT !.age = age]]
      BY <2>10 DEF Ages
    <3> QED BY <2>1, <2>2, <3>1, TouchedTyped
  <2> QED
    BY <2>2, <2>3, <2>4, <2>5, <2>6, <2>7, <2>8, <2>9, <2>10
    DEF Next, NextUp, Call, FanOutCall, Continue, Sweep, Session, BroadcastRead, CapabilityRead, FanOutBound,
        DrainOpen, DrainSelect, Register, SessionEnd, Unregister, ProcessCrash
<1> QED BY <1>1, MailboxInvariant, PTL DEF Spec, UndeliveredKept

-----------------------------------------------------------------------------
(* Refinement.                                                             *)

\* The numbering implements the observation log: DrainObserve observes what it
\* claims, in one step, and every other step leaves the log as it was.
THEOREM MailboxImplementsLog == Spec => ImplementsLog
<1> DEFINE place == [m \in Messages |-> msg[m].seq]
           box == [m \in Messages |-> IF msg[m].seq = 0 THEN NoOne ELSE msg[m].to]
<1>1. Init => Log!Init
  BY DEF Init, NoMessage, Log!Init
<1>2. MailInv /\ [Next]_vars => [Log!Next]_<<place, box, mailbox>>
  <2> SUFFICES ASSUME MailInv, [Next]_vars PROVE [Log!Next]_<<place, box, mailbox>>
    OBVIOUS
  <2>1. ASSUME RowsKept, CallsKept, agent' \in [Agents -> AgentRow]
        PROVE  UNCHANGED <<place, box, mailbox>>
    <3>1. \A m \in Messages : /\ msg'[m].seq = msg[m].seq
                              /\ msg[m].seq # 0 => msg'[m].to = msg[m].to
      BY <2>1, KeptIsEnough
    <3>2. mailbox' = mailbox
      BY <2>1 DEF RowsKept
    <3> QED BY <3>1, <3>2
  <2>2. CASE UNCHANGED vars
    BY <2>1, <2>2 DEF vars
  <2>3. ASSUME NEW p \in Procs, DrainSelect(p) PROVE UNCHANGED <<place, box, mailbox>>
    BY <2>3, SelectStep
  <2>4. ASSUME NEW p \in Procs, DrainObserve(p) PROVE [Log!Next]_<<place, box, mailbox>>
    <3> DEFINE a == call[p].owner
               claimed == {m \in call[p].unseen : Claimable(m)}
    <3>1. /\ a \in Agents
          /\ claimed \in SUBSET Messages
          /\ \A m \in claimed : msg[m].seq = 0 /\ msg[m].to = a
          /\ \A m \in Messages : msg'[m].to = msg[m].to
          /\ \A m \in claimed : msg'[m].seq = mailbox[a] + Rank(m, claimed)
          /\ \A m \in Messages \ claimed : msg'[m] = msg[m]
          /\ mailbox' = [mailbox EXCEPT ![a] = @ + Cardinality(claimed)]
      BY <2>4, ObserveStep
    <3>2. mailbox \in [Agents -> Nat] /\ TypeOK
      BY DEF MailInv, TypeOK
    <3> HIDE DEF a, claimed
    <3>3. Cardinality(claimed) \in Nat /\ mailbox[a] \in Nat
      BY <3>1, <3>2, MessagesFinite
    <3>4. /\ \A m \in claimed : Rank(m, claimed) \in 1 .. Cardinality(claimed)
          /\ {Rank(m, claimed) : m \in claimed} = 1 .. Cardinality(claimed)
      BY <3>1, <3>2, RankOnto
    <3>5. CASE claimed = {}
      <4>1. Cardinality(claimed) = 0
        BY <3>5, FS_EmptySet
      <4>2. \A m \in Messages : msg'[m] = msg[m]
        BY <3>1, <3>5
      <4>3. mailbox' = mailbox
        BY <3>1, <3>2, <3>3, <4>1
      <4> QED BY <4>2, <4>3
    <3>6. CASE claimed # {}
      <4>1. \A m \in claimed : place[m] = 0 /\ place'[m] = mailbox[a] + Rank(m, claimed)
        BY <3>1
      <4>2. \A m \in Messages \ claimed : place'[m] = place[m]
        BY <3>1
      <4>3. box' = [m \in Messages |-> IF m \in claimed THEN a ELSE box[m]]
        <5>1. \A m \in claimed : msg'[m].seq # 0 /\ msg'[m].to = a
          BY <3>1, <3>3, <3>4
        <5>2. \A m \in Messages : (IF msg'[m].seq = 0 THEN NoOne ELSE msg'[m].to)
                                     = IF m \in claimed THEN a ELSE box[m]
          BY <3>1, <5>1
        <5> QED BY <5>2
      <4>4. {place'[m] : m \in claimed} = mailbox[a] + 1 .. mailbox[a] + Cardinality(claimed)
        <5>1. \A m \in claimed : place'[m] \in mailbox[a] + 1 .. mailbox[a] + Cardinality(claimed)
          <6>1. \A r \in 1 .. Cardinality(claimed) :
                  mailbox[a] + r \in mailbox[a] + 1 .. mailbox[a] + Cardinality(claimed)
            BY <3>3
          <6> HIDE DEF place
          <6> QED BY <3>4, <4>1, <6>1
        <5>2. ASSUME NEW n \in mailbox[a] + 1 .. mailbox[a] + Cardinality(claimed)
              PROVE  \E m \in claimed : place'[m] = n
          <6>1. n - mailbox[a] \in 1 .. Cardinality(claimed) /\ mailbox[a] + (n - mailbox[a]) = n
            BY <3>3
          <6>2. PICK m \in claimed : Rank(m, claimed) = n - mailbox[a]
            BY <3>4, <6>1
          <6> HIDE DEF place
          <6> QED BY <4>1, <6>1, <6>2
        <5> HIDE DEF place
        <5> QED BY <5>1, <5>2
      <4>5. DOMAIN place' = Messages
        OBVIOUS
      <4>6. \A m \in claimed : place[m] = 0
        BY <4>1
      <4>7. Log!Cardinality(claimed) = Cardinality(claimed)
        BY DEF Log!Cardinality, Cardinality
      <4>8. PICK b \in Agents, S \in SUBSET Messages : b = a /\ S = claimed
        BY <3>1
      <4>9. Log!Observe(b, S)
        BY <3>1, <3>6, <4>2, <4>3, <4>4, <4>5, <4>6, <4>7, <4>8 DEF Log!Observe
      <4>10. Log!Next
        BY <4>9 DEF Log!Next
      <4> QED BY <4>10
    <3> QED BY <3>5, <3>6
  <2>5. CASE Next
    BY <2>1, <2>3, <2>4, <2>5, OrdinaryStep DEF MailInv
  <2> QED BY <2>2, <2>5
<1> QED BY <1>1, <1>2, MailboxInvariant, PTL DEF Spec, ImplementsLog, Log!Spec, Log!vars

-----------------------------------------------------------------------------
(* Bindings.  Every write of the table extends its history: a row keeps its    *)
(* process and its version, one that has given way never changes again, and    *)
(* one that gives way does so to a row of the same process (Extends).  A hook  *)
(* in flight is of the process behind its pid, or of one that is gone, as is   *)
(* the legacy token it read (HooksAnchored): so a migration moves rows of its  *)
(* own process only, and leaves none in the old form behind.                   *)

Migration == "start-token-migration"

Table(rows, n) == n \in Nat /\ rows \in [1 .. n -> BindingRow]

\* A row gives way to a row of its process, one version up unless it is migrated.
Chain(rows) ==
  \A i \in DOMAIN rows : rows[i].by # NoBinding =>
    /\ rows[i].by \in DOMAIN rows
    /\ rows[rows[i].by].pid = rows[i].pid /\ rows[rows[i].by].start.boot = rows[i].start.boot
    /\ rows[i].reason # Migration => rows[rows[i].by].version = rows[i].version + 1

\* The table s of k rows follows r of n rows.
Extends(r, n, s, k) ==
  /\ Table(r, n) /\ Table(s, k) /\ n <= k
  /\ \A i \in 1 .. n :
       /\ s[i].pid = r[i].pid /\ s[i].start.boot = r[i].start.boot /\ s[i].version = r[i].version
       /\ r[i].by # NoBinding => s[i].by = r[i].by /\ s[i].reason = r[i].reason
       /\ r[i].by = NoBinding /\ s[i].by # NoBinding =>
            /\ s[i].by \in 1 .. k
            /\ s[s[i].by].pid = r[i].pid /\ s[s[i].by].start.boot = r[i].start.boot
            /\ s[i].reason # Migration => s[s[i].by].version = r[i].version + 1
  /\ \A i \in 1 .. k : i > n => s[i].by = NoBinding

InFlightStages == {"anchored", "ready", "reading"}

HooksAnchored ==
  \A b \in Binders : binder[b].stage \in InFlightStages =>
    /\ boot[binder[b].pid] \in {0, binder[b].start}
    /\ binder[b].legacy \in {0, binder[b].start}

BindInv ==
  /\ boot \in [WindowPids -> 0 .. MaxBoots] /\ boots \in [WindowPids -> 0 .. MaxBoots]
  /\ binder \in [Binders -> Binder]
  /\ \E n \in Nat : Table(bindings, n)
  /\ AnchorIndex(bindings) /\ Chain(bindings) /\ HooksAnchored

-----------------------------------------------------------------------------
LEMMA BindFacts == MaxBoots \in Nat \ {0} /\ MaxAttempts \in Nat \ {0}
BY BindBounds

LEMMA TableSize ==
  ASSUME NEW rows, NEW n, Table(rows, n)
  PROVE  n \in Nat /\ DOMAIN rows = 1 .. n /\ Cardinality(DOMAIN rows) = n
<1>1. n \in Nat /\ DOMAIN rows = 1 .. n
  BY DEF Table
<1>2. Cardinality(1 .. n) = IF 1 > n THEN 0 ELSE n - 1 + 1
  BY <1>1, FS_Interval
<1>3. CASE n = 0
  BY <1>1, <1>2, <1>3
<1>4. CASE n # 0
  BY <1>1, <1>2, <1>4
<1> QED BY <1>3, <1>4

LEMMA RowFields ==
  ASSUME NEW r \in BindingRow
  PROVE  /\ r.pid \in WindowPids /\ r.start \in Tokens /\ r.conv \in Conversations /\ r.version \in Nat
         /\ r.by \in Nat /\ r.reason \in Reasons /\ r.ended \in BOOLEAN
         /\ r.start.form \in Forms /\ r.start.boot \in 1 .. MaxBoots
BY DEF BindingRow, Tokens

LEMMA TableRow ==
  ASSUME NEW rows, NEW n, Table(rows, n), NEW i \in 1 .. n
  PROVE  rows[i] \in BindingRow
BY DEF Table

LEMMA TokenParts ==
  ASSUME NEW k \in 1 .. MaxBoots
  PROVE  /\ Utc(k) \in Tokens /\ Utc(k).boot = k /\ Utc(k).form = "utc"
         /\ Legacy(k) \in Tokens /\ Legacy(k).boot = k /\ Legacy(k).form = "legacy"
BY DEF Utc, Legacy, Tokens, Forms

LEMMA TokensEqual ==
  ASSUME NEW t \in Tokens, NEW k \in 1 .. MaxBoots, t.boot = k
  PROVE  t = Utc(k) \/ t = Legacy(k)
<1>1. t = [form |-> t.form, boot |-> t.boot] /\ t.form \in {"utc", "legacy"}
  BY DEF Tokens, Forms
<1>2. CASE t.form = "utc"
  BY <1>1, <1>2 DEF Utc
<1>3. CASE t.form = "legacy"
  BY <1>1, <1>3 DEF Legacy
<1> QED BY <1>1, <1>2, <1>3

\* A history that goes on from a chain is a chain.
LEMMA ChainGrows ==
  ASSUME NEW r, NEW n, NEW s, NEW k, Extends(r, n, s, k), Chain(r)
  PROVE  Chain(s)
<1>1. n \in Nat /\ k \in Nat /\ n <= k /\ DOMAIN r = 1 .. n /\ DOMAIN s = 1 .. k
  BY TableSize DEF Extends
<1>2. SUFFICES ASSUME NEW i \in 1 .. k, s[i].by # NoBinding
               PROVE  /\ s[i].by \in 1 .. k
                      /\ s[s[i].by].pid = s[i].pid /\ s[s[i].by].start.boot = s[i].start.boot
                      /\ s[i].reason # Migration => s[s[i].by].version = s[i].version + 1
  BY <1>1 DEF Chain
<1>3. i \in 1 .. n
  BY <1>1, <1>2 DEF Extends
<1>4. s[i].pid = r[i].pid /\ s[i].start.boot = r[i].start.boot /\ s[i].version = r[i].version
  BY <1>3 DEF Extends
<1>5. CASE r[i].by = NoBinding
  BY <1>2, <1>3, <1>4, <1>5 DEF Extends
<1>6. CASE r[i].by # NoBinding
  <2>1. s[i].by = r[i].by /\ s[i].reason = r[i].reason
    BY <1>3, <1>6 DEF Extends
  <2>2. /\ r[i].by \in 1 .. n
        /\ r[r[i].by].pid = r[i].pid /\ r[r[i].by].start.boot = r[i].start.boot
        /\ r[i].reason # Migration => r[r[i].by].version = r[i].version + 1
    BY <1>1, <1>3, <1>6 DEF Chain
  <2>3. PICK j \in 1 .. n : j = r[i].by
    BY <2>2
  <2>4. s[j].pid = r[j].pid /\ s[j].start.boot = r[j].start.boot /\ s[j].version = r[j].version
    BY <2>3 DEF Extends
  <2>5. j \in 1 .. k
    BY <1>1, <2>3
  <2> QED BY <1>4, <2>1, <2>2, <2>3, <2>4, <2>5
<1> QED BY <1>5, <1>6

-----------------------------------------------------------------------------
(* The migration.                                                          *)

LEMMA CurrentRows ==
  ASSUME NEW rows, NEW n, Table(rows, n), NEW pid, NEW tok, NEW i
  PROVE  i \in Current(rows, pid, tok) <=>
           i \in 1 .. n /\ rows[i].pid = pid /\ rows[i].start = tok /\ rows[i].by = NoBinding
BY TableSize DEF Current

\* What the migration makes of a row: nothing, a row in the new form, or one that gives way to
\* a row of its process that is in the new form.
LEMMA MigratedRow ==
  ASSUME NEW rows, NEW n, Table(rows, n), NEW b \in Binder, b.legacy \in {0, b.start}, NEW i \in 1 .. n
  PROVE  LET m == Migrated(rows, b) IN
         /\ m[i] \in BindingRow
         /\ \/ m[i] = rows[i] /\ ~(b.legacy # 0 /\ i \in Current(rows, b.pid, Legacy(b.start)))
            \/ /\ i \in Current(rows, b.pid, Legacy(b.start)) /\ b.legacy # 0
               /\ m[i].pid = rows[i].pid /\ m[i].version = rows[i].version
               /\ \/ m[i].by = NoBinding /\ m[i].start = Utc(b.start)
                  \/ /\ m[i].by \in Current(rows, b.pid, Utc(b.start)) /\ m[i].reason = Migration
                     /\ m[i].start = rows[i].start
<1> DEFINE old == IF b.legacy = 0 THEN {} ELSE Current(rows, b.pid, Legacy(b.legacy))
           utc == Current(rows, b.pid, Utc(b.start))
<1>0. b.start \in 1 .. MaxBoots /\ b.legacy \in 0 .. MaxBoots
  BY DEF Binder
<1>1. rows[i] \in BindingRow /\ DOMAIN rows = 1 .. n
  BY TableRow, TableSize
<1>2. i \in old <=> b.legacy # 0 /\ i \in Current(rows, b.pid, Legacy(b.start))
  OBVIOUS
<1>3. Migrated(rows, b)[i] =
        IF i \notin old THEN rows[i]
        ELSE IF utc = {} THEN [rows[i] EXCEPT !.start = Utc(b.start)]
        ELSE [rows[i] EXCEPT !.by = CHOOSE u \in utc : TRUE, !.reason = "start-token-migration"]
  BY <1>1 DEF Migrated
<1>4. CASE i \notin old
  BY <1>1, <1>2, <1>3, <1>4
<1>5. CASE i \in old /\ utc = {}
  <2>1. PICK t : t = Utc(b.start)
    OBVIOUS
  <2>2. PICK c : c = [rows[i] EXCEPT !.start = t]
    OBVIOUS
  <2>3. Migrated(rows, b)[i] = c
    BY <1>3, <1>5, <2>1, <2>2
  <2>4. t \in Tokens
    BY <1>0, <2>1, TokenParts
  <2>5. c \in BindingRow /\ c.pid = rows[i].pid /\ c.version = rows[i].version /\ c.by = rows[i].by
        /\ c.start = t
    BY <1>1, <2>2, <2>4 DEF BindingRow
  <2>6. rows[i].by = NoBinding
    BY <1>2, <1>5, CurrentRows
  <2> QED BY <1>2, <1>5, <2>1, <2>3, <2>5, <2>6
<1>6. CASE i \in old /\ utc # {}
  <2>1. PICK u : u = CHOOSE x \in utc : TRUE
    OBVIOUS
  <2>2. u \in utc
    BY <1>6, <2>1
  <2>3. u \in Nat
    <3>1. u \in 1 .. n
      BY <2>2, CurrentRows
    <3> QED BY <3>1
  <2>4. PICK c : c = [rows[i] EXCEPT !.by = u, !.reason = "start-token-migration"]
    OBVIOUS
  <2>5. Migrated(rows, b)[i] = c
    BY <1>3, <1>6, <2>1, <2>4
  <2>6. "start-token-migration" \in Reasons
    BY DEF Reasons
  <2>7. c \in BindingRow /\ c.pid = rows[i].pid /\ c.version = rows[i].version /\ c.by = u
        /\ c.start = rows[i].start /\ c.reason = "start-token-migration"
    BY <1>1, <2>3, <2>4, <2>6 DEF BindingRow
  <2> QED BY <1>2, <1>6, <2>2, <2>5, <2>7 DEF Migration
<1> QED BY <1>4, <1>5, <1>6

LEMMA MigratedExtends ==
  ASSUME NEW rows, NEW n, Table(rows, n), NEW b \in Binder, b.legacy \in {0, b.start}
  PROVE  Extends(rows, n, Migrated(rows, b), n)
<1>1. PICK m : m = Migrated(rows, b)
  OBVIOUS
<1>2. DOMAIN rows = 1 .. n /\ n \in Nat
  BY TableSize
<1>3. DOMAIN m = 1 .. n /\ m = [i \in 1 .. n |-> m[i]]
  BY <1>1, <1>2 DEF Migrated
<1>4. \A i \in 1 .. n : m[i] \in BindingRow
  BY <1>1, MigratedRow
<1>5. Table(m, n)
  BY <1>2, <1>3, <1>4 DEF Table
<1>6. b.start \in 1 .. MaxBoots
  BY DEF Binder
<1>7. ASSUME NEW i \in 1 .. n
      PROVE  m[i].pid = rows[i].pid /\ m[i].start.boot = rows[i].start.boot /\ m[i].version = rows[i].version
  <2>1. CASE m[i] = rows[i]
    BY <2>1
  <2>2. CASE m[i] # rows[i]
    <3>1. i \in Current(rows, b.pid, Legacy(b.start)) /\ m[i].pid = rows[i].pid /\ m[i].version = rows[i].version
          /\ (m[i].start = Utc(b.start) \/ m[i].start = rows[i].start)
      BY <1>1, <2>2, MigratedRow
    <3>2. rows[i].start = Legacy(b.start)
      BY <3>1, CurrentRows
    <3>3. rows[i].start.boot = Utc(b.start).boot
      BY <1>6, <3>2, TokenParts
    <3> QED BY <3>1, <3>3
  <2> QED BY <2>1, <2>2
<1>8. ASSUME NEW i \in 1 .. n, rows[i].by # NoBinding
      PROVE  m[i].by = rows[i].by /\ m[i].reason = rows[i].reason
  <2>1. i \notin Current(rows, b.pid, Legacy(b.start))
    BY <1>8, CurrentRows
  <2>2. m[i] = rows[i]
    BY <1>1, <2>1, MigratedRow
  <2> QED BY <2>2
<1>9. ASSUME NEW i \in 1 .. n, rows[i].by = NoBinding, m[i].by # NoBinding
      PROVE  /\ m[i].by \in 1 .. n
             /\ m[m[i].by].pid = rows[i].pid /\ m[m[i].by].start.boot = rows[i].start.boot
             /\ m[i].reason = Migration
  <2>1. /\ i \in Current(rows, b.pid, Legacy(b.start)) /\ m[i].reason = Migration
        /\ m[i].by \in Current(rows, b.pid, Utc(b.start))
    BY <1>1, <1>9, MigratedRow
  <2>2. PICK u : u = m[i].by
    OBVIOUS
  <2>3. u \in 1 .. n /\ rows[u].pid = b.pid /\ rows[u].start = Utc(b.start)
    BY <2>1, <2>2, CurrentRows
  <2>4. rows[i].pid = b.pid /\ rows[i].start = Legacy(b.start)
    BY <2>1, CurrentRows
  <2>5. rows[u].start.boot = rows[i].start.boot
    BY <1>6, <2>3, <2>4, TokenParts
  <2>6. m[u].pid = rows[u].pid /\ m[u].start.boot = rows[u].start.boot
    BY <1>7, <2>3
  <2> QED BY <2>1, <2>2, <2>3, <2>4, <2>5, <2>6
<1>10. \A i \in 1 .. n : ~(i > n)
  BY <1>2
<1> QED BY <1>1, <1>2, <1>5, <1>7, <1>8, <1>9, <1>10 DEF Extends

\* After it every current row of the hook's process is in the new form.
LEMMA MigratedClean ==
  ASSUME NEW rows, NEW n, Table(rows, n), NEW b \in Binder, b.legacy \in {0, b.start},
         ~Undecidable(rows, b), NEW i \in 1 .. n, Migrated(rows, b)[i].pid = b.pid,
         Migrated(rows, b)[i].by = NoBinding, Migrated(rows, b)[i].start.boot = b.start
  PROVE  Migrated(rows, b)[i].start = Utc(b.start)
<1>0. b.start \in 1 .. MaxBoots
  BY DEF Binder
<1>1. PICK m : m = Migrated(rows, b)
  OBVIOUS
<1>2. m[i] \in BindingRow
  BY <1>1, MigratedRow
<1>3. m[i].start \in Tokens
  BY <1>2, RowFields
<1>4. CASE m[i] # rows[i]
  <2>1. \/ m[i].by = NoBinding /\ m[i].start = Utc(b.start)
        \/ m[i].by \in Current(rows, b.pid, Utc(b.start))
    BY <1>1, <1>4, MigratedRow
  <2>2. m[i].by = NoBinding => m[i].by \notin Current(rows, b.pid, Utc(b.start))
    BY CurrentRows, TableSize DEF NoBinding
  <2> QED BY <1>1, <2>1, <2>2
<1>5. CASE m[i] = rows[i]
  <2>1. SUFFICES ASSUME m[i].start = Legacy(b.start) PROVE FALSE
    BY <1>0, <1>1, <1>3, TokensEqual
  <2>2. i \in Current(rows, b.pid, Legacy(b.start))
    BY <1>1, <1>5, <2>1, CurrentRows
  <2>3. b.legacy = 0
    <3>1. SUFFICES ASSUME b.legacy # 0 PROVE FALSE
      OBVIOUS
    <3>2. \/ m[i].by = NoBinding /\ m[i].start = Utc(b.start)
          \/ m[i].by \in Current(rows, b.pid, Utc(b.start))
      BY <1>1, <2>2, <3>1, MigratedRow
    <3>3. m[i].by \notin Current(rows, b.pid, Utc(b.start))
      BY <1>1, CurrentRows, TableSize DEF NoBinding
    <3>4. Utc(b.start) # Legacy(b.start)
      BY DEF Utc, Legacy
    <3> QED BY <2>1, <3>2, <3>3, <3>4
  <2>4. rows[i].start.form = "legacy"
    BY <1>0, <1>5, <2>1, TokenParts
  <2>5. Undecidable(rows, b)
    BY <1>1, <1>5, <2>3, <2>4, TableSize DEF Undecidable
  <2> QED BY <2>5
<1> QED BY <1>4, <1>5

-----------------------------------------------------------------------------
(* The upsert.                                                             *)

LEMMA AnchorRows ==
  ASSUME NEW rows, NEW n, Table(rows, n), AnchorIndex(rows), NEW i \in 1 .. n, NEW j \in 1 .. n,
         rows[i].by = NoBinding, rows[j].by = NoBinding, rows[i].pid = rows[j].pid,
         rows[i].start = rows[j].start
  PROVE  i = j
BY TableSize DEF AnchorIndex

\* The three forms of the table an upsert leaves.
LEMMA UpsertForms ==
  ASSUME NEW rows, NEW n, Table(rows, n), NEW pid \in WindowPids, NEW tok \in Tokens,
         NEW conv \in Conversations
  PROVE  LET u == Upserted(rows, pid, tok, conv) IN
         \/ /\ Current(rows, pid, tok) = {} /\ Table(u, n + 1)
            /\ \A i \in 1 .. n : u[i] = rows[i]
            /\ u[n + 1] = NewRow(pid, tok, conv, 1)
         \/ /\ u = rows
            /\ \E c \in Current(rows, pid, tok) : rows[c].conv = conv
         \/ \E c \in Current(rows, pid, tok) :
              /\ Table(u, n + 1)
              /\ \A i \in (1 .. n) \ {c} : u[i] = rows[i]
              /\ u[c].pid = rows[c].pid /\ u[c].start = rows[c].start /\ u[c].version = rows[c].version
              /\ u[c].by = n + 1 /\ u[c].reason = "switch"
              /\ u[n + 1] = NewRow(pid, tok, conv, rows[c].version + 1)
<1>1. n \in Nat /\ DOMAIN rows = 1 .. n /\ Cardinality(DOMAIN rows) = n
  BY TableSize
<1>2. PICK u : u = Upserted(rows, pid, tok, conv)
  OBVIOUS
<1>3. PICK cur, c, k : cur = Current(rows, pid, tok) /\ c = (CHOOSE i \in cur : TRUE) /\ k = n + 1
  OBVIOUS
<1>4. u = IF cur = {} THEN [i \in 1 .. k |-> IF i = k THEN NewRow(pid, tok, conv, 1) ELSE rows[i]]
          ELSE IF rows[c].conv = conv THEN rows
          ELSE [i \in 1 .. k |->
                  IF i = k THEN NewRow(pid, tok, conv, rows[c].version + 1)
                  ELSE IF i = c THEN [rows[i] EXCEPT !.by = k, !.reason = "switch"]
                  ELSE rows[i]]
  BY <1>1, <1>2, <1>3 DEF Upserted
<1>5. /\ k \in Nat /\ 1 .. n \subseteq 1 .. k /\ k \in 1 .. k /\ k \notin 1 .. n
      /\ \A i \in 1 .. k : i # k => i \in 1 .. n
  BY <1>1, <1>3
<1>6. ASSUME NEW v \in Nat PROVE NewRow(pid, tok, conv, v) \in BindingRow
  BY DEF NewRow, BindingRow, NoBinding, Reasons
<1>7. CASE cur = {}
  <2>1. u = [i \in 1 .. k |-> IF i = k THEN NewRow(pid, tok, conv, 1) ELSE rows[i]]
    BY <1>4, <1>7
  <2>2. \A i \in 1 .. n : u[i] = rows[i]
    BY <1>5, <2>1
  <2>3. u[k] = NewRow(pid, tok, conv, 1)
    BY <1>5, <2>1
  <2>4. NewRow(pid, tok, conv, 1) \in BindingRow
    BY <1>6
  <2>5. \A i \in 1 .. k : u[i] \in BindingRow
    BY <1>5, <2>2, <2>3, <2>4, TableRow
  <2>6. u \in [1 .. k -> BindingRow]
    BY <2>1, <2>5
  <2> QED BY <1>2, <1>3, <1>5, <1>7, <2>2, <2>3, <2>6 DEF Table
<1>8. CASE cur # {}
  <2>1. c \in cur
    BY <1>3, <1>8
  <2>2. c \in 1 .. n /\ rows[c] \in BindingRow
    BY <1>3, <2>1, CurrentRows, TableRow
  <2>3. CASE rows[c].conv = conv
    BY <1>2, <1>3, <1>4, <1>8, <2>1, <2>3
  <2>4. CASE rows[c].conv # conv
    <3>1. PICK d : d = [rows[c] EXCEPT !.by = k, !.reason = "switch"]
      OBVIOUS
    <3>2. u = [i \in 1 .. k |-> IF i = k THEN NewRow(pid, tok, conv, rows[c].version + 1)
                                ELSE IF i = c THEN [rows[i] EXCEPT !.by = k, !.reason = "switch"]
                                ELSE rows[i]]
      BY <1>4, <1>8, <2>4
    <3>3. u[c] = d /\ u[k] = NewRow(pid, tok, conv, rows[c].version + 1)
      BY <1>5, <2>2, <3>1, <3>2
    <3>4. \A i \in (1 .. n) \ {c} : u[i] = rows[i]
      BY <1>5, <3>2
    <3>5. "switch" \in Reasons
      BY DEF Reasons
    <3>6. d \in BindingRow /\ d.pid = rows[c].pid /\ d.start = rows[c].start /\ d.version = rows[c].version
          /\ d.by = k /\ d.reason = "switch"
      BY <1>5, <2>2, <3>1, <3>5 DEF BindingRow
    <3>7. NewRow(pid, tok, conv, rows[c].version + 1) \in BindingRow
      <4>1. rows[c].version + 1 \in Nat
        BY <2>2, RowFields
      <4> QED BY <1>6, <4>1
    <3>8. \A i \in 1 .. k : u[i] \in BindingRow
      BY <1>5, <3>3, <3>4, <3>6, <3>7, TableRow
    <3>9. u \in [1 .. k -> BindingRow]
      BY <3>2, <3>8
    <3>10. Table(u, k)
      BY <1>5, <3>9 DEF Table
    <3> QED BY <1>2, <1>3, <2>1, <3>3, <3>4, <3>6, <3>10
  <2> QED BY <2>3, <2>4
<1> QED BY <1>7, <1>8

LEMMA NewRowFields ==
  ASSUME NEW pid, NEW tok, NEW conv, NEW v
  PROVE  LET r == NewRow(pid, tok, conv, v) IN
         r.pid = pid /\ r.start = tok /\ r.conv = conv /\ r.version = v /\ r.by = NoBinding
BY DEF NewRow

\* The upsert goes on from the table, and leaves the anchor one current row, on the conversation.
LEMMA UpsertedExtends ==
  ASSUME NEW rows, NEW n, Table(rows, n), NEW pid \in WindowPids, NEW tok \in Tokens,
         NEW conv \in Conversations
  PROVE  LET u == Upserted(rows, pid, tok, conv) IN
         \E k \in {n, n + 1} :
           /\ Extends(rows, n, u, k)
           /\ \A i \in 1 .. n : u[i].start = rows[i].start
           /\ \A i \in 1 .. k : i > n => u[i].pid = pid /\ u[i].start = tok
           /\ \E i \in 1 .. k : /\ u[i].pid = pid /\ u[i].start = tok /\ u[i].by = NoBinding
                                /\ u[i].conv = conv
<1>1. PICK u : u = Upserted(rows, pid, tok, conv)
  OBVIOUS
<1>2. n \in Nat /\ NoBinding = 0
  BY DEF Table, NoBinding
<1>3. /\ \A i \in 1 .. n : i \in 1 .. n + 1
      /\ n + 1 \in 1 .. n + 1 /\ n + 1 > n /\ n <= n + 1 /\ n + 1 # NoBinding /\ n <= n
      /\ \A i \in 1 .. n + 1 : i > n => i = n + 1
      /\ \A i \in 1 .. n : ~(i > n)
  BY <1>2
<1>4. CASE /\ Current(rows, pid, tok) = {} /\ Table(u, n + 1)
           /\ \A i \in 1 .. n : u[i] = rows[i]
           /\ u[n + 1] = NewRow(pid, tok, conv, 1)
  <2>1. u[n + 1].pid = pid /\ u[n + 1].start = tok /\ u[n + 1].conv = conv /\ u[n + 1].by = NoBinding
    BY <1>4, NewRowFields
  <2>2. Extends(rows, n, u, n + 1)
    BY <1>3, <1>4, <2>1 DEF Extends
  <2> QED BY <1>1, <1>3, <1>4, <2>1, <2>2
<1>5. CASE u = rows /\ \E c \in Current(rows, pid, tok) : rows[c].conv = conv
  <2>1. PICK c \in Current(rows, pid, tok) : rows[c].conv = conv
    BY <1>5
  <2>2. c \in 1 .. n /\ rows[c].pid = pid /\ rows[c].start = tok /\ rows[c].by = NoBinding
    BY <2>1, CurrentRows
  <2>3. Extends(rows, n, u, n)
    BY <1>3, <1>5 DEF Extends
  <2> QED BY <1>1, <1>3, <1>5, <2>1, <2>2, <2>3
<1>6. CASE \E c \in Current(rows, pid, tok) :
              /\ Table(u, n + 1)
              /\ \A i \in (1 .. n) \ {c} : u[i] = rows[i]
              /\ u[c].pid = rows[c].pid /\ u[c].start = rows[c].start /\ u[c].version = rows[c].version
              /\ u[c].by = n + 1 /\ u[c].reason = "switch"
              /\ u[n + 1] = NewRow(pid, tok, conv, rows[c].version + 1)
  <2>1. PICK c \in Current(rows, pid, tok) :
              /\ Table(u, n + 1)
              /\ \A i \in (1 .. n) \ {c} : u[i] = rows[i]
              /\ u[c].pid = rows[c].pid /\ u[c].start = rows[c].start /\ u[c].version = rows[c].version
              /\ u[c].by = n + 1 /\ u[c].reason = "switch"
              /\ u[n + 1] = NewRow(pid, tok, conv, rows[c].version + 1)
    BY <1>6
  <2>2. c \in 1 .. n /\ rows[c].pid = pid /\ rows[c].start = tok /\ rows[c].by = NoBinding
    BY <2>1, CurrentRows
  <2>3. u[n + 1].pid = pid /\ u[n + 1].start = tok /\ u[n + 1].conv = conv /\ u[n + 1].by = NoBinding
        /\ u[n + 1].version = rows[c].version + 1
    BY <2>1, NewRowFields
  <2>4. \A i \in 1 .. n : u[i].pid = rows[i].pid /\ u[i].start = rows[i].start /\ u[i].version = rows[i].version
    BY <2>1
  <2>5. ASSUME NEW i \in 1 .. n, rows[i].by # NoBinding
        PROVE  u[i].by = rows[i].by /\ u[i].reason = rows[i].reason
    BY <2>1, <2>2, <2>5
  <2>6. ASSUME NEW i \in 1 .. n, rows[i].by = NoBinding, u[i].by # NoBinding
        PROVE  /\ u[i].by \in 1 .. n + 1
               /\ u[u[i].by].pid = rows[i].pid /\ u[u[i].by].start.boot = rows[i].start.boot
               /\ u[u[i].by].version = rows[i].version + 1
    <3>1. i = c
      BY <2>1, <2>6
    <3>2. u[i].by = n + 1
      BY <2>1, <3>1
    <3> QED BY <1>3, <2>2, <2>3, <3>1, <3>2
  <2>7. Extends(rows, n, u, n + 1)
    BY <1>3, <2>1, <2>3, <2>4, <2>5, <2>6 DEF Extends
  <2> QED BY <1>1, <1>3, <2>3, <2>4, <2>7
<1> QED BY <1>1, <1>4, <1>5, <1>6, UpsertForms

\* The upsert leaves one current row at every anchor that had one.
LEMMA UpsertedAnchors ==
  ASSUME NEW rows, NEW n, Table(rows, n), AnchorIndex(rows), NEW pid \in WindowPids, NEW tok \in Tokens,
         NEW conv \in Conversations
  PROVE  AnchorIndex(Upserted(rows, pid, tok, conv))
<1>1. PICK u : u = Upserted(rows, pid, tok, conv)
  OBVIOUS
<1>2. n \in Nat /\ n + 1 # NoBinding
  BY DEF Table, NoBinding
<1>3. CASE /\ Current(rows, pid, tok) = {} /\ Table(u, n + 1)
           /\ \A i \in 1 .. n : u[i] = rows[i]
           /\ u[n + 1] = NewRow(pid, tok, conv, 1)
  <2>1. u[n + 1].pid = pid /\ u[n + 1].start = tok
    BY <1>3, NewRowFields
  <2>2. ASSUME NEW i \in 1 .. n, u[i].by = NoBinding PROVE ~(u[i].pid = pid /\ u[i].start = tok)
    BY <1>3, <2>2, CurrentRows
  <2>3. \A i \in 1 .. n + 1 : i = n + 1 \/ i \in 1 .. n
    BY <1>2
  <2>4. ASSUME NEW i \in 1 .. n + 1, NEW j \in 1 .. n + 1, i # j, u[i].by = NoBinding, u[j].by = NoBinding
        PROVE  u[i].pid # u[j].pid \/ u[i].start # u[j].start
    <3>1. CASE i \in 1 .. n /\ j \in 1 .. n
      BY <1>3, <2>4, <3>1, AnchorRows
    <3>2. CASE i = n + 1
      <4>1. j \in 1 .. n
        BY <2>3, <2>4, <3>2
      <4> QED BY <2>1, <2>2, <2>4, <3>2, <4>1
    <3>3. CASE j = n + 1
      <4>1. i \in 1 .. n
        BY <2>3, <2>4, <3>3
      <4> QED BY <2>1, <2>2, <2>4, <3>3, <4>1
    <3> QED BY <2>3, <3>1, <3>2, <3>3
  <2> QED BY <1>1, <1>3, <2>4, TableSize DEF AnchorIndex
<1>4. CASE u = rows
  BY <1>1, <1>4
<1>5. CASE \E c \in Current(rows, pid, tok) :
              /\ Table(u, n + 1)
              /\ \A i \in (1 .. n) \ {c} : u[i] = rows[i]
              /\ u[c].pid = rows[c].pid /\ u[c].start = rows[c].start /\ u[c].version = rows[c].version
              /\ u[c].by = n + 1 /\ u[c].reason = "switch"
              /\ u[n + 1] = NewRow(pid, tok, conv, rows[c].version + 1)
  <2>0. PICK c \in Current(rows, pid, tok) :
              /\ Table(u, n + 1)
              /\ \A i \in (1 .. n) \ {c} : u[i] = rows[i]
              /\ u[c].by = n + 1
              /\ u[n + 1] = NewRow(pid, tok, conv, rows[c].version + 1)
    BY <1>5
  <2>1. u[n + 1].pid = pid /\ u[n + 1].start = tok
    BY <2>0, NewRowFields
  <2>2. c \in 1 .. n /\ rows[c].pid = pid /\ rows[c].start = tok /\ rows[c].by = NoBinding
    BY <2>0, CurrentRows
  <2>3. ASSUME NEW i \in 1 .. n, u[i].by = NoBinding
        PROVE  i # c /\ u[i] = rows[i] /\ ~(u[i].pid = pid /\ u[i].start = tok)
    <3>1. i # c
      BY <1>2, <2>0, <2>3
    <3>2. u[i] = rows[i]
      BY <2>0, <3>1
    <3> QED BY <2>2, <2>3, <3>1, <3>2, AnchorRows
  <2>4. \A i \in 1 .. n + 1 : i = n + 1 \/ i \in 1 .. n
    BY <1>2
  <2>5. ASSUME NEW i \in 1 .. n + 1, NEW j \in 1 .. n + 1, i # j, u[i].by = NoBinding, u[j].by = NoBinding
        PROVE  u[i].pid # u[j].pid \/ u[i].start # u[j].start
    <3>1. CASE i \in 1 .. n /\ j \in 1 .. n
      BY <2>3, <2>5, <3>1, AnchorRows
    <3>2. CASE i = n + 1
      <4>1. j \in 1 .. n
        BY <2>4, <2>5, <3>2
      <4> QED BY <2>1, <2>3, <2>5, <3>2, <4>1
    <3>3. CASE j = n + 1
      <4>1. i \in 1 .. n
        BY <2>4, <2>5, <3>3
      <4> QED BY <2>1, <2>3, <2>5, <3>3, <4>1
    <3> QED BY <2>4, <3>1, <3>2, <3>3
  <2> QED BY <1>1, <2>0, <2>5, TableSize DEF AnchorIndex
<1> QED BY <1>1, <1>3, <1>4, <1>5, UpsertForms

-----------------------------------------------------------------------------
(* The transaction of a hook.                                              *)

LEMMA EndedExtends ==
  ASSUME NEW rows, NEW n, Table(rows, n), NEW b
  PROVE  Extends(rows, n, Ended(rows, b), n)
<1>1. PICK e : e = Ended(rows, b)
  OBVIOUS
<1>2. n \in Nat /\ DOMAIN rows = 1 .. n
  BY TableSize
<1>3. ASSUME NEW i \in 1 .. n
      PROVE  /\ e[i] \in BindingRow
             /\ e[i].pid = rows[i].pid /\ e[i].start = rows[i].start /\ e[i].version = rows[i].version
             /\ e[i].by = rows[i].by /\ e[i].reason = rows[i].reason
  <2>1. rows[i] \in BindingRow
    BY TableRow
  <2>2. e[i] = rows[i] \/ e[i] = [rows[i] EXCEPT !.ended = TRUE]
    BY <1>1, <1>2 DEF Ended
  <2>3. CASE e[i] = rows[i]
    BY <2>1, <2>3
  <2>4. CASE e[i] = [rows[i] EXCEPT !.ended = TRUE]
    BY <2>1, <2>4 DEF BindingRow
  <2> QED BY <2>2, <2>3, <2>4
<1>4. Table(e, n)
  <2>1. e = [i \in 1 .. n |-> e[i]]
    BY <1>1, <1>2 DEF Ended
  <2> QED BY <1>2, <1>3, <2>1 DEF Table
<1>5. n <= n /\ \A i \in 1 .. n : ~(i > n)
  BY <1>2
<1> QED BY <1>1, <1>3, <1>4, <1>5 DEF Extends

\* The whole transaction keeps the chain, the rows and their processes.
LEMMA WrittenKeeps ==
  ASSUME NEW rows, NEW n, Table(rows, n), Chain(rows), NEW b \in Binder, b.legacy \in {0, b.start}
  PROVE  LET w == Written(rows, b) IN
         /\ Chain(w)
         /\ \E k \in Nat : /\ n <= k /\ Table(w, k)
                           /\ \A i \in 1 .. n : w[i].start.boot = rows[i].start.boot
<1>1. PICK m, w : m = Migrated(rows, b) /\ w = Written(rows, b)
  OBVIOUS
<1>2. Extends(rows, n, m, n)
  BY <1>1, MigratedExtends
<1>3. Chain(m) /\ Table(m, n) /\ n \in Nat
  BY <1>2, ChainGrows DEF Extends, Table
<1>4. b.start \in 1 .. MaxBoots /\ b.pid \in WindowPids /\ b.conv \in Conversations
  BY DEF Binder
<1>5. CASE b.verb = "end"
  <2>1. w = Ended(m, b)
    BY <1>1, <1>5 DEF Written
  <2>2. Extends(m, n, w, n)
    BY <1>3, <2>1, EndedExtends
  <2>3. Chain(w)
    BY <1>3, <2>2, ChainGrows
  <2>4. \A i \in 1 .. n : w[i].start.boot = rows[i].start.boot
    BY <1>2, <2>2 DEF Extends
  <2> QED BY <1>1, <1>3, <2>2, <2>3, <2>4 DEF Extends
<1>6. CASE b.verb # "end"
  <2>1. PICK t : t = Utc(b.start)
    OBVIOUS
  <2>2. t \in Tokens
    BY <1>4, <2>1, TokenParts
  <2>3. w = Upserted(m, b.pid, t, b.conv)
    BY <1>1, <1>6, <2>1 DEF Written
  <2>4. PICK k \in {n, n + 1} : Extends(m, n, w, k)
    BY <1>3, <1>4, <2>2, <2>3, UpsertedExtends
  <2>5. Chain(w)
    BY <1>3, <2>4, ChainGrows
  <2>6. \A i \in 1 .. n : w[i].start.boot = rows[i].start.boot
    BY <1>2, <2>4 DEF Extends
  <2>7. k \in Nat /\ n <= k /\ Table(w, k)
    BY <1>3, <2>4 DEF Extends, Table
  <2> QED BY <1>1, <2>5, <2>6, <2>7
<1> QED BY <1>5, <1>6

\* A bind that is recorded leaves its process one current row, on its conversation.
LEMMA WrittenConverges ==
  ASSUME NEW rows, NEW n, Table(rows, n), NEW b \in Binder, b.legacy \in {0, b.start}, b.verb # "end",
         ~Undecidable(rows, b), AnchorIndex(Written(rows, b))
  PROVE  LET w == Written(rows, b)
             h == {i \in DOMAIN w : w[i].pid = b.pid /\ w[i].start.boot = b.start /\ w[i].by = NoBinding}
         IN Cardinality(h) = 1 /\ \A i \in h : w[i].conv = b.conv
<1>1. PICK m, w, t : m = Migrated(rows, b) /\ w = Written(rows, b) /\ t = Utc(b.start)
  OBVIOUS
<1>2. PICK h : h = {i \in DOMAIN w : w[i].pid = b.pid /\ w[i].start.boot = b.start /\ w[i].by = NoBinding}
  OBVIOUS
<1>3. Extends(rows, n, m, n) /\ Table(m, n)
  BY <1>1, MigratedExtends DEF Extends
<1>4. b.start \in 1 .. MaxBoots /\ b.pid \in WindowPids /\ b.conv \in Conversations
  BY DEF Binder
<1>5. t \in Tokens /\ t.boot = b.start
  BY <1>1, <1>4, TokenParts
<1>6. w = Upserted(m, b.pid, t, b.conv)
  BY <1>1 DEF Written
<1>7. PICK k \in {n, n + 1} :
        /\ Extends(m, n, w, k)
        /\ \A i \in 1 .. n : w[i].start = m[i].start
        /\ \A i \in 1 .. k : i > n => w[i].pid = b.pid /\ w[i].start = t
        /\ \E i \in 1 .. k : w[i].pid = b.pid /\ w[i].start = t /\ w[i].by = NoBinding /\ w[i].conv = b.conv
  BY <1>3, <1>4, <1>5, <1>6, UpsertedExtends
<1>8. Table(w, k) /\ DOMAIN w = 1 .. k /\ n \in Nat /\ k \in Nat
  BY <1>3, <1>7, TableSize DEF Extends
<1>9. ASSUME NEW i \in h PROVE i \in 1 .. k /\ w[i].pid = b.pid /\ w[i].start = t /\ w[i].by = NoBinding
  <2>1. i \in 1 .. k /\ w[i].pid = b.pid /\ w[i].start.boot = b.start /\ w[i].by = NoBinding
    BY <1>2, <1>8
  <2>2. CASE i > n
    BY <1>7, <2>1, <2>2
  <2>3. CASE ~(i > n)
    <3>1. i \in 1 .. n
      BY <1>8, <2>1, <2>3
    <3>2. m[i].pid = w[i].pid /\ m[i].start = w[i].start
      BY <1>7, <3>1 DEF Extends
    <3>3. m[i].by = NoBinding
      BY <1>7, <2>1, <3>1 DEF Extends
    <3>4. m[i].start = t
      BY <1>1, <2>1, <3>1, <3>2, <3>3, MigratedClean
    <3> QED BY <2>1, <3>2, <3>4
  <2> QED BY <2>2, <2>3
<1>10. PICK j \in 1 .. k : w[j].pid = b.pid /\ w[j].start = t /\ w[j].by = NoBinding /\ w[j].conv = b.conv
  BY <1>7
<1>11. j \in h
  BY <1>2, <1>5, <1>8, <1>10
<1>12. AnchorIndex(w)
  BY <1>1
<1>13. ASSUME NEW i \in h PROVE i = j
  BY <1>8, <1>9, <1>10, <1>12, AnchorRows
<1>14. h = {j}
  BY <1>11, <1>13
<1>15. Cardinality(h) = 1
  BY <1>14, FS_Singleton
<1> QED BY <1>1, <1>2, <1>10, <1>14, <1>15

-----------------------------------------------------------------------------
(* The hooks and the steps.                                                *)

LEMMA RestTyped == IdleBinder \in Binder /\ IdleBinder.stage = "idle"
<1>1. (CHOOSE p \in WindowPids : TRUE) \in WindowPids /\ (CHOOSE c \in Conversations : TRUE) \in Conversations
  BY BindBounds
<1>2. 1 \in 1 .. MaxBoots /\ 0 \in 0 .. MaxBoots /\ 0 \in 0 .. MaxAttempts
  BY BindFacts
<1> QED BY <1>1, <1>2 DEF IdleBinder, Binder

LEMMA BinderParts ==
  ASSUME NEW h \in Binder
  PROVE  /\ h.pid \in WindowPids /\ h.start \in 1 .. MaxBoots /\ h.legacy \in 0 .. MaxBoots
         /\ h.conv \in Conversations /\ h.attempts \in 0 .. MaxAttempts
BY DEF Binder

\* A hook that is not in flight.
Finished(h) == h \in Binder /\ h.stage \notin InFlightStages

LEMMA ReportedTyped ==
  ASSUME NEW stage \in {"recorded", "failed"}
  PROVE  Finished([IdleBinder EXCEPT !.stage = stage])
BY RestTyped DEF Finished, Binder, InFlightStages

LEMMA BindInitInv == BindInit => BindInv
<1> SUFFICES ASSUME BindInit PROVE BindInv
  OBVIOUS
<1>1. boot \in [WindowPids -> 0 .. MaxBoots] /\ boots \in [WindowPids -> 0 .. MaxBoots]
  BY BindFacts DEF BindInit
<1>2. binder \in [Binders -> Binder] /\ \A b \in Binders : binder[b].stage = "idle"
  BY RestTyped DEF BindInit
<1>3. DOMAIN bindings = {} /\ bindings = <<>>
  BY DEF BindInit
<1>4. Table(bindings, 0)
  <2>1. 1 .. 0 = {}
    OBVIOUS
  <2>2. bindings = [i \in 1 .. 0 |-> bindings[i]]
    BY <1>3
  <2> QED BY <2>1, <2>2 DEF Table
<1>5. AnchorIndex(bindings) /\ Chain(bindings)
  BY <1>3 DEF AnchorIndex, Chain
<1>6. HooksAnchored
  BY <1>2 DEF HooksAnchored, InFlightStages
<1> QED BY <1>1, <1>2, <1>4, <1>5, <1>6 DEF BindInv

\* A step changes the hook h only, to the hook g of the same process, or one that is not in flight.
HookMoves(b, g) ==
  /\ g \in Binder
  /\ g.stage \in InFlightStages =>
       /\ binder[b].stage \in InFlightStages /\ g.pid = binder[b].pid /\ g.start = binder[b].start
       /\ g.legacy \in {0, g.start}
  /\ binder' = [binder EXCEPT ![b] = g]

LEMMA HookKept ==
  ASSUME BindInv, NEW b \in Binders, NEW g, HookMoves(b, g), UNCHANGED boot
  PROVE  binder' \in [Binders -> Binder] /\ HooksAnchored'
<1>1. binder \in [Binders -> Binder] /\ HooksAnchored
  BY DEF BindInv
<1>2. binder' \in [Binders -> Binder] /\ binder'[b] = g /\ \A c \in Binders \ {b} : binder'[c] = binder[c]
  BY <1>1 DEF HookMoves
<1>3. ASSUME NEW c \in Binders, binder'[c].stage \in InFlightStages
      PROVE  boot[binder'[c].pid] \in {0, binder'[c].start} /\ binder'[c].legacy \in {0, binder'[c].start}
  <2>1. CASE c = b
    BY <1>1, <1>2, <1>3, <2>1 DEF HookMoves, HooksAnchored
  <2>2. CASE c # b
    BY <1>1, <1>2, <1>3, <2>2 DEF HooksAnchored
  <2> QED BY <2>1, <2>2
<1> QED BY <1>2, <1>3 DEF HooksAnchored

\* A commit leaves the other hooks their process and their legacy token.
LEMMA OvertakenTyped ==
  ASSUME BindInv
  PROVE  /\ Overtaken(binder) \in [Binders -> Binder]
         /\ \A b \in Binders :
              LET o == Overtaken(binder)[b] IN
              /\ o.stage = binder[b].stage /\ o.pid = binder[b].pid /\ o.start = binder[b].start
              /\ o.legacy = binder[b].legacy
<1>1. ASSUME NEW b \in Binders
      PROVE  LET o == Overtaken(binder)[b] IN
             /\ o \in Binder
             /\ o.stage = binder[b].stage /\ o.pid = binder[b].pid /\ o.start = binder[b].start
             /\ o.legacy = binder[b].legacy
  <2>1. PICK h : h = binder[b]
    OBVIOUS
  <2>2. h \in Binder
    BY <2>1 DEF BindInv
  <2>3. PICK o : o = Overtaken(binder)[b]
    OBVIOUS
  <2>4. o = h \/ o = [h EXCEPT !.fresh = FALSE]
    BY <2>1, <2>3 DEF Overtaken
  <2>5. CASE o = h
    BY <2>1, <2>2, <2>3, <2>5
  <2>6. CASE o = [h EXCEPT !.fresh = FALSE]
    <3>1. o \in Binder /\ o.stage = h.stage /\ o.pid = h.pid /\ o.start = h.start /\ o.legacy = h.legacy
      BY <2>2, <2>6 DEF Binder
    <3> QED BY <2>1, <2>3, <3>1
  <2> QED BY <2>4, <2>5, <2>6
<1>2. Overtaken(binder) = [b \in Binders |-> Overtaken(binder)[b]]
  BY DEF Overtaken
<1> QED BY <1>1, <1>2

LEMMA OvertakenAnchored ==
  ASSUME BindInv, binder' = Overtaken(binder), UNCHANGED boot
  PROVE  binder' \in [Binders -> Binder] /\ HooksAnchored'
<1>1. HooksAnchored
  BY DEF BindInv
<1>2. ASSUME NEW c \in Binders, binder'[c].stage \in InFlightStages
      PROVE  boot[binder'[c].pid] \in {0, binder'[c].start} /\ binder'[c].legacy \in {0, binder'[c].start}
  BY <1>1, <1>2, OvertakenTyped DEF HooksAnchored
<1> QED BY <1>2, OvertakenTyped DEF HooksAnchored

LEMMA OpensKeeps ==
  ASSUME BindInv, NEW p \in WindowPids, WindowOpens(p)
  PROVE  BindInv'
<1>1. boot \in [WindowPids -> 0 .. MaxBoots] /\ boots \in [WindowPids -> 0 .. MaxBoots] /\ boots[p] \in 0 .. MaxBoots
  BY DEF BindInv
<1>2. boots[p] + 1 \in 0 .. MaxBoots
  BY <1>1, BindFacts DEF WindowOpens
<1>3. boot' \in [WindowPids -> 0 .. MaxBoots] /\ boots' \in [WindowPids -> 0 .. MaxBoots]
  BY <1>1, <1>2 DEF WindowOpens
<1>4. UNCHANGED <<bindings, binder>> /\ binder \in [Binders -> Binder]
  BY DEF WindowOpens, BindInv
<1>5. ASSUME NEW c \in Binders, binder[c].stage \in InFlightStages
      PROVE  boot'[binder[c].pid] \in {0, binder[c].start} /\ binder[c].legacy \in {0, binder[c].start}
  <2>1. binder[c].pid # p
    BY <1>5 DEF WindowOpens, InFlight, InFlightStages
  <2>2. binder[c].pid \in WindowPids
    BY <1>4, BinderParts
  <2>3. boot'[binder[c].pid] = boot[binder[c].pid]
    BY <1>1, <2>1, <2>2 DEF WindowOpens
  <2> QED BY <1>5, <2>3 DEF BindInv, HooksAnchored
<1>6. HooksAnchored'
  BY <1>4, <1>5 DEF HooksAnchored
<1> QED BY <1>3, <1>4, <1>6 DEF BindInv

LEMMA ClosesKeeps ==
  ASSUME BindInv, NEW p \in WindowPids, WindowCloses(p)
  PROVE  BindInv'
<1>1. boot \in [WindowPids -> 0 .. MaxBoots] /\ 0 \in 0 .. MaxBoots
  BY BindFacts DEF BindInv
<1>2. boot' \in [WindowPids -> 0 .. MaxBoots] /\ UNCHANGED <<boots, bindings, binder>>
  BY <1>1 DEF WindowCloses
<1>3. ASSUME NEW c \in Binders, binder[c].stage \in InFlightStages
      PROVE  boot'[binder[c].pid] \in {0, binder[c].start} /\ binder[c].legacy \in {0, binder[c].start}
  <2>1. binder[c].pid \in WindowPids
    BY BinderParts DEF BindInv
  <2>2. boot'[binder[c].pid] = 0 \/ boot'[binder[c].pid] = boot[binder[c].pid]
    BY <1>1, <2>1 DEF WindowCloses
  <2> QED BY <1>3, <2>2 DEF BindInv, HooksAnchored
<1>4. HooksAnchored'
  BY <1>2, <1>3 DEF HooksAnchored
<1> QED BY <1>2, <1>4 DEF BindInv

\* The rows stay, and stay of their process.
Kept(rows) ==
  \A i \in DOMAIN bindings : i \in DOMAIN rows /\ rows[i].start.boot = bindings[i].start.boot

LEMMA KeptSame == ASSUME UNCHANGED bindings PROVE Kept(bindings')
BY DEF Kept

LEMMA OldBuildKeeps ==
  ASSUME BindInv, NEW p \in WindowPids, NEW c \in Conversations, OldBuildBinds(p, c)
  PROVE  BindInv' /\ Kept(bindings')
<1>1. PICK n \in Nat : Table(bindings, n)
  BY DEF BindInv
<1>2. boot[p] \in 1 .. MaxBoots
  BY BindFacts DEF BindInv, OldBuildBinds
<1>3. PICK t : t = Legacy(boot[p])
  OBVIOUS
<1>4. t \in Tokens
  BY <1>2, <1>3, TokenParts
<1>5. bindings' = Upserted(bindings, p, t, c)
  BY <1>3 DEF OldBuildBinds
<1>6. AnchorIndex(bindings) /\ Chain(bindings)
  BY DEF BindInv
<1>7. PICK k \in {n, n + 1} : Extends(bindings, n, bindings', k)
  BY <1>1, <1>4, <1>5, UpsertedExtends
<1>8. Chain(bindings')
  BY <1>6, <1>7, ChainGrows
<1>9. AnchorIndex(bindings')
  BY <1>1, <1>4, <1>5, <1>6, UpsertedAnchors
<1>10. k \in Nat /\ Table(bindings', k)
  BY <1>7 DEF Extends, Table
<1>11. Kept(bindings')
  <2>1. DOMAIN bindings = 1 .. n /\ DOMAIN bindings' = 1 .. k /\ n <= k
    BY <1>1, <1>7, <1>10, TableSize DEF Extends
  <2>2. \A i \in 1 .. n : i \in 1 .. k
    BY <1>1, <1>10, <2>1
  <2> QED BY <1>7, <2>1, <2>2 DEF Kept, Extends
<1>12. binder' \in [Binders -> Binder] /\ HooksAnchored'
  BY OvertakenAnchored DEF OldBuildBinds
<1>13. BindInv'
  BY <1>8, <1>9, <1>10, <1>12 DEF BindInv, OldBuildBinds, AnchorIndex, Chain, Table
<1> QED BY <1>11, <1>13

\* Steps of a hook that leave the table alone.
LEMMA HookStepKeeps ==
  ASSUME BindInv, NEW b \in Binders, NEW g, HookMoves(b, g), UNCHANGED <<boot, boots, bindings>>
  PROVE  BindInv'
<1>1. binder' \in [Binders -> Binder] /\ HooksAnchored'
  BY HookKept
<1> QED BY <1>1 DEF BindInv

LEMMA StartsKeeps ==
  ASSUME BindInv, NEW b \in Binders, NEW p \in WindowPids, NEW v \in {"bind", "end"},
         NEW c \in Conversations, BindStarts(b, p, v, c)
  PROVE  BindInv'
<1>1. PICK k : k = boot[p]
  OBVIOUS
<1>2. k \in 1 .. MaxBoots
  BY <1>1, BindFacts DEF BindInv, BindStarts
<1>3. PICK g : g = [IdleBinder EXCEPT !.stage = "anchored", !.verb = v, !.pid = p, !.start = k, !.conv = c]
  OBVIOUS
<1>4. g \in Binder /\ g.pid = p /\ g.start = k /\ g.legacy = 0
  <2>1. IdleBinder.legacy = 0
    BY DEF IdleBinder
  <2> QED BY <1>2, <1>3, <2>1, RestTyped DEF Binder
<1>5. binder' = [binder EXCEPT ![b] = g] /\ UNCHANGED <<boot, boots, bindings>>
  BY <1>1, <1>3 DEF BindStarts
<1>6. binder \in [Binders -> Binder] /\ HooksAnchored
  BY DEF BindInv
<1>7. binder' \in [Binders -> Binder] /\ binder'[b] = g /\ \A d \in Binders \ {b} : binder'[d] = binder[d]
  BY <1>4, <1>5, <1>6
<1>8. ASSUME NEW d \in Binders, binder'[d].stage \in InFlightStages
      PROVE  boot[binder'[d].pid] \in {0, binder'[d].start} /\ binder'[d].legacy \in {0, binder'[d].start}
  <2>1. CASE d = b
    BY <1>1, <1>4, <1>7, <2>1
  <2>2. CASE d # b
    BY <1>6, <1>7, <1>8, <2>2 DEF HooksAnchored
  <2> QED BY <2>1, <2>2
<1>9. HooksAnchored'
  BY <1>5, <1>8 DEF HooksAnchored
<1> QED BY <1>5, <1>7, <1>9 DEF BindInv

LEMMA ReadsLegacyKeeps ==
  ASSUME BindInv, NEW b \in Binders, ReadsLegacy(b)
  PROVE  BindInv'
<1>1. PICK h : h = binder[b]
  OBVIOUS
<1>2. h \in Binder /\ h.stage = "anchored" /\ boot[h.pid] \in {0, h.start}
  BY <1>1 DEF BindInv, ReadsLegacy, HooksAnchored, InFlightStages
<1>3. PICK k \in {0, boot[h.pid]} : binder' = [binder EXCEPT ![b].stage = "ready", ![b].legacy = k]
  BY <1>1 DEF ReadsLegacy
<1>4. PICK g : g = [h EXCEPT !.stage = "ready", !.legacy = k]
  OBVIOUS
<1>5. k \in {0, h.start} /\ k \in 0 .. MaxBoots
  BY <1>2, <1>3, BinderParts, BindFacts
<1>6. g \in Binder /\ g.pid = h.pid /\ g.start = h.start /\ g.legacy = k
  BY <1>2, <1>4, <1>5 DEF Binder
<1>7. binder' = [binder EXCEPT ![b] = g]
  BY <1>1, <1>3, <1>4
<1>8. HookMoves(b, g)
  BY <1>1, <1>2, <1>5, <1>6, <1>7 DEF HookMoves, InFlightStages
<1> QED BY <1>8, HookStepKeeps DEF ReadsLegacy

LEMMA AttemptsKeeps ==
  ASSUME BindInv, NEW b \in Binders, Attempts(b)
  PROVE  BindInv'
<1>1. PICK h : h = binder[b]
  OBVIOUS
<1>2. h \in Binder /\ h.stage = "ready" /\ h.legacy \in {0, h.start} /\ h.attempts < MaxAttempts
  BY <1>1 DEF BindInv, Attempts, HooksAnchored, InFlightStages
<1>3. PICK k : k = h.attempts + 1
  OBVIOUS
<1>4. PICK g : g = [h EXCEPT !.stage = "reading", !.attempts = k, !.fresh = TRUE]
  OBVIOUS
<1>5. k \in 0 .. MaxAttempts
  BY <1>2, <1>3, BinderParts, BindFacts
<1>6. g \in Binder /\ g.pid = h.pid /\ g.start = h.start /\ g.legacy = h.legacy
  BY <1>2, <1>4, <1>5 DEF Binder
<1>7. binder' = [binder EXCEPT ![b] = g]
  BY <1>1, <1>3, <1>4 DEF Attempts
<1>8. HookMoves(b, g)
  BY <1>1, <1>2, <1>6, <1>7 DEF HookMoves, InFlightStages
<1> QED BY <1>8, HookStepKeeps DEF Attempts

LEMMA RetriesKeeps ==
  ASSUME BindInv, NEW b \in Binders, Retries(b)
  PROVE  BindInv'
<1>1. PICK h : h = binder[b]
  OBVIOUS
<1>2. h \in Binder /\ h.stage = "reading" /\ h.legacy \in {0, h.start}
  BY <1>1 DEF BindInv, Retries, HooksAnchored, InFlightStages
<1>3. PICK g : g = [h EXCEPT !.stage = "ready", !.fresh = TRUE]
  OBVIOUS
<1>4. g \in Binder /\ g.pid = h.pid /\ g.start = h.start /\ g.legacy = h.legacy
  BY <1>2, <1>3 DEF Binder
<1>5. binder' = [binder EXCEPT ![b] = g]
  BY <1>1, <1>3 DEF Retries
<1>6. HookMoves(b, g)
  BY <1>1, <1>2, <1>4, <1>5 DEF HookMoves, InFlightStages
<1> QED BY <1>6, HookStepKeeps DEF Retries

LEMMA ReportsKeeps ==
  ASSUME BindInv, NEW b \in Binders, NEW stage \in {"recorded", "failed"}, Reports(b, stage),
         UNCHANGED <<boot, boots, bindings>>
  PROVE  BindInv'
<1>1. PICK g : g = [IdleBinder EXCEPT !.stage = stage]
  OBVIOUS
<1>2. Finished(g)
  BY <1>1, ReportedTyped
<1>3. HookMoves(b, g)
  BY <1>1, <1>2 DEF HookMoves, Finished, Reports, Reported
<1> QED BY <1>3, HookStepKeeps

LEMMA ExitsKeeps ==
  ASSUME BindInv, NEW b \in Binders, HookExits(b)
  PROVE  BindInv'
<1>1. IdleBinder.stage \notin InFlightStages
  BY RestTyped DEF InFlightStages
<1>2. HookMoves(b, IdleBinder)
  BY <1>1, RestTyped DEF HookMoves, HookExits
<1> QED BY <1>2, HookStepKeeps DEF HookExits

LEMMA RecordsKeeps ==
  ASSUME BindInv, NEW b \in Binders, Records(b)
  PROVE  BindInv' /\ Kept(bindings')
<1>1. PICK n \in Nat : Table(bindings, n)
  BY DEF BindInv
<1>2. PICK h : h = binder[b]
  OBVIOUS
<1>3. h \in Binder /\ h.legacy \in {0, h.start} /\ h.stage = "reading"
  BY <1>2 DEF BindInv, HooksAnchored, Records, InFlightStages
<1>4. Chain(bindings)
  BY DEF BindInv
<1>5. bindings' = Written(bindings, h) /\ AnchorIndex(bindings') /\ UNCHANGED <<boot, boots>>
  BY <1>2 DEF Records, Contended
<1>6. PICK k \in Nat : /\ n <= k /\ Table(bindings', k)
                       /\ \A i \in 1 .. n : bindings'[i].start.boot = bindings[i].start.boot
  BY <1>1, <1>3, <1>4, <1>5, WrittenKeeps
<1>7. Chain(bindings')
  BY <1>1, <1>3, <1>4, <1>5, WrittenKeeps
<1>8. Kept(bindings')
  <2>1. DOMAIN bindings = 1 .. n /\ DOMAIN bindings' = 1 .. k
    BY <1>1, <1>6, TableSize
  <2>2. \A i \in 1 .. n : i \in 1 .. k
    BY <1>1, <1>6
  <2> QED BY <1>6, <2>1, <2>2 DEF Kept
<1>9. binder' \in [Binders -> Binder] /\ HooksAnchored'
  <2>1. PICK o : o = Overtaken(binder)
    OBVIOUS
  <2>2. PICK g : g = [IdleBinder EXCEPT !.stage = "recorded"]
    OBVIOUS
  <2>3. o \in [Binders -> Binder] /\ binder' = [o EXCEPT ![b] = g]
    BY <2>1, <2>2, OvertakenTyped DEF Records, Reported
  <2>4. Finished(g)
    BY <2>2, ReportedTyped
  <2>5. binder' \in [Binders -> Binder] /\ binder'[b] = g /\ \A c \in Binders \ {b} : binder'[c] = o[c]
    BY <2>3, <2>4 DEF Finished
  <2>6. ASSUME NEW c \in Binders, binder'[c].stage \in InFlightStages
        PROVE  boot[binder'[c].pid] \in {0, binder'[c].start} /\ binder'[c].legacy \in {0, binder'[c].start}
    <3>1. c # b
      BY <2>4, <2>5, <2>6 DEF Finished
    <3>2. /\ binder'[c].stage = binder[c].stage /\ binder'[c].pid = binder[c].pid
          /\ binder'[c].start = binder[c].start /\ binder'[c].legacy = binder[c].legacy
      BY <2>1, <2>5, <3>1, OvertakenTyped
    <3> QED BY <2>6, <3>2 DEF BindInv, HooksAnchored
  <2> QED BY <1>5, <2>5, <2>6 DEF HooksAnchored
<1>10. boot' \in [WindowPids -> 0 .. MaxBoots] /\ boots' \in [WindowPids -> 0 .. MaxBoots]
  BY <1>5 DEF BindInv
<1>11. BindInv'
  BY <1>5, <1>6, <1>7, <1>9, <1>10 DEF BindInv, AnchorIndex, Chain, Table
<1> QED BY <1>8, <1>11

LEMMA BindStepKeeps ==
  BindInv /\ [BindNext]_bindVars => BindInv' /\ Kept(bindings')
<1> SUFFICES ASSUME BindInv, [BindNext]_bindVars PROVE BindInv' /\ Kept(bindings')
  OBVIOUS
<1>1. ASSUME NEW p \in WindowPids, WindowOpens(p) \/ WindowCloses(p) PROVE BindInv' /\ Kept(bindings')
  BY <1>1, OpensKeeps, ClosesKeeps, KeptSame DEF WindowOpens, WindowCloses
<1>2. ASSUME NEW p \in WindowPids, NEW c \in Conversations, OldBuildBinds(p, c)
      PROVE  BindInv' /\ Kept(bindings')
  BY <1>2, OldBuildKeeps
<1>3. ASSUME NEW b \in Binders, NEW p \in WindowPids, NEW v \in {"bind", "end"}, NEW c \in Conversations,
             BindStarts(b, p, v, c)
      PROVE  BindInv' /\ Kept(bindings')
  BY <1>3, StartsKeeps, KeptSame DEF BindStarts
<1>4. ASSUME NEW b \in Binders, BindStep(b) \/ HookDies(b) PROVE BindInv' /\ Kept(bindings')
  <2>1. CASE Records(b)
    BY <2>1, RecordsKeeps
  <2>2. CASE ReadsLegacy(b)
    BY <2>2, ReadsLegacyKeeps, KeptSame DEF ReadsLegacy
  <2>3. CASE Attempts(b)
    BY <2>3, AttemptsKeeps, KeptSame DEF Attempts
  <2>4. CASE Retries(b)
    BY <2>4, RetriesKeeps, KeptSame DEF Retries
  <2>5. CASE HookExits(b)
    BY <2>5, ExitsKeeps, KeptSame DEF HookExits
  <2>6. CASE EndsNothing(b) \/ Refuses(b) \/ EndContended(b) \/ Exhausted(b) \/ HookDies(b)
    <3>1. Reports(b, "failed") /\ UNCHANGED <<boot, boots, bindings>>
      BY <2>6 DEF EndsNothing, Refuses, EndContended, Exhausted, HookDies
    <3> QED BY <3>1, ReportsKeeps, KeptSame
  <2> QED BY <1>4, <2>1, <2>2, <2>3, <2>4, <2>5, <2>6 DEF BindStep
<1>5. CASE UNCHANGED bindVars
  <2>1. UNCHANGED boot /\ UNCHANGED boots /\ UNCHANGED bindings /\ UNCHANGED binder
    BY <1>5 DEF bindVars
  <2> QED BY <2>1, KeptSame DEF BindInv, HooksAnchored
<1> QED BY <1>1, <1>2, <1>3, <1>4, <1>5 DEF BindNext

\* Only the record of a hook moves it from reading to recorded.
LEMMA RecordedByRecords ==
  ASSUME BindInv, BindNext, NEW b \in Binders, binder[b].stage = "reading", binder'[b].stage = "recorded"
  PROVE  Records(b)
<1>0. binder \in [Binders -> Binder]
  BY DEF BindInv
<1>1. ASSUME UNCHANGED binder PROVE FALSE
  BY <1>1
<1>2. ASSUME binder' = Overtaken(binder) PROVE FALSE
  BY <1>2, OvertakenTyped
<1>3. ASSUME NEW c \in Binders, NEW g, binder' = [binder EXCEPT ![c] = g], g.stage # "recorded" PROVE FALSE
  BY <1>0, <1>3
<1>4. ASSUME NEW p \in WindowPids, WindowOpens(p) \/ WindowCloses(p) PROVE FALSE
  BY <1>1, <1>4 DEF WindowOpens, WindowCloses
<1>5. ASSUME NEW p \in WindowPids, NEW c \in Conversations, OldBuildBinds(p, c) PROVE FALSE
  BY <1>2, <1>5 DEF OldBuildBinds
<1>6. ASSUME NEW c \in Binders, NEW p \in WindowPids, NEW v \in {"bind", "end"}, NEW d \in Conversations,
             BindStarts(c, p, v, d)
      PROVE  FALSE
  <2>1. PICK g : g = [IdleBinder EXCEPT !.stage = "anchored", !.verb = v, !.pid = p, !.start = boot[p], !.conv = d]
    OBVIOUS
  <2>2. g.stage = "anchored"
    BY <2>1, RestTyped DEF Binder
  <2> QED BY <1>3, <1>6, <2>1, <2>2 DEF BindStarts
<1>7. ASSUME NEW c \in Binders, BindStep(c) \/ HookDies(c) PROVE Records(b)
  <2>0. binder[c] \in Binder
    BY <1>0
  <2>1. CASE Records(c)
    <3>1. binder' = [Overtaken(binder) EXCEPT ![c] = [IdleBinder EXCEPT !.stage = "recorded"]]
      BY <2>1 DEF Records, Reported
    <3>2. c # b => binder'[b] = Overtaken(binder)[b]
      BY <3>1, OvertakenTyped
    <3>3. c # b => binder'[b].stage = binder[b].stage
      BY <3>2, OvertakenTyped
    <3> QED BY <2>1, <3>3
  <2>2. CASE ReadsLegacy(c)
    <3>1. PICK k : binder' = [binder EXCEPT ![c].stage = "ready", ![c].legacy = k]
      BY <2>2 DEF ReadsLegacy
    <3>2. PICK h, g : h = binder[c] /\ g = [h EXCEPT !.stage = "ready", !.legacy = k]
      OBVIOUS
    <3>3. binder' = [binder EXCEPT ![c] = g] /\ g.stage = "ready"
      BY <2>0, <3>1, <3>2 DEF Binder
    <3> QED BY <1>3, <3>3
  <2>3. CASE Attempts(c)
    <3>1. PICK h, k : h = binder[c] /\ k = h.attempts + 1
      OBVIOUS
    <3>2. PICK g : g = [h EXCEPT !.stage = "reading", !.attempts = k, !.fresh = TRUE]
      OBVIOUS
    <3>3. binder' = [binder EXCEPT ![c] = g] /\ g.stage = "reading"
      BY <2>0, <2>3, <3>1, <3>2 DEF Attempts, Binder
    <3> QED BY <1>3, <3>3
  <2>4. CASE Retries(c)
    <3>1. PICK h : h = binder[c]
      OBVIOUS
    <3>2. PICK g : g = [h EXCEPT !.stage = "ready", !.fresh = TRUE]
      OBVIOUS
    <3>3. binder' = [binder EXCEPT ![c] = g] /\ g.stage = "ready"
      BY <2>0, <2>4, <3>1, <3>2 DEF Retries, Binder
    <3> QED BY <1>3, <3>3
  <2>5. CASE HookExits(c)
    BY <1>3, <2>5, RestTyped DEF HookExits
  <2>6. CASE EndsNothing(c) \/ Refuses(c) \/ EndContended(c) \/ Exhausted(c) \/ HookDies(c)
    <3>1. PICK g : g = [IdleBinder EXCEPT !.stage = "failed"]
      OBVIOUS
    <3>2. binder' = [binder EXCEPT ![c] = g]
      BY <2>6, <3>1 DEF EndsNothing, Refuses, EndContended, Exhausted, HookDies, Reports, Reported
    <3>3. g.stage = "failed"
      BY <3>1, RestTyped DEF Binder
    <3> QED BY <1>3, <3>2, <3>3
  <2> QED BY <1>7, <2>1, <2>2, <2>3, <2>4, <2>5, <2>6 DEF BindStep
<1> QED BY <1>4, <1>5, <1>6, <1>7 DEF BindNext

LEMMA BindConvergesStep ==
  ASSUME BindInv, NEW b \in Binders, Records(b), binder[b].verb # "end"
  PROVE  LET h == {i \in DOMAIN bindings' : /\ bindings'[i].pid = binder[b].pid
                                            /\ bindings'[i].start.boot = binder[b].start
                                            /\ bindings'[i].by = NoBinding}
         IN Cardinality(h) = 1 /\ \A i \in h : bindings'[i].conv = binder[b].conv
<1>1. PICK n \in Nat : Table(bindings, n)
  BY DEF BindInv
<1>2. PICK g : g = binder[b]
  OBVIOUS
<1>3. g \in Binder /\ g.legacy \in {0, g.start} /\ g.verb # "end"
  BY <1>2 DEF BindInv, HooksAnchored, Records, InFlightStages
<1>4. bindings' = Written(bindings, g) /\ AnchorIndex(Written(bindings, g)) /\ ~Undecidable(bindings, g)
  BY <1>2 DEF Records, Contended
<1> QED BY <1>1, <1>2, <1>3, <1>4, WrittenConverges

LEMMA BindInvTyped == BindInv => BindTypeOK /\ ChainOfOneWindow
<1> SUFFICES ASSUME BindInv PROVE BindTypeOK /\ ChainOfOneWindow
  OBVIOUS
<1>1. PICK n \in Nat : Table(bindings, n)
  BY DEF BindInv
<1>2. DOMAIN bindings = 1 .. Cardinality(DOMAIN bindings) /\ DOMAIN bindings = 1 .. n
  BY <1>1, TableSize
<1>3. \A i \in DOMAIN bindings : bindings[i] \in BindingRow
  BY <1>1, <1>2, TableRow
<1>4. BindTypeOK
  BY <1>2, <1>3 DEF BindInv, BindTypeOK
<1>5. ChainOfOneWindow
  BY DEF BindInv, Chain, ChainOfOneWindow, Migration
<1> QED BY <1>4, <1>5

\* The history of a window is a chain of its own process's rows, none of which is lost; and a bind
\* that reports it recorded leaves its process one current row, on its conversation.
THEOREM BindingsStayTrue ==
  BindSpec => []BindTypeOK /\ []ChainOfOneWindow /\ BindConverges /\ RowsStay
<1>1. BindInv /\ [BindNext]_bindVars =>
        [\A b \in Binders :
           (/\ binder[b].stage = "reading" /\ binder[b].verb # "end" /\ binder'[b].stage = "recorded") =>
             LET h == {i \in DOMAIN bindings' : /\ bindings'[i].pid = binder[b].pid
                                                /\ bindings'[i].start.boot = binder[b].start
                                                /\ bindings'[i].by = NoBinding}
             IN /\ Cardinality(h) = 1
                /\ \A i \in h : bindings'[i].conv = binder[b].conv]_bindVars
  BY RecordedByRecords, BindConvergesStep
<1>2. BindInv /\ [BindNext]_bindVars =>
        [\A i \in DOMAIN bindings : /\ i \in DOMAIN bindings'
                                    /\ bindings'[i].start.boot = bindings[i].start.boot]_bindVars
  BY BindStepKeeps DEF Kept
<1> QED BY <1>1, <1>2, BindInitInv, BindStepKeeps, BindInvTyped, PTL DEF BindSpec, BindConverges, RowsStay
=============================================================================
