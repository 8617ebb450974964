----------------------------- MODULE RelayWatch -----------------------------
(***************************************************************************)
(* "relay watch <agent>", the sentinel beside a mailbox: a process of its  *)
(* own that opens the relay's database, reads how much mail is unread, and *)
(* prints a wake line when the number has risen since its last check.  A   *)
(* poll, a marker event and the fallback tick all run the same check.      *)
(***************************************************************************)
EXTENDS RelayMailbox

CONSTANT Watched       \* the agent the watch stands for

ASSUME WatchedAgent == Watched \in Agents

\* bound: ReadModes of a run that is about the watch, agents that drain what is pending.
OnlyPending == {PlainRead}

VARIABLE watch

(***************************************************************************)
(* counting: between the two statements of peekMailboxVersion.  base is    *)
(* prevUnread, known whether it is set.  announced, for the properties     *)
(* only, holds the messages that were unread at some wake of this watch.   *)
(***************************************************************************)
WatchRow == [on        : BOOLEAN,
             counting  : BOOLEAN,
             session   : Sessions,
             known     : BOOLEAN,
             base      : Nat,
             announced : SUBSET Messages]

WatchOff == [on |-> FALSE, counting |-> FALSE, session |-> 0, known |-> FALSE, base |-> 0, announced |-> {}]

WatchInit == Init /\ watch = WatchOff

\* total_unread_count, as a set: the pending mail of the session just read.
Unread(s) == {m \in Stored : msg[m].to = Watched /\ Pending(m, s)}

WatchStart == ~ watch.on /\ watch' = [WatchOff EXCEPT !.on = TRUE]

WatchStop == watch.on /\ watch' = WatchOff

PeekSession ==
  /\ watch.on /\ ~ watch.counting
  /\ watch' = [watch EXCEPT !.counting = TRUE, !.session = agent[Watched].session]

\* Mutant: the first observation only sets the baseline.
Rises_QuietStart(n) == watch.known /\ n > watch.base

\* The first check surfaces what is there, a later one only a rise.
Rises(n) == IF watch.known THEN n > watch.base ELSE n > 0

CheckMailbox ==
  LET unread == Unread(watch.session)
      n      == Cardinality(unread)
  IN /\ watch.counting
     /\ watch' = [watch EXCEPT !.counting = FALSE, !.session = 0, !.known = TRUE, !.base = n,
                               !.announced = IF Rises(n) THEN @ \cup unread ELSE @]

WatchStep == (PeekSession \/ CheckMailbox) /\ UNCHANGED vars

WatchNext == \/ Next /\ UNCHANGED watch
             \/ WatchStep
             \/ (WatchStart \/ WatchStop) /\ UNCHANGED vars

\* The poll or the fallback tick comes round for ever.
WatchSpec == WatchInit /\ [][WatchNext]_<<vars, watch>> /\ WF_<<vars, watch>>(WatchStep)

-----------------------------------------------------------------------------
Undrained(m) == m \in Stored /\ msg[m].to = Watched /\ Undelivered(m)

\* Mail nobody has drained, whose coming the last check has not hidden.
Waiting(m) == watch.on /\ (watch.known => watch.base = 0) /\ Undrained(m)

Surfaced(m) == m \in watch.announced \/ ~ Undrained(m) \/ ~ watch.on

\* Mail nobody has drained is announced if the last check, or none yet, found
\* the queue empty, whatever sends, drains and session changes race with the
\* two statements of the check (cli/watch.ts 203-240, db.ts 6676-6711).
SurfacesMail ==
  /\ [][\A m \in Messages : Waiting(m) => Waiting(m)' \/ Surfaced(m)']_<<vars, watch>>
  /\ \A m \in Messages : []<>~ Waiting(m)

\* cli/watch.ts:22, 516: a dropped event is "never a silent permanent miss": a
\* message that stays undrained while the watch runs is announced in the end.
NeverMissed ==
  \A m \in Messages : (watch.on /\ Undrained(m)) ~> Surfaced(m)
=============================================================================
