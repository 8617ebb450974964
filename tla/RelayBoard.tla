------------------------------ MODULE RelayBoard ------------------------------
(***************************************************************************)
(* The doorbell's board: an agent that has mail nobody can wake it for is  *)
(* reported, with the case and until it is resolved.  Each cycle reads the *)
(* agent's windows, its session, its mail and its watch; the case is       *)
(* written to the log when it changes, and an open one is rebuilt from the *)
(* log at a restart.                                                       *)
(*                                                                         *)
(* One agent.  Its watch is RelayWatchers' subject; here it is a status.   *)
(* No actuator is registered, as in production, so no cycle rings.         *)
(***************************************************************************)
EXTENDS Naturals, FiniteSets

CONSTANTS Windows,         \* bindings of the agent
          BlindAfter,      \* CANNOT_OBSERVE_AFTER_TICKS
          MaxStops         \* bound: times the job stops

VARIABLES facts,           \* what a cycle reads of the agent
          open,            \* its open case, rebuilt from the log
          blindTicks,      \* watchUnknownTicks, in memory
          half,            \* the record still to write of a change in progress
          up,              \* the job runs
          stops

boardVars == <<facts, open, blindTicks, half, up, stops>>

Verdicts == {"none", "dead", "alive", "unverifiable"}
Starts == {"read", "gone", "unreadable"}      \* the kernel's answer for the live window
Watches == {"absent", "stale", "live", "late"}

NoCase == [case |-> "none", why |-> "none"]
Case(c, w) == [case |-> c, why |-> w]

-----------------------------------------------------------------------------
(* What a cycle makes of the facts.                                        *)

\* judgeWindows.
NotDead == {w \in Windows : facts.windows[w] \in {"alive", "unverifiable"}}
Alive == {w \in Windows : facts.windows[w] = "alive"}

\* superviseWatch: the status of the watch of the one live window.  A watch that went
\* dormant because it could not observe its window is told apart from none, and is
\* found by its captured anchor when the start cannot be read.  "late" is a live
\* watch whose wake was not followed by a delivery within the horizon.
Supervised ==
  CASE facts.start = "gone" -> "absent"
    [] facts.start = "unreadable" -> IF facts.blind THEN "blind" ELSE "unknown"
    [] OTHER -> IF facts.watch = "absent" /\ facts.blind THEN "blind" ELSE facts.watch

\* The case of the windows and the session; with none of these, the watch's.
WindowCase ==
  IF Cardinality(NotDead) >= 2 THEN Case("ambiguous_binding", "none")
  ELSE IF Alive = {} THEN Case("no_live_window", "none")
  ELSE IF ~facts.session THEN Case("session_unbound", "none")
  ELSE NoCase

WatchCase ==
  CASE Supervised = "blind" -> Case("cannot_observe", "anchor")
    [] Supervised = "unknown" -> Case("cannot_observe", "watch")
    [] Supervised = "late" -> Case("undelivered_with_watch", "none")
    [] Supervised = "absent" -> Case("no_driver", "watch_absent")
    [] Supervised = "stale" -> Case("no_driver", "watch_stale")
    [] OTHER -> NoCase

\* The watch is asked for when no case precedes it.
AsksWatch == facts.registered /\ facts.mail /\ WindowCase = NoCase
Ticks == IF AsksWatch /\ Supervised = "unknown" THEN blindTicks + 1 ELSE 0

\* A watch that cannot be observed for less than K cycles holds the board.
Held == AsksWatch /\ Supervised = "unknown" /\ Ticks < BlindAfter

NextCase ==
  IF ~facts.registered \/ ~facts.mail THEN NoCase
  ELSE IF WindowCase # NoCase THEN WindowCase ELSE WatchCase

-----------------------------------------------------------------------------
(* The job.                                                                *)

\* The agents of a cycle: those with a binding, with mail, or with an open case.
Seen(mailQuery) ==
  \/ \E w \in Windows : facts.windows[w] # "none"
  \/ mailQuery /\ facts.mail
  \/ open # NoCase

\* Mutant: a cycle that could not look starts the count again.
HoldTicks_Reset == 0
\* holdTicks.
HoldTicks == blindTicks

\* A cycle that cannot judge the agent holds its state: this host's identity is
\* unknown, or its pending set cannot be read.  One it does not look at loses its
\* count.
BlindCycle(seen) ==
  /\ up /\ half = NoCase
  /\ ~seen => ~Seen(FALSE)
  /\ blindTicks' = IF seen THEN HoldTicks ELSE 0
  /\ UNCHANGED <<facts, open, half, up, stops>>

\* boardTo: written once per change of the case or its reason.
Unchanged == open = NextCase

\* A cycle that judges it: the record that closes the old case, then the one that
\* opens the new one.
JudgeAgent(mailQuery) ==
  /\ up /\ half = NoCase
  /\ Seen(mailQuery)
  /\ blindTicks' = IF Ticks > BlindAfter THEN BlindAfter ELSE Ticks
  /\ IF Held \/ Unchanged
     THEN UNCHANGED <<open, half>>
     ELSE IF open = NoCase THEN open' = NextCase /\ UNCHANGED half
     ELSE open' = NoCase /\ half' = NextCase
  /\ UNCHANGED <<facts, up, stops>>

SecondRecord ==
  /\ up /\ half # NoCase
  /\ open' = half
  /\ half' = NoCase
  /\ UNCHANGED <<facts, blindTicks, up, stops>>

\* The job stops, between two records too, and starts again from its log.
Stop ==
  /\ up /\ stops < MaxStops
  /\ up' = FALSE
  /\ half' = NoCase
  /\ stops' = stops + 1
  /\ UNCHANGED <<facts, open, blindTicks>>
Start ==
  /\ ~up
  /\ up' = TRUE
  /\ blindTicks' = 0
  /\ UNCHANGED <<facts, open, half, stops>>

-----------------------------------------------------------------------------
(* The agent and its machine.                                              *)

Changes ==
  /\ half = NoCase
  /\ \/ \E w \in Windows, v \in Verdicts :
          \* A dead window stays dead until its binding goes.
          /\ facts.windows[w] = "dead" => v = "none"
          /\ facts' = [facts EXCEPT !.windows[w] = v]
     \/ facts' = [facts EXCEPT !.session = ~@]
     \/ facts' = [facts EXCEPT !.mail = ~@]
     \/ facts' = [facts EXCEPT !.registered = ~@]
     \/ \E v \in Watches : facts' = [facts EXCEPT !.watch = v]
     \/ \E v \in Starts : facts' = [facts EXCEPT !.start = v]
     \/ facts' = [facts EXCEPT !.blind = ~@]
  /\ facts' # facts
  /\ UNCHANGED <<open, blindTicks, half, up, stops>>

BoardInit ==
  /\ facts = [windows |-> [w \in Windows |-> "none"], session |-> FALSE, mail |-> FALSE,
              registered |-> TRUE, start |-> "read", watch |-> "absent", blind |-> FALSE]
  /\ open = NoCase
  /\ blindTicks = 0
  /\ half = NoCase
  /\ up = FALSE
  /\ stops = 0

BoardNext ==
  \/ \E seen \in BOOLEAN : BlindCycle(seen)
  \/ \E q \in BOOLEAN : JudgeAgent(q)
  \/ SecondRecord \/ Stop \/ Start \/ Changes

\* launchd starts a job that stopped, and a cycle comes every interval; one that
\* cannot read may come in between, and does not stay the only kind.
BoardFairness == WF_boardVars(Start) /\ SF_boardVars(JudgeAgent(TRUE)) /\ WF_boardVars(SecondRecord)

BoardSpec == BoardInit /\ [][BoardNext]_boardVars /\ BoardFairness

-----------------------------------------------------------------------------
(* Properties.                                                             *)

Cases == {"none", "ambiguous_binding", "no_live_window", "session_unbound", "no_driver",
          "undelivered_with_watch", "cannot_observe"}
BoardTypeOK ==
  /\ facts.windows \in [Windows -> Verdicts]
  /\ open.case \in Cases
  /\ open.why # "none" <=> open.case \in {"no_driver", "cannot_observe"}
  /\ blindTicks \in 0 .. BlindAfter
  /\ half # NoCase => up /\ open = NoCase

\* Somebody wakes the agent: its one live window, bound, with a watch that lives and
\* whose wakes are followed by deliveries.
Wakeable ==
  /\ Cardinality({w \in Windows : facts.windows[w] \notin {"none", "dead"}}) = 1
  /\ \E w \in Windows : facts.windows[w] = "alive"
  /\ facts.session
  /\ Supervised = "live"
Stranded == facts.registered /\ facts.mail /\ ~Wakeable

\* No agent is stranded unseen: once nothing changes about an agent whose mail
\* nobody wakes it for, it is reported, whatever cycles fail in between and wherever
\* the job stops.  (An agent that keeps changing may keep the count of unknown ticks
\* from its end.)
StrandedIsReported == (<>[][FALSE]_facts) => []<>(~Stranded \/ open # NoCase)

\* A case that is over is closed.
ResolvedIsClosed == <>[](~Stranded) => <>[](open = NoCase)

\* Unknown is not absent: an agent whose watch could not be observed is never
\* reported as having none, nor as resolved.
UnknownNamesNothing ==
  [][(Supervised = "unknown" /\ AsksWatch /\ half = NoCase /\ open' # open)
       => Ticks >= BlindAfter]_boardVars

\* The promises of the board: a stranded agent is reported, a resolved case closed, an
\* unknown watch names nothing (doorbell-core.ts).
BoardTrue ==
  /\ []BoardTypeOK /\ StrandedIsReported /\ ResolvedIsClosed /\ UnknownNamesNothing

=============================================================================
