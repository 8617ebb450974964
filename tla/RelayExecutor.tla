----------------------------- MODULE RelayExecutor -----------------------------
(***************************************************************************)
(* The agent the editor extension runs in a terminal of its own:           *)
(* AgentManager's spawn, kill, restart and restart timer, the commands     *)
(* that call them (Spawn asks questions between its kill and its spawn),   *)
(* and RestartPolicy's cap on the crashes of a rolling window.             *)
(*                                                                         *)
(* A specification is known by its number: each Spawn command makes a new  *)
(* object, and the timer's guard compares objects.  Back-off delays leave  *)
(* only that a timer fires later.                                          *)
(***************************************************************************)
EXTENDS Naturals, SequencesExt

CONSTANTS
  MaxSpecs,     \* specifications an operator enters
  MaxRestarts,  \* maxRestartsPerWindow
  RestartWindow,       \* windowMs, in ticks
  MaxCrashes    \* crashes over the whole run

ASSUME ExecutorBounds ==
  /\ MaxSpecs \in Nat /\ MaxCrashes \in Nat
  /\ MaxRestarts \in Nat \ {0} /\ RestartWindow \in Nat \ {0}

VARIABLES
  exec,     \* [spec, running, status]: the manager's spec, terminal and status
  timer,    \* spec -> restart timers armed for it
  pendingRestart, \* the spec whose timer the field holds, or 0
  recent,   \* RestartPolicy.crashes: their ages
  crashed,  \* crashes so far
  prompt    \* what a Spawn command under way is asking

execVars == <<exec, timer, pendingRestart, recent, crashed, prompt>>

Specs == 1 .. MaxSpecs

ExecTypeOK ==
  /\ exec \in [spec : Specs \cup {0}, running : BOOLEAN,
               status : {"idle", "connected", "restarting", "error"}]
  /\ timer \in [Specs -> Nat]
  /\ pendingRestart \in Specs \cup {0}
  /\ Len(recent) <= MaxCrashes /\ \A i \in DOMAIN recent : recent[i] \in 0 .. RestartWindow
  /\ crashed \in 0 .. MaxCrashes
  /\ prompt \in {"nothing", "confirm", "spec"}

ExecInit ==
  /\ exec = [spec |-> 0, running |-> FALSE, status |-> "idle"]
  /\ timer = [s \in Specs |-> 0]
  /\ pendingRestart = 0 /\ recent = <<>> /\ crashed = 0 /\ prompt = "nothing"

\* clearTimeout() of the timer the field holds.
Disarmed(t) ==
  IF pendingRestart = 0 THEN t ELSE [t EXCEPT ![pendingRestart] = @ - 1]

\* spawn(): nothing to do when a terminal is there.
Spawned(e, s) ==
  IF e.running THEN e ELSE [spec |-> s, running |-> TRUE, status |-> "connected"]

\* kill() keeps the spec; the close that follows is no one's terminal.
Killed(e) == [e EXCEPT !.running = FALSE, !.status = "idle"]

\* "Spawn Agent" asks before it kills an agent that is there.
SpawnAsks ==
  /\ prompt = "nothing" /\ exec.spec < MaxSpecs
  /\ prompt' = IF exec.spec # 0 /\ exec.status \notin {"idle", "error"}
                 THEN "confirm" ELSE "spec"
  /\ UNCHANGED <<exec, timer, pendingRestart, recent, crashed>>

\* The operator confirms: whatever runs by now is killed.
SpawnConfirmed ==
  /\ prompt = "confirm" /\ prompt' = "spec"
  /\ exec' = Killed(exec)
  /\ timer' = Disarmed(timer) /\ pendingRestart' = 0
  /\ UNCHANGED <<recent, crashed>>

\* The specification is entered.
SpawnAnswered ==
  /\ prompt = "spec" /\ prompt' = "nothing"
  /\ exec' = Spawned(exec, exec.spec + 1)
  /\ UNCHANGED <<timer, pendingRestart, recent, crashed>>

\* The operator cancels a question.
SpawnCancelled ==
  /\ prompt # "nothing" /\ prompt' = "nothing"
  /\ UNCHANGED <<exec, timer, pendingRestart, recent, crashed>>

\* "Kill Agent".
Kill ==
  /\ exec.spec # 0 /\ exec.status # "idle"
  /\ exec' = Killed(exec)
  /\ timer' = Disarmed(timer) /\ pendingRestart' = 0
  /\ UNCHANGED <<recent, crashed, prompt>>

\* "Restart Agent": the back-off starts over, the window's crashes stay.
Restart ==
  /\ exec.spec # 0
  /\ exec' = Spawned(Killed(exec), exec.spec)
  /\ timer' = Disarmed(timer) /\ pendingRestart' = 0
  /\ UNCHANGED <<recent, crashed, prompt>>

\* recordCrash(): the crash counts itself.
GivesUp(crashes) == Len(crashes) > MaxRestarts

\* The terminal closes without being asked to.
Crashes ==
  /\ exec.running /\ crashed < MaxCrashes
  /\ crashed' = crashed + 1
  /\ recent' = Append(recent, 0)
  /\ IF GivesUp(recent')
       THEN /\ exec' = [exec EXCEPT !.running = FALSE, !.status = "error"]
            /\ UNCHANGED <<timer, pendingRestart>>
       ELSE /\ exec' = [exec EXCEPT !.running = FALSE, !.status = "restarting"]
            /\ timer' = [timer EXCEPT ![exec.spec] = @ + 1]
            /\ pendingRestart' = exec.spec
  /\ UNCHANGED prompt

\* Mutant: the timer restarts the specification it was armed for, replaced or not.
MayRespawn_Any(s) == TRUE
\* The timer's guard.
MayRespawn(s) == exec.spec = s

\* A restart timer fires.
TimerFires(s) ==
  /\ timer[s] > 0
  /\ timer' = [timer EXCEPT ![s] = @ - 1]
  /\ pendingRestart' = 0
  /\ exec' = IF MayRespawn(s) THEN Spawned(exec, s) ELSE exec
  /\ UNCHANGED <<recent, crashed, prompt>>

\* Time passes, and crashes leave the window.
Tick ==
  /\ recent # <<>>
  /\ recent' = SelectSeq([i \in DOMAIN recent |-> recent[i] + 1],
                         LAMBDA age : age <= RestartWindow)
  /\ UNCHANGED <<exec, timer, pendingRestart, crashed, prompt>>

ExecNext ==
  \/ SpawnAsks \/ SpawnConfirmed \/ SpawnAnswered \/ SpawnCancelled
  \/ Kill \/ Restart \/ Crashes \/ Tick
  \/ \E s \in Specs : TimerFires(s)

\* Timers fire.
ExecFairness == \A s \in Specs : WF_execVars(TimerFires(s))

ExecSpec == ExecInit /\ [][ExecNext]_execVars /\ ExecFairness

-----------------------------------------------------------------------------
(* Properties. *)

\* A restart timer never brings back an agent that was replaced since the
\* crash (agent-manager.ts:427-429).
RestartsOwn ==
  [][\A s \in Specs : TimerFires(s) /\ exec'.running /\ ~exec.running
       => exec'.spec = exec.spec]_execVars

\* An agent shown as restarting has a timer that will restart it, however the
\* commands and the timers interleave (agent-manager.ts:398-432).
RestartComes == exec.status = "restarting" => timer[exec.spec] > 0

\* The promises of the managed agent: an armed restart comes, and restarts the agent
\* specified last (agent-manager.ts).
RestartsRight ==
  /\ []ExecTypeOK /\ []RestartComes /\ RestartsOwn

\* A killed agent stays killed until somebody asks for it, whatever timers are
\* left (the guard of agent-manager.ts:427-428).
KillStands ==
  [][exec.status = "idle" /\ ~exec.running /\ exec'.running
       => \A s \in Specs : ~TimerFires(s)]_execVars

=============================================================================
