---------------------------- MODULE MCRelayWindows ----------------------------
(* An agent's window and what keeps it reachable, for TLC: its bindings, its   *)
(* presence, its mail watch, its mail's retention, the editor's connection,    *)
(* wakes and restarts.  They share no variable: each behaviour runs the one    *)
(* that `focus' names while the others rest.                                   *)
EXTENDS RelayBindings, RelayPresence, RelayWatchers, RelayTether, RelayWakeGate,
        RelayExecutor, RelayRetention

VARIABLE focus   \* the component this behaviour runs

windowsVars ==
  <<bindVars, presVars, watcherVars, tetherVars, gateVars, execVars, retVars, focus>>

WindowsInit ==
  /\ focus \in {"bindings", "presence", "watchers", "tether", "gate", "executor", "retention"}
  /\ BindInit /\ PresInit /\ WatchInit /\ TetherInit /\ GateInit /\ ExecInit /\ RetInit

WindowsNext ==
  /\ UNCHANGED focus
  /\ \/ /\ focus = "bindings" /\ BindNext
        /\ UNCHANGED <<presVars, watcherVars, tetherVars, gateVars, execVars, retVars>>
     \/ /\ focus = "presence" /\ PresNext
        /\ UNCHANGED <<bindVars, watcherVars, tetherVars, gateVars, execVars, retVars>>
     \/ /\ focus = "watchers" /\ WatchNext
        /\ UNCHANGED <<bindVars, presVars, tetherVars, gateVars, execVars, retVars>>
     \/ /\ focus = "tether" /\ TetherNext
        /\ UNCHANGED <<bindVars, presVars, watcherVars, gateVars, execVars, retVars>>
     \/ /\ focus = "gate" /\ GateNext
        /\ UNCHANGED <<bindVars, presVars, watcherVars, tetherVars, execVars, retVars>>
     \/ /\ focus = "executor" /\ ExecNext
        /\ UNCHANGED <<bindVars, presVars, watcherVars, tetherVars, gateVars, retVars>>
     \/ /\ focus = "retention" /\ RetNext
        /\ UNCHANGED <<bindVars, presVars, watcherVars, tetherVars, gateVars, execVars>>

\* The fairness of each component, asked of the one in focus.
WindowsFairness ==
  /\ \A b \in Binders : WF_bindVars(focus = "bindings" /\ BindStep(b))
  /\ WF_presVars(focus = "presence" /\ CacheLapses)
  /\ WF_presVars(focus = "presence" /\ DaemonReads)
  /\ \A w \in Watchers : WF_watcherVars(focus = "watchers" /\ WatchStep(w))
  /\ WF_watcherVars(focus = "watchers" /\ \E w \in Watchers : Arm(w))
  /\ WF_watcherVars(focus = "watchers" /\ BeatAges)
  /\ WF_watcherVars(focus = "watchers" /\ HourPasses)
  /\ WF_tetherVars(focus = "tether" /\ Fire)
  /\ WF_tetherVars(focus = "tether" /\ PollTick)
  /\ WF_tetherVars(focus = "tether" /\ DaemonStarts)
  /\ \A c \in Callers : WF_tetherVars(focus = "tether" /\ Attempt(c))
  /\ \A t \in Transports : WF_tetherVars(focus = "tether" /\ (Closes(t) \/ Errs(t)))
  /\ WF_gateVars(focus = "gate" /\ TurnStarts)
  /\ WF_gateVars(focus = "gate" /\ ToolCall)
  /\ WF_gateVars(focus = "gate" /\ TurnEnds)
  /\ WF_gateVars(focus = "gate" /\ TurnGoesQuiet)
  /\ WF_gateVars(focus = "gate" /\ Reopens)
  /\ \A l \in Looks : WF_gateVars(focus = "gate" /\ (Reads(l) \/ Observes(l) \/ Considers(l)))
  /\ \A s \in Slots : WF_gateVars(focus = "gate" /\ (Types(s) \/ NoTerminal(s) \/ Lands(s) \/ Rejects(s)))
  /\ \A s \in Specs : WF_execVars(focus = "executor" /\ TimerFires(s))
  /\ WF_retVars(focus = "retention" /\ NextDay)
  /\ WF_retVars(focus = "retention" /\ Announce)

WindowsSpec == WindowsInit /\ [][WindowsNext]_windowsVars /\ WindowsFairness

\* The editor extension keeps up with the relay: its link, the mail it injects, the agent
\* it runs (extension.ts, inbox-subscription.ts, agent-manager.ts).
ExtensionKeepsUp == LinkRecovers /\ MailInjected /\ RestartsRight
=============================================================================
