--------------------------- MODULE MCRelayDoorbell ---------------------------
(* The doorbell job for TLC: what it rings, the log it keeps, the heartbeat   *)
(* it leaves and the agents it judges.  They share no variable: each          *)
(* behaviour runs the one that `focus' names while the others rest.           *)
EXTENDS RelayRings, RelayLog, RelayHeartbeat, RelayBoard

VARIABLE focus   \* the component this behaviour runs

doorbellVars == <<ringVars, logVars, beatVars, boardVars, focus>>

DoorbellInit ==
  /\ focus \in {"rings", "log", "heartbeat", "board"}
  /\ RingInit /\ LogInit /\ BeatInit /\ BoardInit

DoorbellNext ==
  /\ UNCHANGED focus
  /\ \/ /\ focus = "rings" /\ RingNext
        /\ UNCHANGED <<logVars, beatVars, boardVars>>
     \/ /\ focus = "log" /\ LogNext
        /\ UNCHANGED <<ringVars, beatVars, boardVars>>
     \/ /\ focus = "heartbeat" /\ BeatNext
        /\ UNCHANGED <<ringVars, logVars, boardVars>>
     \/ /\ focus = "board" /\ BoardNext
        /\ UNCHANGED <<ringVars, logVars, beatVars>>

\* The fairness of each component, asked of the one in focus.
DoorbellFairness ==
  /\ WF_ringVars(focus = "rings" /\ Tick)
  /\ WF_ringVars(focus = "rings" /\ JobStarts(FALSE))
  /\ WF_ringVars(focus = "rings" /\ OpenAndCompact)
  /\ WF_ringVars(focus = "rings" /\ Cycle(TRUE, TRUE))
  /\ WF_logVars(focus = "log" /\ Detect)
  /\ WF_logVars(focus = "log" /\ DrainAtOpen)
  /\ WF_logVars(focus = "log" /\ Switch)
  /\ WF_beatVars(focus = "heartbeat" /\ Attempt)
  /\ WF_beatVars(focus = "heartbeat" /\ Interval)
  /\ WF_boardVars(focus = "board" /\ Start)
  /\ SF_boardVars(focus = "board" /\ JudgeAgent(TRUE))
  /\ WF_boardVars(focus = "board" /\ SecondRecord)

DoorbellSpec == DoorbellInit /\ [][DoorbellNext]_doorbellVars /\ DoorbellFairness

\* What the job says is true: of itself in the heartbeat, of the agents on the board
\* (doorbell-run.ts, doorbell-heartbeat.ts, doorbell-core.ts).
ReportsTrue == HeartbeatTrue /\ BoardTrue
=============================================================================
