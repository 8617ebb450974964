---------------------------- MODULE RelayDashboard ----------------------------
(***************************************************************************)
(* The dashboard's push channel: a timer derives an agent's state and      *)
(* pushes it to the open pages when it differs from the one it last        *)
(* pushed.  A limiter drops a push that follows another within 500 ms, a   *)
(* page may close, a write may throw at once or fail later, and a page     *)
(* that connects shows what its own snapshot said.                         *)
(*                                                                         *)
(* One agent: the limiter, the baseline and the frames are kept per agent. *)
(* How its state is derived is RelayPresence's subject.                    *)
(***************************************************************************)
EXTENDS SequencesExt

CONSTANTS PageIds,         \* dashboard pages
          States,          \* dashboard states of the agent
          MaxQueued,       \* bound: frames on their way to one page
          MaxWriteFaults   \* bound: writes that fail

ASSUME DashboardBounds ==
  /\ "unsaid" \notin States /\ MaxQueued \in Nat \ {0} /\ MaxWriteFaults \in Nat

VARIABLES current,         \* the state the agent's row gives
          conn,            \* a page's socket
          frames,          \* the frames queued to it, oldest first
          lastPush,            \* the last state it was pushed on this connection
          baseline,        \* lastBroadcastedState
          voided,          \* baselineGeneration is past the one the baseline was built for
          limited,         \* the agent was pushed less than 500 ms ago
          writeFaults

dashVars == <<current, conn, frames, lastPush, baseline, voided, limited, writeFaults>>

Unsaid == "unsaid"
\* A closing socket is still in `clients` and no longer OPEN.
Sockets == {"none", "open", "closing"}
OpenPages == {c \in PageIds : conn[c] = "open"}

DashInit ==
  /\ current \in States
  /\ conn = [c \in PageIds |-> "none"]
  /\ frames = [c \in PageIds |-> <<>>]
  /\ lastPush = [c \in PageIds |-> Unsaid]
  /\ baseline = Unsaid
  /\ voided = TRUE
  /\ limited = FALSE
  /\ writeFaults = 0

\* What was queued on a socket is lost with it.
Emptied(c) == [frames EXCEPT ![c] = <<>>]
\* dropClient: the sockets are terminated and removed.
Dropped(cs) ==
  /\ conn' = [c \in PageIds |-> IF c \in cs THEN "none" ELSE conn[c]]
  /\ lastPush' = [c \in PageIds |-> IF c \in cs THEN Unsaid ELSE lastPush[c]]

-----------------------------------------------------------------------------
(* Pages come and go.                                                      *)

\* Mutant: a connection leaves the baseline alone.
VoidedByConnect_Not == voided
VoidedByConnect == TRUE

Connect(c) ==
  /\ conn[c] = "none"
  /\ conn' = [conn EXCEPT ![c] = "open"]
  /\ voided' = VoidedByConnect
  /\ UNCHANGED <<current, frames, lastPush, baseline, limited, writeFaults>>

\* The peer, or a network gone, starts to close; "close" is heard later.
StartsClosing(c) ==
  /\ conn[c] = "open"
  /\ conn' = [conn EXCEPT ![c] = "closing"]
  /\ UNCHANGED <<current, frames, lastPush, baseline, voided, limited, writeFaults>>

SocketCloses(c) ==
  /\ conn[c] = "closing"
  /\ Dropped({c})
  /\ frames' = Emptied(c)
  /\ UNCHANGED <<current, baseline, voided, limited, writeFaults>>

\* A queued frame is written and reaches the page.
FrameLands(c) ==
  /\ conn[c] = "open"
  /\ frames[c] # <<>>
  /\ lastPush' = [lastPush EXCEPT ![c] = Head(frames[c])]
  /\ frames' = [frames EXCEPT ![c] = Tail(@)]
  /\ UNCHANGED <<current, conn, baseline, voided, limited, writeFaults>>

\* The callback of a queued write reports an error.
WriteFails(c) ==
  /\ conn[c] # "none"
  /\ frames[c] # <<>>
  /\ writeFaults < MaxWriteFaults
  /\ Dropped({c})
  /\ frames' = Emptied(c)
  /\ voided' = TRUE
  /\ writeFaults' = writeFaults + 1
  /\ UNCHANGED <<current, baseline, limited>>

-----------------------------------------------------------------------------
(* The tick.                                                               *)

\* What broadcastDashboardEvent answers; throwing are the pages whose send throws at once.
Result(throwing) ==
  IF limited THEN "rate_limited"
  ELSE IF OpenPages = {} THEN "no_clients"
  ELSE IF OpenPages \subseteq throwing THEN "error"
  ELSE "queued"

Commits(result) == result \in {"queued", "no_clients"}

\* The baseline a tick compares with: none after the generation moved.
Baseline == IF voided THEN Unsaid ELSE baseline

TickQuiet ==
  /\ current = Baseline
  /\ voided' = FALSE
  /\ baseline' = Baseline
  /\ UNCHANGED <<current, conn, frames, lastPush, limited, writeFaults>>

TickPushes(throwing) ==
  /\ current # Baseline
  /\ \A c \in OpenPages : limited \/ Len(frames[c]) < MaxQueued
  /\ limited => throwing = {}
  /\ throwing \subseteq OpenPages
  /\ throwing # {} => writeFaults < MaxWriteFaults
  /\ LET result == Result(throwing)
         sent == IF limited THEN {} ELSE OpenPages \ throwing
     IN /\ Dropped(throwing)
        /\ frames' = [c \in PageIds |->
             CASE c \in throwing -> <<>>
               [] c \in sent -> Append(frames[c], current)
               [] OTHER -> frames[c]]
        /\ baseline' = IF Commits(result) THEN current ELSE Baseline
  /\ voided' = FALSE
  /\ limited' = TRUE
  /\ writeFaults' = writeFaults + (IF throwing = {} THEN 0 ELSE 1)
  /\ UNCHANGED current

\* The agent's state changes: a call, a dispatch, a signal, or time alone.
StateChanges ==
  /\ current' \in States \ {current}
  /\ UNCHANGED <<conn, frames, lastPush, baseline, voided, limited, writeFaults>>

WindowPasses ==
  /\ limited
  /\ limited' = FALSE
  /\ UNCHANGED <<current, conn, frames, lastPush, baseline, voided, writeFaults>>

StateTick == TickQuiet \/ \E throwing \in SUBSET PageIds : TickPushes(throwing)

DashNext ==
  \/ \E c \in PageIds :
       Connect(c) \/ StartsClosing(c) \/ SocketCloses(c) \/ FrameLands(c) \/ WriteFails(c)
  \/ TickQuiet
  \/ \E throwing \in SUBSET PageIds : TickPushes(throwing)
  \/ StateChanges
  \/ WindowPasses

\* The timer fires, a tick finds the limiter's window over again and again (the
\* default interval is 30 s), and a socket that stays open delivers.
DashFairness ==
  /\ SF_dashVars(~limited /\ StateTick)
  /\ WF_dashVars(WindowPasses)
  /\ \A c \in PageIds : WF_dashVars(FrameLands(c))

DashSpec == DashInit /\ [][DashNext]_dashVars /\ DashFairness

-----------------------------------------------------------------------------
(* Correctness.                                                            *)

DashTypeOK ==
  /\ current \in States
  /\ conn \in [PageIds -> Sockets]
  /\ frames \in [PageIds -> Seq(States)]
  /\ lastPush \in [PageIds -> States \cup {Unsaid}]
  /\ \A c \in PageIds : conn[c] = "none" => frames[c] = <<>> /\ lastPush[c] = Unsaid
  /\ \A c \in PageIds : Len(frames[c]) <= MaxQueued
  /\ baseline \in States \cup {Unsaid}
  /\ voided \in BOOLEAN /\ limited \in BOOLEAN
  /\ writeFaults \in 0..MaxWriteFaults

\* What a page will have been told once everything queued to it has landed.
Heard(c) == IF frames[c] = <<>> THEN lastPush[c] ELSE Last(frames[c])

\* A baseline that stands is what every open page was told last: no page that connected
\* since, and none that lost its frame, is left out of a state recorded as pushed.
BaselineWasPushed ==
  ~voided /\ baseline # Unsaid => \A c \in OpenPages : Heard(c) = baseline

\* The promise of the push timer: its baseline is a state the pages were pushed
\* (dashboard-state-broadcaster.ts).
BaselineTrue == DashTypeOK /\ BaselineWasPushed

\* A state is never lost beyond a tick: once the agent's state and the pages stop
\* changing, every open page has been told the state, whatever the limiter dropped.
PagesCatchUp ==
  <>[][FALSE]_<<current, conn>> => <>[](\A c \in OpenPages : lastPush[c] = current)

=============================================================================
