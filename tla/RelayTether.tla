------------------------------ MODULE RelayTether ------------------------------
(***************************************************************************)
(* The editor extension's link to the relay: connect(), which tears one    *)
(* MCP client down and sets the next one up over several awaits, the       *)
(* ConnectionLifecycle that tells an unexpected close from its own, the    *)
(* ReconnectSupervisor with its timer, and the health poll.                *)
(*                                                                         *)
(* connect() runs for the supervisor's timer, at activation, for the       *)
(* Reconnect command and for a changed setting; nothing keeps two of them  *)
(* apart, so a supervised and an external one overlap step by step.  The   *)
(* MCP SDK is outside the code: a transport fails with onerror, with a     *)
(* bare onclose when its stream just ends, or with neither when a request  *)
(* times out.  Delays and back-off leave only their order.                 *)
(***************************************************************************)
EXTENDS Naturals, FiniteSets

CONSTANTS
  Transports,   \* the transports alive at once
  External,     \* who calls connect() besides the supervisor
  LinkFaults,   \* the faults of a connection the daemon still holds
  MaxStops,     \* how often the daemon stops
  MaxExternal,  \* how many external connects
  FailThreshold \* failed probes before the poll hands over

ASSUME TetherBounds ==
  /\ External \subseteq {"initial", "manual", "config"}
  /\ LinkFaults \subseteq {"timeout", "streamRefused", "tokenRefused"}
  /\ MaxStops \in Nat /\ MaxExternal \in Nat
  /\ FailThreshold \in Nat \ {0}

VARIABLES
  daemon,  \* [up, stops]: the relay daemon
  link,    \* transport -> "gone", "shaking", "open", "live", "mute" or "lost"
  guard,   \* ConnectionLifecycle: [current, connecting, intentional]
  client,  \* mcpClient and mcpTransport
  call,    \* the connect() under way of the supervisor and of the others
  super,   \* ReconnectSupervisor: [pending, superseded, disposed]
  shown,   \* connectionErrorState, as the status bar paints it
  poll,    \* the health poll: Stopped, or the failures it counted
  budget   \* external connects and link faults left

tetherVars == <<daemon, link, guard, client, call, super, shown, poll, budget>>

None == "none"
Stopped == FailThreshold + 1
Callers == {"supervisor", "external"}
NotCalling == [pc |-> "idle", kind |-> None, via |-> None]
LinkStates == {"gone", "shaking", "open", "live", "mute", "lost"}

TetherTypeOK ==
  /\ daemon \in [up : BOOLEAN, stops : 0 .. MaxStops]
  /\ link \in [Transports -> LinkStates]
  /\ guard \in [current : Transports \cup {None},
                connecting : Transports \cup {None}, intentional : BOOLEAN]
  /\ client \in Transports \cup {None}
  /\ call \in [Callers -> [pc : {"idle", "closing", "shaking", "subscribing"},
                           kind : External \cup {None, "timer"},
                           via : Transports \cup {None}]]
  /\ super \in [pending : BOOLEAN, superseded : BOOLEAN, disposed : BOOLEAN]
  /\ shown \in {"ok", "reconnecting", "error"}
  /\ poll \in (0 .. FailThreshold - 1) \cup {Stopped}
  /\ budget \in [external : 0 .. MaxExternal, faults : 0 .. 1]

SupervisorTrying == call["supervisor"].pc # "idle"
Idle(c) == call[c].pc = "idle"

TetherInit ==
  /\ daemon = [up |-> TRUE, stops |-> 0]
  /\ link = [t \in Transports |-> "gone"]
  /\ guard = [current |-> None, connecting |-> None, intentional |-> FALSE]
  /\ client = None
  /\ call = [c \in Callers |-> NotCalling]
  /\ super = [pending |-> FALSE, superseded |-> FALSE, disposed |-> FALSE]
  /\ shown = "ok"
  /\ poll = Stopped
  /\ budget = [external |-> MaxExternal, faults |-> 1]

-----------------------------------------------------------------------------
(* The supervisor. *)

\* Single flight: a timer is armed only when none is and no attempt awaits.
MaySchedule(inFlight) == ~super.disposed /\ ~super.pending /\ ~inFlight

\* scheduleReconnect(), which also paints "reconnecting": sup is what the
\* supervisor's state is by then.
Schedule(inFlight, sup) ==
  IF MaySchedule(inFlight)
    THEN super' = [sup EXCEPT !.pending = TRUE] /\ shown' = "reconnecting"
    ELSE super' = sup /\ UNCHANGED shown

\* handleError() for an error that another attempt may cure.
HandleError == Schedule(SupervisorTrying, super)

\* cancel(): the timer goes, and an attempt under way no longer reports.
Cancelled == [super EXCEPT !.pending = FALSE, !.superseded = SupervisorTrying]

-----------------------------------------------------------------------------
(* connect(), one step for each stretch between two awaits. *)

\* The first stretch: the flag goes up, the poll stops, and the old client's
\* close, which the flag swallows, starts.
Begin(c, k, sup) ==
  /\ call' = [call EXCEPT ![c] = [pc |-> "closing", kind |-> k, via |-> None]]
  /\ guard' = [guard EXCEPT !.intentional = TRUE, !.current = None]
  /\ link' = IF client = None THEN link ELSE [link EXCEPT ![client] = "gone"]
  /\ poll' = Stopped
  /\ super' = sup
  /\ UNCHANGED <<daemon, client, shown>>

\* fire(): the timer of the supervisor.
Fire ==
  /\ super.pending
  /\ Begin("supervisor", "timer",
           [super EXCEPT !.pending = FALSE, !.superseded = FALSE])
  /\ UNCHANGED budget

\* Activation, the Reconnect command, or a changed setting.
Connect(k) ==
  /\ Idle("external") /\ ~super.disposed /\ budget.external > 0
  /\ k = "initial" <=> budget.external = MaxExternal
  /\ Begin("external", k, IF k = "manual" THEN Cancelled ELSE super)
  /\ budget' = [budget EXCEPT !.external = @ - 1]

\* A transport no one holds on to.
Unused(t) ==
  /\ link[t] = "gone"
  /\ t \notin {guard.current, guard.connecting, client}
  /\ \A c \in Callers : call[c].via # t

\* establish() binds the new transport before it connects it, and lowers the
\* flag so that a close of the new one counts.
Bound(t) == [guard EXCEPT !.connecting = t, !.intentional = FALSE]

\* The old client is forgotten, whichever it is by now, the error state is
\* reset, and the handshake of a new transport starts.
Establish(c) ==
  /\ call[c].pc = "closing"
  /\ LET t == CHOOSE u \in Transports : Unused(u) IN
       /\ \E u \in Transports : Unused(u)
       /\ call' = [call EXCEPT ![c].pc = "shaking", ![c].via = t]
       /\ link' = [link EXCEPT ![t] = "shaking"]
       /\ guard' = Bound(t)
  /\ client' = None
  /\ shown' = "ok"
  /\ UNCHANGED <<daemon, super, poll, budget>>

\* The handshake succeeds: the transport is the current one and the client's.
Shaken(c) ==
  /\ call[c].pc = "shaking" /\ daemon.up
  /\ LET t == call[c].via IN
       /\ link' = [link EXCEPT ![t] = "open"]
       /\ guard' = [guard EXCEPT !.current = t, !.connecting = None]
       /\ client' = t
  /\ call' = [call EXCEPT ![c].pc = "subscribing"]
  /\ UNCHANGED <<daemon, super, shown, poll, budget>>

\* What the caller does with an attempt that threw: the supervisor arms its
\* next timer unless it was superseded, activation hands the error over, and
\* the others have only what onerror did.
Thrown(c) ==
  IF c = "supervisor"
    THEN IF super.superseded THEN UNCHANGED <<super, shown>>
                             ELSE Schedule(FALSE, super)
    ELSE HandleError

\* establish() unbinds the transport whose handshake failed.
Unbound(t) ==
  IF guard.connecting = t THEN [guard EXCEPT !.connecting = None] ELSE guard

\* The handshake fails, through onerror, and the attempt throws.
ShakeFails(c) ==
  /\ call[c].pc = "shaking" /\ ~daemon.up
  /\ link' = [link EXCEPT ![call[c].via] = "gone"]
  /\ guard' = Unbound(call[c].via)
  /\ call' = [call EXCEPT ![c] = NotCalling]
  /\ Thrown(c)
  /\ UNCHANGED <<daemon, client, poll, budget>>

\* A subscription or a first read fails, through onerror, and the attempt
\* throws.
SubscribeFails(c) ==
  /\ call[c].pc = "subscribing"
  /\ ~daemon.up \/ link[call[c].via] \in {"lost", "gone"}
  /\ call' = [call EXCEPT ![c] = NotCalling]
  /\ Thrown(c)
  /\ UNCHANGED <<daemon, link, guard, client, poll, budget>>

\* A request of the connect that no one answers: it times out without an
\* onerror, and only the supervisor and activation hear of it.
SubscribeTimesOut(c) ==
  /\ "timeout" \in LinkFaults /\ budget.faults > 0
  /\ call[c].pc = "subscribing" /\ daemon.up
  /\ link[call[c].via] \in {"open", "mute"}
  /\ budget' = [budget EXCEPT !.faults = @ - 1]
  /\ call' = [call EXCEPT ![c] = NotCalling]
  /\ IF c = "supervisor" \/ call[c].kind = "initial"
       THEN Thrown(c) ELSE UNCHANGED <<super, shown>>
  /\ UNCHANGED <<daemon, link, guard, client, poll>>

\* What the caller does with an attempt that returned.
Returned(c) ==
  IF shown = "ok"
    THEN /\ super' = IF c = "external" /\ call[c].kind # "config"
                       THEN Cancelled ELSE super
         /\ UNCHANGED shown
    ELSE IF c = "supervisor" /\ ~super.superseded THEN Schedule(FALSE, super)
    ELSE IF c = "external" /\ call[c].kind # "config" THEN HandleError
    ELSE UNCHANGED <<super, shown>>

\* Every inbox is subscribed and read; unless an error came meanwhile the
\* poll starts.
Subscribed(c) ==
  /\ call[c].pc = "subscribing" /\ daemon.up
  /\ link[call[c].via] \in {"open", "mute"}
  /\ link' = [link EXCEPT ![call[c].via] = IF @ = "open" THEN "live" ELSE @]
  /\ poll' = IF shown = "ok" THEN 0 ELSE poll
  /\ call' = [call EXCEPT ![c] = NotCalling]
  /\ Returned(c)
  /\ UNCHANGED <<daemon, guard, client, budget>>

-----------------------------------------------------------------------------
(* The transports and the daemon. *)

ShouldReconnect(t) ==
  ~guard.intentional /\ t \in {guard.current, guard.connecting} \ {None}

\* A stream the daemon dropped ends as a close, which counts only for the
\* transport in use.
Closes(t) ==
  /\ link[t] = "lost"
  /\ link' = [link EXCEPT ![t] = "gone"]
  /\ IF ShouldReconnect(t) THEN HandleError ELSE UNCHANGED <<super, shown>>
  /\ UNCHANGED <<daemon, guard, client, call, poll, budget>>

\* Or as an error, which counts whichever transport it is.
Errs(t) ==
  /\ link[t] = "lost"
  /\ link' = [link EXCEPT ![t] = "gone"]
  /\ HandleError
  /\ UNCHANGED <<daemon, guard, client, call, poll, budget>>

\* The daemon refuses the notification stream of a session it serves: an
\* onerror, while the requests of the session succeed.
StreamRefused(t) ==
  /\ "streamRefused" \in LinkFaults /\ budget.faults > 0
  /\ link[t] = "open" /\ daemon.up
  /\ budget' = [budget EXCEPT !.faults = @ - 1]
  /\ link' = [link EXCEPT ![t] = "mute"]
  /\ HandleError
  /\ UNCHANGED <<daemon, guard, client, call, poll>>

\* A handshake refused for its token: the one error that asks for the
\* operator, but the supervisor's own attempt throws too and is tried again.
TokenRefused(c) ==
  /\ "tokenRefused" \in LinkFaults /\ budget.faults > 0
  /\ call[c].pc = "shaking" /\ daemon.up
  /\ budget' = [budget EXCEPT !.faults = @ - 1]
  /\ link' = [link EXCEPT ![call[c].via] = "gone"]
  /\ guard' = Unbound(call[c].via)
  /\ call' = [call EXCEPT ![c] = NotCalling]
  /\ IF c = "supervisor" /\ ~super.superseded /\ MaySchedule(FALSE)
       THEN Schedule(FALSE, super)
       ELSE shown' = "error" /\ UNCHANGED super
  /\ UNCHANGED <<daemon, client, poll>>

\* The daemon stops, and the sessions it served end with it.
DaemonStops ==
  /\ daemon.up /\ daemon.stops < MaxStops
  /\ daemon' = [up |-> FALSE, stops |-> daemon.stops + 1]
  /\ link' = [t \in Transports |->
                IF link[t] \in {"open", "live", "mute"} THEN "lost" ELSE link[t]]
  /\ UNCHANGED <<guard, client, call, super, shown, poll, budget>>

DaemonStarts ==
  /\ ~daemon.up
  /\ daemon' = [daemon EXCEPT !.up = TRUE]
  /\ UNCHANGED <<link, guard, client, call, super, shown, poll, budget>>

-----------------------------------------------------------------------------
(* The health poll and the end of the extension. *)

\* At the threshold the poll stops and the supervisor takes over.
PollAfter(failures) == IF failures = FailThreshold THEN Stopped ELSE failures

\* A tick, skipped while a reconnect owns the recovery.
PollTick ==
  /\ poll # Stopped /\ shown = "ok"
  /\ poll' = IF daemon.up THEN 0 ELSE PollAfter(poll + 1)
  /\ IF ~daemon.up /\ poll + 1 = FailThreshold
       THEN HandleError ELSE UNCHANGED <<super, shown>>
  /\ UNCHANGED <<daemon, link, guard, client, call, budget>>

\* deactivate(): an attempt under way runs on and reports to no one.
Deactivate ==
  /\ ~super.disposed /\ budget.external < MaxExternal
  /\ super' = [Cancelled EXCEPT !.disposed = TRUE]
  /\ poll' = Stopped
  /\ guard' = [current |-> None, connecting |-> None, intentional |-> TRUE]
  /\ link' = IF client = None THEN link ELSE [link EXCEPT ![client] = "gone"]
  /\ client' = None
  /\ UNCHANGED <<daemon, call, shown, budget>>

Attempt(c) ==
  Establish(c) \/ Shaken(c) \/ ShakeFails(c) \/ SubscribeFails(c) \/ Subscribed(c)

TetherNext ==
  \/ Fire \/ PollTick \/ Deactivate \/ DaemonStops \/ DaemonStarts
  \/ \E k \in External : Connect(k)
  \/ \E c \in Callers : Attempt(c) \/ SubscribeTimesOut(c) \/ TokenRefused(c)
  \/ \E t \in Transports : Closes(t) \/ Errs(t) \/ StreamRefused(t)

\* Timers fire, requests are answered or fail, a stream that ended is noticed,
\* and the daemon is started again.
TetherFairness ==
  /\ WF_tetherVars(Fire) /\ WF_tetherVars(PollTick) /\ WF_tetherVars(DaemonStarts)
  /\ \A c \in Callers : WF_tetherVars(Attempt(c))
  /\ \A t \in Transports : WF_tetherVars(Closes(t) \/ Errs(t))

TetherSpec == TetherInit /\ [][TetherNext]_tetherVars /\ TetherFairness

-----------------------------------------------------------------------------
(* Properties. *)

\* The amber "reconnecting" is never shown idly: a timer is armed or an attempt
\* is under way (setReconnectingState, extension.ts).
ReconnectingIsDriven ==
  shown = "reconnecting" /\ ~super.disposed
    => super.pending \/ \E c \in Callers : ~Idle(c)

\* The stream the extension listens on: subscribed, and its end will count.
Attached ==
  shown = "ok" /\ guard.current # None /\ ~guard.intentional
    /\ link[guard.current] = "live"

\* Nothing is asked of the link: before activation, after deactivation, or with
\* the status bar asking for a manual Reconnect.
Waived ==
  budget.external = MaxExternal \/ super.disposed \/ shown = "error"

\* The three ways to miss a failure: an error dropped because an attempt was
\* under way, a request timed out under a changed setting, an attempt that no
\* longer reports after a manual Reconnect.
StreamDead ==
  \/ client # None /\ link[client] \in {"mute", "open"}
  \/ super.superseded

\* Once the daemon stays up the extension listens again for good, without
\* anybody's help; the failures it misses are the three of StreamDead
\* (reconnect-supervisor.ts, extension.ts connect()).
Recovers == <>[](Attached \/ Waived \/ StreamDead)

\* The promises of the extension's link: a reconnecting one is driven, and it recovers
\* (extension.ts, reconnect-supervisor.ts).
LinkRecovers ==
  /\ []TetherTypeOK /\ []ReconnectingIsDriven /\ Recovers

\* What the supervisor's header promises: a daemon that was down is retried
\* for ever until it returns (reconnect-supervisor.ts:21-24).
RetriedForever == <>[](Attached \/ Waived)

=============================================================================
