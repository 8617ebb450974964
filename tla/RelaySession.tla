------------------------------ MODULE RelaySession ------------------------------
(***************************************************************************)
(* Sessions: which window holds a name, and who may end its hold.          *)
(*                                                                         *)
(* A window is an agent process; its stdio connector is a child of it with *)
(* a database connection of its own.  Every window here runs under one     *)
(* name: two terminals, a relaunch, a resumed conversation.  A window      *)
(* registers through its connector or through the daemon (its hook's       *)
(* call); between the handler's read of the row and the update that takes  *)
(* it, the other processes commit.                                         *)
(***************************************************************************)
EXTENDS Naturals, FiniteSets

CONSTANTS
  Windows,       \* agent processes, each with a pid of its own
  MaxSessions,   \* bound: sessions minted
  MaxStarts      \* bound: starts of a connector of one window

NoPid == "none"   \* agent_pid is NULL

ASSUME SessionBounds == MaxSessions \in Nat \ {0} /\ MaxStarts \in Nat \ {0} /\ NoPid \notin Windows

VARIABLES
  agent,     \* agents: the session and liveness columns of the row of the name
  win,       \* the windows and their connectors
  reg,       \* a registration between its read and its write, per window
  release,   \* relay release-binding between its probe and its update
  spawn,     \* spawn_agent between its registration and the launch
  sessions   \* sessions minted so far

sessVars == <<agent, win, reg, release, spawn, sessions>>

Sids == 1 .. MaxSessions
NoSid == 0

(***************************************************************************)
(* pid, start: agent_pid (the window it names) and whether its start token *)
(* is recorded.  recent: last_seen is under 120 s old.  by, for the        *)
(* properties only: the window the session was given to.                   *)
(***************************************************************************)
SessRow == [there : BOOLEAN, sess : Sids \cup {NoSid}, pid : Windows \cup {NoPid}, start : BOOLEAN,
            recent : BOOLEAN, by : Windows \cup {NoPid}]
Absent == [there |-> FALSE, sess |-> NoSid, pid |-> NoPid, start |-> FALSE,
           recent |-> FALSE, by |-> NoPid]

(***************************************************************************)
(* up: the agent process runs; reused: its pid is another process's.       *)
(* conn: its connector runs; seen: the connector found the agent among its *)
(* ancestors; captured: capturedSessionId.                                 *)
(***************************************************************************)
Window == [up : BOOLEAN, reused : BOOLEAN, conn : BOOLEAN, starts : 0 .. MaxStarts,
           seen : BOOLEAN, captured : Sids \cup {NoSid}]

Reg == [stage : {"idle", "writing"}, force : BOOLEAN, expect : Sids \cup {NoSid}]
IdleReg == [stage |-> "idle", force |-> FALSE, expect |-> NoSid]

Release == [stage : {"idle", "probed"}, override : BOOLEAN, sess : Sids \cup {NoSid},
            pid : Windows \cup {NoPid}, start : BOOLEAN]
IdleRelease == [stage |-> "idle", override |-> FALSE, sess |-> NoSid,
                pid |-> NoPid, start |-> FALSE]

Spawn == [stage : {"idle", "vault"}, sess : Sids \cup {NoSid}]
IdleSpawn == [stage |-> "idle", sess |-> NoSid]

\* No session without its mint, no anchor without a window, no start token without its pid.
SessTypeOK ==
  /\ agent \in SessRow
  /\ agent.sess <= sessions
  /\ agent.start => agent.pid # NoPid
  /\ ~agent.there => agent = Absent
  /\ win \in [Windows -> Window]
  /\ reg \in [Windows -> Reg]
  /\ release \in Release /\ spawn \in Spawn
  /\ sessions \in 0 .. MaxSessions

SessInit ==
  /\ agent = Absent
  /\ win = [w \in Windows |-> [up |-> FALSE, reused |-> FALSE, conn |-> FALSE, starts |-> 0,
                               seen |-> FALSE, captured |-> NoSid]]
  /\ reg = [w \in Windows |-> IdleReg]
  /\ release = IdleRelease /\ spawn = IdleSpawn
  /\ sessions = 0

------------------------------------------------------------------------------
(* Rows *)

\* isNameActivelyHeld
Held(r) == r.there /\ r.sess # NoSid /\ r.recent

Inserted(s, w) == [Absent EXCEPT !.there = TRUE, !.sess = s, !.by = w, !.recent = TRUE]

\* registerAgent: a new row, or a new session on the row there is; its anchor stays.
Taken(r, s, w) == IF r.there THEN [r EXCEPT !.sess = s, !.by = w, !.recent = TRUE] ELSE Inserted(s, w)

\* setAgentLivenessAnchor: by name, whoever holds it.
Anchored(r, w, start) == IF r.there THEN [r EXCEPT !.pid = w, !.start = start] ELSE r

\* The session and the anchor are cleared, the identity stays.
Cleared(r) == [r EXCEPT !.sess = NoSid, !.by = NoPid, !.pid = NoPid, !.start = FALSE]

------------------------------------------------------------------------------
(* Probes of a process *)

\* agentProcessState: no such pid is dead, a pid whose start differs is dead, a start that
\* cannot be read leaves it alive; the kernel may not say.
ProcessState(w, start) ==
  {"unknown"} \cup
  (IF win[w].up THEN {"alive"}
   ELSE IF ~win[w].reused THEN {"dead"}
   ELSE IF start THEN {"dead", "alive"} ELSE {"alive"})

\* anchorLivenessVerdict
AnchorVerdict(r) ==
  IF r.pid # NoPid
  THEN {IF v = "unknown" THEN "unverifiable" ELSE v : v \in ProcessState(r.pid, r.start)}
  ELSE {"unverifiable"}

------------------------------------------------------------------------------
(* Windows *)

\* startStdioServer: the row's session is captured, the agent process looked for among the
\* ancestors and, when found, stamped on the row of its name.
ConnectorStarts(w) ==
  /\ ~win[w].conn /\ win[w].starts < MaxStarts /\ ~win[w].reused
  /\ win[w].starts > 0 => win[w].up
  /\ \E found \in BOOLEAN :
       /\ win' = [win EXCEPT ![w].up = TRUE, ![w].conn = TRUE, ![w].starts = @ + 1, ![w].seen = found,
                             ![w].captured = agent.sess]
       /\ agent' = IF found THEN Anchored(agent, w, TRUE) ELSE agent
  /\ UNCHANGED <<reg, release, spawn, sessions>>

\* The agent process exits or is killed; its connector may outlive it a while.
WindowDies(w) ==
  /\ win[w].up
  /\ win' = [win EXCEPT ![w].up = FALSE]
  /\ UNCHANGED <<agent, reg, release, spawn, sessions>>

PidReused(w) ==
  /\ ~win[w].up /\ win[w].starts > 0 /\ ~win[w].reused /\ ~win[w].conn
  /\ win' = [win EXCEPT ![w].reused = TRUE]
  /\ UNCHANGED <<agent, reg, release, spawn, sessions>>

\* Mutant: a signal to the connector is taken for the death of the agent.
OwnAnchorDead_Signalled(w) == agent.pid = w /\ agent.start

\* The row is anchored on this connector's own agent process, and that process is gone.
OwnAnchorDead(w) == /\ agent.pid = w /\ agent.start
                    /\ "dead" \in AnchorVerdict(agent)

\* performAutoUnregister, endAgentSessionOnSignal: it also runs when only the connector is signalled.
Signalled(w) ==
  /\ win[w].conn
  /\ win' = [win EXCEPT ![w].conn = FALSE, ![w].captured = NoSid, ![w].seen = FALSE]
  /\ reg' = [reg EXCEPT ![w] = IdleReg]
  /\ \/ /\ win[w].captured # NoSid /\ agent.sess = win[w].captured /\ win[w].seen
        /\ OwnAnchorDead(w)
        /\ agent' = Cleared(agent)
     \/ agent' = agent
  /\ UNCHANGED <<release, spawn, sessions>>

------------------------------------------------------------------------------
(* register_agent *)

\* handleRegisterAgent reads the row: not held, it may be taken.  A name held is refused, or, for
\* the holder itself, refreshed with its session kept.
RegisterReads(w) ==
  /\ reg[w].stage = "idle" /\ win[w].up /\ sessions < MaxSessions
  /\ ~Held(agent)
  /\ reg' = [reg EXCEPT ![w] = [IdleReg EXCEPT !.stage = "writing"]]
  /\ UNCHANGED <<agent, win, release, spawn, sessions>>

\* force = true, with the session the caller read from the row.
ForceReads(w) ==
  /\ reg[w].stage = "idle" /\ win[w].up /\ sessions < MaxSessions
  /\ agent.there
  /\ reg' = [reg EXCEPT ![w] = [IdleReg EXCEPT !.stage = "writing", !.force = TRUE,
                                               !.expect = agent.sess]]
  /\ UNCHANGED <<agent, win, release, spawn, sessions>>

\* The update of a forced registration matches the row only on the session it expects.
CasHolds(g) == g.force => agent.there /\ agent.sess = g.expect

\* registerAgent, then what the handler stamps: through the connector its captured session and
\* the process it found; through the daemon the anchor the caller reports, if any.
RegisterWrites(w) ==
  LET t == Taken(agent, sessions + 1, w) IN
  /\ reg[w].stage = "writing" /\ sessions < MaxSessions /\ CasHolds(reg[w])
  /\ sessions' = sessions + 1
  /\ reg' = [reg EXCEPT ![w] = IdleReg]
  /\ \/ /\ win[w].conn
        /\ win' = [win EXCEPT ![w].captured = sessions + 1]
        /\ agent' = IF win[w].seen THEN Anchored(t, w, TRUE) ELSE t
     \/ /\ win' = win
        /\ agent' \in {t, Anchored(t, w, FALSE), Anchored(t, w, TRUE)}
  /\ UNCHANGED <<release, spawn>>

\* FORCE_PRECONDITION_FAILED, or the window is gone before its call is served.
RegisterRefused(w) ==
  /\ reg[w].stage = "writing" /\ (~CasHolds(reg[w]) \/ ~win[w].up)
  /\ reg' = [reg EXCEPT ![w] = IdleReg]
  /\ UNCHANGED <<agent, win, release, spawn, sessions>>

------------------------------------------------------------------------------
(* Calls, reports, mail *)

\* touchAgent: a call of a live window under the name.
Touch ==
  /\ agent.there /\ ~agent.recent /\ \E w \in Windows : win[w].up
  /\ agent' = [agent EXCEPT !.recent = TRUE]
  /\ UNCHANGED <<win, reg, release, spawn, sessions>>

\* 120 s pass without a call.
GoesQuiet ==
  /\ agent.recent
  /\ agent' = [agent EXCEPT !.recent = FALSE]
  /\ UNCHANGED <<win, reg, release, spawn, sessions>>

\* report_liveness, served by the daemon.
ReportLiveness(w) ==
  /\ win[w].up /\ agent.there
  /\ \E start \in BOOLEAN : agent' = Anchored(agent, w, start)
  /\ UNCHANGED <<win, reg, release, spawn, sessions>>

------------------------------------------------------------------------------
(* relay release-binding, unregister_agent, spawn_agent *)

\* The CLI reads the row and probes its anchor; without --override only a dead one goes on.
ReleaseProbes(override) ==
  /\ release.stage = "idle" /\ spawn.stage = "idle" /\ agent.there /\ agent.pid # NoPid
  /\ override \/ "dead" \in AnchorVerdict(agent)
  /\ release' = [stage |-> "probed", override |-> override,
                 sess |-> agent.sess, pid |-> agent.pid, start |-> agent.start]
  /\ UNCHANGED <<agent, win, reg, spawn, sessions>>

\* The row still carries the binding that was probed.
StillProbed(r) == /\ r.there /\ r.sess = release.sess
                  /\ r.pid = release.pid /\ r.start = release.start

ReleaseWrites ==
  /\ release.stage = "probed"
  /\ release' = IdleRelease
  /\ agent' = IF StillProbed(agent) THEN Cleared(agent) ELSE agent
  /\ UNCHANGED <<win, reg, spawn, sessions>>

UnregisterAgent ==
  /\ agent.there
  /\ agent' = Absent
  /\ UNCHANGED <<win, reg, release, spawn, sessions>>

\* handleSpawnAgent registers the child, then awaits the vault.
SpawnRegisters ==
  /\ spawn.stage = "idle" /\ release.stage = "idle" /\ ~agent.there /\ sessions < MaxSessions
  /\ sessions' = sessions + 1
  /\ agent' = Inserted(sessions + 1, NoPid)
  /\ spawn' = [stage |-> "vault", sess |-> sessions + 1]
  /\ UNCHANGED <<win, reg, release>>

\* The row still carries the session the spawn registered.
SpawnsSession(r) == r.there /\ r.sess = spawn.sess

\* The driver launched: the row is left reserved for the child's own registration.
SpawnLaunches ==
  /\ spawn.stage = "vault"
  /\ agent' = IF SpawnsSession(agent) THEN Cleared(agent) ELSE agent
  /\ spawn' = IdleSpawn
  /\ UNCHANGED <<win, reg, release, sessions>>

\* The vault, the second authorization or the driver fails: rollbackChild.
SpawnRollsBack ==
  /\ spawn.stage = "vault"
  /\ agent' = IF SpawnsSession(agent) THEN Absent ELSE agent
  /\ spawn' = IdleSpawn
  /\ UNCHANGED <<win, reg, release, sessions>>

------------------------------------------------------------------------------
SessNext ==
  \/ \E w \in Windows : \/ ConnectorStarts(w) \/ WindowDies(w) \/ PidReused(w) \/ Signalled(w)
                        \/ RegisterReads(w) \/ ForceReads(w) \/ RegisterWrites(w) \/ RegisterRefused(w)
                        \/ ReportLiveness(w)
  \/ Touch \/ GoesQuiet \/ UnregisterAgent
  \/ \E o \in BOOLEAN : ReleaseProbes(o)
  \/ ReleaseWrites
  \/ SpawnRegisters \/ SpawnLaunches \/ SpawnRollsBack

SessSpec == SessInit /\ [][SessNext]_sessVars

------------------------------------------------------------------------------
(* Properties *)

\* A signal to a connector ends a session only when the agent process it is anchored on is
\* gone: an agent that outlives its MCP server keeps its session (ADR-0042 R1).
SignalSparesTheLiving == [][\A w \in Windows :
  (win[w].conn /\ ~win'[w].conn /\ win[w].up) => agent' = agent]_sessVars

\* A release that was not overridden never clears a binding whose anchored process lives:
\* a relaunch that rebinds between the probe and the update keeps its binding.
ReleaseSparesRebound == [][
  (/\ release.stage = "probed" /\ release'.stage = "idle" /\ ~release.override
   /\ agent'.sess # agent.sess) =>
     ~(agent.pid # NoPid /\ agent.start /\ win[agent.pid].up)]_sessVars

\* Of two forced takeovers that read one session, one wins: the update replaces only the
\* session its caller read (ADR-0012).
ForceTakesWhatItRead == [][\A w \in Windows :
  (reg[w].force /\ reg[w].stage = "writing" /\ sessions' > sessions /\ reg'[w].stage = "idle") =>
     agent.sess = reg[w].expect]_sessVars

\* A spawn that fails, or succeeds, touches the row only while it is the one it registered: a
\* session taken on the name during the vault write is neither deleted nor ended.
SpawnTouchesItsOwn == [][
  (spawn.stage = "vault" /\ spawn'.stage = "idle" /\ agent' # agent) =>
     agent.sess = spawn.sess]_sessVars

\* The promises of a window's hold on a name: a signal, a release, a forced register and
\* a spawn end only the hold they were aimed at (db.ts, transport/stdio.ts).
HoldsRespected ==
  /\ []SessTypeOK /\ SignalSparesTheLiving /\ ReleaseSparesRebound
  /\ ForceTakesWhatItRead /\ SpawnTouchesItsOwn

(* What the code says and does not do *)

\* "clear MY session identity, not someone else's": a signal ends a session its window was given.
EndsOnlyItsOwn == [][\A w \in Windows :
  (win[w].conn /\ ~win'[w].conn /\ agent'.sess # agent.sess) => agent.by = w]_sessVars

==============================================================================
