----------------------------- MODULE RelayPresence -----------------------------
(***************************************************************************)
(* Presence: what the daemon answers when it is asked whether an agent     *)
(* runs.                                                                   *)
(*                                                                         *)
(* The verdict is computed at every read from the anchor of the row, a     *)
(* probe of the process and a cache of the last probe that lives five      *)
(* seconds in the daemon's memory.  The connector of the agent and the     *)
(* command line write the same row from processes of their own: they drop  *)
(* their own caches, never the daemon's.  The statuses the surfaces show   *)
(* (agent list, topology, dashboard) are functions of verdict and row.     *)
(***************************************************************************)
EXTENDS Naturals

VARIABLES
  prow,    \* the row of one agent
  agentProc,    \* the agent process its anchors name
  cache,   \* _positiveProbeCache, _negativeProbeCache of the daemon, inside their window
  said     \* the daemon's last verdict

presVars == <<prow, agentProc, cache, said>>

Verdicts == {"alive", "dead", "unknown"}
Active == {"idle", "working"}
Stored == Active \cup {"offline", "closed"}

\* Age of last_seen against the windows of the dashboard: active < 30 s < fresh < 5 min < quiet
\* < 30 min < lapsed.
Ages == {"active", "fresh", "quiet", "lapsed"}

Row == [there : BOOLEAN, sess : BOOLEAN, host : {"own", "other", "none"}, pid : BOOLEAN,
        start : BOOLEAN, stored : Stored, signal : BOOLEAN, age : Ages, owed : BOOLEAN]
NoAgent == [there |-> FALSE, sess |-> FALSE, host |-> "none", pid |-> FALSE, start |-> FALSE,
            stored |-> "idle", signal |-> FALSE, age |-> "lapsed", owed |-> FALSE]

\* advertised: its command line names the agent.  reused: the pid is another process's now.
Proc == [state : {"up", "gone", "reused"}, advertised : BOOLEAN]

\* One cache entry at most: each of the two writes deletes the other.
Cache == {"none", "alive", "notAlive"}

PresTypeOK ==
  /\ prow \in Row /\ agentProc \in Proc /\ cache \in Cache /\ said \in Verdicts
  /\ prow.start => prow.pid
  /\ prow.sess \/ prow.pid => prow.there

PresInit == /\ prow = NoAgent /\ cache = "none" /\ said = "unknown"
            /\ agentProc = [state |-> "gone", advertised |-> FALSE]

------------------------------------------------------------------------------
(* The verdict *)

\* Mutant: a pid in use is the agent, whatever started it.
ProbeProcess_PidOnly == IF agentProc.state = "gone" THEN "dead" ELSE "alive"

\* agentProcessState of the anchor, the kernel answering: a start token that differs is death.
ProbeProcess ==
  CASE agentProc.state = "up" -> "alive"
    [] agentProc.state = "gone" -> "dead"
    [] agentProc.state = "reused" -> IF prow.start THEN "dead" ELSE "alive"

Advertised == agentProc.state = "up" /\ agentProc.advertised

\* The probe of computeLivenessVerdict: the anchor, then the scan of command lines.
ProbeAlive == (prow.pid /\ ProbeProcess = "alive") \/ Advertised

\* What is not alive is dead only if an anchor was there to probe.
NotAlive(r) == IF r.pid THEN "dead" ELSE "unknown"

Elsewhere == prow.host # "own"

\* computeLivenessVerdict, the cache first.
Verdict == CASE Elsewhere -> "unknown"
             [] ~Elsewhere /\ cache = "alive" -> "alive"
             [] ~Elsewhere /\ cache = "notAlive" -> NotAlive(prow)
             [] ~Elsewhere /\ cache = "none" -> IF ProbeAlive THEN "alive" ELSE NotAlive(prow)

\* What a read leaves in the cache.
Cached == IF Elsewhere \/ cache # "none" THEN cache ELSE IF ProbeAlive THEN "alive" ELSE "notAlive"

\* statusFromVerdict
StatusShown(v) == CASE v = "alive" -> "online" [] v = "dead" -> "offline" [] v = "unknown" -> "unknown"

\* deriveAgentStatus
DeriveStatus(stored, v) ==
  CASE stored = "offline" -> "offline"
    [] stored # "offline" /\ v = "alive" -> IF stored \in Active THEN stored ELSE "idle"
    [] stored # "offline" /\ v = "dead" -> "closed"
    [] stored # "offline" /\ v = "unknown" -> IF stored = "closed" THEN "closed" ELSE "unknown"

\* isAgentRoutable: the stored status, whatever the probe says.
Routable(r) == r.sess /\ r.stored \notin {"offline", "closed"}

\* toAgentWithStatus.alive
ListedAlive(r, v) == v = "alive" /\ DeriveStatus(r.stored, v) \in Active

\* buildAgentTopology leaves out what is dead.
InTopology(r, v) == r.there /\ StatusShown(v) # "offline"

\* deriveDashboardState; owed: mail is pending or a dispatch is recent.
DashboardState(r, v) ==
  CASE r.signal /\ v # "alive" -> "closed"
    [] ~(r.signal /\ v # "alive") /\ v = "dead" -> "closed"
    [] ~r.signal /\ v = "unknown" /\ r.age = "lapsed" -> "unknown"
    [] OTHER -> IF r.age \in {"quiet", "lapsed"} /\ r.owed THEN "stale"
                ELSE IF r.owed THEN "pending"
                ELSE IF r.age = "active" THEN "active" ELSE "waiting"

------------------------------------------------------------------------------
(* The agent process and time *)

ProcessStarts ==
  /\ agentProc.state = "gone"
  /\ \E a \in BOOLEAN : agentProc' = [state |-> "up", advertised |-> a]
  /\ UNCHANGED <<prow, cache, said>>

ProcessEnds ==
  /\ agentProc.state # "gone" /\ agentProc' = [state |-> "gone", advertised |-> FALSE]
  /\ UNCHANGED <<prow, cache, said>>

PidIsReused ==
  /\ agentProc.state = "gone" /\ agentProc' = [agentProc EXCEPT !.state = "reused"]
  /\ UNCHANGED <<prow, cache, said>>

\* LIVENESS_PROBE_CACHE_MS pass.
CacheLapses == cache # "none" /\ cache' = "none" /\ UNCHANGED <<prow, agentProc, said>>

Ageing == [a \in Ages |-> CASE a = "active" -> "fresh" [] a = "fresh" -> "quiet"
                            [] a \in {"quiet", "lapsed"} -> "lapsed"]

TimePasses ==
  /\ prow.there /\ prow' = [prow EXCEPT !.age = Ageing[@]]
  /\ UNCHANGED <<agentProc, cache, said>>

------------------------------------------------------------------------------
(* Writes of the row *)

\* The writer is the daemon, whose caches of the name it drops, or another process.
Drops(daemon) == cache' = IF daemon THEN "none" ELSE cache

\* statusAfterReregister
Restored(s) == IF s \in Active THEN s ELSE "idle"

\* registerAgent: a session, no signal; the anchor of the last one stays on the row.
Register(daemon) ==
  /\ \E h \in {"own", "other", "none"} :
       prow' = [prow EXCEPT !.there = TRUE, !.sess = TRUE, !.signal = FALSE, !.age = "active",
                            !.stored = Restored(@), !.host = IF h = "none" THEN @ ELSE h]
  /\ Drops(daemon) /\ UNCHANGED <<agentProc, said>>

\* setAgentLivenessAnchor of the running process, with or without its start token.
SetAnchor(daemon) ==
  /\ prow.there /\ agentProc.state = "up"
  /\ \E s \in BOOLEAN : prow' = [prow EXCEPT !.pid = TRUE, !.start = s,
                                             !.host = IF @ = "none" THEN "own" ELSE @]
  /\ Drops(daemon) /\ UNCHANGED <<agentProc, said>>

\* markAgentOffline and releaseAgentBinding store offline, closeAgentSession closed,
\* endAgentSessionOnSignal idle with a signal; all clear session and anchor.
EndSession(stored, signal, daemon) ==
  /\ prow.sess
  /\ prow' = [prow EXCEPT !.sess = FALSE, !.pid = FALSE, !.start = FALSE, !.stored = stored,
                          !.signal = @ \/ signal]
  /\ Drops(daemon) /\ UNCHANGED <<agentProc, said>>

Endings == {<<"offline", FALSE>>, <<"closed", FALSE>>, <<"closed", TRUE>>, <<"idle", TRUE>>}

Unregister(daemon) == prow.there /\ prow' = NoAgent /\ Drops(daemon) /\ UNCHANGED <<agentProc, said>>

\* set_status: the declared status only.
SetStatus(s) == /\ prow.there /\ prow' = [prow EXCEPT !.stored = s]
                /\ UNCHANGED <<agentProc, cache, said>>

\* touchAgent
TouchAgent == prow.there /\ prow' = [prow EXCEPT !.age = "active"] /\ UNCHANGED <<agentProc, cache, said>>

\* Mail waits or a dispatch is recent (markRecipientDispatched), or no longer.
Owes == prow.there /\ prow' = [prow EXCEPT !.owed = ~@] /\ UNCHANGED <<agentProc, cache, said>>

------------------------------------------------------------------------------
(* Reads *)

\* get_agents, health_check, whoami, the dashboard's snapshot: nothing of the row is written.
DaemonReads ==
  /\ prow.there
  /\ said' = Verdict /\ cache' = Cached
  /\ UNCHANGED <<prow, agentProc>>

\* The kernel does not judge the anchor: unknown, and nothing is cached.
ProbeUnanswered ==
  /\ prow.there /\ ~Elsewhere /\ cache = "none" /\ prow.pid /\ ~Advertised
  /\ said' = "unknown" /\ UNCHANGED <<prow, agentProc, cache>>

------------------------------------------------------------------------------
PresNext ==
  \/ ProcessStarts \/ ProcessEnds \/ PidIsReused \/ CacheLapses \/ TimePasses
  \/ \E d \in BOOLEAN : \/ Register(d) \/ SetAnchor(d) \/ Unregister(d)
                        \/ \E e \in Endings : EndSession(e[1], e[2], d)
  \/ TouchAgent \/ Owes
  \/ \E s \in Active \cup {"offline"} : SetStatus(s)
  \/ DaemonReads \/ ProbeUnanswered

\* Time passes, and the dashboard polls.
PresFairness == WF_presVars(CacheLapses) /\ WF_presVars(DaemonReads)

PresSpec == PresInit /\ [][PresNext]_presVars /\ PresFairness

------------------------------------------------------------------------------
(* Properties *)

\* No surface calls an agent dead or alive against another: while the verdict is death the list
\* shows a terminal status and the dashboard closed, and while it is life the dashboard never
\* shows closed, whatever signal or status was stored before.
SurfacesAgree ==
  prow.there =>
    /\ Verdict = "dead" => /\ DeriveStatus(prow.stored, Verdict) \in {"offline", "closed"}
                           /\ DashboardState(prow, Verdict) = "closed"
                           /\ ~InTopology(prow, Verdict)
    /\ Verdict = "alive" => /\ DashboardState(prow, Verdict) # "closed"
                            /\ ListedAlive(prow, Verdict) \/ prow.stored = "offline"

\* "Never guessed dead": an agent whose row names no process of this host is not called dead,
\* not even from a probe of an anchor it had before.
DeathNeedsAnchor == [][said' = "dead" /\ said # "dead" => prow.pid /\ prow.host = "own"]_presVars

AnchorStored == prow.there /\ prow.pid /\ prow.start /\ prow.host = "own"

\* An anchored process that died is found out although the last probe found it alive, and one
\* that lives is, although the last probe found it dead: no cached answer stays.
CrashFound == []<>(said = "dead" \/ ~AnchorStored \/ agentProc.state = "up")
LifeFound == []<>(said = "alive" \/ ~AnchorStored \/ agentProc.state # "up")

\* The promises of presence: the surfaces agree, death needs an anchor, a crash and a life
\* are found (liveness.ts, db.ts).
PresenceTrue ==
  /\ []PresTypeOK /\ []SurfacesAgree /\ DeathNeedsAnchor /\ CrashFound /\ LifeFound

(* What the code says and does not do *)

\* "Only a positive dead signal - agent_pid present, same host, and the process confirmed gone -
\* yields dead"; "a stale entry at worst delays a fresh alive verdict".
DeadIsObserved == [][
  (said' = "dead" /\ said # "dead" /\ prow.there) => agentProc.state # "up" \/ cache = "none"]_presVars

==============================================================================
