----------------------------- MODULE RelayRings -----------------------------
(***************************************************************************)
(* The doorbell job rings an agent that has mail it has not been rung for. *)
(* Whether a ring worked is judged from the agent's pending set alone; an  *)
(* agent that does not react is rung again, then escalated.  The job keeps *)
(* nothing but its log (actuation.jsonl): every decision of a cycle is     *)
(* derived from the records, so a restart rebuilds it, and a compaction at *)
(* the start must not change it.                                           *)
(*                                                                         *)
(* One agent.  Ticks are the unit of the window W, the horizon H and the   *)
(* budget's hour.  Whether the agent has a window a ring can reach is      *)
(* RelayBoard's subject: here a cycle finds one or not.                    *)
(***************************************************************************)
EXTENDS Naturals, SequencesExt

CONSTANTS Mails,           \* message ids
          MaxReading,      \* bound: reading sessions of the agent
          MaxOldMails,     \* bound: messages of the sessions before the last
          MaxJobStarts,    \* bound: starts of the job
          EscalateAfter,   \* ESCALATE_AFTER
          ReRingCap,       \* RE_RING_CAP
          Window,          \* W, in ticks
          Horizon,         \* H
          Hour,            \* the budget's trailing hour
          Budget           \* rings in it

\* The module's own check of its two constants, and tunablesFault.
ASSUME RingTunables ==
  /\ {EscalateAfter, ReRingCap, Window, Horizon, Hour, Budget} \subseteq Nat \ {0}
  /\ EscalateAfter <= ReRingCap
  /\ Window <= Horizon

VARIABLES reading,         \* the agent's reading session, 0 when unbound
          minted,          \* sessions so far
          pend,            \* its pending set
          gone,            \* ids that left it for this session
          log,             \* actuation.jsonl
          real,            \* the age of each ring ever made
          since,           \* ticks since a start whose wall clock had gone back
          job,             \* "down", "opening" or "cycling"
          jobStarts

ringVars == <<reading, minted, pend, gone, log, real, since, job, jobStarts>>

Intent(n, s, ids, during) ==
  [type |-> "intent", id |-> n, rs |-> s, ids |-> ids, during |-> during]
Effect(s, outcome, rings, ids) ==
  [type |-> "effect", rs |-> s, outcome |-> outcome, intents |-> rings, left |-> ids]
Escalation(s, reason, ids, state) ==
  [type |-> "escalation", rs |-> s, reason |-> reason, ids |-> ids, state |-> state]

-----------------------------------------------------------------------------
(* What the log says: deriveLedger.                                        *)

Intents(l) == {i \in DOMAIN l : l[i].type = "intent"}
Effects(l) == {i \in DOMAIN l : l[i].type = "effect"}
Rings(l, s) == {i \in Intents(l) : l[i].rs = s}
Judged(l) == UNION {l[i].intents : i \in Effects(l)}
RungIds(l, s) == UNION {l[i].ids : i \in Rings(l, s)}
RingsOf(l, s, m) == {i \in Rings(l, s) : m \in l[i].ids}
Outstanding(l, s) == {l[i].id : i \in Rings(l, s)} \ Judged(l)

Effective(l, s) == {i \in Effects(l) : l[i].rs = s /\ l[i].outcome = "effective"}
RecordedLeft(l, s) == UNION {l[i].left : i \in Effective(l, s)}

\* Ineffective rings since the last progress.
Counter(l, s) ==
  Cardinality({i \in Effects(l) : /\ l[i].rs = s
                                  /\ l[i].outcome = "ineffective"
                                  /\ \A j \in Effective(l, s) : j < i})

\* The escalations still open: an escalation is known by its session, its
\* reason and its ids, and a second one like it opens only after the first
\* has closed.
Opened(l) ==
  {i \in DOMAIN l :
     /\ l[i].type = "escalation"
     /\ l[i].state = "open"
     /\ \A j \in DOMAIN l : j > i => l[j] # [l[i] EXCEPT !.state = "closed"]}
Unresponsive(l, s) == {i \in Opened(l) : l[i].rs = s /\ l[i].reason = "agent_unresponsive"}
Stuck(l, s) == {i \in Opened(l) : l[i].rs = s /\ l[i].reason = "id_stuck"}

\* The rings made while escalation i was open.
Extras(l, i) == {j \in Rings(l, l[i].rs) : j > i /\ l[j].during}
Episode(l, i) == l[i].ids \cup UNION {l[j].ids : j \in Extras(l, i)}

\* A ring's age on this lifetime's clock: placeRing counts it from the start
\* when the wall clock went back.
Age(n) == IF real[n] < since THEN real[n] ELSE since
LastAge(l, s, m) == CHOOSE a \in 0 .. Hour :
                      /\ \E i \in RingsOf(l, s, m) : Age(l[i].id) = a
                      /\ \A i \in RingsOf(l, s, m) : a <= Age(l[i].id)

-----------------------------------------------------------------------------
(* One cycle: each stage reads the log as the stages before it leave it.   *)

OneRecord(cond, rec) == IF cond THEN <<rec>> ELSE <<>>
Close(l, is) == SetToSeq({[l[i] EXCEPT !.state = "closed"] : i \in is})

\* A new session: the old one's rings and escalations are closed as such.
OldRings(l, s) ==
  SetToSeq({Effect(t, "session_changed", Outstanding(l, t), {}) :
              t \in {u \in 1 .. minted : u # s /\ Outstanding(l, u) # {}}})
OldEscalations(l, s) == Close(l, {i \in Opened(l) : l[i].rs # s})

\* Progress: an id it was rung for has left the pending set.
LeftNow(l, s) == (RungIds(l, s) \ RecordedLeft(l, s)) \ pend
Progress(l, s) ==
  OneRecord(LeftNow(l, s) # {}, Effect(s, "effective", Outstanding(l, s), LeftNow(l, s)))

ClosedByProgress(l, s) ==
  Close(l, {i \in Unresponsive(l, s) : ~(Episode(l, i) \subseteq pend)}
           \cup {i \in Stuck(l, s) : ~(l[i].ids \subseteq pend)})

Overdue(l, s) ==
  SetToSeq({Effect(s, "ineffective", {n}, {}) : n \in {k \in Outstanding(l, s) : Age(k) >= Horizon}})

Escalate(l, s) ==
  LET ids == RungIds(l, s) \cap pend IN
  OneRecord(/\ Counter(l, s) >= EscalateAfter
            /\ Unresponsive(l, s) = {}
            /\ ids # {},
            Escalation(s, "agent_unresponsive", ids, "open"))

AtCap(l, s, m) == Cardinality(RingsOf(l, s, m)) >= ReRingCap

NotYetRung(l, s) == pend \ RungIds(l, s)
AgainDue(l, s) ==
  IF Unresponsive(l, s) # {} THEN {}
  ELSE {m \in pend \cap RungIds(l, s) : LastAge(l, s, m) >= Horizon}

\* An id at the cap drops out with one escalation.
EscalateStuck(l, s) ==
  SetToSeq({Escalation(s, "id_stuck", {m}, "open") :
              m \in {k \in AgainDue(l, s) : AtCap(l, s, k) /\ \A i \in Stuck(l, s) : l[i].ids # {k}}})

Quiet(l, s) == \E i \in Unresponsive(l, s) : Extras(l, i) # {}
InHour(l) == {i \in Intents(l) : Age(l[i].id) < Hour}
TooSoon(l) == \E i \in Intents(l) : Age(l[i].id) < Window

\* The ring itself: new ids, and those to ring again, in one intent.
Ring(l, s) ==
  LET ids == NotYetRung(l, s) \cup {m \in AgainDue(l, s) : ~AtCap(l, s, m)} IN
  OneRecord(/\ ids # {}
            /\ ~Quiet(l, s)
            /\ Cardinality(InHour(l)) < Budget
            /\ ~TooSoon(l),
            Intent(Len(real) + 1, s, ids, Unresponsive(l, s) # {}))

\* planCycle for one agent with a reading session; judge() first, then, with a
\* window to ring, the ring.
After(l, Stage(_)) == CHOOSE r \in {x \o Stage(x) : x \in {l}} : TRUE

Judgement(l, s) ==
  LET a == After(l, LAMBDA x : OldRings(x, s))
      b == After(a, LAMBDA x : OldEscalations(x, s))
      c == After(b, LAMBDA x : Progress(x, s))
      d == After(c, LAMBDA x : ClosedByProgress(x, s))
      e == After(d, LAMBDA x : Overdue(x, s))
  IN After(e, LAMBDA x : Escalate(x, s))
WithRing(l, s) ==
  IF pend = {} THEN l
  ELSE After(After(l, LAMBDA x : EscalateStuck(x, s)), LAMBDA x : Ring(x, s))
Planned(l, s, reachable) ==
  IF reachable THEN WithRing(Judgement(l, s), s) ELSE Judgement(l, s)

-----------------------------------------------------------------------------
(* The agent.                                                              *)

Arrive(m) ==
  /\ m \notin pend \cup gone
  /\ pend' = pend \cup {m}
  /\ UNCHANGED <<reading, minted, gone, log, real, since, job, jobStarts>>

\* Read, acknowledged or resolved: an id that left a session's pending set does
\* not come back to it.
Leave(m) ==
  /\ reading # 0
  /\ m \in pend
  /\ pend' = pend \ {m}
  /\ gone' = gone \cup {m}
  /\ UNCHANGED <<reading, minted, log, real, since, job, jobStarts>>

\* The window closes: the session is unbound.
Unbind ==
  /\ reading # 0
  /\ minted < MaxReading
  /\ reading' = 0
  /\ UNCHANGED <<minted, pend, gone, log, real, since, job, jobStarts>>

\* A registration mints a session; what the old one was handed and did not
\* finish may be pending again.
Bind(ids) ==
  /\ minted < MaxReading
  /\ Cardinality(pend \cup gone) <= MaxOldMails
  /\ minted' = minted + 1
  /\ reading' = minted + 1
  /\ pend' = pend \cup ids
  /\ ids \subseteq gone
  /\ gone' = {}
  /\ UNCHANGED <<log, real, since, job, jobStarts>>

Older(a) == IF a < Hour THEN a + 1 ELSE a

Tick ==
  /\ real' = [n \in DOMAIN real |-> Older(real[n])]
  /\ since' = Older(since)
  /\ UNCHANGED <<reading, minted, pend, gone, log, job, jobStarts>>

-----------------------------------------------------------------------------
(* The job.                                                                *)

\* The records reach the log one by one; the process may die, or stop on a
\* failed write, after any of them.  A torn line is cut off at the next start.
Cycle(reachable, whole) ==
  /\ job = "cycling"
  /\ reading # 0
  /\ whole \/ jobStarts < MaxJobStarts
  /\ \E new \in {Planned(log, reading, reachable)} :
     /\ new # log
     /\ \E k \in Len(log) .. Len(new) :
          /\ whole => k = Len(new)
          /\ log' = SubSeq(new, 1, k)
          /\ real' = IF k = Len(new) /\ new[k].type = "intent" THEN Append(real, 0) ELSE real
  /\ job' = IF whole THEN job ELSE "down"
  /\ UNCHANGED <<reading, minted, pend, gone, since, jobStarts>>

JobStops ==
  /\ job # "down"
  /\ jobStarts < MaxJobStarts
  /\ job' = "down"
  /\ UNCHANGED <<reading, minted, pend, gone, log, real, since, jobStarts>>

\* The log is read back; a wall clock that went back while the job was down
\* makes every ring as old as this start.
JobStarts(back) ==
  /\ job = "down"
  /\ jobStarts < MaxJobStarts
  /\ job' = "opening"
  /\ jobStarts' = jobStarts + 1
  /\ since' = IF back THEN 0 ELSE Hour
  /\ UNCHANGED <<reading, minted, pend, gone, log, real>>

\* Clauses (d) and (e) of intentKeepRule.
StillNeeded(l, i) ==
  /\ l[i].rs = reading
  /\ l[i].ids \cap pend # {} \/ ~(l[i].ids \subseteq RecordedLeft(l, l[i].rs))

\* ringCountsAtStart.
CountsNow(l, i) == Age(l[i].id) < Hour

\* The last Budget intents.
LastOnes(l) == {i \in Intents(l) : Cardinality({j \in Intents(l) : j > i}) < Budget}

KeepIntents(l) ==
  {i \in Intents(l) : \/ \E e \in Opened(l) : i \in Extras(l, e)
                      \/ CountsNow(l, i)
                      \/ i \in LastOnes(l)
                      \/ l[i].id \notin Judged(l)
                      \/ StillNeeded(l, i)}

\* Mutant: an effect is kept with its rings only.
Trailing_None(l, i) == FALSE
\* The current session's effects from its last progress on: the counter.
Trailing(l, i) == l[i].rs = reading /\ \A j \in Effective(l, reading) : j <= i

\* selectLedgerKeep.
KeepLedger(l, kept) ==
  {i \in Effects(l) : \/ \E j \in kept : l[j].id \in l[i].intents
                      \/ \E j \in kept : l[j].rs = l[i].rs /\ l[j].ids \cap l[i].left # {}
                      \/ Trailing(l, i)}
  \cup Opened(l)

\* The records of l at the places in all, in their order.
Select(l, all) ==
  [k \in 1 .. Cardinality(all) |->
     l[CHOOSE i \in all : Cardinality({j \in all : j < i}) = k - 1]]

\* The database's first opening, once it has a writer: compactLog writes the kept
\* records to a new file and renames it over the old one.
OpenAndCompact ==
  /\ job = "opening"
  /\ job' = "cycling"
  /\ \E kept \in {KeepIntents(log)} :
     \E all \in {kept \cup KeepLedger(log, kept)} : log' = Select(log, all)
  /\ UNCHANGED <<reading, minted, pend, gone, real, since, jobStarts>>

-----------------------------------------------------------------------------
(* The specification.                                                      *)

RingInit ==
  /\ reading = 1
  /\ minted = 1
  /\ pend = {}
  /\ gone = {}
  /\ log = <<>>
  /\ real = <<>>
  /\ since = Hour
  /\ job = "down"
  /\ jobStarts = 0

RingNext ==
  \/ \E m \in Mails : Arrive(m) \/ Leave(m)
  \/ Unbind
  \/ \E ids \in SUBSET Mails : Bind(ids)
  \/ Tick
  \/ \E reachable, whole \in BOOLEAN : Cycle(reachable, whole)
  \/ JobStops \/ OpenAndCompact
  \/ \E back \in BOOLEAN : JobStarts(back)

\* Time passes, a job that stopped is started again (launchd), its database has
\* a writer, and the agent keeps a window.
RingFairness ==
  /\ WF_ringVars(Tick)
  /\ WF_ringVars(JobStarts(FALSE))
  /\ WF_ringVars(OpenAndCompact)
  /\ WF_ringVars(Cycle(TRUE, TRUE))

RingSpec == RingInit /\ [][RingNext]_ringVars /\ RingFairness

-----------------------------------------------------------------------------
(* Properties.                                                             *)

RingTypeOK ==
  /\ reading \in 0 .. minted
  /\ minted \in 1 .. MaxReading
  /\ pend \cap gone = {}
  /\ real \in Seq(0 .. Hour)
  /\ since \in 0 .. Hour
  /\ job \in {"down", "opening", "cycling"}
  /\ \A i \in Intents(log) : log[i].id \in DOMAIN real /\ log[i].ids # {}

\* The bound on rings, as the agent hears them: however often the job restarts,
\* wherever its clock goes and whatever its compactions drop, no trailing hour
\* holds more rings than the budget.
BudgetHolds == Cardinality({n \in DOMAIN real : real[n] < Hour}) <= Budget

\* No message still pending is rung more often than the cap for one session.
\* (Over the log: a ring of a pending id is never dropped by a compaction; the
\* next property says so.)
CapHolds ==
  \A m \in pend : reading # 0 => Cardinality(RingsOf(log, reading, m)) <= ReRingCap

\* An agent that does not react is left alone: while an escalation is open the
\* log holds at most one ring made after it, for mail that came since.
EscalatedIsQuiet ==
  \A i \in Opened(log) :
    log[i].reason = "agent_unresponsive" =>
      Cardinality({j \in Rings(log, log[i].rs) : j > i}) <= 1

\* What the next cycle would decide from a log: the rings not judged, the
\* counter, the open escalations, and what is known of each pending id.
Ledger(l, s) ==
  [outstanding |-> Outstanding(l, s),
   counter     |-> Counter(l, s),
   open        |-> {l[i] : i \in Opened(l)},
   toRecord    |-> LeftNow(l, s),
   rings       |-> [m \in pend |-> Cardinality(RingsOf(l, s, m))],
   quiet       |-> Quiet(l, s),
   inHour      |-> {l[i].id : i \in InHour(l)}]

\* A compaction changes nothing a later cycle decides from.
CompactionKeepsLedger ==
  [][job = "opening" /\ job' = "cycling" /\ reading # 0 =>
       Ledger(log', reading) = Ledger(log, reading)]_ringVars

\* An agent is never left with mail nobody knows of: a message that stays
\* pending for one session ends in an open escalation.
Escalated(m) ==
  \E i \in Opened(log) :
    /\ log[i].rs = reading
    /\ log[i].reason = "agent_unresponsive" \/ m \in log[i].ids
MailEndsEscalated ==
  \A m \in Mails : []<>(m \notin pend \/ reading = 0 \/ Escalated(m))

\* The promises of the rings: budget and cap hold across compactions and restarts, and mail
\* nobody reacts to ends escalated (doorbell-core.ts).
RingsBounded ==
  /\ []RingTypeOK /\ []BudgetHolds /\ []CapHolds /\ []EscalatedIsQuiet
  /\ CompactionKeepsLedger /\ MailEndsEscalated

=============================================================================
