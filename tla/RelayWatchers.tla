---------------------------- MODULE RelayWatchers ----------------------------
(***************************************************************************)
(* `relay watch <agent> --until-wake`: a process that waits for mail of one *)
(* agent, in one window, and ends to say so.  Its exit is the wake, so it   *)
(* may exit for nothing else.  One watch per window holds the lock of the   *)
(* current generation; a hung one is never signalled, its generation is     *)
(* abandoned.  What a wake was heard for is kept in woken.json, after the   *)
(* wake.                                                                    *)
(*                                                                         *)
(* One agent, one window directory.  Standing rules and other senders are   *)
(* left out: every id is allowed, and one pair's rate counts the wakes.     *)
(***************************************************************************)
EXTENDS Naturals, FiniteSets

CONSTANTS Watchers,        \* processes
          Ids,             \* messages
          MaxGen,          \* bound: generations
          MaxReaders,     \* bound: reading sessions
          MaxFaults,       \* bound: hangs, deaths, removed files, failed writes
          PairWakes,       \* the pair's wakes in an hour
          TakeoverRounds   \* MAX_TAKEOVER_ROUNDS

VARIABLES gen,             \* the highest gen-<N>
          locks,           \* per generation: "none", "free" or its holder
          beat,            \* heartbeat.json
          woken,           \* woken.json
          watcher,            \* the processes
          mail,            \* the agent's session, its pending set, its window
          heard,           \* wakes heard for an id, in this session
          faults

watcherVars == <<gen, locks, beat, woken, watcher, mail, heard, faults>>

Gens == 0 .. MaxGen
NoBeat == [gen |-> MaxGen + 1, by |-> "nobody", old |-> FALSE]

\* ours: the lock file it looked at is still the one at its path.
Gone == [pc |-> "off", gen |-> 0, ours |-> FALSE, round |-> 0, hung |-> FALSE,
         s |-> 0, ids |-> {}, base |-> {}, blind |-> "no"]

-----------------------------------------------------------------------------
(* The window directory.                                                   *)

\* The lock files of a set of generations are removed: who held one of them holds
\* it no longer at its path.
Unlinked(ps, gs) ==
  [q \in Watchers |-> IF ps[q].gen \in gs THEN [ps[q] EXCEPT !.ours = FALSE] ELSE ps[q]]

LockHeld(g) == locks[g] \in Watchers

\* holderBeat: the heartbeat of this generation, by its holder.
OwnBeat(g) == beat.gen = g /\ beat.by = locks[g]

\* watchStatus.
BeatStatus ==
  IF ~LockHeld(gen) THEN "absent"
  ELSE IF OwnBeat(gen) /\ beat.old THEN "stale" ELSE "live"

\* A lock is dropped: by its holder, or with it.
Freed(p) == [g \in Gens |-> IF locks[g] = p THEN "free" ELSE locks[g]]

Superseded(p) == gen > watcher[p].gen

\* Checked on every check, and before every write.
Rightful(p) == ~Superseded(p) /\ watcher[p].ours

Runs(p) == ~watcher[p].hung

-----------------------------------------------------------------------------
(* Arming and taking the lock.                                             *)

\* A process in an inert state can stand for a later one of the same window.
Inert == {"off", "dormant", "failed"}

\* `--arm-check`, then the command it prints.
Arm(p) ==
  /\ watcher[p].pc \in Inert
  /\ mail.window = "here"
  /\ BeatStatus # "live"
  /\ watcher' = [watcher EXCEPT ![p] = [Gone EXCEPT !.pc = "gen"]]
  /\ beat' = IF beat.by = p THEN [beat EXCEPT !.by = "nobody"] ELSE beat
  /\ UNCHANGED <<gen, locks, woken, mail, heard, faults>>

\* The current generation is read.
ReadGen(p) ==
  /\ Runs(p) /\ watcher[p].pc = "gen"
  /\ watcher' = [watcher EXCEPT ![p].pc = "open", ![p].gen = gen]
  /\ UNCHANGED <<gen, locks, beat, woken, mail, heard, faults>>

\* Its lock file is created when it is missing, and looked at.
OpenLock(p) ==
  /\ Runs(p) /\ watcher[p].pc = "open"
  /\ locks' = [locks EXCEPT ![watcher[p].gen] = IF @ = "none" THEN "free" ELSE @]
  /\ watcher' = [watcher EXCEPT ![p].pc = "lock", ![p].ours = TRUE]
  /\ UNCHANGED <<gen, beat, woken, mail, heard, faults>>

\* It is locked; a file that is no longer the one looked at throws, and the
\* process ends with an error.
TakeLock(p) ==
  /\ Runs(p) /\ watcher[p].pc = "lock"
  /\ IF ~watcher[p].ours
     THEN watcher' = [watcher EXCEPT ![p] = [Gone EXCEPT !.pc = "failed"]] /\ UNCHANGED locks
     ELSE IF LockHeld(watcher[p].gen)
     THEN watcher' = [watcher EXCEPT ![p].pc = "busy"] /\ UNCHANGED locks
     ELSE /\ locks' = [locks EXCEPT ![watcher[p].gen] = p]
          /\ watcher' = [watcher EXCEPT ![p].pc = "locked"]
  /\ UNCHANGED <<gen, beat, woken, mail, heard, faults>>

\* Round k ended without the lock.
NextRound(p) == [Gone EXCEPT !.pc = IF watcher[p].round < TakeoverRounds THEN "gen" ELSE "dormant",
                        !.round = watcher[p].round + 1]

\* A later generation appeared meanwhile.
LaterGen(p) == Superseded(p)

\* pruneGenerations: strictly below the current one.
Pruned(p) == {g \in Gens : g < watcher[p].gen /\ g < gen}

\* The first heartbeat, and the files of older generations removed.
Settle(p) ==
  /\ Runs(p) /\ watcher[p].pc = "locked"
  /\ IF LaterGen(p)
     THEN /\ locks' = Freed(p)
          /\ watcher' = [watcher EXCEPT ![p] = NextRound(p)]
          /\ UNCHANGED beat
     ELSE /\ beat' = [gen |-> watcher[p].gen, by |-> p, old |-> FALSE]
          /\ LET pruned == Pruned(p) IN
             /\ locks' = [g \in Gens |-> IF g \in pruned THEN "none" ELSE locks[g]]
             /\ watcher' = [Unlinked(watcher, pruned) EXCEPT ![p].pc = "watching"]
  /\ UNCHANGED <<gen, woken, mail, heard, faults>>

\* The lock is busy: a live holder is left alone, a hung one judged.
Judge(p) ==
  /\ Runs(p) /\ watcher[p].pc = "busy"
  /\ watcher' = [watcher EXCEPT ![p] = IF BeatStatus = "stale" THEN [@ EXCEPT !.pc = "abandon"]
                                 ELSE [Gone EXCEPT !.pc = "dormant"]]
  /\ UNCHANGED <<gen, locks, beat, woken, mail, heard, faults>>

\* advanceGen: exactly one of those who judged it creates the next generation.
Abandon(p) ==
  /\ Runs(p) /\ watcher[p].pc = "abandon"
  /\ watcher[p].gen < MaxGen
  /\ gen' = IF gen = watcher[p].gen THEN gen + 1 ELSE gen
  /\ watcher' = [watcher EXCEPT ![p] = NextRound(p)]
  /\ UNCHANGED <<locks, beat, woken, mail, heard, faults>>

-----------------------------------------------------------------------------
(* The running watch.                                                      *)

\* Mutant: a watch that may not go on ends its process, which wakes the agent.
Dormant_Exits(p, blind) == locks' = Freed(p) /\ watcher' = [watcher EXCEPT ![p] = Gone]
\* Everything is released, and the reason recorded.
Dormant(p, blind) ==
  /\ locks' = Freed(p)
  /\ watcher' = [watcher EXCEPT ![p] = [Gone EXCEPT !.pc = "dormant", !.blind = blind]]

Exit(p) ==
  /\ locks' = Freed(p)
  /\ watcher' = [watcher EXCEPT ![p] = Gone]

\* A check begins.
Check(p) ==
  /\ Runs(p) /\ watcher[p].pc = "watching"
  /\ IF Rightful(p)
     THEN watcher' = [watcher EXCEPT ![p].pc = "reading"] /\ UNCHANGED locks
     ELSE Dormant(p, "no")
  /\ UNCHANGED <<gen, beat, woken, mail, heard, faults>>

\* The window at a check: gone ends the process silently, another live window makes
\* it dormant, and one that could not be observed for the whole bound makes it
\* dormant and says so.
WindowEnds(p) ==
  /\ Runs(p) /\ watcher[p].pc = "reading"
  /\ \/ mail.window = "gone" /\ Exit(p)
     \/ mail.window = "moved" /\ Dormant(p, "no")
     \/ mail.window = "unseen" /\ watcher[p].blind = "bound" /\ Dormant(p, "bound")
  /\ UNCHANGED <<gen, beat, woken, mail, heard, faults>>

Observed(p) ==
  CASE mail.window \in {"here", "moved"} -> "no"
    [] mail.window = "unseen" /\ watcher[p].blind = "no" -> "run"
    [] OTHER -> watcher[p].blind

\* The record of another reading session is ignored.
Prior == IF woken.s = mail.s THEN woken.ids ELSE {}
PriorWakes == IF woken.s = mail.s THEN woken.wakes ELSE 0

\* decideWake; an unbound session waits.
Wanted == IF mail.s = 0 \/ PriorWakes >= PairWakes THEN {} ELSE mail.pend \ Prior

\* The mailbox is read: nothing new, and the check ends, with a heartbeat when one is
\* due; or there is something to wake for.
Read(p) ==
  /\ Runs(p) /\ watcher[p].pc = "reading"
  /\ mail.window \in {"here", "unseen"}
  /\ ~(mail.window = "unseen" /\ watcher[p].blind = "bound")
  /\ watcher' = [watcher EXCEPT ![p].pc = IF Wanted = {} THEN "watching" ELSE "waking",
                          ![p].s = IF Wanted = {} THEN 0 ELSE mail.s,
                          ![p].ids = Wanted,
                          ![p].base = IF Wanted = {} THEN {} ELSE Prior,
                          ![p].blind = Observed(p)]
  /\ beat' = IF Rightful(p) THEN [gen |-> watcher[p].gen, by |-> p, old |-> FALSE] ELSE beat
  /\ UNCHANGED <<gen, locks, woken, mail, heard, faults>>

\* The wake: one line.
Emit(p) ==
  /\ Runs(p) /\ watcher[p].pc = "waking"
  /\ IF Rightful(p)
     THEN /\ heard' = [i \in Ids |-> IF watcher[p].s = mail.s /\ i \in watcher[p].ids
                                     THEN heard[i] + 1 ELSE heard[i]]
          /\ watcher' = [watcher EXCEPT ![p].pc = "emitted"]
          /\ UNCHANGED locks
     ELSE Dormant(p, "no") /\ UNCHANGED heard
  /\ UNCHANGED <<gen, beat, woken, mail, faults>>

\* Still the holder: the record is written.  The file is written aside and renamed:
\* a process that stops in between renames later.
MayRecord(p) ==
  /\ Runs(p) /\ watcher[p].pc = "emitted"
  /\ IF Rightful(p)
     THEN watcher' = [watcher EXCEPT ![p].pc = "writing"] /\ UNCHANGED locks
     ELSE Exit(p)
  /\ UNCHANGED <<gen, beat, woken, mail, heard, faults>>

\* The session whose mailbox the check read.
ForSession(p) == watcher[p].s

\* recordWake (an id that left the pending set may be dropped from it or kept: it
\* does not come back).
Recorded(p) == watcher[p].base \cup watcher[p].ids

Record(p) ==
  /\ Runs(p) /\ watcher[p].pc = "writing"
  /\ woken' = [s |-> ForSession(p), ids |-> Recorded(p),
               wakes |-> IF woken.s = ForSession(p) THEN woken.wakes + 1 ELSE 1]
  /\ Exit(p)
  /\ UNCHANGED <<gen, beat, mail, heard, faults>>

\* A dormant watch ends with its window; it unsays that it cannot observe it when it
\* can, and says so when it could not for the whole bound.
DormantCheck(p) ==
  /\ Runs(p) /\ watcher[p].pc = "dormant"
  /\ watcher' = [watcher EXCEPT ![p] = IF mail.window = "gone" THEN Gone
                                 ELSE [@ EXCEPT !.blind = Observed(p)]]
  /\ watcher' # watcher
  /\ UNCHANGED <<gen, locks, beat, woken, mail, heard, faults>>

WatchStep(p) ==
  \/ ReadGen(p) \/ OpenLock(p) \/ TakeLock(p) \/ Settle(p) \/ Judge(p) \/ Abandon(p)
  \/ Check(p) \/ WindowEnds(p) \/ Read(p) \/ Emit(p) \/ MayRecord(p) \/ Record(p)
  \/ DormantCheck(p)

-----------------------------------------------------------------------------
(* The agent, its window and time.                                         *)

Arrive(i) ==
  /\ i \notin mail.pend \cup mail.done
  /\ mail' = [mail EXCEPT !.pend = @ \cup {i}]
  /\ UNCHANGED <<gen, locks, beat, woken, watcher, heard, faults>>

Drain ==
  /\ mail.s # 0 /\ mail.pend # {}
  /\ mail' = [mail EXCEPT !.pend = {}, !.done = @ \cup mail.pend]
  /\ UNCHANGED <<gen, locks, beat, woken, watcher, heard, faults>>

\* A new reading session: what the old one did not finish is pending again.
Rebind(ids) ==
  /\ mail.s < MaxReaders
  /\ ids \subseteq mail.done
  /\ mail' = [mail EXCEPT !.s = @ + 1, !.pend = @ \cup ids, !.done = @ \ ids]
  /\ heard' = [i \in Ids |-> 0]
  /\ UNCHANGED <<gen, locks, beat, woken, watcher, faults>>

WindowMoves(w) ==
  /\ mail.window # w /\ mail.window # "gone"
  /\ w \in {"here", "unseen", "moved", "gone"}
  /\ w \in {"unseen", "moved"} => faults < MaxFaults
  /\ faults' = IF w \in {"unseen", "moved"} THEN faults + 1 ELSE faults
  /\ mail' = [mail EXCEPT !.window = w]
  /\ UNCHANGED <<gen, locks, beat, woken, watcher, heard>>

\* Five minutes without a beat: a running holder beats every minute.
BeatAges ==
  /\ beat # NoBeat /\ ~beat.old
  /\ \A p \in Watchers : locks[beat.gen] = p => watcher[p].hung
  /\ beat' = [beat EXCEPT !.old = TRUE]
  /\ UNCHANGED <<gen, locks, woken, watcher, mail, heard, faults>>

\* The bound on an unobserved window, for a process that began to count.
BoundPasses(p) ==
  /\ watcher[p].blind = "run" /\ mail.window = "unseen"
  /\ watcher' = [watcher EXCEPT ![p].blind = "bound"]
  /\ UNCHANGED <<gen, locks, beat, woken, mail, heard, faults>>

HourPasses ==
  /\ woken.wakes > 0
  /\ woken' = [woken EXCEPT !.wakes = 0]
  /\ UNCHANGED <<gen, locks, beat, watcher, mail, heard, faults>>

\* Faults: a process stops running, for a time or for good; it dies; the lock file
\* is removed from outside.
Hang(p) ==
  /\ faults < MaxFaults
  /\ watcher[p].pc \notin Inert /\ Runs(p)
  /\ watcher' = [watcher EXCEPT ![p].hung = TRUE]
  /\ faults' = faults + 1
  /\ UNCHANGED <<gen, locks, beat, woken, mail, heard>>

Resume(p) ==
  /\ watcher[p].hung
  /\ watcher' = [watcher EXCEPT ![p].hung = FALSE]
  /\ UNCHANGED <<gen, locks, beat, woken, mail, heard, faults>>

Dies(p) ==
  /\ faults < MaxFaults
  /\ watcher[p].pc \notin Inert
  /\ Exit(p)
  /\ faults' = faults + 1
  /\ UNCHANGED <<gen, beat, woken, mail, heard>>

Removed ==
  /\ faults < MaxFaults
  /\ locks[gen] # "none"
  /\ locks' = [locks EXCEPT ![gen] = "none"]
  /\ watcher' = Unlinked(watcher, {gen})
  /\ faults' = faults + 1
  /\ UNCHANGED <<gen, beat, woken, mail, heard>>

-----------------------------------------------------------------------------
(* The specification.                                                      *)

WatchInit ==
  /\ gen = 0
  /\ locks = [g \in Gens |-> "none"]
  /\ beat = NoBeat
  /\ woken = [s |-> 0, ids |-> {}, wakes |-> 0]
  /\ watcher = [p \in Watchers |-> Gone]
  /\ mail = [s |-> 0, pend |-> {}, done |-> {}, window |-> "here"]
  /\ heard = [i \in Ids |-> 0]
  /\ faults = 0

WatchNext ==
  \/ \E p \in Watchers : Arm(p) \/ WatchStep(p) \/ BoundPasses(p) \/ Hang(p) \/ Resume(p) \/ Dies(p)
  \/ \E i \in Ids : Arrive(i)
  \/ Drain
  \/ \E ids \in SUBSET Ids : Rebind(ids)
  \/ \E w \in {"here", "unseen", "moved", "gone"} : WindowMoves(w)
  \/ BeatAges \/ HourPasses \/ Removed

\* A process that runs takes its next step, the agent arms a watch whenever the
\* check says to, and time passes.
WatchFairness ==
  /\ \A p \in Watchers : WF_watcherVars(WatchStep(p))
  /\ WF_watcherVars(\E p \in Watchers : Arm(p))
  /\ WF_watcherVars(BeatAges)
  /\ WF_watcherVars(HourPasses)

WatchSpec == WatchInit /\ [][WatchNext]_watcherVars /\ WatchFairness

-----------------------------------------------------------------------------
(* Properties.                                                             *)

PCs == Inert \cup {"gen", "open", "lock", "busy", "abandon", "locked", "watching",
                  "reading", "waking", "emitted", "writing"}
WatchTypeOK ==
  /\ gen \in Gens
  /\ locks \in [Gens -> Watchers \cup {"none", "free"}]
  /\ beat.gen \in 0 .. MaxGen + 1
  /\ woken.s \in 0 .. MaxReaders /\ woken.ids \subseteq Ids
  /\ \A p \in Watchers :
       /\ watcher[p].pc \in PCs
       /\ watcher[p].gen \in Gens
       /\ watcher[p].pc \in Inert => \A g \in Gens : locks[g] # p

Watching(p) == watcher[p].pc \in {"watching", "reading", "waking", "emitted", "writing"}

\* Emit first, then persist: an id is only recorded once its wake was heard, so that
\* no fault loses a wake.
RecordedWasHeard ==
  woken.s = mail.s => \A i \in woken.ids : heard[i] > 0

\* Each id wakes a session once; a hang, a death or a lost lock costs one more wake.
DuplicatesPaidFor == \A i \in Ids : heard[i] <= 1 + faults

\* A watch that ends has woken the agent, or its window is gone, or it died.
EndsToWake ==
  [][\A p \in Watchers :
       (Watching(p) /\ watcher'[p].pc = "off" /\ faults' = faults)
         => watcher[p].pc \in {"emitted", "writing"} \/ mail.window = "gone"]_watcherVars

\* Mail wakes the agent: whatever one fault does to a watch, an agent that arms one when
\* told to hears of it.  (A holder that hangs before its first heartbeat is never
\* judged: the code says so.)
Unborn == \E p \in Watchers : watcher[p].hung /\ (\E g \in Gens : locks[g] = p /\ ~OwnBeat(g))
Unheard == {i \in mail.pend : mail.s # 0 /\ heard[i] = 0}
MailWakes == []<>(Unheard = {} \/ mail.window # "here" \/ Unborn)

\* The promises of the watch that ends to wake: what is recorded was heard, a duplicate is
\* paid for by a fault, it ends to wake only, and mail wakes (cli/watch-until-wake.ts, watch-wake.ts).
WakesHeard ==
  /\ []WatchTypeOK /\ []RecordedWasHeard /\ []DuplicatesPaidFor /\ EndsToWake
  /\ MailWakes

=============================================================================
