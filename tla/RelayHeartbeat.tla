---------------------------- MODULE RelayHeartbeat ----------------------------
(***************************************************************************)
(* The doorbell job's heartbeat and who reads it.  The job attempts a      *)
(* cycle every interval: it opens the relay's database once a writer holds *)
(* it, plans the agents, writes its records; each attempt ends in one      *)
(* replacement of the heartbeat file.  A session's hook reads that file    *)
(* and stays silent only when all is well.  The job may be killed, exit    *)
(* and be started again; the heartbeat carries its streak and its          *)
(* condition over.                                                         *)
(*                                                                         *)
(* One tick is one interval.  What a cycle plans is in RelayRings and      *)
(* RelayBoard.                                                             *)
(***************************************************************************)
EXTENDS Integers

CONSTANTS FailingAfter,    \* FAILING_AFTER attempts
          StaleAfter,      \* limit of a heartbeat's age, in ticks
          WaitGrace,       \* waitingGraceMs, in ticks
          Jump             \* ticks the wall clock may go back, once

ASSUME HeartbeatBounds ==
  /\ FailingAfter \in Nat \ {0} /\ StaleAfter \in Nat \ {0} /\ WaitGrace \in Nat
  /\ StaleAfter <= WaitGrace /\ Jump \in Nat

VARIABLES db,              \* what an attempt meets at the database
          logState,             \* what its writes meet at the log
          disk,            \* can the state files be written
          beatJob,             \* the process: its handle and what it carries
          hb,              \* heartbeat.json, with the ages of its stamps
          jumped,
          unwritten,       \* ticks of silence since a heartbeat was written
          waited           \* ticks of silence while a wait for a writer is on file

beatVars == <<db, logState, disk, beatJob, hb, jumped, unwritten, waited>>

\* "no_writer": a sidecar is missing or changes across the open; "unreadable": a read
\* fails, or a planned record is refused.
Databases == {"no_writer", "gap", "unreadable", "fine"}
Logs == {"fine", "unwritable", "full"}
Conditions == {"ok", "waiting-for-writer", "log-full", "failing"}

\* Ages past every limit are not told apart.
Old == StaleAfter + WaitGrace + Jump
OlderStamp(age) == IF age < Old THEN age + 1 ELSE Old

NoStamp == Old + 1
NoBeat == [age |-> NoStamp, cond |-> "none", since |-> NoStamp, streak |-> 0]
Down == [up |-> FALSE, open |-> FALSE, cond |-> "none", since |-> NoStamp, streak |-> 0]

-----------------------------------------------------------------------------
(* What a reader makes of it.                                              *)

\* judgeHeartbeat: a heartbeat from the future is stale.
Healthy == hb.age \in 0 .. StaleAfter

\* The condition's age is read as 0 when it lies ahead.
WaitingTooLong == hb.cond = "waiting-for-writer" /\ hb.since > WaitGrace

\* hookLines: silent when not installed, and when healthy with a quiet condition.
Silent ==
  \/ hb = NoBeat
  \/ Healthy /\ hb.cond = "ok"
  \/ Healthy /\ hb.cond = "waiting-for-writer" /\ ~WaitingTooLong

-----------------------------------------------------------------------------
(* An attempt.                                                             *)

\* openRelayDbIfWritten: both sidecars, the same across the open; a schema gap throws.
Waits == ~beatJob.open /\ db = "no_writer"
OpenFails == ~beatJob.open /\ db \in {"gap", "unreadable"}
DbOpened == beatJob.open \/ db = "fine"

LogFull == DbOpened /\ logState = "full"
CycleFails == DbOpened /\ ~LogFull /\ (db = "unreadable" \/ logState = "unwritable")
\* A log write that did not complete stops the job.
FailStop == DbOpened /\ ~LogFull /\ db # "unreadable" /\ logState = "unwritable"
Failed == OpenFails \/ CycleFails

CarriedStreak == hb.streak
CarriedCondition == [Down EXCEPT !.cond = hb.cond, !.since = hb.since]

\* Saturating; past the threshold the count is not told apart.
Streak ==
  IF ~Failed THEN 0
  ELSE IF beatJob.streak < FailingAfter THEN beatJob.streak + 1 ELSE FailingAfter

\* conditionOf.
ConditionOf ==
  IF Waits THEN "waiting-for-writer"
  ELSE IF LogFull THEN "log-full"
  ELSE IF Streak >= FailingAfter THEN "failing" ELSE "ok"

\* The stamp moves with the condition, when there is none, and when it lies ahead.
Begins == ConditionOf # beatJob.cond \/ beatJob.since = NoStamp \/ beatJob.since < 0

\* writeHeartbeat: what the job remembers, and the file if it can be replaced.
Beat ==
  LET since == IF Begins THEN 0 ELSE beatJob.since
      now == [age |-> 0, cond |-> ConditionOf, since |-> since, streak |-> Streak]
  IN /\ beatJob' = IF FailStop THEN Down
               ELSE [up |-> TRUE, open |-> DbOpened, cond |-> now.cond, since |-> since,
                     streak |-> now.streak]
     /\ hb' = IF disk THEN now ELSE hb
     /\ unwritten' = IF disk THEN 0 ELSE unwritten
     /\ waited' = IF Waits THEN waited ELSE 0

Attempt ==
  /\ beatJob.up
  /\ Beat
  /\ UNCHANGED <<db, logState, disk, jumped>>

\* The lock file was replaced: the loop ends before anything is written.
LockLost ==
  /\ beatJob.up
  /\ beatJob' = Down
  /\ UNCHANGED <<db, logState, disk, hb, jumped, unwritten, waited>>

\* runLocked: the log is opened and its header written, or the start fails with no
\* heartbeat.  What carries over is read from the file.
StartJob ==
  /\ ~beatJob.up
  /\ beatJob' = IF logState = "unwritable" THEN Down
            ELSE [CarriedCondition EXCEPT !.up = TRUE, !.streak = CarriedStreak]
  /\ UNCHANGED <<db, logState, disk, hb, jumped, unwritten, waited>>

JobKilled ==
  /\ beatJob.up
  /\ beatJob' = Down
  /\ UNCHANGED <<db, logState, disk, hb, jumped, unwritten, waited>>

-----------------------------------------------------------------------------
(* Time and the machine.                                                   *)

\* Ticks of silence, as far as the properties look; they count from the clock's
\* change when that is later.
Bounded(n) == IF n < StaleAfter + WaitGrace + 2 THEN n + 1 ELSE n

HookQuiet == hb # NoBeat /\ Silent
Interval ==
  /\ hb' = IF hb = NoBeat THEN hb ELSE [hb EXCEPT !.age = OlderStamp(@), !.since = OlderStamp(@)]
  /\ beatJob' = IF beatJob.since = NoStamp THEN beatJob ELSE [beatJob EXCEPT !.since = OlderStamp(@)]
  /\ unwritten' = IF HookQuiet THEN Bounded(unwritten) ELSE 0
  /\ waited' = IF /\ HookQuiet /\ hb.cond = "waiting-for-writer"
                  /\ beatJob.up => beatJob.cond = "waiting-for-writer"
               THEN Bounded(waited) ELSE 0
  /\ UNCHANGED <<db, logState, disk, jumped>>

\* The wall clock is set back.
ClockBack ==
  /\ ~jumped /\ hb # NoBeat
  /\ jumped' = TRUE
  /\ hb' = [hb EXCEPT !.age = @ - Jump, !.since = @ - Jump]
  /\ beatJob' = IF beatJob.since = NoStamp THEN beatJob ELSE [beatJob EXCEPT !.since = @ - Jump]
  /\ unwritten' = 0
  /\ waited' = IF waited > 0 THEN 1 ELSE 0
  /\ UNCHANGED <<db, logState, disk>>

Surroundings ==
  /\ \/ \E d \in Databases : db' = d /\ UNCHANGED <<logState, disk>>
     \/ \E l \in Logs : logState' = l /\ UNCHANGED <<db, disk>>
     \/ disk' = ~disk /\ UNCHANGED <<db, logState>>
  /\ UNCHANGED <<beatJob, hb, jumped, unwritten, waited>>

BeatInit ==
  /\ db = "no_writer" /\ logState = "fine" /\ disk = TRUE
  /\ beatJob = Down /\ hb = NoBeat
  /\ jumped = FALSE
  /\ unwritten = 0 /\ waited = 0

BeatNext ==
  \/ Attempt \/ LockLost \/ StartJob \/ JobKilled \/ Interval \/ ClockBack \/ Surroundings

\* The loop's timer fires; time passes.
BeatFairness == WF_beatVars(Attempt) /\ WF_beatVars(Interval)

BeatSpec == BeatInit /\ [][BeatNext]_beatVars /\ BeatFairness

-----------------------------------------------------------------------------
(* Properties.                                                             *)

BeatTypeOK ==
  /\ hb # NoBeat =>
       /\ hb.age \in -Jump .. Old /\ hb.since \in -Jump .. Old
       /\ hb.cond \in Conditions
       /\ hb.streak \in 0 .. FailingAfter
       /\ hb.cond = "failing" => hb.streak = FailingAfter
       /\ hb.cond \in {"waiting-for-writer", "log-full"} => hb.streak = 0
  /\ beatJob.since # NoStamp => beatJob.cond \in Conditions
  /\ beatJob.open => beatJob.up

\* A job that no longer reports is said by the hook, killed, hung or unable to write
\* its file alike, wherever the clock is set back to.
SilenceMeansAlive == unwritten > StaleAfter => ~Silent

\* A wait for a writer beyond its grace is said: neither restarts nor the wall clock
\* start the count again for ever.  (The wait counts from the heartbeat that wrote it and
\* ends with the attempt that meets something else; a
\* job that never wrote one reads as not installed.)
WaitIsSaid == hb # NoBeat /\ waited > StaleAfter + WaitGrace + 1 => ~Silent

\* A job whose every attempt fails is said, restarts in between or not.
Fails == db = "unreadable" /\ logState # "full"
FailureIsSaid == (<>[](Fails /\ disk /\ hb # NoBeat)) => <>[](~Silent)

\* Once all is well again the hook is silent.
Well == db = "fine" /\ logState = "fine" /\ disk /\ beatJob.up
QuietAgain == <>[]Well => []<>Silent

\* The promises of the heartbeat: a silent hook means a live job, a wait and a failure are
\* said, and the saying ends with the fault (doorbell-run.ts, doorbell-heartbeat.ts).
HeartbeatTrue ==
  /\ []BeatTypeOK /\ []SilenceMeansAlive /\ []WaitIsSaid /\ FailureIsSaid /\ QuietAgain

=============================================================================
