---------------------------- MODULE RelayRetention ----------------------------
(***************************************************************************)
(* How long undrained mail is kept, and who is told of it: the purge every *)
(* process makes when it opens the database, the daemon's sweep for agents *)
(* that have stopped draining, and the status file that sweep leaves for   *)
(* the line a session start prints.                                        *)
(*                                                                         *)
(* One agent's mailbox.  A day is a step of the clock; the sweep is hourly *)
(* and the file stale after three hours, so a file written before the last *)
(* midnight is stale, and one sweep at least falls in each day the daemon  *)
(* is up.  Audit rows, finished tasks and channel posts have an age limit  *)
(* and nothing else, and are left out.                                     *)
(***************************************************************************)
EXTENDS Naturals

CONSTANTS Mail,             \* message ids
          StuckAge,         \* boundMs + antiFlapMarginMs, in days
          BaseAge,          \* the seven days of transient history
          GraceAge,         \* RELAY_UNDELIVERED_GRACE_DAYS, after its clamp
          MaxPurgeDeaths        \* bound: purging processes that die

\* The clamp: the grace is no shorter than the week.
ASSUME RetentionBounds ==
  {StuckAge, BaseAge, GraceAge, MaxPurgeDeaths} \subseteq Nat /\ BaseAge <= GraceAge

VARIABLES mbox,             \* messages rows
          owner,            \* the row: last_drain_at set, session_id set
          due,              \* drops committed and not yet announced by the purger
          told,             \* deadletter lines written
          sweeper,           \* the HTTP daemon is up
          status,           \* wake-coverage-status.json
          lost              \* purging processes that died before announcing

retVars == <<mbox, owner, due, told, sweeper, status, lost>>

Oldest == GraceAge + 1
NoMail == [st |-> "none", age |-> 0, read |-> FALSE, given |-> FALSE, seen |-> FALSE,
           since |-> FALSE]
NoStatus == [age |-> "none", says |-> "ok"]

RetInit ==
  /\ mbox = [m \in Mail |-> NoMail]
  /\ owner = [marker |-> FALSE, bound |-> TRUE]
  /\ due = {} /\ told = {}
  /\ sweeper = FALSE /\ status = NoStatus /\ lost = 0

-----------------------------------------------------------------------------
(* The mailbox.                                                            *)

\* pendingGlobalClause: neither resolved nor read by any session.
Undelivered == {m \in Mail : mbox[m].st = "held" /\ ~mbox[m].read}

Send(m) ==
  /\ mbox[m].st = "none"
  /\ mbox' = [mbox EXCEPT ![m] = [NoMail EXCEPT !.st = "held"]]
  /\ UNCHANGED <<owner, due, told, sweeper, status, lost>>

\* A drain returns a page of the pending mail.  With no session it stamps read_at
\* only; the marker is set in the same transaction either way.
MailDrains(page) ==
  /\ page # {} /\ page \subseteq Undelivered
  /\ mbox' = [m \in Mail |->
       [mbox[m] EXCEPT !.seen = @ \/ m \in page,
                       !.read = @ \/ (m \in page /\ owner.bound),
                       !.given = @ \/ m \in page,
                       !.since = @ \/ mbox[m].st = "held"]]
  /\ owner' = [owner EXCEPT !.marker = TRUE]
  /\ UNCHANGED <<due, told, sweeper, status, lost>>

\* A peek stamps the sequence and nothing else.
Peek(page) ==
  /\ page # {} /\ page \subseteq Undelivered
  /\ mbox' = [m \in Mail |-> [mbox[m] EXCEPT !.seen = @ \/ m \in page]]
  /\ UNCHANGED <<owner, due, told, sweeper, status, lost>>

\* A rotated token leaves the row without a session until the next register_agent.
Unbind == owner.bound /\ owner' = [owner EXCEPT !.bound = FALSE]
          /\ UNCHANGED <<mbox, due, told, sweeper, status, lost>>

\* register_agent; after an unregister the row is new, and so is its marker.
OwnerRegisters(anew) ==
  /\ owner' = [marker |-> owner.marker /\ ~anew, bound |-> TRUE]
  /\ UNCHANGED <<mbox, due, told, sweeper, status, lost>>

-----------------------------------------------------------------------------
(* The purge.                                                              *)

\* The undelivered rows the purge is about to drop, read in its transaction.
Doomed == {m \in Undelivered : mbox[m].age > GraceAge}

\* Everything past a week but the undelivered mail within the grace.
Purged == {m \in Mail : /\ mbox[m].st = "held" /\ mbox[m].age > BaseAge
                        /\ ~(m \in Undelivered /\ mbox[m].age <= GraceAge)}

\* purgeOldRecords' immediate transaction.
Purge ==
  /\ Purged # {}
  /\ mbox' = [m \in Mail |-> IF m \in Purged THEN [NoMail EXCEPT !.st = "purged",
                                                     !.read = mbox[m].read,
                                                     !.given = mbox[m].given]
                             ELSE mbox[m]]
  /\ due' = due \cup Doomed
  /\ UNCHANGED <<owner, told, sweeper, status, lost>>

\* After the commit, the deadletter lines.
Announce == due # {} /\ told' = told \cup due /\ due' = {}
            /\ UNCHANGED <<mbox, owner, sweeper, status, lost>>

\* The process dies between the commit and the lines.
DiesUnannounced ==
  /\ due # {} /\ lost < MaxPurgeDeaths
  /\ due' = {} /\ lost' = lost + 1
  /\ UNCHANGED <<mbox, owner, told, sweeper, status>>

-----------------------------------------------------------------------------
(* The sweep and its line.                                                 *)

\* Mutant: a message somebody peeked at is not stuck.
Stuck_NeverSeen == {m \in Undelivered : mbox[m].age >= StuckAge /\ ~mbox[m].seen}
Stuck == {m \in Undelivered : mbox[m].age >= StuckAge}

\* The marker is compared with the oldest stuck message; of two of one day the one
\* that came before a drain is the older.
DrainedSinceOldest ==
  \E m \in Stuck : mbox[m].since /\ \A n \in Stuck : mbox[n].age <= mbox[m].age

CoverageVerdict ==
  IF Stuck = {} \/ (owner.marker /\ DrainedSinceOldest) THEN "ok"
  ELSE IF owner.marker THEN "uncovered" ELSE "unobservable"

\* runWakeCoverageSweep: the file is written beside and renamed over.
Sweep ==
  /\ sweeper
  /\ status' = [age |-> "fresh", says |-> CoverageVerdict]
  /\ UNCHANGED <<mbox, owner, due, told, sweeper, lost>>

\* The write fails and the old file stays; or the writer's clock runs ahead.
SweepFails ==
  /\ sweeper
  /\ \/ UNCHANGED status
     \/ status' = [age |-> "ahead", says |-> CoverageVerdict]
  /\ UNCHANGED <<mbox, owner, due, told, sweeper, lost>>

SweeperStarts == ~sweeper /\ sweeper' = TRUE /\ UNCHANGED <<mbox, owner, due, told, status, lost>>
Stops == sweeper /\ sweeper' = FALSE /\ UNCHANGED <<mbox, owner, due, told, status, lost>>

\* formatWakeCoverageStatusLine.
Line == IF status.age # "fresh" \/ status.says = "unobservable" THEN "unknown"
        ELSE status.says

\* Midnight.
NextDay ==
  /\ mbox' = [m \in Mail |-> IF mbox[m].st = "held" /\ mbox[m].age < Oldest
                             THEN [mbox[m] EXCEPT !.age = @ + 1] ELSE mbox[m]]
  /\ status' = IF status.age = "none" THEN status ELSE [status EXCEPT !.age = "stale"]
  /\ UNCHANGED <<owner, due, told, sweeper, lost>>

RetNext ==
  \/ \E m \in Mail : Send(m)
  \/ \E page \in SUBSET Mail : MailDrains(page) \/ Peek(page)
  \/ \E anew \in BOOLEAN : OwnerRegisters(anew)
  \/ Unbind \/ Purge \/ Announce \/ DiesUnannounced
  \/ Sweep \/ SweepFails \/ SweeperStarts \/ Stops \/ NextDay

RetFairness == WF_retVars(NextDay) /\ WF_retVars(Announce)
RetSpec == RetInit /\ [][RetNext]_retVars /\ RetFairness

-----------------------------------------------------------------------------
(* Properties.                                                             *)

\* Types, and no announcement of a drop that did not happen: what is announced or due
\* to be was deleted undrained (db.ts:3229-3237).
RetTypeOK ==
  /\ mbox \in [Mail -> [st : {"none", "held", "purged"}, age : 0..Oldest, read : BOOLEAN,
                        given : BOOLEAN, seen : BOOLEAN, since : BOOLEAN]]
  /\ owner \in [marker : BOOLEAN, bound : BOOLEAN]
  /\ due \cup told \subseteq {m \in Mail : mbox[m].st = "purged" /\ ~mbox[m].read}
  /\ sweeper \in BOOLEAN /\ lost \in 0..MaxPurgeDeaths
  /\ status \in [age : {"none", "fresh", "stale", "ahead"},
                 says : {"ok", "uncovered", "unobservable"}]
  /\ \A m \in Mail : mbox[m].read => mbox[m].given

\* Mail its recipient has not drained outlives the week: it is dropped only past its
\* grace, peeked at or not (db.ts:3189-3199).
GraceIsKept ==
  [][\A m \in Mail : mbox[m].st = "held" /\ ~mbox[m].read /\ mbox'[m].st = "purged"
                     => mbox[m].age > GraceAge]_retVars

\* No drop is silent: undelivered mail that was purged is announced, unless the purging
\* process died in between (the stated limit, db.ts:3273-3278).
DropsAreSaid ==
  \A m \in Mail : mbox[m].st = "purged" /\ ~mbox[m].read
                  => m \in due \cup told \/ lost > 0

\* Undrained mail past the threshold, and no drain since any of it came.
Dark == \E m \in Mail : /\ mbox[m].st = "held" /\ ~mbox[m].read /\ mbox[m].age >= StuckAge
                        /\ \A n \in Mail : mbox[n].st = "held" => ~mbox[n].since

\* When mail sits past the threshold for good and nothing was drained since it came, the
\* line of a session start comes to say other than OK, and says it from then on: whether
\* the sweep runs, fails or has stopped, and whatever was peeked
\* (wake-coverage-detector.ts:321-346, wake-coverage-status.ts:194-243).
DarkIsNeverOk == <>[]Dark => <>[](Line # "ok")

\* The promises of retention: a drop is said, the grace is kept, and a dark sweep never
\* reads as covered (db.ts, wake-coverage-*.ts).
DropsKnown ==
  /\ []RetTypeOK /\ []DropsAreSaid /\ GraceIsKept /\ DarkIsNeverOk

\* UNCOVERED is "drained before, but not since the stuck mail arrived", for an agent
\* with mail pending past the bound (wake-coverage-detector.ts:20-28): at a sweep, an
\* agent with such mail does not read OK.
UncoveredIsReported ==
  [][Sweep /\ owner.marker
       /\ (\E m \in Mail : /\ mbox[m].st = "held" /\ ~mbox[m].read
                           /\ mbox[m].age >= StuckAge /\ ~mbox[m].since)
     => status'.says # "ok"]_retVars

\* The announcement says that no recipient has drained the message (db.ts:3284).
AnnouncedUndrained == \A m \in told : ~mbox[m].given
=============================================================================
