------------------------------- MODULE RelayLog -------------------------------
(***************************************************************************)
(* The doorbell's log as a file: records appended write-ahead through a    *)
(* held descriptor, a torn tail cut when the log is opened, a compaction   *)
(* that replaces the file, and a driver that follows it by its path.       *)
(* What the records say is in RelayRings and RelayBoard.                   *)
(*                                                                         *)
(* A record is written in two halves, the second with the newline.  Record *)
(* 0 is a header, the others are intents.  The job may be killed and the   *)
(* machine may lose power at any point.                                    *)
(***************************************************************************)
EXTENDS Naturals, SequencesExt

CONSTANTS Inodes,          \* files of the state directory, then reused
          MaxIntents,      \* bound: intents written
          MaxStarts,       \* bound: starts of the job
          MaxLosses        \* bound: losses of power

VARIABLES files,           \* what each inode holds, and how much of it is on disk
          at,              \* the inode the log's name is bound to
          logJob,             \* the process
          needed,          \* intents a compaction keeps
          intents, logStarts, losses,
          tail             \* the tailer

logVars == <<files, at, logJob, needed, intents, logStarts, losses, tail>>

None == 0
Header == 0
Half(i, n) == <<i, n>>
Record(i) == <<Half(i, 1), Half(i, 2)>>
Blank == [bytes |-> <<>>, synced |-> 0]
DownJob == [pc |-> "down", fd |-> None, mem |-> {}, rec |-> Header, half |-> 0, tmp |-> None]
NewTail == [fd |-> None, off |-> 0, partial |-> <<>>, seen |-> {}, pc |-> "idle", moved |-> FALSE]

\* The records of some bytes that are whole.
RecordsOf(bytes) == {bytes[k][1] : k \in {j \in DOMAIN bytes : bytes[j][2] = 2}}
IntentsOf(bytes) == RecordsOf(bytes) \ {Header}
Torn(bytes) == bytes # <<>> /\ Last(bytes)[2] = 1

-----------------------------------------------------------------------------
(* The job.                                                                *)

\* openLog cuts an unterminated tail; a complete line that is no record is refused.
Recovered(bytes) == IF Torn(bytes) THEN Front(bytes) ELSE bytes
Parses(bytes) ==
  \A k \in DOMAIN bytes :
    IF bytes[k][2] = 1 THEN k > 1 => bytes[k - 1][2] = 2
    ELSE k > 1 /\ bytes[k - 1] = Half(bytes[k][1], 1)

\* Leftover temporaries go; the header is the first record of a start.
OpenLog ==
  /\ logJob.pc = "down" /\ logStarts < MaxStarts
  /\ logStarts' = logStarts + 1
  /\ LET bytes == Recovered(files[at].bytes)
         n == IF files[at].synced > Len(bytes) THEN Len(bytes) ELSE files[at].synced
     IN /\ files' = [files EXCEPT ![at] = [bytes |-> bytes, synced |-> n]]
        /\ logJob' = [DownJob EXCEPT !.pc = "header", !.fd = at, !.mem = IntentsOf(bytes)]
  /\ UNCHANGED <<at, needed, intents, losses, tail>>

\* appendRecord: the line is written, in as many writes as it takes.
WriteHalf ==
  /\ logJob.pc \in {"header", "append"} /\ logJob.half < 2
  /\ files' = [files EXCEPT ![logJob.fd].bytes = Append(@, Half(logJob.rec, logJob.half + 1))]
  /\ logJob' = [logJob EXCEPT !.half = @ + 1]
  /\ UNCHANGED <<at, needed, intents, logStarts, losses, tail>>

\* Memory follows the log once the record is on disk.
Sync ==
  /\ logJob.pc \in {"header", "append"} /\ logJob.half = 2
  /\ files' = [files EXCEPT ![logJob.fd].synced = Len(files[logJob.fd].bytes)]
  /\ logJob' = [logJob EXCEPT !.pc = IF @ = "header" THEN "start" ELSE "up", !.half = 0,
                        !.mem = IF logJob.pc = "append" THEN @ \cup {logJob.rec} ELSE @]
  /\ UNCHANGED <<at, needed, intents, logStarts, losses, tail>>

\* LogWriteError: the job stops rather than write again.
AfterFault == DownJob
WriteFails ==
  /\ logJob.pc \in {"header", "append"}
  /\ logJob' = AfterFault
  /\ UNCHANGED <<files, at, needed, intents, logStarts, losses, tail>>

\* The new file is on disk before its rename.
TmpSynced(bytes) == Len(bytes)

\* compactLog: the kept records go to a new file, unchanged.
Free == {i \in Inodes : i # at /\ i # logJob.fd /\ i # tail.fd}
Kept(bytes) ==
  <<Half(Header, 1), Half(Header, 2)>>
    \o FlattenSeq(SetToSortSeq({Record(i) : i \in IntentsOf(bytes) \cap needed},
                               LAMBDA a, b : a[1][1] < b[1][1]))
CompactWrite ==
  /\ logJob.pc = "start"
  /\ \E i \in Free :
       LET bytes == Kept(files[logJob.fd].bytes)
       IN /\ files' = [files EXCEPT ![i] = [bytes |-> bytes, synced |-> TmpSynced(bytes)]]
          /\ logJob' = [logJob EXCEPT !.pc = "rename", !.tmp = i]
  /\ UNCHANGED <<at, needed, intents, logStarts, losses, tail>>

\* A fresh handle on the new file.
Reopened == logJob.tmp
CompactRename ==
  /\ logJob.pc = "rename"
  /\ at' = logJob.tmp
  /\ logJob' = [DownJob EXCEPT !.pc = "up", !.fd = Reopened, !.mem = IntentsOf(files[logJob.tmp].bytes)]
  /\ UNCHANGED <<files, needed, intents, logStarts, losses, tail>>

\* A cycle plans an intent.
Plan ==
  /\ logJob.pc = "up" /\ intents < MaxIntents
  /\ intents' = intents + 1
  /\ needed' = needed \cup {intents + 1}
  /\ logJob' = [logJob EXCEPT !.pc = "append", !.rec = intents + 1]
  /\ UNCHANGED <<files, at, logStarts, losses, tail>>

\* What an intent rang for is over, and it left the hour.
Over ==
  /\ \E i \in needed : needed' = needed \ {i}
  /\ UNCHANGED <<files, at, logJob, intents, logStarts, losses, tail>>

Killed ==
  /\ logJob.pc # "down"
  /\ logJob' = DownJob
  /\ UNCHANGED <<files, at, needed, intents, logStarts, losses, tail>>

\* Of what was not synced any part may be lost.
PowerLoss ==
  /\ losses < MaxLosses
  /\ losses' = losses + 1
  /\ logJob' = DownJob /\ tail' = NewTail
  /\ \E n \in files[at].synced .. Len(files[at].bytes) :
       files' = [files EXCEPT ![at] = [bytes |-> SubSeq(files[at].bytes, 1, n), synced |-> n]]
  /\ UNCHANGED <<at, needed, intents, logStarts>>

-----------------------------------------------------------------------------
(* LogTailer.                                                              *)

\* openCurrent.
LogOpened(t) == [t EXCEPT !.fd = at, !.off = 0, !.partial = <<>>]

\* drain: from the last offset to the end; a line is read when its newline is, and a
\* line that does not parse throws.
Drained(t) ==
  LET bytes == files[t.fd].bytes
      new == SubSeq(bytes, t.off + 1, Len(bytes))
      text == t.partial \o new
      bad == t.partial # <<>> /\ new # <<>> /\ new[1] # Half(t.partial[1][1], 2)
  IN IF new = <<>> THEN t
     ELSE [t EXCEPT !.off = Len(bytes),
                    !.partial = IF Torn(text) THEN <<Last(text)>> ELSE <<>>,
                    !.seen = IF bad THEN @ ELSE @ \cup IntentsOf(text),
                    !.pc = IF bad THEN "idle" ELSE @]

\* Mutant: the replacement is looked for after the drain.
Moved_Late == at # tail.fd
\* Whether the path was seen to name another file, before the drain.
Moved == tail.moved

\* poll: a replacement is looked for first, then the open file is drained, then the
\* new one is opened.
Detect ==
  /\ tail.pc = "idle"
  /\ LET t == IF tail.fd = None THEN LogOpened(tail) ELSE tail
     IN tail' = [t EXCEPT !.pc = "drain", !.moved = t.fd # at]
  /\ UNCHANGED <<files, at, logJob, needed, intents, logStarts, losses>>

DrainAtOpen ==
  /\ tail.pc = "drain"
  /\ tail' = Drained([tail EXCEPT !.pc = "switch"])
  /\ UNCHANGED <<files, at, logJob, needed, intents, logStarts, losses>>

Switch ==
  /\ tail.pc = "switch"
  /\ tail' = [(IF Moved THEN Drained(LogOpened(tail)) ELSE tail) EXCEPT !.pc = "idle", !.moved = FALSE]
  /\ UNCHANGED <<files, at, logJob, needed, intents, logStarts, losses>>

-----------------------------------------------------------------------------

LogInit ==
  /\ files = [i \in Inodes |-> Blank]
  /\ at = CHOOSE i \in Inodes : TRUE
  /\ logJob = DownJob
  /\ needed = {} /\ intents = 0 /\ logStarts = 0 /\ losses = 0
  /\ tail = NewTail

LogNext ==
  \/ OpenLog \/ WriteHalf \/ Sync \/ WriteFails \/ CompactWrite \/ CompactRename
  \/ Plan \/ Over \/ Killed \/ PowerLoss
  \/ Detect \/ DrainAtOpen \/ Switch

\* The driver polls.
LogFairness == WF_logVars(Detect) /\ WF_logVars(DrainAtOpen) /\ WF_logVars(Switch)

LogSpec == LogInit /\ [][LogNext]_logVars /\ LogFairness

-----------------------------------------------------------------------------
(* Properties.                                                             *)

LogTypeOK ==
  /\ at \in Inodes
  /\ \A i \in Inodes : files[i].synced <= Len(files[i].bytes)
  /\ logJob.fd # None => logJob.fd = at
  /\ logJob.mem \cup tail.seen \cup needed \subseteq 1 .. intents
  /\ Len(tail.partial) <= 1

\* Whenever it is opened the log can be read: a record cut short by a crash is never
\* followed by another one.
LogReads == Parses(Recovered(files[at].bytes))

\* Write-ahead: once a job plans (its header written), what it remembers having
\* planned is on disk, whatever the machine loses.
WriteAhead ==
  logJob.pc # "header" => logJob.mem \subseteq IntentsOf(SubSeq(files[at].bytes, 1, files[at].synced))

\* The driver reads a file to its end before it leaves it for the next: no intent
\* is passed over.
LeavesNothing ==
  [][(tail.fd # None /\ tail'.fd \notin {tail.fd, None})
       => IntentsOf(files[tail.fd].bytes) \subseteq tail'.seen]_logVars

\* An intent that stands, in the job's memory or in the log it left behind, reaches
\* the driver, across compactions and restarts of the job.
Intended == logJob.mem \cup IntentsOf(files[at].bytes)
ReachesDriver ==
  \A i \in 1 .. MaxIntents : []<>(i \notin Intended \cap needed \/ i \in tail.seen \/ tail = NewTail)

\* The promises of the log file: it reads, intents are on disk before they act, and what is
\* needed survives a compaction and reaches the driver (doorbell-log.ts).
LogServes ==
  /\ []LogTypeOK /\ []LogReads /\ []WriteAhead /\ LeavesNothing /\ ReachesDriver

=============================================================================
