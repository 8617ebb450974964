---------------------------- MODULE RelayImage ----------------------------
(***************************************************************************)
(* One wasm connection: WasmDatabase and WasmStatement of                  *)
(* src/sqlite-compat.ts.  The database is an image in memory, exported and *)
(* written back after every statement outside a transaction and after      *)
(* every outermost transaction.  A write-back can fail; the change then    *)
(* stays in the image, and close() says how many row changes were lost.    *)
(*                                                                         *)
(* SQLite's total_changes() counts rows rolled back too and is reset by an *)
(* export, so the connection keeps a tally of its own.  The model keeps    *)
(* that tally next to the truth: how many committed row changes are in the *)
(* image and not in the file.  Only numbers of row changes are modelled.   *)
(* A pragma inside a transaction, which no caller runs, is left out, and   *)
(* with it the export that would end a transaction.                        *)
(***************************************************************************)
EXTENDS Integers, FiniteSets

CONSTANTS MaxChanges        \* bound: row changes of one connection

ASSUME ChangesBound == MaxChanges \in Nat

VARIABLES state,            \* "open", "dead" after a failed export, "closed"
          tally,            \* what the connection counts
          tx,               \* the open transaction: its depth and start marks
          unsaved,          \* truth: committed changes missing from the file
          pending,          \* truth: changes of the open transaction, by depth
          understood,       \* FALSE once a savepoint undid counted changes
          made,             \* row changes so far
          result,           \* the last call's outcome, as its caller saw it
          reported          \* changes close() said were lost

imageVars == <<state, tally, tx, unsaved, pending, understood, made, result, reported>>

Depths == 1..2

NoTx == [depth |-> 0, start |-> 0]
NoTally == [total |-> 0, undone |-> 0, unwritten |-> 0, atFailure |-> 0]

Positive(n) == IF n > 0 THEN n ELSE 0

-----------------------------------------------------------------------------
(* The write-back.                                                         *)

\* exportTallied: the committed changes since the last export.
SinceExport(t) == Positive(t.total - t.undone)

\* An export that succeeded resets SQLite's counter.
Exported(t) == [t EXCEPT !.unwritten = @ + SinceExport(t), !.undone = 0,
                         !.total = 0]

\* What flush() can come to: written, not written, not exported, or exported too
\* late, with the database closed under it.
Outcomes == {"written", "disk", "export", "dead"}

\* Mutant: the tally is cleared by the export, not by the write.
AfterFlush_Early(t, o) ==
  CASE o \in {"written", "disk"} -> [Exported(t) EXCEPT !.unwritten = 0]
    [] o \in {"export", "dead"} -> [t EXCEPT !.atFailure = t.unwritten + SinceExport(t)]
\* flush: only a successful write clears the tally.
AfterFlush(t, o) ==
  CASE o = "written" -> [Exported(t) EXCEPT !.unwritten = 0, !.atFailure = 0]
    [] o = "disk" -> [Exported(t) EXCEPT !.atFailure = Exported(t).unwritten]
    [] o \in {"export", "dead"} -> [t EXCEPT !.atFailure = t.unwritten + SinceExport(t)]

\* The failure reaches the caller.
Heard(o) == IF o = "written" THEN "ok" ELSE "error"

\* A flush of image t with n changes to save.
Flush(t, n, o) ==
  /\ tally' = AfterFlush(t, o)
  /\ unsaved' = IF o = "written" THEN 0 ELSE n
  /\ state' = IF o = "dead" THEN "dead" ELSE "open"

Alive == state = "open"

-----------------------------------------------------------------------------
(* Statements and transactions.                                            *)

Changes(n) == made + n <= MaxChanges /\ made' = made + n

\* run or exec outside a transaction; one that throws after changing rows is
\* written back all the same.
Statement(n) ==
  /\ Alive /\ tx.depth = 0 /\ Changes(n)
  /\ \E o \in Outcomes, throws \in BOOLEAN :
       /\ Flush([tally EXCEPT !.total = @ + n], unsaved + n, o)
       /\ result' = IF throws THEN "error" ELSE Heard(o)
  /\ UNCHANGED <<tx, pending, understood, reported>>

\* Inside one the write-back waits.
StatementInTx(n) ==
  /\ Alive /\ tx.depth > 0 /\ Changes(n)
  /\ tally' = [tally EXCEPT !.total = @ + n]
  /\ pending' = [pending EXCEPT ![tx.depth] = @ + n]
  /\ result' = "ok"
  /\ UNCHANGED <<state, tx, unsaved, understood, reported>>

\* transaction(): BEGIN, or a savepoint inside one.
BeginTx ==
  /\ Alive /\ tx.depth < 2
  /\ tx' = IF tx.depth = 0 THEN [depth |-> 1, start |-> tally.total]
           ELSE [tx EXCEPT !.depth = 2]
  /\ UNCHANGED <<state, tally, unsaved, pending, understood, made, result, reported>>

ReleaseSavepoint ==
  /\ Alive /\ tx.depth = 2
  /\ tx' = [tx EXCEPT !.depth = 1]
  /\ pending' = [pending EXCEPT ![1] = @ + pending[2], ![2] = 0]
  /\ result' = "ok"
  /\ UNCHANGED <<state, tally, unsaved, understood, made, reported>>

\* The counter keeps what ROLLBACK TO undid.
RollbackSavepoint ==
  /\ Alive /\ tx.depth = 2
  /\ tx' = [tx EXCEPT !.depth = 1]
  /\ understood' = (understood /\ pending[2] = 0)
  /\ pending' = [pending EXCEPT ![2] = 0]
  /\ result' = "error"
  /\ UNCHANGED <<state, tally, unsaved, made, reported>>

Commit ==
  /\ Alive /\ tx.depth = 1
  /\ \E o \in Outcomes : /\ Flush(tally, unsaved + pending[1], o)
                         /\ result' = Heard(o)
  /\ tx' = NoTx
  /\ pending' = [d \in Depths |-> 0]
  /\ UNCHANGED <<understood, made, reported>>

\* ROLLBACK of the outermost transaction: its changes come off the next export.
Undone(t) == [t EXCEPT !.undone = @ + (t.total - tx.start)]

\* The write-back after a rollback, whose own failure is swallowed.
Rollback ==
  /\ Alive /\ tx.depth = 1
  /\ \E o \in Outcomes : Flush(Undone(tally), unsaved, o)
  /\ result' = "error"
  /\ tx' = NoTx
  /\ pending' = [d \in Depths |-> 0]
  /\ UNCHANGED <<understood, made, reported>>

\* serialize(), a warm backup: an export that is written somewhere else.
Serialize ==
  /\ Alive /\ tx.depth = 0
  /\ tally' = Exported(tally)
  /\ UNCHANGED <<state, tx, unsaved, pending, understood, made, result, reported>>

\* close(): the last write-back, and the loss reported when it is refused.
CloseImage ==
  /\ Alive /\ tx.depth = 0
  /\ \E o \in Outcomes :
       /\ tally' = AfterFlush(tally, o)
       /\ unsaved' = IF o = "written" THEN 0 ELSE unsaved
       /\ reported' = IF o = "written" THEN 0 ELSE tally'.atFailure
       /\ result' = Heard(o)
  /\ state' = "closed"
  /\ UNCHANGED <<tx, pending, understood, made>>

ImageInit ==
  /\ state = "open" /\ tally = NoTally /\ tx = NoTx /\ unsaved = 0
  /\ pending = [d \in Depths |-> 0] /\ understood = TRUE /\ made = 0
  /\ result = "ok" /\ reported = -1

ImageNext ==
  \/ \E n \in 1..2 : Statement(n) \/ StatementInTx(n)
  \/ BeginTx \/ ReleaseSavepoint \/ RollbackSavepoint \/ Commit \/ Rollback
  \/ Serialize \/ CloseImage

ImageSpec == ImageInit /\ [][ImageNext]_imageVars

-----------------------------------------------------------------------------
(* Properties.                                                             *)

\* The tally is a count of changes that were made and no more: it never goes
\* below zero and never above what the connection did (exportTallied, flush).
ImageTypeOK ==
  /\ state \in {"open", "dead", "closed"}
  /\ tally.total \in 0..MaxChanges /\ tally.undone \in 0..tally.total
  /\ tally.unwritten \in 0..MaxChanges
  /\ tx.depth \in 0..2 /\ unsaved \in 0..MaxChanges
  /\ pending \in [Depths -> 0..MaxChanges]
  /\ reported \in -1..MaxChanges

\* A call that returned outside a transaction has its change in the file, and so
\* have all before it: nothing a caller was told is done waits in memory.
AnsweredIsWritten == (result = "ok" /\ tx.depth = 0 /\ made > 0 /\ state = "open") => unsaved = 0

\* The loss that close() reports is the loss: every committed change missing from
\* the file, counted through failed write-backs, backups and rollbacks; when a
\* savepoint was rolled back it may say more, never less.
LossReported ==
  (state = "closed" /\ reported >= 0)
     => /\ reported >= unsaved
        /\ understood => reported = unsaved

\* The promises of the wasm image: an answered change is on disk, and a close reports at
\* least what was lost (sqlite-compat.ts).
ImageHonest == ImageTypeOK /\ AnsweredIsWritten /\ LossReported
=============================================================================
