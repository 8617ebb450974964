---------------------------- MODULE RelayKeyring ----------------------------
(***************************************************************************)
(* Encryption at rest through a key rotation: the keyring of               *)
(* src/encryption.ts, `relay re-encrypt` of src/cli/re-encrypt.ts with its *)
(* progress table, and the key check of a restore in src/backup-secrets.ts.*)
(*                                                                         *)
(* A process reads its keyring when it starts and keeps it.  Writers       *)
(* encrypt under their current key while any number of re-encryptions walk *)
(* the columns in batches; a run killed half way leaves its progress row   *)
(* at 'running', and a later one takes it over when it is an hour old.     *)
(* The operator follows docs/key-rotation.md: add the new key, make it     *)
(* current, re-encrypt, verify, retire the old one, restarting every       *)
(* process after each edit.                                                *)
(*                                                                         *)
(* A row is the format and key it is stored under and the version of its   *)
(* text.  A key id names one key: another key under the same id, which a   *)
(* restore finds out by its fingerprint, is left out.                      *)
(***************************************************************************)
EXTENDS Naturals, FiniteSets

CONSTANTS Servers,        \* processes that read and write the database
          Runs,           \* processes of `relay re-encrypt`
          Cells,          \* <<column, primary key>> of every encrypted value
          Targets,        \* the columns `relay re-encrypt` walks, in TARGETS
          Old, New,       \* the two key ids
          MaxText,        \* bound: versions of one row's text
          MaxKeyFaults       \* bound: runs killed and archives made

\* The two key ids are two, and none of them, nor a run, has the name of a format.
ASSUME KeyNames ==
  /\ Old # New /\ {Old, New} \cap {"v1", "none"} = {} /\ "none" \notin Runs
  /\ MaxText \in Nat \ {0} /\ MaxKeyFaults \in Nat

VARIABLES ring,           \* the keyring the environment names
          held,           \* the keyring each server has loaded
          rows,           \* the encrypted values
          progress,       \* the unfinished row of reencryption_progress
          run,            \* the re-encryptions under way
          verdict,        \* what `--verify-clean` said of Old
          archive,        \* a backup, or NoArchive
          faults          \* runs killed and archives made so far

ringVars == <<ring, held, rows, progress, run, verdict, archive, faults>>

-----------------------------------------------------------------------------
(* Keyrings and stored values.                                             *)

\* What a value is stored as: in the format without a key id, or under a key id.
\* Plaintext, which every process reads and no command touches, is left out.
Formats == {"v1", Old, New}
None == [as |-> "none", text |-> 0]
Gone == [as |-> "none", text |-> MaxText]
Values == {None, Gone} \cup [as: Formats, text: 1..MaxText]

\* The key a value needs: a value without a key id is under the legacy key.
KeyOf(v) == IF v.as = "v1" THEN Old ELSE v.as
IsCipher(v) == v.as # "none"

\* validateKeyring: the current key is one of the keys.
Keyrings == {k \in [current: {Old, New}, keys: SUBSET {Old, New}] :
               k.current \in k.keys}

\* decryptContent: the value's key is in the keyring.
Reads(k, v) == IsCipher(v) => KeyOf(v) \in k.keys

\* encryptContent: always under the current key, in the format with a key id.
EncryptContent(k, text) == [as |-> k.current, text |-> text]

\* fromPredicate: the rows still under a key, legacy rows under the legacy key.
FromPredicate(v, from) == IsCipher(v) /\ KeyOf(v) = from

\* assertKeyringCanRead: the keyring holds every key id the archive needs.
CanRead(k, saved) == \A c \in DOMAIN saved : Reads(k, saved[c])

-----------------------------------------------------------------------------
(* Servers.                                                                *)

Column(c) == c[1]
Pk(c) == c[2]

\* A send, post, update or audit insert: a new value, or a new text for one
\* that is there (a task accepted with a result, then completed with another).
Write(p, c) ==
  /\ rows[c].text < MaxText
  /\ rows[c] # None => Column(c) = "result"
  /\ rows' = [rows EXCEPT ![c] = EncryptContent(held[p], @.text + 1)]
  /\ UNCHANGED <<ring, held, progress, run, verdict, archive, faults>>

\* The retention purge of old messages, finished tasks and audit entries.
PurgeOld(c) ==
  /\ IsCipher(rows[c])
  /\ Column(c) \in Targets
  /\ rows' = [rows EXCEPT ![c] = Gone]
  /\ UNCHANGED <<ring, held, progress, run, verdict, archive, faults>>

\* loadKeyring: read once, and again only at the next start of the process.
Restart(p) ==
  /\ held[p] # ring
  /\ held' = [held EXCEPT ![p] = ring]
  /\ UNCHANGED <<ring, rows, progress, run, verdict, archive, faults>>

-----------------------------------------------------------------------------
(* relay re-encrypt --from Old --to New.                                   *)

NoRun == [pc |-> "out", col |-> "none", left |-> {}, batch |-> <<>>,
          cursor |-> 0, id |-> "none"]
NoProgress == [live |-> FALSE, stale |-> FALSE, last |-> 0, by |-> "none"]

Step(r, pc) == [run EXCEPT ![r].pc = pc]

Settled == \A p \in Servers : held[p] = ring

LeftToDo == \E c \in Cells : Column(c) \in Targets /\ FromPredicate(rows[c], Old)

\* run: the target key is held, and there is something to do.  The runbook has
\* every process restarted first.
StartRun(r) ==
  /\ run[r].pc = "out"
  /\ Settled
  /\ ring.current = New
  /\ Old \in ring.keys
  /\ LeftToDo
  /\ run' = [run EXCEPT ![r] = [NoRun EXCEPT !.pc = "next", !.left = Targets]]
  /\ UNCHANGED <<ring, held, rows, progress, verdict, archive, faults>>

\* STALE_RUN_SECONDS: an unfinished run an hour old is taken over.
Reclaims(row) == row.stale

\* The next column, and the read of its progress row.
Look(r, col) ==
  /\ run[r].pc = "next"
  /\ col \in run[r].left
  /\ \/ /\ ~progress[col].live
        /\ run' = [run EXCEPT ![r] = [@ EXCEPT !.pc = "insert", !.col = col,
                                               !.left = run[r].left \ {col}]]
     \/ /\ progress[col].live
        /\ Reclaims(progress[col])
        /\ run' = [run EXCEPT ![r] = [@ EXCEPT !.pc = "reclaim", !.col = col,
                                               !.left = run[r].left \ {col},
                                               !.id = progress[col].by,
                                               !.cursor = progress[col].last]]
     \/ /\ progress[col].live
        /\ ~Reclaims(progress[col])
        /\ run' = [run EXCEPT ![r] = [@ EXCEPT !.left = run[r].left \ {col}]]
  /\ UNCHANGED <<ring, held, rows, progress, verdict, archive, faults>>

\* The unique index lets one 'running' row in; the other run skips the column.
InsertProgress(r) ==
  LET col == run[r].col IN
  /\ run[r].pc = "insert"
  /\ \/ /\ ~progress[col].live
        /\ progress' = [progress EXCEPT ![col] =
                          [live |-> TRUE, stale |-> FALSE, last |-> 0, by |-> r]]
        /\ run' = [run EXCEPT ![r] = [@ EXCEPT !.pc = "fetch", !.id = r]]
     \/ /\ progress[col].live
        /\ run' = [run EXCEPT ![r] = [@ EXCEPT !.pc = "next", !.col = "none"]]
        /\ UNCHANGED progress
  /\ UNCHANGED <<ring, held, rows, verdict, archive, faults>>

\* The taken-over row keeps its run id; nothing stops two runs from taking it.
ReclaimProgress(r) ==
  /\ run[r].pc = "reclaim"
  /\ progress' = [progress EXCEPT ![run[r].col].stale = FALSE]
  /\ run' = Step(r, "fetch")
  /\ UNCHANGED <<ring, held, rows, verdict, archive, faults>>

\* The next value of a column under Old, in the order of its key.  The command's
\* SQL has no parentheses around its OR, so the cursor bounds only the values
\* without a key id.
Pending(col, cursor) ==
  {c \in Cells : /\ Column(c) = col
                 /\ FromPredicate(rows[c], Old)
                 /\ rows[c].as = "v1" => Pk(c) > cursor}
IsNext(c, cells) == c \in cells /\ \A d \in cells : Pk(c) <= Pk(d)

\* A batch of one row, as --batch-size 1 has it; an empty batch ends the column.
Fetch(r) ==
  LET found == Pending(run[r].col, run[r].cursor) IN
  /\ run[r].pc = "fetch"
  /\ \/ \E c \in Cells :
          /\ IsNext(c, found)
          /\ run' = [run EXCEPT ![r] = [@ EXCEPT !.batch = <<c, rows[c]>>, !.pc = "write"]]
     \/ found = {} /\ run' = Step(r, "finish")
  /\ UNCHANGED <<ring, held, rows, progress, verdict, archive, faults>>

\* Mutant: the row is updated by its primary key alone.
Unchanged_Any(c, v) == c \in Cells
\* UPDATE ... WHERE pk = ? AND col = ?: only the value the batch read.
Unchanged(c, v) == rows[c] = v

\* The batch's transaction; a value rewritten or deleted since the read is passed
\* over.
WriteBatch(r) ==
  LET c == run[r].batch[1]  v == run[r].batch[2] IN
  /\ run[r].pc = "write"
  /\ rows' = IF Unchanged(c, v)
             THEN [rows EXCEPT ![c] = [as |-> New, text |-> v.text]]
             ELSE rows
  /\ run' = [run EXCEPT ![r] = [@ EXCEPT !.pc = "mark", !.batch = <<>>, !.cursor = Pk(c)]]
  /\ UNCHANGED <<ring, held, progress, verdict, archive, faults>>

\* The live progress row of the run's column, when it is still its own.
OwnProgress(r) == progress[run[r].col].by = run[r].id

\* The progress row follows in a statement of its own, by run id.
MarkProgress(r) ==
  /\ run[r].pc = "mark"
  /\ progress' = IF OwnProgress(r)
                 THEN [progress EXCEPT ![run[r].col].last = run[r].cursor]
                 ELSE progress
  /\ run' = Step(r, "fetch")
  /\ UNCHANGED <<ring, held, rows, verdict, archive, faults>>

\* 'completed', by run id: the row another run took over is completed too.
Finish(r) ==
  /\ run[r].pc = "finish"
  /\ progress' = IF OwnProgress(r)
                 THEN [progress EXCEPT ![run[r].col] = NoProgress]
                 ELSE progress
  /\ run' = [run EXCEPT ![r] = [@ EXCEPT !.pc = "next", !.col = "none", !.cursor = 0,
                                         !.id = "none"]]
  /\ UNCHANGED <<ring, held, rows, verdict, archive, faults>>

\* Exit 0, or 3 when a column was skipped.
Exit(r) ==
  /\ run[r].pc = "next"
  /\ run[r].left = {}
  /\ run' = [run EXCEPT ![r] = NoRun]
  /\ UNCHANGED <<ring, held, rows, progress, verdict, archive, faults>>

\* SIGKILL or a reboot: the progress row stays 'running'.
Killed(r) ==
  /\ run[r].pc # "out"
  /\ faults < MaxKeyFaults
  /\ run' = [run EXCEPT ![r] = NoRun]
  /\ faults' = faults + 1
  /\ UNCHANGED <<ring, held, rows, progress, verdict, archive>>

\* An hour goes by.
HourPasses(col) ==
  /\ progress[col].live
  /\ ~progress[col].stale
  /\ progress' = [progress EXCEPT ![col].stale = TRUE]
  /\ UNCHANGED <<ring, held, rows, run, verdict, archive, faults>>

-----------------------------------------------------------------------------
(* relay re-encrypt --verify-clean, and the operator's runbook.            *)

\* countRows over TARGETS is zero; the agents' token digests, which are counted
\* too, are left out of the model.
Clean == ~LeftToDo

VerifyClean ==
  /\ Settled
  /\ ring.current = New
  /\ Clean
  /\ ~verdict
  /\ verdict' = TRUE
  /\ UNCHANGED <<ring, held, rows, progress, run, archive, faults>>

\* Steps 1, 2 and 5 of the runbook, each after every process has restarted.
EditRing ==
  /\ Settled
  /\ \A r \in Runs : run[r].pc = "out"
  /\ \/ ring.keys = {Old} /\ ring' = [ring EXCEPT !.keys = {Old, New}]
     \/ /\ ring = [current |-> Old, keys |-> {Old, New}]
        /\ ring' = [ring EXCEPT !.current = New]
     \/ /\ verdict
        /\ Old \in ring.keys
        /\ ring' = [ring EXCEPT !.keys = {New}]
  /\ UNCHANGED <<held, rows, progress, run, verdict, archive, faults>>

-----------------------------------------------------------------------------
(* relay backup and relay restore.                                         *)

NoArchive == <<>>

\* An archive made before the rotation.
Backup ==
  /\ archive = NoArchive
  /\ ring.keys = {Old}
  /\ faults < MaxKeyFaults
  /\ \E c \in Cells : IsCipher(rows[c])
  /\ archive' = rows
  /\ faults' = faults + 1
  /\ UNCHANGED <<ring, held, rows, progress, run, verdict>>

\* Refused before anything is changed unless the keyring reads the archive.  No
\* process has the database open; they load the keyring when they start again.
\* What the verification said was said of the database that is replaced.
Restore ==
  /\ archive # NoArchive
  /\ \A r \in Runs : run[r].pc = "out"
  /\ CanRead(ring, archive)
  /\ rows' = archive
  /\ archive' = NoArchive
  /\ verdict' = FALSE
  /\ held' = [p \in Servers |-> ring]
  /\ progress' = [col \in Targets |-> NoProgress]
  /\ UNCHANGED <<ring, run, faults>>

-----------------------------------------------------------------------------
(* The specification.                                                      *)

KeyInit ==
  /\ ring = [current |-> Old, keys |-> {Old}]
  /\ held = [p \in Servers |-> ring]
  /\ rows \in [Cells -> {None} \cup [as: {"v1", Old}, text: {1}]]
  /\ progress = [col \in Targets |-> NoProgress]
  /\ run = [r \in Runs |-> NoRun]
  /\ verdict = FALSE
  /\ archive = NoArchive
  /\ faults = 0

RunStep(r) ==
  \/ \E col \in Targets : Look(r, col)
  \/ InsertProgress(r)
  \/ ReclaimProgress(r)
  \/ Fetch(r)
  \/ WriteBatch(r)
  \/ MarkProgress(r)
  \/ Finish(r)
  \/ Exit(r)

KeyNext ==
  \/ \E p \in Servers : Restart(p) \/ \E c \in Cells : Write(p, c)
  \/ \E c \in Cells : PurgeOld(c)
  \/ \E r \in Runs : StartRun(r) \/ RunStep(r) \/ Killed(r)
  \/ \E col \in Targets : HourPasses(col)
  \/ VerifyClean
  \/ EditRing
  \/ Backup
  \/ Restore

\* A run that was started goes on, time passes, and the operator runs the
\* command again, as the runbook says to after an interruption.
KeyFairness ==
  /\ \A r \in Runs : WF_ringVars(RunStep(r)) /\ WF_ringVars(StartRun(r))
  /\ \A col \in Targets : WF_ringVars(HourPasses(col))

KeySpec == KeyInit /\ [][KeyNext]_ringVars /\ KeyFairness

-----------------------------------------------------------------------------
(* Properties.                                                             *)

KeyTypeOK ==
  /\ ring \in Keyrings
  /\ held \in [Servers -> Keyrings]
  /\ rows \in [Cells -> Values]
  /\ \A col \in Targets : progress[col].live \/ progress[col] = NoProgress
  /\ \A r \in Runs : run[r].pc = "write" <=> run[r].batch # <<>>

\* Every value of the five columns that `relay re-encrypt` walks reads in every
\* process at every moment of a rotation, with restarts, re-encryptions, killed
\* runs and restores in any order, when the old key is retired only after
\* `--verify-clean` said so.  This is what the runbook is for.
EveryValueReads ==
  \A p \in Servers, c \in Cells :
    Column(c) \in Targets => Reads(held[p], rows[c]) /\ Reads(ring, rows[c])

\* Once `--verify-clean` has said that the old key is unused, none of the
\* five columns comes to need it again.
VerdictStands ==
  verdict => \A c \in Cells : Column(c) \in Targets /\ IsCipher(rows[c])
                              => KeyOf(rows[c]) # Old

\* No step of a re-encryption puts an older text over a newer one, or brings a
\* purged row back, whatever was written between its read and its update.
NewestText ==
  [][(\E r \in Runs : run'[r] # run[r]) =>
       \A c \in Cells : rows'[c].text = rows[c].text]_ringVars

\* A run that was killed does not keep its column: its row stops being the live
\* one, because a later run takes it over.
TakenOver ==
  \A col \in Targets : []<>(~progress[col].live \/ ~LeftToDo)

\* The promises of a key rotation by the runbook: values stay readable and newest, a clean
\* verdict stands, a killed run is taken over (cli/re-encrypt.ts, encryption.ts).
KeysServe ==
  /\ []KeyTypeOK /\ []EveryValueReads /\ []VerdictStands /\ NewestText /\ TakenOver

\* What the runbook and the usage text say of the verdict: zero rows across all
\* encrypted columns, so the old key is safe to retire.  Every encrypted value,
\* channel messages too, reads in every process.
RetiredUnneeded == \A p \in Servers, c \in Cells : Reads(held[p], rows[c])

=============================================================================
