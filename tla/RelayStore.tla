---------------------------- MODULE RelayStore ----------------------------
(***************************************************************************)
(* One database file and the processes that open it: src/sqlite-compat.ts  *)
(* (the drivers and the owner's persist), src/db-header.ts (the stamp that *)
(* says who may open it), src/db-owner-lock.ts (the single owner's lock)   *)
(* and the restore of src/backup.ts, which replaces the file.              *)
(*                                                                         *)
(* A database is absent, unstamped ("legacy"), stamped native or stamped   *)
(* for the wasm driver's single owner ("wasm").  Native processes share a  *)
(* file through SQLite's locks; a legacy wasm connection rewrites it in    *)
(* place; an owner keeps the image in memory and replaces the file.        *)
(*                                                                         *)
(* A process's synchronous stretch between two awaits is one step, except  *)
(* that an owner's persist is two: its checks and the temporary file, then *)
(* the lock's last check and the rename, which are adjacent system calls.  *)
(* A write is a number; which rows it holds is not modelled.               *)
(***************************************************************************)
EXTENDS Naturals, FiniteSets

CONSTANTS Procs,          \* processes of one instance
          Places,         \* directories the configured path may resolve into
          MaxWrites,      \* bound: statements that change rows
          MaxTries,       \* bound: tries of one acquire (the code bounds their time)
          MaxFaults,      \* bound: moves of the path, lock files deleted, kills
          MaxRestores     \* bound: archives restored

ASSUME StoreBounds == MaxWrites \in Nat /\ Places # {}

VARIABLES declared,       \* the instance's sqlite_driver
          env,            \* each process's RELAY_SQLITE_DRIVER
          path,           \* where the configured path resolves now
          files,          \* the database at each place
          lockFile,       \* whether the owner's lock file is at its name
          conn,           \* each process's connection, acquire or restore
          acked,          \* writes an owner reported done, at each place
          used            \* what the bounds were spent on, and what went on around

storeVars == <<declared, env, path, files, lockFile, conn, acked, used>>

Kinds == {"absent", "legacy", "native", "wasm"}

Absent == [kind |-> "absent", rows |-> {}, twin |-> FALSE]

Home == CHOOSE w \in Places : TRUE

\* A process with nothing open.
Down == [pc |-> "down", role |-> "server", first |-> FALSE, at |-> Home,
         fd |-> "none", held |-> FALSE, refs |-> 0, target |-> Home,
         image |-> {}, seen |-> FALSE, lost |-> FALSE, tries |-> 0,
         saved |-> {}, astray |-> FALSE]

Opening == {"loading_legacy", "loading", "opened", "locked", "entered"}
Restoring == {"r_backup", "r_stage", "r_swap"}

-----------------------------------------------------------------------------
(* What the declarations and the header decide.                            *)

\* declaredDriver: the instance's declaration, else the environment.
DriverOf(p) == IF declared = "none" THEN env[p] ELSE declared

\* driverHeaderVerdict, in an installation whose native driver loads.
Refuses(kind, driver) == \/ kind = "native" /\ driver = "wasm"
                         \/ kind = "wasm" /\ driver = "native"

\* resolveOpen: an owner's stamp decides, whatever is declared; else the driver.
OpenMode(p, kind) ==
  CASE kind = "wasm" -> "owner"
    [] kind # "wasm" /\ Refuses(kind, DriverOf(p)) -> "refused"
    [] kind # "wasm" /\ DriverOf(p) = "native" -> "native"
    [] kind = "legacy" /\ DriverOf(p) = "wasm" -> "legacy"
    [] kind = "absent" /\ DriverOf(p) = "wasm" ->
         IF declared = "wasm" THEN "owner" ELSE "legacy"

-----------------------------------------------------------------------------
(* The owner's lock.                                                       *)

\* The kernel's lock is on the open file: two processes contend when theirs is
\* the same file, the one at the name or the one removed from it.
LockFree(p) == \A q \in Procs \ {p} :
                 ~ (conn[q].held /\ conn[q].at = conn[p].at
                                 /\ conn[q].fd = conn[p].fd)

\* assertEntryIntact: the locked file is still the file at its name.
Intact(c) == c.refs > 0 /\ c.fd = "named"

\* dropEntry: the descriptor is closed and the kernel frees the lock.
Dropped(c) == [c EXCEPT !.fd = "none", !.held = FALSE, !.refs = 0]

\* release: a token gives back its reference; the last one drops the entry.
Released(c) == IF c.refs > 1 THEN [c EXCEPT !.refs = c.refs - 1]
               ELSE Dropped(c)

\* retire, and a failed open or restore: nothing is held any more.
Closed(c) == Down

\* The lock file is never deleted.
LeftBehind(p) == lockFile

\* A descriptor on a file that is no longer at its name.
Orphans(c, there) ==
  [q \in Procs |-> IF c[q].fd = "named" /\ ~ there[c[q].at]
                   THEN [c[q] EXCEPT !.fd = "orphan"] ELSE c[q]]

\* Every way out of a connection leaves the lock file alone.
Leave(p) == /\ lockFile' = LeftBehind(p)
            /\ conn' = Orphans([conn EXCEPT ![p] = Closed(@)], lockFile')

\* acquirePrimitive's loop: the same acquire again, within its budget.
TryAgain(c) == IF c.tries + 1 < MaxTries
               THEN [Dropped(c) EXCEPT !.pc = "loading", !.tries = @ + 1]
               ELSE Down

-----------------------------------------------------------------------------
(* Opening.                                                                *)

\* Whoever last read the file at w no longer knows it.
Unknown(c, w, p) ==
  [q \in Procs |-> IF q # p /\ c[q].target = w THEN [c[q] EXCEPT !.seen = FALSE]
                   ELSE c[q]]

\* initializeDb, up to its first await: a native open is finished here, with the
\* schema and the stamp (which another open connection may keep out of the file).
Begin(p) ==
  /\ conn[p].pc = "down"
  /\ LET mode == OpenMode(p, files[path].kind)
     IN /\ mode # "refused"
        /\ conn' = [conn EXCEPT ![p] =
             [Down EXCEPT !.pc = CASE mode = "native" -> "native"
                                   [] mode = "legacy" -> "loading_legacy"
                                   [] mode = "owner" -> "loading",
                          !.target = path,
                          !.first = (mode = "owner" /\ files[path].kind = "absent")]]
        /\ \/ /\ mode = "native"
              /\ \E kind \in {"native", files[path].kind} \ {"absent"} :
                   /\ kind = "native" \/ \E q \in Procs \ {p} : conn[q].pc = "native"
                   /\ files' = [files EXCEPT ![path].kind = kind]
           \/ mode # "native" /\ UNCHANGED files
  /\ UNCHANGED <<declared, env, path, lockFile, acked, used>>

\* createWasmDb after its await: the header is judged again before the read.
LoadLegacy(p) ==
  /\ conn[p].pc = "loading_legacy"
  /\ conn' = [conn EXCEPT ![p] =
       CASE files[path].kind = "wasm" -> [@ EXCEPT !.pc = "loading", !.first = FALSE]
         [] Refuses(files[path].kind, "wasm") -> Down
         [] OTHER -> [@ EXCEPT !.pc = "legacy", !.target = path,
                               !.image = files[path].rows]]
  /\ UNCHANGED <<declared, env, path, files, lockFile, acked, used>>

\* acquirePrimitive, up to the lock: an absent database is materialized, complete
\* and stamped, and the lock file opened (created when it is not there).
OpenLock(p) ==
  /\ conn[p].pc = "loading"
  /\ IF files[path].kind = "absent" /\ ~ conn[p].first
     THEN conn' = [conn EXCEPT ![p] = Down] /\ UNCHANGED <<files, lockFile>>
     ELSE /\ files' = IF files[path].kind # "absent" THEN files
                      ELSE [files EXCEPT ![path] = [Absent EXCEPT !.kind = "wasm"]]
          /\ lockFile' = [lockFile EXCEPT ![path] = TRUE]
          /\ conn' = [conn EXCEPT ![p].pc = "opened", ![p].at = path,
                                  ![p].fd = "named"]
  /\ UNCHANGED <<declared, env, path, acked, used>>

\* flockFd: held by this open file, or by another process.
Flock(p) ==
  /\ conn[p].pc = "opened"
  /\ conn' = [conn EXCEPT ![p] = IF LockFree(p)
                                 THEN [@ EXCEPT !.pc = "locked", !.held = TRUE]
                                 ELSE TryAgain(@)]
  /\ UNCHANGED <<declared, env, path, files, lockFile, acked, used>>

\* The key derived again under the lock, and a leftover of our own removed: an
\* acquire never keeps the lock of a place the path has left.
Rederive(p) ==
  /\ conn[p].pc = "locked"
  /\ IF path = conn[p].at /\ files[path].kind # "absent"
     THEN /\ conn' = [conn EXCEPT ![p].refs = 1, ![p].tries = 0, ![p].first = FALSE,
                ![p].pc = IF conn[p].role = "server" THEN "entered" ELSE "r_backup"]
          /\ files' = [files EXCEPT ![path].twin = FALSE]
     ELSE conn' = [conn EXCEPT ![p] = TryAgain(@)] /\ UNCHANGED files
  /\ UNCHANGED <<declared, env, path, lockFile, acked, used>>

\* A native connection keeps side files beside its database.
SideFiles(w) == \E q \in Procs : conn[q].pc = "native" /\ conn[q].target = w

\* createOwnedWasmDb under the lock: only what is still stamped, unlinked and
\* unaccompanied is read; an unstamped file is opened in the legacy mode.
OpenOwned(p) ==
  /\ conn[p].pc = "entered"
  /\ LET f == files[path]
     IN IF f.kind = "wasm" /\ ~ SideFiles(path) /\ ~ f.twin
        THEN conn' = [conn EXCEPT ![p].pc = "owner", ![p].target = path,
                                  ![p].image = f.rows, ![p].seen = TRUE]
             /\ UNCHANGED lockFile
        ELSE IF f.kind = "legacy"
        THEN conn' = [conn EXCEPT ![p] = [Released(@) EXCEPT !.pc = "legacy",
                          !.target = path, !.at = Home, !.image = f.rows]]
             /\ UNCHANGED lockFile
        ELSE Leave(p)
  /\ UNCHANGED <<declared, env, path, files, acked, used>>

-----------------------------------------------------------------------------
(* Writing.                                                                *)

\* ownerPersist's checks before it writes its temporary file.
MayPersist(c) ==
  /\ ~ c.lost /\ c.refs > 0 /\ c.at = c.target
  /\ ~ files[c.target].twin
  /\ c.seen
  /\ files[c.target].kind = "wasm"

\* A statement of the owner changes the image and is persisted; when a check
\* refuses, the change stays in memory and the caller is told.
OwnerWrite(p) ==
  /\ conn[p].pc = "owner" /\ used.writes < MaxWrites
  /\ conn' = [conn EXCEPT ![p].image = @ \union {used.writes + 1},
                ![p].pc = IF MayPersist(conn[p]) THEN "persisting" ELSE "owner"]
  /\ used' = [used EXCEPT !.writes = @ + 1]
  /\ UNCHANGED <<declared, env, path, files, lockFile, acked>>

\* The last check of the lock and the rename; a lock found replaced ends this
\* owner's writing for good.
Rename(p) ==
  /\ conn[p].pc = "persisting"
  /\ LET c == conn[p]
     IN IF Intact(c)
        THEN /\ files' = [files EXCEPT ![c.target] =
                            [kind |-> "wasm", rows |-> c.image, twin |-> FALSE]]
             /\ acked' = [acked EXCEPT ![c.target] = @ \union c.image]
             /\ conn' = Unknown([conn EXCEPT ![p].pc = "owner",
                                             ![p].seen = TRUE], c.target, p)
        ELSE /\ conn' = [conn EXCEPT ![p] = [Dropped(@) EXCEPT !.pc = "owner",
                                                               !.lost = TRUE]]
             /\ UNCHANGED <<files, acked>>
  /\ UNCHANGED <<declared, env, path, lockFile, used>>

\* The rename refused (the file is open on Windows, the disk is full): nothing
\* was written and the change waits for the next persist.
RenameFails(p) ==
  /\ conn[p].pc = "persisting"
  /\ conn' = [conn EXCEPT ![p].pc = "owner"]
  /\ UNCHANGED <<declared, env, path, files, lockFile, acked, used>>

\* A legacy write-back: in place, unless the file became an owner's.
LegacyWrite(p) ==
  /\ conn[p].pc = "legacy" /\ used.writes < MaxWrites
  /\ LET image == conn[p].image \union {used.writes + 1}
         w == conn[p].target
     IN /\ conn' = [conn EXCEPT ![p].image = image]
        /\ files' = IF files[w].kind = "wasm" THEN files
                    ELSE [files EXCEPT ![w] = [kind |-> "legacy", rows |-> image,
                                               twin |-> FALSE]]
  /\ used' = [used EXCEPT !.writes = @ + 1]
  /\ UNCHANGED <<declared, env, path, lockFile, acked>>

\* A native write goes through SQLite into the file itself.
NativeWrite(p) ==
  /\ conn[p].pc = "native" /\ used.writes < MaxWrites
  /\ files' = [files EXCEPT ![conn[p].target].rows = @ \union {used.writes + 1}]
  /\ used' = [used EXCEPT !.writes = @ + 1]
  /\ UNCHANGED <<declared, env, path, lockFile, conn, acked>>

\* closeDb: what was refused is reported lost; the last native connection's
\* checkpoint carries a stamp that was waiting.
Close(p) ==
  /\ conn[p].pc \in {"owner", "legacy", "native"}
  /\ Leave(p)
  /\ files' = IF conn[p].pc = "native"
              THEN [files EXCEPT ![conn[p].target].kind =
                      IF @ = "legacy" THEN "native" ELSE @]
              ELSE files
  /\ UNCHANGED <<declared, env, path, acked, used>>

-----------------------------------------------------------------------------
(* Restoring an archive over the database.                                 *)

\* isOwnedDb decides whether the restore holds the owner's lock.
NeedsLock(kind) == kind = "wasm"

\* importRelayState once the archive is validated: the file to replace is fixed,
\* and the lock of an owned one is asked for.
RestorePlan(p) ==
  /\ conn[p].pc = "down" /\ used.restores < MaxRestores
  /\ files[path].kind # "absent"
  /\ ~ (NeedsLock(files[path].kind) /\ files[path].twin)
  /\ conn' = [conn EXCEPT ![p] =
       [Down EXCEPT !.role = "restore", !.target = path,
          !.pc = IF NeedsLock(files[path].kind) THEN "loading" ELSE "r_backup"]]
  /\ used' = [used EXCEPT !.restores = @ + 1,
                          !.overlap = @ \/ \E q \in Procs : conn[q].role = "restore"]
  /\ UNCHANGED <<declared, env, path, files, lockFile, acked>>

\* The safety backup of the database at the configured path, which takes and gives
\* back its own reference on the lock; a failure aborts the restore.
SafetyBackup(p) ==
  /\ conn[p].pc = "r_backup"
  /\ LET mine == conn[p].refs > 0 /\ conn[p].at = path
         taken == [conn[p] EXCEPT !.refs = @ + 1]
     IN /\ mine \/ files[path].kind # "wasm"
                \/ \A q \in Procs : ~ (conn[q].held /\ conn[q].at = path)
        /\ conn' = [conn EXCEPT ![p] =
             [(IF mine THEN Released(taken) ELSE @) EXCEPT
                !.saved = files[path].rows, !.astray = (path # conn[p].target), !.pc = "r_stage"]]
  /\ UNCHANGED <<declared, env, path, files, lockFile, acked, used>>

\* Mutant: the path is not resolved again before the rename.
SwapAllowed_AnyPath(c) ==
  /\ c.held => Intact(c) /\ c.at = c.target /\ ~ files[c.target].twin
  /\ ~ SideFiles(c.target)

\* assertSwapPreconditions: the path still resolves to the planned file, the lock
\* is that file's and intact, it has one name, and no side file is beside it.
SwapAllowed(c) ==
  /\ path = c.target
  /\ c.held => Intact(c) /\ c.at = c.target /\ ~ files[c.target].twin
  /\ ~ SideFiles(c.target)

\* A restore that planned with the lock still has it.
KeepsLock(c) == c.refs > 0 => Intact(c)

\* The live database closed, checkpointed, and the archive's copy staged.
RestoreStage(p) ==
  /\ conn[p].pc = "r_stage" /\ SwapAllowed(conn[p]) /\ KeepsLock(conn[p])
  /\ conn' = [conn EXCEPT ![p].pc = "r_swap"]
  /\ UNCHANGED <<declared, env, path, files, lockFile, acked, used>>

\* The same checks again, then the rename that replaces the database.
RestoreSwap(p) ==
  /\ conn[p].pc = "r_swap" /\ SwapAllowed(conn[p]) /\ KeepsLock(conn[p])
  /\ LET w == conn[p].target
     IN \E kind \in Kinds \ {"absent"} :
          /\ files' = [files EXCEPT ![w] = [Absent EXCEPT !.kind = kind]]
          /\ acked' = [acked EXCEPT ![w] = {}]
          /\ lockFile' = LeftBehind(p)
          /\ conn' = Orphans(Unknown([conn EXCEPT ![p] = Closed(@)], w, p), lockFile')
  /\ UNCHANGED <<declared, env, path, used>>

\* Where there is no database there is nothing to lock, save or close, and the
\* restore does not pause before its rename.
RestoreFresh(p) ==
  /\ conn[p].pc = "down" /\ used.restores < MaxRestores
  /\ files[path].kind = "absent"
  /\ \E kind \in Kinds \ {"absent"} :
       files' = [files EXCEPT ![path] = [Absent EXCEPT !.kind = kind]]
  /\ used' = [used EXCEPT !.restores = @ + 1]
  /\ UNCHANGED <<declared, env, path, lockFile, conn, acked>>

\* A refused or failed restore releases what it holds and changes nothing.
RestoreAborts(p) ==
  /\ conn[p].pc \in Restoring
  /\ Leave(p)
  /\ UNCHANGED <<declared, env, path, files, acked, used>>

-----------------------------------------------------------------------------
(* What happens around the processes.                                      *)

\* A killed process: its image is gone, its descriptors closed by the kernel.
Crash(p) ==
  /\ conn[p].pc # "down" /\ used.faults < MaxFaults
  /\ used' = [used EXCEPT !.faults = @ + 1]
  /\ conn' = [conn EXCEPT ![p] = Down]
  /\ UNCHANGED <<declared, env, path, files, lockFile, acked>>

\* Killed between linking a new database to its name and removing the temporary
\* name: the file has two names.
CrashMaterializing(p) ==
  /\ conn[p].pc = "loading" /\ conn[p].first /\ files[path].kind = "absent"
  /\ used.faults < MaxFaults
  /\ used' = [used EXCEPT !.faults = @ + 1]
  /\ files' = [files EXCEPT ![path] = [kind |-> "wasm", rows |-> {}, twin |-> TRUE]]
  /\ conn' = [conn EXCEPT ![p] = Down]
  /\ UNCHANGED <<declared, env, path, lockFile, acked>>

\* Somebody deletes the lock file by hand.
LockRemoved(w) ==
  /\ lockFile[w] /\ used.faults < MaxFaults
  /\ used' = [used EXCEPT !.faults = @ + 1, !.deleted = TRUE]
  /\ lockFile' = [lockFile EXCEPT ![w] = FALSE]
  /\ conn' = Orphans(conn, lockFile')
  /\ UNCHANGED <<declared, env, path, files, acked>>

\* The configured path (a link, a directory) is pointed at another place.
PathMoves ==
  /\ used.faults < MaxFaults
  /\ used' = [used EXCEPT !.faults = @ + 1]
  /\ path' \in Places \ {path}
  /\ UNCHANGED <<declared, env, files, lockFile, conn, acked>>

StoreInit ==
  /\ declared \in {"wasm", "native", "none"}
  /\ env \in [Procs -> {"native", "wasm"}]
  /\ declared # "none" => env = [p \in Procs |-> "native"]
  /\ path = Home
  /\ files \in [Places -> {[Absent EXCEPT !.kind = k] : k \in Kinds}]
  /\ \A w \in Places \ {path} : files[w] = Absent
  /\ lockFile = [w \in Places |-> FALSE]
  /\ conn = [p \in Procs |-> Down]
  /\ acked = [w \in Places |-> {}]
  /\ used = [writes |-> 0, faults |-> 0, restores |-> 0,
             deleted |-> FALSE, overlap |-> FALSE]

OpenStep(p) == LoadLegacy(p) \/ OpenLock(p) \/ Flock(p) \/ Rederive(p) \/ OpenOwned(p)

StoreNext ==
  \/ \E p \in Procs :
       \/ Begin(p) \/ OpenStep(p)
       \/ OwnerWrite(p) \/ Rename(p) \/ RenameFails(p)
       \/ LegacyWrite(p) \/ NativeWrite(p) \/ Close(p)
       \/ RestorePlan(p) \/ SafetyBackup(p) \/ RestoreStage(p) \/ RestoreSwap(p)
       \/ RestoreFresh(p) \/ RestoreAborts(p)
       \/ Crash(p) \/ CrashMaterializing(p)
  \/ \E w \in Places : LockRemoved(w)
  \/ PathMoves

\* A process that is opening goes on with it.
StoreFairness == \A p \in Procs : WF_storeVars(OpenStep(p))

StoreSpec == StoreInit /\ [][StoreNext]_storeVars /\ StoreFairness
-----------------------------------------------------------------------------
(* Properties.                                                             *)

\* Every connection is well formed, and a process with nothing open holds no
\* descriptor, no lock and no reference (closeDb, retire, every refused open).
StoreTypeOK ==
  /\ files \in [Places -> [kind : Kinds, rows : SUBSET (1..MaxWrites), twin : BOOLEAN]]
  /\ lockFile \in [Places -> BOOLEAN]
  /\ acked \in [Places -> SUBSET (1..MaxWrites)]
  /\ \A p \in Procs :
       /\ conn[p].pc \in {"down", "owner", "persisting", "legacy", "native"}
                             \union Opening \union Restoring
       /\ conn[p].refs \in 0..2
       /\ conn[p].pc = "down" => conn[p] = Down
       /\ conn[p].refs > 0 => conn[p].held
       /\ conn[p].held => conn[p].fd # "none"

Owners(w) == {p \in Procs : /\ conn[p].pc \in {"owner", "persisting"}
                            /\ ~ conn[p].lost /\ conn[p].refs > 0
                            /\ conn[p].target = w /\ conn[p].at = w}

\* As long as nobody deletes the lock file by hand, an owned database has one
\* owner: whatever the interleaving of acquires, releases, crashes and moves of
\* the path (db-owner-lock.ts: "opened by ONE process only").
OneOwner == ~ used.deleted => \A w \in Places : Cardinality(Owners(w)) <= 1

\* A write an owner reported done stays in the file while the file is an owner's,
\* even when the lock file is deleted under it and a second owner appears: the
\* first one stops before its next rename (assertEntryIntact, ownerPersist).
NoCommitLost == \A w \in Places : files[w].kind = "wasm" => acked[w] \subseteq files[w].rows

\* No native connection is ever open on a file stamped for the single owner: not
\* one that opened before the stamp came, by a restore or a new database.  Two
\* restores at once can bring it about: the one that found no owner takes no lock
\* and replaces what the other made an owner's, under that owner.
OwnedHasNoNative ==
  ~ used.overlap =>
    \A p \in Procs : conn[p].pc = "native" => files[conn[p].target].kind # "wasm"

\* A restore that replaces writes an owner reported done has them in its safety
\* backup: nothing is written between the backup and the swap.  The exceptions are
\* two restores at once, as above, and a path that led elsewhere while the backup was
\* taken and back when the file was replaced.
RestoreKeepsCopy ==
  [][\A w \in Places : ~ used.overlap /\ ~ (acked[w] \subseteq acked'[w]) =>
        \E p \in Procs : /\ conn[p].pc = "r_swap" /\ conn[p].target = w
                         /\ (conn[p].astray /\ path = w) \/ acked[w] \subseteq conn[p].saved]_storeVars

\* Every open comes to an end, opened or refused by name: a held lock is retried
\* within a budget, never waited for.
OpensEnd == \A p \in Procs : []<>(conn[p].pc \notin Opening)

\* The promises of the database file: one owner, no committed write lost, a copy kept by
\* a restore, and every open ends (sqlite-compat.ts, db-owner-lock.ts, backup.ts).
FileKept ==
  /\ []StoreTypeOK /\ []OneOwner /\ []NoCommitLost /\ []OwnedHasNoNative
  /\ RestoreKeepsCopy /\ OpensEnd
=============================================================================
