----------------------------- MODULE RelayThrottle -----------------------------
(***************************************************************************)
(* The budget of failed credential checks and the pool of bcrypt workers.  *)
(* A check that a digest cannot decide reserves an attempt before it is    *)
(* queued and gives it back unless the compare fails.  A token that names  *)
(* nobody is compared with the rows no digest reaches, one after another,  *)
(* on one attempt of a budget of its own.  A worker may fail and, later,   *)
(* exit: its compares are rejected, never left waiting.                    *)
(***************************************************************************)
EXTENDS Naturals, FiniteSets, Sequences, SequencesExt

CONSTANTS
  Sources,       \* the keys (source, name) of the attempt buckets
  ScanKey,       \* the key of the scan bucket
  Checks,        \* calls that verify a credential
  Burst,         \* THROTTLE_BURST and SCAN_BURST, by key
  MaxKeys,       \* THROTTLE_MAX_KEYS
  PoolSize,      \* POOL_SIZE
  MaxPending,    \* MAX_PENDING
  ScanRows,      \* bound: rows a scan compares
  MaxWorkers,    \* bound: workers; those beyond PoolSize may be dying at once
  MaxRefills     \* bound: refill periods

BucketKeys == Sources \cup {ScanKey}
Slots == 1 .. PoolSize
NoWorker == 0

ASSUME ThrottleBounds == /\ IsFiniteSet(Checks) /\ ScanKey \notin Sources
                         /\ Burst \in [BucketKeys -> Nat \ {0}]
                         /\ {MaxKeys, PoolSize, MaxPending, ScanRows, MaxWorkers, MaxRefills}
                              \subseteq Nat \ {0}

VARIABLES
  bucket,      \* attempts left by key; a key outside recent has its burst
  recent,      \* the keys of the map, least recently used first
  slot,        \* the worker of each slot
  worker,      \* the workers; one that exited with nothing waiting is started anew
  check,       \* the calls
  refills,
  failed,      \* for the properties only: attempts spent, by key
  forgotten    \* for the properties only: keys the map evicted

throttleVars == <<bucket, recent, slot, worker, check, refills, failed, forgotten>>

WorkerRow == [state : {"up", "failing", "exited"}, home : Slots]
NoneYet == [state |-> "exited", home |-> 1]

CheckRow == [stage : {"idle", "compare", "scan"}, key : BucketKeys, reserved : BOOLEAN,
             right : BOOLEAN, worker : 0 .. MaxWorkers, rows : 0 .. ScanRows,
             compared : BOOLEAN]
NoCheck == [stage |-> "idle", key |-> ScanKey, reserved |-> FALSE, right |-> FALSE,
            worker |-> NoWorker, rows |-> 0, compared |-> FALSE]

ThrottleInit == /\ bucket = Burst /\ recent = <<>>
                /\ slot = [i \in Slots |-> NoWorker]
                /\ worker = [w \in 1 .. MaxWorkers |-> NoneYet]
                /\ check = [c \in Checks |-> NoCheck]
                /\ refills = 0
                /\ failed = [k \in BucketKeys |-> 0] /\ forgotten = {}

------------------------------------------------------------------------------
(* bucketAt *)

Touch(k) ==
  LET kept == IF k \notin ToSet(recent) /\ Len(recent) >= MaxKeys THEN Tail(recent)
              ELSE RemoveFirst(recent, k)
      gone == ToSet(recent) \ (ToSet(kept) \cup {k})
  IN /\ recent' = Append(kept, k)
     /\ forgotten' = forgotten \cup gone

\* The buckets after Touch(k) and a change of k's attempts.
Level(k, level) ==
  [j \in BucketKeys |-> IF j = k THEN level
                        ELSE IF j \in ToSet(recent') THEN bucket[j] ELSE Burst[j]]

\* throttleRefund and scanRefund.
GivenBack(k) == IF bucket[k] < Burst[k] THEN bucket[k] + 1 ELSE Burst[k]

Refund(k) == Touch(k) /\ bucket' = Level(k, GivenBack(k))
Untouched == UNCHANGED <<bucket, recent, forgotten>>

------------------------------------------------------------------------------
(* The pool *)

Waiting(w) == {c \in Checks : check[c].stage = "compare" /\ check[c].worker = w}
Free(w) == worker[w].state = "exited" /\ Waiting(w) = {}
Pending(i) == IF slot[i] = NoWorker THEN 0 ELSE Cardinality(Waiting(slot[i]))

\* compareOffLoop refuses: the bound is over all the slots.
PoolFull == Cardinality((UNION {Waiting(slot[i]) : i \in Slots}) \ Waiting(NoWorker)) >= MaxPending

\* pickSlot: the first of the least loaded slots.
Picked == CHOOSE i \in Slots : /\ \A j \in Slots : Pending(i) <= Pending(j)
                               /\ \A j \in 1 .. i - 1 : Pending(j) > Pending(i)

\* compareOffLoop: the compare goes to the slot's worker, which is started if need be.
Submitted(c, row) ==
  IF slot[Picked] # NoWorker
  THEN /\ check' = [check EXCEPT ![c] = [row EXCEPT !.worker = slot[Picked]]]
       /\ UNCHANGED <<slot, worker>>
  ELSE \E w \in 1 .. MaxWorkers :
         /\ Free(w) /\ \A v \in 1 .. w - 1 : ~Free(v)
         /\ worker' = [worker EXCEPT ![w] = [state |-> "up", home |-> Picked]]
         /\ slot' = [slot EXCEPT ![Picked] = w]
         /\ check' = [check EXCEPT ![c] = [row EXCEPT !.worker = w]]

------------------------------------------------------------------------------
(* The calls *)

\* verifyCredential, up to the compare; known: a stored digest matched.
Verify(c, k, known, right) ==
  /\ check[c].stage = "idle" /\ k \in Sources
  /\ IF known THEN Untouched ELSE bucket[k] >= 1 /\ Touch(k) /\ bucket' = Level(k, bucket[k] - 1)
  /\ ~PoolFull
  /\ Submitted(c, [NoCheck EXCEPT !.stage = "compare", !.key = k, !.reserved = ~known,
                                  !.right = right])
  /\ UNCHANGED <<refills, failed>>

\* The attempts are spent, or the pool is full and the attempt goes back at once.
VerifyRefused(k) ==
  /\ k \in BucketKeys /\ (bucket[k] < 1 \/ PoolFull)
  /\ Touch(k) /\ bucket' = Level(k, bucket[k])
  /\ UNCHANGED <<slot, worker, check, refills, failed>>

\* The attempt is not given back.
Failing(k) == failed' = IF k \in forgotten THEN failed ELSE [failed EXCEPT ![k] = @ + 1]

\* findAgentRowByToken's fallback: the budget first, then the rows.
ScanBegins(c, rows, right) ==
  /\ check[c].stage = "idle" /\ bucket[ScanKey] >= 1
  /\ Touch(ScanKey) /\ bucket' = Level(ScanKey, bucket[ScanKey] - 1)
  /\ check' = [check EXCEPT ![c] = [NoCheck EXCEPT !.stage = "scan", !.reserved = TRUE,
                                                   !.rows = rows, !.right = right]]
  /\ UNCHANGED <<slot, worker, refills, failed>>

\* The next row; the owner's row, if there is one, is the last.
ScanRow(c) ==
  LET row == [check[c] EXCEPT !.rows = @ - 1] IN
  /\ check[c].stage = "scan" /\ check[c].rows > 0
  /\ IF PoolFull
     THEN check' = [check EXCEPT ![c] = row] /\ UNCHANGED <<slot, worker>>
     ELSE Submitted(c, [row EXCEPT !.stage = "compare"])
  /\ Untouched /\ UNCHANGED <<refills, failed>>

\* No row matched: the budget is given back when none was compared.
ScanEnds(c) ==
  /\ check[c].stage = "scan" /\ check[c].rows = 0
  /\ IF check[c].compared THEN Untouched /\ Failing(ScanKey)
                          ELSE Refund(ScanKey) /\ UNCHANGED failed
  /\ check' = [check EXCEPT ![c] = NoCheck]
  /\ UNCHANGED <<slot, worker, refills>>

GivesBack(k, ok) == ok /\ k.reserved

\* The worker answers.  In a scan only the last row is the owner's.
Answered(c) ==
  LET k == check[c]
      scan == k.key = ScanKey
      ok == k.right /\ (scan => k.rows = 0)
  IN /\ k.stage = "compare" /\ worker[k.worker].state = "up"
     /\ IF GivesBack(k, ok) THEN Refund(k.key) ELSE Untouched
     /\ IF ok \/ scan \/ ~k.reserved THEN UNCHANGED failed ELSE Failing(k.key)
     /\ check' = [check EXCEPT ![c] =
          IF scan /\ ~ok THEN [k EXCEPT !.stage = "scan", !.worker = NoWorker,
                                        !.compared = TRUE]
          ELSE NoCheck]
     /\ UNCHANGED <<slot, worker, refills>>

------------------------------------------------------------------------------
(* Workers die *)

\* Mutant: the slot is cleared whichever worker is in it now.
Cleared_AnyWorker(w, i) == [slot EXCEPT ![i] = NoWorker]

\* dead: the slot is cleared only while it still holds this worker.
Cleared(w, i) == IF slot[i] = w THEN [slot EXCEPT ![i] = NoWorker] ELSE slot

\* failSlot rejects one compare; verifyCredential reads that as wrong, and refunds.
Rejected(c) == IF check[c].key = ScanKey
               THEN [check[c] EXCEPT !.stage = "scan", !.worker = NoWorker, !.compared = TRUE]
               ELSE NoCheck

LossGivesBack(k) == k.key # ScanKey /\ k.reserved

Orphaned(k) == k.stage = "compare" /\ worker[k.worker].state \in {"failing", "exited"}

\* The microtasks of the rejections, one call at a time.
LosesWorker(c) ==
  LET k == check[c] IN
  /\ Orphaned(k)
  /\ IF LossGivesBack(k) THEN Refund(k.key) ELSE Untouched
  /\ check' = [check EXCEPT ![c] = Rejected(c)]
  /\ UNCHANGED <<slot, worker, refills, failed>>

\* A worker reports an error, and exits at once or later: dead runs twice.
WorkerDies(w, state) ==
  /\ worker' = [worker EXCEPT ![w].state = state]
  /\ slot' = Cleared(w, worker[w].home)
  /\ Untouched /\ UNCHANGED <<check, refills, failed>>

\* Bound: room to start a worker in every slot.
RoomToDie == Cardinality({w \in 1 .. MaxWorkers : worker[w].state # "up" /\ ~Free(w)})
               < MaxWorkers - PoolSize

WorkerFails(w) == worker[w].state = "up" /\ RoomToDie /\ WorkerDies(w, "failing")
WorkerExits(w) == /\ worker[w].state = "failing" \/ (worker[w].state = "up" /\ RoomToDie)
                  /\ WorkerDies(w, "exited")

\* One refill period passes; bucketAt adds what passed since the last use.
Refill ==
  /\ refills < MaxRefills /\ refills' = refills + 1
  /\ bucket' = [k \in BucketKeys |-> IF bucket[k] < Burst[k] THEN bucket[k] + 1 ELSE Burst[k]]
  /\ UNCHANGED <<recent, slot, worker, check, failed, forgotten>>

CheckStep(c) == ScanRow(c) \/ ScanEnds(c) \/ Answered(c) \/ LosesWorker(c)

ThrottleNext ==
  \/ \E c \in Checks : \/ \E k \in Sources, known, right \in BOOLEAN : Verify(c, k, known, right)
                       \/ \E n \in 1 .. ScanRows, right \in BOOLEAN : ScanBegins(c, n, right)
                       \/ CheckStep(c)
  \/ \E k \in BucketKeys : VerifyRefused(k)
  \/ \E w \in 1 .. MaxWorkers : WorkerFails(w) \/ WorkerExits(w)
  \/ Refill

\* A worker answers or is lost, and Node.js runs the continuation.
ThrottleFairness == \A c \in Checks : WF_throttleVars(CheckStep(c))

ThrottleSpec == ThrottleInit /\ [][ThrottleNext]_throttleVars /\ ThrottleFairness

------------------------------------------------------------------------------
(* Properties *)

Reserved(k) == {c \in Checks : check[c].stage # "idle" /\ check[c].reserved /\ check[c].key = k}

ThrottleTypeOK ==
  /\ bucket \in [BucketKeys -> Nat] /\ \A k \in BucketKeys : bucket[k] <= Burst[k]
  /\ IsInjective(recent) /\ ToSet(recent) \subseteq BucketKeys /\ Len(recent) <= MaxKeys
  /\ slot \in [Slots -> 0 .. MaxWorkers] /\ worker \in [1 .. MaxWorkers -> WorkerRow]
  /\ check \in [Checks -> CheckRow]
  /\ refills \in 0 .. MaxRefills

(***************************************************************************)
(* However the checks of one source and name overlap, the compares that    *)
(* failed and those still running are at most the burst and one for each   *)
(* refill period: the reservation precedes the compare.  Keys evicted from *)
(* the map start over, which the bound of the map accepts.                 *)
(***************************************************************************)
AttemptsBounded ==
  \A k \in BucketKeys \ forgotten :
    failed[k] + Cardinality(Reserved(k)) <= Burst[k] + refills

(***************************************************************************)
(* Only a failed compare spends an attempt: one that succeeds, finds the   *)
(* pool full or loses its worker gives its attempt back, so no agent is    *)
(* throttled for the relay's own trouble.                                  *)
(***************************************************************************)
OnlyFailuresSpend ==
  \A k \in Sources \ forgotten : bucket[k] + Cardinality(Reserved(k)) + failed[k] >= Burst[k]

(***************************************************************************)
(* The compares not yet settled, on whatever worker, are at most           *)
(* MAX_PENDING: a slot forgotten too early would hide its own.             *)
(***************************************************************************)
PoolBounded ==
  Cardinality({c \in Checks : check[c].stage = "compare"
                              /\ worker[check[c].worker].state = "up"}) <= MaxPending

\* The promises of the budget and the pool: attempts are bounded, only failures spend one,
\* and the compares not yet settled are at most MAX_PENDING (auth-throttle.ts, bcrypt-pool.ts).
AttemptsAccounted == ThrottleTypeOK /\ AttemptsBounded /\ OnlyFailuresSpend /\ PoolBounded

(***************************************************************************)
(* Every check is settled, whichever workers fail: no call waits on a      *)
(* worker that is gone.                                                    *)
(***************************************************************************)
ChecksSettle == \A c \in Checks : []<>(check[c].stage = "idle")
==============================================================================
