---------------------------- MODULE RelayNetProofs ----------------------------
(***************************************************************************)
(* Theorems about what the daemon keeps with its peers: retried webhooks,  *)
(* the addresses they are delivered to, HTTP sessions and their slots, the *)
(* baseline of the dashboard, the budget of failed credential checks with  *)
(* its bcrypt workers, the notices of its outbox and what its surfaces say *)
(* of a presence; for any number of processes, rows, clients and calls.    *)
(***************************************************************************)
EXTENDS RelayWebhooks, RelayDelivery, RelayHttp, RelayDashboard, RelayThrottle, RelayOutbox,
        RelayPresence, FiniteSetTheorems, SequenceTheorems, WellFoundedInduction, TLAPS

-----------------------------------------------------------------------------
(* Webhooks.  A delivery of a row that is not late holds the row's lease,   *)
(* and the row has not ended (LeaseKept): a claim finds the row unleased,   *)
(* so no other delivery of it is in time, and whoever ends the row or its  *)
(* lease makes every other delivery of it late.                            *)

RetryRow == [term : {"absent", Open, "delivered", "failed"}, count : 0 .. Ladder, due : BOOLEAN,
             lease : {"free", "held", "lapsed"}, hook : WhHooks \cup {"none", "purged"}]

Delivery == [proc : WhProcs \cup {"none"}, row : WhRows \cup {0}, hook : WhHooks \cup {"none"},
             phase : {"none", "check", "post"}, late : BOOLEAN]

WhRecords ==
  /\ hooks \subseteq WhHooks
  /\ wlog \in [WhRows -> RetryRow]
  /\ wjob \in [WhSlots -> Delivery]
  /\ wscan \in [WhProcs -> SUBSET WhRows]

HooksKnown ==
  /\ \A r \in WhRows : Present(r) => wlog[r].count > 0 /\ wlog[r].hook \in WhHooks
  /\ \A s \in WhSlots : wjob[s].phase # "none" => wjob[s].hook \in WhHooks

LeaseKept ==
  \A s \in WhSlots : wjob[s].row # 0 /\ ~wjob[s].late =>
    wlog[wjob[s].row].lease = "held" /\ wlog[wjob[s].row].term = Open

WhInv == WhRecords /\ HooksKnown /\ LeaseKept /\ OneAtATime

LEMMA WhInitInv == WhInit => WhInv
<1> SUFFICES ASSUME WhInit PROVE WhInv
  OBVIOUS
<1>1. NoLogRow \in RetryRow /\ NoJob \in Delivery
  BY DEF NoLogRow, NoJob, RetryRow, Delivery, Ladder
<1>2. WhRecords
  BY <1>1 DEF WhInit, WhRecords
<1>3. HooksKnown /\ LeaseKept /\ OneAtATime
  BY DEF WhInit, HooksKnown, LeaseKept, OneAtATime, NoLogRow, NoJob, Present
<1> QED BY <1>2, <1>3 DEF WhInv

\* A step that leaves the rows alone and starts no delivery of one.
LEMMA WhQuiet ==
  ASSUME WhInv, wlog' = wlog, hooks' \subseteq WhHooks, wscan' \in [WhProcs -> SUBSET WhRows],
         wjob' \in [WhSlots -> Delivery],
         \A s \in WhSlots : wjob'[s].phase # "none" => wjob'[s].hook \in WhHooks,
         \A s \in WhSlots : wjob'[s].row # 0 =>
           wjob'[s].row = wjob[s].row /\ (~wjob'[s].late => ~wjob[s].late)
  PROVE  WhInv'
BY DEF WhInv, WhRecords, HooksKnown, LeaseKept, OneAtATime, Present

\* Deliveries begin, pass the address check and end without touching a row.
LEMMA WhDeliveries ==
  ASSUME WhInv,
         \/ \E h \in WhHooks : RegisterHook(h) \/ DeleteHook(h)
         \/ \E p \in WhProcs : ScanDue(p) \/ DieDelivering(p) \/ \E r \in WhRows : ClaimLost(p, r)
         \/ \E p \in WhProcs, h \in WhHooks, s \in WhSlots : Fire(p, h, s)
         \/ \E s \in WhSlots : Safe(s) \/ RefuseFirst(s) \/ FirstDelivered(s)
  PROVE  WhInv'
<1>1. /\ hooks \subseteq WhHooks /\ wscan \in [WhProcs -> SUBSET WhRows]
      /\ wjob \in [WhSlots -> Delivery] /\ NoJob \in Delivery
      /\ \A t \in WhSlots : wjob[t].phase # "none" => wjob[t].hook \in WhHooks
  BY DEF WhInv, WhRecords, HooksKnown, NoJob, Delivery
<1>2. /\ wlog' = wlog /\ hooks' \subseteq WhHooks /\ wscan' \in [WhProcs -> SUBSET WhRows]
  BY <1>1 DEF RegisterHook, DeleteHook, ScanDue, DieDelivering, Fire, Safe, RefuseFirst,
              FirstDelivered, ClaimLost
<1>3. CASE wjob' = wjob
  BY <1>1, <1>2, <1>3, WhQuiet
<1>4. CASE wjob' \in [WhSlots -> Delivery] /\ \A t \in WhSlots : wjob'[t] \in {wjob[t], NoJob}
  <2>1. NoJob.row = 0 /\ NoJob.phase = "none"
    BY DEF NoJob
  <2> QED BY <1>1, <1>2, <1>4, <2>1, WhQuiet
<1>5. ASSUME NEW p \in WhProcs, NEW h \in WhHooks, NEW s \in WhSlots, Fire(p, h, s)
      PROVE  WhInv'
  <2> DEFINE first == [proc |-> p, row |-> 0, hook |-> h, phase |-> "check", late |-> FALSE]
  <2>1. wjob' = [wjob EXCEPT ![s] = first] /\ first \in Delivery
    BY <1>5 DEF Fire, Delivery
  <2>2. first.row = 0 /\ first.hook \in WhHooks
    OBVIOUS
  <2> HIDE DEF first
  <2> QED BY <1>1, <1>2, <2>1, <2>2, WhQuiet
<1>6. ASSUME NEW s \in WhSlots, Safe(s)
      PROVE  WhInv'
  <2>1. wjob' = [wjob EXCEPT ![s].phase = "post"] /\ wjob[s].phase = "check"
    BY <1>6 DEF Safe
  <2>2. wjob' \in [WhSlots -> Delivery]
    BY <1>1, <2>1 DEF Delivery
  <2>3. \A t \in WhSlots : wjob'[t].hook = wjob[t].hook /\ wjob'[t].row = wjob[t].row
          /\ wjob'[t].late = wjob[t].late /\ (wjob'[t].phase # "none" => wjob[t].phase # "none")
    BY <1>1, <2>1 DEF Delivery
  <2> QED BY <1>1, <1>2, <2>2, <2>3, WhQuiet
<1>7. ASSUME NEW s \in WhSlots, RefuseFirst(s) \/ FirstDelivered(s)
      PROVE  WhInv'
  BY <1>1, <1>4, <1>7 DEF RefuseFirst, FirstDelivered, JobGone
<1>8. ASSUME NEW p \in WhProcs, DieDelivering(p)
      PROVE  WhInv'
  BY <1>1, <1>4, <1>8 DEF DieDelivering
<1>9. ASSUME NEW h \in WhHooks, RegisterHook(h) \/ DeleteHook(h)
      PROVE  WhInv'
  BY <1>3, <1>9 DEF RegisterHook, DeleteHook
<1>10. ASSUME NEW p \in WhProcs, ScanDue(p) \/ \E r \in WhRows : ClaimLost(p, r)
       PROVE  WhInv'
  BY <1>3, <1>10 DEF ScanDue, ClaimLost
<1> QED BY <1>5, <1>6, <1>7, <1>8, <1>9, <1>10

\* A claim: the row is unleased, so no delivery of it was in time.
LEMMA WhClaim ==
  ASSUME WhInv, NEW p \in WhProcs, NEW r \in WhRows, NEW s \in WhSlots, ClaimRow(p, r, s)
  PROVE  WhInv'
<1> DEFINE retry == [proc |-> p, row |-> r, hook |-> wlog[r].hook, phase |-> "check", late |-> FALSE]
<1>1. WhRecords /\ HooksKnown /\ LeaseKept /\ OneAtATime
  BY DEF WhInv
<1>2. /\ wlog[r].term = Open /\ wlog[r].lease # "held"
      /\ wlog' = [wlog EXCEPT ![r].lease = "held"] /\ wjob' = [wjob EXCEPT ![s] = retry]
      /\ hooks' = hooks /\ wscan' = [wscan EXCEPT ![p] = @ \ {r}]
  BY DEF ClaimRow, Claimable, Unleased
<1>3. wlog[r].hook \in WhHooks
  BY <1>1, <1>2 DEF HooksKnown, Present, Open
<1>4. retry \in Delivery /\ retry.row = r /\ retry.late = FALSE /\ retry.hook \in WhHooks
  BY <1>3 DEF Delivery
<1> HIDE DEF retry
<1>5. WhRecords'
  <2>1. wlog' \in [WhRows -> RetryRow]
    BY <1>1, <1>2 DEF WhRecords, RetryRow
  <2>2. wjob' \in [WhSlots -> Delivery] /\ hooks' \subseteq WhHooks
        /\ wscan' \in [WhProcs -> SUBSET WhRows]
    BY <1>1, <1>2, <1>4 DEF WhRecords
  <2> QED BY <2>1, <2>2 DEF WhRecords
<1>6. /\ \A q \in WhRows : /\ wlog'[q].term = wlog[q].term /\ wlog'[q].count = wlog[q].count
                          /\ wlog'[q].hook = wlog[q].hook /\ (q # r => wlog'[q] = wlog[q])
      /\ wlog'[r].lease = "held"
      /\ \A t \in WhSlots : wjob'[t] = IF t = s THEN retry ELSE wjob[t]
  BY <1>1, <1>2 DEF WhRecords, RetryRow
<1>7. HooksKnown'
  BY <1>1, <1>4, <1>6 DEF HooksKnown, Present
<1>8. \A t \in WhSlots : wjob[t].row = r => wjob[t].late
  BY <1>1, <1>2, WebhookBounds DEF LeaseKept
<1>9. \A t \in WhSlots : wjob[t].row \in WhRows \cup {0} /\ wjob[t].late \in BOOLEAN
  BY <1>1 DEF WhRecords, Delivery
<1>10. LeaseKept'
  BY <1>1, <1>2, <1>4, <1>6, <1>8, <1>9 DEF LeaseKept
<1>11. OneAtATime'
  BY <1>1, <1>4, <1>6, <1>8, <1>9 DEF OneAtATime
<1> QED BY <1>5, <1>7, <1>10, <1>11 DEF WhInv

\* A retry ends: its row is written, and every other delivery of it is late from now on.
LEMMA WhSettles ==
  ASSUME WhInv, NEW s \in WhSlots, NEW row \in RetryRow,
         wjob[s].row # 0, Settles(wjob[s].row, row), wjob' = Bared(s, wjob[s].row),
         hooks' = hooks, wscan' = wscan,
         Present(wjob[s].row) => row.count > 0 /\ row.hook \in WhHooks
  PROVE  WhInv'
<1> DEFINE r == wjob[s].row
<1>1. WhRecords /\ HooksKnown /\ LeaseKept /\ OneAtATime
  BY DEF WhInv
<1>2. r \in WhRows /\ \A t \in WhSlots : wjob[t] \in Delivery
  BY <1>1 DEF WhRecords, Delivery
<1>3. \A t \in WhSlots : wjob'[t] = IF t = s THEN NoJob ELSE [wjob[t] EXCEPT !.late = @ \/ wjob[t].row = r]
  BY DEF Bared
<1>4. /\ \A q \in WhRows : q # r => wlog'[q] = wlog[q]
      /\ wlog'[r] = IF Present(r) THEN row ELSE wlog[r]
      /\ wlog' \in [WhRows -> RetryRow]
  BY <1>1, <1>2 DEF Settles, WhRecords
<1> HIDE DEF r
<1>5. ASSUME NEW t \in WhSlots
      PROVE  /\ wjob'[t] \in Delivery
             /\ wjob'[t].row # 0 => wjob'[t].row = wjob[t].row
             /\ wjob'[t].phase # "none" => wjob'[t].hook = wjob[t].hook /\ wjob[t].phase # "none"
             /\ wjob'[t].row # 0 /\ ~wjob'[t].late => ~wjob[t].late /\ wjob'[t].row # r
  <2>1. CASE t = s
    <3>1. wjob'[t] = NoJob
      BY <1>3, <2>1
    <3> QED BY <3>1 DEF NoJob, Delivery
  <2>2. CASE t # s
    <3>1. wjob'[t] = [wjob[t] EXCEPT !.late = @ \/ wjob[t].row = r] /\ wjob[t] \in Delivery
      BY <1>2, <1>3, <2>2
    <3> QED BY <3>1 DEF Delivery
  <2> QED BY <2>1, <2>2
<1>6. WhRecords'
  <2>1. DOMAIN wjob' = WhSlots /\ wjob' = [t \in WhSlots |-> wjob'[t]]
    BY DEF Bared
  <2>2. wjob' \in [WhSlots -> Delivery]
    BY <1>5, <2>1
  <2> QED BY <1>1, <1>4, <2>2 DEF WhRecords
<1>7. HooksKnown'
  <2>1. ASSUME NEW t \in WhSlots, wjob'[t].phase # "none" PROVE wjob'[t].hook \in WhHooks
    BY <1>1, <1>5, <2>1 DEF HooksKnown
  <2>2. \A q \in WhRows : wlog'[q].term # "absent" => wlog'[q].count > 0 /\ wlog'[q].hook \in WhHooks
    BY <1>1, <1>4 DEF HooksKnown, Present, r
  <2> QED BY <2>1, <2>2 DEF HooksKnown, Present
<1>8. LeaseKept'
  <2> SUFFICES ASSUME NEW t \in WhSlots, wjob'[t].row # 0, ~wjob'[t].late
               PROVE  wlog'[wjob'[t].row].lease = "held" /\ wlog'[wjob'[t].row].term = Open
    BY DEF LeaseKept
  <2>1. wjob'[t].row = wjob[t].row /\ ~wjob[t].late /\ wjob'[t].row # r
    BY <1>5
  <2>2. wjob[t].row \in WhRows
    BY <1>2, <2>1 DEF Delivery
  <2> QED BY <1>1, <1>4, <2>1, <2>2 DEF LeaseKept
<1>9. OneAtATime'
  <2> SUFFICES ASSUME NEW t \in WhSlots, NEW u \in WhSlots, wjob'[t].row # 0,
                      wjob'[t].row = wjob'[u].row, ~wjob'[t].late, ~wjob'[u].late
               PROVE  t = u
    BY DEF OneAtATime
  <2>1. /\ wjob'[t].row = wjob[t].row /\ ~wjob[t].late
        /\ wjob'[u].row = wjob[u].row /\ ~wjob[u].late
    BY <1>5
  <2> QED BY <1>1, <2>1 DEF OneAtATime
<1> QED BY <1>6, <1>7, <1>8, <1>9 DEF WhInv

\* A delivery's end, on the row it was for: the address check refuses it, it is
\* delivered, or it fails.
LEMMA WhOutcome ==
  ASSUME WhInv, NEW s \in WhSlots, RefuseRetry(s) \/ RetryDelivered(s) \/ RetryFailed(s)
  PROVE  WhInv'
<1> DEFINE r == wjob[s].row
           n == wlog[r].count + 1
           refused   == [wlog[r] EXCEPT !.term = "failed", !.lease = "free"]
           delivered == [wlog[r] EXCEPT !.term = "delivered", !.lease = "free"]
           ended     == [wlog[r] EXCEPT !.term = "failed", !.count = n - 1, !.lease = "free"]
           again     == [wlog[r] EXCEPT !.count = n, !.due = FALSE, !.lease = "free"]
<1>1. r # 0 /\ r \in WhRows /\ wlog[r] \in RetryRow
  BY DEF WhInv, WhRecords, Delivery, RefuseRetry, RetryDelivered, RetryFailed
<1>2. Present(r) => wlog[r].count > 0 /\ wlog[r].hook \in WhHooks
  BY <1>1 DEF WhInv, HooksKnown
<1>3. hooks' = hooks /\ wscan' = wscan /\ wjob' = Bared(s, r)
  BY DEF RefuseRetry, RetryDelivered, RetryFailed
<1>4. wlog[r].count \in 0 .. Ladder
  BY <1>1 DEF RetryRow
<1>5. CASE RefuseRetry(s)
  <2>1. Settles(r, refused)
    BY <1>5 DEF RefuseRetry
  <2>2. refused \in RetryRow /\ refused.count = wlog[r].count /\ refused.hook = wlog[r].hook
    BY <1>1 DEF RetryRow
  <2> HIDE DEF refused
  <2> QED BY <1>1, <1>2, <1>3, <2>1, <2>2, WhSettles
<1>6. CASE RetryDelivered(s)
  <2>1. Settles(r, delivered)
    BY <1>6 DEF RetryDelivered
  <2>2. delivered \in RetryRow /\ delivered.count = wlog[r].count /\ delivered.hook = wlog[r].hook
    BY <1>1 DEF RetryRow
  <2> HIDE DEF delivered
  <2> QED BY <1>1, <1>2, <1>3, <2>1, <2>2, WhSettles
<1>7. CASE RetryFailed(s) /\ LastStep(n)
  <2>1. Settles(r, ended)
    BY <1>7 DEF RetryFailed
  <2>2. ended \in RetryRow /\ ended.count = wlog[r].count /\ ended.hook = wlog[r].hook
    <3>1. n - 1 = wlog[r].count
      BY <1>4
    <3>2. ended = [wlog[r] EXCEPT !.term = "failed", !.count = wlog[r].count, !.lease = "free"]
      BY <3>1
    <3> QED BY <1>1, <3>2 DEF RetryRow
  <2> HIDE DEF ended
  <2> QED BY <1>1, <1>2, <1>3, <2>1, <2>2, WhSettles
<1>8. CASE RetryFailed(s) /\ ~LastStep(n)
  <2>1. Settles(r, again)
    BY <1>8 DEF RetryFailed
  <2>2. n \in 0 .. Ladder /\ n > 0
    BY <1>4, <1>8 DEF LastStep, Ladder
  <2>3. again \in RetryRow /\ again.count = n /\ again.hook = wlog[r].hook
    BY <1>1, <2>2 DEF RetryRow
  <2> HIDE DEF again
  <2> QED BY <1>1, <1>2, <1>3, <2>1, <2>2, <2>3, WhSettles
<1> QED BY <1>5, <1>6, <1>7, <1>8

\* What time and the purge do to a row, and a first delivery that leaves one.
LEMMA WhRowStep ==
  ASSUME WhInv, NEW r \in WhRows,
         \/ BackoffOver(r) \/ LeaseOver(r) \/ PurgeLog(r)
         \/ \E s \in WhSlots : FirstFailed(s, r)
  PROVE  WhInv'
<1>1. WhRecords /\ HooksKnown /\ LeaseKept /\ OneAtATime
  BY DEF WhInv
<1>2. wlog[r] \in RetryRow /\ \A t \in WhSlots : wjob[t] \in Delivery
  BY <1>1 DEF WhRecords
<1>3. \A t \in WhSlots : wjob[t].row # 0 => wjob[t].row \in WhRows
  BY <1>2 DEF Delivery
<1>4. CASE BackoffOver(r)
  <2>1. /\ wlog' = [wlog EXCEPT ![r].due = TRUE]
        /\ hooks' = hooks /\ wjob' = wjob /\ wscan' = wscan
    BY <1>4 DEF BackoffOver
  <2>2. /\ wlog' \in [WhRows -> RetryRow]
        /\ \A q \in WhRows : /\ wlog'[q].term = wlog[q].term /\ wlog'[q].lease = wlog[q].lease
                            /\ wlog'[q].count = wlog[q].count /\ wlog'[q].hook = wlog[q].hook
    <3> DEFINE ready == [wlog[r] EXCEPT !.due = TRUE]
    <3>1. /\ ready \in RetryRow /\ ready.term = wlog[r].term /\ ready.lease = wlog[r].lease
          /\ ready.count = wlog[r].count /\ ready.hook = wlog[r].hook
      BY <1>2 DEF RetryRow
    <3>2. wlog' = [wlog EXCEPT ![r] = ready] /\ wlog \in [WhRows -> RetryRow]
      BY <1>1, <2>1 DEF WhRecords
    <3> HIDE DEF ready
    <3> QED BY <3>1, <3>2
  <2> QED BY <1>1, <1>3, <2>1, <2>2 DEF WhInv, WhRecords, HooksKnown, LeaseKept, OneAtATime, Present
<1>5. CASE LeaseOver(r)
  <2>1. /\ wlog' = [wlog EXCEPT ![r].lease = "lapsed"]
        /\ wjob' = [s \in WhSlots |-> [wjob[s] EXCEPT !.late = @ \/ wjob[s].row = r]]
        /\ hooks' = hooks /\ wscan' = wscan
    BY <1>5 DEF LeaseOver
  <2>2. /\ wlog' \in [WhRows -> RetryRow]
        /\ \A q \in WhRows : /\ wlog'[q].term = wlog[q].term /\ wlog'[q].count = wlog[q].count
                             /\ wlog'[q].hook = wlog[q].hook
                             /\ q # r => wlog'[q].lease = wlog[q].lease
    BY <1>1, <2>1 DEF WhRecords, RetryRow
  <2>3. ASSUME NEW t \in WhSlots
        PROVE  /\ wjob'[t] \in Delivery /\ wjob'[t].row = wjob[t].row /\ wjob'[t].hook = wjob[t].hook
               /\ wjob'[t].phase = wjob[t].phase
               /\ ~wjob'[t].late => ~wjob[t].late /\ wjob'[t].row # r
    <3>1. wjob'[t] = [wjob[t] EXCEPT !.late = @ \/ wjob[t].row = r]
      BY <2>1
    <3> QED BY <1>2, <3>1 DEF Delivery
  <2>4. WhRecords'
    <3>1. wjob' = [t \in WhSlots |-> wjob'[t]]
      BY <2>1
    <3>2. wjob' \in [WhSlots -> Delivery]
      BY <2>3, <3>1
    <3> QED BY <1>1, <2>1, <2>2, <3>2 DEF WhRecords
  <2>5. HooksKnown'
    <3>1. ASSUME NEW q \in WhRows, wlog'[q].term # "absent"
          PROVE  wlog'[q].count > 0 /\ wlog'[q].hook \in WhHooks
      <4>1. wlog[q].count > 0 /\ wlog[q].hook \in WhHooks
        BY <1>1, <2>2, <3>1 DEF HooksKnown, Present
      <4> QED BY <2>2, <4>1
    <3>2. ASSUME NEW t \in WhSlots, wjob'[t].phase # "none" PROVE wjob'[t].hook \in WhHooks
      BY <1>1, <2>3, <3>2 DEF HooksKnown
    <3> QED BY <3>1, <3>2 DEF HooksKnown, Present
  <2>6. LeaseKept'
    <3> SUFFICES ASSUME NEW t \in WhSlots, wjob'[t].row # 0, ~wjob'[t].late
                 PROVE  wlog'[wjob'[t].row].lease = "held" /\ wlog'[wjob'[t].row].term = Open
      BY DEF LeaseKept
    <3>1. wjob'[t].row = wjob[t].row /\ ~wjob[t].late /\ wjob'[t].row # r
      BY <2>3
    <3>2. wjob[t].row \in WhRows
      BY <1>3, <3>1
    <3>3. wlog[wjob[t].row].lease = "held" /\ wlog[wjob[t].row].term = Open
      BY <1>1, <3>1 DEF LeaseKept
    <3> QED BY <2>2, <3>1, <3>2, <3>3
  <2>7. OneAtATime'
    <3> SUFFICES ASSUME NEW t \in WhSlots, NEW u \in WhSlots, wjob'[t].row # 0,
                        wjob'[t].row = wjob'[u].row, ~wjob'[t].late, ~wjob'[u].late
                 PROVE  t = u
      BY DEF OneAtATime
    <3>1. /\ wjob'[t].row = wjob[t].row /\ ~wjob[t].late
          /\ wjob'[u].row = wjob[u].row /\ ~wjob[u].late
      BY <2>3
    <3> QED BY <1>1, <3>1 DEF OneAtATime
  <2> QED BY <2>4, <2>5, <2>6, <2>7 DEF WhInv
<1>6. CASE PurgeLog(r)
  <2>1. /\ wlog' = [wlog EXCEPT ![r] = [NoLogRow EXCEPT !.hook = "purged"]]
        /\ \A s \in WhSlots : wjob[s].row # r
        /\ wscan' = [p \in WhProcs |-> wscan[p] \ {r}] /\ hooks' = hooks /\ wjob' = wjob
    BY <1>6 DEF PurgeLog
  <2>2. [NoLogRow EXCEPT !.hook = "purged"] \in RetryRow
        /\ [NoLogRow EXCEPT !.hook = "purged"].term = "absent"
    <3>1. NoLogRow \in RetryRow /\ NoLogRow.term = "absent"
      BY DEF NoLogRow, RetryRow, Ladder
    <3> QED BY <3>1 DEF RetryRow
  <2>3. WhRecords'
    BY <1>1, <2>1, <2>2 DEF WhRecords
  <2>4. /\ \A q \in WhRows : q # r => wlog'[q] = wlog[q]
        /\ wlog'[r].term = "absent"
    BY <1>1, <2>1, <2>2 DEF WhRecords
  <2>5. HooksKnown' /\ LeaseKept' /\ OneAtATime'
    BY <1>1, <1>3, <2>1, <2>4 DEF HooksKnown, LeaseKept, OneAtATime, Present
  <2> QED BY <2>3, <2>5 DEF WhInv
<1>7. CASE \E s \in WhSlots : FirstFailed(s, r)
  <2>1. PICK s \in WhSlots : FirstFailed(s, r)
    BY <1>7
  <2> DEFINE new == [term |-> Open, count |-> 1, due |-> FALSE, lease |-> "free", hook |-> wjob[s].hook]
  <2>2. /\ wlog[r] = NoLogRow /\ wjob[s].phase = "post" /\ wlog' = [wlog EXCEPT ![r] = new]
        /\ wjob' = [wjob EXCEPT ![s] = NoJob] /\ hooks' = hooks /\ wscan' = wscan
    BY <2>1 DEF FirstFailed, JobGone
  <2>3. wjob[s].hook \in WhHooks
    BY <1>1, <2>2 DEF HooksKnown
  <2>4. new \in RetryRow /\ new.count = 1 /\ new.hook \in WhHooks
    BY <2>3 DEF RetryRow, Ladder, Open
  <2> HIDE DEF new
  <2>5. NoJob \in Delivery /\ NoJob.row = 0 /\ NoJob.phase = "none"
    BY DEF NoJob, Delivery
  <2>6. WhRecords'
    BY <1>1, <2>2, <2>4, <2>5 DEF WhRecords
  <2>7. /\ \A q \in WhRows : wlog'[q] = IF q = r THEN new ELSE wlog[q]
        /\ \A t \in WhSlots : wjob'[t] = IF t = s THEN NoJob ELSE wjob[t]
    BY <1>1, <2>2 DEF WhRecords
  <2>8. \A t \in WhSlots : wjob[t].row # 0 /\ ~wjob[t].late => wjob[t].row # r
    BY <1>1, <2>2 DEF LeaseKept, NoLogRow
  <2>9. HooksKnown'
    BY <1>1, <2>4, <2>5, <2>7 DEF HooksKnown, Present
  <2>10. LeaseKept' /\ OneAtATime'
    BY <1>1, <1>3, <2>5, <2>7, <2>8 DEF LeaseKept, OneAtATime
  <2> QED BY <2>6, <2>9, <2>10 DEF WhInv
<1> QED BY <1>4, <1>5, <1>6, <1>7

\* Every step keeps the invariant.
LEMMA WhInvStep == WhInv /\ [WhNext]_whVars => WhInv'
<1> SUFFICES ASSUME WhInv, [WhNext]_whVars PROVE WhInv'
  OBVIOUS
<1>1. CASE UNCHANGED whVars
  BY <1>1 DEF whVars, WhInv, WhRecords, HooksKnown, LeaseKept, OneAtATime, Present
<1>2. ASSUME NEW p \in WhProcs, Claims(p) PROVE WhInv'
  BY <1>2, WhDeliveries, WhClaim DEF Claims
<1>3. ASSUME NEW s \in WhSlots, Outcome(s) PROVE WhInv'
  BY <1>3, WhDeliveries, WhOutcome, WhRowStep DEF Outcome
<1> QED BY <1>1, <1>2, <1>3, WhDeliveries, WhRowStep DEF WhNext

\* A step that changes a row's outcome is the end of a delivery that was late.
LEMMA OutcomeStep ==
  ASSUME WhInv, [WhNext]_whVars, NEW r \in WhRows, wlog[r].term \in {"delivered", "failed"}
  PROVE  wlog'[r].term \in {wlog[r].term, "absent"} \/ LateEnds
<1>1. WhRecords /\ LeaseKept /\ \A t \in WhSlots : wjob[t] \in Delivery
  BY DEF WhInv, WhRecords
<1>2. wlog[r].term # Open /\ wlog[r].term # "absent"
  BY DEF Open
<1>3. CASE wlog' = wlog
  BY <1>3
<1>4. ASSUME NEW s \in WhSlots, RefuseRetry(s) \/ RetryDelivered(s) \/ RetryFailed(s)
      PROVE  wlog'[r].term \in {wlog[r].term, "absent"} \/ LateEnds
  <2>1. wjob[s].row # 0 /\ wjob[s].row \in WhRows /\ wjob' = Bared(s, wjob[s].row)
    BY <1>1, <1>4 DEF RefuseRetry, RetryDelivered, RetryFailed, Delivery
  <2>2. CASE wjob[s].row # r
    <3>1. wlog'[r] = wlog[r]
      BY <1>1, <1>4, <2>1, <2>2 DEF RefuseRetry, RetryDelivered, RetryFailed, Settles, WhRecords
    <3> QED BY <3>1
  <2>3. CASE wjob[s].row = r
    <3>1. wjob[s].late
      BY <1>1, <1>2, <2>1, <2>3 DEF LeaseKept
    <3>2. wjob'[s] = NoJob
      BY <2>1 DEF Bared
    <3> QED BY <3>1, <3>2 DEF LateEnds
  <2> QED BY <2>2, <2>3
<1>5. ASSUME NEW s \in WhSlots, NEW q \in WhRows, FirstFailed(s, q)
      PROVE  wlog'[r].term \in {wlog[r].term, "absent"}
  <2>1. q # r
    BY <1>2, <1>5 DEF FirstFailed, NoLogRow
  <2> QED BY <1>1, <1>5, <2>1 DEF FirstFailed, WhRecords
<1>6. ASSUME NEW q \in WhRows, BackoffOver(q) \/ LeaseOver(q)
      PROVE  wlog'[r].term = wlog[r].term
  BY <1>1, <1>6 DEF BackoffOver, LeaseOver, WhRecords, RetryRow
<1>7. ASSUME NEW q \in WhRows, PurgeLog(q)
      PROVE  wlog'[r].term \in {wlog[r].term, "absent"}
  <2>1. wlog'[r] = wlog[r] \/ wlog'[r] = [NoLogRow EXCEPT !.hook = "purged"]
    BY <1>1, <1>7 DEF PurgeLog, WhRecords
  <2> QED BY <2>1 DEF NoLogRow
<1>8. ASSUME NEW p \in WhProcs, NEW q \in WhRows, NEW s \in WhSlots, ClaimRow(p, q, s)
      PROVE  wlog'[r].term = wlog[r].term
  BY <1>1, <1>8 DEF ClaimRow, WhRecords, RetryRow
<1>9. CASE UNCHANGED whVars
  BY <1>3, <1>9 DEF whVars
<1>10. ASSUME NEW h \in WhHooks, RegisterHook(h) \/ DeleteHook(h) PROVE wlog' = wlog
  BY <1>10 DEF RegisterHook, DeleteHook
<1>11. ASSUME NEW p \in WhProcs, ScanDue(p) \/ DieDelivering(p) \/ \E q \in WhRows : ClaimLost(p, q)
       PROVE  wlog' = wlog
  BY <1>11 DEF ScanDue, DieDelivering, ClaimLost
<1>12. ASSUME NEW s \in WhSlots, Safe(s) \/ RefuseFirst(s) \/ FirstDelivered(s) PROVE wlog' = wlog
  BY <1>12 DEF Safe, RefuseFirst, FirstDelivered
<1>13. ASSUME NEW p \in WhProcs, NEW h \in WhHooks, NEW s \in WhSlots, Fire(p, h, s) PROVE wlog' = wlog
  BY <1>13 DEF Fire
<1>14. ASSUME NEW p \in WhProcs, Claims(p) PROVE wlog'[r].term = wlog[r].term
  BY <1>8, <1>11, <1>14 DEF Claims
<1>15. ASSUME NEW s \in WhSlots, Outcome(s)
       PROVE  wlog'[r].term \in {wlog[r].term, "absent"} \/ LateEnds
  BY <1>3, <1>4, <1>5, <1>12, <1>15 DEF Outcome
<1> QED BY <1>3, <1>6, <1>7, <1>9, <1>10, <1>11, <1>13, <1>14, <1>15 DEF WhNext

\* The types are those of the invariant's records.
LEMMA WhTyped == WhInv => WhTypeOK
BY DEF WhInv, WhRecords, HooksKnown, WhTypeOK, RetryRow, Delivery

\* The invariant holds in every state.
THEOREM WebhookInvariant == WhSpec => []WhInv
BY WhInitInv, WhInvStep, PTL DEF WhSpec

\* The promises of a retried delivery: types, one delivery of a row in time at a time,
\* and an outcome that only a delivery past its lease overwrites.
THEOREM RetriesExclusive == WhSpec => RetriesAreExclusive
<1>1. WhInv => OneAtATime
  BY DEF WhInv
<1>2. WhInv /\ [WhNext]_whVars =>
        [\A r \in WhRows : wlog[r].term \in {"delivered", "failed"} =>
           wlog'[r].term \in {wlog[r].term, "absent"} \/ LateEnds]_whVars
  BY OutcomeStep
<1>3. WhSpec => OutcomeStays
  BY WebhookInvariant, <1>2, PTL DEF WhSpec, OutcomeStays
<1> QED BY WebhookInvariant, WhTyped, <1>1, <1>3, PTL DEF RetriesAreExclusive

-----------------------------------------------------------------------------
(* MCP sessions.  The count of a session's streams is exact while it is in   *)
(* the map (GetsCounted): a session id is used again only when no request of *)
(* it is in flight, so no stream of an ended session is counted down from a  *)
(* later one.  A session the reaper may take has no stream then.             *)

Request == [kind : {"init", "post", "get"}, sid : Sids, finished : BOOLEAN]

Gets(s) == {r \in ReqSlots : req[r].kind = "get" /\ req[r].sid = s}

GetsCounted == \A s \in Sids : sessions[s].held => sessions[s].gets = Cardinality(Gets(s))

NoEarlyGets == \A s \in Sids : transport[s] \in {"connecting", "answered"} => Gets(s) = {}

StreamIsGet == \A s \in Sids : StreamOpen(s) => stream[s] \in Gets(s)

HttpInv ==
  /\ HttpTypeOK /\ req \in [ReqSlots -> Request \cup {NoReq}] /\ SlotsAccounted
  /\ GetsCounted /\ NoEarlyGets /\ StreamIsGet

\* Sets of requests are finite.
LEMMA RequestSets ==
  ASSUME NEW S \in SUBSET ReqSlots
  PROVE  /\ IsFiniteSet(S) /\ Cardinality(S) \in Nat /\ Cardinality(S) <= Cardinality(ReqSlots)
         /\ Cardinality(ReqSlots) \in Nat
         /\ \A r \in ReqSlots \ S : Cardinality(S \cup {r}) = Cardinality(S) + 1
         /\ \A r \in S : Cardinality(S \ {r}) = Cardinality(S) - 1
<1>1. IsFiniteSet(ReqSlots)
  BY SessionBounds
<1>2. IsFiniteSet(S) /\ Cardinality(S) <= Cardinality(ReqSlots)
  BY <1>1, FS_Subset
<1>3. Cardinality(S) \in Nat /\ Cardinality(ReqSlots) \in Nat
  BY <1>1, <1>2, FS_CardinalityType
<1>4. \A r \in ReqSlots \ S : Cardinality(S \cup {r}) = Cardinality(S) + 1
  BY <1>2, FS_AddElement
<1>5. \A r \in S : Cardinality(S \ {r}) = Cardinality(S) - 1
  BY <1>2, FS_RemoveElement
<1> QED BY <1>2, <1>3, <1>4, <1>5

LEMMA HttpInitInv == HttpInit => HttpInv
<1> SUFFICES ASSUME HttpInit PROVE HttpInv
  OBVIOUS
<1>1. Unanswered = {} /\ \A s \in Sids : Gets(s) = {} /\ ~StreamOpen(s) /\ sessions[s].held = FALSE
  BY DEF HttpInit, Unanswered, InFlight, Gets, NoReq, StreamOpen, NoSession
<1>2. req \in [ReqSlots -> Request \cup {NoReq}]
  BY DEF HttpInit
<1>3. SlotsAccounted
  BY <1>1, FS_EmptySet DEF HttpInit, SlotsAccounted
<1>4. HttpTypeOK
  <2>1. NoSession \in SessionRows
    BY DEF SessionRows
  <2>2. 0 \in 0 .. MaxConcurrent
    BY SessionBounds
  <2> QED BY <1>1, <2>1, <2>2 DEF HttpInit, HttpTypeOK
<1>5. GetsCounted /\ NoEarlyGets /\ StreamIsGet
  BY <1>1 DEF HttpInit, GetsCounted, NoEarlyGets, StreamIsGet
<1> QED BY <1>2, <1>3, <1>4, <1>5 DEF HttpInv

\* What the types say of one session, one request and the slots.
LEMMA HttpTypes ==
  ASSUME HttpInv
  PROVE  /\ \A s \in Sids : /\ sessions[s] \in [held : BOOLEAN, idle : BOOLEAN, gets : Nat]
                            /\ ~sessions[s].held => sessions[s] = NoSession
                            /\ sessions[s].held => transport[s] = "live"
         /\ \A r \in ReqSlots : req[r] # NoReq => req[r] \in Request
         /\ active \in Nat /\ active <= MaxConcurrent /\ active = Cardinality(Unanswered)
         /\ Unanswered \in SUBSET ReqSlots /\ \A s \in Sids : Gets(s) \in SUBSET ReqSlots
<1>1. Cardinality(ReqSlots) \in Nat
  BY RequestSets
<1>2. ASSUME NEW x \in SessionRows
      PROVE  x \in [held : BOOLEAN, idle : BOOLEAN, gets : Nat] /\ (~x.held => x = NoSession)
  <2>1. CASE x = NoSession
    BY <2>1 DEF NoSession
  <2>2. CASE x \in [held : {TRUE}, idle : BOOLEAN, gets : 0 .. Cardinality(ReqSlots)]
    <3>1. x.held \in {TRUE} /\ x.idle \in BOOLEAN /\ x.gets \in 0 .. Cardinality(ReqSlots)
      BY <2>2
    <3>2. x.gets \in Nat
      BY <1>1, <3>1
    <3>3. x = [held |-> x.held, idle |-> x.idle, gets |-> x.gets]
      BY <2>2
    <3> QED BY <3>1, <3>2, <3>3
  <2> QED BY <2>1, <2>2 DEF SessionRows
<1>3. \A s \in Sids : sessions[s] \in SessionRows /\ (sessions[s].held => transport[s] = "live")
  BY DEF HttpInv, HttpTypeOK
<1>4. active \in Nat /\ active <= MaxConcurrent
  BY SessionBounds DEF HttpInv, HttpTypeOK
<1>5. Unanswered \in SUBSET ReqSlots /\ \A s \in Sids : Gets(s) \in SUBSET ReqSlots
  BY DEF Unanswered, InFlight, Gets
<1> QED BY <1>2, <1>3, <1>4, <1>5 DEF HttpInv, SlotsAccounted

\* A request that is admitted takes one slot, and a stream is counted for its session.
LEMMA SlotTaken ==
  ASSUME HttpInv, NEW r \in ReqSlots, NEW k \in {"init", "post", "get"}, NEW s \in Sids,
         Admitted(r, k, s)
  PROVE  /\ req' \in [ReqSlots -> Request \cup {NoReq}]
         /\ \A q \in ReqSlots : req'[q] = NoReq \/ req'[q] \in Request
         /\ active' \in 0 .. MaxConcurrent /\ active' = Cardinality(Unanswered')
         /\ \A t \in Sids : Gets(t)' = IF k = "get" /\ t = s THEN Gets(t) \cup {r} ELSE Gets(t)
         /\ r \notin Gets(s)
<1>1. /\ req[r] = NoReq /\ active < MaxConcurrent /\ active' = active + 1
      /\ req' = [req EXCEPT ![r] = Req(k, s)] /\ req \in [ReqSlots -> Request \cup {NoReq}]
  BY DEF Admitted, Admits, HttpInv
<1>2. /\ Req(k, s) \in Request /\ Req(k, s) # NoReq /\ Req(k, s).finished = FALSE
      /\ Req(k, s).kind = k /\ Req(k, s).sid = s /\ NoReq.kind = "none"
  BY DEF Req, Request, NoReq
<1>3. /\ req' \in [ReqSlots -> Request \cup {NoReq}]
      /\ \A q \in ReqSlots : req'[q] = IF q = r THEN Req(k, s) ELSE req[q]
  BY <1>1, <1>2
<1>4. Unanswered' = Unanswered \cup {r} /\ r \notin Unanswered
  BY <1>1, <1>2, <1>3 DEF Unanswered, InFlight
<1>5. active' \in 0 .. MaxConcurrent /\ active' = Cardinality(Unanswered')
  <2>1. active \in Nat /\ active = Cardinality(Unanswered) /\ Unanswered \in SUBSET ReqSlots
    BY HttpTypes
  <2>2. Cardinality(Unanswered \cup {r}) = active + 1
    BY <1>4, <2>1, RequestSets
  <2> QED BY <1>1, <1>4, <2>1, <2>2, SessionBounds
<1>6. r \notin Gets(s) /\ \A t \in Sids : Gets(t)' = IF k = "get" /\ t = s THEN Gets(t) \cup {r} ELSE Gets(t)
  BY <1>1, <1>2, <1>3 DEF Gets
<1> QED BY <1>3, <1>5, <1>6

\* What the invariant says of one session.
SessionGood(s) ==
  /\ \/ sessions[s] = NoSession
     \/ /\ sessions[s] \in [held : {TRUE}, idle : BOOLEAN, gets : Nat]
        /\ sessions[s].gets = Cardinality(Gets(s)) /\ transport[s] = "live"
  /\ transport[s] \in {"connecting", "answered"} => Gets(s) = {}
  /\ StreamOpen(s) => stream[s] \in Gets(s)

RequestsGood ==
  /\ req \in [ReqSlots -> Request \cup {NoReq}]
  /\ active \in 0 .. MaxConcurrent /\ active = Cardinality(Unanswered)

LEMMA SessionsGood == HttpInv => RequestsGood /\ \A s \in Sids : SessionGood(s)
<1> SUFFICES ASSUME HttpInv PROVE RequestsGood /\ \A s \in Sids : SessionGood(s)
  OBVIOUS
<1>1. RequestsGood
  BY DEF RequestsGood, HttpInv, HttpTypeOK, SlotsAccounted
<1>2. ASSUME NEW s \in Sids PROVE SessionGood(s)
  <2>1. CASE sessions[s] = NoSession
    BY <2>1 DEF SessionGood, HttpInv, NoEarlyGets, StreamIsGet
  <2>2. CASE sessions[s].held
    <3>1. sessions[s] \in [held : BOOLEAN, idle : BOOLEAN, gets : Nat] /\ transport[s] = "live"
      BY <2>2, HttpTypes
    <3>2. sessions[s] \in [held : {TRUE}, idle : BOOLEAN, gets : Nat]
      BY <2>2, <3>1
    <3>3. sessions[s].gets = Cardinality(Gets(s))
      BY <2>2 DEF HttpInv, GetsCounted
    <3> QED BY <3>1, <3>2, <3>3 DEF SessionGood, HttpInv, NoEarlyGets, StreamIsGet
  <2> QED BY <2>1, <2>2, HttpTypes
<1> QED BY <1>1, <1>2

\* The parts are the invariant.
LEMMA HttpStep ==
  ASSUME RequestsGood', left' \subseteq Sids, sessions' = [s \in Sids |-> sessions'[s]],
         transport' \in [Sids -> {"none", "connecting", "answered", "live"}],
         stream' \in [Sids -> ReqSlots \cup {NoSlot}],
         \A s \in Sids : SessionGood(s)'
  PROVE  HttpInv'
<1>1. \A s \in Sids : Gets(s)' \in SUBSET ReqSlots
  BY DEF Gets
<1>2. \A s \in Sids : Cardinality(Gets(s)') <= Cardinality(ReqSlots) /\ Cardinality(ReqSlots) \in Nat
  BY <1>1, RequestSets
<1>3. ASSUME NEW s \in Sids
      PROVE  /\ sessions'[s] \in SessionRows /\ (sessions'[s].held => transport'[s] = "live")
             /\ sessions'[s].held => sessions'[s].gets = Cardinality(Gets(s)')
  <2>1. CASE sessions'[s] = NoSession
    BY <2>1 DEF SessionRows, NoSession
  <2>2. CASE sessions'[s] # NoSession
    <3>1. /\ sessions'[s] \in [held : {TRUE}, idle : BOOLEAN, gets : Nat]
          /\ sessions'[s].gets = Cardinality(Gets(s)') /\ transport'[s] = "live"
      BY <2>2 DEF SessionGood
    <3>2. sessions'[s].gets \in 0 .. Cardinality(ReqSlots)
      BY <1>2, <3>1
    <3>3. sessions'[s] \in [held : {TRUE}, idle : BOOLEAN, gets : 0 .. Cardinality(ReqSlots)]
      BY <3>1, <3>2
    <3> QED BY <3>1, <3>3 DEF SessionRows
  <2> QED BY <2>1, <2>2
<1>4. sessions' \in [Sids -> SessionRows]
  BY <1>3
<1>5. \A r \in ReqSlots : req'[r] = NoReq \/ req'[r] \in Request
  BY DEF RequestsGood
<1>6. HttpTypeOK'
  BY <1>3, <1>4, <1>5 DEF HttpTypeOK, Request, RequestsGood
<1>7. GetsCounted'
  BY <1>3 DEF GetsCounted
<1>8. NoEarlyGets' /\ StreamIsGet' /\ SlotsAccounted' /\ req' \in [ReqSlots -> Request \cup {NoReq}]
  BY DEF NoEarlyGets, StreamIsGet, SlotsAccounted, SessionGood, RequestsGood
<1> QED BY <1>6, <1>7, <1>8 DEF HttpInv

\* A session in the map, and its row after a request or an idle time.
LEMMA HeldSession ==
  ASSUME NEW s \in Sids, SessionGood(s), sessions[s].held
  PROVE  /\ sessions[s] \in [held : {TRUE}, idle : BOOLEAN, gets : Nat]
         /\ sessions[s].gets = Cardinality(Gets(s)) /\ transport[s] = "live"
<1>1. sessions[s] # NoSession
  <2> SUFFICES ASSUME sessions[s] = NoSession PROVE FALSE
    OBVIOUS
  <2>1. sessions[s].held = FALSE
    BY DEF NoSession
  <2> QED BY <2>1
<1> QED BY <1>1 DEF SessionGood

LEMMA HeldRow ==
  ASSUME NEW x \in [held : {TRUE}, idle : BOOLEAN, gets : Nat], NEW b \in BOOLEAN
  PROVE  /\ [x EXCEPT !.idle = b] \in [held : {TRUE}, idle : BOOLEAN, gets : Nat]
         /\ [x EXCEPT !.idle = b].gets = x.gets
         /\ [held |-> TRUE, idle |-> b, gets |-> x.gets + 1] \in [held : {TRUE}, idle : BOOLEAN, gets : Nat]
<1>1. x.gets \in Nat /\ x.gets + 1 \in Nat
  OBVIOUS
<1>2. [held |-> TRUE, idle |-> b, gets |-> x.gets + 1] \in [held : {TRUE}, idle : BOOLEAN, gets : Nat]
  BY <1>1
<1>3. [x EXCEPT !.idle = b] \in [held : {TRUE}, idle : BOOLEAN, gets : Nat] /\ [x EXCEPT !.idle = b].gets = x.gets
  OBVIOUS
<1> QED BY <1>2, <1>3

\* A session nothing happens to stays as it is.
LEMMA SessionSame ==
  ASSUME NEW s \in Sids, SessionGood(s), sessions'[s] = sessions[s], transport'[s] = transport[s],
         stream'[s] = stream[s], Gets(s)' = Gets(s)
  PROVE  SessionGood(s)'
BY DEF SessionGood, StreamOpen

\* The types of the three maps of a session.
LEMMA HttpMaps ==
  HttpInv => /\ sessions \in [Sids -> SessionRows] /\ left \subseteq Sids
             /\ transport \in [Sids -> {"none", "connecting", "answered", "live"}]
             /\ stream \in [Sids -> ReqSlots \cup {NoSlot}]
BY DEF HttpInv, HttpTypeOK

LEMMA RequestSame ==
  ASSUME RequestsGood, UNCHANGED <<req, active>>
  PROVE  RequestsGood' /\ \A s \in Sids : Gets(s)' = Gets(s)
BY DEF RequestsGood, Gets, Unanswered, InFlight

\* One step for every action.
LEMMA HttpRequests ==
  ASSUME HttpInv, NEW r \in ReqSlots, NEW s \in Sids,
         InitArrives(r, s) \/ PostArrives(r, s) \/ GetArrives(r, s)
  PROVE  HttpInv'
<1>1. /\ sessions \in [Sids -> SessionRows] /\ left \subseteq Sids
      /\ transport \in [Sids -> {"none", "connecting", "answered", "live"}]
      /\ stream \in [Sids -> ReqSlots \cup {NoSlot}]
      /\ \A q \in Sids : SessionGood(q)
  BY HttpMaps, SessionsGood
<1>2. ASSUME NEW k \in {"init", "post", "get"}, Admitted(r, k, s)
      PROVE  /\ RequestsGood'
             /\ \A q \in Sids : Gets(q)' = IF k = "get" /\ q = s THEN Gets(q) \cup {r} ELSE Gets(q)
             /\ r \notin Gets(s)
  BY <1>2, SlotTaken DEF RequestsGood
<1>3. CASE InitArrives(r, s)
  <2>1. /\ Admitted(r, "init", s) /\ transport[s] = "none" /\ \A q \in InFlight : req[q].sid # s
        /\ transport' = [transport EXCEPT ![s] = "connecting"] /\ left' = left \ {s}
        /\ sessions' = sessions /\ stream' = stream
    BY <1>3 DEF InitArrives
  <2>2. RequestsGood' /\ \A q \in Sids : Gets(q)' = Gets(q)
    BY <1>2, <2>1
  <2>3. Gets(s) = {}
    BY <2>1 DEF Gets, InFlight, NoReq
  <2>4. SessionGood(s)'
    BY <1>1, <2>1, <2>2, <2>3 DEF SessionGood, StreamOpen
  <2>5. \A q \in Sids \ {s} : SessionGood(q)'
    BY <1>1, <2>1, <2>2, SessionSame
  <2> QED BY <1>1, <2>1, <2>2, <2>4, <2>5, HttpStep
<1>4. CASE PostArrives(r, s)
  <2>1. /\ Admitted(r, "post", s) /\ sessions[s].held
        /\ sessions' = [sessions EXCEPT ![s].idle = FALSE]
        /\ transport' = transport /\ stream' = stream /\ left' = left
    BY <1>4 DEF PostArrives, InMap
  <2>2. RequestsGood' /\ \A q \in Sids : Gets(q)' = Gets(q)
    BY <1>2, <2>1
  <2>3. sessions' = [q \in Sids |-> IF q = s THEN [sessions[s] EXCEPT !.idle = FALSE] ELSE sessions[q]]
    BY <1>1, <2>1
  <2>4. SessionGood(s)'
    <3>1. /\ sessions[s] \in [held : {TRUE}, idle : BOOLEAN, gets : Nat]
          /\ sessions[s].gets = Cardinality(Gets(s)) /\ transport[s] = "live"
      BY <1>1, <2>1, HeldSession
    <3>2. /\ sessions'[s] \in [held : {TRUE}, idle : BOOLEAN, gets : Nat]
          /\ sessions'[s].gets = Cardinality(Gets(s)')
      BY <2>2, <2>3, <3>1, HeldRow
    <3> QED BY <1>1, <2>1, <2>2, <3>1, <3>2 DEF SessionGood, StreamOpen
  <2>5. \A q \in Sids \ {s} : SessionGood(q)'
    BY <1>1, <2>1, <2>2, <2>3, SessionSame
  <2> QED BY <1>1, <2>1, <2>2, <2>3, <2>4, <2>5, HttpStep
<1>5. CASE GetArrives(r, s)
  <2>1. /\ Admitted(r, "get", s) /\ sessions[s].held
        /\ sessions' = [sessions EXCEPT ![s].idle = FALSE, ![s].gets = @ + 1]
        /\ stream' = IF StreamOpen(s) THEN stream ELSE [stream EXCEPT ![s] = r]
        /\ transport' = transport /\ left' = left
    BY <1>5 DEF GetArrives, InMap
  <2>2. /\ RequestsGood' /\ r \notin Gets(s)
        /\ \A q \in Sids : Gets(q)' = IF q = s THEN Gets(q) \cup {r} ELSE Gets(q)
    BY <1>2, <2>1
  <2>3. Cardinality(Gets(s)') = Cardinality(Gets(s)) + 1
    <3>1. Gets(s) \in SUBSET ReqSlots
      BY DEF Gets
    <3> QED BY <2>2, <3>1, RequestSets
  <2>4. /\ sessions[s] \in [held : {TRUE}, idle : BOOLEAN, gets : Nat]
        /\ sessions[s].gets = Cardinality(Gets(s)) /\ transport[s] = "live"
    BY <1>1, <2>1, HeldSession
  <2>5. /\ sessions' = [q \in Sids |-> IF q = s THEN [held |-> TRUE, idle |-> FALSE, gets |-> sessions[s].gets + 1]
                                       ELSE sessions[q]]
        /\ stream' \in [Sids -> ReqSlots \cup {NoSlot}]
        /\ stream'[s] \in {stream[s], r} /\ (stream[s] # NoSlot => stream'[s] = stream[s])
        /\ \A q \in Sids \ {s} : stream'[q] = stream[q]
    BY <1>1, <2>1, <2>4 DEF StreamOpen
  <2>6. SessionGood(s)'
    <3>1. /\ sessions'[s] \in [held : {TRUE}, idle : BOOLEAN, gets : Nat]
          /\ sessions'[s].gets = Cardinality(Gets(s)')
      BY <2>3, <2>4, <2>5, HeldRow
    <3>2. StreamOpen(s)' => stream'[s] \in Gets(s)'
      BY <1>1, <2>2, <2>5 DEF SessionGood, StreamOpen
    <3> QED BY <2>1, <2>4, <3>1, <3>2 DEF SessionGood
  <2>7. \A q \in Sids \ {s} : SessionGood(q)'
    BY <1>1, <2>1, <2>2, <2>5, SessionSame
  <2> QED BY <1>1, <2>1, <2>2, <2>5, <2>6, <2>7, HttpStep
<1> QED BY <1>3, <1>4, <1>5

LEMMA HttpInits ==
  ASSUME HttpInv, NEW s \in Sids, InitAnswered(s) \/ InitRegistered(s) \/ ClientLeaves(s) \/ IdleElapses(s)
  PROVE  HttpInv'
<1>1. /\ sessions \in [Sids -> SessionRows] /\ left \subseteq Sids
      /\ transport \in [Sids -> {"none", "connecting", "answered", "live"}]
      /\ stream \in [Sids -> ReqSlots \cup {NoSlot}]
      /\ RequestsGood /\ \A q \in Sids : SessionGood(q)
  BY HttpMaps, SessionsGood
<1>2. req' = req /\ active' = active /\ stream' = stream
  BY DEF InitAnswered, InitRegistered, ClientLeaves, IdleElapses
<1>3. RequestsGood' /\ \A q \in Sids : Gets(q)' = Gets(q)
  BY <1>1, <1>2, RequestSame
<1>4. CASE InitAnswered(s)
  <2>1. /\ transport[s] = "connecting" /\ transport' = [transport EXCEPT ![s] = "answered"]
        /\ sessions' = sessions /\ left' = left
    BY <1>4 DEF InitAnswered
  <2>2. SessionGood(s)'
    BY <1>1, <1>2, <1>3, <2>1 DEF SessionGood, StreamOpen
  <2>3. \A q \in Sids \ {s} : SessionGood(q)'
    BY <1>1, <1>2, <1>3, <2>1, SessionSame
  <2> QED BY <1>1, <1>2, <1>3, <2>1, <2>2, <2>3, HttpStep
<1>5. CASE InitRegistered(s)
  <2>1. /\ transport[s] = "answered" /\ transport' = [transport EXCEPT ![s] = "live"]
        /\ sessions' = [sessions EXCEPT ![s] = [held |-> TRUE, idle |-> FALSE, gets |-> 0]] /\ left' = left
    BY <1>5 DEF InitRegistered
  <2>2. Gets(s)' = {} /\ Cardinality(Gets(s)') = 0
    BY <1>1, <1>3, <2>1, FS_EmptySet DEF SessionGood
  <2>3. SessionGood(s)'
    BY <1>1, <1>2, <1>3, <2>1, <2>2 DEF SessionGood, StreamOpen
  <2>4. \A q \in Sids \ {s} : SessionGood(q)'
    BY <1>1, <1>2, <1>3, <2>1, SessionSame
  <2> QED BY <1>1, <1>2, <1>3, <2>1, <2>3, <2>4, HttpStep
<1>6. CASE ClientLeaves(s)
  <2>1. left' = left \cup {s} /\ sessions' = sessions /\ transport' = transport
    BY <1>6 DEF ClientLeaves
  <2>2. \A q \in Sids : SessionGood(q)'
    BY <1>1, <1>2, <1>3, <2>1, SessionSame
  <2> QED BY <1>1, <1>2, <1>3, <2>1, <2>2, HttpStep
<1>7. CASE IdleElapses(s)
  <2>1. /\ sessions[s].held /\ sessions' = [sessions EXCEPT ![s].idle = TRUE]
        /\ transport' = transport /\ left' = left
    BY <1>7 DEF IdleElapses, InMap
  <2>2. sessions' = [q \in Sids |-> IF q = s THEN [sessions[s] EXCEPT !.idle = TRUE] ELSE sessions[q]]
    BY <1>1, <2>1
  <2>3. SessionGood(s)'
    <3>1. /\ sessions[s] \in [held : {TRUE}, idle : BOOLEAN, gets : Nat]
          /\ sessions[s].gets = Cardinality(Gets(s)) /\ transport[s] = "live"
      BY <1>1, <2>1, HeldSession
    <3>2. /\ sessions'[s] \in [held : {TRUE}, idle : BOOLEAN, gets : Nat]
          /\ sessions'[s].gets = Cardinality(Gets(s)')
      BY <1>3, <2>2, <3>1, HeldRow
    <3> QED BY <1>1, <1>2, <1>3, <2>1, <3>1, <3>2 DEF SessionGood, StreamOpen
  <2>4. \A q \in Sids \ {s} : SessionGood(q)'
    BY <1>1, <1>2, <1>3, <2>1, <2>2, SessionSame
  <2> QED BY <1>1, <1>2, <1>3, <2>1, <2>2, <2>3, <2>4, HttpStep
<1> QED BY <1>4, <1>5, <1>6, <1>7

LEMMA HttpEnds ==
  ASSUME HttpInv, NEW s \in Sids, Delete(s) \/ Reap(s)
  PROVE  HttpInv'
<1>1. /\ sessions \in [Sids -> SessionRows] /\ left \subseteq Sids
      /\ transport \in [Sids -> {"none", "connecting", "answered", "live"}]
      /\ stream \in [Sids -> ReqSlots \cup {NoSlot}]
      /\ RequestsGood /\ \A q \in Sids : SessionGood(q)
  BY HttpMaps, SessionsGood
<1>2. /\ req' = req /\ active' = active /\ left' = left
      /\ sessions' = [sessions EXCEPT ![s] = NoSession]
      /\ transport' = [transport EXCEPT ![s] = "none"]
      /\ stream' = [stream EXCEPT ![s] = NoSlot]
  BY DEF Delete, Reap, SessionGone
<1>3. RequestsGood' /\ \A q \in Sids : Gets(q)' = Gets(q)
  BY <1>1, <1>2, RequestSame
<1>4. SessionGood(s)'
  BY <1>1, <1>2 DEF SessionGood, StreamOpen
<1>5. \A q \in Sids \ {s} : SessionGood(q)'
  BY <1>1, <1>2, <1>3, SessionSame
<1> QED BY <1>1, <1>2, <1>3, <1>4, <1>5, HttpStep

\* A response gives a slot back once: for the first of finish and close.
LEMMA SlotReturned ==
  ASSUME HttpInv, NEW r \in InFlight, active' = SlotBack(r), req' \in [ReqSlots -> Request \cup {NoReq}],
         \A q \in ReqSlots \ {r} : req'[q] = req[q], req'[r] = NoReq \/ req'[r].finished
  PROVE  RequestsGood'
<1>1. /\ active \in Nat /\ active <= MaxConcurrent /\ active = Cardinality(Unanswered)
      /\ Unanswered \in SUBSET ReqSlots /\ r \in ReqSlots /\ MaxConcurrent \in Nat
      /\ req[r].finished \in BOOLEAN
  BY HttpTypes, SessionBounds DEF InFlight, Request
<1>2. Unanswered' = Unanswered \ {r}
  BY DEF Unanswered, InFlight
<1>3. CASE req[r].finished
  <2>1. r \notin Unanswered /\ active' = active
    BY <1>3 DEF Unanswered, SlotBack
  <2>2. Unanswered' = Unanswered
    BY <1>2, <2>1
  <2> QED BY <1>1, <2>1, <2>2 DEF RequestsGood
<1>4. CASE ~req[r].finished
  <2>1. r \in Unanswered /\ active' = active - 1
    BY <1>4 DEF Unanswered, SlotBack
  <2>2. Cardinality(Unanswered') = active - 1 /\ Cardinality(Unanswered') \in Nat
    BY <1>1, <1>2, <2>1, RequestSets
  <2> QED BY <1>1, <2>1, <2>2 DEF RequestsGood
<1> QED BY <1>1, <1>3, <1>4

LEMMA HttpFinishes == ASSUME HttpInv, NEW r \in ReqSlots, Finishes(r) PROVE HttpInv'
<1>1. /\ sessions \in [Sids -> SessionRows] /\ left \subseteq Sids
      /\ transport \in [Sids -> {"none", "connecting", "answered", "live"}]
      /\ stream \in [Sids -> ReqSlots \cup {NoSlot}]
      /\ req \in [ReqSlots -> Request \cup {NoReq}] /\ \A q \in Sids : SessionGood(q)
  BY HttpMaps, SessionsGood DEF HttpInv
<1>2. /\ r \in InFlight /\ active' = SlotBack(r) /\ req' = [req EXCEPT ![r].finished = TRUE]
      /\ sessions' = sessions /\ transport' = transport /\ stream' = stream /\ left' = left
  BY DEF Finishes, Unanswered
<1>3. req[r] \in Request
  BY <1>2, HttpTypes DEF InFlight
<1>4. /\ [req[r] EXCEPT !.finished = TRUE] \in Request /\ [req[r] EXCEPT !.finished = TRUE].finished = TRUE
      /\ [req[r] EXCEPT !.finished = TRUE].kind = req[r].kind
      /\ [req[r] EXCEPT !.finished = TRUE].sid = req[r].sid
  BY <1>3 DEF Request
<1>5. /\ req' \in [ReqSlots -> Request \cup {NoReq}] /\ req'[r] = [req[r] EXCEPT !.finished = TRUE]
      /\ \A q \in ReqSlots \ {r} : req'[q] = req[q]
  BY <1>1, <1>2, <1>4
<1>6. RequestsGood'
  BY <1>2, <1>4, <1>5, SlotReturned
<1>7. \A q \in Sids : Gets(q)' = Gets(q)
  <2>1. \A q \in ReqSlots : req'[q].kind = req[q].kind /\ req'[q].sid = req[q].sid
    <3> TAKE q \in ReqSlots
    <3>1. CASE q = r
      BY <1>4, <1>5, <3>1
    <3>2. CASE q # r
      BY <1>5, <3>2
    <3> QED BY <3>1, <3>2
  <2> QED BY <2>1 DEF Gets
<1>8. \A q \in Sids : SessionGood(q)'
  BY <1>1, <1>2, <1>7, SessionSame
<1> QED BY <1>1, <1>2, <1>6, <1>8, HttpStep

LEMMA HttpCloses == ASSUME HttpInv, NEW r \in ReqSlots, ResponseCloses(r) PROVE HttpInv'
<1>1. /\ sessions \in [Sids -> SessionRows] /\ left \subseteq Sids
      /\ transport \in [Sids -> {"none", "connecting", "answered", "live"}]
      /\ stream \in [Sids -> ReqSlots \cup {NoSlot}]
      /\ req \in [ReqSlots -> Request \cup {NoReq}] /\ \A q \in Sids : SessionGood(q)
  BY HttpMaps, SessionsGood DEF HttpInv
<1>2. PICK s \in Sids : req[r].sid = s /\ req[r] \in Request /\ r \in InFlight
  BY HttpTypes DEF ResponseCloses, InFlight, Request
<1>3. /\ active' = SlotBack(r) /\ req' = [req EXCEPT ![r] = NoReq]
      /\ sessions' = IF req[r].kind = "get" THEN CountedDown(s) ELSE sessions
      /\ stream' = IF stream[s] = r THEN [stream EXCEPT ![s] = NoSlot] ELSE stream
      /\ transport' = transport /\ left' = left
  BY <1>2 DEF ResponseCloses
<1>4. /\ req' \in [ReqSlots -> Request \cup {NoReq}] /\ req'[r] = NoReq
      /\ \A q \in ReqSlots \ {r} : req'[q] = req[q]
  BY <1>1, <1>3
<1>5. RequestsGood'
  BY <1>2, <1>3, <1>4, SlotReturned
<1>6. \A q \in Sids \ {s} : Gets(q)' = Gets(q)
  BY <1>2, <1>4 DEF Gets, NoReq
<1>7. Gets(s)' = Gets(s) \ {r}
  BY <1>2, <1>4 DEF Gets, NoReq
<1>8. \A q \in Sids \ {s} : sessions'[q] = sessions[q] /\ stream'[q] = stream[q]
  BY <1>1, <1>3 DEF CountedDown
<1>9. stream' \in [Sids -> ReqSlots \cup {NoSlot}] /\ sessions' = [q \in Sids |-> sessions'[q]]
  BY <1>1, <1>3 DEF CountedDown
<1>10. StreamOpen(s)' => stream'[s] \in Gets(s)'
  BY <1>1, <1>3, <1>7 DEF SessionGood, StreamOpen
<1>11. \/ sessions'[s] = NoSession
       \/ /\ sessions'[s] \in [held : {TRUE}, idle : BOOLEAN, gets : Nat]
          /\ sessions'[s].gets = Cardinality(Gets(s)') /\ transport'[s] = "live"
  <2>1. CASE r \notin Gets(s)
    <3>1. req[r].kind # "get" /\ Gets(s)' = Gets(s)
      BY <1>2, <1>7, <2>1 DEF Gets
    <3> QED BY <1>1, <1>3, <3>1 DEF SessionGood
  <2>2. CASE r \in Gets(s)
    <3>1. req[r].kind = "get" /\ sessions' = CountedDown(s)
      BY <1>3, <2>2 DEF Gets
    <3>2. CASE sessions[s] = NoSession
      <4>1. sessions[s].gets = 0
        BY <3>2 DEF NoSession
      <4> QED BY <3>1, <3>2, <4>1 DEF CountedDown
    <3>3. CASE sessions[s] # NoSession
      <4>1. /\ sessions[s] \in [held : {TRUE}, idle : BOOLEAN, gets : Nat]
            /\ sessions[s].gets = Cardinality(Gets(s)) /\ transport[s] = "live"
        BY <1>1, <3>3 DEF SessionGood
      <4>2. Cardinality(Gets(s)') = Cardinality(Gets(s)) - 1 /\ Cardinality(Gets(s)') \in Nat
            /\ Cardinality(Gets(s)) \in Nat
        <5>1. Gets(s) \in SUBSET ReqSlots /\ Gets(s) \ {r} \in SUBSET ReqSlots
          BY DEF Gets
        <5> QED BY <1>7, <2>2, <5>1, RequestSets
      <4>3. sessions[s].gets # 0 /\ sessions[s].gets - 1 \in Nat
        BY <4>1, <4>2
      <4>4. sessions'[s] = [sessions[s] EXCEPT !.gets = sessions[s].gets - 1]
        BY <1>1, <3>1, <4>3 DEF CountedDown
      <4> QED BY <1>3, <4>1, <4>2, <4>3, <4>4
    <3> QED BY <3>2, <3>3
  <2> QED BY <2>1, <2>2
<1>12. transport'[s] \in {"connecting", "answered"} => Gets(s)' = {}
  BY <1>1, <1>3, <1>7 DEF SessionGood
<1>13. SessionGood(s)'
  BY <1>10, <1>11, <1>12 DEF SessionGood
<1>14. \A q \in Sids \ {s} : SessionGood(q)'
  BY <1>1, <1>3, <1>6, <1>8, SessionSame
<1> QED BY <1>1, <1>3, <1>5, <1>9, <1>13, <1>14, HttpStep

LEMMA HttpInvStep == HttpInv /\ [HttpNext]_httpVars => HttpInv'
<1> SUFFICES ASSUME HttpInv, [HttpNext]_httpVars PROVE HttpInv'
  OBVIOUS
<1>1. CASE UNCHANGED httpVars
  BY <1>1 DEF httpVars, HttpInv, HttpTypeOK, SlotsAccounted, Unanswered, InFlight, GetsCounted,
     NoEarlyGets, StreamIsGet, Gets, StreamOpen
<1>2. ASSUME NEW s \in Sids, NEW r \in ReqSlots, InitArrives(r, s) \/ PostArrives(r, s) \/ GetArrives(r, s)
      PROVE  HttpInv'
  BY <1>2, HttpRequests
<1>3. ASSUME NEW s \in Sids, InitAnswered(s) \/ InitRegistered(s) \/ ClientLeaves(s) \/ IdleElapses(s)
      PROVE  HttpInv'
  BY <1>3, HttpInits
<1>4. ASSUME NEW s \in Sids, Delete(s) \/ Reap(s) PROVE HttpInv'
  BY <1>4, HttpEnds
<1>5. ASSUME NEW r \in ReqSlots, Finishes(r) \/ ResponseCloses(r) PROVE HttpInv'
  BY <1>5, HttpFinishes, HttpCloses
<1> QED BY <1>1, <1>2, <1>3, <1>4, <1>5 DEF HttpNext

\* A session that leaves the map with an open stream is deleted by its client: the
\* reaper asks for no stream, and the count it reads is exact.
LEMMA ReaperStep ==
  ASSUME HttpInv, [HttpNext]_httpVars, NEW s \in Sids, sessions[s].held, StreamOpen(s)
  PROVE  sessions'[s].held \/ Delete(s)
<1>1. /\ sessions \in [Sids -> SessionRows] /\ SessionGood(s)
      /\ sessions[s] \in [held : {TRUE}, idle : BOOLEAN, gets : Nat]
      /\ sessions[s].gets = Cardinality(Gets(s))
  BY HttpMaps, SessionsGood, HeldSession
<1>2. sessions[s].gets # 0
  <2>1. stream[s] \in Gets(s) /\ Gets(s) \in SUBSET ReqSlots
    BY <1>1 DEF SessionGood, Gets
  <2>2. Cardinality(Gets(s) \ {stream[s]}) = Cardinality(Gets(s)) - 1
    BY <2>1, RequestSets
  <2>3. Cardinality(Gets(s) \ {stream[s]}) \in Nat
    <3>1. Gets(s) \ {stream[s]} \in SUBSET ReqSlots
      BY <2>1
    <3> QED BY <3>1, RequestSets
  <2> QED BY <1>1, <2>2, <2>3
<1>3. ASSUME NEW q \in Sids, NEW r \in ReqSlots, InitArrives(r, q) \/ PostArrives(r, q) \/ GetArrives(r, q)
      PROVE  sessions'[s].held
  <2>1. \/ sessions' = sessions \/ sessions' = [sessions EXCEPT ![q].idle = FALSE]
        \/ sessions' = [sessions EXCEPT ![q].idle = FALSE, ![q].gets = @ + 1]
    BY <1>3 DEF InitArrives, PostArrives, GetArrives
  <2> QED BY <1>1, <2>1
<1>4. ASSUME NEW q \in Sids, InitAnswered(q) \/ InitRegistered(q) \/ ClientLeaves(q) \/ IdleElapses(q)
      PROVE  sessions'[s].held
  <2>1. \/ sessions' = sessions \/ sessions' = [sessions EXCEPT ![q].idle = TRUE]
        \/ sessions' = [sessions EXCEPT ![q] = [held |-> TRUE, idle |-> FALSE, gets |-> 0]]
    BY <1>4 DEF InitAnswered, InitRegistered, ClientLeaves, IdleElapses
  <2> QED BY <1>1, <2>1
<1>5. ASSUME NEW q \in Sids, Delete(q) \/ Reap(q) PROVE sessions'[s].held \/ Delete(s)
  <2>1. CASE q # s
    <3>1. sessions' = [sessions EXCEPT ![q] = NoSession]
      BY <1>5 DEF Delete, Reap, SessionGone
    <3> QED BY <1>1, <2>1, <3>1
  <2>2. CASE q = s
    BY <1>2, <1>5, <2>2 DEF Reap, Reapable
  <2> QED BY <2>1, <2>2
<1>6. ASSUME NEW r \in ReqSlots, Finishes(r) \/ ResponseCloses(r) PROVE sessions'[s].held
  <2>1. sessions' = sessions \/ sessions' = CountedDown(req[r].sid)
    BY <1>6 DEF Finishes, ResponseCloses
  <2> QED BY <1>1, <2>1 DEF CountedDown
<1>7. CASE UNCHANGED httpVars
  BY <1>7 DEF httpVars
<1> QED BY <1>3, <1>4, <1>5, <1>6, <1>7 DEF HttpNext

\* The invariant holds in every state.
THEOREM SessionInvariant == HttpSpec => []HttpInv
BY HttpInitInv, HttpInvStep, PTL DEF HttpSpec

\* The promises of the session map: types, slots given back once, and a reaper that
\* spares a session with an open stream.
THEOREM SessionsAreAccounted == HttpSpec => SessionsAccounted
<1>1. HttpInv => HttpTypeOK /\ SlotsAccounted
  BY DEF HttpInv
<1>2. HttpInv /\ [HttpNext]_httpVars =>
        [\A s \in Sids : sessions[s].held /\ StreamOpen(s) => sessions'[s].held \/ Delete(s)]_httpVars
  BY ReaperStep
<1>3. HttpSpec => ReaperSparesStreams
  BY SessionInvariant, <1>2, PTL DEF HttpSpec, ReaperSparesStreams
<1> QED BY SessionInvariant, <1>1, <1>3, PTL DEF SessionsAccounted




-----------------------------------------------------------------------------
(* One delivery.  What a redirect pins is judged before anything is sent to  *)
(* it: only a pinned delivery has addresses to try, all of them public       *)
(* (PinnedPublic), and a request is in flight only in the phases that read   *)
(* one (WireInPhase).                                                        *)

PinRow == [phase : {"none", "judge", "pinned", "sent", "settled", DeliveryOver},
           host : PubHosts \cup {"none"}, ips : SUBSET Ips, hop : 0 .. MaxRedirects,
           tried : 0 .. MaxIpAttempts]

WireRow == [to : Ips \cup {"none"}, events : SUBSET Events, settled : Events \cup {"none"}]

DelRecords == resolves \in [PubHosts -> SUBSET Ips] /\ pin \in PinRow /\ wire \in WireRow

\* The addresses still to try are public, and there is one more try for one of them.
PinnedPublic ==
  /\ pin.phase = "judge" => pin.host \in PubHosts
  /\ pin.phase \in {"pinned", "sent", "settled"} => pin.ips \cap PrivateIps = {}
  /\ pin.phase = "pinned" => pin.tried < MaxIpAttempts
  /\ pin.phase \in {"none", "judge"} => pin.tried = 0

WireInPhase ==
  /\ pin.phase \notin {"sent", "settled"} => wire = NoWire
  /\ pin.phase = "sent" => wire.settled = "none"

SendsCounted == sends \in Nat /\ sends <= pin.hop * MaxIpAttempts + pin.tried

DelInv == DelRecords /\ PinnedPublic /\ WireInPhase /\ SendsCounted /\ OnlyPublic

LEMMA DelInitInv == DelInit => DelInv
<1> SUFFICES ASSUME DelInit PROVE DelInv
  OBVIOUS
<1>1. pin = NotSent /\ wire = NoWire /\ sends = 0 /\ resolves \in [PubHosts -> SUBSET Ips]
  BY DEF DelInit
<1>2. NotSent \in PinRow /\ NoWire \in WireRow
  BY DeliveryBounds DEF NotSent, PinRow, NoWire, WireRow
<1>3. SendsCounted
  BY <1>1, DeliveryBounds DEF SendsCounted, NotSent
<1>4. PinnedPublic /\ WireInPhase /\ OnlyPublic
  BY <1>1, DeliveryBounds DEF PinnedPublic, WireInPhase, OnlyPublic, NotSent, NoWire
<1> QED BY <1>1, <1>2, <1>3, <1>4 DEF DelInv, DelRecords

\* The fields of the delivery and of its request.
LEMMA DelFields ==
  ASSUME DelInv
  PROVE  /\ pin = [phase |-> pin.phase, host |-> pin.host, ips |-> pin.ips, hop |-> pin.hop, tried |-> pin.tried]
         /\ wire = [to |-> wire.to, events |-> wire.events, settled |-> wire.settled]
         /\ pin.phase \in {"none", "judge", "pinned", "sent", "settled", DeliveryOver}
         /\ pin.host \in PubHosts \cup {"none"} /\ pin.ips \in SUBSET Ips
         /\ pin.hop \in Nat /\ pin.hop <= MaxRedirects /\ pin.tried \in Nat /\ pin.tried <= MaxIpAttempts
         /\ wire.to \in Ips \cup {"none"} /\ wire.events \in SUBSET Events
         /\ wire.settled \in Events \cup {"none"}
<1>1. pin \in PinRow /\ wire \in WireRow
  BY DEF DelInv, DelRecords
<1>2. pin.hop \in 0 .. MaxRedirects /\ pin.tried \in 0 .. MaxIpAttempts
  BY <1>1 DEF PinRow
<1>3. pin.hop \in Nat /\ pin.hop <= MaxRedirects /\ pin.tried \in Nat /\ pin.tried <= MaxIpAttempts
  BY <1>2, DeliveryBounds
<1> QED BY <1>1, <1>3 DEF PinRow, WireRow

\* A delivery's row is one of the set when its fields are.
LEMMA PinMade ==
  ASSUME NEW ph \in {"none", "judge", "pinned", "sent", "settled", DeliveryOver},
         NEW host \in PubHosts \cup {"none"}, NEW ips \in SUBSET Ips,
         NEW hop \in Nat, hop <= MaxRedirects, NEW tried \in Nat, tried <= MaxIpAttempts
  PROVE  [phase |-> ph, host |-> host, ips |-> ips, hop |-> hop, tried |-> tried] \in PinRow
<1>1. hop \in 0 .. MaxRedirects /\ tried \in 0 .. MaxIpAttempts
  BY DeliveryBounds
<1> QED BY <1>1 DEF PinRow

LEMMA DelInvStep == DelInv /\ [DelNext]_delVars => DelInv'
<1> SUFFICES ASSUME DelInv, [DelNext]_delVars PROVE DelInv'
  OBVIOUS
<1>1. /\ DelRecords /\ PinnedPublic /\ WireInPhase /\ SendsCounted /\ OnlyPublic
      /\ resolves \in [PubHosts -> SUBSET Ips] /\ wire \in WireRow
  BY DEF DelInv, DelRecords
<1>2. NoWire \in WireRow /\ NoWire.to = "none" /\ NoWire.settled = "none" /\ "none" \notin PrivateIps
  BY DeliveryBounds DEF NoWire, WireRow
<1>3. /\ pin = [phase |-> pin.phase, host |-> pin.host, ips |-> pin.ips, hop |-> pin.hop, tried |-> pin.tried]
      /\ pin.hop \in Nat /\ pin.hop <= MaxRedirects /\ pin.tried \in Nat /\ pin.tried <= MaxIpAttempts
      /\ pin.ips \in SUBSET Ips /\ pin.host \in PubHosts \cup {"none"}
      /\ MaxIpAttempts \in Nat \ {0} /\ MaxRedirects \in Nat
  BY DelFields, DeliveryBounds
<1>4. CASE UNCHANGED delVars
  BY <1>1, <1>4 DEF delVars, DelInv, DelRecords, PinnedPublic, WireInPhase, SendsCounted, OnlyPublic
<1>5. ASSUME NEW h \in PubHosts, Post(h) PROVE DelInv'
  <2>1. /\ pin = NotSent /\ pin' = [NotSent EXCEPT !.phase = "judge", !.host = h]
        /\ resolves' = resolves /\ wire' = wire /\ sends' = sends
    BY <1>5 DEF Post
  <2>2. pin' = [phase |-> "judge", host |-> h, ips |-> {}, hop |-> 0, tried |-> 0]
    BY <2>1 DEF NotSent
  <2>3. pin.hop = 0 /\ pin.tried = 0 /\ pin.phase = "none"
    BY <2>1 DEF NotSent
  <2>4. pin' \in PinRow
    BY <2>2, <1>3, PinMade
  <2> QED BY <1>1, <1>3, <2>1, <2>2, <2>3, <2>4 DEF DelInv, DelRecords, PinnedPublic, WireInPhase, SendsCounted, OnlyPublic, DeliveryOver
<1>6. CASE Judge
  <2>1. /\ pin.phase = "judge" /\ resolves' = resolves /\ wire' = wire /\ sends' = sends
        /\ pin' = IF Accepted(resolves[pin.host])
                  THEN [pin EXCEPT !.phase = "pinned", !.ips = resolves[pin.host], !.tried = 0]
                  ELSE [pin EXCEPT !.phase = DeliveryOver]
    BY <1>6 DEF Judge
  <2>2. pin.tried = 0 /\ wire = NoWire /\ resolves[pin.host] \in SUBSET Ips
    BY <1>1, <2>1 DEF PinnedPublic, WireInPhase, DeliveryOver
  <2>3. CASE Accepted(resolves[pin.host])
    <3>1. pin' = [phase |-> "pinned", host |-> pin.host, ips |-> resolves[pin.host], hop |-> pin.hop, tried |-> 0]
      BY <1>3, <2>1, <2>3
    <3>2. pin' \in PinRow
      BY <1>3, <2>2, <3>1, PinMade
    <3>3. pin'.ips \cap PrivateIps = {} /\ pin'.phase = "pinned" /\ pin'.tried = 0 /\ pin'.hop = pin.hop
      BY <2>3, <3>1 DEF Accepted
    <3> QED BY <1>1, <1>2, <1>3, <2>1, <2>2, <3>2, <3>3 DEF DelInv, DelRecords, PinnedPublic, WireInPhase, SendsCounted, OnlyPublic
  <2>4. CASE ~Accepted(resolves[pin.host])
    <3>1. pin' = [phase |-> DeliveryOver, host |-> pin.host, ips |-> pin.ips, hop |-> pin.hop, tried |-> pin.tried]
      BY <1>3, <2>1, <2>4
    <3>2. pin' \in PinRow
      BY <1>3, <3>1, PinMade
    <3>3. /\ pin'.phase = DeliveryOver /\ pin'.hop = pin.hop /\ pin'.tried = pin.tried
      BY <3>1
    <3>4. resolves' = resolves /\ wire' = wire /\ sends' = sends
      BY <1>6 DEF Judge
    <3> QED BY <1>1, <2>2, <3>2, <3>3, <3>4 DEF DelInv, DelRecords, PinnedPublic, WireInPhase, SendsCounted, OnlyPublic, DeliveryOver
  <2> QED BY <2>3, <2>4
<1>7. CASE Send
  <2>1. PICK ip \in pin.ips :
          /\ wire' = [to |-> ip, events |-> {}, settled |-> "none"]
          /\ pin' = [pin EXCEPT !.phase = "sent", !.ips = @ \ {ip}, !.tried = @ + 1]
    BY <1>7 DEF Send, Pinned
  <2>2. pin.phase = "pinned" /\ sends' = sends + 1 /\ resolves' = resolves
    BY <1>7 DEF Send
  <2>3. pin' = [phase |-> "sent", host |-> pin.host, ips |-> pin.ips \ {ip}, hop |-> pin.hop, tried |-> pin.tried + 1]
    BY <1>3, <2>1
  <2>4. pin.ips \cap PrivateIps = {} /\ pin.tried < MaxIpAttempts
    BY <1>1, <2>2 DEF PinnedPublic
  <2>5. pin.tried + 1 \in Nat /\ pin.tried + 1 <= MaxIpAttempts /\ pin.ips \ {ip} \in SUBSET Ips
    BY <1>3, <2>4
  <2>6. pin' \in PinRow
    BY <1>3, <2>3, <2>5, PinMade
  <2>7. wire' \in WireRow /\ wire'.to \notin PrivateIps /\ wire'.settled = "none"
    BY <1>3, <2>1, <2>4 DEF WireRow
  <2>8. SendsCounted'
    <3>1. pin.hop * MaxIpAttempts \in Nat /\ pin'.hop = pin.hop /\ pin'.tried = pin.tried + 1
      BY <1>3, <2>3
    <3> QED BY <1>1, <1>3, <2>2, <3>1 DEF SendsCounted
  <2> QED BY <1>1, <2>2, <2>3, <2>4, <2>6, <2>7, <2>8 DEF DelInv, DelRecords, PinnedPublic, WireInPhase, OnlyPublic
<1>8. ASSUME NEW e \in Events, Happens(e) PROVE DelInv'
  <2>1. /\ pin.phase \in {"sent", "settled"} /\ resolves' = resolves /\ sends' = sends
        /\ wire' = [wire EXCEPT !.events = @ \cup {e}, !.settled = IF Counts(e) THEN e ELSE @]
        /\ pin' = [pin EXCEPT !.phase = IF Counts(e) THEN "settled" ELSE @]
    BY <1>8 DEF Happens
  <2>2. pin' = [phase |-> IF Counts(e) THEN "settled" ELSE pin.phase, host |-> pin.host, ips |-> pin.ips,
                hop |-> pin.hop, tried |-> pin.tried]
    BY <1>3, <2>1
  <2>3. pin' \in PinRow
    <3>1. (IF Counts(e) THEN "settled" ELSE pin.phase) \in {"sent", "settled"}
      BY <2>1
    <3> QED BY <1>3, <2>2, <3>1, PinMade
  <2>4. wire' \in WireRow /\ wire'.to = wire.to
    BY <1>1, <2>1 DEF WireRow
  <2>5. wire'.settled = IF Counts(e) THEN e ELSE wire.settled
    BY <1>1, <2>1 DEF WireRow
  <2>6. pin'.phase = "sent" => wire'.settled = "none"
    BY <1>1, <2>1, <2>2, <2>5 DEF WireInPhase
  <2>7. pin'.phase \in {"sent", "settled"} /\ pin'.ips = pin.ips /\ pin'.hop = pin.hop /\ pin'.tried = pin.tried
    BY <2>1, <2>2
  <2> QED BY <1>1, <2>1, <2>3, <2>4, <2>6, <2>7 DEF DelInv, DelRecords, PinnedPublic, WireInPhase, SendsCounted, OnlyPublic
<1>9. CASE NextAddress
  <2>1. /\ pin.phase = "settled" /\ wire' = NoWire /\ resolves' = resolves /\ sends' = sends
        /\ pin' = [pin EXCEPT !.phase = IF pin.ips # {} /\ pin.tried < MaxIpAttempts
                                        THEN "pinned" ELSE DeliveryOver]
    BY <1>9 DEF NextAddress
  <2>2. pin' = [phase |-> IF pin.ips # {} /\ pin.tried < MaxIpAttempts THEN "pinned" ELSE DeliveryOver,
                host |-> pin.host, ips |-> pin.ips, hop |-> pin.hop, tried |-> pin.tried]
    BY <1>3, <2>1
  <2>3. pin' \in PinRow
    BY <1>3, <2>2, PinMade
  <2>4. /\ pin'.phase \in {"pinned", DeliveryOver} /\ (pin'.phase = "pinned" => pin.tried < MaxIpAttempts)
        /\ pin'.ips = pin.ips /\ pin'.hop = pin.hop /\ pin'.tried = pin.tried
    BY <2>2 DEF DeliveryOver
  <2> QED BY <1>1, <1>2, <2>1, <2>3, <2>4 DEF DelInv, DelRecords, PinnedPublic, WireInPhase, SendsCounted, OnlyPublic, DeliveryOver
<1>10. ASSUME NEW h \in PubHosts, FollowRedirect(h) PROVE DelInv'
  <2>1. /\ pin.phase = "settled" /\ wire' = NoWire /\ resolves' = resolves /\ sends' = sends
        /\ pin' = IF pin.hop = MaxRedirects THEN [pin EXCEPT !.phase = DeliveryOver]
                  ELSE [phase |-> "judge", host |-> h, ips |-> resolves[h], hop |-> pin.hop + 1, tried |-> 0]
    BY <1>10 DEF FollowRedirect, LastHop, AfterRedirect
  <2>2. CASE pin.hop = MaxRedirects
    <3>1. pin' = [phase |-> DeliveryOver, host |-> pin.host, ips |-> pin.ips, hop |-> pin.hop, tried |-> pin.tried]
      BY <1>3, <2>1, <2>2
    <3>2. pin' \in PinRow
      BY <1>3, <3>1, PinMade
    <3> QED BY <1>1, <1>2, <2>1, <3>1, <3>2 DEF DelInv, DelRecords, PinnedPublic, WireInPhase, SendsCounted, OnlyPublic, DeliveryOver
  <2>3. CASE pin.hop # MaxRedirects
    <3>1. pin' = [phase |-> "judge", host |-> h, ips |-> resolves[h], hop |-> pin.hop + 1, tried |-> 0]
      BY <2>1, <2>3
    <3>2. pin.hop + 1 \in Nat /\ pin.hop + 1 <= MaxRedirects
      BY <1>3, <2>3
    <3>3. pin' \in PinRow
      BY <1>1, <1>3, <3>1, <3>2, PinMade
    <3>4. SendsCounted'
      <4>1. /\ (pin.hop + 1) * MaxIpAttempts = pin.hop * MaxIpAttempts + MaxIpAttempts
            /\ pin.hop * MaxIpAttempts \in Nat
        BY <1>3
      <4> QED BY <1>1, <1>3, <2>1, <3>1, <4>1 DEF SendsCounted
    <3> QED BY <1>1, <1>2, <2>1, <3>1, <3>3, <3>4
            DEF DelInv, DelRecords, PinnedPublic, WireInPhase, OnlyPublic, DeliveryOver
  <2> QED BY <2>2, <2>3
<1>11. CASE Finish
  <2>1. /\ pin' = [pin EXCEPT !.phase = DeliveryOver] /\ wire' = NoWire
        /\ resolves' = resolves /\ sends' = sends
    BY <1>11 DEF Finish
  <2>2. pin' = [phase |-> DeliveryOver, host |-> pin.host, ips |-> pin.ips, hop |-> pin.hop, tried |-> pin.tried]
    BY <1>3, <2>1
  <2>3. pin' \in PinRow
    BY <1>3, <2>2, PinMade
  <2> QED BY <1>1, <1>2, <2>1, <2>2, <2>3 DEF DelInv, DelRecords, PinnedPublic, WireInPhase, SendsCounted, OnlyPublic, DeliveryOver
<1>12. ASSUME NEW h \in PubHosts, NEW ips \in SUBSET Ips, Resolve(h, ips) PROVE DelInv'
  <2>1. resolves' = [resolves EXCEPT ![h] = ips] /\ pin' = pin /\ wire' = wire /\ sends' = sends
    BY <1>12 DEF Resolve
  <2> QED BY <1>1, <2>1 DEF DelInv, DelRecords, PinnedPublic, WireInPhase, SendsCounted, OnlyPublic
<1> QED BY <1>4, <1>5, <1>6, <1>7, <1>8, <1>9, <1>10, <1>11, <1>12 DEF DelNext, DelStep

\* A request that is settled keeps what settled it until its reader has acted.
LEMMA SettledStep ==
  ASSUME DelInv, [DelNext]_delVars, wire.settled # "none"
  PROVE  wire'.settled = wire.settled \/ wire' = NoWire
<1>1. wire \in WireRow /\ pin.phase = "settled"
  BY DelFields DEF DelInv, DelRecords, WireInPhase, NoWire
<1>2. ASSUME NEW e \in Events, Happens(e) PROVE wire'.settled = wire.settled
  <2>1. wire' = [wire EXCEPT !.events = @ \cup {e}, !.settled = IF Counts(e) THEN e ELSE @] /\ ~Counts(e)
    BY <1>2 DEF Happens, Counts
  <2> QED BY <1>1, <2>1 DEF WireRow
<1>3. CASE UNCHANGED delVars
  BY <1>3 DEF delVars
<1>4. CASE Judge \/ Send
  BY <1>1, <1>4 DEF Judge, Send
<1>5. ASSUME NEW h \in PubHosts, Post(h) PROVE wire' = wire
  BY <1>5 DEF Post
<1>6. CASE NextAddress \/ Finish \/ \E h \in PubHosts : FollowRedirect(h)
  BY <1>6 DEF NextAddress, Finish, FollowRedirect
<1>7. ASSUME NEW h \in PubHosts, NEW ips \in SUBSET Ips, Resolve(h, ips) PROVE wire' = wire
  BY <1>7 DEF Resolve
<1> QED BY <1>2, <1>3, <1>4, <1>5, <1>6, <1>7 DEF DelNext, DelStep

\* The types and the bound on requests follow from the invariant.
LEMMA DelTyped == DelInv => DelTypeOK
<1> SUFFICES ASSUME DelInv PROVE DelTypeOK
  OBVIOUS
<1>1. sends \in 0 .. (MaxRedirects + 1) * MaxIpAttempts
  <2>1. /\ sends \in Nat /\ sends <= pin.hop * MaxIpAttempts + pin.tried
        /\ pin.hop \in Nat /\ pin.hop <= MaxRedirects /\ pin.tried \in Nat /\ pin.tried <= MaxIpAttempts
        /\ MaxRedirects \in Nat /\ MaxIpAttempts \in Nat
    BY DelFields, DeliveryBounds DEF DelInv, SendsCounted
  <2>2. pin.hop * MaxIpAttempts <= MaxRedirects * MaxIpAttempts
    BY <2>1
  <2>3. (MaxRedirects + 1) * MaxIpAttempts = MaxRedirects * MaxIpAttempts + MaxIpAttempts
    BY <2>1
  <2>4. pin.hop * MaxIpAttempts \in Nat /\ MaxRedirects * MaxIpAttempts \in Nat
    BY <2>1
  <2> QED BY <2>1, <2>2, <2>3, <2>4
<1>2. pin.hop \in 0 .. MaxRedirects
  BY DelFields, DeliveryBounds
<1> QED BY <1>1, <1>2, DelFields DEF DelTypeOK, DelInv, DelRecords

\* The invariant holds in every state.
THEOREM DeliveryInvariant == DelSpec => []DelInv
BY DelInitInv, DelInvStep, PTL DEF DelSpec

\* The promises of one POST: a bounded number of requests, none to an address in a
\* blocked range, each settled once.
THEOREM DeliveryPinned == DelSpec => DeliveryIsPinned
<1>1. DelInv => DelTypeOK /\ OnlyPublic
  BY DelTyped DEF DelInv
<1>2. DelInv /\ [DelNext]_delVars =>
        [wire.settled # "none" => wire'.settled = wire.settled \/ wire' = NoWire]_delVars
  BY SettledStep
<1>3. DelSpec => SettlesOnce
  BY DeliveryInvariant, <1>2, PTL DEF DelSpec, SettlesOnce
<1> QED BY DeliveryInvariant, <1>1, <1>3, PTL DEF DeliveryIsPinned


-----------------------------------------------------------------------------
(* The push channel.  BaselineTrue is inductive: whatever takes a page out of *)
(* what was pushed (a connection, a failed write) voids the baseline, and a   *)
(* tick records a state only when every page still open was queued it.        *)

\* What a page will have heard does not change when a frame lands, and is the last frame queued.
LEMMA HeardOf ==
  ASSUME NEW q \in Seq(States)
  PROVE  /\ q # <<>> => /\ Tail(q) \in Seq(States) /\ Head(q) \in States /\ Len(Tail(q)) = Len(q) - 1
                        /\ Last(q) = IF Tail(q) = <<>> THEN Head(q) ELSE Last(Tail(q))
         /\ \A s \in States : /\ Append(q, s) \in Seq(States) /\ Append(q, s) # <<>>
                              /\ Last(Append(q, s)) = s /\ Len(Append(q, s)) = Len(q) + 1
<1>1. ASSUME q # <<>>
      PROVE  /\ Tail(q) \in Seq(States) /\ Head(q) \in States /\ Len(Tail(q)) = Len(q) - 1
             /\ Last(q) = IF Tail(q) = <<>> THEN Head(q) ELSE Last(Tail(q))
  <2>1. Tail(q) \in Seq(States) /\ Head(q) \in States /\ Len(Tail(q)) = Len(q) - 1 /\ Len(q) \in Nat \ {0}
    BY <1>1
  <2>2. CASE Tail(q) = <<>>
    <3>1. Len(q) = 1
      BY <2>1, <2>2
    <3> QED BY <2>1, <2>2, <3>1 DEF Last
  <2>3. CASE Tail(q) # <<>>
    <3>1. Len(Tail(q)) \in Nat \ {0}
      BY <2>1, <2>3
    <3>2. Tail(q)[Len(q) - 1] = q[Len(q)]
      BY <1>1, <2>1, <3>1
    <3> QED BY <2>1, <2>3, <3>2 DEF Last
  <2> QED BY <2>1, <2>2, <2>3
<1>2. ASSUME NEW s \in States
      PROVE  /\ Append(q, s) \in Seq(States) /\ Append(q, s) # <<>>
             /\ Last(Append(q, s)) = s /\ Len(Append(q, s)) = Len(q) + 1
  BY DEF Last
<1> QED BY <1>1, <1>2

LEMMA DashInitInv == DashInit => BaselineTrue
<1> SUFFICES ASSUME DashInit PROVE BaselineTrue
  OBVIOUS
<1>1. <<>> \in Seq(States) /\ Len(<<>>) = 0 /\ Len(<<>>) <= MaxQueued /\ 0 \in 0 .. MaxWriteFaults
  BY DashboardBounds
<1> QED BY <1>1 DEF DashInit, BaselineTrue, DashTypeOK, BaselineWasPushed, Sockets, Unsaid

LEMMA DashStep == BaselineTrue /\ [DashNext]_dashVars => BaselineTrue'
<1> SUFFICES ASSUME BaselineTrue, [DashNext]_dashVars PROVE BaselineTrue'
  OBVIOUS
<1>1. /\ current \in States /\ conn \in [PageIds -> Sockets] /\ frames \in [PageIds -> Seq(States)]
      /\ lastPush \in [PageIds -> States \cup {Unsaid}]
      /\ \A c \in PageIds : conn[c] = "none" => frames[c] = <<>> /\ lastPush[c] = Unsaid
      /\ \A c \in PageIds : Len(frames[c]) <= MaxQueued
      /\ baseline \in States \cup {Unsaid} /\ voided \in BOOLEAN /\ limited \in BOOLEAN
      /\ writeFaults \in 0 .. MaxWriteFaults /\ BaselineWasPushed /\ Unsaid \notin States
      /\ MaxQueued \in Nat \ {0} /\ MaxWriteFaults \in Nat
  BY DashboardBounds DEF BaselineTrue, DashTypeOK, Unsaid
<1>2. <<>> \in Seq(States) /\ Len(<<>>) = 0
  OBVIOUS
<1>3. CASE UNCHANGED dashVars
  BY <1>3 DEF dashVars, BaselineTrue, DashTypeOK, BaselineWasPushed, OpenPages, Heard
<1>4. ASSUME NEW c \in PageIds, Connect(c) PROVE BaselineTrue'
  BY <1>1, <1>4 DEF Connect, VoidedByConnect, BaselineTrue, DashTypeOK, BaselineWasPushed, Sockets
<1>5. ASSUME NEW c \in PageIds, StartsClosing(c) PROVE BaselineTrue'
  <2>1. \A d \in PageIds : conn'[d] = "open" => conn[d] = "open"
    BY <1>1, <1>5 DEF StartsClosing, Sockets
  <2>2. BaselineWasPushed'
    BY <1>1, <1>5, <2>1 DEF StartsClosing, BaselineWasPushed, OpenPages, Heard
  <2> QED BY <1>1, <1>5, <2>2 DEF StartsClosing, BaselineTrue, DashTypeOK, Sockets
<1>6. ASSUME NEW c \in PageIds, Dropped({c}), frames' = Emptied(c)
      PROVE  /\ conn' \in [PageIds -> Sockets] /\ frames' \in [PageIds -> Seq(States)]
             /\ lastPush' \in [PageIds -> States \cup {Unsaid}]
             /\ \A d \in PageIds : conn'[d] = "none" => frames'[d] = <<>> /\ lastPush'[d] = Unsaid
             /\ \A d \in PageIds : Len(frames'[d]) <= MaxQueued
             /\ \A d \in PageIds : conn'[d] = "open" =>
                  conn[d] = "open" /\ frames'[d] = frames[d] /\ lastPush'[d] = lastPush[d]
  BY <1>1, <1>2, <1>6 DEF Dropped, Emptied, Sockets
<1>7. ASSUME NEW c \in PageIds, SocketCloses(c) PROVE BaselineTrue'
  <2>1. Dropped({c}) /\ frames' = Emptied(c) /\ UNCHANGED <<current, baseline, voided, limited, writeFaults>>
    BY <1>7 DEF SocketCloses
  <2>2. BaselineWasPushed'
    BY <1>1, <1>6, <2>1 DEF BaselineWasPushed, OpenPages, Heard
  <2> QED BY <1>1, <1>6, <2>1, <2>2 DEF BaselineTrue, DashTypeOK
<1>8. ASSUME NEW c \in PageIds, WriteFails(c) PROVE BaselineTrue'
  <2>1. /\ Dropped({c}) /\ frames' = Emptied(c) /\ UNCHANGED <<current, baseline, limited>>
        /\ voided' = TRUE /\ writeFaults' = writeFaults + 1 /\ writeFaults < MaxWriteFaults
    BY <1>8 DEF WriteFails
  <2>2. writeFaults' \in 0 .. MaxWriteFaults
    BY <1>1, <2>1
  <2> QED BY <1>1, <1>6, <2>1, <2>2 DEF BaselineTrue, DashTypeOK, BaselineWasPushed
<1>9. ASSUME NEW c \in PageIds, FrameLands(c) PROVE BaselineTrue'
  <2>1. /\ frames[c] # <<>> /\ conn[c] = "open" /\ conn' = conn
        /\ lastPush' = [lastPush EXCEPT ![c] = Head(frames[c])] /\ frames' = [frames EXCEPT ![c] = Tail(frames[c])]
        /\ UNCHANGED <<current, baseline, voided, limited, writeFaults>>
    BY <1>9 DEF FrameLands
  <2>2. /\ Tail(frames[c]) \in Seq(States) /\ Head(frames[c]) \in States
        /\ Len(Tail(frames[c])) = Len(frames[c]) - 1 /\ Len(frames[c]) \in Nat
        /\ Last(frames[c]) = IF Tail(frames[c]) = <<>> THEN Head(frames[c]) ELSE Last(Tail(frames[c]))
    BY <1>1, <2>1, HeardOf
  <2>3. /\ \A d \in PageIds : frames'[d] = IF d = c THEN Tail(frames[c]) ELSE frames[d]
        /\ \A d \in PageIds : lastPush'[d] = IF d = c THEN Head(frames[c]) ELSE lastPush[d]
        /\ frames' \in [PageIds -> Seq(States)] /\ lastPush' \in [PageIds -> States \cup {Unsaid}]
    BY <1>1, <2>1, <2>2
  <2>4. \A d \in PageIds : Heard(d)' = Heard(d)
    BY <2>1, <2>2, <2>3 DEF Heard
  <2>5. BaselineWasPushed'
    BY <1>1, <2>1, <2>4 DEF BaselineWasPushed, OpenPages
  <2>6. \A d \in PageIds : Len(frames'[d]) <= MaxQueued
    BY <1>1, <2>2, <2>3
  <2> QED BY <1>1, <2>1, <2>3, <2>5, <2>6 DEF BaselineTrue, DashTypeOK
<1>10. CASE TickQuiet
  <2>1. ~voided /\ baseline' = baseline
    BY <1>1, <1>10 DEF TickQuiet, Baseline
  <2>2. UNCHANGED <<current, conn, frames, lastPush, limited, writeFaults>> /\ voided' = FALSE
    BY <1>10 DEF TickQuiet
  <2>3. BaselineWasPushed'
    BY <1>1, <2>1, <2>2 DEF BaselineWasPushed, OpenPages, Heard
  <2> QED BY <1>1, <2>1, <2>2, <2>3 DEF BaselineTrue, DashTypeOK
<1>11. ASSUME NEW throwing \in SUBSET PageIds, TickPushes(throwing) PROVE BaselineTrue'
  <2> DEFINE sent == IF limited THEN {} ELSE OpenPages \ throwing
  <2>1. /\ \A d \in OpenPages : limited \/ Len(frames[d]) < MaxQueued
        /\ limited => throwing = {}
        /\ throwing \subseteq OpenPages /\ (throwing # {} => writeFaults < MaxWriteFaults)
        /\ Dropped(throwing)
        /\ frames' = [d \in PageIds |-> CASE d \in throwing -> <<>>
                                          [] d \in sent -> Append(frames[d], current)
                                          [] OTHER -> frames[d]]
        /\ baseline' = IF Commits(Result(throwing)) THEN current ELSE Baseline
        /\ voided' = FALSE /\ limited' = TRUE /\ current' = current
        /\ writeFaults' = writeFaults + (IF throwing = {} THEN 0 ELSE 1)
    BY <1>11 DEF TickPushes
  <2>2. /\ conn' \in [PageIds -> Sockets] /\ lastPush' \in [PageIds -> States \cup {Unsaid}]
        /\ \A d \in PageIds : conn'[d] = IF d \in throwing THEN "none" ELSE conn[d]
        /\ \A d \in PageIds : lastPush'[d] = IF d \in throwing THEN Unsaid ELSE lastPush[d]
    BY <1>1, <2>1 DEF Dropped, Sockets
  <2>3. sent \subseteq OpenPages /\ sent \cap throwing = {} /\ OpenPages \subseteq PageIds
    BY DEF OpenPages
  <2>4. \A d \in PageIds : frames'[d] = IF d \in throwing THEN <<>>
                                        ELSE IF d \in sent THEN Append(frames[d], current) ELSE frames[d]
    BY <2>1
  <2>5. ASSUME NEW d \in PageIds
        PROVE  /\ frames'[d] \in Seq(States) /\ Len(frames'[d]) <= MaxQueued
               /\ conn'[d] = "none" => frames'[d] = <<>> /\ lastPush'[d] = Unsaid
    <3>1. CASE d \in throwing
      <4>1. frames'[d] = <<>> /\ lastPush'[d] = Unsaid
        BY <2>2, <2>4, <3>1
      <4> QED BY <1>1, <1>2, <4>1
    <3>2. CASE d \notin throwing /\ d \in sent
      <4>1. frames'[d] = Append(frames[d], current) /\ conn'[d] = "open"
        BY <2>2, <2>3, <2>4, <3>2 DEF OpenPages
      <4>2. Len(frames[d]) < MaxQueued /\ Len(frames[d]) \in Nat
        BY <1>1, <2>1, <3>2
      <4>3. Append(frames[d], current) \in Seq(States) /\ Len(Append(frames[d], current)) = Len(frames[d]) + 1
        BY <1>1, HeardOf
      <4> QED BY <1>1, <4>1, <4>2, <4>3
    <3>3. CASE d \notin throwing /\ d \notin sent
      BY <1>1, <2>2, <2>4, <3>3
    <3> QED BY <3>1, <3>2, <3>3
  <2>6. frames' \in [PageIds -> Seq(States)]
    BY <2>1, <2>5
  <2>7. writeFaults' \in 0 .. MaxWriteFaults
    BY <1>1, <2>1
  <2>8. baseline' \in States \cup {Unsaid}
    BY <1>1, <2>1 DEF Baseline
  <2>9. BaselineWasPushed'
    <3> SUFFICES ASSUME baseline' # Unsaid, NEW d \in PageIds, conn'[d] = "open"
                 PROVE  Heard(d)' = baseline'
      BY DEF BaselineWasPushed, OpenPages
    <3>1. d \notin throwing /\ conn[d] = "open"
      BY <2>2
    <3>2. CASE limited
      <4>1. Result(throwing) = "rate_limited"
        BY <3>2 DEF Result
      <4>2. baseline' = Baseline /\ ~voided /\ baseline' = baseline
        BY <2>1, <4>1 DEF Commits, Baseline
      <4>3. frames'[d] = frames[d] /\ lastPush'[d] = lastPush[d]
        BY <2>2, <2>4, <3>1, <3>2
      <4>4. Heard(d) = baseline
        BY <1>1, <3>1, <4>2 DEF BaselineWasPushed, OpenPages
      <4> QED BY <4>2, <4>3, <4>4 DEF Heard
    <3>3. CASE ~limited
      <4>1. d \in OpenPages /\ d \in sent
        BY <3>1, <3>3 DEF OpenPages
      <4>2. Result(throwing) = "queued"
        BY <3>1, <3>3, <4>1 DEF Result
      <4>3. baseline' = current
        BY <2>1, <4>2 DEF Commits
      <4>4. frames'[d] = Append(frames[d], current)
        BY <2>4, <3>1, <4>1
      <4>5. Append(frames[d], current) # <<>> /\ Last(Append(frames[d], current)) = current
        BY <1>1, HeardOf
      <4> QED BY <4>3, <4>4, <4>5 DEF Heard
    <3> QED BY <1>1, <3>2, <3>3
  <2> QED BY <1>1, <2>1, <2>2, <2>5, <2>6, <2>7, <2>8, <2>9 DEF BaselineTrue, DashTypeOK
<1>12. CASE StateChanges
  BY <1>1, <1>12 DEF StateChanges, BaselineTrue, DashTypeOK, BaselineWasPushed, OpenPages, Heard
<1>13. CASE WindowPasses
  BY <1>1, <1>13 DEF WindowPasses, BaselineTrue, DashTypeOK, BaselineWasPushed, OpenPages, Heard
<1> QED BY <1>3, <1>4, <1>5, <1>7, <1>8, <1>9, <1>10, <1>11, <1>12, <1>13 DEF DashNext

\* The promise of the push timer: a state it takes as pushed was pushed to every page open.
THEOREM BaselineIsTrue == DashSpec => []BaselineTrue
BY DashInitInv, DashStep, PTL DEF DashSpec

-----------------------------------------------------------------------------
(* Credential checks.  For every key the map has not evicted, what is left,   *)
(* what failed and what is reserved add up between the burst and the burst    *)
(* with the refills (OnlyFailuresSpend, Conserved); a key outside the map has *)
(* its whole burst (UnusedFull), which is why an eviction touches no other.   *)
(* A scan's calls keep the one reservation of the scan bucket                 *)
(* (ScanReserved).  A worker that is up is in its slot (InHome), so the bound *)
(* over the slots is a bound over all the compares that wait.                 *)

UnusedFull == \A k \in BucketKeys : k \notin ToSet(recent) => bucket[k] = Burst[k]

ScanReserved ==
  \A c \in Checks :
    /\ check[c].stage = "scan" => check[c].key = ScanKey /\ check[c].reserved
    /\ check[c].stage = "compare" =>
         check[c].worker # NoWorker /\ (check[c].key = ScanKey => check[c].reserved)

InHome == \A w \in 1 .. MaxWorkers : worker[w].state = "up" => slot[worker[w].home] = w

Conserved ==
  \A k \in BucketKeys \ forgotten :
    bucket[k] + failed[k] + Cardinality(Reserved(k)) <= Burst[k] + refills

ThrottleRecords ==
  /\ ThrottleTypeOK /\ recent \in Seq(BucketKeys)
  /\ failed \in [BucketKeys -> Nat] /\ forgotten \subseteq BucketKeys

ThrottleInv ==
  /\ ThrottleRecords /\ UnusedFull /\ ScanReserved /\ InHome
  /\ Conserved /\ OnlyFailuresSpend /\ PoolBounded

\* A call whose reservation counts for key k.
CountsFor(row, k) == row.stage # "idle" /\ row.reserved /\ row.key = k

\* A step keeps the map: its bound, and the whole burst of the keys outside it.
MapKept ==
  /\ recent' \in Seq(BucketKeys) /\ IsInjective(recent') /\ ToSet(recent') \subseteq BucketKeys
  /\ Len(recent') <= MaxKeys /\ forgotten \subseteq forgotten' /\ forgotten' \subseteq BucketKeys
  /\ bucket' \in [BucketKeys -> Nat] /\ (\A j \in BucketKeys : bucket'[j] <= Burst[j])
  /\ UnusedFull'

\* A step keeps the calls and the pool.
CallsKept ==
  /\ slot' \in [Slots -> 0 .. MaxWorkers] /\ worker' \in [1 .. MaxWorkers -> WorkerRow]
  /\ check' \in [Checks -> CheckRow] /\ ScanReserved' /\ InHome' /\ PoolBounded'

\* The compares a worker still runs.
ComparesOn == {c \in Checks : check[c].stage = "compare" /\ worker[check[c].worker].state = "up"}

Total(k) == bucket[k] + failed[k] + Cardinality(Reserved(k))

\* A step moves attempts of k between its counts; what it loses, a full bucket does not hold.
EvenFor(k) == Total(k)' <= Total(k) /\ (Total(k) <= Total(k)' \/ bucket'[k] = Burst[k])

LEMMA Least ==
  ASSUME NEW S \in SUBSET Nat, S # {}
  PROVE  \E m \in S : \A n \in S : m <= n
<1>1. \E x \in S : \A y \in S : ~ (<<y, x>> \in OpToRel(<, Nat))
  BY Zenon, NatLessThanWellFounded, WFMin
<1>2. PICK x \in S : \A y \in S : ~ (<<y, x>> \in OpToRel(<, Nat))
  BY <1>1
<1>3. \A y \in S : ~(y < x)
  BY <1>2 DEF OpToRel
<1> QED BY <1>3

\* The numbers behind the bounds.
LEMMA ThrottleNumbers ==
  /\ MaxKeys \in Nat /\ MaxKeys > 0 /\ PoolSize \in Nat /\ PoolSize > 0 /\ MaxPending \in Nat /\ MaxPending > 0
  /\ ScanRows \in Nat /\ ScanRows > 0 /\ MaxWorkers \in Nat /\ MaxWorkers > 0 /\ MaxRefills \in Nat
  /\ IsFiniteSet(Checks) /\ ScanKey \notin Sources /\ Burst \in [BucketKeys -> Nat \ {0}]
  /\ ScanKey \in BucketKeys /\ Sources \subseteq BucketKeys
  /\ NoWorker \in 0 .. MaxWorkers /\ NoWorker \notin 1 .. MaxWorkers /\ 1 \in Slots
BY ThrottleBounds DEF BucketKeys, NoWorker, Slots

\* Subsets of the calls are finite.
LEMMA ChecksFinite ==
  ASSUME NEW S, S \subseteq Checks
  PROVE  IsFiniteSet(S) /\ Cardinality(S) \in Nat
BY ThrottleNumbers, FS_Subset, FS_CardinalityType

LEMMA PickedIsSlot == Picked \in Slots
<1> DEFINE S == {Pending(i) : i \in Slots}
<1>1. \A i \in Slots : Pending(i) \in Nat
  <2> TAKE i \in Slots
  <2>1. Waiting(slot[i]) \subseteq Checks
    BY DEF Waiting
  <2>2. Cardinality(Waiting(slot[i])) \in Nat
    BY <2>1, ChecksFinite
  <2> QED BY <2>2 DEF Pending
<1>2. S \in SUBSET Nat /\ S # {}
  BY <1>1, ThrottleNumbers
<1>3. PICK m \in S : \A n \in S : m <= n
  BY <1>2, Least
<1> DEFINE T == {i \in Slots : Pending(i) = m}
<1>4. T \in SUBSET Nat /\ T # {}
  BY <1>3, ThrottleNumbers DEF Slots
<1>5. PICK i \in T : \A j \in T : i <= j
  BY <1>4, Least
<1>6. i \in Slots /\ \A j \in Slots : Pending(i) <= Pending(j)
  BY <1>3, <1>5
<1>7. \A j \in 1 .. i - 1 : Pending(j) > Pending(i)
  <2> SUFFICES ASSUME NEW j \in 1 .. i - 1 PROVE Pending(j) > Pending(i)
    OBVIOUS
  <2>1. j \in Slots /\ j < i
    BY <1>6, ThrottleNumbers DEF Slots
  <2>2. j \notin T
    BY <1>4, <1>5, <2>1
  <2>3. Pending(j) # Pending(i)
    BY <1>5, <2>1, <2>2
  <2> QED BY <1>1, <1>6, <2>1, <2>3
<1> QED BY <1>6, <1>7 DEF Picked

\* What RemoveFirst leaves of a sequence without repetitions.
LEMMA RemovedFrom ==
  ASSUME NEW S, NEW s \in Seq(S), IsInjective(s), NEW e
  PROVE  /\ RemoveFirst(s, e) \in Seq(S) /\ IsInjective(RemoveFirst(s, e))
         /\ ToSet(RemoveFirst(s, e)) \subseteq ToSet(s) \ {e}
         /\ Len(RemoveFirst(s, e)) <= Len(s)
         /\ e \in ToSet(s) => Len(RemoveFirst(s, e)) < Len(s)
<1>0. /\ Len(s) \in Nat /\ DOMAIN s = 1 .. Len(s) /\ \A i \in 1 .. Len(s) : s[i] \in S
  BY LenProperties, ElementOfSeq
<1>1. CASE ~ \E i \in 1 .. Len(s) : s[i] = e
  <2>1. RemoveFirst(s, e) = s /\ e \notin ToSet(s)
    BY <1>0, <1>1 DEF RemoveFirst, ToSet
  <2> QED BY <1>0, <2>1
<1>2. CASE \E i \in 1 .. Len(s) : s[i] = e
  <2>1. PICK i \in 1 .. Len(s) : s[i] = e
    BY <1>2
  <2> DEFINE I == {j \in 1 .. Len(s) : s[j] = e}
  <2>2. I = {i}
    BY <1>0, <2>1 DEF IsInjective
  <2>3. RemoveFirst(s, e) = RemoveAt(s, i)
    <3>1. (CHOOSE x \in I : \A y \in I : x =< y) = i
      BY <2>2
    <3> QED BY <1>2, <2>2, <3>1 DEF RemoveFirst, SelectInSeq, Min
  <2> DEFINE a == SubSeq(s, 1, i - 1)
             b == SubSeq(s, i + 1, Len(s))
  <2>4. /\ a \in Seq(S) /\ Len(a) = i - 1 /\ \A j \in 1 .. i - 1 : a[j] = s[j]
    <3>1. 1 \in Int /\ i - 1 \in Int /\ \A j \in 1 .. i - 1 : s[j] \in S
      BY <1>0
    <3>2. /\ a \in Seq(S) /\ Len(a) = (IF 1 <= i - 1 THEN i - 1 - 1 + 1 ELSE 0)
          /\ \A j \in 1 .. i - 1 - 1 + 1 : a[j] = s[1 + j - 1]
      BY <3>1, SubSeqProperties
    <3>3. i - 1 \in Nat /\ i - 1 - 1 + 1 = i - 1 /\ \A j \in 1 .. i - 1 : 1 + j - 1 = j
      BY <1>0
    <3>4. Len(a) = i - 1
      <4>1. CASE 1 <= i - 1
        BY <3>2, <3>3, <4>1
      <4>2. CASE ~(1 <= i - 1)
        <5>1. i - 1 = 0
          BY <3>3, <4>2
        <5> QED BY <3>2, <4>2, <5>1
      <4> QED BY <4>1, <4>2
    <3>5. \A j \in 1 .. i - 1 : a[j] = s[j]
      BY <3>2, <3>3
    <3> QED BY <3>2, <3>4, <3>5
  <2>5. /\ b \in Seq(S) /\ Len(b) = Len(s) - i /\ \A j \in 1 .. Len(s) - i : b[j] = s[i + j]
    <3>1. i + 1 \in Int /\ Len(s) \in Int /\ \A j \in i + 1 .. Len(s) : s[j] \in S
      BY <1>0
    <3>2. /\ b \in Seq(S) /\ Len(b) = (IF i + 1 <= Len(s) THEN Len(s) - (i + 1) + 1 ELSE 0)
          /\ \A j \in 1 .. Len(s) - (i + 1) + 1 : b[j] = s[i + 1 + j - 1]
      BY <3>1, SubSeqProperties
    <3>3. /\ i \in Nat /\ i <= Len(s) /\ Len(s) - (i + 1) + 1 = Len(s) - i
          /\ \A j \in 1 .. Len(s) - i : i + 1 + j - 1 = i + j
      BY <1>0, <2>1
    <3>4. Len(b) = Len(s) - i
      <4>1. CASE i + 1 <= Len(s)
        BY <3>2, <3>3, <4>1
      <4>2. CASE ~(i + 1 <= Len(s))
        <5>1. Len(s) - i = 0
          <6>1. i \in Int /\ Len(s) \in Int /\ i <= Len(s) /\ ~(i + 1 <= Len(s))
            BY <1>0, <2>1, <4>2
          <6> QED BY <6>1
        <5> QED BY <3>2, <4>2, <5>1
      <4> QED BY <4>1, <4>2
    <3>5. \A j \in 1 .. Len(s) - i : b[j] = s[i + j]
      BY <3>2, <3>3
    <3> QED BY <3>2, <3>4, <3>5
  <2> HIDE DEF a, b
  <2> DEFINE r == a \o b
             at(j) == IF j < i THEN j ELSE j + 1
  <2>6. /\ r \in Seq(S) /\ Len(r) = Len(a) + Len(b)
        /\ \A j \in 1 .. Len(a) + Len(b) : r[j] = IF j <= Len(a) THEN a[j] ELSE b[j - Len(a)]
    BY <2>4, <2>5, ConcatProperties
  <2> HIDE DEF r
  <2>7. Len(r) = Len(s) - 1 /\ DOMAIN r = 1 .. Len(s) - 1
    <3>1. Len(r) = Len(s) - 1
      <4>1. Len(r) = i - 1 + (Len(s) - i) /\ i \in Int /\ Len(s) \in Int
        BY <1>0, <2>1, <2>4, <2>5, <2>6
      <4> QED BY <4>1
    <3> QED BY <2>6, <3>1, LenProperties
  <2>8. \A j \in 1 .. Len(s) - 1 : at(j) \in 1 .. Len(s) /\ at(j) # i /\ r[j] = s[at(j)]
    <3> SUFFICES ASSUME NEW j \in 1 .. Len(s) - 1
                 PROVE  at(j) \in 1 .. Len(s) /\ at(j) # i /\ r[j] = s[at(j)]
      OBVIOUS
    <3>0. /\ i \in Int /\ j \in Int /\ Len(s) \in Int /\ 1 <= i /\ i <= Len(s) /\ 1 <= j /\ j <= Len(s) - 1
          /\ Len(a) = i - 1 /\ Len(b) = Len(s) - i
      BY <1>0, <2>1, <2>4, <2>5
    <3>1. r[j] = IF j <= Len(a) THEN a[j] ELSE b[j - Len(a)]
      <4>1. j \in 1 .. Len(a) + Len(b)
        BY <3>0
      <4> QED BY <2>6, <4>1
    <3>2. CASE j < i
      <4>1. j \in 1 .. i - 1 /\ j <= Len(a) /\ at(j) = j /\ j \in 1 .. Len(s)
        BY <3>0, <3>2
      <4> QED BY <2>4, <3>0, <3>1, <3>2, <4>1
    <3>3. CASE ~(j < i)
      <4>1. /\ j - Len(a) \in 1 .. Len(s) - i /\ ~(j <= Len(a)) /\ at(j) = j + 1 /\ j + 1 \in 1 .. Len(s)
            /\ i + (j - Len(a)) = j + 1 /\ j + 1 # i
        BY <3>0, <3>3
      <4>2. b[j - Len(a)] = s[i + (j - Len(a))]
        BY <2>5, <4>1
      <4> QED BY <3>1, <4>1, <4>2
    <3> QED BY <3>2, <3>3
  <2>9. \A j, k \in 1 .. Len(s) - 1 : at(j) = at(k) => j = k
    BY <1>0
  <2>10. IsInjective(r)
    BY <1>0, <2>7, <2>8, <2>9 DEF IsInjective
  <2>11. ToSet(r) \subseteq ToSet(s) \ {e}
    <3> SUFFICES ASSUME NEW j \in 1 .. Len(s) - 1 PROVE r[j] \in ToSet(s) /\ r[j] # e
      BY <2>7 DEF ToSet
    <3>1. at(j) \in 1 .. Len(s) /\ at(j) # i /\ r[j] = s[at(j)]
      BY <2>8
    <3> QED BY <1>0, <2>1, <3>1 DEF IsInjective, ToSet
  <2>12. RemoveFirst(s, e) = r
    BY <2>3 DEF RemoveAt, r, a, b
  <2> QED BY <1>0, <2>6, <2>7, <2>10, <2>11, <2>12
<1> QED BY <1>1, <1>2

\* A new last element.
LEMMA AppendedTo ==
  ASSUME NEW S, NEW s \in Seq(S), IsInjective(s), NEW e \in S, e \notin ToSet(s)
  PROVE  /\ Append(s, e) \in Seq(S) /\ IsInjective(Append(s, e)) /\ Len(Append(s, e)) = Len(s) + 1
         /\ ToSet(Append(s, e)) = ToSet(s) \cup {e}
<1>0. Len(s) \in Nat /\ DOMAIN s = 1 .. Len(s)
  BY LenProperties
<1>1. PICK r \in Seq(S) : r = Append(s, e)
  BY AppendProperties
<1>2. /\ Len(r) = Len(s) + 1 /\ \A i \in 1 .. Len(s) : r[i] = s[i]
      /\ r[Len(s) + 1] = e
  BY <1>1, AppendProperties
<1>3. DOMAIN r = 1 .. Len(s) + 1
  BY <1>2, LenProperties
<1>4. \A i \in 1 .. Len(s) : r[i] # e
  BY <1>0, <1>2 DEF ToSet
<1>5. IsInjective(r)
  <2> SUFFICES ASSUME NEW i \in 1 .. Len(s) + 1, NEW j \in 1 .. Len(s) + 1, r[i] = r[j] PROVE i = j
    BY <1>3 DEF IsInjective
  <2>1. CASE i = Len(s) + 1 \/ j = Len(s) + 1
    BY <1>0, <1>2, <1>4, <2>1
  <2>2. CASE i # Len(s) + 1 /\ j # Len(s) + 1
    <3>1. i \in 1 .. Len(s) /\ j \in 1 .. Len(s)
      BY <1>0, <2>2
    <3> QED BY <1>0, <1>2, <3>1 DEF IsInjective
  <2> QED BY <2>1, <2>2
<1>6. ToSet(r) = ToSet(s) \cup {e}
  <2>1. ToSet(r) = {r[i] : i \in 1 .. Len(s) + 1} /\ ToSet(s) = {s[i] : i \in 1 .. Len(s)}
    BY <1>0, <1>3 DEF ToSet
  <2>2. 1 .. Len(s) + 1 = (1 .. Len(s)) \cup {Len(s) + 1}
    BY <1>0
  <2> QED BY <1>2, <2>1, <2>2
<1> QED BY <1>1, <1>2, <1>5, <1>6

\* The map after one of its keys is used.
LEMMA TouchKeeps ==
  ASSUME ThrottleRecords, NEW k \in BucketKeys, Touch(k)
  PROVE  /\ recent' \in Seq(BucketKeys) /\ IsInjective(recent') /\ ToSet(recent') \subseteq BucketKeys
         /\ Len(recent') <= MaxKeys /\ k \in ToSet(recent')
         /\ forgotten \subseteq forgotten' /\ forgotten' \subseteq BucketKeys
         /\ \A j \in BucketKeys : j \notin ToSet(recent') => j \notin ToSet(recent) \/ j \in forgotten'
<1>1. /\ recent \in Seq(BucketKeys) /\ IsInjective(recent) /\ Len(recent) \in Nat /\ Len(recent) <= MaxKeys
      /\ DOMAIN recent = 1 .. Len(recent) /\ ToSet(recent) \subseteq BucketKeys /\ forgotten \subseteq BucketKeys
  BY LenProperties DEF ThrottleRecords, ThrottleTypeOK
<1>2. PICK kept : /\ kept = IF k \notin ToSet(recent) /\ Len(recent) >= MaxKeys THEN Tail(recent)
                            ELSE RemoveFirst(recent, k)
                  /\ recent' = Append(kept, k)
                  /\ forgotten' = forgotten \cup (ToSet(recent) \ (ToSet(kept) \cup {k}))
  BY DEF Touch
<1>3. /\ kept \in Seq(BucketKeys) /\ IsInjective(kept) /\ k \notin ToSet(kept) /\ Len(kept) + 1 <= MaxKeys
      /\ ToSet(kept) \subseteq BucketKeys
  <2>1. CASE k \notin ToSet(recent) /\ Len(recent) >= MaxKeys
    <3>1. recent # <<>>
      BY <1>1, <2>1, ThrottleNumbers, EmptySeq
    <3>2. /\ kept \in Seq(BucketKeys) /\ Len(kept) = Len(recent) - 1
          /\ \A i \in 1 .. Len(kept) : kept[i] = recent[i + 1]
      BY <1>1, <1>2, <2>1, <3>1, HeadTailProperties
    <3>3. DOMAIN kept = 1 .. Len(recent) - 1
      BY <3>2, LenProperties
    <3>4. \A i \in 1 .. Len(recent) - 1 : i + 1 \in 1 .. Len(recent)
      BY <1>1
    <3>5. IsInjective(kept)
      <4>1. \A i \in 1 .. Len(recent) - 1 : kept[i] = recent[i + 1]
        BY <3>2
      <4> SUFFICES ASSUME NEW i \in 1 .. Len(recent) - 1, NEW j \in 1 .. Len(recent) - 1, kept[i] = kept[j]
                   PROVE  i = j
        BY <3>3 DEF IsInjective
      <4>2. i + 1 \in DOMAIN recent /\ j + 1 \in DOMAIN recent /\ recent[i + 1] = recent[j + 1]
        BY <1>1, <3>4, <4>1
      <4>3. i + 1 = j + 1
        BY <1>1, <4>2 DEF IsInjective
      <4> QED BY <1>1, <4>3
    <3>6. ToSet(kept) \subseteq ToSet(recent)
      BY <1>1, <3>2, <3>3, <3>4 DEF ToSet
    <3> QED BY <1>1, <2>1, <3>2, <3>5, <3>6, ThrottleNumbers
  <2>2. CASE ~(k \notin ToSet(recent) /\ Len(recent) >= MaxKeys)
    <3>1. kept = RemoveFirst(recent, k)
      BY <1>2, <2>2
    <3>2. /\ kept \in Seq(BucketKeys) /\ IsInjective(kept) /\ ToSet(kept) \subseteq ToSet(recent) \ {k}
          /\ Len(kept) <= Len(recent) /\ (k \in ToSet(recent) => Len(kept) < Len(recent))
      BY <1>1, <3>1, RemovedFrom
    <3>3. Len(kept) \in Nat
      BY <3>2, LenProperties
    <3> QED BY <1>1, <2>2, <3>2, <3>3, ThrottleNumbers
  <2> QED BY <2>1, <2>2
<1>4. /\ recent' \in Seq(BucketKeys) /\ IsInjective(recent') /\ Len(recent') = Len(kept) + 1
      /\ ToSet(recent') = ToSet(kept) \cup {k}
  <2>1. /\ Append(kept, k) \in Seq(BucketKeys) /\ IsInjective(Append(kept, k))
        /\ Len(Append(kept, k)) = Len(kept) + 1 /\ ToSet(Append(kept, k)) = ToSet(kept) \cup {k}
    BY <1>3, AppendedTo
  <2> QED BY <1>2, <2>1
<1>5. Len(recent') <= MaxKeys
  BY <1>3, <1>4
<1> QED BY <1>1, <1>2, <1>3, <1>4, <1>5

\* The buckets after a key is used.
LEMMA LevelKeeps ==
  ASSUME ThrottleInv, NEW k \in BucketKeys, NEW n \in Nat, n <= Burst[k], Touch(k), bucket' = Level(k, n)
  PROVE  /\ MapKept /\ bucket'[k] = n
         /\ \A j \in BucketKeys \ forgotten' : j # k => bucket'[j] = bucket[j]
<1>1. /\ recent' \in Seq(BucketKeys) /\ IsInjective(recent') /\ ToSet(recent') \subseteq BucketKeys
      /\ Len(recent') <= MaxKeys /\ k \in ToSet(recent')
      /\ forgotten \subseteq forgotten' /\ forgotten' \subseteq BucketKeys
      /\ \A j \in BucketKeys : j \notin ToSet(recent') => j \notin ToSet(recent) \/ j \in forgotten'
  BY TouchKeeps DEF ThrottleInv
<1>2. /\ bucket \in [BucketKeys -> Nat] /\ Burst \in [BucketKeys -> Nat]
      /\ \A j \in BucketKeys : bucket[j] <= Burst[j]
      /\ \A j \in BucketKeys : j \notin ToSet(recent) => bucket[j] = Burst[j]
  BY ThrottleNumbers DEF ThrottleInv, ThrottleRecords, ThrottleTypeOK, UnusedFull
<1>3. bucket' = [j \in BucketKeys |-> IF j = k THEN n ELSE IF j \in ToSet(recent') THEN bucket[j] ELSE Burst[j]]
  BY DEF Level
<1>4. bucket' \in [BucketKeys -> Nat] /\ \A j \in BucketKeys : bucket'[j] <= Burst[j]
  BY <1>2, <1>3
<1>5. \A j \in BucketKeys : j \notin ToSet(recent') => bucket'[j] = Burst[j]
  BY <1>1, <1>3
<1>6. \A j \in BucketKeys \ forgotten' : j # k => bucket'[j] = bucket[j]
  BY <1>1, <1>2, <1>3
<1>7. bucket'[k] = n
  BY <1>3
<1> QED BY <1>1, <1>4, <1>5, <1>6, <1>7 DEF MapKept, UnusedFull

\* A step that uses no key.
LEMMA UntouchedKeeps ==
  ASSUME ThrottleInv, Untouched
  PROVE  MapKept /\ forgotten' = forgotten /\ \A j \in BucketKeys : bucket'[j] = bucket[j]
BY DEF Untouched, ThrottleInv, ThrottleRecords, ThrottleTypeOK, UnusedFull, MapKept

\* An attempt given back.
LEMMA RefundKeeps ==
  ASSUME ThrottleInv, NEW k \in BucketKeys, Refund(k)
  PROVE  /\ MapKept /\ bucket'[k] <= bucket[k] + 1
         /\ (bucket'[k] = bucket[k] + 1 \/ bucket'[k] = Burst[k])
         /\ \A j \in BucketKeys \ forgotten' : j # k => bucket'[j] = bucket[j]
<1>1. bucket[k] \in Nat /\ Burst[k] \in Nat /\ bucket[k] <= Burst[k]
  BY ThrottleNumbers DEF ThrottleInv, ThrottleRecords, ThrottleTypeOK
<1> DEFINE n == GivenBack(k)
<1>2. n \in Nat /\ n <= Burst[k] /\ n <= bucket[k] + 1 /\ (n = bucket[k] + 1 \/ n = Burst[k])
  BY <1>1 DEF GivenBack
<1>3. Touch(k) /\ bucket' = Level(k, n)
  BY DEF Refund
<1> HIDE DEF n
<1>4. /\ MapKept /\ bucket'[k] = n
      /\ \A j \in BucketKeys \ forgotten' : j # k => bucket'[j] = bucket[j]
  BY <1>2, <1>3, LevelKeeps
<1> QED BY <1>2, <1>4

\* The reservations of a key after one call changes.
LEMMA ReservedMoves ==
  ASSUME check \in [Checks -> CheckRow], NEW c \in Checks, NEW row, check' = [check EXCEPT ![c] = row],
         NEW k
  PROVE  /\ Cardinality(Reserved(k)) \in Nat /\ Cardinality(Reserved(k)') \in Nat
         /\ (CountsFor(row, k) <=> CountsFor(check[c], k)) => Cardinality(Reserved(k)') = Cardinality(Reserved(k))
         /\ CountsFor(row, k) /\ ~CountsFor(check[c], k)
              => Cardinality(Reserved(k)') = Cardinality(Reserved(k)) + 1
         /\ ~CountsFor(row, k) /\ CountsFor(check[c], k)
              => Cardinality(Reserved(k)') + 1 = Cardinality(Reserved(k))
<1>1. Reserved(k) = {d \in Checks : CountsFor(check[d], k)} /\ Reserved(k)' = {d \in Checks : CountsFor(check'[d], k)}
  BY DEF Reserved, CountsFor
<1>2. check'[c] = row /\ \A d \in Checks : d # c => check'[d] = check[d]
  OBVIOUS
<1> DEFINE A == Reserved(k)
           B == Reserved(k)'
<1>3. A \subseteq Checks /\ B \subseteq Checks
  BY <1>1
<1>4. IsFiniteSet(A) /\ IsFiniteSet(B) /\ Cardinality(A) \in Nat /\ Cardinality(B) \in Nat
  BY <1>3, ChecksFinite
<1>5. CASE CountsFor(row, k) <=> CountsFor(check[c], k)
  <2>1. A = B
    BY <1>1, <1>2, <1>5
  <2> QED BY <1>4, <1>5, <2>1
<1>6. CASE CountsFor(row, k) /\ ~CountsFor(check[c], k)
  <2>1. B = A \cup {c} /\ c \notin A
    BY <1>1, <1>2, <1>6
  <2>2. Cardinality(B) = Cardinality(A) + 1
    BY <1>4, <2>1, FS_AddElement
  <2> QED BY <1>4, <1>6, <2>2
<1>7. CASE ~CountsFor(row, k) /\ CountsFor(check[c], k)
  <2>1. A = B \cup {c} /\ c \notin B
    BY <1>1, <1>2, <1>7
  <2>2. Cardinality(A) = Cardinality(B) + 1
    BY <1>4, <2>1, FS_AddElement
  <2> QED BY <1>4, <1>7, <2>2
<1> QED BY <1>5, <1>6, <1>7


\* A step that starts no compare leaves the pool within its bound.
LEMMA PoolShrinks ==
  ASSUME PoolBounded, ComparesOn' \subseteq ComparesOn
  PROVE  PoolBounded'
<1>1. ComparesOn \subseteq Checks /\ ComparesOn' \subseteq Checks
  BY DEF ComparesOn
<1>2. IsFiniteSet(ComparesOn) /\ Cardinality(ComparesOn) \in Nat /\ Cardinality(ComparesOn') \in Nat
  BY <1>1, ChecksFinite
<1>3. Cardinality(ComparesOn') <= Cardinality(ComparesOn)
  BY <1>2, FS_Subset
<1>4. Cardinality(ComparesOn) <= MaxPending
  BY DEF PoolBounded, ComparesOn
<1>5. Cardinality(ComparesOn') <= MaxPending
  BY <1>2, <1>3, <1>4, ThrottleNumbers
<1> QED BY <1>5 DEF PoolBounded, ComparesOn

\* The compares that run are those the slots show.
LEMMA RunningShown ==
  ASSUME ThrottleInv, ~PoolFull
  PROVE  Cardinality(ComparesOn) + 1 <= MaxPending
<1> DEFINE U == (UNION {Waiting(slot[i]) : i \in Slots}) \ Waiting(NoWorker)
<1>1. ComparesOn \subseteq U
  <2> SUFFICES ASSUME NEW c \in ComparesOn PROVE c \in U
    OBVIOUS
  <2>1. c \in Checks /\ check[c].stage = "compare" /\ worker[check[c].worker].state = "up"
    BY DEF ComparesOn
  <2>2. check[c] \in CheckRow /\ check[c].worker # NoWorker
    BY <2>1 DEF ThrottleInv, ThrottleRecords, ThrottleTypeOK, ScanReserved
  <2>3. check[c].worker \in 1 .. MaxWorkers
    BY <2>2, ThrottleNumbers DEF CheckRow, NoWorker
  <2>4. slot[worker[check[c].worker].home] = check[c].worker
    BY <2>1, <2>3 DEF ThrottleInv, InHome
  <2>5. worker[check[c].worker].home \in Slots
    BY <2>3 DEF ThrottleInv, ThrottleRecords, ThrottleTypeOK, WorkerRow
  <2>6. c \in Waiting(slot[worker[check[c].worker].home])
    BY <2>1, <2>4 DEF Waiting
  <2>7. c \notin Waiting(NoWorker)
    BY <2>2 DEF Waiting
  <2> QED BY <2>5, <2>6, <2>7
<1>2. U \subseteq Checks
  BY DEF Waiting
<1>3. IsFiniteSet(U) /\ Cardinality(U) \in Nat
  BY <1>2, ChecksFinite
<1>4. Cardinality(ComparesOn) \in Nat /\ Cardinality(ComparesOn) <= Cardinality(U)
  <2> HIDE DEF U
  <2>1. ComparesOn \subseteq Checks
    BY DEF ComparesOn
  <2> QED BY <1>1, <1>3, <2>1, ChecksFinite, FS_Subset
<1>5. ~(Cardinality(U) >= MaxPending)
  BY DEF PoolFull
<1> HIDE DEF U
<1> QED BY <1>3, <1>4, <1>5, ThrottleNumbers

\* A call is changed where its compare is handed to a worker.
LEMMA CallSubmits ==
  ASSUME ThrottleInv, NEW c \in Checks, NEW row \in CheckRow, check[c].stage # "compare", row.stage = "compare",
         row.key = ScanKey => row.reserved, ~PoolFull, Submitted(c, row)
  PROVE  /\ CallsKept
         /\ \E w \in 1 .. MaxWorkers : check' = [check EXCEPT ![c] = [row EXCEPT !.worker = w]]
<1>1. /\ slot \in [Slots -> 0 .. MaxWorkers] /\ worker \in [1 .. MaxWorkers -> WorkerRow]
      /\ check \in [Checks -> CheckRow] /\ Picked \in Slots
  BY PickedIsSlot DEF ThrottleInv, ThrottleRecords, ThrottleTypeOK
<1>2. \E w \in 1 .. MaxWorkers :
        /\ check' = [check EXCEPT ![c] = [row EXCEPT !.worker = w]]
        /\ \/ UNCHANGED <<slot, worker>>
           \/ /\ Free(w) /\ slot[Picked] = NoWorker
              /\ worker' = [worker EXCEPT ![w] = [state |-> "up", home |-> Picked]]
              /\ slot' = [slot EXCEPT ![Picked] = w]
  <2>1. CASE slot[Picked] # NoWorker
    <3>1. slot[Picked] \in 1 .. MaxWorkers
      BY <1>1, <2>1, ThrottleNumbers DEF NoWorker
    <3> QED BY <2>1, <3>1 DEF Submitted
  <2>2. CASE slot[Picked] = NoWorker
    BY <2>2 DEF Submitted
  <2> QED BY <2>1, <2>2
<1>3. PICK w \in 1 .. MaxWorkers :
        /\ check' = [check EXCEPT ![c] = [row EXCEPT !.worker = w]]
        /\ \/ UNCHANGED <<slot, worker>>
           \/ /\ Free(w) /\ slot[Picked] = NoWorker
              /\ worker' = [worker EXCEPT ![w] = [state |-> "up", home |-> Picked]]
              /\ slot' = [slot EXCEPT ![Picked] = w]
  BY <1>2
<1>4. PICK new : new = [row EXCEPT !.worker = w]
  OBVIOUS
<1>5. w \in 0 .. MaxWorkers /\ w # NoWorker
  BY ThrottleNumbers DEF NoWorker
<1>6. new \in CheckRow /\ new.worker = w /\ new.stage = "compare" /\ (new.key = ScanKey => new.reserved)
  BY <1>4, <1>5 DEF CheckRow
<1>7. /\ check' = [check EXCEPT ![c] = new] /\ check' \in [Checks -> CheckRow] /\ check'[c] = new
      /\ \A d \in Checks : d # c => check'[d] = check[d]
  BY <1>1, <1>3, <1>4, <1>6
<1>8. slot' \in [Slots -> 0 .. MaxWorkers] /\ worker' \in [1 .. MaxWorkers -> WorkerRow]
  <2>1. CASE UNCHANGED <<slot, worker>>
    BY <1>1, <2>1
  <2>2. CASE /\ worker' = [worker EXCEPT ![w] = [state |-> "up", home |-> Picked]]
             /\ slot' = [slot EXCEPT ![Picked] = w]
    <3>1. [state |-> "up", home |-> Picked] \in WorkerRow
      BY <1>1 DEF WorkerRow
    <3> QED BY <1>1, <1>5, <2>2, <3>1
  <2> QED BY <1>3, <2>1, <2>2
<1>9. ScanReserved'
  <2>1. ScanReserved
    BY DEF ThrottleInv
  <2> QED BY <1>5, <1>6, <1>7, <2>1 DEF ScanReserved
<1>10. InHome'
  <2>0. InHome
    BY DEF ThrottleInv
  <2>1. CASE UNCHANGED <<slot, worker>>
    BY <2>0, <2>1 DEF InHome
  <2>2. CASE /\ slot[Picked] = NoWorker
             /\ worker' = [worker EXCEPT ![w] = [state |-> "up", home |-> Picked]]
             /\ slot' = [slot EXCEPT ![Picked] = w]
    <3> SUFFICES ASSUME NEW v \in 1 .. MaxWorkers, worker'[v].state = "up" PROVE slot'[worker'[v].home] = v
      BY DEF InHome
    <3>1. CASE v = w
      BY <1>1, <2>2, <3>1
    <3>2. CASE v # w
      <4>1. worker'[v] = worker[v] /\ v # NoWorker
        BY <1>1, <2>2, <3>2, ThrottleNumbers
      <4>2. slot[worker[v].home] = v
        BY <2>0, <4>1 DEF InHome
      <4> QED BY <1>1, <2>2, <4>1, <4>2
    <3> QED BY <3>1, <3>2
  <2> QED BY <1>3, <2>1, <2>2
<1>11. ComparesOn' \subseteq ComparesOn \cup {c}
  <2> SUFFICES ASSUME NEW d \in Checks, d # c, check'[d].stage = "compare",
                      worker'[check'[d].worker].state = "up"
               PROVE  d \in ComparesOn
    BY DEF ComparesOn
  <2>1. check'[d] = check[d] /\ check[d].stage = "compare"
    BY <1>7
  <2>2. CASE UNCHANGED <<slot, worker>>
    BY <2>1, <2>2 DEF ComparesOn
  <2>3. CASE Free(w) /\ worker' = [worker EXCEPT ![w] = [state |-> "up", home |-> Picked]]
    <3>1. check[d].worker # w
      BY <2>1, <2>3 DEF Free, Waiting
    <3>2. worker'[check[d].worker] = worker[check[d].worker]
      BY <1>1, <2>3, <3>1
    <3> QED BY <2>1, <3>2 DEF ComparesOn
  <2> QED BY <1>3, <2>2, <2>3
<1>12. PoolBounded'
  <2>1. ComparesOn \subseteq Checks /\ ComparesOn' \subseteq Checks /\ ComparesOn \cup {c} \subseteq Checks
    BY DEF ComparesOn
  <2>2. IsFiniteSet(ComparesOn) /\ IsFiniteSet(ComparesOn \cup {c}) /\ Cardinality(ComparesOn') \in Nat
        /\ Cardinality(ComparesOn) \in Nat /\ Cardinality(ComparesOn \cup {c}) \in Nat
    BY <2>1, ChecksFinite
  <2>3. Cardinality(ComparesOn') <= Cardinality(ComparesOn \cup {c})
    BY <1>11, <2>2, FS_Subset
  <2>4. Cardinality(ComparesOn \cup {c}) <= Cardinality(ComparesOn) + 1
    BY <2>2, FS_AddElement
  <2>5. Cardinality(ComparesOn) + 1 <= MaxPending
    BY RunningShown
  <2>6. Cardinality(ComparesOn') <= MaxPending
    BY <2>2, <2>3, <2>4, <2>5, ThrottleNumbers
  <2> QED BY <2>6 DEF PoolBounded, ComparesOn
<1> QED BY <1>3, <1>7, <1>8, <1>9, <1>10, <1>12 DEF CallsKept

\* A call is changed where its compare is over, or none was running.
LEMMA CallSettles ==
  ASSUME ThrottleInv, NEW c \in Checks, NEW row \in CheckRow, row.stage # "compare",
         row.stage = "scan" => row.key = ScanKey /\ row.reserved,
         check' = [check EXCEPT ![c] = row], UNCHANGED <<slot, worker>>
  PROVE  CallsKept
<1>1. /\ slot \in [Slots -> 0 .. MaxWorkers] /\ worker \in [1 .. MaxWorkers -> WorkerRow]
      /\ check \in [Checks -> CheckRow] /\ ScanReserved /\ InHome /\ PoolBounded
  BY DEF ThrottleInv, ThrottleRecords, ThrottleTypeOK
<1>2. check' \in [Checks -> CheckRow] /\ check'[c] = row /\ \A d \in Checks : d # c => check'[d] = check[d]
  BY <1>1
<1>3. ScanReserved'
  BY <1>1, <1>2 DEF ScanReserved
<1>4. InHome'
  BY <1>1 DEF InHome
<1>5. ComparesOn' \subseteq ComparesOn
  BY <1>1, <1>2 DEF ComparesOn
<1>6. PoolBounded'
  BY <1>1, <1>5, PoolShrinks
<1> QED BY <1>1, <1>2, <1>3, <1>4, <1>6 DEF CallsKept

\* The calls and the pool as they were.
LEMMA CallsStay ==
  ASSUME ThrottleInv, UNCHANGED <<slot, worker, check>>
  PROVE  CallsKept
<1>1. ComparesOn' \subseteq ComparesOn /\ PoolBounded
  BY DEF ComparesOn, ThrottleInv
<1>2. PoolBounded'
  BY <1>1, PoolShrinks
<1> QED BY <1>2 DEF CallsKept, ThrottleInv, ThrottleRecords, ThrottleTypeOK, ScanReserved, InHome

\* A worker that dies.
LEMMA DeathKeeps ==
  ASSUME ThrottleInv, NEW w \in 1 .. MaxWorkers, NEW state \in {"failing", "exited"}, WorkerDies(w, state)
  PROVE  CallsKept
<1>1. /\ slot \in [Slots -> 0 .. MaxWorkers] /\ worker \in [1 .. MaxWorkers -> WorkerRow]
      /\ check \in [Checks -> CheckRow] /\ ScanReserved /\ InHome /\ PoolBounded
      /\ check' = check
  BY DEF ThrottleInv, ThrottleRecords, ThrottleTypeOK, WorkerDies
<1>2. PICK row : row = [worker[w] EXCEPT !.state = state]
  OBVIOUS
<1>3. row \in WorkerRow /\ row.state = state
  BY <1>1, <1>2 DEF WorkerRow
<1>4. /\ worker' = [worker EXCEPT ![w] = row] /\ worker' \in [1 .. MaxWorkers -> WorkerRow] /\ worker'[w] = row
      /\ \A v \in 1 .. MaxWorkers : v # w => worker'[v] = worker[v]
  <2>1. worker' = [worker EXCEPT ![w] = row]
    BY <1>1, <1>2 DEF WorkerDies
  <2> QED BY <1>1, <1>3, <2>1
<1>5. /\ slot' \in [Slots -> 0 .. MaxWorkers]
      /\ \A i \in Slots : slot[i] # w => slot'[i] = slot[i]
  BY <1>1, ThrottleNumbers DEF WorkerDies, Cleared
<1>6. ScanReserved'
  BY <1>1 DEF ScanReserved
<1>7. InHome'
  <2> SUFFICES ASSUME NEW v \in 1 .. MaxWorkers, worker'[v].state = "up" PROVE slot'[worker'[v].home] = v
    BY DEF InHome
  <2>1. v # w
    BY <1>3, <1>4
  <2>2. worker'[v] = worker[v] /\ slot[worker[v].home] = v /\ worker[v].home \in Slots
    BY <1>1, <1>4, <2>1 DEF InHome, WorkerRow
  <2> QED BY <1>5, <2>1, <2>2
<1>8. ComparesOn' \subseteq ComparesOn
  <2> SUFFICES ASSUME NEW d \in Checks, check[d].stage = "compare", worker'[check[d].worker].state = "up"
               PROVE  d \in ComparesOn
    BY <1>1 DEF ComparesOn
  <2>1. check[d].worker \in 1 .. MaxWorkers
    BY <1>1, ThrottleNumbers DEF ScanReserved, CheckRow, NoWorker
  <2>2. check[d].worker # w
    BY <1>3, <1>4
  <2> QED BY <1>4, <2>1, <2>2 DEF ComparesOn
<1>9. PoolBounded'
  BY <1>1, <1>8, PoolShrinks
<1> QED BY <1>1, <1>4, <1>5, <1>6, <1>7, <1>9 DEF CallsKept


\* The counts are numbers.
LEMMA CountsTyped ==
  ASSUME ThrottleInv, NEW k \in BucketKeys
  PROVE  /\ bucket[k] \in Nat /\ failed[k] \in Nat /\ Cardinality(Reserved(k)) \in Nat
         /\ Burst[k] \in Nat /\ bucket[k] <= Burst[k] /\ refills \in Nat
<1>1. Reserved(k) \subseteq Checks
  BY DEF Reserved
<1> QED BY <1>1, ChecksFinite, ThrottleNumbers DEF ThrottleInv, ThrottleRecords, ThrottleTypeOK

LEMMA CountsMove ==
  ASSUME MapKept, failed' \in [BucketKeys -> Nat], NEW k \in BucketKeys
  PROVE  /\ bucket'[k] \in Nat /\ failed'[k] \in Nat /\ Cardinality(Reserved(k)') \in Nat
         /\ bucket'[k] <= Burst[k]
         /\ Total(k)' = bucket'[k] + failed'[k] + Cardinality(Reserved(k)')
<1>1. Reserved(k)' \subseteq Checks
  BY DEF Reserved
<1>2. Total(k)' = bucket'[k] + failed'[k] + Cardinality(Reserved(k)')
  BY DEF Total
<1> QED BY <1>1, <1>2, ChecksFinite DEF MapKept

\* The invariant from its parts.
LEMMA Assembled ==
  ASSUME ThrottleInv, MapKept, CallsKept, UNCHANGED refills, failed' \in [BucketKeys -> Nat],
         \A k \in BucketKeys \ forgotten' : EvenFor(k)
  PROVE  ThrottleInv'
<1>1. ThrottleRecords' /\ UnusedFull' /\ ScanReserved' /\ InHome' /\ PoolBounded'
  BY DEF ThrottleInv, ThrottleRecords, ThrottleTypeOK, MapKept, CallsKept
<1>2. ASSUME NEW k \in BucketKeys \ forgotten'
      PROVE  /\ bucket'[k] + failed'[k] + Cardinality(Reserved(k)') <= Burst[k] + refills
             /\ k \in Sources => bucket'[k] + Cardinality(Reserved(k)') + failed'[k] >= Burst[k]
  <2>1. k \in BucketKeys /\ k \notin forgotten /\ EvenFor(k)
    BY <1>2 DEF MapKept
  <2>2. /\ bucket[k] \in Nat /\ failed[k] \in Nat /\ Cardinality(Reserved(k)) \in Nat
        /\ Burst[k] \in Nat /\ refills \in Nat
    BY <2>1, CountsTyped
  <2>3. /\ bucket'[k] \in Nat /\ failed'[k] \in Nat /\ Cardinality(Reserved(k)') \in Nat
        /\ Total(k)' = bucket'[k] + failed'[k] + Cardinality(Reserved(k)')
    BY <2>1, CountsMove
  <2>4. /\ bucket[k] + failed[k] + Cardinality(Reserved(k)) <= Burst[k] + refills
        /\ k \in Sources => bucket[k] + Cardinality(Reserved(k)) + failed[k] >= Burst[k]
    BY <2>1 DEF ThrottleInv, Conserved, OnlyFailuresSpend
  <2>5. /\ Total(k)' <= bucket[k] + failed[k] + Cardinality(Reserved(k))
        /\ bucket[k] + failed[k] + Cardinality(Reserved(k)) <= Total(k)' \/ bucket'[k] = Burst[k]
    BY <2>1 DEF EvenFor, Total
  <2> QED BY <2>2, <2>3, <2>4, <2>5
<1>3. Conserved' /\ OnlyFailuresSpend'
  BY <1>2, ThrottleNumbers DEF Conserved, OnlyFailuresSpend
<1> QED BY <1>1, <1>3 DEF ThrottleInv

\* A step that changes one call and the attempts of its key leaves the other keys even.
LEMMA EvenElsewhere ==
  ASSUME ThrottleInv, MapKept, failed' \in [BucketKeys -> Nat], NEW k \in BucketKeys,
         NEW c \in Checks, NEW row \in CheckRow, check' = [check EXCEPT ![c] = row],
         \A j \in BucketKeys \ forgotten' : j # k => bucket'[j] = bucket[j],
         \A j \in BucketKeys : j # k => failed'[j] = failed[j],
         check[c].stage # "idle" => check[c].key = k, row.stage # "idle" => row.key = k,
         k \notin forgotten' => EvenFor(k)
  PROVE  \A j \in BucketKeys \ forgotten' : EvenFor(j)
<1> SUFFICES ASSUME NEW j \in BucketKeys, j \notin forgotten', j # k PROVE EvenFor(j)
  OBVIOUS
<1>1. bucket'[j] = bucket[j] /\ failed'[j] = failed[j]
  OBVIOUS
<1>2. ~CountsFor(row, j) /\ ~CountsFor(check[c], j)
  BY DEF CountsFor
<1>3. check \in [Checks -> CheckRow]
  BY DEF ThrottleInv, ThrottleRecords, ThrottleTypeOK
<1>4. Cardinality(Reserved(j)') = Cardinality(Reserved(j))
  BY <1>2, <1>3, ReservedMoves
<1>5. Total(j)' = bucket'[j] + failed'[j] + Cardinality(Reserved(j)')
  BY CountsMove
<1>6. bucket[j] \in Nat /\ failed[j] \in Nat /\ Cardinality(Reserved(j)) \in Nat
  BY CountsTyped
<1>7. Total(j)' = Total(j) /\ Total(j) \in Nat
  BY <1>1, <1>4, <1>5, <1>6 DEF Total
<1> QED BY <1>7 DEF EvenFor

\* The call at rest.
LEMMA RestTyped == NoCheck \in CheckRow /\ NoCheck.stage = "idle"
BY ThrottleNumbers DEF NoCheck, CheckRow

LEMMA StepVerify ==
  ASSUME ThrottleInv, NEW c \in Checks, NEW k \in Sources, NEW known \in BOOLEAN, NEW right \in BOOLEAN,
         Verify(c, k, known, right)
  PROVE  ThrottleInv'
<1>0. k \in BucketKeys /\ k # ScanKey /\ check \in [Checks -> CheckRow] /\ check[c].stage = "idle"
  BY ThrottleNumbers DEF ThrottleInv, ThrottleRecords, ThrottleTypeOK, Verify
<1>1. PICK row : row = [NoCheck EXCEPT !.stage = "compare", !.key = k, !.reserved = ~known, !.right = right]
  OBVIOUS
<1>2. row \in CheckRow /\ row.stage = "compare" /\ row.key = k /\ row.reserved = ~known
  BY <1>0, <1>1, RestTyped, ThrottleNumbers DEF CheckRow, NoCheck
<1>3. ~PoolFull /\ Submitted(c, row) /\ UNCHANGED <<refills, failed>>
  BY <1>1 DEF Verify
<1>4. CallsKept /\ \E w \in 1 .. MaxWorkers : check' = [check EXCEPT ![c] = [row EXCEPT !.worker = w]]
  BY <1>0, <1>2, <1>3, CallSubmits
<1>5. PICK w \in 1 .. MaxWorkers : check' = [check EXCEPT ![c] = [row EXCEPT !.worker = w]]
  BY <1>4
<1>6. PICK new : new = [row EXCEPT !.worker = w]
  OBVIOUS
<1>7. new \in CheckRow /\ new.stage = "compare" /\ new.key = k /\ new.reserved = ~known
  BY <1>2, <1>6, ThrottleNumbers DEF CheckRow
<1>8. check' = [check EXCEPT ![c] = new]
  BY <1>5, <1>6
<1>9. failed' \in [BucketKeys -> Nat] /\ \A j \in BucketKeys : failed'[j] = failed[j]
  BY <1>3 DEF ThrottleInv, ThrottleRecords
<1>10. bucket[k] \in Nat /\ failed[k] \in Nat /\ Cardinality(Reserved(k)) \in Nat /\ Burst[k] \in Nat /\ bucket[k] <= Burst[k]
  BY <1>0, CountsTyped
<1>11. ~CountsFor(check[c], k) /\ (CountsFor(new, k) <=> ~known)
  BY <1>0, <1>7 DEF CountsFor
<1>12. /\ CountsFor(new, k) => Cardinality(Reserved(k)') = Cardinality(Reserved(k)) + 1
       /\ ~CountsFor(new, k) => Cardinality(Reserved(k)') = Cardinality(Reserved(k))
  BY <1>0, <1>8, <1>11, ReservedMoves
<1>13. MapKept /\ (\A j \in BucketKeys \ forgotten' : j # k => bucket'[j] = bucket[j])
       /\ bucket'[k] = IF known THEN bucket[k] ELSE bucket[k] - 1
  <2>1. CASE known
    BY <1>0, <2>1, UntouchedKeeps DEF Verify
  <2>2. CASE ~known
    <3>1. bucket[k] >= 1 /\ Touch(k) /\ bucket' = Level(k, bucket[k] - 1)
      BY <2>2 DEF Verify
    <3>2. bucket[k] - 1 \in Nat /\ bucket[k] - 1 <= Burst[k]
      BY <1>10, <3>1
    <3> QED BY <1>0, <2>2, <3>1, <3>2, LevelKeeps
  <2> QED BY <2>1, <2>2
<1>14. EvenFor(k)
  <2>1. Total(k)' = bucket'[k] + failed'[k] + Cardinality(Reserved(k)')
    BY <1>0, <1>9, <1>13, CountsMove
  <2>2. Total(k)' = Total(k) /\ Total(k) \in Nat
    <3>1. CASE known
      BY <1>0, <1>9, <1>10, <1>11, <1>12, <1>13, <2>1, <3>1 DEF Total
    <3>2. CASE ~known
      BY <1>0, <1>9, <1>10, <1>11, <1>12, <1>13, <2>1, <3>2 DEF Total
    <3> QED BY <3>1, <3>2
  <2> QED BY <2>2 DEF EvenFor
<1>15. \A j \in BucketKeys \ forgotten' : EvenFor(j)
  BY <1>0, <1>7, <1>8, <1>9, <1>13, <1>14, EvenElsewhere
<1> QED BY <1>3, <1>4, <1>9, <1>13, <1>15, Assembled

LEMMA StepRefused ==
  ASSUME ThrottleInv, NEW k \in BucketKeys, VerifyRefused(k)
  PROVE  ThrottleInv'
<1>1. bucket[k] \in Nat /\ Burst[k] \in Nat /\ bucket[k] <= Burst[k]
  BY CountsTyped
<1>2. Touch(k) /\ bucket' = Level(k, bucket[k]) /\ UNCHANGED <<slot, worker, check, refills, failed>>
  BY DEF VerifyRefused
<1>3. MapKept /\ \A j \in BucketKeys \ forgotten' : bucket'[j] = bucket[j]
  BY <1>1, <1>2, LevelKeeps
<1>4. CallsKept
  BY <1>2, CallsStay
<1>5. failed' \in [BucketKeys -> Nat]
  BY <1>2 DEF ThrottleInv, ThrottleRecords
<1>6. ASSUME NEW j \in BucketKeys \ forgotten' PROVE EvenFor(j)
  <2>1. /\ bucket[j] \in Nat /\ failed[j] \in Nat /\ Cardinality(Reserved(j)) \in Nat
    BY CountsTyped
  <2>2. Total(j)' = bucket'[j] + failed'[j] + Cardinality(Reserved(j)') /\ Reserved(j)' = Reserved(j)
    BY <1>2, <1>3, <1>5, CountsMove DEF Reserved
  <2>3. Total(j)' = Total(j) /\ Total(j) \in Nat
    BY <1>2, <1>3, <2>1, <2>2 DEF Total
  <2> QED BY <2>3 DEF EvenFor
<1> QED BY <1>2, <1>3, <1>4, <1>5, <1>6, Assembled


\* The four ways a step moves the attempts of a call's key.
LEMMA EvenAt ==
  ASSUME ThrottleInv, MapKept, failed' \in [BucketKeys -> Nat], NEW k \in BucketKeys,
         NEW c \in Checks, NEW row, check' = [check EXCEPT ![c] = row],
         \/ /\ CountsFor(row, k) <=> CountsFor(check[c], k)
            /\ bucket'[k] = bucket[k] /\ failed'[k] = failed[k]
         \/ /\ CountsFor(row, k) /\ ~CountsFor(check[c], k)
            /\ bucket'[k] = bucket[k] - 1 /\ failed'[k] = failed[k]
         \/ /\ ~CountsFor(row, k) /\ CountsFor(check[c], k)
            /\ bucket'[k] = bucket[k] /\ failed'[k] = failed[k] + 1
         \/ /\ ~CountsFor(row, k) /\ CountsFor(check[c], k)
            /\ bucket'[k] <= bucket[k] + 1 /\ (bucket'[k] = bucket[k] + 1 \/ bucket'[k] = Burst[k])
            /\ failed'[k] = failed[k]
  PROVE  EvenFor(k)
<1>1. /\ bucket[k] \in Nat /\ failed[k] \in Nat /\ Cardinality(Reserved(k)) \in Nat /\ Burst[k] \in Nat
      /\ bucket'[k] \in Nat /\ failed'[k] \in Nat /\ Cardinality(Reserved(k)') \in Nat
      /\ Total(k)' = bucket'[k] + failed'[k] + Cardinality(Reserved(k)')
      /\ Total(k) = bucket[k] + failed[k] + Cardinality(Reserved(k))
  BY CountsTyped, CountsMove DEF Total
<1>2. check \in [Checks -> CheckRow]
  BY DEF ThrottleInv, ThrottleRecords, ThrottleTypeOK
<1>3. CASE /\ CountsFor(row, k) <=> CountsFor(check[c], k)
           /\ bucket'[k] = bucket[k] /\ failed'[k] = failed[k]
  <2>1. Cardinality(Reserved(k)') = Cardinality(Reserved(k))
    BY <1>2, <1>3, ReservedMoves
  <2>2. Total(k)' = Total(k) /\ Total(k) \in Nat
    BY <1>1, <1>3, <2>1
  <2> QED BY <2>2 DEF EvenFor
<1>4. CASE /\ CountsFor(row, k) /\ ~CountsFor(check[c], k)
           /\ bucket'[k] = bucket[k] - 1 /\ failed'[k] = failed[k]
  <2>1. Cardinality(Reserved(k)') = Cardinality(Reserved(k)) + 1
    BY <1>2, <1>4, ReservedMoves
  <2>2. Total(k)' = Total(k) /\ Total(k) \in Nat
    BY <1>1, <1>4, <2>1
  <2> QED BY <2>2 DEF EvenFor
<1>5. CASE /\ ~CountsFor(row, k) /\ CountsFor(check[c], k)
           /\ bucket'[k] = bucket[k] /\ failed'[k] = failed[k] + 1
  <2>1. Cardinality(Reserved(k)') + 1 = Cardinality(Reserved(k))
    BY <1>2, <1>5, ReservedMoves
  <2>2. Total(k)' = Total(k) /\ Total(k) \in Nat
    BY <1>1, <1>5, <2>1
  <2> QED BY <2>2 DEF EvenFor
<1>6. CASE /\ ~CountsFor(row, k) /\ CountsFor(check[c], k)
           /\ bucket'[k] <= bucket[k] + 1 /\ (bucket'[k] = bucket[k] + 1 \/ bucket'[k] = Burst[k])
           /\ failed'[k] = failed[k]
  <2>1. Cardinality(Reserved(k)') + 1 = Cardinality(Reserved(k))
    BY <1>2, <1>6, ReservedMoves
  <2>2. Total(k)' <= Total(k) /\ (Total(k) <= Total(k)' \/ bucket'[k] = Burst[k])
    BY <1>1, <1>6, <2>1
  <2> QED BY <2>2 DEF EvenFor
<1> QED BY <1>3, <1>4, <1>5, <1>6

LEMMA StepScanBegins ==
  ASSUME ThrottleInv, NEW c \in Checks, NEW n \in 1 .. ScanRows, NEW right \in BOOLEAN, ScanBegins(c, n, right)
  PROVE  ThrottleInv'
<1> DEFINE k == ScanKey
<1>0. k \in BucketKeys /\ check \in [Checks -> CheckRow] /\ check[c].stage = "idle" /\ n \in 0 .. ScanRows
  BY ThrottleNumbers DEF ThrottleInv, ThrottleRecords, ThrottleTypeOK, ScanBegins
<1>1. PICK row : row = [NoCheck EXCEPT !.stage = "scan", !.reserved = TRUE, !.rows = n, !.right = right]
  OBVIOUS
<1>2. row \in CheckRow /\ row.stage = "scan" /\ row.key = k /\ row.reserved = TRUE
  BY <1>0, <1>1, RestTyped DEF CheckRow, NoCheck
<1>3. check' = [check EXCEPT ![c] = row] /\ UNCHANGED <<slot, worker, refills, failed>>
      /\ bucket[k] >= 1 /\ Touch(k) /\ bucket' = Level(k, bucket[k] - 1)
  BY <1>1 DEF ScanBegins
<1>4. CallsKept
  BY <1>2, <1>3, CallSettles
<1>5. failed' \in [BucketKeys -> Nat] /\ \A j \in BucketKeys : failed'[j] = failed[j]
  BY <1>3 DEF ThrottleInv, ThrottleRecords
<1>6. bucket[k] - 1 \in Nat /\ bucket[k] - 1 <= Burst[k]
  <2>1. bucket[k] \in Nat /\ Burst[k] \in Nat /\ bucket[k] <= Burst[k]
    BY <1>0, CountsTyped
  <2> QED BY <1>3, <2>1
<1>7. MapKept /\ bucket'[k] = bucket[k] - 1 /\ \A j \in BucketKeys \ forgotten' : j # k => bucket'[j] = bucket[j]
  BY <1>0, <1>3, <1>6, LevelKeeps
<1>8. CountsFor(row, k) /\ ~CountsFor(check[c], k)
  BY <1>0, <1>2 DEF CountsFor
<1>9. EvenFor(k)
  BY <1>0, <1>3, <1>5, <1>7, <1>8, EvenAt
<1>10. \A j \in BucketKeys \ forgotten' : EvenFor(j)
  BY <1>0, <1>2, <1>3, <1>5, <1>7, <1>9, EvenElsewhere
<1> QED BY <1>3, <1>4, <1>5, <1>7, <1>10, Assembled

LEMMA StepScanRow ==
  ASSUME ThrottleInv, NEW c \in Checks, ScanRow(c)
  PROVE  ThrottleInv'
<1> DEFINE k == ScanKey
<1>0. /\ k \in BucketKeys /\ check \in [Checks -> CheckRow] /\ check[c] \in CheckRow
      /\ check[c].stage = "scan" /\ check[c].rows > 0 /\ check[c].key = k /\ check[c].reserved
  BY ThrottleNumbers DEF ThrottleInv, ThrottleRecords, ThrottleTypeOK, ScanReserved, ScanRow
<1>1. PICK row : row = [check[c] EXCEPT !.rows = @ - 1]
  OBVIOUS
<1>2. row \in CheckRow /\ row.stage = "scan" /\ row.key = k /\ row.reserved
  <2>1. check[c].rows - 1 \in 0 .. ScanRows
    BY <1>0, ThrottleNumbers DEF CheckRow
  <2> QED BY <1>0, <1>1, <2>1 DEF CheckRow
<1>3. /\ Untouched /\ UNCHANGED <<refills, failed>>
      /\ IF PoolFull THEN check' = [check EXCEPT ![c] = row] /\ UNCHANGED <<slot, worker>>
                     ELSE Submitted(c, [row EXCEPT !.stage = "compare"])
  BY <1>1 DEF ScanRow
<1>4. CallsKept /\ \E new \in CheckRow : /\ check' = [check EXCEPT ![c] = new]
                                         /\ new.stage # "idle" /\ new.key = k /\ new.reserved
  <2>1. CASE PoolFull
    <3>1. check' = [check EXCEPT ![c] = row] /\ UNCHANGED <<slot, worker>>
      BY <1>3, <2>1
    <3>2. CallsKept
      BY <1>2, <3>1, CallSettles
    <3> QED BY <1>2, <3>1, <3>2
  <2>2. CASE ~PoolFull
    <3>1. PICK asked : asked = [row EXCEPT !.stage = "compare"]
      OBVIOUS
    <3>2. asked \in CheckRow /\ asked.stage = "compare" /\ asked.key = k /\ asked.reserved
      BY <1>2, <3>1 DEF CheckRow
    <3>3. Submitted(c, asked)
      BY <1>3, <2>2, <3>1
    <3>4. CallsKept /\ \E w \in 1 .. MaxWorkers : check' = [check EXCEPT ![c] = [asked EXCEPT !.worker = w]]
      BY <1>0, <2>2, <3>2, <3>3, CallSubmits
    <3>5. PICK w \in 1 .. MaxWorkers : check' = [check EXCEPT ![c] = [asked EXCEPT !.worker = w]]
      BY <3>4
    <3>6. PICK new : new = [asked EXCEPT !.worker = w]
      OBVIOUS
    <3>7. new \in CheckRow /\ new.stage # "idle" /\ new.key = k /\ new.reserved
      BY <3>2, <3>6, ThrottleNumbers DEF CheckRow
    <3> QED BY <3>4, <3>5, <3>6, <3>7
  <2> QED BY <2>1, <2>2
<1>5. PICK new \in CheckRow : check' = [check EXCEPT ![c] = new] /\ new.stage # "idle" /\ new.key = k /\ new.reserved
  BY <1>4
<1>6. failed' \in [BucketKeys -> Nat] /\ \A j \in BucketKeys : failed'[j] = failed[j]
  BY <1>3 DEF ThrottleInv, ThrottleRecords
<1>7. MapKept /\ \A j \in BucketKeys : bucket'[j] = bucket[j]
  BY <1>3, UntouchedKeeps
<1>8. CountsFor(new, k) /\ CountsFor(check[c], k)
  BY <1>0, <1>5 DEF CountsFor
<1>9. EvenFor(k)
  BY <1>0, <1>5, <1>6, <1>7, <1>8, EvenAt
<1>10. \A j \in BucketKeys \ forgotten' : EvenFor(j)
  BY <1>0, <1>5, <1>6, <1>7, <1>9, EvenElsewhere
<1> QED BY <1>3, <1>4, <1>6, <1>7, <1>10, Assembled

\* An attempt that stays spent.
LEMMA FailingCounts ==
  ASSUME ThrottleInv, NEW k \in BucketKeys, Failing(k), Untouched
  PROVE  /\ failed' \in [BucketKeys -> Nat] /\ (\A j \in BucketKeys : j # k => failed'[j] = failed[j])
         /\ k \notin forgotten' => failed'[k] = failed[k] + 1
<1>1. failed \in [BucketKeys -> Nat] /\ forgotten' = forgotten
  BY DEF ThrottleInv, ThrottleRecords, Untouched
<1>2. CASE k \in forgotten
  BY <1>1, <1>2 DEF Failing
<1>3. CASE k \notin forgotten
  <2>1. failed' = [failed EXCEPT ![k] = failed[k] + 1] /\ failed[k] + 1 \in Nat
    BY <1>1, <1>3 DEF Failing
  <2> QED BY <1>1, <1>3, <2>1
<1> QED BY <1>2, <1>3

LEMMA StepScanEnds ==
  ASSUME ThrottleInv, NEW c \in Checks, ScanEnds(c)
  PROVE  ThrottleInv'
<1> DEFINE k == ScanKey
<1>0. /\ k \in BucketKeys /\ check[c].stage = "scan" /\ check[c].key = k /\ check[c].reserved
      /\ check' = [check EXCEPT ![c] = NoCheck] /\ UNCHANGED <<slot, worker, refills>>
  BY ThrottleNumbers DEF ThrottleInv, ScanReserved, ScanEnds
<1>1. NoCheck \in CheckRow /\ NoCheck.stage = "idle"
  BY RestTyped
<1>2. CallsKept
  BY <1>0, <1>1, CallSettles
<1>3. CountsFor(check[c], k) /\ ~CountsFor(NoCheck, k)
  BY <1>0, <1>1 DEF CountsFor
<1>4. CASE check[c].compared
  <2>1. Untouched /\ Failing(k)
    BY <1>4 DEF ScanEnds
  <2>2. /\ failed' \in [BucketKeys -> Nat] /\ (\A j \in BucketKeys : j # k => failed'[j] = failed[j])
        /\ k \notin forgotten' => failed'[k] = failed[k] + 1
    BY <1>0, <2>1, FailingCounts
  <2>3. MapKept /\ \A j \in BucketKeys : bucket'[j] = bucket[j]
    BY <2>1, UntouchedKeeps
  <2>4. k \notin forgotten' => EvenFor(k)
    BY <1>0, <1>3, <2>2, <2>3, EvenAt
  <2>5. \A j \in BucketKeys \ forgotten' : EvenFor(j)
    BY <1>0, <1>1, <2>2, <2>3, <2>4, EvenElsewhere
  <2> QED BY <1>0, <1>2, <2>2, <2>3, <2>5, Assembled
<1>5. CASE ~check[c].compared
  <2>1. Refund(k) /\ UNCHANGED failed
    BY <1>5 DEF ScanEnds
  <2>2. failed' \in [BucketKeys -> Nat] /\ \A j \in BucketKeys : failed'[j] = failed[j]
    BY <2>1 DEF ThrottleInv, ThrottleRecords
  <2>3. /\ MapKept /\ bucket'[k] <= bucket[k] + 1 /\ (bucket'[k] = bucket[k] + 1 \/ bucket'[k] = Burst[k])
        /\ \A j \in BucketKeys \ forgotten' : j # k => bucket'[j] = bucket[j]
    BY <1>0, <2>1, RefundKeeps
  <2>4. EvenFor(k)
    BY <1>0, <1>3, <2>2, <2>3, EvenAt
  <2>5. \A j \in BucketKeys \ forgotten' : EvenFor(j)
    BY <1>0, <1>1, <2>2, <2>3, <2>4, EvenElsewhere
  <2> QED BY <1>0, <1>2, <2>2, <2>3, <2>5, Assembled
<1> QED BY <1>4, <1>5


\* A compare that is over: its attempt goes back, stays with the call, or is spent.
LEMMA SettledCall ==
  ASSUME ThrottleInv, NEW c \in Checks, NEW row \in CheckRow, check[c].stage = "compare",
         row.stage = "idle" \/ (row.stage = "scan" /\ row.key = ScanKey /\ row.reserved /\ check[c].key = ScanKey),
         check' = [check EXCEPT ![c] = row], UNCHANGED <<slot, worker, refills>>,
         \/ Refund(check[c].key) /\ UNCHANGED failed /\ check[c].reserved /\ row.stage = "idle"
         \/ Untouched /\ UNCHANGED failed /\ (check[c].reserved <=> row.stage = "scan")
         \/ Untouched /\ Failing(check[c].key) /\ check[c].reserved /\ row.stage = "idle"
  PROVE  ThrottleInv'
<1>0. PICK k \in BucketKeys : k = check[c].key
  BY DEF ThrottleInv, ThrottleRecords, ThrottleTypeOK, CheckRow
<1>1. CallsKept
  BY CallSettles
<1>2. /\ CountsFor(check[c], k) <=> check[c].reserved
      /\ CountsFor(row, k) <=> row.stage = "scan"
      /\ row.stage # "idle" => row.key = k
  BY <1>0 DEF CountsFor
<1>3. CASE Refund(check[c].key) /\ UNCHANGED failed /\ check[c].reserved /\ row.stage = "idle"
  <2>1. failed' \in [BucketKeys -> Nat] /\ \A j \in BucketKeys : failed'[j] = failed[j]
    BY <1>3 DEF ThrottleInv, ThrottleRecords
  <2>2. /\ MapKept /\ bucket'[k] <= bucket[k] + 1 /\ (bucket'[k] = bucket[k] + 1 \/ bucket'[k] = Burst[k])
        /\ \A j \in BucketKeys \ forgotten' : j # k => bucket'[j] = bucket[j]
    BY <1>0, <1>3, RefundKeeps
  <2>3. CountsFor(check[c], k) /\ ~CountsFor(row, k)
    BY <1>2, <1>3
  <2>4. EvenFor(k)
    BY <2>1, <2>2, <2>3, EvenAt
  <2>5. \A j \in BucketKeys \ forgotten' : EvenFor(j)
    BY <1>0, <1>2, <2>1, <2>2, <2>4, EvenElsewhere
  <2> QED BY <1>1, <2>1, <2>2, <2>5, Assembled
<1>4. CASE Untouched /\ UNCHANGED failed /\ (check[c].reserved <=> row.stage = "scan")
  <2>1. failed' \in [BucketKeys -> Nat] /\ \A j \in BucketKeys : failed'[j] = failed[j]
    BY <1>4 DEF ThrottleInv, ThrottleRecords
  <2>2. MapKept /\ \A j \in BucketKeys : bucket'[j] = bucket[j]
    BY <1>4, UntouchedKeeps
  <2>3. CountsFor(row, k) <=> CountsFor(check[c], k)
    BY <1>2, <1>4
  <2>4. EvenFor(k)
    BY <2>1, <2>2, <2>3, EvenAt
  <2>5. \A j \in BucketKeys \ forgotten' : EvenFor(j)
    BY <1>0, <1>2, <2>1, <2>2, <2>4, EvenElsewhere
  <2> QED BY <1>1, <2>1, <2>2, <2>5, Assembled
<1>5. CASE Untouched /\ Failing(check[c].key) /\ check[c].reserved /\ row.stage = "idle"
  <2>1. /\ failed' \in [BucketKeys -> Nat] /\ (\A j \in BucketKeys : j # k => failed'[j] = failed[j])
        /\ k \notin forgotten' => failed'[k] = failed[k] + 1
    BY <1>0, <1>5, FailingCounts
  <2>2. MapKept /\ \A j \in BucketKeys : bucket'[j] = bucket[j]
    BY <1>5, UntouchedKeeps
  <2>3. CountsFor(check[c], k) /\ ~CountsFor(row, k)
    BY <1>2, <1>5
  <2>4. k \notin forgotten' => EvenFor(k)
    BY <2>1, <2>2, <2>3, EvenAt
  <2>5. \A j \in BucketKeys \ forgotten' : EvenFor(j)
    BY <1>0, <1>2, <2>1, <2>2, <2>4, EvenElsewhere
  <2> QED BY <1>1, <2>1, <2>2, <2>5, Assembled
<1> QED BY <1>3, <1>4, <1>5

\* What a scan's call becomes when a compare is over and the row was not the owner's.
LEMMA BackToScan ==
  ASSUME ThrottleInv, NEW c \in Checks, check[c].stage = "compare", check[c].key = ScanKey, NEW row,
         row = [check[c] EXCEPT !.stage = "scan", !.worker = NoWorker, !.compared = TRUE]
  PROVE  row \in CheckRow /\ row.stage = "scan" /\ row.key = ScanKey /\ row.reserved /\ check[c].reserved
<1>1. check[c] \in CheckRow /\ check[c].reserved
  BY DEF ThrottleInv, ThrottleRecords, ThrottleTypeOK, ScanReserved
<1> QED BY <1>1, ThrottleNumbers DEF CheckRow

LEMMA StepAnswered ==
  ASSUME ThrottleInv, NEW c \in Checks, Answered(c)
  PROVE  ThrottleInv'
<1>0. PICK k : k = check[c]
  OBVIOUS
<1>1. PICK ok \in BOOLEAN : ok <=> k.right /\ (k.key = ScanKey => k.rows = 0)
  OBVIOUS
<1>2. PICK row : row = IF k.key = ScanKey /\ ~ok
                       THEN [k EXCEPT !.stage = "scan", !.worker = NoWorker, !.compared = TRUE]
                       ELSE NoCheck
  OBVIOUS
<1>3. /\ k.stage = "compare" /\ UNCHANGED <<slot, worker, refills>>
      /\ check' = [check EXCEPT ![c] = row]
      /\ IF ok /\ k.reserved THEN Refund(k.key) ELSE Untouched
      /\ IF ok \/ k.key = ScanKey \/ ~k.reserved THEN UNCHANGED failed ELSE Failing(k.key)
  BY <1>0, <1>1, <1>2 DEF Answered, GivesBack
<1>4. CASE k.key = ScanKey /\ ~ok
  <2>1. row \in CheckRow /\ row.stage = "scan" /\ row.key = ScanKey /\ row.reserved /\ check[c].reserved
    BY <1>0, <1>2, <1>3, <1>4, BackToScan
  <2>2. Untouched /\ UNCHANGED failed
    BY <1>3, <1>4
  <2> QED BY <1>0, <1>3, <1>4, <2>1, <2>2, SettledCall
<1>5. CASE ~(k.key = ScanKey /\ ~ok)
  <2>1. row = NoCheck /\ row \in CheckRow /\ row.stage = "idle"
    BY <1>2, <1>5, RestTyped
  <2>2. k.key = ScanKey => k.reserved
    BY <1>0, <1>3 DEF ThrottleInv, ScanReserved
  <2>3. CASE ok /\ k.reserved
    <3>1. Refund(check[c].key) /\ UNCHANGED failed /\ check[c].reserved /\ row.stage = "idle"
      BY <1>0, <1>3, <2>1, <2>3
    <3> QED BY <1>0, <1>3, <2>1, <3>1, SettledCall
  <2>4. CASE ~k.reserved
    <3>1. Untouched /\ UNCHANGED failed /\ ~check[c].reserved /\ row.stage # "scan"
      BY <1>0, <1>3, <2>1, <2>4
    <3> QED BY <1>0, <1>3, <2>1, <3>1, SettledCall
  <2>5. CASE ~ok /\ k.reserved
    <3>1. Untouched /\ Failing(check[c].key) /\ check[c].reserved /\ row.stage = "idle"
      BY <1>0, <1>3, <1>5, <2>1, <2>5
    <3> QED BY <1>0, <1>3, <2>1, <3>1, SettledCall
  <2> QED BY <2>3, <2>4, <2>5
<1> QED BY <1>4, <1>5

LEMMA StepLosesWorker ==
  ASSUME ThrottleInv, NEW c \in Checks, LosesWorker(c)
  PROVE  ThrottleInv'
<1>0. PICK k : k = check[c]
  OBVIOUS
<1>1. PICK row : row = Rejected(c)
  OBVIOUS
<1>2. /\ k.stage = "compare" /\ UNCHANGED <<slot, worker, refills, failed>>
      /\ check' = [check EXCEPT ![c] = row]
      /\ IF k.key # ScanKey /\ k.reserved THEN Refund(k.key) ELSE Untouched
  BY <1>0, <1>1 DEF LosesWorker, Orphaned, LossGivesBack
<1>3. CASE k.key = ScanKey
  <2>1. row = [check[c] EXCEPT !.stage = "scan", !.worker = NoWorker, !.compared = TRUE]
    BY <1>0, <1>1, <1>3 DEF Rejected
  <2>2. row \in CheckRow /\ row.stage = "scan" /\ row.key = ScanKey /\ row.reserved /\ check[c].reserved
    BY <1>0, <1>2, <1>3, <2>1, BackToScan
  <2>3. Untouched
    BY <1>2, <1>3
  <2> QED BY <1>0, <1>2, <1>3, <2>2, <2>3, SettledCall
<1>4. CASE k.key # ScanKey
  <2>1. row = NoCheck /\ row \in CheckRow /\ row.stage = "idle"
    BY <1>0, <1>1, <1>4, RestTyped DEF Rejected
  <2>2. CASE k.reserved
    <3>1. Refund(check[c].key) /\ UNCHANGED failed /\ check[c].reserved /\ row.stage = "idle"
      BY <1>0, <1>2, <1>4, <2>1, <2>2
    <3> QED BY <1>0, <1>2, <2>1, <3>1, SettledCall
  <2>3. CASE ~k.reserved
    <3>1. Untouched /\ UNCHANGED failed /\ ~check[c].reserved /\ row.stage # "scan"
      BY <1>0, <1>2, <2>1, <2>3
    <3> QED BY <1>0, <1>2, <2>1, <3>1, SettledCall
  <2> QED BY <2>2, <2>3
<1> QED BY <1>3, <1>4

LEMMA StepWorkerDies ==
  ASSUME ThrottleInv, NEW w \in 1 .. MaxWorkers, WorkerFails(w) \/ WorkerExits(w)
  PROVE  ThrottleInv'
<1>1. WorkerDies(w, "failing") \/ WorkerDies(w, "exited")
  BY DEF WorkerFails, WorkerExits
<1>2. CallsKept
  BY <1>1, DeathKeeps
<1>3. Untouched /\ UNCHANGED <<check, refills, failed>>
  BY <1>1 DEF WorkerDies
<1>4. failed' \in [BucketKeys -> Nat] /\ \A j \in BucketKeys : failed'[j] = failed[j]
  BY <1>3 DEF ThrottleInv, ThrottleRecords
<1>5. MapKept /\ \A j \in BucketKeys : bucket'[j] = bucket[j]
  BY <1>3, UntouchedKeeps
<1>6. ASSUME NEW j \in BucketKeys \ forgotten' PROVE EvenFor(j)
  <2>1. /\ bucket[j] \in Nat /\ failed[j] \in Nat /\ Cardinality(Reserved(j)) \in Nat
    BY CountsTyped
  <2>2. Total(j)' = bucket'[j] + failed'[j] + Cardinality(Reserved(j)') /\ Reserved(j)' = Reserved(j)
    BY <1>3, <1>4, <1>5, CountsMove DEF Reserved
  <2>3. Total(j)' = Total(j) /\ Total(j) \in Nat
    BY <1>4, <1>5, <2>1, <2>2 DEF Total
  <2> QED BY <2>3 DEF EvenFor
<1> QED BY <1>2, <1>3, <1>4, <1>5, <1>6, Assembled

LEMMA StepRefill ==
  ASSUME ThrottleInv, Refill
  PROVE  ThrottleInv'
<1>1. /\ refills < MaxRefills /\ refills' = refills + 1 /\ UNCHANGED <<recent, slot, worker, check, failed, forgotten>>
      /\ bucket' = [k \in BucketKeys |-> IF bucket[k] < Burst[k] THEN bucket[k] + 1 ELSE Burst[k]]
  BY DEF Refill
<1>2. CallsKept
  BY <1>1, CallsStay
<1>3. refills' \in 0 .. MaxRefills /\ refills \in Nat
  BY <1>1, ThrottleNumbers DEF ThrottleInv, ThrottleRecords, ThrottleTypeOK
<1>4. ASSUME NEW k \in BucketKeys
      PROVE  /\ bucket'[k] \in Nat /\ bucket'[k] <= Burst[k] /\ bucket[k] <= bucket'[k]
             /\ bucket'[k] <= bucket[k] + 1 /\ (bucket[k] = Burst[k] => bucket'[k] = Burst[k])
  <2>1. bucket[k] \in Nat /\ Burst[k] \in Nat /\ bucket[k] <= Burst[k]
    BY CountsTyped
  <2>2. bucket'[k] = IF bucket[k] < Burst[k] THEN bucket[k] + 1 ELSE Burst[k]
    BY <1>1
  <2> QED BY <2>1, <2>2
<1>5. bucket' \in [BucketKeys -> Nat]
  <2>1. DOMAIN bucket' = BucketKeys /\ bucket' = [k \in BucketKeys |-> bucket'[k]]
    BY <1>1
  <2> QED BY <1>4, <2>1
<1>6. ThrottleRecords' /\ UnusedFull' /\ ScanReserved' /\ InHome' /\ PoolBounded'
  <2>1. ThrottleRecords /\ UnusedFull
    BY DEF ThrottleInv
  <2>2. UnusedFull'
    BY <1>1, <1>4, <2>1 DEF UnusedFull
  <2>3. ThrottleRecords'
    BY <1>1, <1>2, <1>3, <1>4, <1>5, <2>1 DEF ThrottleRecords, ThrottleTypeOK, CallsKept
  <2> QED BY <1>2, <2>2, <2>3 DEF CallsKept
<1>7. ASSUME NEW k \in BucketKeys \ forgotten
      PROVE  /\ bucket'[k] + failed[k] + Cardinality(Reserved(k)) <= Burst[k] + refills'
             /\ k \in Sources => bucket'[k] + Cardinality(Reserved(k)) + failed[k] >= Burst[k]
  <2>1. /\ bucket[k] \in Nat /\ failed[k] \in Nat /\ Cardinality(Reserved(k)) \in Nat /\ Burst[k] \in Nat
        /\ bucket'[k] \in Nat /\ bucket[k] <= bucket'[k] /\ bucket'[k] <= bucket[k] + 1
    BY <1>4, CountsTyped
  <2>2. /\ bucket[k] + failed[k] + Cardinality(Reserved(k)) <= Burst[k] + refills
        /\ k \in Sources => bucket[k] + Cardinality(Reserved(k)) + failed[k] >= Burst[k]
    BY DEF ThrottleInv, Conserved, OnlyFailuresSpend
  <2> QED BY <1>1, <1>3, <2>1, <2>2
<1>8. \A k : Reserved(k)' = Reserved(k)
  BY <1>1 DEF Reserved
<1>9. Conserved' /\ OnlyFailuresSpend'
  BY <1>1, <1>7, <1>8, ThrottleNumbers DEF Conserved, OnlyFailuresSpend
<1> QED BY <1>6, <1>9 DEF ThrottleInv

LEMMA ThrottleStarts == ThrottleInit => ThrottleInv
<1> SUFFICES ASSUME ThrottleInit PROVE ThrottleInv
  OBVIOUS
<1>1. /\ bucket = Burst /\ recent = <<>> /\ slot = [i \in Slots |-> NoWorker]
      /\ worker = [w \in 1 .. MaxWorkers |-> NoneYet] /\ check = [c \in Checks |-> NoCheck]
      /\ refills = 0 /\ failed = [k \in BucketKeys |-> 0] /\ forgotten = {}
  BY DEF ThrottleInit
<1>2. recent \in Seq(BucketKeys) /\ Len(recent) = 0 /\ DOMAIN recent = {} /\ ToSet(recent) = {} /\ IsInjective(recent)
  <2>1. recent \in Seq(BucketKeys) /\ Len(recent) = 0
    BY <1>1
  <2>2. DOMAIN recent = {}
    BY <2>1, LenProperties
  <2> QED BY <2>1, <2>2 DEF ToSet, IsInjective
<1>3. NoneYet \in WorkerRow /\ NoneYet.state = "exited"
  BY ThrottleNumbers DEF NoneYet, WorkerRow
<1>4. ThrottleTypeOK
  <2>1. \A k \in BucketKeys : bucket[k] <= Burst[k]
    <3> TAKE k \in BucketKeys
    <3>1. Burst[k] \in Nat
      BY ThrottleNumbers
    <3> QED BY <1>1, <3>1
  <2>2. bucket \in [BucketKeys -> Nat]
    BY <1>1, ThrottleNumbers
  <2>3. refills \in 0 .. MaxRefills /\ Len(recent) <= MaxKeys
    BY <1>1, <1>2, ThrottleNumbers
  <2>4. check \in [Checks -> CheckRow]
    BY <1>1, RestTyped
  <2> QED BY <1>1, <1>2, <1>3, <2>1, <2>2, <2>3, <2>4, ThrottleNumbers DEF ThrottleTypeOK
<1>5. ThrottleRecords /\ UnusedFull
  BY <1>1, <1>2, <1>4 DEF ThrottleRecords, UnusedFull
<1>6. \A c \in Checks : check[c].stage = "idle"
  BY <1>1, RestTyped
<1>7. ScanReserved /\ InHome
  BY <1>1, <1>3, <1>6 DEF ScanReserved, InHome
<1>8. PoolBounded
  <2>1. ComparesOn = {}
    BY <1>6 DEF ComparesOn
  <2>2. Cardinality(ComparesOn) <= MaxPending
    BY <2>1, FS_EmptySet, ThrottleNumbers
  <2> QED BY <2>2 DEF PoolBounded, ComparesOn
<1>9. Conserved /\ OnlyFailuresSpend
  <2>1. \A k : Reserved(k) = {}
    BY <1>6 DEF Reserved
  <2>2. Cardinality({}) = 0
    BY FS_EmptySet
  <2>3. ASSUME NEW k \in BucketKeys
        PROVE  /\ bucket[k] + failed[k] + Cardinality(Reserved(k)) <= Burst[k] + refills
               /\ bucket[k] + Cardinality(Reserved(k)) + failed[k] >= Burst[k]
    <3>1. bucket[k] = Burst[k] /\ failed[k] = 0 /\ Cardinality(Reserved(k)) = 0 /\ refills = 0 /\ Burst[k] \in Nat
      BY <1>1, <2>1, <2>2, ThrottleNumbers
    <3> QED BY <3>1
  <2> QED BY <2>3, ThrottleNumbers DEF Conserved, OnlyFailuresSpend
<1> QED BY <1>5, <1>7, <1>8, <1>9 DEF ThrottleInv

LEMMA ThrottleKept == ThrottleInv /\ [ThrottleNext]_throttleVars => ThrottleInv'
<1> SUFFICES ASSUME ThrottleInv, [ThrottleNext]_throttleVars PROVE ThrottleInv'
  OBVIOUS
<1>1. ASSUME NEW c \in Checks, NEW k \in Sources, NEW known \in BOOLEAN, NEW right \in BOOLEAN,
             Verify(c, k, known, right)
      PROVE  ThrottleInv'
  BY <1>1, StepVerify
<1>2. ASSUME NEW c \in Checks, NEW n \in 1 .. ScanRows, NEW right \in BOOLEAN, ScanBegins(c, n, right)
      PROVE  ThrottleInv'
  BY <1>2, StepScanBegins
<1>3. ASSUME NEW c \in Checks, CheckStep(c) PROVE ThrottleInv'
  BY <1>3, StepScanRow, StepScanEnds, StepAnswered, StepLosesWorker DEF CheckStep
<1>4. ASSUME NEW k \in BucketKeys, VerifyRefused(k) PROVE ThrottleInv'
  BY <1>4, StepRefused
<1>5. ASSUME NEW w \in 1 .. MaxWorkers, WorkerFails(w) \/ WorkerExits(w) PROVE ThrottleInv'
  BY <1>5, StepWorkerDies
<1>6. ASSUME Refill PROVE ThrottleInv'
  BY <1>6, StepRefill
<1>7. ASSUME UNCHANGED throttleVars PROVE ThrottleInv'
  BY <1>7 DEF throttleVars, ThrottleInv, ThrottleRecords, ThrottleTypeOK, UnusedFull, ScanReserved, InHome,
              Conserved, OnlyFailuresSpend, PoolBounded, Reserved
<1> QED BY <1>1, <1>2, <1>3, <1>4, <1>5, <1>6, <1>7 DEF ThrottleNext

LEMMA AttemptsFollow == ThrottleInv => AttemptsAccounted
<1> SUFFICES ASSUME ThrottleInv PROVE AttemptsAccounted
  OBVIOUS
<1>1. ASSUME NEW k \in BucketKeys \ forgotten PROVE failed[k] + Cardinality(Reserved(k)) <= Burst[k] + refills
  <2>1. /\ bucket[k] \in Nat /\ failed[k] \in Nat /\ Cardinality(Reserved(k)) \in Nat
        /\ Burst[k] \in Nat /\ refills \in Nat
    BY CountsTyped
  <2>2. bucket[k] + failed[k] + Cardinality(Reserved(k)) <= Burst[k] + refills
    BY DEF ThrottleInv, Conserved
  <2> QED BY <2>1, <2>2
<1>2. AttemptsBounded
  BY <1>1 DEF AttemptsBounded
<1> QED BY <1>2 DEF AttemptsAccounted, ThrottleInv, ThrottleRecords

\* However the checks overlap and the workers die, what a source failed and still has running
\* is at most its burst and one for each refill, only failures spend an attempt, and the
\* compares that run are at most MAX_PENDING (auth-throttle.ts, bcrypt-pool.ts).
THEOREM AttemptsAreAccounted == ThrottleSpec => []AttemptsAccounted
<1>1. ThrottleInit => ThrottleInv
  BY ThrottleStarts
<1>2. ThrottleInv /\ [ThrottleNext]_throttleVars => ThrottleInv'
  BY ThrottleKept
<1>3. ThrottleInv => AttemptsAccounted
  BY AttemptsFollow
<1> QED BY <1>1, <1>2, <1>3, PTL DEF ThrottleSpec


-----------------------------------------------------------------------------
(* The outbox.  A broadcast leaves the mark of each of its mailboxes at or   *)
(* above every row it was given (BroadcastFacts).  So a row broadcast once  *)
(* stays at or below the cursor or the mark of its mailbox for as long as  *)
(* the daemon lives (ToldPassed), and a daemon that starts again sets its  *)
(* cursor to the end of the table: neither path finds the row news twice.  *)

\* A set of row ids that is not empty has a largest one.
LEMMA LargestIsMax ==
  ASSUME NEW n \in Nat, NEW S \in SUBSET (1 .. n), S # {}
  PROVE  Largest(S) \in S /\ \A j \in S : j <= Largest(S)
<1> DEFINE Upto(m) == {j \in S : j <= m}
           k == Cardinality(S)
           T == 1 .. k
           f == [m \in S |-> Cardinality(Upto(m))]
<1>1. IsFiniteSet(S) /\ k \in Nat /\ k # 0
  <2>1. IsFiniteSet(1 .. n)
    <3>1. n \in Int /\ 1 \in Int
      OBVIOUS
    <3> QED BY <3>1, FS_Interval
  <2>2. IsFiniteSet(S)
    BY <2>1, FS_Subset
  <2> QED BY <2>2, FS_CardinalityType, FS_EmptySet
<1>2. \A m \in S : m \in Int /\ Upto(m) \in SUBSET S /\ m \in Upto(m)
  OBVIOUS
<1>3. \A m \in S : IsFiniteSet(Upto(m)) /\ f[m] = Cardinality(Upto(m)) /\ f[m] \in T
  <2> SUFFICES ASSUME NEW m \in S
               PROVE  IsFiniteSet(Upto(m)) /\ f[m] = Cardinality(Upto(m)) /\ f[m] \in T
    OBVIOUS
  <2>1. f[m] = Cardinality(Upto(m))
    OBVIOUS
  <2>2. Upto(m) \in SUBSET S /\ Upto(m) # {}
    BY <1>2
  <2> HIDE DEF Upto, f
  <2>3. IsFiniteSet(Upto(m)) /\ Cardinality(Upto(m)) <= k
    BY <1>1, <2>2, FS_Subset
  <2>4. Cardinality(Upto(m)) \in Nat /\ Cardinality(Upto(m)) # 0
    BY <2>2, <2>3, FS_CardinalityType, FS_EmptySet
  <2> QED BY <1>1, <2>1, <2>3, <2>4
<1>4. \A m, j \in S : m < j => f[m] # f[j]
  <2> SUFFICES ASSUME NEW m \in S, NEW j \in S, m < j PROVE f[m] # f[j]
    OBVIOUS
  <2>1. m \in Int /\ j \in Int /\ j \in Upto(j) /\ j \notin Upto(m)
    BY <1>2
  <2>2. ASSUME NEW x \in Upto(m) PROVE x \in Upto(j)
    <3>1. x \in S /\ x <= m /\ x \in Int
      BY <1>2
    <3> QED BY <2>1, <3>1
  <2>3. Upto(m) \in SUBSET Upto(j)
    BY <2>2
  <2> HIDE DEF Upto, f
  <2> QED BY <1>3, <2>1, <2>3, FS_Subset
<1>5. \A m, j \in S : m # j => f[m] # f[j]
  <2>1. \A m, j \in S : m # j => m < j \/ j < m
    BY <1>2
  <2> HIDE DEF f
  <2> QED BY <1>4, <2>1
<1>6. f \in Injection(S, T)
  <2>1. f \in [S -> T]
    BY <1>3
  <2> HIDE DEF T
  <2> QED BY <1>5, <2>1 DEF Injection, IsInjective
<1>7. PICK m \in S : f[m] = k
  <2>1. IsFiniteSet(T) /\ Cardinality(T) = k
    BY <1>1, FS_Interval
  <2>2. f \in Surjection(S, T)
    <3> HIDE DEF T, f
    <3> QED BY <1>6, <2>1, FS_Injection
  <2>3. k \in T
    BY <1>1
  <2> HIDE DEF f, T
  <2> QED BY <2>2, <2>3 DEF Surjection
<1>8. Upto(m) = S
  <2> HIDE DEF f, Upto
  <2> QED BY <1>1, <1>2, <1>3, <1>7, FS_Subset
<1>9. \A j \in S : j <= m
  BY <1>8
<1> QED BY <1>9 DEF Largest

-----------------------------------------------------------------------------
(* Appending a batch to the table.                                         *)

\* The rows of a transaction go to the end of the table, the others stay.
LEMMA Appended ==
  ASSUME log \in Seq(EventRow), NEW batch \in Batches
  PROVE  /\ log \o batch \in Seq(EventRow)
         /\ Len(log) \in Nat /\ Len(batch) \in Nat
         /\ Len(log \o batch) = Len(log) + Len(batch)
         /\ \A i \in 1 .. Len(log) : (log \o batch)[i] = log[i]
         /\ \A i \in 1 .. Len(log \o batch) : (log \o batch)[i] \in EventRow
<1>1. PICK n \in 1 .. Cardinality(Agents) : batch \in [1 .. n -> EventRow]
  BY DEF Batches
<1>2. n \in Nat
  BY <1>1
<1>3. batch \in Seq(EventRow)
  BY <1>1, <1>2, SeqDef
<1>4. /\ log \o batch \in Seq(EventRow)
      /\ Len(log \o batch) = Len(log) + Len(batch)
      /\ \A i \in 1 .. Len(log) + Len(batch) : (log \o batch)[i] =
              IF i <= Len(log) THEN log[i] ELSE batch[i - Len(log)]
  BY <1>3, ConcatProperties
<1>5. Len(log) \in Nat /\ Len(batch) \in Nat
  BY <1>3, LenProperties
<1>6. \A i \in 1 .. Len(log \o batch) : (log \o batch)[i] \in EventRow
  BY <1>4, ElementOfSeq
<1> QED BY <1>4, <1>5, <1>6

-----------------------------------------------------------------------------
(* The inductive invariant.                                                *)

\* A row that was broadcast lies at or below the cursor, or the mark of its mailbox,
\* as long as the daemon lives.
ToldPassed ==
  \A i \in EventIds : told[i] # 0 =>
    /\ i <= Len(log)
    /\ tail.stage # "off" => i <= tail.cursor \/ i <= last[log[i].to]

OutInv == TypeOK /\ OncePerEvent /\ CursorCovers /\ ToldPassed

-----------------------------------------------------------------------------
(* A broadcast.                                                            *)

\* The marks only rise, to every row that was given; a row counts when it lies above
\* the mark of its mailbox.
LEMMA BroadcastFacts ==
  ASSUME NEW rows \in Seq(EventRow), Len(rows) <= MaxEvents, NEW ids \in SUBSET (1 .. Len(rows)),
         last \in [Agents -> 0 .. Len(rows)], told \in [EventIds -> Nat],
         heard \in [Clients -> [Agents -> 0 .. Len(rows)]],
         Broadcast(rows, ids)
  PROVE  /\ last' \in [Agents -> 0 .. Len(rows)]
         /\ told' \in [EventIds -> Nat]
         /\ heard' \in [Clients -> [Agents -> 0 .. Len(rows)]]
         /\ \A a \in Agents : last'[a] >= last[a]
         /\ \A i \in ids : last'[rows[i].to] >= i
         /\ \A i \in EventIds : \/ told'[i] = told[i]
                                \/ i \in ids /\ i > last[rows[i].to] /\ told'[i] = told[i] + 1
<1> DEFINE news == {i \in ids : Newer(rows[i].to, i)}
           for(a) == {i \in news : rows[i].to = a}
<1>1. /\ told' = [i \in EventIds |-> IF i \in news THEN told[i] + 1 ELSE told[i]]
      /\ last' = [a \in Agents |-> IF for(a) # {} THEN Largest(for(a)) ELSE last[a]]
      /\ heard' = [c \in Clients |-> [a \in Agents |->
                     IF c \in subs[a] /\ for(a) # {} THEN Largest(for(a)) ELSE heard[c][a]]]
  BY DEF Broadcast
<1>2. Len(rows) \in Nat /\ \A i \in 1 .. Len(rows) : rows[i] \in EventRow /\ rows[i].to \in Agents
  <2>1. Len(rows) \in Nat /\ \A i \in 1 .. Len(rows) : rows[i] \in EventRow
    BY LenProperties, ElementOfSeq
  <2>2. \A r \in EventRow : r.to \in Agents
    BY DEF EventRow
  <2> QED BY <2>1, <2>2
<1>3. \A i \in news : i \in ids /\ i \in 1 .. Len(rows) /\ i > last[rows[i].to]
  BY DEF Newer
<1>4. \A a \in Agents : for(a) # {} =>
        /\ Largest(for(a)) \in for(a) /\ \A i \in for(a) : i <= Largest(for(a))
        /\ Largest(for(a)) \in 1 .. Len(rows) /\ Largest(for(a)) > last[a]
  <2> SUFFICES ASSUME NEW a \in Agents, for(a) # {}
               PROVE  /\ Largest(for(a)) \in for(a) /\ \A i \in for(a) : i <= Largest(for(a))
                      /\ Largest(for(a)) \in 1 .. Len(rows) /\ Largest(for(a)) > last[a]
    OBVIOUS
  <2>1. for(a) \in SUBSET (1 .. Len(rows)) /\ \A i \in for(a) : i > last[a]
    BY <1>3
  <2> HIDE DEF for
  <2> QED BY <1>2, <2>1, LargestIsMax
<1> HIDE DEF for
<1>5. last' \in [Agents -> 0 .. Len(rows)]
  <2>1. \A a \in Agents : for(a) # {} => Largest(for(a)) \in 0 .. Len(rows)
    BY <1>2, <1>4
  <2> QED BY <1>1, <2>1
<1>6. told' \in [EventIds -> Nat]
  BY <1>1
<1>7. heard' \in [Clients -> [Agents -> 0 .. Len(rows)]]
  <2>1. \A a \in Agents : for(a) # {} => Largest(for(a)) \in 0 .. Len(rows)
    BY <1>2, <1>4
  <2> QED BY <1>1, <2>1
<1>8. \A a \in Agents : last'[a] >= last[a]
  <2> SUFFICES ASSUME NEW a \in Agents PROVE last'[a] >= last[a]
    OBVIOUS
  <2>1. last'[a] = IF for(a) # {} THEN Largest(for(a)) ELSE last[a]
    BY <1>1
  <2>2. last[a] \in Int /\ (for(a) # {} => Largest(for(a)) > last[a] /\ Largest(for(a)) \in Int)
    BY <1>2, <1>4
  <2> QED BY <2>1, <2>2
<1>9. ASSUME NEW i \in ids PROVE last'[rows[i].to] >= i
  <2>1. rows[i].to \in Agents /\ i \in Int
    BY <1>2
  <2>2. CASE i \in news
    <3>1. i \in for(rows[i].to)
      BY <2>2 DEF for
    <3> QED BY <1>1, <1>4, <2>1, <3>1
  <2>3. CASE i \notin news
    <3>1. ~ (i > last[rows[i].to])
      BY <2>3 DEF Newer
    <3> QED BY <1>2, <1>5, <1>8, <2>1, <3>1
  <2> QED BY <2>2, <2>3
<1>10. \A i \in EventIds : \/ told'[i] = told[i]
                           \/ i \in ids /\ i > last[rows[i].to] /\ told'[i] = told[i] + 1
  BY <1>1, <1>3
<1> QED BY <1>5, <1>6, <1>7, <1>8, <1>9, <1>10

-----------------------------------------------------------------------------
(* Init, and one lemma for each kind of step.                              *)

LEMMA InitInv == Init => OutInv
<1> SUFFICES ASSUME Init PROVE OutInv
  OBVIOUS
<1>1. log = <<>> /\ Len(log) = 0 /\ log \in Seq(EventRow)
  BY DEF Init
<1>2. TailOff \in TailRow /\ TailOff.stage = "off" /\ TailOff.cursor = 0
      /\ TailOff.seen = 0 /\ TailOff.dv = 0
  BY DEF TailOff, TailRow
<1>3. TypeOK
  <2>1. 0 \in 0 .. MaxForeign /\ 0 \in 0 .. Len(log) /\ {} \in SUBSET Clients /\ 0 <= MaxEvents
    BY <1>1, OutboxBounds
  <2>2. /\ last \in [Agents -> 0 .. Len(log)] /\ subs \in [Agents -> SUBSET Clients]
        /\ heard \in [Clients -> [Agents -> 0 .. Len(log)]] /\ told \in [EventIds -> Nat]
    BY <2>1 DEF Init
  <2>3. tail \in TailRow /\ tail.cursor <= Len(log) /\ tail.seen <= foreign /\ tail.dv <= foreign
        /\ foreign = 0 /\ bound = FALSE /\ marked = {}
    BY <1>1, <1>2 DEF Init
  <2> QED BY <1>1, <2>1, <2>2, <2>3 DEF TypeOK
<1>4. OncePerEvent /\ ToldPassed
  BY DEF Init, OncePerEvent, ToldPassed
<1>5. CursorCovers
  BY <1>1, <1>2 DEF Init, CursorCovers
<1> QED BY <1>3, <1>4, <1>5 DEF OutInv

\* What every step starts from.
LEMMA Numbers ==
  ASSUME TypeOK
  PROVE  /\ Len(log) \in Nat /\ tail.cursor \in Nat /\ tail.from \in Nat
         /\ \A i \in 1 .. Len(log) : log[i] \in EventRow /\ log[i].to \in Agents
         /\ \A i \in EventIds : i \in Int /\ i >= 1
<1>1. Len(log) \in Nat /\ \A i \in 1 .. Len(log) : log[i] \in EventRow
  BY LenProperties, ElementOfSeq DEF TypeOK
<1>2. \A r \in EventRow : r.to \in Agents
  BY DEF EventRow
<1>3. tail.cursor \in Nat /\ tail.from \in Nat
  BY DEF TypeOK, TailRow
<1> QED BY <1>1, <1>2, <1>3 DEF EventIds

\* The daemon's own commit, broadcast over the bus when anyone listens.
LEMMA LocalStep ==
  ASSUME OutInv, NEW batch \in Batches, LocalCommit(batch)
  PROVE  OutInv'
<1> DEFINE rows == log \o batch
           ids  == Len(log) + 1 .. Len(rows)
<1>1. TypeOK /\ OncePerEvent /\ CursorCovers /\ ToldPassed
  BY DEF OutInv
<1>2. /\ tail.stage = "idle" /\ Len(rows) <= MaxEvents /\ log' = rows
      /\ tail' = [tail EXCEPT !.dirty = TRUE]
      /\ foreign' = foreign /\ bound' = bound /\ subs' = subs /\ marked' = marked
      /\ IF bound THEN Broadcast(rows, ids) ELSE told' = told /\ last' = last /\ heard' = heard
  BY DEF LocalCommit
<1>3. /\ rows \in Seq(EventRow) /\ Len(rows) \in Nat /\ Len(log) \in Nat /\ Len(log) <= Len(rows)
      /\ \A i \in 1 .. Len(log) : rows[i] = log[i]
  BY <1>1, Appended DEF TypeOK
<1>4. /\ tail' \in TailRow /\ tail'.stage = tail.stage /\ tail'.cursor = tail.cursor
      /\ tail'.seen = tail.seen /\ tail'.dv = tail.dv /\ tail'.from = tail.from
  BY <1>1, <1>2 DEF TypeOK, TailRow
<1>5. /\ last \in [Agents -> 0 .. Len(rows)] /\ told \in [EventIds -> Nat]
      /\ heard \in [Clients -> [Agents -> 0 .. Len(rows)]]
  <2>1. 0 .. Len(log) \subseteq 0 .. Len(rows)
    BY <1>3
  <2> QED BY <1>1, <2>1 DEF TypeOK
<1>6. ids \in SUBSET (1 .. Len(rows)) /\ \A i \in ids : i > Len(log)
  BY <1>3
<1> HIDE DEF rows, ids
<1>7. /\ last' \in [Agents -> 0 .. Len(rows)] /\ told' \in [EventIds -> Nat]
      /\ heard' \in [Clients -> [Agents -> 0 .. Len(rows)]]
      /\ \A a \in Agents : last'[a] >= last[a]
      /\ \A i \in EventIds : \/ told'[i] = told[i]
                             \/ i \in ids /\ told'[i] = told[i] + 1 /\ last'[rows[i].to] >= i
  <2>1. CASE bound
    BY <1>2, <1>3, <1>5, <1>6, <2>1, BroadcastFacts
  <2>2. CASE ~ bound
    <3>1. \A a \in Agents : last[a] \in Int
      BY <1>3, <1>5
    <3> QED BY <1>2, <1>5, <2>2, <3>1
  <2> QED BY <2>1, <2>2
<1>8. TypeOK'
  <2>1. marked' \subseteq 1 .. Len(rows)
    BY <1>1, <1>2, <1>3 DEF TypeOK
  <2>2. tail'.cursor <= Len(rows) /\ tail'.seen <= foreign' /\ tail'.dv <= foreign'
    <3>1. tail.cursor \in Nat /\ tail.cursor <= Len(log)
      BY <1>1, Numbers DEF TypeOK
    <3> QED BY <1>1, <1>2, <1>3, <1>4, <3>1 DEF TypeOK
  <2> QED BY <1>1, <1>2, <1>3, <1>4, <1>7, <2>1, <2>2 DEF TypeOK
<1>9. OncePerEvent' /\ ToldPassed'
  <2> SUFFICES ASSUME NEW i \in EventIds
               PROVE  /\ told'[i] <= 1
                      /\ told'[i] # 0 => i <= Len(rows) /\ (i <= tail'.cursor \/ i <= last'[rows[i].to])
    BY <1>2 DEF OncePerEvent, ToldPassed
  <2>1. i \in Int /\ i >= 1 /\ told[i] \in Nat /\ told[i] <= 1
    BY <1>1, <1>5, Numbers DEF OncePerEvent
  <2>2. CASE told'[i] = told[i]
    <3>1. told[i] # 0 => i <= Len(log) /\ (i <= tail.cursor \/ i <= last[log[i].to])
      BY <1>1, <1>2 DEF ToldPassed
    <3>2. CASE told[i] # 0
      <4>1. i \in 1 .. Len(log) /\ rows[i] = log[i] /\ log[i].to \in Agents
        BY <1>1, <1>3, <2>1, <3>1, <3>2, Numbers
      <4>2. last'[log[i].to] >= last[log[i].to] /\ last[log[i].to] \in Int /\ last'[log[i].to] \in Int
        BY <1>3, <1>5, <1>7, <4>1
      <4> QED BY <1>3, <1>4, <2>1, <2>2, <3>1, <3>2, <4>1, <4>2
    <3> QED BY <2>1, <2>2, <3>2
  <2>3. CASE i \in ids /\ told'[i] = told[i] + 1 /\ last'[rows[i].to] >= i
    <3>1. i > Len(log) /\ i <= Len(rows)
      BY <1>3, <1>6, <2>3
    <3>2. told[i] = 0
      BY <1>1, <1>3, <2>1, <3>1 DEF ToldPassed
    <3> QED BY <2>1, <2>3, <3>1, <3>2
  <2> QED BY <1>7, <2>2, <2>3
<1>10. CursorCovers'
  <2> SUFFICES ASSUME NEW i \in 1 .. Len(rows), tail.from < i, i <= tail.cursor
               PROVE  last'[rows[i].to] >= i /\ (rows[i].wake => i \in marked)
    BY <1>2, <1>4 DEF CursorCovers
  <2>1. i \in 1 .. Len(log)
    BY <1>1, <1>3, Numbers DEF TypeOK
  <2>2. last[log[i].to] >= i /\ (log[i].wake => i \in marked)
    BY <1>1, <1>2, <2>1 DEF CursorCovers
  <2>3. log[i].to \in Agents /\ rows[i] = log[i]
    BY <1>1, <1>3, <2>1, Numbers
  <2>4. last'[log[i].to] >= last[log[i].to] /\ last[log[i].to] \in Int /\ last'[log[i].to] \in Int
    BY <1>3, <1>5, <1>7, <2>3
  <2> QED BY <2>1, <2>2, <2>3, <2>4
<1> QED BY <1>8, <1>9, <1>10 DEF OutInv

\* A commit of another process: rows are added, and nothing else is known of them.
LEMMA ForeignStep ==
  ASSUME OutInv, NEW batch \in Batches, ForeignCommit(batch)
  PROVE  OutInv'
<1> DEFINE rows == log \o batch
<1>1. TypeOK /\ OncePerEvent /\ CursorCovers /\ ToldPassed
  BY DEF OutInv
<1>2. /\ log' = rows /\ foreign < MaxForeign /\ foreign' = foreign + 1
      /\ Len(log) + Len(batch) <= MaxEvents
      /\ tail' = tail /\ last' = last /\ told' = told /\ heard' = heard
      /\ bound' = bound /\ subs' = subs /\ marked' = marked
  BY DEF ForeignCommit, hub
<1>3. /\ rows \in Seq(EventRow) /\ Len(rows) \in Nat /\ Len(log) \in Nat /\ Len(log) <= Len(rows)
      /\ Len(rows) = Len(log) + Len(batch)
      /\ \A i \in 1 .. Len(log) : rows[i] = log[i]
  BY <1>1, Appended DEF TypeOK
<1> HIDE DEF rows
<1>4. TypeOK'
  <2>1. 0 .. Len(log) \subseteq 0 .. Len(rows) /\ 1 .. Len(log) \subseteq 1 .. Len(rows)
    BY <1>3
  <2>2. /\ last \in [Agents -> 0 .. Len(rows)] /\ heard \in [Clients -> [Agents -> 0 .. Len(rows)]]
        /\ marked \subseteq 1 .. Len(rows) /\ told \in [EventIds -> Nat]
        /\ bound \in BOOLEAN /\ subs \in [Agents -> SUBSET Clients] /\ tail \in TailRow
    BY <1>1, <2>1 DEF TypeOK
  <2>3. /\ tail.cursor \in Nat /\ tail.cursor <= Len(rows) /\ foreign' \in 0 .. MaxForeign
        /\ tail.seen <= foreign' /\ tail.dv <= foreign'
    <3>1. tail.cursor \in Nat /\ tail.seen \in Nat /\ tail.dv \in Nat /\ tail.cursor <= Len(log)
          /\ tail.seen <= foreign /\ tail.dv <= foreign /\ foreign \in Nat
      BY <1>1, OutboxBounds DEF TypeOK, TailRow
    <3> QED BY <1>2, <1>3, <3>1, OutboxBounds
  <2> QED BY <1>2, <1>3, <2>2, <2>3 DEF TypeOK
<1>5. OncePerEvent' /\ ToldPassed'
  <2> SUFFICES ASSUME NEW i \in EventIds
               PROVE  /\ told[i] <= 1
                      /\ told[i] # 0 => /\ i <= Len(rows)
                                        /\ tail.stage # "off" => i <= tail.cursor \/ i <= last[rows[i].to]
    BY <1>2 DEF OncePerEvent, ToldPassed
  <2>1. told[i] <= 1 /\ i \in Int /\ i >= 1
    BY <1>1, Numbers DEF OncePerEvent
  <2>2. CASE told[i] # 0
    <3>1. i <= Len(log) /\ (tail.stage # "off" => i <= tail.cursor \/ i <= last[log[i].to])
      BY <1>1, <2>2 DEF ToldPassed
    <3>2. i \in 1 .. Len(log) /\ rows[i] = log[i]
      BY <1>3, <2>1, <3>1
    <3> QED BY <1>3, <2>1, <3>1, <3>2
  <2> QED BY <2>1, <2>2
<1>6. CursorCovers'
  <2> SUFFICES ASSUME tail.stage \in {"idle", "select"},
                      NEW i \in 1 .. Len(rows), tail.from < i, i <= tail.cursor
               PROVE  last[rows[i].to] >= i /\ (rows[i].wake => i \in marked)
    BY <1>2 DEF CursorCovers
  <2>1. i \in 1 .. Len(log) /\ rows[i] = log[i]
    <3>1. tail.cursor \in Nat /\ tail.cursor <= Len(log)
      BY <1>1, Numbers DEF TypeOK
    <3> QED BY <1>3, <3>1
  <2> QED BY <1>1, <2>1 DEF CursorCovers
<1> QED BY <1>4, <1>5, <1>6 DEF OutInv

\* The tick's SELECT: every row between the cursor and its new place is broadcast.
LEMMA SelectRows ==
  ASSUME OutInv, TickSelect
  PROVE  OutInv'
<1> DEFINE batch == {i \in 1 .. Len(log) : tail.cursor < i /\ i <= tail.cursor + BatchLimit}
           reach == IF batch = {} THEN tail.cursor ELSE Largest(batch)
<1>1. TypeOK /\ OncePerEvent /\ CursorCovers /\ ToldPassed
  BY DEF OutInv
<1>2. /\ tail.stage = "select" /\ Broadcast(log, batch)
      /\ marked' = marked \cup {i \in batch : Wakes(i)}
      /\ tail' = [tail EXCEPT !.stage = "idle", !.seen = tail.dv, !.dv = 0, !.cursor = reach]
      /\ log' = log /\ foreign' = foreign /\ bound' = bound /\ subs' = subs
  BY DEF TickSelect
<1>3. /\ Len(log) \in Nat /\ tail.cursor \in Nat /\ tail.from \in Nat /\ tail.cursor <= Len(log)
      /\ \A i \in 1 .. Len(log) : log[i] \in EventRow /\ log[i].to \in Agents
      /\ \A i \in EventIds : i \in Int /\ i >= 1
  BY <1>1, Numbers DEF TypeOK
<1>4. batch \in SUBSET (1 .. Len(log)) /\ \A i \in batch : i > tail.cursor
  BY <1>3
<1>5. batch # {} => Largest(batch) \in batch /\ \A i \in batch : i <= Largest(batch)
  <2> HIDE DEF batch
  <2> QED BY <1>3, <1>4, LargestIsMax
<1>6. /\ reach \in Nat /\ tail.cursor <= reach /\ reach <= Len(log)
      /\ \A i \in 1 .. Len(log) : tail.cursor < i /\ i <= reach => i \in batch
  <2>1. CASE batch = {}
    BY <1>3, <2>1
  <2>2. CASE batch # {}
    <3>1. reach \in 1 .. Len(log) /\ tail.cursor < reach /\ reach <= tail.cursor + BatchLimit
      BY <1>5, <2>2
    <3>2. ASSUME NEW i \in 1 .. Len(log), tail.cursor < i, i <= reach PROVE i \in batch
      <4>1. i <= tail.cursor + BatchLimit
        <5>1. i \in Int /\ reach \in Int /\ BatchLimit \in Int
          BY <1>3, <3>1, OutboxBounds
        <5> HIDE DEF reach
        <5> QED BY <1>3, <3>1, <3>2, <5>1
      <4> QED BY <3>2, <4>1
    <3>3. reach \in Nat /\ tail.cursor <= reach /\ reach <= Len(log)
      <4> HIDE DEF reach
      <4> QED BY <1>3, <3>1
    <3> QED BY <3>2, <3>3
  <2> QED BY <2>1, <2>2
<1>7. /\ tail' \in TailRow /\ tail'.stage = "idle" /\ tail'.cursor = reach /\ tail'.from = tail.from
      /\ tail'.seen = tail.dv /\ tail'.dv = 0
  <2> HIDE DEF reach
  <2> QED BY <1>1, <1>2, <1>6 DEF TypeOK, TailRow
<1> HIDE DEF batch, reach
<1>8. /\ last' \in [Agents -> 0 .. Len(log)] /\ told' \in [EventIds -> Nat]
      /\ heard' \in [Clients -> [Agents -> 0 .. Len(log)]]
      /\ \A a \in Agents : last'[a] >= last[a]
      /\ \A i \in batch : last'[log[i].to] >= i
      /\ \A i \in EventIds : \/ told'[i] = told[i]
                             \/ i \in batch /\ i > last[log[i].to] /\ told'[i] = told[i] + 1
  BY <1>1, <1>2, <1>4, BroadcastFacts DEF TypeOK
<1>9. last \in [Agents -> 0 .. Len(log)] /\ told \in [EventIds -> Nat]
  BY <1>1 DEF TypeOK
<1>10. TypeOK'
  <2>1. marked' \subseteq 1 .. Len(log)
    BY <1>1, <1>2, <1>4 DEF TypeOK
  <2>2. tail'.cursor <= Len(log) /\ tail'.seen <= foreign /\ tail'.dv <= foreign
    <3>1. foreign \in Nat /\ tail.dv <= foreign
      BY <1>1, OutboxBounds DEF TypeOK
    <3> QED BY <1>6, <1>7, <3>1
  <2> QED BY <1>1, <1>2, <1>7, <1>8, <2>1, <2>2 DEF TypeOK
<1>11. OncePerEvent' /\ ToldPassed'
  <2> SUFFICES ASSUME NEW i \in EventIds
               PROVE  /\ told'[i] <= 1
                      /\ told'[i] # 0 => i <= Len(log) /\ (i <= reach \/ i <= last'[log[i].to])
    BY <1>2, <1>7 DEF OncePerEvent, ToldPassed
  <2>1. i \in Int /\ i >= 1 /\ told[i] \in Nat /\ told[i] <= 1
    BY <1>1, <1>3, <1>9 DEF OncePerEvent
  <2>2. told[i] # 0 => i <= Len(log) /\ (i <= tail.cursor \/ i <= last[log[i].to])
    BY <1>1, <1>2 DEF ToldPassed
  <2>3. CASE told'[i] = told[i]
    <3>1. CASE told[i] # 0
      <4>1. log[i].to \in Agents
        BY <1>3, <2>1, <2>2, <3>1
      <4>2. last'[log[i].to] >= last[log[i].to] /\ last[log[i].to] \in Int /\ last'[log[i].to] \in Int
        BY <1>3, <1>8, <1>9, <4>1
      <4> QED BY <1>3, <1>6, <2>1, <2>2, <2>3, <3>1, <4>2
    <3> QED BY <2>1, <2>3, <3>1
  <2>4. CASE i \in batch /\ i > last[log[i].to] /\ told'[i] = told[i] + 1
    <3>1. i > tail.cursor /\ i \in 1 .. Len(log) /\ last[log[i].to] \in Int
      BY <1>3, <1>4, <1>9, <2>4
    <3>2. told[i] = 0
      BY <1>3, <2>1, <2>2, <2>4, <3>1
    <3>3. last'[log[i].to] >= i
      BY <1>8, <2>4
    <3>4. last'[log[i].to] \in Int
      BY <1>3, <1>8, <3>1
    <3> QED BY <1>3, <2>1, <2>4, <3>1, <3>2, <3>3, <3>4
  <2> QED BY <1>8, <2>3, <2>4
<1>12. CursorCovers'
  <2> SUFFICES ASSUME NEW i \in 1 .. Len(log), tail.from < i, i <= reach
               PROVE  last'[log[i].to] >= i /\ (log[i].wake => i \in marked')
    BY <1>2, <1>7 DEF CursorCovers
  <2>1. CASE i <= tail.cursor
    <3>1. last[log[i].to] >= i /\ (log[i].wake => i \in marked)
      BY <1>1, <1>2, <2>1 DEF CursorCovers
    <3>2. last'[log[i].to] >= last[log[i].to] /\ last[log[i].to] \in Int /\ last'[log[i].to] \in Int
      BY <1>3, <1>8, <1>9
    <3> QED BY <1>2, <3>1, <3>2
  <2>2. CASE tail.cursor < i
    <3>1. i \in batch
      BY <1>6, <2>2
    <3> QED BY <1>2, <1>8, <3>1 DEF Wakes
  <2> QED BY <1>3, <2>1, <2>2
<1> QED BY <1>10, <1>11, <1>12 DEF OutInv

-----------------------------------------------------------------------------
(* The other steps touch neither the table nor, but for a crash, the marks. *)

\* What a step that leaves the table, the counts and the markers has to show.
LEMMA QuietStep ==
  ASSUME OutInv,
         log' = log, told' = told, marked' = marked,
         foreign' \in 0 .. MaxForeign, tail' \in TailRow, tail'.cursor <= Len(log),
         tail'.seen <= foreign', tail'.dv <= foreign',
         bound' \in BOOLEAN, last' \in [Agents -> 0 .. Len(log)],
         subs' \in [Agents -> SUBSET Clients],
         heard' \in [Clients -> [Agents -> 0 .. Len(log)]],
         \/ tail'.stage = "off"
         \/ tail'.cursor = Len(log) /\ tail'.stage = "started"
         \/ last' = last /\ tail.stage # "off" /\ tail'.cursor = tail.cursor,
         \/ tail'.stage \notin {"idle", "select"}
         \/ tail'.from >= tail'.cursor
         \/ /\ last' = last /\ tail.stage \in {"idle", "select"}
            /\ tail'.cursor = tail.cursor /\ tail'.from = tail.from
  PROVE  OutInv'
<1>1. TypeOK /\ OncePerEvent /\ CursorCovers /\ ToldPassed
  BY DEF OutInv
<1>2. TypeOK'
  BY <1>1 DEF TypeOK
<1>3. OncePerEvent'
  BY <1>1 DEF OncePerEvent
<1>4. ToldPassed'
  BY <1>1 DEF ToldPassed
<1>5. CursorCovers'
  <2>1. tail'.cursor \in Int /\ tail'.from \in Int /\ Len(log) \in Nat
    BY <1>1, Numbers DEF TailRow
  <2> QED BY <1>1, <2>1 DEF CursorCovers
<1> QED BY <1>2, <1>3, <1>4, <1>5 DEF OutInv

\* The start of the tail, and the ticks that read or fail.
LEMMA TailStep ==
  ASSUME OutInv, StartTail \/ StartVersion \/ TickCheck \/ TickFails
  PROVE  OutInv'
<1>1. TypeOK
  BY DEF OutInv
<1>2. /\ Len(log) \in Nat /\ foreign \in Nat /\ tail \in TailRow /\ tail.cursor <= Len(log)
      /\ tail.cursor \in Nat /\ tail.seen <= foreign /\ tail.dv <= foreign
      /\ foreign \in 0 .. MaxForeign /\ 0 <= foreign
  BY <1>1, Numbers, OutboxBounds DEF TypeOK
<1>3. /\ log' = log /\ told' = told /\ marked' = marked /\ foreign' = foreign
      /\ last' = last /\ subs' = subs /\ heard' = heard /\ bound' = bound
  BY DEF StartTail, StartVersion, TickCheck, TickFails, hub
<1>4. /\ tail' \in TailRow /\ tail'.cursor <= Len(log) /\ tail'.seen <= foreign /\ tail'.dv <= foreign
      /\ \/ tail'.cursor = Len(log) /\ tail'.stage = "started"
         \/ /\ tail.stage = "started" /\ tail'.cursor = tail.cursor /\ tail'.from >= tail'.cursor
         \/ /\ tail.stage \in {"idle", "select"} /\ tail'.cursor = tail.cursor
            /\ tail'.from = tail.from
  <2>1. CASE StartTail
    <3>1. tail' = [stage |-> "started", cursor |-> Len(log), seen |-> 0, dv |-> 0, dirty |-> FALSE,
                   from |-> 0, lost |-> 0]
      BY <2>1 DEF StartTail, TailOff, MaxId
    <3>2. tail' \in TailRow
      BY <1>2, <3>1 DEF TailRow
    <3> QED BY <1>2, <3>1, <3>2
  <2>2. CASE StartVersion
    <3>1. tail.stage = "started" /\ tail' = [tail EXCEPT !.stage = "idle", !.seen = foreign, !.from = Len(log)]
      BY <2>2 DEF StartVersion
    <3>2. /\ tail' \in TailRow /\ tail'.cursor = tail.cursor /\ tail'.seen = foreign
          /\ tail'.dv = tail.dv /\ tail'.from = Len(log)
      BY <1>2, <3>1 DEF TailRow
    <3> QED BY <1>2, <3>1, <3>2
  <2>3. CASE TickCheck
    <3>1. tail.stage = "idle" /\ tail' = [tail EXCEPT !.stage = "select", !.dv = foreign, !.dirty = FALSE]
      BY <2>3 DEF TickCheck
    <3>2. /\ tail' \in TailRow /\ tail'.cursor = tail.cursor /\ tail'.seen = tail.seen
          /\ tail'.dv = foreign /\ tail'.from = tail.from
      BY <1>2, <3>1 DEF TailRow
    <3> QED BY <1>2, <3>1, <3>2
  <2>4. CASE TickFails
    <3>1. tail.stage = "select" /\ tail' = [tail EXCEPT !.stage = "idle", !.dv = 0, !.lost = Len(log)]
      BY <2>4 DEF TickFails
    <3>2. /\ tail' \in TailRow /\ tail'.cursor = tail.cursor /\ tail'.seen = tail.seen
          /\ tail'.dv = 0 /\ tail'.from = tail.from
      BY <1>2, <3>1 DEF TailRow
    <3> QED BY <1>2, <3>1, <3>2
  <2> QED BY <2>1, <2>2, <2>3, <2>4
<1> QED BY <1>1, <1>2, <1>3, <1>4, QuietStep DEF TypeOK

\* Clients come and go; the marks stay when they leave.
LEMMA ClientStep ==
  ASSUME OutInv, NEW c \in Clients,
         Disconnect(c) \/ \E a \in Agents : Subscribe(c, a) \/ Unsubscribe(c, a)
  PROVE  OutInv'
<1>1. TypeOK
  BY DEF OutInv
<1>2. /\ log' = log /\ told' = told /\ marked' = marked /\ foreign' = foreign
      /\ last' = last /\ tail' = tail /\ tail.stage = "idle" /\ bound' \in BOOLEAN
  BY <1>1 DEF Disconnect, Subscribe, Unsubscribe, TypeOK
<1>3. 0 \in 0 .. Len(log)
  BY <1>1, Numbers
<1>4. /\ subs' \in [Agents -> SUBSET Clients]
      /\ heard' \in [Clients -> [Agents -> 0 .. Len(log)]]
  <2>1. CASE Disconnect(c)
    BY <1>1, <1>3, <2>1 DEF Disconnect, TypeOK
  <2>2. ASSUME NEW a \in Agents, Subscribe(c, a)
        PROVE  /\ subs' \in [Agents -> SUBSET Clients]
               /\ heard' \in [Clients -> [Agents -> 0 .. Len(log)]]
    BY <1>1, <2>2 DEF Subscribe, TypeOK
  <2>3. ASSUME NEW a \in Agents, Unsubscribe(c, a)
        PROVE  /\ subs' \in [Agents -> SUBSET Clients]
               /\ heard' \in [Clients -> [Agents -> 0 .. Len(log)]]
    BY <1>1, <1>3, <2>3 DEF Unsubscribe, TypeOK
  <2> QED BY <2>1, <2>2, <2>3
<1> QED BY <1>1, <1>2, <1>4, QuietStep DEF TypeOK

\* The daemon dies: the counts stay, everything else starts over.
LEMMA CrashStep ==
  ASSUME OutInv, DaemonCrash
  PROVE  OutInv'
<1>1. TypeOK
  BY DEF OutInv
<1>2. 0 \in 0 .. Len(log) /\ foreign \in Nat /\ Len(log) \in Nat /\ foreign \in 0 .. MaxForeign
      /\ 0 <= foreign /\ 0 <= Len(log)
  BY <1>1, Numbers, OutboxBounds DEF TypeOK
<1>3. /\ tail' \in TailRow /\ tail'.cursor = 0 /\ tail'.seen = 0 /\ tail'.dv = 0 /\ tail'.stage = "off"
  BY DEF DaemonCrash, TailOff, TailRow
<1>4. /\ log' = log /\ told' = told /\ marked' = marked /\ foreign' = foreign /\ bound' = FALSE
      /\ last' \in [Agents -> 0 .. Len(log)] /\ subs' \in [Agents -> SUBSET Clients]
      /\ heard' \in [Clients -> [Agents -> 0 .. Len(log)]]
  BY <1>2 DEF DaemonCrash
<1>5. tail'.stage \notin {"idle", "select"} /\ bound' \in BOOLEAN
  BY <1>3, <1>4
<1> QED BY <1>2, <1>3, <1>4, <1>5, QuietStep

\* A commit of another connection that changes no mailbox.
LEMMA OtherStep ==
  ASSUME OutInv, OtherCommit
  PROVE  OutInv'
<1>1. TypeOK /\ OncePerEvent /\ CursorCovers /\ ToldPassed
  BY DEF OutInv
<1>2. /\ log' = log /\ told' = told /\ marked' = marked /\ tail' = tail
      /\ last' = last /\ subs' = subs /\ heard' = heard /\ bound' = bound
      /\ foreign < MaxForeign /\ foreign' = foreign + 1
  BY DEF OtherCommit, hub
<1>3. foreign' \in 0 .. MaxForeign /\ tail.seen <= foreign' /\ tail.dv <= foreign'
  <2>1. foreign \in Nat /\ tail.seen \in Nat /\ tail.dv \in Nat
        /\ tail.seen <= foreign /\ tail.dv <= foreign
    BY <1>1, OutboxBounds DEF TypeOK, TailRow
  <2> QED BY <1>2, <2>1, OutboxBounds
<1>4. TypeOK'
  BY <1>1, <1>2, <1>3 DEF TypeOK
<1>5. OncePerEvent' /\ ToldPassed' /\ CursorCovers'
  BY <1>1, <1>2 DEF OncePerEvent, ToldPassed, CursorCovers
<1> QED BY <1>4, <1>5 DEF OutInv

-----------------------------------------------------------------------------
(* The theorems.                                                           *)

\* Every step keeps the invariant.
LEMMA InvStep == OutInv /\ [Next]_vars => OutInv'
<1> SUFFICES ASSUME OutInv, [Next]_vars PROVE OutInv'
  OBVIOUS
<1>1. CASE UNCHANGED vars
  BY <1>1 DEF vars, OutInv, TypeOK, OncePerEvent, CursorCovers, ToldPassed
<1>2. CASE Start
  BY <1>2, TailStep DEF Start
<1>3. CASE Tick
  BY <1>3, TailStep, SelectRows DEF Tick
<1>4. CASE Commit
  BY <1>4, LocalStep, ForeignStep, OtherStep DEF Commit
<1>5. CASE Subscriber
  BY <1>5, ClientStep DEF Subscriber
<1>6. CASE DaemonCrash
  BY <1>6, CrashStep
<1> QED BY <1>1, <1>2, <1>3, <1>4, <1>5, <1>6 DEF Next

\* The invariant holds in every state.
THEOREM OutboxInvariant == Spec => []OutInv
BY InitInv, InvStep, PTL DEF Spec

\* A row is broadcast at most once, on whichever paths it is found and across restarts.
THEOREM OneNoticePerRow == Spec => []OncePerEvent
BY OutboxInvariant, PTL DEF OutInv

\* What the cursor passed since the start is done: a notice as new, and the marker.
THEOREM NothingPassedOver == Spec => []CursorCovers
BY OutboxInvariant, PTL DEF OutInv

\* The promises of the notification path, its liveness apart.
THEOREM NoticesAreExact == Spec => []NoticesExact
<1>1. OutInv => NoticesExact
  BY DEF OutInv, NoticesExact
<1> QED BY <1>1, OutboxInvariant, PTL

-----------------------------------------------------------------------------
(* Presence.  The types are inductive; the surfaces agree in every state, and  *)
(* no write of the row but a read of the daemon changes what it said.          *)

LEMMA PairParts == \A t, v : <<t, v>>[1] = t /\ <<t, v>>[2] = v
OBVIOUS

\* The row c replaces that of a well-typed state.
LEMMA RowReplaced ==
  ASSUME PresTypeOK, NEW c \in Row, prow' = c, c.start => c.pid, c.sess \/ c.pid => c.there,
         agentProc' \in Proc, cache' \in Cache, said' \in Verdicts
  PROVE  PresTypeOK'
BY DEF PresTypeOK

LEMMA DropsTyped ==
  ASSUME PresTypeOK, NEW daemon \in BOOLEAN, Drops(daemon)
  PROVE  cache' \in Cache
BY DEF PresTypeOK, Drops, Cache

\* The verdict is a verdict, and death has an anchor of this host.
LEMMA VerdictTyped ==
  ASSUME PresTypeOK
  PROVE  /\ Verdict \in Verdicts
         /\ Verdict = "dead" => prow.pid /\ prow.host = "own"
         /\ Cached \in Cache
<1>1. NotAlive(prow) \in Verdicts /\ (NotAlive(prow) = "dead" => prow.pid)
  BY DEF NotAlive, Verdicts
<1>2. CASE Elsewhere
  <2>1. Verdict = "unknown"
    BY <1>2 DEF Verdict
  <2>2. Cached = cache
    BY <1>2 DEF Cached
  <2> QED BY <2>1, <2>2 DEF Verdicts, PresTypeOK
<1>3. CASE ~Elsewhere
  <2>1. prow.host = "own"
    BY <1>3 DEF Elsewhere
  <2>2. cache \in {"none", "alive", "notAlive"}
    BY DEF PresTypeOK, Cache
  <2>3. Cached \in Cache
    BY <2>2 DEF Cached, Cache
  <2>4. CASE cache = "alive"
    <3>1. Verdict = "alive"
      BY <1>3, <2>4 DEF Verdict
    <3> QED BY <2>3, <3>1 DEF Verdicts
  <2>5. CASE cache = "notAlive"
    <3>1. Verdict = NotAlive(prow)
      BY <1>3, <2>5 DEF Verdict
    <3> QED BY <1>1, <2>1, <2>3, <3>1
  <2>6. CASE cache = "none"
    <3>1. Verdict = IF ProbeAlive THEN "alive" ELSE NotAlive(prow)
      BY <1>3, <2>6 DEF Verdict
    <3>2. Verdict = "alive" \/ Verdict = NotAlive(prow)
      BY <3>1
    <3> QED BY <1>1, <2>1, <2>3, <3>2 DEF Verdicts
  <2> QED BY <2>2, <2>4, <2>5, <2>6
<1> QED BY <1>2, <1>3

LEMMA PresInitTyped == PresInit => PresTypeOK
BY DEF PresInit, PresTypeOK, NoAgent, Row, Stored, Active, Ages, Proc, Cache, Verdicts

LEMMA RegisterTyped ==
  ASSUME PresTypeOK, NEW daemon \in BOOLEAN, Register(daemon)
  PROVE  PresTypeOK'
<1>1. PICK h \in {"own", "other", "none"} :
        prow' = [prow EXCEPT !.there = TRUE, !.sess = TRUE, !.signal = FALSE, !.age = "active",
                             !.stored = Restored(@), !.host = IF h = "none" THEN @ ELSE h]
  BY DEF Register
<1>2. Restored(prow.stored) \in Stored
  BY DEF Restored, Stored, PresTypeOK, Row, Active
<1>3. PICK s, g : s = Restored(prow.stored) /\ g = IF h = "none" THEN prow.host ELSE h
  OBVIOUS
<1>4. g \in {"own", "other", "none"}
  BY <1>3 DEF PresTypeOK, Row
<1>5. PICK c : c = [prow EXCEPT !.there = TRUE, !.sess = TRUE, !.signal = FALSE, !.age = "active",
                                !.stored = s, !.host = g]
  OBVIOUS
<1>6. c \in Row /\ (c.start => c.pid) /\ c.there
  BY <1>2, <1>3, <1>4, <1>5 DEF PresTypeOK, Row, Ages
<1>7. prow' = c
  BY <1>1, <1>3, <1>5
<1>8. cache' \in Cache
  BY DropsTyped DEF Register
<1> QED BY <1>6, <1>7, <1>8, RowReplaced DEF Register, PresTypeOK

LEMMA SetAnchorTyped ==
  ASSUME PresTypeOK, NEW daemon \in BOOLEAN, SetAnchor(daemon)
  PROVE  PresTypeOK'
<1>1. PICK s \in BOOLEAN : prow' = [prow EXCEPT !.pid = TRUE, !.start = s,
                                                !.host = IF @ = "none" THEN "own" ELSE @]
  BY DEF SetAnchor
<1>3. PICK g : g = IF prow.host = "none" THEN "own" ELSE prow.host
  OBVIOUS
<1>4. g \in {"own", "other", "none"}
  BY <1>3 DEF PresTypeOK, Row
<1>5. PICK c : c = [prow EXCEPT !.pid = TRUE, !.start = s, !.host = g]
  OBVIOUS
<1>6. c \in Row /\ c.pid /\ c.there
  BY <1>4, <1>5 DEF PresTypeOK, Row, SetAnchor
<1>7. prow' = c
  BY <1>1, <1>3, <1>5
<1>8. cache' \in Cache
  BY DropsTyped DEF SetAnchor
<1> QED BY <1>6, <1>7, <1>8, RowReplaced DEF SetAnchor, PresTypeOK

LEMMA EndSessionTyped ==
  ASSUME PresTypeOK, NEW daemon \in BOOLEAN, NEW stored \in Stored, NEW signal \in BOOLEAN,
         EndSession(stored, signal, daemon)
  PROVE  PresTypeOK'
<1>1. PICK g : g = (prow.signal \/ signal)
  OBVIOUS
<1>2. PICK c : c = [prow EXCEPT !.sess = FALSE, !.pid = FALSE, !.start = FALSE, !.stored = stored,
                                !.signal = g]
  OBVIOUS
<1>3. g \in BOOLEAN
  BY <1>1 DEF PresTypeOK, Row
<1>4. c \in Row /\ ~c.start /\ ~c.pid /\ ~c.sess
  BY <1>2, <1>3 DEF PresTypeOK, Row
<1>5. prow' = c
  BY <1>1, <1>2 DEF EndSession
<1>6. cache' \in Cache
  BY DropsTyped DEF EndSession
<1> QED BY <1>4, <1>5, <1>6, RowReplaced DEF EndSession, PresTypeOK

LEMMA PresStepTyped == PresTypeOK /\ [PresNext]_presVars => PresTypeOK'
<1> SUFFICES ASSUME PresTypeOK, [PresNext]_presVars PROVE PresTypeOK'
  OBVIOUS
<1>1. CASE ProcessStarts \/ ProcessEnds \/ PidIsReused \/ CacheLapses
  <2>1. agentProc' \in Proc
    <3>1. CASE ProcessStarts
      BY <3>1 DEF ProcessStarts, Proc
    <3>2. CASE ProcessEnds
      BY <3>2 DEF ProcessEnds, Proc
    <3>3. CASE PidIsReused
      BY <3>3 DEF PidIsReused, PresTypeOK, Proc
    <3>4. CASE CacheLapses
      BY <3>4 DEF CacheLapses, PresTypeOK
    <3> QED BY <1>1, <3>1, <3>2, <3>3, <3>4
  <2>2. cache' \in Cache
    BY <1>1 DEF ProcessStarts, ProcessEnds, PidIsReused, CacheLapses, PresTypeOK, Cache
  <2>3. UNCHANGED <<prow, said>>
    BY <1>1 DEF ProcessStarts, ProcessEnds, PidIsReused, CacheLapses
  <2> QED BY <2>1, <2>2, <2>3 DEF PresTypeOK
<1>2. CASE TimePasses
  <2>1. prow.age \in Ages /\ Ageing[prow.age] \in Ages
    BY DEF PresTypeOK, Row, Ages, Ageing
  <2>2. PICK a : a = Ageing[prow.age]
    OBVIOUS
  <2>3. PICK c : c = [prow EXCEPT !.age = a]
    OBVIOUS
  <2>4. c \in Row /\ (c.start => c.pid) /\ (c.sess \/ c.pid => c.there) /\ prow' = c
    BY <1>2, <2>1, <2>2, <2>3 DEF TimePasses, PresTypeOK, Row
  <2> QED BY <1>2, <2>4, RowReplaced DEF TimePasses, PresTypeOK
<1>3. ASSUME NEW d \in BOOLEAN, Register(d) PROVE PresTypeOK'
  BY <1>3, RegisterTyped
<1>4. ASSUME NEW d \in BOOLEAN, SetAnchor(d) PROVE PresTypeOK'
  BY <1>4, SetAnchorTyped
<1>5. ASSUME NEW d \in BOOLEAN, Unregister(d) PROVE PresTypeOK'
  <2>1. NoAgent \in Row /\ ~NoAgent.start /\ ~NoAgent.pid /\ ~NoAgent.sess
    BY DEF NoAgent, Row, Ages, Stored, Active
  <2>2. cache' \in Cache
    BY <1>5, DropsTyped DEF Unregister
  <2> QED BY <1>5, <2>1, <2>2, RowReplaced DEF Unregister, PresTypeOK
<1>6. ASSUME NEW d \in BOOLEAN, NEW e \in Endings, EndSession(e[1], e[2], d) PROVE PresTypeOK'
  <2>1. e = <<"offline", FALSE>> \/ e = <<"closed", FALSE>> \/ e = <<"closed", TRUE>> \/ e = <<"idle", TRUE>>
    BY DEF Endings
  <2>4. PICK t, v : e = <<t, v>> /\ t \in {"offline", "closed", "idle"} /\ v \in BOOLEAN
    BY <2>1
  <2>5. e[1] = t /\ e[2] = v
    BY <2>4, PairParts
  <2>3. e[1] \in Stored /\ e[2] \in BOOLEAN
    BY <2>4, <2>5 DEF Stored, Active
  <2> QED BY <1>6, <2>3, EndSessionTyped
<1>7. CASE TouchAgent \/ Owes
  <2>1. PICK a \in Ages, o \in BOOLEAN : prow' = [prow EXCEPT !.age = a, !.owed = o]
    <3>1. CASE TouchAgent
      <4>1. prow' = [prow EXCEPT !.age = "active", !.owed = prow.owed]
        BY <3>1 DEF TouchAgent, PresTypeOK, Row
      <4> QED BY <4>1 DEF Ages, PresTypeOK, Row
    <3>2. CASE Owes
      <4>1. prow' = [prow EXCEPT !.age = prow.age, !.owed = ~prow.owed]
        BY <3>2 DEF Owes, PresTypeOK, Row
      <4> QED BY <4>1 DEF PresTypeOK, Row
    <3> QED BY <1>7, <3>1, <3>2
  <2>2. PICK c : c = [prow EXCEPT !.age = a, !.owed = o]
    OBVIOUS
  <2>3. c \in Row /\ (c.start => c.pid) /\ (c.sess \/ c.pid => c.there) /\ prow' = c
    BY <2>1, <2>2 DEF PresTypeOK, Row
  <2> QED BY <1>7, <2>3, RowReplaced DEF TouchAgent, Owes, PresTypeOK
<1>8. ASSUME NEW s \in Active \cup {"offline"}, SetStatus(s) PROVE PresTypeOK'
  <2>1. s \in Stored
    BY DEF Stored
  <2>2. PICK c : c = [prow EXCEPT !.stored = s]
    OBVIOUS
  <2>3. c \in Row /\ (c.start => c.pid) /\ (c.sess \/ c.pid => c.there) /\ prow' = c
    BY <1>8, <2>1, <2>2 DEF SetStatus, PresTypeOK, Row
  <2> QED BY <1>8, <2>3, RowReplaced DEF SetStatus, PresTypeOK
<1>9. CASE DaemonReads
  BY <1>9, VerdictTyped DEF DaemonReads, PresTypeOK
<1>10. CASE ProbeUnanswered
  BY <1>10 DEF ProbeUnanswered, PresTypeOK, Verdicts
<1>11. CASE UNCHANGED presVars
  BY <1>11 DEF presVars, PresTypeOK
<1> QED BY <1>1, <1>2, <1>3, <1>4, <1>5, <1>6, <1>7, <1>8, <1>9, <1>10, <1>11 DEF PresNext

\* While the verdict is death every surface shows an end.
LEMMA DeadEverywhere ==
  ASSUME PresTypeOK, Verdict = "dead"
  PROVE  /\ DeriveStatus(prow.stored, Verdict) \in {"offline", "closed"}
         /\ DashboardState(prow, Verdict) = "closed" /\ ~InTopology(prow, Verdict)
<1>1. DeriveStatus(prow.stored, "dead") \in {"offline", "closed"}
  <2>1. CASE prow.stored = "offline"
    BY <2>1 DEF DeriveStatus
  <2>2. CASE prow.stored # "offline"
    <3>1. DeriveStatus(prow.stored, "dead") = "closed"
      BY <2>2 DEF DeriveStatus
    <3> QED BY <3>1
  <2> QED BY <2>1, <2>2
<1>2. DashboardState(prow, "dead") = "closed"
  <2>1. prow.signal \in BOOLEAN
    BY DEF PresTypeOK, Row
  <2>2. CASE prow.signal
    BY <2>2 DEF DashboardState
  <2>3. CASE ~prow.signal
    BY <2>3 DEF DashboardState
  <2> QED BY <2>1, <2>2, <2>3
<1>3. StatusShown("dead") = "offline"
  BY DEF StatusShown
<1> QED BY <1>1, <1>2, <1>3 DEF InTopology

\* While it is life none does, and the list shows the agent unless it said it is offline.
LEMMA AliveEverywhere ==
  ASSUME PresTypeOK, Verdict = "alive"
  PROVE  /\ DashboardState(prow, Verdict) # "closed"
         /\ ListedAlive(prow, Verdict) \/ prow.stored = "offline"
<1>1. DashboardState(prow, "alive") \in {"stale", "pending", "active", "waiting"}
  <2>1. DashboardState(prow, "alive") =
          IF prow.age \in {"quiet", "lapsed"} /\ prow.owed THEN "stale"
          ELSE IF prow.owed THEN "pending"
          ELSE IF prow.age = "active" THEN "active" ELSE "waiting"
    BY DEF DashboardState
  <2> QED BY <2>1
<1>2. CASE prow.stored # "offline"
  <2>1. DeriveStatus(prow.stored, "alive") = IF prow.stored \in Active THEN prow.stored ELSE "idle"
    BY <1>2 DEF DeriveStatus
  <2>2. DeriveStatus(prow.stored, "alive") \in Active
    BY <2>1 DEF Active
  <2> QED BY <1>1, <2>2 DEF ListedAlive
<1> QED BY <1>1, <1>2

\* The list, the topology and the dashboard do not call an agent dead and alive against each
\* other, and the daemon says dead only of an agent with an anchor on its host.
THEOREM PresenceAgrees ==
  PresSpec => []PresTypeOK /\ []SurfacesAgree /\ DeathNeedsAnchor
<1>1. PresTypeOK => SurfacesAgree
  BY DeadEverywhere, AliveEverywhere DEF SurfacesAgree
<1>2. PresTypeOK /\ [PresNext]_presVars =>
        [said' = "dead" /\ said # "dead" => prow.pid /\ prow.host = "own"]_presVars
  <2> SUFFICES ASSUME PresTypeOK, PresNext, said' = "dead", said # "dead"
               PROVE  prow.pid /\ prow.host = "own"
    OBVIOUS
  <2>1. said' = Verdict \/ said' = "unknown" \/ said' = said
    <3>1. CASE DaemonReads
      BY <3>1 DEF DaemonReads
    <3>2. CASE ProbeUnanswered
      BY <3>2 DEF ProbeUnanswered
    <3>3. CASE ~DaemonReads /\ ~ProbeUnanswered
      <4>1. UNCHANGED said
        BY <3>3 DEF PresNext, ProcessStarts, ProcessEnds, PidIsReused, CacheLapses, TimePasses,
             Register, SetAnchor, Unregister, EndSession, TouchAgent, Owes, SetStatus
      <4> QED BY <4>1
    <3> QED BY <3>1, <3>2, <3>3
  <2> QED BY <2>1, VerdictTyped
<1> QED BY <1>1, <1>2, PresInitTyped, PresStepTyped, PTL DEF PresSpec, DeathNeedsAnchor
=============================================================================
