--------------------------- MODULE RelayWebhooks ---------------------------
(***************************************************************************)
(* Webhook deliveries and their retries.  An event is posted once to every *)
(* subscription that wants it; a failed post leaves a row in               *)
(* webhook_delivery_log that any process sharing the database may claim,   *)
(* under a lease of sixty seconds, when its backoff is over.  The post     *)
(* itself (address check, pinning, redirects) is RelayDelivery; here it    *)
(* takes any time and ends in one of its outcomes.                         *)
(***************************************************************************)
EXTENDS Naturals, FiniteSets

CONSTANTS WhProcs,         \* relay processes
          WhHooks,         \* subscriptions
          WhSlots,         \* bound: deliveries in flight at a time
          WhRows,          \* bound: retry rows
          MaxWhCrashes     \* bound: processes that die

\* Row ids start at 1.
ASSUME WebhookBounds == WhRows \subseteq Nat \ {0}

VARIABLES hooks,           \* webhook_subscriptions
          wlog,            \* the retry rows of webhook_delivery_log
          wjob,            \* the deliveries in flight
          wscan,           \* rows each process has read as due
          wcrashes

whVars == <<hooks, wlog, wjob, wscan, wcrashes>>

Ladder == 3                \* WEBHOOK_RETRY_BACKOFF_SECONDS has three steps
NoLogRow == [term |-> "absent", count |-> 0, due |-> FALSE, lease |-> "free", hook |-> "none"]
NoJob == [proc |-> "none", row |-> 0, hook |-> "none", phase |-> "none", late |-> FALSE]
Open == "open"             \* terminal_status IS NULL

Idle(s) == wjob[s] = NoJob
JobGone(s) == [wjob EXCEPT ![s] = NoJob]
\* The deliveries of row r but the one in slot t lose the row's lease.
Bared(t, r) ==
  [s \in WhSlots |-> IF s = t THEN NoJob
                     ELSE [wjob[s] EXCEPT !.late = @ \/ wjob[s].row = r]]

-----------------------------------------------------------------------------
(* The first delivery.                                                     *)

RegisterHook(h) ==
  /\ h \notin hooks
  /\ \A r \in WhRows : wlog[r].hook # h
  /\ \A s \in WhSlots : wjob[s].hook # h
  /\ hooks' = hooks \cup {h}
  /\ UNCHANGED <<wlog, wjob, wscan, wcrashes>>

\* deleteWebhook: the subscription row only.
DeleteHook(h) ==
  /\ h \in hooks
  /\ hooks' = hooks \ {h}
  /\ UNCHANGED <<wlog, wjob, wscan, wcrashes>>

\* fireWebhooks: a delivery to a subscription that wants the event.  (The bound
\* on slots and rows: a first delivery starts when no other is in flight.)
Fire(p, h, s) ==
  /\ h \in hooks
  /\ \A t \in WhSlots : Idle(t)
  /\ \E r \in WhRows : wlog[r] = NoLogRow
  /\ wjob' = [wjob EXCEPT ![s] = [proc |-> p, row |-> 0, hook |-> h,
                                  phase |-> "check", late |-> FALSE]]
  /\ UNCHANGED <<hooks, wlog, wscan, wcrashes>>

\* validateWebhookUrl answers: the post starts,
Safe(s) ==
  /\ wjob[s].phase = "check"
  /\ wjob' = [wjob EXCEPT ![s].phase = "post"]
  /\ UNCHANGED <<hooks, wlog, wscan, wcrashes>>

\* ... or a first delivery is logged and dropped.
RefuseFirst(s) ==
  /\ wjob[s].phase = "check"
  /\ wjob[s].row = 0
  /\ wjob' = JobGone(s)
  /\ UNCHANGED <<hooks, wlog, wscan, wcrashes>>

FirstDelivered(s) ==
  /\ wjob[s].phase = "post"
  /\ wjob[s].row = 0
  /\ wjob' = JobGone(s)
  /\ UNCHANGED <<hooks, wlog, wscan, wcrashes>>

\* scheduleWebhookRetry, whether or not the subscription is still there.
FirstFailed(s, r) ==
  /\ wjob[s].phase = "post"
  /\ wjob[s].row = 0
  /\ wlog[r] = NoLogRow
  /\ \A t \in WhRows : t < r => wlog[t] # NoLogRow
  /\ wlog' = [wlog EXCEPT ![r] = [term |-> Open, count |-> 1, due |-> FALSE,
                                  lease |-> "free", hook |-> wjob[s].hook]]
  /\ wjob' = JobGone(s)
  /\ UNCHANGED <<hooks, wscan, wcrashes>>

-----------------------------------------------------------------------------
(* Claims.                                                                 *)

BackoffOver(r) ==
  /\ wlog[r].term = Open
  /\ ~wlog[r].due
  /\ wlog' = [wlog EXCEPT ![r].due = TRUE]
  /\ UNCHANGED <<hooks, wjob, wscan, wcrashes>>

\* Sixty seconds pass: the lease is over, wherever its holder is.
LeaseOver(r) ==
  /\ wlog[r].lease = "held"
  /\ wlog' = [wlog EXCEPT ![r].lease = "lapsed"]
  /\ wjob' = [s \in WhSlots |-> [wjob[s] EXCEPT !.late = @ \/ wjob[s].row = r]]
  /\ UNCHANGED <<hooks, wscan, wcrashes>>

Unleased(row) == row.lease # "held"

\* Mutant: the write does not ask whether the row has ended since it was read.
Claimable_Ended(row) == row.term # "absent" /\ row.due /\ Unleased(row)
\* What the SELECT and the compare-and-set both require of the row.
Claimable(row) == row.term = Open /\ row.due /\ Unleased(row)

\* claimDueWebhookRetries, on the piggyback tick of a tool call: the SELECT,
\* which joins the subscriptions,
ScanDue(p) ==
  /\ wscan[p] = {}
  /\ wscan' = [wscan EXCEPT ![p] =
                 {r \in WhRows : wlog[r].term = Open /\ wlog[r].due
                                   /\ Unleased(wlog[r]) /\ wlog[r].hook \in hooks}]
  /\ wscan' # wscan
  /\ UNCHANGED <<hooks, wlog, wjob, wcrashes>>

\* ... and for each row read a compare-and-set, and a retryOne when it held.
ClaimRow(p, r, s) ==
  /\ r \in wscan[p]
  /\ Claimable(wlog[r])
  /\ Idle(s)
  /\ wlog' = [wlog EXCEPT ![r].lease = "held"]
  /\ wjob' = [wjob EXCEPT ![s] = [proc |-> p, row |-> r, hook |-> wlog[r].hook,
                                  phase |-> "check", late |-> FALSE]]
  /\ wscan' = [wscan EXCEPT ![p] = @ \ {r}]
  /\ UNCHANGED <<hooks, wcrashes>>

ClaimLost(p, r) ==
  /\ r \in wscan[p]
  /\ ~Claimable(wlog[r])
  /\ wscan' = [wscan EXCEPT ![p] = @ \ {r}]
  /\ UNCHANGED <<hooks, wlog, wjob, wcrashes>>

-----------------------------------------------------------------------------
(* Outcomes of a retry.  None of the writes asks who holds the lease, and  *)
(* each of them ends it: a delivery that outlived its own lease ends the   *)
(* lease of whoever claimed the row since.  A delivery is late when the    *)
(* row's lease is not, or no longer, its own.                              *)

Present(r) == wlog[r].term # "absent"
Settles(r, row) == wlog' = IF Present(r) THEN [wlog EXCEPT ![r] = row] ELSE wlog

\* terminateWebhookRetry, and an empty address list.
RefuseRetry(s) ==
  LET r == wjob[s].row IN
  /\ wjob[s].phase = "check"
  /\ r # 0
  /\ Settles(r, [wlog[r] EXCEPT !.term = "failed", !.lease = "free"])
  /\ wjob' = Bared(s, r)
  /\ UNCHANGED <<hooks, wscan, wcrashes>>

RetryDelivered(s) ==
  LET r == wjob[s].row IN
  /\ wjob[s].phase = "post"
  /\ r # 0
  /\ Settles(r, [wlog[r] EXCEPT !.term = "delivered", !.lease = "free"])
  /\ wjob' = Bared(s, r)
  /\ UNCHANGED <<hooks, wscan, wcrashes>>

LastStep(n) == n > Ladder

\* recordWebhookRetryOutcome of a failure: the ladder's next step, or the end.
RetryFailed(s) ==
  LET r == wjob[s].row
      n == wlog[r].count + 1 IN
  /\ wjob[s].phase = "post"
  /\ r # 0
  /\ Settles(r, IF LastStep(n)
                THEN [wlog[r] EXCEPT !.term = "failed", !.count = n - 1, !.lease = "free"]
                ELSE [wlog[r] EXCEPT !.count = n, !.due = FALSE, !.lease = "free"])
  /\ wjob' = Bared(s, r)
  /\ UNCHANGED <<hooks, wscan, wcrashes>>

-----------------------------------------------------------------------------
(* What else happens to a row.                                             *)

\* purgeOldRecords: rows first attempted seven days ago go, whatever they say;
\* no delivery lasts that long.
PurgeLog(r) ==
  /\ Present(r)
  /\ \A s \in WhSlots : wjob[s].row # r
  /\ wlog' = [wlog EXCEPT ![r] = [NoLogRow EXCEPT !.hook = "purged"]]
  /\ wscan' = [p \in WhProcs |-> wscan[p] \ {r}]
  /\ UNCHANGED <<hooks, wjob, wcrashes>>

\* A process dies with its deliveries; their leases run on.
DieDelivering(p) ==
  /\ wcrashes < MaxWhCrashes
  /\ \E s \in WhSlots : wjob[s].proc = p
  /\ wjob' = [s \in WhSlots |-> IF wjob[s].proc = p THEN NoJob ELSE wjob[s]]
  /\ wscan' = [wscan EXCEPT ![p] = {}]
  /\ wcrashes' = wcrashes + 1
  /\ UNCHANGED <<hooks, wlog>>

-----------------------------------------------------------------------------
(* The specification.                                                      *)

WhInit ==
  /\ hooks = {}
  /\ wlog = [r \in WhRows |-> NoLogRow]
  /\ wjob = [s \in WhSlots |-> NoJob]
  /\ wscan = [p \in WhProcs |-> {}]
  /\ wcrashes = 0

Claims(p) == ScanDue(p) \/ \E r \in WhRows : ClaimLost(p, r) \/ \E s \in WhSlots : ClaimRow(p, r, s)

Outcome(s) ==
  \/ Safe(s) \/ RefuseFirst(s) \/ FirstDelivered(s)
  \/ RefuseRetry(s) \/ RetryDelivered(s) \/ RetryFailed(s)
  \/ \E r \in WhRows : FirstFailed(s, r)

WhNext ==
  \/ \E h \in WhHooks : RegisterHook(h) \/ DeleteHook(h)
  \/ \E p \in WhProcs : Claims(p) \/ DieDelivering(p)
  \/ \E p \in WhProcs, h \in WhHooks, s \in WhSlots : Fire(p, h, s)
  \/ \E s \in WhSlots : Outcome(s)
  \/ \E r \in WhRows : BackoffOver(r) \/ LeaseOver(r) \/ PurgeLog(r)

\* Time passes, a post ends by its timeout, and tool calls go on arriving at
\* each process: every fifth one looks for due rows.
WhFairness ==
  /\ \A p \in WhProcs : WF_whVars(Claims(p))
  /\ \A s \in WhSlots : WF_whVars(Outcome(s))
  /\ \A r \in WhRows : WF_whVars(BackoffOver(r)) /\ WF_whVars(LeaseOver(r))

WhSpec == WhInit /\ [][WhNext]_whVars /\ WhFairness

-----------------------------------------------------------------------------
(* Properties.                                                             *)

WhTypeOK ==
  /\ hooks \subseteq WhHooks
  /\ \A r \in WhRows : /\ wlog[r].term \in {"absent", Open, "delivered", "failed"}
                       /\ wlog[r].count \in 0 .. Ladder
                       /\ wlog[r].lease \in {"free", "held", "lapsed"}
                       /\ Present(r) => wlog[r].count > 0 /\ wlog[r].hook \in WhHooks
  /\ \A s \in WhSlots : /\ wjob[s].proc \in WhProcs \cup {"none"}
                        /\ wjob[s].row \in WhRows \cup {0}
                        /\ wjob[s].phase \in {"none", "check", "post"}
  /\ wscan \in [WhProcs -> SUBSET WhRows]

\* Two processes deliver one failed event at the same time only when one of
\* them has outlived the row's lease: of all the deliveries of a row in flight,
\* at most one is not late.
OneAtATime ==
  \A s, t \in WhSlots :
    /\ wjob[s].row # 0
    /\ wjob[s].row = wjob[t].row
    /\ ~wjob[s].late
    /\ ~wjob[t].late
    => s = t

LateEnds == \E s \in WhSlots : wjob[s].late /\ wjob'[s] = NoJob

\* A row that says delivered or failed goes on saying so until the purge takes
\* it: only a delivery that outlived the lease overwrites another's outcome.
OutcomeStays ==
  [][\A r \in WhRows :
       wlog[r].term \in {"delivered", "failed"} =>
         wlog'[r].term \in {wlog[r].term, "absent"} \/ LateEnds]_whVars

\* The promises of a retried delivery: one post of a row at a time within its lease, and an
\* outcome is final (db.ts, webhooks.ts).
RetriesAreExclusive ==
  /\ []WhTypeOK /\ []OneAtATime /\ OutcomeStays

StillOwed(r) == wlog[r].term = Open /\ wlog[r].hook \in hooks

\* A failed delivery is retried to an end, across crashes of the process that
\* claimed it: it is delivered or given up, unless its subscription goes.
RetriesEnd == \A r \in WhRows : []<>~StillOwed(r)

\* What the tool's description promises (server.ts:567): deleting a
\* subscription removes its pending entries too.
PendingGoesWithHook == \A r \in WhRows : wlog[r].term = Open => wlog[r].hook \in hooks

=============================================================================
