------------------------------ MODULE MCRelayNet ------------------------------
(* What the daemon keeps with its peers over the network, for TLC: notices to *)
(* subscribers, webhooks and one delivery of them, dashboard pages, MCP       *)
(* sessions and the checks of credentials.  They share no variable: each      *)
(* behaviour runs the one that `focus' names while the others rest.           *)
EXTENDS RelayOutbox, RelayWebhooks, RelayDelivery, RelayDashboard, RelayHttp, RelayThrottle

\* The scan's bucket is smaller than the others.
MCBurst == [k \in BucketKeys |-> IF k = ScanKey THEN 1 ELSE 2]

VARIABLE focus   \* the component this behaviour runs

netVars == <<vars, whVars, delVars, dashVars, httpVars, throttleVars, focus>>

NetInit ==
  /\ focus \in {"outbox", "webhooks", "delivery", "dashboard", "http", "throttle"}
  /\ Init /\ WhInit /\ DelInit /\ DashInit /\ HttpInit /\ ThrottleInit
  /\ focus # "delivery" => \A h \in PubHosts : resolves[h] = {}
  /\ focus # "dashboard" => current = CHOOSE s \in States : TRUE

NetNext ==
  /\ UNCHANGED focus
  /\ \/ /\ focus = "outbox" /\ Next
        /\ UNCHANGED <<whVars, delVars, dashVars, httpVars, throttleVars>>
     \/ /\ focus = "webhooks" /\ WhNext
        /\ UNCHANGED <<vars, delVars, dashVars, httpVars, throttleVars>>
     \/ /\ focus = "delivery" /\ DelNext
        /\ UNCHANGED <<vars, whVars, dashVars, httpVars, throttleVars>>
     \/ /\ focus = "dashboard" /\ DashNext
        /\ UNCHANGED <<vars, whVars, delVars, httpVars, throttleVars>>
     \/ /\ focus = "http" /\ HttpNext
        /\ UNCHANGED <<vars, whVars, delVars, dashVars, throttleVars>>
     \/ /\ focus = "throttle" /\ ThrottleNext
        /\ UNCHANGED <<vars, whVars, delVars, dashVars, httpVars>>

\* The fairness of each component, asked of the one in focus.
NetFairness ==
  /\ WF_vars(focus = "outbox" /\ StartVersion)
  /\ WF_vars(focus = "outbox" /\ TickCheck)
  /\ SF_vars(focus = "outbox" /\ TickSelect)
  /\ \A w \in WhProcs : WF_whVars(focus = "webhooks" /\ Claims(w))
  /\ \A s \in WhSlots : WF_whVars(focus = "webhooks" /\ Outcome(s))
  /\ \A r \in WhRows : /\ WF_whVars(focus = "webhooks" /\ BackoffOver(r))
                       /\ WF_whVars(focus = "webhooks" /\ LeaseOver(r))
  /\ WF_delVars(focus = "delivery" /\ DelStep)
  /\ WF_delVars(focus = "delivery" /\ Happens("timeout"))
  /\ SF_dashVars(focus = "dashboard" /\ ~limited /\ StateTick)
  /\ WF_dashVars(focus = "dashboard" /\ WindowPasses)
  /\ \A c \in PageIds : WF_dashVars(focus = "dashboard" /\ FrameLands(c))
  /\ \A s \in Sids : /\ WF_httpVars(focus = "http" /\ InitAnswered(s))
                     /\ WF_httpVars(focus = "http" /\ InitRegistered(s))
                     /\ WF_httpVars(focus = "http" /\ IdleElapses(s))
                     /\ WF_httpVars(focus = "http" /\ Reap(s))
  /\ \A r \in ReqSlots : WF_httpVars(focus = "http" /\ ResponseCloses(r) /\ req[r].sid \in left)
  /\ \A c \in Checks : WF_throttleVars(focus = "throttle" /\ CheckStep(c))

NetSpec == NetInit /\ [][NetNext]_netVars /\ NetFairness

\* What must happen between the daemon and its peers, happens: subscribers hear and rows are
\* dispatched, retries, deliveries and checks end, pages catch up, dead sessions go
\* (outbox-tail.ts, webhooks.ts, webhook-delivery.ts, bcrypt-pool.ts, transport/).
NetProgress ==
  /\ SubscribersHear /\ RowsDispatched /\ RetriesEnd /\ DeliveryEnds
  /\ PagesCatchUp /\ DeadSessionsGo /\ ChecksSettle
=============================================================================
