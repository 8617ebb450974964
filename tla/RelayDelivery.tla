--------------------------- MODULE RelayDelivery ---------------------------
(***************************************************************************)
(* One webhook POST.  The URL's host is resolved and every address judged; *)
(* the request then goes to those addresses and no other, however the name *)
(* resolves by then.  A refused connection is tried on the next address; a *)
(* redirect starts over with a host of the receiver's choice.  A request   *)
(* can be answered, fail, time out by either of two timers, or several of  *)
(* these in turn: the first one settles it.                                *)
(***************************************************************************)
EXTENDS Naturals, FiniteSets

CONSTANTS PubHosts,        \* host names
          PublicIps,       \* addresses outside the blocked ranges
          PrivateIps,      \* addresses inside them
          MaxRedirects,    \* MAX_REDIRECTS
          MaxIpAttempts    \* MAX_IP_ATTEMPTS

\* An address is inside the blocked ranges or outside them.
ASSUME DeliveryBounds ==
  /\ PublicIps \cap PrivateIps = {} /\ "none" \notin PublicIps \cup PrivateIps
  /\ MaxRedirects \in Nat /\ MaxIpAttempts \in Nat \ {0}

VARIABLES resolves,        \* what each host name resolves to now
          pin,             \* the delivery: its hop and its pinned addresses
          wire,            \* the request in flight
          sends            \* requests sent so far

delVars == <<resolves, pin, wire, sends>>

Ips == PublicIps \cup PrivateIps
NoWire == [to |-> "none", events |-> {}, settled |-> "none"]
DeliveryOver == "ended"
NotSent == [phase |-> "none", host |-> "none", ips |-> {}, hop |-> 0, tried |-> 0]

\* validateWebhookUrl: a name that resolves to nothing, or to one address in a
\* blocked range among others, is refused.
Accepted(ips) == ips # {} /\ ips \cap PrivateIps = {}

-----------------------------------------------------------------------------
(* A hop: the host is judged and its addresses pinned.                     *)

\* The receiver of the name's zone answers differently the next time.
Resolve(h, ips) ==
  /\ pin.phase # DeliveryOver
  /\ resolves[h] # ips
  /\ resolves' = [resolves EXCEPT ![h] = ips]
  /\ UNCHANGED <<pin, wire, sends>>

Pinned(h, ips) == ips

\* deliverPinnedPost, to the host of the subscription's URL.
Post(h) ==
  /\ pin = NotSent
  /\ pin' = [NotSent EXCEPT !.phase = "judge", !.host = h]
  /\ UNCHANGED <<resolves, wire, sends>>

Judge ==
  /\ pin.phase = "judge"
  /\ LET ips == resolves[pin.host] IN
     pin' = IF Accepted(ips) THEN [pin EXCEPT !.phase = "pinned", !.ips = ips, !.tried = 0]
            ELSE [pin EXCEPT !.phase = DeliveryOver]
  /\ UNCHANGED <<resolves, wire, sends>>

\* sendWithIpFailover: the next pinned address.
Send ==
  /\ pin.phase = "pinned"
  /\ \E ip \in Pinned(pin.host, pin.ips) :
       /\ wire' = [to |-> ip, events |-> {}, settled |-> "none"]
       /\ pin' = [pin EXCEPT !.phase = "sent", !.ips = @ \ {ip}, !.tried = @ + 1]
  /\ sends' = sends + 1
  /\ UNCHANGED <<resolves>>

-----------------------------------------------------------------------------
(* sendOnce.                                                               *)

\* Mutant: no timer ends a request whose answer never ends.
Counts_NoTimer(e) == wire.settled = "none" /\ e # "timeout"
\* Mutant: a late event settles the request again.
Counts_Every(e) == TRUE
\* Each handler returns at once when the request is settled.
Counts(e) == wire.settled = "none"

\* Answers, the two timers, and errors; a destroyed request reports an error
\* after its timer, and a second timer may run out after the first.
Happens(e) ==
  /\ pin.phase \in {"sent", "settled"}
  /\ wire.to # "none"
  /\ e \notin wire.events
  /\ e \in {"answer", "redirect"} => wire.events \cap {"answer", "redirect"} = {}
  /\ wire' = [wire EXCEPT !.events = @ \cup {e},
                          !.settled = IF Counts(e) THEN e ELSE @]
  /\ pin' = [pin EXCEPT !.phase = IF Counts(e) THEN "settled" ELSE @]
  /\ UNCHANGED <<resolves, sends>>

\* Errors after which the next address is worth trying.
Retryable(e) == e \in {"unreachable", "timeout"}

\* The promise's reader: failover, the next hop, or the delivery's end.
NextAddress ==
  /\ pin.phase = "settled"
  /\ Retryable(wire.settled)
  /\ pin' = [pin EXCEPT !.phase = IF pin.ips # {} /\ pin.tried < MaxIpAttempts
                                  THEN "pinned" ELSE DeliveryOver]
  /\ wire' = NoWire
  /\ UNCHANGED <<resolves, sends>>

LastHop(hop) == hop = MaxRedirects

\* deliverPinnedPost judges a redirect's host as it judged the first one.
AfterRedirect == "judge"

FollowRedirect(h) ==
  /\ pin.phase = "settled"
  /\ wire.settled = "redirect"
  /\ pin' = IF LastHop(pin.hop) THEN [pin EXCEPT !.phase = DeliveryOver]
            ELSE [phase |-> AfterRedirect, host |-> h, ips |-> resolves[h], hop |-> pin.hop + 1,
                  tried |-> 0]
  /\ wire' = NoWire
  /\ UNCHANGED <<resolves, sends>>

Finish ==
  /\ pin.phase = "settled"
  /\ wire.settled \in {"answer", "reset"}
  /\ pin' = [pin EXCEPT !.phase = DeliveryOver]
  /\ wire' = NoWire
  /\ UNCHANGED <<resolves, sends>>

-----------------------------------------------------------------------------
(* The specification.                                                      *)

Events == {"answer", "redirect", "unreachable", "reset", "timeout"}

DelInit ==
  /\ resolves \in [PubHosts -> SUBSET Ips]
  /\ pin = NotSent
  /\ wire = NoWire
  /\ sends = 0

DelStep == Judge \/ Send \/ NextAddress \/ Finish \/ \E h \in PubHosts : FollowRedirect(h)

DelNext ==
  \/ \E h \in PubHosts : Post(h)
  \/ DelStep
  \/ \E e \in Events : Happens(e)
  \/ \E h \in PubHosts, ips \in SUBSET Ips : Resolve(h, ips)

\* The hard timer of a request runs out whatever its socket does.
DelFairness == WF_delVars(DelStep) /\ WF_delVars(Happens("timeout"))

DelSpec == DelInit /\ [][DelNext]_delVars /\ DelFairness

-----------------------------------------------------------------------------
(* Properties.                                                             *)

\* At most MAX_IP_ATTEMPTS requests for each of MAX_REDIRECTS + 1 hops.
DelTypeOK ==
  /\ resolves \in [PubHosts -> SUBSET Ips]
  /\ pin.phase \in {"none", "judge", "pinned", "sent", "settled", DeliveryOver}
  /\ pin.hop \in 0 .. MaxRedirects
  /\ wire.to \in Ips \cup {"none"}
  /\ sends \in 0 .. (MaxRedirects + 1) * MaxIpAttempts

\* No request ever goes to an address in a blocked range: whatever a name
\* resolves to after it was judged, on the first hop and on every redirect.
OnlyPublic == wire.to \notin PrivateIps

\* What settled a request is what its reader acts on: a late error, answer or
\* timer changes nothing.
SettlesOnce ==
  [][wire.settled # "none" => wire'.settled = wire.settled \/ wire' = NoWire]_delVars

\* The promises of one POST: it reaches public addresses only, whatever the name resolves to
\* by then, and settles once (webhook-delivery.ts, url-safety.ts).
DeliveryIsPinned ==
  /\ []DelTypeOK /\ []OnlyPublic /\ SettlesOnce

\* Every delivery ends, so that its row's lease and its slot are given back.
DeliveryEnds == []<>(pin.phase \in {"none", DeliveryOver})

=============================================================================
