---------------------------- MODULE RelayHttp --------------------------------
(***************************************************************************)
(* The MCP sessions of the HTTP daemon.  A session is made by an initialize *)
(* request, which is answered before the session is in the map; it is held *)
(* open by its client's GET stream, ended by DELETE, or reaped when it has *)
(* been idle and no stream is open.  Every request of an address takes one *)
(* of a few slots until its response finishes or closes, whichever the     *)
(* server hears first.                                                     *)
(*                                                                         *)
(* One address.  A request that is refused (429, 503, 404, 400) changes    *)
(* nothing and is no action.                                               *)
(***************************************************************************)
EXTENDS Naturals, FiniteSets

CONSTANTS Sids,            \* session ids
          ReqSlots,           \* bound: requests whose response is not closed
          MaxMcpSessions,  \* HTTP_MAX_SESSIONS
          MaxConcurrent    \* maxConcurrentPerIp

ASSUME SessionBounds ==
  /\ MaxMcpSessions \in Nat \ {0} /\ MaxConcurrent \in Nat \ {0}
  /\ IsFiniteSet(ReqSlots) /\ "noslot" \notin ReqSlots

VARIABLES sessions,        \* the map: the session of an id, or NoSession
          transport,       \* the SDK's transport of an id
          stream,          \* the slot of the GET stream the transport serves, or NoSlot
          left,            \* clients that are gone
          req,             \* the request of a slot, or NoReq
          active           \* activeByIp

httpVars == <<sessions, transport, stream, left, req, active>>

NoSlot == "noslot"
NoSession == [held |-> FALSE, idle |-> FALSE, gets |-> 0]
SessionRows == {NoSession} \cup [held : {TRUE}, idle : BOOLEAN, gets : 0 .. Cardinality(ReqSlots)]
\* finished: the "finish" event was heard and "close" was not.
Req(k, s) == [kind |-> k, sid |-> s, finished |-> FALSE]
NoReq == [kind |-> "none", sid |-> "none", finished |-> FALSE]

InMap == {s \in Sids : sessions[s].held}
InFlight == {r \in ReqSlots : req[r] # NoReq}
\* Requests whose response neither finished nor closed.
Unanswered == {r \in InFlight : ~req[r].finished}
StreamOpen(s) == stream[s] # NoSlot

HttpInit ==
  /\ sessions = [s \in Sids |-> NoSession]
  /\ transport = [s \in Sids |-> "none"]
  /\ stream = [s \in Sids |-> NoSlot]
  /\ left = {}
  /\ req = [r \in ReqSlots |-> NoReq]
  /\ active = 0

-----------------------------------------------------------------------------
(* Requests.                                                               *)

\* rateLimitCheck, the part that is not the rate: a slot is taken.
Admits(r) == req[r] = NoReq /\ active < MaxConcurrent
Admitted(r, k, s) ==
  /\ Admits(r)
  /\ req' = [req EXCEPT ![r] = Req(k, s)]
  /\ active' = active + 1

\* handleStatefulInit: the cap is checked before the transport is connected.
InitArrives(r, s) ==
  /\ Admitted(r, "init", s)
  /\ transport[s] = "none" /\ \A q \in InFlight : req[q].sid # s
  /\ Cardinality(InMap) < MaxMcpSessions
  /\ transport' = [transport EXCEPT ![s] = "connecting"]
  /\ left' = left \ {s}
  /\ UNCHANGED <<sessions, stream>>

\* The SDK has assigned the id and written the answer.
InitAnswered(s) ==
  /\ transport[s] = "connecting"
  /\ transport' = [transport EXCEPT ![s] = "answered"]
  /\ UNCHANGED <<sessions, stream, left, req, active>>

\* handleRequest has returned: only now is the session found.
InitRegistered(s) ==
  /\ transport[s] = "answered"
  /\ transport' = [transport EXCEPT ![s] = "live"]
  /\ sessions' = [sessions EXCEPT ![s] = [held |-> TRUE, idle |-> FALSE, gets |-> 0]]
  /\ UNCHANGED <<stream, left, req, active>>

PostArrives(r, s) ==
  /\ s \in InMap \ left
  /\ Admitted(r, "post", s)
  /\ sessions' = [sessions EXCEPT ![s].idle = FALSE]
  /\ UNCHANGED <<transport, stream, left>>

\* A stream is counted before the SDK sees the request; the SDK refuses a second one.
GetArrives(r, s) ==
  /\ s \in InMap \ left
  /\ Admitted(r, "get", s)
  /\ sessions' = [sessions EXCEPT ![s].idle = FALSE, ![s].gets = @ + 1]
  /\ stream' = IF StreamOpen(s) THEN stream ELSE [stream EXCEPT ![s] = r]
  /\ UNCHANGED <<transport, left>>

-----------------------------------------------------------------------------
(* Responses.                                                              *)

\* decrement: once, for the event that comes first.
SlotBack(r) == IF req[r].finished THEN active ELSE active - 1

\* "finish": the answer is written.  An open stream is not.
Finishes(r) ==
  /\ r \in Unanswered
  /\ req[r].kind = "init" => transport[req[r].sid] # "connecting"
  /\ stream[req[r].sid] # r
  /\ req' = [req EXCEPT ![r].finished = TRUE]
  /\ active' = SlotBack(r)
  /\ UNCHANGED <<sessions, transport, stream, left>>

\* decrementOnce, on the session captured when the stream was opened.
CountedDown(s) ==
  IF sessions[s].gets = 0 THEN sessions ELSE [sessions EXCEPT ![s].gets = @ - 1]

\* "close": after "finish", or because the client left, or a stream came to its end.
ResponseCloses(r) ==
  /\ r \in InFlight
  /\ \/ req[r].finished
     \/ req[r].sid \in left
     \/ transport[req[r].sid] = "none"
     \/ stream[req[r].sid] = r
  /\ sessions' = IF req[r].kind = "get" THEN CountedDown(req[r].sid) ELSE sessions
  /\ stream' = IF stream[req[r].sid] = r THEN [stream EXCEPT ![req[r].sid] = NoSlot] ELSE stream
  /\ active' = SlotBack(r)
  /\ req' = [req EXCEPT ![r] = NoReq]
  /\ UNCHANGED <<transport, left>>

-----------------------------------------------------------------------------
(* Ends.                                                                   *)

\* transport.close: its onclose takes the session out of the map, its stream ends.
SessionGone(s) ==
  /\ sessions' = [sessions EXCEPT ![s] = NoSession]
  /\ transport' = [transport EXCEPT ![s] = "none"]
  /\ stream' = [stream EXCEPT ![s] = NoSlot]

Delete(s) ==
  /\ s \in InMap \ left
  /\ SessionGone(s)
  /\ UNCHANGED <<left, req, active>>

ClientLeaves(s) ==
  /\ transport[s] # "none" /\ s \notin left
  /\ left' = left \cup {s}
  /\ UNCHANGED <<sessions, transport, stream, req, active>>

\* RELAY_HTTP_SESSION_IDLE_SECONDS since the session's last request.
IdleElapses(s) ==
  /\ s \in InMap /\ ~sessions[s].idle
  /\ sessions' = [sessions EXCEPT ![s].idle = TRUE]
  /\ UNCHANGED <<transport, stream, left, req, active>>

\* Mutant: idle is enough, whatever streams are open.
Reapable_Idle(s) == s \in InMap /\ sessions[s].idle
\* shouldReapSession.
Reapable(s) == s \in InMap /\ sessions[s].idle /\ sessions[s].gets = 0

Reap(s) ==
  /\ Reapable(s)
  /\ SessionGone(s)
  /\ UNCHANGED <<left, req, active>>

HttpNext ==
  \/ \E s \in Sids :
       \/ InitAnswered(s) \/ InitRegistered(s) \/ Delete(s) \/ ClientLeaves(s)
       \/ IdleElapses(s) \/ Reap(s)
       \/ \E r \in ReqSlots : InitArrives(r, s) \/ PostArrives(r, s) \/ GetArrives(r, s)
  \/ \E r \in ReqSlots : Finishes(r) \/ ResponseCloses(r)

\* The SDK answers, the socket of a client that left is found closed (a stream's by
\* the keepalive writes), time passes and the reaper's interval fires.
HttpFairness ==
  /\ \A s \in Sids : /\ WF_httpVars(InitAnswered(s)) /\ WF_httpVars(InitRegistered(s))
                     /\ WF_httpVars(IdleElapses(s)) /\ WF_httpVars(Reap(s))
  /\ \A r \in ReqSlots : WF_httpVars(ResponseCloses(r) /\ req[r].sid \in left)

HttpSpec == HttpInit /\ [][HttpNext]_httpVars /\ HttpFairness

-----------------------------------------------------------------------------
(* Correctness.                                                            *)

HttpTypeOK ==
  /\ sessions \in [Sids -> SessionRows]
  /\ transport \in [Sids -> {"none", "connecting", "answered", "live"}]
  /\ stream \in [Sids -> ReqSlots \cup {NoSlot}]
  /\ left \subseteq Sids
  /\ \A r \in ReqSlots : req[r] = NoReq \/ req[r] \in [kind : {"init", "post", "get"}, sid : Sids, finished : BOOLEAN]
  /\ active \in 0 .. MaxConcurrent
  /\ \A s \in Sids : sessions[s].held => transport[s] = "live"

\* A slot is held by exactly the requests that are not answered: none is lost to a
\* client that went away, and none is given back twice (finish, then close).
SlotsAccounted == active = Cardinality(Unanswered)

\* The reaper never ends a session that has an open stream, whatever streams its
\* client opened and closed before (openGetStreams, a count and not a flag).
ReaperSparesStreams ==
  [][\A s \in Sids : sessions[s].held /\ StreamOpen(s) => sessions'[s].held \/ Delete(s)]_httpVars

\* The promises of the session map: slots are counted once, and the reaper spares a session
\* with an open stream (transport/http.ts).
SessionsAccounted ==
  /\ []HttpTypeOK /\ []SlotsAccounted /\ ReaperSparesStreams

\* The session of a client that went away leaves the map, even when it left before the
\* session was in it, or without closing its stream.
DeadSessionsGo == \A s \in Sids : []<>(s \notin left \/ transport[s] = "none")

\* CHANGELOG.md:2327: RELAY_HTTP_MAX_SESSIONS "caps the map size".
MapIsCapped == Cardinality(InMap) <= MaxMcpSessions

=============================================================================
