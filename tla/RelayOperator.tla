---------------------------- MODULE RelayOperator ----------------------------
(***************************************************************************)
(* An operator's calls to the dashboard's endpoints, past RelayEdge's:     *)
(* sending as an agent, killing one, setting its status, touching its      *)
(* marker, naming oneself, choosing the theme.  Sending verifies the       *)
(* agent's token in the worker pool, and while it waits the daemon serves  *)
(* others and another process may rotate, revoke or unregister.            *)
(*                                                                         *)
(* One agent and one call in flight.  How a token is verified and what a   *)
(* rotation does to the row is RelayAuth's; here a row is the tokens that  *)
(* open it.                                                                *)
(***************************************************************************)
EXTENDS Naturals

CONSTANT MaxTokens         \* bound: tokens minted

ASSUME OperatorBounds == MaxTokens \in Nat \ {0}

VARIABLES acred,           \* the agent's row: token, the one in grace, revoked
          lastToken,       \* tokens are minted in order
          opcall,          \* the send that waits for its verification
          astatus,         \* agent_status
          authed,          \* first_authed_at
          outgoing,        \* the token of the last message sent as the agent
          audited,         \* how the last call was recorded: an operator's row, or none
          prefs            \* dashboard_prefs.theme and operator cookie

opVars == <<acred, lastToken, opcall, astatus, authed, outgoing, audited, prefs>>

Tokens == 1..MaxTokens
NoToken == 0
NoCred == [token |-> NoToken, grace |-> NoToken, revoked |-> FALSE, row |-> FALSE]
Waits == [st |-> "idle", token |-> NoToken, seen |-> NoCred, moved |-> FALSE]

OpInit ==
  /\ acred = NoCred /\ lastToken = 0
  /\ opcall = Waits
  /\ astatus = "idle" /\ authed = FALSE
  /\ outgoing = NoToken /\ audited = "none"
  /\ prefs = [theme |-> "catppuccin", operator |-> "default"]

\* The row admits the token: it is the one in force, or the last one within its grace.
Accepts(cred, t) ==
  /\ cred.row /\ ~cred.revoked /\ t # NoToken
  /\ t = cred.token \/ t = cred.grace

-----------------------------------------------------------------------------
(* Credentials move: in this process, which moves its generation, or not.  *)

Moved(here) == opcall' = IF here THEN [opcall EXCEPT !.moved = TRUE] ELSE opcall

\* register_agent of the name; a row from before tokens has none.
Registers(here, legacy) ==
  /\ ~acred.row /\ (legacy \/ lastToken < MaxTokens)
  /\ lastToken' = IF legacy THEN lastToken ELSE lastToken + 1
  /\ acred' = [NoCred EXCEPT !.row = TRUE, !.token = IF legacy THEN NoToken ELSE lastToken']
  /\ Moved(here)
  /\ astatus' = "idle" /\ authed' = FALSE
  /\ UNCHANGED <<outgoing, audited, prefs>>

Rotates(here, grace) ==
  /\ acred.row /\ ~acred.revoked /\ acred.token # NoToken /\ lastToken < MaxTokens
  /\ lastToken' = lastToken + 1
  /\ acred' = [acred EXCEPT !.token = lastToken',
                            !.grace = IF grace THEN acred.token ELSE NoToken]
  /\ Moved(here)
  /\ UNCHANGED <<astatus, authed, outgoing, audited, prefs>>

GraceEnds ==
  /\ acred.grace # NoToken
  /\ acred' = [acred EXCEPT !.grace = NoToken]
  /\ UNCHANGED <<lastToken, opcall, astatus, authed, outgoing, audited, prefs>>

Revokes(here) ==
  /\ acred.row /\ ~acred.revoked
  /\ acred' = [acred EXCEPT !.revoked = TRUE]
  /\ Moved(here)
  /\ UNCHANGED <<lastToken, astatus, authed, outgoing, audited, prefs>>

-----------------------------------------------------------------------------
(* POST /api/send-message.                                                 *)

\* The call is over, with a row in the audit log or none.
Over(how) == opcall' = Waits /\ audited' = how

\* No token for a row that has one, or a token for a row that has none; a name with no
\* row fails in sendMessage; a row from before tokens sends without.
SendUnverified(t) ==
  /\ opcall.st = "idle"
  /\ (acred.token # NoToken) # (t # NoToken) \/ (acred.token = NoToken /\ t = NoToken)
  /\ outgoing' = IF acred.row /\ acred.token = NoToken /\ t = NoToken THEN NoToken
                 ELSE outgoing
  /\ Over("row")
  /\ UNCHANGED <<acred, lastToken, astatus, authed, prefs>>

\* The row and the generation are read, and the token goes to the pool.
SendArrives(t) ==
  /\ opcall.st = "idle" /\ acred.token # NoToken /\ t # NoToken
  /\ opcall' = [st |-> "verifying", token |-> t, seen |-> acred, moved |-> FALSE]
  /\ UNCHANGED <<acred, lastToken, astatus, authed, outgoing, audited, prefs>>

\* Throttled or busy: 429, and nothing is written.
SendDeferred == opcall.st = "verifying" /\ Over("none")
                /\ UNCHANGED <<acred, lastToken, astatus, authed, outgoing, prefs>>

\* The hash the token matched is in the column it matched.
Matched == IF opcall.token = opcall.seen.token THEN acred.token = opcall.seen.token
           ELSE acred.grace = opcall.seen.grace

\* Mutant: the generation has not moved, so nothing has.
Revalidates_Not == TRUE
\* revalidate: the fresh row, right before the send.
Revalidates == acred.row /\ ~acred.revoked /\ Matched

\* The token did not open the row as it was read, the generation moved, or the row no
\* longer admits it.
SendRefused ==
  /\ opcall.st = "verifying"
  /\ \/ ~Accepts(opcall.seen, opcall.token) /\ Over("row")
     \/ Accepts(opcall.seen, opcall.token) /\ opcall.moved /\ Over("none")
     \/ /\ Accepts(opcall.seen, opcall.token) /\ ~opcall.moved
        /\ ~Revalidates /\ Over("row")
  /\ UNCHANGED <<acred, lastToken, astatus, authed, outgoing, prefs>>

\* sendMessage in the turn of the check, and the first-authenticated stamp.
SendSends ==
  /\ opcall.st = "verifying"
  /\ Accepts(opcall.seen, opcall.token) /\ ~opcall.moved /\ Revalidates
  /\ outgoing' = opcall.token
  /\ authed' = TRUE
  /\ Over("row")
  /\ UNCHANGED <<acred, lastToken, astatus, prefs>>

-----------------------------------------------------------------------------
(* The other endpoints answer in one turn.                                 *)

\* POST /api/kill-agent, with its second header.
Kill(confirmed) ==
  /\ IF confirmed THEN acred' = NoCred /\ authed' = FALSE
     ELSE UNCHANGED <<acred, authed>>
  /\ opcall' = IF confirmed /\ acred.row THEN [opcall EXCEPT !.moved = TRUE] ELSE opcall
  /\ audited' = "row"
  /\ UNCHANGED <<lastToken, astatus, outgoing, prefs>>

\* POST /api/set-status; a name that is not registered is a 404.
SetStatus(s) ==
  /\ astatus' = IF acred.row THEN s ELSE astatus
  /\ audited' = "row"
  /\ UNCHANGED <<acred, lastToken, opcall, authed, outgoing, prefs>>

\* POST /api/wake-agent touches a file, registered or not.
Wake == audited' = "row"
        /\ UNCHANGED <<acred, lastToken, opcall, astatus, authed, outgoing, prefs>>

\* POST /api/focus-terminal raises a window and records nothing.
Focus == audited' = "none"
         /\ UNCHANGED <<acred, lastToken, opcall, astatus, authed, outgoing, prefs>>

\* POST /api/operator-identity: the cookie wins over the environment.
Identify(who) ==
  /\ prefs' = [prefs EXCEPT !.operator = who]
  /\ audited' = "row"
  /\ UNCHANGED <<acred, lastToken, opcall, astatus, authed, outgoing>>

\* POST /api/dashboard-theme.
Theme(t) ==
  /\ prefs' = [prefs EXCEPT !.theme = t]
  /\ audited' = "row"
  /\ UNCHANGED <<acred, lastToken, opcall, astatus, authed, outgoing>>

OpNext ==
  \/ \E here \in BOOLEAN :
       \/ \E b \in BOOLEAN : Registers(here, b) \/ Rotates(here, b)
       \/ Revokes(here)
  \/ GraceEnds
  \/ \E t \in Tokens \cup {NoToken} : SendUnverified(t) \/ SendArrives(t)
  \/ SendDeferred \/ SendRefused \/ SendSends
  \/ \E c \in BOOLEAN : Kill(c)
  \/ \E s \in {"working", "offline"} : SetStatus(s)
  \/ Wake \/ Focus
  \/ \E who \in {"default", "cookie"} : Identify(who)
  \/ \E t \in {"catppuccin", "dark"} : Theme(t)

OpSpec == OpInit /\ [][OpNext]_opVars

-----------------------------------------------------------------------------
(* Properties.                                                             *)

\* Types; an agent counts as established only while its row is there, and a call that
\* waits read a row with a token.
OperatorTypeOK ==
  /\ acred \in [token : Tokens \cup {NoToken}, grace : Tokens \cup {NoToken},
                revoked : BOOLEAN, row : BOOLEAN]
  /\ lastToken \in 0..MaxTokens /\ authed \in BOOLEAN
  /\ authed => acred.row
  /\ opcall.st \in {"idle", "verifying"}
  /\ opcall.st = "verifying" => opcall.seen.token # NoToken /\ opcall.token # NoToken
  /\ astatus \in {"idle", "working", "offline"}
  /\ outgoing \in Tokens \cup {NoToken} /\ audited \in {"row", "none"}
  /\ prefs \in [theme : {"catppuccin", "dark"}, operator : {"default", "cookie"}]

\* A message goes out as an agent only with a token that opens the agent's row when it
\* is sent, not when it was verified: whatever another process did in between
\* (http.ts:1138-1232).
SentByItsToken == [][SendSends => Accepts(acred, outgoing')]_opVars

\* The promises of the operator's endpoints: what they send as an agent, a token of that
\* agent's row at the write opened (transport/http.ts).
OperatorSendsWithToken ==
  /\ []OperatorTypeOK /\ SentByItsToken

\* "Every dashboard-routed call now audits" (http.ts:933-936).
EveryCallAudits == [][\A t \in Tokens : SendDeferred \/ SendRefused \/ Focus
                        => audited' = "row"]_opVars
=============================================================================
