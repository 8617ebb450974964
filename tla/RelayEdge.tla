------------------------------ MODULE RelayEdge ------------------------------
(***************************************************************************)
(* Who gets past the daemon's edge: the checks an HTTP request and a       *)
(* websocket upgrade go through, in their order, while the operator        *)
(* rotates the two shared secrets under clients that are using them.  The  *)
(* transport secret is read from the configuration file at each request,   *)
(* the dashboard's as the daemon found it at its start, and the            *)
(* websocket's again from the file.                                        *)
(*                                                                         *)
(* The answer to a request is a function of the daemon's state, so the     *)
(* properties range over the requests; only a served page, which sets      *)
(* cookies, and the rate limiter, which counts, are steps.  The operator   *)
(* rotates secrets and does not remove them.  Concurrency slots and the    *)
(* sessions behind /mcp are RelayHttp's.                                   *)
(***************************************************************************)
EXTENDS Naturals, SequencesExt, FiniteSetsExt

CONSTANTS Transport,        \* values of http_secret
          Dashboard,        \* values of dashboard_secret
          Sources,          \* client addresses
          Proxy,            \* the address in trusted_proxies
          PerMinute         \* RELAY_HTTP_RATE_LIMIT_PER_MINUTE

Unset == "unset"
Stopped == "stopped"

ASSUME EdgeBounds == /\ PerMinute \in Nat \ {0} /\ Proxy \notin Sources
                     /\ {Unset, Stopped} \cap (Transport \cup Dashboard) = {}

VARIABLES conf,             \* config.json: http, prev, dash
          boot,             \* the dashboard secret as the daemon started with it, or Down
          jar,              \* the cookies of the operator's browser
          held,             \* the transport secret a client presents
          spent             \* rateBuckets: requests of this window by source

edgeVars == <<conf, boot, jar, held, spent>>

NoCookies == [auth |-> Unset, csrf |-> FALSE]

EdgeInit ==
  /\ \E s \in Transport \cup {Unset}, d \in Dashboard \cup {Unset} :
       conf = [http |-> s, prev |-> {}, dash |-> d]
  /\ boot = Stopped
  /\ jar = NoCookies
  /\ held = conf.http
  /\ spent = [c \in Sources |-> 0]

-----------------------------------------------------------------------------
(* The checks.                                                             *)

Channels == {"none", "bearer", "query", "cookie"}
SecretsUsed == Transport \cup Dashboard \cup {Unset}
\* A request: where it goes, the credential and its channel, whether the CSRF header
\* mirrors the cookie, whether Host and Origin are on the lists, and whether the peer
\* is this machine.
Requests == [route : {"health", "page", "operator", "mcp", "ws"}, channel : Channels,
             secret : SecretsUsed, csrf : BOOLEAN, host : BOOLEAN,
             origin : {"absent", "listed", "other"}, local : BOOLEAN]

\* checkHostHeader; checkOrigin.
HostOk(r) == r.host
OriginOk(r) == r.origin # "other"

\* authMiddleware: the secret in force and those of an unfinished rotation.
Accepted == {conf.http} \cup conf.prev
TransportOk(r) == conf.http = Unset \/ (r.channel = "bearer" /\ r.secret \in Accepted)

Explicit(r) == r.channel \in {"bearer", "query"}
Presents(r, d) == r.channel # "none" /\ r.secret = d

\* csrfCheck: an ambient credential counts only with the mirrored token.
CsrfOk(r) == boot = Unset \/ Explicit(r) \/ r.csrf

\* dashboardAuthCheck: without a secret only this machine.
DashboardOk(r, d) == IF d = Unset THEN r.local ELSE Presents(r, d)

\* dashboardWsAuthOk reads the file again.
SocketOk(r) == DashboardOk(r, conf.dash)

\* operatorAuthCheck: and an operator's endpoint needs one wherever it is called from.
OperatorOk == boot # Unset

\* The middleware in its order, to the route; what is refused, and by whom.
Answer(r) ==
  IF boot = Stopped THEN "down"
  ELSE IF r.route = "health" THEN "served"
  ELSE IF ~HostOk(r) THEN "misdirected"
  ELSE IF r.route = "mcp" THEN (IF TransportOk(r) THEN "served" ELSE "unauthorized")
  ELSE IF r.route = "ws" /\ ~OriginOk(r) THEN "origin"
  ELSE IF r.route = "ws" THEN (IF SocketOk(r) THEN "served" ELSE "unauthorized")
  ELSE IF r.route = "operator" /\ ~CsrfOk(r) THEN "csrf"
  ELSE IF ~DashboardOk(r, boot) \/ (r.route = "operator" /\ ~OperatorOk) THEN "unauthorized"
  ELSE IF ~OriginOk(r) THEN "origin"
  ELSE "served"

\* Mutant: the first hop of the chain is believed.
SourceIp_First(peer, chain) == IF peer # Proxy \/ chain = <<>> THEN peer ELSE Head(chain)

\* extractSourceIp: behind a trusted proxy, the last hop that is not one.
SourceIp(peer, chain) ==
  LET hops == {i \in DOMAIN chain : chain[i] # Proxy}
  IN IF peer # Proxy \/ hops = {} THEN peer ELSE chain[Max(hops)]

-----------------------------------------------------------------------------
(* Steps.                                                                  *)

\* assertBindSafety passes: the bind is loopback or has a transport secret.
Start ==
  /\ boot = Stopped
  /\ boot' = conf.dash
  /\ UNCHANGED <<conf, jar, held, spent>>

Stop ==
  /\ boot # Stopped
  /\ boot' = Stopped
  /\ spent' = [c \in Sources |-> 0]
  /\ UNCHANGED <<conf, jar, held>>

\* The operator's rotation of the transport secret: the old one stays accepted until
\* the clients have moved.
RotateTransport(s) ==
  /\ conf.http # Unset /\ s # conf.http /\ conf.prev = {}
  /\ conf' = [conf EXCEPT !.http = s, !.prev = {conf.http}]
  /\ UNCHANGED <<boot, jar, held, spent>>

ClientMoves == held' = conf.http /\ UNCHANGED <<conf, boot, jar, spent>>

EndRotation ==
  /\ conf.prev # {} /\ held \notin conf.prev
  /\ conf' = [conf EXCEPT !.prev = {}]
  /\ UNCHANGED <<boot, jar, held, spent>>

RotateDashboard(d) ==
  /\ d # conf.dash
  /\ conf' = [conf EXCEPT !.dash = d]
  /\ UNCHANGED <<boot, jar, held, spent>>

Visit(channel, d) == [route |-> "page", channel |-> channel, secret |-> d, csrf |-> FALSE,
                      host |-> TRUE, origin |-> "listed", local |-> TRUE]

\* A served page sets both cookies from the credential it was asked with.
Cookies(d) == [auth |-> d, csrf |-> TRUE]

\* The browser opens the dashboard, with the secret in the address or with its cookie.
Opens(channel, d) ==
  /\ channel = "cookie" => d = jar.auth
  /\ Answer(Visit(channel, d)) = "served"
  /\ jar' = IF boot = Unset THEN jar ELSE Cookies(d)
  /\ UNCHANGED <<conf, boot, held, spent>>

\* rateLimitCheck: each request counts against its source, the refused ones too.
Counted(c) == [spent EXCEPT ![c] = IF @ <= PerMinute THEN @ + 1 ELSE @]

\* A client's request arrives, directly or through the proxy, which appends the
\* address it saw to whatever chain the client sent.
RequestArrives(c, proxied, sent) ==
  /\ boot # Stopped
  /\ LET source == IF proxied THEN SourceIp(Proxy, Append(sent, c)) ELSE SourceIp(c, sent)
     IN source \in Sources /\ spent' = Counted(source)
  /\ UNCHANGED <<conf, boot, jar, held>>

\* The window of a source is over.
Minute(c) ==
  /\ spent[c] > 0
  /\ spent' = [spent EXCEPT ![c] = 0]
  /\ UNCHANGED <<conf, boot, jar, held>>

\* What a client may write in X-Forwarded-For itself.
Forgeries == {<<>>} \cup {<<a>> : a \in Sources \cup {Proxy}}
             \cup {<<a, b>> : a \in Sources, b \in Sources \cup {Proxy}}

EdgeNext ==
  \/ Start \/ Stop \/ ClientMoves \/ EndRotation
  \/ \E s \in Transport : RotateTransport(s)
  \/ \E d \in Dashboard : RotateDashboard(d)
  \/ \E channel \in {"query", "cookie"}, d \in Dashboard \cup {Unset} : Opens(channel, d)
  \/ \E c \in Sources, proxied \in BOOLEAN, sent \in Forgeries : RequestArrives(c, proxied, sent)
  \/ \E c \in Sources : Minute(c)

EdgeSpec == EdgeInit /\ [][EdgeNext]_edgeVars

-----------------------------------------------------------------------------
(* Properties.                                                             *)

\* Types, and a budget that does not run past what it refuses at.
EdgeTypeOK ==
  /\ conf \in [http : Transport \cup {Unset}, prev : SUBSET Transport,
               dash : Dashboard \cup {Unset}]
  /\ boot \in Dashboard \cup {Unset, Stopped}
  /\ jar \in [auth : Dashboard \cup {Unset}, csrf : BOOLEAN]
  /\ held \in Transport \cup {Unset}
  /\ spent \in [Sources -> 0..PerMinute + 1]

\* An operator's endpoint answers the dashboard's secret only, never the transport's,
\* and one that rode in a cookie only with the token a page of ours read; from
\* whatever machine (ADR-0006, http.ts:703-875).
OperatorIsAuthenticated ==
  boot # Stopped => \A r \in Requests :
    r.route = "operator" /\ Answer(r) = "served"
      => /\ r.secret = boot /\ boot \in Dashboard
         /\ r.channel = "cookie" => r.csrf

\* A client that moves to the new transport secret at any time of a rotation is never
\* refused for it (README.md:455-481).
RotationRefusesNobody ==
  held # Unset =>
    \A r \in Requests : /\ r.route = "mcp" /\ r.channel = "bearer"
                        /\ r.secret = held /\ r.host /\ boot # Stopped
                        => Answer(r) = "served"

\* What the operator's browser got from a page is enough for the page's own calls and
\* its websocket, as long as the secret is the one the daemon runs with: the two
\* credentials and the token do not fall out of step (http.ts:746-785, 801-844).
FromPage(route) == [route |-> route, channel |-> "cookie", secret |-> jar.auth,
                    csrf |-> jar.csrf, host |-> TRUE,
                    origin |-> "listed", local |-> TRUE]
PageCanAct ==
  boot \in Dashboard /\ jar.auth = boot =>
    /\ Answer(FromPage("operator")) = "served"
    /\ conf.dash = boot => Answer(FromPage("ws")) = "served"

\* Whatever chain a client sends, its requests count against its own address and no
\* one else's (http.ts:229-261).
BudgetIsOwn ==
  [][\A c \in Sources, proxied \in BOOLEAN, sent \in Forgeries :
       RequestArrives(c, proxied, sent) => \A o \in Sources \ {c} : spent'[o] = spent[o]]_edgeVars

\* The promises of the daemon's edge: an operator is authenticated, a rotation refuses
\* nobody, a served page can act, and a budget is its source's own (transport/http.ts).
EdgeHolds ==
  /\ []EdgeTypeOK /\ []OperatorIsAuthenticated /\ []RotationRefusesNobody
  /\ []PageCanAct /\ BudgetIsOwn
=============================================================================
