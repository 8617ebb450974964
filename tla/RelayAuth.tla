------------------------------ MODULE RelayAuth ------------------------------
(***************************************************************************)
(* Agent credentials: the row of an agent from its registration to its     *)
(* removal, the dispatcher that verifies a caller, and the cache of        *)
(* verified tokens.                                                        *)
(*                                                                         *)
(* The daemon is single threaded, but a bcrypt compare is awaited: between *)
(* the read of a row and the verdict on it other calls run, and other      *)
(* processes commit at any time.  A verdict is therefore evidence (which   *)
(* stored hash it rests on) and the dispatcher tests the evidence again on *)
(* a fresh row before the handler writes.                                  *)
(*                                                                         *)
(* A secret (token, recovery token, registration handle) is a number, its  *)
(* bcrypt hash and its lookup digest are that number.                      *)
(***************************************************************************)
EXTENDS Naturals, FiniteSets

CONSTANTS
  Names,         \* agent names
  Calls,         \* tool calls the daemon serves at once
  MaxSecrets,    \* bound: secrets generated
  MaxNow,        \* bound: ticks of the clock
  GraceTicks,    \* length of a rotation grace window
  CacheTicks     \* authCacheTtlMs

ASSUME AuthBounds == /\ Names # {} /\ MaxSecrets \in Nat /\ MaxNow \in Nat
                     /\ GraceTicks \in Nat \ {0} /\ CacheTicks \in Nat

VARIABLES
  cred,          \* agents: the credential columns of each row
  authCache,     \* the daemon's verified tokens: the entries that may still be served
  call,          \* the daemon's calls
  peer,          \* another process on the same database
  nextSecret,    \* the next secret generateToken returns
  clock,
  did            \* for the properties only: the write of the last step, and its secret

authVars == <<cred, authCache, call, peer, nextSecret, clock, did>>

Secrets == 1 .. MaxSecrets
NoSecret == 0
AuthStates == {"active", "legacy_bootstrap", "revoked", "recovery_pending", "rotation_grace"}

(***************************************************************************)
(* look and plook are token_lookup and previous_token_lookup: the secret   *)
(* whose digest is stored, NoSecret when there is none or the key that     *)
(* wrote it is gone.  held: session_id IS NOT NULL.                        *)
(***************************************************************************)
CredRow == [state       : AuthStates \cup {"none"},
            hash        : Secrets \cup {NoSecret},
            prev        : Secrets \cup {NoSecret},
            look        : Secrets \cup {NoSecret},
            plook       : Secrets \cup {NoSecret},
            until       : Nat,
            recovery    : Secrets \cup {NoSecret},
            handle      : Secrets \cup {NoSecret},
            established : BOOLEAN,
            held        : BOOLEAN]

NoRow == [state |-> "none", hash |-> NoSecret, prev |-> NoSecret, look |-> NoSecret,
          plook |-> NoSecret, until |-> 0, recovery |-> NoSecret, handle |-> NoSecret,
          established |-> FALSE, held |-> FALSE]

Legacy == [NoRow EXCEPT !.state = "legacy_bootstrap"]

Bases == {"current", "previous"}

Evidence == [name : Names, basis : Bases, hash : Secrets]

(***************************************************************************)
(* An entry is served while auth_meta.generation is the one it was put     *)
(* under and its time is not up.  The generation only grows, so it is kept *)
(* as what a comparison with it tells: an increment empties the cache and  *)
(* leaves every call that read the generation before it not fresh.         *)
(***************************************************************************)
CacheEntry == [name : Names, basis : Bases, hash : Secrets, until : Nat]
NoEntry == [name |-> CHOOSE n \in Names : TRUE, basis |-> "current", hash |-> NoSecret,
            until |-> 0]
EmptyCache == [s \in Secrets |-> NoEntry]

(***************************************************************************)
(* kind: an identity claimed by name, a bare token, register_agent with    *)
(* the agent's own token, with a recovery token or for a new or pre-v1.7   *)
(* name, and abandon_registration.  seen is the row read before the        *)
(* compare, begun its time, fresh whether the generation is still that of the read.  scan:     *)
(* the locator missed and the rows without a usable digest are compared.   *)
(* late: an async handler past its first await.                            *)
(***************************************************************************)
Kinds == {"claimed", "token", "register", "recover", "new", "abandon"}
CallRow == [stage  : {"idle", "verify", "which", "scan", "granted", "late"},
            kind   : Kinds,
            name   : Names,
            secret : Secrets \cup {NoSecret},
            seen   : CredRow,
            begun  : Nat,
            fresh  : BOOLEAN,
            basis  : Bases,
            hash   : Secrets \cup {NoSecret}]

IdleCall == [stage |-> "idle", kind |-> "token", name |-> CHOOSE n \in Names : TRUE,
             secret |-> NoSecret, seen |-> NoRow, begun |-> 0, fresh |-> FALSE,
             basis |-> "current", hash |-> NoSecret]

(***************************************************************************)
(* The other process runs one of the same functions: read, it holds a row  *)
(* it will update; bump, its update is committed and the increment of the  *)
(* generation, a statement of its own, is not.                             *)
(***************************************************************************)
PeerRow == [stage : {"idle", "read", "bump"}, op : {"mint", "rotate", "sweep"},
            name : Names, hash : Secrets \cup {NoSecret}]
IdlePeer == [stage |-> "idle", op |-> "mint", name |-> CHOOSE n \in Names : TRUE,
             hash |-> NoSecret]

NoDeed == [name |-> CHOOSE n \in Names : TRUE, secret |-> NoSecret]

\* A grace window has a previous token, a recovery its token, and no other row has.
RowCoherent(r) == /\ r.state = "rotation_grace" <=> r.prev # NoSecret
                  /\ r.state = "rotation_grace" <=> r.until > 0
                  /\ r.state = "recovery_pending" <=> r.recovery # NoSecret
                  /\ r.state \in {"active", "rotation_grace"} => r.hash # NoSecret

AuthTypeOK ==
  /\ cred \in [Names -> CredRow] /\ \A n \in Names : RowCoherent(cred[n])
  /\ authCache \in [Secrets -> CacheEntry \cup {NoEntry}]
  /\ call \in [Calls -> CallRow]
  /\ peer \in PeerRow
  /\ nextSecret \in 1 .. MaxSecrets + 1
  /\ clock \in 0 .. MaxNow
  /\ did \in [name : Names, secret : Secrets \cup {NoSecret}]

AuthInit == /\ cred \in [Names -> {NoRow, Legacy}]
            /\ authCache = EmptyCache
            /\ call = [c \in Calls |-> IdleCall]
            /\ peer = IdlePeer
            /\ nextSecret = 1
            /\ clock = 0
            /\ did = NoDeed

------------------------------------------------------------------------------
(* Rows *)

CanGenerate(k) == nextSecret + k - 1 <= MaxSecrets
Issued == 1 .. nextSecret - 1

\* The INSERT of registerAgent: a token, and a one-time handle to abandon it with.
Registered(t, h) == [NoRow EXCEPT !.state = "active", !.hash = t, !.look = t,
                                  !.handle = h, !.held = TRUE]

\* The INSERT of mintAgentToken: no handle.
Minted(t) == [Registered(t, NoSecret) EXCEPT !.handle = NoSecret]

\* The UPDATE of registerAgent on a row whose credential is kept.
Reregistered(r) == [r EXCEPT !.held = TRUE]

\* The UPDATE of registerAgent on a legacy or recovering row: a new token.
Recovered(r, t) ==
  [r EXCEPT !.state = "active", !.hash = t, !.look = t, !.recovery = NoSecret,
            !.held = TRUE,
            !.established = @ \/ r.state = "recovery_pending",
            !.handle = IF r.state = "recovery_pending" /\ ~r.established
                       THEN NoSecret ELSE @]

RotatedHard(r, t) == [r EXCEPT !.hash = t, !.look = t, !.plook = NoSecret]

RotatedGrace(r, t) ==
  [r EXCEPT !.state = "rotation_grace", !.hash = t, !.look = t,
            !.prev = r.hash, !.plook = r.look, !.until = clock + GraceTicks]

\* rec is NoSecret when no recovery token is issued.
Revoked(r, rec) ==
  [r EXCEPT !.state = IF rec = NoSecret THEN "revoked" ELSE "recovery_pending",
            !.recovery = rec, !.prev = NoSecret, !.plook = NoSecret, !.until = 0]

ForceMinted(r, t) ==
  [r EXCEPT !.state = "active", !.hash = t, !.look = t, !.prev = NoSecret,
            !.plook = NoSecret, !.until = 0, !.recovery = NoSecret, !.held = FALSE]

\* applyAuthStateTransition as the grace sweep calls it.
Swept(r) == [r EXCEPT !.state = "active", !.prev = NoSecret, !.plook = NoSecret,
                      !.until = 0]

Expired(r, t) == r.until > 0 /\ t >= r.until

Established(r) == [r EXCEPT !.established = TRUE,
                            !.handle = IF r.established THEN @ ELSE NoSecret]

------------------------------------------------------------------------------
(* Verification *)

\* verifyCredential: a stored digest of another secret refuses without a compare.
Compares(hash, look, s) == hash # NoSecret /\ look \in {NoSecret, s} /\ hash = s

\* The stored hash a basis names.
HashOf(r, basis) == IF basis = "current" THEN r.hash ELSE r.prev
LookOf(r, basis) == IF basis = "current" THEN r.look ELSE r.plook

\* revalidate, and decideActiveGrace on the row it is given.
StillGood(r, basis, hash, t) ==
  /\ r.state \in {"active", "rotation_grace"}
  /\ hash # NoSecret /\ HashOf(r, basis) = hash
  /\ basis = "previous" => r.state = "rotation_grace" /\ ~Expired(r, t)

\* authCacheGet with verifiedTokenCacheGet's name gate.
Hits(s, names) == authCache[s] # NoEntry /\ authCache[s].name \in names

\* credentialStillOnRow.
OnRow(r, basis, hash) == r.state # "none" /\ hash # NoSecret /\ HashOf(r, basis) = hash

\* markAgentAuthenticated: only while the credential is still on the row.
Marked(r, basis, hash) == IF OnRow(r, basis, hash) THEN Established(r) ELSE r

\* selfHealTokenLookup's WHERE: the credential the compare verified is on the row.
HealMatches(r, seen, basis) == /\ HashOf(seen, basis) # NoSecret
                               /\ HashOf(r, basis) = HashOf(seen, basis)
                               /\ LookOf(r, basis) = LookOf(seen, basis)

Healed(r, seen, basis, s) ==
  IF ~HealMatches(r, seen, basis) THEN r
  ELSE IF basis = "current" THEN [r EXCEPT !.look = s] ELSE [r EXCEPT !.plook = s]

\* authCacheSet: under the generation read before the compare, while it has time left.
MayCache(fresh, last) == fresh /\ clock < last

Smaller(a, b) == IF a < b THEN a ELSE b

(***************************************************************************)
(* verifiedTokenCachePut for the secret s verified on the row seen: the    *)
(* agent is marked as authenticated, then the verdict is cached under the  *)
(* generation read before the compare or, when the digest is not indexed,  *)
(* the digest is healed.                                                   *)
(***************************************************************************)
PutVerdict(n, s, seen, basis, fresh) ==
  LET marked == Marked(cred[n], basis, HashOf(seen, basis))
      ttl == clock + CacheTicks
      last == IF basis = "previous" /\ seen.until > 0 THEN Smaller(ttl, seen.until) ELSE ttl
  IN IF LookOf(seen, basis) = s
     THEN /\ cred' = [cred EXCEPT ![n] = marked]
          /\ authCache' = IF MayCache(fresh, last)
                          THEN [authCache EXCEPT ![s] =
                                  [name |-> n, basis |-> basis, hash |-> HashOf(seen, basis),
                                   until |-> last]]
                          ELSE authCache
     ELSE /\ cred' = [cred EXCEPT ![n] = Healed(marked, seen, basis, s)]
          /\ UNCHANGED authCache

\* A step that leaves v as it is and is no write of a handler.
Keep(v) == UNCHANGED v /\ did' = NoDeed

Granted(c, n, basis, hash) ==
  call' = [call EXCEPT ![c] = [IdleCall EXCEPT !.stage = "granted", !.kind = call[c].kind,
                               !.name = n, !.secret = call[c].secret,
                               !.basis = basis, !.hash = hash]]

Refused(c) == call' = [call EXCEPT ![c] = IdleCall]

(***************************************************************************)
(* The compare of the secret s with the row n has begun.  Its answer is    *)
(* settled by what was read: a call that will be refused writes nothing    *)
(* and is left out.  Of the row, what is used after the compare is kept.   *)
(***************************************************************************)
Seen(n, kind) ==
  LET r == [cred[n] EXCEPT !.held = FALSE, !.established = FALSE] IN
  IF kind \in {"recover", "abandon"} THEN r
  ELSE [r EXCEPT !.recovery = NoSecret, !.handle = NoSecret]

Opened(c, stage, kind, n, s) ==
  call' = [call EXCEPT ![c] = [stage |-> stage, kind |-> kind, name |-> n, secret |-> s,
                               seen |-> Seen(n, kind), begun |-> clock, fresh |-> TRUE,
                               basis |-> "current", hash |-> NoSecret]]

\* authenticateAgent: the current hash, then inside the window the previous one.
MatchedBases(r, kind, s, t) ==
  IF Compares(r.hash, r.look, s) THEN {"current"}
  ELSE IF /\ kind = "claimed" /\ r.state = "rotation_grace" /\ ~Expired(r, t)
          /\ Compares(r.prev, r.plook, s)
       THEN {"previous"} ELSE {}

\* findAgentRowByToken: the digest, stored or not to be computed, and the compare agree.
Locates(r, basis, s) == LookOf(r, basis) = s /\ HashOf(r, basis) = s
Falls(r, basis, s)   == LookOf(r, basis) = NoSecret /\ HashOf(r, basis) = s

------------------------------------------------------------------------------
(* enforceAuth, up to its first await *)

\* An identity claimed by name: the cache answers, or the row is verified.
ClaimIdentity(c, n, s) ==
  /\ call[c].stage = "idle" /\ s \in Issued /\ cred[n].state # "none"
  /\ \/ /\ Hits(s, {n})
        /\ call' = [call EXCEPT ![c] = [IdleCall EXCEPT !.stage = "granted",
                      !.kind = "claimed", !.name = n, !.secret = s,
                      !.basis = authCache[s].basis, !.hash = authCache[s].hash]]
     \/ /\ ~Hits(s, {n})
        /\ cred[n].state \in {"active", "rotation_grace"}
        /\ MatchedBases(cred[n], "claimed", s, clock) # {}
        /\ Opened(c, "verify", "claimed", n, s)
  /\ Keep(<<cred, authCache, peer, nextSecret, clock>>)

\* resolveAgentByTokenVerdict: the cache answers, or the locator names a row.
PresentToken(c, s) ==
  /\ call[c].stage = "idle" /\ s \in Issued
  /\ \/ /\ Hits(s, Names)
        /\ call' = [call EXCEPT ![c] = [IdleCall EXCEPT !.stage = "granted",
                      !.kind = "token", !.name = authCache[s].name, !.secret = s,
                      !.basis = authCache[s].basis, !.hash = authCache[s].hash]]
     \/ /\ ~Hits(s, Names)
        /\ \E n \in Names :
             /\ \E basis \in Bases : Locates(cred[n], basis, s)
             /\ Opened(c, "verify", "token", n, s)
  /\ Keep(<<cred, authCache, peer, nextSecret, clock>>)

\* No row is located: the rows with a digest that cannot be computed are compared.
ScanRow(c, s, n) ==
  /\ call[c].stage = "idle" /\ s \in Issued /\ ~Hits(s, Names)
  /\ ~ \E m \in Names, basis \in Bases : Locates(cred[m], basis, s)
  /\ \E basis \in Bases : Falls(cred[n], basis, s)
  /\ Opened(c, "scan", "token", n, s)
  /\ Keep(<<cred, authCache, peer, nextSecret, clock>>)

\* register_agent on a row that has a token: the token is verified.
RegisterAgain(c, n, s) ==
  /\ call[c].stage = "idle" /\ s \in Issued
  /\ cred[n].state \in {"active", "rotation_grace"}
  /\ MatchedBases(cred[n], "register", s, clock) # {}
  /\ Opened(c, "verify", "register", n, s)
  /\ Keep(<<cred, authCache, peer, nextSecret, clock>>)

\* register_agent on a new or pre-v1.7 name: there is nothing to verify.
RegisterNew(c, n) ==
  /\ call[c].stage = "idle"
  /\ cred[n].state \in {"none", "legacy_bootstrap"}
  /\ call' = [call EXCEPT ![c] = [IdleCall EXCEPT !.stage = "granted", !.kind = "new",
                                                  !.name = n]]
  /\ Keep(<<cred, authCache, peer, nextSecret, clock>>)

\* register_agent with a recovery token.
RegisterRecovering(c, n, s) ==
  /\ call[c].stage = "idle" /\ s \in Issued
  /\ cred[n].state = "recovery_pending" /\ cred[n].recovery = s
  /\ Opened(c, "verify", "recover", n, s)
  /\ Keep(<<cred, authCache, peer, nextSecret, clock>>)

\* abandonPrecondition.
Abandonable(r) == r.state # "none" /\ ~r.established /\ ~r.held /\ r.handle # NoSecret

Abandon(c, n, s) ==
  /\ call[c].stage = "idle" /\ s \in Issued
  /\ Abandonable(cred[n]) /\ cred[n].handle = s
  /\ Opened(c, "verify", "abandon", n, s)
  /\ Keep(<<cred, authCache, peer, nextSecret, clock>>)

------------------------------------------------------------------------------
(* The compare has returned *)

\* Throttled, busy or a dead worker: the call is refused.
VerifyRefused(c) ==
  /\ call[c].stage \in {"verify", "scan"}
  /\ Refused(c)
  /\ Keep(<<cred, authCache, peer, nextSecret, clock>>)

(***************************************************************************)
(* A claimed identity verified.  explicitCallerCachePut asks the digests   *)
(* which token it was; when the current one has no usable digest, a second *)
(* compare is awaited.                                                     *)
(***************************************************************************)
VerifyClaimed(c) ==
  LET k == call[c]
      r == k.seen
  IN /\ k.stage = "verify" /\ k.kind = "claimed"
     /\ \E basis \in MatchedBases(r, k.kind, k.secret, k.begun) :
          IF r.state = "rotation_grace" /\ r.look = NoSecret
          THEN /\ call' = [call EXCEPT ![c].stage = "which", ![c].basis = basis]
               /\ UNCHANGED <<cred, authCache>>
          ELSE /\ PutVerdict(k.name, k.secret, r,
                    IF r.state = "rotation_grace" /\ r.look # k.secret
                    THEN "previous" ELSE "current", k.fresh)
               /\ Granted(c, k.name, basis, HashOf(r, basis))
  /\ Keep(<<peer, nextSecret, clock>>)

\* The second compare: any answer but "ok", a busy one too, is read as previous.
SecondCompare(c, answered) ==
  LET k == call[c] IN
  /\ k.stage = "which"
  /\ PutVerdict(k.name, k.secret, k.seen,
                IF answered /\ k.seen.hash = k.secret THEN "current" ELSE "previous", k.fresh)
  /\ Granted(c, k.name, k.basis, HashOf(k.seen, k.basis))
  /\ Keep(<<peer, nextSecret, clock>>)

\* findAgentRowByToken found the row; decideActiveGrace admits it or not.
VerifyToken(c) ==
  LET k == call[c] IN
  /\ k.kind = "token" /\ k.stage \in {"verify", "scan"}
  /\ \E basis \in Bases :
       /\ IF k.stage = "verify" THEN Locates(k.seen, basis, k.secret)
                                ELSE Falls(k.seen, basis, k.secret)
       /\ StillGood(k.seen, basis, k.secret, clock)
       /\ PutVerdict(k.name, k.secret, k.seen, basis, k.fresh)
       /\ Granted(c, k.name, basis, k.secret)
  /\ Keep(<<peer, nextSecret, clock>>)

VerifyRegister(c) ==
  LET k == call[c] IN
  /\ k.stage = "verify" /\ k.kind = "register"
  /\ cred' = [cred EXCEPT ![k.name] = Marked(@, "current", k.seen.hash)]
  /\ Granted(c, k.name, "current", k.seen.hash)
  /\ Keep(<<authCache, peer, nextSecret, clock>>)

\* A recovery token or a registration handle: its hash is the evidence.
VerifyOneTime(c) ==
  LET k == call[c]
      hash == IF k.kind = "recover" THEN k.seen.recovery ELSE k.seen.handle
  IN /\ k.stage = "verify" /\ k.kind \in {"recover", "abandon"}
     /\ Granted(c, k.name, "current", hash)
     /\ Keep(<<cred, authCache, peer, nextSecret, clock>>)

------------------------------------------------------------------------------
(* authorizedDispatch: the evidence is tested again, then the handler runs *)

\* revalidate, on the fresh row.
Authorized(c) == /\ call[c].kind \in {"claimed", "token"}
                 /\ StillGood(cred[call[c].name], call[c].basis, call[c].hash, clock)

Deed(c) == did' = [name |-> call[c].name, secret |-> call[c].secret]

\* bumpAuthGeneration.
Stale(calls) == [c \in Calls |-> [calls[c] EXCEPT !.fresh = FALSE]]

\* A credential write and the increment of the generation, in one turn.
Commit(c, n, row, secrets) == /\ cred' = [cred EXCEPT ![n] = row]
                              /\ authCache' = EmptyCache
                              /\ call' = Stale([call EXCEPT ![c] = IdleCall])
                              /\ nextSecret' = nextSecret + secrets

DispatchRefused(c) ==
  /\ call[c].stage = "granted" \/ call[c].stage = "late"
  /\ ~Authorized(c)
  /\ call[c].kind \notin {"new", "recover", "abandon"}
  /\ call[c].kind = "register" =>
       ~StillGood(cred[call[c].name], call[c].basis, call[c].hash, clock)
  /\ Refused(c)
  /\ Keep(<<cred, authCache, peer, nextSecret, clock>>)

\* Any tool that writes; the last step of an async handler, which asks again.
HandleWrite(c) ==
  /\ call[c].stage \in {"granted", "late"} /\ Authorized(c)
  /\ Deed(c) /\ Refused(c)
  /\ UNCHANGED <<cred, authCache, peer, nextSecret, clock>>

\* An async handler (register_webhook, spawn_agent) awaits before it writes.
HandleAwaits(c) ==
  /\ call[c].stage = "granted" /\ Authorized(c)
  /\ call' = [call EXCEPT ![c].stage = "late"]
  /\ Keep(<<cred, authCache, peer, nextSecret, clock>>)

\* rotate_token on the caller, rotate_token_admin on another agent.
HandleRotate(c, n) ==
  /\ call[c].stage = "granted" /\ Authorized(c)
  /\ cred[n].state = "active" /\ CanGenerate(1)
  /\ \/ Commit(c, n, RotatedHard(cred[n], nextSecret), 1)
     \/ Commit(c, n, RotatedGrace(cred[n], nextSecret), 1)
  /\ Deed(c)
  /\ UNCHANGED <<peer, clock>>

\* revoke_token, with and without a recovery token.
Revocable == {"active", "legacy_bootstrap", "recovery_pending", "rotation_grace"}
HandleRevoke(c, n) ==
  /\ call[c].stage = "granted" /\ Authorized(c)
  /\ cred[n].state \in Revocable
  /\ \/ Commit(c, n, Revoked(cred[n], NoSecret), 0)
     \/ CanGenerate(1) /\ Commit(c, n, Revoked(cred[n], nextSecret), 1)
  /\ Deed(c)
  /\ UNCHANGED <<peer, clock>>

HandleUnregister(c) ==
  /\ call[c].stage = "granted" /\ Authorized(c)
  /\ Commit(c, call[c].name, NoRow, 0)
  /\ Deed(c)
  /\ UNCHANGED <<peer, clock>>

\* The recovery_token_hash of the WHERE clause is the verified one.
RecoveryStands(k, r) == k.kind = "recover" => r.recovery = k.hash

(***************************************************************************)
(* handleRegisterAgent: registerAgent reads the row again.  A live session *)
(* that is seen as active refuses the call; the UPDATE is a compare-and-   *)
(* set on the state, the hash and, for a recovery, the verified hash.      *)
(***************************************************************************)
HandleRegister(c) ==
  LET k == call[c]
      r == cred[k.name]
      exempt == r.state \in {"recovery_pending", "legacy_bootstrap"}
  IN /\ k.stage = "granted" /\ k.kind \in {"register", "recover", "new"}
     /\ k.kind = "register" => StillGood(r, k.basis, k.hash, clock)
     /\ \/ /\ r.state = "none" /\ CanGenerate(2)
           /\ Commit(c, k.name, Registered(nextSecret, nextSecret + 1), 2)
        \/ /\ exempt /\ CanGenerate(1)
           /\ RecoveryStands(k, r)
           /\ Commit(c, k.name, Recovered(r, nextSecret), 1)
        \/ /\ r.state # "none" /\ ~exempt
           /\ RecoveryStands(k, r)
           /\ Commit(c, k.name, Reregistered(r), 0)
        \* actively held, or the compare-and-set failed
        \/ /\ r.state # "none"
           /\ \/ r.held /\ ~exempt
              \/ ~RecoveryStands(k, r)
           /\ Refused(c) /\ UNCHANGED <<cred, authCache, nextSecret>>
     /\ Keep(<<peer, clock>>)

\* deleteReapableOrphan's WHERE.
StillAbandonable(k, r) == Abandonable(r) /\ r.handle = k.hash

\* abandonVerifiedRegistration, which deletes through deleteReapableOrphan.
HandleAbandon(c) ==
  LET k == call[c]
      r == cred[k.name]
  IN /\ k.stage = "granted" /\ k.kind = "abandon"
     /\ IF StillAbandonable(k, r)
        THEN Commit(c, k.name, NoRow, 0)
        ELSE Refused(c) /\ UNCHANGED <<cred, authCache, nextSecret>>
     /\ Keep(<<peer, clock>>)

------------------------------------------------------------------------------
(* Another process, and time *)

PeerCommit(n, row, secrets) ==
  /\ cred' = [cred EXCEPT ![n] = row]
  /\ nextSecret' = nextSecret + secrets
  /\ peer' = [IdlePeer EXCEPT !.stage = "bump"]
  /\ Keep(<<authCache, call, clock>>)

\* One INSERT, UPDATE or DELETE: register_agent, mint-token, revoke_token and recover.
PeerRegister(n) == /\ peer.stage = "idle" /\ cred[n].state = "none" /\ CanGenerate(2)
                   /\ PeerCommit(n, Registered(nextSecret, nextSecret + 1), 2)

PeerMint(n) == /\ peer.stage = "idle" /\ cred[n].state = "none" /\ CanGenerate(1)
               /\ PeerCommit(n, Minted(nextSecret), 1)

PeerRevoke(n) ==
  /\ peer.stage = "idle" /\ cred[n].state \in Revocable
  /\ \/ PeerCommit(n, Revoked(cred[n], NoSecret), 0)
     \/ CanGenerate(1) /\ PeerCommit(n, Revoked(cred[n], nextSecret), 1)

PeerRemove(n) == /\ peer.stage = "idle" /\ cred[n].state # "none"
                 /\ PeerCommit(n, NoRow, 0)

\* A call of the agent served by another process: it recovers, or authenticates.
PeerServes(n) ==
  /\ peer.stage = "idle"
  /\ \/ /\ cred[n].state = "recovery_pending" /\ CanGenerate(1)
        /\ PeerCommit(n, Recovered(cred[n], nextSecret), 1)
     \/ /\ cred[n].state \in {"active", "rotation_grace"} /\ ~cred[n].established
        /\ cred' = [cred EXCEPT ![n] = Established(cred[n])]
        /\ Keep(<<authCache, call, peer, nextSecret, clock>>)

\* mintAgentToken --force, rotateAgentToken and the sweep read first.
PeerRead(n, op) ==
  /\ peer.stage = "idle"
  /\ \/ op = "mint" /\ cred[n].state \in {"active", "rotation_grace", "legacy_bootstrap"}
     \/ op = "rotate" /\ cred[n].state = "active"
     \/ op = "sweep" /\ cred[n].state = "rotation_grace" /\ Expired(cred[n], clock)
  /\ peer' = [stage |-> "read", op |-> op, name |-> n, hash |-> cred[n].hash]
  /\ Keep(<<cred, authCache, call, nextSecret, clock>>)

\* Mutant: the UPDATE asks for the hash only, which a revocation leaves in place.
PeerMatches_HashOnly(r) == r.hash = peer.hash

\* Their UPDATE: a compare-and-set on the state and, but for the sweep, the hash.
PeerMatches(r) ==
  CASE peer.op = "mint" -> /\ r.state \in {"active", "rotation_grace", "legacy_bootstrap"}
                           /\ r.hash = peer.hash
    [] peer.op = "rotate" -> r.state = "active" /\ r.hash = peer.hash
    [] peer.op = "sweep" -> r.state = "rotation_grace"

PeerWrite ==
  LET n == peer.name
      r == cred[n]
  IN /\ peer.stage = "read"
     /\ \/ /\ PeerMatches(r) /\ peer.op = "mint" /\ CanGenerate(1)
           /\ PeerCommit(n, ForceMinted(r, nextSecret), 1)
        \/ /\ PeerMatches(r) /\ peer.op = "rotate" /\ CanGenerate(1)
           /\ \/ PeerCommit(n, RotatedHard(r, nextSecret), 1)
              \/ PeerCommit(n, RotatedGrace(r, nextSecret), 1)
        \/ PeerMatches(r) /\ peer.op = "sweep" /\ PeerCommit(n, Swept(r), 0)
        \/ /\ ~PeerMatches(r)
           /\ peer' = IdlePeer
           /\ Keep(<<cred, authCache, call, nextSecret, clock>>)

PeerBump ==
  /\ peer.stage = "bump"
  /\ authCache' = EmptyCache /\ call' = Stale(call)
  /\ peer' = IdlePeer
  /\ Keep(<<cred, nextSecret, clock>>)

\* The daemon's own sweep: read and update in one turn.
SweepGrace(n) ==
  /\ cred[n].state = "rotation_grace" /\ Expired(cred[n], clock)
  /\ cred' = [cred EXCEPT ![n] = Swept(cred[n])]
  /\ authCache' = EmptyCache /\ call' = Stale(call)
  /\ Keep(<<peer, nextSecret, clock>>)

\* The session of the agent ends (markAgentOffline, closeAgentSession).
SessionEnds(n) ==
  /\ cred[n].held
  /\ cred' = [cred EXCEPT ![n].held = FALSE]
  /\ Keep(<<authCache, call, peer, nextSecret, clock>>)

\* The lookup key changes: stored digests cannot be computed, cache keys neither.
LoseLookupKey ==
  /\ \E n \in Names : cred[n].look # NoSecret \/ cred[n].plook # NoSecret
  /\ cred' = [n \in Names |-> [cred[n] EXCEPT !.look = NoSecret, !.plook = NoSecret]]
  /\ authCache' = EmptyCache
  /\ Keep(<<call, peer, nextSecret, clock>>)

AuthTick == /\ clock < MaxNow
            /\ clock' = clock + 1
            /\ authCache' = [s \in Secrets |-> IF clock + 1 < authCache[s].until
                                               THEN authCache[s] ELSE NoEntry]
            /\ Keep(<<cred, call, peer, nextSecret>>)

CallStep(c) ==
  \/ \E n \in Names, s \in Secrets : \/ ClaimIdentity(c, n, s) \/ RegisterAgain(c, n, s)
                                     \/ RegisterRecovering(c, n, s) \/ Abandon(c, n, s)
                                     \/ ScanRow(c, s, n)
  \/ \E s \in Secrets : PresentToken(c, s)
  \/ \E n \in Names : RegisterNew(c, n) \/ HandleRotate(c, n) \/ HandleRevoke(c, n)
  \/ VerifyRefused(c) \/ VerifyClaimed(c) \/ VerifyToken(c) \/ VerifyRegister(c)
  \/ VerifyOneTime(c)
  \/ \E answered \in BOOLEAN : SecondCompare(c, answered)
  \/ DispatchRefused(c) \/ HandleWrite(c) \/ HandleAwaits(c) \/ HandleUnregister(c)
  \/ HandleRegister(c) \/ HandleAbandon(c)

AuthNext ==
  \/ \E c \in Calls : CallStep(c)
  \/ \E n \in Names : \/ PeerRegister(n) \/ PeerMint(n) \/ PeerRevoke(n) \/ PeerRemove(n)
                      \/ PeerServes(n) \/ SweepGrace(n) \/ SessionEnds(n)
                      \/ \E op \in {"mint", "rotate", "sweep"} : PeerRead(n, op)
  \/ PeerWrite \/ PeerBump \/ LoseLookupKey \/ AuthTick

AuthSpec == AuthInit /\ [][AuthNext]_authVars

------------------------------------------------------------------------------
(* Properties *)

\* The secrets that authenticate agent n now.
LiveSecrets(n) ==
  LET r == cred[n] IN
  {s \in Secrets : \E b \in Bases : s = HashOf(r, b) /\ StillGood(r, b, s, clock)}

(***************************************************************************)
(* While no other process owes an increment of the generation, the daemon  *)
(* serves from its cache no verdict the database would not give: rotation, *)
(* revocation, removal, re-registration and the end of a grace window,     *)
(* wherever they fell during the compare, leave no entry that still hits.  *)
(***************************************************************************)
CacheHonest ==
  peer.stage # "bump" =>
    \A s \in Secrets : Hits(s, Names) =>
      s \in LiveSecrets(authCache[s].name)

(***************************************************************************)
(* A stored lookup digest is the digest of the current token it stands     *)
(* beside, whatever committed during the compare that led to a self-heal:  *)
(* a foreign digest refuses the owner of the credential.                   *)
(***************************************************************************)
DigestOfToken == \A n \in Names : cred[n].look \in {NoSecret, cred[n].hash}

(***************************************************************************)
(* The same for the previous token of a grace window, as the comment of    *)
(* selfHealTokenLookup says: the heal rewrites the lookup of the very      *)
(* credential it verified.                                                 *)
(***************************************************************************)
DigestOfPrevious == \A n \in Names : cred[n].plook \in {NoSecret, cred[n].prev}

(***************************************************************************)
(* A revoked agent comes back only through the removal of its row, and a   *)
(* recovering one through its recovery: a force mint, a rotation, a sweep  *)
(* or a re-registration that began before the revocation does not undo it. *)
(***************************************************************************)
RevocationHolds ==
  [][\A n \in Names :
       /\ cred[n].state = "revoked" => cred'[n].state \in {"revoked", "none"}
       /\ cred[n].state = "recovery_pending" /\ cred'[n].state \notin {"none", "revoked",
                                                                       "recovery_pending"}
            => cred'[n].recovery = NoSecret /\ cred'[n].hash = nextSecret]_authVars

(***************************************************************************)
(* A recovery call that brings an agent back was verified on the recovery  *)
(* token the row holds at that moment: a token reissued during the compare *)
(* makes the earlier one worthless.                                        *)
(***************************************************************************)
LatestRecovery ==
  [][\A c \in Calls, n \in Names :
       (/\ call[c].stage = "granted" /\ call[c].kind = "recover" /\ call[c].name = n
        /\ call'[c].stage = "idle" /\ cred[n].state = "recovery_pending"
        /\ cred'[n].state = "active")
         => call[c].secret = cred[n].recovery]_authVars

(***************************************************************************)
(* abandon_registration removes only the registration whose handle it was  *)
(* given: never an agent that authenticated meanwhile, never the next      *)
(* registration under the same name.                                       *)
(***************************************************************************)
AbandonsItsOwn ==
  [][\A c \in Calls, n \in Names :
       (/\ call[c].kind = "abandon" /\ call[c].stage = "granted" /\ call'[c].stage = "idle"
        /\ call[c].name = n /\ cred'[n] # cred[n])
         => call[c].secret = cred[n].handle /\ ~cred[n].established]_authVars

(***************************************************************************)
(* A registration becomes an established identity only by its own          *)
(* credential or by its recovery: a compare that ends after the name was   *)
(* registered again says nothing about the new row.  The exception is a    *)
(* call admitted for a name without a credential that finds it recovering, *)
(* see RecoveryProved.                                                     *)
(***************************************************************************)
EstablishedByItself ==
  [][\A c \in Calls, n \in Names :
       call'[c].stage # call[c].stage /\ ~cred[n].established /\ cred'[n].established =>
         /\ call[c].name = n
         /\ \/ call[c].secret \in {cred[n].hash, cred[n].prev, cred[n].recovery} \ {NoSecret}
            \/ call[c].kind = "new" /\ cred[n].state = "recovery_pending"]_authVars

(***************************************************************************)
(* registerAgent, where it establishes a recovered row: "the agent proved  *)
(* authorization via the operator's recovery_token (enforceAuth verified   *)
(* it; the CAS above pins it)".  A call admitted while the name was new or *)
(* pre-v1.7 carries no recovery hash to pin.                               *)
(***************************************************************************)
RecoveryProved ==
  [][\A c \in Calls, n \in Names :
       (/\ call[c].stage = "granted" /\ call'[c].stage = "idle" /\ call[c].name = n
        /\ cred[n].state = "recovery_pending" /\ cred'[n].state = "active")
         => call[c].kind = "recover"]_authVars

(***************************************************************************)
(* A rotation announces that the old token stays valid until the end of    *)
(* the grace window: only a revocation, a force mint or the removal of the *)
(* row ends it sooner, and no sweep does.                                  *)
(***************************************************************************)
GraceKept ==
  [][\A n \in Names :
       (/\ cred[n].state = "rotation_grace" /\ ~Expired(cred[n], clock)
        /\ cred'[n].state = "active")
         => cred'[n].hash # cred[n].hash]_authVars

\* What the credentials of the relay promise: see CredentialLedger.
Ledger == INSTANCE CredentialLedger WITH
            Agents <- Names, Keys <- Secrets,
            live <- [n \in Names |-> LiveSecrets(n)],
            NoDeed <- <<NoDeed.name, NoDeed.secret>>, deed <- <<did.name, did.secret>>,
            dead <- {s \in Issued : \A n \in Names : s \notin LiveSecrets(n)}

\* Every state maps to a ledger state and every step to a ledger step.
ImplementsCredentials == Ledger!Spec

\* The promises of the credentials: verdicts rest on stored hashes, a revoked or
\* rotated secret gains nothing, each call touches the row it read (db.ts).
CredentialsHold ==
  /\ []AuthTypeOK /\ []CacheHonest /\ []DigestOfToken /\ RevocationHolds
  /\ LatestRecovery /\ AbandonsItsOwn /\ EstablishedByItself /\ ImplementsCredentials
==============================================================================
