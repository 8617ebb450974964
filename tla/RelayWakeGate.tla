----------------------------- MODULE RelayWakeGate -----------------------------
(***************************************************************************)
(* How the editor extension wakes one agent for its mail: looks at the     *)
(* inbox that read it, then observe the agent, then decide; the WakeGate   *)
(* that lets one injection be outstanding; and the injection, which finds  *)
(* a terminal, types a line into it and hears later whether that worked.   *)
(*                                                                         *)
(* Several looks and injections are under way at once, each between its    *)
(* awaits.  A look sees the agent as idle when its last tool call is old,  *)
(* which is neither proof nor disproof of a turn under way.  A line the    *)
(* terminal takes becomes a turn that reads the whole inbox.               *)
(***************************************************************************)
EXTENDS Naturals, FiniteSets

CONSTANTS
  Looks,    \* looks at the inbox under way at once
  Slots,    \* injections under way at once
  MaxMail,  \* messages that arrive
  MaxHarm   \* terminals closed, injections rejected, flags grown old, reloads

ASSUME GateBounds == MaxMail \in Nat /\ MaxHarm \in Nat

VARIABLES
  inbox,    \* [newest, pending, notices]: the agent's mail at the relay
  term,    \* [open, lines, turn, active]: its terminal and its turn
  gate,     \* WakeGate: [mark, before, outstanding, landed, aged]
  look,     \* a look under way: [pc, pending, newest, state]
  injection,\* an injection under way: "none", "resolving", "typing" or "doomed"
  epoch,    \* injectionEpoch: the slot that typed last
  held,     \* outstandingWakeTerminals holds the terminal
  tick,     \* lastWakeSnapshots: the last snapshot had mail
  harm,     \* what went wrong so far
  buried    \* a wake thought consumed died with its terminal

gateVars ==
  <<inbox, term, gate, look, injection, epoch, held, tick, harm, buried>>

NoLook == [pc |-> "idle", pending |-> FALSE, newest |-> 0, state |-> "unknown"]
FreshGate == [mark |-> 0, before |-> 0, outstanding |-> FALSE,
              landed |-> FALSE, aged |-> FALSE]

GateTypeOK ==
  /\ inbox \in [newest : 0 .. MaxMail, pending : BOOLEAN, notices : 0 .. MaxMail]
  /\ term \in [open : BOOLEAN, lines : Nat,
                turn : {"none", "woken", "read"}, active : BOOLEAN]
  /\ gate \in [mark : 0 .. MaxMail, before : 0 .. MaxMail,
               outstanding : BOOLEAN, landed : BOOLEAN, aged : BOOLEAN]
  /\ gate.landed \/ gate.aged => gate.outstanding
  /\ look \in [Looks -> [pc : {"idle", "read", "observed"}, pending : BOOLEAN,
                         newest : 0 .. MaxMail,
                         state : {"idle", "busy", "unknown"}]]
  /\ injection \in [Slots -> {"none", "resolving", "typing", "doomed"}]
  /\ epoch \in Slots \cup {0}
  /\ held \in BOOLEAN /\ tick \in BOOLEAN /\ buried \in BOOLEAN
  /\ harm \in 0 .. MaxHarm

GateInit ==
  /\ inbox = [newest |-> 0, pending |-> FALSE, notices |-> 0]
  /\ term = [open |-> TRUE, lines |-> 0, turn |-> "none", active |-> FALSE]
  /\ gate = FreshGate
  /\ look = [l \in Looks |-> NoLook]
  /\ injection = [s \in Slots |-> "none"]
  /\ epoch = 0 /\ held = FALSE /\ tick = FALSE /\ harm = 0 /\ buried = FALSE

-----------------------------------------------------------------------------
(* The mail and the agent, which the extension only watches. *)

Arrives ==
  /\ inbox.newest < MaxMail
  /\ inbox' = [newest |-> inbox.newest + 1, pending |-> TRUE,
               notices |-> inbox.notices + 1]
  /\ UNCHANGED <<term, gate, look, injection, epoch, held, tick, harm, buried>>

\* The terminal submits a line at a turn boundary.
TurnStarts ==
  /\ term.open /\ term.turn = "none" /\ term.lines > 0
  /\ term' = [term EXCEPT !.turn = "woken", !.lines = @ - 1]
  /\ UNCHANGED <<inbox, gate, look, injection, epoch, held, tick, harm, buried>>

\* A tool call of the turn: the relay sees it, and its hook drains the inbox.
ToolCall ==
  /\ term.turn # "none"
  /\ term' = [term EXCEPT !.turn = "read", !.active = TRUE]
  /\ inbox' = [inbox EXCEPT !.pending = FALSE]
  /\ UNCHANGED <<gate, look, injection, epoch, held, tick, harm, buried>>

TurnEnds ==
  /\ term.turn = "read"
  /\ term' = [term EXCEPT !.turn = "none"]
  /\ UNCHANGED <<inbox, gate, look, injection, epoch, held, tick, harm, buried>>

\* The last tool call grows older than the activity window.
TurnGoesQuiet ==
  /\ term.active
  /\ term' = [term EXCEPT !.active = FALSE]
  /\ UNCHANGED <<inbox, gate, look, injection, epoch, held, tick, harm, buried>>

-----------------------------------------------------------------------------
(* The gate. *)

\* FLUSH EVIDENCE: the mark stays.
Flushed(g) == [g EXCEPT !.outstanding = FALSE, !.landed = FALSE,
                        !.aged = FALSE, !.before = 0]

\* LOSS EVIDENCE: the mark rolls back to where the wake found it.
Lost(g) ==
  [Flushed(g) EXCEPT !.mark = IF g.outstanding THEN g.before ELSE @]

\* What a consideration makes of what it has seen before it routes.
AfterEvidence(g, state) ==
  LET f == IF state = "idle" /\ g.landed THEN Flushed(g) ELSE g IN
    IF f.aged THEN Lost(f) ELSE f

\* routeWake(), for an agent whose tool calls drain its inbox, and then
\* decideWake() with automatic injection on.
Wakes(g, snap) ==
  /\ snap.pending /\ snap.state # "busy" /\ ~g.outstanding
  /\ snap.newest # g.mark

Fired(g, newest) ==
  [mark |-> newest, before |-> g.mark, outstanding |-> TRUE,
   landed |-> FALSE, aged |-> FALSE]

\* A look reads the inbox: for a notification, for a subscription, or on the
\* poll's tick when the last snapshot had mail.
Reads(l) ==
  /\ look[l].pc = "idle"
  /\ inbox.notices > 0 \/ tick
  /\ inbox' = [inbox EXCEPT !.notices = IF @ > 0 THEN @ - 1 ELSE @]
  /\ look' = [look EXCEPT ![l] = [pc |-> "read", pending |-> inbox.pending,
                                  newest |-> inbox.newest, state |-> "unknown"]]
  /\ tick' = inbox.pending
  /\ UNCHANGED <<term, gate, injection, epoch, held, harm, buried>>

\* observeAgentForWake(): the age of the last tool call.
Observes(l) ==
  /\ look[l].pc = "read"
  /\ look' = [look EXCEPT ![l].pc = "observed",
                          ![l].state = IF term.active THEN "busy" ELSE "idle"]
  /\ UNCHANGED <<inbox, term, gate, injection, epoch, held, tick, harm, buried>>

\* consider(): the evidence, the route, and an injection started.
Considers(l) ==
  /\ look[l].pc = "observed"
  /\ look' = [look EXCEPT ![l] = NoLook]
  /\ \E g \in {AfterEvidence(gate, look[l].state)} :
       IF Wakes(g, look[l])
         THEN /\ gate' = Fired(g, look[l].newest)
              /\ \E s \in Slots :
                   /\ injection[s] = "none"
                   /\ \A r \in Slots : injection[r] = "none" => s <= r
                   /\ injection' = [injection EXCEPT ![s] = "resolving"]
         ELSE gate' = g /\ UNCHANGED injection
  /\ UNCHANGED <<inbox, term, epoch, held, tick, harm, buried>>

-----------------------------------------------------------------------------
(* The injection. *)

\* The agent's terminal is found and the line is on its way into it.
Types(s) ==
  /\ injection[s] = "resolving" /\ term.open
  /\ injection' = [injection EXCEPT ![s] = "typing"]
  /\ epoch' = s /\ held' = TRUE
  /\ UNCHANGED <<inbox, term, gate, look, tick, harm, buried>>

\* No terminal, or more than one: known at once to be lost.
NoTerminal(s) ==
  /\ injection[s] = "resolving" /\ ~term.open
  /\ injection' = [injection EXCEPT ![s] = "none"]
  /\ gate' = Lost(gate) /\ held' = FALSE
  /\ UNCHANGED <<inbox, term, look, epoch, tick, harm, buried>>

\* The epoch guard: an outcome counts only for the injection that typed last.
OfThisEpoch(s) == epoch = s

\* markInjectionLanded(): no-op unless an injection is outstanding.
Landed(g) == [g EXCEPT !.landed = g.outstanding]

\* The adapter resolves: the line is in the terminal.
Lands(s) ==
  /\ injection[s] = "typing"
  /\ injection' = [injection EXCEPT ![s] = "none"]
  /\ term' = [term EXCEPT !.lines = @ + 1]
  /\ gate' = IF OfThisEpoch(s) THEN Landed(gate) ELSE gate
  /\ UNCHANGED <<inbox, look, epoch, held, tick, harm, buried>>

\* The adapter rejects, as it does when its terminal went away.
Rejects(s) ==
  /\ \/ injection[s] = "doomed" /\ UNCHANGED harm
     \/ injection[s] = "typing" /\ harm < MaxHarm /\ harm' = harm + 1
  /\ injection' = [injection EXCEPT ![s] = "none"]
  /\ IF OfThisEpoch(s) THEN gate' = Lost(gate) /\ held' = FALSE
                   ELSE UNCHANGED <<gate, held>>
  /\ UNCHANGED <<inbox, term, look, epoch, tick, buried>>

-----------------------------------------------------------------------------
(* What goes wrong. *)

\* onDidCloseTerminal: the wake typed into the terminal is lost with it.
LostWith == IF held THEN Lost(gate) ELSE gate

\* The terminal closes, and lines and turn die with it.
TerminalCloses ==
  /\ term.open /\ harm < MaxHarm
  /\ harm' = harm + 1
  /\ term' = [open |-> FALSE, lines |-> 0, turn |-> "none", active |-> term.active]
  /\ buried' = (buried \/ (inbox.pending /\ (term.lines > 0 \/ term.turn # "none")
                             /\ LostWith.mark = inbox.newest))
  /\ injection' = [s \in Slots |->
                     IF injection[s] = "typing" THEN "doomed" ELSE injection[s]]
  /\ gate' = LostWith /\ held' = FALSE
  /\ UNCHANGED <<inbox, look, epoch, tick>>

\* The agent is started again in a terminal of its own.
Reopens ==
  /\ ~term.open
  /\ term' = [term EXCEPT !.open = TRUE]
  /\ UNCHANGED <<inbox, gate, look, injection, epoch, held, tick, harm, buried>>

\* The outstanding flag outlives its time to live.
GrowsOld ==
  /\ gate.outstanding /\ ~gate.aged /\ harm < MaxHarm
  /\ gate' = [gate EXCEPT !.aged = TRUE] /\ harm' = harm + 1
  /\ UNCHANGED <<inbox, term, look, injection, epoch, held, tick, buried>>

\* The window reloads: the gates are new and the inbox is read again.
Reloads ==
  /\ harm < MaxHarm
  /\ harm' = harm + 1
  /\ gate' = FreshGate /\ epoch' = 0 /\ held' = FALSE /\ tick' = TRUE
  /\ look' = [l \in Looks |-> NoLook]
  /\ injection' = [s \in Slots |-> "none"]
  /\ UNCHANGED <<inbox, term, buried>>

GateNext ==
  \/ Arrives \/ TurnStarts \/ ToolCall \/ TurnEnds \/ TurnGoesQuiet
  \/ \E l \in Looks : Reads(l) \/ Observes(l) \/ Considers(l)
  \/ \E s \in Slots : Types(s) \/ NoTerminal(s) \/ Lands(s) \/ Rejects(s)
  \/ TerminalCloses \/ Reopens \/ GrowsOld \/ Reloads

\* Looks and injections go on, a submitted line becomes a turn that runs, and
\* the agent is started again.
GateFairness ==
  /\ WF_gateVars(TurnStarts) /\ WF_gateVars(ToolCall) /\ WF_gateVars(TurnEnds)
  /\ WF_gateVars(TurnGoesQuiet) /\ WF_gateVars(Reopens)
  /\ \A l \in Looks : WF_gateVars(Reads(l) \/ Observes(l) \/ Considers(l))
  /\ \A s \in Slots : WF_gateVars(Types(s) \/ NoTerminal(s) \/ Lands(s) \/ Rejects(s))

GateSpec == GateInit /\ [][GateNext]_gateVars /\ GateFairness

-----------------------------------------------------------------------------
(* Properties. *)

\* Mail is never masked by its own mark: while the newest message counts as
\* woken for, its wake is outstanding or in the agent's hands
\* (inbox-subscription.ts:70-78, extension.ts 777-848).
MaskedIsOnItsWay ==
  inbox.pending /\ gate.mark = inbox.newest
    => \/ gate.outstanding \/ buried
       \/ term.lines > 0 \/ term.turn # "none"

\* Mail is read in the end, without waiting for newer mail
\* (the anti-stranding invariant of extension.ts:1110-1115).
MailIsRead == []<>(~inbox.pending \/ buried)

\* The promises of the wake gate: masked mail is on its way, and mail is read
\* (inbox-subscription.ts, extension.ts).
MailInjected ==
  /\ []GateTypeOK /\ []MaskedIsOnItsWay /\ MailIsRead

\* One injection at a time, however much mail arrives: what the gate's comment
\* says of the flag (inbox-subscription.ts:59-69).
OneLine == term.lines <= 1

=============================================================================
