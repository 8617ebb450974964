------------------------------ MODULE RelayCaps ------------------------------
(***************************************************************************)
(* What an agent can do is stored twice: as a list in its agents row, and  *)
(* row by row in agent_capabilities, which routing reads.  Registering,    *)
(* unregistering and abandoning write the two in separate statements;      *)
(* expanding, minting and `relay recover` in one transaction;              *)
(* `relay purge-agents` deletes the agents row only.  Several processes    *)
(* share the database, and each statement outside a transaction is a step. *)
(*                                                                         *)
(* disturbed records that the consistency of the two was put at risk: two  *)
(* calls overlapped on one name, a process died inside a call, or the      *)
(* purge ran.                                                              *)
(***************************************************************************)
EXTENDS Naturals, FiniteSets

CONSTANTS CapNames,        \* agent names
          CapTags,         \* capability strings
          CapProcs,        \* relay processes
          MaxLives         \* bound: rows one name has had

VARIABLES crow,            \* the agents row of a name, or NoCapRow
          cidx,            \* the name's rows in agent_capabilities
          ccall,           \* the call each process is in
          lives,           \* rows a name has had
          disturbed

capVars == <<crow, cidx, ccall, lives, disturbed>>

NoCapRow == [caps |-> {}, first |-> {}, old |-> FALSE, held |-> FALSE]
CapRows == [caps : SUBSET CapTags, first : SUBSET CapTags, old : BOOLEAN, held : {TRUE}]
NoCall == [op |-> "none", who |-> "none", caps |-> {}, want |-> {}]

Unoccupied(p) == ccall[p] = NoCall
InCall(p, op) == ccall[p].op = op
Overlaps(p, a) == \E q \in CapProcs \ {p} : ccall[q].who = a
Exists(a) == crow[a].held

\* A call that starts while another one is on the same name disturbs it.
Starts(p, a, op, caps, want) ==
  /\ ccall' = [ccall EXCEPT ![p] = [op |-> op, who |-> a, caps |-> caps, want |-> want]]
  /\ disturbed' = (disturbed \/ Overlaps(p, a))
\* A call of one statement.
AtOnce(p, a) ==
  /\ disturbed' = (disturbed \/ Overlaps(p, a))
  /\ UNCHANGED ccall
Ends(p) == ccall' = [ccall EXCEPT ![p] = NoCall] /\ UNCHANGED disturbed

-----------------------------------------------------------------------------
(* Rows that come.                                                         *)

FreshRow(caps) == [caps |-> caps, first |-> caps, old |-> FALSE, held |-> TRUE]

\* registerAgent, a new name: INSERT into agents.
RegisterRow(p, a, caps) ==
  /\ Unoccupied(p)
  /\ ~Exists(a)
  /\ lives[a] < MaxLives
  /\ crow' = [crow EXCEPT ![a] = FreshRow(caps)]
  /\ lives' = [lives EXCEPT ![a] = @ + 1]
  /\ Starts(p, a, "index", caps, {})
  /\ UNCHANGED <<cidx>>

\* ... and one INSERT OR IGNORE per capability.
IndexOne(p, c) ==
  /\ InCall(p, "index")
  /\ c \in ccall[p].caps
  /\ cidx' = [cidx EXCEPT ![ccall[p].who] = @ \cup {c}]
  /\ ccall' = [ccall EXCEPT ![p].caps = @ \ {c}]
  /\ UNCHANGED <<crow, lives, disturbed>>

Indexed(p) ==
  /\ InCall(p, "index")
  /\ ccall[p].caps = {}
  /\ Ends(p)
  /\ UNCHANGED <<crow, cidx, lives>>

\* Capabilities are immutable after the first registration.
KeptCaps(row, caps) == row.caps

\* registerAgent, an existing name.
ReregisterRow(p, a, caps) ==
  /\ Unoccupied(p)
  /\ Exists(a)
  /\ crow' = [crow EXCEPT ![a].old = FALSE, ![a].caps = KeptCaps(crow[a], caps)]
  /\ crow' # crow
  /\ AtOnce(p, a)
  /\ UNCHANGED <<cidx, lives>>

\* mintAgentToken, a new name: both tables in one transaction.
MintRow(p, a, caps) ==
  /\ Unoccupied(p)
  /\ ~Exists(a)
  /\ lives[a] < MaxLives
  /\ crow' = [crow EXCEPT ![a] = FreshRow(caps)]
  /\ cidx' = [cidx EXCEPT ![a] = @ \cup caps]
  /\ lives' = [lives EXCEPT ![a] = @ + 1]
  /\ AtOnce(p, a)

\* migrateSchemaToV2_0 at the start of a process: an empty table is filled.
SeedIndex(p) ==
  /\ Unoccupied(p)
  /\ \A a \in CapNames : cidx[a] = {}
  /\ cidx' = [a \in CapNames |-> crow[a].caps]
  /\ cidx' # cidx
  /\ UNCHANGED <<crow, ccall, lives, disturbed>>

-----------------------------------------------------------------------------
(* Capabilities that are added.                                            *)

\* REDUCTION_NOT_ALLOWED and NO_OP_EXPANSION.
Additive(caps, want) == caps \subseteq want /\ want # caps

\* expandAgentCapabilities: the row is read and the request judged.
ExpandRead(p, a, want) ==
  /\ Unoccupied(p)
  /\ Exists(a)
  /\ Additive(crow[a].caps, want)
  /\ Starts(p, a, "expand", crow[a].caps, want)
  /\ UNCHANGED <<crow, cidx, lives>>

\* The transaction: the union in the row, without a compare-and-set, and the
\* added capabilities in the index.
ExpandWrite(p) ==
  LET a == ccall[p].who IN
  /\ InCall(p, "expand")
  /\ crow' = IF Exists(a) THEN [crow EXCEPT ![a].caps = ccall[p].want] ELSE crow
  /\ cidx' = [cidx EXCEPT ![a] = @ \cup (ccall[p].want \ ccall[p].caps)]
  /\ Ends(p)
  /\ UNCHANGED <<lives>>

-----------------------------------------------------------------------------
(* Rows that go.                                                           *)

\* unregisterAgent, and deleteReapableOrphan of an abandon: the agents row,
DeleteRow(p, a) ==
  /\ Unoccupied(p)
  /\ Exists(a)
  /\ crow' = [crow EXCEPT ![a] = NoCapRow]
  /\ Starts(p, a, "unindex", {}, {})
  /\ UNCHANGED <<cidx, lives>>

\* Mutant: the second statement is forgotten.
Unindexed_Kept(a) == cidx[a]
Unindexed(a) == {}

\* ... and in a statement of its own the name's capability rows.
DeleteIndex(p) ==
  /\ InCall(p, "unindex")
  /\ cidx' = [cidx EXCEPT ![ccall[p].who] = Unindexed(ccall[p].who)]
  /\ Ends(p)
  /\ UNCHANGED <<crow, lives>>

\* teardownAgent: `relay recover`, one transaction.
TeardownRow(p, a) ==
  /\ Unoccupied(p)
  /\ Exists(a) \/ cidx[a] # {}
  /\ crow' = [crow EXCEPT ![a] = NoCapRow]
  /\ cidx' = [cidx EXCEPT ![a] = {}]
  /\ AtOnce(p, a)
  /\ UNCHANGED <<lives>>

\* Seven silent days.
Silent(a) ==
  /\ Exists(a)
  /\ ~crow[a].old
  /\ crow' = [crow EXCEPT ![a].old = TRUE]
  /\ UNCHANGED <<cidx, ccall, lives, disturbed>>

\* deleteAgentIfAbandoned tests the age again in its DELETE,
StillAbandoned(a) == Exists(a) /\ crow[a].old

\* ... which takes the agents row only.
PurgeAbandoned(p, a) ==
  /\ Unoccupied(p)
  /\ StillAbandoned(a)
  /\ crow' = [crow EXCEPT ![a] = NoCapRow]
  /\ disturbed' = TRUE
  /\ UNCHANGED <<cidx, ccall, lives>>

\* A process dies between two statements of a call.
DieInCall(p) ==
  /\ ~Unoccupied(p)
  /\ ccall' = [ccall EXCEPT ![p] = NoCall]
  /\ disturbed' = TRUE
  /\ UNCHANGED <<crow, cidx, lives>>

-----------------------------------------------------------------------------
(* The specification.                                                      *)

CapInit ==
  /\ crow = [a \in CapNames |-> NoCapRow]
  /\ cidx = [a \in CapNames |-> {}]
  /\ ccall = [p \in CapProcs |-> NoCall]
  /\ lives = [a \in CapNames |-> 0]
  /\ disturbed = FALSE

CapStep(p) == Indexed(p) \/ ExpandWrite(p) \/ DeleteIndex(p) \/ \E c \in CapTags : IndexOne(p, c)

CapNext ==
  \/ \E p \in CapProcs :
       \/ CapStep(p)
       \/ DieInCall(p)
       \/ SeedIndex(p)
       \/ \E a \in CapNames :
            \/ \E caps \in SUBSET CapTags :
                 \/ RegisterRow(p, a, caps)
                 \/ ReregisterRow(p, a, caps)
                 \/ MintRow(p, a, caps)
                 \/ ExpandRead(p, a, caps)
            \/ DeleteRow(p, a) \/ TeardownRow(p, a) \/ PurgeAbandoned(p, a)
  \/ \E a \in CapNames : Silent(a)

CapSpec == CapInit /\ [][CapNext]_capVars

-----------------------------------------------------------------------------
(* Properties.                                                             *)

CapTypeOK ==
  /\ \A a \in CapNames : crow[a] \in CapRows \cup {NoCapRow}
  /\ cidx \in [CapNames -> SUBSET CapTags]
  /\ \A p \in CapProcs : ccall[p].op \in {"none", "index", "expand", "unindex"}

\* The first agent of a name never has fewer capabilities than it registered
\* with, whatever expansions race with each other and whatever list it
\* re-registers with: what the comment on expandAgentCapabilities rests its
\* missing compare-and-set on.  (A later agent may: an expansion that read the
\* row before it can write after it.)
StartingSet ==
  \A a \in CapNames : Exists(a) /\ lives[a] = 1 => crow[a].first \subseteq crow[a].caps

\* When no two calls overlapped on a name, none died half way and the purge never
\* ran, routing sees what the rows say whenever no call is under way: the several
\* statements of each call, put one after another, keep the two tables equal.
TablesAgree ==
  ~disturbed /\ (\A p \in CapProcs : Unoccupied(p)) => \A a \in CapNames : cidx[a] = crow[a].caps

\* The promises of the capability registry: both tables say the same of a name nothing
\* disturbed, and what was granted grows only by the calls that may grow it (db.ts).
CapabilitiesAgree == CapTypeOK /\ StartingSet /\ TablesAgree

\* What the comment on expandAgentCapabilities requires without that condition:
\* both must stay consistent, whenever no call is under way.
AlwaysAgree ==
  (\A p \in CapProcs : Unoccupied(p)) => \A a \in CapNames : cidx[a] = crow[a].caps

=============================================================================
