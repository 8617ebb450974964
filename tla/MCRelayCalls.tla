----------------------------- MODULE MCRelayCalls -----------------------------
(* The components a single tool call or HTTP request passes through, for TLC: *)
(* credentials, sessions, capabilities, channels, receipts, the dashboard's    *)
(* edge and the operator's calls.  They share no variable: each behaviour runs *)
(* the one that `focus' names while the others keep the state they start in,   *)
(* so that the states of the run are the union of theirs and not the product.  *)
EXTENDS RelayAuth, RelaySession, RelayCaps, RelayChannels, RelayEdge, RelayOperator,
        RelayReceipts, TLC

Symmetry == Permutations(Windows)

\* A drain, an acking one with and without a window, and a peek.
MCReadings ==
  {[status |-> "pending", peek |-> FALSE, ack |-> a, recent |-> w] :
     a \in BOOLEAN, w \in {FALSE}}
  \cup {[status |-> "pending", peek |-> FALSE, ack |-> TRUE, recent |-> TRUE]}
  \cup {[status |-> "all", peek |-> TRUE, ack |-> FALSE, recent |-> TRUE]}

VARIABLE focus   \* the component this behaviour runs

callsVars == <<authVars, sessVars, capVars, chanVars, edgeVars, opVars, rcptVars, focus>>

CallsInit ==
  /\ focus \in {"auth", "session", "caps", "channels", "edge", "operator", "receipts"}
  /\ AuthInit /\ SessInit /\ CapInit /\ ChanInit /\ EdgeInit /\ OpInit /\ ReceiptInit
  /\ focus # "auth" => \A n \in Names : cred[n] = NoRow
  /\ focus # "edge" => conf.http = Unset /\ conf.dash = Unset

CallsNext ==
  /\ UNCHANGED focus
  /\ \/ /\ focus = "auth" /\ AuthNext
        /\ UNCHANGED <<sessVars, capVars, chanVars, edgeVars, opVars, rcptVars>>
     \/ /\ focus = "session" /\ SessNext
        /\ UNCHANGED <<authVars, capVars, chanVars, edgeVars, opVars, rcptVars>>
     \/ /\ focus = "caps" /\ CapNext
        /\ UNCHANGED <<authVars, sessVars, chanVars, edgeVars, opVars, rcptVars>>
     \/ /\ focus = "channels" /\ ChanNext
        /\ UNCHANGED <<authVars, sessVars, capVars, edgeVars, opVars, rcptVars>>
     \/ /\ focus = "edge" /\ EdgeNext
        /\ UNCHANGED <<authVars, sessVars, capVars, chanVars, opVars, rcptVars>>
     \/ /\ focus = "operator" /\ OpNext
        /\ UNCHANGED <<authVars, sessVars, capVars, chanVars, edgeVars, rcptVars>>
     \/ /\ focus = "receipts" /\ ReceiptNext
        /\ UNCHANGED <<authVars, sessVars, capVars, chanVars, edgeVars, opVars>>

CallsSpec == CallsInit /\ [][CallsNext]_callsVars
=============================================================================
