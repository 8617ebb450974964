--------------------------- MODULE CredentialLedger ---------------------------
(***************************************************************************)
(* What the credentials of the relay promise.  A key authenticates one     *)
(* agent or none; a key that stopped authenticating never does again; and  *)
(* whoever writes presents a key that authenticates the agent it writes as *)
(* at the moment of the write.                                             *)
(***************************************************************************)
EXTENDS FiniteSets

CONSTANTS Agents, Keys, NoDeed

VARIABLES
  live,    \* the keys that authenticate each agent
  dead,    \* the keys that authenticate nobody any more
  deed     \* the agent and the key of a write, NoDeed after any other step

vars == <<live, dead, deed>>

Init == /\ live = [a \in Agents |-> {}]
        /\ dead = {}
        /\ deed = NoDeed

\* Keys are issued and retired: none comes back, none serves two agents.
Change ==
  /\ live' \in [Agents -> SUBSET Keys]
  /\ \A a \in Agents : live'[a] \cap dead = {}
  /\ \A a, b \in Agents : a # b => live'[a] \cap live'[b] = {}
  /\ UNION {live[a] : a \in Agents} \subseteq dead' \cup UNION {live'[a] : a \in Agents}
  /\ dead \subseteq dead'

Write == \E a \in Agents : \E k \in live[a] : deed' = <<a, k>>

Next == Change /\ (deed' = NoDeed \/ Write)

Spec == Init /\ [][Next]_vars
===============================================================================
