----------------------------- MODULE TaskLedger -----------------------------
(***************************************************************************)
(* What the task board promises its users, with no processes, leases or    *)
(* presence in it: a task is in the pool or with exactly one owner, it     *)
(* changes owner only through the pool, work is finished only by way of    *)
(* having been taken, and a closed task stays closed until it is purged.   *)
(***************************************************************************)
CONSTANTS Tasks, Names, NoOwner

VARIABLES phase, owner

vars == <<phase, owner>>

Phases == {"new", "pooled", "offered", "held", "done", "dropped", "purged"}

Init == /\ phase = [t \in Tasks |-> "new"]
        /\ owner = [t \in Tasks |-> NoOwner]

Move(t, from, to, n) == /\ phase[t] \in from
                        /\ phase' = [phase EXCEPT ![t] = to]
                        /\ owner' = [owner EXCEPT ![t] = n]

Pool(t)     == Move(t, {"new"}, "pooled", NoOwner)
Offer(t, n) == Move(t, {"new", "pooled"}, "offered", n)
Take(t)     == Move(t, {"offered"}, "held", owner[t])
Release(t)  == Move(t, {"offered", "held"}, "pooled", NoOwner)
Finish(t)   == Move(t, {"held"}, "done", owner[t])
Drop(t)     == Move(t, {"pooled", "offered", "held"}, "dropped", owner[t])
Purge(t)    == Move(t, {"done", "dropped"}, "purged", NoOwner)

Next == \E t \in Tasks : \/ Pool(t) \/ Take(t) \/ Release(t) \/ Finish(t) \/ Drop(t) \/ Purge(t)
                         \/ \E n \in Names : Offer(t, n)

Spec == Init /\ [][Next]_vars
=============================================================================
