---------------------------- MODULE MCRelayMailbox ----------------------------
(* RelayMailbox for TLC: the argument combinations of each run, symmetry.      *)
EXTENDS RelayMailbox, TLC

Symmetry == Permutations(Agents) \cup Permutations(Procs)

Mode(status, peek, ack, recent) == [status |-> status, peek |-> peek, ack |-> ack, recent |-> recent]

RaceReads == {PlainRead, Mode("pending", FALSE, TRUE, TRUE), Mode("pending", TRUE, FALSE, FALSE)}
EveryKind == {PlainRead,
              Mode("pending", FALSE, TRUE, TRUE),
              Mode("pending", TRUE, FALSE, FALSE),
              Mode("all", FALSE, FALSE, TRUE),
              Mode("read", FALSE, FALSE, FALSE),
              Mode("resolved", FALSE, TRUE, FALSE)}
=============================================================================
