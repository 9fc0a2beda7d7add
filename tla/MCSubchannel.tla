----------------------------- MODULE MCSubchannel -----------------------------
(* Instances of Subchannel for TLC.                                          *)
EXTENDS Subchannel, TLC

CONSTANTS c1, c2, t1, t2

\* Suspend interrupts and initial status; suspended silently; neither.
Chatty == [s |-> TRUE, i |-> TRUE, u |-> FALSE]
Silent == [s |-> TRUE, i |-> FALSE, u |-> TRUE]

OneOrb   == {Chatty}
TwoOrbs  == {Chatty, Silent}
=============================================================================
