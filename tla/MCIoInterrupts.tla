---------------------------- MODULE MCIoInterrupts ----------------------------
(* Instances of IoInterrupts for TLC.                                        *)
EXTENDS IoInterrupts, TLC

CONSTANTS d1, d2

\* CPU 0 takes the less urgent subclass, CPU 1 both.
TwoMasks  == 0 :> {2} @@ 1 :> {1, 2}
\* Only the last CPU takes I/O interrupts; the wakeup goes to the first.
LastOfTwo   == 0 :> {} @@ 1 :> {1}
=============================================================================
