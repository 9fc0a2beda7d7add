------------------------------- MODULE MCCpuSync -------------------------------
(* Instances of CpuSync for TLC.                                             *)
EXTENDS CpuSync, TLC

CONSTANTS c1, c2, c3
=============================================================================
