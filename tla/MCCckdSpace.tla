---------------------------- MODULE MCCckdSpace ----------------------------
(* Instances of CckdSpace for TLC.                                         *)
EXTENDS CckdSpace
=============================================================================
