--------------------------- MODULE MCDeviceThreads ---------------------------
(* Instances of DeviceThreads for TLC.                                       *)
EXTENDS DeviceThreads, Sequences, TLC

CONSTANTS d1, d2, d3, c1, c2, t1, t2, t3

\* d1 and d2 share an interruption subclass more urgent than d3's.
TwoUrgent   == d1 :> 1 @@ d2 :> 1 @@ d3 :> 2
EqualPair   == d1 :> 1 @@ d2 :> 1

\* Only for instances in which all devices have one priority.
Symmetry == Permutations(Thread) \cup Permutations(Dev) \cup Permutations(Cpu)

\* The list as a sequence, and the requests it holds per priority.
IoqSeq == LET last == Least({k \in Positions : Walk[k] = NoDev})
          IN  [k \in 1 .. last |-> Walk[k - 1]]

Promise == INSTANCE StartQueue WITH
    requests <- [p \in {Priority[d] : d \in Dev} |->
                    SelectSeq(IoqSeq, LAMBDA d : Priority[d] = p)]

\* The linked list, its insertion and removal loops and the thread dispatching
\* implement the abstract queue, its liveness included.
ImplementsStartQueue == Promise!Spec
=============================================================================
