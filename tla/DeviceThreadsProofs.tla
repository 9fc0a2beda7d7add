------------------------- MODULE DeviceThreadsProofs -------------------------
(* The device thread pool keeps its counters, never strands a queued request *)
(* and keeps its idle threads within the limit, for any number of devices,   *)
(* CPUs and threads, any limits, and every instruction a guest may issue.    *)
EXTENDS DeviceThreads, TLAPS, FiniteSetTheorems

Within(f, S) == {t \in Thread : f[t] \in S}

\* The sets of threads that the counters count are finite.
LEMMA WithinFinite ==
    ASSUME NEW f, NEW S
    PROVE  IsFiniteSet(Within(f, S)) /\ Cardinality(Within(f, S)) \in Nat
  <1>1. Within(f, S) \in SUBSET Thread
    BY DEF Within
  <1>2. IsFiniteSet(Within(f, S))
    BY <1>1, FS_Subset, QueueAssumption
  <1>. QED
    BY <1>2, FS_CardinalityType

\* How the number of threads in some states changes when one thread moves.
Unit(condition) == IF condition THEN 1 ELSE 0

LEMMA CountAfterMove ==
    ASSUME TypeOK, NEW t \in Thread, NEW v, thr' = [thr EXCEPT ![t] = v], NEW S
    PROVE  Cardinality(Within(thr', S))
           = Cardinality(Within(thr, S)) + Unit(v \in S) - Unit(thr[t] \in S)
  <1>1. IsFiniteSet(Within(thr, S)) /\ Cardinality(Within(thr, S)) \in Nat
    BY WithinFinite
  <1>2. thr'[t] = v /\ \A u \in Thread \ {t} : thr'[u] = thr[u]
    BY DEF TypeOK
  <1>3. CASE v \in S /\ thr[t] \notin S
    <2>1. Within(thr', S) = Within(thr, S) \cup {t} /\ t \notin Within(thr, S)
      BY <1>2, <1>3 DEF Within
    <2>2. Cardinality(Within(thr', S)) = Cardinality(Within(thr, S)) + 1
      BY <2>1, <1>1, FS_AddElement
    <2>. QED
      BY <2>2, <1>1, <1>3 DEF Unit
  <1>4. CASE v \notin S /\ thr[t] \in S
    <2>1. Within(thr', S) = Within(thr, S) \ {t} /\ t \in Within(thr, S)
      BY <1>2, <1>4 DEF Within
    <2>2. Cardinality(Within(thr', S)) = Cardinality(Within(thr, S)) - 1
      BY <2>1, <1>1, FS_RemoveElement
    <2>. QED
      BY <2>2, <1>1, <1>4 DEF Unit
  <1>5. CASE v \in S <=> thr[t] \in S
    <2>1. Within(thr', S) = Within(thr, S)
      BY <1>2, <1>5 DEF Within
    <2>. QED
      BY <2>1, <1>1, <1>5 DEF Unit
  <1>. QED
    BY <1>3, <1>4, <1>5

\* A thread in some state makes its count positive.
LEMMA CountPositive ==
    ASSUME NEW f, NEW S, NEW t \in Thread, f[t] \in S
    PROVE  Cardinality(Within(f, S)) > 0
  <1>1. Within(f, S) # {}
    BY DEF Within
  <1>. QED
    BY <1>1, WithinFinite, FS_EmptySet

\* A positive count names a thread.
LEMMA CountNames ==
    ASSUME NEW f, NEW S, Cardinality(Within(f, S)) # 0
    PROVE  \E t \in Thread : f[t] \in S
  <1>1. Within(f, S) # {}
    BY FS_EmptySet
  <1>. QED
    BY <1>1 DEF Within

-----------------------------------------------------------------------------
(* The inductive invariant.  The counters are what makes a wakeup reach a    *)
(* thread: devtwait > 0 must mean that a thread waits, and devtnbr >= devtmax *)
(* with devtwait = 0 that one is alive and not waiting.                      *)

Counters == /\ devtwait = Cardinality(Within(thr, {"wait"}))
            /\ devtnbr = Cardinality(Within(thr, Counted))

PoolInv == TypeOK /\ Counters /\ NoStrandedRequest /\ IdleWithinLimit

LEMMA CountersAreThreadCounts == Counters <=> ThreadCounts
  BY DEF Counters, ThreadCounts, Count, Within

\* The counters keep up with one thread that moves to another state.
LEMMA CountersAfterMove ==
    ASSUME TypeOK, Counters, NEW t \in Thread, NEW v \in ThreadState,
           thr' = [thr EXCEPT ![t] = v],
           devtwait' = devtwait + Unit(v = "wait") - Unit(thr[t] = "wait"),
           devtnbr' = devtnbr + Unit(v \in Counted) - Unit(thr[t] \in Counted)
    PROVE  Counters'
  <1>. DEFINE Moved(S) == Cardinality(Within(thr', S))
                          = Cardinality(Within(thr, S)) + Unit(v \in S) - Unit(thr[t] \in S)
  <1>1. ASSUME NEW S PROVE Moved(S)
    BY CountAfterMove
  <1>2. Moved({"wait"}) /\ Moved(Counted)
    BY <1>1
  <1>3. Unit(v \in {"wait"}) = Unit(v = "wait")
        /\ Unit(thr[t] \in {"wait"}) = Unit(thr[t] = "wait")
    BY DEF Unit
  <1>. QED
    BY <1>2, <1>3 DEF Counters

\* What a thread that looks at the counters learns from them.
LEMMA CountersTell ==
    ASSUME TypeOK, Counters
    PROVE  /\ devtwait = 0 <=> \A t \in Thread : thr[t] # "wait"
           /\ devtnbr = 0 <=> \A t \in Thread : thr[t] \notin Counted
           /\ devtwait <= devtnbr
  <1>1. ASSUME NEW S
        PROVE  Cardinality(Within(thr, S)) = 0 <=> \A t \in Thread : thr[t] \notin S
    <2>1. Cardinality(Within(thr, S)) \in Nat
      BY WithinFinite
    <2>2. ASSUME NEW t \in Thread, thr[t] \in S PROVE Cardinality(Within(thr, S)) > 0
      BY <2>2, CountPositive
    <2>3. Cardinality(Within(thr, S)) # 0 => \E t \in Thread : thr[t] \in S
      BY CountNames
    <2>. QED
      BY <2>1, <2>2, <2>3
  <1>2. Cardinality(Within(thr, {"wait"})) = 0 <=> \A t \in Thread : thr[t] \notin {"wait"}
    BY <1>1
  <1>3. Cardinality(Within(thr, Counted)) = 0 <=> \A t \in Thread : thr[t] \notin Counted
    BY <1>1
  <1>4. Within(thr, {"wait"}) \subseteq Within(thr, Counted)
    BY DEF Within, Counted
  <1>5. Cardinality(Within(thr, {"wait"})) <= Cardinality(Within(thr, Counted))
    BY <1>4, WithinFinite, FS_Subset
  <1>. QED
    BY <1>2, <1>3, <1>5 DEF Counters

LEMMA PoolInit == Init => PoolInv
  <1>. SUFFICES ASSUME Init PROVE PoolInv
    OBVIOUS
  <1>1. TypeOK
    BY QueueAssumption DEF Init, TypeOK, DevBlk, Reset, DevPtr, ThreadState
  <1>2. Within(thr, {"wait"}) = {} /\ Within(thr, Counted) = {}
    BY DEF Init, Within, Counted
  <1>3. Counters
    BY <1>2, FS_EmptySet DEF Init, Counters
  <1>4. NoStrandedRequest
    BY DEF Init, NoStrandedRequest
  <1>5. IdleWithinLimit
    BY QueueAssumption DEF Init, IdleWithinLimit
  <1>. QED
    BY <1>1, <1>3, <1>4, <1>5 DEF PoolInv

\* A critical section that leaves the threads alone, as every instruction but
\* the second half of startio does, can only shorten the queue.
LEMMA PoolUntouched ==
    ASSUME PoolInv, UNCHANGED pool, ioq' # NoDev => ioq # NoDev,
           UNCHANGED panel \/ applying', TypeOK'
    PROVE  PoolInv'
  <1>1. Counters'
    BY DEF PoolInv, Counters, Within, pool
  <1>2. NoStrandedRequest'
    BY DEF PoolInv, NoStrandedRequest, pool
  <1>3. IdleWithinLimit'
    BY DEF PoolInv, IdleWithinLimit, pool, panel
  <1>. QED
    BY <1>1, <1>2, <1>3 DEF PoolInv

\* The list operations and the CPU's half of startio keep the types.
LEMMA QueueTypes ==
    ASSUME TypeOK, NEW d \in Dev
    PROVE  /\ InsertRequest(d) \/ RemoveRequest(d)
              => ioq' \in DevPtr /\ nextioq' \in [Dev -> DevPtr]
           /\ RemoveRequest(d) /\ OnQueue(d) => ioq # NoDev
  <1>1. InsertRequest(d) => ioq' \in DevPtr /\ nextioq' \in [Dev -> DevPtr]
    BY DEF TypeOK, InsertRequest, DevPtr
  <1>2. RemoveRequest(d) => ioq' \in DevPtr /\ nextioq' \in [Dev -> DevPtr]
    <2>1. nextioq[d] \in DevPtr
      BY DEF TypeOK
    <2>. QED
      BY <2>1 DEF TypeOK, RemoveRequest
  <1>3. OnQueue(d) => ioq # NoDev
    BY QueueAssumption DEF OnQueue
  <1>. QED
    BY <1>1, <1>2, <1>3

LEMMA OthersKeepPool ==
    ASSUME PoolInv,
           \/ \E c \in Cpu : QueueRequestLoops(c)
           \/ \E c \in Cpu, d \in Dev : \/ StartIo(c, d) \/ CancelSubchan(c, d)
                                        \/ HaltSubchan(c, d) \/ RemoveRequestLoops(c, d)
                                        \/ TestSubchan(c, d)
           \/ \E d \in Dev : DeviceReset(d)
           \/ \E n \in Limits : SetDevtmax(n)
    PROVE  PoolInv'
  <1>. USE DEF PoolInv
  <1>1. ASSUME NEW c \in Cpu, NEW d \in Dev, StartIo(c, d) PROVE PoolInv'
    <2>1. dev' \in [Dev -> DevBlk]
      BY <1>1, ZenonT(40) DEF StartIo, TypeOK, DevBlk
    <2>2. starting' \in [Cpu -> DevPtr]
      BY <1>1 DEF StartIo, TypeOK, DevPtr
    <2>3. TypeOK'
      BY <1>1, <2>1, <2>2 DEF StartIo, TypeOK, queue, panel, pool
    <2>. QED
      BY <1>1, <2>3, PoolUntouched DEF StartIo, queue
  <1>2. ASSUME NEW c \in Cpu, QueueRequestLoops(c) PROVE PoolInv'
    <2>1. TypeOK'
      BY <1>2 DEF QueueRequestLoops, TypeOK, DevPtr, queue, panel, pool
    <2>. QED
      BY <1>2, <2>1, PoolUntouched DEF QueueRequestLoops, queue
  <1>3. ASSUME NEW c \in Cpu, NEW d \in Dev, CancelSubchan(c, d) PROVE PoolInv'
    <2>1. TypeOK'
      BY <1>3, QueueTypes DEF CancelSubchan, TypeOK, DevBlk, panel, pool
    <2>. QED
      BY <1>3, <2>1, PoolUntouched, QueueTypes DEF CancelSubchan
  <1>4. ASSUME NEW c \in Cpu, NEW d \in Dev, HaltSubchan(c, d) PROVE PoolInv'
    <2>1. UNCHANGED queue \/ (RemoveRequest(d) /\ OnQueue(d))
      BY <1>4 DEF HaltSubchan
    <2>2. ioq' \in DevPtr /\ nextioq' \in [Dev -> DevPtr]
      BY <2>1, QueueTypes DEF queue, TypeOK
    <2>3. dev' \in [Dev -> DevBlk]
      <3>1. dev' = [dev EXCEPT ![d].halting = TRUE, ![d].startpending = FALSE]
            \/ dev' = [dev EXCEPT ![d].scpend = TRUE]
        BY <1>4 DEF HaltSubchan
      <3>2. dev \in [Dev -> DevBlk]
        BY DEF TypeOK
      <3>3. CASE dev' = [dev EXCEPT ![d].halting = TRUE, ![d].startpending = FALSE]
        BY <3>2, <3>3 DEF DevBlk
      <3>4. CASE dev' = [dev EXCEPT ![d].scpend = TRUE]
        BY <3>2, <3>4 DEF DevBlk
      <3>. QED
        BY <3>1, <3>3, <3>4
    <2>4. TypeOK'
      BY <1>4, <2>2, <2>3 DEF HaltSubchan, TypeOK, panel, pool
    <2>5. ioq' # NoDev => ioq # NoDev
      BY <2>1, QueueTypes DEF queue
    <2>. QED
      BY <1>4, <2>4, <2>5, PoolUntouched DEF HaltSubchan
  <1>5. ASSUME NEW c \in Cpu, NEW d \in Dev, RemoveRequestLoops(c, d) PROVE PoolInv'
    <2>1. TypeOK'
      BY <1>5 DEF RemoveRequestLoops, TypeOK, DevPtr, queue, panel, pool
    <2>. QED
      BY <1>5, <2>1, PoolUntouched DEF RemoveRequestLoops, queue
  <1>6. ASSUME NEW c \in Cpu, NEW d \in Dev, TestSubchan(c, d) PROVE PoolInv'
    <2>1. TypeOK'
      BY <1>6 DEF TestSubchan, TypeOK, DevBlk, queue, panel, pool
    <2>. QED
      BY <1>6, <2>1, PoolUntouched DEF TestSubchan, queue
  <1>7. ASSUME NEW d \in Dev, DeviceReset(d) PROVE PoolInv'
    <2>1. TypeOK'
      BY <1>7 DEF DeviceReset, TypeOK, DevBlk, Reset, queue, panel, pool
    <2>. QED
      BY <1>7, <2>1, PoolUntouched DEF DeviceReset, queue
  <1>8. ASSUME NEW n \in Limits, SetDevtmax(n) PROVE PoolInv'
    <2>1. TypeOK'
      BY <1>8, QueueAssumption DEF SetDevtmax, TypeOK, queue, pool
    <2>. QED
      BY <1>8, <2>1, PoolUntouched DEF SetDevtmax, queue
  <1>. QED
    BY <1>1, <1>2, <1>3, <1>4, <1>5, <1>6, <1>7, <1>8

-----------------------------------------------------------------------------
(* The critical sections that move threads.                                  *)

\* startio's dispatching: the signalled thread leaves the wait and the count
\* of waiters together, a created one is in neither count yet.
LEMMA DispatchCounts ==
    ASSUME TypeOK, Counters, DispatchThread, devtnbr' = devtnbr
    PROVE  /\ thr' \in [Thread -> ThreadState]
           /\ Counters'
           /\ devtwait' <= devtwait
           /\ \/ \E t \in Thread : thr'[t] \in Active
              \/ CreateMayFail /\ devtnbr' = 0
  <1>. USE DEF TypeOK
  <1>1. CASE devtwait # 0 /\ devtwait' = devtwait - 1 /\ SignalThread
    <2>1. Waiting # {}
      BY <1>1, CountersTell DEF Waiting
    <2>2. PICK t \in Waiting : thr' = [thr EXCEPT ![t] = "ready"]
      BY <1>1, <2>1 DEF SignalThread
    <2>3. t \in Thread /\ thr[t] = "wait"
      BY <2>2 DEF Waiting
    <2>4. thr' \in [Thread -> ThreadState] /\ thr'[t] \in Active
      BY <2>2, <2>3 DEF ThreadState, Active
    <2>5. /\ "ready" \in ThreadState
          /\ devtwait' = devtwait + Unit("ready" = "wait") - Unit(thr[t] = "wait")
          /\ devtnbr' = devtnbr + Unit("ready" \in Counted) - Unit(thr[t] \in Counted)
      BY <1>1, <2>3 DEF Unit, Counted, ThreadState, Active
    <2>6. Counters'
      BY <2>2, <2>3, <2>5, CountersAfterMove
    <2>. QED
      BY <1>1, <2>3, <2>4, <2>6
  <1>2. CASE /\ devtwait = 0 /\ (devtmax = 0 \/ devtnbr < devtmax)
             /\ CreateThread /\ UNCHANGED devtwait
    <2>1. CASE \E t \in Thread : thr[t] = "none" /\ thr' = [thr EXCEPT ![t] = "new"]
      <3>1. PICK t \in Thread : thr[t] = "none" /\ thr' = [thr EXCEPT ![t] = "new"]
        BY <2>1
      <3>2. thr' \in [Thread -> ThreadState] /\ thr'[t] \in Active
        BY <3>1 DEF ThreadState, Active
      <3>3. /\ "new" \in ThreadState
            /\ devtwait' = devtwait + Unit("new" = "wait") - Unit(thr[t] = "wait")
            /\ devtnbr' = devtnbr + Unit("new" \in Counted) - Unit(thr[t] \in Counted)
        BY <1>2, <3>1 DEF Unit, Counted, ThreadState, Active
      <3>4. Counters'
        BY <3>1, <3>3, CountersAfterMove
      <3>. QED
        BY <1>2, <3>2, <3>4
    <2>2. CASE UNCHANGED thr /\ (CreateMayFail \/ \A t \in Thread : thr[t] # "none")
      <3>1. Counters'
        BY <1>2, <2>2 DEF Counters, Within
      <3>2. \A t \in Thread : thr[t] # "wait"
        BY <1>2, CountersTell
      <3>3. \A t \in Thread : thr[t] \in Active \/ thr[t] = "none"
        BY <3>2 DEF ThreadState
      <3>4. \/ \E t \in Thread : thr[t] \in Active
            \/ CreateMayFail /\ devtnbr = 0
        <4>1. CASE \A t \in Thread : thr[t] # "none"
          BY <4>1, <3>3, QueueAssumption
        <4>2. CASE CreateMayFail /\ devtnbr # 0
          <5>1. PICK t \in Thread : thr[t] \in Counted
            BY <4>2, CountersTell
          <5>. QED
            BY <5>1, <3>3 DEF Counted
        <4>. QED
          BY <2>2, <4>1, <4>2
      <3>. QED
        BY <1>2, <2>2, <3>1, <3>4
    <2>. QED
      BY <1>2, <2>1, <2>2 DEF CreateThread
  <1>3. CASE /\ devtwait = 0 /\ devtmax # 0 /\ devtnbr >= devtmax
             /\ UNCHANGED <<thr, devtwait>>
    <2>1. Counters'
      BY <1>3 DEF Counters, Within
    <2>2. PICK t \in Thread : thr[t] \in Counted
      BY <1>3, CountersTell
    <2>3. thr[t] # "wait"
      BY <1>3, CountersTell
    <2>. QED
      BY <1>3, <2>1, <2>2, <2>3 DEF Counted, Active
  <1>. QED
    BY <1>1, <1>2, <1>3 DEF DispatchThread

LEMMA QueueRequestKeepsPool ==
    ASSUME PoolInv, NEW c \in Cpu, QueueRequest(c)
    PROVE  PoolInv'
  <1>. USE DEF PoolInv
  <1>1. starting[c] \in Dev
    BY DEF QueueRequest, TypeOK, DevPtr
  <1>2. ioq' \in DevPtr /\ nextioq' \in [Dev -> DevPtr]
    BY <1>1, QueueTypes DEF QueueRequest
  <1>3. DispatchThread /\ devtnbr' = devtnbr
    BY DEF QueueRequest
  <1>4. devtwait' \in Nat
    BY <1>3 DEF DispatchThread, TypeOK
  <1>5. TypeOK'
    BY <1>2, <1>3, <1>4, DispatchCounts DEF QueueRequest, TypeOK, DevPtr, panel
  <1>6. NoStrandedRequest'
    BY <1>3, DispatchCounts DEF NoStrandedRequest
  <1>7. IdleWithinLimit'
    BY <1>3, <1>4, DispatchCounts, QueueAssumption
       DEF IdleWithinLimit, QueueRequest, panel, TypeOK
  <1>. QED
    BY <1>3, <1>5, <1>6, <1>7, DispatchCounts

\* The devtmax command wakes every waiter, so it may zero devtwait.
LEMMA ApplyDevtmaxKeepsPool ==
    ASSUME PoolInv, ApplyDevtmax
    PROVE  PoolInv'
  <1>. USE DEF PoolInv
  <1>1. PICK created \in {{}} \cup {{t} : t \in Thread} :
          /\ \A t \in created : thr[t] = "none"
          /\ created # {} <=>
               /\ ioq # NoDev /\ (devtmax = 0 \/ devtnbr < devtmax)
               /\ \E t \in Thread : thr[t] = "none"
          /\ thr' = [t \in Thread |-> Awake(t, created)]
    BY DEF ApplyDevtmax
  <1>2. \A t \in Thread : thr[t] \in ThreadState
    BY DEF TypeOK
  <1>3. \A t \in Thread : /\ thr[t] = "wait" => thr'[t] = "ready"
                          /\ t \in created => thr'[t] = "new"
                          /\ thr[t] # "wait" /\ t \notin created => thr'[t] = thr[t]
    BY <1>1 DEF Awake
  <1>4. thr' \in [Thread -> ThreadState]
    BY <1>1, <1>2 DEF Awake, ThreadState, Active
  <1>5. TypeOK'
    BY <1>4 DEF ApplyDevtmax, TypeOK, queue
  <1>6. Within(thr', {"wait"}) = {}
    BY <1>1 DEF Within, Awake
  <1>7. Within(thr', Counted) = Within(thr, Counted)
    BY <1>1, <1>2 DEF Within, Awake, Counted
  <1>8. Counters'
    BY <1>6, <1>7, FS_EmptySet DEF Counters, ApplyDevtmax
  <1>9. NoStrandedRequest'
    <2>1. SUFFICES ASSUME ioq # NoDev
                   PROVE  \/ \E t \in Thread : thr'[t] \in Active
                          \/ CreateMayFail /\ devtnbr = 0
      BY DEF NoStrandedRequest, ApplyDevtmax, queue
    <2>2. CASE \E t \in Thread : thr[t] \in Active
      <3>1. PICK t \in Thread : thr[t] \in Active
        BY <2>2
      <3>2. thr'[t] \in Active
        BY <1>1, <3>1 DEF Awake, Active
      <3>. QED
        BY <3>2
    <2>3. CASE CreateMayFail /\ devtnbr = 0
      BY <2>3
    <2>. QED
      BY <2>1, <2>2, <2>3 DEF NoStrandedRequest
  <1>10. IdleWithinLimit'
    BY QueueAssumption DEF IdleWithinLimit, ApplyDevtmax, TypeOK
  <1>. QED
    BY <1>5, <1>8, <1>9, <1>10

\* A thread that takes a request, ends, or waits; waiting only on an empty
\* queue, within the limit.
LEMMA ThreadsKeepPool ==
    ASSUME PoolInv, NEW t \in Thread, ThreadStep(t)
    PROVE  PoolInv'
  <1>. USE DEF PoolInv
  <1>1. thr[t] \in ThreadState /\ thr \in [Thread -> ThreadState]
    BY DEF TypeOK
  <1>2. AtQueue(t) => /\ NbrNow(t) = devtnbr + 1 - Unit(thr[t] \in Counted)
                      /\ Unit(thr[t] = "wait") = 0
    BY DEF AtQueue, NbrNow, Unit, Counted, TypeOK
  <1>3. CASE TakeRequest(t)
    <2>1. /\ "taken" \in ThreadState
          /\ devtwait' = devtwait + Unit("taken" = "wait") - Unit(thr[t] = "wait")
          /\ devtnbr' = devtnbr + Unit("taken" \in Counted) - Unit(thr[t] \in Counted)
      BY <1>2, <1>3 DEF TakeRequest, TypeOK, Unit, Counted, ThreadState, Active
    <2>2. Counters'
      BY <1>3, <2>1, CountersAfterMove DEF TakeRequest
    <2>3. TypeOK'
      <3>1. ioq \in Dev /\ ioq' \in DevPtr
        BY <1>3 DEF TakeRequest, TypeOK, DevPtr
      <3>2. devtnbr' \in Nat
        BY <2>2, WithinFinite DEF Counters
      <3>. QED
        BY <1>3, <2>1, <3>1, <3>2 DEF TakeRequest, TypeOK, DevPtr, panel
    <2>4. thr'[t] \in Active
      BY <1>1, <1>3 DEF TakeRequest, Active
    <2>. QED
      BY <1>3, <2>2, <2>3, <2>4
         DEF TakeRequest, NoStrandedRequest, IdleWithinLimit, panel
  <1>4. CASE EndThread(t)
    <2>1. /\ "none" \in ThreadState
          /\ devtwait' = devtwait + Unit("none" = "wait") - Unit(thr[t] = "wait")
          /\ devtnbr' = devtnbr + Unit("none" \in Counted) - Unit(thr[t] \in Counted)
      BY <1>2, <1>4 DEF EndThread, TypeOK, Unit, Counted, ThreadState
    <2>2. Counters'
      BY <1>4, <2>1, CountersAfterMove DEF EndThread
    <2>3. TypeOK'
      <3>1. devtnbr' \in Nat
        BY <2>2, WithinFinite DEF Counters
      <3>. QED
        BY <1>4, <2>1, <3>1 DEF EndThread, TypeOK, DevPtr, queue, panel
    <2>. QED
      BY <1>4, <2>2, <2>3
         DEF EndThread, NoStrandedRequest, IdleWithinLimit, queue, panel
  <1>5. CASE WaitForWork(t)
    <2>1. /\ "wait" \in ThreadState
          /\ devtwait' = devtwait + Unit("wait" = "wait") - Unit(thr[t] = "wait")
          /\ devtnbr' = devtnbr + Unit("wait" \in Counted) - Unit(thr[t] \in Counted)
      BY <1>2, <1>5 DEF WaitForWork, TypeOK, Unit, Counted, ThreadState
    <2>2. Counters'
      BY <1>5, <2>1, CountersAfterMove DEF WaitForWork
    <2>3. TypeOK'
      <3>1. devtnbr' \in Nat /\ devtwait' \in Nat
        BY <2>2, WithinFinite DEF Counters
      <3>. QED
        BY <1>5, <2>1, <3>1 DEF WaitForWork, TypeOK, DevPtr, queue, panel
    <2>4. devtwait' <= devtnbr'
      <3>1. Within(thr', {"wait"}) \subseteq Within(thr', Counted)
        BY DEF Within, Counted
      <3>2. Cardinality(Within(thr', {"wait"})) <= Cardinality(Within(thr', Counted))
        BY <3>1, WithinFinite, FS_Subset
      <3>. QED
        BY <2>2, <3>2 DEF Counters
    <2>5. IdleWithinLimit'
      BY <1>5, <2>3, <2>4, QueueAssumption
         DEF WaitForWork, TooMany, IdleWithinLimit, panel, TypeOK
    <2>. QED
      BY <1>5, <2>2, <2>3, <2>5 DEF WaitForWork, NoStrandedRequest, queue
  <1>6. CASE BeginChain(t)
    <2>1. /\ "exec" \in ThreadState
          /\ devtwait' = devtwait + Unit("exec" = "wait") - Unit(thr[t] = "wait")
          /\ devtnbr' = devtnbr + Unit("exec" \in Counted) - Unit(thr[t] \in Counted)
      BY <1>6 DEF BeginChain, TypeOK, Unit, Counted, ThreadState, Active
    <2>2. Counters'
      BY <1>6, <2>1, CountersAfterMove DEF BeginChain
    <2>3. dev' \in [Dev -> DevBlk]
      BY <1>6 DEF BeginChain, TypeOK, DevBlk
    <2>4. TypeOK'
      BY <1>6, <2>1, <2>3 DEF BeginChain, TypeOK, queue, panel
    <2>5. thr'[t] \in Active
      BY <1>1, <1>6 DEF BeginChain, Active
    <2>. QED
      BY <1>6, <2>2, <2>4, <2>5
         DEF BeginChain, NoStrandedRequest, IdleWithinLimit, panel
  <1>7. CASE EndChain(t)
    <2>1. /\ "done" \in ThreadState
          /\ devtwait' = devtwait + Unit("done" = "wait") - Unit(thr[t] = "wait")
          /\ devtnbr' = devtnbr + Unit("done" \in Counted) - Unit(thr[t] \in Counted)
      BY <1>7 DEF EndChain, TypeOK, Unit, Counted, ThreadState, Active
    <2>2. Counters'
      BY <1>7, <2>1, CountersAfterMove DEF EndChain
    <2>3. dev' \in [Dev -> DevBlk]
      <3>1. dev \in [Dev -> DevBlk] /\ cur[t] \in DevPtr
        BY DEF TypeOK
      <3>2. dev' = [dev EXCEPT ![cur[t]] =
                      [@ EXCEPT !.busy = FALSE, !.local = FALSE,
                                !.scpend = TRUE, !.halting = FALSE]]
        BY <1>7, <3>1 DEF EndChain, DevBlk
      <3>3. ASSUME NEW d \in Dev PROVE dev'[d] \in DevBlk
        <4>1. dev[d] \in DevBlk
          BY <3>1
        <4>2. [dev[d] EXCEPT !.busy = FALSE, !.local = FALSE,
                             !.scpend = TRUE, !.halting = FALSE] \in DevBlk
          BY <4>1 DEF DevBlk
        <4>. QED
          BY <3>1, <3>2, <4>1, <4>2
      <3>. QED
        BY <3>1, <3>2, <3>3
    <2>4. TypeOK'
      BY <1>7, <2>1, <2>3 DEF EndChain, TypeOK, queue, panel
    <2>5. thr'[t] \in Active
      BY <1>1, <1>7 DEF EndChain, Active
    <2>. QED
      BY <1>7, <2>2, <2>4, <2>5
         DEF EndChain, NoStrandedRequest, IdleWithinLimit, panel
  <1>. QED
    BY <1>3, <1>4, <1>5, <1>6, <1>7 DEF ThreadStep

LEMMA PoolStep == PoolInv /\ [Next]_vars => PoolInv'
  <1>. SUFFICES ASSUME PoolInv, [Next]_vars PROVE PoolInv'
    OBVIOUS
  <1>1. CASE UNCHANGED vars
    <2>1. TypeOK'
      BY <1>1 DEF PoolInv, TypeOK, vars, queue, panel, pool
    <2>. QED
      BY <1>1, <2>1, PoolUntouched DEF vars, queue
  <1>2. CASE \E c \in Cpu : QueueRequest(c)
    BY <1>2, QueueRequestKeepsPool
  <1>3. CASE ApplyDevtmax
    BY <1>3, ApplyDevtmaxKeepsPool
  <1>4. CASE \E t \in Thread : ThreadStep(t)
    BY <1>4, ThreadsKeepPool
  <1>5. CASE \/ \E c \in Cpu : QueueRequestLoops(c)
             \/ \E c \in Cpu, d \in Dev : \/ StartIo(c, d) \/ CancelSubchan(c, d)
                                          \/ HaltSubchan(c, d) \/ RemoveRequestLoops(c, d)
                                          \/ TestSubchan(c, d)
             \/ \E d \in Dev : DeviceReset(d)
             \/ \E n \in Limits : SetDevtmax(n)
    BY <1>5, OthersKeepPool
  <1>. QED
    BY <1>1, <1>2, <1>3, <1>4, <1>5 DEF Next

-----------------------------------------------------------------------------
(* The theorems.                                                             *)

\* In every reachable state the pool invariant holds.
THEOREM PoolInvariant == Spec => []PoolInv
  BY PoolInit, PoolStep, PTL DEF Spec

\* The fields of the device blocks, the queue's pointers, the counters and the
\* threads' states keep their types; devtwait and devtnbr are never negative.
THEOREM TypeCorrect == Spec => []TypeOK
  BY PoolInvariant, PTL DEF PoolInv

\* devtwait and devtnbr, incremented and decremented in startio, device_thread
\* and the devtmax command, are what they count, whatever the interleaving.
THEOREM CountersExact == Spec => []ThreadCounts
  BY PoolInvariant, CountersAreThreadCounts, PTL DEF PoolInv

\* No lost wakeup: startio always leaves an active thread behind the request
\* it queues, and no thread goes to wait or ends while one is queued.
THEOREM NoLostWakeup == Spec => []NoStrandedRequest
  BY PoolInvariant, PTL DEF PoolInv

\* The number of idle threads respects devtmax: a thread counts itself before
\* it decides to wait, and the devtmax command wakes all idle threads.
THEOREM IdleThreadsBounded == Spec => []IdleWithinLimit
  BY PoolInvariant, PTL DEF PoolInv
=============================================================================
