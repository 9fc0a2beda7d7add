----------------------------- MODULE CpuSyncProofs -----------------------------
(* For any number of CPUs, and of processors of the host: no CPU executes    *)
(* while another one has synchronized the CPUs, and none is left waiting for *)
(* the end of a synchronization that is over.                                *)
EXTENDS CpuSync, TLAPS

\* Why Exclusive holds: whoever may execute, or is about to leave the wait for
\* cpucond, while CPUs are being synchronized is in sync_mask, and
\* SYNCHRONIZE_CPUS goes on when that is empty.
Awaited == {"run", "cpu wait", "cpu done"}
MaskCovers ==
    /\ syncing => In(Awaited) \subseteq sync_mask
    /\ In({"sync done"}) # {} => sync_mask = {}

Inv == TypeOK /\ MaskCovers /\ WaitersReleased /\ Exclusive

LEMMA InvInit == Init => Inv
  BY DEF Init, Inv, TypeOK, MaskCovers, WaitersReleased, Exclusive, In, States, Reasons,
         Awaited, Waiting, Stopped, Blocked, Holding, Syncing

\* What an updated function is.
LEMMA Updated ==
    ASSUME NEW S, NEW T, NEW f \in [S -> T], NEW x \in S, NEW y \in T,
           NEW g, g = [f EXCEPT ![x] = y]
    PROVE  g \in [S -> T] /\ \A e \in S : g[e] = IF e = x THEN y ELSE f[e]
  OBVIOUS

-----------------------------------------------------------------------------
(* Most steps change nothing about the lock or the synchronization, however  *)
(* many CPUs they move: none to or from the places where intlock is held or  *)
(* sync_cond awaited, none to where it executes unless it is already awaited *)
(* or nobody synchronizes.                                                   *)
Quiet   == States \ (Holding \cup Syncing)
Waiters == {"bc", "wait bc", "stop bc"}

MayMove(d) ==
    /\ state[d] \in Quiet /\ state'[d] \in Quiet
    /\ state'[d] \in Awaited => Intlock /\ (~syncing \/ state[d] \in Awaited)
    /\ state'[d] \in Waiters => syncing

LEMMA QuietStep ==
    ASSUME Inv, UNCHANGED sync,
           state' \in [Cpu -> States],
           \A d \in Cpu : state'[d] = state[d] \/ MayMove(d),
           why' \in [Cpu -> Reasons],
           kick' \in [Cpu -> BOOLEAN], syncio' \in [Cpu -> BOOLEAN],
           Intlock \/ UNCHANGED syncio,
           stopping' \in SUBSET Cpu, leaving' \in SUBSET Cpu
    PROVE  Inv'
  <1>. USE DEF Inv, In, MayMove
  <1>1. \A S \in {{"sync done"}, {"synced"}, Holding, Syncing, Holding \cup Syncing} :
          {d \in Cpu : state'[d] \in S} = {d \in Cpu : state[d] \in S}
    BY DEF Quiet, Holding, Syncing
  <1>2. TypeOK'
    BY <1>1 DEF TypeOK, sync
  <1>3. MaskCovers'
    BY <1>1 DEF MaskCovers, sync
  <1>4. WaitersReleased'
    BY DEF WaitersReleased, Waiters, sync
  <1>5. Exclusive'
    BY <1>1 DEF Exclusive, Intlock, Holding, Awaited
  <1>. QED
    BY <1>2, <1>3, <1>4, <1>5

\* Obtaining intlock, and the end of process_interrupt and of startio's lock.
LEMMA QuietOwnSteps ==
    ASSUME Inv, NEW c \in Cpu,
           \/ \E reason \in Reasons : Want(c, reason)
           \/ ProcessInterrupt(c) \/ LeaveWait(c) \/ SynchronousIo(c)
           \/ LeaveCpuWait(c)
    PROVE  Inv'
  <1>. USE DEF Inv, TypeOK, MayMove, Quiet, Awaited, Waiters, States, Waiting, Stopped,
               Blocked, Holding, Syncing, Move, flags, sync
  <1>1. CASE \E reason \in Reasons : Want(c, reason)
    <2>1. PICK reason \in Reasons : Want(c, reason)
      BY <1>1
    <2>2. why' \in [Cpu -> Reasons]
      BY <2>1 DEF Want, Obtain
    <2>. QED
      BY <2>1, <2>2, QuietStep DEF Want, Obtain
  <1>2. CASE ProcessInterrupt(c)
    <2>1. state' \in [Cpu -> States]
      BY <1>2 DEF ProcessInterrupt, Obtained, CpuSignalled
    <2>2. \A d \in Cpu : state'[d] = state[d] \/ MayMove(d)
      BY <1>2, ZenonT(40) DEF ProcessInterrupt, Obtained, CpuSignalled
    <2>3. why' \in [Cpu -> Reasons] /\ kick' \in [Cpu -> BOOLEAN]
      BY <1>2 DEF ProcessInterrupt, Obtained, Reasons
    <2>. QED
      BY <1>2, <2>1, <2>2, <2>3, QuietStep DEF ProcessInterrupt, Obtained
  <1>3. CASE LeaveWait(c)
    <2>1. state' \in [Cpu -> States] /\ kick' \in [Cpu -> BOOLEAN]
      BY <1>3 DEF LeaveWait
    <2>2. \A d \in Cpu : state'[d] = state[d] \/ MayMove(d)
      BY <1>3 DEF LeaveWait
    <2>. QED
      BY <1>3, <2>1, <2>2, QuietStep DEF LeaveWait
  <1>4. CASE SynchronousIo(c)
    <2>1. why' \in [Cpu -> Reasons] /\ syncio' \in [Cpu -> BOOLEAN]
      BY <1>4 DEF SynchronousIo, Obtained, Reasons
    <2>. QED
      BY <1>4, <2>1, QuietStep DEF SynchronousIo, Obtained
  <1>5. CASE LeaveCpuWait(c)
    BY <1>5, QuietStep DEF LeaveCpuWait
  <1>. QED
    BY <1>1, <1>2, <1>3, <1>4, <1>5

\* signal_condition(&regs->intcond) ends the CPU's wait, if it is in one.
LEMMA SignalWakes ==
    ASSUME TypeOK, NEW c \in Cpu
    PROVE  /\ Signal(c) \in [Cpu -> States]
           /\ \A d \in Cpu :
                 \/ Signal(c)[d] = state[d]
                 \/ state[d] = "wait" /\ Signal(c)[d] = "woken"
                 \/ state[d] = "stop" /\ Signal(c)[d] = "started"
  <1>. DEFINE next == CASE state[c] = "wait" -> "woken"
                        [] state[c] = "stop" -> "started"
                        [] OTHER -> state[c]
  <1>1. \/ next = state[c]
        \/ state[c] = "wait" /\ next = "woken"
        \/ state[c] = "stop" /\ next = "started"
    OBVIOUS
  <1>2. Signal(c) = [state EXCEPT ![c] = next]
    BY DEF Signal
  <1>3. next \in States
    BY <1>1 DEF TypeOK, States, Waiting, Stopped
  <1>. HIDE DEF next
  <1>4. state \in [Cpu -> States]
    BY DEF TypeOK
  <1>5. /\ Signal(c) \in [Cpu -> States]
        /\ \A d \in Cpu : Signal(c)[d] = IF d = c THEN next ELSE state[d]
    BY <1>2, <1>3, <1>4
  <1>. QED
    BY <1>1, <1>5

\* Steps that signal or move other CPUs.
LEMMA QuietStepsOnOthers ==
    ASSUME Inv, NEW c \in Cpu,
           \/ WakeUp(c) \/ StopCpu(c) \/ StartCpu(c) \/ CpuThread(c)
           \/ \E d \in Cpu : DeconfigureCpu(c, d) \/ ConfigureCpu(c, d)
    PROVE  Inv'
  <1>. USE DEF Inv, TypeOK, MayMove, Quiet, Awaited, Waiters, States, Waiting, Stopped,
               Blocked, Holding, Syncing, Move, flags, sync
  <1>1. CASE WakeUp(c) \/ StopCpu(c) \/ StartCpu(c)
    <2>1. state' = Signal(c)
      BY <1>1 DEF WakeUp, StopCpu, StartCpu
    <2>2. state' \in [Cpu -> States]
      BY <2>1, SignalWakes
    <2>3. \A d \in Cpu : state'[d] = state[d] \/ MayMove(d)
      BY <2>1, SignalWakes
    <2>4. kick' \in [Cpu -> BOOLEAN] /\ stopping' \in SUBSET Cpu /\ leaving' = leaving
      BY <1>1 DEF WakeUp, StopCpu, StartCpu
    <2>5. why' = why /\ syncio' = syncio /\ UNCHANGED sync
      BY <1>1 DEF WakeUp, StopCpu, StartCpu
    <2>. QED
      BY <2>2, <2>3, <2>4, <2>5, QuietStep
  <1>2. CASE CpuThread(c)
    <2>1. state' \in [Cpu -> States] /\ \A d \in Cpu : state'[d] = state[d] \/ MayMove(d)
      BY <1>2 DEF CpuThread, CpuSignalled
    <2>. QED
      BY <1>2, <2>1, QuietStep DEF CpuThread
  <1>3. ASSUME NEW d \in Cpu, DeconfigureCpu(c, d)
        PROVE  Inv'
    <2>1. state[c] = "want" /\ Intlock /\ ~syncing
      BY <1>3 DEF DeconfigureCpu, Obtained
    <2>2. state' \in [Cpu -> States] /\ \A e \in Cpu : state'[e] = state[e] \/ MayMove(e)
      <3>1. CASE d # c /\ state' = [Signal(d) EXCEPT ![c] = "cpu wait"]
        <4>1. Signal(d) \in [Cpu -> States] /\ "cpu wait" \in States
          BY SignalWakes
        <4>2. /\ state' \in [Cpu -> States]
              /\ \A e \in Cpu : state'[e] = IF e = c THEN "cpu wait" ELSE Signal(d)[e]
          <5>. HIDE DEF States
          <5>. QED
            BY <3>1, <4>1, Updated
        <4>3. \A e \in Cpu :
                 \/ Signal(d)[e] = state[e]
                 \/ state[e] = "wait" /\ Signal(d)[e] = "woken"
                 \/ state[e] = "stop" /\ Signal(d)[e] = "started"
          BY SignalWakes
        <4>4. ASSUME NEW e \in Cpu
              PROVE  state'[e] = state[e] \/ MayMove(e)
          BY <2>1, <4>2, <4>3
        <4>. QED
          BY <4>2, <4>4
      <3>2. CASE d = c /\ Move(c, "run")
        BY <2>1, <3>2
      <3>. QED
        BY <1>3, <3>1, <3>2 DEF DeconfigureCpu
    <2>3. why' \in [Cpu -> Reasons] /\ kick' \in [Cpu -> BOOLEAN]
      BY <1>3 DEF DeconfigureCpu, Obtained, Reasons
    <2>4. stopping' \in SUBSET Cpu /\ leaving' \in SUBSET Cpu
      BY <1>3 DEF DeconfigureCpu
    <2>. QED
      BY <1>3, <2>2, <2>3, <2>4, QuietStep DEF DeconfigureCpu
  <1>4. ASSUME NEW d \in Cpu, ConfigureCpu(c, d)
        PROVE  Inv'
    <2>1. state' \in [Cpu -> States] /\ \A e \in Cpu : state'[e] = state[e] \/ MayMove(e)
      BY <1>4 DEF ConfigureCpu, Obtained
    <2>2. why' \in [Cpu -> Reasons]
      BY <1>4 DEF ConfigureCpu, Obtained, Reasons
    <2>. QED
      BY <1>4, <2>1, <2>2, QuietStep DEF ConfigureCpu
  <1>. QED
    BY <1>1, <1>2, <1>3, <1>4

-----------------------------------------------------------------------------
(* SYNCHRONIZE_CPUS, and the CPUs that give way to it.                       *)

LEMMA YieldKeeps == ASSUME Inv, NEW c \in Cpu, Yield(c) PROVE Inv'
  <1>. USE DEF Inv, In
  <1>1. \A d \in Cpu : state'[d] = IF d = c THEN "bc"
                        ELSE IF sync_mask \ {c} = {} /\ state[d] = "sync wait"
                             THEN "sync done" ELSE state[d]
    BY DEF Yield, Signalled
  <1>2. state' \in [Cpu -> States]
    BY DEF Yield, Signalled, TypeOK, States, Blocked, Syncing
  <1>3. \A d \in Cpu : state'[d] \in Syncing <=> state[d] \in Syncing
    BY <1>1 DEF Yield, Syncing
  <1>4. \A d \in Cpu : state'[d] \in Holding <=> state[d] \in Holding
    BY <1>1 DEF Yield, Holding
  <1>5. TypeOK'
    BY <1>2, <1>3, <1>4 DEF TypeOK, Yield, flags
  <1>6. MaskCovers'
    BY <1>1 DEF MaskCovers, Yield, Awaited
  <1>7. WaitersReleased'
    BY DEF WaitersReleased, Yield
  <1>8. Exclusive'
    BY <1>4 DEF Exclusive, Yield, Intlock, Holding
  <1>. QED
    BY <1>5, <1>6, <1>7, <1>8

\* Whoever need not be told does not execute, unless it does synchronous I/O.
LEMMA NobodyToTell ==
    ASSUME NEW c \in Cpu, Told(c) = {}
    PROVE  \A d \in In({"run"}) \ {c} : syncio[d]
  BY DEF Told, Others, Active, Intwait, In, Waiting, Stopped, Blocked

LEMMA SynchronizeKeeps == ASSUME Inv, NEW c \in Cpu, Synchronize(c) PROVE Inv'
  <1>. USE DEF Inv, In
  <1>1. /\ state[c] = "want" /\ ~syncing
        /\ \A d \in Cpu : state[d] \notin Holding \cup Syncing
        /\ why' \in [Cpu -> Reasons] /\ kick' \in [Cpu -> BOOLEAN]
        /\ UNCHANGED <<syncio, stopping, leaving>>
    BY DEF Synchronize, Obtained, Intlock, TypeOK, Reasons
  <1>2. CASE UNCHANGED sync /\ Move(c, "spin")
    <2>1. \A d \in Cpu : state'[d] = IF d = c THEN "spin" ELSE state[d]
      BY <1>2 DEF Move, TypeOK
    <2>2. TypeOK'
      BY <1>1, <1>2, <2>1, ZenonT(40) DEF TypeOK, Move, States, Holding, Syncing, sync
    <2>3. MaskCovers' /\ WaitersReleased' /\ Exclusive'
      BY <1>1, <1>2, <2>1 DEF MaskCovers, WaitersReleased, Exclusive, Holding, Syncing, sync
    <2>. QED
      BY <2>2, <2>3
  <1>3. CASE Told(c) = {} /\ UNCHANGED sync /\ Move(c, "synced")
    <2>1. \A d \in Cpu : state'[d] = IF d = c THEN "synced" ELSE state[d]
      BY <1>3 DEF Move, TypeOK
    <2>2. TypeOK'
      BY <1>1, <1>3, <2>1, ZenonT(40) DEF TypeOK, Move, States, Holding, Syncing, sync
    <2>3. MaskCovers' /\ WaitersReleased'
      BY <1>1, <1>3, <2>1 DEF MaskCovers, WaitersReleased, Holding, Syncing, sync
    <2>4. Exclusive'
      BY <1>1, <1>3, <2>1, NobodyToTell DEF Exclusive
    <2>. QED
      BY <2>2, <2>3, <2>4
  <1>4. CASE syncing' = TRUE /\ sync_mask' = Others(c) /\ Move(c, "sync wait")
    <2>1. \A d \in Cpu : state'[d] = IF d = c THEN "sync wait" ELSE state[d]
      BY <1>4 DEF Move, TypeOK
    <2>2. In(Awaited)' \subseteq Others(c)
      BY <2>1 DEF Others, Active, Awaited, Waiting, Stopped
    <2>3. MaskCovers'
      BY <1>1, <1>4, <2>1, <2>2 DEF MaskCovers, Syncing
    <2>4. TypeOK'
      BY <1>1, <1>4, <2>1 DEF TypeOK, Move, States, Syncing, Holding, Others, Active
    <2>. QED
      BY <1>1, <1>4, <2>1, <2>3, <2>4 DEF WaitersReleased, Exclusive, Holding
  <1>. QED
    BY <1>2, <1>3, <1>4 DEF Synchronize

LEMMA PolledKeeps == ASSUME Inv, NEW c \in Cpu, Polled(c) PROVE Inv'
  <1>. USE DEF Inv, In
  <1>1. \A d \in Cpu : state'[d] = IF d = c THEN "synced" ELSE state[d]
    BY DEF Polled, Move, TypeOK
  <1>2. TypeOK'
    BY <1>1 DEF Polled, Move, TypeOK, States, Holding, Syncing, flags, sync
  <1>3. MaskCovers' /\ WaitersReleased'
    BY <1>1 DEF Polled, MaskCovers, WaitersReleased, Awaited, sync
  <1>4. Exclusive'
    BY <1>1, NobodyToTell DEF Polled, Exclusive, flags
  <1>. QED
    BY <1>2, <1>3, <1>4

\* sync_mask is empty, so that nobody executes.
LEMMA SynchronizedKeeps == ASSUME Inv, NEW c \in Cpu, Synchronized(c) PROVE Inv'
  <1>. USE DEF Inv, In
  <1>1. syncing /\ \A d \in Cpu : state[d] \in Holding \cup Syncing => d = c
    BY DEF Synchronized, TypeOK, Syncing
  <1>2. \A d \in Cpu : state[d] \notin Awaited
    BY <1>1 DEF Synchronized, MaskCovers
  <1>3. ASSUME NEW d \in Cpu
        PROVE  \/ d = c /\ state'[d] = "synced"
               \/ d # c /\ state'[d] = state[d] /\ state[d] \notin Waiters
               \/ d # c /\ state'[d] \in {"want", "woken", "started"}
    <2>1. state'[d] = IF d = c THEN "synced" ELSE Released(state)[d]
      BY DEF Synchronized, Released
    <2>2. \/ Released(state)[d] = state[d] /\ state[d] \notin Waiters
          \/ Released(state)[d] \in {"want", "woken", "started"}
      BY DEF Released, Waiters
    <2>. QED
      BY <2>1, <2>2
  <1>4. state' \in [Cpu -> States]
    BY DEF Synchronized, Released, TypeOK, States, Waiting, Stopped, Blocked, Holding
  <1>5. TypeOK'
    BY <1>1, <1>3, <1>4 DEF Synchronized, TypeOK, Holding, Syncing, flags
  <1>6. MaskCovers' /\ WaitersReleased'
    BY <1>1, <1>3 DEF Synchronized, MaskCovers, WaitersReleased, Waiters, Syncing
  <1>7. Exclusive'
    BY <1>2, <1>3 DEF Exclusive, Awaited
  <1>. QED
    BY <1>5, <1>6, <1>7

LEMMA ReleaseKeeps == ASSUME Inv, NEW c \in Cpu, Release(c) PROVE Inv'
  <1>. USE DEF Inv, In
  <1>1. \A d \in Cpu : state'[d] = IF d = c THEN "run" ELSE state[d]
    BY DEF Release, Move, TypeOK
  <1>2. state[c] = "synced" /\ \A d \in Cpu : state[d] \in Holding \cup Syncing => d = c
    BY DEF Release, TypeOK, Holding
  <1>3. ~syncing
    BY <1>2 DEF TypeOK, Syncing
  <1>4. TypeOK'
    BY <1>1, <1>2, <1>3 DEF Release, Move, TypeOK, States, Holding, Syncing, flags, sync
  <1>5. MaskCovers' /\ WaitersReleased' /\ Exclusive'
    BY <1>1, <1>2, <1>3 DEF Release, MaskCovers, WaitersReleased, Exclusive, Holding,
                            Syncing, sync
  <1>. QED
    BY <1>4, <1>5

-----------------------------------------------------------------------------
LEMMA InvNext == Inv /\ [Next]_vars => Inv'
  <1>. SUFFICES ASSUME Inv, [Next]_vars PROVE Inv'
    OBVIOUS
  <1>1. CASE UNCHANGED vars
    BY <1>1 DEF Inv, TypeOK, MaskCovers, WaitersReleased, Exclusive, In, vars, flags, sync
  <1>2. CASE Next
    <2>1. PICK c \in Cpu :
            \/ \E reason \in Reasons : Want(c, reason)
            \/ LockStep(c) \/ Polled(c) \/ Release(c)
            \/ WakeUp(c) \/ StopCpu(c) \/ StartCpu(c)
      BY <1>2 DEF Next
    <2>. QED
      BY <2>1, QuietOwnSteps, QuietStepsOnOthers, YieldKeeps, SynchronizeKeeps, PolledKeeps,
         SynchronizedKeeps, ReleaseKeeps DEF LockStep
  <1>. QED
    BY <1>1, <1>2

LEMMA InvAlways == Spec => []Inv
  BY InvInit, InvNext, PTL DEF Spec

\* Every variable stays in its range, one CPU at most synchronizes the others,
\* and syncing is on exactly while it waits for them.
THEOREM TypeCorrect == Spec => []TypeOK
  <1>1. Inv => TypeOK
    BY DEF Inv
  <1>. QED
    BY <1>1, InvAlways, PTL

\* SYNCHRONIZE_CPUS keeps its promise: when it has returned, and until the CPU
\* releases intlock, no other CPU executes.
THEOREM SynchronizedAlone == Spec => []Exclusive
  <1>1. Inv => Exclusive
    BY DEF Inv
  <1>. QED
    BY <1>1, InvAlways, PTL

\* No CPU waits for the end of a synchronization that is over.
THEOREM NobodyLeftWaiting == Spec => []WaitersReleased
  <1>1. Inv => WaitersReleased
    BY DEF Inv
  <1>. QED
    BY <1>1, InvAlways, PTL
=============================================================================
