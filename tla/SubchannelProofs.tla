--------------------------- MODULE SubchannelProofs ---------------------------
(* For any number of CPUs and device threads, any ORBs and channel programs  *)
(* of any length: no queued interrupt is overlooked, no pending status is    *)
(* kept from the guest, and the suspended flag of a device block always has a *)
(* thread behind it.  For a guest that leaves suspended and start pending    *)
(* programs alone, on a device that is not reset and raises no attention:    *)
(* the device is busy with exactly one program, whose ending status stays.   *)
EXTENDS Subchannel, FiniteSetTheorems, TLAPS

\* signal_condition moves at most one thread, out of the wait.
LEMMA SignalMoves ==
    ASSUME TypeOK, SignalResume \/ UNCHANGED pc
    PROVE  /\ pc' \in [Thread -> ChainPc]
           /\ \A t \in Thread : pc[t] \in Updating => pc'[t] = pc[t]
           /\ \A t \in Thread : pc[t] \in {"wait", "woken"} => pc'[t] \in {"wait", "woken"}
           /\ \A t \in Thread : pc[t] # "wait" => pc'[t] = pc[t]
  <1>1. CASE UNCHANGED pc
    BY <1>1 DEF TypeOK
  <1>2. CASE \E t \in Thread : pc[t] = "wait" /\ pc' = [pc EXCEPT ![t] = "woken"]
    <2>1. PICK t \in Thread : pc[t] = "wait" /\ pc' = [pc EXCEPT ![t] = "woken"]
      BY <1>2
    <2>. QED
      BY <2>1 DEF TypeOK, ChainPc, Updating
  <1>. QED
    BY <1>1, <1>2 DEF SignalResume

-----------------------------------------------------------------------------
(* Types.                                                                    *)

LEMMA TypeInit == Init => TypeOK
  <1>. SUFFICES ASSUME Init PROVE TypeOK
    OBVIOUS
  <1>1. scsw \in Scsw /\ dev \in DevBlk
    BY DEF Init, ZeroScsw, NoOrb, Scsw, IdleDev, DevBlk
  <1>2. pc \in [Thread -> ChainPc] /\ left \in [Thread -> 0 .. MaxCcw]
    BY SubchannelAssumption DEF Init, ChainPc
  <1>3. saved \in [Thread -> [fc : SUBSET Functions, ac : SUBSET Activities]]
    BY DEF Init, Nothing
  <1>4. cpu \in [Cpu -> {"run", "queue", "update"}] /\ queued \in 0 .. 2
    BY DEF Init
  <1>. QED
    BY <1>1, <1>2, <1>3, <1>4 DEF Init, TypeOK

\* The CPUs' instructions.
LEMMA CpuTypes ==
    ASSUME TypeOK, NEW c \in Cpu,
           \/ StartSubchannel(c) \/ QueueRequest(c) \/ CancelSubchannel(c)
           \/ TestSubchannel(c) \/ ClearSubchannel(c) \/ HaltSubchannel(c)
           \/ ResumeSubchannel(c) \/ UpdateCpu(c) \/ PresentNothing(c)
           \/ \E i \in Interrupts : PresentInterrupt(c, i)
    PROVE  TypeOK'
  <1>. USE DEF word, inter, chain
  <1>1. scsw \in Scsw /\ dev \in DevBlk /\ cpu \in [Cpu -> {"run", "queue", "update"}]
    BY DEF TypeOK
  <1>2. CASE StartSubchannel(c)
    <2>1. PICK orb \in Orbs :
            scsw' = [ZeroScsw EXCEPT !.fc = {"start"}, !.ac = {"start"}, !.orb = orb]
      BY <1>2 DEF StartSubchannel
    <2>2. orb \in [s : BOOLEAN, i : BOOLEAN, u : BOOLEAN]
      BY SubchannelAssumption
    <2>3. scsw' \in Scsw
      BY <2>1, <2>2 DEF ZeroScsw, Scsw, Functions, Activities
    <2>4. dev' \in DevBlk /\ cpu' \in [Cpu -> {"run", "queue", "update"}]
      BY <1>1, <1>2 DEF StartSubchannel, DevBlk
    <2>. QED
      BY <1>2, <2>3, <2>4 DEF StartSubchannel, TypeOK
  <1>3. CASE QueueRequest(c)
    <2>1. cpu' \in [Cpu -> {"run", "queue", "update"}] /\ queued' \in 0 .. 2
      BY <1>1, <1>3 DEF QueueRequest, TypeOK
    <2>. QED
      BY <1>3, <2>1 DEF QueueRequest, TypeOK
  <1>4. CASE CancelSubchannel(c)
    <2>1. scsw' \in Scsw /\ dev' \in DevBlk
      BY <1>1, <1>4 DEF CancelSubchannel, Scsw, DevBlk
    <2>2. pc' \in [Thread -> ChainPc] /\ queued' \in 0 .. 2
      BY <1>4, SignalMoves DEF CancelSubchannel, SignalIf, AfterRemoval, TypeOK
    <2>. QED
      BY <1>4, <2>1, <2>2 DEF CancelSubchannel, TypeOK
  <1>5. CASE TestSubchannel(c)
    <2>1. ASSUME TestStatus PROVE scsw' \in Scsw
      BY <1>1, <2>1 DEF TestStatus, Scsw
    <2>2. scsw' \in Scsw
      BY <1>1, <1>5, <2>1 DEF TestSubchannel, TestPci, TestAttention, TestNothing
    <2>3. dev' \in DevBlk
      BY <1>1, <1>5 DEF TestSubchannel, TestPci, TestStatus, TestAttention,
                        TestNothing, Dequeued, DevBlk
    <2>4. cpu' \in [Cpu -> {"run", "queue", "update"}]
      BY <1>1, <1>5 DEF TestSubchannel
    <2>5. /\ intq' \in SUBSET Interrupts
          /\ pcipend' \in BOOLEAN /\ attnpend' \in BOOLEAN /\ notified' \in BOOLEAN
      BY <1>5 DEF TestSubchannel, TestPci, TestStatus, TestAttention, TestNothing, TypeOK
    <2>. QED
      BY <1>5, <2>2, <2>3, <2>4, <2>5 DEF TestSubchannel, TypeOK
  <1>6. CASE ClearSubchannel(c)
    <2>1. ASSUME scsw' = [scsw EXCEPT !.fc = @ \cup {"clear"},
                                      !.ac = Resume(@ \cup {"clear"})]
          PROVE  scsw' \in Scsw
      <3>1. Resume(scsw.ac \cup {"clear"}) \in SUBSET Activities
        BY <1>1 DEF Resume, Activities, Scsw
      <3>2. scsw.fc \cup {"clear"} \in SUBSET Functions
        BY <1>1 DEF Scsw, Functions
      <3>. QED
        BY <1>1, <2>1, <3>1, <3>2 DEF Scsw
    <2>2. ASSUME scsw' = [ZeroScsw EXCEPT !.fc = {"clear"}, !.sc = {"pend"}]
          PROVE  scsw' \in Scsw
      BY <2>2 DEF ZeroScsw, NoOrb, Scsw, Functions, Statuses
    <2>3. scsw' \in Scsw
      BY <1>6, <2>1, <2>2 DEF ClearSubchannel
    <2>4. dev' \in DevBlk /\ cpu' \in [Cpu -> {"run", "queue", "update"}]
      <3>1. CASE UNCHANGED dev
        BY <1>1, <1>6, <3>1 DEF ClearSubchannel
      <3>2. CASE dev' = [dev EXCEPT !.flags = (@ \ {"pci"}) \cup {"io"}]
        BY <1>1, <1>6, <3>2 DEF ClearSubchannel, DevBlk, Interrupts
      <3>. QED
        BY <1>6, <3>1, <3>2 DEF ClearSubchannel
    <2>5. intq' \in SUBSET Interrupts /\ notified' \in BOOLEAN
      BY <1>6 DEF ClearSubchannel, QueueIo, Interrupts, TypeOK
    <2>6. pc' \in [Thread -> ChainPc]
      BY <1>6, SignalMoves DEF ClearSubchannel, SignalIf
    <2>. QED
      BY <1>6, <2>3, <2>4, <2>5, <2>6 DEF ClearSubchannel, TypeOK
  <1>7. CASE HaltSubchannel(c)
    <2>1. ASSUME scsw' = [scsw EXCEPT !.fc = @ \cup {"halt"},
                                      !.ac = Resume(@ \cup {"halt"}),
                                      !.sc = @ \ {"pend"}]
          PROVE  scsw' \in Scsw
      <3>1. Resume(scsw.ac \cup {"halt"}) \in SUBSET Activities
        BY <1>1 DEF Resume, Activities, Scsw
      <3>2. scsw.fc \cup {"halt"} \in SUBSET Functions
        BY <1>1 DEF Scsw, Functions
      <3>3. scsw.sc \ {"pend"} \in SUBSET Statuses
        BY <1>1 DEF Scsw
      <3>. QED
        BY <1>1, <2>1, <3>1, <3>2, <3>3 DEF Scsw
    <2>2. ASSUME scsw' = [scsw EXCEPT !.fc = @ \cup {"halt"}, !.sc = @ \cup {"pend"}]
          PROVE  scsw' \in Scsw
      BY <1>1, <2>2 DEF Scsw, Functions, Statuses
    <2>3. scsw' \in Scsw
      BY <1>7, <2>1, <2>2 DEF HaltSubchannel
    <2>4. dev' \in DevBlk /\ cpu' \in [Cpu -> {"run", "queue", "update"}]
      <3>1. CASE UNCHANGED dev
        BY <1>1, <1>7, <3>1 DEF HaltSubchannel
      <3>2. CASE dev' = [dev EXCEPT !.flags = (@ \ {"pci"}) \cup {"io"}]
        BY <1>1, <1>7, <3>2 DEF HaltSubchannel, DevBlk, Interrupts
      <3>3. CASE dev' = [dev EXCEPT !.flags = {}, !.startpending = FALSE]
        BY <1>1, <1>7, <3>3 DEF HaltSubchannel, DevBlk
      <3>. QED
        BY <1>7, <3>1, <3>2, <3>3 DEF HaltSubchannel
    <2>5. /\ intq' \in SUBSET Interrupts /\ notified' \in BOOLEAN
          /\ queued' \in 0 .. 2
      <3>1. intq' \in SUBSET Interrupts /\ notified' \in BOOLEAN
        BY <1>7 DEF HaltSubchannel, QueueIo, Interrupts, TypeOK
      <3>2. queued' \in 0 .. 2
        <4>1. queued' \in {queued, AfterRemoval}
          BY <1>7 DEF HaltSubchannel
        <4>. QED
          BY <4>1 DEF AfterRemoval, TypeOK
      <3>. QED
        BY <3>1, <3>2
    <2>6. pc' \in [Thread -> ChainPc]
      BY <1>7, SignalMoves DEF HaltSubchannel, SignalIf
    <2>. QED
      BY <1>7, <2>3, <2>4, <2>5, <2>6 DEF HaltSubchannel, TypeOK
  <1>8. CASE ResumeSubchannel(c)
    <2>1. scsw' \in Scsw
      BY <1>1, <1>8 DEF ResumeSubchannel, Scsw, Activities
    <2>2. pc' \in [Thread -> ChainPc]
      BY <1>8, SignalMoves DEF ResumeSubchannel
    <2>. QED
      BY <1>8, <2>1, <2>2 DEF ResumeSubchannel, TypeOK
  <1>9. CASE UpdateCpu(c)
    <2>1. cpu' \in [Cpu -> {"run", "queue", "update"}]
      BY <1>1, <1>9 DEF UpdateCpu
    <2>. QED
      BY <1>9, <2>1 DEF UpdateCpu, TypeOK
  <1>10. CASE PresentNothing(c)
    BY <1>10 DEF PresentNothing, TypeOK
  <1>11. CASE \E i \in Interrupts : PresentInterrupt(c, i)
    <2>1. dev' \in DevBlk
      BY <1>1, <1>11 DEF PresentInterrupt, DevBlk
    <2>2. /\ intq' \in SUBSET Interrupts
          /\ iopending' \in BOOLEAN /\ notified' \in BOOLEAN
      BY <1>11 DEF PresentInterrupt, Pending, TypeOK
    <2>. QED
      BY <1>11, <2>1, <2>2 DEF PresentInterrupt, TypeOK
  <1>. QED
    BY <1>2, <1>3, <1>4, <1>5, <1>6, <1>7, <1>8, <1>9, <1>10, <1>11

\* Reset and the device's own thread.
LEMMA DeviceTypes ==
    ASSUME TypeOK, ResetDevice \/ Attention \/ UpdateAttention
    PROVE  TypeOK'
  <1>. USE DEF word, inter, chain
  <1>1. scsw \in Scsw /\ dev \in DevBlk
    BY DEF TypeOK
  <1>2. CASE ResetDevice
    <2>1. scsw' \in Scsw /\ dev' \in DevBlk
      BY <1>2 DEF ResetDevice, ZeroScsw, NoOrb, Scsw, IdleDev, DevBlk
    <2>2. pc' \in [Thread -> ChainPc]
      BY <1>2, SignalMoves DEF ResetDevice, SignalIf
    <2>. QED
      BY <1>2, <2>1, <2>2 DEF ResetDevice, TypeOK
  <1>3. CASE Attention
    <2>1. scsw' \in Scsw /\ dev' \in DevBlk
      <3>1. CASE scsw' = [scsw EXCEPT !.sc = @ \cup {"alert", "pend"},
                                      !.ac = @ \cup {"resume"}] /\ UNCHANGED dev
        BY <1>1, <3>1 DEF Scsw, Activities, Statuses
      <3>2. CASE UNCHANGED scsw /\ dev' = [dev EXCEPT !.flags = {"attn"}]
        BY <1>1, <3>2 DEF DevBlk, Interrupts
      <3>. QED
        BY <1>3, <3>1, <3>2 DEF Attention
    <2>2. pc' \in [Thread -> ChainPc]
      BY <1>3, SignalMoves DEF Attention
    <2>3. /\ intq' \in SUBSET Interrupts
          /\ attnpend' \in BOOLEAN /\ attnupd' \in BOOLEAN
      BY <1>3 DEF Attention, Interrupts, TypeOK
    <2>. QED
      BY <1>3, <2>1, <2>2, <2>3 DEF Attention, TypeOK
  <1>4. CASE UpdateAttention
    BY <1>4 DEF UpdateAttention, TypeOK
  <1>. QED
    BY <1>2, <1>3, <1>4

\* A program that goes on after its suspension.
LEMMA ResumedTypes ==
    ASSUME TypeOK, NEW t \in Thread, Resumed(t)
    PROVE  scsw' \in Scsw /\ dev' \in DevBlk
  <1>1. scsw \in Scsw /\ dev \in DevBlk
    BY DEF TypeOK
  <1>2. scsw' \in Scsw
    BY <1>1 DEF Resumed, Scsw
  <1>3. dev' \in DevBlk
    BY <1>1 DEF Resumed, DevBlk
  <1>. QED
    BY <1>2, <1>3

\* execute_ccw_chain.
LEMMA ChainTypes ==
    ASSUME TypeOK, NEW t \in Thread, ChainStep(t)
    PROVE  TypeOK'
  <1>. USE DEF word, inter, chain, Goto
  <1>1. /\ scsw \in Scsw /\ dev \in DevBlk
        /\ pc \in [Thread -> ChainPc] /\ left \in [Thread -> 0 .. MaxCcw]
        /\ saved \in [Thread -> [fc : SUBSET Functions, ac : SUBSET Activities]]
    BY DEF TypeOK
  <1>2. CASE TakeRequest(t)
    <2>1. pc' \in [Thread -> ChainPc] /\ queued' \in 0 .. 2
      BY <1>1, <1>2 DEF TakeRequest, AfterRemoval, ChainPc, TypeOK
    <2>. QED
      BY <1>2, <2>1 DEF TakeRequest, TypeOK
  <1>3. CASE BeginChain(t)
    <2>1. pc' \in [Thread -> ChainPc] /\ dev' \in DevBlk
      BY <1>1, <1>3 DEF BeginChain, ChainPc, DevBlk
    <2>. QED
      BY <1>3, <2>1 DEF BeginChain, TypeOK
  <1>4. CASE ReadFlag2(t)
    <2>1. pc' \in [Thread -> ChainPc]
      BY <1>1, <1>4 DEF ReadFlag2, ChainPc
    <2>2. saved' \in [Thread -> [fc : SUBSET Functions, ac : SUBSET Activities]]
      BY <1>1, <1>4 DEF ReadFlag2, Scsw
    <2>. QED
      BY <1>4, <2>1, <2>2 DEF ReadFlag2, TypeOK
  <1>5. CASE WriteFlag2(t)
    <2>1. pc' \in [Thread -> ChainPc]
      BY <1>1, <1>5 DEF WriteFlag2, ChainPc
    <2>2. scsw' \in Scsw
      BY <1>1, <1>5 DEF WriteFlag2, Scsw
    <2>3. saved' \in [Thread -> [fc : SUBSET Functions, ac : SUBSET Activities]]
      BY <1>1, <1>5 DEF WriteFlag2, Nothing
    <2>4. left' \in [Thread -> 0 .. MaxCcw]
      BY <1>1, <1>5, SubchannelAssumption DEF WriteFlag2
    <2>. QED
      BY <1>5, <2>1, <2>2, <2>3, <2>4 DEF WriteFlag2, TypeOK
  <1>6. CASE InitialStatus(t)
    <2>1. pc' \in [Thread -> ChainPc] /\ intq' \in SUBSET Interrupts
      BY <1>1, <1>6 DEF InitialStatus, QueueIo, ChainPc, Updating, Interrupts, TypeOK
    <2>2. scsw' \in Scsw /\ dev' \in DevBlk
      BY <1>1, <1>6 DEF InitialStatus, Scsw, DevBlk, Statuses, Interrupts
    <2>. QED
      BY <1>6, <2>1, <2>2 DEF InitialStatus, QueueIo, TypeOK
  <1>7. CASE TestRequests(t)
    <2>1. pc' \in [Thread -> ChainPc]
      BY <1>1, <1>7 DEF TestRequests, ChainPc
    <2>. QED
      BY <1>7, <2>1 DEF TestRequests, TypeOK
  <1>8. CASE ExecuteCcw(t)
    <2>1. pc' \in [Thread -> ChainPc]
      BY <1>1, <1>8 DEF ExecuteCcw, AfterCcw, ChainPc
    <2>2. left' \in [Thread -> 0 .. MaxCcw]
      <3>1. UNCHANGED left \/ (left[t] > 0 /\ left' = [left EXCEPT ![t] = @ - 1])
        BY <1>8 DEF ExecuteCcw, AfterCcw
      <3>. QED
        BY <1>1, <3>1, SubchannelAssumption
    <2>. QED
      BY <1>8, <2>1, <2>2 DEF ExecuteCcw, TypeOK
  <1>9. CASE RaisePci(t)
    <2>1. pc' \in [Thread -> ChainPc] /\ intq' \in SUBSET Interrupts
      BY <1>1, <1>9 DEF RaisePci, ChainPc, Updating, Interrupts, TypeOK
    <2>2. dev' \in DevBlk
      BY <1>1, <1>9 DEF RaisePci, DevBlk, Interrupts
    <2>. QED
      BY <1>9, <2>1, <2>2 DEF RaisePci, TypeOK
  <1>10. CASE SuspendProgram(t)
    <2>1. pc' \in [Thread -> ChainPc]
      BY <1>1, <1>10 DEF SuspendProgram, ChainPc, Updating
    <2>2. intq' \in SUBSET Interrupts /\ notified' \in BOOLEAN
      BY <1>10 DEF SuspendProgram, QueueIo, Interrupts, TypeOK
    <2>3. scsw' \in Scsw
      <3>1. \/ scsw' = [scsw EXCEPT !.ac = @ \ {"resume"}]
            \/ scsw' = [scsw EXCEPT !.susp = TRUE, !.sc = {"inter", "pend"}]
        BY <1>10 DEF SuspendProgram
      <3>2. [scsw EXCEPT !.ac = @ \ {"resume"}] \in Scsw
        BY <1>1 DEF Scsw
      <3>3. [scsw EXCEPT !.susp = TRUE, !.sc = {"inter", "pend"}] \in Scsw
        BY <1>1 DEF Scsw, Statuses
      <3>. QED
        BY <3>1, <3>2, <3>3
    <2>4. dev' \in DevBlk
      <3>1. \/ UNCHANGED dev
            \/ dev' = [dev EXCEPT !.flags = @ \cup {"io"}]
            \/ dev' = [dev EXCEPT !.local = FALSE, !.suspended = TRUE]
        BY <1>10 DEF SuspendProgram
      <3>2. [dev EXCEPT !.flags = @ \cup {"io"}] \in DevBlk
        BY <1>1 DEF DevBlk, Interrupts
      <3>3. [dev EXCEPT !.local = FALSE, !.suspended = TRUE] \in DevBlk
        BY <1>1 DEF DevBlk
      <3>. QED
        BY <1>1, <3>1, <3>2, <3>3
    <2>. QED
      BY <1>10, <2>1, <2>2, <2>3, <2>4 DEF SuspendProgram, TypeOK
  <1>11. CASE EnterSuspension(t)
    <2>1. pc' \in [Thread -> ChainPc]
      BY <1>1, <1>11 DEF EnterSuspension, Resumed, ChainPc
    <2>2. scsw' \in Scsw
      BY <1>1, <1>11, ResumedTypes DEF EnterSuspension
    <2>3. dev' \in DevBlk
      <3>1. Resumed(t) \/ dev' = [dev EXCEPT !.local = FALSE, !.suspended = TRUE]
        BY <1>11 DEF EnterSuspension
      <3>2. [dev EXCEPT !.local = FALSE, !.suspended = TRUE] \in DevBlk
        BY <1>1 DEF DevBlk
      <3>. QED
        BY <3>1, <3>2, ResumedTypes
    <2>. QED
      BY <1>11, <2>1, <2>2, <2>3 DEF EnterSuspension, TypeOK
  <1>12. CASE LeaveSuspension(t)
    <2>1. pc' \in [Thread -> ChainPc]
      BY <1>1, <1>12 DEF LeaveSuspension, Resumed, ChainPc
    <2>2. scsw' \in Scsw
      BY <1>1, <1>12, ResumedTypes DEF LeaveSuspension
    <2>3. dev' \in DevBlk
      <3>1. \/ Resumed(t) \/ UNCHANGED dev
            \/ dev' = [dev EXCEPT !.busy = @ /\ ~dev.local, !.local = FALSE]
        BY <1>12 DEF LeaveSuspension
      <3>2. [dev EXCEPT !.busy = @ /\ ~dev.local, !.local = FALSE] \in DevBlk
        BY <1>1 DEF DevBlk
      <3>. QED
        BY <1>1, <3>1, <3>2, ResumedTypes
    <2>. QED
      BY <1>12, <2>1, <2>2, <2>3 DEF LeaveSuspension, TypeOK
  <1>13. ASSUME NEW place, NEW newscsw \in Scsw, NEW flags \in SUBSET Interrupts,
                EndWith(t, place, newscsw, flags), intq' \in SUBSET Interrupts
         PROVE  TypeOK'
    <2>1. pc' \in [Thread -> ChainPc]
      BY <1>1, <1>13 DEF EndWith, ChainPc, Updating
    <2>3. left' \in [Thread -> 0 .. MaxCcw]
      <3>1. left' = [left EXCEPT ![t] = 0]
        BY <1>13 DEF EndWith
      <3>2. 0 \in 0 .. MaxCcw
        BY SubchannelAssumption
      <3>. QED
        BY <1>1, <3>1, <3>2
    <2>2. dev' \in DevBlk
      BY <1>1, <1>13 DEF EndWith, DevBlk, Interrupts
    <2>. QED
      BY <1>13, <2>1, <2>2, <2>3 DEF EndWith, TypeOK
  <1>14. dev.flags \in SUBSET Interrupts /\ dev.flags \ {"pci"} \in SUBSET Interrupts
    BY <1>1 DEF DevBlk
  <1>15. intq \cup {"io"} \in SUBSET Interrupts
         /\ (intq \ {"pci"}) \cup {"io"} \in SUBSET Interrupts
    BY DEF TypeOK, Interrupts
  <1>16. CASE FinalStatus(t)
    <2>1. PICK unusual \in {{}, {"alert"}} :
            EndWith(t, "final",
              [scsw EXCEPT !.sc = @ \cup {"pri", "sec", "pend"} \cup unusual], dev.flags)
      BY <1>16 DEF FinalStatus
    <2>2. [scsw EXCEPT !.sc = @ \cup {"pri", "sec", "pend"} \cup unusual] \in Scsw
      BY <1>1 DEF Scsw, Statuses
    <2>. QED
      BY <1>13, <1>14, <1>15, <1>16, <2>1, <2>2 DEF FinalStatus
  <1>17. CASE CompleteAttention(t)
    BY <1>1, <1>13, <1>14, <1>15, <1>17 DEF CompleteAttention
  <1>18. CASE CompleteClear(t)
    <2>1. [ZeroScsw EXCEPT !.fc = scsw.fc \cap {"clear"}, !.sc = {"pend"}] \in Scsw
      BY DEF ZeroScsw, NoOrb, Scsw, Functions, Statuses
    <2>. QED
      BY <1>13, <1>14, <1>15, <1>18, <2>1 DEF CompleteClear
  <1>19. CASE CompleteHalt(t)
    <2>1. [scsw EXCEPT !.ac = @ \ {"halt"}, !.sc = @ \cup {"pend"}] \in Scsw
      BY <1>1 DEF Scsw, Statuses
    <2>. QED
      BY <1>13, <1>14, <1>15, <1>19, <2>1 DEF CompleteHalt
  <1>20. CASE UpdateThread(t)
    <2>1. pc' \in [Thread -> ChainPc]
      BY <1>1, <1>20 DEF UpdateThread, AfterUpdate, ChainPc, Updating
    <2>. QED
      BY <1>20, <2>1 DEF UpdateThread, TypeOK
  <1>. QED
    BY <1>2, <1>3, <1>4, <1>5, <1>6, <1>7, <1>8, <1>9, <1>10, <1>11, <1>12,
       <1>16, <1>17, <1>18, <1>19, <1>20 DEF ChainStep

LEMMA TypeStep == TypeOK /\ [Next]_vars => TypeOK'
  <1>. SUFFICES ASSUME TypeOK, [Next]_vars PROVE TypeOK'
    OBVIOUS
  <1>1. CASE UNCHANGED vars
    BY <1>1 DEF TypeOK, vars, word, inter, chain
  <1>2. CASE ResetDevice \/ Attention \/ UpdateAttention
    BY <1>2, DeviceTypes
  <1>3. CASE \E t \in Thread : ChainStep(t)
    BY <1>3, ChainTypes
  <1>4. ASSUME NEW c \in Cpu,
               \/ StartSubchannel(c) \/ QueueRequest(c) \/ CancelSubchannel(c)
               \/ TestSubchannel(c) \/ ClearSubchannel(c) \/ HaltSubchannel(c)
               \/ ResumeSubchannel(c) \/ UpdateCpu(c) \/ PresentNothing(c)
               \/ \E i \in Interrupts : PresentInterrupt(c, i)
        PROVE  TypeOK'
    BY <1>4, CpuTypes
  <1>. QED
    BY <1>1, <1>2, <1>3, <1>4 DEF Next

\* The status word, the device block, the queues, the CPUs and the threads
\* keep their types, the number of CCWs left and of queued requests included.
THEOREM TypeCorrect == Spec => []TypeOK
  BY TypeInit, TypeStep, PTL DEF Spec

-----------------------------------------------------------------------------
(* Interrupts.  A step is harmless if it queues nothing, leaves the flag on  *)
(* and ends no update; any other step announces an update or completes one.  *)

Harmless == /\ intq' \subseteq intq /\ iopending' = iopending
            /\ attnupd => attnupd'
            /\ \A c \in Cpu : cpu[c] = "update" => cpu'[c] = "update"
            /\ \A t \in Thread : pc[t] \in Updating => pc'[t] \in Updating

Announced == Updaters' \/ iopending' = (intq' # {})

LEMMA InterruptKept ==
    ASSUME InterruptSeen, Harmless \/ Announced
    PROVE  InterruptSeen'
  <1>1. CASE Harmless
    BY <1>1 DEF InterruptSeen, Harmless, Updaters
  <1>2. CASE Announced
    BY <1>2 DEF InterruptSeen, Announced
  <1>. QED
    BY <1>1, <1>2

LEMMA CpuInterrupts ==
    ASSUME TypeOK, NEW c \in Cpu,
           \/ StartSubchannel(c) \/ QueueRequest(c) \/ CancelSubchannel(c)
           \/ TestSubchannel(c) \/ ClearSubchannel(c) \/ HaltSubchannel(c)
           \/ ResumeSubchannel(c) \/ UpdateCpu(c) \/ PresentNothing(c)
           \/ \E i \in Interrupts : PresentInterrupt(c, i)
    PROVE  Harmless \/ Announced
  <1>. USE DEF inter, chain
  <1>1. cpu \in [Cpu -> {"run", "queue", "update"}] /\ pc \in [Thread -> ChainPc]
    BY DEF TypeOK
  <1>2. CASE StartSubchannel(c)
    BY <1>1, <1>2 DEF StartSubchannel, Harmless
  <1>3. CASE QueueRequest(c)
    BY <1>1, <1>3 DEF QueueRequest, Harmless
  <1>4. CASE CancelSubchannel(c)
    BY <1>1, <1>4, SignalMoves DEF CancelSubchannel, SignalIf, Harmless
  <1>5. CASE TestSubchannel(c)
    <2>1. cpu'[c] = "update"
      BY <1>1, <1>5 DEF TestSubchannel
    <2>. QED
      BY <2>1 DEF Announced, Updaters
  <1>6. CASE ClearSubchannel(c)
    <2>1. CASE ActiveLocal
      BY <1>1, <1>6, <2>1, SignalMoves DEF ClearSubchannel, SignalIf, Harmless
    <2>2. CASE ~ActiveLocal
      <3>1. cpu'[c] = "update"
        BY <1>1, <1>6, <2>2 DEF ClearSubchannel
      <3>. QED
        BY <3>1 DEF Announced, Updaters
    <2>. QED
      BY <2>1, <2>2
  <1>7. CASE HaltSubchannel(c)
    <2>1. CASE ActiveLocal \/ dev.suspended
      <3>1. UNCHANGED <<inter, cpu, attnupd>> /\ SignalIf(scsw.susp)
        BY <1>7, <2>1 DEF HaltSubchannel
      <3>. QED
        BY <1>1, <3>1, SignalMoves DEF SignalIf, Harmless
    <2>2. CASE ~(ActiveLocal \/ dev.suspended)
      <3>1. cpu'[c] = "update"
        BY <1>1, <1>7, <2>2 DEF HaltSubchannel
      <3>. QED
        BY <3>1 DEF Announced, Updaters
    <2>. QED
      BY <2>1, <2>2
  <1>8. CASE ResumeSubchannel(c)
    BY <1>1, <1>8, SignalMoves DEF ResumeSubchannel, Harmless
  <1>9. CASE UpdateCpu(c)
    BY <1>9 DEF UpdateCpu, Announced
  <1>10. CASE PresentNothing(c)
    BY <1>10 DEF PresentNothing, Announced
  <1>11. CASE \E i \in Interrupts : PresentInterrupt(c, i)
    BY <1>11 DEF PresentInterrupt, Announced
  <1>. QED
    BY <1>2, <1>3, <1>4, <1>5, <1>6, <1>7, <1>8, <1>9, <1>10, <1>11

\* Reset empties the queue and leaves the flag: it may stay on for nothing.
LEMMA DeviceInterrupts ==
    ASSUME TypeOK, ResetDevice \/ Attention \/ UpdateAttention
    PROVE  Harmless \/ Announced
  <1>. USE DEF inter, chain
  <1>1. CASE ResetDevice
    BY <1>1, SignalMoves DEF ResetDevice, SignalIf, Harmless
  <1>2. CASE Attention
    <2>1. CASE UNCHANGED <<attnpend, dev, intq, attnupd>> /\ SignalResume
      BY <1>2, <2>1, SignalMoves DEF Attention, Harmless
    <2>2. CASE attnupd'
      BY <2>2 DEF Announced, Updaters
    <2>. QED
      BY <1>2, <2>1, <2>2 DEF Attention
  <1>3. CASE UpdateAttention
    BY <1>3 DEF UpdateAttention, Announced
  <1>. QED
    BY <1>1, <1>2, <1>3

\* A thread that queues an interrupt goes to the update before anything else.
LEMMA ChainInterrupts ==
    ASSUME TypeOK, NEW t \in Thread, ChainStep(t)
    PROVE  Harmless \/ Announced
  <1>. USE DEF inter, chain, Goto
  <1>1. pc \in [Thread -> ChainPc]
    BY DEF TypeOK
  <1>2. ASSUME pc'[t] \in Updating PROVE Announced
    BY <1>2 DEF Announced, Updaters
  <1>3. ASSUME pc[t] \notin Updating, NEW next, pc' = [pc EXCEPT ![t] = next],
               UNCHANGED <<intq, iopending, cpu, attnupd>>
        PROVE  Harmless
    BY <1>1, <1>3 DEF Harmless
  <1>4. CASE TakeRequest(t)
    BY <1>3, <1>4 DEF TakeRequest, Updating
  <1>5. CASE BeginChain(t)
    BY <1>3, <1>5 DEF BeginChain, Updating
  <1>6. CASE ReadFlag2(t)
    BY <1>3, <1>6 DEF ReadFlag2, Updating
  <1>7. CASE WriteFlag2(t)
    BY <1>3, <1>7 DEF WriteFlag2, Updating
  <1>8. CASE InitialStatus(t)
    BY <1>1, <1>2, <1>8 DEF InitialStatus, Updating
  <1>9. CASE TestRequests(t)
    BY <1>3, <1>9 DEF TestRequests, Updating
  <1>10. CASE ExecuteCcw(t)
    <2>1. \E next : pc' = [pc EXCEPT ![t] = next]
      BY <1>10 DEF ExecuteCcw, AfterCcw
    <2>. QED
      BY <1>3, <1>10, <2>1 DEF ExecuteCcw, Updating
  <1>11. CASE RaisePci(t)
    BY <1>1, <1>2, <1>11 DEF RaisePci, Updating
  <1>12. CASE SuspendProgram(t)
    <2>1. \/ pc' = [pc EXCEPT ![t] = "loop"] /\ UNCHANGED intq
          \/ pc' = [pc EXCEPT ![t] = "wait"] /\ UNCHANGED intq
          \/ pc' = [pc EXCEPT ![t] = "suspend update"]
      BY <1>12 DEF SuspendProgram
    <2>2. pc[t] \notin Updating /\ UNCHANGED <<iopending, cpu, attnupd>>
      BY <1>12 DEF SuspendProgram, Updating
    <2>3. CASE pc' = [pc EXCEPT ![t] = "suspend update"]
      BY <1>1, <1>2, <2>3 DEF Updating
    <2>. QED
      BY <1>3, <2>1, <2>2, <2>3
  <1>13. CASE EnterSuspension(t)
    BY <1>3, <1>13 DEF EnterSuspension, Resumed, Updating
  <1>14. CASE LeaveSuspension(t)
    BY <1>3, <1>14 DEF LeaveSuspension, Resumed, Updating
  <1>15. CASE FinalStatus(t) \/ CompleteAttention(t) \/ CompleteClear(t) \/ CompleteHalt(t)
    <2>1. pc' = [pc EXCEPT ![t] = "end update"]
      BY <1>15 DEF FinalStatus, CompleteAttention, CompleteClear, CompleteHalt, EndWith
    <2>. QED
      BY <1>1, <1>2, <2>1 DEF Updating
  <1>16. CASE UpdateThread(t)
    BY <1>16 DEF UpdateThread, Announced
  <1>. QED
    BY <1>4, <1>5, <1>6, <1>7, <1>8, <1>9, <1>10, <1>11, <1>12, <1>13, <1>14,
       <1>15, <1>16 DEF ChainStep

LEMMA InterruptStep == TypeOK /\ InterruptSeen /\ [Next]_vars => InterruptSeen'
  <1>. SUFFICES ASSUME TypeOK, InterruptSeen, [Next]_vars PROVE InterruptSeen'
    OBVIOUS
  <1>1. CASE UNCHANGED vars
    BY <1>1 DEF InterruptSeen, Updaters, vars, inter, chain
  <1>2. CASE ResetDevice \/ Attention \/ UpdateAttention
    BY <1>2, DeviceInterrupts, InterruptKept
  <1>3. CASE \E t \in Thread : ChainStep(t)
    BY <1>3, ChainInterrupts, InterruptKept
  <1>4. ASSUME NEW c \in Cpu,
               \/ StartSubchannel(c) \/ QueueRequest(c) \/ CancelSubchannel(c)
               \/ TestSubchannel(c) \/ ClearSubchannel(c) \/ HaltSubchannel(c)
               \/ ResumeSubchannel(c) \/ UpdateCpu(c) \/ PresentNothing(c)
               \/ \E i \in Interrupts : PresentInterrupt(c, i)
        PROVE  InterruptSeen'
    BY <1>4, CpuInterrupts, InterruptKept
  <1>. QED
    BY <1>1, <1>2, <1>3, <1>4 DEF Next

\* No interrupt is overlooked: every place that queues an interrupt and then
\* gives up dev->lock goes on to UPDATE_IC_IOPENDING, and that recomputes the
\* flag from the queue, so updates that overtake each other do no harm.
THEOREM NoInterruptOverlooked == Spec => []InterruptSeen
  <1>1. Init => InterruptSeen
    BY DEF Init, InterruptSeen
  <1>. QED
    BY <1>1, TypeCorrect, InterruptStep, PTL DEF Spec

-----------------------------------------------------------------------------
(* Suspension.                                                               *)

Asleep == {"wait", "woken"}

\* Most steps neither set dev.suspended nor move a suspended program's thread.
LEMMA SuspensionKept ==
    ASSUME SuspendedHasThread, dev'.suspended => dev.suspended,
           \A t \in Thread : pc[t] \in Asleep => pc'[t] \in Asleep
    PROVE  SuspendedHasThread'
  BY DEF SuspendedHasThread, Asleep

LEMMA CpuSuspension ==
    ASSUME TypeOK, NEW c \in Cpu,
           \/ StartSubchannel(c) \/ QueueRequest(c) \/ CancelSubchannel(c)
           \/ TestSubchannel(c) \/ ClearSubchannel(c) \/ HaltSubchannel(c)
           \/ ResumeSubchannel(c) \/ UpdateCpu(c) \/ PresentNothing(c)
           \/ \E i \in Interrupts : PresentInterrupt(c, i)
    PROVE  /\ dev'.suspended => dev.suspended
           /\ SignalResume \/ UNCHANGED pc
  <1>. USE DEF word, inter, chain
  <1>1. dev \in DevBlk
    BY DEF TypeOK
  <1>2. CASE StartSubchannel(c)
    BY <1>1, <1>2 DEF StartSubchannel, DevBlk
  <1>3. CASE QueueRequest(c) \/ UpdateCpu(c) \/ PresentNothing(c)
    BY <1>3 DEF QueueRequest, UpdateCpu, PresentNothing
  <1>4. CASE CancelSubchannel(c)
    BY <1>1, <1>4 DEF CancelSubchannel, SignalIf, DevBlk
  <1>5. CASE TestSubchannel(c)
    BY <1>1, <1>5 DEF TestSubchannel, TestPci, TestStatus, TestAttention,
                      TestNothing, DevBlk
  <1>6. CASE ClearSubchannel(c)
    BY <1>1, <1>6 DEF ClearSubchannel, SignalIf, DevBlk
  <1>7. CASE HaltSubchannel(c)
    <2>1. SignalResume \/ UNCHANGED pc
      BY <1>7 DEF HaltSubchannel, SignalIf
    <2>2. \/ dev' = [dev EXCEPT !.flags = {}, !.startpending = FALSE]
          \/ dev' = [dev EXCEPT !.flags = (@ \ {"pci"}) \cup {"io"}]
      BY <1>7 DEF HaltSubchannel
    <2>. QED
      BY <1>1, <2>1, <2>2 DEF DevBlk
  <1>8. CASE ResumeSubchannel(c)
    BY <1>8 DEF ResumeSubchannel
  <1>9. CASE \E i \in Interrupts : PresentInterrupt(c, i)
    BY <1>1, <1>9 DEF PresentInterrupt, DevBlk
  <1>. QED
    BY <1>2, <1>3, <1>4, <1>5, <1>6, <1>7, <1>8, <1>9

LEMMA DeviceSuspension ==
    ASSUME TypeOK, ResetDevice \/ Attention \/ UpdateAttention
    PROVE  /\ dev'.suspended => dev.suspended
           /\ SignalResume \/ UNCHANGED pc
  <1>. USE DEF word, inter, chain
  <1>1. dev \in DevBlk
    BY DEF TypeOK
  <1>2. CASE ResetDevice
    BY <1>2 DEF ResetDevice, SignalIf, IdleDev
  <1>3. CASE Attention
    BY <1>1, <1>3 DEF Attention, DevBlk
  <1>4. CASE UpdateAttention
    BY <1>4 DEF UpdateAttention
  <1>. QED
    BY <1>2, <1>3, <1>4

\* A thread turns the flag on as it goes to wait; the one that leaves the wait
\* for good has turned it off, or found it off.
LEMMA ChainSuspension ==
    ASSUME TypeOK, SuspendedHasThread, NEW t \in Thread, ChainStep(t)
    PROVE  SuspendedHasThread'
  <1>. USE DEF word, inter, chain, Goto
  <1>1. pc \in [Thread -> ChainPc] /\ dev \in DevBlk
    BY DEF TypeOK
  <1>2. ASSUME pc'[t] \in Asleep PROVE SuspendedHasThread'
    BY <1>2 DEF SuspendedHasThread, Asleep
  <1>3. ASSUME ~dev'.suspended PROVE SuspendedHasThread'
    BY <1>3 DEF SuspendedHasThread
  <1>4. ASSUME pc[t] \notin Asleep, NEW next, pc' = [pc EXCEPT ![t] = next],
               dev'.suspended = dev.suspended
        PROVE  SuspendedHasThread'
    BY <1>1, <1>4, SuspensionKept
  <1>5. CASE \/ TakeRequest(t) \/ ReadFlag2(t) \/ WriteFlag2(t) \/ TestRequests(t)
             \/ ExecuteCcw(t) \/ UpdateThread(t)
    <2>1. UNCHANGED dev /\ pc[t] \notin Asleep /\ \E next : pc' = [pc EXCEPT ![t] = next]
      BY <1>5 DEF TakeRequest, ReadFlag2, WriteFlag2, TestRequests, ExecuteCcw,
                  AfterCcw, UpdateThread, Updating, Asleep
    <2>. QED
      BY <1>4, <2>1
  <1>6. CASE BeginChain(t) \/ InitialStatus(t) \/ RaisePci(t)
    <2>1. /\ dev'.suspended = dev.suspended /\ pc[t] \notin Asleep
          /\ \E next : pc' = [pc EXCEPT ![t] = next]
      BY <1>1, <1>6 DEF BeginChain, InitialStatus, RaisePci, Asleep, DevBlk
    <2>. QED
      BY <1>4, <2>1
  <1>7. CASE FinalStatus(t) \/ CompleteAttention(t) \/ CompleteClear(t) \/ CompleteHalt(t)
    <2>1. PICK place, newscsw, flags :
            /\ place \in {"final", "attention", "clear", "halt"}
            /\ EndWith(t, place, newscsw, flags)
      BY <1>7 DEF FinalStatus, CompleteAttention, CompleteClear, CompleteHalt
    <2>2. dev'.suspended = dev.suspended /\ pc[t] \notin Asleep
      BY <1>1, <2>1 DEF EndWith, DevBlk, Asleep
    <2>. QED
      BY <1>4, <2>1, <2>2 DEF EndWith
  <1>8. CASE SuspendProgram(t)
    <2>1. pc[t] \notin Asleep
      BY <1>8 DEF SuspendProgram, Asleep
    <2>2. \/ pc' = [pc EXCEPT ![t] = "loop"] /\ UNCHANGED dev
          \/ /\ pc' = [pc EXCEPT ![t] = "suspend update"]
             /\ dev' = [dev EXCEPT !.flags = @ \cup {"io"}]
          \/ pc' = [pc EXCEPT ![t] = "wait"]
      BY <1>8 DEF SuspendProgram
    <2>3. CASE pc' = [pc EXCEPT ![t] = "wait"]
      BY <1>1, <1>2, <2>3 DEF Asleep
    <2>4. CASE pc' = [pc EXCEPT ![t] = "loop"] /\ UNCHANGED dev
      BY <1>4, <2>1, <2>4
    <2>5. CASE /\ pc' = [pc EXCEPT ![t] = "suspend update"]
               /\ dev' = [dev EXCEPT !.flags = @ \cup {"io"}]
      <3>1. dev'.suspended = dev.suspended
        BY <1>1, <2>5 DEF DevBlk
      <3>. QED
        BY <1>4, <2>1, <2>5, <3>1
    <2>. QED
      BY <2>2, <2>3, <2>4, <2>5
  <1>9. CASE EnterSuspension(t)
    <2>1. CASE Resumed(t)
      BY <1>1, <1>3, <2>1 DEF Resumed, DevBlk
    <2>2. CASE pc' = [pc EXCEPT ![t] = "wait"]
      BY <1>1, <1>2, <2>2 DEF Asleep
    <2>. QED
      BY <1>9, <2>1, <2>2 DEF EnterSuspension
  <1>10. CASE LeaveSuspension(t)
    <2>1. CASE Resumed(t)
      BY <1>1, <1>3, <2>1 DEF Resumed, DevBlk
    <2>2. CASE pc' = [pc EXCEPT ![t] = "wait"]
      BY <1>1, <1>2, <2>2 DEF Asleep
    <2>3. CASE ~dev.suspended /\ dev' = [dev EXCEPT !.busy = @ /\ ~dev.local, !.local = FALSE]
      BY <1>1, <1>3, <2>3 DEF DevBlk
    <2>. QED
      BY <1>10, <2>1, <2>2, <2>3 DEF LeaveSuspension
  <1>. QED
    BY <1>5, <1>6, <1>7, <1>8, <1>9, <1>10 DEF ChainStep

LEMMA SuspensionStep == TypeOK /\ SuspendedHasThread /\ [Next]_vars => SuspendedHasThread'
  <1>. SUFFICES ASSUME TypeOK, SuspendedHasThread, [Next]_vars PROVE SuspendedHasThread'
    OBVIOUS
  <1>1. CASE UNCHANGED vars
    BY <1>1 DEF SuspendedHasThread, vars, chain
  <1>2. CASE ResetDevice \/ Attention \/ UpdateAttention
    BY <1>2, DeviceSuspension, SignalMoves, SuspensionKept DEF Asleep
  <1>3. CASE \E t \in Thread : ChainStep(t)
    BY <1>3, ChainSuspension
  <1>4. ASSUME NEW c \in Cpu,
               \/ StartSubchannel(c) \/ QueueRequest(c) \/ CancelSubchannel(c)
               \/ TestSubchannel(c) \/ ClearSubchannel(c) \/ HaltSubchannel(c)
               \/ ResumeSubchannel(c) \/ UpdateCpu(c) \/ PresentNothing(c)
               \/ \E i \in Interrupts : PresentInterrupt(c, i)
        PROVE  SuspendedHasThread'
    BY <1>4, CpuSuspension, SignalMoves, SuspensionKept DEF Asleep
  <1>. QED
    BY <1>1, <1>2, <1>3, <1>4 DEF Next

\* The flag by which HSCH, XSCH and reset recognise a suspended program is on
\* only while a thread is in the wait of that program, or about to leave it.
THEOREM SuspendedIsHeld == Spec => []SuspendedHasThread
  <1>1. Init => SuspendedHasThread
    BY DEF Init, IdleDev, SuspendedHasThread
  <1>. QED
    BY <1>1, TypeCorrect, SuspensionStep, PTL DEF Spec

-----------------------------------------------------------------------------
(* Status.                                                                   *)

\* Status that is pending but neither queued nor presented: the attention of a
\* suspended program, which the program's thread is to find.
Withheld == "alert" \in scsw.sc
            /\ (scsw.susp \/ \E t \in Thread : pc[t] \in {"loop", "attention"})

\* A step that makes no status pending, takes none from the queue that it does
\* not present, and leaves the withheld status to be found.
StatusStays ==
    /\ Pending' => Pending
    /\ Pending /\ ("io" \in intq \/ notified) => "io" \in intq' \/ notified'
    /\ Withheld => Withheld'

Settled == ~Pending' \/ "io" \in intq' \/ notified' \/ Withheld' \/ StatusStays

LEMMA StatusKept == ASSUME StatusReported, Settled PROVE StatusReported'
  BY DEF StatusReported, Settled, StatusStays, Withheld

\* A step that leaves the status and the interrupts alone, and every thread
\* but those in the wait of a suspended program.
LEMMA SignalSettles ==
    ASSUME UNCHANGED inter, scsw'.sc = scsw.sc, scsw'.susp = scsw.susp,
           \A t \in Thread : pc[t] # "wait" => pc'[t] = pc[t]
    PROVE  Settled
  <1>1. Withheld => Withheld'
    <2>1. ASSUME NEW t \in Thread, pc[t] \in {"loop", "attention"}
          PROVE  pc'[t] \in {"loop", "attention"}
      BY <2>1
    <2>. QED
      BY <2>1 DEF Withheld
  <1>. QED
    BY <1>1 DEF Settled, StatusStays, Pending, inter

LEMMA CpuStatus ==
    ASSUME TypeOK, NEW c \in Cpu,
           \/ StartSubchannel(c) \/ QueueRequest(c) \/ CancelSubchannel(c)
           \/ TestSubchannel(c) \/ ClearSubchannel(c) \/ HaltSubchannel(c)
           \/ ResumeSubchannel(c) \/ UpdateCpu(c) \/ PresentNothing(c)
           \/ \E i \in Interrupts : PresentInterrupt(c, i)
    PROVE  Settled
  <1>. USE DEF word, chain
  <1>1. scsw \in Scsw
    BY DEF TypeOK
  <1>2. CASE StartSubchannel(c)
    BY <1>2 DEF StartSubchannel, ZeroScsw, Pending, Settled
  <1>3. CASE QueueRequest(c)
    BY <1>3, SignalSettles DEF QueueRequest
  <1>4. CASE CancelSubchannel(c)
    BY <1>1, <1>4 DEF CancelSubchannel, AnyPending, Pending, Settled, Scsw
  <1>5. CASE TestSubchannel(c)
    <2>1. CASE TestStatus
      BY <1>1, <2>1 DEF TestStatus, Pending, Settled, Scsw
    <2>2. CASE TestNothing
      BY <2>2 DEF TestNothing, AnyPending, Pending, Settled
    <2>3. CASE TestPci \/ TestAttention
      BY <1>5, <2>3 DEF TestSubchannel, TestPci, TestAttention, Pending, Settled,
                        StatusStays, Withheld
    <2>. QED
      BY <1>5, <2>1, <2>2, <2>3 DEF TestSubchannel
  <1>6. CASE ClearSubchannel(c)
    <2>1. CASE ActiveLocal
      <3>1. scsw'.sc = scsw.sc /\ scsw'.susp = scsw.susp /\ UNCHANGED inter
        BY <1>1, <1>6, <2>1 DEF ClearSubchannel, Scsw, inter
      <3>2. SignalResume \/ UNCHANGED pc
        BY <1>6, <2>1 DEF ClearSubchannel, SignalIf
      <3>. QED
        BY <3>1, <3>2, SignalMoves, SignalSettles
    <2>2. CASE ~ActiveLocal
      BY <1>6, <2>2 DEF ClearSubchannel, QueueIo, Settled
    <2>. QED
      BY <2>1, <2>2
  <1>7. CASE HaltSubchannel(c)
    <2>1. CASE ActiveLocal \/ dev.suspended
      <3>1. scsw' = [scsw EXCEPT !.fc = @ \cup {"halt"},
                                 !.ac = Resume(@ \cup {"halt"}),
                                 !.sc = @ \ {"pend"}]
        BY <1>7, <2>1 DEF HaltSubchannel
      <3>. QED
        BY <1>1, <3>1 DEF Pending, Settled, Scsw
    <2>2. CASE ~(ActiveLocal \/ dev.suspended)
      BY <1>7, <2>2 DEF HaltSubchannel, QueueIo, Settled
    <2>. QED
      BY <2>1, <2>2
  <1>8. CASE ResumeSubchannel(c)
    <2>1. scsw'.sc = scsw.sc /\ scsw'.susp = scsw.susp /\ UNCHANGED inter
      BY <1>1, <1>8 DEF ResumeSubchannel, Scsw
    <2>2. SignalResume
      BY <1>8 DEF ResumeSubchannel
    <2>. QED
      BY <2>1, <2>2, SignalMoves, SignalSettles
  <1>9. CASE UpdateCpu(c) \/ PresentNothing(c)
    BY <1>9 DEF UpdateCpu, PresentNothing, Settled, StatusStays, Pending, Withheld
  <1>10. CASE \E i \in Interrupts : PresentInterrupt(c, i)
    BY <1>10 DEF PresentInterrupt, Settled, StatusStays, Pending, Withheld
  <1>. QED
    BY <1>2, <1>3, <1>4, <1>5, <1>6, <1>7, <1>8, <1>9, <1>10

LEMMA DeviceStatus ==
    ASSUME TypeOK, ResetDevice \/ Attention \/ UpdateAttention
    PROVE  Settled
  <1>. USE DEF word, chain
  <1>1. scsw \in Scsw
    BY DEF TypeOK
  <1>2. CASE ResetDevice
    BY <1>2 DEF ResetDevice, ZeroScsw, Pending, Settled
  <1>3. CASE Attention
    <2>1. CASE /\ scsw.susp
               /\ scsw' = [scsw EXCEPT !.sc = @ \cup {"alert", "pend"},
                                       !.ac = @ \cup {"resume"}]
      BY <1>1, <2>1 DEF Withheld, Settled, Scsw
    <2>2. CASE intq' = intq \cup {"attn"} /\ UNCHANGED <<scsw, pc>>
      BY <1>3, <2>2 DEF Attention, Settled, StatusStays, Pending, Withheld
    <2>. QED
      BY <1>3, <2>1, <2>2 DEF Attention
  <1>4. CASE UpdateAttention
    BY <1>4 DEF UpdateAttention, Settled, StatusStays, Pending, Withheld
  <1>. QED
    BY <1>2, <1>3, <1>4

\* The thread of a program with withheld status goes from the head of the loop
\* to the end of the program and nowhere else.
LEMMA ChainStatus ==
    ASSUME TypeOK, NEW t \in Thread, ChainStep(t)
    PROVE  Settled
  <1>. USE DEF word, inter, chain, Goto
  <1>1. scsw \in Scsw /\ pc \in [Thread -> ChainPc]
    BY DEF TypeOK
  <1>2. ASSUME pc[t] \notin {"loop", "attention"}, NEW next,
               pc' = [pc EXCEPT ![t] = next],
               UNCHANGED inter \/ (intq \subseteq intq' /\ UNCHANGED notified),
               scsw'.sc = scsw.sc, scsw'.susp = scsw.susp
        PROVE  Settled
    <2>1. Withheld => Withheld'
      <3>1. ASSUME NEW u \in Thread, pc[u] \in {"loop", "attention"}
            PROVE  pc'[u] \in {"loop", "attention"}
        BY <1>1, <1>2, <3>1
      <3>. QED
        BY <1>2, <3>1 DEF Withheld
    <2>. QED
      BY <1>2, <2>1 DEF Settled, StatusStays, Pending
  <1>3. ASSUME pc' = [pc EXCEPT ![t] = "loop"], scsw'.sc = scsw.sc,
               UNCHANGED inter
        PROVE  Settled
    <2>1. pc'[t] = "loop"
      BY <1>1, <1>3
    <2>2. Withheld => Withheld'
      BY <1>3, <2>1 DEF Withheld
    <2>. QED
      BY <1>3, <2>2 DEF Settled, StatusStays, Pending
  <1>4. CASE TakeRequest(t) \/ BeginChain(t) \/ ReadFlag2(t)
    <2>1. /\ pc[t] \notin {"loop", "attention"} /\ UNCHANGED <<scsw, inter>>
          /\ \E next : pc' = [pc EXCEPT ![t] = next]
      BY <1>4 DEF TakeRequest, BeginChain, ReadFlag2
    <2>. QED
      BY <1>2, <2>1
  <1>5. CASE WriteFlag2(t)
    <2>1. scsw'.sc = scsw.sc /\ scsw'.susp = scsw.susp
      BY <1>1, <1>5 DEF WriteFlag2, Scsw
    <2>. QED
      BY <1>2, <1>5, <2>1 DEF WriteFlag2
  <1>6. CASE InitialStatus(t)
    BY <1>6 DEF InitialStatus, QueueIo, Settled
  <1>7. CASE TestRequests(t)
    <2>1. CASE "alert" \in scsw.sc
      <3>1. pc'[t] = "attention" /\ UNCHANGED scsw
        BY <1>1, <1>7, <2>1 DEF TestRequests
      <3>. QED
        BY <2>1, <3>1 DEF Withheld, Settled
    <2>2. CASE "alert" \notin scsw.sc
      BY <1>7, <2>2 DEF TestRequests, Settled, StatusStays, Pending, Withheld
    <2>. QED
      BY <2>1, <2>2
  <1>8. CASE ExecuteCcw(t)
    <2>1. /\ pc[t] \notin {"loop", "attention"} /\ UNCHANGED <<scsw, inter>>
          /\ \E next : pc' = [pc EXCEPT ![t] = next]
      BY <1>8 DEF ExecuteCcw, AfterCcw
    <2>. QED
      BY <1>2, <2>1
  <1>9. CASE RaisePci(t)
    BY <1>2, <1>9 DEF RaisePci
  <1>10. CASE SuspendProgram(t)
    <2>1. CASE scsw' = [scsw EXCEPT !.ac = @ \ {"resume"}] /\ UNCHANGED <<intq, notified>>
               /\ pc' = [pc EXCEPT ![t] = "loop"]
      <3>1. scsw'.sc = scsw.sc
        BY <1>1, <2>1 DEF Scsw
      <3>. QED
        BY <1>3, <1>10, <2>1, <3>1 DEF SuspendProgram
    <2>2. CASE "io" \in intq' \/ notified'
      BY <2>2 DEF Settled
    <2>. QED
      BY <1>10, <2>1, <2>2 DEF SuspendProgram, QueueIo
  <1>11. ASSUME Resumed(t) PROVE scsw'.sc = scsw.sc /\ pc' = [pc EXCEPT ![t] = "loop"]
    BY <1>1, <1>11 DEF Resumed, Scsw
  <1>12. CASE EnterSuspension(t)
    <2>1. CASE Resumed(t)
      BY <1>3, <1>11, <1>12, <2>1 DEF EnterSuspension
    <2>2. CASE pc' = [pc EXCEPT ![t] = "wait"] /\ UNCHANGED scsw
      BY <1>2, <1>12, <2>2 DEF EnterSuspension
    <2>. QED
      BY <1>12, <2>1, <2>2 DEF EnterSuspension
  <1>13. CASE LeaveSuspension(t)
    <2>1. CASE Resumed(t)
      BY <1>3, <1>11, <1>13, <2>1 DEF LeaveSuspension
    <2>2. CASE UNCHANGED scsw /\ \E next : pc' = [pc EXCEPT ![t] = next]
      BY <1>2, <1>13, <2>2 DEF LeaveSuspension
    <2>. QED
      BY <1>13, <2>1, <2>2 DEF LeaveSuspension
  <1>14. CASE FinalStatus(t) \/ CompleteAttention(t) \/ CompleteClear(t) \/ CompleteHalt(t)
    BY <1>14 DEF FinalStatus, CompleteAttention, CompleteClear, CompleteHalt, Settled
  <1>15. CASE UpdateThread(t)
    <2>1. pc[t] \notin {"loop", "attention"} /\ \E next : pc' = [pc EXCEPT ![t] = next]
      BY <1>15 DEF UpdateThread, Updating
    <2>2. Withheld => Withheld'
      <3>1. ASSUME NEW u \in Thread, pc[u] \in {"loop", "attention"}
            PROVE  pc'[u] \in {"loop", "attention"}
        BY <1>1, <2>1, <3>1
      <3>. QED
        BY <1>15, <3>1 DEF UpdateThread, Withheld
    <2>. QED
      BY <1>15, <2>2 DEF UpdateThread, Settled, StatusStays, Pending
  <1>. QED
    BY <1>4, <1>5, <1>6, <1>7, <1>8, <1>9, <1>10, <1>12, <1>13, <1>14, <1>15
       DEF ChainStep

LEMMA StatusStep == TypeOK /\ StatusReported /\ [Next]_vars => StatusReported'
  <1>. SUFFICES ASSUME TypeOK, StatusReported, [Next]_vars PROVE StatusReported'
    OBVIOUS
  <1>1. CASE UNCHANGED vars
    BY <1>1 DEF StatusReported, Pending, vars, word, inter, chain
  <1>2. CASE ResetDevice \/ Attention \/ UpdateAttention
    BY <1>2, DeviceStatus, StatusKept
  <1>3. CASE \E t \in Thread : ChainStep(t)
    BY <1>3, ChainStatus, StatusKept
  <1>4. ASSUME NEW c \in Cpu,
               \/ StartSubchannel(c) \/ QueueRequest(c) \/ CancelSubchannel(c)
               \/ TestSubchannel(c) \/ ClearSubchannel(c) \/ HaltSubchannel(c)
               \/ ResumeSubchannel(c) \/ UpdateCpu(c) \/ PresentNothing(c)
               \/ \E i \in Interrupts : PresentInterrupt(c, i)
        PROVE  StatusReported'
    BY <1>4, CpuStatus, StatusKept
  <1>. QED
    BY <1>1, <1>2, <1>3, <1>4 DEF Next

\* No status is kept from the guest, however instructions, reset, attention
\* and programs interleave: a status that becomes pending is queued with it,
\* but for the attention of a suspended program, which is withheld until the
\* program's thread has gone through the head of its loop to its end.
THEOREM NoStatusKeptBack == Spec => []StatusReported
  <1>1. Init => StatusReported
    BY DEF Init, ZeroScsw, Pending, StatusReported
  <1>. QED
    BY <1>1, TypeCorrect, StatusStep, PTL DEF Spec

-----------------------------------------------------------------------------
(* One program at a time.                                                    *)

\* The guest leaves suspended and start pending programs alone, there is no
\* reset, and the device does not raise attention.  None of the five can be
\* left out: with any one of them the two theorems below fail.
Restrained == Instr \cap {"RCHP", "ATTN", "SSCH suspended", "CSCH suspended",
                          "HSCH startpending"} = {}

Ended      == {"idle", "end update"}
Suspension == {"suspend update", "suspending"} \cup Asleep

NotIssued  == \A c \in Cpu : cpu[c] # "queue"
NotRunning == \A t \in Thread : pc[t] \in Ended

Flags(busy, startpending, local, suspended, susp) ==
    /\ dev.busy <=> busy
    /\ dev.startpending <=> startpending
    /\ dev.local <=> local
    /\ dev.suspended <=> suspended
    /\ scsw.susp <=> susp

\* Where the program of a busy device may be: with a CPU in startio, on the
\* request queue, or with a thread, whose place in the chain fixes the flags.
Free      == /\ queued = 0 /\ NotIssued /\ NotRunning
             /\ Flags(FALSE, FALSE, FALSE, FALSE, FALSE)
Issued(c) == /\ queued = 0 /\ NotRunning
             /\ \A d \in Cpu : cpu[d] = "queue" <=> d = c
             /\ Flags(TRUE, TRUE, FALSE, FALSE, FALSE)
Requested == /\ queued = 1 /\ NotIssued /\ NotRunning
             /\ Flags(TRUE, TRUE, FALSE, FALSE, FALSE)
Running(t) ==
    /\ queued = 0 /\ NotIssued
    /\ \A u \in Thread : pc[u] \notin Ended <=> u = t
    /\ Flags(TRUE, pc[t] = "taken", pc[t] \notin {"taken"} \cup Asleep,
             pc[t] \in Asleep, pc[t] \in Suspension)

OneProgram == \/ Free \/ Requested
              \/ \E c \in Cpu : Issued(c)
              \/ \E t \in Thread : Running(t)

\* A suspended program has no status but that of its suspension, and primary
\* status stays pending with the device free.
StatusOK == /\ scsw.susp => scsw.sc \in {{}, {"inter"}, {"inter", "pend"}}
            /\ "pri" \in scsw.sc => "pend" \in scsw.sc /\ ~dev.busy

ProgInv == TypeOK /\ OneProgram /\ StatusOK

\* No thread is woken unless a program is suspended.
LEMMA SignalNobody ==
    ASSUME SignalResume \/ UNCHANGED pc, \A t \in Thread : pc[t] # "wait"
    PROVE  UNCHANGED pc
  BY DEF SignalResume

\* A step that keeps the flags and the program's place.
LEMMA PlaceKept ==
    ASSUME OneProgram, UNCHANGED <<queued, pc>>, scsw'.susp <=> scsw.susp,
           \A c \in Cpu : cpu'[c] = "queue" <=> cpu[c] = "queue",
           dev'.busy = dev.busy, dev'.startpending = dev.startpending,
           dev'.local = dev.local, dev'.suspended = dev.suspended
    PROVE  OneProgram'
  <1>1. CASE Free
    BY <1>1 DEF Free, NotIssued, NotRunning, Flags, OneProgram
  <1>2. CASE Requested
    BY <1>2 DEF Requested, NotIssued, NotRunning, Flags, OneProgram
  <1>3. ASSUME NEW c \in Cpu, Issued(c) PROVE Issued(c)'
    BY <1>3 DEF Issued, NotRunning, Flags
  <1>4. ASSUME NEW t \in Thread, Running(t) PROVE Running(t)'
    BY <1>4 DEF Running, NotIssued, Flags
  <1>. QED
    BY <1>1, <1>2, <1>3, <1>4 DEF OneProgram

\* The same, with a signal to the thread of a suspended program.
LEMMA PlaceSignalled ==
    ASSUME TypeOK, OneProgram, SignalResume \/ UNCHANGED pc,
           UNCHANGED <<queued, cpu>>, scsw'.susp = scsw.susp,
           dev'.busy = dev.busy, dev'.startpending = dev.startpending,
           dev'.local = dev.local, dev'.suspended = dev.suspended
    PROVE  OneProgram'
  <1>1. CASE UNCHANGED pc
    BY <1>1, PlaceKept
  <1>2. CASE \E t \in Thread : pc[t] = "wait" /\ pc' = [pc EXCEPT ![t] = "woken"]
    <2>1. PICK t \in Thread : pc[t] = "wait" /\ pc' = [pc EXCEPT ![t] = "woken"]
      BY <1>2
    <2>2. Running(t)
      <3>1. ~NotRunning
        BY <2>1 DEF NotRunning, Ended
      <3>2. PICK u \in Thread : Running(u)
        BY <3>1 DEF OneProgram, Free, Requested, Issued
      <3>3. pc[t] \notin Ended
        BY <2>1 DEF Ended
      <3>4. u = t
        BY <3>2, <3>3 DEF Running
      <3>. QED
        BY <3>2, <3>4
    <2>3. pc'[t] = "woken" /\ \A u \in Thread : u # t => pc'[u] = pc[u]
      BY <2>1 DEF TypeOK
    <2>4. \A u \in Thread : pc'[u] \notin Ended <=> u = t
      BY <2>2, <2>3 DEF Running, Ended
    <2>5. Flags(TRUE, FALSE, FALSE, TRUE, TRUE)'
      BY <2>1, <2>2 DEF Running, Flags, Asleep, Suspension
    <2>6. Flags(TRUE, pc[t] = "taken", pc[t] \notin {"taken"} \cup Asleep,
                pc[t] \in Asleep, pc[t] \in Suspension)'
      BY <2>3, <2>5 DEF Flags, Asleep, Suspension
    <2>7. Running(t)'
      BY <2>2, <2>4, <2>6 DEF Running, NotIssued
    <2>. QED
      BY <2>7 DEF OneProgram
  <1>. QED
    BY <1>1, <1>2 DEF SignalResume

\* Without a local or start pending program, the device is free or its program
\* suspended.
LEMMA NotActive ==
    ASSUME OneProgram, ~ActiveLocal
    PROVE  Free \/ (dev.suspended /\ scsw.susp)
  <1>1. ASSUME NEW t \in Thread, Running(t) PROVE dev.suspended /\ scsw.susp
    BY <1>1 DEF Running, Flags, ActiveLocal, Asleep, Suspension
  <1>. QED
    BY <1>1 DEF OneProgram, Requested, Issued, Flags, ActiveLocal

LEMMA StartProgram ==
    ASSUME Restrained, ProgInv, NEW c \in Cpu, StartSubchannel(c)
    PROVE  OneProgram' /\ StatusOK'
  <1>1. dev \in DevBlk /\ cpu \in [Cpu -> {"run", "queue", "update"}]
    BY DEF ProgInv, TypeOK
  <1>2. ~scsw.susp /\ ~ActiveLocal
    BY DEF StartSubchannel, Restrained
  <1>3. Free
    BY <1>2, NotActive DEF ProgInv
  <1>4. ~scsw'.susp /\ scsw'.sc = {}
    BY DEF StartSubchannel, ZeroScsw
  <1>5. dev' = [dev EXCEPT !.busy = TRUE, !.startpending = TRUE]
        /\ cpu' = [cpu EXCEPT ![c] = "queue"] /\ UNCHANGED <<queued, pc>>
    BY DEF StartSubchannel, chain
  <1>6. Flags(TRUE, TRUE, FALSE, FALSE, FALSE)'
    BY <1>1, <1>3, <1>4, <1>5 DEF Free, Flags, DevBlk
  <1>7. \A d \in Cpu : cpu'[d] = "queue" <=> d = c
    BY <1>1, <1>3, <1>5 DEF Free, NotIssued
  <1>8. Issued(c)'
    BY <1>3, <1>5, <1>6, <1>7 DEF Free, Issued, NotRunning
  <1>. QED
    BY <1>4, <1>8 DEF OneProgram, StatusOK

LEMMA QueueProgram ==
    ASSUME ProgInv, NEW c \in Cpu, QueueRequest(c)
    PROVE  OneProgram' /\ StatusOK'
  <1>1. cpu \in [Cpu -> {"run", "queue", "update"}]
    BY DEF ProgInv, TypeOK
  <1>2. Issued(c)
    <2>1. cpu[c] = "queue"
      BY DEF QueueRequest
    <2>2. PICK d \in Cpu : Issued(d)
      BY <2>1 DEF ProgInv, OneProgram, Free, Requested, Running, NotIssued
    <2>3. d = c
      BY <2>1, <2>2 DEF Issued
    <2>. QED
      BY <2>2, <2>3
  <1>3. /\ queued' = queued + 1 /\ cpu' = [cpu EXCEPT ![c] = "run"]
        /\ UNCHANGED <<scsw, dev, pc>>
    BY DEF QueueRequest, word, chain
  <1>4. NotIssued'
    BY <1>1, <1>2, <1>3 DEF Issued, NotIssued
  <1>5. queued' = 1
    BY <1>2, <1>3 DEF Issued
  <1>6. Requested'
    BY <1>2, <1>3, <1>4, <1>5 DEF Issued, Requested, NotRunning, Flags
  <1>. QED
    BY <1>3, <1>6 DEF ProgInv, OneProgram, StatusOK

LEMMA CancelProgram ==
    ASSUME ProgInv, NEW c \in Cpu, CancelSubchannel(c)
    PROVE  OneProgram' /\ StatusOK'
  <1>1. scsw \in Scsw /\ dev \in DevBlk
    BY DEF ProgInv, TypeOK
  <1>2. Requested
    <2>1. queued # 0
      BY DEF CancelSubchannel
    <2>. QED
      BY <2>1 DEF ProgInv, OneProgram, Free, Issued, Running
  <1>3. UNCHANGED <<cpu, pc>> /\ queued' = 0
    BY <1>2 DEF CancelSubchannel, SignalIf, AfterRemoval, Requested, Flags
  <1>4. /\ scsw' = [scsw EXCEPT !.ac = @ \ {"resume", "start"}, !.fc = @ \ {"start"},
                                !.susp = FALSE]
        /\ dev' = [dev EXCEPT !.busy = FALSE, !.startpending = FALSE,
                              !.suspended = @ /\ ~scsw.susp]
    BY DEF CancelSubchannel
  <1>5. Flags(FALSE, FALSE, FALSE, FALSE, FALSE)'
    BY <1>1, <1>2, <1>4 DEF Requested, Flags, Scsw, DevBlk
  <1>6. Free'
    BY <1>2, <1>3, <1>5 DEF Requested, Free, NotIssued, NotRunning
  <1>7. scsw'.sc = scsw.sc
    BY <1>1, <1>4 DEF Scsw
  <1>. QED
    BY <1>5, <1>6, <1>7 DEF ProgInv, OneProgram, StatusOK, Flags

LEMMA TestProgram ==
    ASSUME ProgInv, NEW c \in Cpu, TestSubchannel(c)
    PROVE  OneProgram' /\ StatusOK'
  <1>1. /\ scsw \in Scsw /\ dev \in DevBlk
        /\ cpu \in [Cpu -> {"run", "queue", "update"}]
    BY DEF ProgInv, TypeOK
  <1>2. scsw'.susp = scsw.susp /\ (scsw'.sc = scsw.sc \/ scsw'.sc = {})
    <2>1. CASE TestStatus
      <3>1. scsw.susp => scsw.sc = {"inter", "pend"}
        BY <2>1 DEF TestStatus, Pending, ProgInv, StatusOK
      <3>2. CASE scsw.sc = {"inter", "pend"}
        BY <1>1, <2>1, <3>2 DEF TestStatus, Scsw
      <3>3. CASE scsw.sc # {"inter", "pend"}
        BY <1>1, <2>1, <3>1, <3>3 DEF TestStatus, Scsw
      <3>. QED
        BY <3>2, <3>3
    <2>2. CASE TestPci \/ TestAttention \/ TestNothing
      BY <2>2 DEF TestPci, TestAttention, TestNothing, word
    <2>. QED
      BY <2>1, <2>2 DEF TestSubchannel
  <1>3. \E flags : dev' = [dev EXCEPT !.flags = flags]
    BY DEF TestSubchannel, TestPci, TestStatus, TestAttention, TestNothing
  <1>4. /\ dev'.busy = dev.busy /\ dev'.startpending = dev.startpending
        /\ dev'.local = dev.local /\ dev'.suspended = dev.suspended
    BY <1>1, <1>3 DEF DevBlk
  <1>5. \A d \in Cpu : cpu'[d] = "queue" <=> cpu[d] = "queue"
    BY <1>1 DEF TestSubchannel
  <1>6. UNCHANGED <<queued, pc>>
    BY DEF TestSubchannel, chain
  <1>7. OneProgram'
    BY <1>2, <1>4, <1>5, <1>6, PlaceKept DEF ProgInv
  <1>. QED
    BY <1>2, <1>4, <1>7 DEF ProgInv, StatusOK

LEMMA ClearProgram ==
    ASSUME Restrained, ProgInv, NEW c \in Cpu, ClearSubchannel(c)
    PROVE  OneProgram' /\ StatusOK'
  <1>1. /\ scsw \in Scsw /\ dev \in DevBlk
        /\ cpu \in [Cpu -> {"run", "queue", "update"}]
    BY DEF ProgInv, TypeOK
  <1>2. ~scsw.susp /\ UNCHANGED queued
    BY DEF ClearSubchannel, Restrained
  <1>3. CASE ActiveLocal
    <2>1. UNCHANGED <<dev, cpu, pc>>
      BY <1>2, <1>3 DEF ClearSubchannel, SignalIf
    <2>2. scsw'.susp = scsw.susp /\ scsw'.sc = scsw.sc
      BY <1>1, <1>3 DEF ClearSubchannel, Scsw
    <2>3. OneProgram'
      BY <1>2, <2>1, <2>2, PlaceKept DEF ProgInv
    <2>. QED
      BY <2>1, <2>2, <2>3 DEF ProgInv, StatusOK
  <1>4. CASE ~ActiveLocal
    <2>1. Free
      BY <1>2, <1>4, NotActive DEF ProgInv
    <2>2. ~scsw'.susp /\ scsw'.sc = {"pend"}
      BY <1>4 DEF ClearSubchannel, ZeroScsw
    <2>3. \A d \in Cpu : cpu'[d] = "queue" <=> cpu[d] = "queue"
      BY <1>1, <1>4 DEF ClearSubchannel
    <2>4. /\ dev'.busy = dev.busy /\ dev'.startpending = dev.startpending
          /\ dev'.local = dev.local /\ dev'.suspended = dev.suspended
      BY <1>1, <1>4 DEF ClearSubchannel, DevBlk
    <2>5. UNCHANGED pc
      BY <1>4 DEF ClearSubchannel
    <2>6. OneProgram'
      BY <1>2, <2>1, <2>2, <2>3, <2>4, <2>5, PlaceKept DEF ProgInv, Free, Flags
    <2>. QED
      BY <2>2, <2>6 DEF StatusOK
  <1>. QED
    BY <1>3, <1>4

LEMMA HaltProgram ==
    ASSUME Restrained, ProgInv, NEW c \in Cpu, HaltSubchannel(c)
    PROVE  OneProgram' /\ StatusOK'
  <1>1. /\ scsw \in Scsw /\ dev \in DevBlk
        /\ cpu \in [Cpu -> {"run", "queue", "update"}]
    BY DEF ProgInv, TypeOK
  <1>2. ~dev.startpending /\ UNCHANGED queued
    BY DEF HaltSubchannel, Restrained
  <1>3. CASE ActiveLocal \/ dev.suspended
    <2>1. /\ scsw' = [scsw EXCEPT !.fc = @ \cup {"halt"}, !.ac = Resume(@ \cup {"halt"}),
                                  !.sc = @ \ {"pend"}]
          /\ dev' = [dev EXCEPT !.flags = {}, !.startpending = FALSE]
          /\ SignalIf(scsw.susp) /\ UNCHANGED cpu
      BY <1>3 DEF HaltSubchannel
    <2>2. scsw'.susp = scsw.susp /\ scsw'.sc = scsw.sc \ {"pend"}
      BY <1>1, <2>1 DEF Scsw
    <2>3. /\ dev'.busy = dev.busy /\ dev'.startpending = dev.startpending
          /\ dev'.local = dev.local /\ dev'.suspended = dev.suspended
      BY <1>1, <1>2, <2>1 DEF DevBlk
    <2>4. SignalResume \/ UNCHANGED pc
      BY <2>1 DEF SignalIf
    <2>5. OneProgram'
      BY <1>2, <2>1, <2>2, <2>3, <2>4, PlaceSignalled DEF ProgInv
    <2>6. dev.busy
      BY <1>3 DEF ProgInv, OneProgram, Free, Requested, Issued, Running, Flags, ActiveLocal
    <2>7. "pri" \notin scsw.sc
      BY <2>6 DEF ProgInv, StatusOK
    <2>8. scsw'.susp => scsw'.sc \in {{}, {"inter"}, {"inter", "pend"}}
      <3>1. scsw.susp => scsw.sc \in {{}, {"inter"}, {"inter", "pend"}}
        BY DEF ProgInv, StatusOK
      <3>2. scsw.sc \in {{}, {"inter"}, {"inter", "pend"}}
              => scsw.sc \ {"pend"} \in {{}, {"inter"}}
        OBVIOUS
      <3>. QED
        BY <2>2, <3>1, <3>2
    <2>. QED
      BY <2>2, <2>5, <2>7, <2>8 DEF StatusOK
  <1>4. CASE ~(ActiveLocal \/ dev.suspended)
    <2>1. Free
      BY <1>4, NotActive DEF ProgInv
    <2>2. scsw'.susp = scsw.susp /\ "pend" \in scsw'.sc
      <3>1. scsw' = [scsw EXCEPT !.fc = @ \cup {"halt"}, !.sc = @ \cup {"pend"}]
        BY <1>4 DEF HaltSubchannel
      <3>. QED
        BY <1>1, <3>1 DEF Scsw
    <2>3. \A d \in Cpu : cpu'[d] = "queue" <=> cpu[d] = "queue"
      BY <1>1, <1>4 DEF HaltSubchannel
    <2>4. /\ dev'.busy = dev.busy /\ dev'.startpending = dev.startpending
          /\ dev'.local = dev.local /\ dev'.suspended = dev.suspended
      BY <1>1, <1>4 DEF HaltSubchannel, DevBlk
    <2>5. UNCHANGED pc
      BY <1>4 DEF HaltSubchannel
    <2>6. OneProgram'
      BY <1>2, <2>2, <2>3, <2>4, <2>5, PlaceKept DEF ProgInv
    <2>. QED
      BY <2>1, <2>2, <2>4, <2>6 DEF StatusOK, Free, Flags
  <1>. QED
    BY <1>3, <1>4

LEMMA ResumeProgram ==
    ASSUME ProgInv, NEW c \in Cpu, ResumeSubchannel(c)
    PROVE  OneProgram' /\ StatusOK'
  <1>1. scsw \in Scsw
    BY DEF ProgInv, TypeOK
  <1>2. SignalResume /\ UNCHANGED <<dev, queued, cpu>>
    BY DEF ResumeSubchannel
  <1>3. scsw'.susp = scsw.susp /\ scsw'.sc = scsw.sc
    BY <1>1 DEF ResumeSubchannel, Scsw
  <1>4. OneProgram'
    BY <1>2, <1>3, PlaceSignalled DEF ProgInv
  <1>. QED
    BY <1>2, <1>3, <1>4 DEF ProgInv, StatusOK

LEMMA PresentProgram ==
    ASSUME ProgInv, NEW c \in Cpu,
           \/ UpdateCpu(c) \/ PresentNothing(c)
           \/ \E i \in Interrupts : PresentInterrupt(c, i)
    PROVE  OneProgram' /\ StatusOK'
  <1>1. dev \in DevBlk /\ cpu \in [Cpu -> {"run", "queue", "update"}]
    BY DEF ProgInv, TypeOK
  <1>2. UNCHANGED <<scsw, queued, pc>>
    BY DEF UpdateCpu, PresentNothing, PresentInterrupt, word, chain
  <1>3. UNCHANGED dev \/ \E flags : dev' = [dev EXCEPT !.flags = flags]
    BY DEF UpdateCpu, PresentNothing, PresentInterrupt
  <1>4. /\ dev'.busy = dev.busy /\ dev'.startpending = dev.startpending
        /\ dev'.local = dev.local /\ dev'.suspended = dev.suspended
    BY <1>1, <1>3 DEF DevBlk
  <1>5. \A d \in Cpu : cpu'[d] = "queue" <=> cpu[d] = "queue"
    BY <1>1 DEF UpdateCpu, PresentNothing, PresentInterrupt
  <1>6. OneProgram'
    BY <1>2, <1>4, <1>5, PlaceKept DEF ProgInv
  <1>. QED
    BY <1>2, <1>4, <1>6 DEF ProgInv, StatusOK

\* A thread that is at work on a program has the only one.
LEMMA OnlyProgram ==
    ASSUME OneProgram, NEW t \in Thread, pc[t] \notin Ended
    PROVE  Running(t)
  <1>1. PICK u \in Thread : Running(u)
    BY DEF OneProgram, Free, Requested, Issued, NotRunning
  <1>2. u = t
    BY <1>1 DEF Running
  <1>. QED
    BY <1>1, <1>2

\* The program goes on in the chain, or ends and leaves the device free.
LEMMA ProgramGoesOn ==
    ASSUME ProgInv, NEW t \in Thread, Running(t),
           NEW next, next \notin Ended,
           pc' = [pc EXCEPT ![t] = next], UNCHANGED <<queued, cpu>>,
           Flags(TRUE, next = "taken", next \notin {"taken"} \cup Asleep,
                 next \in Asleep, next \in Suspension)'
    PROVE  OneProgram'
  <1>1. pc'[t] = next /\ \A u \in Thread : u # t => pc'[u] = pc[u]
    BY DEF ProgInv, TypeOK
  <1>2. \A u \in Thread : pc'[u] \notin Ended <=> u = t
    BY <1>1 DEF Running
  <1>3. Flags(TRUE, pc[t] = "taken", pc[t] \notin {"taken"} \cup Asleep,
              pc[t] \in Asleep, pc[t] \in Suspension)'
    BY <1>1 DEF Flags
  <1>4. Running(t)'
    BY <1>2, <1>3 DEF Running, NotIssued
  <1>. QED
    BY <1>4 DEF OneProgram

LEMMA ProgramEnded ==
    ASSUME ProgInv, NEW t \in Thread, Running(t),
           pc' = [pc EXCEPT ![t] = "end update"], UNCHANGED <<queued, cpu>>,
           Flags(FALSE, FALSE, FALSE, FALSE, FALSE)'
    PROVE  OneProgram'
  <1>1. NotRunning'
    BY DEF ProgInv, TypeOK, Running, NotRunning, Ended
  <1>2. Free'
    BY <1>1 DEF Running, Free, NotIssued
  <1>. QED
    BY <1>2 DEF OneProgram

\* A thread takes the queued request.
LEMMA TakeProgram ==
    ASSUME ProgInv, NEW t \in Thread, TakeRequest(t)
    PROVE  OneProgram' /\ StatusOK'
  <1>1. Requested
    <2>1. queued # 0
      BY DEF TakeRequest
    <2>. QED
      BY <2>1 DEF ProgInv, OneProgram, Free, Issued, Running
  <1>2. queued' = 0 /\ pc' = [pc EXCEPT ![t] = "taken"] /\ UNCHANGED <<scsw, dev, cpu>>
    BY <1>1 DEF TakeRequest, AfterRemoval, Requested, Goto, word
  <1>3. pc'[t] = "taken" /\ \A u \in Thread : pc'[u] \notin Ended <=> u = t
    BY <1>1, <1>2 DEF Requested, NotRunning, Ended, ProgInv, TypeOK
  <1>4. Flags(TRUE, TRUE, FALSE, FALSE, FALSE)'
    BY <1>1, <1>2 DEF Requested, Flags
  <1>5. Flags(TRUE, pc[t] = "taken", pc[t] \notin {"taken"} \cup Asleep,
              pc[t] \in Asleep, pc[t] \in Suspension)'
    BY <1>3, <1>4 DEF Flags, Asleep, Suspension
  <1>6. Running(t)'
    BY <1>1, <1>2, <1>3, <1>5 DEF Requested, Running, NotIssued
  <1>. QED
    BY <1>2, <1>6 DEF ProgInv, OneProgram, StatusOK

\* The steps between CCWs.
LEMMA WorkProgram ==
    ASSUME ProgInv, NEW t \in Thread,
           \/ BeginChain(t) \/ ReadFlag2(t) \/ WriteFlag2(t) \/ InitialStatus(t)
           \/ TestRequests(t) \/ ExecuteCcw(t) \/ RaisePci(t)
    PROVE  OneProgram' /\ StatusOK'
  <1>. USE DEF Goto, word
  <1>1. scsw \in Scsw /\ dev \in DevBlk
    BY DEF ProgInv, TypeOK
  <1>. DEFINE Work == ChainPc \ (Ended \cup {"taken"} \cup Suspension)
  <1>2. UNCHANGED <<queued, cpu>>
    BY DEF BeginChain, ReadFlag2, WriteFlag2, InitialStatus, TestRequests,
           ExecuteCcw, RaisePci
  <1>3. pc[t] \in (Work \cup {"taken"})
    BY DEF BeginChain, ReadFlag2, WriteFlag2, InitialStatus, TestRequests,
           ExecuteCcw, RaisePci, Ended, Suspension, Asleep, ChainPc
  <1>4. Running(t)
    BY <1>3, OnlyProgram DEF ProgInv, Ended
  <1>5. PICK next \in Work \cup {"suspend"} : pc' = [pc EXCEPT ![t] = next]
    <2>1. CASE \/ BeginChain(t) \/ ReadFlag2(t) \/ WriteFlag2(t) \/ InitialStatus(t)
               \/ RaisePci(t)
      BY <2>1 DEF BeginChain, ReadFlag2, WriteFlag2, InitialStatus, RaisePci,
                  ChainPc, Updating, Ended, Suspension, Asleep
    <2>2. CASE TestRequests(t)
      BY <2>2 DEF TestRequests, ChainPc, Ended, Suspension, Asleep
    <2>3. CASE ExecuteCcw(t)
      BY <2>3 DEF ExecuteCcw, AfterCcw, ChainPc, Ended, Suspension, Asleep
    <2>. QED
      BY <2>1, <2>2, <2>3
  <1>6. next \notin Ended /\ next # "taken" /\ next \notin Asleep /\ next \notin Suspension
    BY DEF Ended, Suspension, Asleep
  <1>7. ~scsw'.susp
    <2>1. ~scsw.susp
      BY <1>3, <1>4 DEF Running, Flags, Suspension, Asleep
    <2>2. \/ UNCHANGED scsw
          \/ scsw' = [scsw EXCEPT !.fc = saved[t].fc, !.ac = saved[t].ac \ {"start"}]
          \/ scsw' = [scsw EXCEPT !.susp = FALSE, !.sc = {"inter", "pend"}]
      BY DEF BeginChain, ReadFlag2, WriteFlag2, InitialStatus, TestRequests,
             ExecuteCcw, RaisePci
    <2>. QED
      BY <1>1, <2>1, <2>2 DEF Scsw
  <1>8. /\ dev'.busy /\ ~dev'.startpending
        /\ dev'.local /\ ~dev'.suspended
    <2>1. CASE BeginChain(t)
      <3>1. /\ dev' = [dev EXCEPT !.local = TRUE, !.startpending = FALSE]
            /\ pc[t] = "taken"
        BY <2>1 DEF BeginChain
      <3>2. dev.busy /\ ~dev.suspended
        BY <1>4, <3>1 DEF Running, Flags, Asleep
      <3>. QED
        BY <1>1, <3>1, <3>2 DEF DevBlk
    <2>2. CASE ~BeginChain(t)
      <3>1. pc[t] # "taken" /\ pc[t] \notin Asleep
        BY <1>3, <2>2 DEF ReadFlag2, WriteFlag2, InitialStatus, TestRequests,
                          ExecuteCcw, RaisePci, Asleep, Suspension
      <3>2. /\ dev.busy /\ ~dev.startpending
            /\ dev.local /\ ~dev.suspended
        BY <1>4, <3>1 DEF Running, Flags
      <3>3. UNCHANGED dev \/ \E flags : dev' = [dev EXCEPT !.flags = flags]
        BY <2>2 DEF ReadFlag2, WriteFlag2, InitialStatus, TestRequests,
                    ExecuteCcw, RaisePci
      <3>. QED
        BY <1>1, <3>2, <3>3 DEF DevBlk
    <2>. QED
      BY <2>1, <2>2
  <1>9. Flags(TRUE, next = "taken", next \notin {"taken"} \cup Asleep,
              next \in Asleep, next \in Suspension)'
    BY <1>6, <1>7, <1>8 DEF Flags
  <1>10. OneProgram'
    BY <1>2, <1>4, <1>5, <1>6, <1>9, ProgramGoesOn
  <1>11. scsw'.sc \in {scsw.sc, {"inter", "pend"}}
    BY <1>1 DEF BeginChain, ReadFlag2, WriteFlag2, InitialStatus, TestRequests,
                ExecuteCcw, RaisePci, Scsw
  <1>12. "pri" \notin scsw.sc
    BY <1>4 DEF ProgInv, StatusOK, Running, Flags
  <1>. QED
    BY <1>7, <1>10, <1>11, <1>12 DEF StatusOK

\* Suspension and resumption.
LEMMA SuspendResumeProgram ==
    ASSUME ProgInv, NEW t \in Thread,
           SuspendProgram(t) \/ EnterSuspension(t) \/ LeaveSuspension(t)
    PROVE  OneProgram' /\ StatusOK'
  <1>. USE DEF Goto, word
  <1>1. scsw \in Scsw /\ dev \in DevBlk
    BY DEF ProgInv, TypeOK
  <1>2. pc[t] \in {"suspend", "suspending", "woken"} /\ UNCHANGED <<queued, cpu>>
    BY DEF SuspendProgram, EnterSuspension, LeaveSuspension
  <1>3. Running(t)
    BY <1>2, OnlyProgram DEF ProgInv, Ended
  <1>4. /\ dev.busy /\ ~dev.startpending
        /\ (dev.local <=> pc[t] # "woken") /\ (dev.suspended <=> pc[t] = "woken")
        /\ (scsw.susp <=> pc[t] # "suspend")
    BY <1>2, <1>3 DEF Running, Flags, Asleep, Suspension
  <1>5. "pri" \notin scsw.sc
    BY <1>4 DEF ProgInv, StatusOK
  <1>6. ASSUME dev' = [dev EXCEPT !.local = FALSE, !.suspended = TRUE] \/
                 (UNCHANGED dev /\ pc[t] = "woken"),
               scsw'.susp, pc' = [pc EXCEPT ![t] = "wait"]
        PROVE  OneProgram'
    <2>1. Flags(TRUE, FALSE, FALSE, TRUE, TRUE)'
      BY <1>1, <1>4, <1>6 DEF Flags, DevBlk
    <2>2. Flags(TRUE, "wait" = "taken", "wait" \notin {"taken"} \cup Asleep,
                "wait" \in Asleep, "wait" \in Suspension)'
      BY <2>1 DEF Flags, Asleep, Suspension
    <2>3. "wait" \notin Ended
      BY DEF Ended
    <2>. QED
      BY <1>2, <1>3, <1>6, <2>2, <2>3, ProgramGoesOn
  <1>7. ASSUME /\ dev'.busy /\ ~dev'.startpending
               /\ dev'.local /\ ~dev'.suspended,
               ~scsw'.susp, pc' = [pc EXCEPT ![t] = "loop"]
        PROVE  OneProgram'
    <2>1. Flags(TRUE, "loop" = "taken", "loop" \notin {"taken"} \cup Asleep,
                "loop" \in Asleep, "loop" \in Suspension)'
      BY <1>7 DEF Flags, Asleep, Suspension
    <2>2. "loop" \notin Ended
      BY DEF Ended
    <2>. QED
      BY <1>2, <1>3, <1>7, <2>1, <2>2, ProgramGoesOn
  <1>8. ASSUME Resumed(t) PROVE OneProgram' /\ StatusOK'
    <2>1. /\ dev' = [dev EXCEPT !.suspended = FALSE, !.local = TRUE, !.busy = TRUE]
          /\ scsw' = [scsw EXCEPT !.susp = FALSE, !.ac = @ \ {"resume"}]
          /\ pc' = [pc EXCEPT ![t] = "loop"]
      BY <1>8 DEF Resumed
    <2>2. /\ dev'.busy /\ ~dev'.startpending
          /\ dev'.local /\ ~dev'.suspended
      BY <1>1, <1>4, <2>1 DEF DevBlk
    <2>3. ~scsw'.susp /\ scsw'.sc = scsw.sc
      BY <1>1, <2>1 DEF Scsw
    <2>. QED
      BY <1>5, <1>7, <2>1, <2>2, <2>3 DEF StatusOK
  <1>9. CASE SuspendProgram(t)
    <2>0. pc[t] = "suspend"
      BY <1>9 DEF SuspendProgram
    <2>1. CASE /\ scsw' = [scsw EXCEPT !.ac = @ \ {"resume"}] /\ UNCHANGED dev
               /\ pc' = [pc EXCEPT ![t] = "loop"]
      <3>1. ~scsw'.susp /\ scsw'.sc = scsw.sc
        BY <1>1, <1>4, <2>0, <2>1 DEF Scsw
      <3>. QED
        BY <1>4, <1>5, <1>7, <2>0, <2>1, <3>1 DEF StatusOK
    <2>2. ASSUME scsw' = [scsw EXCEPT !.susp = TRUE, !.sc = {"inter", "pend"}]
          PROVE  scsw'.susp /\ StatusOK'
      <3>1. scsw'.susp /\ scsw'.sc = {"inter", "pend"}
        BY <1>1, <2>2 DEF Scsw
      <3>. QED
        BY <3>1 DEF StatusOK
    <2>3. CASE /\ scsw' = [scsw EXCEPT !.susp = TRUE, !.sc = {"inter", "pend"}]
               /\ dev' = [dev EXCEPT !.flags = @ \cup {"io"}]
               /\ pc' = [pc EXCEPT ![t] = "suspend update"]
      <3>1. Flags(TRUE, FALSE, TRUE, FALSE, TRUE)'
        BY <1>1, <1>4, <2>0, <2>2, <2>3 DEF Flags, DevBlk
      <3>2. Flags(TRUE, "suspend update" = "taken",
                  "suspend update" \notin {"taken"} \cup Asleep,
                  "suspend update" \in Asleep, "suspend update" \in Suspension)'
        BY <3>1 DEF Flags, Asleep, Suspension
      <3>3. "suspend update" \notin Ended
        BY DEF Ended
      <3>. QED
        BY <1>2, <1>3, <2>2, <2>3, <3>2, <3>3, ProgramGoesOn
    <2>4. CASE /\ scsw' = [scsw EXCEPT !.susp = TRUE, !.sc = {"inter", "pend"}]
               /\ dev' = [dev EXCEPT !.local = FALSE, !.suspended = TRUE]
               /\ pc' = [pc EXCEPT ![t] = "wait"]
      BY <1>6, <2>2, <2>4
    <2>. QED
      BY <1>9, <2>1, <2>3, <2>4 DEF SuspendProgram
  <1>10. CASE EnterSuspension(t)
    <2>1. CASE ~Resumed(t)
      <3>1. /\ dev' = [dev EXCEPT !.local = FALSE, !.suspended = TRUE]
            /\ pc' = [pc EXCEPT ![t] = "wait"] /\ UNCHANGED scsw
            /\ pc[t] = "suspending"
        BY <1>10, <2>1 DEF EnterSuspension
      <3>. QED
        BY <1>4, <1>5, <1>6, <3>1 DEF ProgInv, StatusOK
    <2>. QED
      BY <1>8, <2>1
  <1>11. CASE LeaveSuspension(t)
    <2>1. CASE ~Resumed(t)
      <3>1. pc[t] = "woken"
        BY <1>11 DEF LeaveSuspension
      <3>2. pc' = [pc EXCEPT ![t] = "wait"] /\ UNCHANGED <<scsw, dev>>
        BY <1>4, <1>11, <2>1, <3>1 DEF LeaveSuspension
      <3>. QED
        BY <1>4, <1>5, <1>6, <3>1, <3>2 DEF ProgInv, StatusOK
    <2>. QED
      BY <1>8, <2>1
  <1>. QED
    BY <1>9, <1>10, <1>11

\* The four ends of a program.
LEMMA EndProgram ==
    ASSUME ProgInv, NEW t \in Thread,
           FinalStatus(t) \/ CompleteAttention(t) \/ CompleteClear(t) \/ CompleteHalt(t)
    PROVE  OneProgram' /\ StatusOK'
  <1>1. scsw \in Scsw /\ dev \in DevBlk
    BY DEF ProgInv, TypeOK
  <1>2. /\ pc[t] \in {"final", "attention", "clear", "halt"}
        /\ pc' = [pc EXCEPT ![t] = "end update"] /\ UNCHANGED <<queued, cpu>>
        /\ \E flags : dev' = [dev EXCEPT !.busy = FALSE, !.local = FALSE, !.flags = flags]
    BY DEF FinalStatus, CompleteAttention, CompleteClear, CompleteHalt, EndWith, Goto
  <1>3. Running(t)
    BY <1>2, OnlyProgram DEF ProgInv, Ended
  <1>4. /\ dev.busy /\ ~dev.startpending
        /\ ~dev.suspended /\ ~scsw.susp
    BY <1>2, <1>3 DEF Running, Flags, Asleep, Suspension
  <1>5. "pri" \notin scsw.sc
    BY <1>4 DEF ProgInv, StatusOK
  <1>6. ~scsw'.susp /\ ("pri" \in scsw'.sc => "pend" \in scsw'.sc)
    <2>1. CASE FinalStatus(t)
      <3>1. \E unusual :
              scsw' = [scsw EXCEPT !.sc = @ \cup {"pri", "sec", "pend"} \cup unusual]
        BY <2>1 DEF FinalStatus, EndWith
      <3>. QED
        BY <1>1, <1>4, <3>1 DEF Scsw
    <2>2. CASE CompleteAttention(t)
      BY <1>4, <1>5, <2>2 DEF CompleteAttention, EndWith
    <2>3. CASE CompleteClear(t)
      BY <2>3 DEF CompleteClear, EndWith, ZeroScsw
    <2>4. CASE CompleteHalt(t)
      <3>1. scsw' = [scsw EXCEPT !.ac = @ \ {"halt"}, !.sc = @ \cup {"pend"}]
        BY <2>4 DEF CompleteHalt, EndWith
      <3>. QED
        BY <1>1, <1>4, <3>1 DEF Scsw
    <2>. QED
      BY <2>1, <2>2, <2>3, <2>4
  <1>7. Flags(FALSE, FALSE, FALSE, FALSE, FALSE)'
    BY <1>1, <1>2, <1>4, <1>6 DEF Flags, DevBlk
  <1>8. OneProgram'
    BY <1>2, <1>3, <1>7, ProgramEnded
  <1>. QED
    BY <1>6, <1>7, <1>8 DEF StatusOK, Flags

\* The update of the interrupt flag is over: back to the chain, or to rest.
LEMMA UpdateProgram ==
    ASSUME ProgInv, NEW t \in Thread, UpdateThread(t)
    PROVE  OneProgram' /\ StatusOK'
  <1>1. /\ UNCHANGED <<scsw, dev, queued, cpu>> /\ pc[t] \in Updating
        /\ pc' = [pc EXCEPT ![t] = AfterUpdate[pc[t]]]
    BY DEF UpdateThread, Goto, word
  <1>2. CASE pc[t] = "end update"
    <2>1. pc' = [pc EXCEPT ![t] = "idle"]
      BY <1>1, <1>2 DEF AfterUpdate, Updating
    <2>2. \A u \in Thread : pc'[u] # pc[u] => pc[u] \in Ended /\ pc'[u] \in Ended
      BY <1>2, <2>1 DEF ProgInv, TypeOK, Ended
    <2>3. CASE NotRunning
      <3>1. NotRunning'
        BY <2>2, <2>3 DEF NotRunning
      <3>2. pc[t] \in Ended /\ \A u \in Thread : ~Running(u)
        BY <2>3 DEF NotRunning, Running
      <3>. QED
        BY <1>1, <3>1, <3>2 DEF ProgInv, OneProgram, Free, Requested, Issued,
                                NotIssued, Flags, StatusOK
    <2>4. CASE \E u \in Thread : Running(u)
      <3>1. PICK u \in Thread : Running(u)
        BY <2>4
      <3>2. pc'[u] = pc[u] /\ \A v \in Thread : pc'[v] \notin Ended <=> v = u
        BY <2>2, <3>1 DEF Running
      <3>3. Running(u)'
        BY <1>1, <3>1, <3>2 DEF Running, NotIssued, Flags
      <3>. QED
        BY <1>1, <3>3 DEF ProgInv, OneProgram, StatusOK
    <2>. QED
      BY <2>3, <2>4 DEF ProgInv, OneProgram, Free, Requested, Issued
  <1>3. CASE pc[t] # "end update"
    <2>1. PICK next : /\ pc' = [pc EXCEPT ![t] = next]
                      /\ \/ pc[t] = "suspend update" /\ next = "suspending"
                         \/ pc[t] \in {"initial update", "pci update"}
                            /\ next \in {"loop", "exec"}
      BY <1>1, <1>3 DEF AfterUpdate, Updating
    <2>2. Running(t)
      BY <2>1, OnlyProgram DEF ProgInv, Ended
    <2>3. Flags(TRUE, FALSE, TRUE, FALSE, pc[t] = "suspend update")
      BY <2>1, <2>2 DEF Running, Flags, Asleep, Suspension
    <2>4. /\ next \notin Ended /\ next # "taken" /\ next \notin Asleep
          /\ (next \in Suspension <=> pc[t] = "suspend update")
      BY <2>1 DEF Ended, Asleep, Suspension
    <2>5. Flags(TRUE, next = "taken", next \notin {"taken"} \cup Asleep,
                next \in Asleep, next \in Suspension)'
      BY <1>1, <2>3, <2>4 DEF Flags
    <2>6. OneProgram'
      BY <1>1, <2>1, <2>2, <2>4, <2>5, ProgramGoesOn
    <2>. QED
      BY <1>1, <2>6 DEF ProgInv, StatusOK
  <1>. QED
    BY <1>2, <1>3

LEMMA ProgInit == Init => ProgInv
  <1>. SUFFICES ASSUME Init PROVE ProgInv
    OBVIOUS
  <1>1. Free
    BY DEF Init, IdleDev, ZeroScsw, Free, NotIssued, NotRunning, Flags, Ended
  <1>2. StatusOK
    BY DEF Init, ZeroScsw, StatusOK
  <1>. QED
    BY <1>1, <1>2, TypeInit DEF ProgInv, OneProgram

LEMMA ProgStep == Restrained /\ ProgInv /\ [Next]_vars => ProgInv'
  <1>. SUFFICES ASSUME Restrained, ProgInv, [Next]_vars PROVE ProgInv'
    OBVIOUS
  <1>1. TypeOK'
    BY TypeStep DEF ProgInv
  <1>2. CASE UNCHANGED vars
    <2>1. OneProgram'
      BY <1>2, PlaceKept DEF ProgInv, vars, word, chain
    <2>2. StatusOK'
      BY <1>2 DEF ProgInv, StatusOK, vars, word
    <2>. QED
      BY <1>1, <2>1, <2>2 DEF ProgInv
  <1>3. ~ResetDevice /\ ~Attention
    BY DEF Restrained, ResetDevice, Attention
  <1>4. CASE UpdateAttention
    <2>1. UNCHANGED <<word, dev, queued, cpu, chain>>
      BY <1>4 DEF UpdateAttention
    <2>2. OneProgram'
      BY <2>1, PlaceKept DEF ProgInv, word, chain
    <2>3. StatusOK'
      BY <2>1 DEF ProgInv, StatusOK, word
    <2>. QED
      BY <1>1, <2>2, <2>3 DEF ProgInv
  <1>5. ASSUME NEW t \in Thread, ChainStep(t) PROVE ProgInv'
    BY <1>1, <1>5, TakeProgram, WorkProgram, SuspendResumeProgram, EndProgram,
       UpdateProgram DEF ChainStep, ProgInv
  <1>6. ASSUME NEW c \in Cpu,
               \/ StartSubchannel(c) \/ QueueRequest(c) \/ CancelSubchannel(c)
               \/ TestSubchannel(c) \/ ClearSubchannel(c) \/ HaltSubchannel(c)
               \/ ResumeSubchannel(c) \/ UpdateCpu(c) \/ PresentNothing(c)
               \/ \E i \in Interrupts : PresentInterrupt(c, i)
        PROVE  ProgInv'
    BY <1>1, <1>6, StartProgram, QueueProgram, CancelProgram, TestProgram,
       ClearProgram, HaltProgram, ResumeProgram, PresentProgram DEF ProgInv
  <1>. QED
    BY <1>2, <1>3, <1>4, <1>5, <1>6 DEF Next

LEMMA ProgInvariant == ASSUME Restrained PROVE Spec => []ProgInv
  <1>1. ProgInv /\ [Next]_vars => ProgInv'
    BY ProgStep
  <1>. QED
    BY <1>1, ProgInit, PTL DEF Spec

\* Counted as the property counts them, the programs in progress are one or none.
LEMMA ProgramsCounted == OneProgram => BusyWithOneProgram
  <1>. SUFFICES ASSUME OneProgram PROVE Programs = IF dev.busy THEN 1 ELSE 0
    BY DEF BusyWithOneProgram
  <1>. DEFINE S == Cardinality({c \in Cpu : cpu[c] = "queue"})
              A == Cardinality({t \in Thread : pc[t] \notin {"idle", "end update"}})
  <1>1. Programs = S + queued + A
    BY DEF Programs
  <1>2. NotIssued => S = 0
    <2>1. NotIssued => {c \in Cpu : cpu[c] = "queue"} = {}
      BY DEF NotIssued
    <2>. QED
      BY <2>1, FS_EmptySet
  <1>3. NotRunning => A = 0
    <2>1. NotRunning => {t \in Thread : pc[t] \notin {"idle", "end update"}} = {}
      BY DEF NotRunning, Ended
    <2>. QED
      BY <2>1, FS_EmptySet
  <1>4. ASSUME NEW c \in Cpu, Issued(c) PROVE S = 1
    <2>1. {d \in Cpu : cpu[d] = "queue"} = {c}
      BY <1>4 DEF Issued
    <2>. QED
      BY <2>1, FS_Singleton
  <1>5. ASSUME NEW t \in Thread, Running(t) PROVE A = 1
    <2>1. {u \in Thread : pc[u] \notin {"idle", "end update"}} = {t}
      BY <1>5 DEF Running, Ended
    <2>. QED
      BY <2>1, FS_Singleton
  <1>. HIDE DEF S, A
  <1>6. ASSUME Free PROVE Programs = 0 /\ ~dev.busy
    <2>1. S = 0 /\ queued = 0 /\ A = 0 /\ ~dev.busy
      BY <1>2, <1>3, <1>6 DEF Free, Flags
    <2>. QED
      BY <1>1, <2>1
  <1>7. ASSUME Requested PROVE Programs = 1 /\ dev.busy
    <2>1. S = 0 /\ queued = 1 /\ A = 0 /\ dev.busy
      BY <1>2, <1>3, <1>7 DEF Requested, Flags
    <2>. QED
      BY <1>1, <2>1
  <1>8. ASSUME NEW c \in Cpu, Issued(c) PROVE Programs = 1 /\ dev.busy
    <2>1. S = 1 /\ queued = 0 /\ A = 0 /\ dev.busy
      BY <1>3, <1>4, <1>8 DEF Issued, Flags
    <2>. QED
      BY <1>1, <2>1
  <1>9. ASSUME NEW t \in Thread, Running(t) PROVE Programs = 1 /\ dev.busy
    <2>1. S = 0 /\ queued = 0 /\ A = 1 /\ dev.busy
      BY <1>2, <1>5, <1>9 DEF Running, Flags
    <2>. QED
      BY <1>1, <2>1
  <1>. QED
    BY <1>6, <1>7, <1>8, <1>9 DEF OneProgram

\* Whatever a restrained guest issues, and however its instructions interleave
\* with the threads, the device is busy exactly while one program is with a
\* CPU in startio, on the request queue or with a thread, and never with two.
THEOREM OneProgramAtATime == ASSUME Restrained PROVE Spec => []BusyWithOneProgram
  <1>1. ProgInv => BusyWithOneProgram
    BY ProgramsCounted DEF ProgInv
  <1>. QED
    BY <1>1, ProgInvariant, PTL

\* Primary status is there only while the device is free, and then no thread
\* but one that ends its update of the interrupt flag moves.
LEMMA EndingStatusStep ==
    ASSUME ProgInv, [Next]_vars, NEW t \in Thread, pc'[t] # pc[t],
           "pri" \in scsw.sc
    PROVE  "pri" \in scsw'.sc
  <1>. USE DEF word, inter, chain
  <1>1. Free
    BY DEF ProgInv, OneProgram, StatusOK, Requested, Issued, Running, Flags
  <1>2. pc[t] \in Ended /\ queued = 0
    BY <1>1 DEF Free, NotRunning
  <1>3. ~(SignalResume \/ UNCHANGED pc)
    BY <1>1, SignalNobody DEF Free, NotRunning, Ended
  <1>4. ASSUME NEW c \in Cpu,
               \/ StartSubchannel(c) \/ QueueRequest(c) \/ CancelSubchannel(c)
               \/ TestSubchannel(c) \/ ClearSubchannel(c) \/ HaltSubchannel(c)
               \/ ResumeSubchannel(c) \/ UpdateCpu(c) \/ PresentNothing(c)
               \/ \E i \in Interrupts : PresentInterrupt(c, i)
        PROVE  FALSE
    <2>1. ~StartSubchannel(c) /\ ~QueueRequest(c)
      BY <1>3 DEF StartSubchannel, QueueRequest
    <2>2. ~CancelSubchannel(c) /\ ~HaltSubchannel(c) /\ ~ResumeSubchannel(c) /\ ~ClearSubchannel(c)
      BY <1>3 DEF CancelSubchannel, HaltSubchannel, ResumeSubchannel, ClearSubchannel, SignalIf
    <2>3. ~TestSubchannel(c) /\ ~UpdateCpu(c) /\ ~PresentNothing(c)
      BY <1>3 DEF TestSubchannel, UpdateCpu, PresentNothing
    <2>4. \A i \in Interrupts : ~PresentInterrupt(c, i)
      BY <1>3 DEF PresentInterrupt
    <2>. QED
      BY <1>4, <2>1, <2>2, <2>3, <2>4
  <1>5. ~ResetDevice /\ ~Attention /\ ~UpdateAttention /\ ~UNCHANGED vars
    BY <1>3 DEF ResetDevice, Attention, UpdateAttention, SignalIf, vars
  <1>6. PICK u \in Thread : ChainStep(u)
    BY <1>4, <1>5 DEF Next
  <1>7. pc[u] \in Ended
    BY <1>1 DEF Free, NotRunning
  <1>8. UpdateThread(u)
    <2>1. ~TakeRequest(u)
      BY <1>2 DEF TakeRequest
    <2>2. ~BeginChain(u) /\ ~ReadFlag2(u) /\ ~WriteFlag2(u) /\ ~InitialStatus(u)
          /\ ~TestRequests(u) /\ ~RaisePci(u) /\ ~SuspendProgram(u)
          /\ ~EnterSuspension(u) /\ ~LeaveSuspension(u)
      BY <1>7 DEF BeginChain, ReadFlag2, WriteFlag2, InitialStatus, TestRequests,
                  RaisePci, SuspendProgram, EnterSuspension, LeaveSuspension, Ended
    <2>3. ~ExecuteCcw(u)
      BY <1>7 DEF ExecuteCcw, Ended
    <2>4. ~FinalStatus(u) /\ ~CompleteAttention(u) /\ ~CompleteClear(u) /\ ~CompleteHalt(u)
      BY <1>7 DEF FinalStatus, CompleteAttention, CompleteClear, CompleteHalt, EndWith, Ended
    <2>. QED
      BY <1>6, <2>1, <2>2, <2>3, <2>4 DEF ChainStep
  <1>. QED
    BY <1>8 DEF UpdateThread

\* The guest gets the ending status of its program: from the moment a thread
\* stores primary status until the guest fetches or clears it, no step of a
\* device thread takes it back.
THEOREM EndingStatusStays == ASSUME Restrained PROVE Spec => EndingStatusKept
  <1>1. ProgInv /\ [Next]_vars
          => [\A t \in Thread : pc'[t] # pc[t] /\ "pri" \in scsw.sc => "pri" \in scsw'.sc]_vars
    BY EndingStatusStep
  <1>. QED
    BY <1>1, ProgInvariant, PTL DEF Spec, EndingStatusKept
=============================================================================
