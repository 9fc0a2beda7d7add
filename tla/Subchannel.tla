------------------------------ MODULE Subchannel ------------------------------
(* One subchannel: the status words, flags and interrupts of a device block, *)
(* the I/O instructions that CPUs issue to it, and the device threads that   *)
(* execute its channel programs (execute_ccw_chain), all in channel.c.       *)
(*                                                                           *)
(* One action is one critical section of dev->lock, or one access the code   *)
(* makes without it.  Releasing dev->lock before intlock is taken to update  *)
(* the CPUs' interrupt flag is a point where others run, so the update is an *)
(* action of its own.  The request queue is DeviceThreads's; here it holds   *)
(* this device's request or not.  The device is not reserved, not shared and *)
(* not eligible for synchronous I/O.                                         *)
EXTENDS Naturals, FiniteSets

CONSTANTS
    Cpu, Thread,
    Orbs,       \* the requests a guest makes: [s, i, u : BOOLEAN], the ORB's
                \* suspend control, initial status and suppress-suspend bits
    MaxCcw,     \* CCWs of a channel program, before its last, that chain or
                \* suspend
    Instr       \* what happens: "SSCH" "TSCH" "HSCH" "CSCH" "RSCH" "XSCH"
                \* "RCHP", "ATTN" (the device raises attention); a guest may
                \* issue "SSCH suspended", "CSCH suspended" (while its program
                \* is suspended) and "HSCH startpending" (before it begins)

ASSUME SubchannelAssumption ==
    /\ Orbs \subseteq [s : BOOLEAN, i : BOOLEAN, u : BOOLEAN]
    /\ MaxCcw \in Nat

VARIABLES
    scsw,       \* the subchannel status word
    pcipend,    \* status pending in dev->pciscsw
    attnpend,   \* status pending in dev->attnscsw
    dev,        \* flags of the device block
    intq,       \* this device's entries of sysblk.iointq
    iopending,  \* IC_IOPENDING
    queued,     \* 0: not on sysblk.ioq, 1: on it, 2: linked to itself
    cpu,        \* per CPU: what is left of its instruction
    attnupd,    \* device_attention has queued, not yet updated iopending
    pc, left,   \* per thread: where in the chain, CCWs left
    saved,      \* per thread: flag2 as read for the unlocked update
    notified    \* history: the pending status has been presented, or is one
                \* the guest asked not to be told of

word  == <<scsw, pcipend, attnpend>>
inter == <<intq, iopending, notified>>
chain == <<pc, left, saved>>
vars  == <<word, dev, inter, queued, cpu, attnupd, chain>>

Functions  == {"start", "halt", "clear"}
Activities == {"resume", "start", "halt", "clear"}
Statuses   == {"alert", "inter", "pri", "sec", "pend"}
Interrupts == {"io", "pci", "attn"}

Scsw == [fc : SUBSET Functions, ac : SUBSET Activities, susp : BOOLEAN,
         sc : SUBSET Statuses, orb : [s : BOOLEAN, i : BOOLEAN, u : BOOLEAN]]
NoOrb    == [s |-> FALSE, i |-> FALSE, u |-> FALSE]
ZeroScsw == [fc |-> {}, ac |-> {}, susp |-> FALSE, sc |-> {}, orb |-> NoOrb]

DevBlk  == [busy : BOOLEAN, local : BOOLEAN, startpending : BOOLEAN,
            suspended : BOOLEAN, flags : SUBSET Interrupts]
IdleDev == [busy |-> FALSE, local |-> FALSE, startpending |-> FALSE,
            suspended |-> FALSE, flags |-> {}]

\* Threads about to update iopending, and where they go from there.
Updating == {"initial update", "pci update", "suspend update", "end update"}
ChainPc  == {"idle", "taken", "read", "write", "initial", "loop", "ccw", "pci",
             "exec", "suspend", "suspending", "wait", "woken", "final",
             "attention", "clear", "halt"} \cup Updating

\* Types: every variable stays in its range; the request queue never holds
\* fewer than no or more than two links of this device.
TypeOK ==
    /\ scsw \in Scsw /\ pcipend \in BOOLEAN /\ attnpend \in BOOLEAN
    /\ dev \in DevBlk
    /\ intq \in SUBSET Interrupts /\ iopending \in BOOLEAN /\ notified \in BOOLEAN
    /\ queued \in 0 .. 2
    /\ cpu \in [Cpu -> {"run", "queue", "update"}]
    /\ attnupd \in BOOLEAN
    /\ pc \in [Thread -> ChainPc] /\ left \in [Thread -> 0 .. MaxCcw]
    /\ saved \in [Thread -> [fc : SUBSET Functions, ac : SUBSET Activities]]

Nothing == [fc |-> {}, ac |-> {}]

Init ==
    /\ scsw = ZeroScsw /\ pcipend = FALSE /\ attnpend = FALSE
    /\ dev = IdleDev
    /\ intq = {} /\ iopending = FALSE /\ notified = FALSE
    /\ queued = 0
    /\ cpu = [c \in Cpu |-> "run"]
    /\ attnupd = FALSE
    /\ pc = [t \in Thread |-> "idle"]
    /\ left = [t \in Thread |-> 0]
    /\ saved = [t \in Thread |-> Nothing]

-----------------------------------------------------------------------------
(* Shared pieces.                                                            *)

Pending       == "pend" \in scsw.sc
AnyPending    == Pending \/ pcipend \/ attnpend
\* Seeded defects: a pending start, or a running program, is overlooked.
ActiveLocalBegun   == dev.busy /\ dev.local
ActiveLocalPending == dev.startpending

ActiveLocal   == (dev.busy /\ dev.local) \/ dev.startpending

\* QUEUE_IO_INTERRUPT and DEQUEUE_IO_INTERRUPT on the queue, and what they
\* leave in the flags: dequeuing clears the flag only of a queued entry.
QueueIo          == intq' = intq \cup {"io"} /\ notified' = FALSE
Dequeued(i)      == IF i \in intq THEN dev.flags \ {i} ELSE dev.flags

\* Seeded defect: the request is unlinked although it is not on the queue.
AfterRemovalBlind == queued - 1

\* Removing the request; a request linked to itself stays.
AfterRemoval == IF queued = 1 THEN 0 ELSE queued

\* signal_condition(&dev->resumecond) wakes one waiting thread, if any.
SignalResume ==
    \/ \E t \in Thread : pc[t] = "wait" /\ pc' = [pc EXCEPT ![t] = "woken"]
    \/ (\A t \in Thread : pc[t] # "wait") /\ UNCHANGED pc

SignalIf(condition) ==
    \/ condition /\ SignalResume
    \/ ~condition /\ UNCHANGED pc

Resume(ac) == IF scsw.susp THEN ac \cup {"resume"} ELSE ac

-----------------------------------------------------------------------------
(* Instructions.  Condition codes other than 0 change nothing, but for TSCH. *)

\* startio under dev->lock.
StartSubchannel(c) ==
    /\ "SSCH" \in Instr /\ cpu[c] = "run"
    /\ scsw.susp => "SSCH suspended" \in Instr
    /\ ~AnyPending /\ ~ActiveLocal
    /\ \E orb \in Orbs :
          scsw' = [ZeroScsw EXCEPT !.fc = {"start"}, !.ac = {"start"}, !.orb = orb]
    /\ dev' = [dev EXCEPT !.busy = TRUE, !.startpending = TRUE]
    /\ cpu' = [cpu EXCEPT ![c] = "queue"]
    /\ UNCHANGED <<pcipend, attnpend, inter, queued, attnupd, chain>>

\* startio under ioqlock.  A third insertion never returns: DeviceThreads.
QueueRequest(c) ==
    /\ cpu[c] = "queue" /\ queued < 2
    /\ queued' = queued + 1
    /\ cpu' = [cpu EXCEPT ![c] = "run"]
    /\ UNCHANGED <<word, dev, inter, attnupd, chain>>

\* cancel_subchan.
CancelSubchannel(c) ==
    /\ "XSCH" \in Instr /\ cpu[c] = "run"
    /\ ~AnyPending /\ queued > 0
    /\ queued' = AfterRemoval
    /\ SignalIf(scsw.susp)
    /\ scsw' = [scsw EXCEPT !.ac = @ \ {"resume", "start"}, !.fc = @ \ {"start"},
                            !.susp = FALSE]
    /\ dev' = [dev EXCEPT !.busy = FALSE, !.startpending = FALSE,
                          !.suspended = @ /\ ~scsw.susp]
    /\ UNCHANGED <<pcipend, attnpend, inter, cpu, attnupd, left, saved>>

\* test_subchan, in the order the status words are looked at.
TestPci ==
    /\ pcipend /\ pcipend' = FALSE
    /\ intq' = intq \ {"pci"}
    /\ dev' = [dev EXCEPT !.flags = @ \ {"pci"}]
    /\ UNCHANGED <<scsw, attnpend, notified>>

TestStatus ==
    /\ ~pcipend /\ Pending
    /\ LET started == scsw.fc \cap {"start", "halt"} = {"start"} /\ scsw.susp
       IN  scsw' =
             IF scsw.sc # {"inter", "pend"}
             THEN [scsw EXCEPT !.fc = {}, !.ac = {}, !.susp = FALSE, !.sc = {}]
             ELSE [scsw EXCEPT
                     !.fc = IF "halt" \in @ /\ scsw.susp THEN {} ELSE @,
                     !.ac = IF started THEN @ \ {"resume"} ELSE @,
                     !.sc = {}]
    /\ intq' = intq \ {"io"} /\ notified' = FALSE
    /\ dev' = [dev EXCEPT !.flags = Dequeued("io")]
    /\ UNCHANGED <<pcipend, attnpend>>

TestAttention ==
    /\ ~pcipend /\ ~Pending /\ attnpend /\ attnpend' = FALSE
    /\ intq' = intq \ {"attn"}
    /\ dev' = [dev EXCEPT !.flags = @ \ {"attn"}]
    /\ UNCHANGED <<scsw, pcipend, notified>>

TestNothing ==
    /\ ~AnyPending
    /\ intq' = intq \ {"io"}
    /\ dev' = [dev EXCEPT !.flags = Dequeued("io")]
    /\ UNCHANGED <<word, notified>>

TestSubchannel(c) ==
    /\ "TSCH" \in Instr /\ cpu[c] = "run"
    /\ TestPci \/ TestStatus \/ TestAttention \/ TestNothing
    /\ cpu' = [cpu EXCEPT ![c] = "update"]
    /\ UNCHANGED <<iopending, queued, attnupd, chain>>

\* clear_subchan: the program is told to end, or the clear completes here.
ClearSubchannel(c) ==
    /\ "CSCH" \in Instr /\ cpu[c] = "run"
    /\ scsw.susp => "CSCH suspended" \in Instr
    /\ \/ /\ ActiveLocal
          /\ scsw' = [scsw EXCEPT !.fc = @ \cup {"clear"},
                                  !.ac = Resume(@ \cup {"clear"})]
          /\ SignalIf(scsw.susp)
          /\ UNCHANGED <<dev, intq, notified, cpu>>
       \/ /\ ~ActiveLocal
          /\ scsw' = [ZeroScsw EXCEPT !.fc = {"clear"}, !.sc = {"pend"}]
          /\ dev' = [dev EXCEPT !.flags = (@ \ {"pci"}) \cup {"io"}]
          /\ QueueIo
          /\ cpu' = [cpu EXCEPT ![c] = "update"]
          /\ UNCHANGED pc
    /\ UNCHANGED <<pcipend, attnpend, iopending, queued, attnupd, left, saved>>

\* halt_subchan.
HaltRefused ==
    \/ scsw.sc = {"pend"}
    \/ Pending /\ scsw.sc \cap {"alert", "pri", "sec"} # {}
    \/ scsw.ac \cap {"halt", "clear"} # {}

HaltSubchannel(c) ==
    /\ "HSCH" \in Instr /\ cpu[c] = "run" /\ ~HaltRefused
    /\ dev.startpending => "HSCH startpending" \in Instr
    /\ \/ /\ ActiveLocal \/ dev.suspended
          /\ scsw' = [scsw EXCEPT !.fc = @ \cup {"halt"},
                                  !.ac = Resume(@ \cup {"halt"}),
                                  !.sc = @ \ {"pend"}]
          /\ dev' = [dev EXCEPT !.flags = {}, !.startpending = FALSE]
          /\ SignalIf(scsw.susp)
          /\ queued' = IF dev.startpending THEN AfterRemoval ELSE queued
          /\ UNCHANGED <<intq, notified, cpu>>
       \/ /\ ~ActiveLocal /\ ~dev.suspended
          /\ scsw' = [scsw EXCEPT !.fc = @ \cup {"halt"}, !.sc = @ \cup {"pend"}]
          /\ dev' = [dev EXCEPT !.flags = (@ \ {"pci"}) \cup {"io"}]
          /\ QueueIo
          /\ cpu' = [cpu EXCEPT ![c] = "update"]
          /\ UNCHANGED <<queued, pc>>
    /\ UNCHANGED <<pcipend, attnpend, iopending, attnupd, left, saved>>

\* resume_subchan.
ResumeSubchannel(c) ==
    /\ "RSCH" \in Instr /\ cpu[c] = "run"
    /\ ~Pending /\ scsw.fc = {"start"} /\ "resume" \notin scsw.ac /\ scsw.orb.s
    /\ scsw' = [scsw EXCEPT !.ac = @ \cup {"resume"}]
    /\ SignalResume
    /\ UNCHANGED <<pcipend, attnpend, dev, inter, queued, cpu, attnupd, left, saved>>

\* device_reset: everything but the request queue.  No update of iopending.
ResetDevice ==
    /\ "RCHP" \in Instr
    /\ scsw' = ZeroScsw /\ pcipend' = FALSE /\ attnpend' = FALSE
    /\ dev' = IdleDev
    /\ intq' = {} /\ notified' = FALSE
    /\ SignalIf(dev.suspended)
    /\ UNCHANGED <<iopending, queued, cpu, attnupd, left, saved>>

\* UPDATE_IC_IOPENDING at the end of an instruction.
UpdateCpu(c) ==
    /\ cpu[c] = "update"
    /\ cpu' = [cpu EXCEPT ![c] = "run"]
    /\ iopending' = (intq # {})
    /\ UNCHANGED <<word, dev, intq, notified, queued, attnupd, chain>>

\* present_io_interrupt on a CPU enabled for the device, with intlock held.
PresentInterrupt(c, i) ==
    /\ cpu[c] = "run" /\ iopending /\ i \in intq
    /\ intq' = intq \ {i}
    /\ dev' = [dev EXCEPT !.flags = @ \ {i}]
    /\ notified' = (notified \/ (i = "io" /\ Pending))
    /\ iopending' = (intq' # {})
    /\ UNCHANGED <<word, queued, cpu, attnupd, chain>>

\* The interrupt was fetched with TSCH, or reset, in the meantime.
PresentNothing(c) ==
    /\ cpu[c] = "run" /\ iopending /\ intq = {}
    /\ iopending' = FALSE
    /\ UNCHANGED <<word, dev, intq, notified, queued, cpu, attnupd, chain>>

-----------------------------------------------------------------------------
(* device_attention, called by the device's own thread.                      *)

Attention ==
    /\ "ATTN" \in Instr /\ ~attnupd
    /\ \/ /\ dev.busy \/ dev.flags # {} \/ Pending
          /\ scsw.susp
          /\ scsw' = [scsw EXCEPT !.sc = @ \cup {"alert", "pend"},
                                  !.ac = @ \cup {"resume"}]
          /\ SignalResume
          /\ UNCHANGED <<attnpend, dev, intq, attnupd>>
       \/ /\ ~dev.busy /\ dev.flags = {} /\ ~Pending
          /\ attnpend' = TRUE
          /\ intq' = intq \cup {"attn"}
          /\ dev' = [dev EXCEPT !.flags = {"attn"}]
          /\ attnupd' = TRUE
          /\ UNCHANGED <<scsw, pc>>
    /\ UNCHANGED <<pcipend, iopending, notified, queued, cpu, left, saved>>

UpdateAttention ==
    /\ attnupd /\ attnupd' = FALSE
    /\ iopending' = (intq # {})
    /\ UNCHANGED <<word, dev, intq, notified, queued, cpu, chain>>

-----------------------------------------------------------------------------
(* device_thread and execute_ccw_chain.                                      *)

Goto(t, next) == pc' = [pc EXCEPT ![t] = next]

TakeRequest(t) ==
    /\ pc[t] = "idle" /\ queued > 0
    /\ queued' = AfterRemoval /\ Goto(t, "taken")
    /\ UNCHANGED <<word, dev, inter, cpu, attnupd, left, saved>>

BeginChain(t) ==
    /\ pc[t] = "taken"
    /\ dev' = [dev EXCEPT !.local = TRUE, !.startpending = FALSE]
    /\ Goto(t, "read")
    /\ UNCHANGED <<word, inter, queued, cpu, attnupd, left, saved>>

\* scsw.flag2 &= ~SCSW2_AC_START without a lock: a read and a write.
ReadFlag2(t) ==
    /\ pc[t] = "read"
    /\ saved' = [saved EXCEPT ![t] = [fc |-> scsw.fc, ac |-> scsw.ac]]
    /\ Goto(t, "write")
    /\ UNCHANGED <<word, dev, inter, queued, cpu, attnupd, left>>

WriteFlag2(t) ==
    /\ pc[t] = "write"
    /\ scsw' = [scsw EXCEPT !.fc = saved[t].fc, !.ac = saved[t].ac \ {"start"}]
    /\ saved' = [saved EXCEPT ![t] = Nothing]
    /\ left' = [left EXCEPT ![t] = MaxCcw]
    /\ Goto(t, IF scsw.orb.i THEN "initial" ELSE "loop")
    /\ UNCHANGED <<pcipend, attnpend, dev, inter, queued, cpu, attnupd>>

InitialStatus(t) ==
    /\ pc[t] = "initial"
    /\ scsw' = [scsw EXCEPT !.susp = FALSE, !.sc = {"inter", "pend"}]
    /\ dev' = [dev EXCEPT !.flags = @ \cup {"io"}]
    /\ QueueIo /\ Goto(t, "initial update")
    /\ UNCHANGED <<pcipend, attnpend, iopending, queued, cpu, attnupd, left, saved>>

\* The tests at the head of the loop read the status word without dev->lock.
TestRequests(t) ==
    /\ pc[t] = "loop"
    /\ Goto(t, IF "alert" \in scsw.sc THEN "attention"
               ELSE IF "clear" \in scsw.ac THEN "clear"
               ELSE IF "halt" \in scsw.ac THEN "halt" ELSE "ccw")
    /\ UNCHANGED <<word, dev, inter, queued, cpu, attnupd, left, saved>>

\* One CCW: the last or an invalid one, one to chain from, or one with the
\* PCI or the suspend flag (a program check without suspend control).
AfterCcw(t) ==
    \/ Goto(t, "final") /\ UNCHANGED left
    \/ /\ left[t] > 0 /\ left' = [left EXCEPT ![t] = @ - 1]
       /\ Goto(t, "loop")

ExecuteCcw(t) ==
    /\ \/ pc[t] \in {"ccw", "exec"} /\ AfterCcw(t)
       \/ pc[t] = "ccw" /\ Goto(t, "pci") /\ UNCHANGED left
       \/ /\ pc[t] = "ccw" /\ left[t] > 0 /\ left' = [left EXCEPT ![t] = @ - 1]
          /\ Goto(t, IF scsw.orb.s THEN "suspend" ELSE "final")
    /\ UNCHANGED <<word, dev, inter, queued, cpu, attnupd, saved>>

\* Seeded defect: the flag is not updated after the interrupt is queued.
RaisePciSilently(t) ==
    /\ pc[t] = "pci"
    /\ pcipend' = TRUE
    /\ intq' = intq \cup {"pci"}
    /\ dev' = [dev EXCEPT !.flags = @ \cup {"pci"}]
    /\ Goto(t, "exec")
    /\ UNCHANGED <<scsw, attnpend, iopending, notified, queued, cpu, attnupd, left, saved>>

RaisePci(t) ==
    /\ pc[t] = "pci"
    /\ pcipend' = TRUE
    /\ intq' = intq \cup {"pci"}
    /\ dev' = [dev EXCEPT !.flags = @ \cup {"pci"}]
    /\ Goto(t, "pci update")
    /\ UNCHANGED <<scsw, attnpend, iopending, notified, queued, cpu, attnupd, left, saved>>

\* Resume pending already: go on.  Otherwise suspend, and tell the guest
\* unless it asked not to be told, which gives up dev->lock on the way.
SuspendProgram(t) ==
    /\ pc[t] = "suspend"
    /\ \/ /\ "resume" \in scsw.ac
          /\ scsw' = [scsw EXCEPT !.ac = @ \ {"resume"}]
          /\ Goto(t, "loop")
          /\ UNCHANGED <<dev, intq, notified>>
       \/ /\ "resume" \notin scsw.ac /\ ~scsw.orb.u
          /\ scsw' = [scsw EXCEPT !.susp = TRUE, !.sc = {"inter", "pend"}]
          /\ dev' = [dev EXCEPT !.flags = @ \cup {"io"}]
          /\ QueueIo /\ Goto(t, "suspend update")
       \/ /\ "resume" \notin scsw.ac /\ scsw.orb.u
          /\ scsw' = [scsw EXCEPT !.susp = TRUE, !.sc = {"inter", "pend"}]
          /\ dev' = [dev EXCEPT !.local = FALSE, !.suspended = TRUE]
          /\ notified' = TRUE /\ Goto(t, "wait")
          /\ UNCHANGED intq
    /\ UNCHANGED <<pcipend, attnpend, iopending, queued, cpu, attnupd, left, saved>>

\* Seeded defect: the flag is left on when the program goes on.
ResumedSuspended(t) ==
    /\ dev' = [dev EXCEPT !.local = TRUE, !.busy = TRUE]
    /\ scsw' = [scsw EXCEPT !.susp = FALSE, !.ac = @ \ {"resume"}]
    /\ Goto(t, "loop")

Resumed(t) ==
    /\ dev' = [dev EXCEPT !.suspended = FALSE, !.local = TRUE, !.busy = TRUE]
    /\ scsw' = [scsw EXCEPT !.susp = FALSE, !.ac = @ \ {"resume"}]
    /\ Goto(t, "loop")

\* Seeded defect: the resume is not tested again.
EnterSuspensionBlind(t) ==
    /\ pc[t] = "suspending"
    /\ dev' = [dev EXCEPT !.local = FALSE, !.suspended = TRUE]
    /\ Goto(t, "wait")
    /\ UNCHANGED <<word, inter, queued, cpu, attnupd, left, saved>>

\* dev->lock again: the resume may have come while it was released.
EnterSuspension(t) ==
    /\ pc[t] = "suspending"
    /\ \/ "resume" \in scsw.ac /\ Resumed(t)
       \/ /\ "resume" \notin scsw.ac
          /\ dev' = [dev EXCEPT !.local = FALSE, !.suspended = TRUE]
          /\ Goto(t, "wait") /\ UNCHANGED scsw
    /\ UNCHANGED <<pcipend, attnpend, inter, queued, cpu, attnupd, left, saved>>

\* Back from wait_condition: wait again, resume, or end if reset or cancelled.
LeaveSuspension(t) ==
    /\ pc[t] = "woken"
    /\ \/ dev.suspended /\ "resume" \in scsw.ac /\ Resumed(t)
       \/ dev.suspended /\ "resume" \notin scsw.ac
          /\ Goto(t, "wait") /\ UNCHANGED <<scsw, dev>>
       \/ /\ ~dev.suspended
          /\ dev' = [dev EXCEPT !.busy = @ /\ ~dev.local, !.local = FALSE]
          /\ Goto(t, "idle") /\ UNCHANGED scsw
    /\ UNCHANGED <<pcipend, attnpend, inter, queued, cpu, attnupd, left, saved>>

\* Seeded defect: the device is not freed.
EndWithBusy(t, place, newscsw, flags) ==
    /\ pc[t] = place
    /\ scsw' = newscsw
    /\ dev' = [dev EXCEPT !.local = FALSE, !.flags = flags \cup {"io"}]
    /\ notified' = FALSE
    /\ Goto(t, "end update")
    /\ left' = [left EXCEPT ![t] = 0]
    /\ UNCHANGED <<pcipend, attnpend, iopending, queued, cpu, attnupd, saved>>

\* The device becomes free and the ending status interrupts.
EndWith(t, place, newscsw, flags) ==
    /\ pc[t] = place
    /\ scsw' = newscsw
    /\ dev' = [dev EXCEPT !.busy = FALSE, !.local = FALSE, !.flags = flags \cup {"io"}]
    /\ notified' = FALSE
    /\ Goto(t, "end update")
    /\ left' = [left EXCEPT ![t] = 0]
    /\ UNCHANGED <<pcipend, attnpend, iopending, queued, cpu, attnupd, saved>>

FinalStatus(t) ==
    /\ \E unusual \in {{}, {"alert"}} :
          EndWith(t, "final",
            [scsw EXCEPT !.sc = @ \cup {"pri", "sec", "pend"} \cup unusual], dev.flags)
    /\ intq' = intq \cup {"io"}

CompleteAttention(t) ==
    /\ EndWith(t, "attention", scsw, dev.flags)
    /\ intq' = intq \cup {"io"}

CompleteClear(t) ==
    /\ EndWith(t, "clear",
         [ZeroScsw EXCEPT !.fc = scsw.fc \cap {"clear"}, !.sc = {"pend"}],
         dev.flags \ {"pci"})
    /\ intq' = (intq \ {"pci"}) \cup {"io"}

\* Seeded defect: the halt completes without an interrupt.
CompleteHaltSilently(t) ==
    /\ EndWith(t, "halt",
         [scsw EXCEPT !.ac = @ \ {"halt"}, !.sc = @ \cup {"pend"}],
         dev.flags \ {"pci"})
    /\ intq' = intq \ {"pci"}

CompleteHalt(t) ==
    /\ EndWith(t, "halt",
         [scsw EXCEPT !.ac = @ \ {"halt"}, !.sc = @ \cup {"pend"}],
         dev.flags \ {"pci"})
    /\ intq' = (intq \ {"pci"}) \cup {"io"}

\* UPDATE_IC_IOPENDING by a device thread.
AfterUpdate == [p \in Updating |->
    CASE p = "initial update" -> "loop"
      [] p = "pci update"     -> "exec"
      [] p = "suspend update" -> "suspending"
      [] p = "end update"     -> "idle"]

UpdateThread(t) ==
    /\ pc[t] \in Updating
    /\ Goto(t, AfterUpdate[pc[t]])
    /\ iopending' = (intq # {})
    /\ UNCHANGED <<word, dev, intq, notified, queued, cpu, attnupd, left, saved>>

-----------------------------------------------------------------------------
ChainStep(t) ==
    \/ TakeRequest(t) \/ BeginChain(t) \/ ReadFlag2(t) \/ WriteFlag2(t)
    \/ InitialStatus(t) \/ TestRequests(t) \/ ExecuteCcw(t) \/ RaisePci(t)
    \/ SuspendProgram(t) \/ EnterSuspension(t) \/ LeaveSuspension(t)
    \/ FinalStatus(t) \/ CompleteAttention(t) \/ CompleteClear(t)
    \/ CompleteHalt(t) \/ UpdateThread(t)

Next ==
    \/ \E c \in Cpu : \/ StartSubchannel(c) \/ QueueRequest(c)
                      \/ CancelSubchannel(c) \/ TestSubchannel(c)
                      \/ ClearSubchannel(c) \/ HaltSubchannel(c)
                      \/ ResumeSubchannel(c) \/ UpdateCpu(c)
                      \/ PresentNothing(c)
                      \/ \E i \in Interrupts : PresentInterrupt(c, i)
    \/ ResetDevice
    \/ Attention \/ UpdateAttention
    \/ \E t \in Thread : ChainStep(t)

Spec == Init /\ [][Next]_vars

(* CPUs finish their instructions, device threads run.  A CPU tests for      *)
(* interrupts before every instruction, so it takes them even if it always   *)
(* has another instruction to execute, and each of them, for the queue is    *)
(* first come first served.  What the CPU executes is up to the guest.       *)
Fairness ==
    /\ \A c \in Cpu : WF_vars(QueueRequest(c)) /\ WF_vars(UpdateCpu(c))
                      /\ \A i \in Interrupts : SF_vars(PresentInterrupt(c, i))
    /\ WF_vars(UpdateAttention)
    /\ \A t \in Thread : WF_vars(ChainStep(t))

FairSpec == Spec /\ Fairness

-----------------------------------------------------------------------------
(* Properties.                                                               *)

Updaters == attnupd \/ (\E c \in Cpu : cpu[c] = "update")
                    \/ (\E t \in Thread : pc[t] \in Updating)

\* No interrupt is overlooked: the CPUs test only IC_IOPENDING, which is
\* updated after dev->lock is released.  Whenever an interrupt is queued the
\* flag is on, or whoever queued one has yet to update it.
InterruptSeen == intq # {} => iopending \/ Updaters

\* No status is kept from the guest: status pending in the subchannel status
\* word is queued as an interrupt or has been presented, unless the program
\* is about to end with the attention that the device raised while suspended.
StatusReported ==
    Pending => \/ "io" \in intq \/ notified
               \/ /\ "alert" \in scsw.sc
                  /\ scsw.susp \/ \E t \in Thread : pc[t] \in {"loop", "attention"}

\* The programs in progress: with a CPU in startio, queued, or with a thread.
Programs == Cardinality({c \in Cpu : cpu[c] = "queue"}) + queued
            + Cardinality({t \in Thread : pc[t] \notin {"idle", "end update"}})

\* The device is busy exactly while one channel program is in progress, and
\* never two, if the guest leaves suspended and start pending programs alone.
BusyWithOneProgram == Programs = IF dev.busy THEN 1 ELSE 0

\* The guest gets the ending status of its program: no device thread takes
\* back or overwrites primary status that the guest has not fetched.
EndingStatusKept ==
    [][\A t \in Thread : pc'[t] # pc[t] /\ "pri" \in scsw.sc => "pri" \in scsw'.sc]_vars

\* A device does not stay busy: its program ends or suspends.
ProgramEnds == dev.busy ~> (~dev.busy \/ scsw.susp)

\* No lost resume: RSCH may come before, while and after the thread gives up
\* dev->lock to report the suspension; the program resumes all the same.
ResumeTakesEffect == scsw.susp /\ "resume" \in scsw.ac ~> ~scsw.susp

\* [15.4.2]: a halt that HSCH accepted is signalled and completed.
HaltCompletes == "halt" \in scsw.ac ~> "halt" \notin scsw.ac

\* The suspended flag, which lets HSCH, XSCH and reset find a suspended
\* program, is on only while a device thread is in its wait.
SuspendedHasThread == dev.suspended => \E t \in Thread : pc[t] \in {"wait", "woken"}
=============================================================================
