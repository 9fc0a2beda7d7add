----------------------------- MODULE IoInterrupts -----------------------------
(* I/O interrupts of several devices and several CPUs: the interrupt queue   *)
(* sysblk.iointq (hmacros.h), the interrupt flag of the CPUs (cpuint.h),     *)
(* process_interrupt (cpu.c) and present_io_interrupt (channel.c), TSCH,     *)
(* TPI and MSCH, and the CPUs that wait and stop.                            *)
(*                                                                           *)
(* One action is what a thread does while it holds intlock, or dev->lock, to *)
(* the next point where another can come in.  present_io_interrupt is two:   *)
(* it finds the interrupt, gives up iointqlk to obtain dev->lock, and looks  *)
(* again; all the time it holds intlock.  One entry per device stands for    *)
(* its three; of what a device does there are only its interrupts.           *)
EXTENDS Integers, Sequences, SequencesExt

CONSTANTS
    NCpu,       \* CPUs are numbered from 0: a wakeup goes to the lowest
    Dev,
    NoDev,      \* the NULL pointer
    Isc,        \* interruption subclasses, which are also the priorities
    Cr6,        \* the subclasses each CPU has on in control register 6, which
                \* the guest loads once
    Events      \* what happens besides: "inter" (intermediate status), "TSCH",
                \* "MSCH", "TPI", "stop"

Cpu == 0 .. NCpu - 1

ASSUME InterruptAssumption ==
    /\ NCpu \in Nat
    /\ NoDev \notin Dev
    /\ Isc \subseteq Nat /\ Isc # {}
    /\ Cr6 \in [Cpu -> SUBSET Isc]

VARIABLES
    iointq,     \* the queue
    qprio,      \* io->priority, copied when the entry was queued
    prio,       \* dev->priority, the subclass in the subchannel
    pend,       \* dev->pending
    status,     \* of the subchannel: see Statuses
    updating,   \* devices whose thread has yet to update the flag
    iopend,     \* IC_IOPENDING in sysblk.ints_state
    cpuio,      \* IC_IOPENDING in each CPU's ints_state
    kick,       \* IC_INTERRUPT in each CPU's ints_state
    iomask, waitpsw,    \* in the CPU's PSW: I/O enabled, wait
    state,      \* where each CPU is
    stopping,   \* CPUs with cpustate STOPPING
    found       \* the interrupt present_io_interrupt has found

device == <<iointq, qprio, pend>>
flag   == <<iopend, cpuio, kick>>
guest  == <<iomask, waitpsw>>
vars   == <<device, prio, status, updating, flag, guest, state, stopping, found>>

\* "check": about to test for interrupts before the next instruction.
\* "wait", "woken": in the wait, not yet and already signalled.  "found",
\* "tpi": in present_io_interrupt, holding intlock.  "update": TSCH has given
\* up dev->lock.
States  == {"run", "check", "wait", "woken", "found", "tpi", "update",
            "stopped"}
\* "inter": intermediate status is pending.  "busy": it was, and has been
\* fetched; the program is still running.  "final": ending status is pending.
Statuses == {"none", "inter", "busy", "final"}
Started == {c \in Cpu : state[c] # "stopped"}
Intlock == found = NoDev

\* Types: every variable stays in its range, and intlock has no owner or one.
TypeOK ==
    /\ iointq \in Seq(Dev) /\ qprio \in [Dev -> Isc] /\ prio \in [Dev -> Isc]
    /\ pend \in [Dev -> BOOLEAN] /\ status \in [Dev -> Statuses]
    /\ updating \in SUBSET Dev
    /\ iopend \in BOOLEAN
    /\ cpuio \in [Cpu -> BOOLEAN] /\ kick \in [Cpu -> BOOLEAN]
    /\ iomask \in [Cpu -> BOOLEAN] /\ waitpsw \in [Cpu -> BOOLEAN]
    /\ state \in [Cpu -> States] /\ stopping \in SUBSET Cpu
    /\ found \in Dev \cup {NoDev}
    /\ \A b, c \in Cpu : state[b] \in {"found", "tpi"} =>
                        ~Intlock /\ (b = c \/ state[c] \notin {"found", "tpi"})
    /\ ~Intlock => \E c \in Cpu : state[c] \in {"found", "tpi"}

Init ==
    /\ iointq = << >> /\ prio \in [Dev -> Isc] /\ qprio = prio
    /\ pend = [d \in Dev |-> FALSE] /\ status = [d \in Dev |-> "none"]
    /\ updating = {}
    /\ iopend = FALSE
    /\ cpuio = [c \in Cpu |-> FALSE] /\ kick = [c \in Cpu |-> FALSE]
    /\ iomask = [c \in Cpu |-> FALSE] /\ waitpsw = [c \in Cpu |-> FALSE]
    /\ state = [c \in Cpu |-> "run"] /\ stopping = {}
    /\ found = NoDev

-----------------------------------------------------------------------------
(* The macros.                                                               *)

Least(S) == CHOOSE k \in S : \A j \in S : k <= j

\* Seeded defect: a later interrupt goes first.
StopsLifo(d) == {i \in 1 .. Len(iointq) + 1 :
                    i <= Len(iointq) => qprio[iointq[i]] >= prio[d]}

\* QUEUE_IO_INTERRUPT: where the search stops, and the insertion.
Stops(d) == {i \in 1 .. Len(iointq) + 1 :
                i <= Len(iointq) => iointq[i] = d \/ qprio[iointq[i]] > prio[d]}

QueueInterrupt(d) ==
    LET i == Least(Stops(d)) IN
    /\ \/ /\ i \in DOMAIN iointq /\ iointq[i] = d
          /\ UNCHANGED <<iointq, qprio>>
       \/ /\ ~(i \in DOMAIN iointq /\ iointq[i] = d)
          /\ iointq' = InsertAt(iointq, i, d)
          /\ qprio' = [qprio EXCEPT ![d] = prio[d]]
    /\ pend' = [pend EXCEPT ![d] = TRUE]

\* DEQUEUE_IO_INTERRUPT.
Dequeue(d) ==
    /\ iointq' = RemoveFirst(iointq, d)
    /\ pend' = [pend EXCEPT ![d] = @ /\ ~Contains(iointq, d)]
    /\ UNCHANGED qprio

\* WAKEUP_CPU_MASK(sysblk.waiting_mask) signals the lowest CPU only; one that
\* is signalled already stays in the mask until it runs.
WakeLowest(s) ==
    LET w == {c \in Cpu : s[c] \in {"wait", "woken"}}
    IN  IF w = {} THEN s ELSE [s EXCEPT ![Least(w)] = "woken"]

\* ON_IC_IOPENDING and OFF_IC_IOPENDING reach the started CPUs, and only when
\* the system's flag changes.
SetFlag(on) ==
    /\ iopend' = on
    /\ cpuio' = [c \in Cpu |-> IF c \in Started /\ iopend # on THEN on ELSE cpuio[c]]

Kicked(on) == {c \in Started : on /\ ~iopend /\ iomask[c]}

\* UPDATE_IC_IOPENDING, for a thread that leaves the CPUs in states s.
UpdateFlag(s) ==
    /\ SetFlag(iointq' # << >>)
    /\ state' = IF iointq' # << >> THEN WakeLowest(s) ELSE s

Kick == kick' = [c \in Cpu |-> kick[c] \/ c \in Kicked(iointq' # << >>)]

-----------------------------------------------------------------------------
(* Devices.                                                                  *)

\* Initial status or a suspension, which may be reported while the last is
\* still queued, or the end of the program: under dev->lock.
RaiseInterrupt(d) ==
    /\ status[d] # "final" /\ d \notin updating
    /\ \E s \in {"final"} \cup ({"inter"} \cap Events) :
          status' = [status EXCEPT ![d] = s]
    /\ QueueInterrupt(d)
    /\ updating' = updating \cup {d}
    /\ UNCHANGED <<prio, flag, guest, state, stopping, found>>

UpdateDevice(d) ==
    /\ d \in updating /\ Intlock
    /\ updating' = updating \ {d}
    /\ UNCHANGED device
    /\ UpdateFlag(state) /\ Kick
    /\ UNCHANGED <<prio, status, guest, stopping, found>>

-----------------------------------------------------------------------------
(* Instructions.                                                             *)

InterruptPending(c) == (cpuio[c] /\ iomask[c]) \/ waitpsw[c] \/ kick[c]

\* Instructions that change a mask return to where interrupts are tested.
LoadPsw(c, io, wait) ==
    /\ state[c] = "run" /\ ~waitpsw[c]
    /\ iomask' = [iomask EXCEPT ![c] = io]
    /\ waitpsw' = [waitpsw EXCEPT ![c] = wait]
    /\ state' = [state EXCEPT ![c] = "check"]
    /\ UNCHANGED <<device, prio, status, updating, flag, stopping, found>>

TestSubchannel(c, d) ==
    /\ "TSCH" \in Events
    /\ state[c] = "run" /\ ~waitpsw[c]
    /\ status' = [status EXCEPT ![d] = IF @ \in {"inter", "busy"} THEN "busy" ELSE "none"]
    /\ Dequeue(d)
    /\ state' = [state EXCEPT ![c] = "update"]
    /\ UNCHANGED <<prio, updating, flag, guest, stopping, found>>

UpdateCpu(c) ==
    /\ state[c] = "update" /\ Intlock
    /\ UNCHANGED device
    /\ UpdateFlag([state EXCEPT ![c] = "run"]) /\ Kick
    /\ UNCHANGED <<prio, status, updating, guest, stopping, found>>

\* Seeded defect: condition code 2 is forgotten.
ModifySubchannelBusy(c, d, i) ==
    /\ "MSCH" \in Events
    /\ state[c] = "run" /\ ~waitpsw[c]
    /\ status[d] # "final" /\ prio[d] # i
    /\ prio' = [prio EXCEPT ![d] = i]
    /\ UNCHANGED <<device, status, updating, flag, guest, state, stopping, found>>

\* MSCH changes the subclass of a device that is neither status pending (other
\* than with intermediate status) nor busy nor has an interrupt queued.
ModifySubchannel(c, d, i) ==
    /\ "MSCH" \in Events
    /\ state[c] = "run" /\ ~waitpsw[c]
    /\ status[d] = "none" /\ ~pend[d] /\ prio[d] # i
    /\ prio' = [prio EXCEPT ![d] = i]
    /\ UNCHANGED <<device, status, updating, flag, guest, state, stopping, found>>

-----------------------------------------------------------------------------
(* present_io_interrupt and process_interrupt.                               *)

\* interrupt_enabled tests the subclass only, process_interrupt the PSW.
EnabledFor(c, d) == prio[d] \in Cr6[c]
Takeable(c) == {i \in DOMAIN iointq : EnabledFor(c, iointq[i])}

\* The search of the queue: every entry passed over wakes a CPU.
Find(c, place) ==
    LET i == Least(Takeable(c)) IN
    /\ Takeable(c) # {}
    /\ found' = iointq[i]
    /\ state' = [IF i > 1 THEN WakeLowest(state) ELSE state EXCEPT ![c] = place]
    /\ UNCHANGED <<iopend, cpuio>>

\* Seeded defects: the flag is turned off; no other CPU is woken.
FindNothingOff(c, place) ==
    /\ Takeable(c) = {}
    /\ found' = NoDev
    /\ SetFlag(FALSE)
    /\ state' = [IF iointq # << >> THEN WakeLowest(state) ELSE state EXCEPT ![c] = place]

FindNothingQuiet(c, place) ==
    /\ Takeable(c) = {}
    /\ found' = NoDev
    /\ SetFlag(iointq # << >>)
    /\ state' = [state EXCEPT ![c] = place]

\* Nothing found: the flag is updated, and the CPU goes on to place.
FindNothing(c, place) ==
    /\ Takeable(c) = {}
    /\ found' = NoDev
    /\ SetFlag(iointq # << >>)
    /\ state' = [IF iointq # << >> THEN WakeLowest(state) ELSE state EXCEPT ![c] = place]

\* Where a CPU is when process_interrupt has found nothing to do.
Settle(c) == IF waitpsw[c] THEN "wait" ELSE "run"

ProcessInterrupt(c) ==
    /\ Intlock /\ InterruptPending(c)
    /\ state[c] \in {"run", "check"} /\ c \notin stopping
    /\ kick' = [kick EXCEPT ![c] = FALSE]
    /\ \/ iopend /\ cpuio[c] /\ iomask[c] /\ Find(c, "found")
       \/ iopend /\ cpuio[c] /\ iomask[c] /\ FindNothing(c, Settle(c))
       \/ /\ iopend /\ ~(cpuio[c] /\ iomask[c])
          /\ state' = [WakeLowest(state) EXCEPT ![c] = Settle(c)]
          /\ UNCHANGED <<iopend, cpuio, found>>
       \/ /\ ~iopend
          /\ state' = [state EXCEPT ![c] = Settle(c)]
          /\ UNCHANGED <<iopend, cpuio, found>>
    /\ UNCHANGED <<device, prio, status, updating, guest, stopping>>

\* No interrupt pending at the test: the next instruction.
GoOn(c) ==
    /\ state[c] = "check" /\ ~InterruptPending(c)
    /\ state' = [state EXCEPT ![c] = "run"]
    /\ UNCHANGED <<device, prio, status, updating, flag, guest, stopping, found>>

TestPending(c) ==
    /\ "TPI" \in Events
    /\ Intlock /\ state[c] = "run" /\ ~waitpsw[c] /\ iopend
    /\ Find(c, "tpi") \/ FindNothing(c, "run")
    /\ UNCHANGED <<device, kick, prio, status, updating, guest, stopping>>

\* Seeded defect: intlock is not released.
TakeInterruptHeld(c) ==
    /\ state[c] \in {"found", "tpi"} /\ Contains(iointq, found)
    /\ Dequeue(found)
    /\ found' = found
    /\ UpdateFlag([state EXCEPT ![c] = IF @ = "found" THEN "check" ELSE "run"])
    /\ \/ /\ state[c] = "found"
          /\ iomask' = [iomask EXCEPT ![c] = FALSE]
          /\ waitpsw' = [waitpsw EXCEPT ![c] = FALSE]
       \/ state[c] = "tpi" /\ UNCHANGED <<iomask, waitpsw>>
    /\ Kick
    /\ UNCHANGED <<prio, status, updating, stopping>>

\* dev->lock obtained, the entry is still there: the interrupt is taken.  The
\* I/O new PSW of the guest disables I/O; TPI changes no PSW.
TakeInterrupt(c) ==
    /\ state[c] \in {"found", "tpi"} /\ Contains(iointq, found)
    /\ Dequeue(found)
    /\ found' = NoDev
    /\ UpdateFlag([state EXCEPT ![c] = IF @ = "found" THEN "check" ELSE "run"])
    /\ \/ /\ state[c] = "found"
          /\ iomask' = [iomask EXCEPT ![c] = FALSE]
          /\ waitpsw' = [waitpsw EXCEPT ![c] = FALSE]
       \/ state[c] = "tpi" /\ UNCHANGED <<iomask, waitpsw>>
    /\ Kick
    /\ UNCHANGED <<prio, status, updating, stopping>>

\* The entry is gone: search again.
Retry(c) ==
    /\ state[c] \in {"found", "tpi"} /\ ~Contains(iointq, found)
    /\ Find(c, state[c]) \/ FindNothing(c, Settle(c))
    /\ UNCHANGED <<device, kick, prio, status, updating, guest, stopping>>

\* Back from the wait; the wait PSW makes the CPU test for interrupts.
WakeUp(c) ==
    /\ state[c] = "woken" /\ Intlock
    /\ state' = [state EXCEPT ![c] = "check"]
    /\ UNCHANGED <<device, prio, status, updating, flag, guest, stopping, found>>

-----------------------------------------------------------------------------
(* The operator.                                                             *)

StopCpu(c) ==
    /\ "stop" \in Events
    /\ Intlock /\ c \in Started \ stopping
    /\ stopping' = stopping \cup {c}
    /\ kick' = [kick EXCEPT ![c] = TRUE]
    /\ state' = [state EXCEPT ![c] = IF @ = "wait" THEN "woken" ELSE @]
    /\ UNCHANGED <<device, prio, status, updating, iopend, cpuio, guest, found>>

\* process_interrupt of a stopping CPU takes no interrupt and wakes no CPU.
EnterStopped(c) ==
    /\ Intlock /\ c \in stopping /\ state[c] \in {"run", "check"}
    /\ stopping' = stopping \ {c}
    /\ state' = [state EXCEPT ![c] = "stopped"]
    /\ cpuio' = [cpuio EXCEPT ![c] = FALSE]
    /\ kick' = [kick EXCEPT ![c] = FALSE]
    /\ UNCHANGED <<device, prio, status, updating, iopend, guest, found>>

StartCpu(c) ==
    /\ Intlock /\ state[c] = "stopped"
    /\ state' = [state EXCEPT ![c] = "check"]
    /\ cpuio' = [cpuio EXCEPT ![c] = iopend]
    /\ kick' = [kick EXCEPT ![c] = TRUE]
    /\ UNCHANGED <<device, prio, status, updating, iopend, guest, stopping, found>>

-----------------------------------------------------------------------------
CpuStep(c) ==
    \/ \E io, wait \in BOOLEAN : LoadPsw(c, io, wait)
    \/ \E d \in Dev : TestSubchannel(c, d)
    \/ \E d \in Dev, i \in Isc : ModifySubchannel(c, d, i)
    \/ UpdateCpu(c) \/ TestPending(c) \/ ProcessInterrupt(c) \/ GoOn(c)
    \/ TakeInterrupt(c) \/ Retry(c) \/ WakeUp(c)
    \/ StopCpu(c) \/ EnterStopped(c) \/ StartCpu(c)

Next ==
    \/ \E d \in Dev : RaiseInterrupt(d) \/ UpdateDevice(d)
    \/ \E c \in Cpu : CpuStep(c)

Spec == Init /\ [][Next]_vars

(* A thread that waits for intlock gets it, though others take it again and  *)
(* again; a CPU tests for interrupts before every instruction; the guest's   *)
(* interrupt handlers end, and enable I/O again.                             *)
Fairness ==
    /\ \A d \in Dev : SF_vars(UpdateDevice(d))
    /\ \A c \in Cpu :
          /\ SF_vars(UpdateCpu(c) \/ WakeUp(c) \/ GoOn(c) \/ TakeInterrupt(c) \/ Retry(c))
          /\ SF_vars(ProcessInterrupt(c))
          /\ SF_vars(\E wait \in BOOLEAN : LoadPsw(c, TRUE, wait))

FairSpec == Spec /\ Fairness

-----------------------------------------------------------------------------
(* Properties.                                                               *)

\* The queue holds an entry once, in the order of the priorities, and holds it
\* exactly if the device's pending flag says so, even as an interrupt is
\* queued again and MSCH changes the priority that the search goes by.
QueueOrdered ==
    /\ \A i, j \in DOMAIN iointq : i < j => /\ iointq[i] # iointq[j]
                                           /\ qprio[iointq[i]] <= qprio[iointq[j]]
    /\ \A d \in Dev : pend[d] <=> Contains(iointq, d)

\* No interrupt is overlooked. CPUs test only their own copy of the flag; it is
\* stored only when the system's flag changes, while CPUs come and go, and after
\* dev->lock is released: while the queue is not empty every started CPU has the
\* flag on, or the device or CPU that changed the queue has yet to update it.
InterruptSeen ==
    iointq # << >> => \/ iopend /\ \A c \in Started : cpuio[c]
                      \/ updating # {} \/ \E c \in Cpu : state[c] = "update"

\* The wakeup is passed on: while an interrupt is queued that a waiting CPU
\* would take, a thread is about to update the flag, or some CPU is about to
\* search the queue, which wakes another CPU or leaves nothing to take.  A CPU
\* that was woken and then stopped does not pass the wakeup on.
WakeupPassedOn ==
    \A c \in Cpu : state[c] = "wait" /\ iomask[c] /\ Takeable(c) # {} =>
        \/ updating # {}
        \/ \E b \in Cpu : \/ state[b] \in {"woken", "update", "found", "tpi", "stopped"}
                          \/ state[b] \in {"run", "check"} /\ InterruptPending(b)

\* With two CPUs every interrupt of the most urgent subclass is taken, or fetched
\* with TSCH, by the one that is enabled for it, while no CPU is stopped or waits
\* with I/O disabled: the queue is first come first served among equals, and a
\* CPU that is woken in vain wakes the other (WAKEUP_CPU_MASK signals the lowest
\* waiting CPU only).  It is claimed for two CPUs and not for more: of three,
\* two that are not enabled can wake each other for ever and the third never.
Undisturbed ==
    Started = Cpu /\ stopping = {} /\ \A c \in Cpu : waitpsw[c] => iomask[c]

InterruptsTaken ==
    NCpu <= 2 => \A d \in Dev : Contains(iointq, d) /\ qprio[d] = Least(Isc)
                               ~> ~Contains(iointq, d) \/ ~Undisturbed
=============================================================================
