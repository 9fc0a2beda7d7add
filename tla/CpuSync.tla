-------------------------------- MODULE CpuSync --------------------------------
(* The CPU threads and intlock: OBTAIN_INTLOCK and SYNCHRONIZE_CPUS          *)
(* (hmacros.h), with which an instruction such as IPTE makes sure that no    *)
(* other CPU executes; the places where a CPU waits (process_interrupt of    *)
(* cpu.c), synchronous I/O (channel.c), and the CPUs that join and leave the *)
(* configuration (config.c).                                                 *)
(*                                                                           *)
(* One action is what a thread does from where it obtains intlock to where   *)
(* it releases it or waits on a condition.  Only SYNCHRONIZE_CPUS takes more *)
(* steps with the lock held.  What CPUs execute is left out.                 *)
EXTENDS Integers, FiniteSets

CONSTANTS
    Cpu,
    NumProcs,   \* the values of hostinfo.num_procs to consider; it is fixed in
                \* the program, but only one synchronization at a time looks at it
    Events      \* what happens: "wait" (the guest loads wait PSWs), "stop" (the
                \* operator stops and starts CPUs), "io" (synchronous I/O),
                \* "deconfigure", "configure" (by the guest)

ASSUME SyncAssumption == IsFiniteSet(Cpu) /\ NumProcs \subseteq Nat

VARIABLES
    state,      \* where each CPU thread is
    why,        \* what a CPU wants intlock for
    syncio,     \* regs->syncio
    kick,       \* IC_INTERRUPT: the CPU tests for interrupts before it goes on
    stopping,   \* CPUs with cpustate STOPPING
    leaving,    \* CPUs with configured = 0
    syncing, sync_mask

flags == <<syncio, kick, stopping, leaving>>
sync  == <<syncing, sync_mask>>
vars  == <<state, why, flags, sync>>

\* "want": in obtain_lock of OBTAIN_INTLOCK.  "bc": in its wait for the end of a
\* synchronization; "wait bc", "stop bc": in the same wait after the wait for
\* an interrupt, or for the start.  "woken", "started": signalled, wants
\* intlock.  "enter": about to test for interrupts, before it executes anything.
\* "cpu wait", "cpu done": waits on cpucond, and has been signalled.
\* "spin", "sync wait", "sync done", "synced": in SYNCHRONIZE_CPUS and after it.
Waiting == {"wait", "woken", "wait bc"}
Stopped == {"stop", "started", "stop bc", "born", "gone"}
Blocked == {"want", "bc", "cpu wait", "cpu done"}
Holding == {"spin", "synced"}
Syncing == {"sync wait", "sync done"}
States  == {"run", "enter"} \cup Waiting \cup Stopped \cup Blocked \cup Holding \cup Syncing
Reasons == {"none", "int", "sync", "io", "deconfigure", "configure"}

In(states) == {c \in Cpu : state[c] \in states}
Intlock == In(Holding) = {}

\* started_mask without waiting_mask; intwait is set from OBTAIN_INTLOCK on.
Active  == Cpu \ In(Waiting \cup Stopped)
Intwait == In(Blocked)

\* Types: every variable stays in its range; one CPU at most synchronizes the
\* others, and syncing is on exactly while it waits for them.
TypeOK ==
    /\ state \in [Cpu -> States] /\ why \in [Cpu -> Reasons]
    /\ syncio \in [Cpu -> BOOLEAN] /\ kick \in [Cpu -> BOOLEAN]
    /\ stopping \in SUBSET Cpu /\ leaving \in SUBSET Cpu
    /\ syncing \in BOOLEAN /\ sync_mask \in SUBSET Cpu
    /\ \A c, d \in In(Holding \cup Syncing) : c = d
    /\ syncing <=> In(Syncing) # {}

Init ==
    /\ state = [c \in Cpu |-> "run"] /\ why = [c \in Cpu |-> "none"]
    /\ syncio = [c \in Cpu |-> FALSE] /\ kick = [c \in Cpu |-> FALSE]
    /\ stopping = {} /\ leaving = {}
    /\ syncing = FALSE /\ sync_mask = {}

Move(c, next) == state' = [state EXCEPT ![c] = next]

-----------------------------------------------------------------------------
(* OBTAIN_INTLOCK.                                                           *)

\* An instruction, or the test for interrupts between two, needs the lock.
Obtain(c, reason) ==
    /\ \/ state[c] = "run" /\ reason # "none"
       \/ state[c] = "enter" /\ reason = "int"
    /\ reason \in Events \cup {"int", "sync"}
    /\ syncio[c] => reason = "io"
    /\ Move(c, "want") /\ why' = [why EXCEPT ![c] = reason]
    /\ UNCHANGED <<flags, sync>>

\* signal_condition(&sysblk.sync_cond), for a state in which c waits already.
Signalled(c) ==
    [d \in Cpu |-> IF d = c THEN "bc"
                   ELSE IF sync_mask \ {c} = {} /\ state[d] = "sync wait"
                        THEN "sync done" ELSE state[d]]

\* The lock is obtained while another CPU synchronizes.
Yield(c) ==
    /\ state[c] = "want" /\ Intlock /\ syncing
    /\ sync_mask' = sync_mask \ {c}
    /\ state' = Signalled(c)
    /\ UNCHANGED <<why, flags, syncing>>

\* The lock is obtained, and nobody synchronizes.
Obtained(c, reason) ==
    /\ state[c] = "want" /\ Intlock /\ ~syncing
    /\ why[c] = reason /\ why' = [why EXCEPT ![c] = "none"]

-----------------------------------------------------------------------------
(* SYNCHRONIZE_CPUS.                                                         *)

\* The CPUs that must stop executing, and those among them to be told to.
Others(c) == Active \ {c}
Told(c)   == {d \in Others(c) \ Intwait : ~syncio[d]}

\* Seeded defect: the others are not told to stop.
SynchronizeUntold(c) ==
    /\ Obtained(c, "sync")
    /\ \/ Told(c) = {} /\ Move(c, "synced") /\ UNCHANGED sync
       \/ /\ Told(c) # {} /\ \E n \in NumProcs : Cardinality(Told(c)) < n
          /\ Move(c, "spin") /\ UNCHANGED sync
       \/ /\ Told(c) # {} /\ \E n \in NumProcs : Cardinality(Told(c)) >= n
          /\ syncing' = TRUE /\ sync_mask' = Others(c)
          /\ Move(c, "sync wait")
    /\ UNCHANGED flags

\* All wait already; few are told, on a host with processors enough to poll
\* them; or they are many, and tell when they wait.
Synchronize(c) ==
    /\ Obtained(c, "sync")
    /\ kick' = [d \in Cpu |-> kick[d] \/ d \in Told(c)]
    /\ \/ Told(c) = {} /\ Move(c, "synced") /\ UNCHANGED sync
       \/ /\ Told(c) # {} /\ \E n \in NumProcs : Cardinality(Told(c)) < n
          /\ Move(c, "spin") /\ UNCHANGED sync
       \/ /\ Told(c) # {} /\ \E n \in NumProcs : Cardinality(Told(c)) >= n
          /\ syncing' = TRUE /\ sync_mask' = Others(c)
          /\ Move(c, "sync wait")
    /\ UNCHANGED <<syncio, stopping, leaving>>

\* Polling ends when all that were told want the lock.
Polled(c) ==
    /\ state[c] = "spin" /\ Told(c) = {}
    /\ Move(c, "synced")
    /\ UNCHANGED <<why, flags, sync>>

\* broadcast_condition(&sysblk.sync_bc_cond).
Released(s) == [d \in Cpu |-> CASE s[d] = "bc" -> "want"
                                [] s[d] = "wait bc" -> "woken"
                                [] s[d] = "stop bc" -> "started"
                                [] OTHER -> s[d]]

\* Seeded defect: only one of the waiting CPUs is told of the end.
SynchronizedOne(c) ==
    /\ state[c] = "sync done" /\ Intlock
    /\ syncing' = FALSE
    /\ \E d \in Cpu : state' = [state EXCEPT ![c] = "synced", ![d] = Released(state)[d]]
    /\ UNCHANGED <<why, flags, sync_mask>>

\* Seeded defect: syncing stays on.
SynchronizedStuck(c) ==
    /\ state[c] = "sync done" /\ Intlock
    /\ state' = [Released(state) EXCEPT ![c] = "synced"]
    /\ UNCHANGED <<why, flags, sync>>

\* Back from sync_cond: all that wait are told that it is over.
Synchronized(c) ==
    /\ state[c] = "sync done" /\ Intlock
    /\ syncing' = FALSE
    /\ state' = [Released(state) EXCEPT ![c] = "synced"]
    /\ UNCHANGED <<why, flags, sync_mask>>

\* The instruction has done what no other CPU may see half of: RELEASE_INTLOCK.
Release(c) ==
    /\ state[c] = "synced" /\ Move(c, "run")
    /\ UNCHANGED <<why, flags, sync>>

-----------------------------------------------------------------------------
(* Where CPUs wait.                                                          *)

\* wait_condition(&sysblk.cpucond) ends in one thread, if one is in it.
CpuSignalled(s) ==
    [d \in Cpu |-> IF state[d] = "cpu wait" THEN "cpu done" ELSE s[d]]

\* process_interrupt: the thread of a CPU that leaves ends, a stopping CPU
\* stops, and one that has loaded a wait PSW waits.
ProcessInterrupt(c) ==
    /\ Obtained(c, "int")
    /\ kick' = [kick EXCEPT ![c] = FALSE]
    /\ \/ /\ c \in stopping \cap leaving
          /\ state' = CpuSignalled([state EXCEPT ![c] = "gone"])
          /\ leaving' = leaving \ {c}
       \/ c \in stopping \ leaving /\ Move(c, "stop") /\ UNCHANGED leaving
       \/ c \notin stopping /\ Move(c, "run") /\ UNCHANGED leaving
       \/ /\ c \notin stopping /\ "wait" \in Events
          /\ Move(c, "wait") /\ UNCHANGED leaving
    /\ stopping' = stopping \ {c}
    /\ UNCHANGED <<syncio, sync>>

\* signal_condition(&regs->intcond) by a thread that holds intlock.
Signal(c) == [state EXCEPT ![c] = CASE @ = "wait" -> "woken"
                                    [] @ = "stop" -> "started"
                                    [] OTHER -> @]

WakeUp(c) ==
    /\ Intlock /\ state[c] = "wait"
    /\ state' = Signal(c)
    /\ UNCHANGED <<why, flags, sync>>

\* Seeded defect: the CPU does not look whether another one synchronizes.
LeaveWaitBlind(c) ==
    /\ Intlock
    /\ state[c] \in {"woken", "started"}
    /\ Move(c, "run")
    /\ kick' = [kick EXCEPT ![c] = @ \/ state[c] = "started"]
    /\ UNCHANGED <<why, syncio, stopping, leaving, sync>>

\* The end of the wait for an interrupt and of the wait for the start.
LeaveWait(c) ==
    /\ Intlock
    /\ \/ /\ syncing
          /\ \/ state[c] = "woken" /\ Move(c, "wait bc")
             \/ state[c] = "started" /\ Move(c, "stop bc")
          /\ UNCHANGED kick
       \/ /\ ~syncing /\ state[c] \in {"woken", "started"}
          /\ Move(c, "enter")
          /\ kick' = [kick EXCEPT ![c] = @ \/ state[c] = "started"]
    /\ UNCHANGED <<why, syncio, stopping, leaving, sync>>

\* stopall and startall, one CPU at a time.
StopCpu(c) ==
    /\ "stop" \in Events /\ Intlock
    /\ c \in (Active \cup In(Waiting)) \ stopping
    /\ stopping' = stopping \cup {c}
    /\ kick' = [kick EXCEPT ![c] = TRUE]
    /\ state' = Signal(c)
    /\ UNCHANGED <<why, syncio, leaving, sync>>

StartCpu(c) ==
    /\ "stop" \in Events /\ Intlock
    /\ state[c] \in Stopped \ {"born", "gone"}
    /\ state[c] = "stop" \/ c \in stopping
    /\ stopping' = stopping \ {c}
    /\ state' = Signal(c)
    /\ UNCHANGED <<why, syncio, kick, leaving, sync>>

\* startio sets syncio before, and resets it after, it executes the channel
\* program itself.
SynchronousIo(c) ==
    /\ Obtained(c, "io") /\ Move(c, "run")
    /\ syncio' = [syncio EXCEPT ![c] = ~@]
    /\ UNCHANGED <<kick, stopping, leaving, sync>>

-----------------------------------------------------------------------------
(* config.c: intwait stays on, or is set again, until cpucond is signalled.  *)

DeconfigureCpu(c, d) ==
    /\ Obtained(c, "deconfigure") /\ state[d] \notin {"born", "gone"}
    /\ leaving' = leaving \cup {d} /\ stopping' = stopping \cup {d}
    /\ kick' = [kick EXCEPT ![d] = TRUE]
    /\ \/ d # c /\ state' = [Signal(d) EXCEPT ![c] = "cpu wait"]
       \/ d = c /\ Move(c, "run")
    /\ UNCHANGED <<syncio, sync>>

ConfigureCpu(c, d) ==
    /\ Obtained(c, "configure")
    /\ \/ /\ state[d] = "gone"
          /\ state' = [state EXCEPT ![c] = "cpu wait", ![d] = "born"]
       \/ state[d] # "gone" /\ Move(c, "run")
    /\ UNCHANGED <<flags, sync>>

\* cpu_thread: the new CPU is configured and stopping; it tests for interrupts
\* before its first instruction.
CpuThread(d) ==
    /\ Intlock /\ state[d] = "born"
    /\ state' = CpuSignalled([state EXCEPT ![d] = "enter"])
    /\ stopping' = stopping \cup {d} /\ leaving' = leaving \ {d}
    /\ kick' = [kick EXCEPT ![d] = TRUE]
    /\ UNCHANGED <<why, syncio, sync>>

LeaveCpuWait(c) ==
    /\ Intlock /\ state[c] = "cpu done" /\ Move(c, "run")
    /\ UNCHANGED <<why, flags, sync>>

-----------------------------------------------------------------------------
\* The guest changes the configuration by one CPU at a time.
Reconfiguring == \E c \in Cpu : why[c] \in {"deconfigure", "configure"}
                                \/ state[c] \in {"cpu wait", "cpu done", "born"}
                                \/ c \in leaving

OthersOnline(c) == (Active \cup In(Waiting)) # {c}

\* synchronous I/O tells the others only if there are any.
Want(c, reason) ==
    /\ reason \in {"deconfigure", "configure"} => ~Reconfiguring
    /\ reason = "io" => syncio[c] \/ OthersOnline(c)
    /\ Obtain(c, reason)

LockStep(c) ==
    \/ Yield(c) \/ Synchronize(c) \/ Synchronized(c) \/ ProcessInterrupt(c)
    \/ LeaveWait(c) \/ SynchronousIo(c)
    \/ CpuThread(c) \/ LeaveCpuWait(c)
    \/ \E d \in Cpu : DeconfigureCpu(c, d) \/ ConfigureCpu(c, d)

Next ==
    \E c \in Cpu : \/ \E reason \in Reasons : Want(c, reason)
                   \/ LockStep(c) \/ Polled(c) \/ Release(c)
                   \/ WakeUp(c) \/ StopCpu(c) \/ StartCpu(c)

Spec == Init /\ [][Next]_vars

(* A CPU that waits for intlock gets it, though others take it again and     *)
(* again.  CPUs test for interrupts before every instruction; the work done  *)
(* while the others are stopped, and synchronous I/O, ends.                  *)
GoOn(c) ==
    \/ Polled(c) \/ Release(c)
    \/ /\ kick[c] \/ syncio[c] \/ state[c] = "enter"
       /\ \E reason \in Reasons : Want(c, reason)

Fairness == \A c \in Cpu : SF_vars(LockStep(c)) /\ WF_vars(GoOn(c))

FairSpec == Spec /\ Fairness

-----------------------------------------------------------------------------
(* Properties.                                                               *)

\* While a CPU has synchronized the others none of them executes, in whatever
\* wait each was when it began; one in synchronous I/O is not between two
\* instructions.
Exclusive == In({"synced"}) # {} => \A d \in In({"run"}) : syncio[d]

\* No CPU is left behind: what CPUs wait for in sync_bc_cond is still to come.
WaitersReleased == In({"bc", "wait bc", "stop bc"}) # {} => syncing

\* Unless CPUs are configured or deconfigured, SYNCHRONIZE_CPUS returns: every
\* CPU that it waits for, or that is counted, has been told or comes by itself.
SyncCompletes ==
    []~Reconfiguring => (In({"spin"} \cup Syncing) # {} ~> In({"synced"}) # {})
=============================================================================
