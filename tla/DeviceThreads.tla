---------------------------- MODULE DeviceThreads ----------------------------
(* The I/O request queue (sysblk.ioq) of the channel subsystem and the pool  *)
(* of device threads that serves it: startio, cancel_subchan, halt_subchan,  *)
(* device_reset and device_thread of channel.c, the devtmax panel command.   *)
(*                                                                           *)
(* One action is one critical section.  dev->lock guards the device block,   *)
(* sysblk.ioqlock the queue and the thread counters; startio releases the    *)
(* first before it takes the second, so it is two actions.  What a channel   *)
(* program does is module Subchannel's: here a chain begins and ends.        *)
(* devtmax is never negative (a negative one bypasses the queue).            *)
EXTENDS Integers, FiniteSets

CONSTANTS
    Dev,            \* the devices
    NoDev,          \* the NULL pointer
    Cpu,            \* CPU threads that issue I/O instructions
    Thread,         \* identities the host can give to device threads
    Priority,       \* dev->priority, lower values first
    Limits,         \* the values devtmax is given
    IdleSpare,      \* 3 in the source: spare idle threads kept when devtmax = 0
    CreateMayFail,  \* create_thread may fail although an identity is free
    Instr           \* which of "XSCH", "HSCH", "RCHP" the guest issues

ASSUME QueueAssumption ==
    /\ NoDev \notin Dev
    /\ IsFiniteSet(Dev) /\ IsFiniteSet(Thread) /\ Thread # {}
    /\ Priority \in [Dev -> Nat]
    /\ Limits \subseteq Nat /\ Limits # {}
    /\ IdleSpare \in Nat
    /\ CreateMayFail \in BOOLEAN

DevPtr == Dev \cup {NoDev}

VARIABLES
    dev,        \* device blocks
    ioq,        \* head of the request queue
    nextioq,    \* dev->nextioq
    starting,   \* per CPU: device whose startio is between its two locks
    hung,       \* {} or, once a CPU loops on the list: the dev lock it holds
    devtmax, devtwait, devtnbr,
    applying,   \* the devtmax command has stored devtmax, not yet locked
    thr,        \* state of each device thread
    cur         \* device a thread has taken from the queue

queue == <<ioq, nextioq>>
pool  == <<devtwait, devtnbr, thr, cur>>
panel == <<devtmax, applying>>
vars  == <<dev, queue, starting, hung, panel, pool>>

DevBlk == [busy : BOOLEAN, startpending : BOOLEAN, local : BOOLEAN,
           scpend : BOOLEAN, halting : BOOLEAN]
Reset  == [busy |-> FALSE, startpending |-> FALSE, local |-> FALSE,
           scpend |-> FALSE, halting |-> FALSE]

(* "new": created, has not run.  "ready": woken, wants ioqlock.  "taken":    *)
(* owns a request.  "exec": in the chain.  "done": wants ioqlock again.      *)
Active    == {"new", "ready", "taken", "exec", "done"}
Counted   == {"ready", "wait", "taken", "exec", "done"}
ThreadState == {"none", "wait"} \cup Active
Waiting   == {t \in Thread : thr[t] = "wait"}

\* Types: every variable stays in its range; the thread counts never go negative.
TypeOK ==
    /\ dev \in [Dev -> DevBlk]
    /\ ioq \in DevPtr /\ nextioq \in [Dev -> DevPtr]
    /\ starting \in [Cpu -> DevPtr]
    /\ hung \in SUBSET DevPtr
    /\ devtmax \in Nat /\ devtwait \in Nat /\ devtnbr \in Nat
    /\ applying \in BOOLEAN
    /\ thr \in [Thread -> ThreadState]
    /\ cur \in [Thread -> DevPtr]

Init ==
    /\ dev = [d \in Dev |-> Reset]
    /\ ioq = NoDev /\ nextioq = [d \in Dev |-> NoDev]
    /\ starting = [c \in Cpu |-> NoDev]
    /\ hung = {}
    /\ devtmax \in Limits /\ applying = FALSE
    /\ devtwait = 0 /\ devtnbr = 0
    /\ thr = [t \in Thread |-> "none"]
    /\ cur = [t \in Thread |-> NoDev]

-----------------------------------------------------------------------------
(* The linked list.                                                          *)

IoqLock    == hung = {}
DevLock(d) == d \notin hung

Positions == 0 .. Cardinality(Dev)

\* What a walk along nextioq reads: more positions than devices, so it reads
\* every element, and NULL unless the list has become circular.
Successor(p) == IF p = NoDev THEN NoDev ELSE nextioq[p]
Walk == LET at[k \in Positions] == IF k = 0 THEN ioq ELSE Successor(at[k - 1])
        IN  at

Least(S) == CHOOSE k \in S : \A j \in S : k <= j

\* Seeded defect: a later arrival goes first.
InsertStopsLifo(d) ==
    {k \in Positions : Walk[k] = NoDev \/ Priority[d] <= Priority[Walk[k]]}

\* Where startio's loop can stop: at the end, or before a larger priority.
InsertStops(d) ==
    {k \in Positions : Walk[k] = NoDev \/ Priority[d] < Priority[Walk[k]]}

InsertRequest(d) ==
    \E prev, next \in DevPtr :
        LET k == Least(InsertStops(d)) IN
        /\ next = Walk[k]
        /\ prev = IF k = 0 THEN NoDev ELSE Walk[k - 1]
        /\ ioq' = IF prev = NoDev THEN d ELSE ioq
        /\ nextioq' = [e \in Dev |-> IF e = prev THEN d
                                     ELSE IF e = d THEN next ELSE nextioq[e]]

\* Where the removal loops can stop: at the last element or d's predecessor.
RemoveStops(d) ==
    {k \in Positions : Walk[k] # NoDev /\ nextioq[Walk[k]] \in {NoDev, d}}

RemoveLoops(d) == ioq \notin {NoDev, d} /\ RemoveStops(d) = {}

\* cancel_subchan and halt_subchan unlink the first occurrence of d.
OnQueue(d) ==
    \/ ioq = d
    \/ ioq \notin {NoDev, d} /\ nextioq[Walk[Least(RemoveStops(d))]] = d

\* Seeded defect: the predecessor becomes the last element.
RemoveRequestTail(d) ==
    \/ /\ ioq = d
       /\ ioq' = nextioq[d] /\ UNCHANGED nextioq
    \/ /\ ioq # d
       /\ nextioq' = [nextioq EXCEPT ![Walk[Least(RemoveStops(d))]] = NoDev]
       /\ UNCHANGED ioq

RemoveRequest(d) ==
    \/ /\ ioq = d
       /\ ioq' = nextioq[d] /\ UNCHANGED nextioq
    \/ /\ ioq # d
       /\ nextioq' = [nextioq EXCEPT ![Walk[Least(RemoveStops(d))]] = nextioq[d]]
       /\ UNCHANGED ioq

-----------------------------------------------------------------------------
(* The CPUs.                                                                 *)

Busy(d) == (dev[d].busy /\ dev[d].local) \/ dev[d].startpending

\* startio, first half: condition codes 1 and 2 change nothing.
StartIo(c, d) ==
    /\ starting[c] = NoDev /\ DevLock(d)
    /\ ~dev[d].scpend /\ ~Busy(d)
    /\ dev' = [dev EXCEPT ![d].busy = TRUE, ![d].startpending = TRUE,
                          ![d].halting = FALSE]
    /\ starting' = [starting EXCEPT ![c] = d]
    /\ UNCHANGED <<queue, hung, panel, pool>>

\* create_thread: the new thread runs later, and counts itself then.
CreateThread ==
    \/ \E t \in Thread : thr[t] = "none" /\ thr' = [thr EXCEPT ![t] = "new"]
    \/ /\ CreateMayFail \/ \A t \in Thread : thr[t] # "none"
       /\ UNCHANGED thr

SignalThread ==
    \/ \E t \in Waiting : thr' = [thr EXCEPT ![t] = "ready"]
    \/ Waiting = {} /\ UNCHANGED thr

\* Signal a device thread if one is waiting, otherwise create one if allowed.
DispatchThread ==
    \/ devtwait # 0 /\ devtwait' = devtwait - 1 /\ SignalThread
    \/ /\ devtwait = 0 /\ (devtmax = 0 \/ devtnbr < devtmax)
       /\ CreateThread /\ UNCHANGED devtwait
    \/ /\ devtwait = 0 /\ devtmax # 0 /\ devtnbr >= devtmax
       /\ UNCHANGED <<thr, devtwait>>

\* startio, second half.
QueueRequest(c) ==
    /\ starting[c] # NoDev /\ IoqLock
    /\ InsertStops(starting[c]) # {}
    /\ InsertRequest(starting[c])
    /\ DispatchThread
    /\ starting' = [starting EXCEPT ![c] = NoDev]
    /\ UNCHANGED <<dev, hung, panel, devtnbr, cur>>

\* The walk never ends on a circular list; ioqlock is never released.
QueueRequestLoops(c) ==
    /\ starting[c] # NoDev /\ IoqLock
    /\ InsertStops(starting[c]) = {}
    /\ hung' = {NoDev}
    /\ UNCHANGED <<dev, queue, starting, panel, pool>>

\* Seeded defect: the cancelled device stays busy.
CancelSubchanBusy(c, d) ==
    /\ "XSCH" \in Instr
    /\ starting[c] = NoDev /\ DevLock(d) /\ IoqLock
    /\ ~dev[d].scpend /\ ~RemoveLoops(d) /\ OnQueue(d)
    /\ RemoveRequest(d)
    /\ dev' = [dev EXCEPT ![d].startpending = FALSE]
    /\ UNCHANGED <<starting, hung, panel, pool>>

\* cancel_subchan, condition code 0: the request is still queued.
CancelSubchan(c, d) ==
    /\ "XSCH" \in Instr
    /\ starting[c] = NoDev /\ DevLock(d) /\ IoqLock
    /\ ~dev[d].scpend /\ ~RemoveLoops(d) /\ OnQueue(d)
    /\ RemoveRequest(d)
    /\ dev' = [dev EXCEPT ![d].busy = FALSE, ![d].startpending = FALSE]
    /\ UNCHANGED <<starting, hung, panel, pool>>

\* halt_subchan, condition code 0.
HaltSubchan(c, d) ==
    /\ "HSCH" \in Instr
    /\ starting[c] = NoDev /\ DevLock(d)
    /\ ~dev[d].scpend /\ ~dev[d].halting
    /\ \/ /\ Busy(d) /\ IoqLock
          /\ dev' = [dev EXCEPT ![d].halting = TRUE, ![d].startpending = FALSE]
          /\ \/ dev[d].startpending /\ ~RemoveLoops(d) /\ OnQueue(d) /\ RemoveRequest(d)
             \/ dev[d].startpending /\ ~RemoveLoops(d) /\ ~OnQueue(d) /\ UNCHANGED queue
             \/ ~dev[d].startpending /\ UNCHANGED queue
       \/ /\ ~Busy(d)
          /\ dev' = [dev EXCEPT ![d].scpend = TRUE]
          /\ UNCHANGED queue
    /\ UNCHANGED <<starting, hung, panel, pool>>

\* Either removal loop on a circular list, which does not contain d.
RemoveRequestLoops(c, d) ==
    /\ starting[c] = NoDev /\ DevLock(d) /\ IoqLock
    /\ \/ "XSCH" \in Instr /\ ~dev[d].scpend
       \/ /\ "HSCH" \in Instr /\ ~dev[d].scpend /\ ~dev[d].halting
          /\ dev[d].startpending
    /\ RemoveLoops(d)
    /\ hung' = {d}
    /\ UNCHANGED <<dev, queue, starting, panel, pool>>

\* device_reset leaves the queue as it is.
DeviceReset(d) ==
    /\ "RCHP" \in Instr /\ DevLock(d)
    /\ dev' = [dev EXCEPT ![d] = Reset]
    /\ UNCHANGED <<queue, starting, hung, panel, pool>>

\* TEST SUBCHANNEL, as far as startio's condition code 1 depends on it.
TestSubchan(c, d) ==
    /\ starting[c] = NoDev /\ DevLock(d) /\ dev[d].scpend
    /\ dev' = [dev EXCEPT ![d].scpend = FALSE, ![d].halting = FALSE]
    /\ UNCHANGED <<queue, starting, hung, panel, pool>>

-----------------------------------------------------------------------------
(* The devtmax command stores the limit before it takes ioqlock.             *)

SetDevtmax(n) ==
    /\ ~applying /\ n # devtmax
    /\ devtmax' = n /\ applying' = TRUE
    /\ UNCHANGED <<dev, queue, starting, hung, pool>>

\* Every waiter wakes; a thread is created first if the queue needs one.
Awake(t, created) ==
    IF thr[t] = "wait" THEN "ready" ELSE IF t \in created THEN "new" ELSE thr[t]

\* Seeded defect: the woken threads stay counted as waiting.
ApplyDevtmaxCounted ==
    /\ applying /\ IoqLock
    /\ \E created \in {{}} \cup {{t} : t \in Thread} :
          /\ \A t \in created : thr[t] = "none"
          /\ created # {} <=>
               /\ ioq # NoDev /\ (devtmax = 0 \/ devtnbr < devtmax)
               /\ \E t \in Thread : thr[t] = "none"
          /\ thr' = [t \in Thread |-> Awake(t, created)]
    /\ applying' = FALSE
    /\ UNCHANGED <<dev, queue, starting, hung, devtmax, devtwait, devtnbr, cur>>

ApplyDevtmax ==
    /\ applying /\ IoqLock
    /\ \E created \in {{}} \cup {{t} : t \in Thread} :
          /\ \A t \in created : thr[t] = "none"
          /\ created # {} <=>
               /\ ioq # NoDev /\ (devtmax = 0 \/ devtnbr < devtmax)
               /\ \E t \in Thread : thr[t] = "none"
          /\ thr' = [t \in Thread |-> Awake(t, created)]
    /\ devtwait' = 0 /\ applying' = FALSE
    /\ UNCHANGED <<dev, queue, starting, hung, devtmax, devtnbr, cur>>

-----------------------------------------------------------------------------
(* device_thread: one critical section of ioqlock from wherever the thread   *)
(* obtains it to where it executes a request, waits, or ends.                *)

NbrNow(t) == IF thr[t] = "new" THEN devtnbr + 1 ELSE devtnbr

AtQueue(t) == thr[t] \in {"new", "ready", "done"} /\ IoqLock

\* Seeded defect: the woken thread discounts itself from the waiters again.
TakeRequestDiscounted(t) ==
    /\ AtQueue(t) /\ ioq # NoDev
    /\ cur' = [cur EXCEPT ![t] = ioq]
    /\ ioq' = nextioq[ioq]
    /\ thr' = [thr EXCEPT ![t] = "taken"]
    /\ devtnbr' = NbrNow(t)
    /\ devtwait' = IF thr[t] = "ready" THEN devtwait - 1 ELSE devtwait
    /\ UNCHANGED <<dev, nextioq, starting, hung, panel>>

TakeRequest(t) ==
    /\ AtQueue(t) /\ ioq # NoDev
    /\ cur' = [cur EXCEPT ![t] = ioq]
    /\ ioq' = nextioq[ioq]
    /\ thr' = [thr EXCEPT ![t] = "taken"]
    /\ devtnbr' = NbrNow(t)
    /\ UNCHANGED <<dev, nextioq, starting, hung, panel, devtwait>>

\* Seeded defect: the limit is tested before the thread counts itself.
TooManyEarly(t) == \/ devtmax = 0 /\ devtwait > IdleSpare
                   \/ devtmax > 0 /\ devtnbr > devtmax

TooMany(t) == \/ devtmax = 0 /\ devtwait > IdleSpare
              \/ devtmax > 0 /\ NbrNow(t) > devtmax

EndThread(t) ==
    /\ AtQueue(t) /\ ioq = NoDev /\ TooMany(t)
    /\ thr' = [thr EXCEPT ![t] = "none"]
    /\ cur' = [cur EXCEPT ![t] = NoDev]
    /\ devtnbr' = NbrNow(t) - 1
    /\ UNCHANGED <<dev, queue, starting, hung, panel, devtwait>>

\* Seeded defect: the thread waits without counting itself.
WaitForWorkUncounted(t) ==
    /\ AtQueue(t) /\ ioq = NoDev /\ ~TooMany(t)
    /\ thr' = [thr EXCEPT ![t] = "wait"]
    /\ cur' = [cur EXCEPT ![t] = NoDev]
    /\ devtnbr' = NbrNow(t)
    /\ UNCHANGED <<dev, queue, starting, hung, panel, devtwait>>

WaitForWork(t) ==
    /\ AtQueue(t) /\ ioq = NoDev /\ ~TooMany(t)
    /\ thr' = [thr EXCEPT ![t] = "wait"]
    /\ cur' = [cur EXCEPT ![t] = NoDev]
    /\ devtwait' = devtwait + 1 /\ devtnbr' = NbrNow(t)
    /\ UNCHANGED <<dev, queue, starting, hung, panel>>

BeginChain(t) ==
    /\ thr[t] = "taken" /\ DevLock(cur[t])
    /\ dev' = [dev EXCEPT ![cur[t]].local = TRUE, ![cur[t]].startpending = FALSE]
    /\ thr' = [thr EXCEPT ![t] = "exec"]
    /\ UNCHANGED <<queue, starting, hung, panel, devtwait, devtnbr, cur>>

\* Final status, or the completion of a halt: the device is free again.
EndChain(t) ==
    /\ thr[t] = "exec" /\ DevLock(cur[t])
    /\ dev' = [dev EXCEPT ![cur[t]].busy = FALSE, ![cur[t]].local = FALSE,
                          ![cur[t]].scpend = TRUE, ![cur[t]].halting = FALSE]
    /\ thr' = [thr EXCEPT ![t] = "done"]
    /\ UNCHANGED <<queue, starting, hung, panel, devtwait, devtnbr, cur>>

-----------------------------------------------------------------------------
ThreadStep(t) == TakeRequest(t) \/ EndThread(t) \/ WaitForWork(t)
                 \/ BeginChain(t) \/ EndChain(t)

Next ==
    \/ \E c \in Cpu : QueueRequest(c) \/ QueueRequestLoops(c)
    \/ \E c \in Cpu, d \in Dev : \/ StartIo(c, d) \/ CancelSubchan(c, d)
                                 \/ HaltSubchan(c, d) \/ RemoveRequestLoops(c, d)
                                 \/ TestSubchan(c, d)
    \/ \E d \in Dev : DeviceReset(d)
    \/ \E n \in Limits : SetDevtmax(n)
    \/ ApplyDevtmax
    \/ \E t \in Thread : ThreadStep(t)

Spec == Init /\ [][Next]_vars

(* A CPU inside startio, a device thread and the panel thread that can run   *)
(* get to run; channel programs end.                                         *)
Fairness ==
    /\ \A c \in Cpu : WF_vars(QueueRequest(c))
    /\ \A t \in Thread : WF_vars(ThreadStep(t))
    /\ WF_vars(ApplyDevtmax)

FairSpec == Spec /\ Fairness

-----------------------------------------------------------------------------
(* Properties.                                                               *)

Count(states) == Cardinality({t \in Thread : thr[t] \in states})

\* devtwait and devtnbr, kept by hand in startio, device_thread and the
\* devtmax command, are the number of threads in the condition wait and of
\* threads that have counted themselves.
ThreadCounts == devtwait = Count({"wait"}) /\ devtnbr = Count(Counted)

\* No lost wakeup: while a request is queued some thread will look at the
\* queue again.  Only a failed create_thread with no thread alive excuses it.
NoStrandedRequest ==
    ioq # NoDev => \/ \E t \in Thread : thr[t] \in Active
                   \/ CreateMayFail /\ devtnbr = 0

\* Idle threads stay within devtmax, or within the four that an unlimited
\* pool keeps, except while the devtmax command has yet to wake them.
IdleWithinLimit ==
    applying \/ devtwait <= (IF devtmax = 0 THEN IdleSpare + 1 ELSE devtmax)

Queued == {Walk[k] : k \in Positions} \ {NoDev}
Holders(d) == {c \in Cpu : starting[c] = d}
              \cup {t \in Thread : thr[t] \in {"taken", "exec"} /\ cur[t] = d}

\* A busy device is in exactly one place: with the CPU starting it, on the
\* queue, or with one device thread; an idle device is in none.
RequestHeldOnce ==
    \A d \in Dev : Cardinality(Holders(d)) + Cardinality(Queued \cap {d})
                  = IF dev[d].busy THEN 1 ELSE 0

\* A start function accepted for a device of the most urgent priority begins
\* (or is cancelled): the queue is first come first served among equals.
UrgentServed ==
    \A d \in Dev : (\A e \in Dev : Priority[d] <= Priority[e])
                  => (dev[d].startpending ~> ~dev[d].startpending)
=============================================================================
