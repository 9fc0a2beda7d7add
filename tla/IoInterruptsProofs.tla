-------------------------- MODULE IoInterruptsProofs --------------------------
(* For any number of devices and CPUs, whatever their masks: the interrupt   *)
(* queue stays in order and holds every entry once, no interrupt is          *)
(* overlooked, and a wakeup that reaches a CPU which cannot take the         *)
(* interrupt is passed on.                                                   *)
EXTENDS IoInterrupts, SequenceTheorems, WellFoundedInduction, TLAPS

-----------------------------------------------------------------------------
(* The operators of the model.                                               *)

\* A set of numbers has a least one.
LEMMA LeastProperties ==
    ASSUME NEW S \in SUBSET Nat, S # {}
    PROVE  /\ Least(S) \in S
           /\ \A j \in S : Least(S) <= j
  <1>. DEFINE R == {ss \in Nat \X Nat : ss[1] < ss[2]}
  <1>1. IsWellFoundedOn(R, Nat)
    BY NatLessThanWellFounded DEF OpToRel
  <1>2. PICK k \in S : \A j \in S : <<j, k>> \notin R
    <2>. HIDE DEF R
    <2>. QED
      BY <1>1, WFMin
  <1>3. ASSUME NEW j \in S PROVE k <= j
    <2>1. k \in Nat /\ j \in Nat /\ (<<j, k>> \in R <=> j < k)
      OBVIOUS
    <2>. QED
      BY <1>2, <2>1
  <1>. QED
    BY <1>3 DEF Least

\* WAKEUP_CPU_MASK moves a waiting CPU to "woken", if there is one, and no other.
Asleep == {"wait", "woken"}
LEMMA WakesOne ==
    ASSUME NEW s \in [Cpu -> States]
    PROVE  /\ WakeLowest(s) \in [Cpu -> States]
           /\ \A c \in Cpu : \/ WakeLowest(s)[c] = s[c]
                             \/ s[c] \in Asleep /\ WakeLowest(s)[c] = "woken"
           /\ (\E c \in Cpu : s[c] \in Asleep) => \E c \in Cpu : WakeLowest(s)[c] = "woken"
  <1>. DEFINE w == {c \in Cpu : s[c] \in Asleep}
  <1>1. CASE w = {}
    <2>1. WakeLowest(s) = s
      BY <1>1 DEF WakeLowest, Asleep
    <2>. QED
      BY <1>1, <2>1
  <1>2. CASE w # {}
    <2>1. w \in SUBSET Nat
      BY InterruptAssumption DEF Cpu
    <2>2. Least(w) \in w
      BY <1>2, <2>1, LeastProperties
    <2>3. WakeLowest(s) = [s EXCEPT ![Least(w)] = "woken"]
      BY <1>2 DEF WakeLowest, Asleep
    <2>. HIDE DEF w
    <2>4. Least(w) \in Cpu /\ s[Least(w)] \in Asleep
      BY <2>2 DEF w
    <2>5. "woken" \in States
      BY DEF States
    <2>. QED
      BY <2>3, <2>4, <2>5
  <1>. QED
    BY <1>1, <1>2

\* r is the sequence q without its element at position n.
Without(r, q, n) ==
    /\ Len(r) = Len(q) - 1
    /\ \A j \in 1 .. n - 1 : r[j] = q[j]
    /\ \A j \in n .. Len(q) - 1 : r[j] = q[j + 1]

LEMMA RemoveProperties ==
    ASSUME NEW S, NEW q \in Seq(S), NEW d, Contains(q, d)
    PROVE  /\ RemoveFirst(q, d) \in Seq(S)
           /\ \E n \in 1 .. Len(q) : q[n] = d /\ Without(RemoveFirst(q, d), q, n)
  <1>. DEFINE I == {i \in 1 .. Len(q) : q[i] = d}
  <1>. DEFINE n == SelectInSeq(q, LAMBDA v : v = d)
  <1>1. I # {} /\ I \in SUBSET Nat
    BY DEF Contains
  <1>2. n = Least(I)
    BY <1>1 DEF SelectInSeq, Min, Least
  <1>3. n \in I /\ \A j \in I : n <= j
    BY <1>1, <1>2, LeastProperties
  <1>4. RemoveFirst(q, d) = RemoveAt(q, n)
    BY DEF RemoveFirst, Contains
  <1>. HIDE DEF I, n
  <1>5. n \in 1 .. Len(q) /\ q[n] = d
    BY <1>3 DEF I
  <1>. DEFINE a == SubSeq(q, 1, n - 1)
              b == SubSeq(q, n + 1, Len(q))
  <1>6. /\ a \in Seq(S) /\ Len(a) = n - 1
        /\ \A j \in 1 .. n - 1 : a[j] = q[j]
    BY <1>5, SubSeqProperties
  <1>7. /\ b \in Seq(S) /\ Len(b) = Len(q) - n
        /\ \A j \in 1 .. Len(q) - n : b[j] = q[n + j]
    BY <1>5, SubSeqProperties
  <1>8. RemoveFirst(q, d) = a \o b
    BY <1>4 DEF RemoveAt
  <1>. HIDE DEF a, b
  <1>9. /\ a \o b \in Seq(S) /\ Len(a \o b) = Len(q) - 1
        /\ \A j \in 1 .. n - 1 : (a \o b)[j] = q[j]
        /\ \A j \in n .. Len(q) - 1 : (a \o b)[j] = q[j + 1]
    <2>1. /\ a \o b \in Seq(S) /\ Len(a \o b) = Len(a) + Len(b)
          /\ \A j \in 1 .. Len(a) + Len(b) :
                (a \o b)[j] = IF j <= Len(a) THEN a[j] ELSE b[j - Len(a)]
      BY <1>6, <1>7, ConcatProperties
    <2>2. Len(a) + Len(b) = Len(q) - 1
      BY <1>5, <1>6, <1>7
    <2>3. ASSUME NEW j \in n .. Len(q) - 1
          PROVE  b[j - (n - 1)] = q[j + 1]
      <3>1. j - (n - 1) \in 1 .. Len(q) - n /\ n + (j - (n - 1)) = j + 1
        BY <1>5
      <3>. QED
        BY <1>7, <3>1
    <2>4. ASSUME NEW j \in n .. Len(q) - 1
          PROVE  (a \o b)[j] = q[j + 1]
      <3>1. j \in 1 .. Len(a) + Len(b) /\ ~(j <= Len(a))
        BY <1>5, <1>6, <2>2
      <3>. QED
        BY <1>6, <2>1, <2>3, <3>1
    <2>. QED
      BY <1>5, <1>6, <2>1, <2>2, <2>4
  <1>10. Without(RemoveFirst(q, d), q, n)
    BY <1>8, <1>9 DEF Without
  <1>. QED
    BY <1>5, <1>8, <1>9, <1>10

\* The queue with d at position i.
LEMMA InsertProperties ==
    ASSUME NEW S, NEW q \in Seq(S), NEW d \in S, NEW i \in 1 .. Len(q) + 1
    PROVE  /\ InsertAt(q, i, d) \in Seq(S)
           /\ Len(InsertAt(q, i, d)) = Len(q) + 1
           /\ InsertAt(q, i, d)[i] = d
           /\ \A j \in 1 .. i - 1 : InsertAt(q, i, d)[j] = q[j]
           /\ \A j \in i + 1 .. Len(q) + 1 : InsertAt(q, i, d)[j] = q[j - 1]
  <1>. DEFINE a == SubSeq(q, 1, i - 1)
              b == SubSeq(q, i, Len(q))
  <1>1. /\ a \in Seq(S) /\ Len(a) = i - 1
        /\ \A j \in 1 .. i - 1 : a[j] = q[j]
    BY SubSeqProperties
  <1>2. /\ b \in Seq(S) /\ Len(b) = Len(q) - i + 1
        /\ \A j \in 1 .. Len(q) - i + 1 : b[j] = q[i + j - 1]
    BY SubSeqProperties
  <1>3. InsertAt(q, i, d) = a \o <<d>> \o b
    BY DEF InsertAt
  <1>. HIDE DEF a, b
  <1>. DEFINE e == a \o <<d>>
  <1>4. /\ e \in Seq(S) /\ Len(e) = i
        /\ \A j \in 1 .. i : e[j] = IF j < i THEN q[j] ELSE d
    BY <1>1, ConcatProperties
  <1>. HIDE DEF e
  <1>5. /\ e \o b \in Seq(S) /\ Len(e \o b) = Len(q) + 1
        /\ \A j \in 1 .. Len(q) + 1 :
              (e \o b)[j] = IF j < i THEN q[j] ELSE IF j = i THEN d ELSE q[j - 1]
    <2>1. /\ e \o b \in Seq(S) /\ Len(e \o b) = Len(e) + Len(b)
          /\ \A j \in 1 .. Len(e) + Len(b) :
                (e \o b)[j] = IF j <= Len(e) THEN e[j] ELSE b[j - Len(e)]
      BY <1>2, <1>4, ConcatProperties
    <2>2. Len(e) + Len(b) = Len(q) + 1
      BY <1>2, <1>4
    <2>3. ASSUME NEW j \in 1 .. Len(q) + 1, j > i
          PROVE  b[j - i] = q[j - 1]
      <3>1. j - i \in 1 .. Len(q) - i + 1 /\ i + (j - i) - 1 = j - 1
        BY <2>3
      <3>. QED
        BY <1>2, <3>1
    <2>. QED
      BY <1>4, <2>1, <2>2, <2>3
  <1>. QED
    BY <1>3, <1>5 DEF e

-----------------------------------------------------------------------------
(* The inductive invariant.                                                  *)

\* A started CPU's copy of the flag is the system's: InterruptSeen needs it
\* because the flag is stored only when the system's changes.
FlagCopied == \A c \in Started : cpuio[c] = iopend

\* MSCH leaves the priority alone of a device that is on the queue, by which
\* QUEUE_IO_INTERRUPT finds the entry again.
PriorityKept == \A d \in Dev : pend[d] => qprio[d] = prio[d]

\* A CPU waits with a wait PSW.
WaitsByPsw == \A c \in Cpu : state[c] \in Asleep => waitpsw[c]

\* Who passes a wakeup on.  A CPU that is about to test for interrupts is
\* among them only if nothing can keep it from searching the queue: not for its
\* copy of the flag, which it may be told to ignore by its next PSW.
Searching(b) ==
    \/ state[b] \in {"woken", "update", "found", "tpi", "stopped"}
    \/ state[b] = "check" /\ (waitpsw[b] \/ kick[b])
SomebodySearches ==
    \A c \in Cpu : state[c] = "wait" /\ iomask[c] /\ Takeable(c) # {} =>
        updating # {} \/ \E b \in Cpu : Searching(b)

QueueInv  == QueueOrdered /\ PriorityKept
FlagInv   == FlagCopied /\ InterruptSeen
WakeupInv == WaitsByPsw /\ SomebodySearches
Inv == TypeOK /\ QueueInv /\ FlagInv /\ WakeupInv

LEMMA InvInit == Init => Inv
  <1>. SUFFICES ASSUME Init PROVE Inv
    OBVIOUS
  <1>. USE DEF Init
  <1>1. TypeOK
    <2>1. iointq \in Seq(Dev)
      OBVIOUS
    <2>2. "none" \in Statuses /\ "run" \in States /\ "run" \notin {"found", "tpi"}
      BY DEF Statuses, States
    <2>3. found = NoDev /\ \A b \in Cpu : state[b] = "run"
      OBVIOUS
    <2>4. \A b, c \in Cpu : state[b] \in {"found", "tpi"} =>
                        ~Intlock /\ (b = c \/ state[c] \notin {"found", "tpi"})
      BY <2>2, <2>3
    <2>5. Intlock
      BY DEF Intlock
    <2>. HIDE DEF Intlock
    <2>. QED
      BY <2>1, <2>2, <2>3, <2>4, <2>5 DEF TypeOK
  <1>2. QueueInv
    BY DEF QueueInv, QueueOrdered, PriorityKept, Contains
  <1>3. FlagInv /\ WakeupInv
    BY DEF FlagInv, WakeupInv, FlagCopied, InterruptSeen, Started, WaitsByPsw,
           SomebodySearches, Asleep
  <1>. QED
    BY <1>1, <1>2, <1>3 DEF Inv

-----------------------------------------------------------------------------
(* What the parts of an action do.                                           *)

LEMMA SetFlagDoes ==
    ASSUME TypeOK, NEW on \in BOOLEAN, SetFlag(on)
    PROVE  /\ iopend' = on /\ cpuio' \in [Cpu -> BOOLEAN]
           /\ FlagCopied => \A c \in Started : cpuio'[c] = on
  BY DEF SetFlag, TypeOK, FlagCopied, Started

LEMMA UpdateFlagDoes ==
    ASSUME TypeOK, NEW s \in [Cpu -> States], UpdateFlag(s), Kick
    PROVE  /\ iopend' = (iointq' # << >>) /\ cpuio' \in [Cpu -> BOOLEAN]
           /\ kick' \in [Cpu -> BOOLEAN]
           /\ \A c \in Cpu : kick[c] => kick'[c]
           /\ FlagCopied => \A c \in Started : cpuio'[c] = iopend'
           /\ state' \in [Cpu -> States]
           /\ \A c \in Cpu : \/ state'[c] = s[c]
                             \/ s[c] \in Asleep /\ state'[c] = "woken"
           /\ iointq' # << >> /\ (\E c \in Cpu : s[c] \in Asleep)
                 => \E c \in Cpu : state'[c] = "woken"
  <1>1. /\ iopend' = (iointq' # << >>) /\ cpuio' \in [Cpu -> BOOLEAN]
        /\ FlagCopied => \A c \in Started : cpuio'[c] = iopend'
    <2>. DEFINE on == iointq' # << >>
    <2>1. on \in BOOLEAN /\ SetFlag(on)
      BY DEF UpdateFlag
    <2>. HIDE DEF on
    <2>2. /\ iopend' = on /\ cpuio' \in [Cpu -> BOOLEAN]
          /\ FlagCopied => \A c \in Started : cpuio'[c] = on
      BY <2>1, SetFlagDoes
    <2>. QED
      BY <2>2 DEF on
  <1>2. kick' \in [Cpu -> BOOLEAN] /\ \A c \in Cpu : kick[c] => kick'[c]
    BY DEF Kick, TypeOK
  <1>3. state' = s \/ (iointq' # << >> /\ state' = WakeLowest(s))
    BY DEF UpdateFlag
  <1>4. iointq' # << >> => state' = WakeLowest(s)
    BY DEF UpdateFlag
  <1>. QED
    BY <1>1, <1>2, <1>3, <1>4, WakesOne

\* The insertion: Stops(d) has a least element, the first entry that is the
\* device's own or less urgent, or the end.
LEMMA StopsAt ==
    ASSUME TypeOK, NEW d \in Dev
    PROVE  LET i == Least(Stops(d)) IN
           /\ i \in 1 .. Len(iointq) + 1
           /\ i <= Len(iointq) => iointq[i] = d \/ qprio[iointq[i]] > prio[d]
           /\ \A j \in 1 .. i - 1 : /\ iointq[j] # d
                                    /\ qprio[iointq[j]] <= prio[d]
  <1>. DEFINE i == Least(Stops(d))
  <1>1. iointq \in Seq(Dev) /\ Len(iointq) \in Nat
    BY DEF TypeOK
  <1>2. Len(iointq) + 1 \in Stops(d) /\ Stops(d) \in SUBSET Nat
    BY <1>1 DEF Stops
  <1>3. i \in Stops(d) /\ \A j \in Stops(d) : i <= j
    BY <1>2, LeastProperties
  <1>. HIDE DEF i
  <1>4. i \in 1 .. Len(iointq) + 1
    BY <1>3 DEF Stops
  <1>5. ASSUME NEW j \in 1 .. i - 1
        PROVE  iointq[j] # d /\ qprio[iointq[j]] <= prio[d]
    <2>1. j \in 1 .. Len(iointq) + 1 /\ j <= Len(iointq) /\ j \notin Stops(d)
      BY <1>1, <1>3, <1>4
    <2>2. iointq[j] # d /\ ~(qprio[iointq[j]] > prio[d])
      BY <2>1 DEF Stops
    <2>3. qprio[iointq[j]] \in Nat /\ prio[d] \in Nat
      <3>1. iointq[j] \in Dev
        BY <1>1, <2>1
      <3>2. qprio[iointq[j]] \in Isc /\ prio[d] \in Isc
        BY <3>1 DEF TypeOK
      <3>. QED
        BY <3>2, InterruptAssumption
    <2>. QED
      BY <2>2, <2>3
  <1>6. i <= Len(iointq) => iointq[i] = d \/ qprio[iointq[i]] > prio[d]
    BY <1>3 DEF Stops
  <1>. QED
    BY <1>4, <1>5, <1>6 DEF i

-----------------------------------------------------------------------------
(* The queue.                                                                *)

LEMMA QueueFacts ==
    ASSUME TypeOK
    PROVE  /\ iointq \in Seq(Dev) /\ Len(iointq) \in Nat
           /\ DOMAIN iointq = 1 .. Len(iointq)
           /\ \A j \in 1 .. Len(iointq) : iointq[j] \in Dev
           /\ \A d \in Dev : qprio[d] \in Nat /\ prio[d] \in Nat
  <1>1. iointq \in Seq(Dev)
    BY DEF TypeOK
  <1>2. \A d \in Dev : qprio[d] \in Isc /\ prio[d] \in Isc
    BY DEF TypeOK
  <1>3. \A d \in Dev : qprio[d] \in Nat /\ prio[d] \in Nat
    BY <1>2, InterruptAssumption
  <1>. QED
    BY <1>1, <1>3

LEMMA QueueInterruptKeeps ==
    ASSUME TypeOK, QueueInv, NEW d \in Dev, QueueInterrupt(d), UNCHANGED prio
    PROVE  /\ iointq' \in Seq(Dev) /\ qprio' \in [Dev -> Isc] /\ pend' \in [Dev -> BOOLEAN]
           /\ QueueInv'
  <1>. DEFINE i == Least(Stops(d))
              n == Len(iointq)
  <1>1. /\ iointq \in Seq(Dev) /\ n \in Nat /\ DOMAIN iointq = 1 .. n
        /\ \A j \in 1 .. n : iointq[j] \in Dev
        /\ \A e \in Dev : qprio[e] \in Nat /\ prio[e] \in Nat
    BY QueueFacts
  <1>2. /\ i \in 1 .. n + 1
        /\ i <= n => iointq[i] = d \/ qprio[iointq[i]] > prio[d]
        /\ \A j \in 1 .. i - 1 : iointq[j] # d /\ qprio[iointq[j]] <= prio[d]
    BY StopsAt
  <1>3. /\ \/ i \in DOMAIN iointq /\ iointq[i] = d /\ UNCHANGED <<iointq, qprio>>
           \/ /\ ~(i \in DOMAIN iointq /\ iointq[i] = d)
              /\ iointq' = InsertAt(iointq, i, d)
              /\ qprio' = [qprio EXCEPT ![d] = prio[d]]
        /\ pend' = [pend EXCEPT ![d] = TRUE]
    BY DEF QueueInterrupt
  <1>. HIDE DEF i
  <1>4. pend' \in [Dev -> BOOLEAN]
    BY <1>3 DEF TypeOK
  <1>5. /\ \A a, b \in 1 .. n : a < b => /\ iointq[a] # iointq[b]
                                        /\ qprio[iointq[a]] <= qprio[iointq[b]]
        /\ \A e \in Dev : pend[e] <=> \E j \in 1 .. n : iointq[j] = e
        /\ \A e \in Dev : pend[e] => qprio[e] = prio[e]
    BY <1>1 DEF QueueInv, QueueOrdered, PriorityKept, Contains
  <1>6. CASE i \in 1 .. n /\ iointq[i] = d
    <2>1. UNCHANGED <<iointq, qprio, pend>>
      <3>1. pend[d]
        BY <1>5, <1>6
      <3>2. pend' = pend
        BY <1>3, <3>1 DEF TypeOK
      <3>. QED
        BY <1>1, <1>3, <1>6, <3>2
    <2>. QED
      BY <2>1 DEF TypeOK, QueueInv, QueueOrdered, PriorityKept, Contains
  <1>7. CASE ~(i \in 1 .. n /\ iointq[i] = d)
    <2>1. iointq' = InsertAt(iointq, i, d) /\ qprio' = [qprio EXCEPT ![d] = prio[d]]
      BY <1>1, <1>3, <1>7
    <2>2. \A j \in i .. n : qprio[iointq[j]] > prio[d]
      <3>. SUFFICES ASSUME NEW j \in i .. n PROVE qprio[iointq[j]] > prio[d]
        OBVIOUS
      <3>1. i \in 1 .. n /\ j \in 1 .. n /\ qprio[iointq[i]] > prio[d]
        BY <1>1, <1>2, <1>7
      <3>2. iointq[i] \in Dev /\ iointq[j] \in Dev
        BY <1>1, <3>1
      <3>3. i = j \/ qprio[iointq[i]] <= qprio[iointq[j]]
        BY <1>5, <3>1
      <3>. QED
        BY <1>1, <3>1, <3>2, <3>3
    <2>3. \A j \in 1 .. n : iointq[j] # d
      <3>. SUFFICES ASSUME NEW j \in 1 .. n, iointq[j] = d PROVE FALSE
        OBVIOUS
      <3>1. qprio[d] = prio[d]
        BY <1>5
      <3>2. j \in i .. n
        BY <1>1, <1>2
      <3>3. qprio[iointq[j]] > prio[d]
        BY <2>2, <3>2
      <3>. QED
        BY <1>1, <3>1, <3>3
    <2>4. /\ iointq' \in Seq(Dev) /\ Len(iointq') = n + 1
          /\ \A j \in 1 .. n + 1 :
                iointq'[j] = IF j < i THEN iointq[j] ELSE IF j = i THEN d ELSE iointq[j - 1]
      <3>1. i \in 1 .. Len(iointq) + 1
        BY <1>2
      <3>. HIDE DEF n
      <3>2. /\ InsertAt(iointq, i, d) \in Seq(Dev)
            /\ Len(InsertAt(iointq, i, d)) = Len(iointq) + 1
            /\ InsertAt(iointq, i, d)[i] = d
        BY <1>1, <3>1, InsertProperties
      <3>3. \A j \in 1 .. i - 1 : InsertAt(iointq, i, d)[j] = iointq[j]
        BY <1>1, <3>1, InsertProperties
      <3>4. \A j \in i + 1 .. Len(iointq) + 1 : InsertAt(iointq, i, d)[j] = iointq[j - 1]
        BY <1>1, <3>1, InsertProperties
      <3>. QED
        BY <1>1, <2>1, <3>1, <3>2, <3>3, <3>4 DEF n
    <2>5. DOMAIN iointq' = 1 .. n + 1
      BY <2>4
    <2>6. /\ qprio' \in [Dev -> Isc]
          /\ \A e \in Dev : qprio'[e] = IF e = d THEN prio[d] ELSE qprio[e]
      BY <2>1 DEF TypeOK
    <2>7. ASSUME NEW a \in 1 .. n + 1, NEW b \in 1 .. n + 1, a < b
          PROVE  iointq'[a] # iointq'[b] /\ qprio'[iointq'[a]] <= qprio'[iointq'[b]]
      <3>. DEFINE old(j) == IF j < i THEN j ELSE j - 1
      <3>1. \A j \in 1 .. n + 1 : j # i =>
               /\ old(j) \in 1 .. n /\ iointq'[j] = iointq[old(j)]
               /\ iointq[old(j)] \in Dev /\ iointq[old(j)] # d
               /\ qprio'[iointq'[j]] = qprio[iointq[old(j)]]
        <4>. SUFFICES ASSUME NEW j \in 1 .. n + 1, j # i
                      PROVE  /\ old(j) \in 1 .. n /\ iointq'[j] = iointq[old(j)]
                             /\ iointq[old(j)] \in Dev /\ iointq[old(j)] # d
                             /\ qprio'[iointq'[j]] = qprio[iointq[old(j)]]
          OBVIOUS
        <4>1. old(j) \in 1 .. n /\ iointq'[j] = iointq[old(j)]
          BY <1>1, <1>2, <2>4
        <4>. HIDE DEF old
        <4>2. iointq[old(j)] \in Dev /\ iointq[old(j)] # d
          BY <1>1, <2>3, <4>1
        <4>. QED
          BY <2>6, <4>1, <4>2
      <3>2. CASE a # i /\ b # i
        <4>1. old(a) \in 1 .. n /\ old(b) \in 1 .. n /\ old(a) < old(b)
          BY <1>1, <1>2, <2>7, <3>1, <3>2
        <4>. HIDE DEF old
        <4>. QED
          BY <1>5, <3>1, <3>2, <4>1
      <3>3. CASE a = i
        <4>1. b # i /\ old(b) \in i .. n
          BY <1>1, <1>2, <2>7, <3>3
        <4>2. iointq'[a] = d /\ qprio'[d] = prio[d]
          BY <2>4, <2>6, <3>3
        <4>. HIDE DEF old
        <4>3. qprio[iointq[old(b)]] > prio[d]
          BY <2>2, <4>1
        <4>. QED
          BY <1>1, <3>1, <4>1, <4>2, <4>3
      <3>4. CASE b = i
        <4>1. a # i /\ old(a) \in 1 .. i - 1
          BY <1>1, <1>2, <2>7, <3>4
        <4>2. iointq'[b] = d /\ qprio'[d] = prio[d]
          BY <2>4, <2>6, <3>4
        <4>. HIDE DEF old
        <4>3. qprio[iointq[old(a)]] <= prio[d]
          BY <1>2, <4>1
        <4>. QED
          BY <3>1, <4>1, <4>2, <4>3
      <3>. QED
        BY <3>2, <3>3, <3>4
    <2>8. \A e \in Dev : (\E j \in 1 .. n + 1 : iointq'[j] = e)
                            <=> e = d \/ \E j \in 1 .. n : iointq[j] = e
      <3>1. iointq'[i] = d
        BY <1>2, <2>4
      <3>2. ASSUME NEW j \in 1 .. n
            PROVE  \E k \in 1 .. n + 1 : iointq'[k] = iointq[j]
        <4>1. CASE j < i
          BY <1>1, <2>4, <4>1
        <4>2. CASE ~(j < i)
          <5>1. j + 1 \in 1 .. n + 1 /\ ~(j + 1 < i) /\ j + 1 # i /\ (j + 1) - 1 = j
            BY <1>1, <1>2, <4>2
          <5>. QED
            BY <2>4, <5>1
        <4>. QED
          BY <4>1, <4>2
      <3>3. ASSUME NEW j \in 1 .. n + 1, j # i
            PROVE  \E k \in 1 .. n : iointq'[j] = iointq[k]
        <4>1. CASE j < i
          BY <1>1, <1>2, <2>4, <4>1
        <4>2. CASE ~(j < i)
          <5>1. j - 1 \in 1 .. n
            BY <1>1, <1>2, <3>3, <4>2
          <5>. QED
            BY <2>4, <3>3, <4>2, <5>1
        <4>. QED
          BY <4>1, <4>2
      <3>. QED
        BY <1>2, <3>1, <3>2, <3>3
    <2>9. \A e \in Dev : pend'[e] <=> e = d \/ pend[e]
      BY <1>3 DEF TypeOK
    <2>10. QueueOrdered'
      BY <1>5, <2>4, <2>5, <2>7, <2>8, <2>9 DEF QueueOrdered, Contains
    <2>11. PriorityKept'
      BY <1>5, <2>6, <2>9 DEF PriorityKept
    <2>. QED
      BY <1>4, <2>4, <2>6, <2>10, <2>11 DEF QueueInv
  <1>. QED
    BY <1>4, <1>6, <1>7

LEMMA DequeueKeeps ==
    ASSUME TypeOK, QueueInv, NEW d \in Dev, Dequeue(d), UNCHANGED prio
    PROVE  /\ iointq' \in Seq(Dev) /\ qprio' \in [Dev -> Isc] /\ pend' \in [Dev -> BOOLEAN]
           /\ QueueInv'
  <1>. DEFINE n == Len(iointq)
  <1>1. /\ iointq \in Seq(Dev) /\ n \in Nat /\ DOMAIN iointq = 1 .. n
        /\ \A j \in 1 .. n : iointq[j] \in Dev
        /\ \A e \in Dev : qprio[e] \in Nat /\ prio[e] \in Nat
    BY QueueFacts
  <1>2. /\ iointq' = RemoveFirst(iointq, d) /\ qprio' = qprio
        /\ pend' = [pend EXCEPT ![d] = pend[d] /\ ~Contains(iointq, d)]
    BY DEF Dequeue
  <1>3. /\ \A a, b \in 1 .. n : a < b => /\ iointq[a] # iointq[b]
                                        /\ qprio[iointq[a]] <= qprio[iointq[b]]
        /\ \A e \in Dev : pend[e] <=> Contains(iointq, e)
        /\ \A e \in Dev : pend[e] => qprio[e] = prio[e]
    BY <1>1 DEF QueueInv, QueueOrdered, PriorityKept
  <1>4. pend[d] \in BOOLEAN /\ Contains(iointq, d) \in BOOLEAN
    BY DEF TypeOK, Contains
  <1>5. /\ pend' \in [Dev -> BOOLEAN]
        /\ \A e \in Dev : pend'[e] <=> e # d /\ pend[e]
    <2>1. ~(pend[d] /\ ~Contains(iointq, d))
      BY <1>3
    <2>. QED
      BY <1>2, <2>1 DEF TypeOK
  <1>6. qprio' \in [Dev -> Isc] /\ PriorityKept'
    BY <1>2, <1>3, <1>5 DEF TypeOK, PriorityKept
  <1>7. CASE ~Contains(iointq, d)
    <2>1. iointq' = iointq
      BY <1>2, <1>7 DEF RemoveFirst, Contains
    <2>2. \A e \in Dev : pend'[e] <=> pend[e]
      BY <1>3, <1>5, <1>7
    <2>3. QueueOrdered'
      BY <1>1, <1>2, <1>3, <2>1, <2>2 DEF QueueOrdered, Contains
    <2>. QED
      BY <1>1, <1>5, <1>6, <2>1, <2>3 DEF QueueInv
  <1>8. CASE Contains(iointq, d)
    <2>1. PICK m \in 1 .. n :
              /\ iointq[m] = d
              /\ iointq' \in Seq(Dev) /\ Len(iointq') = n - 1
              /\ \A j \in 1 .. m - 1 : iointq'[j] = iointq[j]
              /\ \A j \in m .. n - 1 : iointq'[j] = iointq[j + 1]
      <3>1. /\ iointq' \in Seq(Dev)
            /\ \E m \in 1 .. Len(iointq) : iointq[m] = d /\ Without(iointq', iointq, m)
        BY <1>1, <1>2, <1>8, RemoveProperties
      <3>. QED
        BY <3>1 DEF Without
    <2>. DEFINE old(j) == IF j < m THEN j ELSE j + 1
    <2>2. DOMAIN iointq' = 1 .. n - 1
      BY <2>1
    <2>3. \A j \in 1 .. n - 1 : /\ old(j) \in 1 .. n /\ old(j) # m
                               /\ iointq'[j] = iointq[old(j)]
      <3>. SUFFICES ASSUME NEW j \in 1 .. n - 1
                    PROVE  old(j) \in 1 .. n /\ old(j) # m /\ iointq'[j] = iointq[old(j)]
        OBVIOUS
      <3>1. CASE j < m
        BY <1>1, <2>1, <3>1
      <3>2. CASE ~(j < m)
        BY <1>1, <2>1, <3>2
      <3>. QED
        BY <3>1, <3>2
    <2>4. \A a, b \in 1 .. n - 1 : a < b => old(a) < old(b)
      OBVIOUS
    <2>5. \A k \in 1 .. n : k # m => \E j \in 1 .. n - 1 : old(j) = k
      <3>. SUFFICES ASSUME NEW k \in 1 .. n, k # m
                    PROVE  \E j \in 1 .. n - 1 : old(j) = k
        OBVIOUS
      <3>1. CASE k < m
        <4>1. k \in 1 .. n - 1 /\ old(k) = k
          BY <1>1, <3>1
        <4>. QED
          BY <4>1
      <3>2. CASE k > m
        <4>1. k - 1 \in 1 .. n - 1 /\ old(k - 1) = k
          BY <1>1, <3>2
        <4>. QED
          BY <4>1
      <3>. QED
        BY <1>1, <3>1, <3>2
    <2>. HIDE DEF old
    <2>6. ASSUME NEW a \in 1 .. n - 1, NEW b \in 1 .. n - 1, a < b
          PROVE  iointq'[a] # iointq'[b] /\ qprio'[iointq'[a]] <= qprio'[iointq'[b]]
      <3>1. old(a) \in 1 .. n /\ old(b) \in 1 .. n /\ old(a) < old(b)
        BY <2>3, <2>4, <2>6
      <3>2. /\ iointq[old(a)] # iointq[old(b)]
            /\ qprio[iointq[old(a)]] <= qprio[iointq[old(b)]]
        BY <1>3, <3>1
      <3>3. iointq'[a] = iointq[old(a)] /\ iointq'[b] = iointq[old(b)]
        BY <2>3
      <3>. QED
        BY <1>2, <3>2, <3>3
    <2>7. \A e \in Dev : Contains(iointq', e) <=> e # d /\ Contains(iointq, e)
      <3>1. \A k \in 1 .. n : iointq[k] = d => k = m
        BY <1>1, <1>3, <2>1
      <3>2. ASSUME NEW e \in Dev, NEW j \in 1 .. n - 1, iointq'[j] = e
            PROVE  e # d /\ Contains(iointq, e)
        <4>1. old(j) \in 1 .. n /\ old(j) # m /\ iointq[old(j)] = e
          BY <2>3, <3>2
        <4>. QED
          BY <3>1, <4>1 DEF Contains
      <3>3. ASSUME NEW e \in Dev, e # d, NEW k \in 1 .. n, iointq[k] = e
            PROVE  \E j \in 1 .. n - 1 : iointq'[j] = e
        <4>1. PICK j \in 1 .. n - 1 : old(j) = k
          BY <2>1, <2>5, <3>3
        <4>. QED
          BY <2>3, <3>3, <4>1
      <3>. QED
        BY <2>1, <3>2, <3>3 DEF Contains
    <2>8. QueueOrdered'
      BY <1>3, <1>5, <2>2, <2>6, <2>7 DEF QueueOrdered
    <2>. QED
      BY <1>5, <1>6, <2>1, <2>8 DEF QueueInv
  <1>. QED
    BY <1>7, <1>8

\* MSCH changes the priority of devices that are not on the queue only.
LEMMA QueueStep ==
    ASSUME Inv, Next
    PROVE  /\ iointq' \in Seq(Dev) /\ qprio' \in [Dev -> Isc] /\ pend' \in [Dev -> BOOLEAN]
           /\ prio' \in [Dev -> Isc]
           /\ QueueInv'
  <1>1. TypeOK /\ QueueInv
    BY DEF Inv
  <1>2. CASE UNCHANGED <<device, prio>>
    BY <1>1, <1>2 DEF device, TypeOK, QueueInv, QueueOrdered, PriorityKept, Contains
  <1>3. ASSUME NEW d \in Dev, QueueInterrupt(d) \/ Dequeue(d), UNCHANGED prio
        PROVE  /\ iointq' \in Seq(Dev) /\ qprio' \in [Dev -> Isc] /\ pend' \in [Dev -> BOOLEAN]
               /\ prio' \in [Dev -> Isc]
               /\ QueueInv'
    <2>1. prio' \in [Dev -> Isc]
      BY <1>1, <1>3 DEF TypeOK
    <2>. QED
      BY <1>1, <1>3, <2>1, QueueInterruptKeeps, DequeueKeeps
  <1>4. ASSUME NEW d \in Dev, RaiseInterrupt(d) \/ UpdateDevice(d)
        PROVE  UNCHANGED <<device, prio>> \/ (QueueInterrupt(d) /\ UNCHANGED prio)
    BY <1>4 DEF RaiseInterrupt, UpdateDevice
  <1>5. ASSUME NEW c \in Cpu, NEW d \in Dev, NEW i \in Isc, ModifySubchannel(c, d, i)
        PROVE  /\ iointq' \in Seq(Dev) /\ qprio' \in [Dev -> Isc] /\ pend' \in [Dev -> BOOLEAN]
               /\ prio' \in [Dev -> Isc]
               /\ QueueInv'
    <2>1. ~pend[d] /\ prio' = [prio EXCEPT ![d] = i] /\ UNCHANGED device
      BY <1>5 DEF ModifySubchannel
    <2>2. prio' \in [Dev -> Isc] /\ \A e \in Dev : pend[e] => prio'[e] = prio[e]
      BY <1>1, <2>1 DEF TypeOK
    <2>3. PriorityKept'
      BY <1>1, <2>1, <2>2 DEF QueueInv, PriorityKept, device
    <2>4. QueueOrdered'
      BY <1>1, <2>1 DEF QueueInv, QueueOrdered, Contains, device
    <2>. QED
      BY <1>1, <2>1, <2>2, <2>3, <2>4 DEF TypeOK, QueueInv, device
  <1>6. ASSUME NEW c \in Cpu, CpuStep(c)
        PROVE  \/ UNCHANGED <<device, prio>>
               \/ \E d \in Dev : Dequeue(d) /\ UNCHANGED prio
               \/ \E d \in Dev, i \in Isc : ModifySubchannel(c, d, i)
    <2>1. CASE \/ \E io, wait \in BOOLEAN : LoadPsw(c, io, wait)
               \/ UpdateCpu(c) \/ TestPending(c) \/ ProcessInterrupt(c) \/ GoOn(c)
               \/ Retry(c) \/ WakeUp(c) \/ StopCpu(c) \/ EnterStopped(c) \/ StartCpu(c)
      BY <2>1 DEF LoadPsw, UpdateCpu, TestPending, ProcessInterrupt, GoOn, Retry, WakeUp,
                  StopCpu, EnterStopped, StartCpu
    <2>2. CASE \E d \in Dev : TestSubchannel(c, d)
      BY <2>2 DEF TestSubchannel
    <2>3. CASE TakeInterrupt(c)
      <3>1. found \in Dev
        BY <1>1, <2>3 DEF TakeInterrupt, TypeOK, Intlock
      <3>. QED
        BY <2>3, <3>1 DEF TakeInterrupt
    <2>4. CASE \E d \in Dev, i \in Isc : ModifySubchannel(c, d, i)
      BY <2>4
    <2>. QED
      BY <1>6, <2>1, <2>2, <2>3, <2>4 DEF CpuStep
  <1>. QED
    BY <1>2, <1>3, <1>4, <1>5, <1>6 DEF Next

-----------------------------------------------------------------------------
(* The CPUs.                                                                 *)

\* What a step of CPU c may do to the others: wake them.
StaysOrWakes(e) == state'[e] = state[e] \/ (state[e] \in Asleep /\ state'[e] = "woken")
WakesSomebody(c) == (\E e \in Cpu \ {c} : state[e] \in Asleep)
                        => \E e \in Cpu : state'[e] = "woken"

LEMMA FindDoes ==
    ASSUME TypeOK, NEW c \in Cpu, NEW place \in States, Find(c, place)
    PROVE  /\ found' \in Dev
           /\ state' \in [Cpu -> States] /\ state'[c] = place
           /\ \A e \in Cpu \ {c} : StaysOrWakes(e)
           /\ UNCHANGED <<iopend, cpuio>>
  <1>. DEFINE i == Least(Takeable(c))
  <1>1. /\ iointq \in Seq(Dev) /\ DOMAIN iointq = 1 .. Len(iointq)
        /\ \A j \in 1 .. Len(iointq) : iointq[j] \in Dev
    BY QueueFacts
  <1>2. Takeable(c) \in SUBSET Nat /\ Takeable(c) # {}
    BY <1>1 DEF Find, Takeable
  <1>3. i \in 1 .. Len(iointq)
    BY <1>1, <1>2, LeastProperties DEF Takeable
  <1>4. found' = iointq[i] /\ UNCHANGED <<iopend, cpuio>>
    BY DEF Find
  <1>. HIDE DEF i
  <1>5. PICK s \in {state, WakeLowest(state)} : state' = [s EXCEPT ![c] = place]
    BY DEF Find
  <1>6. /\ s \in [Cpu -> States]
        /\ \A e \in Cpu : s[e] = state[e] \/ (state[e] \in Asleep /\ s[e] = "woken")
    <2>1. state \in [Cpu -> States]
      BY DEF TypeOK
    <2>2. CASE s = state
      BY <2>1, <2>2
    <2>3. CASE s = WakeLowest(state)
      BY <2>1, <2>3, WakesOne
    <2>. QED
      BY <1>5, <2>2, <2>3
  <1>. QED
    BY <1>1, <1>3, <1>4, <1>5, <1>6 DEF StaysOrWakes

LEMMA FindNothingDoes ==
    ASSUME TypeOK, NEW c \in Cpu, NEW place \in States, FindNothing(c, place)
    PROVE  /\ Takeable(c) = {} /\ found' = NoDev
           /\ state' \in [Cpu -> States] /\ state'[c] = place
           /\ \A e \in Cpu \ {c} : StaysOrWakes(e)
           /\ iointq # << >> /\ state[c] \notin Asleep => WakesSomebody(c)
           /\ iopend' = (iointq # << >>) /\ cpuio' \in [Cpu -> BOOLEAN]
           /\ FlagCopied => \A e \in Started : cpuio'[e] = iopend'
  <1>1. /\ iopend' = (iointq # << >>) /\ cpuio' \in [Cpu -> BOOLEAN]
        /\ FlagCopied => \A e \in Started : cpuio'[e] = iopend'
    <2>. DEFINE on == iointq # << >>
    <2>1. on \in BOOLEAN /\ SetFlag(on)
      BY DEF FindNothing
    <2>. HIDE DEF on
    <2>2. /\ iopend' = on /\ cpuio' \in [Cpu -> BOOLEAN]
          /\ FlagCopied => \A e \in Started : cpuio'[e] = on
      BY <2>1, SetFlagDoes
    <2>. QED
      BY <2>2 DEF on
  <1>2. PICK s \in {state, WakeLowest(state)} :
            /\ iointq # << >> => s = WakeLowest(state)
            /\ state' = [s EXCEPT ![c] = place]
    BY DEF FindNothing
  <1>3. /\ s \in [Cpu -> States]
        /\ \A e \in Cpu : \/ s[e] = state[e]
                          \/ state[e] \in Asleep /\ s[e] = "woken"
        /\ iointq # << >> /\ (\E e \in Cpu : state[e] \in Asleep) => \E e \in Cpu : s[e] = "woken"
    BY <1>2, WakesOne DEF TypeOK
  <1>4. state' \in [Cpu -> States] /\ \A e \in Cpu : state'[e] = IF e = c THEN place ELSE s[e]
    BY <1>2, <1>3
  <1>5. iointq # << >> /\ state[c] \notin Asleep => WakesSomebody(c)
    BY <1>3, <1>4 DEF WakesSomebody, Asleep
  <1>6. \A e \in Cpu \ {c} : StaysOrWakes(e)
    BY <1>3, <1>4 DEF StaysOrWakes
  <1>. QED
    BY <1>1, <1>4, <1>5, <1>6 DEF FindNothing

\* What a step of CPU c does, as far as the flag, intlock and the places of the
\* CPUs are concerned.
Presenting == {"found", "tpi"}

LEMMA LockHeld ==
    ASSUME TypeOK
    PROVE  /\ Intlock => \A e \in Cpu : state[e] \notin Presenting
           /\ \A c \in Cpu : state[c] \in Presenting
                 => found \in Dev /\ \A e \in Cpu \ {c} : state[e] \notin Presenting
  BY DEF TypeOK, Intlock, Presenting

\* A step that leaves intlock alone, or obtains it for CPU c, or releases it.
LEMMA LockKept ==
    ASSUME TypeOK, NEW c \in Cpu,
           state' \in [Cpu -> States], \A e \in Cpu \ {c} : StaysOrWakes(e),
           \/ found' = found /\ (state[c] \in Presenting <=> state'[c] \in Presenting)
           \/ found' = NoDev /\ state'[c] \notin Presenting
                /\ (Intlock \/ state[c] \in Presenting)
           \/ found' \in Dev /\ state'[c] \in Presenting
                /\ (Intlock \/ state[c] \in Presenting)
    PROVE  /\ found' \in Dev \cup {NoDev}
           /\ \A a, b \in Cpu : state'[a] \in {"found", "tpi"} =>
                  ~Intlock' /\ (a = b \/ state'[b] \notin {"found", "tpi"})
           /\ ~Intlock' => \E e \in Cpu : state'[e] \in {"found", "tpi"}
  <1>1. \A e \in Cpu \ {c} : state'[e] \in Presenting <=> state[e] \in Presenting
    BY DEF StaysOrWakes, Asleep, Presenting
  <1>2. found \in Dev \cup {NoDev}
    BY DEF TypeOK
  <1>3. CASE found' = found /\ (state[c] \in Presenting <=> state'[c] \in Presenting)
    <2>1. \A e \in Cpu : state'[e] \in Presenting <=> state[e] \in Presenting
      BY <1>1, <1>3
    <2>2. Intlock' <=> Intlock
      BY <1>3 DEF Intlock
    <2>. QED
      BY <1>2, <1>3, <2>1, <2>2 DEF TypeOK, Presenting
  <1>4. CASE Intlock \/ state[c] \in Presenting
    <2>1. \A e \in Cpu \ {c} : state'[e] \notin Presenting
      BY <1>1, <1>4, LockHeld
    <2>2. CASE found' = NoDev /\ state'[c] \notin Presenting
      BY <2>1, <2>2 DEF Intlock, Presenting
    <2>3. CASE found' \in Dev /\ state'[c] \in Presenting
      <3>1. ~Intlock'
        BY <2>3, InterruptAssumption DEF Intlock
      <3>. QED
        BY <2>1, <2>3, <3>1 DEF Presenting
    <2>4. CASE found' = found /\ (state[c] \in Presenting <=> state'[c] \in Presenting)
      BY <1>3, <2>4
    <2>. QED
      BY <2>2, <2>3, <2>4
  <1>. QED
    BY <1>3, <1>4

\* The types of what is neither queue nor lock nor places.
RestTyped ==
    /\ status \in [Dev -> Statuses] /\ updating \in SUBSET Dev /\ iopend \in BOOLEAN
    /\ cpuio \in [Cpu -> BOOLEAN] /\ kick \in [Cpu -> BOOLEAN]
    /\ iomask \in [Cpu -> BOOLEAN] /\ waitpsw \in [Cpu -> BOOLEAN]
    /\ stopping \in SUBSET Cpu

LockStep(c) ==
    \/ found' = found /\ (state[c] \in Presenting <=> state'[c] \in Presenting)
    \/ found' = NoDev /\ state'[c] \notin Presenting /\ (Intlock \/ state[c] \in Presenting)
    \/ found' \in Dev /\ state'[c] \in Presenting /\ (Intlock \/ state[c] \in Presenting)

LEMMA CpuMoves ==
    ASSUME TypeOK, NEW c \in Cpu, CpuStep(c)
    PROVE  /\ state' \in [Cpu -> States] /\ \A e \in Cpu \ {c} : StaysOrWakes(e)
           /\ LockStep(c) /\ RestTyped'
  <1>. DEFINE Goal == /\ state' \in [Cpu -> States] /\ \A e \in Cpu \ {c} : StaysOrWakes(e)
                      /\ LockStep(c) /\ RestTyped'
  <1>1. /\ RestTyped /\ state \in [Cpu -> States]
        /\ {"run", "check", "wait", "woken", "update", "stopped"} \subseteq States \ Presenting
        /\ {"found", "tpi"} = Presenting /\ Presenting \subseteq States
        /\ {"none", "inter", "busy", "final"} = Statuses
    BY DEF TypeOK, RestTyped, States, Presenting, Statuses
  <1>. USE DEF LockStep, StaysOrWakes, RestTyped
  <1>2. CASE \/ \E io, wait \in BOOLEAN : LoadPsw(c, io, wait)
             \/ \E d \in Dev : TestSubchannel(c, d)
             \/ \E d \in Dev, i \in Isc : ModifySubchannel(c, d, i)
    <2>1. ASSUME NEW io \in BOOLEAN, NEW wait \in BOOLEAN, LoadPsw(c, io, wait) PROVE Goal
      BY <1>1, <2>1 DEF LoadPsw, flag
    <2>2. ASSUME NEW d \in Dev, TestSubchannel(c, d) PROVE Goal
      BY <1>1, <2>2 DEF TestSubchannel, flag, guest
    <2>3. ASSUME NEW d \in Dev, NEW i \in Isc, ModifySubchannel(c, d, i) PROVE Goal
      BY <1>1, <2>3 DEF ModifySubchannel, flag, guest
    <2>. QED
      BY <1>2, <2>1, <2>2, <2>3
  <1>3. CASE UpdateCpu(c)
    <2>. DEFINE s == [state EXCEPT ![c] = "run"]
    <2>1. s \in [Cpu -> States] /\ s[c] = "run" /\ \A e \in Cpu \ {c} : s[e] = state[e]
      BY <1>1
    <2>2. UpdateFlag(s) /\ Kick /\ state[c] = "update"
      BY <1>3 DEF UpdateCpu
    <2>3. UNCHANGED <<status, updating, guest, stopping, found>>
      BY <1>3 DEF UpdateCpu
    <2>. HIDE DEF s
    <2>4. /\ iopend' \in BOOLEAN /\ cpuio' \in [Cpu -> BOOLEAN] /\ kick' \in [Cpu -> BOOLEAN]
          /\ state' \in [Cpu -> States]
          /\ \A e \in Cpu : state'[e] = s[e] \/ (s[e] \in Asleep /\ state'[e] = "woken")
      BY <2>1, <2>2, UpdateFlagDoes
    <2>5. state'[c] = "run"
      BY <2>1, <2>4 DEF Asleep
    <2>. QED
      BY <1>1, <2>1, <2>2, <2>3, <2>4, <2>5 DEF guest
  <1>4. CASE TakeInterrupt(c)
    <2>. DEFINE place == IF state[c] = "found" THEN "check" ELSE "run"
                s == [state EXCEPT ![c] = place]
    <2>1. s \in [Cpu -> States] /\ s[c] = place /\ \A e \in Cpu \ {c} : s[e] = state[e]
      BY <1>1
    <2>2. UpdateFlag(s) /\ Kick /\ state[c] \in Presenting /\ found' = NoDev
      BY <1>4 DEF TakeInterrupt, Presenting
    <2>3. /\ UNCHANGED <<status, updating, stopping>>
          /\ iomask' \in [Cpu -> BOOLEAN] /\ waitpsw' \in [Cpu -> BOOLEAN]
      BY <1>1, <1>4 DEF TakeInterrupt
    <2>. HIDE DEF s
    <2>4. /\ iopend' \in BOOLEAN /\ cpuio' \in [Cpu -> BOOLEAN] /\ kick' \in [Cpu -> BOOLEAN]
          /\ state' \in [Cpu -> States]
          /\ \A e \in Cpu : state'[e] = s[e] \/ (s[e] \in Asleep /\ state'[e] = "woken")
      BY <2>1, <2>2, UpdateFlagDoes
    <2>5. state'[c] \notin Presenting
      BY <2>1, <2>4 DEF Asleep, Presenting
    <2>. QED
      BY <1>1, <2>1, <2>2, <2>3, <2>4, <2>5
  <1>5. CASE TestPending(c)
    <2>1. Intlock /\ UNCHANGED <<kick, status, updating, guest, stopping>>
      BY <1>5 DEF TestPending
    <2>2. CASE Find(c, "tpi")
      BY <1>1, <2>1, <2>2, FindDoes DEF guest
    <2>3. CASE FindNothing(c, "run")
      BY <1>1, <2>1, <2>3, FindNothingDoes DEF guest
    <2>. QED
      BY <1>5, <2>2, <2>3 DEF TestPending
  <1>6. CASE Retry(c)
    <2>1. state[c] \in Presenting /\ UNCHANGED <<kick, status, updating, guest, stopping>>
      BY <1>6 DEF Retry, Presenting
    <2>2. CASE Find(c, state[c])
      BY <1>1, <2>1, <2>2, FindDoes DEF guest
    <2>3. CASE FindNothing(c, Settle(c))
      <3>1. Settle(c) \in States \ Presenting
        BY <1>1 DEF Settle
      <3>. QED
        BY <1>1, <2>1, <2>3, <3>1, FindNothingDoes DEF guest
    <2>. QED
      BY <1>6, <2>2, <2>3 DEF Retry
  <1>7. CASE ProcessInterrupt(c)
    <2>1. /\ Intlock /\ UNCHANGED <<status, updating, guest, stopping>>
          /\ kick' \in [Cpu -> BOOLEAN] /\ state[c] \notin Presenting
      BY <1>1, <1>7 DEF ProcessInterrupt
    <2>2. Settle(c) \in States \ Presenting
      BY <1>1 DEF Settle
    <2>3. CASE Find(c, "found")
      BY <1>1, <2>1, <2>3, FindDoes DEF guest
    <2>4. CASE FindNothing(c, Settle(c))
      BY <1>1, <2>1, <2>2, <2>4, FindNothingDoes DEF guest
    <2>5. ASSUME NEW s \in {state, WakeLowest(state)}, state' = [s EXCEPT ![c] = Settle(c)],
                 UNCHANGED <<iopend, cpuio, found>>
          PROVE  Goal
      <3>1. /\ s \in [Cpu -> States]
            /\ \A e \in Cpu : s[e] = state[e] \/ (state[e] \in Asleep /\ s[e] = "woken")
        <4>1. CASE s = state
          BY <1>1, <4>1
        <4>2. CASE s = WakeLowest(state)
          BY <1>1, <4>2, WakesOne
        <4>. QED
          BY <4>1, <4>2
      <3>. QED
        BY <1>1, <2>1, <2>2, <2>5, <3>1 DEF guest
    <2>. QED
      BY <1>7, <2>3, <2>4, <2>5 DEF ProcessInterrupt
  <1>8. CASE GoOn(c) \/ WakeUp(c)
    BY <1>1, <1>8 DEF GoOn, WakeUp, flag, guest
  <1>9. CASE StopCpu(c) \/ EnterStopped(c) \/ StartCpu(c)
    <2>1. CASE StopCpu(c)
      BY <1>1, <2>1 DEF StopCpu, guest
    <2>2. CASE EnterStopped(c)
      BY <1>1, <2>2 DEF EnterStopped, guest
    <2>3. CASE StartCpu(c)
      BY <1>1, <2>3 DEF StartCpu, guest
    <2>. QED
      BY <1>9, <2>1, <2>2, <2>3
  <1>. QED
    BY <1>2, <1>3, <1>4, <1>5, <1>6, <1>7, <1>8, <1>9 DEF CpuStep

LEMMA TypeStep == ASSUME Inv, Next PROVE TypeOK'
  <1>1. TypeOK
    BY DEF Inv
  <1>2. /\ iointq' \in Seq(Dev) /\ qprio' \in [Dev -> Isc] /\ pend' \in [Dev -> BOOLEAN]
        /\ prio' \in [Dev -> Isc]
    BY QueueStep
  <1>3. ASSUME NEW c \in Cpu, CpuStep(c) PROVE TypeOK'
    <2>1. /\ state' \in [Cpu -> States] /\ \A e \in Cpu \ {c} : StaysOrWakes(e)
          /\ LockStep(c) /\ RestTyped'
      BY <1>1, <1>3, CpuMoves
    <2>2. /\ found' \in Dev \cup {NoDev}
          /\ \A a, b \in Cpu : state'[a] \in {"found", "tpi"} =>
                 ~Intlock' /\ (a = b \/ state'[b] \notin {"found", "tpi"})
          /\ ~Intlock' => \E e \in Cpu : state'[e] \in {"found", "tpi"}
      BY <1>1, <2>1, LockKept DEF LockStep
    <2>. QED
      BY <1>2, <2>1, <2>2 DEF TypeOK, RestTyped
  <1>4. ASSUME NEW d \in Dev, RaiseInterrupt(d) PROVE TypeOK'
    <2>1. /\ status' \in [Dev -> Statuses] /\ updating' \in SUBSET Dev
          /\ UNCHANGED <<flag, guest, state, stopping, found>>
      BY <1>1, <1>4 DEF RaiseInterrupt, TypeOK, Statuses
    <2>. QED
      BY <1>1, <1>2, <2>1 DEF TypeOK, flag, guest, Intlock
  <1>5. ASSUME NEW d \in Dev, UpdateDevice(d) PROVE TypeOK'
    <2>1. /\ Intlock /\ UpdateFlag(state) /\ Kick /\ updating' \in SUBSET Dev
          /\ UNCHANGED <<status, guest, stopping, found>>
      BY <1>1, <1>5 DEF UpdateDevice, TypeOK
    <2>2. state \in [Cpu -> States]
      BY <1>1 DEF TypeOK
    <2>3. /\ iopend' \in BOOLEAN /\ cpuio' \in [Cpu -> BOOLEAN] /\ kick' \in [Cpu -> BOOLEAN]
          /\ state' \in [Cpu -> States]
          /\ \A e \in Cpu : state'[e] = state[e] \/ (state[e] \in Asleep /\ state'[e] = "woken")
      BY <1>1, <2>1, <2>2, UpdateFlagDoes
    <2>4. Intlock' /\ \A e \in Cpu : state'[e] \notin {"found", "tpi"}
      BY <1>1, <2>1, <2>3, LockHeld DEF Intlock, Asleep, Presenting
    <2>. QED
      BY <1>1, <1>2, <2>1, <2>3, <2>4 DEF TypeOK, guest
  <1>. QED
    BY <1>3, <1>4, <1>5 DEF Next

-----------------------------------------------------------------------------
(* The flag.                                                                 *)

\* UPDATE_IC_IOPENDING leaves nothing to be overlooked, whoever was started.
LEMMA FlagStored ==
    ASSUME iopend' = (iointq' # << >>), \A e \in Started : cpuio'[e] = iopend',
           Started' \subseteq Started
    PROVE  FlagInv'
  BY DEF FlagInv, FlagCopied, InterruptSeen, Started

LEMMA FlagStep == ASSUME Inv, Next PROVE FlagInv'
  <1>1. TypeOK /\ FlagCopied /\ InterruptSeen
    BY DEF Inv, FlagInv
  <1>2. ASSUME NEW d \in Dev, RaiseInterrupt(d) PROVE FlagInv'
    BY <1>1, <1>2 DEF RaiseInterrupt, FlagInv, FlagCopied, InterruptSeen, Started, flag
  <1>3. ASSUME NEW d \in Dev, UpdateDevice(d) PROVE FlagInv'
    <2>1. UpdateFlag(state) /\ Kick /\ state \in [Cpu -> States]
      BY <1>1, <1>3 DEF UpdateDevice, TypeOK
    <2>2. /\ iopend' = (iointq' # << >>) /\ \A e \in Started : cpuio'[e] = iopend'
          /\ \A e \in Cpu : state'[e] = state[e] \/ (state[e] \in Asleep /\ state'[e] = "woken")
      BY <1>1, <2>1, UpdateFlagDoes
    <2>. QED
      BY <2>2, FlagStored DEF Started, Asleep
  <1>4. ASSUME NEW c \in Cpu, CpuStep(c) PROVE FlagInv'
    <2>1. state' \in [Cpu -> States] /\ \A e \in Cpu \ {c} : StaysOrWakes(e)
      BY <1>1, <1>4, CpuMoves
    <2>2. \A e \in Cpu \ {c} : e \in Started' <=> e \in Started
      BY <2>1 DEF StaysOrWakes, Started, Asleep
    <2>3. \A e \in Cpu \ {c} : state[e] = "update" => state'[e] = "update"
      BY <2>1 DEF StaysOrWakes, Asleep
    <2>4. CASE UpdateCpu(c) \/ TakeInterrupt(c)
      <3>1. PICK s \in [Cpu -> States] : UpdateFlag(s) /\ Kick
        <4>1. CASE UpdateCpu(c)
          BY <1>1, <4>1 DEF UpdateCpu, TypeOK, States
        <4>2. CASE TakeInterrupt(c)
          BY <1>1, <4>2 DEF TakeInterrupt, TypeOK, States
        <4>. QED
          BY <2>4, <4>1, <4>2
      <3>2. iopend' = (iointq' # << >>) /\ \A e \in Started : cpuio'[e] = iopend'
        BY <1>1, <3>1, UpdateFlagDoes
      <3>3. c \in Started
        BY <2>4 DEF UpdateCpu, TakeInterrupt, Started
      <3>. QED
        BY <2>2, <3>2, <3>3, FlagStored DEF Started
    <2>5. ASSUME NEW place \in States, FindNothing(c, place), c \in Started,
                 UNCHANGED device
          PROVE  FlagInv'
      <3>1. iopend' = (iointq # << >>) /\ \A e \in Started : cpuio'[e] = iopend'
        BY <1>1, <2>5, FindNothingDoes
      <3>. QED
        BY <2>2, <2>5, <3>1, FlagStored DEF Started, device
    <2>6. ASSUME UNCHANGED <<iopend, cpuio, updating>>, c \in Started,
                 iointq' # << >> => iointq # << >> \/ state'[c] = "update",
                 state[c] # "update"
          PROVE  FlagInv'
      BY <1>1, <2>2, <2>3, <2>6 DEF FlagInv, FlagCopied, InterruptSeen, Started
    <2>7. CASE TestPending(c) \/ Retry(c) \/ ProcessInterrupt(c)
      <3>1. /\ c \in Started /\ UNCHANGED device /\ UNCHANGED updating /\ state[c] # "update"
            /\ {"run", Settle(c)} \subseteq States
        BY <2>7 DEF TestPending, Retry, ProcessInterrupt, Started, Settle, States
      <3>2. \/ UNCHANGED <<iopend, cpuio>>
            \/ \E place \in {"run", Settle(c)} : FindNothing(c, place)
        BY <2>7 DEF TestPending, Retry, ProcessInterrupt, Find
      <3>. QED
        BY <2>5, <2>6, <3>1, <3>2 DEF device
    <2>8. CASE \/ \E io, wait \in BOOLEAN : LoadPsw(c, io, wait)
               \/ \E d \in Dev : TestSubchannel(c, d)
               \/ \E d \in Dev, i \in Isc : ModifySubchannel(c, d, i)
               \/ GoOn(c) \/ WakeUp(c)
      <3>1. /\ c \in Started /\ UNCHANGED <<iopend, cpuio, updating>> /\ state[c] # "update"
            /\ UNCHANGED device \/ state'[c] = "update"
        BY <1>1, <2>8 DEF LoadPsw, TestSubchannel, ModifySubchannel, GoOn, WakeUp, Started,
                          flag, TypeOK
      <3>. QED
        BY <2>6, <3>1 DEF device
    <2>9. CASE StopCpu(c)
      <3>1. /\ c \in Started /\ UNCHANGED <<device, iopend, cpuio, updating>>
            /\ state'[c] = state[c] \/ state[c] = "wait"
        BY <1>1, <2>9 DEF StopCpu, TypeOK
      <3>. QED
        BY <1>1, <2>2, <2>3, <3>1 DEF FlagInv, FlagCopied, InterruptSeen, Started, device
    <2>10. CASE EnterStopped(c)
      <3>1. /\ UNCHANGED <<device, iopend, updating>> /\ state'[c] = "stopped"
            /\ state[c] # "update" /\ \A e \in Cpu \ {c} : cpuio'[e] = cpuio[e]
        BY <1>1, <2>10 DEF EnterStopped, TypeOK
      <3>. QED
        BY <1>1, <2>2, <2>3, <3>1 DEF FlagInv, FlagCopied, InterruptSeen, Started, device
    <2>11. CASE StartCpu(c)
      <3>1. /\ UNCHANGED <<device, iopend, updating>> /\ cpuio'[c] = iopend
            /\ state[c] # "update" /\ \A e \in Cpu \ {c} : cpuio'[e] = cpuio[e]
        BY <1>1, <2>11 DEF StartCpu, TypeOK
      <3>. QED
        BY <1>1, <2>2, <2>3, <3>1 DEF FlagInv, FlagCopied, InterruptSeen, Started, device
    <2>. QED
      BY <1>4, <2>4, <2>7, <2>8, <2>9, <2>10, <2>11 DEF CpuStep
  <1>. QED
    BY <1>2, <1>3, <1>4 DEF Next

-----------------------------------------------------------------------------
(* The wakeup.                                                               *)

LEMMA TakeableSame ==
    ASSUME UNCHANGED <<iointq, prio>>
    PROVE  \A e \in Cpu : Takeable(e)' = Takeable(e)
  BY DEF Takeable, EnabledFor

LEMMA NothingTakeable ==
    ASSUME iointq = << >>
    PROVE  \A e \in Cpu : Takeable(e) = {}
  BY DEF Takeable

\* A thread that updates the flag with entries left on the queue wakes a CPU if
\* one waits; without, there is nothing to take.
LEMMA UpdatePassesOn ==
    ASSUME TypeOK, NEW s \in [Cpu -> States], UpdateFlag(s), Kick
    PROVE  SomebodySearches'
  <1>1. CASE iointq' = << >>
    <2>1. \A e \in Cpu : Takeable(e)' = {}
      BY <1>1 DEF Takeable
    <2>. QED
      BY <2>1 DEF SomebodySearches
  <1>2. CASE iointq' # << >>
    <2>1. /\ \A e \in Cpu : state'[e] = s[e] \/ (s[e] \in Asleep /\ state'[e] = "woken")
          /\ (\E e \in Cpu : s[e] \in Asleep) => \E e \in Cpu : state'[e] = "woken"
      BY <1>2, UpdateFlagDoes
    <2>2. (\E e \in Cpu : state'[e] = "wait") => \E e \in Cpu : Searching(e)'
      BY <2>1 DEF Asleep, Searching
    <2>. QED
      BY <2>2 DEF SomebodySearches
  <1>. QED
    BY <1>1, <1>2

LEMMA OthersSearch ==
    ASSUME NEW c \in Cpu, \A e \in Cpu \ {c} : StaysOrWakes(e),
           \A e \in Cpu \ {c} : waitpsw'[e] = waitpsw[e] /\ (kick[e] => kick'[e])
    PROVE  /\ \A e \in Cpu \ {c} : Searching(e) => Searching(e)'
           /\ \A e \in Cpu \ {c} : state'[e] = "wait" => state[e] = "wait"
  BY DEF StaysOrWakes, Searching, Asleep

LEMMA WakeupStep == ASSUME Inv, Next PROVE SomebodySearches'
  <1>1. /\ TypeOK /\ FlagCopied /\ InterruptSeen /\ QueueOrdered
        /\ WaitsByPsw /\ SomebodySearches
    BY DEF Inv, QueueInv, FlagInv, WakeupInv
  <1>2. ASSUME NEW d \in Dev, RaiseInterrupt(d) PROVE SomebodySearches'
    BY <1>1, <1>2 DEF RaiseInterrupt, SomebodySearches
  <1>3. ASSUME NEW d \in Dev, UpdateDevice(d) PROVE SomebodySearches'
    <2>1. UpdateFlag(state) /\ Kick /\ state \in [Cpu -> States]
      BY <1>1, <1>3 DEF UpdateDevice, TypeOK
    <2>. QED
      BY <1>1, <2>1, UpdatePassesOn
  <1>4. ASSUME NEW c \in Cpu, CpuStep(c) PROVE SomebodySearches'
    <2>1. state' \in [Cpu -> States] /\ \A e \in Cpu \ {c} : StaysOrWakes(e)
      BY <1>1, <1>4, CpuMoves
    <2>2. ASSUME Searching(c)' PROVE SomebodySearches'
      BY <2>2 DEF SomebodySearches
    \* A step that neither changes the queue nor takes a searching CPU away.
    <2>3. ASSUME UNCHANGED updating, \A e \in Cpu : Takeable(e)' = Takeable(e),
                 \A e \in Cpu \ {c} : /\ waitpsw'[e] = waitpsw[e] /\ iomask'[e] = iomask[e]
                                      /\ kick[e] => kick'[e],
                 ~Searching(c), state'[c] # "wait"
          PROVE  SomebodySearches'
      BY <1>1, <2>1, <2>3, OthersSearch DEF SomebodySearches
    <2>4. CASE \E io, wait \in BOOLEAN : LoadPsw(c, io, wait)
      <3>1. /\ UNCHANGED <<iointq, prio, updating, kick>>
            /\ state[c] = "run" /\ state'[c] = "check"
            /\ \A e \in Cpu \ {c} : waitpsw'[e] = waitpsw[e] /\ iomask'[e] = iomask[e]
        BY <1>1, <2>4 DEF LoadPsw, TypeOK, device, flag
      <3>2. ~Searching(c)
        BY <3>1 DEF Searching
      <3>. QED
        BY <2>3, <3>1, <3>2, TakeableSame
    <2>5. CASE \E d \in Dev : TestSubchannel(c, d)
      <3>1. state'[c] = "update"
        BY <1>1, <2>5 DEF TestSubchannel, TypeOK
      <3>. QED
        BY <2>2, <3>1 DEF Searching
    <2>6. ASSUME NEW d \in Dev, NEW i \in Isc, ModifySubchannel(c, d, i)
          PROVE  SomebodySearches'
      <3>1. /\ UNCHANGED <<device, updating, flag, guest, state>>
            /\ prio' = [prio EXCEPT ![d] = i] /\ ~pend[d] /\ state[c] = "run"
        BY <2>6 DEF ModifySubchannel
      <3>2. \A j \in DOMAIN iointq : iointq[j] # d
        BY <1>1, <3>1, QueueFacts DEF QueueOrdered, Contains
      <3>3. \A j \in DOMAIN iointq : prio'[iointq[j]] = prio[iointq[j]]
        BY <1>1, <3>1, <3>2 DEF TypeOK
      <3>4. \A e \in Cpu : Takeable(e)' = Takeable(e)
        BY <3>1, <3>3 DEF Takeable, EnabledFor, device
      <3>5. ~Searching(c)
        BY <3>1 DEF Searching
      <3>. QED
        BY <2>3, <3>1, <3>4, <3>5 DEF flag, guest
    <2>7. CASE UpdateCpu(c) \/ TakeInterrupt(c)
      <3>1. PICK s \in [Cpu -> States] : UpdateFlag(s) /\ Kick
        <4>1. CASE UpdateCpu(c)
          BY <1>1, <4>1 DEF UpdateCpu, TypeOK, States
        <4>2. CASE TakeInterrupt(c)
          BY <1>1, <4>2 DEF TakeInterrupt, TypeOK, States
        <4>. QED
          BY <2>7, <4>1, <4>2
      <3>. QED
        BY <1>1, <3>1, UpdatePassesOn
    \* A CPU that goes to its wait can take nothing, or is not enabled, or there
    \* is nothing; one that waits already is woken.
    <2>8. ASSUME UNCHANGED <<iointq, prio>>, state[c] \notin Asleep,
                 iointq # << >> => WakesSomebody(c),
                 Takeable(c) = {} \/ ~iomask'[c]
          PROVE  SomebodySearches'
      <3>1. ASSUME NEW e \in Cpu, state'[e] = "wait", iomask'[e], Takeable(e)' # {}
            PROVE  \E b \in Cpu : Searching(b)'
        <4>1. e # c /\ iointq # << >>
          BY <2>8, <3>1, TakeableSame, NothingTakeable
        <4>2. state[e] \in Asleep
          BY <2>1, <3>1, <4>1 DEF StaysOrWakes, Asleep
        <4>3. \E b \in Cpu : state'[b] = "woken"
          BY <2>8, <4>1, <4>2 DEF WakesSomebody
        <4>. QED
          BY <4>3 DEF Searching
      <3>. QED
        BY <3>1 DEF SomebodySearches
    <2>9. ASSUME NEW place \in {"found", "tpi"}, Find(c, place) PROVE SomebodySearches'
      <3>1. state'[c] = place
        BY <1>1, <2>9, FindDoes DEF States
      <3>. QED
        BY <2>2, <2>9, <3>1 DEF Searching
    <2>10. ASSUME NEW place \in States, FindNothing(c, place), UNCHANGED device,
                  UNCHANGED prio, state[c] \notin Asleep
           PROVE  SomebodySearches'
      <3>1. Takeable(c) = {} /\ (iointq # << >> => WakesSomebody(c))
        BY <1>1, <2>10, FindNothingDoes
      <3>. QED
        BY <2>8, <2>10, <3>1 DEF device
    <2>11. CASE TestPending(c) \/ Retry(c)
      <3>1. /\ UNCHANGED device /\ UNCHANGED prio /\ state[c] \notin Asleep
            /\ \/ \E place \in {"found", "tpi"} : Find(c, place)
               \/ FindNothing(c, "run") \/ FindNothing(c, Settle(c))
        BY <2>11 DEF TestPending, Retry, Asleep
      <3>2. "run" \in States /\ Settle(c) \in States
        BY DEF States, Settle
      <3>. QED
        BY <2>9, <2>10, <3>1, <3>2
    <2>12. CASE ProcessInterrupt(c)
      <3>1. /\ UNCHANGED device /\ UNCHANGED <<prio, updating, guest>>
            /\ state[c] \in {"run", "check"}
        BY <2>12 DEF ProcessInterrupt
      <3>2. CASE Find(c, "found")
        BY <2>9, <3>2
      <3>3. CASE FindNothing(c, Settle(c))
        BY <2>10, <3>1, <3>3 DEF States, Settle, Asleep
      <3>4. CASE iopend /\ ~(cpuio[c] /\ iomask[c])
                   /\ state' = [WakeLowest(state) EXCEPT ![c] = Settle(c)]
        <4>1. ~iomask'[c]
          BY <1>1, <3>1, <3>4 DEF FlagCopied, Started, guest
        <4>2. state \in [Cpu -> States]
          BY <1>1 DEF TypeOK
        <4>3. WakesSomebody(c)
          BY <3>1, <3>4, <4>2, WakesOne DEF WakesSomebody, Asleep
        <4>. QED
          BY <2>8, <3>1, <4>1, <4>3 DEF device, Asleep
      <3>5. CASE ~iopend
        <4>1. CASE iointq = << >>
          <5>1. \A e \in Cpu : Takeable(e)' = {}
            BY <3>1, <4>1, NothingTakeable, TakeableSame DEF device
          <5>. QED
            BY <5>1 DEF SomebodySearches
        <4>2. CASE updating # {}
          BY <3>1, <4>2 DEF SomebodySearches
        <4>3. ASSUME NEW b \in Cpu, state[b] = "update" PROVE SomebodySearches'
          <5>1. state'[b] = "update"
            BY <2>1, <3>1, <4>3 DEF StaysOrWakes, Asleep
          <5>. QED
            BY <5>1 DEF SomebodySearches, Searching
        <4>. QED
          BY <1>1, <3>5, <4>1, <4>2, <4>3 DEF InterruptSeen
      <3>. QED
        BY <2>12, <3>2, <3>3, <3>4, <3>5 DEF ProcessInterrupt
    <2>13. CASE GoOn(c)
      <3>1. /\ UNCHANGED <<iointq, prio, updating, kick, waitpsw, iomask>>
            /\ state'[c] = "run" /\ ~Searching(c)
        BY <1>1, <2>13 DEF GoOn, TypeOK, Searching, InterruptPending, device, flag, guest
      <3>. QED
        BY <2>3, <3>1, TakeableSame
    <2>14. CASE WakeUp(c)
      <3>1. state'[c] = "check" /\ waitpsw'[c]
        BY <1>1, <2>14 DEF WakeUp, TypeOK, WaitsByPsw, Asleep, guest
      <3>. QED
        BY <2>2, <3>1 DEF Searching
    <2>15. CASE StopCpu(c)
      <3>1. CASE state[c] = "wait"
        <4>1. state'[c] = "woken"
          BY <1>1, <2>15, <3>1 DEF StopCpu, TypeOK
        <4>. QED
          BY <2>2, <4>1 DEF Searching
      <3>2. CASE state[c] # "wait"
        <4>1. /\ UNCHANGED <<iointq, prio, updating, waitpsw, iomask, state>>
              /\ \A e \in Cpu : kick[e] => kick'[e]
          BY <1>1, <2>15, <3>2 DEF StopCpu, TypeOK, device, guest
        <4>2. \A e \in Cpu : Searching(e) => Searching(e)'
          BY <4>1 DEF Searching
        <4>. QED
          BY <1>1, <4>1, <4>2, TakeableSame DEF SomebodySearches
      <3>. QED
        BY <3>1, <3>2
    <2>16. CASE EnterStopped(c)
      <3>1. state'[c] = "stopped"
        BY <1>1, <2>16 DEF EnterStopped, TypeOK
      <3>. QED
        BY <2>2, <3>1 DEF Searching
    <2>17. CASE StartCpu(c)
      <3>1. state'[c] = "check" /\ kick'[c]
        BY <1>1, <2>17 DEF StartCpu, TypeOK
      <3>. QED
        BY <2>2, <3>1 DEF Searching
    <2>. QED
      BY <1>4, <2>4, <2>5, <2>6, <2>7, <2>11, <2>12, <2>13, <2>14, <2>15, <2>16, <2>17
         DEF CpuStep
  <1>. QED
    BY <1>2, <1>3, <1>4 DEF Next

LEMMA WaitsStep == ASSUME Inv, Next PROVE WaitsByPsw'
  <1>1. TypeOK /\ WaitsByPsw
    BY DEF Inv, WakeupInv
  <1>2. ASSUME NEW d \in Dev, RaiseInterrupt(d) PROVE WaitsByPsw'
    BY <1>1, <1>2 DEF RaiseInterrupt, WaitsByPsw, guest
  <1>3. ASSUME NEW d \in Dev, UpdateDevice(d) PROVE WaitsByPsw'
    <2>1. UpdateFlag(state) /\ Kick /\ state \in [Cpu -> States] /\ UNCHANGED guest
      BY <1>1, <1>3 DEF UpdateDevice, TypeOK
    <2>2. \A e \in Cpu : state'[e] = state[e] \/ (state[e] \in Asleep /\ state'[e] = "woken")
      BY <1>1, <2>1, UpdateFlagDoes
    <2>. QED
      BY <1>1, <2>1, <2>2 DEF WaitsByPsw, guest, Asleep
  <1>4. ASSUME NEW c \in Cpu, CpuStep(c) PROVE WaitsByPsw'
    <2>1. state' \in [Cpu -> States] /\ \A e \in Cpu \ {c} : StaysOrWakes(e)
      BY <1>1, <1>4, CpuMoves
    <2>2. \A e \in Cpu \ {c} : waitpsw'[e] = waitpsw[e]
      BY <1>1, <1>4 DEF CpuStep, LoadPsw, TestSubchannel, ModifySubchannel, UpdateCpu,
                        TestPending, ProcessInterrupt, GoOn, TakeInterrupt, Retry, WakeUp,
                        StopCpu, EnterStopped, StartCpu, guest, TypeOK
    <2>3. ASSUME state'[c] \in Asleep PROVE waitpsw'[c]
      <3>1. CASE \/ \E io, wait \in BOOLEAN : LoadPsw(c, io, wait)
                 \/ \E d \in Dev : TestSubchannel(c, d)
                 \/ \E d \in Dev, i \in Isc : ModifySubchannel(c, d, i)
                 \/ GoOn(c) \/ WakeUp(c) \/ EnterStopped(c) \/ StartCpu(c)
        BY <1>1, <2>3, <3>1 DEF LoadPsw, TestSubchannel, ModifySubchannel, GoOn, WakeUp,
                                EnterStopped, StartCpu, TypeOK, Asleep
      <3>2. CASE StopCpu(c)
        BY <1>1, <2>3, <3>2 DEF StopCpu, WaitsByPsw, TypeOK, Asleep, guest
      <3>3. CASE UpdateCpu(c) \/ TakeInterrupt(c)
        <4>1. ASSUME NEW place \in {"run", "check"}, UpdateFlag([state EXCEPT ![c] = place]), Kick
              PROVE  FALSE
          <5>. DEFINE s == [state EXCEPT ![c] = place]
          <5>1. s \in [Cpu -> States] /\ s[c] = place
            BY <1>1 DEF TypeOK, States
          <5>2. UpdateFlag(s)
            BY <4>1
          <5>. HIDE DEF s
          <5>3. state'[c] = s[c]
            BY <1>1, <4>1, <5>1, <5>2, UpdateFlagDoes DEF Asleep
          <5>. QED
            BY <2>3, <5>1, <5>3 DEF Asleep
        <4>2. CASE UpdateCpu(c)
          BY <4>1, <4>2 DEF UpdateCpu
        <4>3. CASE TakeInterrupt(c)
          <5>1. (IF state[c] = "found" THEN "check" ELSE "run") \in {"run", "check"}
            OBVIOUS
          <5>2. [state EXCEPT ![c] = IF @ = "found" THEN "check" ELSE "run"]
                    = [state EXCEPT ![c] = IF state[c] = "found" THEN "check" ELSE "run"]
            BY <1>1 DEF TypeOK
          <5>. QED
            BY <4>1, <4>3, <5>1, <5>2 DEF TakeInterrupt
        <4>. QED
          BY <3>3, <4>2, <4>3
      <3>4. ASSUME NEW place \in {"found", "tpi"}, Find(c, place) PROVE FALSE
        BY <1>1, <2>3, <3>4, FindDoes DEF States, Asleep
      <3>5. ASSUME NEW place \in {"run", Settle(c)}, state'[c] = place PROVE waitpsw[c]
        BY <2>3, <3>5 DEF Settle, Asleep
      <3>6. ASSUME NEW place \in {"run", Settle(c)}, FindNothing(c, place) PROVE waitpsw[c]
        <4>1. place \in States
          BY DEF Settle, States
        <4>. QED
          BY <1>1, <3>5, <3>6, <4>1, FindNothingDoes
      <3>7. CASE TestPending(c) \/ Retry(c)
        BY <3>4, <3>6, <3>7 DEF TestPending, Retry, guest
      <3>8. CASE ProcessInterrupt(c)
        <4>1. UNCHANGED guest /\ state \in [Cpu -> States]
          BY <1>1, <3>8 DEF ProcessInterrupt, TypeOK
        <4>2. ASSUME NEW s \in {state, WakeLowest(state)},
                     state' = [s EXCEPT ![c] = Settle(c)]
              PROVE  waitpsw[c]
          <5>1. s \in [Cpu -> States]
            BY <4>1, WakesOne
          <5>2. state'[c] = Settle(c)
            BY <4>2, <5>1
          <5>. QED
            BY <3>5, <5>2
        <4>. QED
          BY <3>4, <3>6, <3>8, <4>1, <4>2 DEF ProcessInterrupt, guest
      <3>. QED
        BY <1>4, <3>1, <3>2, <3>3, <3>7, <3>8 DEF CpuStep
    <2>. QED
      BY <1>1, <2>1, <2>2, <2>3 DEF WaitsByPsw, StaysOrWakes, Asleep
  <1>. QED
    BY <1>2, <1>3, <1>4 DEF Next

-----------------------------------------------------------------------------
LEMMA InvNext == Inv /\ [Next]_vars => Inv'
  <1>. SUFFICES ASSUME Inv, [Next]_vars PROVE Inv'
    OBVIOUS
  <1>1. CASE UNCHANGED vars
    <2>1. UNCHANGED <<iointq, qprio, pend, prio, status, updating, iopend, cpuio, kick,
                      iomask, waitpsw, state, stopping, found>>
      BY <1>1 DEF vars, device, flag, guest
    <2>2. TypeOK'
      BY <2>1 DEF Inv, TypeOK, Intlock
    <2>3. QueueInv'
      BY <2>1 DEF Inv, QueueInv, QueueOrdered, PriorityKept, Contains
    <2>4. FlagInv'
      BY <2>1 DEF Inv, FlagInv, FlagCopied, InterruptSeen, Started
    <2>5. WakeupInv'
      BY <2>1, TakeableSame DEF Inv, WakeupInv, WaitsByPsw, SomebodySearches, Searching
    <2>. QED
      BY <2>2, <2>3, <2>4, <2>5 DEF Inv
  <1>2. CASE Next
    BY <1>2, TypeStep, QueueStep, FlagStep, WaitsStep, WakeupStep DEF Inv, WakeupInv
  <1>. QED
    BY <1>1, <1>2

LEMMA InvAlways == Spec => []Inv
  BY InvInit, InvNext, PTL DEF Spec

\* Every variable stays in its range, and intlock is held by one CPU at most.
THEOREM TypeCorrect == Spec => []TypeOK
  <1>1. Inv => TypeOK
    BY DEF Inv
  <1>. QED
    BY <1>1, InvAlways, PTL

\* QUEUE_IO_INTERRUPT and DEQUEUE_IO_INTERRUPT keep the queue in the order of
\* the priorities, each entry on it once and exactly while it is pending.
THEOREM QueueStaysOrdered == Spec => []QueueOrdered
  <1>1. Inv => QueueOrdered
    BY DEF Inv, QueueInv
  <1>. QED
    BY <1>1, InvAlways, PTL

\* While interrupts are queued, the flag of every started CPU is on, or a thread
\* is on its way to UPDATE_IC_IOPENDING.
THEOREM NoInterruptOverlooked == Spec => []InterruptSeen
  <1>1. Inv => InterruptSeen
    BY DEF Inv, FlagInv
  <1>. QED
    BY <1>1, InvAlways, PTL

\* No CPU sleeps beside an interrupt it could take unless another thread is
\* going to search the queue or to update the flag.
THEOREM WakeupNotLost == Spec => []WakeupPassedOn
  <1>1. Inv => WakeupPassedOn
    <2>. SUFFICES ASSUME Inv PROVE WakeupPassedOn
      OBVIOUS
    <2>1. SomebodySearches
      BY DEF Inv, WakeupInv
    <2>. QED
      BY <2>1 DEF SomebodySearches, Searching, WakeupPassedOn, InterruptPending
  <1>. QED
    BY <1>1, InvAlways, PTL
=============================================================================
