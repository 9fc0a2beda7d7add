-------------------------- MODULE RequestQueueProofs --------------------------
(* The request queue, for any number of devices, CPUs and threads and any    *)
(* priorities: the most urgent request is served first; as long as the guest *)
(* neither halts nor resets a device, the linked list is one and the request *)
(* of a busy device is in one place.                                         *)
EXTENDS DeviceThreadsProofs, WellFoundedInduction

-----------------------------------------------------------------------------
(* The list without recursion: q[0], ..., q[n - 1] are its elements.         *)

Injective(q, n) == \A i, j \in 0 .. n - 1 : q[i] = q[j] => i = j
At(q, n, k) == IF k < n THEN q[k] ELSE NoDev

Listed(q, n) ==
    /\ q \in [0 .. n - 1 -> Dev] /\ Injective(q, n)
    /\ ioq = At(q, n, 0)
    /\ \A i \in 0 .. n - 1 : nextioq[q[i]] = At(q, n, i + 1)

On(q, n) == {q[i] : i \in 0 .. n - 1}

\* There is a least position of those at which a loop may stop.
LEMMA LeastProperties ==
    ASSUME NEW S \in SUBSET Nat, S # {}
    PROVE  Least(S) \in S /\ \A j \in S : Least(S) <= j
  <1>. DEFINE R == {ss \in Nat \X Nat : ss[1] < ss[2]}
  <1>1. IsWellFoundedOn(R, Nat)
    BY NatLessThanWellFounded DEF OpToRel
  <1>2. PICK k \in S : \A j \in S : <<j, k>> \notin R
    <2>. HIDE DEF R
    <2>. QED
      BY <1>1, WFMin
  <1>3. ASSUME NEW j \in S PROVE k <= j
    <2>1. k \in Nat /\ j \in Nat /\ (<<j, k>> \in R <=> j < k)
      OBVIOUS
    <2>. QED
      BY <1>2, <2>1
  <1>. QED
    BY <1>3 DEF Least

\* The list is not longer than there are devices.
LEMMA ListFits ==
    ASSUME NEW n \in Nat, NEW q \in [0 .. n - 1 -> Dev], Injective(q, n)
    PROVE  n \in Positions /\ Cardinality(Dev) \in Nat
  <1>1. IsFiniteSet(0 .. n - 1) /\ Cardinality(0 .. n - 1) = n
    BY FS_Interval
  <1>2. IsFiniteSet(Dev) /\ Cardinality(Dev) \in Nat
    BY QueueAssumption, FS_CardinalityType
  <1>3. ~(Cardinality(Dev) < Cardinality(0 .. n - 1))
    BY <1>1, <1>2, FS_PigeonHole DEF Injective
  <1>. QED
    BY <1>1, <1>2, <1>3 DEF Positions

\* The recursion of a walk has a solution, on a circular list too.
LEMMA WalkDefined ==
    /\ Cardinality(Dev) \in Nat
    /\ \A k \in Positions : Walk[k] = IF k = 0 THEN ioq ELSE Successor(Walk[k - 1])
  <1>1. Cardinality(Dev) \in Nat
    BY QueueAssumption, FS_CardinalityType
  <1>. DEFINE Solves(g, m) ==
                g = [k \in 0 .. m |-> IF k = 0 THEN ioq ELSE Successor(g[k - 1])]
              Unsolved == {m \in Nat : ~\E g : Solves(g, m)}
  <1>2. ASSUME Unsolved # {} PROVE FALSE
    <2>1. PICK m : m \in Unsolved /\ \A j \in Unsolved : m <= j
      <3>. HIDE DEF Unsolved
      <3>1. Unsolved \in SUBSET Nat
        BY DEF Unsolved
      <3>. QED
        BY <1>2, <3>1, LeastProperties
    <2>2. CASE m = 0
      <3>1. PICK g : g = [k \in 0 .. 0 |-> ioq]
        OBVIOUS
      <3>2. Solves(g, 0)
        BY <3>1
      <3>. QED
        BY <2>1, <2>2, <3>2
    <2>3. CASE m # 0
      <3>1. m \in Nat /\ m - 1 \in Nat /\ ~(m <= m - 1)
        BY <2>1, <2>3
      <3>2. PICK g : Solves(g, m - 1)
        BY <2>1, <3>1
      <3>3. PICK h : h = [k \in 0 .. m |-> IF k = m THEN Successor(g[m - 1]) ELSE g[k]]
        OBVIOUS
      <3>4. ASSUME NEW k \in 0 .. m
            PROVE  h[k] = IF k = 0 THEN ioq ELSE Successor(h[k - 1])
        <4>1. CASE k = m
          <5>1. m - 1 \in 0 .. m /\ m - 1 # m
            BY <3>1
          <5>2. h[m - 1] = g[m - 1] /\ h[m] = Successor(g[m - 1])
            BY <3>1, <3>3, <5>1
          <5>. QED
            BY <2>3, <4>1, <5>2
        <4>2. CASE k # m
          <5>1. k \in 0 .. m - 1 /\ (k # 0 => k - 1 \in 0 .. m - 1 /\ k - 1 \in 0 .. m /\ k - 1 # m)
            BY <3>1, <4>2
          <5>2. h[k] = g[k] /\ (k # 0 => h[k - 1] = g[k - 1])
            BY <3>3, <4>2, <5>1
          <5>3. g[k] = IF k = 0 THEN ioq ELSE Successor(g[k - 1])
            BY <3>2, <5>1
          <5>. QED
            BY <5>2, <5>3
        <4>. QED
          BY <4>1, <4>2
      <3>5. Solves(h, m)
        BY <3>3, <3>4
      <3>. QED
        BY <2>1, <3>5
    <2>. QED
      BY <2>2, <2>3
  <1>3. \E g : Solves(g, Cardinality(Dev))
    BY <1>1, <1>2
  <1>4. Walk = [k \in Positions |-> IF k = 0 THEN ioq ELSE Successor(Walk[k - 1])]
    BY <1>3 DEF Walk, Positions
  <1>. QED
    BY <1>1, <1>4

\* What a walk along the list reads.
LEMMA WalkReads ==
    ASSUME NEW n \in Nat, NEW q, Listed(q, n)
    PROVE  \A k \in Positions : Walk[k] = At(q, n, k)
  <1>1. n \in Positions /\ Cardinality(Dev) \in Nat /\ q \in [0 .. n - 1 -> Dev]
    BY ListFits DEF Listed
  <1>. DEFINE Step(g) == [k \in Positions |-> IF k = 0 THEN ioq ELSE Successor(g[k - 1])]
              f == [k \in Positions |-> At(q, n, k)]
  <1>2. f = Step(f)
    <2>1. ASSUME NEW k \in Positions PROVE f[k] = Step(f)[k]
      <3>1. CASE k = 0
        BY <3>1 DEF Listed
      <3>2. CASE k # 0
        <4>1. k \in Nat /\ k - 1 \in Positions /\ k - 1 \in Nat
          BY <1>1, <3>2 DEF Positions
        <4>2. Step(f)[k] = Successor(At(q, n, k - 1))
          BY <3>2, <4>1
        <4>3. CASE k - 1 < n
          <5>1. q[k - 1] \in Dev /\ nextioq[q[k - 1]] = At(q, n, (k - 1) + 1)
            BY <1>1, <4>1, <4>3 DEF Listed
          <5>2. Successor(At(q, n, k - 1)) = nextioq[q[k - 1]]
            BY <4>3, <5>1, QueueAssumption DEF Successor, At
          <5> QED
            BY <4>1, <4>2, <5>1, <5>2
        <4>4. CASE ~(k - 1 < n)
          BY <4>1, <4>2, <4>4 DEF Successor, At
        <4> QED
          BY <4>3, <4>4
      <3> QED
        BY <3>1, <3>2
    <2> QED
      BY <2>1
  <1>. DEFINE D == {k \in Positions : Walk[k] # At(q, n, k)}
  <1>3. ASSUME D # {} PROVE FALSE
    <2>1. D \in SUBSET Nat
      BY <1>1 DEF Positions
    <2>2. PICK k : k \in D /\ \A j \in D : k <= j
      <3>. HIDE DEF D
      <3>. QED
        BY <1>3, <2>1, LeastProperties
    <2>3. k \in Positions /\ k \in Nat /\ Walk[k] # f[k]
      BY <1>1, <2>2 DEF Positions
    <2>4. f[k] = IF k = 0 THEN ioq ELSE Successor(f[k - 1])
      BY <1>2, <2>3
    <2>5. Walk[k] = IF k = 0 THEN ioq ELSE Successor(Walk[k - 1])
      BY <2>3, WalkDefined
    <2>6. k # 0 /\ k - 1 \in Positions /\ k - 1 < k
      BY <1>1, <2>3, <2>4, <2>5 DEF Positions
    <2>7. Walk[k - 1] = At(q, n, k - 1)
      BY <2>2, <2>3, <2>6
    <2> QED
      BY <2>3, <2>4, <2>5, <2>6, <2>7
  <1>. QED
    BY <1>3

LEMMA QueuedIsOn ==
    ASSUME NEW n \in Nat, NEW q, Listed(q, n)
    PROVE  Queued = On(q, n)
  <1>1. n \in Positions /\ Cardinality(Dev) \in Nat
    BY ListFits DEF Listed
  <1>2. \A k \in Positions : Walk[k] = At(q, n, k)
    BY WalkReads
  <1>3. \A k \in 0 .. n - 1 : k \in Positions /\ Walk[k] = q[k] /\ q[k] \in Dev
    BY <1>1, <1>2 DEF Positions, At, Listed
  <1>4. \A k \in Positions : Walk[k] # NoDev => k \in 0 .. n - 1
    BY <1>1, <1>2 DEF Positions, At
  <1>. QED
    BY <1>3, <1>4, QueueAssumption DEF Queued, On

\* The loops of startio, cancel_subchan and halt_subchan come to their end.
LEMMA LoopsEnd ==
    ASSUME NEW n \in Nat, NEW q, Listed(q, n), NEW d \in Dev
    PROVE  n \in InsertStops(d) /\ ~RemoveLoops(d)
  <1>1. n \in Positions /\ Walk[n] = NoDev
    BY ListFits, WalkReads DEF Listed, At
  <1>2. CASE n = 0
    BY <1>1, <1>2 DEF Listed, At, InsertStops, RemoveLoops
  <1>3. CASE n # 0
    <2>1. n - 1 \in Positions /\ n - 1 \in 0 .. n - 1 /\ n - 1 < n /\ (n - 1) + 1 = n
      BY <1>1, <1>3, ListFits DEF Positions, Listed
    <2>2. Walk[n - 1] = q[n - 1] /\ q[n - 1] \in Dev /\ nextioq[q[n - 1]] = NoDev
      BY <2>1, WalkReads DEF Listed, At
    <2>3. n - 1 \in RemoveStops(d)
      BY <2>1, <2>2, QueueAssumption DEF RemoveStops
    <2> QED
      BY <1>1, <2>3 DEF InsertStops, RemoveLoops
  <1>. QED
    BY <1>2, <1>3

\* startio puts a device that is not on the list between two neighbours.
LEMMA InsertKeepsList ==
    ASSUME NEW n \in Nat, NEW q, Listed(q, n), NEW d \in Dev, d \notin On(q, n), InsertRequest(d)
    PROVE  \E r : Listed(r, n + 1)' /\ On(r, n + 1) = On(q, n) \cup {d}
  <1>1. n \in Positions /\ Cardinality(Dev) \in Nat /\ q \in [0 .. n - 1 -> Dev] /\ Injective(q, n)
    BY ListFits DEF Listed
  <1>2. PICK k : k = Least(InsertStops(d))
    OBVIOUS
  <1>3. k \in 0 .. n
    <2>1. n \in InsertStops(d) /\ InsertStops(d) \in SUBSET Nat
      BY <1>1, LoopsEnd DEF InsertStops, Positions
    <2>2. k \in Nat /\ k <= n
      BY <1>2, <2>1, LeastProperties
    <2> QED
      BY <2>2
  <1>4. PICK prev \in DevPtr, next \in DevPtr :
           /\ next = Walk[k] /\ prev = IF k = 0 THEN NoDev ELSE Walk[k - 1]
           /\ ioq' = IF prev = NoDev THEN d ELSE ioq
           /\ nextioq' = [e \in Dev |-> IF e = prev THEN d ELSE IF e = d THEN next ELSE nextioq[e]]
    BY <1>2 DEF InsertRequest
  <1>5. next = At(q, n, k) /\ prev = (IF k = 0 THEN NoDev ELSE q[k - 1])
    <2>1. k \in Positions /\ (k # 0 => k - 1 \in Positions /\ k - 1 < n)
      BY <1>1, <1>3 DEF Positions
    <2> QED
      BY <1>4, <2>1, WalkReads DEF At
  <1>6. \A i \in 0 .. n - 1 : q[i] \in Dev /\ q[i] # d
    BY <1>1 DEF On
  <1>7. PICK r : r = [i \in 0 .. n |-> IF i < k THEN q[i] ELSE IF i = k THEN d ELSE q[i - 1]]
    OBVIOUS
  <1>8. /\ \A i \in 0 .. k - 1 : i \in 0 .. n - 1 /\ i \in 0 .. n /\ r[i] = q[i]
        /\ r[k] = d
        /\ \A i \in k + 1 .. n : i - 1 \in 0 .. n - 1 /\ i \in 0 .. n /\ r[i] = q[i - 1]
        /\ \A i \in 0 .. n : i \in 0 .. k - 1 \/ i = k \/ i \in k + 1 .. n
    BY <1>3, <1>7
  <1>9. r \in [0 .. n -> Dev]
    BY <1>6, <1>7, <1>8
  <1>10. Injective(r, n + 1)
    <2>1. ASSUME NEW i \in 0 .. n, NEW j \in 0 .. n, r[i] = r[j] PROVE i = j
      <3>1. i = k <=> j = k
        BY <1>6, <1>8, <2>1
      <3>2. CASE i < k /\ j < k
        BY <1>1, <1>3, <1>8, <2>1, <3>2 DEF Injective
      <3>3. CASE i > k /\ j > k
        <4>1. q[i - 1] = q[j - 1] /\ i - 1 \in 0 .. n - 1 /\ j - 1 \in 0 .. n - 1
          BY <1>3, <1>8, <2>1, <3>3
        <4>2. i - 1 = j - 1
          BY <1>1, <4>1 DEF Injective
        <4> QED
          BY <4>2
      <3>4. CASE i < k /\ j > k
        <4>1. q[i] = q[j - 1] /\ i \in 0 .. n - 1 /\ j - 1 \in 0 .. n - 1
          BY <1>3, <1>8, <2>1, <3>4
        <4>2. i = j - 1
          BY <1>1, <4>1 DEF Injective
        <4> QED
          BY <1>3, <3>4, <4>2
      <3>5. CASE i > k /\ j < k
        <4>1. q[i - 1] = q[j] /\ j \in 0 .. n - 1 /\ i - 1 \in 0 .. n - 1
          BY <1>3, <1>8, <2>1, <3>5
        <4>2. i - 1 = j
          BY <1>1, <4>1 DEF Injective
        <4> QED
          BY <1>3, <3>5, <4>2
      <3> QED
        BY <1>3, <3>1, <3>2, <3>3, <3>4, <3>5
    <2> QED
      BY <2>1 DEF Injective
  <1>11. ioq' = At(r, n + 1, 0)
    <2>1. CASE k = 0
      BY <1>4, <1>5, <1>8, <2>1 DEF At
    <2>2. CASE k # 0
      <3>1. 0 < n /\ k - 1 \in 0 .. n - 1 /\ r[0] = q[0]
        BY <1>3, <1>8, <2>2
      <3>2. prev # NoDev /\ ioq = q[0]
        BY <1>5, <1>6, <2>2, <3>1, QueueAssumption DEF Listed, At
      <3> QED
        BY <1>4, <3>1, <3>2 DEF At
    <2> QED
      BY <2>1, <2>2
  <1>12. ASSUME NEW i \in 0 .. n PROVE nextioq'[r[i]] = At(r, n + 1, i + 1)
    <2>1. CASE i = k
      <3>1. d # prev
        BY <1>3, <1>5, <1>6, QueueAssumption
      <3>2. nextioq'[r[i]] = At(q, n, k)
        BY <1>4, <1>5, <1>8, <2>1, <3>1
      <3> QED
        BY <1>3, <1>8, <2>1, <3>2 DEF At
    <2>2. CASE i = k - 1
      <3>1. r[i] = prev /\ prev \in Dev
        BY <1>3, <1>5, <1>6, <1>8, <2>2
      <3> QED
        BY <1>3, <1>4, <1>8, <2>2, <3>1 DEF At
    <2>3. CASE i < k - 1
      <3>1. i \in 0 .. n - 1 /\ i + 1 \in 0 .. n - 1 /\ i + 1 \in 0 .. k - 1 /\ r[i] = q[i]
        BY <1>3, <1>8, <2>3
      <3>2. q[i] # prev
        BY <1>1, <1>3, <1>5, <1>6, <2>3, <3>1 DEF Injective
      <3>3. nextioq'[r[i]] = nextioq[q[i]] /\ nextioq[q[i]] = q[i + 1]
        BY <1>4, <1>6, <3>1, <3>2 DEF Listed, At
      <3> QED
        BY <1>3, <1>8, <3>1, <3>3 DEF At
    <2>4. CASE i > k
      <3>1. i - 1 \in 0 .. n - 1 /\ r[i] = q[i - 1] /\ (i - 1) + 1 = i
        BY <1>3, <1>8, <2>4
      <3>2. q[i - 1] # prev
        <4>1. CASE k = 0
          BY <1>5, <1>6, <3>1, <4>1, QueueAssumption
        <4>2. CASE k # 0
          <5>1. k - 1 \in 0 .. n - 1 /\ i - 1 # k - 1
            BY <1>3, <2>4, <4>2
          <5> QED
            BY <1>1, <1>5, <3>1, <4>2, <5>1 DEF Injective
        <4> QED
          BY <4>1, <4>2
      <3>3. nextioq'[r[i]] = nextioq[q[i - 1]] /\ nextioq[q[i - 1]] = At(q, n, i)
        BY <1>4, <1>6, <3>1, <3>2 DEF Listed
      <3>4. At(q, n, i) = At(r, n + 1, i + 1)
        <4>1. CASE i < n
          <5>1. i + 1 \in k + 1 .. n /\ (i + 1) - 1 = i /\ i < n /\ i + 1 < n + 1
            BY <1>3, <2>4, <4>1
          <5>2. r[i + 1] = q[i]
            BY <1>8, <5>1
          <5> QED
            BY <5>1, <5>2 DEF At
        <4>2. CASE i = n
          BY <4>2 DEF At
        <4> QED
          BY <4>1, <4>2
      <3> QED
        BY <3>3, <3>4
    <2> QED
      BY <1>3, <2>1, <2>2, <2>3, <2>4
  <1>13. Listed(r, n + 1)'
    BY <1>9, <1>10, <1>11, <1>12 DEF Listed
  <1>14. On(r, n + 1) = On(q, n) \cup {d}
    <2>1. ASSUME NEW x \in On(q, n) PROVE x \in On(r, n + 1)
      <3>1. PICK i \in 0 .. n - 1 : x = q[i]
        BY DEF On
      <3>2. x = r[i] \/ (i + 1 \in k + 1 .. n /\ x = r[i + 1])
        BY <1>3, <1>8, <3>1
      <3> QED
        BY <3>1, <3>2 DEF On
    <2>2. d \in On(r, n + 1)
      BY <1>3, <1>8 DEF On
    <2>3. ASSUME NEW i \in 0 .. n PROVE r[i] \in On(q, n) \cup {d}
      BY <1>8 DEF On
    <2>4. On(r, n + 1) = {r[i] : i \in 0 .. n}
      BY DEF On
    <2>5. On(r, n + 1) \subseteq On(q, n) \cup {d}
      BY <2>3, <2>4
    <2> QED
      BY <2>1, <2>2, <2>5
  <1>. QED
    BY <1>13, <1>14

\* A list without its element at position j: the ones behind it move up.
Dropped(q, n, j) == [i \in 0 .. n - 2 |-> IF i < j THEN q[i] ELSE q[i + 1]]

LEMMA DropKeepsList ==
    ASSUME NEW n \in Nat, NEW q, Listed(q, n), NEW j \in 0 .. n - 1,
           IF j = 0 THEN ioq' = nextioq[q[0]] /\ nextioq' = nextioq
           ELSE ioq' = ioq /\ nextioq' = [nextioq EXCEPT ![q[j - 1]] = nextioq[q[j]]],
           nextioq \in [Dev -> DevPtr]
    PROVE  /\ n - 1 \in Nat /\ Listed(Dropped(q, n, j), n - 1)'
           /\ On(Dropped(q, n, j), n - 1) = On(q, n) \ {q[j]}
  <1>1. PICK r : r = Dropped(q, n, j)
    OBVIOUS
  <1>2. /\ \A i \in 0 .. n - 2 : i + 1 \in 0 .. n - 1 /\ i \in 0 .. n - 1
        /\ \A i \in 0 .. n - 2 : i < j => r[i] = q[i]
        /\ \A i \in 0 .. n - 2 : i >= j => r[i] = q[i + 1]
    BY <1>1 DEF Dropped
  <1>3. \A i \in 0 .. n - 1 : q[i] \in Dev /\ nextioq[q[i]] = At(q, n, i + 1)
    BY DEF Listed
  <1>4. r \in [0 .. n - 2 -> Dev]
    BY <1>1, <1>2, <1>3 DEF Dropped
  <1>5. Injective(r, n - 1)
    <2>1. ASSUME NEW i \in 0 .. n - 2, NEW k \in 0 .. n - 2, r[i] = r[k] PROVE i = k
      <3>1. PICK a \in 0 .. n - 1 : r[i] = q[a] /\ (IF i < j THEN a = i ELSE a = i + 1)
        BY <1>2
      <3>2. PICK b \in 0 .. n - 1 : r[k] = q[b] /\ (IF k < j THEN b = k ELSE b = k + 1)
        BY <1>2
      <3>3. a = b
        BY <2>1, <3>1, <3>2 DEF Listed, Injective
      <3> QED
        BY <3>1, <3>2, <3>3
    <2>2. (n - 1) - 1 = n - 2
      OBVIOUS
    <2> QED
      BY <2>1, <2>2 DEF Injective
  <1>6. ioq' = At(r, n - 1, 0)
    <2>1. CASE j = 0
      <3>1. ioq' = At(q, n, 1)
        BY <1>3, <2>1
      <3>2. CASE n = 1
        BY <3>1, <3>2 DEF At
      <3>3. CASE n # 1
        <4>1. r[0] = q[1] /\ 0 < n - 1 /\ 1 < n
          BY <1>2, <2>1, <3>3
        <4> QED
          BY <3>1, <4>1 DEF At
      <3> QED
        BY <3>2, <3>3
    <2>2. CASE j # 0
      <3>1. ioq' = q[0] /\ r[0] = q[0] /\ 0 < n - 1
        BY <1>2, <2>2 DEF Listed, At
      <3> QED
        BY <3>1 DEF At
    <2> QED
      BY <2>1, <2>2
  <1>7. ASSUME NEW i \in 0 .. n - 2 PROVE nextioq'[r[i]] = At(r, n - 1, i + 1)
    <2>1. CASE i >= j
      <3>1. nextioq'[r[i]] = nextioq[q[i + 1]]
        <4>1. r[i] = q[i + 1] /\ i + 1 \in 0 .. n - 1
          BY <1>2, <2>1
        <4>2. CASE j = 0
          BY <4>1, <4>2
        <4>3. CASE j # 0
          <5>1. j - 1 \in 0 .. n - 1 /\ i + 1 # j - 1
            BY <2>1, <4>3
          <5>2. q[i + 1] # q[j - 1] /\ q[i + 1] \in Dev
            BY <1>3, <4>1, <5>1 DEF Listed, Injective
          <5> QED
            BY <4>1, <4>3, <5>2
        <4> QED
          BY <4>2, <4>3
      <3>2. nextioq[q[i + 1]] = At(q, n, i + 2)
        <4>1. i + 1 \in 0 .. n - 1 /\ (i + 1) + 1 = i + 2
          OBVIOUS
        <4> QED
          BY <1>3, <4>1
      <3>3. At(q, n, i + 2) = At(r, n - 1, i + 1)
        <4>1. CASE i + 2 < n
          <5>1. i + 1 \in 0 .. n - 2 /\ i + 1 >= j /\ i + 1 < n - 1 /\ (i + 1) + 1 = i + 2
            BY <2>1, <4>1
          <5>2. r[i + 1] = q[i + 2]
            BY <1>2, <5>1
          <5> QED
            BY <4>1, <5>1, <5>2 DEF At
        <4>2. CASE ~(i + 2 < n)
          <5>1. ~(i + 1 < n - 1)
            BY <4>2
          <5> QED
            BY <4>2, <5>1 DEF At
        <4> QED
          BY <4>1, <4>2
      <3> QED
        BY <3>1, <3>2, <3>3
    <2>2. CASE i = j - 1
      <3>1. r[i] = q[j - 1] /\ q[j - 1] \in Dev /\ j # 0
        BY <1>2, <1>3, <2>2
      <3>2. nextioq'[r[i]] = At(q, n, j + 1)
        BY <1>3, <3>1
      <3>3. At(q, n, j + 1) = At(r, n - 1, i + 1)
        <4>1. CASE j + 1 < n
          <5>1. i + 1 \in 0 .. n - 2 /\ i + 1 >= j /\ i + 1 < n - 1 /\ (i + 1) + 1 = j + 1
            BY <2>2, <4>1
          <5>2. r[i + 1] = q[j + 1]
            BY <1>2, <5>1
          <5> QED
            BY <4>1, <5>1, <5>2 DEF At
        <4>2. CASE ~(j + 1 < n)
          <5>1. ~(i + 1 < n - 1)
            BY <2>2, <4>2
          <5> QED
            BY <4>2, <5>1 DEF At
        <4> QED
          BY <4>1, <4>2
      <3> QED
        BY <3>2, <3>3
    <2>3. CASE i < j - 1
      <3>1. i + 1 \in 0 .. n - 2 /\ i + 1 < j /\ i < j /\ j # 0 /\ j - 1 \in 0 .. n - 1 /\ i # j - 1
            /\ i + 1 < n /\ i + 1 < n - 1 /\ i \in 0 .. n - 1
        BY <2>3
      <3>2. r[i] = q[i] /\ r[i + 1] = q[i + 1] /\ q[i] # q[j - 1] /\ q[i] \in Dev
        BY <1>2, <1>3, <3>1 DEF Listed, Injective
      <3>3. nextioq'[r[i]] = nextioq[q[i]]
        BY <3>1, <3>2
      <3>4. nextioq[q[i]] = At(q, n, i + 1)
        BY <1>3, <3>1
      <3> QED
        BY <3>1, <3>2, <3>3, <3>4 DEF At
    <2> QED
      BY <2>1, <2>2, <2>3
  <1>8. n - 1 \in Nat /\ (n - 1) - 1 = n - 2
    OBVIOUS
  <1>9. Listed(r, n - 1)'
    BY <1>4, <1>5, <1>6, <1>7, <1>8 DEF Listed
  <1>10. On(r, n - 1) = On(q, n) \ {q[j]}
    <2>1. ASSUME NEW a \in 0 .. n - 1, q[a] # q[j] PROVE \E i \in 0 .. n - 2 : q[a] = r[i]
      <3>1. CASE a < j
        BY <1>2, <3>1
      <3>2. CASE a > j
        <4>1. a - 1 \in 0 .. n - 2 /\ a - 1 >= j /\ (a - 1) + 1 = a
          BY <3>2
        <4>2. r[a - 1] = q[a]
          BY <1>2, <4>1
        <4> QED
          BY <4>1, <4>2
      <3>3. a # j
        BY <2>1
      <3> QED
        BY <3>1, <3>2, <3>3
    <2>2. ASSUME NEW i \in 0 .. n - 2 PROVE \E a \in 0 .. n - 1 : r[i] = q[a] /\ q[a] # q[j]
      <3>1. PICK a \in 0 .. n - 1 : r[i] = q[a] /\ (IF i < j THEN a = i ELSE a = i + 1)
        BY <1>2
      <3>2. a # j
        BY <3>1
      <3>3. q[a] # q[j]
        BY <3>2 DEF Listed, Injective
      <3> QED
        BY <3>1, <3>3
    <2>3. On(r, n - 1) = {r[i] : i \in 0 .. n - 2}
      BY <1>8 DEF On
    <2>4. On(q, n) = {q[a] : a \in 0 .. n - 1}
      BY DEF On
    <2> QED
      BY <2>1, <2>2, <2>3, <2>4
  <1>. QED
    BY <1>1, <1>8, <1>9, <1>10

\* cancel_subchan unlinks the device it has found on the list.
LEMMA RemoveKeepsList ==
    ASSUME NEW n \in Nat, NEW q, Listed(q, n), NEW d \in Dev, OnQueue(d), RemoveRequest(d),
           nextioq \in [Dev -> DevPtr]
    PROVE  /\ d \in On(q, n)
           /\ \E m \in Nat : \E r : Listed(r, m)' /\ On(r, m) = On(q, n) \ {d}
  <1>1. \E j \in 0 .. n - 1 :
           /\ q[j] = d
           /\ IF j = 0 THEN ioq' = nextioq[q[0]] /\ nextioq' = nextioq
              ELSE ioq' = ioq /\ nextioq' = [nextioq EXCEPT ![q[j - 1]] = nextioq[q[j]]]
    <2>1. CASE ioq = d
      <3>1. 0 \in 0 .. n - 1 /\ q[0] = d
        BY <2>1, QueueAssumption DEF Listed, At
      <3> QED
        BY <2>1, <3>1 DEF RemoveRequest
    <2>2. CASE ioq # d
      <3>0. PICK k : k = Least(RemoveStops(d))
        OBVIOUS
      <3>1. n # 0 /\ nextioq[Walk[k]] = d
        BY <2>2, <3>0 DEF OnQueue, Listed, At
      <3>2. RemoveStops(d) # {} /\ RemoveStops(d) \in SUBSET Nat
        <4>1. ~RemoveLoops(d) /\ ioq \notin {NoDev, d}
          BY <2>2, LoopsEnd DEF OnQueue
        <4>2. Cardinality(Dev) \in Nat
          BY ListFits DEF Listed
        <4> QED
          BY <4>1, <4>2 DEF RemoveLoops, RemoveStops, Positions
      <3>3. k \in RemoveStops(d)
        BY <3>0, <3>2, LeastProperties
      <3>4. k \in Positions /\ k \in Nat /\ Walk[k] = At(q, n, k) /\ Walk[k] # NoDev
        BY <3>2, <3>3, WalkReads DEF RemoveStops
      <3>5. k \in 0 .. n - 1 /\ Walk[k] = q[k]
        BY <3>4 DEF At
      <3>6. At(q, n, k + 1) = d
        BY <3>1, <3>5 DEF Listed
      <3>7. k + 1 \in 0 .. n - 1 /\ q[k + 1] = d /\ k + 1 # 0 /\ (k + 1) - 1 = k
        BY <3>5, <3>6, QueueAssumption DEF At
      <3>8. ioq' = ioq /\ nextioq' = [nextioq EXCEPT ![q[k]] = nextioq[d]]
        BY <2>2, <3>0, <3>5 DEF RemoveRequest
      <3> QED
        BY <3>7, <3>8
    <2> QED
      BY <2>1, <2>2
  <1>2. PICK j \in 0 .. n - 1 :
           /\ q[j] = d
           /\ IF j = 0 THEN ioq' = nextioq[q[0]] /\ nextioq' = nextioq
              ELSE ioq' = ioq /\ nextioq' = [nextioq EXCEPT ![q[j - 1]] = nextioq[q[j]]]
    BY <1>1
  <1>3. /\ n - 1 \in Nat /\ Listed(Dropped(q, n, j), n - 1)'
        /\ On(Dropped(q, n, j), n - 1) = On(q, n) \ {d}
    BY <1>2, DropKeepsList
  <1>4. d \in On(q, n)
    BY <1>2 DEF On
  <1>5. PICK r : r = Dropped(q, n, j)
    OBVIOUS
  <1>6. Listed(r, n - 1)' /\ On(r, n - 1) = On(q, n) \ {d}
    BY <1>3, <1>5
  <1>. QED
    BY <1>3, <1>4, <1>6

\* A device thread takes the head of the list.
LEMMA TakeKeepsList ==
    ASSUME NEW n \in Nat, NEW q, Listed(q, n), ioq # NoDev, ioq' = nextioq[ioq], nextioq' = nextioq,
           nextioq \in [Dev -> DevPtr]
    PROVE  /\ ioq \in On(q, n)
           /\ \E m \in Nat : \E r : Listed(r, m)' /\ On(r, m) = On(q, n) \ {ioq}
  <1>1. 0 \in 0 .. n - 1 /\ ioq = q[0]
    BY DEF Listed, At
  <1>2. /\ n - 1 \in Nat /\ Listed(Dropped(q, n, 0), n - 1)'
        /\ On(Dropped(q, n, 0), n - 1) = On(q, n) \ {ioq}
    BY <1>1, DropKeepsList
  <1>. QED
    BY <1>1, <1>2 DEF On

-----------------------------------------------------------------------------
(* Where the request of a device is, besides the list Q: with a CPU, with a  *)
(* thread that has taken it or that executes it.                             *)

Holding(t) == thr[t] \in {"taken", "exec"}
Started(d) == \E c \in Cpu : starting[c] = d
Taken(d)   == \E t \in Thread : thr[t] = "taken" /\ cur[t] = d
Exec(d)    == \E t \in Thread : thr[t] = "exec" /\ cur[t] = d

Apart(Q) ==
    /\ \A a, b \in Cpu : starting[a] \in Dev /\ starting[a] = starting[b] => a = b
    /\ \A a, b \in Thread : Holding(a) /\ Holding(b) /\ cur[a] = cur[b] => a = b
    /\ \A c \in Cpu : starting[c] \notin Q
    /\ \A t \in Thread : Holding(t) => cur[t] \in Dev \ Q
    /\ \A t \in Thread, c \in Cpu : Holding(t) => starting[c] # cur[t]

Flags(Q) ==
    \A d \in Dev :
        /\ dev[d].startpending <=> Started(d) \/ d \in Q \/ Taken(d)
        /\ dev[d].local <=> Exec(d)
        /\ dev[d].busy <=> dev[d].startpending \/ dev[d].local

Placed(Q) == Apart(Q) /\ Flags(Q)

SameFlags(d) == /\ dev'[d].startpending <=> dev[d].startpending
                /\ dev'[d].local <=> dev[d].local
                /\ dev'[d].busy <=> dev[d].busy

\* Threads that neither take a request nor begin or end a chain.
SameHolding == \A t \in Thread : /\ thr'[t] = "taken" <=> thr[t] = "taken"
                                 /\ thr'[t] = "exec" <=> thr[t] = "exec"
                                 /\ Holding(t) => cur'[t] = cur[t]

\* Most critical sections move no request.
LEMMA NothingMoves ==
    ASSUME NEW Q, Placed(Q), starting' = starting, SameHolding, \A d \in Dev : SameFlags(d)
    PROVE  Placed(Q)'
  <1>1. Apart(Q)'
    BY DEF Placed, Apart, SameHolding, Holding
  <1>2. ASSUME NEW d \in Dev
        PROVE  (Started(d)' <=> Started(d)) /\ (Taken(d)' <=> Taken(d)) /\ (Exec(d)' <=> Exec(d))
    BY DEF Started, Taken, Exec, SameHolding, Holding
  <1>3. Flags(Q)'
    BY <1>2 DEF Placed, Flags, SameFlags
  <1>. QED
    BY <1>1, <1>3 DEF Placed

LEMMA StartIoKeepsPlaces ==
    ASSUME TypeOK, NEW Q, Q \subseteq Dev, Placed(Q), NEW c \in Cpu, NEW d \in Dev, StartIo(c, d)
    PROVE  Placed(Q)'
  <1>1. starting \in [Cpu -> DevPtr] /\ dev \in [Dev -> DevBlk]
    BY DEF TypeOK
  <1>2. starting' = [starting EXCEPT ![c] = d] /\ thr' = thr /\ cur' = cur /\ starting[c] = NoDev
    BY DEF StartIo, pool
  <1>3. starting'[c] = d /\ \A e \in Cpu \ {c} : starting'[e] = starting[e]
    BY <1>1, <1>2
  <1>4. ~Started(d) /\ d \notin Q /\ ~Taken(d) /\ ~Exec(d)
    BY DEF StartIo, Busy, Placed, Flags
  <1>5. Apart(Q)'
    <2>1. \A a, b \in Cpu : starting'[a] \in Dev /\ starting'[a] = starting'[b] => a = b
      BY <1>3, <1>4 DEF Placed, Apart, Started
    <2>2. \A t \in Thread : Holding(t) => cur[t] # d
      BY <1>4 DEF Holding, Taken, Exec
    <2> QED
      BY <1>2, <1>3, <1>4, <2>1, <2>2 DEF Placed, Apart, Holding
  <1>6. dev' = [dev EXCEPT ![d].busy = TRUE, ![d].startpending = TRUE, ![d].halting = FALSE]
    BY DEF StartIo
  <1>7. /\ dev'[d].busy /\ dev'[d].startpending /\ (dev'[d].local <=> dev[d].local)
        /\ \A e \in Dev \ {d} : SameFlags(e)
    BY <1>1, <1>6 DEF DevBlk, SameFlags
  <1>8. ASSUME NEW e \in Dev
        PROVE  /\ Started(e)' <=> Started(e) \/ e = d
               /\ (Taken(e)' <=> Taken(e)) /\ (Exec(e)' <=> Exec(e))
    <2>1. Started(e)' <=> Started(e) \/ e = d
      BY <1>2, <1>3, QueueAssumption DEF Started
    <2> QED
      BY <1>2, <2>1 DEF Taken, Exec
  <1>9. Flags(Q)'
    BY <1>7, <1>8 DEF Placed, Flags, SameFlags
  <1>. QED
    BY <1>5, <1>9 DEF Placed

LEMMA QueueRequestKeepsPlaces ==
    ASSUME TypeOK, NEW Q, Q \subseteq Dev, Placed(Q), NEW c \in Cpu, QueueRequest(c),
           NEW d, d = starting[c]
    PROVE  d \in Dev \ Q /\ Placed(Q \cup {d})'
  <1>1. starting \in [Cpu -> DevPtr] /\ thr \in [Thread -> ThreadState]
    BY DEF TypeOK
  <1>2. d \in Dev /\ d \notin Q
    BY <1>1 DEF QueueRequest, DevPtr, Placed, Apart
  <1>3. starting' = [starting EXCEPT ![c] = NoDev] /\ dev' = dev /\ cur' = cur
    BY DEF QueueRequest
  <1>4. starting'[c] = NoDev /\ \A e \in Cpu \ {c} : starting'[e] = starting[e]
    BY <1>1, <1>3
  <1>5. SameHolding
    <2>1. \/ thr' = thr
          \/ \E t \in Thread : thr[t] \in {"none", "wait"} /\ thr' = [thr EXCEPT ![t] = "new"]
          \/ \E t \in Thread : thr[t] \in {"none", "wait"} /\ thr' = [thr EXCEPT ![t] = "ready"]
      BY DEF QueueRequest, DispatchThread, SignalThread, CreateThread, Waiting
    <2> QED
      BY <1>1, <1>3, <2>1 DEF SameHolding
  <1>6. Apart(Q \cup {d})'
    <2>1. \A e \in Cpu \ {c} : starting[e] # d
      BY <1>2 DEF Placed, Apart
    <2>2. \A t \in Thread : Holding(t) => cur[t] # d
      BY DEF Placed, Apart
    <2>3. \A t \in Thread : Holding(t)' <=> Holding(t)
      BY <1>5 DEF Holding, SameHolding
    <2>4. \A a, b \in Cpu : starting'[a] \in Dev /\ starting'[a] = starting'[b] => a = b
      BY <1>4, QueueAssumption DEF Placed, Apart
    <2>5. \A a, b \in Thread : Holding(a)' /\ Holding(b)' /\ cur'[a] = cur'[b] => a = b
      BY <1>3, <2>3 DEF Placed, Apart
    <2>6. \A e \in Cpu : starting'[e] \notin Q \cup {d}
      BY <1>2, <1>4, <2>1, QueueAssumption DEF Placed, Apart
    <2>7. \A t \in Thread : Holding(t)' => cur'[t] \in Dev \ (Q \cup {d})
      BY <1>3, <2>2, <2>3 DEF Placed, Apart
    <2>8. \A t \in Thread, e \in Cpu : Holding(t)' => starting'[e] # cur'[t]
      BY <1>3, <1>4, <2>3, QueueAssumption DEF Placed, Apart
    <2> QED
      BY <2>4, <2>5, <2>6, <2>7, <2>8 DEF Apart
  <1>7. ASSUME NEW e \in Dev
        PROVE  /\ Started(e) <=> Started(e)' \/ e = d
               /\ (Taken(e)' <=> Taken(e)) /\ (Exec(e)' <=> Exec(e))
    <2>1. Started(e) <=> Started(e)' \/ e = d
      BY <1>4, QueueAssumption DEF Started
    <2> QED
      BY <1>3, <1>5, <2>1 DEF Taken, Exec, SameHolding
  <1>8. Flags(Q \cup {d})'
    BY <1>3, <1>7 DEF Placed, Flags
  <1>. QED
    BY <1>2, <1>6, <1>8 DEF Placed

LEMMA CancelSubchanKeepsPlaces ==
    ASSUME TypeOK, NEW Q, Placed(Q), NEW c \in Cpu, NEW d \in Q, d \in Dev, CancelSubchan(c, d)
    PROVE  Placed(Q \ {d})'
  <1>1. dev \in [Dev -> DevBlk] /\ starting' = starting /\ thr' = thr /\ cur' = cur
    BY DEF TypeOK, CancelSubchan, pool
  <1>2. dev' = [dev EXCEPT ![d].busy = FALSE, ![d].startpending = FALSE]
    BY DEF CancelSubchan
  <1>3. /\ ~dev'[d].busy /\ ~dev'[d].startpending /\ (dev'[d].local <=> dev[d].local)
        /\ \A e \in Dev \ {d} : SameFlags(e)
    BY <1>1, <1>2 DEF DevBlk, SameFlags
  <1>4. ~Started(d) /\ ~Taken(d) /\ ~Exec(d)
    BY DEF Placed, Apart, Started, Taken, Exec, Holding
  <1>5. Apart(Q \ {d})'
    BY <1>1 DEF Placed, Apart, Holding
  <1>6. ASSUME NEW e \in Dev
        PROVE  (Started(e)' <=> Started(e)) /\ (Taken(e)' <=> Taken(e)) /\ (Exec(e)' <=> Exec(e))
    BY <1>1 DEF Started, Taken, Exec
  <1>7. Flags(Q \ {d})'
    BY <1>3, <1>4, <1>6 DEF Placed, Flags, SameFlags
  <1>. QED
    BY <1>5, <1>7 DEF Placed

LEMMA TakeRequestKeepsPlaces ==
    ASSUME TypeOK, NEW Q, Q \subseteq Dev, Placed(Q), NEW t \in Thread, TakeRequest(t),
           NEW d \in Q, d = ioq
    PROVE  Placed(Q \ {d})'
  <1>1. /\ thr \in [Thread -> ThreadState] /\ cur \in [Thread -> DevPtr]
        /\ starting' = starting /\ dev' = dev /\ ~Holding(t)
    BY DEF TypeOK, TakeRequest, AtQueue, Holding
  <1>2. thr' = [thr EXCEPT ![t] = "taken"] /\ cur' = [cur EXCEPT ![t] = d] /\ d \in Q /\ d \in Dev
    BY DEF TakeRequest
  <1>3. /\ thr'[t] = "taken" /\ cur'[t] = d
        /\ \A u \in Thread \ {t} : thr'[u] = thr[u] /\ cur'[u] = cur[u]
    BY <1>1, <1>2
  <1>4. Apart(Q \ {d})'
    <2>1. \A u \in Thread : Holding(u)' <=> Holding(u) \/ u = t
      BY <1>3 DEF Holding
    <2>2. \A u \in Thread : Holding(u) => cur[u] # d /\ u # t
      BY <1>1, <1>2 DEF Placed, Apart
    <2>3. \A a, b \in Thread : Holding(a)' /\ Holding(b)' /\ cur'[a] = cur'[b] => a = b
      BY <1>3, <2>1, <2>2 DEF Placed, Apart
    <2>4. \A u \in Thread : Holding(u)' => cur'[u] \in Dev \ (Q \ {d})
      BY <1>2, <1>3, <2>1 DEF Placed, Apart
    <2>5. \A u \in Thread, c \in Cpu : Holding(u)' => starting'[c] # cur'[u]
      BY <1>1, <1>2, <1>3, <2>1 DEF Placed, Apart
    <2> QED
      BY <1>1, <2>3, <2>4, <2>5 DEF Placed, Apart
  <1>5. ASSUME NEW e \in Dev
        PROVE  /\ Started(e)' <=> Started(e)
               /\ Taken(e)' <=> Taken(e) \/ e = d
               /\ Exec(e)' <=> Exec(e)
    BY <1>1, <1>2, <1>3 DEF Started, Taken, Exec, Holding
  <1>6. Flags(Q \ {d})'
    BY <1>1, <1>2, <1>5 DEF Placed, Flags
  <1>. QED
    BY <1>4, <1>6 DEF Placed

LEMMA BeginChainKeepsPlaces ==
    ASSUME TypeOK, NEW Q, Placed(Q), NEW t \in Thread, BeginChain(t)
    PROVE  Placed(Q)'
  <1>1. /\ thr \in [Thread -> ThreadState] /\ dev \in [Dev -> DevBlk]
        /\ starting' = starting /\ cur' = cur /\ thr[t] = "taken"
    BY DEF TypeOK, BeginChain
  <1>2. PICK d : d = cur[t]
    OBVIOUS
  <1>3. d \in Dev /\ d \notin Q
    BY <1>1, <1>2 DEF Placed, Apart, Holding
  <1>4. thr'[t] = "exec" /\ \A u \in Thread \ {t} : thr'[u] = thr[u]
    BY <1>1 DEF BeginChain
  <1>5. dev' = [dev EXCEPT ![d].local = TRUE, ![d].startpending = FALSE]
    BY <1>2 DEF BeginChain
  <1>6. /\ dev'[d].local /\ ~dev'[d].startpending /\ (dev'[d].busy <=> dev[d].busy)
        /\ \A e \in Dev \ {d} : SameFlags(e)
    BY <1>1, <1>3, <1>5 DEF DevBlk, SameFlags
  <1>7. Apart(Q)'
    BY <1>1, <1>4 DEF Placed, Apart, Holding
  <1>8. \A u \in Thread \ {t} : Holding(u) => cur[u] # d
    BY <1>1, <1>2 DEF Placed, Apart, Holding
  <1>9. ~Started(d) /\ ~Taken(d)' /\ Exec(d)' /\ Taken(d)
    BY <1>1, <1>2, <1>4, <1>8 DEF Placed, Apart, Started, Taken, Exec, Holding
  <1>10. ASSUME NEW e \in Dev \ {d} PROVE (Taken(e)' <=> Taken(e)) /\ (Exec(e)' <=> Exec(e))
    BY <1>1, <1>2, <1>4 DEF Taken, Exec
  <1>11. \A e \in Dev : Started(e)' <=> Started(e)
    BY <1>1 DEF Started
  <1>12. Flags(Q)'
    BY <1>3, <1>6, <1>9, <1>10, <1>11 DEF Placed, Flags, SameFlags
  <1>. QED
    BY <1>7, <1>12 DEF Placed

LEMMA EndChainKeepsPlaces ==
    ASSUME TypeOK, NEW Q, Placed(Q), NEW t \in Thread, EndChain(t)
    PROVE  Placed(Q)'
  <1>1. /\ thr \in [Thread -> ThreadState] /\ dev \in [Dev -> DevBlk]
        /\ starting' = starting /\ cur' = cur /\ thr[t] = "exec"
    BY DEF TypeOK, EndChain
  <1>2. PICK d : d = cur[t]
    OBVIOUS
  <1>3. d \in Dev /\ d \notin Q
    BY <1>1, <1>2 DEF Placed, Apart, Holding
  <1>4. thr'[t] = "done" /\ \A u \in Thread \ {t} : thr'[u] = thr[u]
    BY <1>1 DEF EndChain
  <1>5. dev' = [dev EXCEPT ![d].busy = FALSE, ![d].local = FALSE,
                           ![d].scpend = TRUE, ![d].halting = FALSE]
    BY <1>2 DEF EndChain
  <1>6. /\ ~dev'[d].local /\ ~dev'[d].busy /\ (dev'[d].startpending <=> dev[d].startpending)
        /\ \A e \in Dev \ {d} : SameFlags(e)
    BY <1>1, <1>3, <1>5 DEF DevBlk, SameFlags
  <1>7. Apart(Q)'
    BY <1>1, <1>4 DEF Placed, Apart, Holding
  <1>8. \A u \in Thread \ {t} : Holding(u) => cur[u] # d
    BY <1>1, <1>2 DEF Placed, Apart, Holding
  <1>9. ~Started(d) /\ ~Taken(d)' /\ ~Exec(d)' /\ ~Taken(d)
    BY <1>1, <1>2, <1>4, <1>8 DEF Placed, Apart, Started, Taken, Exec, Holding
  <1>10. ASSUME NEW e \in Dev \ {d} PROVE (Taken(e)' <=> Taken(e)) /\ (Exec(e)' <=> Exec(e))
    BY <1>1, <1>2, <1>4 DEF Taken, Exec
  <1>11. \A e \in Dev : Started(e)' <=> Started(e)
    BY <1>1 DEF Started
  <1>12. Flags(Q)'
    BY <1>3, <1>6, <1>9, <1>10, <1>11 DEF Placed, Flags, SameFlags
  <1>. QED
    BY <1>7, <1>12 DEF Placed

-----------------------------------------------------------------------------
(* The inductive invariant: the queue is a list whose devices, and no other, *)
(* are where their flags say.                                                *)

ListInv == /\ TypeOK /\ hung = {}
           /\ \E n \in Nat : \E q : Listed(q, n) /\ Placed(On(q, n))

LEMMA ListInit == Init => ListInv
  <1>. SUFFICES ASSUME Init PROVE ListInv
    OBVIOUS
  <1>1. TypeOK /\ hung = {}
    BY PoolInit DEF PoolInv, Init
  <1>2. PICK q : q = [i \in 0 .. 0 - 1 |-> NoDev]
    OBVIOUS
  <1>3. 0 .. 0 - 1 = {} /\ 0 \in Nat
    OBVIOUS
  <1>4. q \in [0 .. 0 - 1 -> Dev]
    BY <1>2, <1>3
  <1>5. Listed(q, 0)
    BY <1>3, <1>4 DEF Init, Listed, Injective, At
  <1>6. On(q, 0) = {}
    BY <1>3 DEF On
  <1>7. Apart({})
    BY QueueAssumption DEF Init, Apart, Holding
  <1>8. Flags({})
    BY QueueAssumption DEF Init, Flags, Started, Taken, Exec, Reset
  <1>9. \E n \in Nat : \E r : Listed(r, n) /\ Placed(On(r, n))
    BY <1>3, <1>5, <1>6, <1>7, <1>8 DEF Placed
  <1>. QED
    BY <1>1, <1>9 DEF ListInv

\* A critical section that leaves the list, the CPUs and the flags alone.
LEMMA ListUntouched ==
    ASSUME ListInv, TypeOK', UNCHANGED <<queue, starting, hung>>, SameHolding,
           \A d \in Dev : SameFlags(d)
    PROVE  ListInv'
  <1>1. PICK n \in Nat : \E q : Listed(q, n) /\ Placed(On(q, n))
    BY DEF ListInv
  <1>2. PICK q : Listed(q, n) /\ Placed(On(q, n))
    BY <1>1
  <1>3. PICK Q : Q = On(q, n)
    OBVIOUS
  <1>4. Placed(Q)'
    BY <1>2, <1>3, NothingMoves
  <1>5. Listed(q, n)'
    BY <1>2 DEF Listed, queue
  <1>. QED
    BY <1>3, <1>4, <1>5 DEF ListInv

\* The instructions: of those that the guest issues, only startio and
\* cancel_subchan touch the list, and no loop on it goes on for ever.
LEMMA InstructionsKeepList ==
    ASSUME ListInv, TypeOK', Instr \subseteq {"XSCH"},
           \/ \E c \in Cpu : QueueRequest(c) \/ QueueRequestLoops(c)
           \/ \E c \in Cpu, d \in Dev : \/ StartIo(c, d) \/ CancelSubchan(c, d)
                                        \/ HaltSubchan(c, d) \/ RemoveRequestLoops(c, d)
                                        \/ TestSubchan(c, d)
           \/ \E d \in Dev : DeviceReset(d)
    PROVE  ListInv'
  <1>1. PICK n \in Nat : \E q : Listed(q, n) /\ Placed(On(q, n))
    BY DEF ListInv
  <1>2. PICK q : Listed(q, n) /\ Placed(On(q, n))
    BY <1>1
  <1>3. PICK Q : Q = On(q, n)
    OBVIOUS
  <1>4. Q \subseteq Dev
    BY <1>2, <1>3 DEF On, Listed
  <1>5. TypeOK /\ starting \in [Cpu -> DevPtr] /\ dev \in [Dev -> DevBlk]
        /\ nextioq \in [Dev -> DevPtr]
    BY DEF ListInv, TypeOK
  <1>6. ASSUME NEW c \in Cpu, QueueRequest(c) PROVE ListInv'
    <2>1. PICK d : d = starting[c]
      OBVIOUS
    <2>2. d \in Dev /\ d \notin Q /\ Placed(Q \cup {d})'
      BY <1>2, <1>3, <1>4, <1>5, <1>6, <2>1, QueueRequestKeepsPlaces
    <2>3. PICK r : Listed(r, n + 1)' /\ On(r, n + 1) = Q \cup {d}
      BY <1>2, <1>3, <1>6, <2>1, <2>2, InsertKeepsList DEF QueueRequest
    <2>4. hung' = {}
      BY <1>6 DEF QueueRequest, ListInv
    <2>5. n + 1 \in Nat
      OBVIOUS
    <2> QED
      BY <2>2, <2>3, <2>4, <2>5 DEF ListInv
  <1>7. ASSUME NEW c \in Cpu PROVE ~QueueRequestLoops(c)
    <2>1. starting[c] # NoDev => starting[c] \in Dev
      BY <1>5 DEF DevPtr
    <2> QED
      BY <1>2, <2>1, LoopsEnd DEF QueueRequestLoops
  <1>8. ASSUME NEW c \in Cpu, NEW d \in Dev, StartIo(c, d) PROVE ListInv'
    <2>1. Placed(Q)'
      BY <1>2, <1>3, <1>4, <1>5, <1>8, StartIoKeepsPlaces
    <2>2. Listed(q, n)' /\ hung' = {}
      BY <1>2, <1>8 DEF Listed, StartIo, queue, ListInv
    <2> QED
      BY <1>3, <2>1, <2>2 DEF ListInv
  <1>9. ASSUME NEW c \in Cpu, NEW d \in Dev, CancelSubchan(c, d) PROVE ListInv'
    <2>1. d \in Q /\ \E m \in Nat : \E r : Listed(r, m)' /\ On(r, m) = Q \ {d}
      BY <1>2, <1>3, <1>5, <1>9, RemoveKeepsList DEF CancelSubchan
    <2>2. PICK m \in Nat : \E r : Listed(r, m)' /\ On(r, m) = Q \ {d}
      BY <2>1
    <2>3. PICK r : Listed(r, m)' /\ On(r, m) = Q \ {d}
      BY <2>2
    <2>4. Placed(Q \ {d})'
      BY <1>2, <1>3, <1>5, <1>9, <2>1, CancelSubchanKeepsPlaces
    <2>5. hung' = {}
      BY <1>9 DEF CancelSubchan, ListInv
    <2> QED
      BY <2>3, <2>4, <2>5 DEF ListInv
  <1>10. ASSUME NEW c \in Cpu, NEW d \in Dev
        PROVE  ~HaltSubchan(c, d) /\ ~DeviceReset(d) /\ ~RemoveRequestLoops(c, d)
    BY <1>2, LoopsEnd DEF HaltSubchan, DeviceReset, RemoveRequestLoops
  <1>11. ASSUME NEW d \in Dev PROVE ~DeviceReset(d)
    BY DEF DeviceReset
  <1>12. ASSUME NEW c \in Cpu, NEW d \in Dev, TestSubchan(c, d) PROVE ListInv'
    <2>1. \A e \in Dev : SameFlags(e)
      <3>1. dev' = [dev EXCEPT ![d].scpend = FALSE, ![d].halting = FALSE]
        BY <1>12 DEF TestSubchan
      <3> QED
        BY <1>5, <3>1 DEF SameFlags, DevBlk
    <2>2. SameHolding /\ UNCHANGED <<queue, starting, hung>>
      BY <1>12 DEF TestSubchan, SameHolding, pool
    <2> QED
      BY <2>1, <2>2, ListUntouched
  <1>. QED
    BY <1>6, <1>7, <1>8, <1>9, <1>10, <1>11, <1>12

\* The device threads and the devtmax command.
LEMMA ThreadsKeepList ==
    ASSUME ListInv, TypeOK',
           (\E m \in Limits : SetDevtmax(m)) \/ ApplyDevtmax \/ \E t \in Thread : ThreadStep(t)
    PROVE  ListInv'
  <1>1. PICK n \in Nat : \E q : Listed(q, n) /\ Placed(On(q, n))
    BY DEF ListInv
  <1>2. PICK q : Listed(q, n) /\ Placed(On(q, n))
    BY <1>1
  <1>3. PICK Q : Q = On(q, n)
    OBVIOUS
  <1>4. Q \subseteq Dev
    BY <1>2, <1>3 DEF On, Listed
  <1>5. TypeOK /\ thr \in [Thread -> ThreadState] /\ cur \in [Thread -> DevPtr]
        /\ nextioq \in [Dev -> DevPtr]
    BY DEF ListInv, TypeOK
  <1>6. ASSUME NEW m \in Limits, SetDevtmax(m) PROVE ListInv'
    <2>1. /\ \A d \in Dev : SameFlags(d)
          /\ SameHolding /\ UNCHANGED <<queue, starting, hung>>
      BY <1>6 DEF SetDevtmax, SameFlags, SameHolding, pool
    <2> QED
      BY <2>1, ListUntouched
  <1>7. CASE ApplyDevtmax
    <2>1. /\ \A d \in Dev : SameFlags(d)
          /\ UNCHANGED <<queue, starting, hung, cur>>
      BY <1>7 DEF ApplyDevtmax, SameFlags
    <2>2. PICK created : /\ \A t \in created : thr[t] = "none"
                         /\ thr' = [t \in Thread |-> Awake(t, created)]
      BY <1>7 DEF ApplyDevtmax
    <2>3. SameHolding
      BY <2>1, <2>2 DEF SameHolding, Awake
    <2> QED
      BY <2>1, <2>3, ListUntouched
  <1>8. ASSUME NEW t \in Thread, EndThread(t) \/ WaitForWork(t) PROVE ListInv'
    <2>1. /\ \A d \in Dev : SameFlags(d)
          /\ UNCHANGED <<queue, starting, hung>>
      BY <1>8 DEF EndThread, WaitForWork, SameFlags
    <2>2. /\ thr[t] \in {"new", "ready", "done"}
          /\ thr'[t] \in {"none", "wait"}
          /\ \A u \in Thread \ {t} : thr'[u] = thr[u] /\ cur'[u] = cur[u]
      BY <1>5, <1>8 DEF EndThread, WaitForWork, AtQueue
    <2>3. SameHolding
      BY <2>2 DEF SameHolding, Holding
    <2> QED
      BY <2>1, <2>3, ListUntouched
  <1>9. ASSUME NEW t \in Thread, TakeRequest(t) PROVE ListInv'
    <2>1. PICK d : d = ioq
      OBVIOUS
    <2>2. d \in Q /\ \E m \in Nat : \E r : Listed(r, m)' /\ On(r, m) = Q \ {d}
      BY <1>2, <1>3, <1>5, <1>9, <2>1, TakeKeepsList DEF TakeRequest
    <2>3. PICK m \in Nat : \E r : Listed(r, m)' /\ On(r, m) = Q \ {d}
      BY <2>2
    <2>4. PICK r : Listed(r, m)' /\ On(r, m) = Q \ {d}
      BY <2>3
    <2>5. Placed(Q \ {d})'
      BY <1>2, <1>3, <1>4, <1>5, <1>9, <2>1, <2>2, TakeRequestKeepsPlaces
    <2>6. hung' = {}
      BY <1>9 DEF TakeRequest, ListInv
    <2> QED
      BY <2>4, <2>5, <2>6 DEF ListInv
  <1>10. ASSUME NEW t \in Thread, BeginChain(t) \/ EndChain(t) PROVE ListInv'
    <2>1. Placed(Q)'
      BY <1>2, <1>3, <1>5, <1>10, BeginChainKeepsPlaces, EndChainKeepsPlaces
    <2>2. Listed(q, n)' /\ hung' = {}
      BY <1>2, <1>10 DEF Listed, BeginChain, EndChain, queue, ListInv
    <2> QED
      BY <1>3, <2>1, <2>2 DEF ListInv
  <1>. QED
    BY <1>6, <1>7, <1>8, <1>9, <1>10 DEF ThreadStep

LEMMA ListStep ==
    ASSUME ListInv, PoolInv, [Next]_vars, Instr \subseteq {"XSCH"}
    PROVE  ListInv'
  <1>1. TypeOK'
    BY PoolStep DEF PoolInv
  <1>2. CASE UNCHANGED vars
    <2>1. /\ \A d \in Dev : SameFlags(d)
          /\ SameHolding /\ UNCHANGED <<queue, starting, hung>>
      BY <1>2 DEF vars, queue, pool, SameFlags, SameHolding
    <2> QED
      BY <1>1, <2>1, ListUntouched
  <1>3. CASE Next
    BY <1>1, <1>3, InstructionsKeepList, ThreadsKeepList DEF Next
  <1>. QED
    BY <1>2, <1>3

\* The invariant counts what RequestHeldOnce counts.
LEMMA HeldOnce == ListInv => RequestHeldOnce
  <1>. SUFFICES ASSUME ListInv, NEW d \in Dev
                PROVE  Cardinality(Holders(d)) + Cardinality(Queued \cap {d})
                       = IF dev[d].busy THEN 1 ELSE 0
    BY DEF RequestHeldOnce
  <1>1. PICK n \in Nat : \E q : Listed(q, n) /\ Placed(On(q, n))
    BY DEF ListInv
  <1>2. PICK q : Listed(q, n) /\ Placed(On(q, n))
    BY <1>1
  <1>3. Queued = On(q, n)
    BY <1>2, QueuedIsOn
  <1>4. Cardinality({}) = 0 /\ \A x : Cardinality({x}) = 1
    BY FS_EmptySet, FS_Singleton
  <1>5. CASE d \in On(q, n)
    <2>1. dev[d].busy /\ Holders(d) = {} /\ Queued \cap {d} = {d}
      BY <1>2, <1>3, <1>5 DEF Placed, Apart, Flags, Holders, Holding
    <2>2. Cardinality(Holders(d)) = 0 /\ Cardinality(Queued \cap {d}) = 1
      BY <1>4, <2>1
    <2> QED
      BY <2>1, <2>2
  <1>6. CASE \E c \in Cpu : starting[c] = d
    <2>1. PICK c \in Cpu : starting[c] = d
      BY <1>6
    <2>2. dev[d].busy /\ Holders(d) = {c} /\ Queued \cap {d} = {}
      BY <1>2, <1>3, <2>1 DEF Placed, Apart, Flags, Started, Holders, Holding
    <2> QED
      BY <1>4, <2>2
  <1>7. CASE \E t \in Thread : Holding(t) /\ cur[t] = d
    <2>1. PICK t \in Thread : Holding(t) /\ cur[t] = d
      BY <1>7
    <2>2. dev[d].busy
      BY <1>2, <2>1 DEF Placed, Flags, Taken, Exec, Holding
    <2>3. Holders(d) = {t} /\ Queued \cap {d} = {}
      BY <1>2, <1>3, <2>1 DEF Placed, Apart, Holders, Holding
    <2>4. Cardinality(Holders(d)) = 1 /\ Cardinality(Queued \cap {d}) = 0
      BY <1>4, <2>3
    <2> QED
      BY <2>2, <2>4
  <1>8. CASE /\ d \notin On(q, n) /\ \A c \in Cpu : starting[c] # d
             /\ \A t \in Thread : ~(Holding(t) /\ cur[t] = d)
    <2>1. ~dev[d].busy
      BY <1>2, <1>8 DEF Placed, Flags, Started, Taken, Exec, Holding
    <2>2. Holders(d) = {} /\ Queued \cap {d} = {}
      BY <1>3, <1>8 DEF Holders, Holding
    <2> QED
      BY <1>4, <2>1, <2>2
  <1>. QED
    BY <1>5, <1>6, <1>7, <1>8

-----------------------------------------------------------------------------
(* The place of a request.  A halt clears startpending of a request that a   *)
(* thread already owns (channel.c:968), and a channel path reset frees a     *)
(* device whose request is still queued: with either, the theorems are false.*)

\* The request queue stays a finite list without a cycle and without a device
\* twice: no loop on it goes on for ever, and so no CPU keeps ioqlock.
THEOREM QueueIsList == ASSUME Instr \subseteq {"XSCH"} PROVE Spec => []ListInv
  <1>1. PoolInv /\ ListInv /\ [Next]_vars => PoolInv' /\ ListInv'
    BY ListStep, PoolStep
  <1>. QED
    BY <1>1, ListInit, PoolInit, PTL DEF Spec

\* startio, cancel_subchan and device_thread hand a request from one to the
\* other: a busy device's is with one of them, or on the queue once.
THEOREM RequestInOnePlace == ASSUME Instr \subseteq {"XSCH"} PROVE Spec => []RequestHeldOnce
  BY QueueIsList, HeldOnce, PTL

-----------------------------------------------------------------------------
(* Service by priority, for every instruction: even on a list that has       *)
(* become circular no link leads to a more urgent device.                    *)

LinksOrdered ==
    \A e \in Dev : nextioq[e] \in Dev => Priority[e] <= Priority[nextioq[e]]

MostUrgentFirst == ioq # NoDev => \A e \in Queued : Priority[ioq] <= Priority[e]

\* The insertion stops at the first larger priority, the removal joins the
\* neighbours of what it removes.
LEMMA LinksStayOrdered ==
    ASSUME TypeOK, LinksOrdered, NEW d \in Dev,
           (InsertStops(d) # {} /\ InsertRequest(d)) \/ (OnQueue(d) /\ RemoveRequest(d))
    PROVE  LinksOrdered'
  <1>1. /\ nextioq \in [Dev -> DevPtr] /\ Cardinality(Dev) \in Nat
        /\ \A e \in Dev : Priority[e] \in Nat
    BY WalkDefined, QueueAssumption DEF TypeOK
  <1>2. CASE InsertStops(d) # {} /\ InsertRequest(d)
    <2>1. PICK k : k = Least(InsertStops(d))
      OBVIOUS
    <2>2. k \in InsertStops(d) /\ \A i \in InsertStops(d) : k <= i
      <3>1. InsertStops(d) \in SUBSET Nat
        BY <1>1 DEF InsertStops, Positions
      <3>. QED
        BY <1>2, <2>1, <3>1, LeastProperties
    <2>3. PICK prev \in DevPtr, next \in DevPtr :
             /\ next = Walk[k] /\ prev = IF k = 0 THEN NoDev ELSE Walk[k - 1]
             /\ nextioq' = [e \in Dev |-> IF e = prev THEN d ELSE IF e = d THEN next ELSE nextioq[e]]
      BY <1>2, <2>1 DEF InsertRequest
    <2>4. next \in Dev => Priority[d] <= Priority[next]
      BY <1>1, <2>2, <2>3, QueueAssumption DEF InsertStops
    <2>5. prev \in Dev => Priority[prev] <= Priority[d]
      <3>1. SUFFICES ASSUME prev \in Dev PROVE Priority[prev] <= Priority[d]
        OBVIOUS
      <3>2. k # 0 /\ k \in Nat /\ k - 1 \in Positions /\ ~(k <= k - 1)
        BY <1>1, <2>2, <2>3, <3>1, QueueAssumption DEF InsertStops, Positions
      <3>3. k - 1 \notin InsertStops(d) /\ Walk[k - 1] = prev
        BY <2>2, <2>3, <3>2
      <3>4. ~(Priority[d] < Priority[prev])
        BY <3>2, <3>3 DEF InsertStops
      <3>. QED
        BY <1>1, <3>1, <3>4
    <2>6. ASSUME NEW e \in Dev, nextioq'[e] \in Dev PROVE Priority[e] <= Priority[nextioq'[e]]
      <3>1. CASE e = prev
        BY <2>3, <2>5, <3>1
      <3>2. CASE e # prev /\ e = d
        BY <2>3, <2>4, <2>6, <3>2
      <3>3. CASE e # prev /\ e # d
        BY <2>3, <2>6, <3>3 DEF LinksOrdered
      <3>. QED
        BY <3>1, <3>2, <3>3
    <2>. QED
      BY <2>6 DEF LinksOrdered
  <1>3. CASE OnQueue(d) /\ RemoveRequest(d)
    <2>1. CASE nextioq' = nextioq
      BY <2>1 DEF LinksOrdered
    <2>2. CASE ioq # d /\ nextioq' = [nextioq EXCEPT ![Walk[Least(RemoveStops(d))]] = nextioq[d]]
      <3>1. PICK a : a = Walk[Least(RemoveStops(d))]
        OBVIOUS
      <3>2. nextioq[a] = d /\ nextioq' = [nextioq EXCEPT ![a] = nextioq[d]]
        BY <1>3, <2>2, <3>1 DEF OnQueue
      <3>3. ASSUME NEW e \in Dev, nextioq'[e] \in Dev
            PROVE  Priority[e] <= Priority[nextioq'[e]]
        <4>1. CASE e = a
          <5>1. nextioq'[e] = nextioq[d] /\ nextioq[e] = d /\ nextioq[d] \in Dev
            BY <1>1, <3>2, <3>3, <4>1
          <5>2. Priority[e] <= Priority[d] /\ Priority[d] <= Priority[nextioq[d]]
            BY <5>1 DEF LinksOrdered
          <5>3. Priority[e] \in Nat /\ Priority[d] \in Nat /\ Priority[nextioq[d]] \in Nat
            BY <1>1, <5>1
          <5>. QED
            BY <5>1, <5>2, <5>3
        <4>2. CASE e # a
          BY <1>1, <3>2, <3>3, <4>2 DEF LinksOrdered
        <4>. QED
          BY <4>1, <4>2
      <3>. QED
        BY <3>3 DEF LinksOrdered
    <2>. QED
      BY <1>3, <2>1, <2>2 DEF RemoveRequest
  <1>. QED
    BY <1>2, <1>3

LEMMA LinksStep == TypeOK /\ LinksOrdered /\ [Next]_vars => LinksOrdered'
  <1>. SUFFICES ASSUME TypeOK, LinksOrdered, [Next]_vars PROVE LinksOrdered'
    OBVIOUS
  <1>1. CASE nextioq' = nextioq
    BY <1>1 DEF LinksOrdered
  <1>2. ASSUME NEW c \in Cpu, QueueRequest(c) PROVE LinksOrdered'
    <2>1. PICK d : d = starting[c]
      OBVIOUS
    <2>2. d \in Dev
      BY <1>2, <2>1 DEF QueueRequest, TypeOK, DevPtr
    <2>. QED
      BY <1>2, <2>1, <2>2, LinksStayOrdered DEF QueueRequest
  <1>3. ASSUME NEW c \in Cpu, NEW d \in Dev, CancelSubchan(c, d) \/ HaltSubchan(c, d)
        PROVE  LinksOrdered'
    <2>1. nextioq' = nextioq \/ (OnQueue(d) /\ RemoveRequest(d))
      BY <1>3 DEF CancelSubchan, HaltSubchan, queue
    <2>. QED
      BY <1>1, <2>1, LinksStayOrdered
  <1>4. CASE UNCHANGED vars
    BY <1>1, <1>4 DEF vars, queue
  <1>5. ASSUME \/ \E c \in Cpu : QueueRequestLoops(c)
               \/ \E c \in Cpu, d \in Dev : \/ StartIo(c, d) \/ RemoveRequestLoops(c, d)
                                            \/ TestSubchan(c, d)
               \/ \E d \in Dev : DeviceReset(d)
               \/ \E n \in Limits : SetDevtmax(n)
               \/ ApplyDevtmax
        PROVE  LinksOrdered'
    BY <1>1, <1>5 DEF QueueRequestLoops, StartIo, RemoveRequestLoops, TestSubchan,
                      DeviceReset, SetDevtmax, ApplyDevtmax, queue
  <1>6. ASSUME NEW t \in Thread, ThreadStep(t) PROVE LinksOrdered'
    BY <1>1, <1>6 DEF ThreadStep, TakeRequest, EndThread, WaitForWork, BeginChain, EndChain, queue
  <1>. QED
    BY <1>2, <1>3, <1>4, <1>5, <1>6 DEF Next

\* A walk along ordered links never meets a device more urgent than the head.
LEMMA HeadMostUrgent == TypeOK /\ LinksOrdered => MostUrgentFirst
  <1>. SUFFICES ASSUME TypeOK, LinksOrdered, ioq # NoDev
                PROVE  \A e \in Queued : Priority[ioq] <= Priority[e]
    BY DEF MostUrgentFirst
  <1>1. /\ ioq \in Dev /\ nextioq \in [Dev -> DevPtr] /\ Cardinality(Dev) \in Nat
        /\ \A e \in Dev : Priority[e] \in Nat
    BY WalkDefined, QueueAssumption DEF TypeOK, DevPtr
  <1>. DEFINE Fine(k) == Walk[k] = NoDev \/ (Walk[k] \in Dev /\ Priority[ioq] <= Priority[Walk[k]])
              B == {k \in Positions : ~Fine(k)}
  <1>2. ASSUME B # {} PROVE FALSE
    <2>1. PICK k : k \in B /\ \A j \in B : k <= j
      <3>. HIDE DEF B
      <3>1. B \in SUBSET Nat
        BY <1>1 DEF B, Positions
      <3>. QED
        BY <1>2, <3>1, LeastProperties
    <2>2. k \in Positions /\ k \in Nat /\ Walk[k] = IF k = 0 THEN ioq ELSE Successor(Walk[k - 1])
      BY <1>1, <2>1, WalkDefined DEF Positions
    <2>3. k # 0
      BY <1>1, <2>1, <2>2
    <2>4. k - 1 \in Positions /\ ~(k <= k - 1)
      BY <1>1, <2>2, <2>3 DEF Positions
    <2>5. Fine(k - 1)
      BY <2>1, <2>4
    <2>6. CASE Walk[k - 1] = NoDev
      BY <2>1, <2>2, <2>3, <2>6 DEF Successor
    <2>7. CASE Walk[k - 1] \in Dev /\ Priority[ioq] <= Priority[Walk[k - 1]]
      <3>1. PICK a \in Dev : a = Walk[k - 1]
        BY <2>7
      <3>2. Walk[k] = nextioq[a] /\ nextioq[a] \in DevPtr
        BY <1>1, <2>2, <2>3, <3>1, QueueAssumption DEF Successor
      <3>3. CASE nextioq[a] \in Dev
        <4>1. Priority[ioq] <= Priority[a] /\ Priority[a] <= Priority[nextioq[a]]
          BY <2>7, <3>1, <3>3 DEF LinksOrdered
        <4>2. Priority[ioq] \in Nat /\ Priority[a] \in Nat /\ Priority[nextioq[a]] \in Nat
          BY <1>1, <3>3
        <4>3. Priority[ioq] <= Priority[Walk[k]]
          BY <3>2, <4>1, <4>2
        <4>. QED
          BY <2>1, <3>2, <3>3, <4>3
      <3>. QED
        BY <2>1, <3>2, <3>3 DEF DevPtr
    <2>. QED
      BY <2>5, <2>6, <2>7
  <1>. QED
    BY <1>2 DEF Queued

\* What a device thread takes is the most urgent request of all that are
\* queued, whatever the guest issues: startio's insertion keeps the list in
\* order of dev->priority.
THEOREM ServedByPriority == Spec => []MostUrgentFirst
  <1>1. Init => LinksOrdered
    BY QueueAssumption DEF Init, LinksOrdered
  <1>2. TypeOK /\ LinksOrdered => MostUrgentFirst
    BY HeadMostUrgent
  <1>. QED
    BY <1>1, <1>2, LinksStep, TypeCorrect, PTL DEF Spec
=============================================================================
