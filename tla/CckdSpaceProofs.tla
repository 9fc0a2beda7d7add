-------------------------- MODULE CckdSpaceProofs --------------------------
(* The space of a compressed file, for any number of tracks, any lengths and *)
(* any size: every unit has one use, the header's statistics are right, the  *)
(* chain that is written is well formed and, if freed space is pending for   *)
(* two passes or more, a crash finds what it needs.                          *)
EXTENDS CckdSpace, FiniteSetTheorems, SequenceTheorems, WellFoundedInduction, TLAPS

-----------------------------------------------------------------------------
(* The file as sets of units                                                 *)

\* The units of the spaces in R, and of those that stay pending for m passes
Cover(R) == UNION {Units(s.pos, s.len) : s \in R}
Held(R, m) == Cover({s \in R : s.pending >= m})

Spaces(free) == {free[i] : i \in DOMAIN free}
InOrder(free) == \A i, j \in DOMAIN free : i < j => End(free[i]) <= free[j].pos

Entry == [pos : Nat, len : Nat, size : Nat]
FileRec == [size : Int, used : Int, total : Int, imbed : Int, largest : Int,
            number : Int, free : Seq(Space), l1 : [Table -> Nat], l2 : [Track -> Entry],
            bounds : Int, l2ok : BOOLEAN]

\* The chain has all units of the file but those in U, and the statistics are
\* those of the chain and of K units within images' spaces.
Kept(f, U, K) ==
  /\ f \in FileRec /\ f.size \in 0 .. MaxSize
  /\ InOrder(f.free)
  /\ Cover(Spaces(f.free)) \cap U = {} /\ Cover(Spaces(f.free)) \cup U = 0 .. f.size - 1
  /\ f.number = Len(f.free) /\ f.largest = Largest(f.free) /\ f.imbed = K
  /\ f.total = Cardinality(Cover(Spaces(f.free))) + K /\ f.used = f.size - f.total

\* What is in use: the header, a table or a track, each with its area.
Object == {<<"header", 0>>} \cup ({"table"} \X Table) \cup ({"track"} \X Track)
Area(l1, l2) ==
  [o \in Object |->
     IF o[1] = "header" THEN Units(0, Base)
     ELSE IF o[1] = "table" THEN (IF l1[o[2]] = 0 THEN {} ELSE Units(l1[o[2]], L2Len))
     ELSE (IF l2[o[2]].pos = 0 THEN {} ELSE Units(l2[o[2]].pos, l2[o[2]].size))]
InUse(l1, l2) == UNION {Area(l1, l2)[o] : o \in Object}
Apart(A) == \A o, p \in Object : o # p => A[o] \cap A[p] = {}

Shaped(l2) == \A t \in Track : l2[t] = Null \/ (l2[t].pos # 0 /\ l2[t].len # 0 /\ l2[t].len <= l2[t].size)
Slack(l2) == UNION {Units(l2[t].pos + l2[t].len, l2[t].size - l2[t].len) : t \in Track}

\* A table counts for the bounds.
Tables(l1) == {j \in Table : l1[j] # 0}
Bounded(f) == f.bounds >= Base + L2Len * Cardinality(Tables(f.l1))

Sound(f) ==
  /\ Kept(f, InUse(f.l1, f.l2), Cardinality(Slack(f.l2)))
  /\ Shaped(f.l2) /\ Apart(Area(f.l1, f.l2)) /\ Bounded(f)

\* Every image has a table.
Tabled(f) == \A t \in Track : f.l2[t] # Null => f.l1[TableOf(t)] # 0

GcSane ==
  /\ gc \in [pc : {"wait", "l2images", "l2tables", "cycle", "move", "moved", "synced"},
             at : Nat, to : Nat, first : BOOLEAN]
  /\ gc.pc = "move" => gc.at # 0
  /\ gc.pc = "synced" => ~gc.first

Inv ==
  /\ Sound(file) /\ GcSane /\ opened \in BOOLEAN
  /\ stable \subseteq 0 .. MaxSize - 1
  /\ chain \in Seq(Space) /\ HardenedChain
  /\ mode \in {"open", "lost", "damaged"} /\ writes \in 0 .. MaxWrites
  /\ mode = "open" => Tabled(file)

\* What the disk may refer to is in use, or stays pending until the next sync.
Passes == IF gc.pc = "synced" \/ gc.first THEN FreePend ELSE FreePend - 1
Safe == mode = "open" =>
          stable \subseteq InUse(file.l1, file.l2) \cup Held(Spaces(file.free), Passes)

-----------------------------------------------------------------------------
(* Recursion, least and greatest elements                                    *)

\* A nonempty set of natural numbers has a least one, which Min finds.
LEMMA MinIsLeast ==
  ASSUME NEW S \in SUBSET Nat, S # {}
  PROVE  Min(S) \in S /\ \A j \in S : Min(S) <= j
  <1>. DEFINE R == {ss \in Nat \X Nat : ss[1] < ss[2]}
  <1>1. IsWellFoundedOn(R, Nat)
    BY NatLessThanWellFounded DEF OpToRel
  <1>2. PICK k \in S : \A j \in S : <<j, k>> \notin R
    <2>. HIDE DEF R
    <2>. QED
      BY <1>1, WFMin
  <1>3. ASSUME NEW j \in S PROVE k <= j
    <2>1. k \in Nat /\ j \in Nat /\ (<<j, k>> \in R <=> j < k)
      OBVIOUS
    <2>. QED
      BY <1>2, <2>1
  <1>. QED
    BY <1>3 DEF Min

\* A nonempty set of numbers up to n has a greatest one, which Max finds.
LEMMA MaxIsGreatest ==
  ASSUME NEW n \in Nat, NEW S \in SUBSET (0 .. n), S # {}
  PROVE  Max(S) \in S /\ \A j \in S : j <= Max(S)
  <1>. DEFINE T == {n - j : j \in S}
  <1>1. T \in SUBSET Nat /\ T # {}
    <2>1. \A j \in S : n - j \in Nat
      OBVIOUS
    <2>2. PICK j : j \in S
      OBVIOUS
    <2>3. n - j \in T
      BY <2>2
    <2>. QED
      BY <2>1, <2>3
  <1>2. PICK k \in S : n - k = Min(T)
    <2>. HIDE DEF T
    <2>1. Min(T) \in T
      BY <1>1, MinIsLeast
    <2>. QED
      BY <2>1 DEF T
  <1>3. ASSUME NEW j \in S PROVE j <= k
    <2>1. Min(T) <= n - j
      <3>1. n - j \in T
        OBVIOUS
      <3>. HIDE DEF T
      <3>. QED
        BY <1>1, <3>1, MinIsLeast
    <2>. QED
      BY <1>2, <2>1
  <1>. QED
    BY <1>3 DEF Max

\* A recursion over 0 .. N has a solution.
Recursion(g, N, base, step) == g[0] = base /\ \A n \in 1 .. N : g[n] = step[<<n, g[n - 1]>>]

LEMMA RecursionSolved ==
  ASSUME NEW N \in Nat, NEW X, NEW base \in X, NEW step \in [(1 .. N) \X X -> X]
  PROVE  \E g \in [0 .. N -> X] : Recursion(g, N, base, step)
  <1>. DEFINE Solves(g, m) == g[0] = base /\ \A n \in 1 .. m : g[n] = step[<<n, g[n - 1]>>]
              Unsolved == {m \in 0 .. N : ~\E g \in [0 .. m -> X] : Solves(g, m)}
  <1>1. ASSUME Unsolved # {} PROVE FALSE
    <2>1. PICK m \in Unsolved : \A j \in Unsolved : m <= j
      <3>. HIDE DEF Unsolved
      <3>1. Unsolved \in SUBSET Nat
        BY DEF Unsolved
      <3>. QED
        BY <1>1, <3>1, MinIsLeast
    <2>2. CASE m = 0
      <3>1. PICK g : g = [n \in 0 .. 0 |-> base]
        OBVIOUS
      <3>2. g \in [0 .. 0 -> X] /\ Solves(g, 0)
        BY <3>1
      <3>. QED
        BY <2>1, <2>2, <3>2
    <2>3. CASE m # 0
      <3>1. m \in 1 .. N /\ m - 1 \in 0 .. N /\ ~(m <= m - 1) /\ m - 1 \in 0 .. m - 1
        BY <2>1, <2>3
      <3>2. PICK g \in [0 .. m - 1 -> X] : Solves(g, m - 1)
        BY <2>1, <3>1
      <3>3. PICK h : h = [n \in 0 .. m |-> IF n = m THEN step[<<m, g[m - 1]>>] ELSE g[n]]
        OBVIOUS
      <3>4. g[m - 1] \in X /\ step[<<m, g[m - 1]>>] \in X
        BY <3>1
      <3>5. h \in [0 .. m -> X]
        BY <3>1, <3>3, <3>4
      <3>6. ASSUME NEW n \in 1 .. m PROVE h[n] = step[<<n, h[n - 1]>>]
        <4>1. n - 1 \in 0 .. m /\ n - 1 # m /\ h[n - 1] = g[n - 1]
          BY <3>1, <3>3
        <4>2. CASE n = m
          BY <3>1, <3>3, <4>1, <4>2
        <4>3. CASE n # m
          <5>1. n \in 1 .. m - 1 /\ h[n] = g[n]
            BY <3>1, <3>3, <4>3
          <5>. QED
            BY <3>2, <4>1, <5>1
        <4>. QED
          BY <4>2, <4>3
      <3>7. h[0] = base
        BY <2>3, <3>1, <3>2, <3>3
      <3>. QED
        BY <2>1, <3>5, <3>6, <3>7
    <2>. QED
      BY <2>2, <2>3
  <1>2. N \in 0 .. N
    OBVIOUS
  <1>3. \E g \in [0 .. N -> X] : Solves(g, N)
    <2>. HIDE DEF Solves
    <2>. QED
      BY <1>1, <1>2
  <1>. QED
    BY <1>3 DEF Recursion

\* A space with another place, length or count is a space.
LEMMA SpaceFields ==
  ASSUME NEW s \in Space
  PROVE  /\ s.pos \in Nat /\ s.len \in Nat /\ s.len # 0 /\ s.pending \in 0 .. MaxFreePend
         /\ s.pending \in Nat
         /\ \A x \in Nat : x # 0 => [s EXCEPT !.len = x] \in Space
         /\ \A x \in Nat : [s EXCEPT !.len = x].len = x
         /\ \A x \in Nat : [s EXCEPT !.len = x].pos = s.pos
         /\ \A x \in Nat : [s EXCEPT !.len = x].pending = s.pending
         /\ \A x \in 0 .. MaxFreePend : [s EXCEPT !.pending = x] \in Space
         /\ \A x \in 0 .. MaxFreePend : [s EXCEPT !.pending = x].len = s.len
         /\ \A x \in 0 .. MaxFreePend : [s EXCEPT !.pending = x].pos = s.pos
         /\ \A x \in 0 .. MaxFreePend : [s EXCEPT !.pending = x].pending = x
  <1>1. s.pos \in Nat /\ s.len \in Nat /\ s.len # 0 /\ s.pending \in 0 .. MaxFreePend
    BY DEF Space
  <1>2. s.pending \in Nat
    BY <1>1, ConstantsAssumption
  <1>3. \A x \in Nat : [s EXCEPT !.len = x] = [pos |-> s.pos, len |-> x, pending |-> s.pending]
    BY DEF Space
  <1>4. \A x \in 0 .. MaxFreePend : [s EXCEPT !.pending = x] = [pos |-> s.pos, len |-> s.len, pending |-> x]
    BY DEF Space
  <1>5. \A x \in Nat : x # 0 => [s EXCEPT !.len = x] \in Space
    BY <1>1, <1>3 DEF Space
  <1>6. \A x \in 0 .. MaxFreePend : [s EXCEPT !.pending = x] \in Space
    BY <1>1, <1>4 DEF Space
  <1>. QED
    BY <1>1, <1>2, <1>3, <1>4, <1>5, <1>6

\* The functions in which the model folds a chain are what they are meant to be.
LEMMA MergeType ==
  ASSUME NEW done \in Seq(Space), NEW s \in Space
  PROVE  Merge(done, s) \in Seq(Space)
  <1>1. CASE Merge(done, s) = Append(done, [s EXCEPT !.pending = IF @ = 0 THEN 0 ELSE @ - 1])
    <2>1. (IF s.pending = 0 THEN 0 ELSE s.pending - 1) \in 0 .. MaxFreePend
      <3>1. s.pending \in 0 .. MaxFreePend /\ MaxFreePend \in Nat
        BY ConstantsAssumption, SpaceFields
      <3>. QED
        BY <3>1
    <2>2. [s EXCEPT !.pending = IF s.pending = 0 THEN 0 ELSE s.pending - 1] \in Space
      BY <2>1, SpaceFields
    <2>. QED
      BY <1>1, <2>2
  <1>2. CASE Len(done) > 0 /\ Merge(done, s) = [done EXCEPT ![Len(done)].len = @ + s.len]
    <2>1. [done[Len(done)] EXCEPT !.len = @ + s.len] \in Space
      <3>1. done[Len(done)] \in Space /\ done[Len(done)].len + s.len \in Nat \ {0}
        BY <1>2, SpaceFields
      <3>2. [done[Len(done)] EXCEPT !.len = done[Len(done)].len + s.len] \in Space
        BY <3>1, SpaceFields
      <3>. QED
        BY <3>2
    <2>2. [done EXCEPT ![Len(done)].len = @ + s.len] = [done EXCEPT ![Len(done)] = [done[Len(done)] EXCEPT !.len = @ + s.len]]
      OBVIOUS
    <2>. QED
      BY <1>2, <2>1, <2>2
  <1>. QED
    BY <1>1, <1>2 DEF Merge

\* One space more of the chain is merged.
LEMMA MergedStep ==
  ASSUME NEW s \in Seq(Space)
  PROVE  /\ Merged(s)[0] = <<>>
         /\ \A n \in 1 .. Len(s) : Merged(s)[n] = Merge(Merged(s)[n - 1], s[n])
         /\ \A n \in 0 .. Len(s) : Merged(s)[n] \in Seq(Space)
  <1>. DEFINE N == Len(s)
              X == Seq(Space)
              step == [p \in (1 .. N) \X X |-> Merge(p[2], s[p[1]])]
              Solved(g) == g = [n \in 0 .. N |-> IF n = 0 THEN <<>> ELSE Merge(g[n - 1], s[n])]
  <1>1. N \in Nat /\ <<>> \in X /\ step \in [(1 .. N) \X X -> X]
    <2>1. ASSUME NEW p \in (1 .. N) \X X PROVE Merge(p[2], s[p[1]]) \in X
      <3>1. p[2] \in Seq(Space) /\ s[p[1]] \in Space
        OBVIOUS
      <3>. QED
        BY <3>1, MergeType
    <2>. QED
      BY <2>1
  <1>2. PICK g \in [0 .. N -> X] : g[0] = <<>> /\ \A n \in 1 .. N : g[n] = step[<<n, g[n - 1]>>]
    <2>. DEFINE base == <<>>
    <2>1. base \in X
      BY <1>1
    <2>. HIDE DEF X, N, step, base
    <2>2. \E g \in [0 .. N -> X] : Recursion(g, N, base, step)
      BY <1>1, <2>1, RecursionSolved
    <2>. QED
      BY <2>2 DEF base, Recursion
  <1>3. ASSUME NEW n \in 1 .. N PROVE n - 1 \in 0 .. N /\ g[n] = Merge(g[n - 1], s[n])
    <2>1. n - 1 \in 0 .. N
      BY <1>1
    <2>2. g[n - 1] \in X
      BY <2>1, <1>2
    <2>3. step[<<n, g[n - 1]>>] = Merge(g[n - 1], s[n])
      BY <2>2
    <2>. QED
      BY <1>2, <2>1, <2>3
  <1>4. Solved(g)
    BY <1>1, <1>2, <1>3
  <1>5. Solved(Merged(s))
    BY <1>4 DEF Merged
  <1>6. /\ Merged(s)[0] = <<>>
        /\ \A n \in 1 .. N : Merged(s)[n] = Merge(Merged(s)[n - 1], s[n])
    <2>. HIDE DEF N
    <2>1. 0 \in 0 .. N /\ \A n \in 1 .. N : n \in 0 .. N /\ n # 0
      BY <1>1
    <2>. QED
      BY <1>5, <2>1
  <1>7. ASSUME NEW n \in 0 .. N PROVE Merged(s)[n] \in X
    <2>. DEFINE Bad == {k \in 0 .. N : Merged(s)[k] \notin X}
    <2>1. ASSUME Bad # {} PROVE FALSE
      <3>1. PICK k \in Bad : \A j \in Bad : k <= j
        <4>. HIDE DEF Bad
        <4>1. Bad \in SUBSET Nat
          BY DEF Bad
        <4>. QED
          BY <2>1, <4>1, MinIsLeast
      <3>2. k # 0
        BY <3>1, <1>6, <1>1
      <3>3. k \in 1 .. N /\ k - 1 \in 0 .. N /\ ~(k <= k - 1)
        BY <3>1, <3>2
      <3>4. Merged(s)[k - 1] \in X
        BY <3>1, <3>3
      <3>5. Merge(Merged(s)[k - 1], s[k]) \in X
        <4>1. s[k] \in Space /\ Merged(s)[k - 1] \in Seq(Space)
          BY <3>3, <3>4
        <4>. QED
          BY <4>1, MergeType
      <3>6. Merged(s)[k] \in X
        BY <3>3, <3>5, <1>6
      <3>. QED
        BY <3>1, <3>6
    <2>. QED
      BY <2>1
  <1>. QED
    BY <1>6, <1>7

\* One space more is counted.
LEMMA SummedStep ==
  ASSUME NEW s \in Seq(Space)
  PROVE  /\ Summed(s)[0] = 0
         /\ \A n \in 1 .. Len(s) : Summed(s)[n] = Summed(s)[n - 1] + s[n].len
  <1>. DEFINE N == Len(s)
              X == Int
              step == [p \in (1 .. N) \X X |-> p[2] + s[p[1]].len]
              Solved(g) == g = [n \in 0 .. N |-> IF n = 0 THEN 0 ELSE g[n - 1] + s[n].len]
  <1>1. N \in Nat /\ 0 \in X /\ step \in [(1 .. N) \X X -> X]
    <2>1. ASSUME NEW p \in (1 .. N) \X X PROVE p[2] + s[p[1]].len \in X
      <3>1. p[2] \in Int /\ s[p[1]] \in Space
        OBVIOUS
      <3>. QED
        BY <3>1, SpaceFields
    <2>. QED
      BY <2>1
  <1>2. PICK g \in [0 .. N -> X] : g[0] = 0 /\ \A n \in 1 .. N : g[n] = step[<<n, g[n - 1]>>]
    <2>. HIDE DEF X, N, step
    <2>1. \E g \in [0 .. N -> X] : Recursion(g, N, 0, step)
      BY <1>1, RecursionSolved
    <2>. QED
      BY <2>1 DEF Recursion
  <1>3. ASSUME NEW n \in 1 .. N PROVE n - 1 \in 0 .. N /\ g[n] = g[n - 1] + s[n].len
    <2>1. n - 1 \in 0 .. N
      BY <1>1
    <2>2. g[n - 1] \in X
      BY <2>1, <1>2
    <2>3. step[<<n, g[n - 1]>>] = g[n - 1] + s[n].len
      BY <2>2
    <2>. QED
      BY <1>2, <2>1, <2>3
  <1>4. Solved(g)
    BY <1>1, <1>2, <1>3
  <1>5. Solved(Summed(s))
    BY <1>4 DEF Summed
  <1>. HIDE DEF N
  <1>6. 0 \in 0 .. N /\ \A n \in 1 .. N : n \in 0 .. N /\ n # 0
    BY <1>1
  <1>. QED
    BY <1>5, <1>6 DEF N

-----------------------------------------------------------------------------
(* Spaces and their units                                                    *)

\* An interval of units has n of them.
LEMMA UnitsMember ==
  ASSUME NEW p \in Int, NEW n \in Int
  PROVE  /\ \A u : u \in Units(p, n) <=> u \in Int /\ p <= u /\ u < p + n
         /\ IsFiniteSet(Units(p, n))
         /\ n >= 0 => Cardinality(Units(p, n)) = n
  <1>1. Units(p, n) = p .. p + n - 1 /\ p + n - 1 \in Int
    BY DEF Units
  <1>2. \A u : u \in Units(p, n) <=> u \in Int /\ p <= u /\ u < p + n
    BY <1>1
  <1>3. IsFiniteSet(p .. p + n - 1)
        /\ Cardinality(p .. p + n - 1) = IF p > p + n - 1 THEN 0 ELSE (p + n - 1) - p + 1
    BY <1>1, FS_Interval
  <1>4. n >= 0 => Cardinality(Units(p, n)) = n
    BY <1>1, <1>3
  <1>. QED
    BY <1>1, <1>2, <1>3, <1>4

\* A unit is covered by a space that it lies in,
LEMMA CoverMember ==
  ASSUME NEW R \in SUBSET Space
  PROVE  \A u : u \in Cover(R) <=> u \in Nat /\ \E s \in R : s.pos <= u /\ u < End(s)
  <1>1. ASSUME NEW s \in R
        PROVE  \A u : u \in Units(s.pos, s.len) <=> u \in Nat /\ s.pos <= u /\ u < End(s)
    <2>1. s \in Space /\ s.pos \in Nat /\ s.len \in Nat
      BY SpaceFields
    <2>2. \A u : u \in Units(s.pos, s.len) <=> u \in Int /\ s.pos <= u /\ u < s.pos + s.len
      BY <2>1, UnitsMember
    <2>. QED
      BY <2>1, <2>2 DEF End
  <1>. QED
    BY <1>1 DEF Cover

\* and held by one that is pending for long enough.
LEMMA HeldMember ==
  ASSUME NEW R \in SUBSET Space, NEW m \in Int
  PROVE  \A u : u \in Held(R, m) <=>
                  u \in Nat /\ \E s \in R : s.pending >= m /\ s.pos <= u /\ u < End(s)
  <1>1. {s \in R : s.pending >= m} \in SUBSET Space
    OBVIOUS
  <1>. QED
    BY <1>1, CoverMember DEF Held

\* The spaces of a chain are its elements.
LEMMA SpacesOf ==
  ASSUME NEW s \in Seq(Space)
  PROVE  /\ Spaces(s) \in SUBSET Space /\ DOMAIN s = 1 .. Len(s) /\ Len(s) \in Nat
         /\ \A i \in 1 .. Len(s) : s[i] \in Space /\ s[i] \in Spaces(s)
         /\ \A e \in Spaces(s) : \E i \in 1 .. Len(s) : e = s[i]
  BY DEF Spaces

\* In an ordered chain the spaces are apart, and each is there once.
LEMMA OrderedApart ==
  ASSUME NEW s \in Seq(Space), InOrder(s)
  PROVE  /\ \A i, j \in 1 .. Len(s) : i < j => End(s[i]) <= s[j].pos
         /\ \A i, j \in 1 .. Len(s) : s[i] = s[j] => i = j
         /\ \A a, b \in Spaces(s) : a # b => End(a) <= b.pos \/ End(b) <= a.pos
  <1>1. \A i, j \in 1 .. Len(s) : i < j => End(s[i]) <= s[j].pos
    BY SpacesOf DEF InOrder
  <1>2. ASSUME NEW i \in 1 .. Len(s), NEW j \in 1 .. Len(s), i # j
        PROVE  End(s[i]) <= s[j].pos \/ End(s[j]) <= s[i].pos
    <2>1. i < j \/ j < i
      BY <1>2
    <2>. QED
      BY <1>1, <2>1
  <1>3. ASSUME NEW i \in 1 .. Len(s), NEW j \in 1 .. Len(s), s[i] = s[j], i # j
        PROVE  FALSE
    <2>1. s[i].pos \in Nat /\ s[i].len \in Nat /\ s[i].len # 0
      BY SpacesOf, SpaceFields
    <2>2. ~(s[i].pos + s[i].len <= s[i].pos)
      BY <2>1
    <2>. QED
      BY <1>2, <1>3, <2>2 DEF End
  <1>4. ASSUME NEW a \in Spaces(s), NEW b \in Spaces(s), a # b
        PROVE  End(a) <= b.pos \/ End(b) <= a.pos
    <2>1. PICK i \in 1 .. Len(s) : a = s[i]
      BY SpacesOf
    <2>2. PICK j \in 1 .. Len(s) : b = s[j]
      BY SpacesOf
    <2>. QED
      BY <1>2, <1>4, <2>1, <2>2
  <1>. QED
    BY <1>1, <1>3, <1>4

\* A space may be replaced where its new place is between its neighbours,
LEMMA ReplaceSpace ==
  ASSUME NEW s \in Seq(Space), InOrder(s), NEW i \in 1 .. Len(s), NEW e \in Space,
         \A j \in 1 .. Len(s) : j < i => End(s[j]) <= e.pos,
         \A j \in 1 .. Len(s) : j > i => End(e) <= s[j].pos
  PROVE  LET r == [s EXCEPT ![i] = e]
         IN  /\ r \in Seq(Space) /\ Len(r) = Len(s) /\ InOrder(r)
             /\ Spaces(r) = (Spaces(s) \ {s[i]}) \cup {e}
  <1>. DEFINE r == [s EXCEPT ![i] = e]
  <1>1. r \in Seq(Space) /\ Len(r) = Len(s) /\ DOMAIN r = 1 .. Len(s)
    OBVIOUS
  <1>2. \A j \in 1 .. Len(s) : r[j] = IF j = i THEN e ELSE s[j]
    OBVIOUS
  <1>3. \A j, k \in 1 .. Len(s) : j < k => End(s[j]) <= s[k].pos
    BY OrderedApart
  <1>4. \A j, k \in 1 .. Len(s) : s[j] = s[k] => j = k
    BY OrderedApart
  <1>. HIDE DEF r
  <1>5. InOrder(r)
    BY <1>1, <1>2, <1>3 DEF InOrder
  <1>6. Spaces(r) = (Spaces(s) \ {s[i]}) \cup {e}
    <2>1. \A x : x \in Spaces(r) <=> \E j \in 1 .. Len(s) : x = r[j]
      BY <1>1 DEF Spaces
    <2>2. \A x : x \in Spaces(s) <=> \E j \in 1 .. Len(s) : x = s[j]
      BY SpacesOf DEF Spaces
    <2>3. ASSUME NEW x \in Spaces(r) PROVE x \in (Spaces(s) \ {s[i]}) \cup {e}
      BY <1>2, <1>4, <2>1, <2>2
    <2>4. ASSUME NEW x \in (Spaces(s) \ {s[i]}) \cup {e} PROVE x \in Spaces(r)
      BY <1>2, <2>1, <2>2
    <2>. QED
      BY <2>3, <2>4
  <1>. QED
    BY <1>1, <1>5, <1>6 DEF r

\* inserted between the spaces before and behind it,
LEMMA InsertSpace ==
  ASSUME NEW s \in Seq(Space), InOrder(s), NEW p \in 0 .. Len(s), NEW e \in Space,
         \A j \in 1 .. Len(s) : j <= p => End(s[j]) <= e.pos,
         \A j \in 1 .. Len(s) : j > p => End(e) <= s[j].pos
  PROVE  LET r == InsertAt(s, p + 1, e)
         IN  /\ r \in Seq(Space) /\ Len(r) = Len(s) + 1 /\ InOrder(r)
             /\ Spaces(r) = Spaces(s) \cup {e}
  <1>. DEFINE a == SubSeq(s, 1, p)
              b == SubSeq(s, p + 1, Len(s))
              r == InsertAt(s, p + 1, e)
  <1>1. Len(s) \in Nat /\ p \in Nat /\ p <= Len(s) /\ (p + 1) - 1 = p
    OBVIOUS
  <1>2. a \in Seq(Space) /\ Len(a) = p /\ \A j \in 1 .. p : a[j] = s[j]
    BY <1>1
  <1>3. b \in Seq(Space) /\ Len(b) = Len(s) - p /\ \A j \in 1 .. Len(s) - p : b[j] = s[p + j]
    BY <1>1
  <1>4. r = a \o <<e>> \o b
    BY <1>1 DEF InsertAt
  <1>. HIDE DEF a, b, r
  <1>5. r \in Seq(Space) /\ Len(r) = Len(s) + 1
    BY <1>1, <1>2, <1>3, <1>4
  <1>6. /\ \A j \in 1 .. Len(s) + 1 : j <= p => r[j] = s[j]
        /\ r[p + 1] = e
        /\ \A j \in 1 .. Len(s) + 1 : j > p + 1 => r[j] = s[j - 1]
    <2>. DEFINE c == a \o <<e>>
    <2>1. c \in Seq(Space) /\ Len(c) = p + 1 /\ c[p + 1] = e /\ \A j \in 1 .. p : c[j] = a[j]
      <3>1. <<e>> \in Seq(Space) /\ Len(<<e>>) = 1 /\ <<e>>[1] = e
        OBVIOUS
      <3>2. c \in Seq(Space) /\ Len(c) = p + 1
        BY <1>1, <1>2, <3>1
      <3>3. p + 1 \in 1 .. p + 1 /\ ~(p + 1 <= p) /\ (p + 1) - p = 1
        BY <1>1
      <3>4. c[p + 1] = e
        BY <1>2, <3>1, <3>3
      <3>5. \A j \in 1 .. p : c[j] = a[j]
        BY <1>1, <1>2, <3>1
      <3>. QED
        BY <3>2, <3>4, <3>5
    <2>2. r = c \o b
      BY <1>4
    <2>. HIDE DEF c
    <2>3. \A j \in 1 .. p + 1 : r[j] = c[j]
      BY <1>1, <1>3, <2>1, <2>2
    <2>4. ASSUME NEW j \in 1 .. Len(s) + 1, j > p + 1 PROVE r[j] = s[j - 1]
      <3>1. j - (p + 1) \in 1 .. Len(s) - p /\ p + (j - (p + 1)) = j - 1
        BY <1>1, <2>4
      <3>2. r[j] = b[j - (p + 1)]
        BY <1>1, <1>3, <2>1, <2>2, <2>4
      <3>. QED
        BY <1>3, <3>1, <3>2
    <2>. QED
      BY <1>1, <1>2, <2>1, <2>3, <2>4
  <1>7. \A j, k \in 1 .. Len(s) : j < k => End(s[j]) <= s[k].pos
    BY OrderedApart
  <1>8. InOrder(r)
    <2>1. ASSUME NEW j \in 1 .. Len(s) + 1, NEW k \in 1 .. Len(s) + 1, j < k
          PROVE  End(r[j]) <= r[k].pos
      <3>1. CASE k <= p
        BY <1>1, <1>6, <1>7, <2>1, <3>1
      <3>2. CASE k = p + 1
        <4>1. j \in 1 .. Len(s) /\ j <= p /\ r[j] = s[j] /\ r[k] = e
          BY <1>1, <1>6, <2>1, <3>2
        <4>. QED
          BY <4>1
      <3>3. CASE k > p + 1
        <4>1. k - 1 \in 1 .. Len(s) /\ k - 1 > p /\ r[k] = s[k - 1]
          BY <1>1, <1>6, <2>1, <3>3
        <4>2. CASE j <= p
          <5>1. j \in 1 .. Len(s) /\ j < k - 1 /\ r[j] = s[j]
            BY <1>1, <1>6, <2>1, <3>3, <4>2
          <5>. QED
            BY <1>7, <4>1, <5>1
        <4>3. CASE j = p + 1
          BY <1>6, <4>1, <4>3
        <4>4. CASE j > p + 1
          <5>1. j - 1 \in 1 .. Len(s) /\ j - 1 < k - 1 /\ r[j] = s[j - 1]
            BY <1>1, <1>6, <2>1, <4>4
          <5>. QED
            BY <1>7, <4>1, <5>1
        <4>. QED
          BY <1>1, <4>2, <4>3, <4>4
      <3>. QED
        BY <1>1, <3>1, <3>2, <3>3
    <2>. QED
      BY <1>5, <2>1 DEF InOrder
  <1>9. Spaces(r) = Spaces(s) \cup {e}
    <2>1. \A x : x \in Spaces(r) <=> \E j \in 1 .. Len(s) + 1 : x = r[j]
      BY <1>5 DEF Spaces
    <2>2. \A x : x \in Spaces(s) <=> \E j \in 1 .. Len(s) : x = s[j]
      BY SpacesOf DEF Spaces
    <2>3. ASSUME NEW x \in Spaces(r) PROVE x \in Spaces(s) \cup {e}
      <3>1. PICK j \in 1 .. Len(s) + 1 : x = r[j]
        BY <2>1
      <3>2. CASE j <= p
        BY <1>1, <1>6, <2>2, <3>1, <3>2
      <3>3. CASE j > p + 1
        <4>1. j - 1 \in 1 .. Len(s)
          BY <1>1, <3>3
        <4>. QED
          BY <1>6, <2>2, <3>1, <3>3, <4>1
      <3>. QED
        BY <1>1, <1>6, <3>1, <3>2, <3>3
    <2>4. ASSUME NEW x \in Spaces(s) PROVE x \in Spaces(r)
      <3>1. PICK j \in 1 .. Len(s) : x = s[j]
        BY <2>2
      <3>2. CASE j <= p
        <4>1. j \in 1 .. Len(s) + 1
          BY <1>1
        <4>. QED
          BY <1>6, <2>1, <3>1, <3>2, <4>1
      <3>3. CASE j > p
        <4>1. j + 1 \in 1 .. Len(s) + 1 /\ j + 1 > p + 1 /\ (j + 1) - 1 = j
          BY <1>1, <3>3
        <4>2. r[j + 1] = s[j]
          BY <1>6, <4>1
        <4>. QED
          BY <2>1, <3>1, <4>1, <4>2
      <3>. QED
        BY <1>1, <3>2, <3>3
    <2>5. e \in Spaces(r)
      <3>1. p + 1 \in 1 .. Len(s) + 1
        BY <1>1
      <3>. QED
        BY <1>6, <2>1, <3>1
    <2>. QED
      BY <2>3, <2>4, <2>5
  <1>. QED
    BY <1>5, <1>8, <1>9 DEF r

\* or removed.
LEMMA RemoveSpace ==
  ASSUME NEW s \in Seq(Space), InOrder(s), NEW i \in 1 .. Len(s)
  PROVE  LET r == RemoveAt(s, i)
         IN  /\ r \in Seq(Space) /\ Len(r) = Len(s) - 1 /\ InOrder(r)
             /\ Spaces(r) = Spaces(s) \ {s[i]}
  <1>. DEFINE a == SubSeq(s, 1, i - 1)
              b == SubSeq(s, i + 1, Len(s))
              r == RemoveAt(s, i)
  <1>1. Len(s) \in Nat /\ i \in Nat /\ 1 <= i /\ i <= Len(s) /\ Len(s) - 1 \in Nat
    OBVIOUS
  <1>2. a \in Seq(Space) /\ Len(a) = i - 1 /\ \A j \in 1 .. i - 1 : a[j] = s[j]
    BY <1>1
  <1>3. b \in Seq(Space) /\ Len(b) = Len(s) - i /\ \A j \in 1 .. Len(s) - i : b[j] = s[i + j]
    BY <1>1
  <1>4. r = a \o b
    BY DEF RemoveAt
  <1>. HIDE DEF a, b, r
  <1>5. r \in Seq(Space) /\ Len(r) = Len(s) - 1
    <2>1. r \in Seq(Space)
      BY <1>2, <1>3, <1>4
    <2>2. Len(r) = Len(a) + Len(b)
      BY <1>2, <1>3, <1>4, ConcatProperties
    <2>. QED
      BY <1>1, <1>2, <1>3, <2>1, <2>2
  <1>6. /\ \A j \in 1 .. Len(s) - 1 : j < i => r[j] = s[j]
        /\ \A j \in 1 .. Len(s) - 1 : j >= i => r[j] = s[j + 1]
    <2>1. ASSUME NEW j \in 1 .. Len(s) - 1, j < i PROVE r[j] = s[j]
      <3>1. j \in 1 .. i - 1
        BY <1>1, <2>1
      <3>. QED
        BY <1>1, <1>2, <1>3, <1>4, <3>1
    <2>2. ASSUME NEW j \in 1 .. Len(s) - 1, j >= i PROVE r[j] = s[j + 1]
      <3>1. j - (i - 1) \in 1 .. Len(s) - i /\ i + (j - (i - 1)) = j + 1
        BY <1>1, <2>2
      <3>2. r[j] = b[j - (i - 1)]
        BY <1>1, <1>2, <1>3, <1>4, <2>2
      <3>. QED
        BY <1>3, <3>1, <3>2
    <2>. QED
      BY <2>1, <2>2
  <1>7. \A j, k \in 1 .. Len(s) : j < k => End(s[j]) <= s[k].pos
    BY OrderedApart
  <1>8. InOrder(r)
    <2>1. ASSUME NEW j \in 1 .. Len(s) - 1, NEW k \in 1 .. Len(s) - 1, j < k
          PROVE  End(r[j]) <= r[k].pos
      <3>1. j \in 1 .. Len(s) /\ k \in 1 .. Len(s) /\ j + 1 \in 1 .. Len(s) /\ k + 1 \in 1 .. Len(s)
            /\ j < k + 1 /\ j + 1 < k + 1
        BY <1>1, <2>1
      <3>2. CASE k < i
        BY <1>6, <1>7, <2>1, <3>1, <3>2
      <3>3. CASE k >= i /\ j < i
        BY <1>6, <1>7, <3>1, <3>3
      <3>4. CASE k >= i /\ j >= i
        BY <1>6, <1>7, <3>1, <3>4
      <3>. QED
        BY <1>1, <3>2, <3>3, <3>4
    <2>. QED
      BY <1>5, <2>1 DEF InOrder
  <1>9. Spaces(r) = Spaces(s) \ {s[i]}
    <2>1. \A x : x \in Spaces(r) <=> \E j \in 1 .. Len(s) - 1 : x = r[j]
      BY <1>5 DEF Spaces
    <2>2. \A x : x \in Spaces(s) <=> \E j \in 1 .. Len(s) : x = s[j]
      BY SpacesOf DEF Spaces
    <2>3. \A j, k \in 1 .. Len(s) : s[j] = s[k] => j = k
      BY OrderedApart
    <2>4. ASSUME NEW x \in Spaces(r) PROVE x \in Spaces(s) \ {s[i]}
      <3>1. PICK j \in 1 .. Len(s) - 1 : x = r[j]
        BY <2>1
      <3>2. PICK k \in 1 .. Len(s) : k # i /\ x = s[k]
        <4>1. j \in 1 .. Len(s) /\ j + 1 \in 1 .. Len(s)
          BY <1>1
        <4>2. CASE j < i
          BY <1>1, <1>6, <3>1, <4>1, <4>2
        <4>3. CASE j >= i
          BY <1>1, <1>6, <3>1, <4>1, <4>3
        <4>. QED
          BY <1>1, <4>2, <4>3
      <3>. QED
        BY <2>2, <2>3, <3>2
    <2>5. ASSUME NEW x \in Spaces(s), x # s[i] PROVE x \in Spaces(r)
      <3>1. PICK j \in 1 .. Len(s) : x = s[j]
        BY <2>2
      <3>2. CASE j < i
        <4>1. j \in 1 .. Len(s) - 1
          BY <1>1, <3>2
        <4>. QED
          BY <1>6, <2>1, <3>1, <3>2, <4>1
      <3>3. CASE j > i
        <4>1. j - 1 \in 1 .. Len(s) - 1 /\ j - 1 >= i /\ (j - 1) + 1 = j
          BY <1>1, <3>3
        <4>2. r[j - 1] = s[j]
          BY <1>6, <4>1
        <4>. QED
          BY <2>1, <3>1, <4>1, <4>2
      <3>. QED
        BY <1>1, <2>5, <3>1, <3>2, <3>3
    <2>. QED
      BY <2>4, <2>5
  <1>. QED
    BY <1>5, <1>8, <1>9 DEF r

\* The greatest length of a space that is not pending
Usable(R) == {e \in R : e.pending = 0}
IsLargest(R, n) ==
  /\ n = 0 \/ \E e \in Usable(R) : e.len = n
  /\ \A e \in Usable(R) : e.len <= n

\* The largest usable space is found, and no other length is it.
LEMMA LargestFound ==
  ASSUME NEW s \in Seq(Space), NEW N \in Nat, \A e \in Spaces(s) : e.len <= N
  PROVE  /\ Largest(s) \in Nat /\ IsLargest(Spaces(s), Largest(s))
         /\ \A n \in Nat : IsLargest(Spaces(s), n) => n = Largest(s)
  <1>. DEFINE L == {0} \cup {s[i].len : i \in {k \in DOMAIN s : s[k].pending = 0}}
  <1>1. L = {0} \cup {e.len : e \in Usable(Spaces(s))}
    BY DEF Usable, Spaces
  <1>2. L \in SUBSET (0 .. N) /\ 0 \in L
    <2>1. \A e \in Usable(Spaces(s)) : e.len \in 0 .. N
      BY SpacesOf, SpaceFields DEF Usable
    <2>. QED
      BY <1>1, <2>1
  <1>3. Largest(s) = Max(L)
    BY DEF Largest
  <1>. HIDE DEF L
  <1>4. Max(L) \in L /\ \A j \in L : j <= Max(L)
    BY <1>2, MaxIsGreatest
  <1>5. Largest(s) \in Nat /\ IsLargest(Spaces(s), Largest(s))
    <2>1. Largest(s) \in Nat
      <3>1. Largest(s) \in 0 .. N
        BY <1>2, <1>3, <1>4
      <3>. QED
        BY <3>1
    <2>2. \A e \in Usable(Spaces(s)) : e.len \in L
      BY <1>1
    <2>3. Largest(s) = 0 \/ \E e \in Usable(Spaces(s)) : e.len = Largest(s)
      BY <1>1, <1>3, <1>4
    <2>. QED
      BY <1>3, <1>4, <2>1, <2>2, <2>3 DEF IsLargest
  <1>6. ASSUME NEW n \in Nat, IsLargest(Spaces(s), n) PROVE n = Largest(s)
    <2>1. n \in L
      BY <1>1, <1>6 DEF IsLargest
    <2>2. n <= Largest(s)
      BY <1>3, <1>4, <2>1
    <2>3. 0 <= n /\ \A e \in Usable(Spaces(s)) : e.len <= n
      BY <1>6 DEF IsLargest
    <2>4. Largest(s) <= n
      BY <1>5, <2>3 DEF IsLargest
    <2>. QED
      BY <1>5, <2>2, <2>4
  <1>. QED
    BY <1>5, <1>6

-----------------------------------------------------------------------------
(* Getting, releasing and flushing space keep the account of it              *)

SameTables(f, h) == h.l1 = f.l1 /\ h.l2 = f.l2 /\ h.bounds = f.bounds /\ h.l2ok = f.l2ok

\* What follows for a file whose account is kept
LEMMA KeptFacts ==
  ASSUME NEW f, NEW U, NEW K \in Int, Kept(f, U, K)
  PROVE  /\ f \in FileRec /\ f.free \in Seq(Space) /\ InOrder(f.free) /\ f.size \in 0 .. MaxSize
         /\ f.size \in Nat /\ MaxSize \in Nat /\ U \in SUBSET Nat
         /\ Spaces(f.free) \in SUBSET Space
         /\ \A e \in Spaces(f.free) : End(e) <= f.size /\ e.len <= f.size
         /\ IsFiniteSet(Cover(Spaces(f.free))) /\ Cardinality(Cover(Spaces(f.free))) \in Nat
         /\ f.largest \in Nat /\ IsLargest(Spaces(f.free), f.largest)
         /\ \A n \in Nat : IsLargest(Spaces(f.free), n) => n = f.largest
  <1>1. f \in FileRec /\ f.free \in Seq(Space) /\ InOrder(f.free) /\ f.size \in 0 .. MaxSize
        /\ f.largest = Largest(f.free) /\ Cover(Spaces(f.free)) \cup U = 0 .. f.size - 1
    BY DEF Kept, FileRec
  <1>2. f.size \in Nat /\ MaxSize \in Nat
    BY <1>1, ConstantsAssumption
  <1>3. Spaces(f.free) \in SUBSET Space
    BY <1>1, SpacesOf
  <1>4. ASSUME NEW e \in Spaces(f.free) PROVE End(e) <= f.size /\ e.len <= f.size
    <2>1. e.pos \in Nat /\ e.len \in Nat /\ e.len # 0 /\ End(e) = e.pos + e.len
      BY <1>3, SpaceFields DEF End
    <2>2. End(e) - 1 \in Nat /\ e.pos <= End(e) - 1 /\ End(e) - 1 < End(e)
      BY <2>1
    <2>3. End(e) - 1 \in Cover(Spaces(f.free))
      BY <1>3, <2>2, CoverMember
    <2>4. End(e) - 1 \in 0 .. f.size - 1
      BY <1>1, <2>3
    <2>. QED
      BY <1>2, <2>1, <2>4
  <1>5. IsFiniteSet(Cover(Spaces(f.free))) /\ Cardinality(Cover(Spaces(f.free))) \in Nat
    <2>1. IsFiniteSet(0 .. f.size - 1)
      BY <1>2, FS_Interval
    <2>2. Cover(Spaces(f.free)) \in SUBSET (0 .. f.size - 1)
      BY <1>1
    <2>3. IsFiniteSet(Cover(Spaces(f.free)))
      BY <2>1, <2>2, FS_Subset
    <2>. QED
      BY <2>3, FS_CardinalityType
  <1>6. /\ f.largest \in Nat /\ IsLargest(Spaces(f.free), f.largest)
        /\ \A n \in Nat : IsLargest(Spaces(f.free), n) => n = f.largest
    <2>1. /\ Largest(f.free) \in Nat /\ IsLargest(Spaces(f.free), Largest(f.free))
          /\ \A n \in Nat : IsLargest(Spaces(f.free), n) => n = Largest(f.free)
      BY <1>1, <1>2, <1>4, LargestFound
    <2>. QED
      BY <1>1, <2>1
  <1>7. U \in SUBSET Nat
    <2>1. U \subseteq 0 .. f.size - 1
      BY <1>1
    <2>. QED
      BY <2>1
  <1>. QED
    BY <1>1, <1>2, <1>3, <1>4, <1>5, <1>6, <1>7

\* The chain after the first n units of the space i were taken
Taken(free, i, n) ==
  IF n < free[i].len THEN [free EXCEPT ![i] = Rest(free[i], n)] ELSE RemoveAt(free, i)

\* The first n units of a space are taken: the rest stays, or the space goes.
LEMMA TakeUnits ==
  ASSUME NEW s \in Seq(Space), InOrder(s), NEW i \in 1 .. Len(s), s[i].pending = 0,
         NEW n \in Nat, n # 0, n <= s[i].len
  PROVE  LET r == Taken(s, i, n)
             new == Units(s[i].pos, n)
         IN  /\ r \in Seq(Space) /\ InOrder(r)
             /\ new \subseteq Cover(Spaces(s)) /\ Cover(Spaces(r)) = Cover(Spaces(s)) \ new
             /\ new \cap Held(Spaces(s), 1) = {}
             /\ \A m \in Nat : m # 0 => Held(Spaces(r), m) = Held(Spaces(s), m)
             /\ \A e \in Usable(Spaces(r)) : e \in Usable(Spaces(s)) \/ e.len <= s[i].len
             /\ \A e \in Usable(Spaces(s)) : e = s[i] \/ e \in Usable(Spaces(r))
  <1>. DEFINE a == s[i]
              new == Units(a.pos, n)
              r == Taken(s, i, n)
  <1>1. /\ a \in Space /\ a \in Spaces(s) /\ a.pos \in Nat /\ a.len \in Nat /\ a.len # 0
        /\ a.pending = 0 /\ n <= a.len
    BY SpacesOf, SpaceFields
  <1>2. Spaces(s) \in SUBSET Space
    BY SpacesOf
  <1>3. \A u : u \in new <=> u \in Nat /\ a.pos <= u /\ u < a.pos + n
    <2>1. \A u : u \in new <=> u \in Int /\ a.pos <= u /\ u < a.pos + n
      BY <1>1, UnitsMember
    <2>. QED
      BY <1>1, <2>1
  <1>4. \A b, c \in Spaces(s) : b # c => End(b) <= c.pos \/ End(c) <= b.pos
    BY OrderedApart
  <1>5. PICK E \in SUBSET Space :
          /\ r \in Seq(Space) /\ InOrder(r) /\ Spaces(r) = (Spaces(s) \ {a}) \cup E
          /\ \A e \in E : e.pending = 0 /\ e.pos = a.pos + n /\ e.len = a.len - n
          /\ n < a.len => E # {}
    <2>1. CASE n < a.len
      <3>1. PICK e : e = [pos |-> a.pos + n, len |-> a.len - n, pending |-> 0]
        OBVIOUS
      <3>2. e = Rest(a, n)
        <4>. HIDE DEF a
        <4>1. Rest(a, n) = [pos |-> a.pos + n, len |-> a.len - n, pending |-> a.pending]
          <5>1. PICK h : h = [a EXCEPT !.pos = @ + n, !.len = @ - n]
            OBVIOUS
          <5>2. h = [pos |-> a.pos + n, len |-> a.len - n, pending |-> a.pending]
            BY <1>1, <5>1 DEF Space
          <5>. QED
            BY <5>1, <5>2 DEF Rest
        <4>. QED
          BY <1>1, <3>1, <4>1
      <3>3. e \in Space /\ e.pos = a.pos + n /\ e.len = a.len - n /\ e.pending = 0
        <4>1. a.pos + n \in Nat /\ a.len - n \in Nat \ {0} /\ 0 \in 0 .. MaxFreePend
          BY <1>1, <2>1, ConstantsAssumption
        <4>. QED
          BY <3>1, <4>1 DEF Space
      <3>4. r = [s EXCEPT ![i] = e]
        BY <2>1, <3>2 DEF Taken
      <3>5. End(e) = End(a)
        BY <1>1, <3>3 DEF End
      <3>6. \A j \in 1 .. Len(s) : j < i => End(s[j]) <= e.pos
        <4>1. \A j \in 1 .. Len(s) : j < i => End(s[j]) <= a.pos /\ End(s[j]) \in Nat
          <5>1. ASSUME NEW j \in 1 .. Len(s), j < i PROVE End(s[j]) <= a.pos /\ End(s[j]) \in Nat
            <6>1. s[j] \in Space
              BY SpacesOf
            <6>2. End(s[j]) \in Nat
              BY <6>1, SpaceFields DEF End
            <6>3. End(s[j]) <= s[i].pos
              BY <5>1, OrderedApart
            <6>. QED
              BY <6>2, <6>3
          <5>. QED
            BY <5>1
        <4>. QED
          BY <1>1, <3>3, <4>1
      <3>7. \A j \in 1 .. Len(s) : j > i => End(e) <= s[j].pos
        BY <3>5, OrderedApart
      <3>. HIDE DEF r, a
      <3>8. r \in Seq(Space) /\ InOrder(r) /\ Spaces(r) = (Spaces(s) \ {a}) \cup {e}
        BY <3>3, <3>4, <3>6, <3>7, ReplaceSpace DEF a
      <3>. QED
        BY <3>3, <3>8
    <2>2. CASE ~(n < a.len)
      <3>1. r = RemoveAt(s, i)
        BY <2>2 DEF Taken
      <3>. HIDE DEF r, a
      <3>2. r \in Seq(Space) /\ InOrder(r) /\ Spaces(r) = Spaces(s) \ {a}
        BY <3>1, RemoveSpace DEF a
      <3>. QED
        BY <2>2, <3>2
    <2>. QED
      BY <2>1, <2>2
  <1>. HIDE DEF new, r, a
  <1>6. \A u : u \in Cover(Spaces(s)) <=> u \in Nat /\ \E e \in Spaces(s) : e.pos <= u /\ u < End(e)
    BY <1>2, CoverMember
  <1>7. Spaces(r) \in SUBSET Space
    BY <1>2, <1>5
  <1>8. \A u : u \in Cover(Spaces(r)) <=> u \in Nat /\ \E e \in Spaces(r) : e.pos <= u /\ u < End(e)
    BY <1>7, CoverMember
  <1>9. End(a) = a.pos + a.len /\ \A e \in E : End(e) = End(a) /\ e.pos = a.pos + n
    <2>1. End(a) = a.pos + a.len
      BY DEF End
    <2>2. ASSUME NEW e \in E PROVE End(e) = End(a) /\ e.pos = a.pos + n
      <3>1. e.pos = a.pos + n /\ e.len = a.len - n
        BY <1>5
      <3>. QED
        BY <1>1, <2>1, <3>1 DEF End
    <2>. QED
      BY <2>1, <2>2
  <1>10. new \subseteq Cover(Spaces(s))
    BY <1>1, <1>3, <1>6, <1>9
  <1>11. Cover(Spaces(r)) = Cover(Spaces(s)) \ new
    <2>1. ASSUME NEW u \in Cover(Spaces(r)) PROVE u \in Cover(Spaces(s)) \ new
      <3>1. u \in Nat
        BY <1>8
      <3>2. PICK e \in Spaces(r) : e.pos <= u /\ u < End(e)
        BY <1>8
      <3>3. e \in Space /\ e.pos \in Nat /\ e.len \in Nat /\ End(e) = e.pos + e.len
        BY <1>7, SpaceFields DEF End
      <3>4. CASE e \in E
        BY <1>1, <1>3, <1>6, <1>9, <3>1, <3>2, <3>4
      <3>5. CASE e \in Spaces(s) /\ e # a
        <4>1. End(e) <= a.pos \/ End(a) <= e.pos
          BY <1>1, <1>4, <3>5
        <4>. QED
          <5>1. u \in Cover(Spaces(s))
            BY <1>6, <3>1, <3>2, <3>5
          <5>2. End(a) = a.pos + a.len /\ a.pos \in Nat /\ a.len \in Nat /\ n <= a.len
            BY <1>1, <1>9
          <5>3. ~(a.pos <= u /\ u < a.pos + n)
            BY <3>1, <3>2, <3>3, <4>1, <5>2
          <5>. QED
            BY <1>3, <5>1, <5>3
      <3>. QED
        BY <1>5, <3>2, <3>4, <3>5
    <2>2. ASSUME NEW u \in Cover(Spaces(s)), u \notin new PROVE u \in Cover(Spaces(r))
      <3>1. u \in Nat
        BY <1>6
      <3>2. PICK e \in Spaces(s) : e.pos <= u /\ u < End(e)
        BY <1>6
      <3>3. CASE e = a
        <4>1. u >= a.pos + n /\ u < a.pos + a.len
          BY <1>1, <1>3, <1>9, <2>2, <3>1, <3>2, <3>3
        <4>2. n < a.len
          BY <1>1, <3>1, <4>1
        <4>3. PICK x \in E : TRUE
          BY <1>5, <4>2
        <4>. QED
          BY <1>1, <1>5, <1>8, <1>9, <3>1, <4>1, <4>3
      <3>4. CASE e # a
        BY <1>5, <1>8, <3>1, <3>2, <3>4
      <3>. QED
        BY <3>3, <3>4
    <2>. QED
      BY <2>1, <2>2
  <1>12. ASSUME NEW m \in Nat, m # 0 PROVE Held(Spaces(r), m) = Held(Spaces(s), m)
    <2>1. {e \in Spaces(r) : e.pending >= m} = {e \in Spaces(s) : e.pending >= m}
      <3>1. a.pending = 0 /\ \A e \in E : e.pending = 0
        BY <1>1, <1>5
      <3>2. ~(0 >= m)
        BY <1>12
      <3>. QED
        BY <1>5, <3>1, <3>2
    <2>. QED
      BY <2>1 DEF Held
  <1>13. new \cap Held(Spaces(s), 1) = {}
    <2>1. ASSUME NEW u \in new, u \in Held(Spaces(s), 1) PROVE FALSE
      <3>1. PICK e \in Spaces(s) : e.pending >= 1 /\ e.pos <= u /\ u < End(e)
        BY <1>2, <2>1, HeldMember
      <3>2. e # a
        BY <1>1, <3>1
      <3>3. End(e) <= a.pos \/ End(a) <= e.pos
        BY <1>1, <1>4, <3>2
      <3>4. e.pos \in Nat /\ e.len \in Nat /\ End(e) = e.pos + e.len
        BY <1>2, SpaceFields DEF End
      <3>. QED
        BY <1>1, <1>3, <1>9, <2>1, <3>1, <3>3, <3>4
    <2>. QED
      BY <2>1
  <1>14. \A e \in Usable(Spaces(r)) : e \in Usable(Spaces(s)) \/ e.len <= a.len
    BY <1>1, <1>5 DEF Usable
  <1>15. \A e \in Usable(Spaces(s)) : e = a \/ e \in Usable(Spaces(r))
    BY <1>5 DEF Usable
  <1>. QED
    BY <1>5, <1>10, <1>11, <1>12, <1>13, <1>14, <1>15 DEF new, r, a

\* What cckd_get_space found: pos with size units, len of which are asked for
Got(f, h, pos, size, len, U, K) ==
  /\ pos \in Nat /\ size \in Nat /\ len <= size
  /\ Units(pos, size) \cap U = {} /\ Units(pos, size) \cap Held(Spaces(f.free), 1) = {}
  /\ Kept(h, U \cup Units(pos, size), K + (size - len)) /\ SameTables(f, h)
  /\ \A m \in Nat : m # 0 => Held(Spaces(h.free), m) = Held(Spaces(f.free), m)

\* cckd_get_space at the end of the file
LEMMA GrowFile ==
  ASSUME NEW f, NEW U, NEW K \in Int, Kept(f, U, K), NEW len \in Nat, len # 0,
         f.size + len <= MaxSize
  PROVE  Got(f, [f EXCEPT !.size = @ + len, !.used = @ + len], f.size, len, len, U, K)
  <1>1. PICK h : h = [f EXCEPT !.size = @ + len, !.used = @ + len]
    OBVIOUS
  <1>2. /\ f \in FileRec /\ f.free \in Seq(Space) /\ InOrder(f.free) /\ f.size \in Nat
        /\ U \in SUBSET Nat /\ Spaces(f.free) \in SUBSET Space
        /\ \A e \in Spaces(f.free) : End(e) <= f.size
        /\ f.size + len \in Nat /\ f.size + len \in 0 .. MaxSize
    BY KeptFacts
  <1>3. f.used \in Int /\ f.used + len \in Int
    BY <1>2 DEF FileRec
  <1>4. /\ h \in FileRec /\ h.size = f.size + len /\ h.used = f.used + len /\ h.free = f.free
        /\ h.number = f.number /\ h.largest = f.largest /\ h.imbed = f.imbed /\ h.total = f.total
        /\ SameTables(f, h)
    <2>1. h = [size |-> f.size + len, used |-> f.used + len, total |-> f.total, imbed |-> f.imbed,
               largest |-> f.largest, number |-> f.number, free |-> f.free,
               l1 |-> f.l1, l2 |-> f.l2, bounds |-> f.bounds, l2ok |-> f.l2ok]
      BY <1>1, <1>2 DEF FileRec
    <2>2. h \in FileRec
      BY <1>2, <1>3, <2>1 DEF FileRec
    <2>. QED
      BY <2>1, <2>2 DEF SameTables
  <1>5. \A u : u \in Units(f.size, len) <=> u \in Int /\ f.size <= u /\ u < f.size + len
    BY <1>2, UnitsMember
  <1>6. Cover(Spaces(f.free)) \cap U = {} /\ Cover(Spaces(f.free)) \cup U = 0 .. f.size - 1
    BY DEF Kept
  <1>7. Units(f.size, len) \cap (0 .. f.size - 1) = {}
    BY <1>2, <1>5
  <1>8. (0 .. f.size - 1) \cup Units(f.size, len) = 0 .. (f.size + len) - 1
    <2>1. \A u : u \in 0 .. f.size - 1 <=> u \in Int /\ 0 <= u /\ u < f.size
      BY <1>2
    <2>2. \A u : u \in 0 .. (f.size + len) - 1 <=> u \in Int /\ 0 <= u /\ u < f.size + len
      BY <1>2
    <2>. QED
      BY <1>2, <1>5, <2>1, <2>2
  <1>9. Kept(h, U \cup Units(f.size, len), K)
    <2>1. Cover(Spaces(h.free)) \cap (U \cup Units(f.size, len)) = {}
      BY <1>4, <1>6, <1>7
    <2>2. Cover(Spaces(h.free)) \cup (U \cup Units(f.size, len)) = 0 .. h.size - 1
      BY <1>4, <1>6, <1>8
    <2>3. h.total = f.total /\ h.used = h.size - h.total
      <3>1. f.used = f.size - f.total /\ f.total \in Int /\ f.size \in Int
        BY <1>2 DEF Kept, FileRec
      <3>. QED
        BY <1>4, <3>1
    <2>4. /\ h.number = Len(h.free) /\ h.largest = Largest(h.free) /\ h.imbed = K
          /\ h.total = Cardinality(Cover(Spaces(h.free))) + K
      BY <1>4 DEF Kept
    <2>. QED
      BY <1>2, <1>4, <2>1, <2>2, <2>3, <2>4 DEF Kept
  <1>10. Units(f.size, len) \cap U = {}
    BY <1>6, <1>7
  <1>11. Held(Spaces(f.free), 1) \subseteq Cover(Spaces(f.free))
    BY DEF Held, Cover
  <1>12. K + (len - len) = K /\ len <= len
    OBVIOUS
  <1>. QED
    BY <1>1, <1>2, <1>4, <1>6, <1>7, <1>9, <1>10, <1>11, <1>12 DEF Got

\* The account after n units of a space were taken
LEMMA TakeKept ==
  ASSUME NEW f, NEW U, NEW K \in Int, Kept(f, U, K), NEW len \in Nat, len # 0,
         NEW i \in 1 .. Len(f.free), f.free[i].pending = 0,
         NEW n \in Nat, len <= n, n <= f.free[i].len
  PROVE  LET s == f.free[i]
             free == Taken(f.free, i, n)
         IN  Got(f, [f EXCEPT !.free = free, !.number = Len(free),
                        !.largest = IF s.len >= @ THEN Largest(free) ELSE @,
                        !.used = @ + len, !.total = @ - len, !.imbed = @ + n - len],
                 s.pos, n, len, U, K)
  <1>. DEFINE s == f.free[i]
              free == Taken(f.free, i, n)
              new == Units(s.pos, n)
              R == Spaces(f.free)
  <1>1. PICK h : h = [f EXCEPT !.free = free, !.number = Len(free),
                        !.largest = IF s.len >= @ THEN Largest(free) ELSE @,
                        !.used = @ + len, !.total = @ - len, !.imbed = @ + n - len]
    OBVIOUS
  <1>2. /\ f \in FileRec /\ f.free \in Seq(Space) /\ InOrder(f.free) /\ f.size \in Nat
        /\ f.size \in 0 .. MaxSize
        /\ U \in SUBSET Nat /\ R \in SUBSET Space
        /\ \A e \in R : End(e) <= f.size /\ e.len <= f.size
        /\ IsFiniteSet(Cover(R)) /\ Cardinality(Cover(R)) \in Nat
        /\ f.largest \in Nat /\ IsLargest(R, f.largest)
    BY KeptFacts
  <1>3. /\ free \in Seq(Space) /\ InOrder(free)
        /\ new \subseteq Cover(R) /\ Cover(Spaces(free)) = Cover(R) \ new
        /\ new \cap Held(R, 1) = {}
        /\ \A m \in Nat : m # 0 => Held(Spaces(free), m) = Held(R, m)
        /\ \A e \in Usable(Spaces(free)) : e \in Usable(R) \/ e.len <= s.len
        /\ \A e \in Usable(R) : e = s \/ e \in Usable(Spaces(free))
    BY <1>2, TakeUnits
  <1>4. s \in R /\ s.pos \in Nat /\ s.len \in Nat /\ s.len <= f.size
    <2>1. s \in R /\ s \in Space
      BY <1>2, SpacesOf
    <2>. QED
      BY <1>2, <2>1, SpaceFields
  <1>. HIDE DEF free, new, R, s
  <1>5. IsFiniteSet(new) /\ Cardinality(new) = n
    BY <1>4, UnitsMember DEF new
  <1>6. Cardinality(Cover(Spaces(free))) = Cardinality(Cover(R)) - n
    <2>1. Cover(R) \cap new = new
      BY <1>3
    <2>2. Cardinality(Cover(R) \ new) = Cardinality(Cover(R)) - Cardinality(Cover(R) \cap new)
      BY <1>2, FS_Difference
    <2>. QED
      BY <1>3, <1>5, <2>1, <2>2
  <1>7. \A e \in Spaces(free) : e.len <= f.size
    <2>1. ASSUME NEW e \in Spaces(free) PROVE e.len <= f.size
      <3>1. e \in Space /\ e.pos \in Nat /\ e.len \in Nat /\ e.len # 0 /\ End(e) = e.pos + e.len
        BY <1>3, SpacesOf, SpaceFields DEF End
      <3>2. End(e) - 1 \in Nat /\ e.pos <= End(e) - 1 /\ End(e) - 1 < End(e)
        BY <3>1
      <3>3. End(e) - 1 \in Cover(Spaces(free))
        <4>1. Spaces(free) \in SUBSET Space
          BY <1>3, SpacesOf
        <4>. QED
          BY <2>1, <3>2, <4>1, CoverMember
      <3>4. PICK c \in R : End(e) - 1 < End(c)
        BY <1>2, <1>3, <3>3, CoverMember
      <3>5. End(c) \in Nat /\ End(c) <= f.size
        BY <1>2, SpaceFields DEF End
      <3>. QED
        BY <1>2, <3>1, <3>4, <3>5
    <2>. QED
      BY <2>1
  <1>8. Largest(free) \in Nat /\ \A x \in Nat : IsLargest(Spaces(free), x) => x = Largest(free)
    BY <1>2, <1>3, <1>7, LargestFound
  <1>9. (IF s.len >= f.largest THEN Largest(free) ELSE f.largest) = Largest(free)
    <2>1. CASE s.len >= f.largest
      BY <2>1
    <2>2. CASE ~(s.len >= f.largest)
      <3>1. f.largest # 0
        BY <1>2, <1>4, <2>2
      <3>2. PICK e \in Usable(R) : e.len = f.largest
        BY <1>2, <3>1 DEF IsLargest
      <3>3. e \in Usable(Spaces(free))
        BY <1>2, <1>3, <1>4, <2>2, <3>2
      <3>4. ASSUME NEW x \in Usable(Spaces(free)) PROVE x.len <= f.largest
        <4>1. x.len \in Nat
          BY <1>3, SpacesOf, SpaceFields DEF Usable
        <4>. QED
          BY <1>2, <1>3, <1>4, <2>2, <4>1 DEF IsLargest
      <3>5. IsLargest(Spaces(free), f.largest)
        BY <3>2, <3>3, <3>4 DEF IsLargest
      <3>. QED
        BY <1>2, <1>8, <2>2, <3>5
    <2>. QED
      BY <2>1, <2>2
  <1>10. /\ f.used \in Int /\ f.total \in Int /\ f.imbed = K /\ Len(free) \in Nat
         /\ f.used + len \in Int /\ f.total - len \in Int /\ f.imbed + n - len \in Int
    <2>1. f.used \in Int /\ f.total \in Int /\ f.imbed \in Int
      BY <1>2 DEF FileRec
    <2>2. f.imbed = K
      BY DEF Kept
    <2>3. Len(free) \in Nat
      BY <1>3
    <2>. QED
      BY <2>1, <2>2, <2>3
  <1>11. /\ h \in FileRec /\ h.size = f.size /\ h.used = f.used + len /\ h.free = free
         /\ h.number = Len(free) /\ h.largest = Largest(free) /\ h.imbed = f.imbed + n - len
         /\ h.total = f.total - len /\ SameTables(f, h)
    <2>1. h = [size |-> f.size, used |-> f.used + len, total |-> f.total - len,
               imbed |-> f.imbed + n - len, largest |-> Largest(free), number |-> Len(free),
               free |-> free, l1 |-> f.l1, l2 |-> f.l2, bounds |-> f.bounds, l2ok |-> f.l2ok]
      BY <1>1, <1>2, <1>9 DEF FileRec
    <2>2. h \in FileRec
      <3>1. f.l1 \in [Table -> Nat] /\ f.l2 \in [Track -> Entry] /\ f.bounds \in Int /\ f.l2ok \in BOOLEAN
        BY <1>2 DEF FileRec
      <3>2. f.size \in Int /\ Largest(free) \in Int /\ Len(free) \in Int
        BY <1>2, <1>8, <1>10
      <3>. QED
        BY <1>3, <1>10, <2>1, <3>1, <3>2 DEF FileRec
    <2>. QED
      BY <2>1, <2>2 DEF SameTables
  <1>12. Kept(h, U \cup new, K + (n - len))
    <2>1. Cover(R) \cap U = {} /\ Cover(R) \cup U = 0 .. f.size - 1 /\ f.used = f.size - f.total
          /\ f.total = Cardinality(Cover(R)) + K
      BY DEF Kept, R
    <2>2. Cover(Spaces(free)) \cap (U \cup new) = {} /\ Cover(Spaces(free)) \cup (U \cup new) = 0 .. f.size - 1
      BY <1>3, <2>1
    <2>3. h.imbed = K + (n - len) /\ h.used = h.size - h.total
      <3>1. /\ f.size \in Int /\ f.total \in Int /\ h.size = f.size
            /\ h.used = f.used + len /\ h.total = f.total - len
        BY <1>2, <1>10, <1>11
      <3>2. h.used = h.size - h.total
        BY <2>1, <3>1
      <3>3. h.imbed = K + (n - len)
        BY <1>10, <1>11
      <3>. QED
        BY <3>2, <3>3
    <2>4. h.total = Cardinality(Cover(Spaces(free))) + (K + (n - len))
      BY <1>2, <1>6, <1>10, <1>11, <2>1
    <2>. QED
      BY <1>2, <1>3, <1>11, <2>2, <2>3, <2>4 DEF Kept
  <1>13. new \cap U = {}
    <2>1. Cover(R) \cap U = {}
      BY DEF Kept, R
    <2>. QED
      BY <1>3, <2>1
  <1>14. Got(f, h, s.pos, n, len, U, K)
    BY <1>3, <1>4, <1>11, <1>12, <1>13 DEF Got, new, R
  <1>. QED
    BY <1>1, <1>14 DEF free, s

\* cckd_get_space as a whole: nothing changed, or units that nobody had.
LEMMA GetSpaceKeeps ==
  ASSUME NEW f, NEW U, NEW K \in Int, Kept(f, U, K), NEW len \in Nat, len # 0, NEW flags
  PROVE  LET got == GetSpace(f, len, flags)
         IN  \/ got.pos = -1 /\ got.file = f
             \/ /\ Got(f, got.file, got.pos, got.size, len, U, K)
                /\ flags # "any" => got.size = len
  <1>. DEFINE fit == {k \in DOMAIN f.free : Fits(f, k, len, flags)}
              i == Min(fit)
              s == f.free[i]
              n == IF flags = "any" /\ s.len <= FreeMin THEN s.len ELSE len
              got == GetSpace(f, len, flags)
  <1>1. /\ f.free \in Seq(Space) /\ f.size \in Nat
    BY KeptFacts
  <1>2. CASE (len + FreeBlk > f.largest /\ len # f.largest) \/ fit = {}
    <2>1. CASE f.size + len > MaxSize
      BY <1>2, <2>1 DEF GetSpace
    <2>2. CASE ~(f.size + len > MaxSize)
      <3>1. got = [pos |-> f.size, size |-> len,
                   file |-> [f EXCEPT !.size = @ + len, !.used = @ + len]]
        BY <1>2, <2>2 DEF GetSpace
      <3>2. f.size + len <= MaxSize
        BY <1>1, <2>2, ConstantsAssumption
      <3>3. Got(f, [f EXCEPT !.size = @ + len, !.used = @ + len], f.size, len, len, U, K)
        BY <3>2, GrowFile
      <3>. HIDE DEF got
      <3>4. Got(f, got.file, got.pos, got.size, len, U, K) /\ got.size = len
        BY <3>1, <3>3
      <3>. QED
        BY <3>4 DEF got
    <2>. QED
      BY <2>1, <2>2
  <1>3. CASE ~((len + FreeBlk > f.largest /\ len # f.largest) \/ fit = {})
    <2>1. fit \in SUBSET Nat /\ fit # {} /\ DOMAIN f.free = 1 .. Len(f.free)
      BY <1>1, <1>3
    <2>2. i \in fit
      <3>. HIDE DEF fit
      <3>. QED
        BY <2>1, MinIsLeast
    <2>3. i \in 1 .. Len(f.free) /\ s.pending = 0 /\ (len + FreeBlk <= s.len \/ len = s.len)
      BY <2>1, <2>2 DEF Fits
    <2>4. s \in Space /\ s.len \in Nat
      <3>. HIDE DEF i
      <3>1. f.free[i] \in Space
        BY <1>1, <2>3
      <3>. QED
        BY <3>1, SpaceFields
    <2>5. n \in Nat /\ len <= n /\ n <= s.len
      BY <2>3, <2>4, ConstantsAssumption
    <2>. DEFINE free == Taken(f.free, i, n)
                h == [f EXCEPT !.free = free, !.number = Len(free),
                        !.largest = IF s.len >= @ THEN Largest(free) ELSE @,
                        !.used = @ + len, !.total = @ - len, !.imbed = @ + n - len]
    <2>7. got = [pos |-> s.pos, size |-> n, file |-> h]
      BY <1>3 DEF GetSpace, Taken
    <2>8. Got(f, h, s.pos, n, len, U, K)
      <3>. HIDE DEF i, n
      <3>. QED
        BY <2>3, <2>5, TakeKept
    <2>9. flags # "any" => n = len
      OBVIOUS
    <2>. HIDE DEF got, h, n, s
    <2>10. got.pos = s.pos /\ got.size = n /\ got.file = h
      BY <2>7
    <2>11. Got(f, got.file, got.pos, got.size, len, U, K) /\ (flags # "any" => got.size = len)
      BY <2>8, <2>9, <2>10
    <2>. QED
      BY <2>11 DEF got
  <1>. QED
    BY <1>2, <1>3

\* The spaces up to a place are the first ones of the chain.
Before(s, pos) == Cardinality({i \in DOMAIN s : s[i].pos <= pos})

\* In an ordered chain the spaces up to a position are the first ones.
LEMMA BeforeIsPrefix ==
  ASSUME NEW s \in Seq(Space), InOrder(s), NEW pos \in Nat
  PROVE  /\ Before(s, pos) \in 0 .. Len(s)
         /\ \A i \in 1 .. Len(s) : i <= Before(s, pos) <=> s[i].pos <= pos
  <1>. DEFINE N == Len(s)
              S == {j \in 0 .. N : j = N \/ s[j + 1].pos > pos}
              q == Min(S)
  <1>1. N \in Nat /\ N \in S /\ S \in SUBSET Nat
    OBVIOUS
  <1>2. q \in S /\ \A j \in S : q <= j
    <2>. HIDE DEF S
    <2>. QED
      BY <1>1, MinIsLeast
  <1>. HIDE DEF q
  <1>3. q \in 0 .. N /\ (q = N \/ s[q + 1].pos > pos)
    BY <1>2
  <1>4. ASSUME NEW i \in 1 .. N, i <= q PROVE s[i].pos <= pos
    <2>1. i - 1 \in 0 .. N /\ ~(q <= i - 1) /\ (i - 1) + 1 = i /\ i - 1 # N
      BY <1>1, <1>3, <1>4
    <2>2. i - 1 \notin S
      BY <1>2, <2>1
    <2>3. ~(s[(i - 1) + 1].pos > pos)
      BY <2>1, <2>2
    <2>4. s[i].pos \in Nat
      BY SpacesOf, SpaceFields
    <2>. QED
      BY <2>1, <2>3, <2>4
  <1>5. ASSUME NEW i \in 1 .. N, ~(i <= q) PROVE s[i].pos > pos
    <2>1. q + 1 \in 1 .. N /\ q # N /\ (q + 1 < i \/ q + 1 = i)
      BY <1>1, <1>3, <1>5
    <2>2. s[q + 1].pos > pos
      BY <1>3, <2>1
    <2>3. /\ s[i].pos \in Nat /\ s[q + 1].pos \in Nat /\ s[q + 1].len \in Nat
          /\ End(s[q + 1]) = s[q + 1].pos + s[q + 1].len
      BY <2>1, SpacesOf, SpaceFields DEF End
    <2>4. q + 1 < i => End(s[q + 1]) <= s[i].pos
      BY <2>1, OrderedApart
    <2>. QED
      BY <2>1, <2>2, <2>3, <2>4
  <1>6. {i \in DOMAIN s : s[i].pos <= pos} = 1 .. q
    <2>1. DOMAIN s = 1 .. N /\ \A i \in 1 .. N : s[i].pos \in Nat
      BY SpacesOf, SpaceFields
    <2>2. \A i \in 1 .. N : s[i].pos <= pos <=> i <= q
      BY <1>4, <1>5, <2>1
    <2>3. \A i : i \in 1 .. q <=> i \in 1 .. N /\ i <= q
      BY <1>1, <1>3
    <2>. QED
      BY <2>1, <2>2, <2>3
  <1>7. Cardinality(1 .. q) = q
    BY <1>3, FS_Interval
  <1>8. Before(s, pos) = q
    BY <1>6, <1>7 DEF Before
  <1>9. \A i \in 1 .. N : s[i].pos \in Nat
    BY SpacesOf, SpaceFields
  <1>. QED
    BY <1>3, <1>4, <1>5, <1>8, <1>9

Joins(s, pos) ==
  LET p == Before(s, pos)
  IN  p > 0 /\ End(s[p]) = pos /\ s[p].pending = FreePend
Released(s, pos, size) ==
  LET p == Before(s, pos)
  IN  IF Joins(s, pos) THEN [s EXCEPT ![p].len = @ + size]
      ELSE InsertAt(s, p + 1, [pos |-> pos, len |-> size, pending |-> FreePend])
ReleasedLen(s, pos, size) ==
  IF Joins(s, pos) THEN Released(s, pos, size)[Before(s, pos)].len ELSE size

\* The spaces T are those in R but for A, which became part of e.
GrownBy(R, T, A, e, pos, size) ==
  /\ T = (R \ A) \cup {e} /\ e.pending = FreePend /\ End(e) = pos + size
  /\ \/ A = {} /\ e.pos = pos
     \/ \E a \in A : /\ A = {a} /\ a.pending = FreePend /\ a.len < e.len
                     /\ e.pos = a.pos /\ End(a) = pos

\* A released area is a space of its own, or the tail of one that was pending
\* as long.
LEMMA ReleaseShape ==
  ASSUME NEW s \in Seq(Space), InOrder(s), NEW pos \in Nat, NEW size \in Nat, size # 0,
         Cover(Spaces(s)) \cap Units(pos, size) = {}
  PROVE  LET r == Released(s, pos, size)
         IN  /\ r \in Seq(Space) /\ InOrder(r)
             /\ Len(r) = IF Joins(s, pos) THEN Len(s) ELSE Len(s) + 1
             /\ \E A \in SUBSET Spaces(s) : \E e \in Space :
                  e.len = ReleasedLen(s, pos, size) /\ GrownBy(Spaces(s), Spaces(r), A, e, pos, size)
  <1>. DEFINE p == Before(s, pos)
              r == Released(s, pos, size)
  <1>1. p \in 0 .. Len(s) /\ \A i \in 1 .. Len(s) : i <= p <=> s[i].pos <= pos
    BY BeforeIsPrefix
  <1>2. \A u : u \in Units(pos, size) <=> u \in Nat /\ pos <= u /\ u < pos + size
    <2>1. \A u : u \in Units(pos, size) <=> u \in Int /\ pos <= u /\ u < pos + size
      BY UnitsMember
    <2>. QED
      BY <2>1
  <1>3. ASSUME NEW i \in 1 .. Len(s) PROVE IF i <= p THEN End(s[i]) <= pos ELSE pos + size <= s[i].pos
    <2>1. s[i] \in Spaces(s) /\ s[i].pos \in Nat /\ s[i].len \in Nat /\ s[i].len # 0
          /\ End(s[i]) = s[i].pos + s[i].len
      BY SpacesOf, SpaceFields DEF End
    <2>2. \A u \in Nat : s[i].pos <= u /\ u < End(s[i]) => u \notin Units(pos, size)
      BY <2>1, SpacesOf, CoverMember
    <2>3. CASE i <= p
      <3>1. s[i].pos <= pos
        BY <1>1, <2>3
      <3>2. pos \in Units(pos, size)
        BY <1>2
      <3>3. ~(pos < End(s[i]))
        BY <2>2, <3>1, <3>2
      <3>. QED
        BY <2>1, <2>3, <3>3
    <2>4. CASE ~(i <= p)
      <3>1. ~(s[i].pos <= pos)
        BY <1>1, <2>4
      <3>2. s[i].pos \notin Units(pos, size)
        BY <2>1, <2>2
      <3>. QED
        BY <1>2, <2>1, <2>4, <3>1, <3>2
    <2>. QED
      BY <2>3, <2>4
  <1>. HIDE DEF r, p
  <1>4. CASE Joins(s, pos)
    <2>1. p \in 1 .. Len(s) /\ End(s[p]) = pos /\ s[p].pending = FreePend
      BY <1>1, <1>4 DEF Joins, p
    <2>2. PICK a \in Spaces(s) : a = s[p]
      BY <2>1, SpacesOf
    <2>3. a \in Space /\ a.pos \in Nat /\ a.len \in Nat /\ a.len # 0
      BY SpacesOf, SpaceFields
    <2>4. PICK e : e = [a EXCEPT !.len = a.len + size]
      OBVIOUS
    <2>5. e \in Space /\ e.pos = a.pos /\ e.len = a.len + size /\ e.pending = a.pending
      <3>1. a.len + size \in Nat /\ a.len + size # 0
        BY <2>3
      <3>. QED
        BY <2>3, <2>4, <3>1, SpaceFields
    <2>6. r = [s EXCEPT ![p] = e]
      BY <1>4, <2>2, <2>4 DEF Released, r, p
    <2>7. End(e) = pos + size
      <3>1. a.pos + a.len = pos /\ End(e) = a.pos + (a.len + size)
        BY <2>1, <2>2, <2>5 DEF End
      <3>. QED
        BY <2>3, <3>1
    <2>8. \A j \in 1 .. Len(s) : j < p => End(s[j]) <= e.pos
      BY <2>1, <2>2, <2>5, OrderedApart
    <2>9. \A j \in 1 .. Len(s) : j > p => End(e) <= s[j].pos
      <3>1. \A j \in 1 .. Len(s) : j > p => ~(j <= p)
        BY <2>1
      <3>. QED
        BY <1>3, <2>7, <3>1
    <2>10. r \in Seq(Space) /\ Len(r) = Len(s) /\ InOrder(r) /\ Spaces(r) = (Spaces(s) \ {a}) \cup {e}
      <3>1. p \in 1 .. Len(s) /\ e \in Space
        BY <2>1, <2>5
      <3>2. r \in Seq(Space) /\ Len(r) = Len(s) /\ InOrder(r) /\ Spaces(r) = (Spaces(s) \ {s[p]}) \cup {e}
        BY <2>6, <2>8, <2>9, <3>1, ReplaceSpace
      <3>. QED
        BY <2>2, <3>2
    <2>11. e.len = ReleasedLen(s, pos, size)
      <3>1. r[p] = e
        BY <2>1, <2>6
      <3>. QED
        BY <1>4, <3>1 DEF ReleasedLen, r, p
    <2>12. a.len < e.len
      BY <2>3, <2>5
    <2>. DEFINE A == {a}
    <2>13. /\ A \in SUBSET Spaces(s) /\ e \in Space /\ Spaces(r) = (Spaces(s) \ A) \cup {e}
           /\ e.pending = FreePend /\ End(e) = pos + size
           /\ a \in A /\ a.pending = FreePend /\ e.pos = a.pos /\ End(a) = pos
      BY <2>1, <2>2, <2>5, <2>7, <2>10
    <2>14. GrownBy(Spaces(s), Spaces(r), A, e, pos, size)
      BY <2>12, <2>13 DEF GrownBy
    <2>. HIDE DEF A
    <2>. QED
      BY <1>4, <2>10, <2>11, <2>13, <2>14 DEF r
  <1>5. CASE ~Joins(s, pos)
    <2>1. PICK e : e = [pos |-> pos, len |-> size, pending |-> FreePend]
      OBVIOUS
    <2>2. e \in Space /\ e.pos = pos /\ e.len = size /\ e.pending = FreePend /\ End(e) = pos + size
      BY <2>1, ConstantsAssumption DEF Space, End
    <2>3. r = InsertAt(s, p + 1, e)
      BY <1>5, <2>1 DEF Released, r, p
    <2>4. \A j \in 1 .. Len(s) : j <= p => End(s[j]) <= e.pos
      BY <1>3, <2>2
    <2>5. \A j \in 1 .. Len(s) : j > p => End(e) <= s[j].pos
      <3>1. \A j \in 1 .. Len(s) : j > p => ~(j <= p)
        BY <1>1
      <3>. QED
        BY <1>3, <2>2, <3>1
    <2>6. r \in Seq(Space) /\ Len(r) = Len(s) + 1 /\ InOrder(r) /\ Spaces(r) = Spaces(s) \cup {e}
      BY <1>1, <2>2, <2>3, <2>4, <2>5, InsertSpace
    <2>7. e.len = ReleasedLen(s, pos, size)
      BY <1>5, <2>2 DEF ReleasedLen
    <2>8. {} \in SUBSET Spaces(s) /\ Spaces(r) = (Spaces(s) \ {}) \cup {e}
      BY <2>6
    <2>. DEFINE A == {}
    <2>9. GrownBy(Spaces(s), Spaces(r), A, e, pos, size) /\ A \in SUBSET Spaces(s)
      BY <2>2, <2>8 DEF GrownBy
    <2>. HIDE DEF A
    <2>. QED
      BY <1>5, <2>2, <2>6, <2>7, <2>9 DEF r
  <1>. QED
    BY <1>4, <1>5

\* The chain after a release has the units released besides its own.
LEMMA ReleaseUnits ==
  ASSUME NEW s \in Seq(Space), InOrder(s), NEW pos \in Nat, NEW size \in Nat, size # 0,
         Cover(Spaces(s)) \cap Units(pos, size) = {},
         NEW N \in Nat, IsLargest(Spaces(s), N)
  PROVE  LET r == Released(s, pos, size)
             old == Units(pos, size)
             L == ReleasedLen(s, pos, size)
         IN  /\ Cover(Spaces(r)) = Cover(Spaces(s)) \cup old
             /\ \A m \in Nat : Held(Spaces(s), m) \subseteq Held(Spaces(r), m)
             /\ \A m \in Nat : m <= FreePend => old \subseteq Held(Spaces(r), m)
             /\ L \in Nat
             /\ IsLargest(Spaces(r), IF FreePend = 0 /\ L > N THEN L ELSE N)
  <1>. DEFINE r == Released(s, pos, size)
              old == Units(pos, size)
              L == ReleasedLen(s, pos, size)
  <1>. HIDE DEF r, old, L
  <1>1. PICK A \in SUBSET Spaces(s), e \in Space :
                  /\ Spaces(r) = (Spaces(s) \ A) \cup {e}
                  /\ e.pending = FreePend /\ e.len = L /\ End(e) = pos + size
                  /\ \/ A = {} /\ e.pos = pos
                     \/ \E a \in A : /\ A = {a} /\ a.pending = FreePend /\ a.len < e.len
                                     /\ e.pos = a.pos /\ End(a) = pos
    <2>1. PICK A \in SUBSET Spaces(s) : \E e \in Space :
            e.len = L /\ GrownBy(Spaces(s), Spaces(r), A, e, pos, size)
      BY ReleaseShape DEF r, L
    <2>2. PICK e \in Space : e.len = L /\ GrownBy(Spaces(s), Spaces(r), A, e, pos, size)
      BY <2>1
    <2>. QED
      BY <2>2 DEF GrownBy
  <1>2. Spaces(s) \in SUBSET Space /\ Spaces(r) \in SUBSET Space
    BY <1>1, SpacesOf
  <1>3. \A u : u \in old <=> u \in Nat /\ pos <= u /\ u < pos + size
    <2>1. \A u : u \in old <=> u \in Int /\ pos <= u /\ u < pos + size
      BY UnitsMember DEF old
    <2>. QED
      BY <2>1
  <1>4. e.pos \in Nat /\ e.len \in Nat /\ e.len # 0 /\ End(e) = e.pos + e.len
    BY SpaceFields DEF End
  <1>5. \A a \in A : a.pos \in Nat /\ a.len \in Nat /\ a.len # 0 /\ End(a) = a.pos + a.len
    BY <1>2, SpaceFields DEF End
  <1>6. ASSUME NEW u \in Nat
        PROVE  e.pos <= u /\ u < End(e) <=> u \in old \/ \E a \in A : a.pos <= u /\ u < End(a)
    <2>1. CASE A = {} /\ e.pos = pos
      BY <1>1, <1>3, <2>1
    <2>2. CASE \E a \in A : /\ A = {a} /\ a.pending = FreePend /\ a.len < e.len
                            /\ e.pos = a.pos /\ End(a) = pos
      <3>1. PICK a \in A : A = {a} /\ e.pos = a.pos /\ End(a) = pos
        BY <2>2
      <3>2. a.pos <= pos /\ End(e) = pos + size
        BY <1>1, <1>5, <3>1
      <3>3. u \in old <=> pos <= u /\ u < pos + size
        BY <1>3
      <3>4. a.pos \in Nat
        BY <1>5
      <3>. QED
        BY <3>1, <3>2, <3>3, <3>4
    <2>. QED
      BY <1>1, <2>1, <2>2
  <1>7. \A a \in A : a.pending = FreePend /\ a.len < e.len
    BY <1>1
  <1>8. Cover(Spaces(r)) = Cover(Spaces(s)) \cup old
    <2>1. \A u : u \in Cover(Spaces(s)) <=> u \in Nat /\ \E x \in Spaces(s) : x.pos <= u /\ u < End(x)
      BY <1>2, CoverMember
    <2>2. \A u : u \in Cover(Spaces(r)) <=> u \in Nat /\ \E x \in Spaces(r) : x.pos <= u /\ u < End(x)
      BY <1>2, CoverMember
    <2>3. ASSUME NEW u \in Cover(Spaces(r)) PROVE u \in Cover(Spaces(s)) \cup old
      <3>1. PICK x \in Spaces(r) : x.pos <= u /\ u < End(x)
        BY <2>2
      <3>2. u \in Nat
        BY <2>2
      <3>3. CASE x = e
        BY <1>6, <2>1, <3>1, <3>2, <3>3
      <3>4. CASE x \in Spaces(s)
        BY <2>1, <3>1, <3>2, <3>4
      <3>. QED
        BY <1>1, <3>1, <3>3, <3>4
    <2>4. ASSUME NEW u \in Cover(Spaces(s)) PROVE u \in Cover(Spaces(r))
      <3>1. PICK x \in Spaces(s) : x.pos <= u /\ u < End(x)
        BY <2>1
      <3>2. u \in Nat
        BY <2>1
      <3>3. CASE x \in A
        <4>1. e.pos <= u /\ u < End(e)
          BY <1>6, <3>1, <3>2, <3>3
        <4>. QED
          BY <1>1, <2>2, <3>2, <4>1
      <3>4. CASE x \notin A
        BY <1>1, <2>2, <3>1, <3>2, <3>4
      <3>. QED
        BY <3>3, <3>4
    <2>5. ASSUME NEW u \in old PROVE u \in Cover(Spaces(r))
      <3>1. u \in Nat
        BY <1>3
      <3>2. e.pos <= u /\ u < End(e)
        BY <1>6, <3>1
      <3>. QED
        BY <1>1, <2>2, <3>1, <3>2
    <2>. QED
      BY <2>3, <2>4, <2>5
  <1>9. ASSUME NEW m \in Nat PROVE Held(Spaces(s), m) \subseteq Held(Spaces(r), m)
    <2>1. \A u : u \in Held(Spaces(s), m) <=> u \in Nat /\ \E x \in Spaces(s) : x.pending >= m /\ x.pos <= u /\ u < End(x)
      BY <1>2, HeldMember
    <2>2. \A u : u \in Held(Spaces(r), m) <=> u \in Nat /\ \E x \in Spaces(r) : x.pending >= m /\ x.pos <= u /\ u < End(x)
      BY <1>2, HeldMember
    <2>3. ASSUME NEW u \in Held(Spaces(s), m) PROVE u \in Held(Spaces(r), m)
      <3>1. PICK x \in Spaces(s) : x.pending >= m /\ x.pos <= u /\ u < End(x)
        BY <2>1
      <3>2. u \in Nat
        BY <2>1
      <3>3. CASE x \in A
        <4>1. e.pos <= u /\ u < End(e) /\ e.pending >= m
          BY <1>1, <1>6, <1>7, <3>1, <3>2, <3>3
        <4>. QED
          BY <1>1, <2>2, <3>2, <4>1
      <3>4. CASE x \notin A
        BY <1>1, <2>2, <3>1, <3>2, <3>4
      <3>. QED
        BY <3>3, <3>4
    <2>. QED
      BY <2>3
  <1>10. ASSUME NEW m \in Nat, m <= FreePend PROVE old \subseteq Held(Spaces(r), m)
    <2>1. \A u : u \in Held(Spaces(r), m) <=> u \in Nat /\ \E x \in Spaces(r) : x.pending >= m /\ x.pos <= u /\ u < End(x)
      BY <1>2, HeldMember
    <2>2. e.pending >= m
      BY <1>1, <1>10, ConstantsAssumption
    <2>3. ASSUME NEW u \in old PROVE u \in Held(Spaces(r), m)
      <3>1. u \in Nat
        BY <1>3
      <3>2. e.pos <= u /\ u < End(e)
        BY <1>6, <3>1
      <3>. QED
        BY <1>1, <2>1, <2>2, <3>1, <3>2
    <2>. QED
      BY <2>3
  <1>11. L \in Nat /\ L # 0
    BY <1>1, <1>4
  <1>12. IsLargest(Spaces(r), IF FreePend = 0 /\ L > N THEN L ELSE N)
    <2>1. \A x \in Usable(Spaces(s)) : x.len <= N /\ x.len \in Nat
      BY <1>2, SpaceFields DEF IsLargest, Usable
    <2>2. CASE FreePend = 0 /\ L > N
      <3>1. e \in Usable(Spaces(r))
        BY <1>1, <2>2 DEF Usable
      <3>2. ASSUME NEW x \in Usable(Spaces(r)) PROVE x.len <= L
        <4>1. x = e \/ x \in Usable(Spaces(s))
          BY <1>1 DEF Usable
        <4>. QED
          BY <1>1, <1>11, <2>1, <2>2, <4>1
      <3>. QED
        BY <1>1, <2>2, <3>1, <3>2 DEF IsLargest
    <2>3. CASE FreePend = 0 /\ ~(L > N)
      <3>1. ASSUME NEW x \in Usable(Spaces(r)) PROVE x.len <= N
        <4>1. x = e \/ x \in Usable(Spaces(s))
          BY <1>1 DEF Usable
        <4>. QED
          BY <1>1, <1>11, <2>1, <2>3, <4>1
      <3>2. PICK x \in Usable(Spaces(s)) : x.len = N
        <4>1. N # 0
          BY <1>11, <2>3
        <4>. QED
          BY <4>1 DEF IsLargest
      <3>3. x \notin A
        <4>1. SUFFICES ASSUME x \in A PROVE FALSE
          OBVIOUS
        <4>2. N < L
          BY <1>1, <1>7, <3>2, <4>1
        <4>. QED
          BY <1>11, <2>3, <4>2
      <3>4. x \in Usable(Spaces(r))
        BY <1>1, <3>2, <3>3 DEF Usable
      <3>. QED
        BY <2>3, <3>1, <3>2, <3>4 DEF IsLargest
    <2>4. CASE FreePend # 0
      <3>1. Usable(Spaces(r)) = Usable(Spaces(s))
        BY <1>1, <1>7, <2>4 DEF Usable
      <3>. QED
        BY <2>4, <3>1 DEF IsLargest
    <2>. QED
      BY <2>2, <2>3, <2>4
  <1>. QED
    BY <1>8, <1>9, <1>10, <1>11, <1>12 DEF r, old, L

\* Releasing a part of what is in use
Freed(f, h, pos, size, len, U, K) ==
  /\ Kept(h, U \ Units(pos, size), K - (size - len)) /\ SameTables(f, h)
  /\ \A m \in Nat : Held(Spaces(f.free), m) \subseteq Held(Spaces(h.free), m)
  /\ \A m \in Nat : m <= FreePend => Units(pos, size) \subseteq Held(Spaces(h.free), m)

\* cckd_rel_space as a whole: the statistics follow the chain.
LEMMA RelSpaceKeeps ==
  ASSUME NEW f, NEW U, NEW K \in Int, Kept(f, U, K), NEW pos \in Nat, pos # 0,
         NEW len \in Nat, NEW size \in Nat, size # 0, Units(pos, size) \subseteq U
  PROVE  Freed(f, RelSpace(f, pos, len, size), pos, size, len, U, K)
  <1>. DEFINE free == Released(f.free, pos, size)
              L == ReleasedLen(f.free, pos, size)
              old == Units(pos, size)
              R == Spaces(f.free)
  <1>1. PICK h : h = RelSpace(f, pos, len, size)
    OBVIOUS
  <1>2. /\ f \in FileRec /\ f.free \in Seq(Space) /\ InOrder(f.free) /\ f.size \in Nat
        /\ f.size \in 0 .. MaxSize
        /\ U \in SUBSET Nat /\ R \in SUBSET Space
        /\ IsFiniteSet(Cover(R)) /\ Cardinality(Cover(R)) \in Nat
        /\ f.largest \in Nat /\ IsLargest(R, f.largest)
    BY KeptFacts
  <1>3. Cover(R) \cap U = {} /\ Cover(R) \cup U = 0 .. f.size - 1 /\ Cover(R) \cap old = {}
    BY DEF Kept
  <1>4. /\ free \in Seq(Space) /\ InOrder(free)
        /\ Len(free) = IF Joins(f.free, pos) THEN Len(f.free) ELSE Len(f.free) + 1
    <2>. HIDE DEF free
    <2>. QED
      BY <1>2, <1>3, ReleaseShape DEF free
  <1>5. /\ Cover(Spaces(free)) = Cover(R) \cup old
        /\ \A m \in Nat : Held(R, m) \subseteq Held(Spaces(free), m)
        /\ \A m \in Nat : m <= FreePend => old \subseteq Held(Spaces(free), m)
        /\ L \in Nat
        /\ IsLargest(Spaces(free), IF FreePend = 0 /\ L > f.largest THEN L ELSE f.largest)
    BY <1>2, <1>3, ReleaseUnits
  <1>6. h = [f EXCEPT !.free = free, !.number = IF Joins(f.free, pos) THEN @ ELSE @ + 1,
               !.used = @ - len, !.total = @ + len, !.imbed = @ - (size - len),
               !.largest = IF FreePend = 0 /\ L > @ THEN L ELSE @]
    BY <1>1 DEF RelSpace, Released, ReleasedLen, Joins, Before
  <1>. HIDE DEF free, L, old, R
  <1>7. IsFiniteSet(old) /\ Cardinality(old) = size
    BY UnitsMember DEF old
  <1>8. Cardinality(Cover(Spaces(free))) = Cardinality(Cover(R)) + size
    <2>1. Cover(R) \cap old = {} /\ Cardinality({}) = 0
      BY <1>3, FS_EmptySet
    <2>2. Cardinality(Cover(R) \cup old) = Cardinality(Cover(R)) + Cardinality(old) - Cardinality(Cover(R) \cap old)
      BY <1>2, <1>7, FS_Union
    <2>3. Cardinality(Cover(R) \cap old) = 0
      BY <2>1
    <2>. QED
      BY <1>2, <1>5, <1>7, <2>2, <2>3
  <1>9. \A e \in Spaces(free) : e.len <= f.size
    <2>1. ASSUME NEW e \in Spaces(free) PROVE e.len <= f.size
      <3>1. e \in Space /\ e.pos \in Nat /\ e.len \in Nat /\ e.len # 0 /\ End(e) = e.pos + e.len
        BY <1>4, SpacesOf, SpaceFields DEF End
      <3>2. End(e) - 1 \in Nat /\ e.pos <= End(e) - 1 /\ End(e) - 1 < End(e)
        BY <3>1
      <3>3. End(e) - 1 \in Cover(Spaces(free))
        <4>1. Spaces(free) \in SUBSET Space
          BY <1>4, SpacesOf
        <4>. QED
          BY <2>1, <3>2, <4>1, CoverMember
      <3>4. old \subseteq U
        BY DEF old
      <3>5. End(e) - 1 \in 0 .. f.size - 1
        BY <1>3, <1>5, <3>3, <3>4
      <3>. QED
        BY <1>2, <3>1, <3>5
    <2>. QED
      BY <2>1
  <1>10. (IF FreePend = 0 /\ L > f.largest THEN L ELSE f.largest) = Largest(free)
    <2>1. \A n \in Nat : IsLargest(Spaces(free), n) => n = Largest(free)
      BY <1>2, <1>4, <1>9, LargestFound
    <2>. QED
      BY <1>2, <1>5, <2>1
  <1>11. /\ f.used \in Int /\ f.total \in Int /\ f.imbed = K /\ f.number = Len(f.free) /\ Len(f.free) \in Nat
         /\ f.used - len \in Int /\ f.total + len \in Int /\ f.imbed - (size - len) \in Int
         /\ (IF Joins(f.free, pos) THEN f.number ELSE f.number + 1) = Len(free)
         /\ Len(free) \in Int /\ Largest(free) \in Int
    <2>1. f.used \in Int /\ f.total \in Int /\ f.imbed = K /\ f.number = Len(f.free) /\ Len(f.free) \in Nat
      BY <1>2 DEF FileRec, Kept
    <2>2. Largest(free) \in Nat
      BY <1>2, <1>5, <1>10
    <2>. QED
      BY <1>4, <2>1, <2>2
  <1>12. /\ h \in FileRec /\ h.size = f.size /\ h.used = f.used - len /\ h.free = free
         /\ h.number = Len(free) /\ h.largest = Largest(free) /\ h.imbed = f.imbed - (size - len)
         /\ h.total = f.total + len /\ SameTables(f, h)
    <2>1. h = [size |-> f.size, used |-> f.used - len, total |-> f.total + len,
               imbed |-> f.imbed - (size - len), largest |-> Largest(free), number |-> Len(free),
               free |-> free, l1 |-> f.l1, l2 |-> f.l2, bounds |-> f.bounds, l2ok |-> f.l2ok]
      BY <1>2, <1>6, <1>10, <1>11 DEF FileRec
    <2>2. h \in FileRec
      <3>1. f.l1 \in [Table -> Nat] /\ f.l2 \in [Track -> Entry] /\ f.bounds \in Int /\ f.l2ok \in BOOLEAN
        BY <1>2 DEF FileRec
      <3>2. f.size \in Int
        BY <1>2
      <3>. QED
        BY <1>4, <1>11, <2>1, <3>1, <3>2 DEF FileRec
    <2>. QED
      BY <2>1, <2>2 DEF SameTables
  <1>13. Kept(h, U \ old, K - (size - len))
    <2>1. f.used = f.size - f.total /\ f.total = Cardinality(Cover(R)) + K
      BY DEF Kept, R
    <2>2. Cover(Spaces(free)) \cap (U \ old) = {} /\ Cover(Spaces(free)) \cup (U \ old) = 0 .. f.size - 1
      <3>1. old \subseteq U
        BY DEF old
      <3>. QED
        BY <1>3, <1>5, <3>1
    <2>3. h.imbed = K - (size - len) /\ h.used = h.size - h.total
      <3>1. h.imbed = K - (size - len)
        BY <1>11, <1>12
      <3>2. /\ f.size \in Int /\ f.total \in Int /\ h.size = f.size
            /\ h.used = f.used - len /\ h.total = f.total + len
        BY <1>2, <1>11, <1>12
      <3>3. h.used = h.size - h.total
        BY <2>1, <3>2
      <3>. QED
        BY <3>1, <3>3
    <2>4. h.total = Cardinality(Cover(Spaces(free))) + (K - (size - len))
      BY <1>2, <1>8, <1>11, <1>12, <2>1
    <2>. QED
      BY <1>2, <1>4, <1>12, <2>2, <2>3, <2>4 DEF Kept
  <1>. QED
    BY <1>1, <1>5, <1>12, <1>13 DEF Freed, old, R

\* A space behind the others may be appended.
LEMMA AppendSpace ==
  ASSUME NEW s \in Seq(Space), InOrder(s), NEW e \in Space,
         \A j \in 1 .. Len(s) : End(s[j]) <= e.pos
  PROVE  LET r == Append(s, e)
         IN  /\ r \in Seq(Space) /\ Len(r) = Len(s) + 1 /\ InOrder(r)
             /\ Spaces(r) = Spaces(s) \cup {e}
             /\ \A j \in 1 .. Len(s) : r[j] = s[j]
             /\ r[Len(s) + 1] = e
  <1>. DEFINE r == Append(s, e)
              N == Len(s)
  <1>1. r \in Seq(Space) /\ Len(r) = N + 1 /\ N \in Nat /\ DOMAIN r = 1 .. N + 1
    OBVIOUS
  <1>2. r[N + 1] = e /\ \A j \in 1 .. N : r[j] = s[j]
    OBVIOUS
  <1>3. \A j, k \in 1 .. N : j < k => End(s[j]) <= s[k].pos
    BY OrderedApart
  <1>4. \A x : x \in Spaces(s) <=> \E j \in 1 .. N : x = s[j]
    BY SpacesOf DEF Spaces
  <1>. HIDE DEF r
  <1>5. InOrder(r)
    <2>1. ASSUME NEW j \in 1 .. N + 1, NEW k \in 1 .. N + 1, j < k PROVE End(r[j]) <= r[k].pos
      <3>1. j \in 1 .. N /\ (k = N + 1 \/ k \in 1 .. N)
        BY <1>1, <2>1
      <3>. QED
        BY <1>2, <1>3, <2>1, <3>1
    <2>. QED
      BY <1>1, <2>1 DEF InOrder
  <1>6. Spaces(r) = Spaces(s) \cup {e}
    <2>1. \A x : x \in Spaces(r) <=> \E j \in 1 .. N + 1 : x = r[j]
      BY <1>1 DEF Spaces
    <2>2. N + 1 \in 1 .. N + 1 /\ \A j \in 1 .. N + 1 : j = N + 1 \/ j \in 1 .. N
      BY <1>1
    <2>3. \A j \in 1 .. N : j \in 1 .. N + 1
      BY <1>1
    <2>4. ASSUME NEW x \in Spaces(r) PROVE x \in Spaces(s) \cup {e}
      BY <1>2, <1>4, <2>1, <2>2
    <2>5. ASSUME NEW x \in Spaces(s) \cup {e} PROVE x \in Spaces(r)
      BY <1>2, <1>4, <2>1, <2>2, <2>3
    <2>. QED
      BY <2>4, <2>5
  <1>. QED
    BY <1>1, <1>2, <1>5, <1>6 DEF r

\* The chain d is what the first n spaces of s were merged into: the units are
\* the same, one pass less is held, and what was held for one pass at most is
\* left without neighbours.
Prefix(s, n) == {s[i] : i \in 1 .. n}
Gaps(d) == \A i \in 1 .. Len(d) - 1 : End(d[i]) < d[i + 1].pos
AtMost(R, q) == \A e \in R : e.pending <= q

Folded(s, n, d) ==
  /\ d \in Seq(Space) /\ InOrder(d)
  /\ Cover(Spaces(d)) = Cover(Prefix(s, n))
  /\ \A m \in Nat : Held(Prefix(s, n), m + 1) \subseteq Held(Spaces(d), m)
  /\ \A i \in 1 .. Len(d) : n # 0 /\ End(d[i]) <= End(s[n])
  /\ Len(d) # 0 => End(d[Len(d)]) = End(s[n])
  /\ \A q \in Nat : AtMost(Prefix(s, n), q + 1) => AtMost(Spaces(d), q)
  /\ AtMost(Prefix(s, n), 1) => Gaps(d)

\* The last space of d takes in x, or x follows it.
JoinsLast(d, x, r, e) ==
  LET N == Len(d)
  IN  /\ N # 0 /\ Len(r) = N /\ r[N] = e
      /\ \A j \in 1 .. N - 1 : r[j] = d[j]
      /\ e.pos = d[N].pos /\ e.pending = d[N].pending /\ x.pending <= e.pending + 1
      /\ End(d[N]) = x.pos /\ End(e) = End(x)
      /\ r \in Seq(Space) /\ InOrder(r) /\ Spaces(r) = (Spaces(d) \ {d[N]}) \cup {e}
Follows(d, x, r, e) ==
  LET N == Len(d)
  IN  /\ Len(r) = N + 1 /\ r[N + 1] = e
      /\ \A j \in 1 .. N : r[j] = d[j]
      /\ e.pos = x.pos /\ End(e) = End(x)
      /\ x.pending <= e.pending + 1 /\ e.pending <= x.pending
      /\ x.pending # 0 => e.pending + 1 = x.pending
      /\ N # 0 => ~(End(d[N]) = x.pos /\ x.pending \in {d[N].pending, d[N].pending + 1})
      /\ r \in Seq(Space) /\ InOrder(r) /\ Spaces(r) = Spaces(d) \cup {e}

\* What one step of the merge makes of the last space done
LEMMA MergeShape ==
  ASSUME NEW d \in Seq(Space), InOrder(d), NEW x \in Space,
         \A j \in 1 .. Len(d) : End(d[j]) <= x.pos
  PROVE  \E e \in Space : JoinsLast(d, x, Merge(d, x), e) \/ Follows(d, x, Merge(d, x), e)
  <1>. DEFINE r == Merge(d, x)
              N == Len(d)
              joins == N > 0 /\ End(d[N]) = x.pos /\ x.pending \in {d[N].pending, d[N].pending + 1}
  <1>1. N \in Nat /\ x.pos \in Nat /\ x.len \in Nat /\ x.len # 0 /\ x.pending \in Nat
        /\ x.pending \in 0 .. MaxFreePend
    BY SpaceFields
  <1>2. CASE joins
    <2>1. N \in 1 .. N /\ N # 0
      BY <1>1, <1>2
    <2>2. PICK a \in Space : a = d[N]
      BY <2>1
    <2>3. a.pos \in Nat /\ a.len \in Nat /\ a.len # 0 /\ a.pending \in Nat
      BY SpaceFields
    <2>4. PICK e : e = [a EXCEPT !.len = a.len + x.len]
      OBVIOUS
    <2>5. e \in Space /\ e.pos = a.pos /\ e.len = a.len + x.len /\ e.pending = a.pending
      <3>1. a.len + x.len \in Nat /\ a.len + x.len # 0
        BY <1>1, <2>3
      <3>. QED
        BY <2>3, <2>4, <3>1, SpaceFields
    <2>6. r = [d EXCEPT ![N] = e]
      BY <1>2, <2>2, <2>4 DEF Merge
    <2>7. End(e) = End(x) /\ End(a) = x.pos
      <3>1. a.pos + a.len = x.pos /\ End(e) = a.pos + (a.len + x.len) /\ End(x) = x.pos + x.len
        BY <1>2, <2>2, <2>5 DEF End
      <3>. QED
        BY <1>1, <2>3, <3>1 DEF End
    <2>8. \A j \in 1 .. Len(d) : j < N => End(d[j]) <= e.pos
      BY <2>1, <2>2, <2>5, OrderedApart
    <2>9. \A j \in 1 .. Len(d) : j > N => End(e) <= d[j].pos
      BY <1>1
    <2>10. x.pending <= e.pending + 1
      BY <1>1, <1>2, <2>2, <2>3, <2>5
    <2>11. r[N] = e /\ \A j \in 1 .. N - 1 : r[j] = d[j]
      BY <1>1, <2>1, <2>6
    <2>. HIDE DEF r, joins
    <2>12. r \in Seq(Space) /\ Len(r) = N /\ InOrder(r) /\ Spaces(r) = (Spaces(d) \ {d[N]}) \cup {e}
      BY <2>1, <2>5, <2>6, <2>8, <2>9, ReplaceSpace
    <2>. QED
      BY <2>1, <2>2, <2>5, <2>7, <2>10, <2>11, <2>12 DEF r, JoinsLast
  <1>3. CASE ~joins
    <2>1. PICK y : y = IF x.pending = 0 THEN 0 ELSE x.pending - 1
      OBVIOUS
    <2>2. /\ y \in 0 .. MaxFreePend /\ y \in Nat /\ x.pending <= y + 1 /\ y <= x.pending
          /\ x.pending # 0 => y + 1 = x.pending
      BY <1>1, <2>1, ConstantsAssumption
    <2>3. PICK e : e = [x EXCEPT !.pending = y]
      OBVIOUS
    <2>4. e \in Space /\ e.pos = x.pos /\ e.len = x.len /\ e.pending = y
      BY <2>2, <2>3, SpaceFields
    <2>5. r = Append(d, e)
      BY <1>3, <2>1, <2>3 DEF Merge
    <2>6. End(e) = End(x)
      BY <2>4 DEF End
    <2>7. N # 0 => ~(End(d[N]) = x.pos /\ x.pending \in {d[N].pending, d[N].pending + 1})
      BY <1>1, <1>3
    <2>. HIDE DEF r, joins
    <2>8. /\ r \in Seq(Space) /\ Len(r) = N + 1 /\ InOrder(r) /\ Spaces(r) = Spaces(d) \cup {e}
          /\ r[N + 1] = e /\ \A j \in 1 .. N : r[j] = d[j]
      BY <2>4, <2>5, AppendSpace
    <2>. QED
      BY <2>2, <2>4, <2>6, <2>7, <2>8 DEF r, Follows
  <1>. QED
    BY <1>2, <1>3

\* The first n spaces are the first n - 1 and one more.
LEMMA PrefixGrows ==
  ASSUME NEW s \in Seq(Space), NEW n \in 1 .. Len(s)
  PROVE  /\ Prefix(s, n) = Prefix(s, n - 1) \cup {s[n]}
         /\ Prefix(s, n) \in SUBSET Space /\ Prefix(s, n - 1) \in SUBSET Space
         /\ \A e \in Prefix(s, n - 1) : \E i \in 1 .. n - 1 : e = s[i]
  <1>1. n \in Nat /\ n \in 1 .. n /\ \A i \in 1 .. n - 1 : i \in 1 .. n /\ i \in 1 .. Len(s)
    OBVIOUS
  <1>2. \A i \in 1 .. n : i = n \/ i \in 1 .. n - 1
    OBVIOUS
  <1>3. \A i \in 1 .. n : i \in 1 .. Len(s) /\ s[i] \in Space
    OBVIOUS
  <1>4. Prefix(s, n) = Prefix(s, n - 1) \cup {s[n]}
    <2>1. ASSUME NEW e \in Prefix(s, n) PROVE e \in Prefix(s, n - 1) \cup {s[n]}
      <3>1. PICK i \in 1 .. n : e = s[i]
        BY DEF Prefix
      <3>. QED
        BY <1>2, <3>1 DEF Prefix
    <2>2. ASSUME NEW e \in Prefix(s, n - 1) \cup {s[n]} PROVE e \in Prefix(s, n)
      BY <1>1 DEF Prefix
    <2>. QED
      BY <2>1, <2>2
  <1>. QED
    BY <1>1, <1>3, <1>4 DEF Prefix

\* One step of the merge: the units stay, pending ones for one pass less.
LEMMA MergeKeeps ==
  ASSUME NEW s \in Seq(Space), InOrder(s), NEW n \in 1 .. Len(s), NEW d,
         Folded(s, n - 1, d)
  PROVE  Folded(s, n, Merge(d, s[n]))
  <1>1. PICK x \in Space : x = s[n]
    OBVIOUS
  <1>2. PICK r : r = Merge(d, x)
    OBVIOUS
  <1>3. PICK P \in SUBSET Space : P = Prefix(s, n - 1)
    BY PrefixGrows
  <1>4. Prefix(s, n) = P \cup {x} /\ P \cup {x} \in SUBSET Space
    BY <1>1, <1>3, PrefixGrows
  <1>5. /\ d \in Seq(Space) /\ InOrder(d)
        /\ Cover(Spaces(d)) = Cover(P)
        /\ \A m \in Nat : Held(P, m + 1) \subseteq Held(Spaces(d), m)
        /\ \A i \in 1 .. Len(d) : n - 1 # 0 /\ End(d[i]) <= End(s[n - 1])
        /\ Len(d) # 0 => End(d[Len(d)]) = End(s[n - 1])
        /\ \A q \in Nat : AtMost(P, q + 1) => AtMost(Spaces(d), q)
        /\ AtMost(P, 1) => Gaps(d)
    BY <1>3 DEF Folded
  <1>6. Spaces(d) \in SUBSET Space /\ \A i \in 1 .. Len(d) : d[i] \in Space /\ End(d[i]) \in Nat
        /\ Len(d) \in Nat
    <2>1. /\ Spaces(d) \in SUBSET Space /\ Len(d) \in Nat
          /\ \A i \in 1 .. Len(d) : d[i] \in Space
      BY <1>5, SpacesOf
    <2>2. ASSUME NEW i \in 1 .. Len(d) PROVE End(d[i]) \in Nat
      <3>1. d[i] \in Space
        BY <2>1
      <3>. QED
        BY <3>1, SpaceFields DEF End
    <2>. QED
      BY <2>1, <2>2
  <1>7. \A j \in 1 .. Len(d) : End(d[j]) <= x.pos
    <2>1. ASSUME NEW j \in 1 .. Len(d) PROVE End(d[j]) <= x.pos
      <3>1. n - 1 \in 1 .. Len(s) /\ n - 1 < n /\ End(d[j]) <= End(s[n - 1])
        BY <1>5
      <3>2. End(s[n - 1]) <= x.pos
        BY <1>1, <3>1, OrderedApart
      <3>3. End(s[n - 1]) \in Nat /\ x.pos \in Nat
        <4>1. s[n - 1] \in Space
          BY <3>1
        <4>. QED
          BY <4>1, SpaceFields DEF End
      <3>. QED
        BY <1>6, <3>1, <3>2, <3>3
    <2>. QED
      BY <2>1
  <1>8. x.pos \in Nat /\ x.len \in Nat /\ x.len # 0 /\ x.pending \in Nat /\ End(x) = x.pos + x.len
    BY SpaceFields DEF End
  <1>. DEFINE N == Len(d)
  <1>9. \A u : u \in Cover(P \cup {x}) <=> u \in Cover(P) \/ (u \in Nat /\ x.pos <= u /\ u < End(x))
    BY <1>4, CoverMember
  <1>10. \A m \in Nat : \A u : u \in Held(P \cup {x}, m + 1) =>
            u \in Held(P, m + 1) \/ (u \in Nat /\ x.pending >= m + 1 /\ x.pos <= u /\ u < End(x))
    <2>1. ASSUME NEW m \in Nat, NEW u \in Held(P \cup {x}, m + 1)
          PROVE  u \in Held(P, m + 1) \/ (u \in Nat /\ x.pending >= m + 1 /\ x.pos <= u /\ u < End(x))
      <3>1. m + 1 \in Int
        OBVIOUS
      <3>2. u \in Nat /\ \E y \in P \cup {x} : y.pending >= m + 1 /\ y.pos <= u /\ u < End(y)
        BY <1>4, <3>1, HeldMember
      <3>3. u \in Held(P, m + 1) <=> u \in Nat /\ \E y \in P : y.pending >= m + 1 /\ y.pos <= u /\ u < End(y)
        BY <3>1, HeldMember
      <3>. QED
        BY <3>2, <3>3
    <2>. QED
      BY <2>1
  <1>11. /\ \A u : u \in Cover(Spaces(d)) <=> u \in Nat /\ \E y \in Spaces(d) : y.pos <= u /\ u < End(y)
         /\ \A m \in Nat : \A u : u \in Held(Spaces(d), m) <=>
              u \in Nat /\ \E y \in Spaces(d) : y.pending >= m /\ y.pos <= u /\ u < End(y)
    BY <1>6, CoverMember, HeldMember
  <1>12. \A q \in Nat : AtMost(P \cup {x}, q + 1) => AtMost(P, q + 1) /\ x.pending <= q + 1
    BY DEF AtMost
  <1>13. AtMost(P \cup {x}, 1) => AtMost(P, 1) /\ x.pending <= 1 /\ AtMost(Spaces(d), 0) /\ Gaps(d)
    <2>1. 0 \in Nat /\ 0 + 1 = 1
      OBVIOUS
    <2>. QED
      BY <1>5, <1>12, <2>1
  <1>14. \A y \in Spaces(d) : y \in Space /\ \E j \in 1 .. N : y = d[j]
    BY <1>5, <1>6, SpacesOf
  <1>15. \A m \in Nat : \A u : u \in Held(P, m + 1) => u \in Held(Spaces(d), m)
    BY <1>5
  <1>16. PICK e \in Space : JoinsLast(d, x, r, e) \/ Follows(d, x, r, e)
    BY <1>2, <1>5, <1>7, MergeShape
  <1>17. e.pos \in Nat /\ e.len \in Nat /\ e.len # 0 /\ e.pending \in Nat /\ End(e) = End(x)
         /\ x.pending <= e.pending + 1 /\ r \in Seq(Space) /\ InOrder(r) /\ Len(r) # 0
         /\ r[Len(r)] = e
    <2>1. e.pos \in Nat /\ e.len \in Nat /\ e.len # 0 /\ e.pending \in Nat
      BY SpaceFields
    <2>. QED
      BY <1>6, <1>16, <2>1 DEF JoinsLast, Follows
  <1>18. Spaces(r) \in SUBSET Space
    BY <1>17, SpacesOf
  <1>19. /\ \A u : u \in Cover(Spaces(r)) <=> u \in Nat /\ \E y \in Spaces(r) : y.pos <= u /\ u < End(y)
         /\ \A m \in Nat : \A u : u \in Held(Spaces(r), m) <=>
              u \in Nat /\ \E y \in Spaces(r) : y.pending >= m /\ y.pos <= u /\ u < End(y)
    BY <1>18, CoverMember, HeldMember
  <1>20. /\ \A u : u \in Cover(Spaces(r)) <=> u \in Cover(Spaces(d)) \/ (u \in Nat /\ x.pos <= u /\ u < End(x))
         /\ \A m \in Nat : \A u : u \in Held(Spaces(d), m) => u \in Held(Spaces(r), m)
         /\ \A u \in Nat : x.pos <= u /\ u < End(x) => e.pos <= u /\ u < End(e)
         /\ e \in Spaces(r)
    <2>1. CASE JoinsLast(d, x, r, e)
      <3>1. PICK a \in Spaces(d) : a = d[N] /\ a \in Space
        BY <1>6, <2>1, <1>5, SpacesOf DEF JoinsLast
      <3>2. a.pos \in Nat /\ a.len \in Nat /\ a.len # 0 /\ a.pending \in Nat /\ End(a) = a.pos + a.len
            /\ e.pending = a.pending /\ e.pos = a.pos /\ End(a) = x.pos
        <4>1. a.pos \in Nat /\ a.len \in Nat /\ a.len # 0 /\ a.pending \in Nat
          BY <3>1, SpaceFields
        <4>. QED
          BY <2>1, <3>1, <4>1 DEF JoinsLast, End
      <3>3. Spaces(r) = (Spaces(d) \ {a}) \cup {e}
        BY <2>1, <3>1 DEF JoinsLast
      <3>4. \A u \in Nat : e.pos <= u /\ u < End(e) <=> (a.pos <= u /\ u < End(a)) \/ (x.pos <= u /\ u < End(x))
        <4>1. /\ x.pos \in Nat /\ End(x) \in Nat /\ x.pos <= End(x)
              /\ e.pos = a.pos /\ End(e) = End(x) /\ End(a) = x.pos /\ a.pos <= End(a) /\ a.pos \in Nat
          <5>1. x.pos \in Nat /\ End(x) \in Nat /\ x.pos <= End(x)
            BY <1>8
          <5>2. e.pos = a.pos /\ End(e) = End(x) /\ End(a) = x.pos /\ a.pos \in Nat
            BY <1>17, <3>2
          <5>3. a.pos <= End(a)
            BY <3>2
          <5>. QED
            BY <5>1, <5>2, <5>3
        <4>. QED
          BY <4>1
      <3>5. ASSUME NEW u \in Cover(Spaces(r))
            PROVE  u \in Cover(Spaces(d)) \/ (u \in Nat /\ x.pos <= u /\ u < End(x))
        <4>1. u \in Nat
          BY <1>19
        <4>2. PICK y \in Spaces(r) : y.pos <= u /\ u < End(y)
          BY <1>19
        <4>3. CASE y = e
          BY <1>11, <3>1, <3>4, <4>1, <4>2, <4>3
        <4>4. CASE y # e
          BY <1>11, <3>3, <4>1, <4>2, <4>4
        <4>. QED
          BY <4>3, <4>4
      <3>6. ASSUME NEW u, u \in Cover(Spaces(d)) \/ (u \in Nat /\ x.pos <= u /\ u < End(x))
            PROVE  u \in Cover(Spaces(r))
        <4>1. CASE u \in Nat /\ x.pos <= u /\ u < End(x)
          BY <1>19, <3>3, <3>4, <4>1
        <4>2. CASE u \in Cover(Spaces(d))
          <5>1. u \in Nat
            BY <1>11, <4>2
          <5>2. PICK y \in Spaces(d) : y.pos <= u /\ u < End(y)
            BY <1>11, <4>2
          <5>3. CASE y = a
            BY <1>19, <3>3, <3>4, <5>1, <5>2, <5>3
          <5>4. CASE y # a
            BY <1>19, <3>3, <5>1, <5>2, <5>4
          <5>. QED
            BY <5>3, <5>4
        <4>. QED
          BY <3>6, <4>1, <4>2
      <3>7. ASSUME NEW m \in Nat, NEW u \in Held(Spaces(d), m) PROVE u \in Held(Spaces(r), m)
        <4>1. u \in Nat
          BY <1>11
        <4>2. PICK y \in Spaces(d) : y.pending >= m /\ y.pos <= u /\ u < End(y)
          BY <1>11
        <4>3. CASE y = a
          BY <1>19, <3>2, <3>3, <3>4, <4>1, <4>2, <4>3
        <4>4. CASE y # a
          BY <1>19, <3>3, <4>1, <4>2, <4>4
        <4>. QED
          BY <4>3, <4>4
      <3>. QED
        BY <3>3, <3>4, <3>5, <3>6, <3>7
    <2>2. CASE Follows(d, x, r, e)
      <3>1. Spaces(r) = Spaces(d) \cup {e} /\ e.pos = x.pos
        BY <2>2 DEF Follows
      <3>2. ASSUME NEW u \in Cover(Spaces(r))
            PROVE  u \in Cover(Spaces(d)) \/ (u \in Nat /\ x.pos <= u /\ u < End(x))
        <4>1. u \in Nat
          BY <1>19
        <4>2. PICK y \in Spaces(r) : y.pos <= u /\ u < End(y)
          BY <1>19
        <4>. QED
          BY <1>11, <1>17, <3>1, <4>1, <4>2
      <3>3. ASSUME NEW u, u \in Cover(Spaces(d)) \/ (u \in Nat /\ x.pos <= u /\ u < End(x))
            PROVE  u \in Cover(Spaces(r))
        BY <1>11, <1>17, <1>19, <3>1, <3>3
      <3>4. ASSUME NEW m \in Nat, NEW u \in Held(Spaces(d), m) PROVE u \in Held(Spaces(r), m)
        BY <1>11, <1>19, <3>1
      <3>. QED
        BY <1>17, <3>1, <3>2, <3>3, <3>4
    <2>. QED
      BY <1>16, <2>1, <2>2
  <1>21. Cover(Spaces(r)) = Cover(P \cup {x})
    BY <1>5, <1>9, <1>20
  <1>22. ASSUME NEW m \in Nat, NEW u \in Held(P \cup {x}, m + 1) PROVE u \in Held(Spaces(r), m)
    <2>1. CASE u \in Held(P, m + 1)
      BY <1>15, <1>20, <2>1
    <2>2. CASE u \in Nat /\ x.pending >= m + 1 /\ x.pos <= u /\ u < End(x)
      <3>1. e.pending >= m
        <4>1. x.pending <= e.pending + 1 /\ e.pending \in Nat /\ x.pending \in Nat
          BY <1>8, <1>17
        <4>. QED
          BY <2>2, <4>1
      <3>. QED
        BY <1>19, <1>20, <2>2, <3>1
    <2>. QED
      BY <1>10, <2>1, <2>2
  <1>23. \A y \in Spaces(r) : y = e \/ y \in Spaces(d)
    BY <1>16 DEF JoinsLast, Follows
  <1>24. ASSUME NEW i \in 1 .. Len(r) PROVE End(r[i]) <= End(x)
    <2>1. r[i] \in Spaces(r)
      BY <1>17, SpacesOf
    <2>2. CASE r[i] = e
      BY <1>8, <1>17, <2>2
    <2>3. CASE r[i] # e
      <3>1. r[i] \in Spaces(d)
        BY <1>23, <2>1, <2>3
      <3>2. PICK j \in 1 .. N : r[i] = d[j]
        BY <1>14, <3>1
      <3>3. End(d[j]) <= x.pos /\ End(d[j]) \in Nat
        BY <1>6, <1>7
      <3>. QED
        BY <1>8, <3>2, <3>3
    <2>. QED
      BY <2>2, <2>3
  <1>25. ASSUME NEW q \in Nat, AtMost(P \cup {x}, q + 1) PROVE AtMost(Spaces(r), q)
    <2>1. AtMost(Spaces(d), q) /\ x.pending <= q + 1
      BY <1>5, <1>12, <1>25
    <2>2. e.pending <= q
      <3>1. CASE JoinsLast(d, x, r, e)
        BY <1>5, <1>6, <2>1, <3>1, SpacesOf DEF JoinsLast, AtMost
      <3>2. CASE Follows(d, x, r, e)
        <4>1. CASE x.pending = 0
          BY <1>8, <1>17, <3>2, <4>1 DEF Follows
        <4>2. CASE x.pending # 0
          BY <1>8, <1>17, <2>1, <3>2, <4>2 DEF Follows
        <4>. QED
          BY <4>1, <4>2
      <3>. QED
        BY <1>16, <3>1, <3>2
    <2>. QED
      BY <1>23, <2>1, <2>2 DEF AtMost
  <1>26. ASSUME AtMost(P \cup {x}, 1) PROVE Gaps(r)
    <2>1. x.pending <= 1 /\ AtMost(Spaces(d), 0) /\ Gaps(d)
      BY <1>13, <1>26
    <2>2. CASE JoinsLast(d, x, r, e)
      <3>1. Len(r) = N /\ e.pos = d[N].pos /\ r[N] = e /\ \A j \in 1 .. N - 1 : r[j] = d[j]
        BY <2>2 DEF JoinsLast
      <3>2. ASSUME NEW i \in 1 .. N - 1 PROVE End(r[i]) < r[i + 1].pos
        <4>1. End(d[i]) < d[i + 1].pos /\ r[i] = d[i]
          BY <2>1, <3>1 DEF Gaps
        <4>2. CASE i + 1 = N
          BY <3>1, <4>1, <4>2
        <4>3. CASE i + 1 # N
          <5>1. i + 1 \in 1 .. N - 1
            BY <1>6, <4>3
          <5>2. r[i + 1] = d[i + 1]
            BY <3>1, <5>1
          <5>. QED
            BY <4>1, <5>2
        <4>. QED
          BY <4>2, <4>3
      <3>. QED
        BY <3>1, <3>2 DEF Gaps
    <2>3. CASE Follows(d, x, r, e)
      <3>1. /\ Len(r) = N + 1 /\ e.pos = x.pos /\ r[N + 1] = e
            /\ \A j \in 1 .. N : r[j] = d[j]
            /\ N # 0 => ~(End(d[N]) = x.pos /\ x.pending \in {d[N].pending, d[N].pending + 1})
        BY <2>3 DEF Follows
      <3>2. ASSUME NEW i \in 1 .. N PROVE End(r[i]) < r[i + 1].pos
        <4>1. CASE i = N
          <5>1. d[N] \in Space /\ d[N] \in Spaces(d) /\ End(d[N]) <= x.pos /\ End(d[N]) \in Nat /\ N # 0
            BY <1>5, <1>6, <1>7, <4>1, SpacesOf
          <5>2. d[N].pending = 0
            <6>1. d[N].pending <= 0 /\ d[N].pending \in Nat
              BY <2>1, <5>1, SpaceFields DEF AtMost
            <6>. QED
              BY <6>1
          <5>3. x.pending \in {d[N].pending, d[N].pending + 1}
            BY <1>8, <2>1, <5>2
          <5>4. End(d[N]) # x.pos
            BY <3>1, <5>1, <5>3
          <5>. QED
            BY <1>8, <3>1, <4>1, <5>1, <5>4
        <4>2. CASE i # N
          <5>1. i \in 1 .. N - 1 /\ i + 1 \in 1 .. N
            BY <1>6, <4>2
          <5>. QED
            BY <2>1, <3>1, <5>1 DEF Gaps
        <4>. QED
          BY <4>1, <4>2
      <3>3. Len(r) - 1 = N
        BY <1>6, <3>1
      <3>. QED
        BY <3>2, <3>3 DEF Gaps
    <2>. QED
      BY <1>16, <2>2, <2>3
  <1>. QED
    <2>1. n # 0 /\ \A i \in 1 .. Len(r) : End(r[i]) <= End(s[n])
      BY <1>1, <1>24
    <2>2. End(r[Len(r)]) = End(s[n])
      BY <1>1, <1>17
    <2>3. Folded(s, n, r)
      BY <1>4, <1>17, <1>21, <1>22, <1>25, <1>26, <2>1, <2>2 DEF Folded
    <2>. QED
      BY <1>1, <1>2, <2>3

\* So the whole chain is merged, for any length.
LEMMA MergedFolds ==
  ASSUME NEW s \in Seq(Space), InOrder(s)
  PROVE  /\ Folded(s, Len(s), Merged(s)[Len(s)])
         /\ Prefix(s, Len(s)) = Spaces(s)
  <1>1. Len(s) \in Nat /\ 0 \in 0 .. Len(s) /\ Len(s) \in 0 .. Len(s)
    OBVIOUS
  <1>2. Folded(s, 0, <<>>)
    <2>1. Prefix(s, 0) = {} /\ Spaces(<<>>) = {}
      BY DEF Prefix, Spaces
    <2>2. <<>> \in Seq(Space) /\ Len(<<>>) = 0 /\ InOrder(<<>>) /\ Gaps(<<>>)
      BY DEF InOrder, Gaps
    <2>3. AtMost({}, 0) /\ \A q : AtMost({}, q)
      BY DEF AtMost
    <2>4. \A m : Held({}, m) = {}
      BY DEF Held, Cover
    <2>5. \A i \in 1 .. 0 : FALSE
      OBVIOUS
    <2>. QED
      BY <2>1, <2>2, <2>3, <2>4, <2>5 DEF Folded
  <1>. DEFINE Bad == {k \in 0 .. Len(s) : ~Folded(s, k, Merged(s)[k])}
  <1>3. ASSUME Bad # {} PROVE FALSE
    <2>1. PICK k \in Bad : \A j \in Bad : k <= j
      <3>. HIDE DEF Bad
      <3>1. Bad \in SUBSET Nat
        BY DEF Bad
      <3>. QED
        BY <1>3, <3>1, MinIsLeast
    <2>2. k # 0
      BY <1>2, <2>1, MergedStep
    <2>3. k \in 1 .. Len(s) /\ k - 1 \in 0 .. Len(s) /\ ~(k <= k - 1)
      BY <1>1, <2>1, <2>2
    <2>4. PICK d : d = Merged(s)[k - 1]
      OBVIOUS
    <2>5. Folded(s, k - 1, d)
      BY <2>1, <2>3, <2>4
    <2>6. Folded(s, k, Merge(d, s[k]))
      BY <2>3, <2>5, MergeKeeps
    <2>7. Merged(s)[k] = Merge(d, s[k])
      BY <2>3, <2>4, MergedStep
    <2>. QED
      BY <2>1, <2>6, <2>7
  <1>4. Prefix(s, Len(s)) = Spaces(s)
    BY SpacesOf DEF Prefix, Spaces
  <1>. QED
    BY <1>1, <1>3, <1>4

\* The last space of an ordered chain is cut off.
LEMMA FrontSpaces ==
  ASSUME NEW d \in Seq(Space), InOrder(d), Len(d) # 0
  PROVE  LET r == Front(d)
             a == Last(d)
         IN  /\ r \in Seq(Space) /\ Len(r) = Len(d) - 1 /\ InOrder(r)
             /\ \A j \in 1 .. Len(d) - 1 : r[j] = d[j]
             /\ a \in Spaces(d) /\ a \in Space
             /\ Spaces(r) = Spaces(d) \ {a}
             /\ \A e \in Spaces(r) : End(e) <= a.pos
  <1>. DEFINE r == Front(d)
              N == Len(d)
  <1>1. PICK a : a = Last(d)
    OBVIOUS
  <1>2. a = d[N] /\ N \in Nat /\ N - 1 \in Nat /\ N \in 1 .. N
    BY <1>1 DEF Last
  <1>3. /\ \A j \in 1 .. N : j \in 1 .. N - 1 \/ j = N
        /\ \A j \in 1 .. N - 1 : j \in 1 .. N /\ j < N /\ j # N
    BY <1>2
  <1>4. r \in Seq(Space) /\ Len(r) = N - 1 /\ DOMAIN r = 1 .. N - 1
        /\ \A j \in 1 .. N - 1 : r[j] = d[j]
    <2>4. PICK k : k = N - 1
      OBVIOUS
    <2>1. k \in Nat /\ k = N - 1 /\ k <= N
      BY <1>2, <2>4
    <2>2. r = SubSeq(d, 1, k)
      BY <2>1 DEF Front
    <2>. HIDE DEF r
    <2>3. r \in Seq(Space) /\ Len(r) = k /\ \A j \in 1 .. k : r[j] = d[j]
      BY <2>1, <2>2
    <2>. QED
      BY <2>1, <2>3
  <1>5. /\ \A j, k \in 1 .. N : j < k => End(d[j]) <= d[k].pos
        /\ \A j, k \in 1 .. N : d[j] = d[k] => j = k
    BY OrderedApart
  <1>. HIDE DEF r
  <1>6. InOrder(r)
    BY <1>3, <1>4, <1>5 DEF InOrder
  <1>7. \A x : x \in Spaces(d) <=> \E j \in 1 .. N : x = d[j]
    BY SpacesOf DEF Spaces
  <1>8. \A x : x \in Spaces(r) <=> \E j \in 1 .. N - 1 : x = r[j]
    BY <1>4 DEF Spaces
  <1>9. Spaces(r) = Spaces(d) \ {a}
    <2>1. ASSUME NEW x \in Spaces(r) PROVE x \in Spaces(d) \ {a}
      BY <1>2, <1>3, <1>4, <1>5, <1>7, <1>8
    <2>2. ASSUME NEW x \in Spaces(d) \ {a} PROVE x \in Spaces(r)
      BY <1>2, <1>3, <1>4, <1>7, <1>8
    <2>. QED
      BY <2>1, <2>2
  <1>10. \A e \in Spaces(r) : End(e) <= a.pos
    BY <1>2, <1>3, <1>4, <1>5, <1>8
  <1>11. a \in Spaces(d) /\ a \in Space
    BY <1>2, <1>7, SpacesOf
  <1>. QED
    BY <1>1, <1>4, <1>6, <1>9, <1>10, <1>11 DEF r

\* What cckd_flush_space does to the pending spaces
Flushes(f, h) ==
  /\ SameTables(f, h)
  /\ \A m \in Nat : m # 0 => Held(Spaces(f.free), m + 1) \subseteq Held(Spaces(h.free), m)
  /\ \A q \in Nat : AtMost(Spaces(f.free), q + 1) => AtMost(Spaces(h.free), q)
  /\ AtMost(Spaces(f.free), 1) => Gaps(h.free)

\* cckd_flush_space as a whole, with what it cuts off the file
LEMMA FlushSpaceKeeps ==
  ASSUME NEW f, NEW U, NEW K \in Int, Kept(f, U, K)
  PROVE  Kept(FlushSpace(f), U, K) /\ Flushes(f, FlushSpace(f))
  <1>1. /\ f \in FileRec /\ f.free \in Seq(Space) /\ InOrder(f.free) /\ f.size \in Nat
        /\ f.size \in 0 .. MaxSize
        /\ U \in SUBSET Nat /\ Spaces(f.free) \in SUBSET Space
        /\ IsFiniteSet(Cover(Spaces(f.free))) /\ Cardinality(Cover(Spaces(f.free))) \in Nat
    BY KeptFacts
  <1>2. PICK s \in Seq(Space) : s = f.free
    BY <1>1
  <1>3. PICK d : d = Merged(s)[Len(s)]
    OBVIOUS
  <1>4. PICK N : N = Len(s)
    OBVIOUS
  <1>5. Folded(s, N, d) /\ Prefix(s, N) = Spaces(s)
    BY <1>1, <1>2, <1>3, <1>4, MergedFolds
  <1>. DEFINE D == Spaces(d)
  <1>6. /\ d \in Seq(Space) /\ InOrder(d) /\ Cover(D) = Cover(Spaces(s))
        /\ \A m \in Nat : Held(Spaces(s), m + 1) \subseteq Held(D, m)
        /\ \A q \in Nat : AtMost(Spaces(s), q + 1) => AtMost(D, q)
        /\ AtMost(Spaces(s), 1) => Gaps(d)
    BY <1>5 DEF Folded
  <1>7. PICK c : c = [f EXCEPT !.free = d]
    OBVIOUS
  <1>8. /\ c.free = d /\ c.size = f.size /\ c.total = f.total /\ c.used = f.used /\ c.imbed = f.imbed
        /\ c \in FileRec /\ c.l1 = f.l1 /\ c.l2 = f.l2 /\ c.bounds = f.bounds /\ c.l2ok = f.l2ok
    BY <1>1, <1>6, <1>7 DEF FileRec
  <1>9. [f EXCEPT !.free = Merged(@)[Len(@)]] = c
    BY <1>2, <1>3, <1>7
  <1>10. PICK g : g = IF AtEnd(c) THEN Truncated(c) ELSE c
    OBVIOUS
  <1>11. FlushSpace(f) = [g EXCEPT !.number = Len(g.free), !.largest = Largest(g.free)]
    BY <1>9, <1>10 DEF FlushSpace
  <1>12. D \in SUBSET Space /\ \A u : u \in Cover(D) <=> u \in Nat /\ \E y \in D : y.pos <= u /\ u < End(y)
    BY <1>6, SpacesOf, CoverMember
  <1>13. /\ Cover(D) \cap U = {} /\ Cover(D) \cup U = 0 .. f.size - 1
         /\ f.imbed = K /\ f.total = Cardinality(Cover(D)) + K /\ f.used = f.size - f.total
    BY <1>2, <1>6 DEF Kept
  <1>14. IsFiniteSet(Cover(D)) /\ Cardinality(Cover(D)) \in Nat
    BY <1>1, <1>2, <1>6
  <1>. HIDE DEF D
  <1>15. /\ g \in FileRec /\ g.free \in Seq(Space) /\ InOrder(g.free)
         /\ g.size \in 0 .. MaxSize
         /\ Cover(Spaces(g.free)) \cap U = {} /\ Cover(Spaces(g.free)) \cup U = 0 .. g.size - 1
         /\ g.imbed = K /\ g.total = Cardinality(Cover(Spaces(g.free))) + K /\ g.used = g.size - g.total
         /\ SameTables(f, g)
         /\ \A m \in Nat : m # 0 => Held(D, m) \subseteq Held(Spaces(g.free), m)
         /\ Spaces(g.free) \subseteq D
         /\ Gaps(d) => Gaps(g.free)
    <2>1. CASE ~AtEnd(c)
      <3>1. g = c /\ Spaces(g.free) = D
        BY <1>8, <1>10, <2>1 DEF D
      <3>. QED
        BY <1>1, <1>6, <1>8, <1>13, <3>1 DEF SameTables
    <2>2. CASE AtEnd(c)
      <3>1. d # <<>> /\ End(Last(d)) = f.size /\ Last(d).pending = 0
        BY <1>8, <2>2 DEF AtEnd
      <3>2. Len(d) # 0
        BY <1>6, <3>1
      <3>3. PICK a \in D : a = Last(d) /\ a \in Space
        BY <1>6, <3>2, FrontSpaces DEF D
      <3>4. PICK r : r = Front(d)
        OBVIOUS
      <3>5. /\ r \in Seq(Space) /\ Len(r) = Len(d) - 1 /\ InOrder(r)
            /\ \A j \in 1 .. Len(d) - 1 : r[j] = d[j]
            /\ Spaces(r) = D \ {a}
            /\ \A e \in Spaces(r) : End(e) <= a.pos
        BY <1>6, <3>2, <3>3, <3>4, FrontSpaces DEF D
      <3>6. a.pos \in Nat /\ a.len \in Nat /\ a.len # 0 /\ End(a) = a.pos + a.len
            /\ a.pos + a.len = f.size /\ a.pending = 0
        <4>1. a.pos \in Nat /\ a.len \in Nat /\ a.len # 0
          BY <3>3, SpaceFields
        <4>. QED
          BY <3>1, <3>3, <4>1 DEF End
      <3>7. Spaces(r) \in SUBSET Space
        BY <3>5, SpacesOf
      <3>8. \A u : u \in Cover(Spaces(r)) <=> u \in Nat /\ \E y \in Spaces(r) : y.pos <= u /\ u < End(y)
        BY <3>7, CoverMember
      <3>9. \A u : u \in Units(a.pos, a.len) <=> u \in Nat /\ a.pos <= u /\ u < f.size
        <4>1. \A u : u \in Units(a.pos, a.len) <=> u \in Int /\ a.pos <= u /\ u < a.pos + a.len
          BY <3>6, UnitsMember
        <4>. QED
          BY <3>6, <4>1
      <3>10. \A y \in Spaces(r) : y.pos \in Nat /\ End(y) \in Nat /\ End(y) <= a.pos
        <4>1. \A y \in Spaces(r) : y \in Space
          BY <3>7
        <4>. QED
          BY <3>5, <4>1, SpaceFields DEF End
      <3>11. \A u : u \in Cover(Spaces(r)) <=> u \in Cover(D) /\ u < a.pos
        <4>1. ASSUME NEW u \in Cover(Spaces(r)) PROVE u \in Cover(D) /\ u < a.pos
          <5>1. u \in Nat
            BY <3>8
          <5>2. PICK y \in Spaces(r) : y.pos <= u /\ u < End(y)
            BY <3>8
          <5>3. y \in D /\ End(y) \in Nat /\ End(y) <= a.pos /\ y.pos \in Nat
            BY <3>5, <3>10
          <5>4. u < a.pos
            BY <3>6, <5>1, <5>2, <5>3
          <5>. QED
            BY <1>12, <5>1, <5>2, <5>3, <5>4
        <4>2. ASSUME NEW u \in Cover(D), u < a.pos PROVE u \in Cover(Spaces(r))
          <5>1. u \in Nat
            BY <1>12
          <5>2. PICK y \in D : y.pos <= u /\ u < End(y)
            BY <1>12
          <5>3. y # a
            BY <3>6, <4>2, <5>1, <5>2
          <5>. QED
            BY <3>5, <3>8, <5>1, <5>2, <5>3
        <4>. QED
          BY <4>1, <4>2
      <3>12. Cover(D) = Cover(Spaces(r)) \cup Units(a.pos, a.len)
             /\ Cover(Spaces(r)) \cap Units(a.pos, a.len) = {}
        <4>1. \A u \in Cover(D) : u \in Nat /\ u < f.size
          BY <1>1, <1>12, <1>13
        <4>2. \A u \in Units(a.pos, a.len) : u \in Cover(D) /\ ~(u < a.pos)
          BY <1>12, <3>3, <3>6, <3>9
        <4>3. ASSUME NEW u \in Cover(D) PROVE u \in Cover(Spaces(r)) \cup Units(a.pos, a.len)
          BY <3>6, <3>9, <3>11, <4>1
        <4>. QED
          BY <3>11, <4>2, <4>3
      <3>13. IsFiniteSet(Cover(Spaces(r)))
        BY <1>14, <3>12, FS_Subset
      <3>14. Cardinality(Cover(Spaces(r))) \in Nat
             /\ Cardinality(Cover(D)) = Cardinality(Cover(Spaces(r))) + a.len
        <4>1. IsFiniteSet(Units(a.pos, a.len)) /\ Cardinality(Units(a.pos, a.len)) = a.len
          BY <3>6, UnitsMember
        <4>2. Cardinality(Cover(Spaces(r)) \cup Units(a.pos, a.len))
              = Cardinality(Cover(Spaces(r))) + Cardinality(Units(a.pos, a.len))
                - Cardinality(Cover(Spaces(r)) \cap Units(a.pos, a.len))
          BY <3>13, <4>1, FS_Union
        <4>3. Cardinality(Cover(Spaces(r)) \cap Units(a.pos, a.len)) = 0
          BY <3>12, FS_EmptySet
        <4>4. Cardinality(Cover(Spaces(r))) \in Nat
          BY <3>13, FS_CardinalityType
        <4>. QED
          BY <3>6, <3>12, <4>1, <4>2, <4>3, <4>4
      <3>15. g = [c EXCEPT !.free = r, !.size = @ - a.len, !.total = @ - a.len]
        BY <1>8, <1>10, <2>2, <3>3, <3>4 DEF Truncated
      <3>16. /\ g.free = r /\ g.size = f.size - a.len /\ g.total = f.total - a.len /\ g.used = f.used
             /\ g.imbed = f.imbed /\ SameTables(f, g) /\ g \in FileRec
        <4>1. c.size \in Int /\ c.total \in Int /\ c.size - a.len \in Int /\ c.total - a.len \in Int
          <5>1. c.size \in Int /\ c.total \in Int
            BY <1>8 DEF FileRec
          <5>. QED
            BY <3>6, <5>1
        <4>. QED
          BY <1>8, <3>5, <3>15, <4>1 DEF FileRec, SameTables
      <3>17. g.size = a.pos /\ g.size \in 0 .. MaxSize
        <4>1. MaxSize \in Nat
          BY ConstantsAssumption
        <4>. QED
          BY <1>1, <3>6, <3>16, <4>1
      <3>18. Cover(Spaces(r)) \cap U = {} /\ Cover(Spaces(r)) \cup U = 0 .. a.pos - 1
        <4>1. Cover(Spaces(r)) \cap U = {} /\ Units(a.pos, a.len) \cap U = {}
          BY <1>13, <3>12
        <4>2. \A u \in U : u \in Nat /\ u < a.pos
          <5>1. \A u \in U : u \in Nat /\ u < f.size
            BY <1>1, <1>13
          <5>. QED
            BY <3>6, <3>9, <4>1, <5>1
        <4>3. ASSUME NEW u \in 0 .. a.pos - 1 PROVE u \in Cover(Spaces(r)) \cup U
          <5>1. u \in 0 .. f.size - 1 /\ u < a.pos
            BY <3>6
          <5>. QED
            BY <1>13, <3>11, <5>1
        <4>4. ASSUME NEW u \in Cover(Spaces(r)) \cup U PROVE u \in 0 .. a.pos - 1
          <5>1. u \in Nat /\ u < a.pos
            BY <1>12, <3>11, <4>2
          <5>. QED
            BY <3>6, <5>1
        <4>. QED
          BY <4>1, <4>3, <4>4
      <3>19. g.total = Cardinality(Cover(Spaces(r))) + K /\ g.used = g.size - g.total
        <4>1. f.total \in Int /\ f.used \in Int
          BY <1>1 DEF FileRec
        <4>2. g.total = f.total - a.len /\ g.used = f.used /\ g.size = f.size - a.len /\ a.len \in Nat
          BY <3>6, <3>16
        <4>3. g.total = Cardinality(Cover(Spaces(r))) + K
          BY <1>1, <1>13, <3>6, <3>14, <4>2
        <4>4. f.used = f.size - f.total /\ f.size \in Int
          BY <1>1, <1>13
        <4>5. g.used = g.size - g.total
          BY <4>1, <4>2, <4>4
        <4>. QED
          BY <4>3, <4>5
      <3>20. ASSUME NEW m \in Nat, m # 0 PROVE Held(D, m) \subseteq Held(Spaces(r), m)
        <4>1. \A y \in D : y.pending >= m => y \in Spaces(r)
          BY <3>5, <3>6, <3>20
        <4>. QED
          BY <4>1 DEF Held, Cover
      <3>21. Gaps(d) => Gaps(r)
        <4>1. Len(d) \in Nat /\ Len(r) - 1 = Len(d) - 2
          BY <1>6, <3>5
        <4>2. \A i \in 1 .. Len(d) - 2 : i \in 1 .. Len(d) - 1 /\ i + 1 \in 1 .. Len(d) - 1
          BY <4>1
        <4>. QED
          BY <3>5, <4>1, <4>2 DEF Gaps
      <3>. QED
        BY <1>13, <3>5, <3>16, <3>17, <3>18, <3>19, <3>20, <3>21
    <2>. QED
      BY <2>1, <2>2
  <1>16. PICK h : h = FlushSpace(f)
    OBVIOUS
  <1>17. \A e \in Spaces(g.free) : e.len <= g.size
    <2>1. ASSUME NEW e \in Spaces(g.free) PROVE e.len <= g.size
      <3>1. Spaces(g.free) \in SUBSET Space
        BY <1>15, SpacesOf
      <3>2. e \in Space /\ e.pos \in Nat /\ e.len \in Nat /\ e.len # 0 /\ End(e) = e.pos + e.len
        BY <3>1, SpaceFields DEF End
      <3>3. End(e) - 1 \in Nat /\ e.pos <= End(e) - 1 /\ End(e) - 1 < End(e)
        BY <3>2
      <3>4. End(e) - 1 \in Cover(Spaces(g.free))
        BY <3>1, <3>3, CoverMember
      <3>5. End(e) - 1 \in 0 .. g.size - 1
        BY <1>15, <3>4
      <3>6. g.size \in Nat
        BY <1>15, ConstantsAssumption
      <3>. QED
        BY <3>2, <3>5, <3>6
    <2>. QED
      BY <2>1
  <1>18. Largest(g.free) \in Nat /\ Len(g.free) \in Nat
    <2>1. g.size \in Nat
      BY <1>15, ConstantsAssumption
    <2>. QED
      BY <1>15, <1>17, <2>1, LargestFound
  <1>19. /\ h \in FileRec /\ h.free = g.free /\ h.size = g.size /\ h.used = g.used /\ h.total = g.total
         /\ h.imbed = g.imbed /\ h.number = Len(g.free) /\ h.largest = Largest(g.free)
         /\ h.l1 = g.l1 /\ h.l2 = g.l2 /\ h.bounds = g.bounds /\ h.l2ok = g.l2ok
    <2>1. Largest(g.free) \in Int /\ Len(g.free) \in Int
      BY <1>18
    <2>. QED
      BY <1>11, <1>15, <1>16, <2>1 DEF FileRec
  <1>20. Kept(h, U, K)
    BY <1>15, <1>19 DEF Kept
  <1>21. SameTables(f, h)
    BY <1>15, <1>19 DEF SameTables
  <1>22. ASSUME NEW m \in Nat, m # 0 PROVE Held(Spaces(f.free), m + 1) \subseteq Held(Spaces(h.free), m)
    BY <1>2, <1>6, <1>15, <1>19, <1>22 DEF D
  <1>23. ASSUME NEW q \in Nat, AtMost(Spaces(f.free), q + 1) PROVE AtMost(Spaces(h.free), q)
    <2>1. AtMost(D, q)
      BY <1>2, <1>6, <1>23 DEF D
    <2>. QED
      BY <1>15, <1>19, <2>1 DEF AtMost
  <1>24. AtMost(Spaces(f.free), 1) => Gaps(h.free)
    BY <1>2, <1>6, <1>15, <1>19
  <1>. QED
    BY <1>16, <1>20, <1>21, <1>22, <1>23, <1>24 DEF Flushes

\* One flush more
LEMMA FlushedStep ==
  ASSUME NEW f, NEW U, NEW K \in Int, Kept(f, U, K)
  PROVE  /\ Flushed(f)[0] = f
         /\ \A n \in 1 .. MaxFreePend : Flushed(f)[n] = FlushSpace(Flushed(f)[n - 1])
  <1>. DEFINE N == MaxFreePend
              X == {g \in FileRec : Kept(g, U, K)}
              step == [p \in (1 .. N) \X X |-> FlushSpace(p[2])]
              Solved(g) == g = [n \in 0 .. N |-> IF n = 0 THEN f ELSE FlushSpace(g[n - 1])]
  <1>1. N \in Nat /\ f \in X /\ step \in [(1 .. N) \X X -> X]
    <2>1. ASSUME NEW p \in (1 .. N) \X X PROVE FlushSpace(p[2]) \in X
      <3>1. PICK g \in X : g = p[2]
        OBVIOUS
      <3>2. Kept(FlushSpace(g), U, K)
        BY FlushSpaceKeeps
      <3>3. FlushSpace(g) \in FileRec
        BY <3>2, KeptFacts
      <3>. QED
        BY <3>1, <3>2, <3>3
    <2>2. f \in X
      BY KeptFacts
    <2>. HIDE DEF X
    <2>. QED
      BY <2>1, <2>2, ConstantsAssumption
  <1>2. PICK g \in [0 .. N -> X] : g[0] = f /\ \A n \in 1 .. N : g[n] = step[<<n, g[n - 1]>>]
    <2>. HIDE DEF X, N, step
    <2>1. \E g \in [0 .. N -> X] : Recursion(g, N, f, step)
      BY <1>1, RecursionSolved
    <2>. QED
      BY <2>1 DEF Recursion
  <1>. HIDE DEF X
  <1>3. ASSUME NEW n \in 1 .. N PROVE n - 1 \in 0 .. N /\ g[n] = FlushSpace(g[n - 1])
    <2>1. n - 1 \in 0 .. N
      BY <1>1
    <2>2. g[n - 1] \in X
      BY <2>1, <1>2
    <2>3. step[<<n, g[n - 1]>>] = FlushSpace(g[n - 1])
      BY <2>2
    <2>. QED
      BY <1>2, <2>1, <2>3
  <1>4. Solved(g)
    BY <1>1, <1>2, <1>3
  <1>5. Solved(Flushed(f))
    BY <1>4 DEF Flushed
  <1>. HIDE DEF N
  <1>6. 0 \in 0 .. N /\ \A n \in 1 .. N : n \in 0 .. N /\ n # 0
    BY <1>1
  <1>. QED
    BY <1>5, <1>6 DEF N

\* As many flushes as a space can be pending for leave none pending.
LEMMA FlushAllKeeps ==
  ASSUME NEW f, NEW U, NEW K \in Int, Kept(f, U, K)
  PROVE  LET h == FlushAll(f)
         IN  /\ Kept(h, U, K) /\ SameTables(f, h)
             /\ AtMost(Spaces(h.free), 0) /\ Gaps(h.free)
  <1>. DEFINE g == Flushed(f)
              Good(n) == Kept(g[n], U, K) /\ SameTables(f, g[n]) /\ AtMost(Spaces(g[n].free), MaxFreePend - n)
              Bad == {n \in 0 .. MaxFreePend : ~Good(n)}
  <1>1. MaxFreePend \in Nat /\ MaxFreePend # 0 /\ MaxFreePend - 1 \in Nat /\ MaxFreePend \in 1 .. MaxFreePend
        /\ MaxFreePend - 1 \in 0 .. MaxFreePend /\ MaxFreePend \in 0 .. MaxFreePend
    BY ConstantsAssumption
  <1>2. g[0] = f /\ \A n \in 1 .. MaxFreePend : g[n] = FlushSpace(g[n - 1])
    BY FlushedStep
  <1>. HIDE DEF g
  <1>3. Good(0)
    <2>1. Spaces(f.free) \in SUBSET Space
      BY KeptFacts
    <2>2. \A e \in Spaces(f.free) : e.pending <= MaxFreePend - 0
      <3>1. \A e \in Spaces(f.free) : e.pending \in 0 .. MaxFreePend
        BY <2>1, SpaceFields
      <3>. QED
        BY <1>1, <3>1
    <2>. QED
      BY <1>2, <2>2 DEF SameTables, AtMost
  <1>4. ASSUME NEW n \in 1 .. MaxFreePend, Good(n - 1) PROVE Good(n)
    <2>1. PICK c : c = g[n - 1]
      OBVIOUS
    <2>2. g[n] = FlushSpace(c) /\ Kept(c, U, K) /\ SameTables(f, c)
          /\ AtMost(Spaces(c.free), MaxFreePend - (n - 1))
      BY <1>2, <1>4, <2>1
    <2>3. Kept(g[n], U, K) /\ Flushes(c, g[n])
      BY <2>2, FlushSpaceKeeps
    <2>4. PICK q \in Nat : q = MaxFreePend - n
      BY <1>1
    <2>5. q + 1 = MaxFreePend - (n - 1)
      BY <1>1, <2>4
    <2>6. AtMost(Spaces(g[n].free), q)
      BY <2>2, <2>3, <2>5 DEF Flushes
    <2>7. SameTables(f, g[n])
      BY <2>2, <2>3 DEF Flushes, SameTables
    <2>. QED
      BY <2>3, <2>4, <2>6, <2>7
  <1>5. ASSUME Bad # {} PROVE FALSE
    <2>1. PICK k \in Bad : \A j \in Bad : k <= j
      <3>. HIDE DEF Bad
      <3>1. Bad \in SUBSET Nat
        BY <1>1 DEF Bad
      <3>. QED
        BY <1>5, <3>1, MinIsLeast
    <2>. HIDE DEF Good
    <2>2. k # 0
      BY <1>3, <2>1
    <2>3. k \in 1 .. MaxFreePend /\ k - 1 \in 0 .. MaxFreePend /\ ~(k <= k - 1)
      BY <1>1, <2>1, <2>2
    <2>. QED
      BY <1>4, <2>1, <2>3
  <1>6. PICK c : c = g[MaxFreePend - 1]
    OBVIOUS
  <1>7. PICK h : h = FlushAll(f)
    OBVIOUS
  <1>8. h = g[MaxFreePend] /\ h = FlushSpace(c)
    BY <1>1, <1>2, <1>6, <1>7 DEF FlushAll, g
  <1>9. Good(MaxFreePend - 1) /\ Good(MaxFreePend)
    BY <1>1, <1>5
  <1>10. Kept(c, U, K) /\ AtMost(Spaces(c.free), 1)
    <2>1. MaxFreePend - (MaxFreePend - 1) = 1
      BY <1>1
    <2>. QED
      BY <1>6, <1>9, <2>1
  <1>11. Gaps(h.free)
    <2>1. Flushes(c, h)
      BY <1>8, <1>10, FlushSpaceKeeps
    <2>. QED
      BY <1>10, <2>1 DEF Flushes
  <1>12. MaxFreePend - MaxFreePend = 0
    BY <1>1
  <1>. QED
    BY <1>7, <1>8, <1>9, <1>11, <1>12

-----------------------------------------------------------------------------
(* The sum over the chain is the number of units in it                       *)

\* So it is, by the least position at which it would not be.
LEMMA SumCounts ==
  ASSUME NEW s \in Seq(Space), InOrder(s), IsFiniteSet(Cover(Spaces(s)))
  PROVE  SumLen(s) = Cardinality(Cover(Spaces(s)))
  <1>. DEFINE N == Len(s)
              C(n) == Cover(Prefix(s, n))
              Good(n) == Summed(s)[n] = Cardinality(C(n))
              Bad == {n \in 0 .. N : ~Good(n)}
  <1>1. N \in Nat /\ N \in 0 .. N
    OBVIOUS
  <1>2. Spaces(s) = Prefix(s, N)
    BY MergedFolds
  <1>3. ASSUME NEW n \in 0 .. N PROVE IsFiniteSet(C(n))
    <2>1. \A i \in 1 .. n : i \in 1 .. N
      BY <1>1
    <2>2. Prefix(s, n) \subseteq Prefix(s, N)
      BY <2>1 DEF Prefix
    <2>3. C(n) \in SUBSET Cover(Spaces(s))
      BY <1>2, <2>2 DEF Cover
    <2>. QED
      BY <2>3, FS_Subset
  <1>4. Good(0)
    <2>1. Prefix(s, 0) = {}
      BY DEF Prefix
    <2>2. C(0) = {}
      BY <2>1 DEF Cover
    <2>. QED
      BY <2>2, MergedFolds, SummedStep, FS_EmptySet
  <1>5. ASSUME NEW n \in 1 .. N, Good(n - 1) PROVE Good(n)
    <2>1. PICK x \in Space : x = s[n]
      OBVIOUS
    <2>2. n - 1 \in 0 .. N
      BY <1>1
    <2>3. x.pos \in Nat /\ x.len \in Nat
      BY SpaceFields
    <2>4. C(n) = C(n - 1) \cup Units(x.pos, x.len)
      BY <2>1, PrefixGrows DEF Cover
    <2>5. C(n - 1) \cap Units(x.pos, x.len) = {}
      <3>1. ASSUME NEW u \in C(n - 1) PROVE u \notin Units(x.pos, x.len)
        <4>1. Prefix(s, n - 1) \in SUBSET Space
          BY PrefixGrows
        <4>2. u \in Nat
          BY <4>1, CoverMember
        <4>3. PICK y \in Prefix(s, n - 1) : y.pos <= u /\ u < End(y)
          BY <4>1, CoverMember
        <4>4. PICK i \in 1 .. n - 1 : y = s[i]
          BY PrefixGrows
        <4>5. i \in 1 .. N /\ i < n
          BY <1>1
        <4>6. End(y) <= x.pos
          BY <2>1, <4>4, <4>5, OrderedApart
        <4>7. End(y) \in Nat
          <5>1. y \in Space
            BY <4>1
          <5>. QED
            BY <5>1, SpaceFields DEF End
        <4>8. u \in Units(x.pos, x.len) => x.pos <= u
          BY <2>3, UnitsMember
        <4>. QED
          BY <2>3, <4>2, <4>3, <4>6, <4>7, <4>8
      <3>. QED
        BY <3>1
    <2>6. IsFiniteSet(Units(x.pos, x.len)) /\ Cardinality(Units(x.pos, x.len)) = x.len
      BY <2>3, UnitsMember
    <2>7. IsFiniteSet(C(n - 1)) /\ Cardinality(C(n - 1)) \in Nat
      BY <1>3, <2>2, FS_CardinalityType
    <2>. HIDE DEF C
    <2>8. Cardinality(C(n - 1) \cup Units(x.pos, x.len))
          = Cardinality(C(n - 1)) + Cardinality(Units(x.pos, x.len)) - Cardinality(C(n - 1) \cap Units(x.pos, x.len))
      BY <2>6, <2>7, FS_Union
    <2>9. Cardinality(C(n - 1) \cap Units(x.pos, x.len)) = 0
      BY <2>5, FS_EmptySet
    <2>10. Cardinality(C(n)) = Cardinality(C(n - 1)) + x.len
      BY <2>3, <2>4, <2>6, <2>7, <2>8, <2>9
    <2>11. Summed(s)[n] = Summed(s)[n - 1] + x.len
      BY <2>1, SummedStep
    <2>. QED
      BY <1>5, <2>10, <2>11
  <1>6. ASSUME Bad # {} PROVE FALSE
    <2>1. PICK k \in Bad : \A j \in Bad : k <= j
      <3>. HIDE DEF Bad
      <3>1. Bad \in SUBSET Nat
        BY DEF Bad
      <3>. QED
        BY <1>6, <3>1, MinIsLeast
    <2>. HIDE DEF Good
    <2>2. k # 0
      BY <1>4, <2>1
    <2>3. k \in 1 .. N /\ k - 1 \in 0 .. N /\ ~(k <= k - 1)
      BY <1>1, <2>1, <2>2
    <2>. QED
      BY <1>5, <2>1, <2>3
  <1>7. Good(N)
    BY <1>1, <1>6
  <1>. QED
    BY <1>2, <1>7 DEF SumLen

-----------------------------------------------------------------------------
(* Tables and tracks and their areas                                         *)

\* Every track has a table, and the tables are finite in number.
LEMMA TableOfTrack ==
  /\ \A t \in Track : TableOf(t) \in Table /\ TableOf(t) \in Nat
  /\ IsFiniteSet(Table) /\ IsFiniteSet(Track)
  <1>1. NTracks \in Nat /\ NTracks # 0 /\ PerTable \in Nat /\ PerTable # 0
    BY ConstantsAssumption
  <1>2. ASSUME NEW t \in Track PROVE TableOf(t) \in Table /\ TableOf(t) \in Nat
    <2>1. t - 1 \in Nat /\ NTracks - 1 \in Nat /\ t - 1 <= NTracks - 1
      BY <1>1 DEF Track
    <2>2. \A a \in Nat : a \div PerTable \in Nat
      BY <1>1
    <2>3. ASSUME NEW a \in Nat, NEW b \in Nat, a <= b PROVE a \div PerTable <= b \div PerTable
      <3>1. PICK x : x = a \div PerTable
        OBVIOUS
      <3>2. PICK y : y = b \div PerTable
        OBVIOUS
      <3>3. x \in Nat /\ y \in Nat /\ PerTable * x <= a /\ b < PerTable * y + PerTable
        BY <1>1, <2>2, <3>1, <3>2
      <3>4. CASE y + 1 <= x
        <4>1. PerTable * (y + 1) <= PerTable * x
          BY <1>1, <3>3, <3>4
        <4>2. PerTable * (y + 1) = PerTable * y + PerTable
          BY <1>1, <3>3
        <4>3. PerTable * y \in Nat /\ PerTable * x \in Nat
          BY <1>1, <3>3
        <4>. QED
          BY <1>1, <2>3, <3>3, <4>1, <4>2, <4>3
      <3>. QED
        BY <3>1, <3>2, <3>3, <3>4
    <2>4. (t - 1) \div PerTable <= (NTracks - 1) \div PerTable
      BY <2>1, <2>3
    <2>5. (t - 1) \div PerTable \in Nat /\ (NTracks - 1) \div PerTable \in Nat
      BY <2>1, <2>2
    <2>. QED
      BY <2>4, <2>5 DEF TableOf, Table
  <1>3. (NTracks - 1) \div PerTable + 1 \in Int
    BY <1>1
  <1>4. IsFiniteSet(Table) /\ IsFiniteSet(Track)
    BY <1>1, <1>3, FS_Interval DEF Table, Track, TableOf
  <1>. QED
    BY <1>2, <1>4

\* The areas of the objects
Place(pos, size) == IF pos = 0 THEN {} ELSE Units(pos, size)
TableArea(l1, j) == Place(l1[j], L2Len)
TrackArea(l2, t) == Place(l2[t].pos, l2[t].size)

\* What the areas are, by kind of object
LEMMA AreaFacts ==
  ASSUME NEW l1, NEW l2
  PROVE  /\ Area(l1, l2)[<<"header", 0>>] = Units(0, Base)
         /\ \A j \in Table : Area(l1, l2)[<<"table", j>>] = TableArea(l1, j)
         /\ \A t \in Track : Area(l1, l2)[<<"track", t>>] = TrackArea(l2, t)
         /\ <<"header", 0>> \in Object
         /\ \A j \in Table : <<"table", j>> \in Object
         /\ \A t \in Track : <<"track", t>> \in Object
         /\ \A o \in Object : \/ o = <<"header", 0>>
                              \/ \E j \in Table : o = <<"table", j>>
                              \/ \E t \in Track : o = <<"track", t>>
  <1>1. /\ <<"header", 0>> \in Object
        /\ \A j \in Table : <<"table", j>> \in Object
        /\ \A t \in Track : <<"track", t>> \in Object
    BY DEF Object
  <1>2. \A o \in Object : \/ o = <<"header", 0>>
                          \/ \E j \in Table : o = <<"table", j>>
                          \/ \E t \in Track : o = <<"track", t>>
    BY DEF Object
  <1>3. Area(l1, l2)[<<"header", 0>>] = Units(0, Base)
    BY <1>1 DEF Area
  <1>4. \A j \in Table : Area(l1, l2)[<<"table", j>>] = TableArea(l1, j)
    BY <1>1 DEF Area, TableArea, Place
  <1>5. \A t \in Track : Area(l1, l2)[<<"track", t>>] = TrackArea(l2, t)
    BY <1>1 DEF Area, TrackArea, Place
  <1>. QED
    BY <1>1, <1>2, <1>3, <1>4, <1>5

\* Each object by itself
LEMMA HeaderObject ==
  ASSUME NEW l1, NEW l2
  PROVE  \E o \in Object : Area(l1, l2)[o] = Units(0, Base)
  BY AreaFacts

LEMMA TableObject ==
  ASSUME NEW l1, NEW l2, NEW j \in Table
  PROVE  \E o \in Object : Area(l1, l2)[o] = TableArea(l1, j)
  <1>1. <<"table", j>> \in Object /\ Area(l1, l2)[<<"table", j>>] = TableArea(l1, j)
    BY AreaFacts
  <1>. QED
    BY <1>1

LEMMA TrackObject ==
  ASSUME NEW l1, NEW l2, NEW t \in Track
  PROVE  \E o \in Object : o = <<"track", t>> /\ Area(l1, l2)[o] = TrackArea(l2, t)
  <1>1. <<"track", t>> \in Object /\ Area(l1, l2)[<<"track", t>>] = TrackArea(l2, t)
    BY AreaFacts
  <1>. QED
    BY <1>1

\* One area moves: the others stay apart if the new one is apart from them.
ApartOn(I, A) == \A o, p \in I : o # p => A[o] \cap A[p] = {}
All(I, A) == UNION {A[o] : o \in I}

\* The units in use after one area was replaced,
LEMMA ReplaceArea ==
  ASSUME NEW I, NEW A, NEW B, NEW a \in I, ApartOn(I, A),
         \A o \in I : o # a => B[o] = A[o],
         B[a] \cap (All(I, A) \ A[a]) = {}
  PROVE  /\ ApartOn(I, B) /\ A[a] \subseteq All(I, A)
         /\ All(I, B) = (All(I, A) \ A[a]) \cup B[a]
  <1>1. A[a] \subseteq All(I, A)
    BY DEF All
  <1>2. \A o \in I : o # a => A[o] \subseteq All(I, A) \ A[a]
    BY DEF All, ApartOn
  <1>3. ApartOn(I, B)
    <2>1. ASSUME NEW o \in I, NEW p \in I, o # p PROVE B[o] \cap B[p] = {}
      <3>1. CASE o = a
        BY <1>2, <2>1, <3>1
      <3>2. CASE p = a
        BY <1>2, <2>1, <3>2
      <3>3. CASE o # a /\ p # a
        BY <2>1, <3>3 DEF ApartOn
      <3>. QED
        BY <3>1, <3>2, <3>3
    <2>. QED
      BY <2>1 DEF ApartOn
  <1>4. All(I, B) = (All(I, A) \ A[a]) \cup B[a]
    <2>1. ASSUME NEW u \in All(I, B) PROVE u \in (All(I, A) \ A[a]) \cup B[a]
      <3>1. PICK o \in I : u \in B[o]
        BY DEF All
      <3>. QED
        BY <1>2, <3>1
    <2>2. ASSUME NEW u \in (All(I, A) \ A[a]) \cup B[a] PROVE u \in All(I, B)
      <3>1. CASE u \in B[a]
        BY <3>1 DEF All
      <3>2. CASE u \in All(I, A) /\ u \notin A[a]
        <4>1. PICK o \in I : u \in A[o]
          BY <3>2 DEF All
        <4>. QED
          BY <3>2, <4>1 DEF All
      <3>. QED
        BY <2>2, <3>1, <3>2
    <2>. QED
      BY <2>1, <2>2
  <1>. QED
    BY <1>1, <1>3, <1>4

\* and their number.
LEMMA ReplaceCount ==
  ASSUME NEW T, NEW O \in SUBSET T, NEW N, IsFiniteSet(T), IsFiniteSet(N), N \cap (T \ O) = {}
  PROVE  /\ IsFiniteSet((T \ O) \cup N)
         /\ Cardinality((T \ O) \cup N) = Cardinality(T) - Cardinality(O) + Cardinality(N)
  <1>1. IsFiniteSet(O) /\ IsFiniteSet(T \ O)
    BY FS_Subset
  <1>2. Cardinality(T) \in Nat /\ Cardinality(O) \in Nat /\ Cardinality(N) \in Nat
        /\ Cardinality(T \ O) \in Nat
    BY <1>1, FS_CardinalityType
  <1>3. Cardinality(T \ O) = Cardinality(T) - Cardinality(O)
    <2>1. Cardinality(T \ O) = Cardinality(T) - Cardinality(T \cap O)
      BY FS_Difference
    <2>2. T \cap O = O
      OBVIOUS
    <2>. QED
      BY <2>1, <2>2
  <1>4. /\ IsFiniteSet((T \ O) \cup N)
        /\ Cardinality((T \ O) \cup N) = Cardinality(T \ O) + Cardinality(N) - Cardinality((T \ O) \cap N)
    BY <1>1, FS_Union
  <1>5. Cardinality((T \ O) \cap N) = 0
    <2>1. (T \ O) \cap N = {}
      OBVIOUS
    <2>. QED
      BY <2>1, FS_EmptySet
  <1>. QED
    BY <1>2, <1>3, <1>4, <1>5

\* The account does not depend on the tables.
SameSpace(f, h) ==
  /\ h.size = f.size /\ h.used = f.used /\ h.total = f.total /\ h.imbed = f.imbed
  /\ h.largest = f.largest /\ h.number = f.number /\ h.free = f.free

LEMMA KeptSame ==
  ASSUME NEW f, NEW h \in FileRec, NEW U, NEW K, Kept(f, U, K), SameSpace(f, h)
  PROVE  Kept(h, U, K)
  BY DEF Kept, SameSpace

\* Releasing the area of a table or track, which may have none
LEMMA ReleaseKeeps ==
  ASSUME NEW f, NEW U, NEW K \in Int, Kept(f, U, K), NEW pos \in Nat,
         NEW len \in Nat, NEW size \in Nat,
         IF pos = 0 THEN size = len ELSE size # 0,
         Place(pos, size) \subseteq U
  PROVE  LET h == RelSpace(f, pos, len, size)
             old == Place(pos, size)
         IN  /\ Kept(h, U \ old, K - (size - len)) /\ SameTables(f, h)
             /\ \A m \in Nat : Held(Spaces(f.free), m) \subseteq Held(Spaces(h.free), m)
             /\ \A m \in Nat : m <= FreePend => old \subseteq Held(Spaces(h.free), m)
  <1>1. CASE pos = 0
    <2>1. RelSpace(f, pos, len, size) = f
      BY <1>1 DEF RelSpace
    <2>2. K - (size - len) = K /\ U \ {} = U
      BY <1>1
    <2>3. SameTables(f, f)
      BY DEF SameTables
    <2>. QED
      BY <1>1, <2>1, <2>2, <2>3 DEF Place
  <1>2. CASE pos # 0
    <2>1. Freed(f, RelSpace(f, pos, len, size), pos, size, len, U, K)
      <3>1. Units(pos, size) \subseteq U
        BY <1>2 DEF Place
      <3>. QED
        BY <1>2, <3>1, RelSpaceKeeps
    <2>. QED
      BY <1>2, <2>1 DEF Freed, Place
  <1>. QED
    BY <1>1, <1>2

\* The tables in use after one was placed or given up
LEMMA TablesCount ==
  ASSUME NEW l1 \in [Table -> Nat], NEW j \in Table, NEW x \in Nat
  PROVE  LET c == Cardinality(Tables(l1))
             k == [l1 EXCEPT ![j] = x]
             d == Cardinality(Tables(k))
         IN  /\ k \in [Table -> Nat] /\ c \in Nat /\ d \in Nat
             /\ (l1[j] = 0) = (x = 0) => d = c
             /\ l1[j] = 0 /\ x # 0 => d = c + 1
             /\ l1[j] # 0 /\ x = 0 => c = d + 1
  <1>. DEFINE k == [l1 EXCEPT ![j] = x]
  <1>1. IsFiniteSet(Tables(l1)) /\ IsFiniteSet(Tables(k))
    <2>1. Tables(l1) \in SUBSET Table /\ Tables(k) \in SUBSET Table
      BY DEF Tables
    <2>. QED
      BY <2>1, TableOfTrack, FS_Subset
  <1>2. Cardinality(Tables(l1)) \in Nat /\ Cardinality(Tables(k)) \in Nat
    BY <1>1, FS_CardinalityType
  <1>3. ASSUME (l1[j] = 0) = (x = 0) PROVE Tables(k) = Tables(l1)
    BY <1>3 DEF Tables
  <1>4. ASSUME l1[j] = 0, x # 0
        PROVE  Cardinality(Tables(k)) = Cardinality(Tables(l1)) + 1
    <2>1. Tables(k) = Tables(l1) \cup {j} /\ j \notin Tables(l1)
      BY <1>4 DEF Tables
    <2>. QED
      BY <1>1, <2>1, FS_AddElement
  <1>5. ASSUME l1[j] # 0, x = 0
        PROVE  Cardinality(Tables(l1)) = Cardinality(Tables(k)) + 1
    <2>1. Tables(l1) = Tables(k) \cup {j} /\ j \notin Tables(k)
      BY <1>5 DEF Tables
    <2>. QED
      BY <1>1, <2>1, FS_AddElement
  <1>. QED
    BY <1>2, <1>3, <1>4, <1>5

HeldStays(f, h) ==
  \A m \in Nat : m # 0 => Held(Spaces(f.free), m) \subseteq Held(Spaces(h.free), m)
HeldBecomes(A, h) ==
  \A m \in Nat : m <= FreePend => A \subseteq Held(Spaces(h.free), m)

\* A table got its new place x and the old one is free.
Wrote(f, h, j, x, U, K) ==
  /\ x \in Nat /\ h.l1 = [f.l1 EXCEPT ![j] = x] /\ h.l2 = f.l2
  /\ x = 0 <=> \A t \in TracksOf(j) : f.l2[t] = Null
  /\ Place(x, L2Len) \cap U = {} /\ Place(x, L2Len) \cap Held(Spaces(f.free), 1) = {}
  /\ Kept(h, (U \ TableArea(f.l1, j)) \cup Place(x, L2Len), K)
  /\ HeldStays(f, h) /\ HeldBecomes(TableArea(f.l1, j), h)
  /\ Bounded(f) => Bounded(h)

\* There was no space for it.
NotWritten(f, h, j, U, K) ==
  /\ Kept(h, U, K) /\ h.l1 = f.l1 /\ h.l2 = f.l2 /\ h.free = f.free
  /\ Bounded(f) => Bounded(h)
  /\ ~\A t \in TracksOf(j) : f.l2[t] = Null

Redirected(f, j, x) == [RelSpace(f, f.l1[j], L2Len, L2Len) EXCEPT !.l1[j] = x]
IsRedirected(f, h, j, x, U, K) ==
  /\ Kept(h, U \ TableArea(f.l1, j), K) /\ h.l1 = [f.l1 EXCEPT ![j] = x]
  /\ h.l2 = f.l2 /\ h.bounds = f.bounds
  /\ HeldStays(f, h) /\ HeldBecomes(TableArea(f.l1, j), h)

\* cckd_write_l2 when its table got the place x, or none
LEMMA TableDone ==
  ASSUME NEW f, NEW U, NEW K \in Int, Kept(f, U, K), NEW j \in Table, NEW x \in Nat,
         TableArea(f.l1, j) \subseteq U
  PROVE  IsRedirected(f, Redirected(f, j, x), j, x, U, K)
  <1>1. PICK old : old = f.l1[j]
    OBVIOUS
  <1>2. f \in FileRec /\ f.l1 \in [Table -> Nat] /\ old \in Nat /\ L2Len \in Nat /\ L2Len # 0
    BY <1>1, KeptFacts, ConstantsAssumption DEF FileRec
  <1>3. PICK g : g = RelSpace(f, old, L2Len, L2Len)
    OBVIOUS
  <1>4. /\ Kept(g, U \ Place(old, L2Len), K - (L2Len - L2Len)) /\ SameTables(f, g)
        /\ \A m \in Nat : Held(Spaces(f.free), m) \subseteq Held(Spaces(g.free), m)
        /\ \A m \in Nat : m <= FreePend => Place(old, L2Len) \subseteq Held(Spaces(g.free), m)
    <2>1. Place(old, L2Len) \subseteq U
      BY <1>1 DEF TableArea
    <2>2. IF old = 0 THEN L2Len = L2Len ELSE L2Len # 0
      BY <1>2
    <2>. QED
      BY <1>2, <1>3, <2>1, <2>2, ReleaseKeeps
  <1>5. K - (L2Len - L2Len) = K
    BY <1>2
  <1>6. Kept(g, U \ Place(old, L2Len), K)
    BY <1>4, <1>5
  <1>7. g \in FileRec
    BY <1>6, KeptFacts
  <1>8. PICK h : h = [g EXCEPT !.l1[j] = x]
    OBVIOUS
  <1>9. PICK k \in [Table -> Nat] : k = [f.l1 EXCEPT ![j] = x]
    BY <1>2
  <1>10. h = [g EXCEPT !.l1 = k]
    BY <1>4, <1>8, <1>9 DEF SameTables
  <1>11. h \in FileRec /\ SameSpace(g, h) /\ h.l1 = k /\ h.l2 = f.l2 /\ h.bounds = f.bounds /\ h.free = g.free
    BY <1>4, <1>7, <1>10 DEF FileRec, SameSpace, SameTables
  <1>12. Kept(h, U \ Place(old, L2Len), K)
    BY <1>6, <1>11, KeptSame
  <1>13. HeldStays(f, h) /\ HeldBecomes(Place(old, L2Len), h)
    BY <1>4, <1>11 DEF HeldStays, HeldBecomes
  <1>. QED
    BY <1>1, <1>3, <1>8, <1>9, <1>11, <1>12, <1>13 DEF TableArea, Redirected, IsRedirected

\* cckd_write_l2 in all its cases
LEMMA WriteL2Keeps ==
  ASSUME NEW f, NEW U, NEW K \in Int, Kept(f, U, K), 0 \in U, NEW j \in Table,
         TableArea(f.l1, j) \subseteq U
  PROVE  LET w == WriteL2(f, j)
         IN  /\ w.ok \in BOOLEAN
             /\ w.ok => \E x : Wrote(f, w.file, j, x, U, K)
             /\ ~w.ok => NotWritten(f, w.file, j, U, K)
  <1>1. PICK old : old = f.l1[j]
    OBVIOUS
  <1>2. f \in FileRec /\ f.l1 \in [Table -> Nat] /\ old \in Nat /\ L2Len \in Nat /\ L2Len # 0
        /\ f.bounds \in Int /\ f.bounds + L2Len \in Int /\ Base \in Nat
    <2>1. f \in FileRec
      BY KeptFacts
    <2>2. L2Len \in Nat /\ L2Len # 0 /\ Base \in Nat
      BY ConstantsAssumption
    <2>3. f.l1 \in [Table -> Nat] /\ f.bounds \in Int
      BY <2>1 DEF FileRec
    <2>. QED
      BY <1>1, <2>1, <2>2, <2>3
  <1>3. PICK b \in Int : b = IF old = 0 THEN f.bounds + L2Len ELSE f.bounds
    BY <1>2
  <1>4. PICK g : g = [f EXCEPT !.l2ok = FALSE, !.bounds = b]
    OBVIOUS
  <1>5. /\ g \in FileRec /\ SameSpace(f, g) /\ g.l1 = f.l1 /\ g.l2 = f.l2 /\ g.bounds = b
        /\ g.free = f.free
    BY <1>2, <1>4 DEF FileRec, SameSpace
  <1>6. Kept(g, U, K)
    BY <1>5, KeptSame
  <1>7. g = [f EXCEPT !.l2ok = FALSE, !.bounds = IF f.l1[j] = 0 THEN @ + L2Len ELSE @]
    BY <1>1, <1>3, <1>4
  <1>. DEFINE empty == \A t \in TracksOf(j) : f.l2[t] = Null
              c == Cardinality(Tables(f.l1))
  <1>8. PICK got : got = GetSpace(g, L2Len, "l2")
    OBVIOUS
  <1>9. PICK w : w = WriteL2(f, j)
    OBVIOUS
  <1>10. CASE empty
    <2>1. PICK e : e = [g EXCEPT !.bounds = @ - L2Len]
      OBVIOUS
    <2>2. /\ e \in FileRec /\ SameSpace(g, e) /\ e.l1 = f.l1 /\ e.l2 = f.l2 /\ e.bounds = b - L2Len
          /\ e.free = f.free
      <3>1. b - L2Len \in Int
        BY <1>2
      <3>. QED
        BY <1>5, <2>1, <3>1 DEF FileRec, SameSpace
    <2>3. Kept(e, U, K)
      BY <1>6, <2>2, KeptSame
    <2>4. PICK h : h = Redirected(e, j, 0)
      OBVIOUS
    <2>5. w = [ok |-> TRUE, file |-> h]
      BY <1>7, <1>9, <1>10, <2>1, <2>2, <2>4 DEF WriteL2, Redirected
    <2>6. /\ Kept(h, U \ TableArea(f.l1, j), K) /\ h.l1 = [f.l1 EXCEPT ![j] = 0]
          /\ h.l2 = f.l2 /\ h.bounds = b - L2Len
          /\ HeldStays(f, h) /\ HeldBecomes(TableArea(f.l1, j), h)
      <3>1. 0 \in Nat /\ TableArea(e.l1, j) = TableArea(f.l1, j)
        BY <2>2
      <3>2. /\ Kept(h, U \ TableArea(e.l1, j), K) /\ h.l1 = [e.l1 EXCEPT ![j] = 0]
            /\ h.l2 = e.l2 /\ h.bounds = e.bounds
            /\ HeldStays(e, h) /\ HeldBecomes(TableArea(e.l1, j), h)
        BY <2>2, <2>3, <2>4, <3>1, TableDone DEF IsRedirected
      <3>. QED
        BY <2>2, <3>1, <3>2 DEF HeldStays
    <2>7. Place(0, L2Len) = {}
      BY DEF Place
    <2>8. Bounded(f) => Bounded(h)
      <3>1. PICK d : d = Cardinality(Tables(h.l1))
        OBVIOUS
      <3>2. c \in Nat /\ d \in Nat /\ (old = 0 => d = c) /\ (old # 0 => c = d + 1)
        BY <1>1, <1>2, <2>6, <3>1, TablesCount
      <3>. HIDE DEF c
      <3>3. L2Len * (d + 1) = L2Len * d + L2Len /\ L2Len * d \in Int
        BY <1>2, <3>2
      <3>4. ASSUME f.bounds >= Base + L2Len * c PROVE b - L2Len >= Base + L2Len * d
        BY <1>2, <1>3, <3>2, <3>3, <3>4
      <3>. QED
        BY <2>6, <3>1, <3>4 DEF Bounded, c
    <2>9. Wrote(f, h, j, 0, U, K)
      BY <1>10, <2>6, <2>7, <2>8 DEF Wrote
    <2>. QED
      BY <1>9, <2>5, <2>9
  <1>11. CASE ~empty /\ got.pos = -1
    <2>1. w = [ok |-> FALSE, file |-> g]
      BY <1>7, <1>8, <1>9, <1>11 DEF WriteL2
    <2>2. Bounded(f) => Bounded(g)
      BY <1>2, <1>3, <1>5, TablesCount DEF Bounded
    <2>3. NotWritten(f, g, j, U, K)
      BY <1>5, <1>6, <1>11, <2>2 DEF NotWritten
    <2>. QED
      BY <1>9, <2>1, <2>3
  <1>12. CASE ~empty /\ got.pos # -1
    <2>1. Got(g, got.file, got.pos, got.size, L2Len, U, K) /\ got.size = L2Len
      BY <1>2, <1>6, <1>8, <1>12, GetSpaceKeeps
    <2>2. PICK x : x = got.pos
      OBVIOUS
    <2>3. PICK e : e = got.file
      OBVIOUS
    <2>4. /\ x \in Nat /\ Units(x, L2Len) \cap U = {} /\ Units(x, L2Len) \cap Held(Spaces(f.free), 1) = {}
          /\ Kept(e, U \cup Units(x, L2Len), K + (L2Len - L2Len)) /\ SameTables(g, e)
          /\ \A m \in Nat : m # 0 => Held(Spaces(e.free), m) = Held(Spaces(f.free), m)
      BY <1>5, <2>1, <2>2, <2>3 DEF Got
    <2>5. x # 0 /\ Place(x, L2Len) = Units(x, L2Len)
      <3>1. x = 0 => 0 \in Units(x, L2Len)
        BY <1>2, UnitsMember
      <3>. QED
        BY <2>4, <3>1 DEF Place
    <2>6. Kept(e, U \cup Units(x, L2Len), K)
      <3>1. K + (L2Len - L2Len) = K
        BY <1>2
      <3>. QED
        BY <2>4, <3>1
    <2>7. PICK h : h = Redirected(e, j, x)
      OBVIOUS
    <2>8. w = [ok |-> TRUE, file |-> h]
      BY <1>5, <1>7, <1>8, <1>9, <1>12, <2>2, <2>3, <2>4, <2>7 DEF WriteL2, SameTables, Redirected
    <2>9. e.l1 = f.l1 /\ e.l2 = f.l2 /\ e.bounds = b
      BY <1>5, <2>4 DEF SameTables
    <2>10. /\ Kept(h, (U \cup Units(x, L2Len)) \ TableArea(f.l1, j), K) /\ h.l1 = [f.l1 EXCEPT ![j] = x]
           /\ h.l2 = f.l2 /\ h.bounds = b
           /\ HeldStays(e, h) /\ HeldBecomes(TableArea(f.l1, j), h)
      <3>1. TableArea(e.l1, j) = TableArea(f.l1, j) /\ TableArea(e.l1, j) \subseteq U \cup Units(x, L2Len)
        BY <2>9
      <3>2. /\ Kept(h, (U \cup Units(x, L2Len)) \ TableArea(e.l1, j), K) /\ h.l1 = [e.l1 EXCEPT ![j] = x]
            /\ h.l2 = e.l2 /\ h.bounds = e.bounds
            /\ HeldStays(e, h) /\ HeldBecomes(TableArea(e.l1, j), h)
        BY <2>4, <2>6, <2>7, <3>1, TableDone DEF IsRedirected
      <3>. QED
        BY <2>9, <3>1, <3>2
    <2>11. (U \cup Units(x, L2Len)) \ TableArea(f.l1, j) = (U \ TableArea(f.l1, j)) \cup Units(x, L2Len)
      BY <2>4
    <2>12. HeldStays(f, h)
      BY <2>4, <2>10 DEF HeldStays
    <2>13. Bounded(f) => Bounded(h)
      <3>1. PICK d : d = Cardinality(Tables(h.l1))
        OBVIOUS
      <3>2. c \in Nat /\ d \in Nat /\ (old = 0 => d = c + 1) /\ (old # 0 => d = c)
        BY <1>1, <1>2, <2>4, <2>5, <2>10, <3>1, TablesCount
      <3>. HIDE DEF c
      <3>3. L2Len * (c + 1) = L2Len * c + L2Len /\ L2Len * c \in Int
        BY <1>2, <3>2
      <3>4. ASSUME f.bounds >= Base + L2Len * c PROVE b >= Base + L2Len * d
        BY <1>2, <1>3, <3>2, <3>3, <3>4
      <3>. QED
        BY <2>10, <3>1, <3>4 DEF Bounded, c
    <2>14. Wrote(f, h, j, x, U, K)
      BY <1>12, <2>4, <2>5, <2>10, <2>11, <2>12, <2>13 DEF Wrote
    <2>. QED
      BY <1>9, <2>8, <2>14
  <1>. QED
    BY <1>10, <1>11, <1>12

-----------------------------------------------------------------------------
(* Moving tables and tracks keeps the file sound                             *)

\* The areas after a table moved,
LEMMA TableAreaMoves ==
  ASSUME NEW l1 \in [Table -> Nat], NEW l2, NEW j \in Table, NEW x \in Nat,
         Apart(Area(l1, l2)), Place(x, L2Len) \cap InUse(l1, l2) = {}
  PROVE  LET k == [l1 EXCEPT ![j] = x]
         IN  /\ Apart(Area(k, l2))
             /\ InUse(k, l2) = (InUse(l1, l2) \ TableArea(l1, j)) \cup Place(x, L2Len)
  <1>1. PICK k \in [Table -> Nat] : k = [l1 EXCEPT ![j] = x]
    OBVIOUS
  <1>. DEFINE A == Area(l1, l2)
              B == Area(k, l2)
              a == <<"table", j>>
  <1>2. k[j] = x /\ \A i \in Table : i # j => k[i] = l1[i]
    BY <1>1
  <1>3. a \in Object /\ A[a] = TableArea(l1, j) /\ B[a] = Place(x, L2Len)
    BY <1>2, AreaFacts DEF TableArea
  <1>4. ASSUME NEW o \in Object, o # a PROVE B[o] = A[o]
    <2>. HIDE DEF A, B
    <2>1. CASE o = <<"header", 0>>
      BY <2>1, AreaFacts DEF A, B
    <2>2. ASSUME NEW i \in Table, o = <<"table", i>> PROVE B[o] = A[o]
      <3>1. i # j
        BY <1>4, <2>2
      <3>2. TableArea(k, i) = TableArea(l1, i)
        BY <1>2, <3>1 DEF TableArea
      <3>. QED
        BY <2>2, <3>2, AreaFacts DEF A, B
    <2>3. ASSUME NEW t \in Track, o = <<"track", t>> PROVE B[o] = A[o]
      BY <2>3, AreaFacts DEF A, B
    <2>. QED
      BY <2>1, <2>2, <2>3, AreaFacts
  <1>5. ApartOn(Object, A) /\ InUse(l1, l2) = All(Object, A) /\ InUse(k, l2) = All(Object, B)
    BY DEF Apart, ApartOn, InUse, All
  <1>. HIDE DEF A, B, a
  <1>6. B[a] \cap (All(Object, A) \ A[a]) = {}
    BY <1>3, <1>5
  <1>7. ApartOn(Object, B) /\ All(Object, B) = (All(Object, A) \ A[a]) \cup B[a]
    BY <1>3, <1>4, <1>5, <1>6, ReplaceArea
  <1>8. Apart(B)
    BY <1>7 DEF Apart, ApartOn
  <1>. QED
    BY <1>1, <1>3, <1>5, <1>7, <1>8 DEF B

\* and after an image did.
LEMMA TrackAreaMoves ==
  ASSUME NEW l1, NEW l2 \in [Track -> Entry], NEW t \in Track, NEW e \in Entry,
         Apart(Area(l1, l2)), Place(e.pos, e.size) \cap InUse(l1, l2) = {}
  PROVE  LET k == [l2 EXCEPT ![t] = e]
         IN  /\ Apart(Area(l1, k))
             /\ InUse(l1, k) = (InUse(l1, l2) \ TrackArea(l2, t)) \cup Place(e.pos, e.size)
  <1>1. PICK k \in [Track -> Entry] : k = [l2 EXCEPT ![t] = e]
    OBVIOUS
  <1>. DEFINE A == Area(l1, l2)
              B == Area(l1, k)
              a == <<"track", t>>
  <1>2. k[t] = e /\ \A i \in Track : i # t => k[i] = l2[i]
    BY <1>1
  <1>3. a \in Object /\ A[a] = TrackArea(l2, t) /\ B[a] = Place(e.pos, e.size)
    BY <1>2, AreaFacts DEF TrackArea
  <1>4. ASSUME NEW o \in Object, o # a PROVE B[o] = A[o]
    <2>. HIDE DEF A, B
    <2>1. CASE o = <<"header", 0>>
      BY <2>1, AreaFacts DEF A, B
    <2>2. ASSUME NEW i \in Table, o = <<"table", i>> PROVE B[o] = A[o]
      BY <2>2, AreaFacts DEF A, B
    <2>3. ASSUME NEW i \in Track, o = <<"track", i>> PROVE B[o] = A[o]
      <3>1. i # t
        BY <1>4, <2>3
      <3>2. TrackArea(k, i) = TrackArea(l2, i)
        BY <1>2, <3>1 DEF TrackArea
      <3>. QED
        BY <2>3, <3>2, AreaFacts DEF A, B
    <2>. QED
      BY <2>1, <2>2, <2>3, AreaFacts
  <1>5. ApartOn(Object, A) /\ InUse(l1, l2) = All(Object, A) /\ InUse(l1, k) = All(Object, B)
    BY DEF Apart, ApartOn, InUse, All
  <1>. HIDE DEF A, B, a
  <1>6. B[a] \cap (All(Object, A) \ A[a]) = {}
    BY <1>3, <1>5
  <1>7. ApartOn(Object, B) /\ All(Object, B) = (All(Object, A) \ A[a]) \cup B[a]
    BY <1>3, <1>4, <1>5, <1>6, ReplaceArea
  <1>8. Apart(B)
    BY <1>7 DEF Apart, ApartOn
  <1>. QED
    BY <1>1, <1>3, <1>5, <1>7, <1>8 DEF B

\* An image with its length and the space it takes, or none
Image(e) == e = Null \/ (e.pos # 0 /\ e.len # 0 /\ e.len <= e.size)
SlackOf(e) == Units(e.pos + e.len, e.size - e.len)

\* The unused end of an image is part of its space.
LEMMA SlackOfFacts ==
  ASSUME NEW e \in Entry, Image(e)
  PROVE  /\ e.pos \in Nat /\ e.len \in Nat /\ e.size \in Nat /\ e.len <= e.size
         /\ SlackOf(e) \subseteq Place(e.pos, e.size)
         /\ IsFiniteSet(SlackOf(e)) /\ Cardinality(SlackOf(e)) = e.size - e.len
         /\ IF e.pos = 0 THEN e.size = e.len ELSE e.size # 0
  <1>1. e.pos \in Nat /\ e.len \in Nat /\ e.size \in Nat
    BY DEF Entry
  <1>2. e.len <= e.size /\ (IF e.pos = 0 THEN e.size = e.len ELSE e.size # 0)
    BY <1>1 DEF Image, Null
  <1>3. e.pos + e.len \in Int /\ e.size - e.len \in Int /\ e.size - e.len >= 0
    BY <1>1, <1>2
  <1>4. /\ \A u : u \in SlackOf(e) <=> u \in Int /\ e.pos + e.len <= u /\ u < e.pos + e.len + (e.size - e.len)
        /\ IsFiniteSet(SlackOf(e)) /\ Cardinality(SlackOf(e)) = e.size - e.len
    BY <1>3, UnitsMember DEF SlackOf
  <1>5. \A u : u \in Units(e.pos, e.size) <=> u \in Int /\ e.pos <= u /\ u < e.pos + e.size
    BY <1>1, UnitsMember
  <1>6. ASSUME NEW u \in SlackOf(e) PROVE u \in Place(e.pos, e.size)
    <2>1. u \in Int /\ e.pos + e.len <= u /\ u < e.pos + e.len + (e.size - e.len)
      BY <1>4
    <2>2. u \in Units(e.pos, e.size)
      BY <1>1, <1>5, <2>1
    <2>3. e.pos # 0
      BY <1>1, <1>2, <2>1
    <2>. QED
      BY <2>2, <2>3 DEF Place
  <1>. QED
    BY <1>1, <1>2, <1>4, <1>6

\* The unused ends of all images after one moved
LEMMA SlackMoves ==
  ASSUME NEW l1, NEW l2 \in [Track -> Entry], Shaped(l2), Apart(Area(l1, l2)),
         IsFiniteSet(InUse(l1, l2)), NEW t \in Track, NEW e \in Entry, Image(e),
         Place(e.pos, e.size) \cap InUse(l1, l2) = {}
  PROVE  LET k == [l2 EXCEPT ![t] = e]
             old == l2[t]
         IN  /\ Shaped(k) /\ Cardinality(Slack(l2)) \in Nat
             /\ Cardinality(Slack(k)) = Cardinality(Slack(l2)) - (old.size - old.len) + (e.size - e.len)
  <1>1. PICK k \in [Track -> Entry] : k = [l2 EXCEPT ![t] = e]
    OBVIOUS
  <1>2. k[t] = e /\ \A i \in Track : i # t => k[i] = l2[i]
    BY <1>1
  <1>3. \A i \in Track : l2[i] \in Entry /\ Image(l2[i])
    BY DEF Shaped, Image
  <1>4. Shaped(k)
    BY <1>2, <1>3 DEF Shaped, Image
  <1>17. PICK A : A = [i \in Track |-> SlackOf(l2[i])]
    OBVIOUS
  <1>18. PICK B : B = [i \in Track |-> SlackOf(k[i])]
    OBVIOUS
  <1>5. \A i \in Track : A[i] = SlackOf(l2[i]) /\ B[i] = SlackOf(k[i])
    BY <1>17, <1>18
  <1>6. All(Track, A) = Slack(l2) /\ All(Track, B) = Slack(k)
    BY <1>17, <1>18 DEF All, Slack, SlackOf
  <1>7. ASSUME NEW i \in Track PROVE A[i] \subseteq TrackArea(l2, i) /\ A[i] \subseteq InUse(l1, l2)
    <2>1. A[i] \subseteq TrackArea(l2, i)
      BY <1>3, <1>5, SlackOfFacts DEF TrackArea
    <2>2. TrackArea(l2, i) \subseteq InUse(l1, l2)
      <3>1. PICK o \in Object : Area(l1, l2)[o] = TrackArea(l2, i)
        BY TrackObject
      <3>. QED
        BY <3>1 DEF InUse
    <2>. QED
      BY <2>1, <2>2
  <1>8. ApartOn(Track, A)
    <2>1. ASSUME NEW i \in Track, NEW m \in Track, i # m PROVE A[i] \cap A[m] = {}
      <3>1. <<"track", i>> # <<"track", m>>
        BY <2>1
      <3>2. PICK o \in Object : o = <<"track", i>> /\ Area(l1, l2)[o] = TrackArea(l2, i)
        BY TrackObject
      <3>3. PICK p \in Object : p = <<"track", m>> /\ Area(l1, l2)[p] = TrackArea(l2, m)
        BY TrackObject
      <3>4. Area(l1, l2)[o] \cap Area(l1, l2)[p] = {}
        BY <3>1, <3>2, <3>3 DEF Apart
      <3>. QED
        BY <1>7, <3>2, <3>3, <3>4
    <2>. QED
      BY <2>1 DEF ApartOn
  <1>9. All(Track, A) \in SUBSET InUse(l1, l2)
    BY <1>7 DEF All
  <1>10. B[t] = SlackOf(e) /\ SlackOf(e) \subseteq Place(e.pos, e.size)
    BY <1>2, <1>5, SlackOfFacts
  <1>11. B[t] \cap (All(Track, A) \ A[t]) = {}
    BY <1>9, <1>10
  <1>12. A[t] \in SUBSET All(Track, A) /\ All(Track, B) = (All(Track, A) \ A[t]) \cup B[t]
    <2>1. \A i \in Track : i # t => B[i] = A[i]
      BY <1>2, <1>5
    <2>2. A[t] \in SUBSET All(Track, A)
      BY DEF All
    <2>3. ApartOn(Track, B) /\ All(Track, B) = (All(Track, A) \ A[t]) \cup B[t]
      BY <1>8, <1>11, <2>1, ReplaceArea
    <2>. QED
      BY <2>2, <2>3
  <1>13. IsFiniteSet(All(Track, A))
    BY <1>9, FS_Subset
  <1>14. /\ IsFiniteSet(B[t]) /\ Cardinality(B[t]) = e.size - e.len
         /\ Cardinality(A[t]) = l2[t].size - l2[t].len
    BY <1>3, <1>5, <1>10, SlackOfFacts
  <1>15. Cardinality(All(Track, B)) = Cardinality(All(Track, A)) - Cardinality(A[t]) + Cardinality(B[t])
    BY <1>11, <1>12, <1>13, <1>14, ReplaceCount
  <1>16. Cardinality(All(Track, A)) \in Nat
    BY <1>13, FS_CardinalityType
  <1>. QED
    BY <1>1, <1>4, <1>6, <1>14, <1>15, <1>16

\* What is stable is in use or held: the area that an object leaves is held,
\* and it does not move into one that is.
Relocated(f, h) ==
  /\ (InUse(h.l1, h.l2) \ InUse(f.l1, f.l2)) \cap Held(Spaces(f.free), 1) = {}
  /\ FreePend # 0 => InUse(f.l1, f.l2) \subseteq InUse(h.l1, h.l2) \cup Held(Spaces(h.free), FreePend)
  /\ HeldStays(f, h)

\* Two relocations are one.
LEMMA RelocatedTwice ==
  ASSUME NEW f, NEW g, NEW h, Relocated(f, g), Relocated(g, h)
  PROVE  Relocated(f, h)
  <1>1. PICK m \in Nat : m = FreePend
    BY ConstantsAssumption
  <1>2. Held(Spaces(f.free), 1) \subseteq Held(Spaces(g.free), 1)
    <2>1. 1 \in Nat /\ 1 # 0
      OBVIOUS
    <2>. QED
      BY <2>1 DEF Relocated, HeldStays
  <1>3. m # 0 => Held(Spaces(g.free), m) \subseteq Held(Spaces(h.free), m)
    BY DEF Relocated, HeldStays
  <1>4. (InUse(h.l1, h.l2) \ InUse(f.l1, f.l2)) \cap Held(Spaces(f.free), 1) = {}
    BY <1>2 DEF Relocated
  <1>5. FreePend # 0 => InUse(f.l1, f.l2) \subseteq InUse(h.l1, h.l2) \cup Held(Spaces(h.free), FreePend)
    BY <1>1, <1>3 DEF Relocated
  <1>6. HeldStays(f, h)
    <2>1. ASSUME NEW n \in Nat, n # 0
          PROVE  Held(Spaces(f.free), n) \subseteq Held(Spaces(h.free), n)
      BY <2>1 DEF Relocated, HeldStays
    <2>. QED
      BY <2>1 DEF HeldStays
  <1>. QED
    BY <1>4, <1>5, <1>6 DEF Relocated

\* What follows for a sound file
LEMMA SoundFacts ==
  ASSUME NEW f, Sound(f)
  PROVE  LET U == InUse(f.l1, f.l2)
             K == Cardinality(Slack(f.l2))
         IN  /\ f \in FileRec /\ f.l1 \in [Table -> Nat] /\ f.l2 \in [Track -> Entry]
             /\ f.free \in Seq(Space) /\ InOrder(f.free) /\ f.size \in 0 .. MaxSize
             /\ Kept(f, U, K) /\ K \in Nat /\ IsFiniteSet(U) /\ U \subseteq 0 .. f.size - 1
             /\ 0 \in U /\ Units(0, Base) \subseteq U
             /\ \A j \in Table : TableArea(f.l1, j) \subseteq U
             /\ \A t \in Track : /\ TrackArea(f.l2, t) \subseteq U
                                 /\ f.l2[t] \in Entry /\ Image(f.l2[t])
                                 /\ SlackOf(f.l2[t]) \subseteq U
             /\ Shaped(f.l2) /\ Apart(Area(f.l1, f.l2)) /\ Bounded(f)
  <1>. DEFINE U == InUse(f.l1, f.l2)
              K == Cardinality(Slack(f.l2))
  <1>1. Kept(f, U, K) /\ Shaped(f.l2) /\ Apart(Area(f.l1, f.l2)) /\ Bounded(f)
    BY DEF Sound
  <1>2. f \in FileRec /\ f.l1 \in [Table -> Nat] /\ f.l2 \in [Track -> Entry]
        /\ f.free \in Seq(Space) /\ InOrder(f.free) /\ f.size \in 0 .. MaxSize
        /\ U \subseteq 0 .. f.size - 1
    BY <1>1 DEF Kept, FileRec
  <1>3. IsFiniteSet(U)
    <2>1. f.size - 1 \in Int
      BY <1>2, ConstantsAssumption
    <2>2. IsFiniteSet(0 .. f.size - 1)
      BY <2>1, FS_Interval
    <2>3. U \in SUBSET (0 .. f.size - 1)
      BY <1>2
    <2>. QED
      BY <2>2, <2>3, FS_Subset
  <1>4. Units(0, Base) \subseteq U /\ 0 \in U
    <2>1. PICK o \in Object : Area(f.l1, f.l2)[o] = Units(0, Base)
      BY HeaderObject
    <2>2. Units(0, Base) \subseteq U
      BY <2>1 DEF InUse
    <2>3. Base \in Nat /\ Base # 0
      BY ConstantsAssumption
    <2>4. 0 \in Units(0, Base)
      BY <2>3, UnitsMember
    <2>. QED
      BY <2>2, <2>4
  <1>5. ASSUME NEW j \in Table PROVE TableArea(f.l1, j) \subseteq U
    <2>1. PICK o \in Object : Area(f.l1, f.l2)[o] = TableArea(f.l1, j)
      BY TableObject
    <2>. QED
      BY <2>1 DEF InUse
  <1>6. ASSUME NEW t \in Track
        PROVE  /\ TrackArea(f.l2, t) \subseteq U /\ f.l2[t] \in Entry /\ Image(f.l2[t])
               /\ SlackOf(f.l2[t]) \subseteq U
    <2>1. <<"track", t>> \in Object /\ Area(f.l1, f.l2)[<<"track", t>>] = TrackArea(f.l2, t)
      BY AreaFacts
    <2>2. TrackArea(f.l2, t) \subseteq U
      BY <2>1 DEF InUse
    <2>3. f.l2[t] \in Entry /\ Image(f.l2[t])
      BY <1>1, <1>2 DEF Shaped, Image
    <2>4. SlackOf(f.l2[t]) \subseteq TrackArea(f.l2, t)
      BY <2>3, SlackOfFacts DEF TrackArea
    <2>. QED
      BY <2>2, <2>3, <2>4
  <1>7. K \in Nat
    <2>1. Slack(f.l2) \in SUBSET U
      BY <1>6 DEF Slack, SlackOf
    <2>2. IsFiniteSet(Slack(f.l2))
      BY <1>3, <2>1, FS_Subset
    <2>. QED
      BY <2>2, FS_CardinalityType
  <1>. QED
    BY <1>1, <1>2, <1>3, <1>4, <1>5, <1>6, <1>7

\* A file with the same tables and free spaces
LEMMA SameUse ==
  ASSUME NEW f, NEW h, Sound(f), Kept(h, InUse(f.l1, f.l2), Cardinality(Slack(f.l2))),
         h.l1 = f.l1, h.l2 = f.l2, h.free = f.free, Bounded(h)
  PROVE  Sound(h) /\ Relocated(f, h)
  <1>1. Sound(h)
    BY DEF Sound
  <1>2. HeldStays(f, h)
    BY DEF HeldStays
  <1>. QED
    BY <1>1, <1>2 DEF Relocated

\* A track has got another place,
LEMMA TrackPlaced ==
  ASSUME NEW f, NEW h, Sound(f), NEW t \in Track, NEW e \in Entry, Image(e),
         h.l1 = f.l1, h.l2 = [f.l2 EXCEPT ![t] = e],
         Place(e.pos, e.size) \cap InUse(f.l1, f.l2) = {},
         Place(e.pos, e.size) \cap Held(Spaces(f.free), 1) = {},
         Kept(h, (InUse(f.l1, f.l2) \ TrackArea(f.l2, t)) \cup Place(e.pos, e.size),
              Cardinality(Slack(f.l2)) - (f.l2[t].size - f.l2[t].len) + (e.size - e.len)),
         Bounded(h), HeldStays(f, h), HeldBecomes(TrackArea(f.l2, t), h)
  PROVE  Sound(h) /\ Relocated(f, h)
  <1>. DEFINE U == InUse(f.l1, f.l2)
              A == Place(e.pos, e.size)
  <1>1. /\ f.l2 \in [Track -> Entry] /\ Shaped(f.l2) /\ Apart(Area(f.l1, f.l2)) /\ IsFiniteSet(U)
    BY SoundFacts
  <1>2. Apart(Area(h.l1, h.l2)) /\ InUse(h.l1, h.l2) = (U \ TrackArea(f.l2, t)) \cup A
    BY <1>1, TrackAreaMoves
  <1>3. /\ Shaped(h.l2)
        /\ Cardinality(Slack(h.l2)) = Cardinality(Slack(f.l2)) - (f.l2[t].size - f.l2[t].len) + (e.size - e.len)
    BY <1>1, SlackMoves
  <1>4. Sound(h)
    BY <1>2, <1>3 DEF Sound
  <1>5. FreePend \in Nat
    BY ConstantsAssumption
  <1>6. FreePend # 0 => U \subseteq InUse(h.l1, h.l2) \cup Held(Spaces(h.free), FreePend)
    <2>1. FreePend <= FreePend
      BY <1>5
    <2>2. TrackArea(f.l2, t) \subseteq Held(Spaces(h.free), FreePend)
      BY <1>5, <2>1 DEF HeldBecomes
    <2>. QED
      BY <1>2, <2>2
  <1>7. (InUse(h.l1, h.l2) \ U) \cap Held(Spaces(f.free), 1) = {}
    BY <1>2
  <1>. QED
    BY <1>4, <1>6, <1>7 DEF Relocated

\* or a table has.
LEMMA TablePlaced ==
  ASSUME NEW f, NEW h, Sound(f), NEW j \in Table, NEW x,
         Wrote(f, h, j, x, InUse(f.l1, f.l2), Cardinality(Slack(f.l2)))
  PROVE  Sound(h) /\ Relocated(f, h)
  <1>. DEFINE U == InUse(f.l1, f.l2)
              A == Place(x, L2Len)
  <1>1. f.l1 \in [Table -> Nat] /\ Shaped(f.l2) /\ Apart(Area(f.l1, f.l2)) /\ Bounded(f)
    BY SoundFacts
  <1>2. /\ x \in Nat /\ h.l1 = [f.l1 EXCEPT ![j] = x] /\ h.l2 = f.l2
        /\ A \cap U = {} /\ A \cap Held(Spaces(f.free), 1) = {}
        /\ Kept(h, (U \ TableArea(f.l1, j)) \cup A, Cardinality(Slack(f.l2)))
        /\ HeldStays(f, h) /\ HeldBecomes(TableArea(f.l1, j), h)
        /\ Bounded(f) => Bounded(h)
    BY DEF Wrote
  <1>3. Apart(Area(h.l1, h.l2)) /\ InUse(h.l1, h.l2) = (U \ TableArea(f.l1, j)) \cup A
    BY <1>1, <1>2, TableAreaMoves
  <1>4. Sound(h)
    BY <1>1, <1>2, <1>3 DEF Sound
  <1>5. FreePend \in Nat
    BY ConstantsAssumption
  <1>6. FreePend # 0 => U \subseteq InUse(h.l1, h.l2) \cup Held(Spaces(h.free), FreePend)
    <2>1. FreePend <= FreePend
      BY <1>5
    <2>2. TableArea(f.l1, j) \subseteq Held(Spaces(h.free), FreePend)
      BY <1>2, <1>5, <2>1 DEF HeldBecomes
    <2>. QED
      BY <1>3, <2>2
  <1>7. (InUse(h.l1, h.l2) \ U) \cap Held(Spaces(f.free), 1) = {}
    BY <1>2, <1>3
  <1>. QED
    BY <1>2, <1>4, <1>6, <1>7 DEF Relocated

\* cckd_write_l2 keeps a file sound and relocates a table at most.
LEMMA WriteL2Moves ==
  ASSUME NEW f, Sound(f), Tabled(f), NEW j \in Table
  PROVE  LET h == WriteL2(f, j).file
         IN  Sound(h) /\ Tabled(h) /\ Relocated(f, h)
  <1>. DEFINE U == InUse(f.l1, f.l2)
              K == Cardinality(Slack(f.l2))
  <1>1. /\ Kept(f, U, K) /\ K \in Int /\ 0 \in U /\ TableArea(f.l1, j) \subseteq U
        /\ Bounded(f) /\ f.l1 \in [Table -> Nat]
    BY SoundFacts
  <1>2. PICK w : w = WriteL2(f, j)
    OBVIOUS
  <1>3. /\ w.ok \in BOOLEAN
        /\ w.ok => \E x : Wrote(f, w.file, j, x, U, K)
        /\ ~w.ok => NotWritten(f, w.file, j, U, K)
    <2>. HIDE DEF U, K
    <2>. QED
      BY <1>1, <1>2, WriteL2Keeps
  <1>4. CASE ~w.ok
    <2>1. NotWritten(f, w.file, j, U, K)
      BY <1>3, <1>4
    <2>2. Sound(w.file) /\ Relocated(f, w.file)
      BY <1>1, <2>1, SameUse DEF NotWritten
    <2>3. Tabled(w.file)
      BY <2>1 DEF NotWritten, Tabled
    <2>. QED
      BY <1>2, <2>2, <2>3
  <1>5. CASE w.ok
    <2>1. PICK x : Wrote(f, w.file, j, x, U, K)
      BY <1>3, <1>5
    <2>2. Sound(w.file) /\ Relocated(f, w.file)
      BY <2>1, TablePlaced
    <2>3. Tabled(w.file)
      <3>1. /\ w.file.l1 = [f.l1 EXCEPT ![j] = x] /\ w.file.l2 = f.l2
            /\ x = 0 => \A t \in TracksOf(j) : f.l2[t] = Null
        BY <2>1 DEF Wrote
      <3>2. ASSUME NEW t \in Track, w.file.l2[t] # Null PROVE w.file.l1[TableOf(t)] # 0
        <4>1. TableOf(t) \in Table /\ f.l1[TableOf(t)] # 0
          BY <3>1, <3>2, TableOfTrack DEF Tabled
        <4>2. TableOf(t) = j => x # 0
          BY <3>1, <3>2 DEF TracksOf
        <4>. QED
          BY <1>1, <3>1, <4>1, <4>2
      <3>. QED
        BY <3>2 DEF Tabled
    <2>. QED
      BY <1>2, <2>2, <2>3
  <1>. QED
    BY <1>3, <1>4, <1>5

\* cckd_write_trkimg: with the result ok, or without a table for the image, or
\* as if it had not been called.
LEMMA WriteTrkimgMoves ==
  ASSUME NEW f, Sound(f), Tabled(f), NEW t \in Track, NEW len \in Nat, NEW flags
  PROVE  LET w == WriteTrkimg(f, t, len, flags)
             h == w.file
         IN  /\ w.ok \in BOOLEAN /\ Sound(h) /\ Relocated(f, h)
             /\ w.ok \/ h = f \/ f.l1[TableOf(t)] # 0 => Tabled(h)
  <1>. DEFINE U == InUse(f.l1, f.l2)
              K == Cardinality(Slack(f.l2))
  <1>1. PICK w : w = WriteTrkimg(f, t, len, flags)
    OBVIOUS
  <1>2. PICK j \in Table : j = TableOf(t)
    BY TableOfTrack
  <1>3. PICK got : got = IF len = 0 THEN [pos |-> 0, size |-> 0, file |-> f] ELSE GetSpace(f, len, flags)
    OBVIOUS
  <1>4. /\ f \in FileRec /\ Kept(f, U, K) /\ K \in Int /\ 0 \in U /\ Bounded(f)
        /\ f.l1 \in [Table -> Nat] /\ f.l2 \in [Track -> Entry]
    BY SoundFacts
  <1>5. PICK old : old = f.l2[t]
    OBVIOUS
  <1>6. old \in Entry /\ Image(old) /\ Place(old.pos, old.size) \subseteq U
    BY <1>5, SoundFacts DEF TrackArea
  <1>7. /\ old.pos \in Nat /\ old.len \in Nat /\ old.size \in Nat
        /\ IF old.pos = 0 THEN old.size = old.len ELSE old.size # 0
    BY <1>6, SlackOfFacts
  <1>8. CASE got.pos = -1
    <2>1. w = [ok |-> FALSE, file |-> f]
      BY <1>1, <1>3, <1>8 DEF WriteTrkimg
    <2>2. Relocated(f, f)
      BY <1>4, SameUse
    <2>. QED
      BY <1>1, <2>1, <2>2
  <1>9. CASE got.pos # -1
    <2>1. PICK e : e = [pos |-> got.pos, len |-> len, size |-> got.size]
      OBVIOUS
    <2>. DEFINE A == Place(e.pos, e.size)
    <2>2. /\ e \in Entry /\ Image(e) /\ e.len = len /\ A \cap U = {}
          /\ A \cap Held(Spaces(f.free), 1) = {}
          /\ Kept(got.file, U \cup A, K + (e.size - e.len)) /\ SameTables(f, got.file)
          /\ HeldStays(f, got.file)
      <3>1. CASE len = 0
        <4>1. e = Null /\ got.file = f
          BY <1>3, <2>1, <3>1 DEF Null
        <4>2. e.pos = 0 /\ e.len = 0 /\ e.size = 0 /\ A = {}
          BY <4>1 DEF Null, Place
        <4>3. K + (e.size - e.len) = K /\ U \cup A = U
          BY <1>4, <4>2
        <4>4. e \in Entry /\ Image(e)
          BY <4>1 DEF Null, Entry, Image
        <4>5. SameTables(f, f) /\ HeldStays(f, f)
          BY DEF SameTables, HeldStays
        <4>. QED
          BY <1>4, <3>1, <4>1, <4>2, <4>3, <4>4, <4>5
      <3>2. CASE len # 0
        <4>1. Got(f, got.file, got.pos, got.size, len, U, K)
          <5>1. got = GetSpace(f, len, flags)
            BY <1>3, <3>2
          <5>. HIDE DEF U, K
          <5>. QED
            BY <1>4, <1>9, <3>2, <5>1, GetSpaceKeeps
        <4>2. /\ got.pos \in Nat /\ got.size \in Nat /\ len <= got.size
              /\ Units(got.pos, got.size) \cap U = {}
              /\ Units(got.pos, got.size) \cap Held(Spaces(f.free), 1) = {}
              /\ Kept(got.file, U \cup Units(got.pos, got.size), K + (got.size - len))
              /\ SameTables(f, got.file)
              /\ \A m \in Nat : m # 0 => Held(Spaces(got.file.free), m) = Held(Spaces(f.free), m)
          BY <4>1 DEF Got
        <4>3. got.pos # 0
          <5>1. got.size # 0
            BY <3>2, <4>2
          <5>2. got.pos = 0 => 0 \in Units(got.pos, got.size)
            BY <4>2, <5>1, UnitsMember
          <5>. QED
            BY <1>4, <4>2, <5>2
        <4>4. e.pos = got.pos /\ e.len = len /\ e.size = got.size /\ e \in Entry /\ Image(e)
          BY <2>1, <3>2, <4>2, <4>3 DEF Entry, Image
        <4>5. A = Units(got.pos, got.size)
          BY <4>3, <4>4 DEF Place
        <4>6. HeldStays(f, got.file)
          BY <4>2 DEF HeldStays
        <4>. QED
          BY <4>2, <4>4, <4>5, <4>6
      <3>. QED
        BY <3>1, <3>2
    <2>. HIDE DEF A
    <2>3. PICK k \in [Track -> Entry] : k = [f.l2 EXCEPT ![t] = e]
      BY <1>4, <2>2
    <2>4. PICK g : g = [got.file EXCEPT !.l2 = k]
      OBVIOUS
    <2>5. got.file \in FileRec /\ K + (e.size - e.len) \in Int /\ e.size \in Nat /\ e.len \in Nat
      <3>1. e.size \in Nat /\ e.len \in Nat
        BY <2>2 DEF Entry
      <3>2. K + (e.size - e.len) \in Int
        BY <1>4, <3>1
      <3>. QED
        BY <2>2, <3>1, <3>2, KeptFacts
    <2>6. g = [got.file EXCEPT !.l2[t] = [pos |-> got.pos, len |-> len, size |-> got.size]]
      BY <2>1, <2>2, <2>3, <2>4 DEF SameTables
    <2>7. /\ g \in FileRec /\ SameSpace(got.file, g) /\ g.free = got.file.free
          /\ g.l1 = f.l1 /\ g.l2 = k /\ g.bounds = f.bounds
      BY <2>2, <2>4, <2>5 DEF FileRec, SameSpace, SameTables
    <2>8. Kept(g, U \cup A, K + (e.size - e.len)) /\ HeldStays(f, g) /\ Bounded(g)
      BY <1>4, <2>2, <2>7, KeptSame DEF HeldStays, Bounded
    <2>9. CASE f.l1[j] # 0
      <3>1. PICK h : h = RelSpace(g, old.pos, old.len, old.size)
        OBVIOUS
      <3>2. w = [ok |-> TRUE, file |-> h]
        BY <1>1, <1>2, <1>3, <1>5, <1>9, <2>6, <2>7, <2>9, <3>1 DEF WriteTrkimg
      <3>3. /\ Kept(h, (U \cup A) \ Place(old.pos, old.size), K + (e.size - e.len) - (old.size - old.len))
            /\ SameTables(g, h)
            /\ \A m \in Nat : Held(Spaces(g.free), m) \subseteq Held(Spaces(h.free), m)
            /\ \A m \in Nat : m <= FreePend => Place(old.pos, old.size) \subseteq Held(Spaces(h.free), m)
        <4>1. PICK K1 \in Int : K1 = K + (e.size - e.len)
          BY <2>5
        <4>2. PICK U1 : U1 = U \cup A
          OBVIOUS
        <4>3. Kept(g, U1, K1) /\ Place(old.pos, old.size) \subseteq U1
          BY <1>6, <2>8, <4>1, <4>2
        <4>4. /\ Kept(h, U1 \ Place(old.pos, old.size), K1 - (old.size - old.len))
              /\ SameTables(g, h)
              /\ \A m \in Nat : Held(Spaces(g.free), m) \subseteq Held(Spaces(h.free), m)
              /\ \A m \in Nat : m <= FreePend => Place(old.pos, old.size) \subseteq Held(Spaces(h.free), m)
          BY <1>7, <3>1, <4>3, ReleaseKeeps
        <4>5. Kept(h, (U \cup A) \ Place(old.pos, old.size), K + (e.size - e.len) - (old.size - old.len))
          <5>1. PICK n : n = K1 - (old.size - old.len)
            OBVIOUS
          <5>2. n = K + (e.size - e.len) - (old.size - old.len)
            BY <1>4, <1>7, <2>5, <4>1, <5>1
          <5>3. Kept(h, (U \cup A) \ Place(old.pos, old.size), n)
            BY <4>2, <4>4, <5>1
          <5>. QED
            BY <5>2, <5>3
        <4>. QED
          BY <4>4, <4>5
      <3>4. h.l1 = f.l1 /\ h.l2 = [f.l2 EXCEPT ![t] = e] /\ Bounded(h)
        BY <2>3, <2>7, <2>8, <3>3 DEF SameTables, Bounded
      <3>5. HeldStays(f, h) /\ HeldBecomes(TrackArea(f.l2, t), h)
        BY <1>5, <2>8, <3>3 DEF HeldStays, HeldBecomes, TrackArea
      <3>6. Kept(h, (U \ TrackArea(f.l2, t)) \cup A, K - (f.l2[t].size - f.l2[t].len) + (e.size - e.len))
        <4>1. (U \cup A) \ Place(old.pos, old.size) = (U \ TrackArea(f.l2, t)) \cup A
          BY <1>5, <1>6, <2>2 DEF TrackArea
        <4>2. K + (e.size - e.len) - (old.size - old.len) = K - (f.l2[t].size - f.l2[t].len) + (e.size - e.len)
          BY <1>4, <1>5, <1>7, <2>5
        <4>. QED
          BY <3>3, <4>1, <4>2
      <3>7. Sound(h) /\ Relocated(f, h)
        BY <2>2, <3>4, <3>5, <3>6, TrackPlaced DEF A
      <3>8. Tabled(h)
        <4>1. ASSUME NEW u \in Track, h.l2[u] # Null PROVE h.l1[TableOf(u)] # 0
          <5>1. CASE u = t
            BY <1>2, <2>9, <3>4, <5>1
          <5>2. CASE u # t
            BY <1>4, <3>4, <4>1, <5>2 DEF Tabled
          <5>. QED
            BY <5>1, <5>2
        <4>. QED
          BY <4>1 DEF Tabled
      <3>. QED
        BY <1>1, <3>2, <3>7, <3>8
    <2>10. CASE f.l1[j] = 0
      <3>1. old = Null /\ old.pos = 0 /\ old.len = 0 /\ old.size = 0
        BY <1>2, <1>5, <2>10 DEF Tabled, Null
      <3>2. TrackArea(f.l2, t) = {} /\ TableArea(g.l1, j) = {}
        BY <1>5, <2>7, <2>10, <3>1 DEF TrackArea, TableArea, Place
      <3>3. Sound(g) /\ Relocated(f, g)
        <4>1. (U \ TrackArea(f.l2, t)) \cup A = U \cup A
          BY <3>2
        <4>2. K - (f.l2[t].size - f.l2[t].len) + (e.size - e.len) = K + (e.size - e.len)
          BY <1>4, <1>5, <2>5, <3>1
        <4>3. Kept(g, (U \ TrackArea(f.l2, t)) \cup A, K - (f.l2[t].size - f.l2[t].len) + (e.size - e.len))
          BY <2>8, <4>1, <4>2
        <4>4. HeldBecomes(TrackArea(f.l2, t), g)
          BY <3>2 DEF HeldBecomes
        <4>. QED
          BY <2>2, <2>3, <2>7, <2>8, <4>3, <4>4, TrackPlaced DEF A
      <3>4. PICK v : v = WriteL2(g, j)
        OBVIOUS
      <3>. DEFINE U2 == InUse(g.l1, g.l2)
                  K2 == Cardinality(Slack(g.l2))
      <3>5. /\ v.ok \in BOOLEAN
            /\ v.ok => \E x : Wrote(g, v.file, j, x, U2, K2)
            /\ ~v.ok => NotWritten(g, v.file, j, U2, K2)
        <4>1. Kept(g, U2, K2) /\ K2 \in Int /\ 0 \in U2 /\ TableArea(g.l1, j) \subseteq U2
          <5>1. Sound(g)
            BY <3>3
          <5>2. Kept(g, U2, K2) /\ K2 \in Nat /\ 0 \in U2
            BY <5>1, SoundFacts
          <5>3. TableArea(g.l1, j) \subseteq U2
            BY <3>2
          <5>. QED
            BY <5>2, <5>3
        <4>. HIDE DEF U2, K2
        <4>. QED
          BY <3>4, <4>1, WriteL2Keeps
      <3>9. w = IF ~v.ok THEN v ELSE [ok |-> TRUE, file |-> RelSpace(v.file, old.pos, old.len, old.size)]
        BY <1>1, <1>2, <1>3, <1>5, <1>9, <2>6, <2>7, <2>10, <3>4 DEF WriteTrkimg
      <3>6. CASE ~v.ok
        <4>1. w = v
          BY <3>6, <3>9
        <4>2. Sound(v.file) /\ Relocated(g, v.file)
          <5>1. Bounded(g)
            BY <2>8
          <5>. QED
            BY <3>3, <3>5, <3>6, <5>1, SameUse DEF NotWritten
        <4>3. Relocated(f, v.file)
          BY <3>3, <4>2, RelocatedTwice
        <4>. QED
          BY <1>1, <1>2, <2>10, <3>5, <3>6, <4>1, <4>2, <4>3
      <3>7. CASE v.ok
        <4>1. PICK x : Wrote(g, v.file, j, x, U2, K2)
          BY <3>5, <3>7
        <4>2. Sound(v.file) /\ Relocated(g, v.file)
          BY <3>3, <4>1, TablePlaced
        <4>3. Relocated(f, v.file)
          BY <3>3, <4>2, RelocatedTwice
        <4>4. w = [ok |-> TRUE, file |-> v.file]
          <5>1. RelSpace(v.file, old.pos, old.len, old.size) = v.file
            BY <3>1 DEF RelSpace
          <5>. QED
            BY <3>7, <3>9, <5>1
        <4>5. Tabled(v.file)
          <5>1. /\ v.file.l1 = [f.l1 EXCEPT ![j] = x] /\ v.file.l2 = k
                /\ x = 0 => \A u \in TracksOf(j) : k[u] = Null
            BY <2>7, <4>1 DEF Wrote
          <5>2. ASSUME NEW u \in Track, v.file.l2[u] # Null PROVE v.file.l1[TableOf(u)] # 0
            <6>1. CASE TableOf(u) = j
              <7>1. x # 0
                BY <5>1, <5>2, <6>1 DEF TracksOf
              <7>. QED
                BY <1>4, <5>1, <6>1, <7>1
            <6>2. CASE TableOf(u) # j
              <7>1. u # t /\ TableOf(u) \in Table
                BY <1>2, <6>2, TableOfTrack
              <7>2. k[u] = f.l2[u]
                BY <1>4, <2>3, <7>1
              <7>. QED
                BY <1>4, <5>1, <5>2, <6>2, <7>1, <7>2 DEF Tabled
            <6>. QED
              BY <6>1, <6>2
          <5>. QED
            BY <5>2 DEF Tabled
        <4>. QED
          BY <1>1, <4>2, <4>3, <4>4, <4>5
      <3>. QED
        BY <3>5, <3>6, <3>7
    <2>. QED
      BY <2>9, <2>10
  <1>. QED
    BY <1>8, <1>9

-----------------------------------------------------------------------------
(* The actions                                                               *)

\* A unit that the tables refer to
LEMMA UsedMember ==
  ASSUME NEW f, NEW u
  PROVE  u \in Used(f) <=> \/ u \in Units(0, Base)
                           \/ \E j \in Table : f.l1[j] # 0 /\ u \in Units(f.l1[j], L2Len)
                           \/ \E t \in Track : /\ f.l1[TableOf(t)] # 0 /\ f.l2[t].pos # 0
                                               /\ u \in Units(f.l2[t].pos, f.l2[t].size)
  <1>. DEFINE J == {k \in Table : f.l1[k] # 0}
              X == {Units(f.l1[j], L2Len) : j \in J}
              T == {i \in Track : f.l1[TableOf(i)] # 0 /\ f.l2[i].pos # 0}
              Y == {Units(f.l2[t].pos, f.l2[t].size) : t \in T}
  <1>1. \A s : s \in X <=> \E j \in Table : f.l1[j] # 0 /\ s = Units(f.l1[j], L2Len)
    OBVIOUS
  <1>2. \A s : s \in Y <=> \E t \in Track : /\ f.l1[TableOf(t)] # 0 /\ f.l2[t].pos # 0
                                            /\ s = Units(f.l2[t].pos, f.l2[t].size)
    OBVIOUS
  <1>3. Used(f) = (Units(0, Base) \cup (UNION X)) \cup (UNION Y)
    BY DEF Used
  <1>. HIDE DEF X, Y
  <1>4. \A A, B, C : u \in (A \cup (UNION B)) \cup (UNION C)
                      <=> u \in A \/ (\E s \in B : u \in s) \/ (\E s \in C : u \in s)
    OBVIOUS
  <1>5. u \in Used(f) <=> u \in Units(0, Base) \/ (\E s \in X : u \in s) \/ (\E s \in Y : u \in s)
    BY <1>3, <1>4
  <1>. QED
    BY <1>1, <1>2, <1>5

\* It is in use, and if every image has a table there are no others.
LEMMA UsedInUse ==
  ASSUME NEW f, Sound(f)
  PROVE  /\ Used(f) \subseteq InUse(f.l1, f.l2)
         /\ Tabled(f) => Used(f) = InUse(f.l1, f.l2)
  <1>1. /\ Units(0, Base) \subseteq InUse(f.l1, f.l2)
        /\ \A j \in Table : TableArea(f.l1, j) \subseteq InUse(f.l1, f.l2)
        /\ \A t \in Track : TrackArea(f.l2, t) \subseteq InUse(f.l1, f.l2)
    BY SoundFacts
  <1>2. ASSUME NEW u \in Used(f) PROVE u \in InUse(f.l1, f.l2)
    <2>1. ASSUME NEW j \in Table, f.l1[j] # 0, u \in Units(f.l1[j], L2Len)
          PROVE  u \in InUse(f.l1, f.l2)
      BY <1>1, <2>1 DEF TableArea, Place
    <2>2. ASSUME NEW t \in Track, f.l2[t].pos # 0, u \in Units(f.l2[t].pos, f.l2[t].size)
          PROVE  u \in InUse(f.l1, f.l2)
      BY <1>1, <2>2 DEF TrackArea, Place
    <2>. QED
      BY <1>1, <2>1, <2>2, UsedMember
  <1>3. ASSUME Tabled(f), NEW u \in InUse(f.l1, f.l2) PROVE u \in Used(f)
    <2>1. PICK o \in Object : u \in Area(f.l1, f.l2)[o]
      BY DEF InUse
    <2>2. CASE o = <<"header", 0>>
      BY <2>1, <2>2, AreaFacts, UsedMember
    <2>3. ASSUME NEW j \in Table, o = <<"table", j>> PROVE u \in Used(f)
      <3>1. u \in TableArea(f.l1, j)
        BY <2>1, <2>3, AreaFacts
      <3>2. f.l1[j] # 0 /\ u \in Units(f.l1[j], L2Len)
        BY <3>1 DEF TableArea, Place
      <3>. QED
        BY <3>2, UsedMember
    <2>4. ASSUME NEW t \in Track, o = <<"track", t>> PROVE u \in Used(f)
      <3>1. u \in TrackArea(f.l2, t)
        BY <2>1, <2>4, AreaFacts
      <3>2. f.l2[t].pos # 0 /\ u \in Units(f.l2[t].pos, f.l2[t].size)
        BY <3>1 DEF TrackArea, Place
      <3>3. f.l1[TableOf(t)] # 0
        BY <1>3, <3>2 DEF Tabled, Null
      <3>. QED
        BY <3>2, <3>3, UsedMember
    <2>. QED
      BY <2>2, <2>3, <2>4, AreaFacts
  <1>. QED
    BY <1>2, <1>3

\* The file after its creation
LEMMA InitSound ==
  ASSUME NEW f,
         f = [size |-> Base, used |-> Base, total |-> 0, imbed |-> 0, largest |-> 0,
              number |-> 0, free |-> <<>>, l1 |-> [j \in Table |-> 0],
              l2 |-> [t \in Track |-> Null], bounds |-> Base, l2ok |-> TRUE]
  PROVE  Sound(f) /\ Tabled(f)
  <1>1. /\ f.size = Base /\ f.used = Base /\ f.total = 0 /\ f.imbed = 0 /\ f.largest = 0
        /\ f.number = 0 /\ f.free = <<>> /\ f.bounds = Base
        /\ \A j \in Table : f.l1[j] = 0
        /\ \A t \in Track : f.l2[t] = Null
    OBVIOUS
  <1>2. Base \in Nat /\ Base # 0 /\ Base <= MaxSize /\ MaxSize \in Nat
    BY ConstantsAssumption
  <1>3. Null.pos = 0 /\ Null.len = 0 /\ Null.size = 0 /\ Null \in Entry
    BY DEF Null, Entry
  <1>4. f \in FileRec
    BY <1>2, <1>3 DEF FileRec
  <1>5. Spaces(f.free) = {} /\ Cover(Spaces(f.free)) = {} /\ Len(f.free) = 0 /\ f.free \in Seq(Space)
        /\ InOrder(f.free)
    BY <1>1 DEF Spaces, Cover, InOrder
  <1>6. Largest(f.free) = 0
    <2>1. IsLargest({}, 0)
      BY DEF IsLargest, Usable
    <2>2. 0 \in Nat /\ \A e \in Spaces(f.free) : e.len <= 0
      BY <1>5
    <2>. QED
      BY <1>5, <2>1, <2>2, LargestFound
  <1>7. InUse(f.l1, f.l2) = 0 .. Base - 1 /\ Apart(Area(f.l1, f.l2))
    <2>1. \A j \in Table : Area(f.l1, f.l2)[<<"table", j>>] = {}
      BY <1>1, AreaFacts DEF TableArea, Place
    <2>2. \A t \in Track : Area(f.l1, f.l2)[<<"track", t>>] = {}
      <3>1. ASSUME NEW t \in Track PROVE Area(f.l1, f.l2)[<<"track", t>>] = {}
        <4>1. f.l2[t].pos = 0
          BY <1>1, <1>3
        <4>2. TrackArea(f.l2, t) = {}
          BY <4>1 DEF TrackArea, Place
        <4>3. Area(f.l1, f.l2)[<<"track", t>>] = TrackArea(f.l2, t)
          BY AreaFacts
        <4>. QED
          BY <4>2, <4>3
      <3>. QED
        BY <3>1
    <2>3. \A o \in Object : o # <<"header", 0>> => Area(f.l1, f.l2)[o] = {}
      BY <2>1, <2>2, AreaFacts
    <2>4. Area(f.l1, f.l2)[<<"header", 0>>] = Units(0, Base) /\ <<"header", 0>> \in Object
      BY AreaFacts
    <2>5. InUse(f.l1, f.l2) = Units(0, Base)
      BY <2>3, <2>4 DEF InUse
    <2>6. Apart(Area(f.l1, f.l2))
      BY <2>3 DEF Apart
    <2>7. Units(0, Base) = 0 .. Base - 1
      BY <1>2 DEF Units
    <2>. QED
      BY <2>5, <2>6, <2>7
  <1>8. Cardinality(Slack(f.l2)) = 0
    <2>1. \A t \in Track : Units(f.l2[t].pos + f.l2[t].len, f.l2[t].size - f.l2[t].len) = {}
      BY <1>1, <1>3 DEF Units
    <2>2. Slack(f.l2) = {}
      BY <2>1 DEF Slack
    <2>. QED
      BY <2>2, FS_EmptySet
  <1>9. Bounded(f)
    <2>1. Tables(f.l1) = {}
      BY <1>1 DEF Tables
    <2>2. Cardinality(Tables(f.l1)) = 0
      BY <2>1, FS_EmptySet
    <2>3. L2Len * 0 = 0
      BY ConstantsAssumption
    <2>. QED
      BY <1>1, <1>2, <2>2, <2>3 DEF Bounded
  <1>10. Kept(f, 0 .. Base - 1, 0)
    <2>1. Cardinality(Cover(Spaces(f.free))) = 0
      BY <1>5, FS_EmptySet
    <2>. QED
      BY <1>1, <1>2, <1>4, <1>5, <1>6, <2>1 DEF Kept
  <1>11. Shaped(f.l2) /\ Tabled(f)
    BY <1>1 DEF Shaped, Tabled
  <1>. QED
    BY <1>7, <1>8, <1>9, <1>10, <1>11 DEF Sound

\* The collector goes to another step.
LEMMA GcGoes ==
  ASSUME GcSane, NEW pc \in {"wait", "l2images", "l2tables", "cycle", "moved"}, GcGoto(pc)
  PROVE  GcSane' /\ gc'.first = gc.first /\ gc'.pc = pc
  <1>1. gc' = [pc |-> pc, at |-> 0, to |-> 0, first |-> gc.first]
    BY DEF GcSane, GcGoto
  <1>. QED
    BY <1>1 DEF GcSane

\* What the collector does but for the sync and the flush
GcShift ==
  /\ Sound(file') /\ Tabled(file') /\ Relocated(file, file')
  /\ GcSane' /\ gc'.first = gc.first /\ gc.pc # "synced" /\ gc'.pc # "synced"
  /\ mode = "open" /\ UNCHANGED <<stable, opened, chain, mode, writes>>

\* A step that leaves the file alone
LEMMA FileStays ==
  ASSUME Sound(file), Tabled(file), UNCHANGED file
  PROVE  Sound(file') /\ Tabled(file') /\ Relocated(file, file')
  <1>1. Kept(file, InUse(file.l1, file.l2), Cardinality(Slack(file.l2))) /\ Bounded(file)
    BY DEF Sound
  <1>2. Relocated(file, file)
    BY <1>1, SameUse
  <1>. QED
    BY <1>2

\* An image that the collector moves has a table.
LEMMA ImageMoves ==
  ASSUME Sound(file), Tabled(file), NEW t \in Track, file.l2[t].pos # 0, NEW flags
  PROVE  LET w == WriteTrkimg(file, t, file.l2[t].len, flags)
         IN  w.ok \in BOOLEAN /\ Sound(w.file) /\ Tabled(w.file) /\ Relocated(file, w.file)
  <1>1. PICK len : len = file.l2[t].len
    OBVIOUS
  <1>2. len \in Nat
    BY <1>1, SoundFacts DEF Entry
  <1>3. file.l1[TableOf(t)] # 0
    BY DEF Tabled, Null
  <1>4. PICK w : w = WriteTrkimg(file, t, len, flags)
    OBVIOUS
  <1>5. w.ok \in BOOLEAN /\ Sound(w.file) /\ Relocated(file, w.file) /\ Tabled(w.file)
    BY <1>2, <1>3, <1>4, WriteTrkimgMoves
  <1>. QED
    BY <1>1, <1>4, <1>5

\* The beginning of a pass, and its end before the sync
LEMMA GcPassShifts ==
  ASSUME Inv, GcPass \/ GcMoved
  PROVE  GcShift
  <1>1. mode = "open" /\ UNCHANGED <<file, stable, opened, chain, mode, writes>> /\ gc.pc # "synced"
    BY DEF GcPass, GcMoved, GcUnchanged
  <1>2. \E pc \in {"wait", "l2images", "l2tables", "cycle", "moved"} : GcGoto(pc)
    BY DEF GcPass, GcMoved
  <1>3. GcSane' /\ gc'.first = gc.first /\ gc'.pc # "synced"
    BY <1>2, GcGoes DEF Inv
  <1>4. Sound(file') /\ Tabled(file') /\ Relocated(file, file')
    BY <1>1, FileStays DEF Inv
  <1>. QED
    BY <1>1, <1>3, <1>4 DEF GcShift

\* cckd_gc_l2 moves an image out of the bounds.
LEMMA GcL2ImageShifts ==
  ASSUME Inv, GcL2Image
  PROVE  GcShift
  <1>1. mode = "open" /\ UNCHANGED <<stable, opened, chain, mode, writes>> /\ gc.pc = "l2images"
        /\ Sound(file) /\ Tabled(file) /\ GcSane
    BY DEF GcL2Image, GcUnchanged, Inv
  <1>2. ASSUME UNCHANGED gc PROVE GcSane' /\ gc'.first = gc.first /\ gc'.pc # "synced"
    BY <1>1, <1>2 DEF GcSane
  <1>3. ASSUME NEW pc \in {"cycle", "l2tables"}, GcGoto(pc)
        PROVE  GcSane' /\ gc'.first = gc.first /\ gc'.pc # "synced"
    BY <1>1, <1>3, GcGoes
  <1>4. CASE UNCHANGED file /\ (GcGoto("cycle") \/ GcGoto("l2tables"))
    BY <1>1, <1>3, <1>4, FileStays DEF GcShift
  <1>5. CASE file' = [file EXCEPT !.l2ok = TRUE] /\ GcGoto("cycle")
    <2>1. file \in FileRec /\ Kept(file, InUse(file.l1, file.l2), Cardinality(Slack(file.l2))) /\ Bounded(file)
      BY <1>1, SoundFacts
    <2>2. /\ file' \in FileRec /\ SameSpace(file, file') /\ file'.l1 = file.l1 /\ file'.l2 = file.l2
          /\ file'.free = file.free /\ file'.bounds = file.bounds
      BY <1>5, <2>1 DEF FileRec, SameSpace
    <2>3. Kept(file', InUse(file.l1, file.l2), Cardinality(Slack(file.l2)))
      BY <2>1, <2>2, KeptSame
    <2>4. Bounded(file')
      BY <2>1, <2>2 DEF Bounded
    <2>5. Sound(file') /\ Relocated(file, file')
      BY <1>1, <2>2, <2>3, <2>4, SameUse
    <2>6. Tabled(file')
      BY <1>1, <2>2 DEF Tabled
    <2>. QED
      BY <1>1, <1>3, <1>5, <2>5, <2>6 DEF GcShift
  <1>6. CASE \E t \in Inside :
               LET w == WriteTrkimg(file, t, file.l2[t].len, "exact")
               IN  file' = w.file /\ IF w.ok THEN UNCHANGED gc ELSE GcGoto("cycle")
    <2>1. PICK t \in Inside :
               LET w == WriteTrkimg(file, t, file.l2[t].len, "exact")
               IN  file' = w.file /\ IF w.ok THEN UNCHANGED gc ELSE GcGoto("cycle")
      BY <1>6
    <2>2. t \in Track /\ file.l2[t].pos # 0
      BY DEF Inside
    <2>3. PICK w : w = WriteTrkimg(file, t, file.l2[t].len, "exact")
      OBVIOUS
    <2>4. w.ok \in BOOLEAN /\ Sound(w.file) /\ Tabled(w.file) /\ Relocated(file, w.file)
      BY <1>1, <2>2, <2>3, ImageMoves
    <2>5. file' = w.file /\ (UNCHANGED gc \/ GcGoto("cycle"))
      BY <2>1, <2>3
    <2>6. GcSane' /\ gc'.first = gc.first /\ gc'.pc # "synced"
      BY <1>2, <1>3, <2>5
    <2>. QED
      BY <1>1, <2>4, <2>5, <2>6 DEF GcShift
  <1>. QED
    BY <1>4, <1>5, <1>6 DEF GcL2Image

\* cckd_gc_l2 moves a table into the bounds.
LEMMA GcL2TableShifts ==
  ASSUME Inv, GcL2Table
  PROVE  GcShift
  <1>1. mode = "open" /\ UNCHANGED <<stable, opened, chain, mode, writes>> /\ gc.pc = "l2tables"
        /\ Sound(file) /\ Tabled(file) /\ GcSane
    BY DEF GcL2Table, GcUnchanged, Inv
  <1>2. ASSUME UNCHANGED gc PROVE GcSane' /\ gc'.first = gc.first /\ gc'.pc # "synced"
    BY <1>1, <1>2 DEF GcSane
  <1>3. ASSUME GcGoto("cycle") PROVE GcSane' /\ gc'.first = gc.first /\ gc'.pc # "synced"
    BY <1>1, <1>3, GcGoes
  <1>4. CASE UNCHANGED file /\ GcGoto("cycle")
    BY <1>1, <1>3, <1>4, FileStays DEF GcShift
  <1>5. CASE \E j \in TablesToMove :
               LET w == WriteL2(file, j)
               IN  file' = w.file /\ IF w.ok THEN UNCHANGED gc ELSE GcGoto("cycle")
    <2>1. PICK j \in TablesToMove :
               LET w == WriteL2(file, j)
               IN  file' = w.file /\ IF w.ok THEN UNCHANGED gc ELSE GcGoto("cycle")
      BY <1>5
    <2>2. j \in Table
      BY DEF TablesToMove, OutOfBounds
    <2>3. PICK w : w = WriteL2(file, j)
      OBVIOUS
    <2>4. Sound(w.file) /\ Tabled(w.file) /\ Relocated(file, w.file)
      BY <1>1, <2>2, <2>3, WriteL2Moves
    <2>5. file' = w.file /\ (UNCHANGED gc \/ GcGoto("cycle"))
      BY <2>1, <2>3
    <2>6. GcSane' /\ gc'.first = gc.first /\ gc'.pc # "synced"
      BY <1>2, <1>3, <2>5
    <2>. QED
      BY <1>1, <2>4, <2>5, <2>6 DEF GcShift
  <1>. QED
    BY <1>4, <1>5 DEF GcL2Table

\* cckd_gc_percolate selects a range.
LEMMA GcSelectShifts ==
  ASSUME Inv, GcSelect
  PROVE  GcShift
  <1>1. mode = "open" /\ UNCHANGED <<file, stable, opened, chain, mode, writes>> /\ gc.pc = "cycle"
        /\ Sound(file) /\ Tabled(file) /\ GcSane
    BY DEF GcSelect, GcUnchanged, Inv
  <1>. DEFINE Ends(at) == {file.size} \cup {n \in {file.free[i].pos : i \in DOMAIN file.free} : n >= at}
  <1>2. PICK at \in Behind : at < Min(Ends(at)) /\ gc' = [gc EXCEPT !.pc = "move", !.at = at, !.to = Min(Ends(at))]
    BY DEF GcSelect
  <1>3. file.free \in Seq(Space) /\ file.size \in 0 .. MaxSize /\ file.size \in Nat
    BY <1>1, SoundFacts, ConstantsAssumption
  <1>4. \A i \in DOMAIN file.free : file.free[i].pos \in Nat /\ End(file.free[i]) \in Nat /\ End(file.free[i]) # 0
    <2>1. ASSUME NEW i \in DOMAIN file.free
          PROVE  file.free[i].pos \in Nat /\ End(file.free[i]) \in Nat /\ End(file.free[i]) # 0
      <3>1. PICK s \in Space : s = file.free[i]
        BY <1>3
      <3>. QED
        BY <3>1, SpaceFields DEF End
    <2>. QED
      BY <2>1
  <1>5. at \in Nat /\ at # 0
    <2>1. CASE file.free = <<>>
      <3>1. PICK n \in 0 .. Cardinality(Table) : at = Base + L2Len * n
        BY <1>2, <2>1 DEF Behind
      <3>2. Cardinality(Table) \in Nat /\ Base \in Nat /\ Base # 0 /\ L2Len \in Nat
        BY TableOfTrack, FS_CardinalityType, ConstantsAssumption
      <3>3. n \in Nat
        BY <3>2
      <3>4. L2Len * n \in Nat
        BY <3>2, <3>3
      <3>. QED
        BY <3>1, <3>2, <3>4
    <2>2. CASE file.free # <<>>
      BY <1>2, <1>4, <2>2 DEF Behind
    <2>. QED
      BY <2>1, <2>2
  <1>6. Min(Ends(at)) \in Nat
    <2>1. Ends(at) \in SUBSET Nat /\ Ends(at) # {}
      BY <1>3, <1>4
    <2>. HIDE DEF Ends
    <2>. QED
      BY <2>1, MinIsLeast
  <1>7. PICK to \in Nat : to = Min(Ends(at))
    BY <1>6
  <1>8. gc' = [pc |-> "move", at |-> at, to |-> to, first |-> gc.first]
    <2>1. gc' = [gc EXCEPT !.pc = "move", !.at = at, !.to = to]
      BY <1>2, <1>7
    <2>. QED
      BY <1>1, <2>1 DEF GcSane
  <1>9. GcSane' /\ gc'.first = gc.first /\ gc'.pc # "synced"
    BY <1>1, <1>5, <1>8 DEF GcSane
  <1>10. Sound(file') /\ Tabled(file') /\ Relocated(file, file')
    BY <1>1, FileStays
  <1>. QED
    BY <1>1, <1>9, <1>10 DEF GcShift

\* cckd_gc_percolate moves what is in it.
LEMMA GcMoveShifts ==
  ASSUME Inv, GcMove
  PROVE  GcShift
  <1>1. mode = "open" /\ UNCHANGED <<stable, opened, chain, mode, writes>> /\ gc.pc = "move"
        /\ Sound(file) /\ Tabled(file) /\ GcSane /\ gc.at # 0 /\ gc.at \in Nat
    BY DEF GcMove, GcUnchanged, Inv, GcSane
  <1>2. ASSUME NEW n \in Nat, gc' = [gc EXCEPT !.at = @ + n]
        PROVE  GcSane' /\ gc'.first = gc.first /\ gc'.pc # "synced"
    <2>1. gc.at + n \in Nat /\ gc.at + n # 0
      BY <1>1
    <2>2. gc' = [pc |-> gc.pc, at |-> gc.at + n, to |-> gc.to, first |-> gc.first]
      BY <1>1, <1>2 DEF GcSane
    <2>. QED
      BY <1>1, <2>1, <2>2 DEF GcSane
  <1>3. ASSUME NEW pc \in {"cycle", "moved"}, GcGoto(pc)
        PROVE  GcSane' /\ gc'.first = gc.first /\ gc'.pc # "synced"
    BY <1>1, <1>3, GcGoes
  <1>4. CASE UNCHANGED file /\ GcGoto("cycle")
    BY <1>1, <1>3, <1>4, FileStays DEF GcShift
  <1>5. CASE \E j \in Table :
               LET w == WriteL2(file, j)
               IN  file' = w.file /\ IF w.ok THEN gc' = [gc EXCEPT !.at = @ + L2Len] ELSE GcGoto("moved")
    <2>1. PICK j \in Table :
               LET w == WriteL2(file, j)
               IN  file' = w.file /\ IF w.ok THEN gc' = [gc EXCEPT !.at = @ + L2Len] ELSE GcGoto("moved")
      BY <1>5
    <2>2. PICK w : w = WriteL2(file, j)
      OBVIOUS
    <2>3. Sound(w.file) /\ Tabled(w.file) /\ Relocated(file, w.file)
      BY <1>1, <2>2, WriteL2Moves
    <2>4. file' = w.file /\ (gc' = [gc EXCEPT !.at = @ + L2Len] \/ GcGoto("moved"))
      BY <2>1, <2>2
    <2>5. GcSane' /\ gc'.first = gc.first /\ gc'.pc # "synced"
      <3>1. L2Len \in Nat
        BY ConstantsAssumption
      <3>. QED
        BY <1>2, <1>3, <2>4, <3>1
    <2>. QED
      BY <1>1, <2>3, <2>4, <2>5 DEF GcShift
  <1>6. CASE \E t \in Track :
               LET e == file.l2[t]
                   w == WriteTrkimg(file, t, e.len, Flags)
               IN  /\ e.pos = gc.at /\ file' = w.file
                   /\ IF w.ok THEN gc' = [gc EXCEPT !.at = @ + e.size] ELSE GcGoto("moved")
    <2>1. PICK t \in Track :
               LET e == file.l2[t]
                   w == WriteTrkimg(file, t, e.len, Flags)
               IN  /\ e.pos = gc.at /\ file' = w.file
                   /\ IF w.ok THEN gc' = [gc EXCEPT !.at = @ + e.size] ELSE GcGoto("moved")
      BY <1>6
    <2>2. file.l2[t].pos # 0
      BY <1>1, <2>1
    <2>3. PICK w : w = WriteTrkimg(file, t, file.l2[t].len, Flags)
      OBVIOUS
    <2>4. w.ok \in BOOLEAN /\ Sound(w.file) /\ Tabled(w.file) /\ Relocated(file, w.file)
      BY <1>1, <2>2, <2>3, ImageMoves
    <2>5. PICK n \in Nat : n = file.l2[t].size
      BY <1>1, SoundFacts DEF Entry
    <2>6. file' = w.file /\ (gc' = [gc EXCEPT !.at = @ + n] \/ GcGoto("moved"))
      BY <2>1, <2>3, <2>5
    <2>7. GcSane' /\ gc'.first = gc.first /\ gc'.pc # "synced"
      BY <1>2, <1>3, <2>6
    <2>. QED
      BY <1>1, <2>4, <2>6, <2>7 DEF GcShift
  <1>. QED
    BY <1>4, <1>5, <1>6 DEF GcMove

\* A track is written: an image that got no table is the end.
WriteShift ==
  /\ Sound(file') /\ Relocated(file, file') /\ (mode' = "open" => Tabled(file'))
  /\ mode = "open" /\ mode' \in {"open", "lost"} /\ writes' \in 0 .. MaxWrites
  /\ opened' = TRUE /\ UNCHANGED <<gc, stable, chain>>

\* A writer writes a track.
LEMMA WriteTrackShifts ==
  ASSUME Inv, NEW t \in Track, NEW len \in Lens \cup {0}, WriteTrack(t, len)
  PROVE  WriteShift
  <1>1. PICK w : w = WriteTrkimg(file, t, len, "any")
    OBVIOUS
  <1>2. /\ mode = "open" /\ writes < MaxWrites /\ writes' = writes + 1 /\ file' = w.file
        /\ opened' = TRUE /\ mode' = IF ~w.ok /\ w.file # file THEN "lost" ELSE "open"
        /\ UNCHANGED <<gc, stable, chain>>
    BY <1>1 DEF WriteTrack
  <1>3. Sound(file) /\ Tabled(file) /\ writes \in 0 .. MaxWrites /\ MaxWrites \in Nat /\ len \in Nat
    BY <1>2, ConstantsAssumption DEF Inv
  <1>4. /\ w.ok \in BOOLEAN /\ Sound(w.file) /\ Relocated(file, w.file)
        /\ w.ok \/ w.file = file => Tabled(w.file)
    BY <1>1, <1>3, WriteTrkimgMoves
  <1>5. mode' = "open" => Tabled(file')
    BY <1>2, <1>4
  <1>6. writes' \in 0 .. MaxWrites
    BY <1>2, <1>3
  <1>. QED
    BY <1>2, <1>4, <1>5, <1>6 DEF WriteShift

\* The sync: the disk has the tables that there are, or those it had if the
\* pass is the first and took its time for that of a sync.
SyncShift ==
  /\ UNCHANGED <<file, opened, chain, mode, writes>> /\ mode = "open"
  /\ gc.pc # "synced" /\ gc'.pc = "synced" /\ GcSane'
  /\ stable' \subseteq 0 .. MaxSize - 1
  /\ stable' = InUse(file.l1, file.l2) \/ (gc.first /\ stable' = stable)

\* The sync finds every image with its table.
LEMMA GcSyncShifts ==
  ASSUME Inv, GcSync
  PROVE  SyncShift
  <1>1. /\ UNCHANGED <<file, opened, chain, mode, writes>> /\ mode = "open" /\ gc.pc = "moved"
        /\ stable' = Used(file) \/ (gc.first /\ stable' = stable)
        /\ gc' = [gc EXCEPT !.pc = "synced", !.first = FALSE]
    BY DEF GcSync, GcUnchanged
  <1>2. Sound(file) /\ Tabled(file) /\ GcSane /\ stable \subseteq 0 .. MaxSize - 1
    BY <1>1 DEF Inv
  <1>3. Used(file) = InUse(file.l1, file.l2)
    BY <1>2, UsedInUse
  <1>4. InUse(file.l1, file.l2) \subseteq 0 .. MaxSize - 1
    <2>1. file.size \in 0 .. MaxSize /\ InUse(file.l1, file.l2) \subseteq 0 .. file.size - 1
      BY <1>2, SoundFacts
    <2>2. MaxSize \in Nat
      BY ConstantsAssumption
    <2>3. 0 .. file.size - 1 \subseteq 0 .. MaxSize - 1
      BY <2>1, <2>2
    <2>. QED
      BY <2>1, <2>3
  <1>5. GcSane' /\ gc'.pc = "synced"
    <2>1. gc' = [pc |-> "synced", at |-> gc.at, to |-> gc.to, first |-> FALSE]
      BY <1>1, <1>2 DEF GcSane
    <2>. QED
      BY <1>2, <2>1 DEF GcSane
  <1>. QED
    BY <1>1, <1>2, <1>3, <1>4, <1>5 DEF SyncShift

\* The flush that follows it
FlushShift ==
  /\ Sound(file') /\ Tabled(file') /\ Flushes(file, file')
  /\ gc.pc = "synced" /\ ~gc.first /\ gc'.pc # "synced" /\ GcSane' /\ ~gc'.first
  /\ mode = "open" /\ UNCHANGED <<stable, opened, chain, mode, writes>>

\* A flush, or all of them, leaves the tables alone.
LEMMA SameTablesSound ==
  ASSUME NEW f, NEW h, Sound(f), Tabled(f), SameTables(f, h),
         Kept(h, InUse(f.l1, f.l2), Cardinality(Slack(f.l2)))
  PROVE  Sound(h) /\ Tabled(h)
  <1>1. h.l1 = f.l1 /\ h.l2 = f.l2 /\ h.bounds = f.bounds
    BY DEF SameTables
  <1>2. Shaped(f.l2) /\ Apart(Area(f.l1, f.l2)) /\ Bounded(f)
    BY DEF Sound
  <1>3. Bounded(h)
    BY <1>1, <1>2 DEF Bounded
  <1>4. Tabled(h)
    BY <1>1 DEF Tabled
  <1>. QED
    BY <1>1, <1>2, <1>3, <1>4 DEF Sound

\* The flush follows a sync, so the pass is not the first.
LEMMA GcFlushShifts ==
  ASSUME Inv, GcFlush
  PROVE  FlushShift
  <1>1. /\ UNCHANGED <<stable, opened, chain, mode, writes>> /\ mode = "open" /\ gc.pc = "synced"
        /\ file' = FlushSpace(file) /\ GcGoto("wait")
    BY DEF GcFlush, GcUnchanged
  <1>2. Sound(file) /\ Tabled(file) /\ GcSane /\ ~gc.first
    BY <1>1 DEF Inv, GcSane
  <1>3. GcSane' /\ gc'.first = gc.first /\ gc'.pc = "wait"
    BY <1>1, <1>2, GcGoes
  <1>4. Kept(file, InUse(file.l1, file.l2), Cardinality(Slack(file.l2)))
        /\ Cardinality(Slack(file.l2)) \in Int
    BY <1>2, SoundFacts
  <1>5. Kept(file', InUse(file.l1, file.l2), Cardinality(Slack(file.l2))) /\ Flushes(file, file')
    BY <1>1, <1>4, FlushSpaceKeeps
  <1>6. SameTables(file, file')
    BY <1>5 DEF Flushes
  <1>7. Sound(file') /\ Tabled(file')
    BY <1>2, <1>5, <1>6, SameTablesSound
  <1>. QED
    BY <1>1, <1>2, <1>3, <1>5, <1>7 DEF FlushShift

\* Closing
HardenShift ==
  /\ Sound(file') /\ Tabled(file') /\ UNCHANGED <<gc, writes>> /\ opened' = FALSE
  /\ stable' = InUse(file'.l1, file'.l2) /\ stable' \subseteq 0 .. MaxSize - 1
  /\ stable' = Used(file') /\ InUse(file'.l1, file'.l2) = InUse(file.l1, file.l2)
  /\ chain' \in Seq(Space) /\ HardenedChain' /\ mode = "open" /\ mode' \in {"open", "damaged"}

\* cckd_harden leaves nothing pending, whatever the passes were.
LEMMA HardenShifts ==
  ASSUME Inv, Harden
  PROVE  HardenShift
  <1>1. PICK f : f = FlushAll(file)
    OBVIOUS
  <1>2. PICK bounds : bounds = Base + L2Len * Cardinality({j \in Table : f.l1[j] # 0})
    OBVIOUS
  <1>3. PICK ok \in BOOLEAN : ok = \A j \in Table : f.l1[j] <= bounds - L2Len
    OBVIOUS
  <1>4. /\ mode = "open" /\ UNCHANGED <<gc, writes>> /\ opened' = FALSE
        /\ file' = [f EXCEPT !.bounds = bounds, !.l2ok = ok]
        /\ stable' = Used(f) /\ chain' = f.free
        /\ mode' \in {"open", "damaged"}
    BY <1>1, <1>2, <1>3 DEF Harden
  <1>5. Sound(file) /\ Tabled(file)
    BY <1>4 DEF Inv
  <1>. DEFINE U == InUse(file.l1, file.l2)
              K == Cardinality(Slack(file.l2))
  <1>6. Kept(file, U, K) /\ K \in Int
    BY <1>5, SoundFacts
  <1>7. Kept(f, U, K) /\ SameTables(file, f) /\ AtMost(Spaces(f.free), 0) /\ Gaps(f.free)
    BY <1>1, <1>6, FlushAllKeeps
  <1>8. Sound(f) /\ Tabled(f)
    BY <1>5, <1>7, SameTablesSound
  <1>9. /\ f \in FileRec /\ f.l1 \in [Table -> Nat] /\ f.free \in Seq(Space) /\ InUse(f.l1, f.l2) = U
        /\ f.l1 = file.l1 /\ f.l2 = file.l2
    BY <1>7, <1>8, SoundFacts DEF SameTables
  <1>10. bounds \in Int /\ bounds = Base + L2Len * Cardinality(Tables(f.l1))
    <2>1. Cardinality(Tables(f.l1)) \in Nat
      <3>1. Tables(f.l1) \in SUBSET Table
        BY DEF Tables
      <3>2. IsFiniteSet(Tables(f.l1))
        BY <3>1, TableOfTrack, FS_Subset
      <3>. QED
        BY <3>2, FS_CardinalityType
    <2>2. bounds = Base + L2Len * Cardinality(Tables(f.l1))
      BY <1>2 DEF Tables
    <2>. QED
      BY <2>1, <2>2, ConstantsAssumption
  <1>11. /\ file' \in FileRec /\ SameSpace(f, file') /\ file'.l1 = f.l1 /\ file'.l2 = f.l2
         /\ file'.free = f.free /\ file'.bounds = bounds
    BY <1>4, <1>9, <1>10 DEF FileRec, SameSpace
  <1>12. Kept(file', U, K)
    BY <1>7, <1>11, KeptSame
  <1>13. Bounded(file')
    <2>. DEFINE b == Base + L2Len * Cardinality(Tables(f.l1))
    <2>1. file'.bounds = b /\ b \in Int
      BY <1>10, <1>11
    <2>2. b >= b
      <3>. HIDE DEF b
      <3>. QED
        BY <2>1
    <2>. QED
      BY <1>11, <2>1, <2>2 DEF Bounded
  <1>14. Sound(file')
    BY <1>8, <1>9, <1>11, <1>12, <1>13 DEF Sound
  <1>15. Tabled(file')
    BY <1>8, <1>11 DEF Tabled
  <1>16. Used(f) = U /\ Used(file') = U
    BY <1>8, <1>9, <1>11, <1>14, <1>15, UsedInUse
  <1>17. U \subseteq 0 .. MaxSize - 1
    <2>1. file.size \in 0 .. MaxSize /\ U \subseteq 0 .. file.size - 1
      BY <1>5, SoundFacts
    <2>2. MaxSize \in Nat
      BY ConstantsAssumption
    <2>3. 0 .. file.size - 1 \subseteq 0 .. MaxSize - 1
      BY <2>1, <2>2
    <2>. QED
      BY <2>1, <2>3
  <1>18. HardenedChain'
    <2>1. chain' = f.free /\ f.free \in Seq(Space)
      BY <1>4, <1>9
    <2>2. ASSUME NEW i \in DOMAIN f.free PROVE f.free[i].pending = 0
      <3>1. f.free[i] \in Spaces(f.free)
        BY DEF Spaces
      <3>2. f.free[i] \in Space
        BY <1>9
      <3>3. f.free[i].pending <= 0 /\ f.free[i].pending \in Nat
        BY <1>7, <3>1, <3>2, SpaceFields DEF AtMost
      <3>. QED
        BY <3>3
    <2>3. \A i \in 1 .. Len(f.free) - 1 : End(f.free[i]) < f.free[i + 1].pos
      BY <1>7 DEF Gaps
    <2>. QED
      BY <2>1, <2>2, <2>3 DEF HardenedChain
  <1>. QED
    BY <1>4, <1>9, <1>11, <1>14, <1>15, <1>16, <1>17, <1>18 DEF HardenShift

-----------------------------------------------------------------------------
(* The invariant is one                                                      *)

\* A step of the collector but for the sync and the flush, or what writes a track
LEMMA ShiftKeepsInv ==
  ASSUME Inv, GcShift \/ WriteShift
  PROVE  Inv'
  <1>1. CASE GcShift
    <2>1. /\ Sound(file') /\ Tabled(file') /\ GcSane'
          /\ stable' = stable /\ opened' = opened /\ chain' = chain /\ mode' = mode /\ writes' = writes
      BY <1>1 DEF GcShift
    <2>2. HardenedChain'
      BY <2>1 DEF Inv, HardenedChain
    <2>. QED
      BY <2>1, <2>2 DEF Inv
  <1>2. CASE WriteShift
    <2>1. /\ Sound(file') /\ (mode' = "open" => Tabled(file')) /\ mode' \in {"open", "lost"}
          /\ writes' \in 0 .. MaxWrites /\ opened' = TRUE
          /\ gc' = gc /\ stable' = stable /\ chain' = chain
      BY <1>2 DEF WriteShift
    <2>2. HardenedChain'
      BY <2>1 DEF Inv, HardenedChain
    <2>3. GcSane'
      BY <2>1 DEF Inv, GcSane
    <2>. QED
      BY <2>1, <2>2, <2>3 DEF Inv
  <1>. QED
    BY <1>1, <1>2

\* The sync, the flush, and closing
LEMMA SyncKeepsInv ==
  ASSUME Inv, SyncShift \/ FlushShift \/ HardenShift
  PROVE  Inv'
  <1>1. CASE SyncShift
    <2>1. /\ file' = file /\ GcSane' /\ stable' \subseteq 0 .. MaxSize - 1
          /\ opened' = opened /\ chain' = chain /\ mode' = mode /\ writes' = writes
      BY <1>1 DEF SyncShift
    <2>2. HardenedChain'
      BY <2>1 DEF Inv, HardenedChain
    <2>3. Sound(file') /\ (mode' = "open" => Tabled(file'))
      BY <2>1 DEF Inv
    <2>. QED
      BY <2>1, <2>2, <2>3 DEF Inv
  <1>2. CASE FlushShift
    <2>1. /\ Sound(file') /\ Tabled(file') /\ GcSane'
          /\ stable' = stable /\ opened' = opened /\ chain' = chain /\ mode' = mode /\ writes' = writes
      BY <1>2 DEF FlushShift
    <2>2. HardenedChain'
      BY <2>1 DEF Inv, HardenedChain
    <2>. QED
      BY <2>1, <2>2 DEF Inv
  <1>3. CASE HardenShift
    <2>1. /\ Sound(file') /\ Tabled(file') /\ gc' = gc /\ writes' = writes /\ opened' = FALSE
          /\ stable' \subseteq 0 .. MaxSize - 1 /\ chain' \in Seq(Space) /\ HardenedChain'
          /\ mode' \in {"open", "damaged"}
      BY <1>3 DEF HardenShift
    <2>2. GcSane'
      BY <2>1 DEF Inv, GcSane
    <2>. QED
      BY <2>1, <2>2 DEF Inv
  <1>. QED
    BY <1>1, <1>2, <1>3

\* Every step is one of these.
LEMMA Steps ==
  ASSUME Inv, Next
  PROVE  GcShift \/ WriteShift \/ SyncShift \/ FlushShift \/ HardenShift
  <1>1. CASE \E t \in Track, len \in Lens \cup {0} : WriteTrack(t, len)
    <2>1. PICK t \in Track, len \in Lens \cup {0} : WriteTrack(t, len)
      BY <1>1
    <2>. QED
      BY <2>1, WriteTrackShifts
  <1>2. CASE GcPass \/ GcMoved
    BY <1>2, GcPassShifts
  <1>3. CASE GcL2Image
    BY <1>3, GcL2ImageShifts
  <1>4. CASE GcL2Table
    BY <1>4, GcL2TableShifts
  <1>5. CASE GcSelect
    BY <1>5, GcSelectShifts
  <1>6. CASE GcMove
    BY <1>6, GcMoveShifts
  <1>7. CASE GcSync
    BY <1>7, GcSyncShifts
  <1>8. CASE GcFlush
    BY <1>8, GcFlushShifts
  <1>9. CASE Harden
    BY <1>9, HardenShifts
  <1>. QED
    BY <1>1, <1>2, <1>3, <1>4, <1>5, <1>6, <1>7, <1>8, <1>9 DEF Next, Gc

\* The invariant holds initially,
LEMMA InvInit ==
  ASSUME Init
  PROVE  Inv /\ stable = InUse(file.l1, file.l2)
  <1>1. Sound(file) /\ Tabled(file)
    BY InitSound DEF Init
  <1>2. GcSane
    BY DEF Init, GcSane
  <1>3. stable = 0 .. Base - 1 /\ Base \in Nat /\ Base <= MaxSize /\ MaxSize \in Nat /\ MaxWrites \in Nat
    BY ConstantsAssumption DEF Init
  <1>4. stable \subseteq 0 .. MaxSize - 1
    BY <1>3
  <1>5. chain \in Seq(Space) /\ HardenedChain
    <2>1. chain = <<>>
      BY DEF Init
    <2>. QED
      BY <2>1 DEF HardenedChain
  <1>6. opened \in BOOLEAN /\ mode = "open" /\ writes \in 0 .. MaxWrites
    <2>1. opened = FALSE /\ mode = "open" /\ writes = 0
      BY DEF Init
    <2>2. opened \in BOOLEAN
      BY <2>1, Zenon
    <2>3. writes \in 0 .. MaxWrites
      BY <1>3, <2>1
    <2>. QED
      BY <2>1, <2>2, <2>3
  <1>7. stable = InUse(file.l1, file.l2)
    <2>1. Kept(file, InUse(file.l1, file.l2), Cardinality(Slack(file.l2)))
      BY <1>1 DEF Sound
    <2>2. file.size = Base /\ file.free = <<>>
      BY DEF Init
    <2>3. Spaces(file.free) = {}
      BY <2>2 DEF Spaces
    <2>4. Cover(Spaces(file.free)) = {}
      BY <2>3 DEF Cover
    <2>. QED
      BY <1>3, <2>1, <2>2, <2>4 DEF Kept
  <1>. QED
    BY <1>1, <1>2, <1>4, <1>5, <1>6, <1>7 DEF Inv

\* and every step keeps it.
LEMMA InvStays ==
  ASSUME Inv, [Next]_vars
  PROVE  Inv'
  <1>1. CASE Next
    BY <1>1, Steps, ShiftKeepsInv, SyncKeepsInv
  <1>2. CASE UNCHANGED vars
    <2>1. /\ file' = file /\ gc' = gc /\ opened' = opened /\ stable' = stable /\ chain' = chain
          /\ mode' = mode /\ writes' = writes
      BY <1>2 DEF vars
    <2>2. HardenedChain'
      BY <2>1 DEF Inv, HardenedChain
    <2>3. GcSane'
      BY <2>1 DEF Inv, GcSane
    <2>4. Sound(file') /\ (mode' = "open" => Tabled(file'))
      BY <2>1 DEF Inv
    <2>. QED
      BY <2>1, <2>2, <2>3, <2>4 DEF Inv
  <1>. QED
    BY <1>1, <1>2

-----------------------------------------------------------------------------
(* What it says of the file                                                  *)

\* The counts are natural numbers: the space in images is part of what is in use.
LEMMA CountsNatural ==
  ASSUME NEW f, Sound(f)
  PROVE  /\ f.used \in Nat /\ f.total \in Nat /\ f.imbed \in Nat /\ f.largest \in Nat
         /\ f.number \in Nat /\ f.bounds \in Nat
  <1>. DEFINE U == InUse(f.l1, f.l2)
              K == Cardinality(Slack(f.l2))
              C == Cover(Spaces(f.free))
  <1>1. /\ f \in FileRec /\ Kept(f, U, K) /\ K \in Nat /\ K \in Int /\ IsFiniteSet(U)
        /\ f.free \in Seq(Space) /\ Bounded(f)
        /\ \A t \in Track : SlackOf(f.l2[t]) \subseteq U
    <2>1. ASSUME NEW t \in Track PROVE SlackOf(f.l2[t]) \subseteq U
      BY SoundFacts
    <2>2. f \in FileRec /\ Kept(f, U, K) /\ K \in Nat /\ IsFiniteSet(U) /\ f.free \in Seq(Space) /\ Bounded(f)
      BY SoundFacts
    <2>. QED
      BY <2>1, <2>2
  <1>2. f.largest \in Nat /\ IsFiniteSet(C) /\ Cardinality(C) \in Nat /\ f.size \in Nat
    BY <1>1, KeptFacts
  <1>3. /\ f.number = Len(f.free) /\ f.imbed = K /\ f.total = Cardinality(C) + K
        /\ f.used = f.size - f.total /\ C \cap U = {} /\ C \cup U = 0 .. f.size - 1
    BY <1>1 DEF Kept
  <1>4. Cardinality(U) \in Nat /\ K <= Cardinality(U)
    <2>1. Slack(f.l2) \in SUBSET U
      BY <1>1 DEF Slack, SlackOf
    <2>. QED
      BY <1>1, <2>1, FS_Subset, FS_CardinalityType
  <1>5. f.size = Cardinality(C) + Cardinality(U)
    <2>1. Cardinality(C \cap U) = 0
      BY <1>3, FS_EmptySet
    <2>2. Cardinality(C \cup U) = Cardinality(C) + Cardinality(U) - Cardinality(C \cap U)
      BY <1>1, <1>2, FS_Union
    <2>3. Cardinality(0 .. f.size - 1) = f.size
      <3>1. f.size - 1 \in Int /\ 0 \in Int
        BY <1>2
      <3>2. Cardinality(0 .. f.size - 1) = IF 0 > f.size - 1 THEN 0 ELSE (f.size - 1) - 0 + 1
        BY <3>1, FS_Interval
      <3>. QED
        BY <1>2, <3>2
    <2>4. f.size = Cardinality(C) + Cardinality(U) - 0
      BY <1>3, <2>1, <2>2, <2>3
    <2>. QED
      BY <1>2, <1>4, <2>4
  <1>6. f.used \in Nat /\ f.total \in Nat
    <2>. DEFINE c == Cardinality(C)
                u == Cardinality(U)
    <2>1. c \in Nat /\ u \in Nat /\ K <= u /\ f.size = c + u /\ f.total = c + K /\ f.used = f.size - f.total
      BY <1>2, <1>3, <1>4, <1>5
    <2>. HIDE DEF c, u, K
    <2>2. K \in Nat
      BY <1>1 DEF K
    <2>. QED
      BY <2>1, <2>2
  <1>7. f.bounds \in Nat
    <2>1. IsFiniteSet(Tables(f.l1))
      <3>1. Tables(f.l1) \in SUBSET Table
        BY DEF Tables
      <3>. QED
        BY <3>1, TableOfTrack, FS_Subset
    <2>2. PICK n \in Nat : n = Cardinality(Tables(f.l1))
      BY <2>1, FS_CardinalityType
    <2>3. Base \in Nat /\ L2Len \in Nat /\ f.bounds \in Int
      BY <1>1, ConstantsAssumption DEF FileRec
    <2>4. L2Len * n \in Nat
      BY <2>2, <2>3
    <2>. QED
      BY <1>1, <2>2, <2>3, <2>4 DEF Bounded
  <1>. QED
    BY <1>1, <1>2, <1>3, <1>6, <1>7

\* Its types are those of the model, with counts that are not negative.
LEMMA TypeFromInv ==
  ASSUME Inv
  PROVE  TypeOK
  <1>1. Sound(file)
    BY DEF Inv
  <1>2. /\ file \in FileRec /\ file.size \in 0 .. MaxSize
        /\ file.used \in Nat /\ file.total \in Nat /\ file.imbed \in Nat /\ file.largest \in Nat
        /\ file.number \in Nat /\ file.bounds \in Nat
    BY <1>1, SoundFacts, CountsNatural
  <1>3. file \in File
    BY <1>2 DEF FileRec, File, Entry
  <1>. QED
    BY <1>3 DEF Inv, GcSane, TypeOK

\* The total is the sum over the chain.
LEMMA AccountsFromInv ==
  ASSUME Inv
  PROVE  Accounts
  <1>1. Sound(file)
    BY DEF Inv
  <1>. DEFINE U == InUse(file.l1, file.l2)
              K == Cardinality(Slack(file.l2))
              C == Cover(Spaces(file.free))
  <1>2. /\ file.free \in Seq(Space) /\ InOrder(file.free) /\ Kept(file, U, K) /\ K \in Nat /\ K \in Int
    BY <1>1, SoundFacts
  <1>3. IsFiniteSet(C) /\ Cardinality(C) \in Nat /\ file.size \in Nat
    BY <1>2, KeptFacts
  <1>4. SumLen(file.free) = Cardinality(C)
    BY <1>2, <1>3, SumCounts
  <1>5. /\ file.number = Len(file.free) /\ file.largest = Largest(file.free)
        /\ file.imbed = K /\ file.total = Cardinality(C) + K /\ file.used = file.size - file.total
    BY <1>2 DEF Kept
  <1>6. file.total = SumLen(file.free) + file.imbed
    BY <1>4, <1>5
  <1>7. file.used + file.total = file.size
    <2>1. file.total \in Nat
      BY <1>1, CountsNatural
    <2>. QED
      BY <1>3, <1>5, <2>1
  <1>8. ASSUME NEW i \in 1 .. Len(file.free) - 1
        PROVE  file.free[i].pos < file.free[i + 1].pos
    <2>1. i \in 1 .. Len(file.free) /\ i + 1 \in 1 .. Len(file.free) /\ i < i + 1
      BY <1>2
    <2>2. End(file.free[i]) <= file.free[i + 1].pos
      BY <1>2, <2>1, OrderedApart
    <2>3. file.free[i] \in Space /\ file.free[i + 1] \in Space
      BY <1>2, <2>1
    <2>4. /\ file.free[i].pos \in Nat /\ file.free[i].len \in Nat /\ file.free[i].len # 0
          /\ file.free[i + 1].pos \in Nat
      BY <2>3, SpaceFields
    <2>. QED
      BY <2>2, <2>4 DEF End
  <1>. QED
    BY <1>5, <1>6, <1>7, <1>8 DEF Accounts

\* A claim is an object's or a free space's.
ClaimOf(f, o) ==
  IF o[1] = "header" THEN [pos |-> 0, len |-> Base]
  ELSE IF o[1] = "table" THEN [pos |-> f.l1[o[2]], len |-> L2Len]
  ELSE [pos |-> f.l2[o[2]].pos, len |-> f.l2[o[2]].size]
ClaimOn(s) == [pos |-> s.pos, len |-> s.len]

\* A claim to a unit is an area with it, or a free space.
LEMMA ClaimsMember ==
  ASSUME NEW u
  PROVE  \A c : c \in Claims /\ u \in Units(c.pos, c.len)
                  <=> \/ \E o \in Object : u \in Area(file.l1, file.l2)[o] /\ c = ClaimOf(file, o)
                      \/ \E s \in Spaces(file.free) : u \in Units(s.pos, s.len) /\ c = ClaimOn(s)
  <1>1. \A c : c \in Claims
                 <=> \/ c = [pos |-> 0, len |-> Base]
                     \/ \E j \in Table : file.l1[j] # 0 /\ c = [pos |-> file.l1[j], len |-> L2Len]
                     \/ \E t \in Track : /\ file.l2[t].pos # 0
                                         /\ c = [pos |-> file.l2[t].pos, len |-> file.l2[t].size]
                     \/ \E i \in DOMAIN file.free : c = [pos |-> file.free[i].pos, len |-> file.free[i].len]
    BY DEF Claims
  <1>2. /\ ClaimOf(file, <<"header", 0>>) = [pos |-> 0, len |-> Base]
        /\ \A j \in Table : ClaimOf(file, <<"table", j>>) = [pos |-> file.l1[j], len |-> L2Len]
        /\ \A t \in Track : ClaimOf(file, <<"track", t>>) = [pos |-> file.l2[t].pos, len |-> file.l2[t].size]
    BY DEF ClaimOf
  <1>3. \A j \in Table : u \in Area(file.l1, file.l2)[<<"table", j>>]
                           <=> file.l1[j] # 0 /\ u \in Units(file.l1[j], L2Len)
    BY AreaFacts DEF TableArea, Place
  <1>4. \A t \in Track : u \in Area(file.l1, file.l2)[<<"track", t>>]
                           <=> file.l2[t].pos # 0 /\ u \in Units(file.l2[t].pos, file.l2[t].size)
    <2>1. ASSUME NEW t \in Track
          PROVE  u \in Area(file.l1, file.l2)[<<"track", t>>]
                   <=> file.l2[t].pos # 0 /\ u \in Units(file.l2[t].pos, file.l2[t].size)
      <3>1. Area(file.l1, file.l2)[<<"track", t>>] = TrackArea(file.l2, t)
        BY AreaFacts
      <3>. QED
        BY <3>1 DEF TrackArea, Place
    <2>. QED
      BY <2>1
  <1>5. Area(file.l1, file.l2)[<<"header", 0>>] = Units(0, Base) /\ <<"header", 0>> \in Object
    BY AreaFacts
  <1>6. ASSUME NEW c, c \in Claims, u \in Units(c.pos, c.len)
        PROVE  \/ \E o \in Object : u \in Area(file.l1, file.l2)[o] /\ c = ClaimOf(file, o)
               \/ \E s \in Spaces(file.free) : u \in Units(s.pos, s.len) /\ c = ClaimOn(s)
    <2>1. CASE c = [pos |-> 0, len |-> Base]
      BY <1>2, <1>5, <1>6, <2>1
    <2>2. ASSUME NEW j \in Table, file.l1[j] # 0, c = [pos |-> file.l1[j], len |-> L2Len]
          PROVE  \E o \in Object : u \in Area(file.l1, file.l2)[o] /\ c = ClaimOf(file, o)
      <3>1. <<"table", j>> \in Object
        BY AreaFacts
      <3>2. u \in Units(file.l1[j], L2Len)
        BY <1>6, <2>2
      <3>. QED
        BY <1>2, <1>3, <2>2, <3>1, <3>2
    <2>3. ASSUME NEW t \in Track, file.l2[t].pos # 0,
                 c = [pos |-> file.l2[t].pos, len |-> file.l2[t].size]
          PROVE  \E o \in Object : u \in Area(file.l1, file.l2)[o] /\ c = ClaimOf(file, o)
      <3>1. <<"track", t>> \in Object
        BY AreaFacts
      <3>2. u \in Units(file.l2[t].pos, file.l2[t].size)
        BY <1>6, <2>3
      <3>. QED
        BY <1>2, <1>4, <2>3, <3>1, <3>2
    <2>4. ASSUME NEW i \in DOMAIN file.free, c = [pos |-> file.free[i].pos, len |-> file.free[i].len]
          PROVE  \E s \in Spaces(file.free) : u \in Units(s.pos, s.len) /\ c = ClaimOn(s)
      <3>1. file.free[i] \in Spaces(file.free)
        BY DEF Spaces
      <3>2. u \in Units(file.free[i].pos, file.free[i].len)
        BY <1>6, <2>4
      <3>. QED
        BY <2>4, <3>1, <3>2 DEF ClaimOn
    <2>. QED
      BY <1>1, <1>6, <2>1, <2>2, <2>3, <2>4
  <1>7. ASSUME NEW o \in Object, u \in Area(file.l1, file.l2)[o]
        PROVE  LET c == ClaimOf(file, o) IN c \in Claims /\ u \in Units(c.pos, c.len)
    <2>1. CASE o = <<"header", 0>>
      BY <1>1, <1>2, <1>5, <1>7, <2>1
    <2>2. ASSUME NEW j \in Table, o = <<"table", j>>
          PROVE  LET c == ClaimOf(file, o) IN c \in Claims /\ u \in Units(c.pos, c.len)
      <3>1. file.l1[j] # 0 /\ u \in Units(file.l1[j], L2Len)
        BY <1>3, <1>7, <2>2
      <3>2. PICK c : c = [pos |-> file.l1[j], len |-> L2Len]
        OBVIOUS
      <3>3. c \in Claims /\ c.pos = file.l1[j] /\ c.len = L2Len /\ c = ClaimOf(file, o)
        BY <1>1, <1>2, <2>2, <3>1, <3>2
      <3>. QED
        BY <3>1, <3>3
    <2>3. ASSUME NEW t \in Track, o = <<"track", t>>
          PROVE  LET c == ClaimOf(file, o) IN c \in Claims /\ u \in Units(c.pos, c.len)
      <3>1. file.l2[t].pos # 0 /\ u \in Units(file.l2[t].pos, file.l2[t].size)
        BY <1>4, <1>7, <2>3
      <3>2. PICK c : c = [pos |-> file.l2[t].pos, len |-> file.l2[t].size]
        OBVIOUS
      <3>3. c \in Claims /\ c.pos = file.l2[t].pos /\ c.len = file.l2[t].size /\ c = ClaimOf(file, o)
        BY <1>1, <1>2, <2>3, <3>1, <3>2
      <3>. QED
        BY <3>1, <3>3
    <2>. QED
      BY <2>1, <2>2, <2>3, AreaFacts
  <1>8. ASSUME NEW s \in Spaces(file.free), u \in Units(s.pos, s.len)
        PROVE  LET c == ClaimOn(s) IN c \in Claims /\ u \in Units(c.pos, c.len)
    <2>1. PICK i \in DOMAIN file.free : s = file.free[i]
      BY DEF Spaces
    <2>2. ClaimOn(s).pos = s.pos /\ ClaimOn(s).len = s.len
      BY DEF ClaimOn
    <2>3. ClaimOn(s) \in Claims
      BY <1>1, <2>1 DEF ClaimOn
    <2>. QED
      BY <1>8, <2>2, <2>3
  <1>. QED
    BY <1>6, <1>7, <1>8

\* So there is one, and not two.
LEMMA TilesFromInv ==
  ASSUME Inv
  PROVE  Tiles
  <1>1. Sound(file)
    BY DEF Inv
  <1>. DEFINE U == InUse(file.l1, file.l2)
              K == Cardinality(Slack(file.l2))
              A == Area(file.l1, file.l2)
              R == Spaces(file.free)
  <1>2. /\ file.free \in Seq(Space) /\ InOrder(file.free) /\ Kept(file, U, K) /\ Apart(A)
    BY <1>1, SoundFacts
  <1>3. Cover(R) \cap U = {} /\ Cover(R) \cup U = 0 .. file.size - 1
    BY <1>2 DEF Kept
  <1>4. R \in SUBSET Space
    BY <1>2, SpacesOf
  <1>5. \A a, b \in R : a # b => End(a) <= b.pos \/ End(b) <= a.pos
    BY <1>2, OrderedApart
  <1>6. ASSUME NEW u \in 0 .. file.size - 1
        PROVE  \E x : {c \in Claims : u \in Units(c.pos, c.len)} = {x}
    <2>1. \A c : c \in Claims /\ u \in Units(c.pos, c.len)
                  <=> \/ \E o \in Object : u \in A[o] /\ c = ClaimOf(file, o)
                      \/ \E s \in R : u \in Units(s.pos, s.len) /\ c = ClaimOn(s)
      BY ClaimsMember
    <2>2. (\E o \in Object : u \in A[o]) <=> u \in U
      BY DEF InUse
    <2>3. (\E s \in R : u \in Units(s.pos, s.len)) <=> u \in Cover(R)
      BY DEF Cover
    <2>4. CASE u \in U
      <3>1. PICK o \in Object : u \in A[o]
        BY <2>2, <2>4
      <3>2. \A p \in Object : u \in A[p] => p = o
        BY <1>2, <3>1 DEF Apart
      <3>3. ~\E s \in R : u \in Units(s.pos, s.len)
        BY <1>3, <2>3, <2>4
      <3>. HIDE DEF A, R, U
      <3>4. \A c : c \in Claims /\ u \in Units(c.pos, c.len) <=> c = ClaimOf(file, o)
        BY <2>1, <3>1, <3>2, <3>3
      <3>5. {c \in Claims : u \in Units(c.pos, c.len)} = {ClaimOf(file, o)}
        BY <3>4
      <3>. QED
        BY <3>5
    <2>5. CASE u \in Cover(R)
      <3>1. PICK s \in R : u \in Units(s.pos, s.len)
        BY <2>3, <2>5
      <3>2. \A r \in R : u \in Units(r.pos, r.len) => r = s
        <4>1. ASSUME NEW r \in R, u \in Units(r.pos, r.len), r # s PROVE FALSE
          <5>1. r \in Space /\ s \in Space
            BY <1>4
          <5>2. r.pos \in Nat /\ r.len \in Nat /\ s.pos \in Nat /\ s.len \in Nat
            BY <5>1, SpaceFields
          <5>3. r.pos <= u /\ u < r.pos + r.len /\ s.pos <= u /\ u < s.pos + s.len /\ u \in Int
            BY <3>1, <4>1, <5>2, UnitsMember
          <5>4. End(r) <= s.pos \/ End(s) <= r.pos
            BY <1>5, <4>1
          <5>. QED
            BY <5>2, <5>3, <5>4 DEF End
        <4>. QED
          BY <4>1
      <3>3. ~\E o \in Object : u \in A[o]
        BY <1>3, <2>2, <2>5
      <3>. HIDE DEF A, R, U
      <3>4. \A c : c \in Claims /\ u \in Units(c.pos, c.len) <=> c = ClaimOn(s)
        BY <2>1, <3>1, <3>2, <3>3
      <3>5. {c \in Claims : u \in Units(c.pos, c.len)} = {ClaimOn(s)}
        BY <3>4
      <3>. QED
        BY <3>5
    <2>. QED
      BY <1>3, <2>4, <2>5
  <1>7. ASSUME NEW u \in 0 .. file.size - 1
        PROVE  Cardinality({c \in Claims : u \in Units(c.pos, c.len)}) = 1
    <2>1. PICK x : {c \in Claims : u \in Units(c.pos, c.len)} = {x}
      BY <1>6
    <2>2. Cardinality({x}) = 1
      BY FS_Singleton
    <2>. QED
      BY <2>1, <2>2
  <1>. QED
    BY <1>7 DEF Tiles

-----------------------------------------------------------------------------
(* Crash safety                                                              *)

\* Freed space is pending for two passes at least.
LEMMA SafeFacts ==
  ASSUME FreePend >= 2, GcSane
  PROVE  /\ FreePend \in Nat /\ FreePend # 0 /\ FreePend - 1 \in Nat /\ FreePend - 1 # 0
         /\ Passes \in {FreePend, FreePend - 1} /\ Passes \in Nat /\ Passes # 0
         /\ \A f : f.free \in Seq(Space) =>
               /\ Held(Spaces(f.free), Passes) \subseteq Held(Spaces(f.free), 1)
               /\ Held(Spaces(f.free), FreePend) \subseteq Held(Spaces(f.free), Passes)
  <1>1. FreePend \in Nat /\ FreePend # 0 /\ FreePend - 1 \in Nat /\ FreePend - 1 # 0
    BY ConstantsAssumption
  <1>2. Passes \in {FreePend, FreePend - 1}
    BY DEF Passes
  <1>3. PICK m : m = Passes
    OBVIOUS
  <1>4. m \in Nat /\ m # 0 /\ 1 <= m /\ m <= FreePend
    BY <1>1, <1>2, <1>3
  <1>5. ASSUME NEW f, f.free \in Seq(Space)
        PROVE  /\ Held(Spaces(f.free), m) \subseteq Held(Spaces(f.free), 1)
               /\ Held(Spaces(f.free), FreePend) \subseteq Held(Spaces(f.free), m)
    <2>1. Spaces(f.free) \in SUBSET Space
      BY <1>5, SpacesOf
    <2>2. \A e \in Spaces(f.free) : e.pending \in Nat
      BY <2>1, SpaceFields
    <2>3. \A e \in Spaces(f.free) : e.pending >= m => e.pending >= 1
      BY <1>4, <2>2
    <2>4. \A e \in Spaces(f.free) : e.pending >= FreePend => e.pending >= m
      BY <1>1, <1>4, <2>2
    <2>. QED
      BY <2>3, <2>4 DEF Held, Cover
  <1>. QED
    BY <1>1, <1>2, <1>3, <1>4, <1>5

\* What is stable stays in use or pending when objects are relocated.
LEMMA RelocationSafe ==
  ASSUME FreePend >= 2, GcSane, NEW f, NEW h, Sound(f), Sound(h), Relocated(f, h),
         NEW S, S \subseteq InUse(f.l1, f.l2) \cup Held(Spaces(f.free), Passes)
  PROVE  /\ S \subseteq InUse(h.l1, h.l2) \cup Held(Spaces(h.free), Passes)
         /\ (InUse(h.l1, h.l2) \ InUse(f.l1, f.l2)) \cap S = {}
  <1>1. f.free \in Seq(Space) /\ h.free \in Seq(Space)
    BY SoundFacts
  <1>2. PICK m \in Nat : m = Passes /\ m # 0
    BY SafeFacts
  <1>3. Held(Spaces(f.free), m) \subseteq Held(Spaces(f.free), 1)
    BY <1>1, <1>2, SafeFacts
  <1>4. Held(Spaces(h.free), FreePend) \subseteq Held(Spaces(h.free), m)
    BY <1>1, <1>2, SafeFacts
  <1>5. Held(Spaces(f.free), m) \subseteq Held(Spaces(h.free), m)
    BY <1>2 DEF Relocated, HeldStays
  <1>6. FreePend # 0
    BY SafeFacts
  <1>7. /\ InUse(f.l1, f.l2) \subseteq InUse(h.l1, h.l2) \cup Held(Spaces(h.free), FreePend)
        /\ (InUse(h.l1, h.l2) \ InUse(f.l1, f.l2)) \cap Held(Spaces(f.free), 1) = {}
    BY <1>6 DEF Relocated
  <1>. QED
    BY <1>2, <1>3, <1>4, <1>5, <1>7

\* Initially the disk has the header only.
LEMMA SafeInit ==
  ASSUME Init
  PROVE  Safe
  BY InvInit DEF Safe

\* What a step keeps, and what it does not write
SafeStep == Safe' /\ (stable' = stable => (Used(file') \ Used(file)) \cap stable = {})

\* A step that only relocates, between two syncs
LEMMA RelocationStep ==
  ASSUME FreePend >= 2, Inv, Inv', Safe, mode = "open", Relocated(file, file'), stable' = stable,
         Passes' = Passes
  PROVE  SafeStep
  <1>1. /\ Sound(file) /\ Tabled(file) /\ Sound(file') /\ GcSane
        /\ stable \subseteq InUse(file.l1, file.l2) \cup Held(Spaces(file.free), Passes)
    BY DEF Inv, Safe
  <1>2. /\ stable \subseteq InUse(file'.l1, file'.l2) \cup Held(Spaces(file'.free), Passes)
        /\ (InUse(file'.l1, file'.l2) \ InUse(file.l1, file.l2)) \cap stable = {}
    BY <1>1, RelocationSafe
  <1>3. Used(file') \subseteq InUse(file'.l1, file'.l2) /\ Used(file) = InUse(file.l1, file.l2)
    BY <1>1, UsedInUse
  <1>4. Safe'
    BY <1>2 DEF Safe
  <1>. QED
    BY <1>2, <1>3, <1>4 DEF SafeStep

\* The sync makes the new places stable, the flush takes one pass off.
LEMMA SafeStays ==
  ASSUME FreePend >= 2, Inv, Inv', Safe, [Next]_vars
  PROVE  SafeStep
  <1>1. CASE GcShift
    <2>1. /\ mode = "open" /\ Relocated(file, file') /\ stable' = stable
          /\ gc'.first = gc.first /\ gc.pc # "synced" /\ gc'.pc # "synced"
      BY <1>1 DEF GcShift
    <2>2. Passes' = Passes
      BY <2>1 DEF Passes
    <2>. QED
      BY <2>1, <2>2, RelocationStep
  <1>2. CASE WriteShift
    <2>1. mode = "open" /\ Relocated(file, file') /\ stable' = stable /\ gc' = gc
      BY <1>2 DEF WriteShift
    <2>2. Passes' = Passes
      BY <2>1 DEF Passes
    <2>. QED
      BY <2>1, <2>2, RelocationStep
  <1>3. CASE SyncShift
    <2>1. /\ file' = file /\ mode = "open" /\ mode' = mode /\ gc.pc # "synced" /\ gc'.pc = "synced"
          /\ stable' = InUse(file.l1, file.l2) \/ (gc.first /\ stable' = stable)
      BY <1>3 DEF SyncShift
    <2>2. Passes' = FreePend
      BY <2>1 DEF Passes
    <2>3. ASSUME gc.first, stable' = stable
          PROVE  stable' \subseteq InUse(file.l1, file.l2) \cup Held(Spaces(file.free), FreePend)
      <3>1. Passes = FreePend
        BY <2>3 DEF Passes
      <3>. QED
        BY <2>1, <2>3, <3>1 DEF Safe
    <2>4. stable' \subseteq InUse(file.l1, file.l2) \cup Held(Spaces(file.free), FreePend)
      BY <2>1, <2>3
    <2>5. Safe'
      BY <2>1, <2>2, <2>4 DEF Safe
    <2>6. Used(file') \ Used(file) = {}
      BY <2>1
    <2>. QED
      BY <2>5, <2>6 DEF SafeStep
  <1>4. CASE FlushShift
    <2>1. /\ Flushes(file, file') /\ gc.pc = "synced" /\ gc'.pc # "synced" /\ ~gc'.first
          /\ mode = "open" /\ mode' = mode /\ stable' = stable
      BY <1>4 DEF FlushShift
    <2>2. Passes = FreePend /\ Passes' = FreePend - 1
      BY <2>1 DEF Passes
    <2>3. PICK m \in Nat : m = FreePend - 1 /\ m # 0 /\ FreePend = m + 1
      BY ConstantsAssumption
    <2>4. Held(Spaces(file.free), m + 1) \subseteq Held(Spaces(file'.free), m)
      BY <2>1, <2>3 DEF Flushes
    <2>5. file'.l1 = file.l1 /\ file'.l2 = file.l2
      BY <2>1 DEF Flushes, SameTables
    <2>6. stable \subseteq InUse(file.l1, file.l2) \cup Held(Spaces(file.free), m + 1)
      BY <2>1, <2>2, <2>3 DEF Safe
    <2>7. Safe'
      BY <2>1, <2>2, <2>3, <2>4, <2>5, <2>6 DEF Safe
    <2>8. Used(file') = Used(file)
      BY <2>5 DEF Used
    <2>. QED
      BY <2>7, <2>8 DEF SafeStep
  <1>5. CASE HardenShift
    <2>1. /\ stable' = InUse(file'.l1, file'.l2) /\ mode = "open" /\ stable' = Used(file')
          /\ InUse(file'.l1, file'.l2) = InUse(file.l1, file.l2)
      BY <1>5 DEF HardenShift
    <2>2. Safe'
      BY <2>1 DEF Safe
    <2>3. Used(file) = InUse(file.l1, file.l2)
      BY <2>1, UsedInUse DEF Inv
    <2>4. Used(file') \ Used(file) = {}
      BY <2>1, <2>3
    <2>. QED
      BY <2>2, <2>4 DEF SafeStep
  <1>6. CASE UNCHANGED vars
    <2>1. file' = file /\ gc' = gc /\ stable' = stable /\ mode' = mode
      BY <1>6 DEF vars
    <2>2. Passes' = Passes
      BY <2>1 DEF Passes
    <2>3. Safe'
      BY <2>1, <2>2 DEF Safe
    <2>4. Used(file') \ Used(file) = {}
      BY <2>1
    <2>. QED
      BY <2>3, <2>4 DEF SafeStep
  <1>. QED
    BY <1>1, <1>2, <1>3, <1>4, <1>5, <1>6, Steps

-----------------------------------------------------------------------------
(* The theorems                                                              *)

\* The invariant holds in every state.
LEMMA InvHolds ==
  Spec => []Inv
  <1>1. Init => Inv
    BY InvInit
  <1>2. Inv /\ [Next]_vars => Inv'
    BY InvStays
  <1>. QED
    BY <1>1, <1>2, PTL DEF Spec

\* Sizes, positions and counts are natural numbers and the file does not grow
\* above its greatest size (cckd_get_space, cckd_rel_space): no count is taken
\* below zero, whatever is written, moved, flushed and closed.
THEOREM TypeCorrect ==
  Spec => []TypeOK
  <1>1. Inv => TypeOK
    BY TypeFromInv
  <1>. QED
    BY <1>1, InvHolds, PTL

\* Every unit of the file has one use: the header, a table, a track's image or
\* a free space; none has two and none is lost (cckd_get_space, cckd_rel_space,
\* cckd_flush_space, cckd_write_l2, cckd_write_trkimg).
THEOREM UsesApart ==
  Spec => []Tiles
  <1>1. Inv => Tiles
    BY TilesFromInv
  <1>. QED
    BY <1>1, InvHolds, PTL

\* The header's free_number, free_largest, free_total, free_imbed and used are
\* those of the chain and the tables, and the chain is in the order of the file
\* (what cckd_chk_space would check).
THEOREM AccountsExact ==
  Spec => []Accounts
  <1>1. Inv => Accounts
    BY AccountsFromInv
  <1>. QED
    BY <1>1, InvHolds, PTL

\* The chain that cckd_harden writes has no pending space and no two that are
\* adjacent, whatever was pending and for how long when it flushed.
THEOREM ChainHardened ==
  Spec => []HardenedChain
  <1>1. Inv => HardenedChain
    BY DEF Inv
  <1>. QED
    BY <1>1, InvHolds, PTL

\* If a freed space is pending for two passes or more (freepend=2 to 4, with
\* fsync) and every pass but the first one syncs, no space that was in use at the
\* last sync is used again before the next: a crash finds every image the disk's
\* tables refer to. With freepend=1 it is not so: what is freed between the sync
\* and the flush of a pass, where the lock is released, may be used at once.
THEOREM CrashSafe ==
  ASSUME FreePend >= 2
  PROVE  Spec => Recoverable
  <1>1. Init => Inv /\ Safe
    BY InvInit, SafeInit
  <1>2. Inv /\ Safe /\ [Next]_vars => (Inv /\ Safe)'
    BY InvStays, SafeStays DEF SafeStep
  <1>3. Inv /\ Inv' /\ Safe /\ [Next]_vars =>
          [stable' = stable => (Used(file') \ Used(file)) \cap stable = {}]_vars
    BY SafeStays DEF SafeStep
  <1>. QED
    BY <1>1, <1>2, <1>3, PTL DEF Spec, Recoverable
=============================================================================
