----------------------------- MODULE CckdSpace -----------------------------
(***************************************************************************)
(* The space of a compressed CKD/FBA file: cckddasd.c from cckd_get_space  *)
(* to cckd_harden and the garbage collector.  The file holds a header with *)
(* the level 1 table, the level 2 tables, the track images and the free    *)
(* spaces between them.  A track that is written is put somewhere else and *)
(* its old place is freed, but stays pending for some passes of the        *)
(* collector: until the disk is certain to have the new place in its       *)
(* tables, a crash must find the old image as it was.                      *)
(*                                                                         *)
(* The writers, the collector and the commands take the filelock in turn.  *)
(* A step is what is done under it; where the collector's loops keep it    *)
(* over several steps nobody else moves.  Offsets are in units of half a   *)
(* free block.  A null track has no image; null formats are not told apart.*)
(***************************************************************************)
EXTENDS Integers, FiniteSets, Sequences, SequencesExt

CONSTANTS
  NTracks,   \* tracks 1 .. NTracks (a model bound)
  PerTable,  \* tracks of a level 2 table, 256 in the code
  Lens,      \* the lengths of compressed images (a model bound)
  Base,      \* CCKD_L1TAB_POS and the level 1 table
  L2Len,     \* CCKD_L2TAB_SIZE
  FreeBlk,   \* CCKD_FREEBLK_SIZE
  FreeMin,   \* cckd->freemin
  ManyFree,  \* free spaces above which the collector takes whole spaces, 100
  FreePend,  \* cckdblk.freepend: passes for which a freed space is pending
  MaxSize,   \* cckd->maxsize
  MaxFreePend, \* CCKD_MAX_FREEPEND
  MaxWrites  \* tracks written in a run (a model bound)

ASSUME ConstantsAssumption ==
  /\ NTracks \in Nat \ {0} /\ PerTable \in Nat \ {0}
  /\ Base \in Nat \ {0} /\ L2Len \in Nat \ {0} /\ FreeBlk \in Nat \ {0}
  /\ FreeMin \in Nat /\ ManyFree \in Nat /\ MaxSize \in Nat
  /\ Base <= MaxSize
  /\ MaxFreePend \in Nat \ {0} /\ FreePend \in 0 .. MaxFreePend
  /\ Lens \subseteq Nat \ {0} /\ MaxWrites \in Nat

Track == 1 .. NTracks
TableOf(t) == (t - 1) \div PerTable + 1
Table == 1 .. TableOf(NTracks)
TracksOf(j) == {t \in Track : TableOf(t) = j}

VARIABLES
  file,    \* the file, with its header and tables
  opened,  \* CCKD_OPENED is on in the header
  gc,      \* the garbage collector on this device
  stable,  \* the units in use according to the tables that are on the disk
  chain,   \* the free space chain written by the last cckd_harden
  mode,    \* "open"; "lost": an image without a table; "damaged": the header
  writes   \* tracks written

vars == <<file, opened, gc, stable, chain, mode, writes>>

Null == [pos |-> 0, len |-> 0, size |-> 0]
Space == [pos : Nat, len : Nat \ {0}, pending : 0 .. MaxFreePend]
File == [size : 0 .. MaxSize, used : Nat, total : Nat, imbed : Nat,
         largest : Nat, number : Nat, free : Seq(Space),
         l1 : [Table -> Nat], l2 : [Track -> [pos : Nat, len : Nat, size : Nat]],
         bounds : Nat, l2ok : BOOLEAN]

TypeOK ==
  /\ file \in File
  /\ opened \in BOOLEAN
  /\ gc \in [pc : {"wait", "l2images", "l2tables", "cycle", "move", "moved", "synced"},
             at : Nat, to : Nat, first : BOOLEAN]
  /\ stable \subseteq 0 .. MaxSize - 1
  /\ chain \in Seq(Space)
  /\ mode \in {"open", "lost", "damaged"} /\ writes \in 0 .. MaxWrites

Init ==
  /\ file = [size |-> Base, used |-> Base, total |-> 0, imbed |-> 0, largest |-> 0,
             number |-> 0, free |-> <<>>, l1 |-> [j \in Table |-> 0],
             l2 |-> [t \in Track |-> Null], bounds |-> Base, l2ok |-> TRUE]
  /\ opened = FALSE
  /\ gc = [pc |-> "wait", at |-> 0, to |-> 0, first |-> TRUE]
  /\ stable = 0 .. Base - 1 /\ chain = <<>> /\ mode = "open"
  /\ writes = 0
----------------------------------------------------------------------------
(* Getting, releasing and flushing space                                   *)
End(s) == s.pos + s.len

Largest(free) == Max({0} \cup {free[i].len : i \in {k \in DOMAIN free : free[k].pending = 0}})

\* cckd_get_space: the first free space that fits, or the end of the file.
\* pos is -1 if the file would get too large.
Fits(f, i, len, flags) ==
  /\ f.free[i].pending = 0
  /\ len + FreeBlk <= f.free[i].len \/ len = f.free[i].len
  /\ flags = "l2" \/ f.free[i].pos >= f.bounds

\* A space of which the first n units were taken
Rest(s, n) == [s EXCEPT !.pos = @ + n, !.len = @ - n]

GetSpace(f, len, flags) ==
  LET fit == {i \in DOMAIN f.free : Fits(f, i, len, flags)}
      i == Min(fit)
      s == f.free[i]
      n == IF flags = "any" /\ s.len <= FreeMin THEN s.len ELSE len
      free == IF n < s.len
              THEN [f.free EXCEPT ![i] = Rest(s, n)]
              ELSE RemoveAt(f.free, i)
  IN  IF (len + FreeBlk > f.largest /\ len # f.largest) \/ fit = {}
      THEN IF f.size + len > MaxSize
           THEN [pos |-> -1, size |-> len, file |-> f]
           ELSE [pos |-> f.size, size |-> len,
                 file |-> [f EXCEPT !.size = @ + len, !.used = @ + len]]
      ELSE [pos |-> s.pos, size |-> n,
            file |-> [f EXCEPT !.free = free, !.number = Len(free),
                        !.largest = IF s.len >= @ THEN Largest(free) ELSE @,
                        !.used = @ + len, !.total = @ - len, !.imbed = @ + n - len]]

\* cckd_rel_space: the space joins the one before it if that has just been
\* released as well, or becomes a space of its own.
RelSpace(f, pos, len, size) ==
  LET p == Cardinality({i \in DOMAIN f.free : f.free[i].pos <= pos})
      joins == p > 0 /\ End(f.free[p]) = pos /\ f.free[p].pending = FreePend
      free == IF joins THEN [f.free EXCEPT ![p].len = @ + size]
              ELSE InsertAt(f.free, p + 1, [pos |-> pos, len |-> size, pending |-> FreePend])
      fsize == IF joins THEN free[p].len ELSE size
  IN  IF pos = 0 THEN f
      ELSE [f EXCEPT !.free = free, !.number = IF joins THEN @ ELSE @ + 1,
              !.used = @ - len, !.total = @ + len, !.imbed = @ - (size - len),
              !.largest = IF FreePend = 0 /\ fsize > @ THEN fsize ELSE @]

\* Seeded defects: a pending count runs below zero; spaces are joined across
\* what lies between them.
MergeBelowZero(done, s) ==
  LET n == Len(done)
      last == done[n]
  IN  IF n > 0 /\ End(last) = s.pos /\ s.pending \in {last.pending, last.pending + 1}
      THEN [done EXCEPT ![n].len = @ + s.len]
      ELSE Append(done, [s EXCEPT !.pending = @ - 1])

MergeApart(done, s) ==
  LET n == Len(done)
      last == done[n]
  IN  IF n > 0 /\ s.pending \in {last.pending, last.pending + 1}
      THEN [done EXCEPT ![n].len = @ + s.len]
      ELSE Append(done, [s EXCEPT !.pending = IF @ = 0 THEN 0 ELSE @ - 1])

\* cckd_flush_space: one pass less is pending; a space takes in the one that
\* follows it unless that is pending for less or for more than one pass more;
Merge(done, s) ==
  LET n == Len(done)
      last == done[n]
  IN  IF n > 0 /\ End(last) = s.pos /\ s.pending \in {last.pending, last.pending + 1}
      THEN [done EXCEPT ![n].len = @ + s.len]
      ELSE Append(done, [s EXCEPT !.pending = IF @ = 0 THEN 0 ELSE @ - 1])

\* Seeded defect: the last space is cut off while it is pending.
AtEndPending(f) == f.free # <<>> /\ End(Last(f.free)) = f.size

\* the last one leaves the file if it is at the end and not pending.
AtEnd(f) == f.free # <<>> /\ End(Last(f.free)) = f.size /\ Last(f.free).pending = 0

\* Seeded defect: the space that is cut off stays counted.
TruncatedOnly(f) == [f EXCEPT !.free = Front(@), !.size = @ - Last(f.free).len]

Truncated(f) ==
  [f EXCEPT !.free = Front(@), !.size = @ - Last(f.free).len, !.total = @ - Last(f.free).len]

\* The chain after its first n spaces were merged.
Merged(free) ==
  LET done[n \in 0 .. Len(free)] == IF n = 0 THEN <<>> ELSE Merge(done[n - 1], free[n])
  IN  done

FlushSpace(f) ==
  LET merged == [f EXCEPT !.free = Merged(@)[Len(@)]]
      g == IF AtEnd(merged) THEN Truncated(merged) ELSE merged
  IN  [g EXCEPT !.number = Len(g.free), !.largest = Largest(g.free)]
----------------------------------------------------------------------------
(* Writing tables and images                                               *)

\* cckd_write_l2: the level 2 table j goes to a new place, or nowhere if all
\* its tracks are null
WriteL2(f, j) ==
  LET old == f.l1[j]
      g == [f EXCEPT !.l2ok = FALSE, !.bounds = IF old = 0 THEN @ + L2Len ELSE @]
      got == GetSpace(g, L2Len, "l2")
      empty == \A t \in TracksOf(j) : f.l2[t] = Null
      Done(h, pos) == [RelSpace(h, old, L2Len, L2Len) EXCEPT !.l1[j] = pos]
  IN  IF empty THEN [ok |-> TRUE, file |-> Done([g EXCEPT !.bounds = @ - L2Len], 0)]
      ELSE IF got.pos = -1 THEN [ok |-> FALSE, file |-> g]
      ELSE [ok |-> TRUE, file |-> Done(got.file, got.pos)]

\* cckd_write_trkimg: the new image is written before the table refers to it,
\* and the old one is released afterwards
WriteTrkimg(f, t, len, flags) ==
  LET old == f.l2[t]
      got == IF len = 0 THEN [pos |-> 0, size |-> 0, file |-> f] ELSE GetSpace(f, len, flags)
      g == [got.file EXCEPT !.l2[t] = [pos |-> got.pos, len |-> len, size |-> got.size]]
      w == IF g.l1[TableOf(t)] = 0 THEN WriteL2(g, TableOf(t)) ELSE [ok |-> TRUE, file |-> g]
  IN  IF got.pos = -1 THEN [ok |-> FALSE, file |-> f]
      ELSE IF ~w.ok THEN w
      ELSE [ok |-> TRUE, file |-> RelSpace(w.file, old.pos, old.len, old.size)]

\* Nobody holds the filelock over several steps
FileFree == gc.pc \notin {"l2images", "l2tables", "move"}

\* A writer thread writes an updated track.  An image that is written but gets
\* no table is lost, its space with it: that is as far as the model goes.
WriteTrack(t, len) ==
  LET w == WriteTrkimg(file, t, len, "any")
  IN  /\ mode = "open" /\ FileFree
      /\ writes < MaxWrites /\ writes' = writes + 1
      /\ file' = w.file
      /\ opened' = TRUE
      /\ mode' = IF ~w.ok /\ w.file # file THEN "lost" ELSE "open"
      /\ UNCHANGED <<gc, stable, chain>>
----------------------------------------------------------------------------
(* The garbage collector                                                   *)
GcUnchanged == mode = "open" /\ UNCHANGED <<opened, chain, mode, writes>>
GcGoto(pc) == gc' = [gc EXCEPT !.pc = pc, !.at = 0, !.to = 0]

GcPass ==
  /\ gc.pc = "wait" /\ opened
  /\ GcGoto(IF file.l2ok THEN "cycle" ELSE "l2images")
  /\ UNCHANGED <<file, stable>> /\ GcUnchanged

\* cckd_gc_l2: if a table is out of bounds, first every image within the
\* bounds is moved out of them,
OutOfBounds == {j \in Table : file.l1[j] > file.bounds - L2Len}
Inside == {t \in Track : file.l2[t].pos # 0 /\ file.l2[t].pos < file.bounds}

GcL2Image ==
  /\ gc.pc = "l2images"
  /\ \/ /\ file.l2ok \/ file.total = 0
        /\ GcGoto("cycle") /\ UNCHANGED file
     \/ /\ ~file.l2ok /\ file.total # 0 /\ OutOfBounds = {}
        /\ file' = [file EXCEPT !.l2ok = TRUE] /\ GcGoto("cycle")
     \/ /\ ~file.l2ok /\ file.total # 0 /\ OutOfBounds # {} /\ Inside = {}
        /\ GcGoto("l2tables") /\ UNCHANGED file
     \/ /\ ~file.l2ok /\ file.total # 0 /\ OutOfBounds # {}
        /\ \E t \in Inside :
             LET w == WriteTrkimg(file, t, file.l2[t].len, "exact")
             IN  /\ \A u \in Inside : file.l2[t].pos <= file.l2[u].pos
                 /\ file' = w.file
                 /\ IF w.ok THEN UNCHANGED gc ELSE GcGoto("cycle")
  /\ UNCHANGED stable /\ GcUnchanged

\* then tables are moved into the first free space.  If that is too small the
\* table behind it should be moved away, but the code looks for that table
\* with its number as index of the free space: any table may be found.
FirstUsable ==
  file.free # <<>> /\ file.free[1].pos < file.bounds /\ file.free[1].pending = 0
TablesToMove ==
  LET len == file.free[1].len
  IN  IF len # L2Len /\ len < L2Len + FreeBlk
      THEN {j \in Table : file.l1[j] > file.free[1].pos}
      ELSE {j \in OutOfBounds : \A i \in OutOfBounds : j <= i}
MayFindNone == file.free[1].len # L2Len /\ file.free[1].len < L2Len + FreeBlk

GcL2Table ==
  /\ gc.pc = "l2tables"
  /\ \/ /\ ~FirstUsable \/ TablesToMove = {} \/ MayFindNone
        /\ GcGoto("cycle") /\ UNCHANGED file
     \/ /\ FirstUsable
        /\ \E j \in TablesToMove :
             LET w == WriteL2(file, j)
             IN  file' = w.file /\ IF w.ok THEN UNCHANGED gc ELSE GcGoto("cycle")
  /\ UNCHANGED stable /\ GcUnchanged

\* cckd_gc_percolate: select some used space behind a free one (which one is
\* left open here: the first, the one behind the largest, or before it; as is
\* how much of it fits in the buffer),
Behind ==
  IF file.free = <<>>
  THEN {p \in {Base + L2Len * n : n \in 0 .. Cardinality(Table)} :
          file.imbed # 0 /\ (\A j \in Table : file.l1[j] # p)
          /\ \A q \in {Base + L2Len * n : n \in 0 .. Cardinality(Table)} :
               q < p => \E j \in Table : file.l1[j] = q}
  ELSE {End(file.free[i]) : i \in DOMAIN file.free}

GcSelect ==
  /\ gc.pc = "cycle" /\ file.total # 0
  /\ \E at \in Behind :
       LET to == Min({file.size} \cup {n \in {file.free[i].pos : i \in DOMAIN file.free} : n >= at})
       IN  at < to /\ gc' = [gc EXCEPT !.pc = "move", !.at = at, !.to = to]
  /\ UNCHANGED <<file, stable>> /\ GcUnchanged

\* move what it holds one after the other, and begin the next cycle.
Flags == IF file.number < ManyFree THEN "exact" ELSE "any"
GcMove ==
  /\ gc.pc = "move"
  /\ \/ \E j \in Table :
          LET w == WriteL2(file, j)
          IN  /\ file.l1[j] = gc.at /\ gc.at + L2Len <= gc.to
              /\ file' = w.file
              /\ IF w.ok THEN gc' = [gc EXCEPT !.at = @ + L2Len] ELSE GcGoto("moved")
     \/ \E t \in Track :
          LET e == file.l2[t]
              w == WriteTrkimg(file, t, e.len, Flags)
          IN  /\ e.pos = gc.at /\ gc.at + e.len <= gc.to
              /\ file' = w.file
              /\ IF w.ok THEN gc' = [gc EXCEPT !.at = @ + e.size] ELSE GcGoto("moved")
     \/ GcGoto("cycle") /\ UNCHANGED file
  /\ UNCHANGED stable /\ GcUnchanged

GcMoved ==
  /\ gc.pc = "cycle"
  /\ GcGoto("moved")
  /\ UNCHANGED <<file, stable>> /\ GcUnchanged

\* The units that the tables of a file refer to
Units(pos, len) == pos .. pos + len - 1
Used(f) ==
  Units(0, Base)
    \cup (UNION {Units(f.l1[j], L2Len) : j \in {k \in Table : f.l1[k] # 0}})
    \cup (UNION {Units(f.l2[t].pos, f.l2[t].size) :
                     t \in {u \in Track : f.l1[TableOf(u)] # 0 /\ f.l2[u].pos # 0}})

\* fdatasync: the time that the pass compares with the last one is that of the
\* end of the pass before, in the first pass it is not initialized.
GcSync ==
  /\ gc.pc = "moved"
  /\ stable' \in {Used(file)} \cup (IF gc.first THEN {stable} ELSE {})
  /\ gc' = [gc EXCEPT !.pc = "synced", !.first = FALSE]
  /\ UNCHANGED file /\ GcUnchanged

GcFlush ==
  /\ gc.pc = "synced"
  /\ GcGoto("wait")
  /\ file' = FlushSpace(file)
  /\ UNCHANGED stable /\ GcUnchanged
----------------------------------------------------------------------------
(* Closing and opening                                                     *)
\* Seeded defect: one flush is thought to be enough.
FlushAllOnce(f) == FlushSpace(f)

\* The file after the flushes so far
Flushed(f) ==
  LET done[n \in 0 .. MaxFreePend] == IF n = 0 THEN f ELSE FlushSpace(done[n - 1])
  IN  done

FlushAll(f) == Flushed(f)[MaxFreePend]

\* cckd_write_fsp writes the chain as one block, into a free space or behind
\* the end of the file.  With room for neither it falls back to the old format,
\* and writes the first free block over the header.
ChainFits(f) ==
  LET n == (f.number + 1) * FreeBlk
  IN  (\E i \in DOMAIN f.free : n <= f.free[i].len) \/ f.size + n <= MaxSize

\* cckd_harden, when the device is closed or a command works on its file, and
\* cckd_read_init and cckd_read_fsp when it is used again
Harden ==
  LET f == FlushAll(file)
      bounds == Base + L2Len * Cardinality({j \in Table : f.l1[j] # 0})
  IN  /\ mode = "open" /\ FileFree /\ opened
      /\ file' = [f EXCEPT !.bounds = bounds,
                    !.l2ok = \A j \in Table : f.l1[j] <= bounds - L2Len]
      /\ opened' = FALSE
      /\ stable' = Used(f)
      /\ chain' = f.free
      /\ mode' = IF f.free # <<>> /\ ~ChainFits(f) THEN "damaged" ELSE "open"
      /\ UNCHANGED <<gc, writes>>
----------------------------------------------------------------------------
Gc == GcPass \/ GcL2Image \/ GcL2Table \/ GcSelect \/ GcMove \/ GcMoved \/ GcSync \/ GcFlush

Next ==
  \/ \E t \in Track, len \in Lens \cup {0} : WriteTrack(t, len)
  \/ Gc
  \/ Harden

Spec == Init /\ [][Next]_vars
----------------------------------------------------------------------------
(* What the space of the file promises                                     *)

\* Every unit of the file has one use: header, table, image or free space; none
\* has two and none is lost (cckd_get_space, cckd_rel_space, cckd_flush_space,
\* whatever the collector moves and in whatever order).
Claims ==
  LET f == file
  IN  {[pos |-> 0, len |-> Base]}
        \cup {[pos |-> f.l1[j], len |-> L2Len] : j \in {k \in Table : f.l1[k] # 0}}
        \cup {[pos |-> f.l2[t].pos, len |-> f.l2[t].size] : t \in {u \in Track : f.l2[u].pos # 0}}
        \cup {[pos |-> f.free[i].pos, len |-> f.free[i].len] : i \in DOMAIN f.free}

Tiles ==
  \A u \in 0 .. file.size - 1 :
    Cardinality({c \in Claims : u \in Units(c.pos, c.len)}) = 1

\* The header's statistics are those of the chain and the tables, which the
\* search for space and the collector go by (cckd_chk_space, which is never
\* called, says the same of the chain).
Summed(s) == LET sum[n \in 0 .. Len(s)] == IF n = 0 THEN 0 ELSE sum[n - 1] + s[n].len IN sum
SumLen(s) == Summed(s)[Len(s)]
Accounts ==
  LET f == file
  IN  /\ f.number = Len(f.free) /\ f.largest = Largest(f.free)
      /\ f.total = SumLen(f.free) + f.imbed
      /\ f.used + f.total = f.size
      /\ \A i \in 1 .. Len(f.free) - 1 : f.free[i].pos < f.free[i + 1].pos

\* A crash finds every image that the tables on the disk refer to as it was:
\* no space that was in use at the last sync is written again before the next
\* (html/cckddasd.html, freepend and fsync).
Recoverable ==
  [][stable' = stable => (Used(file') \ Used(file)) \cap stable = {}]_vars

\* The chain that cckd_harden writes is as html/cckddasd.html has it: in the
\* order of the file, no two spaces adjacent; and none is pending.
HardenedChain ==
  /\ \A i \in DOMAIN chain : chain[i].pending = 0
  /\ \A i \in 1 .. Len(chain) - 1 : End(chain[i]) < chain[i + 1].pos
=============================================================================
