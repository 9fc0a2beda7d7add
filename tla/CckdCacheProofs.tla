--------------------------- MODULE CckdCacheProofs ---------------------------
(* For any number of devices, tracks, entries, readahead threads and writers,  *)
(* when commands are given at quiet moments: the cache holds one image of a    *)
(* track, the counts of pending writes are exact, files are worked on alone,   *)
(* and what the programs see is one copy of every track.                       *)
EXTENDS CckdCache, FiniteSetTheorems, TLAPS

-----------------------------------------------------------------------------
(* The inductive invariant.                                                  *)

Of(d) == {d} \X Track   \* the tracks of a device
Io == {"reading", "writing"}
WrPc == {"write", "wrote"}

\* The bits that an entry may have on together.
Shape(f) ==
  /\ \/ f = {"write"}
     \/ f \subseteq {"active", "updated"}
     \/ f \subseteq {"reading", "active", "iowait"}
     \/ f \subseteq {"writing", "active", "iowait"}
  /\ "iowait" \in f => "active" \in f

Clean(f) == f \cap {"reading", "writing", "write", "updated"} = {}

\* An entry: its bits, whose image it holds, and when the image is in the file.
EntryOK(e) ==
  /\ Shape(flag[e])
  /\ key[e] = NoKey => flag[e] = {}
  /\ key[e] # NoKey /\ "reading" \notin flag[e] => img[e].of = key[e]
  /\ key[e] # NoKey /\ Clean(flag[e]) => img[e].ver = file[key[e]]

KeysApart == \A a, b \in Entry : key[a] = key[b] /\ key[a] # NoKey => a = b

Searching == {"look", "flushmiss", "cachewait", "cachesleep"}
Filling   == {"fill", "filled"}

\* An entry is active for the program that holds it.
Holds(d, e) ==
  /\ ioactive[d]
  /\ \/ cur[d] = e
     \/ th[d].pc \in Filling \cup {"hitwait", "sched"} /\ th[d].ent = e

ActiveHeld ==
  \A e \in Entry : "active" \in flag[e] => \E d \in Device : key[e] \in Of(d) /\ Holds(d, e)

\* A channel program: the entry of its current track, and the one it has found
\* or taken for the track it wants.
CurrentOK(d) ==
  /\ cur[d] # NoEntry => bufcur[d] \in Track
  /\ cur[d] # NoEntry /\ ioactive[d] =>
        /\ key[cur[d]] = <<d, bufcur[d]>>
        /\ "active" \in flag[cur[d]] /\ flag[cur[d]] \subseteq {"active", "updated"}
  /\ th[d].pc \in Searching \cup Filling \cup {"hitwait"} => cur[d] = NoEntry

WantedOK(d) ==
  /\ th[d].pc \in Searching \cup Filling \cup {"hitwait", "sched"} => th[d].key \in Of(d)
  /\ th[d].pc \in Filling \cup {"hitwait", "sched"} =>
        th[d].ent \in Entry /\ key[th[d].ent] = th[d].key
  /\ th[d].pc = "hitwait" =>
        /\ "active" \in flag[th[d].ent]
        /\ flag[th[d].ent] \subseteq {"active", "iowait", "reading", "writing"}
  /\ th[d].pc \in Filling => flag[th[d].ent] = {"reading", "active"}
  /\ th[d].pc = "sched" => \/ cur[d] = NoEntry /\ flag[th[d].ent] = {"reading", "active"}
                           \/ cur[d] = th[d].ent

ProgramOK(d) ==
  /\ th[d].pc \in ProgramPc
  /\ th[d].pc \in {"idle", "start", "startwait"} <=> ~ioactive[d]
  /\ CurrentOK(d) /\ WantedOK(d)

\* A readahead thread.
ReaderOK(r) ==
  /\ th[r].pc \in ReaderPc /\ ~th[r].seq
  /\ th[r].pc \in Searching \cup Filling => th[r].key \in Key
  /\ th[r].pc \in Filling => /\ th[r].ent \in Entry /\ key[th[r].ent] = th[r].key
                             /\ "reading" \in flag[th[r].ent]

\* Whoever fills an entry is alone, and has filled it from the file.
Fills(p) == th[p].pc \in Filling \/ (th[p].pc = "sched" /\ "reading" \in flag[th[p].ent])

FillersApart == \A p, q \in User : Fills(p) /\ Fills(q) /\ th[p].ent = th[q].ent => p = q
FilledOK(p) == th[p].pc = "filled" => img[th[p].ent] = [of |-> th[p].key, ver |-> file[th[p].key]]

\* Whoever writes an entry is alone, and has written what the entry holds.
WriterOK(w) ==
  /\ wr[w].pc \in WrPc => wr[w].ent \in Entry /\ "writing" \in flag[wr[w].ent]
  /\ wr[w].pc = "wrote" => file[key[wr[w].ent]] = img[wr[w].ent].ver

WritersApart ==
  \A v, w \in Writer : wr[v].pc \in WrPc /\ wr[w].pc \in WrPc /\ wr[v].ent = wr[w].ent => v = w

\* The command of a device: what it has told the other threads, and that the
\* device is empty once it is drained.
CommandOK(d) ==
  /\ cmd[d].pc = "file" => cmd[d].op # "close"
  /\ cmd[d].pc \in {"stop", "unchain", "closed"} => cmd[d].op = "close"
  /\ merging[d] <=> cmd[d].op # "close" /\ cmd[d].pc \in {"drain", "file"}
  /\ stopping[d] <=> cmd[d].op = "close" /\ cmd[d].pc # "idle"
  /\ stopping[d] => th[d].pc # "startwait"
  /\ cmd[d].pc \in {"unchain", "closed"} => th[d].pc # "start"
  /\ cmd[d].pc \in {"drain", "file", "unchain", "closed"} => Reading(d) = {}
  /\ cmd[d].pc \in {"file", "unchain", "closed"} =>
        ~ioactive[d] /\ \A e \in Entry : key[e] \notin Of(d)

\* The entries that wait for a writer or are being written.
Queued == {e \in Entry : "write" \in flag[e]}
Pend(d) == {e \in Entry : key[e] \in Of(d) /\ flag[e] \cap {"write", "writing"} # {}}
Awake == \E w \in Writer : wr[w].pc \notin {"none", "wait"}

CountsOK ==
  /\ \A d \in Device : wrpending[d] = Cardinality(Pend(d))
  /\ wrqueued \in 0 .. MaxQueued /\ wrqueued >= Cardinality(Queued)
  /\ Queued # {} => Awake

Thread == [pc : ProgramPc \cup ReaderPc, key : Key \cup {NoKey},
           ent : Entry \cup {NoEntry}, seq : BOOLEAN, todo : SUBSET Device]
WriterRec == [pc : {"none", "new", "loop", "wait", "woken", "write", "wrote"},
              ent : Entry \cup {NoEntry}]
CmdRec == [pc : {"idle", "stop", "drain", "file", "unchain", "closed"},
           op : {"sf", "merge", "base", "close"}, given : 0 .. MaxCommands]

\* The types of everything but the counts.
CacheTyped ==
  /\ key \in [Entry -> Key \cup {NoKey}]
  /\ flag \in [Entry -> SUBSET Flag]
  /\ img \in [Entry -> [of : Key \cup {NoKey}, ver : Nat]]
  /\ file \in [Key -> Nat]
DeviceTyped ==
  /\ cur \in [Device -> Entry \cup {NoEntry}] /\ bufcur \in [Device -> Track \cup {0}]
  /\ ioactive \in [Device -> BOOLEAN] /\ updated \in [Device -> BOOLEAN]
  /\ asleep \in [Device -> SUBSET {"program", "command"}] /\ cwait \subseteq User
CmdTyped ==
  /\ merging \in [Device -> BOOLEAN] /\ stopping \in [Device -> BOOLEAN]
  /\ cmd \in [Device -> CmdRec] /\ chain \subseteq Device
ThreadsTyped ==
  /\ raq \subseteq Key /\ th \in [User -> Thread] /\ wr \in [Writer -> WriterRec]
  /\ gc \in [pc : {"none", "wait", "pass", "flush"}, todo : SUBSET Device, dev : Device]
Typed == CacheTyped /\ DeviceTyped /\ CmdTyped /\ ThreadsTyped /\ wrpending \in [Device -> Nat]

CacheInv ==
  /\ Typed /\ CountsOK /\ KeysApart /\ ActiveHeld /\ FillersApart /\ WritersApart
  /\ \A e \in Entry : EntryOK(e)
  /\ \A d \in Device : ProgramOK(d) /\ CommandOK(d)
  /\ \A r \in Reader : ReaderOK(r)
  /\ \A p \in User : FilledOK(p)
  /\ \A w \in Writer : WriterOK(w)
-----------------------------------------------------------------------------
(* Tracks, threads and counts.                                               *)

LEMMA OfTracks ==
    /\ \A d \in Device : Of(d) \subseteq Key /\ NoKey \notin Of(d)
    /\ \A d \in Device, t \in Track : <<d, t>> \in Of(d)
    /\ \A c, d \in Device : \A k : k \in Of(c) /\ k \in Of(d) => c = d
    /\ \A d \in Device : \A k : k \in Of(d) => k[1] = d /\ k[2] \in Track /\ k = <<d, k[2]>>
    /\ \A k \in Key : k[1] \in Device /\ k[2] \in Track /\ k \in Of(k[1]) /\ k = <<k[1], k[2]>>
    /\ \A k \in Key, d \in Device : k[1] = d => k \in Of(d)
    /\ NoKey \notin Key /\ NoEntry \notin Entry /\ Device \cap Reader = {}
    /\ Device \subseteq User /\ Reader \subseteq User
    /\ \A p \in User : p \in Device \/ p \in Reader
    /\ 0 \notin Track
  BY ConstantsAssumption, NoKeyAssumption DEF Of, Key, User, Track

\* Scheduled wakes or creates one thread of the group, or none.
LEMMA ScheduledOne ==
    ASSUME NEW t, NEW group, NEW u \in Scheduled(t, group)
    PROVE  \/ u = t
           \/ \E x \in group : \/ t[x].pc = "wait" /\ u = [t EXCEPT ![x].pc = "woken"]
                               \/ t[x].pc = "none" /\ u = [t EXCEPT ![x].pc = "new"]
  BY DEF Scheduled

\* One of the writers is awake then.
LEMMA ScheduledAwake ==
    ASSUME NEW t \in [Writer -> WriterRec], NEW u \in Scheduled(t, Writer)
    PROVE  /\ u \in [Writer -> WriterRec]
           /\ \E w \in Writer : u[w].pc \notin {"none", "wait"}
           /\ \A w \in Writer : u[w] = t[w] \/ (t[w].pc \notin WrPc /\ u[w].pc \notin WrPc)
  <1>0. \A w \in Writer : t[w] \in WriterRec
    OBVIOUS
  <1>1. CASE u = t
    <2>1. {w \in Writer : t[w].pc \in {"wait"}} = {}
      BY <1>1, <1>0 DEF Scheduled, WriterRec
    <2> QED
      BY <1>1, <2>1, <1>0, ConstantsAssumption DEF Scheduled, WriterRec
  <1>2. ASSUME NEW x \in Writer, t[x].pc = "wait", u = [t EXCEPT ![x].pc = "woken"]
        PROVE  /\ u \in [Writer -> WriterRec] /\ u[x].pc = "woken"
               /\ \A w \in Writer : u[w] = t[w] \/ (t[w].pc \notin WrPc /\ u[w].pc \notin WrPc)
    BY <1>2, <1>0 DEF WriterRec, WrPc
  <1>3. ASSUME NEW x \in Writer, t[x].pc = "none", u = [t EXCEPT ![x].pc = "new"]
        PROVE  /\ u \in [Writer -> WriterRec] /\ u[x].pc = "new"
               /\ \A w \in Writer : u[w] = t[w] \/ (t[w].pc \notin WrPc /\ u[w].pc \notin WrPc)
    BY <1>3, <1>0 DEF WriterRec, WrPc
  <1>4. \/ u = t
        \/ \E x \in Writer : \/ t[x].pc = "wait" /\ u = [t EXCEPT ![x].pc = "woken"]
                             \/ t[x].pc = "none" /\ u = [t EXCEPT ![x].pc = "new"]
    BY ScheduledOne, SMTT(20)
  <1> QED
    BY <1>1, <1>2, <1>3, <1>4

\* A readahead thread that is signalled or created was idle.
LEMMA ScheduledReader ==
    ASSUME NEW t \in [User -> Thread], NEW u \in Scheduled(t, Reader)
    PROVE  /\ u \in [User -> Thread]
           /\ \A p \in User : u[p] = t[p]
                              \/ /\ p \in Reader /\ t[p].pc \in {"wait", "none"}
                                 /\ u[p].pc \in {"woken", "new"} /\ u[p].seq = t[p].seq
  <1>0. /\ \A p \in User : t[p] \in Thread
        /\ Reader \subseteq User
    BY OfTracks
  <1>1. ASSUME NEW x \in Reader, t[x].pc = "wait", u = [t EXCEPT ![x].pc = "woken"]
        PROVE  /\ u \in [User -> Thread]
               /\ \A p \in User : u[p] = t[p] \/ /\ p \in Reader /\ t[p].pc = "wait"
                                                 /\ u[p].pc = "woken" /\ u[p].seq = t[p].seq
    BY <1>1, <1>0 DEF Thread, ReaderPc
  <1>2. ASSUME NEW x \in Reader, t[x].pc = "none", u = [t EXCEPT ![x].pc = "new"]
        PROVE  /\ u \in [User -> Thread]
               /\ \A p \in User : u[p] = t[p] \/ /\ p \in Reader /\ t[p].pc = "none"
                                                 /\ u[p].pc = "new" /\ u[p].seq = t[p].seq
    BY <1>2, <1>0 DEF Thread, ReaderPc
  <1>4. \/ u = t
        \/ \E x \in Reader : \/ t[x].pc = "wait" /\ u = [t EXCEPT ![x].pc = "woken"]
                             \/ t[x].pc = "none" /\ u = [t EXCEPT ![x].pc = "new"]
    BY ScheduledOne
  <1> QED
    BY <1>1, <1>2, <1>4

\* Cardinalities that the counts follow.
LEMMA Finite == \A S : S \subseteq Entry => /\ IsFiniteSet(S) /\ Cardinality(S) \in Nat
                                            /\ Cardinality(S) <= Cardinality(Entry)
                                            /\ (Cardinality(S) = 0 <=> S = {})
  BY ConstantsAssumption, FS_Subset, FS_CardinalityType, FS_EmptySet

LEMMA CountOut ==
    ASSUME NEW S, S \subseteq Entry, NEW e \in S
    PROVE  Cardinality(S \ {e}) = Cardinality(S) - 1 /\ Cardinality(S) >= 1
  BY Finite, FS_RemoveElement

LEMMA CountIn ==
    ASSUME NEW S, S \subseteq Entry, NEW T, T \subseteq Entry, S \cap T = {}
    PROVE  Cardinality(S \cup T) = Cardinality(S) + Cardinality(T)
  <1>1. Cardinality(S \cup T) = Cardinality(S) + Cardinality(T) - Cardinality(S \cap T)
    BY Finite, FS_Union
  <1> QED
    BY <1>1, Finite, FS_EmptySet

LEMMA Bits ==
    /\ \A f, e, b : e \in Entry => (On(f, e, b) = [f EXCEPT ![e] = f[e] \cup b])
    /\ \A f, e, b : e \in Entry => (Off(f, e, b) = [f EXCEPT ![e] = f[e] \ b])
  BY DEF On, Off

LEMMA TypedFacts ==
    ASSUME Typed
    PROVE  /\ \A e \in Entry : key[e] \in Key \cup {NoKey} /\ flag[e] \subseteq Flag
                               /\ img[e].ver \in Nat /\ img[e] = [of |-> img[e].of, ver |-> img[e].ver]
           /\ \A p \in User : th[p] \in Thread /\ th[p].ent \in Entry \cup {NoEntry}
           /\ \A w \in Writer : wr[w] \in WriterRec /\ wr[w].ent \in Entry \cup {NoEntry}
           /\ \A d \in Device : /\ cmd[d] \in CmdRec /\ cur[d] \in Entry \cup {NoEntry}
                                /\ bufcur[d] \in Track \cup {0} /\ wrpending[d] \in Nat
                                /\ ioactive[d] \in BOOLEAN
                                /\ merging[d] \in BOOLEAN /\ stopping[d] \in BOOLEAN
           /\ \A k \in Key : file[k] \in Nat
  BY DEF Typed, CacheTyped, DeviceTyped, CmdTyped, ThreadsTyped, Thread, WriterRec
-----------------------------------------------------------------------------
(* The start, and what the invariant means for the properties.               *)

LEMMA InvInit == Init => CacheInv
  <1> SUFFICES ASSUME Init PROVE CacheInv
    OBVIOUS
  <1> USE DEF Init
  <1>1. Typed
    <2>1. CacheTyped
      BY DEF CacheTyped
    <2>2. DeviceTyped
      BY DEF DeviceTyped
    <2>3. CmdTyped
      BY ConstantsAssumption DEF CmdTyped, CmdRec
    <2>4. ThreadsTyped
      BY DEF ThreadsTyped, Thread, WriterRec, ProgramPc, ReaderPc
    <2> QED
      BY <2>1, <2>2, <2>3, <2>4 DEF Typed
  <1>2. CountsOK
    <2>1. Queued = {} /\ \A d \in Device : Pend(d) = {}
      BY DEF Queued, Pend
    <2>2. Cardinality({}) = 0
      BY FS_EmptySet
    <2>3. \A d \in Device : wrpending[d] = Cardinality(Pend(d))
      BY <2>1, <2>2
    <2> QED
      BY <2>1, <2>2, <2>3, ConstantsAssumption DEF CountsOK
  <1>3. KeysApart /\ ActiveHeld
    BY DEF KeysApart, ActiveHeld
  <1>4. \A p \in User : th[p].pc \in {"idle", "none"} /\ th[p].pc \notin Filling /\ ~Fills(p)
    BY DEF Filling, Fills
  <1>5. FillersApart /\ \A p \in User : FilledOK(p)
    BY <1>4 DEF FillersApart, FilledOK
  <1>6. WritersApart /\ \A w \in Writer : WriterOK(w)
    BY DEF WritersApart, WriterOK, WrPc
  <1>7. \A e \in Entry : EntryOK(e)
    BY DEF EntryOK, Shape
  <1>8. ASSUME NEW d \in Device PROVE ProgramOK(d)
    BY OfTracks DEF ProgramOK, CurrentOK, WantedOK, ProgramPc, Searching, Filling
  <1>9. ASSUME NEW d \in Device PROVE CommandOK(d)
    BY OfTracks DEF CommandOK
  <1>10. ASSUME NEW r \in Reader PROVE ReaderOK(r)
    BY OfTracks DEF ReaderOK, ReaderPc, Searching, Filling
  <1> QED
    BY <1>1, <1>2, <1>3, <1>5, <1>6, <1>7, <1>8, <1>9, <1>10 DEF CacheInv

LEMMA InvTypeOK == CacheInv => TypeOK
  <1> SUFFICES ASSUME CacheInv PROVE TypeOK
    OBVIOUS
  <1>1. Typed /\ CountsOK
    BY DEF CacheInv
  <1>2. wrpending \in [Device -> 0 .. Cardinality(Entry)]
    <2>1. \A d \in Device : wrpending[d] = Cardinality(Pend(d))
      BY <1>1 DEF CountsOK
    <2>2. \A d \in Device : Pend(d) \subseteq Entry
      BY DEF Pend
    <2>3. \A d \in Device : Cardinality(Pend(d)) \in 0 .. Cardinality(Entry)
      BY <2>2, Finite
    <2>4. wrpending \in [Device -> Nat]
      BY <1>1 DEF Typed
    <2> QED
      BY <2>1, <2>3, <2>4
  <1> QED
    BY <1>1, <1>2 DEF TypeOK, Typed, CacheTyped, DeviceTyped, CmdTyped, ThreadsTyped, CountsOK,
       Thread, WriterRec, CmdRec

LEMMA InvOneImage == CacheInv => OneImage
  BY DEF CacheInv, OneImage, KeysApart, EntryOK

LEMMA InvWritesCounted == CacheInv => WritesCounted
  <1> SUFFICES ASSUME CacheInv PROVE WritesCounted
    OBVIOUS
  <1>1. CountsOK
    BY DEF CacheInv
  <1>2. \A d \in Device : Pend(d) = {e \in Entry : /\ key[e] \in {d} \X Track
                                                   /\ flag[e] \cap {"write", "writing"} # {}}
    BY DEF Pend, Of
  <1>3. Queued = {e \in Entry : "write" \in flag[e]}
    BY DEF Queued
  <1> QED
    BY <1>1, <1>2, <1>3 DEF CountsOK, WritesCounted, Awake

LEMMA InvFileWorkAlone == CacheInv => FileWorkAlone
  <1> SUFFICES ASSUME CacheInv, NEW d \in Device, cmd[d].pc \in {"file", "unchain", "closed"}
               PROVE  /\ ~ioactive[d] /\ wrpending[d] = 0 /\ Reading(d) = {}
                      /\ \A e \in Entry : key[e] \notin {d} \X Track
    BY DEF FileWorkAlone
  <1>1. CommandOK(d) /\ wrpending[d] = Cardinality(Pend(d))
    BY DEF CacheInv, CountsOK
  <1>2. \A e \in Entry : key[e] \notin Of(d)
    BY <1>1 DEF CommandOK
  <1>3. Pend(d) = {}
    BY <1>2 DEF Pend
  <1> QED
    BY <1>1, <1>2, <1>3, FS_EmptySet DEF CommandOK, Of
-----------------------------------------------------------------------------
(* What a step leaves to the threads that do not take it.  Of the entries in   *)
(* use, a step changes only those of the tracks K and the entry x, which the   *)
(* thread that takes the step holds under I/O.                                 *)

EntrySame(e) == key'[e] = key[e] /\ flag'[e] = flag[e] /\ img'[e] = img[e]
ThreadSame(p) == /\ th'[p].pc = th[p].pc /\ th'[p].key = th[p].key /\ th'[p].ent = th[p].ent
                 /\ th'[p].seq = th[p].seq
ProgSame(d) == /\ ThreadSame(d) /\ cur'[d] = cur[d] /\ bufcur'[d] = bufcur[d]
               /\ ioactive'[d] = ioactive[d]
ReaderSame(r) == \/ ThreadSame(r)
                 \/ /\ th[r].pc \in {"wait", "none"} /\ th'[r].pc \in {"woken", "new"}
                    /\ th'[r].seq = th[r].seq
InIo(e) == "writing" \in flag[e] \/ \E p \in User : Fills(p) /\ th[p].ent = e

Frame(K, x) ==
  /\ \A e \in Entry : e # x /\ flag[e] \cap ({"active"} \cup Io) # {} /\ key[e] \notin K
                        => EntrySame(e)
  /\ \A e \in Entry : e # x /\ InIo(e) => /\ key'[e] = key[e] /\ img'[e] = img[e]
                                          /\ flag'[e] \cap Io = flag[e] \cap Io
  /\ x \in Entry => /\ key'[x] = key[x]
                    /\ "active" \in flag[x] /\ key[x] \notin K
                          => flag'[x] \subseteq flag[x] /\ "active" \in flag'[x]
  /\ \A k \in Key : file'[k] = file[k] \/ (x \in Entry /\ k = key[x])

\* What a thread that fills an entry has of it.
LEMMA FillsEntry ==
    ASSUME CacheInv, NEW p \in User, Fills(p)
    PROVE  /\ th[p].ent \in Entry /\ key[th[p].ent] = th[p].key /\ th[p].key \in Key
           /\ "reading" \in flag[th[p].ent] /\ InIo(th[p].ent)
           /\ p \in Device => ioactive[p] /\ th[p].key \in Of(p)
                              /\ flag[th[p].ent] = {"reading", "active"}
  <1>0. InIo(th[p].ent)
    BY DEF InIo
  <1>1. CASE p \in Device
    <2>1. ProgramOK(p)
      BY <1>1 DEF CacheInv
    <2>2. th[p].pc \in Filling \cup {"sched"} /\ ioactive[p]
      BY <2>1 DEF Fills, Filling, ProgramOK
    <2>3. th[p].ent \in Entry /\ key[th[p].ent] = th[p].key /\ th[p].key \in Of(p)
      BY <2>1, <2>2 DEF ProgramOK, WantedOK
    <2>4. flag[th[p].ent] = {"reading", "active"}
      <3>1. cur[p] # NoEntry => "reading" \notin flag[cur[p]]
        BY <2>1, <2>2 DEF ProgramOK, CurrentOK
      <3> QED
        BY <3>1, <2>1, <2>2, <2>3, OfTracks DEF ProgramOK, WantedOK, Fills, Filling
    <2> QED
      BY <1>0, <1>1, <2>2, <2>3, <2>4, OfTracks
  <1>2. CASE p \in Reader
    <2>1. ReaderOK(p)
      BY <1>2 DEF CacheInv
    <2>2. th[p].pc \in Filling
      BY <2>1 DEF ReaderOK, Fills, ReaderPc
    <2> QED
      BY <1>0, <1>2, <2>1, <2>2, OfTracks DEF ReaderOK
  <1> QED
    BY <1>1, <1>2, OfTracks

LEMMA FrameProgram ==
    ASSUME CacheInv, NEW K, NEW x, Frame(K, x), NEW c \in Device, ProgSame(c),
           \A k \in Of(c) : k \notin K, ~(Fills(c) /\ th[c].ent = x)
    PROVE  ProgramOK(c)' /\ (Fills(c)' => Fills(c))
  <1>0. ProgramOK(c) /\ Typed
    BY DEF CacheInv
  <1>1. ASSUME NEW e \in Entry, key[e] \in Of(c), "active" \in flag[e]
        PROVE  /\ key'[e] = key[e] /\ "active" \in flag'[e] /\ flag'[e] \subseteq flag[e]
               /\ e # x => flag'[e] = flag[e]
    BY <1>1 DEF Frame, EntrySame
  <1>2. ASSUME cur[c] # NoEntry, ioactive[c]
        PROVE  /\ cur[c] \in Entry /\ key'[cur[c]] = key[cur[c]] /\ "active" \in flag'[cur[c]]
               /\ flag'[cur[c]] \subseteq flag[cur[c]]
    <2>1. cur[c] \in Entry /\ key[cur[c]] \in Of(c) /\ "active" \in flag[cur[c]]
      <3>1. key[cur[c]] = <<c, bufcur[c]>> /\ bufcur[c] \in Track /\ "active" \in flag[cur[c]]
        BY <1>0, <1>2 DEF ProgramOK, CurrentOK
      <3>2. <<c, bufcur[c]>> \in Of(c)
        BY <3>1, OfTracks
      <3> QED
        BY <1>0, <1>2, <3>1, <3>2, TypedFacts
    <2> QED
      BY <2>1, <1>1
  <1>3. CurrentOK(c)'
    BY <1>0, <1>2 DEF ProgSame, ThreadSame, ProgramOK, CurrentOK
  <1>4. ASSUME th[c].pc \in Filling \cup {"hitwait", "sched"}
        PROVE  /\ th[c].ent \in Entry /\ key'[th[c].ent] = th[c].key /\ "active" \in flag'[th[c].ent]
               /\ flag'[th[c].ent] \subseteq flag[th[c].ent]
               /\ Fills(c) => flag'[th[c].ent] = flag[th[c].ent]
    <2>1. th[c].ent \in Entry /\ key[th[c].ent] = th[c].key /\ th[c].key \in Of(c)
      BY <1>0, <1>4 DEF ProgramOK, WantedOK
    <2>2. ioactive[c]
      BY <1>0, <1>4 DEF ProgramOK, Filling
    <2>3. "active" \in flag[th[c].ent]
      <3>1. CASE th[c].pc = "sched" /\ cur[c] = th[c].ent
        BY <3>1, <2>1, <2>2, <1>0, OfTracks DEF ProgramOK, CurrentOK
      <3> QED
        BY <3>1, <1>0, <1>4 DEF ProgramOK, WantedOK
    <2> QED
      BY <2>1, <2>3, <1>1
  <1>5. WantedOK(c)'
    <2>1. th[c].pc = "sched" /\ flag[th[c].ent] = {"reading", "active"} => Fills(c)
      BY DEF Fills
    <2>2. th[c].pc \in Filling => Fills(c)
      BY DEF Fills
    <2> QED
      BY <1>0, <1>4, <2>1, <2>2 DEF ProgSame, ThreadSame, ProgramOK, WantedOK
  <1>6. ProgramOK(c)'
    BY <1>0, <1>3, <1>5 DEF ProgSame, ThreadSame, ProgramOK
  <1>7. Fills(c)' => Fills(c)
    BY <1>4 DEF Fills, ProgSame, ThreadSame
  <1> QED
    BY <1>6, <1>7

LEMMA FrameReader ==
    ASSUME CacheInv, NEW K, NEW x, Frame(K, x), NEW r \in Reader, ReaderSame(r),
           ~(Fills(r) /\ th[r].ent = x)
    PROVE  ReaderOK(r)' /\ (Fills(r)' => Fills(r) /\ ThreadSame(r))
  <1>0. ReaderOK(r) /\ r \in User
    BY OfTracks DEF CacheInv
  <1>1. CASE ThreadSame(r)
    <2>1. CASE th[r].pc \in Filling
      <3>1. Fills(r)
        BY <2>1 DEF Fills
      <3>2. th[r].ent \in Entry /\ InIo(th[r].ent) /\ th[r].ent # x /\ "reading" \in flag[th[r].ent]
        BY <3>1, <1>0, FillsEntry
      <3>3. key'[th[r].ent] = key[th[r].ent] /\ "reading" \in flag'[th[r].ent]
        BY <3>2 DEF Frame, Io
      <3> QED
        BY <3>1, <3>2, <3>3, <1>0, <1>1 DEF ReaderOK, ThreadSame
    <2>2. CASE th[r].pc \notin Filling
      BY <1>0, <1>1, <2>2 DEF ReaderOK, Fills, ReaderPc, ThreadSame
    <2> QED
      BY <2>1, <2>2
  <1>2. CASE th'[r].pc \in {"woken", "new"} /\ th'[r].seq = th[r].seq
    BY <1>0, <1>2 DEF ReaderOK, ReaderPc, Searching, Filling, Fills
  <1> QED
    BY <1>1, <1>2 DEF ReaderSame, ThreadSame

LEMMA FrameFilled ==
    ASSUME CacheInv, NEW K, NEW x, Frame(K, x), NEW p \in User,
           ThreadSame(p) \/ th'[p].pc # "filled", ~(Fills(p) /\ th[p].ent = x)
    PROVE  FilledOK(p)'
  <1> SUFFICES ASSUME ThreadSame(p), th[p].pc = "filled"
               PROVE  img'[th[p].ent] = [of |-> th[p].key, ver |-> file'[th[p].key]]
    BY DEF FilledOK, ThreadSame
  <1>1. Fills(p) /\ FilledOK(p) /\ KeysApart
    BY DEF Fills, Filling, CacheInv
  <1>2. th[p].ent \in Entry /\ InIo(th[p].ent) /\ th[p].ent # x /\ key[th[p].ent] = th[p].key
        /\ th[p].key \in Key
    BY <1>1, FillsEntry
  <1>3. img'[th[p].ent] = img[th[p].ent]
    BY <1>2 DEF Frame
  <1>4. file'[th[p].key] = file[th[p].key]
    BY <1>1, <1>2, OfTracks DEF Frame, KeysApart
  <1> QED
    BY <1>1, <1>3, <1>4 DEF FilledOK

LEMMA FrameWriter ==
    ASSUME CacheInv, NEW K, NEW x, Frame(K, x), NEW w \in Writer,
           wr'[w] = wr[w] \/ wr'[w].pc \notin WrPc, wr[w].pc \in WrPc => wr[w].ent # x
    PROVE  WriterOK(w)'
  <1>1. CASE wr'[w] = wr[w] /\ wr[w].pc \in WrPc
    <2>1. WriterOK(w) /\ KeysApart /\ Typed
      BY DEF CacheInv
    <2> DEFINE e == wr[w].ent
    <2>2. e \in Entry /\ "writing" \in flag[e] /\ e # x
      BY <1>1, <2>1 DEF WriterOK
    <2>3. InIo(e)
      BY <2>2 DEF InIo
    <2>4. key'[e] = key[e] /\ img'[e] = img[e] /\ "writing" \in flag'[e]
      BY <2>2, <2>3 DEF Frame, Io
    <2>5. key[e] \in Key
      BY <2>1, <2>2, TypedFacts DEF CacheInv, EntryOK
    <2>6. file'[key[e]] = file[key[e]]
      BY <2>1, <2>2, <2>5, OfTracks DEF Frame, KeysApart
    <2> QED
      BY <1>1, <2>1, <2>2, <2>4, <2>6 DEF WriterOK
  <1>2. CASE wr'[w].pc \notin WrPc
    BY <1>2 DEF WriterOK, WrPc
  <1> QED
    BY <1>1, <1>2

\* The threads but the one that takes the step, a.
Others(K, x, a) ==
  /\ Frame(K, x)
  /\ a \in Device => Of(a) \subseteq K
  /\ \A c \in Device : c # a => ProgSame(c) /\ \A k \in Of(c) : k \notin K
  /\ \A r \in Reader : r # a => ReaderSame(r)
  /\ \A p \in User : p # a => ~(Fills(p) /\ th[p].ent = x)

LEMMA Rest ==
    ASSUME CacheInv, NEW K, NEW x, NEW a, Others(K, x, a)
    PROVE  /\ \A c \in Device : c # a => ProgramOK(c)'
           /\ \A r \in Reader : r # a => ReaderOK(r)'
           /\ \A p \in User : p # a => FilledOK(p)'
           /\ \A p \in User : p # a => (Fills(p)' => Fills(p) /\ th'[p].ent = th[p].ent)
           /\ \A e \in Entry : "active" \in flag[e] /\ key[e] \notin K =>
                 \E d \in Device : key'[e] \in Of(d) /\ Holds(d, e)'
  <1> USE DEF Others
  <1>1. \A c \in Device : c # a => ProgramOK(c)' /\ (Fills(c)' => Fills(c))
    BY FrameProgram, OfTracks
  <1>2. \A r \in Reader : r # a => ReaderOK(r)' /\ (Fills(r)' => Fills(r) /\ ThreadSame(r))
    BY FrameReader, OfTracks
  <1>3. ASSUME NEW p \in User, p # a PROVE FilledOK(p)'
    <2>1. ThreadSame(p) \/ th'[p].pc # "filled"
      BY <1>3, OfTracks DEF ProgSame, ThreadSame, ReaderSame
    <2> QED
      BY <1>3, <2>1, FrameFilled
  <1>4. ASSUME NEW e \in Entry, "active" \in flag[e], key[e] \notin K
        PROVE  \E d \in Device : key'[e] \in Of(d) /\ Holds(d, e)'
    <2>1. PICK d \in Device : key[e] \in Of(d) /\ Holds(d, e)
      BY <1>4 DEF CacheInv, ActiveHeld
    <2>2. d # a /\ ProgSame(d)
      BY <1>4, <2>1
    <2>3. key'[e] = key[e]
      BY <1>4 DEF Frame, EntrySame
    <2> QED
      BY <2>1, <2>2, <2>3 DEF Holds, ProgSame, ThreadSame
  <1> QED
    BY <1>1, <1>2, <1>3, <1>4, OfTracks DEF ProgSame, ThreadSame

LEMMA WritersStay ==
    ASSUME CacheInv, NEW K, NEW x, Frame(K, x),
           \A w \in Writer : wr'[w] = wr[w] \/ wr'[w].pc \notin WrPc,
           x \in Entry => "writing" \notin flag[x]
    PROVE  WritersApart' /\ \A w \in Writer : WriterOK(w)'
  <1>1. \A w \in Writer : wr[w].pc \in WrPc => wr[w].ent # x
    BY DEF CacheInv, WriterOK
  <1>2. \A w \in Writer : WriterOK(w)'
    BY <1>1, FrameWriter
  <1>3. WritersApart'
    BY DEF CacheInv, WritersApart
  <1> QED
    BY <1>2, <1>3

\* The threads that fill entries are apart if whoever begins takes a free one.
LEMMA FillersStay ==
    ASSUME CacheInv, NEW a,
           \A p \in User : p # a => (Fills(p)' => Fills(p) /\ th'[p].ent = th[p].ent),
           a \in User /\ Fills(a)' => \/ Fills(a) /\ th'[a].ent = th[a].ent
                                      \/ "reading" \notin flag[th'[a].ent]
    PROVE  FillersApart'
  <1>1. \A p \in User : Fills(p) => "reading" \in flag[th[p].ent]
    BY FillsEntry
  <1>2. FillersApart
    BY DEF CacheInv
  <1> SUFFICES ASSUME NEW p \in User, NEW q \in User, Fills(p)', Fills(q)', th'[p].ent = th'[q].ent
               PROVE  p = q
    BY DEF FillersApart
  <1> QED
    BY <1>1, <1>2 DEF FillersApart

LEMMA EntryStays ==
    ASSUME NEW e \in Entry, EntryOK(e), EntrySame(e), file'[key[e]] = file[key[e]] \/ key[e] = NoKey
    PROVE  EntryOK(e)'
  BY DEF EntryOK, EntrySame
-----------------------------------------------------------------------------
(* Flags and counts.                                                         *)

LEMMA Signalled ==
    ASSUME NEW f, SetFlag(f)
    PROVE  flag' = f /\ cwait' \subseteq cwait
  BY DEF SetFlag, CacheSignal

\* The flags f are those of the state but for bits that the counts ignore.
SameWrites(f) == \A e \in Entry : f[e] \cap {"write", "writing"} = flag[e] \cap {"write", "writing"}

LEMMA CountsSame ==
    ASSUME CacheInv, SameWrites(flag'),
           \A e \in Entry : flag[e] \cap {"write", "writing"} # {} => key'[e] = key[e],
           wrpending' = wrpending, wrqueued' = wrqueued,
           wr' = wr \/ Awake' \/ (Awake => Awake')
    PROVE  CountsOK'
  <1>1. Queued' = Queued
    BY DEF Queued, SameWrites
  <1>2. ASSUME NEW d \in Device PROVE Pend(d)' = Pend(d)
    <2>1. \A e \in Entry : (key'[e] \in Of(d) /\ flag'[e] \cap {"write", "writing"} # {})
                            <=> (key[e] \in Of(d) /\ flag[e] \cap {"write", "writing"} # {})
      BY DEF SameWrites
    <2> QED
      BY <2>1 DEF Pend
  <1>3. CountsOK
    BY DEF CacheInv
  <1>4. Awake => Awake'
    BY DEF Awake
  <1> QED
    BY <1>1, <1>2, <1>3, <1>4 DEF CountsOK

LEMMA UnpendEffect ==
    ASSUME CacheInv, NEW d \in Device, NEW e \in Entry, key[e] \in Of(d), NEW f, SameWrites(f),
           f \in [Entry -> SUBSET Flag],
           Unpend(d, e, f), key' = key, wrqueued' = wrqueued, wr' = wr
    PROVE  /\ CountsOK' /\ wrpending' \in [Device -> Nat] /\ cwait' \subseteq cwait
           /\ asleep' = asleep \/ asleep' = [asleep EXCEPT ![d] = {}]
           /\ flag' = [f EXCEPT ![e] = IF "write" \in f[e] THEN (f[e] \ {"write"}) \cup {"updated"}
                                                           ELSE f[e]]
  <1>0. CountsOK /\ Typed /\ EntryOK(e)
    BY DEF CacheInv
  <1>1. CASE "write" \in f[e]
    <2>1. /\ flag' = [f EXCEPT ![e] = (f[e] \ {"write"}) \cup {"updated"}]
          /\ cwait' \subseteq cwait /\ wrpending' = [wrpending EXCEPT ![d] = wrpending[d] - 1]
          /\ asleep' = asleep \/ asleep' = [asleep EXCEPT ![d] = {}]
      BY <1>1, Signalled DEF Unpend, Broadcast
    <2>2. flag[e] = {"write"}
      BY <1>0, <1>1 DEF SameWrites, EntryOK, Shape
    <2>3. flag'[e] \cap {"write", "writing"} = {}
      BY <2>1, <2>2 DEF SameWrites
    <2>4. \A x \in Entry : x # e => flag'[x] \cap {"write", "writing"} = flag[x] \cap {"write", "writing"}
      BY <2>1 DEF SameWrites
    <2>5. Queued' = Queued \ {e} /\ e \in Queued
      BY <2>2, <2>3, <2>4 DEF Queued
    <2>6. Pend(d)' = Pend(d) \ {e} /\ e \in Pend(d)
      BY <2>2, <2>3, <2>4 DEF Pend
    <2>7. ASSUME NEW c \in Device, c # d PROVE Pend(c)' = Pend(c)
      <3>1. e \notin Pend(c) /\ e \notin Pend(c)'
        BY <2>7, OfTracks DEF Pend
      <3> QED
        BY <3>1, <2>4 DEF Pend
    <2>8. /\ Cardinality(Queued') = Cardinality(Queued) - 1
          /\ Cardinality(Pend(d)') = Cardinality(Pend(d)) - 1 /\ Cardinality(Pend(d)) >= 1
      <3>1. Queued \subseteq Entry /\ Pend(d) \subseteq Entry
        BY DEF Queued, Pend
      <3> QED
        BY <3>1, <2>5, <2>6, CountOut
    <2>9. wrpending[d] \in Nat /\ wrpending[d] - 1 \in Nat /\ wrpending[d] = Cardinality(Pend(d))
      BY <1>0, <2>8, TypedFacts DEF CountsOK
    <2>10. /\ wrpending' \in [Device -> Nat] /\ wrpending'[d] = Cardinality(Pend(d)')
           /\ \A c \in Device : c # d => wrpending'[c] = wrpending[c]
      BY <1>0, <2>1, <2>8, <2>9 DEF Typed
    <2>11. \A c \in Device : wrpending'[c] = Cardinality(Pend(c)')
      BY <1>0, <2>7, <2>10 DEF CountsOK
    <2>12. wrqueued' >= Cardinality(Queued')
      <3>1. Cardinality(Queued) \in Nat /\ wrqueued \in Nat /\ wrqueued >= Cardinality(Queued)
        <4>1. Queued \subseteq Entry
          BY DEF Queued
        <4> QED
          BY <4>1, <1>0, Finite DEF CountsOK
      <3> QED
        BY <3>1, <2>8
    <2>13. CountsOK'
      BY <1>0, <2>5, <2>11, <2>12 DEF CountsOK, Awake
    <2> QED
      BY <1>1, <2>1, <2>10, <2>13
  <1>2. CASE "write" \notin f[e]
    <2>1. flag' = f /\ cwait' \subseteq cwait /\ wrpending' = wrpending /\ asleep' = asleep
      BY <1>2, Signalled DEF Unpend
    <2>2. f = [f EXCEPT ![e] = f[e]]
      OBVIOUS
    <2> QED
      BY <1>0, <1>2, <2>1, <2>2, CountsSame DEF Typed
  <1> QED
    BY <1>1, <1>2

LEMMA FlushEffect ==
    ASSUME CacheInv, NEW d \in Device, NEW f, SameWrites(f),
           f \in [Entry -> SUBSET Flag], Flush(d, f), key' = key
    PROVE  /\ CountsOK' /\ wrpending' \in [Device -> Nat] /\ cwait' \subseteq cwait
           /\ flag' = [e \in Entry |-> IF key[e] \in Of(d) /\ f[e] = {"updated"} THEN {"write"} ELSE f[e]]
           /\ wr' \in [Writer -> WriterRec]
           /\ \A w \in Writer : wr'[w] = wr[w] \/ (wr[w].pc \notin WrPc /\ wr'[w].pc \notin WrPc)
  <1> DEFINE out == Flushable(d, f)
             n == Cardinality(out)
  <1>0. CountsOK /\ Typed
    BY DEF CacheInv
  <1>1. out \subseteq Entry /\ \A e \in Entry : e \in out <=> key[e] \in Of(d) /\ f[e] = {"updated"}
    BY DEF Flushable, Of
  <1>2. n \in Nat
    BY <1>1, Finite
  <1>3. /\ SetFlag([e \in Entry |-> IF e \in out THEN {"write"} ELSE f[e]])
        /\ wrpending' = [wrpending EXCEPT ![d] = wrpending[d] + n]
        /\ wrqueued' = IF wrqueued + n > MaxQueued THEN MaxQueued ELSE wrqueued + n
        /\ wr' \in IF wrqueued + n # 0 THEN Scheduled(wr, Writer) ELSE {wr}
    BY DEF Flush
  <1>4. flag' = [e \in Entry |-> IF e \in out THEN {"write"} ELSE f[e]] /\ cwait' \subseteq cwait
    BY <1>3, Signalled
  <1>5. flag' = [e \in Entry |-> IF key[e] \in Of(d) /\ f[e] = {"updated"} THEN {"write"} ELSE f[e]]
    BY <1>1, <1>4
  <1>6. /\ wr' \in [Writer -> WriterRec]
        /\ \A w \in Writer : wr'[w] = wr[w] \/ (wr[w].pc \notin WrPc /\ wr'[w].pc \notin WrPc)
        /\ wrqueued + n # 0 => Awake'
        /\ wrqueued + n = 0 => wr' = wr
    <2>1. wr \in [Writer -> WriterRec]
      BY <1>0 DEF Typed, ThreadsTyped
    <2>2. CASE wrqueued + n # 0
      <3>1. wr' \in Scheduled(wr, Writer)
        BY <1>3, <2>2
      <3> QED
        BY <3>1, <2>1, <2>2, ScheduledAwake DEF Awake
    <2> QED
      BY <1>3, <2>1, <2>2
  <1>7. \A e \in Entry : /\ e \in out => flag[e] \cap {"write", "writing"} = {} /\ flag'[e] = {"write"}
                         /\ e \notin out => flag'[e] \cap {"write", "writing"}
                                             = flag[e] \cap {"write", "writing"}
    <2>1. \A e \in out : f[e] \cap {"write", "writing"} = {}
      BY <1>1
    <2> QED
      BY <1>4, <2>1 DEF SameWrites
  <1>8. Queued' = Queued \cup out /\ Queued \cap out = {}
    BY <1>1, <1>7 DEF Queued
  <1>9. Pend(d)' = Pend(d) \cup out /\ Pend(d) \cap out = {}
    BY <1>1, <1>7 DEF Pend
  <1>10. ASSUME NEW c \in Device, c # d PROVE Pend(c)' = Pend(c)
    <2>1. \A e \in Entry : key[e] \in Of(c) => e \notin out
      BY <1>1, <1>10, OfTracks
    <2> QED
      BY <2>1, <1>7 DEF Pend
  <1>11. /\ Cardinality(Queued') = Cardinality(Queued) + n
         /\ Cardinality(Pend(d)') = Cardinality(Pend(d)) + n
         /\ Cardinality(Queued) \in Nat /\ Cardinality(Queued') \in Nat
         /\ Cardinality(Queued') <= Cardinality(Entry) /\ Cardinality(Pend(d)) \in Nat
    <2>1. Queued \subseteq Entry /\ Pend(d) \subseteq Entry /\ Queued \cup out \subseteq Entry
      BY <1>1 DEF Queued, Pend
    <2> QED
      BY <2>1, <1>1, <1>8, <1>9, CountIn, Finite
  <1>12. wrpending[d] \in Nat
    BY <1>0, TypedFacts
  <1>13. Cardinality(Entry) \in Nat
    BY Finite
  <1> HIDE DEF n, out
  <1>14. /\ wrpending' \in [Device -> Nat] /\ wrpending'[d] = wrpending[d] + n
         /\ \A c \in Device : c # d => wrpending'[c] = wrpending[c]
    BY <1>0, <1>2, <1>3, <1>12 DEF Typed
  <1>15. \A c \in Device : wrpending'[c] = Cardinality(Pend(c)')
    BY <1>0, <1>10, <1>11, <1>14 DEF CountsOK
  <1>16. wrqueued' \in 0 .. MaxQueued /\ wrqueued' >= Cardinality(Queued')
    <2>1. wrqueued \in Nat /\ wrqueued <= MaxQueued /\ wrqueued >= Cardinality(Queued)
      BY <1>0, ConstantsAssumption DEF CountsOK
    <2> QED
      BY <2>1, <1>2, <1>3, <1>11, <1>13, ConstantsAssumption
  <1>17. Queued' # {} => Awake'
    <2>1. CASE wrqueued + n = 0
      <3>1. n = 0 /\ wrqueued' = 0
        BY <1>0, <1>2, <1>3, <2>1, ConstantsAssumption DEF CountsOK
      <3>2. Cardinality(Queued') = 0
        BY <3>1, <1>11, <1>16
      <3>3. Queued' \subseteq Entry
        BY <1>1, <1>8 DEF Queued
      <3> QED
        BY <3>2, <3>3, Finite
    <2> QED
      BY <2>1, <1>6
  <1>18. CountsOK'
    BY <1>15, <1>16, <1>17 DEF CountsOK
  <1> QED
    BY <1>4, <1>5, <1>6, <1>14, <1>18
\* A thread that goes on with another track and entry.
GoesOn(p, pc, k, e, seq) ==
  th' = [th EXCEPT ![p].pc = pc, ![p].key = k, ![p].ent = e, ![p].seq = seq]

LEMMA ThreadTo ==
    ASSUME th \in [User -> Thread], NEW p \in User, NEW pc \in ProgramPc \cup ReaderPc,
           NEW k \in Key \cup {NoKey}, NEW e \in Entry \cup {NoEntry}, NEW seq \in BOOLEAN,
           GoesOn(p, pc, k, e, seq)
    PROVE  /\ th' \in [User -> Thread] /\ \A q \in User : q # p => th'[q] = th[q]
           /\ th'[p].pc = pc /\ th'[p].key = k /\ th'[p].ent = e /\ (th'[p].seq <=> seq)
  <1>1. th[p] \in Thread /\ \A q \in User : th[q] \in Thread
    OBVIOUS
  <1>2. th' = [th EXCEPT ![p] = [th[p] EXCEPT !.pc = pc, !.key = k, !.ent = e, !.seq = seq]]
    BY <1>1 DEF GoesOn
  <1>3. PICK r : r = [th[p] EXCEPT !.pc = pc, !.key = k, !.ent = e, !.seq = seq]
    OBVIOUS
  <1>5. r \in Thread
    BY <1>1, <1>3 DEF Thread
  <1>6. r.pc = pc /\ r.key = k /\ r.ent = e
    BY <1>1, <1>3 DEF Thread
  <1>7. r.seq <=> seq
    BY <1>1, <1>3 DEF Thread
  <1>8. th' = [th EXCEPT ![p] = r]
    BY <1>2, <1>3
  <1>9. th'[p] = r /\ th' \in [User -> Thread] /\ \A q \in User : q # p => th'[q] = th[q]
    BY <1>5, <1>8
  <1> QED
    BY <1>5, <1>6, <1>7, <1>9

-----------------------------------------------------------------------------
(* Putting a step together.                                                  *)

\* No program that is on its way into cckddasd_start comes to a device that is
\* closing.
Enters(d) == /\ th'[d].pc = "start" => th[d].pc = "start" \/ ~stopping[d]
             /\ th'[d].pc = "startwait" => th[d].pc = "startwait" \/ ~stopping[d]

\* A step of the other threads leaves the commands in order.
LEMMA CommandsStay ==
    ASSUME CacheInv, UNCHANGED <<merging, stopping, cmd>>,
           \A d \in Device : /\ Enters(d)
                             /\ ioactive'[d] => ioactive[d] \/ cmd[d].pc \notin {"file", "unchain", "closed"}
                             /\ Reading(d)' \subseteq Reading(d) \/ (~merging[d] /\ ~stopping[d])
                             /\ \A e \in Entry : key'[e] \in Of(d) =>
                                   key[e] \in Of(d) \/ ioactive[d] \/ Reading(d) # {}
    PROVE  \A d \in Device : CommandOK(d)'
  <1> SUFFICES ASSUME NEW d \in Device PROVE CommandOK(d)'
    OBVIOUS
  <1>1. CommandOK(d) /\ cmd'[d] = cmd[d] /\ merging'[d] = merging[d] /\ stopping'[d] = stopping[d]
    BY DEF CacheInv
  <1>2. cmd[d].pc \in {"drain", "file", "unchain", "closed"} => merging[d] \/ stopping[d]
    BY <1>1 DEF CommandOK
  <1>3. cmd[d].pc \in {"drain", "file", "unchain", "closed"} => Reading(d)' = {} /\ Reading(d) = {}
    BY <1>1, <1>2 DEF CommandOK
  <1>4. cmd[d].pc \in {"file", "unchain", "closed"} =>
           ~ioactive'[d] /\ \A e \in Entry : key'[e] \notin Of(d)
    BY <1>1, <1>2, <1>3 DEF CommandOK
  <1>5. /\ stopping[d] => th'[d].pc # "startwait"
        /\ cmd[d].pc \in {"unchain", "closed"} => th'[d].pc # "start"
    BY <1>1 DEF CommandOK, Enters
  <1> QED
    BY <1>1, <1>3, <1>4, <1>5 DEF CommandOK

\* Readers that do not take a track read no other.
LEMMA ReadingStays ==
    ASSUME \A r \in Reader : \/ ReaderSame(r)
                             \/ th'[r].pc \in {"loop", "wait"}
                             \/ /\ th[r].pc \in {"look", "fill", "filled", "read", "flushmiss", "flushend",
                                                 "cachewait", "cachesleep"}
                                /\ th'[r].key = th[r].key
    PROVE  \A d \in Device : Reading(d)' \subseteq Reading(d)
  BY DEF Reading, ReaderSame, ThreadSame

\* What the thread that takes the step owes.
Mine(K, x, a) ==
  /\ Typed' /\ CountsOK' /\ KeysApart' /\ file' = file
  /\ \A w \in Writer : wr'[w] = wr[w] \/ wr'[w].pc \notin WrPc
  /\ x \in Entry => "writing" \notin flag[x]
  /\ \A e \in Entry : EntrySame(e) \/ EntryOK(e)'
  /\ \A e \in Entry : "active" \in flag'[e] =>
        \/ "active" \in flag[e] /\ key[e] \notin K
        \/ \E d \in Device : key'[e] \in Of(d) /\ Holds(d, e)'
  /\ a \in Device => ProgramOK(a)'
  /\ a \in Reader => ReaderOK(a)'
  /\ a \in User => FilledOK(a)'
  /\ a \in User /\ Fills(a)' => \/ Fills(a) /\ th'[a].ent = th[a].ent
                                \/ "reading" \notin flag[th'[a].ent]
  /\ \A d \in Device : CommandOK(d)'

LEMMA Assemble ==
    ASSUME CacheInv, NEW K, NEW x, NEW a, Others(K, x, a), Mine(K, x, a)
    PROVE  CacheInv'
  <1> USE DEF Mine
  <1>1. /\ \A c \in Device : c # a => ProgramOK(c)'
        /\ \A r \in Reader : r # a => ReaderOK(r)'
        /\ \A p \in User : p # a => FilledOK(p)'
        /\ \A p \in User : p # a => (Fills(p)' => Fills(p) /\ th'[p].ent = th[p].ent)
        /\ \A e \in Entry : "active" \in flag[e] /\ key[e] \notin K =>
              \E d \in Device : key'[e] \in Of(d) /\ Holds(d, e)'
    BY Rest
  <1>2. WritersApart' /\ \A w \in Writer : WriterOK(w)'
    BY WritersStay DEF Others
  <1>3. FillersApart'
    BY <1>1, FillersStay
  <1>4. ActiveHeld'
    BY <1>1 DEF ActiveHeld
  <1>5. \A e \in Entry : EntryOK(e)'
    BY EntryStays DEF CacheInv
  <1> QED
    BY <1>1, <1>2, <1>3, <1>4, <1>5 DEF CacheInv

-----------------------------------------------------------------------------
(* The search for a track.                                                   *)

LEMMA InactiveEffect ==
    ASSUME CacheInv, NEW d \in Device, ioactive[d], th[d].pc \notin Filling \cup {"hitwait", "sched"}
    PROVE  /\ Inactive(d) \in [Entry -> SUBSET Flag] /\ SameWrites(Inactive(d))
           /\ \A e \in Entry : Inactive(d)[e] = IF key[e] \in Of(d) THEN flag[e] \ {"active"} ELSE flag[e]
           /\ \A e \in Entry : key[e] \in Of(d) => "iowait" \notin flag[e]
           /\ \A e \in Entry : key[e] \in Of(d) /\ "active" \in flag[e] =>
                 e = cur[d] /\ flag[e] \subseteq {"active", "updated"}
  <1>0. /\ Typed /\ ProgramOK(d) /\ flag \in [Entry -> SUBSET Flag]
        /\ \A e \in Entry : EntryOK(e)
    BY DEF CacheInv, Typed, CacheTyped
  <1>1. ASSUME NEW e \in Entry, key[e] \in Of(d), "active" \in flag[e]
        PROVE  e = cur[d] /\ flag[e] \subseteq {"active", "updated"}
    <2>1. PICK c \in Device : key[e] \in Of(c) /\ Holds(c, e)
      BY <1>1 DEF CacheInv, ActiveHeld
    <2>2. c = d
      BY <1>1, <2>1, OfTracks
    <2>3. e = cur[d]
      BY <2>1, <2>2 DEF Holds
    <2> QED
      BY <2>3, <1>0, OfTracks DEF ProgramOK, CurrentOK
  <1>2. \A e \in Entry : key[e] \in Of(d) => "iowait" \notin flag[e]
    BY <1>0, <1>1 DEF EntryOK, Shape
  <1>3. CASE cur[d] = NoEntry
    <2>1. Inactive(d) = flag
      BY <1>3 DEF Inactive
    <2>2. \A e \in Entry : key[e] \in Of(d) => "active" \notin flag[e]
      BY <1>1, <1>3, OfTracks
    <2> QED
      BY <1>0, <1>1, <1>2, <2>1, <2>2 DEF SameWrites
  <1>4. CASE cur[d] # NoEntry
    <2>1. cur[d] \in Entry /\ key[cur[d]] = <<d, bufcur[d]>> /\ bufcur[d] \in Track
      BY <1>0, <1>4, TypedFacts DEF ProgramOK, CurrentOK
    <2>2. key[cur[d]] \in Of(d)
      BY <2>1, OfTracks
    <2>3. Inactive(d) = [flag EXCEPT ![cur[d]] = flag[cur[d]] \ {"active"}]
      BY <1>4, <2>1 DEF Inactive, Off
    <2>4. \A e \in Entry : Inactive(d)[e] = IF key[e] \in Of(d) THEN flag[e] \ {"active"} ELSE flag[e]
      BY <1>0, <1>1, <2>2, <2>3
    <2>5. Inactive(d) \in [Entry -> SUBSET Flag]
      BY <1>0, <2>3
    <2>6. SameWrites(Inactive(d))
      BY <2>4 DEF SameWrites
    <2> QED
      BY <1>1, <1>2, <2>4, <2>5, <2>6
  <1> QED
    BY <1>3, <1>4

\* What a search by the program of d leaves alone.
LEMMA LookupOthers ==
    ASSUME CacheInv, NEW d \in Device, ioactive[d], th[d].pc \notin Filling \cup {"hitwait", "sched"},
           NEW f, f = Inactive(d), NEW e \in Entry,
           key[e] \in Of(d) \/ flag[e] = {},
           \A x \in Entry : x # e => key'[x] = key[x] /\ flag'[x] = f[x],
           key'[e] = key[e] \/ f[e] = {},
           flag[e] \cap Io # {} => flag'[e] \cap Io = flag[e] \cap Io,
           img' = img, file' = file, ioactive' = ioactive,
           \A c \in Device : c # d => th'[c] = th[c] /\ cur'[c] = cur[c] /\ bufcur'[c] = bufcur[c],
           \A r \in Reader : th'[r] = th[r]
    PROVE  Others(Of(d), NoEntry, d)
  <1>0. /\ \A x \in Entry : f[x] = IF key[x] \in Of(d) THEN flag[x] \ {"active"} ELSE flag[x]
        /\ f[e] = {} => flag[e] \subseteq {"active"}
    BY InactiveEffect
  <1>1. \A x \in Entry : InIo(x) => flag[x] \cap Io # {}
    BY FillsEntry DEF InIo, Io
  <1>2. \A x \in Entry : x # NoEntry /\ flag[x] \cap ({"active"} \cup Io) # {} /\ key[x] \notin Of(d)
                          => EntrySame(x)
    BY <1>0 DEF EntrySame
  <1>3. \A x \in Entry : x # NoEntry /\ InIo(x) => /\ key'[x] = key[x] /\ img'[x] = img[x]
                                                   /\ flag'[x] \cap Io = flag[x] \cap Io
    BY <1>0, <1>1, ZenonT(40) DEF Io
  <1>4. Frame(Of(d), NoEntry)
    BY <1>2, <1>3, OfTracks DEF Frame
  <1>5. \A p \in User : ~(Fills(p) /\ th[p].ent = NoEntry)
    BY FillsEntry, OfTracks
  <1> QED
    BY <1>4, <1>5, OfTracks DEF Others, ProgSame, ThreadSame, ReaderSame

\* The commands do not care about it.
LEMMA LookupCommands ==
    ASSUME CacheInv, NEW d \in Device, ioactive[d], UNCHANGED <<merging, stopping, cmd, ioactive>>,
           \A c \in Device : c # d => th'[c] = th[c], th'[d].pc \notin {"start", "startwait"},
           \A r \in Reader : th'[r] = th[r],
           \A e \in Entry : key'[e] = key[e] \/ key'[e] \in Of(d)
    PROVE  \A c \in Device : CommandOK(c)'
  <1>1. \A c \in Device : Reading(c)' = Reading(c)
    BY DEF Reading
  <1>2. \A c \in Device : Enters(c)
    BY OfTracks DEF Enters
  <1> QED
    BY <1>1, <1>2, CommandsStay, OfTracks

\* A program finds its track under I/O, and waits for that.
LEMMA LookupWaits ==
    ASSUME CacheInv, NEW d \in Device, th[d].pc \in {"run", "look"}, NEW k \in Of(d),
           NEW seq \in BOOLEAN, NEW f, f = Inactive(d),
           NEW e \in Entry, key[e] = k, IoBusy(f[e]),
           SetFlag(On(f, e, {"active", "iowait"})),
           GoesOn(d, "hitwait", k, e, seq),
           asleep' = [asleep EXCEPT ![d] = @ \cup {"program"}],
           cur' = [cur EXCEPT ![d] = NoEntry], bufcur' = [bufcur EXCEPT ![d] = 0],
           UNCHANGED <<wrpending, key, img>>, LookupUnchanged
    PROVE  CacheInv'
  <1>0. /\ Typed /\ ProgramOK(d) /\ ioactive[d] /\ d \in User /\ EntryOK(e)
        /\ k \in Key /\ k # NoKey /\ th[d].pc \notin Filling \cup {"hitwait", "sched"}
    BY OfTracks DEF CacheInv, ProgramOK, Filling
  <1>1. /\ f \in [Entry -> SUBSET Flag] /\ SameWrites(f)
        /\ \A x \in Entry : f[x] = IF key[x] \in Of(d) THEN flag[x] \ {"active"} ELSE flag[x]
        /\ "active" \in flag[e] => flag[e] \subseteq {"active", "updated"}
    BY <1>0, InactiveEffect
  <1>2. flag' = [f EXCEPT ![e] = f[e] \cup {"active", "iowait"}] /\ cwait' \subseteq cwait
    BY Signalled, Bits
  <1>3. f[e] = {"reading"} \/ f[e] = {"writing"}
    BY <1>0, <1>1 DEF IoBusy, EntryOK, Shape
  <1>4. \/ flag[e] = {"reading"} /\ flag'[e] = {"reading", "active", "iowait"}
        \/ flag[e] = {"writing"} /\ flag'[e] = {"writing", "active", "iowait"}
    BY <1>1, <1>2, <1>3
  <1>5. \A x \in Entry : x # e => flag'[x] = f[x]
    BY <1>1, <1>2
  <1>6. /\ th'[d].pc = "hitwait" /\ th'[d].key = k /\ th'[d].ent = e
        /\ \A p \in User : p # d => th'[p] = th[p]
        /\ th' \in [User -> Thread]
    <2>1. th \in [User -> Thread] /\ "hitwait" \in ProgramPc
      BY <1>0 DEF Typed, ThreadsTyped, ProgramPc
    <2> QED
      BY <2>1, <1>0, ThreadTo
  <1>7. /\ cur'[d] = NoEntry /\ bufcur'[d] = 0
        /\ \A c \in Device : c # d => cur'[c] = cur[c] /\ bufcur'[c] = bufcur[c]
    BY <1>0 DEF Typed, DeviceTyped
  <1>8. Typed'
    <2>1. flag' \in [Entry -> SUBSET Flag]
      BY <1>1, <1>2 DEF Flag
    <2>2. cur' \in [Device -> Entry \cup {NoEntry}] /\ bufcur' \in [Device -> Track \cup {0}]
          /\ asleep' \in [Device -> SUBSET {"program", "command"}] /\ cwait' \subseteq User
      BY <1>0, <1>2 DEF Typed, DeviceTyped
    <2> QED
      BY <1>0, <1>6, <2>1, <2>2 DEF Typed, CacheTyped, DeviceTyped, CmdTyped, ThreadsTyped,
         LookupUnchanged, cmdVars
  <1>9. Others(Of(d), NoEntry, d)
    <2>1. flag[e] \cap Io # {} => flag'[e] \cap Io = flag[e] \cap Io
      BY <1>4 DEF Io
    <2> QED
      BY <1>0, <1>5, <1>6, <1>7, <2>1, OfTracks, LookupOthers DEF LookupUnchanged
  <1>10. CountsOK'
    <2>1. SameWrites(flag')
      BY <1>1, <1>4, <1>5 DEF SameWrites
    <2> QED
      BY <2>1, CountsSame DEF LookupUnchanged
  <1>11. ProgramOK(d)'
    BY <1>0, <1>4, <1>6, <1>7 DEF ProgramOK, CurrentOK, WantedOK, ProgramPc, Searching, Filling,
       LookupUnchanged
  <1>12. \A x \in Entry : EntryOK(x)'
    <2>1. EntryOK(e)'
      BY <1>0, <1>4 DEF EntryOK, Shape, Clean, LookupUnchanged
    <2>2. ASSUME NEW x \in Entry, x # e PROVE EntryOK(x)'
      <3>1. flag'[x] = flag[x] \/ /\ key[x] \in Of(d) /\ "active" \in flag[x]
                                  /\ flag'[x] = flag[x] \ {"active"}
                                  /\ flag[x] \subseteq {"active", "updated"}
        <4>1. "active" \in flag[x] /\ key[x] \in Of(d) => flag[x] \subseteq {"active", "updated"}
          BY <1>0, InactiveEffect
        <4>2. "active" \notin flag[x] => flag[x] \ {"active"} = flag[x]
          OBVIOUS
        <4> QED
          BY <4>1, <4>2, <1>1, <1>5, <2>2
      <3>2. EntryOK(x)
        BY DEF CacheInv
      <3> QED
        BY <3>1, <3>2, OfTracks DEF EntryOK, Shape, Clean, LookupUnchanged
    <2> QED
      BY <2>1, <2>2
  <1>13. \A x \in Entry : "active" \in flag'[x] =>
            \/ "active" \in flag[x] /\ key[x] \notin Of(d)
            \/ key'[x] \in Of(d) /\ Holds(d, x)'
    BY <1>0, <1>1, <1>5, <1>6 DEF Holds, LookupUnchanged
  <1>14. \A c \in Device : CommandOK(c)'
    BY <1>0, <1>6, LookupCommands, OfTracks DEF LookupUnchanged, cmdVars
  <1>15. FilledOK(d)' /\ ~Fills(d)'
    BY <1>6 DEF FilledOK, Fills, Filling
  <1>16. KeysApart'
    BY DEF CacheInv, KeysApart
  <1>17. Mine(Of(d), NoEntry, d)
    BY <1>8, <1>10, <1>11, <1>12, <1>13, <1>14, <1>15, <1>16, OfTracks DEF Mine, LookupUnchanged
  <1> QED
    BY <1>9, <1>17, Assemble

\* The entries the program leaves.
LEMMA LookupRest ==
    ASSUME CacheInv, NEW d \in Device, ioactive[d], th[d].pc \notin Filling \cup {"hitwait", "sched"},
           NEW x \in Entry, key'[x] = key[x], flag'[x] = Inactive(d)[x], img' = img, file' = file
    PROVE  EntryOK(x)' /\ ("active" \in flag'[x] => "active" \in flag[x] /\ key[x] \notin Of(d))
  <1>1. /\ flag'[x] = IF key[x] \in Of(d) THEN flag[x] \ {"active"} ELSE flag[x]
        /\ "active" \in flag[x] /\ key[x] \in Of(d) => flag[x] \subseteq {"active", "updated"}
    BY InactiveEffect
  <1>2. flag'[x] = flag[x] \/ /\ key[x] \in Of(d) /\ "active" \in flag[x]
                              /\ flag'[x] = flag[x] \ {"active"}
                              /\ flag[x] \subseteq {"active", "updated"}
    <2>1. "active" \notin flag[x] => flag[x] \ {"active"} = flag[x]
      OBVIOUS
    <2> QED
      BY <1>1, <2>1
  <1>3. EntryOK(x)
    BY DEF CacheInv
  <1> QED
    BY <1>1, <1>2, <1>3, OfTracks DEF EntryOK, Shape, Clean

\* A program finds its track and makes it current.
LEMMA LookupFinds ==
    ASSUME CacheInv, NEW d \in Device, th[d].pc \in {"run", "look"}, NEW k \in Of(d),
           NEW seq \in BOOLEAN, NEW f, f = Inactive(d),
           NEW e \in Entry, key[e] = k, ~IoBusy(f[e]),
           Unpend(d, e, On(f, e, {"active"})),
           cur' = [cur EXCEPT ![d] = e], bufcur' = [bufcur EXCEPT ![d] = k[2]],
           IF seq THEN GoesOn(d, "sched", k, e, seq) ELSE Done(d),
           UNCHANGED <<key, img>>, LookupUnchanged
    PROVE  CacheInv' /\ cur'[d] = e /\ bufcur'[d] = k[2] /\ ioactive'[d]
  <1>0. /\ Typed /\ ProgramOK(d) /\ ioactive[d] /\ d \in User /\ EntryOK(e)
        /\ k \in Key /\ k # NoKey /\ th[d].pc \notin Filling \cup {"hitwait", "sched"}
        /\ k[2] \in Track /\ k = <<d, k[2]>>
    BY OfTracks DEF CacheInv, ProgramOK, Filling
  <1>1. /\ f \in [Entry -> SUBSET Flag] /\ SameWrites(f)
        /\ \A x \in Entry : f[x] = IF key[x] \in Of(d) THEN flag[x] \ {"active"} ELSE flag[x]
        /\ "active" \in flag[e] => flag[e] \subseteq {"active", "updated"}
        /\ "iowait" \notin flag[e]
    BY <1>0, InactiveEffect
  <1> DEFINE g == On(f, e, {"active"})
  <1>2. /\ g \in [Entry -> SUBSET Flag] /\ SameWrites(g) /\ g[e] = f[e] \cup {"active"}
        /\ \A x \in Entry : x # e => g[x] = f[x]
    BY <1>1, Bits DEF SameWrites, Flag
  <1>3. /\ CountsOK' /\ wrpending' \in [Device -> Nat] /\ cwait' \subseteq cwait
        /\ asleep' = asleep \/ asleep' = [asleep EXCEPT ![d] = {}]
        /\ flag' = [g EXCEPT ![e] = IF "write" \in g[e] THEN (g[e] \ {"write"}) \cup {"updated"}
                                                        ELSE g[e]]
    <2>1. Unpend(d, e, g)
      OBVIOUS
    <2> HIDE DEF g
    <2> QED
      BY <1>2, <2>1, UnpendEffect DEF LookupUnchanged
  <1>4. /\ flag'[e] \in {{"active"}, {"active", "updated"}}
        /\ flag'[e] = {"active"} => flag[e] \subseteq {"active"}
        /\ flag[e] \cap Io = {}
    <2>1. f[e] = flag[e] \ {"active"} /\ flag[e] \cap Io = {}
      BY <1>0, <1>1 DEF IoBusy, Io
    <2>2. f[e] = {"write"} \/ f[e] = {"updated"} \/ f[e] = {}
      BY <1>0, <1>1, <2>1 DEF EntryOK, Shape, Io
    <2>3. flag'[e] = IF "write" \in g[e] THEN (g[e] \ {"write"}) \cup {"updated"} ELSE g[e]
      BY <1>2, <1>3
    <2> QED
      BY <1>2, <2>1, <2>2, <2>3
  <1>5. \A x \in Entry : x # e => flag'[x] = f[x]
    BY <1>2, <1>3
  <1>6. /\ \A p \in User : p # d => th'[p] = th[p]
        /\ th' \in [User -> Thread]
        /\ (th'[d].pc = "sched" /\ th'[d].key = k /\ th'[d].ent = e) \/ th'[d].pc = "run"
    <2>1. th \in [User -> Thread] /\ "sched" \in ProgramPc /\ "run" \in ProgramPc
      BY <1>0 DEF Typed, ThreadsTyped, ProgramPc
    <2>2. CASE seq
      BY <2>1, <2>2, <1>0, ThreadTo
    <2>3. CASE ~seq
      <3>1. th' = [th EXCEPT ![d] = At("run")]
        BY <2>3 DEF Done
      <3>2. At("run") \in Thread /\ At("run").pc = "run"
        BY <2>1 DEF At, Thread
      <3> QED
        BY <2>1, <3>1, <3>2, <1>0
    <2> QED
      BY <2>2, <2>3
  <1>7. /\ cur'[d] = e /\ bufcur'[d] = k[2]
        /\ \A c \in Device : c # d => cur'[c] = cur[c] /\ bufcur'[c] = bufcur[c]
    BY <1>0 DEF Typed, DeviceTyped
  <1>8. Typed'
    <2>1. flag' \in [Entry -> SUBSET Flag]
      BY <1>2, <1>3 DEF Flag
    <2>2. /\ cur' \in [Device -> Entry \cup {NoEntry}] /\ bufcur' \in [Device -> Track \cup {0}]
          /\ asleep' \in [Device -> SUBSET {"program", "command"}] /\ cwait' \subseteq User
      BY <1>0, <1>3 DEF Typed, DeviceTyped
    <2> QED
      BY <1>0, <1>3, <1>6, <2>1, <2>2 DEF Typed, CacheTyped, DeviceTyped, CmdTyped, ThreadsTyped,
         LookupUnchanged, cmdVars
  <1>9. Others(Of(d), NoEntry, d)
    BY <1>0, <1>4, <1>5, <1>6, <1>7, OfTracks, LookupOthers DEF LookupUnchanged
  <1>11. ProgramOK(d)'
    BY <1>0, <1>4, <1>6, <1>7 DEF ProgramOK, CurrentOK, WantedOK, ProgramPc, Searching, Filling,
       LookupUnchanged
  <1>12. ASSUME NEW x \in Entry
         PROVE  /\ EntryOK(x)'
                /\ "active" \in flag'[x] =>
                      \/ "active" \in flag[x] /\ key[x] \notin Of(d)
                      \/ key'[x] \in Of(d) /\ Holds(d, x)'
    <2>1. CASE x = e
      <3>1. EntryOK(e)'
        <4>1. Shape({"active"}) /\ Shape({"active", "updated"}) /\ ~Clean({"active", "updated"})
          BY DEF Shape, Clean
        <4>2. Shape(flag'[e]) /\ (Clean(flag'[e]) => flag'[e] = {"active"})
          BY <4>1, <1>4
        <4>3. Clean(flag'[e]) => Clean(flag[e])
          BY <4>2, <1>4 DEF Clean
        <4>4. "reading" \notin flag[e]
          BY <1>4 DEF Io
        <4> QED
          BY <4>2, <4>3, <4>4, <1>0 DEF EntryOK, LookupUnchanged
      <3> QED
        BY <3>1, <2>1, <1>0, <1>7 DEF Holds, LookupUnchanged
    <2>2. CASE x # e
      BY <2>2, <1>0, <1>5, LookupRest DEF LookupUnchanged
    <2> QED
      BY <2>1, <2>2
  <1>14. \A c \in Device : CommandOK(c)'
    BY <1>0, <1>6, LookupCommands, OfTracks DEF LookupUnchanged, cmdVars
  <1>15. FilledOK(d)' /\ ~Fills(d)'
    BY <1>4, <1>6 DEF FilledOK, Fills, Filling
  <1>16. KeysApart'
    BY DEF CacheInv, KeysApart
  <1>17. Mine(Of(d), NoEntry, d)
    BY <1>3, <1>8, <1>11, <1>12, <1>14, <1>15, <1>16, OfTracks DEF Mine, LookupUnchanged
  <1> QED
    BY <1>0, <1>7, <1>9, <1>17, Assemble DEF LookupUnchanged

\* A program takes a free entry for its track.
LEMMA LookupTakes ==
    ASSUME CacheInv, NEW d \in Device, th[d].pc \in {"run", "look"}, NEW k \in Of(d),
           NEW seq \in BOOLEAN, NEW f, f = Inactive(d),
           \A x \in Entry : key[x] # k, NEW e \in Free(f),
           key' = [key EXCEPT ![e] = k], SetFlag([f EXCEPT ![e] = {"reading", "active"}]),
           GoesOn(d, IF seq THEN "sched" ELSE "fill", k, e, seq),
           cur' = [cur EXCEPT ![d] = NoEntry], bufcur' = [bufcur EXCEPT ![d] = 0],
           UNCHANGED <<img, wrpending, asleep>>, LookupUnchanged
    PROVE  CacheInv' /\ cur'[d] = NoEntry
  <1>0. /\ Typed /\ ProgramOK(d) /\ ioactive[d] /\ d \in User
        /\ k \in Key /\ k # NoKey /\ th[d].pc \notin Filling \cup {"hitwait", "sched"}
        /\ e \in Entry /\ f[e] = {}
    BY OfTracks DEF CacheInv, ProgramOK, Filling, Free
  <1>1. /\ f \in [Entry -> SUBSET Flag] /\ SameWrites(f)
        /\ \A x \in Entry : f[x] = IF key[x] \in Of(d) THEN flag[x] \ {"active"} ELSE flag[x]
    BY <1>0, InactiveEffect, ZenonT(40)
  <1>2. flag' = [f EXCEPT ![e] = {"reading", "active"}] /\ cwait' \subseteq cwait
    BY Signalled
  <1>4. /\ flag'[e] = {"reading", "active"} /\ key'[e] = k
        /\ flag[e] = {} \/ (flag[e] = {"active"} /\ key[e] \in Of(d))
    <2>1. flag[e] \ {"active"} = {} \/ flag[e] = {}
      BY <1>0, <1>1
    <2>2. flag[e] = {} \/ flag[e] = {"active"}
      BY <2>1
    <2> QED
      BY <1>0, <1>1, <1>2, <2>2 DEF Typed, CacheTyped
  <1>5. \A x \in Entry : x # e => flag'[x] = f[x] /\ key'[x] = key[x]
    BY <1>0, <1>1, <1>2 DEF Typed, CacheTyped
  <1>6. /\ \A p \in User : p # d => th'[p] = th[p]
        /\ th' \in [User -> Thread]
        /\ th'[d].pc \in {"sched", "fill"} /\ th'[d].key = k /\ th'[d].ent = e
    <2>1. th \in [User -> Thread] /\ (IF seq THEN "sched" ELSE "fill") \in ProgramPc
      BY <1>0 DEF Typed, ThreadsTyped, ProgramPc
    <2> QED
      BY <2>1, <1>0, ThreadTo
  <1>7. /\ cur'[d] = NoEntry /\ bufcur'[d] = 0
        /\ \A c \in Device : c # d => cur'[c] = cur[c] /\ bufcur'[c] = bufcur[c]
    BY <1>0 DEF Typed, DeviceTyped
  <1>8. Typed'
    <2>1. flag' \in [Entry -> SUBSET Flag] /\ key' \in [Entry -> Key \cup {NoKey}]
      BY <1>0, <1>1, <1>2 DEF Flag, Typed, CacheTyped
    <2>2. /\ cur' \in [Device -> Entry \cup {NoEntry}] /\ bufcur' \in [Device -> Track \cup {0}]
          /\ cwait' \subseteq User
      BY <1>0, <1>2 DEF Typed, DeviceTyped
    <2> QED
      BY <1>0, <1>6, <2>1, <2>2 DEF Typed, CacheTyped, DeviceTyped, CmdTyped, ThreadsTyped,
         LookupUnchanged, cmdVars
  <1>9. Others(Of(d), NoEntry, d)
    <2>1. flag[e] \cap Io = {} /\ (key[e] \in Of(d) \/ flag[e] = {})
      BY <1>4 DEF Io
    <2> QED
      BY <1>0, <1>5, <1>6, <1>7, <2>1, OfTracks, LookupOthers DEF LookupUnchanged
  <1>10. CountsOK'
    <2>1. SameWrites(flag')
      BY <1>1, <1>4, <1>5 DEF SameWrites
    <2>2. \A x \in Entry : flag[x] \cap {"write", "writing"} # {} => key'[x] = key[x]
      BY <1>4, <1>5
    <2> QED
      BY <2>1, <2>2, CountsSame DEF LookupUnchanged
  <1>11. ProgramOK(d)'
    BY <1>0, <1>4, <1>6, <1>7 DEF ProgramOK, CurrentOK, WantedOK, ProgramPc, Searching, Filling,
       LookupUnchanged
  <1>12. ASSUME NEW x \in Entry
         PROVE  /\ EntryOK(x)'
                /\ "active" \in flag'[x] =>
                      \/ "active" \in flag[x] /\ key[x] \notin Of(d)
                      \/ key'[x] \in Of(d) /\ Holds(d, x)'
    <2>1. CASE x = e
      <3>1. EntryOK(e)'
        BY <1>0, <1>4 DEF EntryOK, Shape, Clean
      <3> QED
        BY <3>1, <2>1, <1>0, <1>4, <1>6 DEF Holds, LookupUnchanged, Filling
    <2>2. CASE x # e
      BY <2>2, <1>0, <1>5, LookupRest DEF LookupUnchanged
    <2> QED
      BY <2>1, <2>2
  <1>14. \A c \in Device : CommandOK(c)'
    BY <1>0, <1>4, <1>5, <1>6, LookupCommands, OfTracks DEF LookupUnchanged, cmdVars
  <1>15. FilledOK(d)' /\ "reading" \notin flag[th'[d].ent]
    BY <1>4, <1>6 DEF FilledOK
  <1>16. KeysApart'
    BY <1>4, <1>5 DEF CacheInv, KeysApart
  <1>17. Mine(Of(d), NoEntry, d)
    BY <1>8, <1>10, <1>11, <1>12, <1>14, <1>15, <1>16, OfTracks DEF Mine, LookupUnchanged
  <1> QED
    BY <1>7, <1>9, <1>17, Assemble

\* A program finds neither its track nor a free entry, or gives up its track.
LEMMA LookupMisses ==
    ASSUME CacheInv, NEW d \in Device, th[d].pc \in {"run", "look"}, NEW f, f = Inactive(d),
           SetFlag(f), th' \in [User -> Thread], \A p \in User : p # d => th'[p] = th[p],
           \/ th'[d].pc = "run"
           \/ th'[d].pc = "flushmiss" /\ th'[d].key \in Of(d),
           cur' = [cur EXCEPT ![d] = NoEntry], bufcur' = [bufcur EXCEPT ![d] = 0],
           UNCHANGED <<key, img, wrpending, asleep>>, LookupUnchanged
    PROVE  CacheInv' /\ cur'[d] = NoEntry
  <1>0. /\ Typed /\ ProgramOK(d) /\ ioactive[d] /\ d \in User
        /\ th[d].pc \notin Filling \cup {"hitwait", "sched"}
    BY OfTracks DEF CacheInv, ProgramOK, Filling
  <1>1. /\ f \in [Entry -> SUBSET Flag] /\ SameWrites(f)
        /\ \A x \in Entry : f[x] = IF key[x] \in Of(d) THEN flag[x] \ {"active"} ELSE flag[x]
    BY <1>0, InactiveEffect
  <1>2. flag' = f /\ cwait' \subseteq cwait
    BY Signalled
  <1>7. /\ cur'[d] = NoEntry /\ bufcur'[d] = 0
        /\ \A c \in Device : c # d => cur'[c] = cur[c] /\ bufcur'[c] = bufcur[c]
    BY <1>0 DEF Typed, DeviceTyped
  <1>8. Typed'
    <2>2. /\ cur' \in [Device -> Entry \cup {NoEntry}] /\ bufcur' \in [Device -> Track \cup {0}]
          /\ cwait' \subseteq User
      BY <1>0, <1>2 DEF Typed, DeviceTyped
    <2> QED
      BY <1>0, <1>1, <1>2, <2>2 DEF Typed, CacheTyped, DeviceTyped, CmdTyped, ThreadsTyped,
         LookupUnchanged, cmdVars
  <1>9. Others(Of(d), NoEntry, d)
    <2>1. \A x \in Entry : InIo(x) => flag[x] \cap Io # {}
      BY FillsEntry DEF InIo, Io
    <2>2. Frame(Of(d), NoEntry)
      BY <1>1, <1>2, <2>1, OfTracks DEF Frame, EntrySame, Io, LookupUnchanged
    <2>3. \A p \in User : ~(Fills(p) /\ th[p].ent = NoEntry)
      BY FillsEntry, OfTracks
    <2> QED
      BY <1>7, <2>2, <2>3, OfTracks DEF Others, ProgSame, ThreadSame, ReaderSame, LookupUnchanged
  <1>10. CountsOK'
    BY <1>1, <1>2, CountsSame DEF LookupUnchanged
  <1>11. ProgramOK(d)'
    BY <1>0, <1>7 DEF ProgramOK, CurrentOK, WantedOK, ProgramPc, Searching, Filling,
       LookupUnchanged
  <1>12. ASSUME NEW x \in Entry
         PROVE  EntryOK(x)' /\ ("active" \in flag'[x] => "active" \in flag[x] /\ key[x] \notin Of(d))
    BY <1>0, <1>2, LookupRest DEF LookupUnchanged
  <1>14. \A c \in Device : CommandOK(c)'
    BY <1>0, LookupCommands, OfTracks DEF LookupUnchanged, cmdVars
  <1>15. FilledOK(d)' /\ ~Fills(d)'
    BY DEF FilledOK, Fills, Filling
  <1>16. KeysApart'
    BY DEF CacheInv, KeysApart
  <1>17. Mine(Of(d), NoEntry, d)
    BY <1>8, <1>10, <1>11, <1>12, <1>14, <1>15, <1>16, OfTracks DEF Mine, LookupUnchanged
  <1> QED
    BY <1>7, <1>9, <1>17, Assemble

LEMMA LookupProgram ==
    ASSUME CacheInv, NEW d \in Device, th[d].pc \in {"run", "look"}, NEW k \in Of(d),
           NEW seq \in BOOLEAN, NEW f, f = Inactive(d), Lookup(d, k, f, seq), LookupUnchanged
    PROVE  CacheInv' /\ (cur'[d] = NoEntry \/ bufcur'[d] = k[2])
  <1>0. d \notin Reader /\ d \in User
    BY OfTracks
  <1>1. CASE \E e \in Entry :
                /\ key[e] = k /\ IoBusy(f[e])
                /\ SetFlag(On(f, e, {"active", "iowait"})) /\ GoesOn(d, "hitwait", k, e, seq)
                /\ asleep' = [asleep EXCEPT ![d] = @ \cup {"program"}]
                /\ cur' = [cur EXCEPT ![d] = NoEntry] /\ bufcur' = [bufcur EXCEPT ![d] = 0]
                /\ UNCHANGED <<wrpending, key, img>>
    <2>1. CacheInv'
      BY <1>1, LookupWaits
    <2>2. cur'[d] = NoEntry
      BY <1>1 DEF CacheInv, Typed, DeviceTyped
    <2> QED
      BY <2>1, <2>2
  <1>2. CASE \E e \in Entry :
                /\ key[e] = k /\ ~IoBusy(f[e]) /\ Unpend(d, e, On(f, e, {"active"}))
                /\ cur' = [cur EXCEPT ![d] = e] /\ bufcur' = [bufcur EXCEPT ![d] = k[2]]
                /\ IF seq THEN GoesOn(d, "sched", k, e, seq) ELSE Done(d)
                /\ UNCHANGED <<key, img>>
    BY <1>2, LookupFinds
  <1>3. CASE /\ \A e \in Entry : key[e] # k
             /\ \E e \in Free(f) :
                  /\ key' = [key EXCEPT ![e] = k] /\ SetFlag([f EXCEPT ![e] = {"reading", "active"}])
                  /\ GoesOn(d, IF seq THEN "sched" ELSE "fill", k, e, seq)
             /\ cur' = [cur EXCEPT ![d] = NoEntry] /\ bufcur' = [bufcur EXCEPT ![d] = 0]
             /\ UNCHANGED <<img, wrpending, asleep>>
    BY <1>3, LookupTakes
  <1>4. CASE /\ SetFlag(f)
             /\ th' = [th EXCEPT ![d].pc = "flushmiss", ![d].key = k, ![d].seq = seq, ![d].todo = chain]
             /\ cur' = [cur EXCEPT ![d] = NoEntry] /\ bufcur' = [bufcur EXCEPT ![d] = 0]
             /\ UNCHANGED <<key, img, wrpending, asleep>>
    <2>1. /\ th \in [User -> Thread] /\ th[d] \in Thread /\ k \in Key /\ chain \in SUBSET Device
          /\ "flushmiss" \in ProgramPc
      BY <1>0, OfTracks DEF CacheInv, Typed, ThreadsTyped, CmdTyped, ProgramPc
    <2>2. PICK r : r = [th[d] EXCEPT !.pc = "flushmiss", !.key = k, !.seq = seq, !.todo = chain]
      OBVIOUS
    <2>3. th' = [th EXCEPT ![d] = r]
      BY <1>4, <2>1, <2>2
    <2>4. r \in Thread
      BY <2>1, <2>2 DEF Thread
    <2>5. r.pc = "flushmiss" /\ r.key = k
      BY <2>1, <2>2 DEF Thread
    <2>6. th' \in [User -> Thread] /\ th'[d] = r /\ \A p \in User : p # d => th'[p] = th[p]
      BY <1>0, <2>1, <2>3, <2>4
    <2> QED
      BY <1>4, <2>5, <2>6, LookupMisses
  <1> QED
    BY <1>0, <1>1, <1>2, <1>3, <1>4 DEF Lookup, GoesOn

LEMMA ReadInv ==
    ASSUME CacheInv, NEW d \in Device, NEW t \in Track, Read(d, t)
    PROVE  CacheInv'
  <1>1. /\ th[d].pc = "run" /\ LookupUnchanged /\ <<d, t>> \in Of(d)
        /\ \E s \in BOOLEAN : Lookup(d, <<d, t>>, Inactive(d), s)
    BY OfTracks DEF Read
  <1> QED
    BY <1>1, LookupProgram

LEMMA ReadRetryInv ==
    ASSUME CacheInv, NEW d \in Device, NEW t \in Track, ReadRetry(d, t)
    PROVE  CacheInv'
  <1>1. th \in [User -> Thread]
    BY DEF CacheInv, Typed, ThreadsTyped
  <1> QED
    BY <1>1, LookupMisses DEF ReadRetry

LEMMA LookInv ==
    ASSUME CacheInv, NEW d \in Device, Look(d)
    PROVE  CacheInv'
  <1>1. /\ th[d].pc = "look" /\ LookupUnchanged /\ Lookup(d, th[d].key, flag, th[d].seq)
    BY DEF Look
  <1>2. th[d].key \in Of(d) /\ cur[d] = NoEntry
    BY <1>1 DEF CacheInv, ProgramOK, WantedOK, CurrentOK, Searching
  <1>3. th[d].seq \in BOOLEAN
    BY OfTracks DEF CacheInv, Typed, ThreadsTyped, Thread
  <1>4. flag = Inactive(d)
    BY <1>2 DEF Inactive
  <1> QED
    BY <1>1, <1>2, <1>3, <1>4, LookupProgram
-----------------------------------------------------------------------------
(* Steps of one thread that leave the entries alone.                         *)

LEMMA GotoTo ==
    ASSUME th \in [User -> Thread], NEW p \in User, NEW pc \in ProgramPc \cup ReaderPc, Goto(p, pc)
    PROVE  /\ th' \in [User -> Thread] /\ \A q \in User : q # p => th'[q] = th[q]
           /\ th'[p].pc = pc /\ th'[p].key = th[p].key /\ th'[p].ent = th[p].ent
           /\ (th'[p].seq <=> th[p].seq)
  <1>1. th[p] \in Thread
    OBVIOUS
  <1>2. PICK r : r = [th[p] EXCEPT !.pc = pc]
    OBVIOUS
  <1>3. r \in Thread
    BY <1>1, <1>2 DEF Thread
  <1>4. r.pc = pc /\ r.key = th[p].key /\ r.ent = th[p].ent
    BY <1>1, <1>2 DEF Thread
  <1>5. r.seq <=> th[p].seq
    BY <1>1, <1>2 DEF Thread
  <1>6. th' = [th EXCEPT ![p] = r]
    BY <1>2 DEF Goto
  <1>7. th'[p] = r /\ th' \in [User -> Thread] /\ \A q \in User : q # p => th'[q] = th[q]
    BY <1>3, <1>6
  <1> QED
    BY <1>4, <1>5, <1>7

LEMMA DoneTo ==
    ASSUME th \in [User -> Thread], NEW p \in User, Done(p)
    PROVE  /\ th' \in [User -> Thread] /\ \A q \in User : q # p => th'[q] = th[q]
           /\ th'[p].pc = (IF p \in Device THEN "run" ELSE "loop") /\ ~th'[p].seq
  <1>1. PICK r : r = At(IF p \in Device THEN "run" ELSE "loop")
    OBVIOUS
  <1>2. r \in Thread
    BY <1>1 DEF At, Thread, ProgramPc, ReaderPc
  <1>3. r.pc = (IF p \in Device THEN "run" ELSE "loop") /\ ~r.seq
    BY <1>1 DEF At
  <1>4. th' = [th EXCEPT ![p] = r]
    BY <1>1 DEF Done
  <1>5. th'[p] = r /\ th' \in [User -> Thread] /\ \A q \in User : q # p => th'[q] = th[q]
    BY <1>2, <1>4
  <1> QED
    BY <1>3, <1>5

\* Thread p does something that is not about an entry.
OnlyThread(p) ==
  /\ UNCHANGED <<key, flag, img, file, wrpending, wrqueued, wr, gc, cmdVars, devVars>>
  /\ th' \in [User -> Thread] /\ raq' \subseteq Key
  /\ asleep' \in [Device -> SUBSET {"program", "command"}] /\ cwait' \subseteq User
  /\ \A c \in Device : c # p => th'[c] = th[c]
  /\ \A r \in Reader : r # p => ReaderSame(r)

LEMMA ThreadStep ==
    ASSUME CacheInv, NEW p \in User, OnlyThread(p),
           p \in Device => ProgramOK(p)', p \in Reader => ReaderOK(p)', FilledOK(p)',
           Fills(p)' => Fills(p) /\ th'[p].ent = th[p].ent,
           p \in Device => \A e \in Entry : Holds(p, e) => Holds(p, e)',
           \A d \in Device : /\ Enters(d)
                             /\ Reading(d)' \subseteq Reading(d) \/ (~merging[d] /\ ~stopping[d])
    PROVE  CacheInv'
  <1> DEFINE K == IF p \in Device THEN Of(p) ELSE {}
  <1> USE DEF OnlyThread
  <1>1. Others(K, NoEntry, p)
    <2>1. Frame(K, NoEntry)
      BY OfTracks DEF Frame, EntrySame
    <2>2. \A q \in User : ~(Fills(q) /\ th[q].ent = NoEntry)
      BY FillsEntry, OfTracks
    <2>3. \A c \in Device : c # p => \A k \in Of(c) : k \notin K
      BY OfTracks
    <2> HIDE DEF K
    <2>4. p \in Device => Of(p) \subseteq K
      BY DEF K
    <2> QED
      BY <2>1, <2>2, <2>3, <2>4 DEF Others, ProgSame, ThreadSame, devVars
  <1>2. Typed'
    BY DEF CacheInv, Typed, CacheTyped, DeviceTyped, CmdTyped, ThreadsTyped, devVars, cmdVars
  <1>3. CountsOK'
    BY CountsSame DEF SameWrites
  <1>4. KeysApart'
    BY DEF CacheInv, KeysApart
  <1>5. \A e \in Entry : EntrySame(e)
    BY DEF EntrySame
  <1>6. ASSUME NEW e \in Entry, "active" \in flag'[e]
        PROVE  \/ "active" \in flag[e] /\ key[e] \notin K
               \/ \E d \in Device : key'[e] \in Of(d) /\ Holds(d, e)'
    <2>1. CASE p \in Device /\ key[e] \in Of(p)
      <3>1. PICK c \in Device : key[e] \in Of(c) /\ Holds(c, e)
        BY <1>6 DEF CacheInv, ActiveHeld
      <3>2. c = p
        BY <2>1, <3>1, OfTracks
      <3> QED
        BY <3>1, <3>2
    <2> QED
      BY <2>1, <1>6
  <1>7. \A d \in Device : CommandOK(d)'
    BY CommandsStay DEF cmdVars, devVars
  <1> HIDE DEF K
  <1>8. Mine(K, NoEntry, p)
    BY <1>2, <1>3, <1>4, <1>5, <1>6, <1>7, OfTracks DEF Mine
  <1> QED
    BY <1>1, <1>8, Assemble

\* The same for a program that keeps what it has, and for a readahead.
LEMMA ProgramMoves ==
    ASSUME CacheInv, NEW d \in Device, OnlyThread(d), ioactive[d],
           ProgramOK(d)', FilledOK(d)', Fills(d)' => Fills(d) /\ th'[d].ent = th[d].ent,
           \A e \in Entry : cur[d] # e /\ Holds(d, e) => Holds(d, e)'
    PROVE  CacheInv'
  <1>1. \A e \in Entry : Holds(d, e) => Holds(d, e)'
    BY DEF Holds, OnlyThread, devVars
  <1>2. \A c \in Device : Enters(c)
    BY DEF OnlyThread, devVars, ProgramOK, Enters
  <1>3. \A c \in Device : Reading(c)' \subseteq Reading(c)
    BY OfTracks, ReadingStays DEF OnlyThread
  <1> QED
    BY <1>1, <1>2, <1>3, ThreadStep, OfTracks DEF OnlyThread

LEMMA ReaderMoves ==
    ASSUME CacheInv, NEW r \in Reader, OnlyThread(r), ReaderOK(r)', FilledOK(r)', ~Fills(r)',
           \A d \in Device : Reading(d)' \subseteq Reading(d) \/ (~merging[d] /\ ~stopping[d])
    PROVE  CacheInv'
  <1>1. \A d \in Device : Enters(d)
    BY OfTracks DEF OnlyThread, Enters
  <1> QED
    BY <1>1, ThreadStep, OfTracks

\* A thread that turns from one wait to another, with the same track in mind.
Waits == {"flushmiss", "cachewait", "cachesleep", "look"}
Rests == {"read", "flushend", "run"}
LEMMA ProgramWaits ==
    ASSUME CacheInv, NEW d \in Device, OnlyThread(d),
           \/ /\ th[d].pc \in Waits /\ th'[d].pc \in Waits /\ th'[d].key = th[d].key
           \/ th[d].pc \in Rests /\ th'[d].pc \in Rests
    PROVE  CacheInv'
  <1>1. ProgramOK(d)
    BY DEF CacheInv
  <1>2. ProgramOK(d)'
    BY <1>1 DEF ProgramOK, CurrentOK, WantedOK, OnlyThread, devVars, ProgramPc, Searching, Filling,
       Waits, Rests
  <1>3. FilledOK(d)' /\ ~Fills(d)'
    BY DEF FilledOK, Fills, Filling, Waits, Rests
  <1>4. ioactive[d]
    BY <1>1 DEF ProgramOK, Waits, Rests
  <1>5. \A e \in Entry : cur[d] # e => ~Holds(d, e)
    BY DEF Holds, Waits, Rests, Filling
  <1> QED
    BY <1>2, <1>3, <1>4, <1>5, ProgramMoves

ReadsOn == {"look", "fill", "filled", "read", "flushmiss", "flushend", "cachewait", "cachesleep"}
LEMMA ReaderWaits ==
    ASSUME CacheInv, NEW r \in Reader, OnlyThread(r), ~th'[r].seq,
           \/ /\ th[r].pc \in Waits /\ th'[r].pc \in Waits /\ th'[r].key = th[r].key
           \/ th[r].pc \in ReadsOn /\ th'[r].pc = "flushend" /\ th'[r].key = th[r].key
           \/ th'[r].pc \in {"loop", "wait"}
    PROVE  CacheInv'
  <1>1. ReaderOK(r)
    BY DEF CacheInv
  <1>2. ReaderOK(r)'
    BY <1>1 DEF ReaderOK, ReaderPc, Searching, Filling, Waits
  <1>3. FilledOK(r)' /\ ~Fills(r)'
    BY DEF FilledOK, Fills, Filling, Waits
  <1>4. \A q \in Reader : \/ ReaderSame(q)
                          \/ th'[q].pc \in {"loop", "wait"}
                          \/ th[q].pc \in ReadsOn /\ th'[q].key = th[q].key
    BY DEF OnlyThread, Waits, ReadsOn
  <1>5. \A d \in Device : Reading(d)' \subseteq Reading(d)
    BY <1>4, ReadingStays DEF ReadsOn
  <1> QED
    BY <1>2, <1>3, <1>5, ReaderMoves

\* A step that changes th[p] only.
LEMMA OnlyThis ==
    ASSUME CacheInv, NEW p \in User, th' \in [User -> Thread], \A q \in User : q # p => th'[q] = th[q],
           UNCHANGED <<cacheVars, file, devVars, wrpending, wrqueued, cmdVars, asleep, raq, wr, gc>>,
           cwait' \subseteq User
    PROVE  OnlyThread(p)
  <1>1. Typed
    BY DEF CacheInv
  <1> QED
    BY <1>1, OfTracks DEF OnlyThread, Typed, DeviceTyped, ThreadsTyped, ReaderSame, ThreadSame, cacheVars

LEMMA FlagsTo ==
    ASSUME th \in [User -> Thread], NEW p \in User, NEW pc \in ProgramPc \cup ReaderPc,
           NEW T \in SUBSET Device, th' = [th EXCEPT ![p].pc = pc, ![p].todo = T]
    PROVE  /\ th' \in [User -> Thread] /\ \A q \in User : q # p => th'[q] = th[q]
           /\ th'[p].pc = pc /\ th'[p].key = th[p].key /\ (th'[p].seq <=> th[p].seq)
  <1>1. th[p] \in Thread
    OBVIOUS
  <1>2. PICK r : r = [th[p] EXCEPT !.pc = pc, !.todo = T]
    OBVIOUS
  <1>3. r \in Thread
    BY <1>1, <1>2 DEF Thread
  <1>4. r.pc = pc /\ r.key = th[p].key
    BY <1>1, <1>2 DEF Thread
  <1>5. r.seq <=> th[p].seq
    BY <1>1, <1>2 DEF Thread
  <1>6. th' = [th EXCEPT ![p] = r]
    BY <1>1, <1>2
  <1>7. th'[p] = r /\ th' \in [User -> Thread] /\ \A q \in User : q # p => th'[q] = th[q]
    BY <1>3, <1>6
  <1> QED
    BY <1>4, <1>5, <1>7

LEMMA ReadDoneInv == ASSUME CacheInv, NEW p \in User, ReadDone(p) PROVE CacheInv'
  <1>0. th \in [User -> Thread] /\ chain \in SUBSET Device /\ "flushend" \in ProgramPc /\ cwait \subseteq User
    BY DEF CacheInv, Typed, ThreadsTyped, CmdTyped, DeviceTyped, ProgramPc
  <1>1. \/ th' = [th EXCEPT ![p].pc = "flushend", ![p].todo = chain]
        \/ Done(p)
    BY DEF ReadDone
  <1>2. /\ th' \in [User -> Thread] /\ \A q \in User : q # p => th'[q] = th[q]
        /\ \/ th'[p].pc = "flushend" /\ th'[p].key = th[p].key /\ (th'[p].seq <=> th[p].seq)
           \/ th'[p].pc = (IF p \in Device THEN "run" ELSE "loop") /\ ~th'[p].seq
    <2>1. CASE Done(p)
      BY <1>0, <2>1, DoneTo
    <2>2. CASE th' = [th EXCEPT ![p].pc = "flushend", ![p].todo = chain]
      BY <1>0, <2>2, FlagsTo
    <2> QED
      BY <1>1, <2>1, <2>2
  <1>3. OnlyThread(p) /\ th[p].pc = "read"
    BY <1>0, <1>2, OnlyThis DEF ReadDone
  <1>4. CASE p \in Device
    BY <1>2, <1>3, <1>4, ProgramWaits DEF Rests
  <1>5. CASE p \in Reader
    <2>1. ~th[p].seq /\ p \notin Device
      BY <1>5, OfTracks DEF CacheInv, ReaderOK
    <2> QED
      BY <1>2, <1>3, <1>5, <2>1, ReaderWaits DEF ReadsOn
  <1> QED
    BY <1>4, <1>5, OfTracks

LEMMA FlushAllDoneInv == ASSUME CacheInv, NEW p \in User, FlushAllDone(p) PROVE CacheInv'
  <1>0. th \in [User -> Thread] /\ "cachewait" \in ProgramPc /\ cwait \subseteq User
    BY DEF CacheInv, Typed, ThreadsTyped, DeviceTyped, ProgramPc
  <1>1. th[p].pc \in {"flushmiss", "flushend"}
        /\ IF th[p].pc = "flushmiss" THEN Goto(p, "cachewait") ELSE Done(p)
    BY DEF FlushAllDone
  <1>2. /\ th' \in [User -> Thread] /\ \A q \in User : q # p => th'[q] = th[q]
        /\ \/ th[p].pc = "flushmiss" /\ th'[p].pc = "cachewait" /\ th'[p].key = th[p].key
              /\ (th'[p].seq <=> th[p].seq)
           \/ /\ th[p].pc = "flushend"
              /\ th'[p].pc = (IF p \in Device THEN "run" ELSE "loop") /\ ~th'[p].seq
    <2>1. CASE th[p].pc = "flushmiss"
      BY <1>0, <1>1, <2>1, GotoTo
    <2>2. CASE th[p].pc = "flushend"
      BY <1>0, <1>1, <2>2, DoneTo
    <2> QED
      BY <1>1, <2>1, <2>2
  <1>3. OnlyThread(p)
    BY <1>0, <1>2, OnlyThis DEF FlushAllDone
  <1>4. CASE p \in Device
    BY <1>2, <1>3, <1>4, ProgramWaits DEF Rests, Waits
  <1>5. CASE p \in Reader
    <2>1. ~th[p].seq /\ p \notin Device
      BY <1>5, OfTracks DEF CacheInv, ReaderOK
    <2> QED
      BY <1>2, <1>3, <1>5, <2>1, ReaderWaits DEF ReadsOn, Waits
  <1> QED
    BY <1>4, <1>5, OfTracks

LEMMA CacheWaitInv == ASSUME CacheInv, NEW p \in User, CacheWait(p) \/ CacheWoken(p) PROVE CacheInv'
  <1>0. th \in [User -> Thread] /\ "look" \in ProgramPc /\ "cachesleep" \in ProgramPc /\ cwait \subseteq User
    BY DEF CacheInv, Typed, ThreadsTyped, DeviceTyped, ProgramPc
  <1>1. /\ Goto(p, "look") \/ Goto(p, "cachesleep")
        /\ th[p].pc \in {"cachewait", "cachesleep"} /\ cwait' \subseteq User
    BY <1>0 DEF CacheWait, CacheWoken
  <1>2. /\ th' \in [User -> Thread] /\ \A q \in User : q # p => th'[q] = th[q]
        /\ th[p].pc \in Waits /\ th'[p].pc \in Waits
        /\ th'[p].key = th[p].key /\ (th'[p].seq <=> th[p].seq)
    BY <1>0, <1>1, GotoTo DEF Waits
  <1>3. OnlyThread(p)
    BY <1>1, <1>2, OnlyThis DEF CacheWait, CacheWoken
  <1>4. CASE p \in Device
    BY <1>2, <1>3, <1>4, ProgramWaits
  <1>5. CASE p \in Reader
    <2>1. ~th[p].seq
      BY <1>5 DEF CacheInv, ReaderOK
    <2> QED
      BY <1>2, <1>3, <1>5, <2>1, ReaderWaits
  <1> QED
    BY <1>4, <1>5, OfTracks

LEMMA ReadaheadInv == ASSUME CacheInv, NEW d \in Device, Readahead(d) PROVE CacheInv'
  <1>0. /\ th \in [User -> Thread] /\ "fill" \in ProgramPc /\ "run" \in ProgramPc
        /\ raq \subseteq Key /\ Typed /\ d \in User /\ ProgramOK(d)
    BY OfTracks DEF CacheInv, Typed, ThreadsTyped, ProgramPc
  <1>1. th[d].pc = "sched" /\ raq' \subseteq Key
    <2>1. \A i \in 1 .. RaDepth : <<d, th[d].key[2] + i>>[2] \in Track => <<d, th[d].key[2] + i>> \in Key
      BY DEF Key
    <2> QED
      BY <2>1, <1>0 DEF Readahead
  <1>2. PICK t1 : /\ t1 = IF "reading" \in flag[th[d].ent] THEN [th EXCEPT ![d].pc = "fill"]
                          ELSE [th EXCEPT ![d] = At("run")]
                  /\ th' \in IF raq' = {} THEN {t1} ELSE Scheduled(t1, Reader)
    BY DEF Readahead
  <1>3. /\ t1 \in [User -> Thread] /\ \A q \in User : q # d => t1[q] = th[q]
        /\ \/ /\ "reading" \in flag[th[d].ent] /\ t1[d].pc = "fill"
              /\ t1[d].key = th[d].key /\ t1[d].ent = th[d].ent
           \/ "reading" \notin flag[th[d].ent] /\ t1[d].pc = "run"
    <2>1. th[d] \in Thread
      BY <1>0
    <2>2. CASE "reading" \in flag[th[d].ent]
      <3>1. PICK r : r = [th[d] EXCEPT !.pc = "fill"]
        OBVIOUS
      <3>2. r \in Thread /\ r.pc = "fill" /\ r.key = th[d].key /\ r.ent = th[d].ent
        BY <2>1, <3>1, <1>0 DEF Thread
      <3>3. t1 = [th EXCEPT ![d] = r]
        BY <1>2, <2>2, <3>1
      <3> QED
        BY <1>0, <2>2, <3>2, <3>3
    <2>3. CASE "reading" \notin flag[th[d].ent]
      <3>1. At("run") \in Thread /\ At("run").pc = "run"
        BY <1>0 DEF At, Thread
      <3> QED
        BY <1>0, <1>2, <2>3, <3>1
    <2> QED
      BY <2>2, <2>3
  <1>4. /\ th' \in [User -> Thread]
        /\ \A q \in User : th'[q] = t1[q] \/ (q \in Reader /\ ReaderSame(q))
    <2>1. CASE raq' = {}
      BY <1>2, <1>3, <2>1
    <2>2. CASE raq' # {}
      <3>1. th' \in Scheduled(t1, Reader)
        BY <1>2, <2>2
      <3> QED
        BY <1>3, <3>1, ScheduledReader, OfTracks DEF ReaderSame, ThreadSame
    <2> QED
      BY <2>1, <2>2
  <1>5. OnlyThread(d)
    BY <1>0, <1>1, <1>3, <1>4, OfTracks
    DEF OnlyThread, Readahead, Typed, DeviceTyped, ThreadsTyped, ReaderSame, ThreadSame, cacheVars
  <1>6. \/ /\ "reading" \in flag[th[d].ent] /\ th'[d].pc = "fill"
           /\ th'[d].key = th[d].key /\ th'[d].ent = th[d].ent
        \/ "reading" \notin flag[th[d].ent] /\ th'[d].pc = "run"
    BY <1>0, <1>3, <1>4, OfTracks
  <1>7. /\ ioactive[d] /\ th[d].ent \in Entry /\ th[d].key \in Of(d) /\ key[th[d].ent] = th[d].key
        /\ \/ cur[d] = NoEntry /\ flag[th[d].ent] = {"reading", "active"}
           \/ cur[d] = th[d].ent /\ flag[th[d].ent] \subseteq {"active", "updated"}
    BY <1>0, <1>1, OfTracks DEF ProgramOK, WantedOK, CurrentOK
  <1>7a. /\ cur' = cur /\ bufcur' = bufcur /\ ioactive' = ioactive /\ key' = key /\ flag' = flag
    BY <1>5 DEF OnlyThread, devVars
  <1>7b. \/ /\ cur[d] = NoEntry /\ flag[th[d].ent] = {"reading", "active"} /\ th'[d].pc = "fill"
            /\ th'[d].key = th[d].key /\ th'[d].ent = th[d].ent
         \/ cur[d] = th[d].ent /\ th'[d].pc = "run"
    BY <1>6, <1>7
  <1>8. ProgramOK(d)'
    <2>1. CurrentOK(d)'
      BY <1>0, <1>7a, <1>7b, OfTracks DEF ProgramOK, CurrentOK, Searching, Filling
    <2>2. WantedOK(d)'
      BY <1>7, <1>7a, <1>7b DEF WantedOK, Searching, Filling
    <2> QED
      BY <2>1, <2>2, <1>0, <1>7, <1>7a, <1>7b DEF ProgramOK
  <1>9. FilledOK(d)' /\ (Fills(d)' => Fills(d) /\ th'[d].ent = th[d].ent)
    BY <1>1, <1>6 DEF FilledOK, Fills, Filling
  <1>10. ASSUME NEW e \in Entry, cur[d] # e, Holds(d, e) PROVE Holds(d, e)'
    BY <1>1, <1>7a, <1>7b, <1>10 DEF Holds, Filling
  <1> QED
    BY <1>5, <1>7, <1>8, <1>9, <1>10, ProgramMoves
-----------------------------------------------------------------------------
(* The readahead threads.                                                    *)

LEMMA ReaderIdleInv == ASSUME CacheInv, NEW r \in Reader, ReaderIdle(r) PROVE CacheInv'
  <1>0. /\ th \in [User -> Thread] /\ "wait" \in ReaderPc /\ cwait \subseteq User
        /\ r \in User /\ ~th[r].seq
    BY OfTracks DEF CacheInv, Typed, ThreadsTyped, DeviceTyped, ReaderPc, ReaderOK
  <1>1. /\ th' \in [User -> Thread] /\ \A q \in User : q # r => th'[q] = th[q]
        /\ th'[r].pc = "wait" /\ (th'[r].seq <=> th[r].seq)
    BY <1>0, GotoTo DEF ReaderIdle
  <1>2. OnlyThread(r)
    BY <1>0, <1>1, OnlyThis DEF ReaderIdle
  <1> QED
    BY <1>0, <1>1, <1>2, ReaderWaits

LEMMA ReaderTakeInv == ASSUME CacheInv, NEW r \in Reader, ReaderTake(r) PROVE CacheInv'
  <1>0. /\ th \in [User -> Thread] /\ "loop" \in ReaderPc /\ "look" \in ReaderPc
        /\ r \in User /\ ~th[r].seq /\ raq \subseteq Key /\ Typed
    BY OfTracks DEF CacheInv, Typed, ThreadsTyped, ReaderPc, ReaderOK
  <1>1. /\ th[r].pc \in {"new", "loop", "woken"}
        /\ UNCHANGED <<cacheVars, file, devVars, wrpending, wrqueued, cmdVars, asleep, cwait, wr, gc>>
    BY DEF ReaderTake
  <1>2. CASE Goto(r, "loop") /\ UNCHANGED raq
    <2>1. /\ th' \in [User -> Thread] /\ \A q \in User : q # r => th'[q] = th[q]
          /\ th'[r].pc = "loop" /\ (th'[r].seq <=> th[r].seq)
      BY <1>0, <1>2, GotoTo
    <2>2. OnlyThread(r)
      BY <1>0, <1>1, <1>2, <2>1, OnlyThis DEF Typed, DeviceTyped
    <2> QED
      BY <1>0, <2>1, <2>2, ReaderWaits
  <1>3. ASSUME NEW k \in raq, NEW t1, raq' = raq \ {k},
               \/ t1 = [th EXCEPT ![r] = At("loop")]
               \/ /\ t1 = [th EXCEPT ![r] = [At("look") EXCEPT !.key = k]]
                  /\ ~merging[k[1]] /\ ~stopping[k[1]],
               th' \in Scheduled(t1, Reader) \cup (IF raq' = {} THEN {} ELSE {t1})
        PROVE  CacheInv'
    <2>0. k \in Key
      BY <1>0, <1>3
    <2>1. /\ t1 \in [User -> Thread] /\ \A q \in User : q # r => t1[q] = th[q]
          /\ ~t1[r].seq
          /\ \/ t1[r].pc = "loop"
             \/ t1[r].pc = "look" /\ t1[r].key = k /\ ~merging[k[1]] /\ ~stopping[k[1]]
      <3>1. /\ At("loop") \in Thread /\ At("loop").pc = "loop" /\ ~At("loop").seq
            /\ At("look") \in Thread /\ At("look").pc = "look" /\ ~At("look").seq
        BY <1>0 DEF At, Thread
      <3>2. PICK x : x = [At("look") EXCEPT !.key = k]
        OBVIOUS
      <3>3. x \in Thread
        BY <2>0, <3>1, <3>2 DEF Thread
      <3>4. x.pc = "look" /\ x.key = k
        BY <3>1, <3>2 DEF Thread
      <3>5. ~x.seq
        BY <3>1, <3>2 DEF Thread
      <3>6. CASE t1 = [th EXCEPT ![r] = At("loop")]
        BY <1>0, <3>1, <3>6
      <3>7. CASE t1 = [th EXCEPT ![r] = x] /\ ~merging[k[1]] /\ ~stopping[k[1]]
        BY <1>0, <3>3, <3>4, <3>5, <3>7
      <3> QED
        BY <1>3, <3>2, <3>6, <3>7
    <2>2. /\ th' \in [User -> Thread] /\ th'[r] = t1[r]
          /\ \A q \in User : q # r => th'[q] = th[q] \/ (q \in Reader /\ ReaderSame(q))
      <3>1. CASE th' = t1
        BY <2>1, <3>1
      <3>2. CASE th' \in Scheduled(t1, Reader)
        BY <1>0, <2>1, <3>2, ScheduledReader DEF ReaderSame, ThreadSame
      <3> QED
        BY <1>3, <3>1, <3>2
    <2>3. OnlyThread(r)
      BY <1>0, <1>1, <1>3, <2>2, OfTracks
      DEF OnlyThread, Typed, DeviceTyped, ThreadsTyped, ReaderSame, ThreadSame, cacheVars
    <2>4. ReaderOK(r)' /\ FilledOK(r)' /\ ~Fills(r)'
      BY <2>0, <2>1, <2>2 DEF ReaderOK, ReaderPc, Searching, Filling, FilledOK, Fills
    <2>5. \A d \in Device : Reading(d)' \subseteq Reading(d) \/ (~merging[d] /\ ~stopping[d])
      <3>1. \A q \in Reader : q # r => ReaderSame(q)
        BY <2>3 DEF OnlyThread
      <3> QED
        BY <2>1, <2>2, <3>1 DEF Reading, ReaderSame, ThreadSame
    <2> QED
      BY <2>3, <2>4, <2>5, ReaderMoves
  <1> QED
    BY <1>2, <1>3 DEF ReaderTake

\* A readahead takes a free entry for its track.
LEMMA ReaderTakesEntry ==
    ASSUME CacheInv, NEW r \in Reader, th[r].pc = "look", NEW k, k = th[r].key,
           \A x \in Entry : key[x] # k, NEW e \in Free(flag),
           key' = [key EXCEPT ![e] = k], SetFlag([flag EXCEPT ![e] = {"reading"}]),
           GoesOn(r, "fill", k, e, FALSE),
           UNCHANGED <<img, wrpending, asleep, cur, bufcur>>, LookupUnchanged
    PROVE  CacheInv'
  <1>0. /\ Typed /\ ReaderOK(r) /\ r \in User /\ r \notin Device
        /\ k \in Key /\ k # NoKey /\ e \in Entry /\ flag[e] = {} /\ FALSE \in BOOLEAN
        /\ flag \in [Entry -> SUBSET Flag] /\ key \in [Entry -> Key \cup {NoKey}]
    BY OfTracks DEF CacheInv, ReaderOK, Searching, Free, Typed, CacheTyped
  <1>2. flag' = [flag EXCEPT ![e] = {"reading"}] /\ cwait' \subseteq cwait
    BY Signalled
  <1>4. /\ flag'[e] = {"reading"} /\ key'[e] = k
        /\ \A x \in Entry : x # e => flag'[x] = flag[x] /\ key'[x] = key[x]
        /\ flag' \in [Entry -> SUBSET Flag] /\ key' \in [Entry -> Key \cup {NoKey}]
    BY <1>0, <1>2 DEF Flag
  <1>6. /\ \A p \in User : p # r => th'[p] = th[p]
        /\ th' \in [User -> Thread] /\ ~th'[r].seq
        /\ th'[r].pc = "fill" /\ th'[r].key = k /\ th'[r].ent = e
    <2>1. th \in [User -> Thread] /\ "fill" \in ProgramPc
      BY <1>0 DEF Typed, ThreadsTyped, ProgramPc
    <2> QED
      BY <2>1, <1>0, ThreadTo, ZenonT(40)
  <1>8. Typed'
    BY <1>0, <1>2, <1>4, <1>6 DEF Typed, CacheTyped, DeviceTyped, CmdTyped, ThreadsTyped,
       LookupUnchanged, cmdVars
  <1>9. Others({}, NoEntry, r)
    <2>1. \A x \in Entry : InIo(x) => flag[x] \cap Io # {}
      BY FillsEntry DEF InIo, Io
    <2>2. Frame({}, NoEntry)
      BY <1>0, <1>4, <2>1, OfTracks DEF Frame, EntrySame, LookupUnchanged
    <2>3. \A p \in User : ~(Fills(p) /\ th[p].ent = NoEntry)
      BY FillsEntry, OfTracks
    <2> QED
      BY <1>0, <1>6, <2>2, <2>3, OfTracks DEF Others, ProgSame, ThreadSame, ReaderSame, LookupUnchanged
  <1>10. CountsOK'
    <2>1. SameWrites(flag')
      BY <1>0, <1>4 DEF SameWrites
    <2>2. \A x \in Entry : flag[x] \cap {"write", "writing"} # {} => key'[x] = key[x]
      BY <1>0, <1>4
    <2> QED
      BY <2>1, <2>2, CountsSame DEF LookupUnchanged
  <1>11. ReaderOK(r)'
    BY <1>0, <1>4, <1>6 DEF ReaderOK, ReaderPc, Searching, Filling
  <1>12. ASSUME NEW x \in Entry
         PROVE  /\ EntrySame(x) \/ EntryOK(x)'
                /\ "active" \in flag'[x] => "active" \in flag[x] /\ key[x] \notin {}
    <2>1. CASE x = e
      <3>1. Shape({"reading"}) /\ ~Clean({"reading"})
        BY DEF Shape, Clean
      <3> QED
        BY <2>1, <3>1, <1>0, <1>4 DEF EntryOK
    <2>2. CASE x # e
      BY <2>2, <1>4 DEF EntrySame
    <2> QED
      BY <2>1, <2>2
  <1>14. \A c \in Device : CommandOK(c)'
    <2>1. \A c \in Device : Reading(c)' \subseteq Reading(c)
      <3>1. \A q \in Reader : q # r => ReaderSame(q)
        BY <1>6, OfTracks DEF ReaderSame, ThreadSame
      <3>2. th'[r].key = th[r].key
        BY <1>6
      <3> QED
        BY <3>1, <3>2, ReadingStays
    <2>2. \A c \in Device : k \in Of(c) => Reading(c) # {}
      BY OfTracks DEF Reading
    <2>3. ASSUME NEW c \in Device
          PROVE  /\ Enters(c)
                 /\ ioactive'[c] => ioactive[c]
                 /\ \A x \in Entry : key'[x] \in Of(c) => key[x] \in Of(c) \/ Reading(c) # {}
      BY <1>0, <1>4, <1>6, <2>2, OfTracks DEF LookupUnchanged, Enters
    <2> QED
      BY <2>1, <2>3, CommandsStay DEF LookupUnchanged, cmdVars
  <1>15. FilledOK(r)' /\ "reading" \notin flag[th'[r].ent]
    BY <1>0, <1>6 DEF FilledOK
  <1>16. KeysApart'
    BY <1>4 DEF CacheInv, KeysApart
  <1>17. Mine({}, NoEntry, r)
    BY <1>0, <1>8, <1>10, <1>11, <1>12, <1>14, <1>15, <1>16, OfTracks DEF Mine, LookupUnchanged
  <1> QED
    BY <1>9, <1>17, Assemble

LEMMA ReaderLookInv == ASSUME CacheInv, NEW r \in Reader, Look(r) PROVE CacheInv'
  <1>0. /\ th \in [User -> Thread] /\ "flushmiss" \in ReaderPc /\ cwait \subseteq User /\ Typed
        /\ r \in User /\ r \notin Device /\ th[r].pc = "look" /\ ~th[r].seq /\ chain \in SUBSET Device
        /\ LookupUnchanged /\ Lookup(r, th[r].key, flag, th[r].seq)
    BY OfTracks DEF CacheInv, Typed, ThreadsTyped, DeviceTyped, CmdTyped, ReaderPc, ReaderOK, Look
  <1>1. CASE Done(r) /\ SetFlag(flag) /\ UNCHANGED <<wrpending, asleep, cur, bufcur, key, img>>
    <2>1. /\ th' \in [User -> Thread] /\ \A q \in User : q # r => th'[q] = th[q]
          /\ th'[r].pc = "loop" /\ ~th'[r].seq
      BY <1>0, <1>1, DoneTo
    <2>2. flag' = flag /\ cwait' \subseteq User
      BY <1>0, <1>1, Signalled
    <2>3. OnlyThread(r)
      BY <1>0, <1>1, <2>1, <2>2, OnlyThis DEF LookupUnchanged, cacheVars, devVars
    <2> QED
      BY <2>1, <2>3, ReaderWaits
  <1>2. CASE /\ \A e \in Entry : key[e] # th[r].key
             /\ \E e \in Free(flag) :
                  /\ key' = [key EXCEPT ![e] = th[r].key] /\ SetFlag([flag EXCEPT ![e] = {"reading"}])
                  /\ GoesOn(r, IF th[r].seq THEN "sched" ELSE "fill", th[r].key, e, th[r].seq)
             /\ UNCHANGED <<img, wrpending, asleep, cur, bufcur>>
    <2>1. th[r].seq = FALSE
      BY <1>0 DEF Thread
    <2> QED
      BY <1>0, <1>2, <2>1, ReaderTakesEntry
  <1>3. CASE /\ SetFlag(flag)
             /\ th' = [th EXCEPT ![r].pc = "flushmiss", ![r].key = th[r].key, ![r].seq = th[r].seq,
                                 ![r].todo = chain]
             /\ UNCHANGED <<key, img, wrpending, asleep, cur, bufcur>>
    <2>1. th[r] \in Thread
      BY <1>0
    <2>2. PICK x : x = [th[r] EXCEPT !.pc = "flushmiss", !.key = th[r].key, !.seq = th[r].seq, !.todo = chain]
      OBVIOUS
    <2>3. x \in Thread
      BY <1>0, <2>1, <2>2 DEF Thread
    <2>4. x.pc = "flushmiss" /\ x.key = th[r].key
      BY <2>1, <2>2 DEF Thread
    <2>5. x.seq <=> th[r].seq
      BY <2>1, <2>2 DEF Thread
    <2>6. th' = [th EXCEPT ![r] = x]
      BY <1>3, <2>1, <2>2
    <2>7. th' \in [User -> Thread] /\ th'[r] = x /\ \A p \in User : p # r => th'[p] = th[p]
      BY <1>0, <2>3, <2>6
    <2>8. flag' = flag /\ cwait' \subseteq User
      BY <1>0, <1>3, Signalled
    <2>9. OnlyThread(r)
      BY <1>0, <1>3, <2>7, <2>8, OnlyThis DEF LookupUnchanged, cacheVars, devVars
    <2> QED
      BY <1>0, <2>4, <2>5, <2>7, <2>9, ReaderWaits DEF Waits
  <1> QED
    BY <1>0, <1>1, <1>2, <1>3 DEF Lookup, GoesOn
-----------------------------------------------------------------------------
(* The programs: start, end and the tracks they work on.                     *)

\* A program is on its way into cckddasd_start.
LEMMA TakeDeviceInv == ASSUME CacheInv, NEW d \in Device, TakeDevice(d) PROVE CacheInv'
  <1>0. /\ Typed /\ ProgramOK(d) /\ d \in User /\ th \in [User -> Thread] /\ "start" \in ProgramPc
        /\ th[d].pc = "idle" /\ ~stopping[d] /\ Goto(d, "start")
        /\ UNCHANGED <<cacheVars, file, devVars, wrpending, wrqueued, cmdVars, asleep, cwait, raq, wr, gc>>
    BY OfTracks DEF CacheInv, Typed, ThreadsTyped, ProgramPc, TakeDevice
  <1>1. /\ th' \in [User -> Thread] /\ \A q \in User : q # d => th'[q] = th[q]
        /\ th'[d].pc = "start"
    BY <1>0, GotoTo
  <1>2. OnlyThread(d)
    BY <1>0, <1>1, OfTracks DEF OnlyThread, Typed, DeviceTyped, ThreadsTyped, ReaderSame, ThreadSame,
       cacheVars
  <1>3. ~ioactive[d]
    BY <1>0 DEF ProgramOK
  <1>4. ProgramOK(d)'
    BY <1>0, <1>1, <1>3 DEF ProgramOK, CurrentOK, WantedOK, Searching, Filling, cacheVars, devVars
  <1>5. FilledOK(d)' /\ ~Fills(d)' /\ \A e \in Entry : ~Holds(d, e)
    BY <1>1, <1>3 DEF FilledOK, Fills, Filling, Holds
  <1>6. \A c \in Device : Reading(c)' \subseteq Reading(c)
    <2>1. \A q \in Reader : ReaderSame(q)
      BY <1>1, OfTracks DEF ReaderSame, ThreadSame
    <2> QED
      BY <2>1, ReadingStays
  <1>7. \A c \in Device : Enters(c)
    BY <1>0, <1>1, OfTracks DEF Enters
  <1> QED
    BY <1>0, <1>2, <1>4, <1>5, <1>6, <1>7, OfTracks, ThreadStep

\* A program that waits in cckddasd_start.
LEMMA StartWaits ==
    ASSUME CacheInv, NEW d \in Device, merging[d], ~stopping[d],
           \/ th[d].pc = "start" /\ Goto(d, "startwait")
           \/ th[d].pc = "startwait" /\ UNCHANGED th,
           asleep' = [asleep EXCEPT ![d] = @ \cup {"program"}],
           UNCHANGED <<cur, bufcur, ioactive, flag, cwait, wrpending>>,
           UNCHANGED <<key, img, file, wrqueued, updated, cmdVars, raq, wr, gc>>
    PROVE  CacheInv'
  <1>0. Typed /\ ProgramOK(d) /\ d \in User /\ th \in [User -> Thread] /\ "startwait" \in ProgramPc
    BY OfTracks DEF CacheInv, Typed, ThreadsTyped, ProgramPc
  <1>1. /\ th' \in [User -> Thread] /\ \A q \in User : q # d => th'[q] = th[q]
        /\ th'[d].pc = "startwait"
    BY <1>0, GotoTo
  <1>2. OnlyThread(d)
    BY <1>0, <1>1, OfTracks DEF OnlyThread, Typed, DeviceTyped, ThreadsTyped, ReaderSame, ThreadSame, devVars
  <1>3. ~ioactive[d]
    BY <1>0 DEF ProgramOK
  <1>4. ProgramOK(d)'
    BY <1>0, <1>1, <1>3 DEF ProgramOK, CurrentOK, WantedOK, Searching, Filling
  <1>5. FilledOK(d)' /\ ~Fills(d)' /\ \A e \in Entry : ~Holds(d, e)
    BY <1>1, <1>3 DEF FilledOK, Fills, Filling, Holds
  <1>6. \A c \in Device : Reading(c)' \subseteq Reading(c)
    <2>1. \A q \in Reader : ReaderSame(q)
      BY <1>1, OfTracks DEF ReaderSame, ThreadSame
    <2> QED
      BY <2>1, ReadingStays
  <1>7. \A c \in Device : Enters(c)
    BY <1>1, OfTracks DEF Enters
  <1> QED
    BY <1>0, <1>2, <1>4, <1>5, <1>6, <1>7, OfTracks, ThreadStep

\* A program begins on the track it was on, or on none.
LEMMA BeginInv ==
    ASSUME CacheInv, NEW d \in Device, ~ioactive[d], cmd[d].pc \notin {"file", "unchain", "closed"},
           NEW waited \in BOOLEAN, BeginProgram(d, waited),
           UNCHANGED <<key, img, file, wrqueued, updated, cmdVars, raq, wr, gc>>
    PROVE  CacheInv'
  <1>0. /\ Typed /\ ProgramOK(d) /\ d \in User /\ th \in [User -> Thread]
        /\ flag \in [Entry -> SUBSET Flag]
    BY OfTracks DEF CacheInv, Typed, ThreadsTyped, CacheTyped
  <1>1. /\ th' \in [User -> Thread] /\ \A q \in User : q # d => th'[q] = th[q]
        /\ th'[d].pc = "run"
    BY <1>0, DoneTo DEF BeginProgram
  <1>2. ioactive' \in [Device -> BOOLEAN] /\ ioactive'[d] /\ \A c \in Device : c # d => ioactive'[c] = ioactive[c]
    BY <1>0 DEF BeginProgram, Typed, DeviceTyped
  <1>3. \A c \in Device : CommandOK(c)'
    <2>1. \A q \in Reader : ReaderSame(q)
      BY <1>1, OfTracks DEF ReaderSame, ThreadSame
    <2>2. \A c \in Device : Reading(c)' \subseteq Reading(c)
      BY <2>1, ReadingStays
    <2>3. \A c \in Device : /\ Enters(c)
                            /\ ioactive'[c] => ioactive[c] \/ cmd[c].pc \notin {"file", "unchain", "closed"}
      BY <1>1, <1>2, OfTracks DEF Enters
    <2> QED
      BY <2>2, <2>3, CommandsStay DEF cmdVars
  <1>4. \A e \in Entry : key[e] \in Of(d) => "active" \notin flag[e]
    BY OfTracks DEF CacheInv, ActiveHeld, Holds
  <1>5. KeysApart' /\ FilledOK(d)' /\ ~Fills(d)'
    BY <1>1 DEF CacheInv, KeysApart, FilledOK, Fills, Filling
  <1>6. ASSUME NEW e \in Entry, key[e] \in Of(d) \/ flag' = flag, "writing" \notin flag[e] \/ flag' = flag,
               \A x \in Entry : x # e => flag'[x] = flag[x],
               flag[e] \cap Io = {} \/ flag' = flag,
               \A c \in Device : c # d => cur'[c] = cur[c] /\ bufcur'[c] = bufcur[c]
        PROVE  Others(Of(d), NoEntry, d)
    <2>1. \A x \in Entry : InIo(x) => flag[x] \cap Io # {}
      BY FillsEntry DEF InIo, Io
    <2>2. Frame(Of(d), NoEntry)
      BY <1>6, <2>1, OfTracks DEF Frame, EntrySame
    <2>3. \A p \in User : ~(Fills(p) /\ th[p].ent = NoEntry)
      BY FillsEntry, OfTracks
    <2> QED
      BY <1>1, <1>2, <1>6, <2>2, <2>3, OfTracks DEF Others, ProgSame, ThreadSame, ReaderSame
  <1>7. CASE StillCurrent(d) /\ Unpend(d, cur[d], On(flag, cur[d], {"active"})) /\ UNCHANGED <<cur, bufcur>>
    <2>0. PICK e : e = cur[d]
      OBVIOUS
    <2>1. /\ e \in Entry /\ key[e] = <<d, bufcur[d]>> /\ ~IoBusy(flag[e])
          /\ bufcur[d] \in Track /\ key[e] \in Of(d) /\ key[e] # NoKey /\ EntryOK(e)
      <3>1. e \in Entry /\ key[e] = <<d, bufcur[d]>> /\ ~IoBusy(flag[e]) /\ bufcur[d] \in Track
        BY <1>0, <1>7, <2>0, TypedFacts DEF StillCurrent, ProgramOK, CurrentOK
      <3>2. <<d, bufcur[d]>> \in Of(d)
        BY <3>1, OfTracks
      <3> QED
        BY <3>1, <3>2, OfTracks DEF CacheInv
    <2>2. PICK g : g = On(flag, e, {"active"})
      OBVIOUS
    <2>3. /\ g \in [Entry -> SUBSET Flag] /\ SameWrites(g) /\ g[e] = flag[e] \cup {"active"}
          /\ \A x \in Entry : x # e => g[x] = flag[x]
      BY <1>0, <2>1, <2>2, Bits DEF SameWrites, Flag
    <2>4. /\ CountsOK' /\ wrpending' \in [Device -> Nat] /\ cwait' \subseteq cwait
          /\ asleep' = asleep \/ asleep' = [asleep EXCEPT ![d] = {}]
          /\ flag' = [g EXCEPT ![e] = IF "write" \in g[e] THEN (g[e] \ {"write"}) \cup {"updated"}
                                                          ELSE g[e]]
      <3>1. Unpend(d, e, g)
        BY <1>7, <2>0, <2>2
      <3> QED
        BY <2>1, <2>3, <3>1, UnpendEffect
    <2>5. /\ flag[e] \cap Io = {} /\ "writing" \notin flag[e] /\ "reading" \notin flag[e]
          /\ flag[e] = {"write"} \/ flag[e] = {"updated"} \/ flag[e] = {}
      BY <1>4, <2>1 DEF IoBusy, Io, EntryOK, Shape
    <2>6. /\ flag'[e] \in {{"active"}, {"active", "updated"}}
          /\ flag'[e] = {"active"} => flag[e] = {}
          /\ \A x \in Entry : x # e => flag'[x] = flag[x]
          /\ flag' \in [Entry -> SUBSET Flag]
      <3>1. flag'[e] = IF "write" \in g[e] THEN (g[e] \ {"write"}) \cup {"updated"} ELSE g[e]
        BY <2>1, <2>3, <2>4
      <3>2. CASE flag[e] = {"write"}
        BY <2>3, <2>4, <3>1, <3>2 DEF Flag
      <3>3. CASE flag[e] = {"updated"}
        BY <2>3, <2>4, <3>1, <3>3 DEF Flag
      <3>4. CASE flag[e] = {}
        BY <2>3, <2>4, <3>1, <3>4 DEF Flag
      <3> QED
        BY <2>5, <3>2, <3>3, <3>4
    <2>7. Typed'
      BY <1>0, <1>1, <1>2, <1>7, <2>4, <2>6 DEF Typed, CacheTyped, DeviceTyped, CmdTyped, ThreadsTyped,
         cmdVars
    <2>8. ProgramOK(d)'
      <3>1. cur'[d] = e /\ bufcur' = bufcur /\ key' = key
        BY <1>7, <2>0
      <3>2. CurrentOK(d)' /\ WantedOK(d)'
        BY <1>1, <2>1, <2>6, <3>1 DEF CurrentOK, WantedOK, Searching, Filling
      <3> QED
        BY <1>1, <1>2, <3>2 DEF ProgramOK, ProgramPc
    <2>9. EntryOK(e)'
      <3>1. Shape({"active"}) /\ Shape({"active", "updated"}) /\ ~Clean({"active", "updated"})
        BY DEF Shape, Clean
      <3>2. Shape(flag'[e]) /\ (Clean(flag'[e]) => Clean(flag[e]))
        BY <2>6, <3>1 DEF Clean
      <3> QED
        BY <2>1, <2>5, <3>2 DEF EntryOK
    <2>10. \A x \in Entry : EntrySame(x) \/ EntryOK(x)'
      BY <2>6, <2>9 DEF EntrySame
    <2>11. \A x \in Entry : "active" \in flag'[x] =>
              \/ "active" \in flag[x] /\ key[x] \notin Of(d)
              \/ key'[x] \in Of(d) /\ Holds(d, x)'
      <3>1. key'[e] \in Of(d) /\ Holds(d, e)'
        BY <1>2, <1>7, <2>0, <2>1 DEF Holds
      <3> QED
        BY <1>4, <2>6, <3>1
    <2>12. Others(Of(d), NoEntry, d)
      BY <1>6, <1>7, <2>1, <2>5, <2>6
    <2>13. Mine(Of(d), NoEntry, d)
      BY <1>3, <1>5, <2>4, <2>7, <2>8, <2>10, <2>11, OfTracks DEF Mine
    <2> QED
      BY <2>12, <2>13, Assemble
  <1>8. CASE /\ cur' = [cur EXCEPT ![d] = NoEntry] /\ bufcur' = [bufcur EXCEPT ![d] = 0]
             /\ UNCHANGED <<flag, cwait, wrpending, asleep>>
    <2>1. /\ cur' \in [Device -> Entry \cup {NoEntry}] /\ bufcur' \in [Device -> Track \cup {0}]
          /\ cur'[d] = NoEntry
          /\ \A c \in Device : c # d => cur'[c] = cur[c] /\ bufcur'[c] = bufcur[c]
      BY <1>0, <1>8 DEF Typed, DeviceTyped
    <2>2. Typed'
      BY <1>0, <1>1, <1>2, <1>8, <2>1 DEF Typed, CacheTyped, DeviceTyped, CmdTyped, ThreadsTyped, cmdVars
    <2>3. CountsOK'
      BY <1>8, CountsSame DEF SameWrites
    <2>4. ProgramOK(d)'
      BY <1>1, <1>2, <2>1 DEF ProgramOK, CurrentOK, WantedOK, Searching, Filling, ProgramPc
    <2>5. \A x \in Entry : EntrySame(x)
      BY <1>8 DEF EntrySame
    <2>6. \A x \in Entry : "active" \in flag'[x] => "active" \in flag[x] /\ key[x] \notin Of(d)
      BY <1>4, <1>8
    <2>7. Others(Of(d), NoEntry, d)
      <3>1. \A x \in Entry : InIo(x) => key'[x] = key[x] /\ img'[x] = img[x] /\ flag'[x] = flag[x]
        BY <1>8
      <3>2. Frame(Of(d), NoEntry)
        BY <2>5, <3>1, OfTracks DEF Frame
      <3>3. \A p \in User : ~(Fills(p) /\ th[p].ent = NoEntry)
        BY FillsEntry, OfTracks
      <3> QED
        BY <1>1, <1>2, <2>1, <3>2, <3>3, OfTracks DEF Others, ProgSame, ThreadSame, ReaderSame
    <2>8. Mine(Of(d), NoEntry, d)
      BY <1>3, <1>5, <2>2, <2>3, <2>4, <2>5, <2>6, OfTracks DEF Mine
    <2> QED
      BY <2>7, <2>8, Assemble
  <1> QED
    BY <1>7, <1>8 DEF BeginProgram

LEMMA StartInv == ASSUME CacheInv, NEW d \in Device, Start(d) \/ StartWoken(d) PROVE CacheInv'
  <1>1. /\ th[d].pc \in {"start", "startwait"} /\ ~ioactive[d] /\ CommandOK(d)
        /\ UNCHANGED <<key, img, file, wrqueued, updated, cmdVars, raq, wr, gc>>
    BY DEF Start, StartWoken, CacheInv, ProgramOK
  <1>2. CASE merging[d]
    <2>1. ~stopping[d]
      BY <1>1, <1>2 DEF CommandOK
    <2> QED
      BY <1>1, <1>2, <2>1, StartWaits DEF Start, StartWoken
  <1>3. CASE ~merging[d]
    <2>1. \E waited \in BOOLEAN : BeginProgram(d, waited)
      BY <1>3 DEF Start, StartWoken
    <2>2. cmd[d].pc \notin {"file", "unchain", "closed"}
      BY <1>1, <1>3 DEF CommandOK
    <2> QED
      BY <1>1, <2>1, <2>2, BeginInv
  <1> QED
    BY <1>2, <1>3

\* The flags of one entry that the program of d has change.
LEMMA OneEntryOthers ==
    ASSUME CacheInv, NEW d \in Device, NEW e \in Entry, key[e] \in Of(d), ~Fills(d),
           \A x \in Entry : x # e => EntrySame(x), key'[e] = key[e],
           flag'[e] \cap Io = flag[e] \cap Io, img'[e] = img[e] \/ flag[e] \cap Io = {}, file' = file,
           \A c \in Device : c # d => ProgSame(c), \A r \in Reader : th'[r] = th[r]
    PROVE  Others(Of(d), NoEntry, d)
  <1>1. \A x \in Entry : InIo(x) => flag[x] \cap Io # {}
    BY FillsEntry DEF InIo, Io
  <1>2. Frame(Of(d), NoEntry)
    BY <1>1, OfTracks DEF Frame, EntrySame
  <1>3. \A p \in User : ~(Fills(p) /\ th[p].ent = NoEntry)
    BY FillsEntry, OfTracks
  <1> QED
    BY <1>2, <1>3, OfTracks DEF Others, ReaderSame, ThreadSame

LEMMA HitWokenInv == ASSUME CacheInv, NEW d \in Device, HitWoken(d) PROVE CacheInv'
  <1>0. PICK e : e = th[d].ent
    OBVIOUS
  <1>1. /\ Typed /\ ProgramOK(d) /\ d \in User /\ th \in [User -> Thread] /\ flag \in [Entry -> SUBSET Flag]
        /\ th[d].pc = "hitwait" /\ LookupUnchanged /\ UNCHANGED <<key, img, wrpending>>
        /\ \A x \in Entry : EntryOK(x)
    BY OfTracks DEF CacheInv, Typed, ThreadsTyped, CacheTyped, HitWoken
  <1>2. /\ e \in Entry /\ key[e] = th[d].key /\ th[d].key \in Of(d) /\ "active" \in flag[e]
        /\ flag[e] \subseteq {"active", "iowait", "reading", "writing"} /\ ioactive[d]
        /\ cur[d] = NoEntry /\ th[d].key[2] \in Track /\ th[d].key = <<d, th[d].key[2]>>
        /\ key[e] # NoKey /\ th[d].seq \in BOOLEAN
    BY <1>0, <1>1, OfTracks DEF ProgramOK, WantedOK, CurrentOK, Thread
  <1>3. ~Fills(d)
    BY <1>1 DEF Fills, Filling
  <1>4. CASE IoBusy(flag[e])
    <2>1. /\ SetFlag(On(flag, e, {"iowait"})) /\ asleep' = [asleep EXCEPT ![d] = @ \cup {"program"}]
          /\ UNCHANGED <<cur, bufcur, th>>
      BY <1>0, <1>4 DEF HitWoken
    <2>2. flag' = [flag EXCEPT ![e] = flag[e] \cup {"iowait"}] /\ cwait' \subseteq cwait
      BY <1>2, <2>1, Signalled, Bits
    <2>3. /\ flag'[e] = flag[e] \cup {"iowait"} /\ flag' \in [Entry -> SUBSET Flag]
          /\ \A x \in Entry : x # e => flag'[x] = flag[x]
      BY <1>1, <1>2, <2>2 DEF Flag
    <2>4. \A x \in Entry : x # e => EntrySame(x)
      BY <1>1, <2>3 DEF EntrySame
    <2>5. flag'[e] \cap Io = flag[e] \cap Io /\ SameWrites(flag')
      BY <2>3 DEF Io, SameWrites
    <2>6. Others(Of(d), NoEntry, d)
      BY <1>1, <1>2, <1>3, <2>1, <2>4, <2>5, OneEntryOthers, OfTracks DEF LookupUnchanged, ProgSame, ThreadSame
    <2>7. Typed'
      BY <1>1, <2>1, <2>2, <2>3 DEF Typed, CacheTyped, DeviceTyped, CmdTyped, ThreadsTyped,
         LookupUnchanged, cmdVars
    <2>8. CountsOK'
      BY <1>1, <2>5, CountsSame DEF LookupUnchanged
    <2>9. KeysApart' /\ FilledOK(d)' /\ ~Fills(d)'
      BY <1>1, <2>1 DEF CacheInv, KeysApart, FilledOK, Fills, Filling
    <2>10. ProgramOK(d)'
      BY <1>0, <1>1, <1>2, <2>1, <2>3 DEF ProgramOK, CurrentOK, WantedOK, Filling, LookupUnchanged
    <2>11. EntryOK(e)'
      <3>1. flag[e] \cap {"reading", "writing"} # {} /\ Shape(flag[e])
        BY <1>1, <1>2, <1>4 DEF IoBusy, EntryOK
      <3>2. Shape(flag'[e]) /\ ~Clean(flag'[e])
        BY <1>2, <2>3, <3>1 DEF Shape, Clean
      <3> QED
        BY <1>1, <1>2, <2>3, <3>2 DEF EntryOK, LookupUnchanged
    <2>12. \A x \in Entry : EntrySame(x) \/ EntryOK(x)'
      BY <2>4, <2>11
    <2>13. \A x \in Entry : "active" \in flag'[x] =>
              \/ "active" \in flag[x] /\ key[x] \notin Of(d)
              \/ \E c \in Device : key'[x] \in Of(c) /\ Holds(c, x)'
      <3>1. Holds(d, e)' /\ key'[e] \in Of(d)
        BY <1>0, <1>1, <1>2, <2>1 DEF Holds, LookupUnchanged
      <3>2. \A x \in Entry : x # e /\ key[x] \in Of(d) => "active" \notin flag[x]
        <4>1. ASSUME NEW x \in Entry, x # e, key[x] \in Of(d), "active" \in flag[x] PROVE FALSE
          <5>1. PICK c \in Device : key[x] \in Of(c) /\ Holds(c, x)
            BY <4>1 DEF CacheInv, ActiveHeld
          <5>2. c = d
            BY <4>1, <5>1, OfTracks
          <5> QED
            BY <5>1, <5>2, <4>1, <1>0, <1>2, OfTracks DEF Holds
        <4> QED
          BY <4>1
      <3> QED
        BY <2>3, <3>1, <3>2
    <2>14. \A c \in Device : CommandOK(c)'
      BY <1>1, <1>2, <2>1, LookupCommands DEF LookupUnchanged, cmdVars
    <2>15. Mine(Of(d), NoEntry, d)
      BY <1>1, <2>1, <2>7, <2>8, <2>9, <2>10, <2>12, <2>13, <2>14, OfTracks DEF Mine, LookupUnchanged
    <2> QED
      BY <2>6, <2>15, Assemble
  <1>5. CASE ~IoBusy(flag[e])
    <2>1. /\ SetFlag(Off(flag, e, {"iowait"})) /\ UNCHANGED asleep
          /\ cur' = [cur EXCEPT ![d] = e] /\ bufcur' = [bufcur EXCEPT ![d] = th[d].key[2]]
          /\ IF th[d].seq THEN Goto(d, "sched") ELSE Done(d)
      BY <1>0, <1>5 DEF HitWoken
    <2>2. flag' = [flag EXCEPT ![e] = flag[e] \ {"iowait"}] /\ cwait' \subseteq cwait
      BY <1>2, <2>1, Signalled, Bits
    <2>3. /\ flag'[e] = {"active"} /\ flag[e] \cap Io = {} /\ flag[e] \subseteq {"active", "iowait"}
          /\ flag' \in [Entry -> SUBSET Flag]
          /\ \A x \in Entry : x # e => flag'[x] = flag[x]
      <3>1. flag[e] \subseteq {"active", "iowait"}
        BY <1>2, <1>5 DEF IoBusy
      <3> QED
        BY <1>1, <1>2, <2>2, <3>1 DEF Io, Flag
    <2>4. \A x \in Entry : x # e => EntrySame(x)
      BY <1>1, <2>3 DEF EntrySame
    <2>5. flag'[e] \cap Io = flag[e] \cap Io /\ SameWrites(flag')
      BY <2>3 DEF Io, SameWrites
    <2>a. /\ cur' \in [Device -> Entry \cup {NoEntry}] /\ bufcur' \in [Device -> Track \cup {0}]
          /\ cur'[d] = e /\ bufcur'[d] = th[d].key[2]
          /\ \A c \in Device : c # d => cur'[c] = cur[c] /\ bufcur'[c] = bufcur[c]
      BY <1>1, <1>2, <2>1 DEF Typed, DeviceTyped
    <2>b. /\ th' \in [User -> Thread] /\ \A p \in User : p # d => th'[p] = th[p]
          /\ \/ th'[d].pc = "sched" /\ th'[d].key = th[d].key /\ th'[d].ent = e
             \/ th'[d].pc = "run"
      BY <1>0, <1>1, <2>1, GotoTo, DoneTo DEF ProgramPc
    <2>6. Others(Of(d), NoEntry, d)
      BY <1>1, <1>2, <1>3, <2>4, <2>5, <2>a, <2>b, OneEntryOthers, OfTracks DEF LookupUnchanged, ProgSame, ThreadSame
    <2>7. Typed'
      BY <1>1, <2>1, <2>2, <2>3, <2>a, <2>b DEF Typed, CacheTyped, DeviceTyped, CmdTyped, ThreadsTyped,
         LookupUnchanged, cmdVars
    <2>8. CountsOK'
      BY <1>1, <2>5, CountsSame DEF LookupUnchanged
    <2>9. KeysApart' /\ FilledOK(d)' /\ ~Fills(d)'
      BY <1>1, <2>3, <2>b DEF CacheInv, KeysApart, FilledOK, Fills, Filling
    <2>10. ProgramOK(d)'
      BY <1>1, <1>2, <2>3, <2>a, <2>b DEF ProgramOK, CurrentOK, WantedOK, Searching, Filling, ProgramPc,
         LookupUnchanged
    <2>11. EntryOK(e)'
      <3>1. Shape({"active"}) /\ Clean(flag[e]) /\ "reading" \notin flag[e]
        BY <2>3 DEF Shape, Clean
      <3> QED
        BY <1>1, <1>2, <2>3, <3>1 DEF EntryOK, LookupUnchanged
    <2>12. \A x \in Entry : EntrySame(x) \/ EntryOK(x)'
      BY <2>4, <2>11
    <2>13. \A x \in Entry : "active" \in flag'[x] =>
              \/ "active" \in flag[x] /\ key[x] \notin Of(d)
              \/ \E c \in Device : key'[x] \in Of(c) /\ Holds(c, x)'
      <3>1. Holds(d, e)' /\ key'[e] \in Of(d)
        BY <1>1, <1>2, <2>a DEF Holds, LookupUnchanged
      <3>2. \A x \in Entry : x # e /\ key[x] \in Of(d) => "active" \notin flag[x]
        <4>1. ASSUME NEW x \in Entry, x # e, key[x] \in Of(d), "active" \in flag[x] PROVE FALSE
          <5>1. PICK c \in Device : key[x] \in Of(c) /\ Holds(c, x)
            BY <4>1 DEF CacheInv, ActiveHeld
          <5>2. c = d
            BY <4>1, <5>1, OfTracks
          <5> QED
            BY <5>1, <5>2, <4>1, <1>0, <1>2, OfTracks DEF Holds
        <4> QED
          BY <4>1
      <3> QED
        BY <2>3, <3>1, <3>2
    <2>14. \A c \in Device : CommandOK(c)'
      BY <1>1, <1>2, <2>b, LookupCommands, OfTracks DEF LookupUnchanged, cmdVars
    <2>15. Mine(Of(d), NoEntry, d)
      BY <1>1, <2>7, <2>8, <2>9, <2>10, <2>12, <2>13, <2>14, OfTracks DEF Mine, LookupUnchanged
    <2> QED
      BY <2>6, <2>15, Assemble
  <1> QED
    BY <1>4, <1>5

LEMMA UpdateInv == ASSUME CacheInv, NEW d \in Device, Update(d) PROVE CacheInv'
  <1>0. PICK e : e = cur[d]
    OBVIOUS
  <1>1. /\ Typed /\ ProgramOK(d) /\ d \in User /\ th[d].pc = "run"
        /\ flag \in [Entry -> SUBSET Flag] /\ img \in [Entry -> [of : Key \cup {NoKey}, ver : Nat]]
        /\ UNCHANGED <<key, cur, bufcur, wrpending, asleep, th>>
        /\ UNCHANGED <<file, wrqueued, ioactive, cmdVars, raq, wr, gc>>
    BY OfTracks DEF CacheInv, Typed, CacheTyped, Update
  <1>2. /\ e \in Entry /\ key[e] = <<d, bufcur[d]>> /\ bufcur[d] \in Track /\ "active" \in flag[e]
        /\ flag[e] \subseteq {"active", "updated"} /\ ioactive[d]
    BY <1>0, <1>1, TypedFacts DEF Update, ProgramOK, CurrentOK
  <1>3. key[e] \in Of(d) /\ key[e] # NoKey /\ EntryOK(e)
    BY <1>2, OfTracks DEF CacheInv
  <1>4. /\ img' = [img EXCEPT ![e] = [of |-> img[e].of, ver |-> img[e].ver + 1]]
        /\ img'[e] = [of |-> img[e].of, ver |-> img[e].ver + 1] /\ \A x \in Entry : x # e => img'[x] = img[x]
        /\ img' \in [Entry -> [of : Key \cup {NoKey}, ver : Nat]]
    <2>1. img[e] \in [of : Key \cup {NoKey}, ver : Nat]
      BY <1>1, <1>2
    <2>2. PICK r : r = [img[e] EXCEPT !.ver = img[e].ver + 1]
      OBVIOUS
    <2>3. r = [of |-> img[e].of, ver |-> img[e].ver + 1] /\ r \in [of : Key \cup {NoKey}, ver : Nat]
      BY <2>1, <2>2
    <2>4. img' = [img EXCEPT ![e] = r]
      BY <1>0, <2>2 DEF Update
    <2> QED
      BY <1>1, <1>2, <2>3, <2>4
  <1>5. /\ flag' = [flag EXCEPT ![e] = flag[e] \cup {"updated"}] /\ cwait' \subseteq cwait
        /\ updated' \in [Device -> BOOLEAN]
    BY <1>0, <1>1, <1>2, Signalled, Bits DEF Update, Typed, DeviceTyped
  <1>6. /\ flag'[e] = {"active", "updated"} /\ flag' \in [Entry -> SUBSET Flag]
        /\ \A x \in Entry : x # e => flag'[x] = flag[x]
    BY <1>1, <1>2, <1>5 DEF Flag
  <1>7. flag[e] \cap Io = {} /\ flag'[e] \cap Io = {} /\ SameWrites(flag')
    BY <1>2, <1>6 DEF Io, SameWrites
  <1>8. \A x \in Entry : x # e => EntrySame(x)
    BY <1>1, <1>4, <1>6 DEF EntrySame
  <1>9. ~Fills(d)
    BY <1>1 DEF Fills, Filling
  <1>10. Others(Of(d), NoEntry, d)
    BY <1>1, <1>2, <1>3, <1>7, <1>8, <1>9, OneEntryOthers DEF ProgSame, ThreadSame
  <1>11. Typed'
    BY <1>1, <1>4, <1>5, <1>6 DEF Typed, CacheTyped, DeviceTyped, CmdTyped, ThreadsTyped, cmdVars
  <1>12. CountsOK'
    BY <1>1, <1>7, CountsSame
  <1>13. KeysApart' /\ FilledOK(d)' /\ ~Fills(d)'
    BY <1>1 DEF CacheInv, KeysApart, FilledOK, Fills, Filling
  <1>14. ProgramOK(d)'
    BY <1>0, <1>1, <1>2, <1>6 DEF ProgramOK, CurrentOK, WantedOK, Filling, Searching
  <1>15. \A x \in Entry : EntrySame(x) \/ EntryOK(x)'
    <2>1. Shape({"active", "updated"}) /\ ~Clean({"active", "updated"}) /\ "reading" \notin flag[e]
      BY <1>2 DEF Shape, Clean
    <2>2. img'[e].of = img[e].of
      BY <1>4
    <2>3. EntryOK(e)'
      BY <1>1, <1>3, <1>6, <2>1, <2>2 DEF EntryOK
    <2> QED
      BY <1>8, <2>3
  <1>16. \A x \in Entry : "active" \in flag'[x] =>
            \/ "active" \in flag[x] /\ key[x] \notin Of(d)
            \/ \E c \in Device : key'[x] \in Of(c) /\ Holds(c, x)'
    <2>1. \A x \in Entry : "active" \in flag'[x] => "active" \in flag[x]
      BY <1>2, <1>6
    <2>2. \A x \in Entry, c \in Device : Holds(c, x) => Holds(c, x)'
      BY <1>1 DEF Holds
    <2> QED
      BY <1>1, <2>1, <2>2 DEF CacheInv, ActiveHeld
  <1>17. \A c \in Device : CommandOK(c)'
    BY <1>1, <1>2, LookupCommands DEF cmdVars
  <1>18. Mine(Of(d), NoEntry, d)
    BY <1>1, <1>11, <1>12, <1>13, <1>14, <1>15, <1>16, <1>17, OfTracks DEF Mine
  <1> QED
    BY <1>10, <1>18, Assemble

\* A flush touches only updated entries that nobody uses.
LEMMA FlushedEntries ==
    ASSUME CacheInv, NEW d \in Device, NEW f, NEW x \in Entry,
           flag'[x] = IF key[x] \in Of(d) /\ f[x] = {"updated"} THEN {"write"} ELSE f[x],
           f[x] = flag[x], key' = key, img' = img, file' = file
    PROVE  /\ EntryOK(x)'
           /\ "active" \in flag'[x] <=> "active" \in flag[x]
           /\ flag'[x] \cap Io = flag[x] \cap Io
           /\ flag[x] \cap ({"active"} \cup Io) # {} => flag'[x] = flag[x]
  <1>1. EntryOK(x)
    BY DEF CacheInv
  <1>2. CASE flag'[x] = f[x]
    BY <1>1, <1>2 DEF EntryOK, Shape, Clean
  <1>3. CASE flag[x] = {"updated"} /\ flag'[x] = {"write"}
    BY <1>1, <1>3 DEF EntryOK, Shape, Clean, Io
  <1> QED
    BY <1>2, <1>3

LEMMA EndInv == ASSUME CacheInv, NEW d \in Device, End(d) PROVE CacheInv'
  <1>0. PICK f : f = Inactive(d)
    OBVIOUS
  <1>1. /\ Typed /\ ProgramOK(d) /\ d \in User /\ th \in [User -> Thread] /\ th[d].pc = "run"
        /\ Goto(d, "idle") /\ ioactive' = [ioactive EXCEPT ![d] = FALSE] /\ "idle" \in ProgramPc
        /\ UNCHANGED <<key, img, file, cur, bufcur, updated, cmdVars, raq, gc>> /\ ioactive[d]
        /\ th[d].pc \notin Filling \cup {"hitwait", "sched"}
    BY OfTracks DEF CacheInv, Typed, ThreadsTyped, End, ProgramOK, ProgramPc, Filling
  <1>2. /\ f \in [Entry -> SUBSET Flag] /\ SameWrites(f)
        /\ \A e \in Entry : f[e] = IF key[e] \in Of(d) THEN flag[e] \ {"active"} ELSE flag[e]
        /\ \A e \in Entry : key[e] \in Of(d) /\ "active" \in flag[e] => flag[e] \subseteq {"active", "updated"}
    BY <1>0, <1>1, InactiveEffect
  <1>3. /\ th' \in [User -> Thread] /\ \A p \in User : p # d => th'[p] = th[p]
        /\ th'[d].pc = "idle"
    BY <1>1, GotoTo
  <1>4. /\ ioactive' \in [Device -> BOOLEAN] /\ ~ioactive'[d]
        /\ \A c \in Device : c # d => ioactive'[c] = ioactive[c]
    BY <1>1 DEF Typed, DeviceTyped
  <1>5. /\ CountsOK' /\ wrpending' \in [Device -> Nat] /\ cwait' \subseteq cwait
        /\ wr' \in [Writer -> WriterRec] /\ \A w \in Writer : wr'[w] = wr[w] \/ wr'[w].pc \notin WrPc
        /\ asleep' \in [Device -> SUBSET {"program", "command"}]
        /\ \A e \in Entry : \/ flag'[e] = f[e]
                            \/ key[e] \in Of(d) /\ f[e] = {"updated"} /\ flag'[e] = {"write"}
        /\ flag' \in [Entry -> SUBSET Flag]
    <2>1. CASE Flush(d, f) /\ UNCHANGED asleep
      <3>1. /\ CountsOK' /\ wrpending' \in [Device -> Nat] /\ cwait' \subseteq cwait
            /\ flag' = [e \in Entry |-> IF key[e] \in Of(d) /\ f[e] = {"updated"} THEN {"write"} ELSE f[e]]
            /\ wr' \in [Writer -> WriterRec]
            /\ \A w \in Writer : wr'[w] = wr[w] \/ (wr[w].pc \notin WrPc /\ wr'[w].pc \notin WrPc)
        BY <1>1, <1>2, <2>1, FlushEffect
      <3> QED
        BY <1>1, <1>2, <2>1, <3>1 DEF Typed, DeviceTyped, Flag
    <2>2. CASE SetFlag(f) /\ Broadcast(d) /\ UNCHANGED <<wrpending, wrqueued, wr>>
      <3>1. flag' = f /\ cwait' \subseteq cwait
        BY <2>2, Signalled
      <3>2. CountsOK'
        BY <1>1, <1>2, <2>2, <3>1, CountsSame
      <3> QED
        BY <1>1, <1>2, <2>2, <3>1, <3>2 DEF Typed, DeviceTyped, ThreadsTyped, Broadcast
    <2> QED
      BY <1>0, <2>1, <2>2 DEF End
  <1>6. Typed'
    BY <1>1, <1>3, <1>4, <1>5 DEF Typed, CacheTyped, DeviceTyped, CmdTyped, ThreadsTyped, cmdVars
  <1>7. ASSUME NEW e \in Entry
        PROVE  /\ EntryOK(e)' /\ ("active" \in flag'[e] => "active" \in flag[e] /\ key[e] \notin Of(d))
               /\ flag'[e] \cap Io = flag[e] \cap Io
               /\ key[e] \notin Of(d) => flag'[e] = flag[e]
    <2>1. EntryOK(e)
      BY DEF CacheInv
    <2>2. \/ flag'[e] = flag[e] /\ f[e] = flag'[e]
          \/ /\ key[e] \in Of(d) /\ "active" \in flag[e]
             /\ flag'[e] = flag[e] \ {"active"} /\ flag[e] \subseteq {"active", "updated"}
          \/ key[e] \in Of(d) /\ f[e] = {"updated"} /\ flag'[e] = {"write"}
      <3>1. "active" \notin flag[e] => flag[e] \ {"active"} = flag[e]
        OBVIOUS
      <3>2. CASE flag'[e] = f[e] /\ key[e] \in Of(d) /\ "active" \in flag[e]
        BY <1>2, <3>2
      <3>3. CASE flag'[e] = f[e] /\ ~(key[e] \in Of(d) /\ "active" \in flag[e])
        BY <1>2, <3>1, <3>3
      <3> QED
        BY <1>5, <3>2, <3>3
    <2>3. CASE flag'[e] = flag[e] /\ f[e] = flag'[e]
      BY <1>1, <1>2, <2>1, <2>3, OfTracks DEF EntryOK, Shape, Clean
    <2>4. CASE /\ key[e] \in Of(d) /\ "active" \in flag[e]
               /\ flag'[e] = flag[e] \ {"active"} /\ flag[e] \subseteq {"active", "updated"}
      BY <1>1, <1>2, <2>1, <2>4, OfTracks DEF EntryOK, Shape, Clean, Io
    <2>5. CASE key[e] \in Of(d) /\ f[e] = {"updated"} /\ flag'[e] = {"write"}
      <3>1. flag[e] \subseteq {"active", "updated"}
        BY <1>2, <2>5
      <3> QED
        BY <1>1, <2>1, <2>5, <3>1, OfTracks DEF EntryOK, Shape, Clean, Io
    <2> QED
      BY <1>2, <1>5, <2>2, <2>3, <2>4, <2>5
  <1>8. Others(Of(d), NoEntry, d)
    <2>1. Frame(Of(d), NoEntry)
      BY <1>1, <1>7, OfTracks DEF Frame, EntrySame
    <2>2. \A p \in User : ~(Fills(p) /\ th[p].ent = NoEntry)
      BY FillsEntry, OfTracks
    <2> QED
      BY <1>1, <1>3, <1>4, <2>1, <2>2, OfTracks DEF Others, ProgSame, ThreadSame, ReaderSame
  <1>9. ProgramOK(d)'
    BY <1>1, <1>3, <1>4 DEF ProgramOK, CurrentOK, WantedOK, Filling, Searching
  <1>10. KeysApart' /\ FilledOK(d)' /\ ~Fills(d)'
    BY <1>1, <1>3 DEF CacheInv, KeysApart, FilledOK, Fills, Filling
  <1>11. \A c \in Device : CommandOK(c)'
    <2>1. \A q \in Reader : ReaderSame(q)
      BY <1>3, OfTracks DEF ReaderSame, ThreadSame
    <2>2. \A c \in Device : Reading(c)' \subseteq Reading(c)
      BY <2>1, ReadingStays
    <2>3. \A c \in Device : /\ Enters(c)
                            /\ ioactive'[c] => ioactive[c]
      BY <1>3, <1>4, OfTracks DEF Enters
    <2> QED
      BY <1>1, <2>2, <2>3, CommandsStay DEF cmdVars
  <1>12. Mine(Of(d), NoEntry, d)
    BY <1>1, <1>5, <1>6, <1>7, <1>9, <1>10, <1>11, OfTracks DEF Mine
  <1> QED
    BY <1>8, <1>12, Assemble
-----------------------------------------------------------------------------
(* Steps of the writers, the collector and the commands: no program and no     *)
(* readahead goes on.                                                          *)

Aside(x) ==
  /\ Frame({}, x)
  /\ \A c \in Device : ProgSame(c) /\ CommandOK(c)'
  /\ \A r \in Reader : ReaderSame(r)
  /\ \A p \in User : ~(Fills(p) /\ th[p].ent = x)
  /\ Typed' /\ CountsOK' /\ KeysApart'
  /\ \A e \in Entry : EntryOK(e)' /\ ("active" \in flag'[e] => "active" \in flag[e])
  /\ WritersApart' /\ \A w \in Writer : WriterOK(w)'

LEMMA AssembleAside ==
    ASSUME CacheInv, NEW x, Aside(x)
    PROVE  CacheInv'
  <1>1. Frame({}, x)
    BY DEF Aside
  <1>2. ASSUME NEW c \in Device PROVE ProgramOK(c)' /\ (Fills(c)' => Fills(c) /\ th'[c].ent = th[c].ent)
    <2>1. ProgSame(c) /\ ~(Fills(c) /\ th[c].ent = x) /\ th'[c].ent = th[c].ent
      BY OfTracks DEF Aside, ProgSame, ThreadSame
    <2> QED
      BY <1>1, <2>1, FrameProgram
  <1>3. ASSUME NEW r \in Reader PROVE ReaderOK(r)' /\ (Fills(r)' => Fills(r) /\ th'[r].ent = th[r].ent)
    <2>1. ReaderSame(r) /\ ~(Fills(r) /\ th[r].ent = x)
      BY OfTracks DEF Aside
    <2> QED
      BY <1>1, <2>1, FrameReader DEF ThreadSame
  <1>4. ASSUME NEW p \in User PROVE FilledOK(p)' /\ (Fills(p)' => Fills(p) /\ th'[p].ent = th[p].ent)
    <2>1. ThreadSame(p) \/ th'[p].pc # "filled"
      BY OfTracks DEF Aside, ProgSame, ThreadSame, ReaderSame
    <2>2. ~(Fills(p) /\ th[p].ent = x)
      BY DEF Aside
    <2>3. FilledOK(p)'
      BY <1>1, <2>1, <2>2, FrameFilled
    <2> QED
      BY <2>3, <1>2, <1>3, OfTracks
  <1>5. FillersApart'
    BY <1>4 DEF CacheInv, FillersApart
  <1>6. ActiveHeld'
    <2> SUFFICES ASSUME NEW e \in Entry, "active" \in flag'[e]
                 PROVE  \E d \in Device : key'[e] \in Of(d) /\ Holds(d, e)'
      BY DEF ActiveHeld
    <2>1. "active" \in flag[e]
      BY DEF Aside
    <2>2. PICK d \in Device : key[e] \in Of(d) /\ Holds(d, e)
      BY <2>1 DEF CacheInv, ActiveHeld
    <2>3. key'[e] = key[e]
      BY <1>1, <2>1 DEF Frame, EntrySame
    <2>4. ProgSame(d)
      BY DEF Aside
    <2> QED
      BY <2>2, <2>3, <2>4 DEF Holds, ProgSame, ThreadSame
  <1> QED
    BY <1>2, <1>3, <1>4, <1>5, <1>6 DEF Aside, CacheInv

\* A device is flushed.
LEMMA FlushInv ==
    ASSUME CacheInv, NEW d \in Device, Flush(d, flag), UNCHANGED <<key, img, file>>,
           \A c \in Device : ProgSame(c) /\ CommandOK(c)', \A r \in Reader : ReaderSame(r),
           DeviceTyped', CmdTyped', raq' \subseteq Key, th' \in [User -> Thread],
           gc' \in [pc : {"none", "wait", "pass", "flush"}, todo : SUBSET Device, dev : Device]
    PROVE  CacheInv'
  <1>1. /\ Typed /\ flag \in [Entry -> SUBSET Flag] /\ SameWrites(flag)
    BY DEF CacheInv, Typed, CacheTyped, SameWrites
  <1>2. /\ CountsOK' /\ wrpending' \in [Device -> Nat]
        /\ flag' = [e \in Entry |-> IF key[e] \in Of(d) /\ flag[e] = {"updated"} THEN {"write"} ELSE flag[e]]
        /\ wr' \in [Writer -> WriterRec]
        /\ \A w \in Writer : wr'[w] = wr[w] \/ wr'[w].pc \notin WrPc
    BY <1>1, FlushEffect
  <1>3. \A e \in Entry : /\ EntryOK(e)'
                         /\ "active" \in flag'[e] <=> "active" \in flag[e]
                         /\ flag'[e] \cap Io = flag[e] \cap Io
                         /\ flag[e] \cap ({"active"} \cup Io) # {} => flag'[e] = flag[e]
    BY <1>2, FlushedEntries
  <1>4. Frame({}, NoEntry)
    BY <1>3, OfTracks DEF Frame, EntrySame
  <1>5. WritersApart' /\ \A w \in Writer : WriterOK(w)'
    BY <1>2, <1>4, OfTracks, WritersStay
  <1>6. flag' \in [Entry -> SUBSET Flag]
    BY <1>1, <1>2 DEF Flag
  <1>7. Typed'
    BY <1>1, <1>2, <1>6 DEF Typed, CacheTyped, ThreadsTyped
  <1>8. \A p \in User : ~(Fills(p) /\ th[p].ent = NoEntry)
    BY FillsEntry, OfTracks
  <1>9. KeysApart'
    BY DEF CacheInv, KeysApart
  <1>10. Aside(NoEntry)
    BY <1>2, <1>3, <1>4, <1>5, <1>7, <1>8, <1>9 DEF Aside
  <1> QED
    BY <1>10, AssembleAside

\* The entries and the counts stay as they are.
LEMMA QuietInv ==
    ASSUME CacheInv, UNCHANGED <<key, flag, img, file, wrpending>>,
           wrqueued' = wrqueued \/ (wrqueued' = 0 /\ Queued = {}),
           \A c \in Device : ProgSame(c) /\ CommandOK(c)', \A r \in Reader : ReaderSame(r),
           DeviceTyped', CmdTyped', ThreadsTyped',
           \A w \in Writer : wr'[w] = wr[w] \/ wr'[w].pc \notin WrPc,
           Queued # {} => Awake'
    PROVE  CacheInv'
  <1>1. Typed /\ CountsOK
    BY DEF CacheInv
  <1>2. CountsOK'
    <2>1. Queued' = Queued /\ \A d \in Device : Pend(d)' = Pend(d)
      BY DEF Queued, Pend
    <2>2. \A d \in Device : wrpending'[d] = Cardinality(Pend(d)')
      BY <1>1, <2>1 DEF CountsOK
    <2>3. CASE wrqueued' = wrqueued
      BY <1>1, <2>1, <2>2, <2>3 DEF CountsOK
    <2>4. CASE wrqueued' = 0 /\ Queued = {}
      <3>1. Cardinality(Queued') = 0
        BY <2>1, <2>4, FS_EmptySet
      <3>2. wrqueued' \in 0 .. MaxQueued /\ wrqueued' >= Cardinality(Queued')
        BY <2>4, <3>1, ConstantsAssumption
      <3> QED
        BY <2>1, <2>2, <2>4, <3>2 DEF CountsOK
    <2> QED
      BY <2>3, <2>4
  <1>3. Frame({}, NoEntry)
    BY OfTracks DEF Frame, EntrySame
  <1>4. WritersApart' /\ \A w \in Writer : WriterOK(w)'
    BY <1>3, OfTracks, WritersStay
  <1>5. Typed'
    BY <1>1 DEF Typed, CacheTyped
  <1>6. \A p \in User : ~(Fills(p) /\ th[p].ent = NoEntry)
    BY FillsEntry, OfTracks
  <1>7. KeysApart'
    BY DEF CacheInv, KeysApart
  <1>8. \A e \in Entry : EntryOK(e)'
    BY DEF CacheInv, EntryOK
  <1>9. Aside(NoEntry)
    BY <1>2, <1>3, <1>4, <1>5, <1>6, <1>7, <1>8 DEF Aside
  <1> QED
    BY <1>9, AssembleAside

\* The threads and the commands are left alone.
LEMMA AllSame ==
    ASSUME CacheInv, UNCHANGED <<th, cur, bufcur, ioactive, merging, stopping, cmd>>,
           \A e \in Entry : key'[e] = key[e] \/ key'[e] = NoKey
    PROVE  /\ \A c \in Device : ProgSame(c) /\ CommandOK(c)'
           /\ \A r \in Reader : ReaderSame(r)
  <1>1. \A c \in Device : Reading(c)' = Reading(c)
    BY DEF Reading
  <1>2. \A c \in Device : Enters(c)
    BY DEF Enters
  <1>3. \A c \in Device : CommandOK(c)'
    BY <1>1, <1>2, OfTracks, CommandsStay
  <1> QED
    BY <1>3 DEF ProgSame, ThreadSame, ReaderSame

LEMMA FlushAllInv == ASSUME CacheInv, NEW p \in User, FlushAll(p) PROVE CacheInv'
  <1>1. PICK d \in th[p].todo :
           /\ th' = [th EXCEPT ![p].todo = @ \ {d}]
           /\ IF ~merging[d] /\ ~stopping[d] THEN Flush(d, flag)
              ELSE UNCHANGED <<flag, cwait, wrpending, wrqueued, wr>>
    BY DEF FlushAll
  <1>2. /\ Typed /\ UNCHANGED <<key, img, file, devVars, cmdVars, asleep, raq, gc>>
        /\ th \in [User -> Thread]
    BY DEF CacheInv, Typed, ThreadsTyped, FlushAll
  <1>3. d \in Device
    BY <1>1, <1>2 DEF Thread
  <1>4. /\ th' \in [User -> Thread]
        /\ \A q \in User : ThreadSame(q)
    <2>1. PICK r : r = [th[p] EXCEPT !.todo = th[p].todo \ {d}]
      OBVIOUS
    <2>2. r \in Thread
      BY <1>2, <2>1 DEF Thread
    <2>3. r.pc = th[p].pc /\ r.key = th[p].key /\ r.ent = th[p].ent /\ r.seq = th[p].seq
      BY <1>2, <2>1 DEF Thread
    <2>4. th' = [th EXCEPT ![p] = r]
      BY <1>1, <2>1
    <2> QED
      BY <1>2, <2>2, <2>3, <2>4 DEF ThreadSame
  <1>5. /\ \A c \in Device : ProgSame(c) /\ CommandOK(c)'
        /\ \A r \in Reader : ReaderSame(r)
    <2>1. \A c \in Device : ProgSame(c)
      BY <1>2, <1>4, OfTracks DEF ProgSame, devVars
    <2>2. \A r \in Reader : ReaderSame(r)
      BY <1>4, OfTracks DEF ReaderSame
    <2>3. \A c \in Device : Reading(c)' \subseteq Reading(c)
      BY <2>2, ReadingStays
    <2>4. \A c \in Device : Enters(c)
      BY <1>4, OfTracks DEF Enters, ThreadSame
    <2>5. \A c \in Device : CommandOK(c)'
      BY <1>2, <2>3, <2>4, OfTracks, CommandsStay DEF devVars, cmdVars
    <2> QED
      BY <2>1, <2>2, <2>5
  <1>6. CASE Flush(d, flag)
    <2>1. cwait' \subseteq User
      BY <1>2, <1>6, Signalled DEF Flush, Typed, DeviceTyped
    <2>2. DeviceTyped' /\ CmdTyped'
      BY <1>2, <2>1 DEF Typed, DeviceTyped, CmdTyped, devVars, cmdVars
    <2> QED
      BY <1>2, <1>3, <1>4, <1>5, <1>6, <2>2, FlushInv DEF Typed, ThreadsTyped
  <1>7. CASE UNCHANGED <<flag, cwait, wrpending, wrqueued, wr>>
    <2>1. DeviceTyped' /\ CmdTyped' /\ ThreadsTyped'
      BY <1>2, <1>4, <1>7 DEF Typed, DeviceTyped, CmdTyped, ThreadsTyped, devVars, cmdVars
    <2>2. Queued # {} => Awake'
      BY <1>7 DEF CacheInv, CountsOK, Awake
    <2> QED
      BY <1>2, <1>5, <1>7, <2>1, <2>2, QuietInv
  <1> QED
    BY <1>1, <1>6, <1>7

LEMMA GcInv == ASSUME CacheInv, GcStep PROVE CacheInv'
  <1>1. Typed /\ GcUnchanged
    BY DEF CacheInv, GcStep, GcPass, GcDevice, GcFlush, GcWait
  <1>2. /\ \A c \in Device : ProgSame(c) /\ CommandOK(c)'
        /\ \A r \in Reader : ReaderSame(r)
    BY <1>1, AllSame DEF GcUnchanged, devVars, cmdVars
  <1>3. gc' \in [pc : {"none", "wait", "pass", "flush"}, todo : SUBSET Device, dev : Device]
    <2>1. gc \in [pc : {"none", "wait", "pass", "flush"}, todo : SUBSET Device, dev : Device]
          /\ chain \subseteq Device
      BY <1>1 DEF Typed, ThreadsTyped, CmdTyped
    <2>2. CASE GcPass
      BY <2>1, <2>2 DEF GcPass
    <2>3. CASE GcDevice
      <3>1. PICK d \in gc.todo : gc' = [pc |-> IF merging[d] \/ stopping[d] THEN "pass" ELSE "flush",
                                        todo |-> gc.todo \ {d}, dev |-> d]
        BY <2>3 DEF GcDevice
      <3> QED
        BY <2>1, <3>1
    <2>4. CASE GcFlush
      BY <2>1, <2>4 DEF GcFlush
    <2>5. CASE GcWait
      BY <2>1, <2>5 DEF GcWait
    <2> QED
      BY <2>2, <2>3, <2>4, <2>5 DEF GcStep
  <1>4. CASE GcFlush
    <2>1. Flush(gc.dev, flag) /\ gc.dev \in Device
      BY <1>1, <1>4 DEF GcFlush, Typed, ThreadsTyped
    <2>2. cwait' \subseteq User
      BY <1>1, <2>1, Signalled DEF Flush, Typed, DeviceTyped
    <2>3. DeviceTyped' /\ CmdTyped' /\ raq' \subseteq Key /\ th' \in [User -> Thread]
      BY <1>1, <2>2 DEF Typed, DeviceTyped, CmdTyped, ThreadsTyped, GcUnchanged, devVars, cmdVars
    <2> QED
      BY <1>1, <1>2, <1>3, <2>1, <2>3, FlushInv DEF GcUnchanged
  <1>5. CASE UNCHANGED <<flag, cwait, wrpending, wrqueued, wr>>
    <2>1. DeviceTyped' /\ CmdTyped' /\ ThreadsTyped'
      BY <1>1, <1>3, <1>5 DEF Typed, DeviceTyped, CmdTyped, ThreadsTyped, GcUnchanged, devVars, cmdVars
    <2>2. Queued # {} => Awake'
      BY <1>5 DEF CacheInv, CountsOK, Awake
    <2> QED
      BY <1>1, <1>2, <1>5, <2>1, <2>2, QuietInv DEF GcUnchanged
  <1> QED
    BY <1>4, <1>5 DEF GcStep, GcPass, GcDevice, GcWait

LEMMA WriterIdleInv == ASSUME CacheInv, NEW w \in Writer, WriterIdle(w) PROVE CacheInv'
  <1>1. Typed /\ CountsOK /\ WriterUnchanged /\ UNCHANGED <<flag, file, wrpending, wrqueued, asleep, cwait, gc>>
    BY DEF CacheInv, WriterIdle
  <1>2. /\ \A c \in Device : ProgSame(c) /\ CommandOK(c)'
        /\ \A r \in Reader : ReaderSame(r)
    BY <1>1, AllSame DEF WriterUnchanged, devVars, cmdVars
  <1>3. /\ wr' \in [Writer -> WriterRec] /\ \A v \in Writer : v # w => wr'[v] = wr[v]
        /\ wr'[w].pc = "wait"
    <2>1. wr \in [Writer -> WriterRec] /\ wr[w] \in WriterRec
      BY <1>1 DEF Typed, ThreadsTyped
    <2> QED
      BY <2>1 DEF WriterIdle, WriterRec
  <1>4. Queued = {}
    <2>1. Queued \subseteq Entry
      BY DEF Queued
    <2>2. Cardinality(Queued) = 0
      BY <1>1, <2>1, Finite DEF WriterIdle, CountsOK
    <2> QED
      BY <2>1, <2>2, Finite
  <1>5. DeviceTyped' /\ CmdTyped' /\ ThreadsTyped'
    BY <1>1, <1>3 DEF Typed, DeviceTyped, CmdTyped, ThreadsTyped, WriterUnchanged, devVars, cmdVars
  <1>6. \A v \in Writer : wr'[v] = wr[v] \/ wr'[v].pc \notin WrPc
    BY <1>3 DEF WrPc
  <1> QED
    BY <1>1, <1>2, <1>4, <1>5, <1>6, QuietInv DEF WriterUnchanged

LEMMA WriterScanInv == ASSUME CacheInv, NEW w \in Writer, WriterScan(w) PROVE CacheInv'
  <1>1. /\ Typed /\ CountsOK /\ WriterUnchanged /\ UNCHANGED <<file, wrpending, asleep, gc>>
        /\ wr \in [Writer -> WriterRec] /\ wr[w].pc \notin WrPc
        /\ flag \in [Entry -> SUBSET Flag]
    BY DEF CacheInv, WriterScan, Typed, ThreadsTyped, CacheTyped, WrPc
  <1>2. /\ \A c \in Device : ProgSame(c) /\ CommandOK(c)'
        /\ \A r \in Reader : ReaderSame(r)
    BY <1>1, AllSame DEF WriterUnchanged, devVars, cmdVars
  <1>3. CASE Queued = {} /\ wrqueued' = 0 /\ wr' = [wr EXCEPT ![w].pc = "loop"] /\ UNCHANGED <<flag, cwait>>
    <2>1. /\ wr' \in [Writer -> WriterRec] /\ \A v \in Writer : wr'[v] = wr[v] \/ wr'[v].pc \notin WrPc
      BY <1>1, <1>3 DEF WriterRec, WrPc
    <2>2. DeviceTyped' /\ CmdTyped' /\ ThreadsTyped'
      BY <1>1, <1>3, <2>1 DEF Typed, DeviceTyped, CmdTyped, ThreadsTyped, WriterUnchanged, devVars, cmdVars
    <2> QED
      BY <1>1, <1>2, <1>3, <2>1, <2>2, QuietInv DEF WriterUnchanged
  <1>4. ASSUME NEW e \in Queued, SetFlag([flag EXCEPT ![e] = (@ \ {"write"}) \cup {"writing"}]),
               wrqueued' = wrqueued - 1,
               NEW begun, begun = [wr EXCEPT ![w] = [pc |-> "write", ent |-> e]],
               wr' \in Scheduled(begun, Writer) \cup {begun}
        PROVE  CacheInv'
    <2>1. e \in Entry /\ flag[e] = {"write"} /\ EntryOK(e)
      BY <1>4 DEF Queued, CacheInv, EntryOK, Shape
    <2>2. flag' = [flag EXCEPT ![e] = (flag[e] \ {"write"}) \cup {"writing"}] /\ cwait' \subseteq cwait
      BY <1>4, Signalled
    <2>3. /\ flag'[e] = {"writing"} /\ \A y \in Entry : y # e => flag'[y] = flag[y]
          /\ flag' \in [Entry -> SUBSET Flag]
      BY <1>1, <2>1, <2>2 DEF Flag
    <2>4. /\ begun \in [Writer -> WriterRec] /\ begun[w] = [pc |-> "write", ent |-> e]
          /\ \A v \in Writer : v # w => begun[v] = wr[v]
      BY <1>1, <1>4, <2>1 DEF WriterRec
    <2>5. /\ wr' \in [Writer -> WriterRec]
          /\ \A v \in Writer : wr'[v] = begun[v] \/ (begun[v].pc \notin WrPc /\ wr'[v].pc \notin WrPc)
      BY <1>4, <2>4, ScheduledAwake
    <2>6. /\ wr'[w] = [pc |-> "write", ent |-> e] /\ wr'[w].pc = "write" /\ wr'[w].ent = e
          /\ \A v \in Writer : v # w => wr'[v] = wr[v] \/ wr'[v].pc \notin WrPc
      BY <2>4, <2>5 DEF WrPc
    <2>7. Typed'
      BY <1>1, <2>2, <2>3, <2>5 DEF Typed, CacheTyped, DeviceTyped, CmdTyped, ThreadsTyped,
         WriterUnchanged, devVars, cmdVars
    <2>8. CountsOK'
      <3>1. Queued' = Queued \ {e} /\ Queued \subseteq Entry
        BY <2>3 DEF Queued
      <3>2. \A d \in Device : Pend(d)' = Pend(d)
        BY <1>1, <2>1, <2>3 DEF Pend, WriterUnchanged
      <3>3. Cardinality(Queued') = Cardinality(Queued) - 1 /\ Cardinality(Queued) >= 1
        BY <1>4, <3>1, CountOut
      <3>4. Cardinality(Queued) \in Nat /\ wrqueued \in 0 .. MaxQueued /\ wrqueued >= Cardinality(Queued)
        BY <1>1, <3>1, Finite DEF CountsOK
      <3>5. wrqueued' \in 0 .. MaxQueued /\ wrqueued' >= Cardinality(Queued')
        BY <1>4, <3>3, <3>4, ConstantsAssumption
      <3>6. Awake'
        BY <2>6 DEF Awake
      <3> QED
        BY <1>1, <3>2, <3>5, <3>6 DEF CountsOK
    <2>9. \A y \in Entry : InIo(y) => y # e
      <3>1. "reading" \notin flag[e] /\ "writing" \notin flag[e]
        BY <2>1
      <3> QED
        BY <3>1, FillsEntry DEF InIo
    <2>10. Frame({}, NoEntry)
      BY <1>1, <2>1, <2>3, <2>9, OfTracks DEF Frame, EntrySame, Io, WriterUnchanged
    <2>11. \A v \in Writer : WriterOK(v)'
      <3>1. ASSUME NEW v \in Writer, v # w PROVE WriterOK(v)'
        <4>1. wr[v].pc \in WrPc => wr[v].ent # NoEntry
          BY OfTracks DEF CacheInv, WriterOK
        <4> QED
          BY <2>6, <2>10, <3>1, <4>1, FrameWriter
      <3>2. WriterOK(w)'
        BY <2>1, <2>3, <2>6 DEF WriterOK
      <3> QED
        BY <3>1, <3>2
    <2>12. WritersApart'
      <3>1. \A v \in Writer : wr[v].pc \in WrPc => wr[v].ent # e
        BY <2>1 DEF CacheInv, WriterOK
      <3>2. WritersApart
        BY DEF CacheInv
      <3> QED
        BY <3>1, <3>2, <2>6 DEF WritersApart
    <2>13. \A y \in Entry : EntryOK(y)' /\ ("active" \in flag'[y] => "active" \in flag[y])
      <3>1. EntryOK(e)'
        BY <1>1, <2>1, <2>3 DEF EntryOK, Shape, Clean, WriterUnchanged
      <3>2. \A y \in Entry : y # e => EntryOK(y)'
        BY <1>1, <2>3 DEF CacheInv, EntryOK, WriterUnchanged
      <3> QED
        BY <3>1, <3>2, <2>3
    <2>14. \A p \in User : ~(Fills(p) /\ th[p].ent = NoEntry)
      BY FillsEntry, OfTracks
    <2>15. KeysApart'
      BY <1>1 DEF CacheInv, KeysApart, WriterUnchanged
    <2>16. Aside(NoEntry)
      BY <1>2, <2>7, <2>8, <2>10, <2>11, <2>12, <2>13, <2>14, <2>15 DEF Aside
    <2> QED
      BY <2>16, AssembleAside
  <1>5. ASSUME NEW e \in Entry, "write" \in flag[e],
               SetFlag([flag EXCEPT ![e] = (@ \ {"write"}) \cup {"writing"}]), wrqueued' = wrqueued - 1,
               wr' \in IF wrqueued # 1 THEN Scheduled([wr EXCEPT ![w] = [pc |-> "write", ent |-> e]], Writer)
                       ELSE {[wr EXCEPT ![w] = [pc |-> "write", ent |-> e]]}
        PROVE  CacheInv'
    <2>1. PICK begun : begun = [wr EXCEPT ![w] = [pc |-> "write", ent |-> e]]
      OBVIOUS
    <2>2. wr' \in Scheduled(begun, Writer) \cup {begun}
      BY <1>5, <2>1
    <2>3. e \in Queued
      BY <1>5 DEF Queued
    <2> QED
      BY <1>4, <1>5, <2>1, <2>2, <2>3
  <1> QED
    BY <1>3, <1>5 DEF WriterScan, Queued

\* What a writer has of the entry it writes.
LEMMA Writes ==
    ASSUME CacheInv, NEW w \in Writer, wr[w].pc \in WrPc, NEW e, e = wr[w].ent
    PROVE  /\ e \in Entry /\ "writing" \in flag[e] /\ flag[e] \subseteq {"writing", "active", "iowait"}
           /\ EntryOK(e) /\ key[e] \in Key /\ img[e].of = key[e]
           /\ \A v \in Writer : v # w /\ wr[v].pc \in WrPc => wr[v].ent # e
           /\ \A p \in User : ~(Fills(p) /\ th[p].ent = e)
           /\ \A y \in Entry : key[y] = key[e] => y = e
  <1>1. e \in Entry /\ "writing" \in flag[e] /\ Typed /\ KeysApart
    BY DEF CacheInv, WriterOK
  <1>2. EntryOK(e)
    BY <1>1 DEF CacheInv
  <1>3. flag[e] \subseteq {"writing", "active", "iowait"} /\ "reading" \notin flag[e] /\ key[e] # NoKey
    BY <1>1, <1>2 DEF EntryOK, Shape
  <1>4. key[e] \in Key /\ img[e].of = key[e]
    BY <1>1, <1>2, <1>3, TypedFacts DEF EntryOK
  <1>5. \A v \in Writer : v # w /\ wr[v].pc \in WrPc => wr[v].ent # e
    BY DEF CacheInv, WritersApart
  <1>6. \A p \in User : ~(Fills(p) /\ th[p].ent = e)
    BY <1>3, FillsEntry
  <1> QED
    BY <1>1, <1>2, <1>3, <1>4, <1>5, <1>6 DEF KeysApart

LEMMA WriterWriteInv == ASSUME CacheInv, NEW w \in Writer, WriterWrite(w) PROVE CacheInv'
  <1>0. PICK e : e = wr[w].ent
    OBVIOUS
  <1>1. /\ Typed /\ CountsOK /\ WriterUnchanged /\ UNCHANGED <<flag, wrpending, wrqueued, asleep, cwait>>
        /\ wr \in [Writer -> WriterRec] /\ wr[w].pc = "write" /\ wr[w].pc \in WrPc
        /\ file' = [file EXCEPT ![key[e]] = img[e].ver] /\ wr' = [wr EXCEPT ![w].pc = "wrote"]
        /\ gc' = IF gc.pc = "none" THEN [gc EXCEPT !.pc = "wait"] ELSE gc
    BY <1>0 DEF CacheInv, WriterWrite, Typed, ThreadsTyped, WrPc
  <1>2. /\ e \in Entry /\ "writing" \in flag[e] /\ EntryOK(e) /\ key[e] \in Key
        /\ \A v \in Writer : v # w /\ wr[v].pc \in WrPc => wr[v].ent # e
        /\ \A p \in User : ~(Fills(p) /\ th[p].ent = e)
        /\ \A y \in Entry : key[y] = key[e] => y = e
    BY <1>0, <1>1, Writes
  <1>3. /\ \A c \in Device : ProgSame(c) /\ CommandOK(c)'
        /\ \A r \in Reader : ReaderSame(r)
    BY <1>1, AllSame DEF WriterUnchanged, devVars, cmdVars
  <1>4. /\ file' \in [Key -> Nat] /\ file'[key[e]] = img[e].ver
        /\ \A k \in Key : k # key[e] => file'[k] = file[k]
    BY <1>1, <1>2, TypedFacts DEF Typed, CacheTyped
  <1>5. /\ wr' \in [Writer -> WriterRec] /\ \A v \in Writer : v # w => wr'[v] = wr[v]
        /\ wr'[w].pc = "wrote" /\ wr'[w].ent = e
    BY <1>0, <1>1 DEF WriterRec
  <1>6. gc' \in [pc : {"none", "wait", "pass", "flush"}, todo : SUBSET Device, dev : Device]
    BY <1>1 DEF Typed, ThreadsTyped
  <1>7. Typed'
    BY <1>1, <1>4, <1>5, <1>6 DEF Typed, CacheTyped, DeviceTyped, CmdTyped, ThreadsTyped,
       WriterUnchanged, devVars, cmdVars
  <1>8. CountsOK' /\ KeysApart'
    <2>1. Awake'
      BY <1>5 DEF Awake
    <2> QED
      BY <1>1, <2>1, CountsSame DEF SameWrites, WriterUnchanged, CacheInv, KeysApart
  <1>9. Frame({}, e)
    BY <1>1, <1>2, <1>4 DEF Frame, EntrySame, WriterUnchanged
  <1>10. \A v \in Writer : WriterOK(v)'
    <2>1. \A v \in Writer : v # w => WriterOK(v)'
      BY <1>2, <1>5, <1>9, FrameWriter
    <2>2. WriterOK(w)'
      BY <1>1, <1>2, <1>4, <1>5 DEF WriterOK, WriterUnchanged
    <2> QED
      BY <2>1, <2>2
  <1>11. WritersApart'
    BY <1>0, <1>1, <1>5 DEF CacheInv, WritersApart
  <1>12. \A y \in Entry : EntryOK(y)' /\ ("active" \in flag'[y] => "active" \in flag[y])
    <2>1. ~Clean(flag[e])
      BY <1>2 DEF Clean
    <2>2. EntryOK(e)'
      BY <1>1, <1>2, <2>1 DEF EntryOK, WriterUnchanged
    <2>3. ASSUME NEW y \in Entry, y # e PROVE EntryOK(y)'
      <3>1. EntryOK(y) /\ key[y] # key[e] /\ key[y] \in Key \cup {NoKey}
        BY <1>1, <1>2, <2>3, TypedFacts DEF CacheInv
      <3> QED
        BY <1>1, <1>4, <3>1 DEF EntryOK, WriterUnchanged
    <2> QED
      BY <1>1, <2>2, <2>3
  <1>13. Aside(e)
    BY <1>2, <1>3, <1>7, <1>8, <1>9, <1>10, <1>11, <1>12 DEF Aside
  <1> QED
    BY <1>13, AssembleAside

LEMMA WriterDoneInv == ASSUME CacheInv, NEW w \in Writer, WriterDone(w) PROVE CacheInv'
  <1>0. PICK e : e = wr[w].ent
    OBVIOUS
  <1>d. PICK d : d = key[e][1]
    OBVIOUS
  <1>1. /\ Typed /\ CountsOK /\ WriterUnchanged /\ UNCHANGED <<file, wrqueued, gc>>
        /\ wr \in [Writer -> WriterRec] /\ wr[w].pc = "wrote" /\ wr[w].pc \in WrPc
        /\ flag \in [Entry -> SUBSET Flag] /\ SetFlag(Off(flag, e, {"writing"}))
        /\ wrpending' = [wrpending EXCEPT ![d] = wrpending[d] - 1]
        /\ asleep' = asleep \/ asleep' = [asleep EXCEPT ![d] = {}]
        /\ wr' = [wr EXCEPT ![w] = [pc |-> "loop", ent |-> NoEntry]]
    BY <1>0, <1>d DEF CacheInv, WriterDone, Typed, ThreadsTyped, CacheTyped, WrPc, Broadcast
  <1>2. /\ e \in Entry /\ "writing" \in flag[e] /\ flag[e] \subseteq {"writing", "active", "iowait"}
        /\ EntryOK(e) /\ key[e] \in Key /\ img[e].of = key[e]
        /\ \A v \in Writer : v # w /\ wr[v].pc \in WrPc => wr[v].ent # e
        /\ \A p \in User : ~(Fills(p) /\ th[p].ent = e)
    BY <1>0, <1>1, Writes, SMTT(20)
  <1>3. d \in Device /\ key[e] \in Of(d) /\ file[key[e]] = img[e].ver
    BY <1>0, <1>d, <1>1, <1>2, OfTracks DEF CacheInv, WriterOK
  <1>4. /\ \A c \in Device : ProgSame(c) /\ CommandOK(c)'
        /\ \A r \in Reader : ReaderSame(r)
    BY <1>1, AllSame DEF WriterUnchanged, devVars, cmdVars
  <1>5. flag' = [flag EXCEPT ![e] = flag[e] \ {"writing"}] /\ cwait' \subseteq cwait
    BY <1>1, <1>2, Signalled, Bits
  <1>6. /\ flag'[e] = flag[e] \ {"writing"} /\ flag'[e] \subseteq {"active", "iowait"}
        /\ \A y \in Entry : y # e => flag'[y] = flag[y]
        /\ flag' \in [Entry -> SUBSET Flag]
    BY <1>1, <1>2, <1>5
  <1>7. /\ wr' \in [Writer -> WriterRec] /\ \A v \in Writer : v # w => wr'[v] = wr[v]
        /\ wr'[w].pc = "loop"
    BY <1>1 DEF WriterRec
  <1>8. CountsOK' /\ wrpending' \in [Device -> Nat]
    <2>1. Queued' = Queued
      BY <1>2, <1>6 DEF Queued
    <2>2. Pend(d)' = Pend(d) \ {e} /\ e \in Pend(d) /\ Pend(d) \subseteq Entry
      BY <1>1, <1>2, <1>3, <1>6 DEF Pend, WriterUnchanged
    <2>3. ASSUME NEW c \in Device, c # d PROVE Pend(c)' = Pend(c)
      <3>1. key[e] \notin Of(c) /\ key'[e] \notin Of(c)
        BY <1>1, <1>3, <2>3, OfTracks DEF WriterUnchanged
      <3> QED
        BY <1>1, <1>6, <3>1 DEF Pend, WriterUnchanged
    <2>4. Cardinality(Pend(d)') = Cardinality(Pend(d)) - 1 /\ Cardinality(Pend(d)) >= 1
      BY <2>2, CountOut
    <2>5. wrpending[d] \in Nat /\ wrpending[d] - 1 \in Nat /\ wrpending[d] = Cardinality(Pend(d))
      BY <1>1, <1>3, <2>4, TypedFacts DEF CountsOK
    <2>6. /\ wrpending' \in [Device -> Nat] /\ wrpending'[d] = Cardinality(Pend(d)')
          /\ \A c \in Device : c # d => wrpending'[c] = wrpending[c]
      BY <1>1, <1>3, <2>4, <2>5 DEF Typed
    <2>7. Awake'
      BY <1>7 DEF Awake
    <2> QED
      BY <1>1, <2>1, <2>3, <2>6, <2>7 DEF CountsOK
  <1>9. Typed'
    <2>1. asleep' \in [Device -> SUBSET {"program", "command"}] /\ cwait' \subseteq User
      BY <1>1, <1>3, <1>5 DEF Typed, DeviceTyped
    <2> QED
      BY <1>1, <1>6, <1>7, <1>8, <2>1 DEF Typed, CacheTyped, DeviceTyped, CmdTyped, ThreadsTyped,
         WriterUnchanged, devVars, cmdVars
  <1>10. Frame({}, e)
    BY <1>1, <1>6 DEF Frame, EntrySame, WriterUnchanged
  <1>11. \A v \in Writer : WriterOK(v)'
    <2>1. \A v \in Writer : v # w => WriterOK(v)'
      BY <1>2, <1>7, <1>10, FrameWriter
    <2>2. WriterOK(w)'
      BY <1>7 DEF WriterOK, WrPc
    <2> QED
      BY <2>1, <2>2
  <1>12. WritersApart' /\ KeysApart'
    BY <1>1, <1>7 DEF CacheInv, WritersApart, KeysApart, WrPc, WriterUnchanged
  <1>13. \A y \in Entry : EntryOK(y)' /\ ("active" \in flag'[y] => "active" \in flag[y])
    <2>1. Shape(flag'[e])
      BY <1>2, <1>6 DEF EntryOK, Shape
    <2>2. EntryOK(e)'
      BY <1>1, <1>2, <1>3, <2>1, OfTracks DEF EntryOK, WriterUnchanged
    <2>3. \A y \in Entry : y # e => EntryOK(y)'
      BY <1>1, <1>6 DEF CacheInv, EntryOK, WriterUnchanged
    <2> QED
      BY <1>6, <2>2, <2>3
  <1>14. Aside(e)
    BY <1>2, <1>4, <1>8, <1>9, <1>10, <1>11, <1>12, <1>13 DEF Aside
  <1> QED
    BY <1>14, AssembleAside
-----------------------------------------------------------------------------
(* Filling an entry.                                                         *)

LEMMA FillerEntry ==
    ASSUME CacheInv, NEW p \in User, th[p].pc \in Filling, NEW e, e = th[p].ent
    PROVE  /\ Fills(p) /\ e \in Entry /\ key[e] = th[p].key /\ key[e] \in Key
           /\ "reading" \in flag[e] /\ flag[e] \subseteq {"reading", "active", "iowait"}
           /\ EntryOK(e) /\ \A q \in User : q # p => ~(Fills(q) /\ th[q].ent = e)
           /\ p \in Device => flag[e] = {"reading", "active"} /\ ioactive[p] /\ key[e] \in Of(p)
  <1>1. Fills(p)
    BY DEF Fills
  <1>2. /\ e \in Entry /\ key[e] = th[p].key /\ key[e] \in Key /\ "reading" \in flag[e]
        /\ p \in Device => flag[e] = {"reading", "active"} /\ ioactive[p] /\ key[e] \in Of(p)
    BY <1>1, FillsEntry
  <1>3. EntryOK(e) /\ FillersApart
    BY <1>2 DEF CacheInv
  <1> QED
    BY <1>1, <1>2, <1>3 DEF FillersApart, EntryOK, Shape

LEMMA FillOthers ==
    ASSUME CacheInv, NEW p \in User, th[p].pc \in Filling, NEW e, e = th[p].ent,
           NEW K, p \in Device => K = Of(p), p \in Reader => K = {},
           key' = key, file' = file, \A y \in Entry : y # e => EntrySame(y),
           p \in Reader => flag'[e] \subseteq flag[e] /\ ("active" \in flag[e] => "active" \in flag'[e]),
           \A q \in User : q # p => th'[q] = th[q],
           \A c \in Device : c # p => cur'[c] = cur[c] /\ bufcur'[c] = bufcur[c], ioactive' = ioactive
    PROVE  Others(K, e, p)
  <1>1. /\ e \in Entry /\ \A q \in User : q # p => ~(Fills(q) /\ th[q].ent = e)
        /\ p \in Device => key[e] \in Of(p)
    BY FillerEntry
  <1>2. Frame(K, e)
    BY <1>1, OfTracks DEF Frame, EntrySame
  <1>3. \A c \in Device : c # p => ProgSame(c) /\ \A k \in Of(c) : k \notin K
    BY OfTracks DEF ProgSame, ThreadSame
  <1>4. \A r \in Reader : r # p => ReaderSame(r)
    BY OfTracks DEF ReaderSame, ThreadSame
  <1> QED
    BY <1>1, <1>2, <1>3, <1>4 DEF Others

LEMMA FillInv == ASSUME CacheInv, NEW p \in User, Fill(p) PROVE CacheInv'
  <1>0. PICK e : e = th[p].ent
    OBVIOUS
  <1>k. PICK K : K = IF p \in Device THEN Of(p) ELSE {}
    OBVIOUS
  <1>1. /\ Typed /\ th \in [User -> Thread] /\ th[p].pc = "fill" /\ th[p].pc \in Filling
        /\ img' = [img EXCEPT ![e] = [of |-> th[p].key, ver |-> file[th[p].key]]]
        /\ Goto(p, "filled") /\ "filled" \in ProgramPc /\ "filled" \in ReaderPc
        /\ UNCHANGED <<key, flag, file, devVars, wrpending, wrqueued, cmdVars, asleep, cwait, raq, wr, gc>>
    BY <1>0 DEF CacheInv, Typed, ThreadsTyped, Fill, Filling, ProgramPc, ReaderPc
  <1>2. /\ Fills(p) /\ e \in Entry /\ key[e] = th[p].key /\ key[e] \in Key
        /\ "reading" \in flag[e] /\ "writing" \notin flag[e] /\ EntryOK(e)
    BY <1>0, <1>1, FillerEntry
  <1>3. /\ th' \in [User -> Thread] /\ \A q \in User : q # p => th'[q] = th[q]
        /\ th'[p].pc = "filled" /\ th'[p].key = th[p].key /\ th'[p].ent = e
        /\ (th'[p].seq <=> th[p].seq)
    BY <1>0, <1>1, GotoTo
  <1>4. /\ img' \in [Entry -> [of : Key \cup {NoKey}, ver : Nat]]
        /\ img'[e] = [of |-> th[p].key, ver |-> file[th[p].key]]
        /\ \A y \in Entry : y # e => img'[y] = img[y]
    BY <1>1, <1>2 DEF Typed, CacheTyped
  <1>5. \A y \in Entry : y # e => EntrySame(y)
    BY <1>1, <1>4 DEF EntrySame
  <1>6. Others(K, e, p)
    BY <1>0, <1>k, <1>1, <1>3, <1>5, OfTracks, FillOthers DEF devVars
  <1>7. Typed'
    BY <1>1, <1>3, <1>4 DEF Typed, CacheTyped, DeviceTyped, CmdTyped, ThreadsTyped, devVars, cmdVars
  <1>8. CountsOK' /\ KeysApart'
    BY <1>1, CountsSame DEF SameWrites, CacheInv, KeysApart
  <1>9. EntryOK(e)'
    BY <1>1, <1>2 DEF EntryOK, Clean
  <1>10. \A d \in Device : ThreadSame(d) \/ (d = p /\ th[d].pc = "fill" /\ th'[d].pc = "filled")
    BY <1>1, <1>3, OfTracks DEF ThreadSame
  <1>11. \A y \in Entry : "active" \in flag'[y] => \E d \in Device : key'[y] \in Of(d) /\ Holds(d, y)'
    <2> SUFFICES ASSUME NEW y \in Entry, "active" \in flag'[y]
                 PROVE  \E d \in Device : key'[y] \in Of(d) /\ Holds(d, y)'
      OBVIOUS
    <2>1. PICK d \in Device : key[y] \in Of(d) /\ Holds(d, y)
      BY <1>1 DEF CacheInv, ActiveHeld
    <2>2. \/ th'[d].pc \in Filling \cup {"hitwait", "sched"} /\ th'[d].ent = th[d].ent
          \/ th[d].pc \notin Filling \cup {"hitwait", "sched"}
      BY <1>0, <1>3, <1>10 DEF ThreadSame, Filling
    <2> QED
      BY <1>1, <2>1, <2>2 DEF Holds, devVars
  <1>12. p \in Device => ProgramOK(p)'
    <2> SUFFICES ASSUME p \in Device PROVE ProgramOK(p)'
      OBVIOUS
    <2>1. ProgramOK(p)
      BY DEF CacheInv
    <2> QED
      BY <1>0, <1>1, <1>3, <2>1 DEF ProgramOK, CurrentOK, WantedOK, Filling, Searching, devVars
  <1>13. p \in Reader => ReaderOK(p)'
    BY <1>0, <1>1, <1>2, <1>3 DEF CacheInv, ReaderOK, Filling, Searching
  <1>14. FilledOK(p)'
    BY <1>1, <1>2, <1>3, <1>4 DEF FilledOK
  <1>15. \A d \in Device : CommandOK(d)'
    <2>1. \A r \in Reader : ReaderSame(r) \/ (th[r].pc = "fill" /\ th'[r].key = th[r].key)
      BY <1>1, <1>3, OfTracks DEF ReaderSame, ThreadSame
    <2>2. \A d \in Device : Reading(d)' \subseteq Reading(d)
      BY <2>1, ReadingStays
    <2>3. \A d \in Device : Enters(d)
      BY <1>10 DEF ThreadSame, Enters
    <2> QED
      BY <1>1, <2>2, <2>3, CommandsStay DEF devVars, cmdVars
  <1>16. Mine(K, e, p)
    BY <1>0, <1>1, <1>2, <1>3, <1>5, <1>7, <1>8, <1>9, <1>11, <1>12, <1>13, <1>14, <1>15 DEF Mine
  <1> QED
    BY <1>6, <1>16, Assemble

LEMMA FillDoneInv == ASSUME CacheInv, NEW p \in User, FillDone(p) PROVE CacheInv'
  <1>0. PICK e : e = th[p].ent
    OBVIOUS
  <1>k. PICK K : K = IF p \in Device THEN Of(p) ELSE {}
    OBVIOUS
  <1>1. /\ Typed /\ th \in [User -> Thread] /\ th[p].pc = "filled" /\ th[p].pc \in Filling
        /\ flag \in [Entry -> SUBSET Flag]
        /\ SetFlag(Off(flag, e, {"reading"}))
        /\ asleep' = asleep \/ asleep' = [asleep EXCEPT ![th[p].key[1]] = {}]
        /\ p \in Device => /\ cur' = [cur EXCEPT ![p] = e]
                           /\ bufcur' = [bufcur EXCEPT ![p] = th[p].key[2]]
        /\ p \notin Device => cur' = cur /\ bufcur' = bufcur
        /\ Goto(p, "read") /\ "read" \in ProgramPc /\ "read" \in ReaderPc
        /\ UNCHANGED <<key, img, file, ioactive, updated, wrpending, wrqueued, cmdVars, raq, wr, gc>>
    <2>1. /\ Typed /\ th \in [User -> Thread] /\ flag \in [Entry -> SUBSET Flag]
          /\ "read" \in ProgramPc /\ "read" \in ReaderPc
      BY DEF CacheInv, Typed, ThreadsTyped, CacheTyped, ProgramPc, ReaderPc
    <2>2. /\ th[p].pc = "filled" /\ th[p].pc \in Filling /\ SetFlag(Off(flag, e, {"reading"}))
          /\ Goto(p, "read")
          /\ UNCHANGED <<key, img, file, ioactive, updated, wrpending, wrqueued, cmdVars, raq, wr, gc>>
      BY <1>0 DEF FillDone, Filling
    <2>3. asleep' = asleep \/ asleep' = [asleep EXCEPT ![th[p].key[1]] = {}]
      BY DEF FillDone, Broadcast
    <2>4. /\ p \in Device => /\ cur' = [cur EXCEPT ![p] = e]
                             /\ bufcur' = [bufcur EXCEPT ![p] = th[p].key[2]]
          /\ p \notin Device => cur' = cur /\ bufcur' = bufcur
      <3>1. p \in Device => th[p].key[1] = p
        <4>1. p \in Device => th[p].key \in Of(p)
          BY <2>2 DEF CacheInv, ProgramOK, WantedOK
        <4> QED
          BY <4>1, OfTracks
      <3> QED
        BY <1>0, <3>1 DEF FillDone
    <2> QED
      BY <2>1, <2>2, <2>3, <2>4
  <1>2. /\ Fills(p) /\ e \in Entry /\ key[e] = th[p].key /\ key[e] \in Key /\ "reading" \in flag[e]
        /\ flag[e] \subseteq {"reading", "active", "iowait"} /\ "writing" \notin flag[e] /\ EntryOK(e)
        /\ p \in Device => flag[e] = {"reading", "active"} /\ ioactive[p] /\ key[e] \in Of(p)
    <2>1. th[p].pc \in Filling /\ e = th[p].ent
      BY <1>0, <1>1
    <2>2. /\ Fills(p) /\ e \in Entry /\ key[e] = th[p].key /\ key[e] \in Key /\ "reading" \in flag[e]
          /\ flag[e] \subseteq {"reading", "active", "iowait"} /\ EntryOK(e)
          /\ p \in Device => flag[e] = {"reading", "active"} /\ ioactive[p] /\ key[e] \in Of(p)
      BY <2>1, FillerEntry
    <2> QED
      BY <2>2
  <1>3. /\ th' \in [User -> Thread] /\ \A q \in User : q # p => th'[q] = th[q]
        /\ th'[p].pc = "read" /\ th'[p].key = th[p].key /\ (th'[p].seq <=> th[p].seq)
    BY <1>1, GotoTo
  <1>4. flag' = [flag EXCEPT ![e] = flag[e] \ {"reading"}] /\ cwait' \subseteq cwait
    BY <1>1, <1>2, Signalled, Bits
  <1>5. /\ flag'[e] = flag[e] \ {"reading"} /\ flag'[e] \subseteq {"active", "iowait"}
        /\ flag' \in [Entry -> SUBSET Flag] /\ \A y \in Entry : y # e => flag'[y] = flag[y]
        /\ p \in Device => flag'[e] = {"active"}
    BY <1>1, <1>2, <1>4
  <1>6. \A y \in Entry : y # e => EntrySame(y)
    BY <1>1, <1>5 DEF EntrySame
  <1>7. /\ cur' \in [Device -> Entry \cup {NoEntry}] /\ bufcur' \in [Device -> Track \cup {0}]
        /\ \A c \in Device : c # p => cur'[c] = cur[c] /\ bufcur'[c] = bufcur[c]
        /\ p \in Device => cur'[p] = e /\ bufcur'[p] = th[p].key[2] /\ bufcur'[p] \in Track
                           /\ key[e] = <<p, bufcur'[p]>>
    <2>1. \E d \in Device, t \in Track : /\ th[p].key = <<d, t>> /\ th[p].key[1] = d /\ th[p].key[2] = t
                                         /\ p \in Device => d = p
      BY <1>2, OfTracks
    <2>2. PICK d \in Device, t \in Track : /\ th[p].key = <<d, t>> /\ th[p].key[2] = t
                                           /\ p \in Device => d = p
      BY <2>1
    <2>3. cur \in [Device -> Entry \cup {NoEntry}] /\ bufcur \in [Device -> Track \cup {0}]
      BY <1>1 DEF Typed, DeviceTyped
    <2>4. CASE p \in Device
      <3>0. key[e] = <<p, t>>
        BY <1>2, <2>2, <2>4
      <3>a. th[p].key[2] = t
        BY <2>2
      <3>1. cur' = [cur EXCEPT ![p] = e] /\ bufcur' = [bufcur EXCEPT ![p] = t]
        BY <1>1, <2>4, <3>a
      <3>2. /\ cur' \in [Device -> Entry \cup {NoEntry}] /\ bufcur' \in [Device -> Track \cup {0}]
            /\ cur'[p] = e /\ bufcur'[p] = t
            /\ \A c \in Device : c # p => cur'[c] = cur[c] /\ bufcur'[c] = bufcur[c]
        BY <1>2, <2>3, <2>4, <3>1
      <3> QED
        BY <3>0, <3>a, <3>2
    <2>5. CASE p \notin Device
      <3>1. cur' = cur /\ bufcur' = bufcur
        BY <1>1, <2>5
      <3> QED
        BY <2>3, <2>5, <3>1
    <2> QED
      BY <2>4, <2>5
  <1>b. th[p].key[1] \in Device
    BY <1>2, OfTracks
  <1>8. Others(K, e, p)
    <2>1. p \in Reader => flag'[e] \subseteq flag[e] /\ ("active" \in flag[e] => "active" \in flag'[e])
      BY <1>5
    <2> QED
      BY <1>0, <1>k, <1>1, <1>3, <1>6, <1>7, <2>1, OfTracks, FillOthers
  <1>9. Typed'
    <2>1. asleep' \in [Device -> SUBSET {"program", "command"}] /\ cwait' \subseteq User
      BY <1>1, <1>4, <1>b DEF Typed, DeviceTyped
    <2> QED
      BY <1>1, <1>3, <1>5, <1>7, <2>1 DEF Typed, CacheTyped, DeviceTyped, CmdTyped, ThreadsTyped, cmdVars
  <1>10. CountsOK' /\ KeysApart'
    <2>1. SameWrites(flag')
      BY <1>2, <1>5 DEF SameWrites
    <2> QED
      BY <1>1, <2>1, CountsSame DEF CacheInv, KeysApart
  <1>11. EntryOK(e)'
    <2>1. img[e] = [of |-> th[p].key, ver |-> file[th[p].key]]
      BY <1>0, <1>1 DEF CacheInv, FilledOK
    <2>2. Shape(flag'[e])
      BY <1>2, <1>5 DEF EntryOK, Shape
    <2> QED
      BY <1>1, <1>2, <2>1, <2>2, OfTracks DEF EntryOK
  <1>12. \A y \in Entry : "active" \in flag'[y] =>
            \/ "active" \in flag[y] /\ key[y] \notin K
            \/ \E d \in Device : key'[y] \in Of(d) /\ Holds(d, y)'
    <2>1. CASE p \in Device
      <3>1. Holds(p, e)' /\ key'[e] \in Of(p)
        BY <1>1, <1>2, <1>7, <2>1 DEF Holds
      <3>2. ASSUME NEW y \in Entry, y # e, key[y] \in Of(p), "active" \in flag[y] PROVE FALSE
        <4>1. PICK c \in Device : key[y] \in Of(c) /\ Holds(c, y)
          BY <3>2 DEF CacheInv, ActiveHeld
        <4>2. c = p
          BY <2>1, <3>2, <4>1, OfTracks
        <4>3. cur[p] = NoEntry
          BY <1>1, <2>1 DEF CacheInv, ProgramOK, CurrentOK
        <4> QED
          BY <4>1, <4>2, <4>3, <3>2, <1>0, OfTracks DEF Holds
      <3> QED
        BY <3>1, <3>2, <1>k, <1>5, <2>1
    <2>2. CASE p \notin Device
      BY <2>2, <1>k, <1>5
    <2> QED
      BY <2>1, <2>2
  <1>13. p \in Device => ProgramOK(p)'
    <2> SUFFICES ASSUME p \in Device PROVE ProgramOK(p)'
      OBVIOUS
    <2>1. CurrentOK(p)' /\ WantedOK(p)'
      BY <1>1, <1>2, <1>3, <1>5, <1>7 DEF CurrentOK, WantedOK, Filling, Searching
    <2> QED
      BY <1>1, <1>2, <1>3, <2>1 DEF ProgramOK
  <1>14. p \in Reader => ReaderOK(p)'
    BY <1>1, <1>3 DEF CacheInv, ReaderOK, Filling, Searching
  <1>15. FilledOK(p)' /\ ~Fills(p)'
    BY <1>3 DEF FilledOK, Fills, Filling
  <1>16. \A d \in Device : CommandOK(d)'
    <2>1. \A r \in Reader : ReaderSame(r) \/ (th[r].pc = "filled" /\ th'[r].key = th[r].key)
      BY <1>1, <1>3, OfTracks DEF ReaderSame, ThreadSame
    <2>2. \A d \in Device : Reading(d)' \subseteq Reading(d)
      BY <2>1, ReadingStays
    <2>3. \A d \in Device : Enters(d)
      BY <1>3, OfTracks DEF Enters
    <2> QED
      BY <1>1, <2>2, <2>3, CommandsStay DEF cmdVars
  <1>17. Mine(K, e, p)
    BY <1>1, <1>2, <1>6, <1>9, <1>10, <1>11, <1>12, <1>13, <1>14, <1>15, <1>16 DEF Mine
  <1> QED
    BY <1>8, <1>17, Assemble
-----------------------------------------------------------------------------
(* Commands.                                                                 *)

\* The commands of the other devices.
LEMMA CommandsElse ==
    ASSUME CacheInv, NEW d \in Device, UNCHANGED <<th, ioactive>>,
           \A c \in Device : c # d => cmd'[c] = cmd[c] /\ merging'[c] = merging[c] /\ stopping'[c] = stopping[c],
           \A e \in Entry : key'[e] = key[e] \/ key'[e] = NoKey
    PROVE  \A c \in Device : c # d => CommandOK(c)'
  <1> SUFFICES ASSUME NEW c \in Device, c # d PROVE CommandOK(c)'
    OBVIOUS
  <1>1. Reading(c)' = Reading(c)
    BY DEF Reading
  <1>2. CommandOK(c) /\ cmd'[c] = cmd[c] /\ merging'[c] = merging[c] /\ stopping'[c] = stopping[c]
    BY DEF CacheInv
  <1>3. \A e \in Entry : key'[e] \in Of(c) => key[e] \in Of(c)
    BY OfTracks
  <1> QED
    BY <1>1, <1>2, <1>3 DEF CommandOK

LEMMA CommandTo ==
    ASSUME cmd \in [Device -> CmdRec], NEW d \in Device, NEW c \in CmdRec, cmd' = [cmd EXCEPT ![d] = c]
    PROVE  cmd' \in [Device -> CmdRec] /\ cmd'[d] = c /\ \A b \in Device : b # d => cmd'[b] = cmd[b]
  OBVIOUS

\* A writer is signalled, or created, when writes wait.
LEMMA WritersCalled ==
    ASSUME CacheInv, wr' \in IF wrqueued # 0 THEN Scheduled(wr, Writer) ELSE {wr}
    PROVE  /\ wr' \in [Writer -> WriterRec]
           /\ \A w \in Writer : wr'[w] = wr[w] \/ wr'[w].pc \notin WrPc
           /\ Queued # {} => Awake'
  <1>1. wr \in [Writer -> WriterRec] /\ CountsOK
    BY DEF CacheInv, Typed, ThreadsTyped
  <1>2. CASE wrqueued # 0
    BY <1>1, <1>2, ScheduledAwake DEF Awake
  <1>3. CASE wrqueued = 0
    BY <1>1, <1>3 DEF CountsOK, Awake
  <1> QED
    BY <1>2, <1>3

\* Nothing of the device is in use.
Drained(d) ==
  /\ ~ioactive[d]
  /\ \A e \in Entry : key[e] \in Of(d) => flag[e] \in {{}, {"reading"}} /\ ~InIo(e)

LEMMA DrainedNow ==
    ASSUME CacheInv, NEW d \in Device, Flushable(d, flag) = {}, wrpending[d] = 0, ~ioactive[d],
           Reading(d) = {}
    PROVE  Drained(d)
  <1> SUFFICES ASSUME NEW e \in Entry, key[e] \in Of(d) PROVE flag[e] \in {{}, {"reading"}} /\ ~InIo(e)
    BY DEF Drained
  <1>1. EntryOK(e) /\ CountsOK
    BY DEF CacheInv
  <1>2. "write" \notin flag[e] /\ "writing" \notin flag[e]
    <2>1. Pend(d) \subseteq Entry /\ Cardinality(Pend(d)) = 0
      BY <1>1 DEF CountsOK, Pend
    <2>2. Pend(d) = {}
      BY <2>1, Finite
    <2> QED
      BY <2>2 DEF Pend
  <1>3. "active" \notin flag[e]
    <2> SUFFICES ASSUME "active" \in flag[e] PROVE FALSE
      OBVIOUS
    <2>1. PICK c \in Device : key[e] \in Of(c) /\ Holds(c, e)
      BY DEF CacheInv, ActiveHeld
    <2>2. c = d
      BY <2>1, OfTracks
    <2> QED
      BY <2>1, <2>2 DEF Holds
  <1>4. flag[e] # {"updated"}
    BY DEF Flushable, Of
  <1>5. flag[e] \in {{}, {"reading"}}
    <2>1. "iowait" \notin flag[e]
      BY <1>1, <1>3 DEF EntryOK, Shape
    <2>2. flag[e] \subseteq {"updated"} \/ flag[e] \subseteq {"reading"}
      BY <1>1, <1>2, <1>3, <2>1 DEF EntryOK, Shape
    <2> QED
      BY <1>4, <2>2
  <1>6. ASSUME NEW p \in User, Fills(p), th[p].ent = e PROVE FALSE
    <2>1. /\ th[p].key = key[e]
          /\ p \in Device => ioactive[p] /\ th[p].key \in Of(p)
      BY <1>6, FillsEntry
    <2>2. CASE p \in Device
      BY <2>1, <2>2, OfTracks
    <2>3. CASE p \in Reader
      <3>1. th[p].pc \in Filling
        BY <1>6, <2>3 DEF CacheInv, ReaderOK, Fills, ReaderPc
      <3>2. th[p].key[1] = d
        BY <1>6, FillsEntry, OfTracks
      <3> QED
        BY <2>3, <3>1, <3>2 DEF Reading, Filling
    <2> QED
      BY <2>2, <2>3, OfTracks
  <1> QED
    BY <1>2, <1>5, <1>6 DEF InIo

\* The entries of a drained device are released.
LEMMA PurgeInv ==
    ASSUME CacheInv, NEW d \in Device, Purge(d), Drained(d),
           UNCHANGED <<img, file, ioactive, updated, raq, th, gc, wrpending, wrqueued>>,
           wr' \in [Writer -> WriterRec], \A w \in Writer : wr'[w] = wr[w] \/ wr'[w].pc \notin WrPc,
           Queued # {} => Awake', CmdTyped', asleep' \in [Device -> SUBSET {"program", "command"}],
           \A c \in Device : CommandOK(c)'
    PROVE  CacheInv'
  <1>1. /\ Typed /\ ProgramOK(d) /\ CountsOK /\ ~ioactive[d] /\ key \in [Entry -> Key \cup {NoKey}]
        /\ flag \in [Entry -> SUBSET Flag]
    BY DEF CacheInv, Drained, Typed, CacheTyped
  <1>2. /\ key' \in [Entry -> Key \cup {NoKey}]
        /\ flag' \in [Entry -> SUBSET Flag] /\ cwait' \subseteq cwait
        /\ \A e \in Entry : key[e] \in Of(d) => key'[e] = NoKey /\ flag'[e] = {}
        /\ \A e \in Entry : key[e] \notin Of(d) => key'[e] = key[e] /\ flag'[e] = flag[e]
    <2>1. PICK f : f = [e \in Entry |-> IF e \in {x \in Entry : key[x] \in {d} \X Track} THEN {} ELSE flag[e]]
      OBVIOUS
    <2>2. flag' = f /\ cwait' \subseteq cwait
      BY <2>1, Signalled DEF Purge
    <2>3. key' = [e \in Entry |-> IF e \in {x \in Entry : key[x] \in {d} \X Track} THEN NoKey ELSE key[e]]
      BY DEF Purge
    <2> QED
      BY <1>1, <2>1, <2>2, <2>3 DEF Of
  <1>3. /\ cur' \in [Device -> Entry \cup {NoEntry}] /\ bufcur' \in [Device -> Track \cup {0}]
        /\ cur'[d] = NoEntry
        /\ \A c \in Device : c # d => cur'[c] = cur[c] /\ bufcur'[c] = bufcur[c]
    <2>1. cur' = [cur EXCEPT ![d] = NoEntry] /\ bufcur' = [bufcur EXCEPT ![d] = 0]
      BY DEF Purge
    <2> QED
      BY <1>1, <2>1 DEF Typed, DeviceTyped
  <1>4. Typed'
    BY <1>1, <1>2, <1>3 DEF Typed, CacheTyped, DeviceTyped, ThreadsTyped
  <1>5. \A e \in Entry : key[e] \in Of(d) => "write" \notin flag[e] /\ "writing" \notin flag[e] /\ ~InIo(e)
    BY DEF Drained
  <1>6. CountsOK'
    <2>1. Queued' = Queued
      BY <1>2, <1>5 DEF Queued
    <2>2. ASSUME NEW c \in Device PROVE Pend(c)' = Pend(c)
      <3>1. \A e \in Entry : (key'[e] \in Of(c) /\ flag'[e] \cap {"write", "writing"} # {})
                              <=> (key[e] \in Of(c) /\ flag[e] \cap {"write", "writing"} # {})
        BY <1>2, <1>5, OfTracks
      <3> QED
        BY <3>1 DEF Pend
    <2> QED
      BY <1>1, <2>1, <2>2 DEF CountsOK
  <1>7. KeysApart'
    BY <1>2 DEF CacheInv, KeysApart
  <1>8. ProgramOK(d)'
    BY <1>1, <1>3 DEF ProgramOK, CurrentOK, WantedOK, Filling, Searching
  <1>9. \A e \in Entry : EntrySame(e) \/ EntryOK(e)'
    BY <1>2 DEF EntrySame, EntryOK, Shape
  <1>10. Others(Of(d), NoEntry, d)
    <2>1. Frame(Of(d), NoEntry)
      BY <1>2, <1>5, OfTracks DEF Frame, EntrySame
    <2>2. \A p \in User : ~(Fills(p) /\ th[p].ent = NoEntry)
      BY FillsEntry, OfTracks
    <2> QED
      BY <1>3, <2>1, <2>2, OfTracks DEF Others, ProgSame, ThreadSame, ReaderSame
  <1>11. FilledOK(d)' /\ ~Fills(d)'
    BY <1>1 DEF FilledOK, Fills, Filling, ProgramOK
  <1>12. \A e \in Entry : "active" \in flag'[e] => "active" \in flag[e] /\ key[e] \notin Of(d)
    BY <1>2
  <1>13. Mine(Of(d), NoEntry, d)
    BY <1>4, <1>6, <1>7, <1>8, <1>9, <1>11, <1>12, OfTracks DEF Mine
  <1> QED
    BY <1>10, <1>13, Assemble

\* Flush, wait and purge, for a command that is to go on with c.
LEMMA DrainInv ==
    ASSUME CacheInv, NEW d \in Device, NEW c \in CmdRec, Drain(d, c), CmdUnchanged, Reading(d) = {},
           merging' \in [Device -> BOOLEAN], stopping' \in [Device -> BOOLEAN], chain' \subseteq Device,
           \A b \in Device : b # d => merging'[b] = merging[b] /\ stopping'[b] = stopping[b],
           c.op = "close" => c.pc = "unchain", c.op # "close" => c.pc = "file",
           merging'[d] <=> c.op # "close", stopping'[d] <=> c.op = "close",
           stopping'[d] => th[d].pc # "startwait",
           cmd'[d].pc = "unchain" => th[d].pc # "start"
    PROVE  CacheInv'
  <1>1. /\ Typed /\ cmd \in [Device -> CmdRec] /\ wr \in [Writer -> WriterRec]
        /\ asleep \in [Device -> SUBSET {"program", "command"}]
        /\ UNCHANGED <<img, file, ioactive, updated, raq, th, gc>> /\ Reading(d)' = {}
    BY DEF CacheInv, Typed, CmdTyped, ThreadsTyped, DeviceTyped, CmdUnchanged, Reading
  <1>2. CASE /\ Flushable(d, flag) = {} /\ wrpending[d] = 0 /\ ~ioactive[d]
             /\ Purge(d)
             /\ wr' \in IF wrqueued # 0 THEN Scheduled(wr, Writer) ELSE {wr}
             /\ asleep' = asleep \/ asleep' = [asleep EXCEPT ![d] = {}]
             /\ cmd' = [cmd EXCEPT ![d] = c]
             /\ UNCHANGED <<wrpending, wrqueued>>
    <2>1. Drained(d)
      BY <1>2, DrainedNow
    <2>2. cmd' \in [Device -> CmdRec] /\ cmd'[d] = c /\ \A b \in Device : b # d => cmd'[b] = cmd[b]
      BY <1>1, <1>2, CommandTo
    <2>3. CmdTyped' /\ asleep' \in [Device -> SUBSET {"program", "command"}]
      BY <1>1, <1>2, <2>2 DEF CmdTyped
    <2>4. /\ \A e \in Entry : key'[e] = key[e] \/ key'[e] = NoKey
          /\ \A e \in Entry : key'[e] \notin Of(d)
      BY <1>2, OfTracks DEF Purge, Of
    <2>5. \A b \in Device : b # d => CommandOK(b)'
      BY <1>1, <2>2, <2>4, CommandsElse
    <2>6. CommandOK(d)'
      BY <1>1, <1>2, <2>2, <2>4 DEF CommandOK
    <2>7. /\ wr' \in [Writer -> WriterRec]
          /\ \A w \in Writer : wr'[w] = wr[w] \/ wr'[w].pc \notin WrPc
          /\ Queued # {} => Awake'
      BY <1>2, WritersCalled
    <2>8. \A b \in Device : CommandOK(b)'
      BY <2>5, <2>6
    <2> QED
      BY <1>1, <1>2, <2>1, <2>3, <2>7, <2>8, PurgeInv
  <1>3. CASE /\ Flush(d, flag)
             /\ asleep' = [asleep EXCEPT ![d] = @ \cup {"command"}]
             /\ cmd' = [cmd EXCEPT ![d] = [c EXCEPT !.pc = "drain"]]
             /\ UNCHANGED <<key, cur, bufcur>>
    <2>1. PICK b : b = [c EXCEPT !.pc = "drain"]
      OBVIOUS
    <2>2. b \in CmdRec /\ b.pc = "drain" /\ b.op = c.op
      BY <2>1 DEF CmdRec
    <2>3. cmd' = [cmd EXCEPT ![d] = b]
      BY <1>3, <2>1
    <2>4. cmd' \in [Device -> CmdRec] /\ cmd'[d] = b /\ \A a \in Device : a # d => cmd'[a] = cmd[a]
      BY <1>1, <2>2, <2>3, CommandTo
    <2>5. CmdTyped'
      BY <2>4 DEF CmdTyped
    <2>6. DeviceTyped'
      <3>1. cwait' \subseteq cwait
        BY <1>3, Signalled DEF Flush
      <3> QED
        BY <1>1, <1>3, <3>1 DEF Typed, DeviceTyped
    <2>7. \A a \in Device : a # d => CommandOK(a)'
      BY <1>1, <1>3, <2>4, CommandsElse
    <2>8. CommandOK(d)'
      BY <1>1, <2>2, <2>4 DEF CommandOK
    <2>9. \A a \in Device : ProgSame(a) /\ CommandOK(a)'
      BY <1>1, <1>3, <2>7, <2>8 DEF ProgSame, ThreadSame
    <2>10. \A r \in Reader : ReaderSame(r)
      BY <1>1 DEF ReaderSame, ThreadSame
    <2>11. /\ raq' \subseteq Key /\ th' \in [User -> Thread]
           /\ gc' \in [pc : {"none", "wait", "pass", "flush"}, todo : SUBSET Device, dev : Device]
      BY <1>1 DEF Typed, ThreadsTyped
    <2> QED
      BY <1>1, <1>3, <2>5, <2>6, <2>9, <2>10, <2>11, FlushInv
  <1> QED
    BY <1>2, <1>3 DEF Drain, Broadcast

LEMMA CmdBeginInv ==
    ASSUME CacheInv, NEW d \in Device, NEW op \in Operation \ {"close"}, CmdBegin(d, op), Reading(d) = {}
    PROVE  CacheInv'
  <1>0. PICK c : c = [pc |-> "file", op |-> op, given |-> cmd[d].given + 1]
    OBVIOUS
  <1>1. Typed /\ CommandOK(d) /\ cmd[d] \in CmdRec
    BY TypedFacts DEF CacheInv
  <1>2. /\ c \in CmdRec /\ c.pc = "file" /\ c.op # "close"
    BY <1>0, <1>1, ConstantsAssumption DEF CmdRec, CmdBegin
  <1>3. merging' = [merging EXCEPT ![d] = TRUE] /\ UNCHANGED <<stopping, chain>> /\ CmdUnchanged
        /\ Drain(d, c) /\ ~stopping[d]
    BY <1>0, <1>1 DEF CmdBegin, CommandOK
  <1>4. /\ merging' \in [Device -> BOOLEAN] /\ stopping' \in [Device -> BOOLEAN] /\ chain' \subseteq Device
        /\ merging'[d] /\ \A b \in Device : b # d => merging'[b] = merging[b] /\ stopping'[b] = stopping[b]
    BY <1>1, <1>3 DEF Typed, CmdTyped
  <1>5. cmd'[d].pc # "unchain"
    <2>1. \E b \in CmdRec : b.pc # "unchain" /\ cmd' = [cmd EXCEPT ![d] = b]
      <3>1. PICK b : b = [c EXCEPT !.pc = "drain"]
        OBVIOUS
      <3>2. b \in CmdRec /\ b.pc = "drain"
        BY <1>2, <3>1 DEF CmdRec
      <3> QED
        BY <1>2, <1>3, <3>1, <3>2 DEF Drain
    <2> QED
      BY <1>1, <2>1 DEF Typed, CmdTyped
  <1> QED
    BY <1>2, <1>3, <1>4, <1>5, DrainInv

LEMMA CmdWokenInv ==
    ASSUME CacheInv, NEW d \in Device, CmdWoken(d), cmd'[d].pc = "unchain" => th[d].pc # "start"
    PROVE  CacheInv'
  <1>0. PICK c : c = [cmd[d] EXCEPT !.pc = IF cmd[d].op = "close" THEN "unchain" ELSE "file"]
    OBVIOUS
  <1>1. Typed /\ CommandOK(d) /\ cmd[d] \in CmdRec
    BY TypedFacts DEF CacheInv
  <1>2. /\ c \in CmdRec /\ c.op = cmd[d].op
        /\ c.op = "close" => c.pc = "unchain"
        /\ c.op # "close" => c.pc = "file"
    BY <1>0, <1>1 DEF CmdRec
  <1>3. /\ UNCHANGED <<merging, stopping, chain>> /\ CmdUnchanged /\ Drain(d, c) /\ cmd[d].pc = "drain"
    BY <1>0 DEF CmdWoken
  <1>4. /\ stopping[d] <=> c.op = "close"
        /\ stopping[d] => th[d].pc # "startwait"
        /\ merging[d] <=> c.op # "close"
        /\ Reading(d) = {}
    BY <1>1, <1>2, <1>3 DEF CommandOK
  <1>5. merging \in [Device -> BOOLEAN] /\ stopping \in [Device -> BOOLEAN] /\ chain \subseteq Device
    BY <1>1 DEF Typed, CmdTyped
  <1> QED
    BY <1>2, <1>3, <1>4, <1>5, DrainInv

LEMMA CloseDrainInv ==
    ASSUME CacheInv, NEW d \in Device, CloseDrain(d), cmd'[d].pc = "unchain" => th[d].pc # "start"
    PROVE  CacheInv'
  <1>0. PICK c : c = [cmd[d] EXCEPT !.pc = "unchain"]
    OBVIOUS
  <1>1. Typed /\ CommandOK(d) /\ cmd[d] \in CmdRec
    BY TypedFacts DEF CacheInv
  <1>2. /\ c \in CmdRec /\ c.op = cmd[d].op /\ c.pc = "unchain"
    BY <1>0, <1>1 DEF CmdRec
  <1>3. /\ UNCHANGED <<merging, stopping, chain>> /\ CmdUnchanged /\ Drain(d, c) /\ cmd[d].pc = "stop"
        /\ Reading(d) = {}
    BY <1>0 DEF CloseDrain
  <1>4. c.op = "close" /\ ~merging[d] /\ stopping[d] /\ th[d].pc # "startwait"
    BY <1>1, <1>2, <1>3 DEF CommandOK
  <1>5. merging \in [Device -> BOOLEAN] /\ stopping \in [Device -> BOOLEAN] /\ chain \subseteq Device
    BY <1>1 DEF Typed, CmdTyped
  <1> QED
    BY <1>2, <1>3, <1>4, <1>5, DrainInv

\* A command goes on without touching the entries.
LEMMA CommandMoves ==
    ASSUME CacheInv, NEW d \in Device, CmdUnchanged, UNCHANGED <<key, flag, cwait, cur, bufcur>>,
           UNCHANGED <<wrpending, wrqueued, wr>>, CmdTyped',
           asleep' \in [Device -> SUBSET {"program", "command"}],
           \A c \in Device : c # d => cmd'[c] = cmd[c] /\ merging'[c] = merging[c] /\ stopping'[c] = stopping[c],
           CommandOK(d)'
    PROVE  CacheInv'
  <1>1. Typed /\ UNCHANGED <<img, file, ioactive, updated, raq, th, gc>>
    BY DEF CacheInv, CmdUnchanged
  <1>2. \A c \in Device : CommandOK(c)'
    BY <1>1, CommandsElse
  <1>3. \A c \in Device : ProgSame(c) /\ CommandOK(c)'
    BY <1>1, <1>2 DEF ProgSame, ThreadSame
  <1>4. \A r \in Reader : ReaderSame(r)
    BY <1>1 DEF ReaderSame, ThreadSame
  <1>5. DeviceTyped' /\ ThreadsTyped'
    BY <1>1 DEF Typed, DeviceTyped, ThreadsTyped
  <1>6. Queued # {} => Awake'
    BY DEF CacheInv, CountsOK, Awake
  <1> QED
    BY <1>1, <1>3, <1>4, <1>5, <1>6, QuietInv

LEMMA CmdFileInv == ASSUME CacheInv, NEW d \in Device, CmdFile(d) PROVE CacheInv'
  <1>0. PICK c : c = [cmd[d] EXCEPT !.pc = "idle"]
    OBVIOUS
  <1>1. /\ Typed /\ CommandOK(d) /\ cmd[d] \in CmdRec /\ cmd \in [Device -> CmdRec] /\ cmd[d].pc = "file"
        /\ wr \in [Writer -> WriterRec]
    BY TypedFacts DEF CacheInv, Typed, CmdTyped, ThreadsTyped, CmdFile
  <1>2. c \in CmdRec /\ c.pc = "idle" /\ c.op = cmd[d].op
    BY <1>0, <1>1 DEF CmdRec
  <1>3. /\ merging' = [merging EXCEPT ![d] = FALSE] /\ cmd' = [cmd EXCEPT ![d] = c]
        /\ UNCHANGED <<wrpending, wrqueued, wr, stopping, chain>> /\ CmdUnchanged
    BY <1>0 DEF CmdFile
  <1>4. /\ cmd' \in [Device -> CmdRec] /\ cmd'[d] = c /\ \A b \in Device : b # d => cmd'[b] = cmd[b]
    BY <1>1, <1>2, <1>3, CommandTo
  <1>5. /\ CmdTyped' /\ ~merging'[d]
        /\ \A b \in Device : b # d => merging'[b] = merging[b] /\ stopping'[b] = stopping[b]
    BY <1>1, <1>3, <1>4 DEF Typed, CmdTyped
  <1>6. ~stopping[d] /\ c.op # "close" /\ ~ioactive[d] /\ \A e \in Entry : key[e] \notin Of(d)
    BY <1>1, <1>2 DEF CommandOK
  <1>7. CommandOK(d)'
    BY <1>2, <1>3, <1>4, <1>5, <1>6 DEF CommandOK
  <1>8. \/ asleep' = asleep \/ asleep' = [asleep EXCEPT ![d] = {}]
    BY DEF CmdFile, Broadcast
  <1>9. asleep' \in [Device -> SUBSET {"program", "command"}]
    BY <1>1, <1>8 DEF Typed, DeviceTyped
  <1>10. CASE UNCHANGED <<key, flag, cwait, cur, bufcur>>
    BY <1>3, <1>4, <1>5, <1>7, <1>9, <1>10, CommandMoves
  <1>11. CASE Purge(d)
    <2>1. Drained(d)
      BY <1>6 DEF Drained
    <2>2. UNCHANGED <<img, file, ioactive, updated, raq, th, gc>>
      BY <1>3 DEF CmdUnchanged
    <2>3. \A e \in Entry : key'[e] = key[e] \/ key'[e] = NoKey
      BY <1>11 DEF Purge
    <2>4. \A b \in Device : CommandOK(b)'
      BY <1>4, <1>5, <1>7, <2>2, <2>3, CommandsElse
    <2>5. Queued # {} => Awake'
      BY <1>3 DEF CacheInv, CountsOK, Awake
    <2> QED
      BY <1>1, <1>3, <1>5, <1>9, <1>11, <2>1, <2>2, <2>4, <2>5, PurgeInv
  <1> QED
    BY <1>10, <1>11 DEF CmdFile

LEMMA CloseBeginInv ==
    ASSUME CacheInv, NEW d \in Device, CloseBegin(d), ~stopping[d] => th[d].pc # "startwait"
    PROVE  CacheInv'
  <1>0. PICK c : c = [pc |-> "stop", op |-> "close", given |-> cmd[d].given + 1]
    OBVIOUS
  <1>1. /\ Typed /\ CommandOK(d) /\ cmd[d] \in CmdRec /\ cmd \in [Device -> CmdRec] /\ cmd[d].pc = "idle"
    BY TypedFacts DEF CacheInv, Typed, CmdTyped, CloseBegin
  <1>2. c \in CmdRec /\ c.pc = "stop" /\ c.op = "close"
    BY <1>0, <1>1, ConstantsAssumption DEF CmdRec, CloseBegin
  <1>3. /\ stopping' = [stopping EXCEPT ![d] = TRUE] /\ cmd' = [cmd EXCEPT ![d] = c]
        /\ UNCHANGED <<key, flag, cwait, cur, bufcur, asleep, wrpending, wrqueued, wr, merging, chain>>
        /\ CmdUnchanged
    BY <1>0, <1>1 DEF CloseBegin
  <1>4. /\ cmd' \in [Device -> CmdRec] /\ cmd'[d] = c /\ \A b \in Device : b # d => cmd'[b] = cmd[b]
    BY <1>1, <1>2, <1>3, CommandTo
  <1>5. /\ CmdTyped' /\ stopping'[d]
        /\ \A b \in Device : b # d => merging'[b] = merging[b] /\ stopping'[b] = stopping[b]
    BY <1>1, <1>3, <1>4 DEF Typed, CmdTyped
  <1>6. CommandOK(d)'
    BY <1>1, <1>2, <1>3, <1>4, <1>5 DEF CommandOK, CmdUnchanged
  <1>7. asleep' \in [Device -> SUBSET {"program", "command"}]
    BY <1>1, <1>3 DEF Typed, DeviceTyped
  <1> QED
    BY <1>3, <1>4, <1>5, <1>6, <1>7, CommandMoves

LEMMA CloseUnchainInv == ASSUME CacheInv, NEW d \in Device, CloseUnchain(d) PROVE CacheInv'
  <1>0. PICK c : c = [cmd[d] EXCEPT !.pc = "closed"]
    OBVIOUS
  <1>1. /\ Typed /\ CommandOK(d) /\ cmd[d] \in CmdRec /\ cmd \in [Device -> CmdRec] /\ cmd[d].pc = "unchain"
    BY TypedFacts DEF CacheInv, Typed, CmdTyped, CloseUnchain
  <1>2. c \in CmdRec /\ c.pc = "closed" /\ c.op = cmd[d].op
    BY <1>0, <1>1 DEF CmdRec
  <1>3. /\ cmd' = [cmd EXCEPT ![d] = c] /\ chain' = chain \ {d}
        /\ UNCHANGED <<key, flag, cwait, cur, bufcur, asleep, wrpending, wrqueued, wr, merging, stopping>>
        /\ CmdUnchanged
    BY <1>0 DEF CloseUnchain
  <1>4. /\ cmd' \in [Device -> CmdRec] /\ cmd'[d] = c /\ \A b \in Device : b # d => cmd'[b] = cmd[b]
    BY <1>1, <1>2, <1>3, CommandTo
  <1>5. CmdTyped'
    BY <1>1, <1>3, <1>4 DEF Typed, CmdTyped
  <1>6. CommandOK(d)'
    <2>1. Reading(d)' = Reading(d)
      BY <1>3 DEF Reading, CmdUnchanged
    <2> QED
      BY <1>1, <1>2, <1>3, <1>4, <2>1 DEF CommandOK, CmdUnchanged
  <1>7. asleep' \in [Device -> SUBSET {"program", "command"}]
    BY <1>1, <1>3 DEF Typed, DeviceTyped
  <1> QED
    BY <1>3, <1>4, <1>5, <1>6, <1>7, CommandMoves

-----------------------------------------------------------------------------
(* The invariant holds in every state.                                       *)

LEMMA InvStep == CacheInv /\ NextQuiet => CacheInv'
  <1> SUFFICES ASSUME CacheInv, NextQuiet PROVE CacheInv'
    OBVIOUS
  <1>1. /\ Next
        /\ \A d \in Device : /\ merging'[d] /\ ~merging[d] => Reading(d) = {}
                             /\ stopping'[d] /\ ~stopping[d] => th[d].pc # "startwait"
                             /\ cmd'[d].pc = "unchain" /\ cmd[d].pc # "unchain" => th[d].pc # "start"
    BY DEF NextQuiet
  <1>2. ASSUME NEW d \in Device, ProgramStep(d) PROVE CacheInv'
    BY <1>2, TakeDeviceInv, StartInv, HitWokenInv, UpdateInv, EndInv, ReadaheadInv, ReadInv, ReadRetryInv
       DEF ProgramStep
  <1>3. ASSUME NEW p \in User, ReadStep(p) PROVE CacheInv'
    BY <1>3, LookInv, ReaderLookInv, FillInv, FillDoneInv, ReadDoneInv, FlushAllInv, FlushAllDoneInv,
       CacheWaitInv, OfTracks DEF ReadStep
  <1>4. ASSUME NEW r \in Reader, ReaderStep(r) PROVE CacheInv'
    BY <1>4, ReaderIdleInv, ReaderTakeInv DEF ReaderStep
  <1>5. ASSUME NEW w \in Writer, WriterStep(w) PROVE CacheInv'
    BY <1>5, WriterIdleInv, WriterScanInv, WriterWriteInv, WriterDoneInv DEF WriterStep
  <1>6. ASSUME GcStep PROVE CacheInv'
    BY <1>6, GcInv
  <1>7. ASSUME NEW d \in Device, CmdStep(d) PROVE CacheInv'
    <2>1. CASE CmdWoken(d) \/ CloseDrain(d)
      <3>1. cmd[d].pc # "unchain"
        BY <2>1 DEF CmdWoken, CloseDrain
      <3> QED
        BY <1>1, <2>1, <3>1, CmdWokenInv, CloseDrainInv
    <2>2. CASE CmdFile(d) \/ CloseUnchain(d)
      BY <2>2, CmdFileInv, CloseUnchainInv
    <2> QED
      BY <1>7, <2>1, <2>2 DEF CmdStep
  <1>8. ASSUME NEW d \in Device, NEW op \in Operation \ {"close"}, CmdBegin(d, op) PROVE CacheInv'
    <2>1. merging'[d] /\ ~merging[d]
      <3>1. merging \in [Device -> BOOLEAN] /\ merging' = [merging EXCEPT ![d] = TRUE] /\ ~merging[d]
        BY <1>8 DEF CacheInv, Typed, CmdTyped, CmdBegin
      <3> QED
        BY <3>1
    <2>2. Reading(d) = {}
      BY <1>1, <2>1
    <2> QED
      BY <1>8, <2>2, CmdBeginInv
  <1>9. ASSUME NEW d \in Device, CloseBegin(d) PROVE CacheInv'
    <2>1. stopping'[d]
      <3>1. stopping \in [Device -> BOOLEAN] /\ stopping' = [stopping EXCEPT ![d] = TRUE]
        BY <1>9 DEF CacheInv, Typed, CmdTyped, CloseBegin
      <3> QED
        BY <3>1
    <2>2. ~stopping[d] => th[d].pc # "startwait"
      BY <1>1, <2>1
    <2> QED
      BY <1>9, <2>2, CloseBeginInv
  <1> QED
    BY <1>1, <1>2, <1>3, <1>4, <1>5, <1>6, <1>7, <1>8, <1>9 DEF Next

LEMMA InvStutter == CacheInv /\ UNCHANGED vars => CacheInv'
  <1> SUFFICES ASSUME CacheInv, UNCHANGED vars PROVE CacheInv'
    OBVIOUS
  <1>1. UNCHANGED <<key, flag, img, file, cur, bufcur, wrpending, wrqueued, ioactive, updated, merging,
                    stopping, asleep, cwait, raq, th, wr, gc, cmd, chain>>
    BY DEF vars
  <1>2. /\ \A c \in Device : ProgSame(c) /\ CommandOK(c)'
        /\ \A r \in Reader : ReaderSame(r)
    BY <1>1, AllSame
  <1>3. DeviceTyped' /\ CmdTyped' /\ ThreadsTyped'
    BY <1>1 DEF CacheInv, Typed, DeviceTyped, CmdTyped, ThreadsTyped
  <1>4. Queued # {} => Awake'
    BY <1>1 DEF CacheInv, CountsOK, Awake
  <1> QED
    BY <1>1, <1>2, <1>3, <1>4, QuietInv

\* The inductive invariant, for commands given at quiet moments.
THEOREM Invariance == SpecQuiet => []CacheInv
  <1>1. CacheInv /\ [NextQuiet]_vars => CacheInv'
    BY InvStep, InvStutter
  <1> QED
    BY InvInit, <1>1, PTL DEF SpecQuiet

\* TypeOK, for any configuration.
THEOREM TypeCorrect == SpecQuiet => []TypeOK
  BY Invariance, InvTypeOK, PTL

\* OneImage: a track has one entry, which holds its image unless it is being
\* read (the scan, the steal and the readahead of cckd_read_trk, the purge).
THEOREM OneImageOfATrack == SpecQuiet => []OneImage
  BY Invariance, InvOneImage, PTL

\* WritesCounted: the counts that the drain and the writers wait by are exact,
\* and a write that waits has a writer that is awake.
THEOREM CountsExact == SpecQuiet => []WritesCounted
  BY Invariance, InvWritesCounted, PTL

\* FileWorkAlone: files are worked on, and a device freed, with nothing of the
\* device in the cache and nobody at work on it.
THEOREM FilesAlone == SpecQuiet => []FileWorkAlone
  BY Invariance, InvFileWorkAlone, PTL
-----------------------------------------------------------------------------
(* The cache is one copy of every track: the refinement of TrackStore.       *)

\* The latest contents of a track are in its entry, or else in the file.
LatestOK ==
  \A k \in Key :
    /\ \A e \in Entry : key[e] = k /\ "reading" \notin flag[e] => Latest(k) = img[e].ver
    /\ (\A e \in Entry : key[e] = k => "reading" \in flag[e]) => Latest(k) = file[k]

LEMMA LatestIs == CacheInv => LatestOK
  <1> SUFFICES ASSUME CacheInv, NEW k \in Key
               PROVE  /\ \A e \in Entry : key[e] = k /\ "reading" \notin flag[e] => Latest(k) = img[e].ver
                      /\ (\A e \in Entry : key[e] = k => "reading" \in flag[e]) => Latest(k) = file[k]
    BY DEF LatestOK
  <1>1. PICK holds : holds = {e \in Entry : key[e] = k /\ "reading" \notin flag[e]}
    OBVIOUS
  <1>2. Latest(k) = IF holds = {} THEN file[k] ELSE img[CHOOSE e \in holds : TRUE].ver
    BY <1>1 DEF Latest
  <1>3. ASSUME NEW e \in Entry, key[e] = k, "reading" \notin flag[e] PROVE Latest(k) = img[e].ver
    <2>1. holds = {e}
      BY <1>1, <1>3, OfTracks DEF CacheInv, KeysApart
    <2>2. (CHOOSE x \in holds : TRUE) = e
      BY <2>1
    <2> QED
      BY <1>2, <2>1, <2>2
  <1>4. (\A e \in Entry : key[e] = k => "reading" \in flag[e]) => holds = {}
    BY <1>1
  <1> QED
    BY <1>2, <1>3, <1>4

LEMMA LatestNext == CacheInv' => LatestOK'
  BY LatestIs, PTL

\* What a step does to an entry when the contents of the tracks stay.
Fresh(e) == key[e] = NoKey \/ "reading" \in flag[e] \/ img[e].ver = file[key[e]]
Kept(e) ==
  /\ key'[e] = key[e] /\ ("reading" \in flag'[e] <=> "reading" \in flag[e])
  /\ "reading" \in flag[e] \/ img'[e].ver = img[e].ver
SeesSame(c) ==
  /\ ioactive'[c] = ioactive[c] /\ cur'[c] = cur[c] /\ bufcur'[c] = bufcur[c]
  /\ ioactive[c] /\ cur[c] # NoEntry => img'[cur[c]] = img[cur[c]]

LEMMA LatestStays ==
    ASSUME CacheInv, CacheInv', file' = file, \A e \in Entry : Kept(e) \/ (Fresh(e) /\ Fresh(e)')
    PROVE  \A k \in Key : Latest(k)' = Latest(k)
  <1>1. LatestOK /\ LatestOK'
    BY LatestIs, LatestNext
  <1> SUFFICES ASSUME NEW k \in Key PROVE Latest(k)' = Latest(k)
    OBVIOUS
  <1>2. CASE \E e \in Entry : key[e] = k /\ "reading" \notin flag[e] /\ Kept(e)
    BY <1>1, <1>2 DEF LatestOK, Kept
  <1>3. CASE \A e \in Entry : key[e] = k /\ "reading" \notin flag[e] => ~Kept(e) /\ Fresh(e)
    <2>1. Latest(k) = file[k]
      <3>1. CASE \E e \in Entry : key[e] = k /\ "reading" \notin flag[e]
        BY <1>1, <1>3, <3>1, OfTracks DEF LatestOK, Fresh
      <3>2. CASE \A e \in Entry : key[e] = k => "reading" \in flag[e]
        BY <1>1, <3>2 DEF LatestOK
      <3> QED
        BY <3>1, <3>2
    <2>2. Latest(k)' = file'[k]
      <3>1. ASSUME NEW e \in Entry, key'[e] = k, "reading" \notin flag'[e] PROVE Latest(k)' = file'[k]
        <4>1. ~Kept(e)
          BY <1>3, <3>1 DEF Kept
        <4>2. Fresh(e)'
          BY <4>1
        <4> QED
          BY <1>1, <3>1, <4>2, OfTracks DEF LatestOK, Fresh
      <3>2. CASE \A e \in Entry : key'[e] = k => "reading" \in flag'[e]
        BY <1>1, <3>2 DEF LatestOK
      <3> QED
        BY <3>1, <3>2
    <2> QED
      BY <2>1, <2>2
  <1> QED
    BY <1>2, <1>3

\* A step by which at most the program of a turns to another track.
Turns(a) ==
  /\ file' = file
  /\ \A e \in Entry : Kept(e) \/ (Fresh(e) /\ Fresh(e)')
  /\ \A c \in Device : c # a => SeesSame(c)

\* What an active program sees is the entry of its current track.
SeenOK ==
  \A d \in Device : ioactive[d] /\ cur[d] # NoEntry =>
     /\ <<d, bufcur[d]>> \in Key /\ cur[d] \in Entry /\ key[cur[d]] = <<d, bufcur[d]>>
     /\ img[cur[d]] = [of |-> <<d, bufcur[d]>>, ver |-> Latest(<<d, bufcur[d]>>)]

LEMMA SeenIs == CacheInv => SeenOK
  <1> SUFFICES ASSUME CacheInv, NEW d \in Device, ioactive[d], cur[d] # NoEntry
               PROVE  /\ <<d, bufcur[d]>> \in Key /\ cur[d] \in Entry /\ key[cur[d]] = <<d, bufcur[d]>>
                      /\ img[cur[d]] = [of |-> <<d, bufcur[d]>>, ver |-> Latest(<<d, bufcur[d]>>)]
    BY DEF SeenOK
  <1>1. PICK e : e = cur[d]
    OBVIOUS
  <1>2. PICK k : k = <<d, bufcur[d]>>
    OBVIOUS
  <1>3. e \in Entry /\ key[e] = k /\ bufcur[d] \in Track /\ "reading" \notin flag[e]
    BY <1>1, <1>2, TypedFacts DEF CacheInv, ProgramOK, CurrentOK
  <1>4. k \in Key /\ k # NoKey
    BY <1>2, <1>3, OfTracks
  <1>5. img[e].of = k /\ Latest(k) = img[e].ver
    BY <1>3, <1>4, LatestIs DEF CacheInv, EntryOK, LatestOK
  <1>6. img[e] = [of |-> img[e].of, ver |-> img[e].ver]
    BY <1>3, TypedFacts DEF CacheInv
  <1> QED
    BY <1>1, <1>2, <1>3, <1>4, <1>5, <1>6

LEMMA SeenNext == CacheInv' => SeenOK'
  BY SeenIs, PTL

LEMMA TurnsNext ==
    ASSUME CacheInv, CacheInv', NEW a, Turns(a)
    PROVE  [Store!Next]_(Store!storeVars)
  <1>1. /\ \A k \in Key : Latest(k)' = Latest(k)
        /\ file' = file /\ \A c \in Device : c # a => SeesSame(c)
    BY LatestStays DEF Turns
  <1>2. [k \in Key |-> Latest(k)]' = [k \in Key |-> Latest(k)]
    BY <1>1
  <1>3. \A c \in Device : c # a => Sees(c)' = Sees(c)
    BY <1>1 DEF SeesSame, Sees
  <1>4. CASE a \notin Device
    <2>1. [c \in Device |-> Sees(c)]' = [c \in Device |-> Sees(c)]
      BY <1>3, <1>4
    <2> QED
      BY <1>1, <1>2, <2>1 DEF Store!storeVars
  <1>5. CASE a \in Device
    <2>1. PICK s : s = Sees(a)'
      OBVIOUS
    <2>2. [c \in Device |-> Sees(c)]' = [[c \in Device |-> Sees(c)] EXCEPT ![a] = s]
      BY <1>3, <1>5, <2>1
    <2>3. CASE ioactive'[a] /\ cur'[a] # NoEntry
      <3>1. PICK k : k = <<a, bufcur'[a]>>
        OBVIOUS
      <3>2. k \in Key /\ img'[cur'[a]] = [of |-> k, ver |-> Latest(k)']
        BY <1>5, <2>3, <3>1, SeenNext DEF SeenOK
      <3>3. s = [of |-> k, image |-> [of |-> k, ver |-> Latest(k)]]
        BY <1>1, <2>1, <2>3, <3>1, <3>2 DEF Sees
      <3>4. k[1] = a
        BY <3>1
      <3>5. Store!Look(a, k)
        BY <1>1, <1>2, <2>2, <3>2, <3>3, <3>4 DEF Store!Look, Store!Image
      <3> QED
        BY <1>5, <3>2, <3>5 DEF Store!Next
    <2>4. CASE ~(ioactive'[a] /\ cur'[a] # NoEntry)
      <3>1. s = Store!Nothing
        BY <2>1, <2>4 DEF Sees, Store!Nothing
      <3>2. Store!Leave(a)
        BY <1>1, <1>2, <2>2, <3>1 DEF Store!Leave
      <3> QED
        BY <1>5, <3>2 DEF Store!Next
    <2> QED
      BY <2>3, <2>4
  <1> QED
    BY <1>4, <1>5

\* No image comes or goes.
SameReads(f) == \A e \in Entry : "reading" \in f[e] <=> "reading" \in flag[e]
OthersStay(a) ==
  \A c \in Device : c # a => ioactive'[c] = ioactive[c] /\ cur'[c] = cur[c] /\ bufcur'[c] = bufcur[c]

LEMMA TurnsSame ==
    ASSUME UNCHANGED <<key, img, file>>, SameReads(flag'), NEW a, OthersStay(a)
    PROVE  Turns(a)
  BY DEF Turns, Kept, SeesSame, SameReads, OthersStay

LEMMA FlushReads ==
    ASSUME CacheInv, NEW d, NEW f, SameReads(f), Flush(d, f)
    PROVE  SameReads(flag')
  <1>1. flag' = [e \in Entry |-> IF e \in Flushable(d, f) THEN {"write"} ELSE f[e]]
    BY Signalled DEF Flush
  <1>2. \A e \in Flushable(d, f) : e \in Entry /\ f[e] = {"updated"}
    BY DEF Flushable
  <1> QED
    BY <1>1, <1>2 DEF SameReads

LEMMA InactiveReads ==
    ASSUME CacheInv, NEW d \in Device
    PROVE  /\ Inactive(d) \in [Entry -> SUBSET Flag] /\ SameReads(Inactive(d))
           /\ \A e \in Entry : Inactive(d)[e] = {} => flag[e] \subseteq {"active"}
  <1>1. flag \in [Entry -> SUBSET Flag] /\ cur[d] \in Entry \cup {NoEntry}
    BY TypedFacts DEF CacheInv, Typed, CacheTyped
  <1>2. CASE cur[d] = NoEntry
    BY <1>1, <1>2 DEF Inactive, SameReads
  <1>3. CASE cur[d] # NoEntry
    <2>1. Inactive(d) = [flag EXCEPT ![cur[d]] = flag[cur[d]] \ {"active"}]
      BY <1>1, <1>3 DEF Inactive, Off
    <2> QED
      BY <1>1, <2>1 DEF SameReads
  <1> QED
    BY <1>2, <1>3

LEMMA OnReads ==
    ASSUME NEW f \in [Entry -> SUBSET Flag], SameReads(f), NEW e \in Entry,
           NEW b \in SUBSET (Flag \ {"reading"})
    PROVE  /\ On(f, e, b) \in [Entry -> SUBSET Flag] /\ SameReads(On(f, e, b))
           /\ Off(f, e, b) \in [Entry -> SUBSET Flag] /\ SameReads(Off(f, e, b))
  BY DEF On, Off, SameReads, Flag

LEMMA UnpendReads ==
    ASSUME NEW f \in [Entry -> SUBSET Flag], SameReads(f), NEW d, NEW e \in Entry, Unpend(d, e, f)
    PROVE  SameReads(flag')
  <1>1. \/ flag' = f
        \/ flag' = [f EXCEPT ![e] = (f[e] \ {"write"}) \cup {"updated"}]
    BY Signalled DEF Unpend
  <1> QED
    BY <1>1 DEF SameReads

\* A search.
LEMMA LookupTurns ==
    ASSUME CacheInv, NEW p \in User, NEW k \in Key, NEW f \in [Entry -> SUBSET Flag], SameReads(f),
           \A e \in Entry : f[e] = {} => flag[e] \subseteq {"active"}, NEW seq,
           Lookup(p, k, f, seq), LookupUnchanged
    PROVE  Turns(p)
  <1>1. cur \in [Device -> Entry \cup {NoEntry}] /\ bufcur \in [Device -> Track \cup {0}]
        /\ key \in [Entry -> Key \cup {NoKey}] /\ \A e \in Entry : EntryOK(e)
    BY DEF CacheInv, Typed, DeviceTyped, CacheTyped
  <1>2. file' = file /\ ioactive' = ioactive /\ {"active"} \in SUBSET (Flag \ {"reading"})
        /\ {"active", "iowait"} \in SUBSET (Flag \ {"reading"})
    BY DEF LookupUnchanged, Flag
  <1>3. ASSUME NEW e \in Entry, key[e] = k, UNCHANGED <<key, img>>,
               IF p \in Reader
               THEN SetFlag(f) /\ UNCHANGED <<cur, bufcur>>
               ELSE IF IoBusy(f[e])
               THEN /\ SetFlag(On(f, e, {"active", "iowait"}))
                    /\ cur' = [cur EXCEPT ![p] = NoEntry] /\ bufcur' = [bufcur EXCEPT ![p] = 0]
               ELSE /\ Unpend(p, e, On(f, e, {"active"}))
                    /\ cur' = [cur EXCEPT ![p] = e] /\ bufcur' = [bufcur EXCEPT ![p] = k[2]]
        PROVE  Turns(p)
    <2>1. SameReads(flag')
      <3>1. CASE SetFlag(f)
        BY <3>1, Signalled
      <3>2. CASE SetFlag(On(f, e, {"active", "iowait"}))
        <4>1. flag' = On(f, e, {"active", "iowait"})
          BY <3>2, Signalled
        <4> QED
          BY <4>1, <1>2, OnReads
      <3>3. CASE Unpend(p, e, On(f, e, {"active"}))
        BY <3>3, <1>2, OnReads, UnpendReads
      <3> QED
        BY <1>3, <3>1, <3>2, <3>3
    <2>2. OthersStay(p)
      BY <1>1, <1>2, <1>3 DEF OthersStay
    <2> QED
      BY <1>2, <1>3, <2>1, <2>2, TurnsSame
  <1>4. ASSUME NEW e \in Free(f), key' = [key EXCEPT ![e] = k], img' = img,
               SetFlag([f EXCEPT ![e] = IF p \in Reader THEN {"reading"} ELSE {"reading", "active"}]),
               IF p \in Device THEN /\ cur' = [cur EXCEPT ![p] = NoEntry]
                                    /\ bufcur' = [bufcur EXCEPT ![p] = 0]
                               ELSE UNCHANGED <<cur, bufcur>>
        PROVE  Turns(p)
    <2>0. PICK b : b = IF p \in Reader THEN {"reading"} ELSE {"reading", "active"}
      OBVIOUS
    <2>a. SetFlag([f EXCEPT ![e] = b])
      BY <1>4, <2>0
    <2>1. flag' = [f EXCEPT ![e] = b] /\ "reading" \in b
      BY <2>0, <2>a, Signalled
    <2>2. e \in Entry /\ flag[e] \subseteq {"active"}
      BY <1>4 DEF Free
    <2>3. \A x \in Entry : x # e => Kept(x)
      BY <1>1, <1>4, <2>1 DEF Kept, SameReads
    <2>4. Fresh(e) /\ Fresh(e)'
      <3>1. Fresh(e)
        BY <1>1, <2>2 DEF EntryOK, Fresh, Clean
      <3>2. "reading" \in flag'[e]
        BY <2>1, <2>2
      <3> QED
        BY <3>1, <3>2 DEF Fresh
    <2>5. \A c \in Device : c # p => SeesSame(c)
      BY <1>1, <1>2, <1>4 DEF SeesSame
    <2> QED
      BY <1>2, <2>3, <2>4, <2>5 DEF Turns
  <1>5. ASSUME SetFlag(f), UNCHANGED <<key, img>>,
               IF p \in Device THEN /\ cur' = [cur EXCEPT ![p] = NoEntry]
                                    /\ bufcur' = [bufcur EXCEPT ![p] = 0]
                               ELSE UNCHANGED <<cur, bufcur>>
        PROVE  Turns(p)
    <2>1. SameReads(flag')
      BY <1>5, Signalled
    <2>2. OthersStay(p)
      BY <1>1, <1>2, <1>5 DEF OthersStay
    <2> QED
      BY <1>2, <1>5, <2>1, <2>2, TurnsSame
  <1> QED
    BY <1>3, <1>4, <1>5 DEF Lookup

LEMMA ProgramTurns == ASSUME CacheInv, CacheInv', NEW d \in Device, ProgramStep(d), ~Update(d) PROVE Turns(d)
  <1>0. /\ Typed /\ flag \in [Entry -> SUBSET Flag] /\ SameReads(flag)
        /\ cur \in [Device -> Entry \cup {NoEntry}] /\ bufcur \in [Device -> Track \cup {0}]
        /\ ioactive \in [Device -> BOOLEAN] /\ cur[d] \in Entry \cup {NoEntry}
        /\ {"active"} \in SUBSET (Flag \ {"reading"}) /\ {"iowait"} \in SUBSET (Flag \ {"reading"})
    BY DEF CacheInv, Typed, CacheTyped, DeviceTyped, SameReads, Flag
  <1>1. CASE Start(d) \/ StartWoken(d)
    <2>1. UNCHANGED <<key, img, file>>
      BY <1>1 DEF Start, StartWoken
    <2>2. CASE UNCHANGED <<cur, bufcur, ioactive, flag>>
      BY <2>1, <2>2, TurnsSame DEF SameReads, OthersStay
    <2>3. CASE \E waited \in BOOLEAN : BeginProgram(d, waited)
      <3>1. SameReads(flag')
        <4>1. CASE StillCurrent(d) /\ Unpend(d, cur[d], On(flag, cur[d], {"active"}))
          <5>1. cur[d] \in Entry
            BY <1>0, <4>1 DEF StillCurrent
          <5> QED
            BY <1>0, <4>1, <5>1, OnReads, UnpendReads
        <4>2. CASE flag' = flag
          BY <1>0, <4>2
        <4> QED
          BY <2>3, <4>1, <4>2 DEF BeginProgram
      <3>2. OthersStay(d)
        BY <1>0, <2>3 DEF BeginProgram, OthersStay
      <3> QED
        BY <2>1, <3>1, <3>2, TurnsSame
    <2> QED
      BY <1>1, <2>2, <2>3 DEF Start, StartWoken
  <1>2. CASE HitWoken(d)
    <2>0. PICK e : e = th[d].ent
      OBVIOUS
    <2>1. e \in Entry
      BY <1>2, <2>0 DEF CacheInv, ProgramOK, WantedOK, HitWoken
    <2>2. UNCHANGED <<key, img, file, ioactive>>
      BY <1>2 DEF HitWoken, LookupUnchanged
    <2>3. SameReads(flag')
      <3>1. flag' = On(flag, e, {"iowait"}) \/ flag' = Off(flag, e, {"iowait"})
        BY <1>2, <2>0, Signalled DEF HitWoken
      <3> QED
        BY <1>0, <2>1, <3>1, OnReads
    <2>4. OthersStay(d)
      BY <1>0, <1>2, <2>2 DEF HitWoken, OthersStay
    <2> QED
      BY <2>2, <2>3, <2>4, TurnsSame
  <1>3. CASE End(d)
    <2>1. UNCHANGED <<key, img, file, cur, bufcur>> /\ ioactive' = [ioactive EXCEPT ![d] = FALSE]
      BY <1>3 DEF End
    <2>2. PICK f : f = Inactive(d)
      OBVIOUS
    <2>3. SameReads(f)
      BY <2>2, InactiveReads
    <2>4. Flush(d, f) \/ SetFlag(f)
      BY <1>3, <2>2 DEF End
    <2>5. SameReads(flag')
      BY <2>3, <2>4, FlushReads, Signalled
    <2>6. OthersStay(d)
      BY <1>0, <2>1 DEF OthersStay
    <2> QED
      BY <2>1, <2>5, <2>6, TurnsSame
  <1>4. CASE Readahead(d)
    BY <1>0, <1>4, TurnsSame DEF Readahead, cacheVars, devVars, OthersStay, SameReads
  <1>5. ASSUME NEW t \in Track, Read(d, t) PROVE Turns(d)
    <2>1. PICK f : f = Inactive(d)
      OBVIOUS
    <2>2. PICK seq : seq = (bufcur[d] > 0 /\ t > bufcur[d] /\ t <= bufcur[d] + 2)
      OBVIOUS
    <2>3. PICK k : k = <<d, t>>
      OBVIOUS
    <2>4. Lookup(d, k, f, seq) /\ LookupUnchanged
      BY <1>5, <2>1, <2>2, <2>3 DEF Read
    <2>5. k \in Key /\ d \in User
      BY <2>3, OfTracks
    <2> QED
      BY <2>1, <2>4, <2>5, InactiveReads, LookupTurns
  <1>6. ASSUME NEW t \in Track, ReadRetry(d, t) PROVE Turns(d)
    <2>1. SameReads(flag')
      <3>1. flag' = Inactive(d)
        BY <1>6, Signalled DEF ReadRetry
      <3> QED
        BY <3>1, InactiveReads
    <2>2. UNCHANGED <<key, img, file>> /\ OthersStay(d)
      BY <1>0, <1>6 DEF ReadRetry, LookupUnchanged, OthersStay
    <2> QED
      BY <2>1, <2>2, TurnsSame
  <1>7. CASE TakeDevice(d)
    BY <1>0, <1>7, TurnsSame DEF TakeDevice, cacheVars, devVars, OthersStay, SameReads
  <1> QED
    BY <1>1, <1>2, <1>3, <1>4, <1>5, <1>6, <1>7 DEF ProgramStep

LEMMA ReadTurns == ASSUME CacheInv, CacheInv', NEW p \in User, ReadStep(p) PROVE Turns(p)
  <1>0. /\ Typed /\ flag \in [Entry -> SUBSET Flag] /\ SameReads(flag)
        /\ img \in [Entry -> [of : Key \cup {NoKey}, ver : Nat]]
        /\ cur \in [Device -> Entry \cup {NoEntry}] /\ bufcur \in [Device -> Track \cup {0}]
    BY DEF CacheInv, Typed, CacheTyped, DeviceTyped, SameReads
  <1>1. CASE Look(p)
    <2>1. th[p].key \in Key
      BY <1>1, OfTracks DEF Look, CacheInv, ProgramOK, WantedOK, ReaderOK, Searching
    <2>2. \A e \in Entry : flag[e] = {} => flag[e] \subseteq {"active"}
      OBVIOUS
    <2> QED
      BY <1>0, <1>1, <2>1, <2>2, LookupTurns DEF Look
  <1>2. CASE Fill(p)
    <2>0. PICK e : e = th[p].ent
      OBVIOUS
    <2>1. e \in Entry /\ "reading" \in flag[e]
      BY <1>2, <2>0, FillerEntry DEF Fill, Filling
    <2>2. /\ UNCHANGED <<key, flag, file, devVars>>
          /\ img' = [img EXCEPT ![e] = [of |-> th[p].key, ver |-> file[th[p].key]]]
      BY <1>2, <2>0 DEF Fill
    <2>3. \A x \in Entry : Kept(x)
      BY <1>0, <2>1, <2>2 DEF Kept
    <2>4. ASSUME NEW c \in Device PROVE SeesSame(c)
      <3>1. ioactive[c] /\ cur[c] # NoEntry => cur[c] \in Entry /\ "reading" \notin flag[cur[c]]
        BY TypedFacts DEF CacheInv, ProgramOK, CurrentOK
      <3> QED
        BY <1>0, <2>1, <2>2, <3>1 DEF SeesSame, devVars
    <2> QED
      BY <2>2, <2>3, <2>4 DEF Turns
  <1>3. CASE FillDone(p)
    <2>0. PICK e : e = th[p].ent
      OBVIOUS
    <2>1. /\ e \in Entry /\ "reading" \in flag[e] /\ key[e] = th[p].key
          /\ img[e] = [of |-> th[p].key, ver |-> file[th[p].key]]
          /\ p \in Device => key[e] \in Of(p)
      BY <1>3, <2>0, FillerEntry DEF FillDone, Filling, CacheInv, FilledOK
    <2>2. /\ UNCHANGED <<key, img, file, ioactive>>
          /\ flag' = Off(flag, e, {"reading"})
      BY <1>3, <2>0, Signalled DEF FillDone
    <2>3. \A x \in Entry : x # e => Kept(x)
      BY <1>0, <2>1, <2>2 DEF Kept, Off
    <2>4. Fresh(e) /\ Fresh(e)'
      BY <2>1, <2>2 DEF Fresh
    <2>5. \A c \in Device : c # p => SeesSame(c)
      <3>1. p \in Device => th[p].key[1] = p
        BY <2>1, OfTracks
      <3>2. \/ p \in Device /\ cur' = [cur EXCEPT ![p] = e] /\ bufcur' = [bufcur EXCEPT ![p] = th[p].key[2]]
            \/ cur' = cur /\ bufcur' = bufcur
        BY <1>3, <2>0, <3>1 DEF FillDone
      <3> QED
        BY <1>0, <2>2, <3>2 DEF SeesSame
    <2> QED
      BY <2>2, <2>3, <2>4, <2>5 DEF Turns
  <1>4. CASE FlushAll(p)
    <2>1. SameReads(flag')
      BY <1>0, <1>4, FlushReads DEF FlushAll
    <2> QED
      BY <1>4, <2>1, TurnsSame DEF FlushAll, devVars, OthersStay
  <1>5. CASE ReadDone(p) \/ FlushAllDone(p) \/ CacheWait(p) \/ CacheWoken(p)
    <2>1. UNCHANGED <<cacheVars, file, devVars>>
      BY <1>5 DEF ReadDone, FlushAllDone, CacheWait, CacheWoken
    <2> QED
      BY <1>0, <2>1, TurnsSame DEF cacheVars, devVars, OthersStay, SameReads
  <1> QED
    BY <1>1, <1>2, <1>3, <1>4, <1>5 DEF ReadStep

\* The readahead threads between two tracks, the collector, and a writer but for
\* its write.
LEMMA ReaderTurns == ASSUME CacheInv, NEW r \in Reader, ReaderStep(r) PROVE Turns(r)
  <1>1. UNCHANGED <<cacheVars, file, devVars>>
    BY DEF ReaderStep, ReaderIdle, ReaderTake
  <1> QED
    BY <1>1, TurnsSame DEF cacheVars, devVars, OthersStay, SameReads

LEMMA GcTurns == ASSUME CacheInv, GcStep PROVE Turns(NoEntry)
  <1>1. UNCHANGED <<key, img, file, devVars>>
    BY DEF GcStep, GcPass, GcDevice, GcFlush, GcWait, GcUnchanged
  <1>2. SameReads(flag')
    <2>1. CASE GcFlush
      BY <2>1, FlushReads DEF GcFlush, SameReads
    <2>2. CASE GcPass \/ GcDevice \/ GcWait
      BY <2>2 DEF GcPass, GcDevice, GcWait, SameReads
    <2> QED
      BY <2>1, <2>2 DEF GcStep
  <1> QED
    BY <1>1, <1>2, TurnsSame DEF devVars, OthersStay

LEMMA WriterTurns == ASSUME CacheInv, NEW w \in Writer, WriterStep(w), ~WriterWrite(w) PROVE Turns(w)
  <1>0. flag \in [Entry -> SUBSET Flag]
    BY DEF CacheInv, Typed, CacheTyped
  <1>1. UNCHANGED <<key, img, file, devVars>>
    BY DEF WriterStep, WriterIdle, WriterScan, WriterDone, WriterUnchanged
  <1>2. SameReads(flag')
    <2>1. CASE WriterIdle(w)
      BY <2>1 DEF WriterIdle, SameReads
    <2>2. CASE WriterScan(w)
      <3>1. CASE flag' = flag
        BY <3>1 DEF SameReads
      <3>2. ASSUME NEW e \in Entry,
                   SetFlag([flag EXCEPT ![e] = (flag[e] \ {"write"}) \cup {"writing"}])
            PROVE  SameReads(flag')
        <4>1. flag' = [flag EXCEPT ![e] = (flag[e] \ {"write"}) \cup {"writing"}]
          BY <3>2, Signalled
        <4> QED
          BY <1>0, <4>1 DEF SameReads
      <3> QED
        BY <2>2, <3>1, <3>2 DEF WriterScan
    <2>3. CASE WriterDone(w)
      <3>0. PICK e : e = wr[w].ent
        OBVIOUS
      <3>1. flag' = Off(flag, e, {"writing"}) /\ e \in Entry
        BY <2>3, <3>0, Signalled, Writes DEF WriterDone, WrPc
      <3> QED
        BY <1>0, <3>1 DEF SameReads, Off
    <2> QED
      BY <2>1, <2>2, <2>3 DEF WriterStep
  <1> QED
    BY <1>1, <1>2, TurnsSame DEF devVars, OthersStay

\* The commands: what is purged is in the file.
LEMMA PurgeTurns ==
    ASSUME CacheInv, NEW d \in Device, Drained(d), Purge(d), UNCHANGED <<img, file, ioactive>>
    PROVE  Turns(d)
  <1>1. /\ flag \in [Entry -> SUBSET Flag] /\ key \in [Entry -> Key \cup {NoKey}]
        /\ cur \in [Device -> Entry \cup {NoEntry}] /\ bufcur \in [Device -> Track \cup {0}]
    BY DEF CacheInv, Typed, CacheTyped, DeviceTyped
  <1>2. PICK f : f = [e \in Entry |-> IF e \in {x \in Entry : key[x] \in {d} \X Track} THEN {} ELSE flag[e]]
    OBVIOUS
  <1>3. flag' = f
    BY <1>2, Signalled DEF Purge
  <1>4. key' = [e \in Entry |-> IF e \in {x \in Entry : key[x] \in {d} \X Track} THEN NoKey ELSE key[e]]
    BY DEF Purge
  <1>5. ASSUME NEW e \in Entry, key[e] \in Of(d) PROVE Fresh(e) /\ Fresh(e)'
    <2>1. Fresh(e)
      BY <1>5, OfTracks DEF CacheInv, EntryOK, Drained, Fresh, Clean
    <2>2. key'[e] = NoKey
      BY <1>4, <1>5 DEF Of
    <2> QED
      BY <2>1, <2>2 DEF Fresh
  <1>6. ASSUME NEW e \in Entry, key[e] \notin Of(d) PROVE Kept(e)
    BY <1>2, <1>3, <1>4, <1>6 DEF Of, Kept
  <1>7. \A c \in Device : c # d => SeesSame(c)
    <2>1. cur' = [cur EXCEPT ![d] = NoEntry] /\ bufcur' = [bufcur EXCEPT ![d] = 0]
      BY DEF Purge
    <2> QED
      BY <1>1, <2>1 DEF SeesSame
  <1> QED
    BY <1>5, <1>6, <1>7 DEF Turns

LEMMA DrainTurns ==
    ASSUME CacheInv, NEW d \in Device, NEW c, Drain(d, c), CmdUnchanged, Reading(d) = {}
    PROVE  Turns(d)
  <1>1. UNCHANGED <<img, file, ioactive>>
    BY DEF CmdUnchanged
  <1>2. CASE Flushable(d, flag) = {} /\ wrpending[d] = 0 /\ ~ioactive[d] /\ Purge(d)
    <2>1. Drained(d)
      BY <1>2, DrainedNow
    <2> QED
      BY <1>1, <1>2, <2>1, PurgeTurns
  <1>3. CASE Flush(d, flag) /\ UNCHANGED <<key, cur, bufcur>>
    <2>1. SameReads(flag')
      BY <1>3, FlushReads DEF SameReads
    <2> QED
      BY <1>1, <1>3, <2>1, TurnsSame DEF OthersStay
  <1> QED
    BY <1>2, <1>3 DEF Drain

LEMMA CommandTurns ==
    ASSUME CacheInv, NEW d \in Device,
           \/ CmdStep(d) \/ CloseBegin(d)
           \/ Reading(d) = {} /\ \E op \in Operation \ {"close"} : CmdBegin(d, op)
    PROVE  Turns(d)
  <1>0. CommandOK(d)
    BY DEF CacheInv
  <1>1. CASE Reading(d) = {} /\ \E op \in Operation \ {"close"} : CmdBegin(d, op)
    BY <1>1, DrainTurns DEF CmdBegin
  <1>2. CASE CmdWoken(d)
    <2>1. Reading(d) = {}
      BY <1>0, <1>2 DEF CmdWoken, CommandOK
    <2> QED
      BY <1>2, <2>1, DrainTurns DEF CmdWoken
  <1>3. CASE CloseDrain(d)
    BY <1>3, DrainTurns DEF CloseDrain
  <1>4. CASE UNCHANGED <<key, flag, cur, bufcur>> /\ CmdUnchanged
    BY <1>4, TurnsSame DEF CmdUnchanged, OthersStay, SameReads
  <1>5. CASE CmdFile(d) /\ Purge(d)
    <2>1. Drained(d)
      BY <1>0, <1>5 DEF CmdFile, CommandOK, Drained
    <2> QED
      BY <1>5, <2>1, PurgeTurns DEF CmdFile, CmdUnchanged
  <1> QED
    BY <1>1, <1>2, <1>3, <1>4, <1>5 DEF CmdStep, CmdFile, CloseBegin, CloseUnchain

\* A track whose entry and file a step leaves alone.
LEMMA LatestOther ==
    ASSUME CacheInv, CacheInv', NEW k \in Key,
           \A e \in Entry : key'[e] = key[e] /\ ("reading" \in flag'[e] <=> "reading" \in flag[e]),
           \A e \in Entry : key[e] = k => img'[e].ver = img[e].ver,
           \/ file'[k] = file[k]
           \/ \E e \in Entry : key[e] = k /\ "reading" \notin flag[e]
    PROVE  Latest(k)' = Latest(k)
  <1>1. LatestOK /\ LatestOK'
    BY LatestIs, LatestNext
  <1>2. CASE \E e \in Entry : key[e] = k /\ "reading" \notin flag[e]
    BY <1>1, <1>2 DEF LatestOK
  <1>3. CASE \A e \in Entry : key[e] = k => "reading" \in flag[e]
    BY <1>1, <1>3 DEF LatestOK
  <1> QED
    BY <1>2, <1>3

\* An update is an update of the one copy, which the program sees.
LEMMA UpdateStores == ASSUME CacheInv, CacheInv', NEW d \in Device, Update(d) PROVE Store!Update(d)
  <1>0. PICK e : e = cur[d]
    OBVIOUS
  <1>1. PICK k : k = <<d, bufcur[d]>>
    OBVIOUS
  <1>2. /\ flag \in [Entry -> SUBSET Flag] /\ img \in [Entry -> [of : Key \cup {NoKey}, ver : Nat]]
        /\ UNCHANGED <<key, cur, bufcur, file, ioactive>>
    BY DEF CacheInv, Typed, CacheTyped, Update
  <1>3. ioactive[d] /\ e # NoEntry
    BY <1>0, TypedFacts DEF CacheInv, ProgramOK, Update
  <1>4. e \in Entry /\ key[e] = k /\ k \in Key /\ k # NoKey
    <2>1. SeenOK /\ cur[d] # NoEntry
      BY <1>0, <1>3, SeenIs
    <2>2. <<d, bufcur[d]>> \in Key /\ cur[d] \in Entry /\ key[cur[d]] = <<d, bufcur[d]>>
      BY <1>3, <2>1 DEF SeenOK
    <2> QED
      BY <1>0, <1>1, <2>2, NoKeyAssumption
  <1>5. img[e] = [of |-> k, ver |-> Latest(k)] /\ Latest(k) \in Nat
    <2>1. img[e] = [of |-> k, ver |-> Latest(k)]
      BY <1>0, <1>1, <1>3, SeenIs DEF SeenOK
    <2>2. img[e].ver \in Nat /\ img[e].ver = Latest(k)
      BY <1>2, <1>4, <2>1
    <2> QED
      BY <2>1, <2>2
  <1>6. PICK r : r = [of |-> k, ver |-> Latest(k) + 1]
    OBVIOUS
  <1>7. img' = [img EXCEPT ![e] = r]
    <2>1. img' = [img EXCEPT ![e] = [img[e] EXCEPT !.ver = img[e].ver + 1]]
      BY <1>0 DEF Update
    <2>2. [img[e] EXCEPT !.ver = img[e].ver + 1] = r
      BY <1>5, <1>6
    <2> QED
      BY <2>1, <2>2
  <1>8. img'[e] = r /\ \A x \in Entry : x # e => img'[x] = img[x]
    BY <1>2, <1>4, <1>7
  <1>9. flag' = On(flag, e, {"updated"})
    BY <1>0, Signalled DEF Update
  <1>10. \A x \in Entry : "reading" \in flag'[x] <=> "reading" \in flag[x]
    BY <1>2, <1>4, <1>9 DEF On
  <1>11. \A j \in Key : j # k => Latest(j)' = Latest(j)
    BY <1>2, <1>4, <1>8, <1>10, LatestOther
  <1>12. Latest(k)' = Latest(k) + 1
    <2>1. LatestOK' /\ "reading" \notin flag[e]
      BY <1>0, <1>3, LatestNext, TypedFacts DEF CacheInv, ProgramOK, CurrentOK
    <2>2. Latest(k)' = img'[e].ver
      BY <1>2, <1>4, <1>10, <2>1 DEF LatestOK
    <2> QED
      BY <1>6, <1>8, <2>2
  <1>13. [j \in Key |-> Latest(j)]' = [[j \in Key |-> Latest(j)] EXCEPT ![k] = Latest(k) + 1]
    BY <1>4, <1>11, <1>12
  <1>14. Sees(d) = [of |-> k, image |-> img[e]] /\ Sees(d)' = [of |-> k, image |-> r]
    BY <1>0, <1>1, <1>2, <1>3, <1>8 DEF Sees
  <1>15. ASSUME NEW c \in Device, c # d PROVE Sees(c)' = Sees(c)
    <2>1. CASE ioactive[c] /\ cur[c] # NoEntry
      <3>0. PICK x : x = cur[c]
        OBVIOUS
      <3>1. x \in Entry /\ key[x] = <<c, bufcur[c]>>
        BY <2>1, <3>0, SeenIs DEF SeenOK
      <3>2. x # e
        BY <1>1, <1>4, <1>15, <3>1
      <3> QED
        BY <1>2, <1>8, <2>1, <3>0, <3>1, <3>2 DEF Sees
    <2>2. CASE ~(ioactive[c] /\ cur[c] # NoEntry)
      BY <1>2, <2>2 DEF Sees
    <2> QED
      BY <2>1, <2>2
  <1>16. [c \in Device |-> Sees(c)]'
           = [[c \in Device |-> Sees(c)] EXCEPT ![d].image.ver = Latest(k) + 1]
    <2>1. PICK s : s = [c \in Device |-> Sees(c)]
      OBVIOUS
    <2>2. s[d] = [of |-> k, image |-> [of |-> k, ver |-> Latest(k)]]
      BY <1>5, <1>14, <2>1
    <2>3. [s[d] EXCEPT !.image.ver = Latest(k) + 1] = [of |-> k, image |-> r]
      BY <1>6, <2>2
    <2>4. [s EXCEPT ![d].image.ver = Latest(k) + 1] = [s EXCEPT ![d] = [of |-> k, image |-> r]]
      BY <2>1, <2>3
    <2>5. [c \in Device |-> Sees(c)]' = [s EXCEPT ![d] = [of |-> k, image |-> r]]
      BY <1>14, <1>15, <2>1
    <2> QED
      BY <2>1, <2>4, <2>5
  <1>17. [c \in Device |-> Sees(c)][d].of = k /\ [j \in Key |-> Latest(j)][k] = Latest(k)
    BY <1>4, <1>14
  <1>18. file' = file
    BY <1>2
  <1> QED
    BY <1>4, <1>13, <1>16, <1>17, <1>18 DEF Store!Update

\* A write of a writer brings the one copy to the file.
LEMMA WriterStores ==
    ASSUME CacheInv, CacheInv', NEW w \in Writer, WriterWrite(w)
    PROVE  \E k \in Key : Store!WriteBack(k)
  <1>0. PICK e : e = wr[w].ent
    OBVIOUS
  <1>1. PICK k : k = key[e]
    OBVIOUS
  <1>2. e \in Entry /\ k \in Key /\ "reading" \notin flag[e]
    BY <1>0, <1>1, Writes, ZenonT(40) DEF WriterWrite, WrPc
  <1>3. /\ UNCHANGED <<key, img, flag, cur, bufcur, ioactive>> /\ file' = [file EXCEPT ![k] = img[e].ver]
        /\ file \in [Key -> Nat]
    BY <1>0, <1>1 DEF WriterWrite, WriterUnchanged, devVars, CacheInv, Typed, CacheTyped
  <1>4. Latest(k) = img[e].ver
    BY <1>1, <1>2, LatestIs DEF LatestOK
  <1>5. \A j \in Key : Latest(j)' = Latest(j)
    BY <1>1, <1>2, <1>3, LatestOther
  <1>6. [j \in Key |-> Latest(j)]' = [j \in Key |-> Latest(j)]
    BY <1>5
  <1>7. [c \in Device |-> Sees(c)]' = [c \in Device |-> Sees(c)]
    BY <1>3 DEF Sees
  <1>8. file' = [file EXCEPT ![k] = [j \in Key |-> Latest(j)][k]]
    BY <1>2, <1>3, <1>4
  <1> QED
    BY <1>2, <1>6, <1>7, <1>8 DEF Store!WriteBack

LEMMA InitStores == Init => Store!Init
  <1> SUFFICES ASSUME Init PROVE Store!Init
    OBVIOUS
  <1>1. \A k \in Key : Latest(k) = 0
    BY InvInit, LatestIs, OfTracks DEF LatestOK, Init
  <1>2. [k \in Key |-> Latest(k)] = [k \in Key |-> 0]
    BY <1>1
  <1>3. \A d \in Device : Sees(d) = Store!Nothing
    BY DEF Init, Sees, Store!Nothing
  <1>4. [d \in Device |-> Sees(d)] = [d \in Device |-> Store!Nothing]
    BY <1>3
  <1>5. file = [k \in Key |-> 0]
    BY DEF Init
  <1> QED
    BY <1>2, <1>4, <1>5 DEF Store!Init

LEMMA NextStores == CacheInv /\ CacheInv' /\ NextQuiet => [Store!Next]_(Store!storeVars)
  <1> SUFFICES ASSUME CacheInv, CacheInv', NextQuiet PROVE [Store!Next]_(Store!storeVars)
    OBVIOUS
  <1>0. Next
    BY DEF NextQuiet
  <1>1. ASSUME NEW d \in Device, ProgramStep(d) PROVE [Store!Next]_(Store!storeVars)
    <2>1. CASE Update(d)
      BY <2>1, UpdateStores DEF Store!Next
    <2>2. CASE ~Update(d)
      BY <1>1, <2>2, ProgramTurns, TurnsNext
    <2> QED
      BY <2>1, <2>2
  <1>2. ASSUME NEW p \in User, ReadStep(p) PROVE [Store!Next]_(Store!storeVars)
    BY <1>2, ReadTurns, TurnsNext
  <1>3. ASSUME NEW r \in Reader, ReaderStep(r) PROVE [Store!Next]_(Store!storeVars)
    BY <1>3, ReaderTurns, TurnsNext
  <1>4. ASSUME NEW w \in Writer, WriterStep(w) PROVE [Store!Next]_(Store!storeVars)
    <2>1. CASE WriterWrite(w)
      BY <2>1, WriterStores DEF Store!Next
    <2>2. CASE ~WriterWrite(w)
      BY <1>4, <2>2, WriterTurns, TurnsNext
    <2> QED
      BY <2>1, <2>2
  <1>5. ASSUME GcStep PROVE [Store!Next]_(Store!storeVars)
    BY <1>5, GcTurns, TurnsNext
  <1>6. ASSUME NEW d \in Device, CmdStep(d) \/ CloseBegin(d) PROVE [Store!Next]_(Store!storeVars)
    BY <1>6, CommandTurns, TurnsNext
  <1>7. ASSUME NEW d \in Device, NEW op \in Operation \ {"close"}, CmdBegin(d, op)
        PROVE  [Store!Next]_(Store!storeVars)
    <2>1. merging'[d] /\ ~merging[d]
      <3>1. merging \in [Device -> BOOLEAN] /\ merging' = [merging EXCEPT ![d] = TRUE] /\ ~merging[d]
        BY <1>7 DEF CacheInv, Typed, CmdTyped, CmdBegin
      <3> QED
        BY <3>1
    <2>2. Reading(d) = {}
      BY <2>1 DEF NextQuiet
    <2> QED
      BY <1>7, <2>2, CommandTurns, TurnsNext
  <1> QED
    BY <1>0, <1>1, <1>2, <1>3, <1>4, <1>5, <1>6, <1>7 DEF Next

LEMMA StutterStores == UNCHANGED vars => UNCHANGED Store!storeVars
  <1> SUFFICES ASSUME UNCHANGED vars PROVE UNCHANGED Store!storeVars
    OBVIOUS
  <1>1. UNCHANGED <<key, flag, img, file, cur, bufcur, ioactive>>
    BY DEF vars
  <1>2. [k \in Key |-> Latest(k)]' = [k \in Key |-> Latest(k)]
    BY <1>1 DEF Latest
  <1>3. [c \in Device |-> Sees(c)]' = [c \in Device |-> Sees(c)]
    BY <1>1 DEF Sees
  <1> QED
    BY <1>1, <1>2, <1>3 DEF Store!storeVars

\* OneCopy: the cache implements TrackStore.  Every program that turns to a
\* track sees the latest update of it, whatever is flushed, stolen, read ahead,
\* made current again or purged meanwhile, and what is written to the file is
\* the latest contents (cckd_read_trk, cckd_update_track, cckd_writer,
\* cckd_purge_cache).
THEOREM CacheIsOneCopy == SpecQuiet => OneCopy
  <1>1. CacheInv /\ CacheInv' /\ [NextQuiet]_vars => [Store!Next]_(Store!storeVars)
    BY NextStores, StutterStores
  <1> QED
    BY InitStores, Invariance, <1>1, PTL DEF SpecQuiet, OneCopy, Store!Spec
=============================================================================
