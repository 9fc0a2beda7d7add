----------------------------- MODULE CckdCache -----------------------------
(***************************************************************************)
(* The track cache of the compressed CKD/FBA devices: cckddasd.c over the  *)
(* cache manager cache.c.  One cache is shared by every compressed device; *)
(* an entry holds the image of one track in a buffer.  Five kinds of       *)
(* threads meet in it: the thread that runs a device's channel program,    *)
(* the readahead threads, the writer threads, the garbage collector and    *)
(* the command or configuration thread that adds or removes a shadow file  *)
(* or closes the device.                                                   *)
(*                                                                         *)
(* One step is one section of code under the locks it holds (iolock of the *)
(* device, cache lock, wrlock, ralock, filelock).  An image is a record of *)
(* the track it was read for and a version that every update increments.   *)
(* The age of an entry is abstracted: any entry that is not busy may be    *)
(* the oldest one, and any pending entry the next to be written.           *)
(***************************************************************************)
EXTENDS Integers, FiniteSets

CONSTANTS
  Device,      \* compressed devices
  NTracks,     \* tracks of a device, 1 .. NTracks (a model bound)
  Entry,       \* entries of the cache
  Reader,      \* readahead threads, cckdblk.ramax of them
  Writer,      \* writer threads, cckdblk.wrmax of them
  RaDepth,     \* cckdblk.readaheads, tracks read ahead
  RaSize,      \* cckdblk.ranbr, size of the readahead queue
  MaxVersion,  \* bound on the version of a track
  Updatable,   \* the tracks that programs update (a model bound)
  Operation,   \* what the command thread may do
  MaxCommands, \* bound on the commands given to a device
  MaxQueued,   \* bound on cckdblk.wrpending: a count this high stays there
  NoEntry, NoKey

ASSUME ConstantsAssumption ==
  /\ NTracks \in Nat \ {0} /\ Updatable \subseteq 1 .. NTracks /\ RaDepth \in Nat /\ RaSize \in Nat
  /\ MaxVersion \in Nat /\ MaxCommands \in Nat
  /\ MaxQueued \in Nat /\ MaxQueued > Cardinality(Entry)
  /\ IsFiniteSet(Entry) /\ IsFiniteSet(Device)
  /\ Device \cap Reader = {} /\ Writer # {}
  /\ NoEntry \notin Entry
  /\ Operation \subseteq {"sf", "merge", "base", "close"}

Track == 1 .. NTracks
Key == Device \X Track
ASSUME NoKeyAssumption == NoKey \notin Key
Flag == {"active", "reading", "writing", "iowait", "updated", "write"}
User == Device \cup Reader   \* the threads that call cckd_read_trk

VARIABLES
  key,        \* key[e]: the track cached in e, NoKey when the entry is empty
  flag,       \* flag[e]: the CACHE_BUSY bits that are on
  img,        \* img[e]: what the buffer of e holds
  file,       \* file[k]: version of the track in the device's current file
  cur,        \* dev->cache: the entry of the current track
  bufcur,     \* dev->bufcur: the current track, 0 for none
  wrpending,  \* cckd->wrpending of the device
  wrqueued,   \* cckdblk.wrpending
  ioactive,   \* cckd->ioactive
  updated,    \* cckd->updated
  merging,    \* cckd->merging
  stopping,   \* cckd->stopping
  asleep,     \* threads of a device that sleep on its iocond
  cwait,      \* threads that sleep on the condition of the cache
  raq,        \* readahead queue
  th,         \* the threads that read tracks: channel programs, readaheads
  wr,         \* writer threads
  gc,         \* the garbage collector
  cmd,        \* the command thread of a device
  chain       \* cckdblk.dev1st and its chain: the open devices

cacheVars == <<key, flag, img>>
devVars == <<cur, bufcur, ioactive, updated>>
cmdVars == <<merging, stopping, cmd, chain>>
vars == <<key, flag, img, file, cur, bufcur, wrpending, wrqueued, ioactive,
          updated, merging, stopping, asleep, cwait, raq, th, wr, gc, cmd, chain>>
----------------------------------------------------------------------------
\* Threads: what each is doing
ProgramPc == {"idle", "start", "startwait", "run", "look", "hitwait", "sched", "fill",
              "filled", "read", "flushmiss", "flushend", "cachewait", "cachesleep"}
ReaderPc == {"none", "new", "wait", "woken", "loop", "look", "fill", "filled", "read",
             "flushmiss", "flushend", "cachewait", "cachesleep"}

TypeOK ==
  /\ key \in [Entry -> Key \cup {NoKey}]
  /\ flag \in [Entry -> SUBSET Flag]
  /\ img \in [Entry -> [of : Key \cup {NoKey}, ver : Nat]]
  /\ file \in [Key -> Nat]
  /\ cur \in [Device -> Entry \cup {NoEntry}]
  /\ bufcur \in [Device -> Track \cup {0}]
  /\ wrpending \in [Device -> 0 .. Cardinality(Entry)] /\ wrqueued \in 0 .. MaxQueued
  /\ ioactive \in [Device -> BOOLEAN] /\ updated \in [Device -> BOOLEAN]
  /\ merging \in [Device -> BOOLEAN] /\ stopping \in [Device -> BOOLEAN]
  /\ asleep \in [Device -> SUBSET {"program", "command"}]
  /\ cwait \subseteq User
  /\ raq \subseteq Key
  /\ th \in [User -> [pc : ProgramPc \cup ReaderPc, key : Key \cup {NoKey},
                      ent : Entry \cup {NoEntry}, seq : BOOLEAN, todo : SUBSET Device]]
  /\ wr \in [Writer -> [pc : {"none", "new", "loop", "wait", "woken", "write", "wrote"},
                        ent : Entry \cup {NoEntry}]]
  /\ gc \in [pc : {"none", "wait", "pass", "flush"}, todo : SUBSET Device, dev : Device]
  /\ cmd \in [Device -> [pc : {"idle", "stop", "drain", "file", "unchain", "closed"},
                         op : {"sf", "merge", "base", "close"}, given : 0 .. MaxCommands]]
  /\ chain \subseteq Device

Init ==
  /\ key = [e \in Entry |-> NoKey]
  /\ flag = [e \in Entry |-> {}]
  /\ img = [e \in Entry |-> [of |-> NoKey, ver |-> 0]]
  /\ file = [k \in Key |-> 0]
  /\ cur = [d \in Device |-> NoEntry] /\ bufcur = [d \in Device |-> 0]
  /\ wrpending = [d \in Device |-> 0] /\ wrqueued = 0
  /\ ioactive = [d \in Device |-> FALSE] /\ updated = [d \in Device |-> FALSE]
  /\ merging = [d \in Device |-> FALSE] /\ stopping = [d \in Device |-> FALSE]
  /\ asleep = [d \in Device |-> {}] /\ cwait = {} /\ raq = {}
  /\ th = [p \in User |-> [pc |-> IF p \in Device THEN "idle" ELSE "none", key |-> NoKey,
                           ent |-> NoEntry, seq |-> FALSE, todo |-> {}]]
  /\ wr = [w \in Writer |-> [pc |-> "none", ent |-> NoEntry]]
  /\ \E d \in Device : gc = [pc |-> "none", todo |-> {}, dev |-> d]
  /\ cmd = [d \in Device |-> [pc |-> "idle", op |-> "sf", given |-> 0]]
  /\ chain = Device
----------------------------------------------------------------------------
(* The cache manager                                                       *)
IoBusy(fs) == fs \cap {"reading", "writing"} # {}

\* Seeded defect: an entry that is read ahead may be taken.
FreeReading(f) == {e \in Entry : f[e] \subseteq {"reading"}}

Free(f) == {e \in Entry : f[e] = {}}

\* cache_setflag and cache_release: every entry that is made not busy wakes
\* one of the threads that wait for an entry
CacheSignal(f) ==
  LET n == Cardinality(Free(f) \ Free(flag))
  IN  \E s \in SUBSET cwait :
        /\ IF n >= Cardinality(cwait) THEN s = cwait ELSE Cardinality(s) = n
        /\ cwait' = cwait \ s

SetFlag(f) == flag' = f /\ CacheSignal(f)
On(f, e, bits) == [f EXCEPT ![e] = @ \cup bits]
Off(f, e, bits) == [f EXCEPT ![e] = @ \ bits]

(* Waiting on the iocond of a device                                       *)
IoWaiters(d) == th[d].pc \in {"startwait", "hitwait"} \/ cmd[d].pc = "drain"
Broadcast(d) == asleep' = [asleep EXCEPT ![d] = {}]

\* The next states of the threads t when one of the group is wanted: one that
\* waits is signalled, and if none waits a new thread is created while there
\* may be more.  Caller holds wrlock or ralock.
Scheduled(t, group) ==
  LET In(s) == {x \in group : t[x].pc \in s}
      one(from, to) == IF In({from}) = {} THEN {t}
                       ELSE {[t EXCEPT ![x].pc = to] : x \in In({from})}
  IN  IF In({"wait", "woken"}) # {} THEN one("wait", "woken") ELSE one("none", "new")

\* Seeded defect: the entry of the current track is passed over.
FlushableNotCurrent(d, f) ==
  {e \in Entry : key[e] \in {d} \X Track /\ f[e] = {"updated"} /\ e # cur[d]}

\* cckd_flush_cache: the updated entries of d that nothing else holds become
\* pending; f is the flags the caller has set already.  An entry that is made
\* current again is not taken off cckdblk.wrpending, which so may drift above
\* the number of pending entries until a writer that finds none clears it.
Flushable(d, f) == {e \in Entry : key[e] \in {d} \X Track /\ f[e] = {"updated"}}

Flush(d, f) ==
  LET out == Flushable(d, f)
      n == Cardinality(out)
  IN  /\ SetFlag([e \in Entry |-> IF e \in out THEN {"write"} ELSE f[e]])
      /\ wrpending' = [wrpending EXCEPT ![d] = @ + n]
      /\ wrqueued' = IF wrqueued + n > MaxQueued THEN MaxQueued ELSE wrqueued + n
      /\ wr' \in IF wrqueued + n # 0 THEN Scheduled(wr, Writer) ELSE {wr}

\* Seeded defects: the entry stays pending; its write stays counted.
UnpendStill(d, e, f) ==
  IF "write" \in f[e]
  THEN /\ SetFlag([f EXCEPT ![e] = @ \cup {"updated"}])
       /\ wrpending' = [wrpending EXCEPT ![d] = @ - 1]
       /\ IF wrpending[d] = 1 THEN Broadcast(d) ELSE UNCHANGED asleep
  ELSE SetFlag(f) /\ UNCHANGED <<wrpending, asleep>>

UnpendUncounted(d, e, f) ==
  IF "write" \in f[e]
  THEN /\ SetFlag([f EXCEPT ![e] = (@ \ {"write"}) \cup {"updated"}])
       /\ UNCHANGED <<wrpending, asleep>>
  ELSE SetFlag(f) /\ UNCHANGED <<wrpending, asleep>>

\* A pending entry that a program makes current again is only updated: f is
\* the flags with the entry active
Unpend(d, e, f) ==
  IF "write" \in f[e]
  THEN /\ SetFlag([f EXCEPT ![e] = (@ \ {"write"}) \cup {"updated"}])
       /\ wrpending' = [wrpending EXCEPT ![d] = @ - 1]
       /\ IF wrpending[d] = 1 THEN Broadcast(d) ELSE UNCHANGED asleep
  ELSE SetFlag(f) /\ UNCHANGED <<wrpending, asleep>>
----------------------------------------------------------------------------
(* The channel program of a device: cckddasd_start, cckd_read_track,       *)
(* cckd_update_track, cckddasd_end                                         *)
Goto(p, pc) == th' = [th EXCEPT ![p].pc = pc]
At(pc) == [pc |-> pc, key |-> NoKey, ent |-> NoEntry, seq |-> FALSE, todo |-> {}]
Done(p) == th' = [th EXCEPT ![p] = At(IF p \in Device THEN "run" ELSE "loop")]

\* Seeded defect: the entry may hold another track by now.
StillCurrentBlind(d) == cur[d] # NoEntry /\ ~IoBusy(flag[cur[d]])

\* The previous entry is still the track it was and nothing is moved in it
StillCurrent(d) ==
  /\ cur[d] # NoEntry
  /\ key[cur[d]] = <<d, bufcur[d]>>
  /\ ~IoBusy(flag[cur[d]])

BeginProgram(d, waited) ==
  /\ ioactive' = [ioactive EXCEPT ![d] = TRUE]
  /\ IF ~waited /\ StillCurrent(d)
     THEN Unpend(d, cur[d], On(flag, cur[d], {"active"})) /\ UNCHANGED <<cur, bufcur>>
     ELSE /\ cur' = [cur EXCEPT ![d] = NoEntry] /\ bufcur' = [bufcur EXCEPT ![d] = 0]
          /\ UNCHANGED <<flag, cwait, wrpending, asleep>>
  /\ Done(d)

\* execute_ccw_chain takes dev->lock, marks the device busy and releases the
\* lock again before it calls cckddasd_start (cckddasd_resume).  Whoever closes
\* a device holds dev->lock until the device is gone, so that no program gets
\* here meanwhile; one that got here before may go on at any time.
TakeDevice(d) ==
  /\ th[d].pc = "idle" /\ ~stopping[d]
  /\ Goto(d, "start")
  /\ UNCHANGED <<cacheVars, file, devVars, wrpending, wrqueued, cmdVars, asleep,
                 cwait, raq, wr, gc>>

\* cckddasd_start (start and resume): a program waits while the files of the
\* device are being merged.  That the device is closing is not looked at.
Start(d) ==
  /\ th[d].pc = "start"
  /\ IF merging[d]
     THEN /\ Goto(d, "startwait") /\ asleep' = [asleep EXCEPT ![d] = @ \cup {"program"}]
          /\ UNCHANGED <<cur, bufcur, ioactive, flag, cwait, wrpending>>
     ELSE BeginProgram(d, FALSE)
  /\ UNCHANGED <<key, img, file, wrqueued, updated, cmdVars, raq, wr, gc>>

StartWoken(d) ==
  /\ th[d].pc = "startwait" /\ "program" \notin asleep[d]
  /\ IF merging[d]
     THEN /\ asleep' = [asleep EXCEPT ![d] = @ \cup {"program"}]
          /\ UNCHANGED <<cur, bufcur, ioactive, flag, cwait, wrpending, th>>
     ELSE BeginProgram(d, TRUE)
  /\ UNCHANGED <<key, img, file, wrqueued, updated, cmdVars, raq, wr, gc>>

\* The scan of cckd_read_trk for k with the flags f, by a channel program
\* (ra = 0) or a readahead.  A hit by a program makes the entry active; a
\* program that hits an entry under I/O waits for it.
Lookup(p, k, f, seq) ==
  LET next(pc, e) == th' = [th EXCEPT ![p].pc = pc, ![p].key = k, ![p].ent = e, ![p].seq = seq]
  IN  \/ \E e \in Entry :
           /\ key[e] = k
           /\ IF p \in Reader
              THEN /\ Done(p) /\ SetFlag(f)
                   /\ UNCHANGED <<wrpending, asleep, cur, bufcur>>
              ELSE IF IoBusy(f[e])
              THEN /\ SetFlag(On(f, e, {"active", "iowait"})) /\ next("hitwait", e)
                   /\ asleep' = [asleep EXCEPT ![p] = @ \cup {"program"}]
                   /\ cur' = [cur EXCEPT ![p] = NoEntry]
                   /\ bufcur' = [bufcur EXCEPT ![p] = 0]
                   /\ UNCHANGED wrpending
              ELSE /\ Unpend(p, e, On(f, e, {"active"}))
                   /\ cur' = [cur EXCEPT ![p] = e] /\ bufcur' = [bufcur EXCEPT ![p] = k[2]]
                   /\ IF seq THEN next("sched", e) ELSE Done(p)
           /\ UNCHANGED <<key, img>>
      \/ /\ \A e \in Entry : key[e] # k
         /\ \E e \in Free(f) :
              /\ key' = [key EXCEPT ![e] = k]
              /\ SetFlag([f EXCEPT ![e] = IF p \in Reader THEN {"reading"}
                                          ELSE {"reading", "active"}])
              /\ next(IF seq THEN "sched" ELSE "fill", e)
         /\ IF p \in Device THEN /\ cur' = [cur EXCEPT ![p] = NoEntry]
                                 /\ bufcur' = [bufcur EXCEPT ![p] = 0]
                            ELSE UNCHANGED <<cur, bufcur>>
         /\ UNCHANGED <<img, wrpending, asleep>>
      \/ /\ \A e \in Entry : key[e] # k
         /\ Free(f) = {}
         /\ SetFlag(f)
         /\ th' = [th EXCEPT ![p].pc = "flushmiss", ![p].key = k, ![p].seq = seq,
                             ![p].todo = chain]
         /\ IF p \in Device THEN /\ cur' = [cur EXCEPT ![p] = NoEntry]
                                 /\ bufcur' = [bufcur EXCEPT ![p] = 0]
                            ELSE UNCHANGED <<cur, bufcur>>
         /\ UNCHANGED <<key, img, wrpending, asleep>>

LookupUnchanged == UNCHANGED <<file, wrqueued, ioactive, updated, cmdVars, raq, wr, gc>>

Inactive(d) == IF cur[d] = NoEntry THEN flag ELSE Off(flag, cur[d], {"active"})

\* cckd_read_track for a track that is not the current one
Read(d, t) ==
  /\ th[d].pc = "run" /\ ~(cur[d] # NoEntry /\ bufcur[d] = t)
  /\ Lookup(d, <<d, t>>, Inactive(d),
            bufcur[d] > 0 /\ t > bufcur[d] /\ t <= bufcur[d] + 2)
  /\ LookupUnchanged

\* A program run synchronously by the CPU does not wait: it gives up its
\* current entry and is continued by a device thread
ReadRetry(d, t) ==
  /\ th[d].pc = "run" /\ cur[d] # NoEntry /\ bufcur[d] # t
  /\ \A e \in Entry : key[e] = <<d, t>> => IoBusy(flag[e])
  /\ SetFlag(Inactive(d))
  /\ cur' = [cur EXCEPT ![d] = NoEntry] /\ bufcur' = [bufcur EXCEPT ![d] = 0]
  /\ UNCHANGED <<key, img, wrpending, asleep, th>> /\ LookupUnchanged

\* The wait for an entry being read or written, with the iolock
HitWoken(d) ==
  LET e == th[d].ent
  IN  /\ th[d].pc = "hitwait" /\ "program" \notin asleep[d]
      /\ IF IoBusy(flag[e])
         THEN /\ SetFlag(On(flag, e, {"iowait"}))
              /\ asleep' = [asleep EXCEPT ![d] = @ \cup {"program"}]
              /\ UNCHANGED <<cur, bufcur, th>>
         ELSE /\ SetFlag(Off(flag, e, {"iowait"}))
              /\ cur' = [cur EXCEPT ![d] = e]
              /\ bufcur' = [bufcur EXCEPT ![d] = th[d].key[2]]
              /\ IF th[d].seq THEN Goto(d, "sched") ELSE Done(d)
              /\ UNCHANGED asleep
      /\ UNCHANGED <<key, img, wrpending>> /\ LookupUnchanged

\* cckd_update_track on the current track
Update(d) ==
  /\ th[d].pc = "run" /\ cur[d] # NoEntry
  /\ bufcur[d] \in Updatable /\ img[cur[d]].ver < MaxVersion
  /\ img' = [img EXCEPT ![cur[d]].ver = @ + 1]
  /\ SetFlag(On(flag, cur[d], {"updated"}))
  /\ updated' = [updated EXCEPT ![d] = TRUE]
  /\ UNCHANGED <<key, cur, bufcur, wrpending, asleep, th>>
  /\ UNCHANGED <<file, wrqueued, ioactive, cmdVars, raq, wr, gc>>

\* cckddasd_end (end and suspend)
NoWriters == \A w \in Writer : wr[w].pc \in {"none", "new"}
End(d) ==
  /\ th[d].pc = "run"
  /\ Goto(d, "idle")
  /\ ioactive' = [ioactive EXCEPT ![d] = FALSE]
  /\ IF updated[d] /\ (NoWriters \/ IoWaiters(d))
     THEN Flush(d, Inactive(d)) /\ UNCHANGED asleep
     ELSE /\ SetFlag(Inactive(d)) /\ Broadcast(d)
          /\ UNCHANGED <<wrpending, wrqueued, wr>>
  /\ UNCHANGED <<key, img, file, cur, bufcur, updated, cmdVars, raq, gc>>
----------------------------------------------------------------------------
(* Reading an image, readahead and waiting for an entry                    *)

\* cckd_readahead: queue the tracks that follow and are neither cached nor
\* queued, as far as the queue has room, and get a reader for them; nothing is
\* queued if there are to be no readers
Readahead(d) ==
  LET t == th[d].key[2]
      missing == {k \in {<<d, t + i>> : i \in 1 .. RaDepth} :
                    Reader # {} /\ k[2] \in Track /\ k \notin raq /\ \A e \in Entry : key[e] # k}
  IN  /\ th[d].pc = "sched"
      /\ \E more \in SUBSET missing :
           /\ Cardinality(raq \cup more) <= RaSize
           /\ more = missing \/ Cardinality(raq \cup more) = RaSize
           /\ raq' = raq \cup more
      /\ LET t1 == IF "reading" \in flag[th[d].ent] THEN [th EXCEPT ![d].pc = "fill"]
                   ELSE [th EXCEPT ![d] = At("run")]
         IN  th' \in IF raq' = {} THEN {t1} ELSE Scheduled(t1, Reader)
      /\ UNCHANGED <<cacheVars, file, devVars, wrpending, wrqueued, cmdVars, asleep,
                     cwait, wr, gc>>

\* cckd_read_trkimg into the buffer, under the filelock
Fill(p) ==
  /\ th[p].pc = "fill"
  /\ img' = [img EXCEPT ![th[p].ent] = [of |-> th[p].key, ver |-> file[th[p].key]]]
  /\ Goto(p, "filled")
  /\ UNCHANGED <<key, flag, file, devVars, wrpending, wrqueued, cmdVars, asleep,
                 cwait, raq, wr, gc>>

\* The image is read: whoever waits for the entry may use it
FillDone(p) ==
  LET e == th[p].ent
      d == th[p].key[1]
  IN  /\ th[p].pc = "filled"
      /\ SetFlag(Off(flag, e, {"reading"}))
      /\ IF "iowait" \in flag[e] THEN Broadcast(d) ELSE UNCHANGED asleep
      /\ IF p \in Device
         THEN cur' = [cur EXCEPT ![d] = e] /\ bufcur' = [bufcur EXCEPT ![d] = th[p].key[2]]
         ELSE UNCHANGED <<cur, bufcur>>
      /\ Goto(p, "read")
      /\ UNCHANGED <<key, img, file, ioactive, updated, wrpending, wrqueued, cmdVars,
                     raq, wr, gc>>

\* The end of cckd_read_trk: a cache that is more than 80% busy is flushed
BusyPercent == (100 * Cardinality({e \in Entry : flag[e] # {}})) \div Cardinality(Entry)
ReadDone(p) ==
  /\ th[p].pc = "read"
  /\ IF BusyPercent > 80
     THEN th' = [th EXCEPT ![p].pc = "flushend", ![p].todo = chain]
     ELSE Done(p)
  /\ UNCHANGED <<cacheVars, file, devVars, wrpending, wrqueued, cmdVars, asleep,
                 cwait, raq, wr, gc>>

\* cckd_flush_cache_all: one device after the other, with the chain locked
FlushAll(p) ==
  /\ th[p].pc \in {"flushmiss", "flushend"}
  /\ \E d \in th[p].todo :
       /\ th' = [th EXCEPT ![p].todo = @ \ {d}]
       /\ IF ~merging[d] /\ ~stopping[d] THEN Flush(d, flag)
          ELSE UNCHANGED <<flag, cwait, wrpending, wrqueued, wr>>
  /\ UNCHANGED <<key, img, file, devVars, cmdVars, asleep, raq, gc>>

FlushAllDone(p) ==
  /\ th[p].pc \in {"flushmiss", "flushend"} /\ th[p].todo = {}
  /\ IF th[p].pc = "flushmiss" THEN Goto(p, "cachewait") ELSE Done(p)
  /\ UNCHANGED <<cacheVars, file, devVars, wrpending, wrqueued, cmdVars, asleep,
                 cwait, raq, wr, gc>>

\* cache_wait
CacheWait(p) ==
  /\ th[p].pc = "cachewait"
  /\ IF Free(flag) # {} THEN Goto(p, "look") /\ UNCHANGED cwait
     ELSE Goto(p, "cachesleep") /\ cwait' = cwait \cup {p}
  /\ UNCHANGED <<cacheVars, file, devVars, wrpending, wrqueued, cmdVars, asleep,
                 raq, wr, gc>>

CacheWoken(p) ==
  /\ th[p].pc = "cachesleep" /\ p \notin cwait
  /\ Goto(p, "look")
  /\ UNCHANGED <<cacheVars, file, devVars, wrpending, wrqueued, cmdVars, asleep,
                 cwait, raq, wr, gc>>

\* A readahead's scan, and the scan after a wait for an entry
Look(p) ==
  /\ th[p].pc = "look"
  /\ Lookup(p, th[p].key, flag, th[p].seq)
  /\ LookupUnchanged

\* The loop of cckd_ra: nothing queued, or take a track.  Whether the other
\* readers are told of what is left depends on the slot at the head of the
\* queue (the code tests its index for zero), so either may happen.
ReaderIdle(r) ==
  /\ th[r].pc \in {"new", "loop"} /\ raq = {}
  /\ Goto(r, "wait")
  /\ UNCHANGED <<cacheVars, file, devVars, wrpending, wrqueued, cmdVars, asleep,
                 cwait, raq, wr, gc>>

ReaderTake(r) ==
  /\ th[r].pc \in {"new", "loop", "woken"}
  /\ \/ raq = {} /\ th[r].pc = "woken" /\ Goto(r, "loop") /\ UNCHANGED raq
     \/ \E k \in raq :
          LET skip == k[1] \notin chain \/ stopping[k[1]] \/ merging[k[1]]
              t1 == IF skip THEN [th EXCEPT ![r] = At("loop")]
                    ELSE [th EXCEPT ![r] = [At("look") EXCEPT !.key = k]]
          IN  /\ raq' = raq \ {k}
              /\ th' \in Scheduled(t1, Reader) \cup (IF raq' = {} THEN {} ELSE {t1})
  /\ UNCHANGED <<cacheVars, file, devVars, wrpending, wrqueued, cmdVars, asleep,
                 cwait, wr, gc>>

\* cckd->ras, under ralock
Reading(d) == {r \in Reader :
                 /\ th[r].pc \in {"look", "fill", "filled", "read", "flushmiss", "flushend",
                                  "cachewait", "cachesleep"}
                 /\ th[r].key[1] = d}
----------------------------------------------------------------------------
(* The writer threads                                                      *)
WriterUnchanged == UNCHANGED <<key, img, devVars, cmdVars, raq, th>>

WriterIdle(w) ==
  /\ wr[w].pc \in {"new", "loop"} /\ wrqueued = 0
  /\ wr' = [wr EXCEPT ![w].pc = "wait"]
  /\ UNCHANGED <<flag, file, wrpending, wrqueued, asleep, cwait, gc>> /\ WriterUnchanged

\* The scan for a pending entry, with the wrlock and the cache lock
WriterScan(w) ==
  LET pending == {e \in Entry : "write" \in flag[e]}
  IN  /\ wr[w].pc = "woken" \/ (wr[w].pc \in {"new", "loop"} /\ wrqueued # 0)
      /\ \/ /\ pending = {}
            /\ wrqueued' = 0 /\ wr' = [wr EXCEPT ![w].pc = "loop"]
            /\ UNCHANGED <<flag, cwait>>
         \/ \E e \in pending :
              LET begun == [wr EXCEPT ![w] = [pc |-> "write", ent |-> e]]
              IN  /\ SetFlag([flag EXCEPT ![e] = (@ \ {"write"}) \cup {"writing"}])
                  /\ wrqueued' = wrqueued - 1
                  /\ wr' \in IF wrqueued # 1 THEN Scheduled(begun, Writer) ELSE {begun}
      /\ UNCHANGED <<file, wrpending, asleep, gc>> /\ WriterUnchanged

\* Compress and cckd_write_trkimg, under the filelock; the collector is
\* started with the first track written
WriterWrite(w) ==
  LET e == wr[w].ent
  IN  /\ wr[w].pc = "write"
      /\ file' = [file EXCEPT ![key[e]] = img[e].ver]
      /\ wr' = [wr EXCEPT ![w].pc = "wrote"]
      /\ gc' = IF gc.pc = "none" THEN [gc EXCEPT !.pc = "wait"] ELSE gc
      /\ UNCHANGED <<flag, wrpending, wrqueued, asleep, cwait>> /\ WriterUnchanged



\* The end of the write, with the iolock
WriterDone(w) ==
  LET e == wr[w].ent
      d == key[e][1]
  IN  /\ wr[w].pc = "wrote"
      /\ SetFlag(Off(flag, e, {"writing"}))
      /\ wrpending' = [wrpending EXCEPT ![d] = @ - 1]
      /\ IF "iowait" \in flag[e] \/ wrpending[d] = 1 THEN Broadcast(d) ELSE UNCHANGED asleep
      /\ wr' = [wr EXCEPT ![w] = [pc |-> "loop", ent |-> NoEntry]]
      /\ UNCHANGED <<file, wrqueued, gc>> /\ WriterUnchanged
----------------------------------------------------------------------------
(* The garbage collector, as far as the cache is concerned: with the chain *)
(* locked it flushes each device that is neither merging nor stopping.  It *)
(* looks at that before it moves the images in the file, and not again     *)
(* before the flush.                                                       *)
GcUnchanged == UNCHANGED <<key, img, file, devVars, cmdVars, asleep, raq, th>>

GcPass ==
  /\ gc.pc = "wait"
  /\ gc' = [gc EXCEPT !.pc = "pass", !.todo = chain]
  /\ UNCHANGED <<flag, cwait, wrpending, wrqueued, wr>> /\ GcUnchanged

GcDevice ==
  /\ gc.pc = "pass"
  /\ \E d \in gc.todo :
       gc' = [pc |-> IF merging[d] \/ stopping[d] THEN "pass" ELSE "flush",
              todo |-> gc.todo \ {d}, dev |-> d]
  /\ UNCHANGED <<flag, cwait, wrpending, wrqueued, wr>> /\ GcUnchanged

GcFlush ==
  /\ gc.pc = "flush"
  /\ gc' = [gc EXCEPT !.pc = "pass"]
  /\ Flush(gc.dev, flag)
  /\ GcUnchanged

GcWait ==
  /\ gc.pc = "pass" /\ gc.todo = {}
  /\ gc' = [gc EXCEPT !.pc = "wait"]
  /\ UNCHANGED <<flag, cwait, wrpending, wrqueued, wr>> /\ GcUnchanged
----------------------------------------------------------------------------
(* Shadow file commands and the closing of a device                        *)
CmdUnchanged == UNCHANGED <<img, file, ioactive, updated, raq, th, gc>>

\* cckd_purge_cache: release every entry of d, whatever its flags
Purge(d) ==
  LET mine == {e \in Entry : key[e] \in {d} \X Track}
  IN  /\ key' = [e \in Entry |-> IF e \in mine THEN NoKey ELSE key[e]]
      /\ SetFlag([e \in Entry |-> IF e \in mine THEN {} ELSE flag[e]])
      /\ cur' = [cur EXCEPT ![d] = NoEntry] /\ bufcur' = [bufcur EXCEPT ![d] = 0]

\* Seeded defect: an active program is not waited for.
DrainActive(d, c) ==
  \/ /\ Flushable(d, flag) = {} /\ wrpending[d] = 0
     /\ Purge(d)
     /\ wr' \in IF wrqueued # 0 THEN Scheduled(wr, Writer) ELSE {wr}
     /\ IF c.op = "close" THEN Broadcast(d) ELSE UNCHANGED asleep
     /\ cmd' = [cmd EXCEPT ![d] = c]
     /\ UNCHANGED <<wrpending, wrqueued>>
  \/ /\ Flushable(d, flag) # {} \/ wrpending[d] # 0
     /\ Flush(d, flag)
     /\ asleep' = [asleep EXCEPT ![d] = @ \cup {"command"}]
     /\ cmd' = [cmd EXCEPT ![d] = [c EXCEPT !.pc = "drain"]]
     /\ UNCHANGED <<key, cur, bufcur>>

\* Flush the device and wait until nothing is pending and no program runs,
\* then purge its entries and go on with c.  The iolock is held but for the
\* wait, so the entries that are purged are those found drained.
Drain(d, c) ==
  \/ /\ Flushable(d, flag) = {} /\ wrpending[d] = 0 /\ ~ioactive[d]
     /\ Purge(d)
     /\ wr' \in IF wrqueued # 0 THEN Scheduled(wr, Writer) ELSE {wr}
     /\ IF c.op = "close" THEN Broadcast(d) ELSE UNCHANGED asleep
     /\ cmd' = [cmd EXCEPT ![d] = c]
     /\ UNCHANGED <<wrpending, wrqueued>>
  \/ /\ Flushable(d, flag) # {} \/ wrpending[d] # 0 \/ ioactive[d]
     /\ Flush(d, flag)
     /\ asleep' = [asleep EXCEPT ![d] = @ \cup {"command"}]
     /\ cmd' = [cmd EXCEPT ![d] = [c EXCEPT !.pc = "drain"]]
     /\ UNCHANGED <<key, cur, bufcur>>

\* sf+, sf-, sfc and sfk: no program starts until the files are in order
CmdBegin(d, op) ==
  /\ cmd[d].pc = "idle" /\ cmd[d].given < MaxCommands
  /\ ~merging[d]
  /\ merging' = [merging EXCEPT ![d] = TRUE]
  /\ Drain(d, [pc |-> "file", op |-> op, given |-> cmd[d].given + 1])
  /\ UNCHANGED <<stopping, chain>> /\ CmdUnchanged

CmdWoken(d) ==
  /\ cmd[d].pc = "drain" /\ "command" \notin asleep[d]
  /\ Drain(d, [cmd[d] EXCEPT !.pc = IF cmd[d].op = "close" THEN "unchain" ELSE "file"])
  /\ UNCHANGED <<merging, stopping, chain>> /\ CmdUnchanged

\* The files are worked on with the filelock, which leaves the contents of
\* the tracks as they are.  sf- purges the device a second time.  sf- of a
\* device that has its base file only returns without a broadcast.
CmdFile(d) ==
  /\ cmd[d].pc = "file"
  /\ merging' = [merging EXCEPT ![d] = FALSE]
  /\ cmd' = [cmd EXCEPT ![d].pc = "idle"]
  /\ \/ cmd[d].op = "sf" /\ Broadcast(d) /\ UNCHANGED <<key, flag, cwait, cur, bufcur>>
     \/ cmd[d].op = "merge" /\ Broadcast(d) /\ Purge(d)
     \/ cmd[d].op = "base" /\ UNCHANGED <<key, flag, cwait, cur, bufcur, asleep>>
  /\ UNCHANGED <<wrpending, wrqueued, wr, stopping, chain>> /\ CmdUnchanged

\* cckddasd_close_device: no readahead is begun any more, those in progress
\* are waited for, then the device is drained and leaves the chain
CloseBegin(d) ==
  /\ cmd[d].pc = "idle" /\ cmd[d].given < MaxCommands
  /\ stopping' = [stopping EXCEPT ![d] = TRUE]
  /\ cmd' = [cmd EXCEPT ![d] = [pc |-> "stop", op |-> "close", given |-> @.given + 1]]
  /\ UNCHANGED <<key, flag, cwait, cur, bufcur, asleep, wrpending, wrqueued, wr,
                 merging, chain>> /\ CmdUnchanged

CloseDrain(d) ==
  /\ cmd[d].pc = "stop" /\ Reading(d) = {}
  /\ Drain(d, [cmd[d] EXCEPT !.pc = "unchain"])
  /\ UNCHANGED <<merging, stopping, chain>> /\ CmdUnchanged

ChainUsed == \/ gc.pc \in {"pass", "flush"}
             \/ \E p \in User : th[p].pc \in {"flushmiss", "flushend"}
CloseUnchain(d) ==
  /\ cmd[d].pc = "unchain" /\ ~ChainUsed
  /\ chain' = chain \ {d}
  /\ cmd' = [cmd EXCEPT ![d].pc = "closed"]
  /\ UNCHANGED <<key, flag, cwait, cur, bufcur, asleep, wrpending, wrqueued, wr,
                 merging, stopping>> /\ CmdUnchanged
----------------------------------------------------------------------------
ProgramStep(d) ==
  \/ TakeDevice(d) \/ Start(d) \/ StartWoken(d) \/ HitWoken(d) \/ Update(d) \/ End(d)
  \/ Readahead(d)
  \/ \E t \in Track : Read(d, t) \/ ReadRetry(d, t)

ReadStep(p) ==
  \/ Look(p) \/ Fill(p) \/ FillDone(p) \/ ReadDone(p)
  \/ FlushAll(p) \/ FlushAllDone(p) \/ CacheWait(p) \/ CacheWoken(p)

ReaderStep(r) == ReaderIdle(r) \/ ReaderTake(r)
WriterStep(w) == WriterIdle(w) \/ WriterScan(w) \/ WriterWrite(w) \/ WriterDone(w)
GcStep == GcPass \/ GcDevice \/ GcFlush \/ GcWait
CmdStep(d) == CmdWoken(d) \/ CmdFile(d) \/ CloseDrain(d) \/ CloseUnchain(d)

Next ==
  \/ \E d \in Device : ProgramStep(d)
  \/ \E p \in User : ReadStep(p)
  \/ \E r \in Reader : ReaderStep(r)
  \/ \E w \in Writer : WriterStep(w)
  \/ GcStep
  \/ \E d \in Device : CmdStep(d)
  \/ \E d \in Device, op \in Operation \ {"close"} : CmdBegin(d, op)
  \/ \E d \in Device : "close" \in Operation /\ CloseBegin(d)

Spec == Init /\ [][Next]_vars

\* Commands are given at quiet moments, which the code leaves to whoever gives
\* them.  No sf command while a track of the device is being read ahead: the
\* commands do not wait for that, and purge the entry (see OneImage).  No close
\* while a program waits in cckddasd_start for another command, and no close is
\* through with its drain while a program has given up dev->lock and not yet
\* got into cckddasd_start: the close waits for neither, and the program goes
\* on with a device that is gone (see FileWorkAlone).
NextQuiet == /\ Next
             /\ \A d \in Device :
                  /\ merging'[d] /\ ~merging[d] => Reading(d) = {}
                  /\ stopping'[d] /\ ~stopping[d] => th[d].pc # "startwait"
                  /\ cmd'[d].pc = "unchain" /\ cmd[d].pc # "unchain" => th[d].pc # "start"
SpecQuiet == Init /\ [][NextQuiet]_vars

\* Every thread goes on when it can, a condition that was signalled wakes the
\* thread it chose, and a channel program comes to its end.
GoOn(p) == \/ ReadStep(p)
           \/ p \in Device /\ (Start(p) \/ StartWoken(p) \/ HitWoken(p) \/ Readahead(p))
           \/ p \in Reader /\ ReaderStep(p)
Fairness ==
  /\ \A p \in User : WF_vars(GoOn(p))
  /\ \A d \in Device : SF_vars(End(d)) /\ WF_vars(CmdStep(d))
  /\ \A w \in Writer : WF_vars(WriterStep(w))
  /\ WF_vars(GcStep)

FairSpec == Spec /\ Fairness
FairSpecQuiet == SpecQuiet /\ Fairness
----------------------------------------------------------------------------
(* What the cache promises                                                 *)
Latest(k) ==
  LET holds == {e \in Entry : key[e] = k /\ "reading" \notin flag[e]}
  IN  IF holds = {} THEN file[k] ELSE img[CHOOSE e \in holds : TRUE].ver

\* The track a program believes it is on, and the image it works on
Sees(d) ==
  IF ioactive[d] /\ cur[d] # NoEntry
  THEN [of |-> <<d, bufcur[d]>>, image |-> img[cur[d]]]
  ELSE [of |-> NoKey, image |-> [of |-> NoKey, ver |-> 0]]

Store == INSTANCE TrackStore WITH
           store <- [k \in Key |-> Latest(k)], disk <- file,
           seen <- [d \in Device |-> Sees(d)]

\* The cache behaves as one copy of every track: no update is lost between the
\* program, the cache and the file, whatever is flushed, stolen, made current
\* again, purged or read ahead meanwhile (cckd_read_trk, cckd_writer,
\* cckd_purge_cache).
OneCopy == Store!Spec

\* A track has at most one entry, and unless it is being read the entry holds
\* the image of the track it is filed under: the scan and the steal of
\* cckd_read_trk are one section under the cache lock, the wait for an entry
\* starts the scan over, and an entry under I/O is given to no other track.
OneImage ==
  /\ \A e1, e2 \in Entry : key[e1] = key[e2] /\ key[e1] # NoKey => e1 = e2
  /\ \A e \in Entry : key[e] # NoKey /\ "reading" \notin flag[e] => img[e].of = key[e]

\* The counts that threads wait by: cckd->wrpending is the number of writes of
\* the device not yet complete, so that its drain ends when they are done,
\* neither before nor never; cckdblk.wrpending is not less than the writes that
\* wait for a writer, and with one waiting a writer is awake or created.
WritesCounted ==
  /\ \A d \in Device :
       wrpending[d] = Cardinality({e \in Entry : /\ key[e] \in {d} \X Track
                                                 /\ flag[e] \cap {"write", "writing"} # {}})
  /\ wrqueued >= Cardinality({e \in Entry : "write" \in flag[e]})
  /\ (\E e \in Entry : "write" \in flag[e]) => \E w \in Writer : wr[w].pc \notin {"none", "wait"}

\* A file is worked on, and a closed device freed, with nothing of it in the
\* cache, no program active and no readahead begun (sf_add, sf_remove, sf_comp,
\* cckddasd_close_device): what other threads start while a command drains the
\* device, which they can until its very end, is drained too.  A promise for
\* commands given at quiet moments (NextQuiet) only.  A program that is between
\* dev->lock and cckddasd_start, or waits in there, when a close gets through
\* begins on the closed device, since nothing there looks at stopping.
FileWorkAlone ==
  \A d \in Device : cmd[d].pc \in {"file", "unchain", "closed"} =>
    /\ ~ioactive[d] /\ wrpending[d] = 0 /\ Reading(d) = {}
    /\ \A e \in Entry : key[e] \notin {d} \X Track

\* The places of a channel program outside cckd_read_trk
Outside == {"idle", "start", "startwait", "run"}



\* The updates of a device that is left alone are all in the file at last, once
\* the collector runs (it is created with the first track written: before that
\* an update may stay in the cache as long as the device is idle).
UpdatesWritten ==
  \A d \in Device : <>[](~ioactive[d] /\ gc.pc # "none") => <>[](\A t \in Track : Latest(<<d, t>>) = file[<<d, t>>])

=============================================================================
