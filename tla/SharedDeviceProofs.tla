-------------------------- MODULE SharedDeviceProofs --------------------------
(* For any number of clients, connections and tracks, whatever is lost: the  *)
(* caches of the systems that share a device are coherent; and a connection  *)
(* that waits for the device waits for a client that is there.               *)
EXTENDS SharedDevice, WellFoundedInduction, TLAPS

-----------------------------------------------------------------------------
(* Where a client and its connection stand.  The predicates of a client are  *)
(* about its record r, so that they can be said of the record a step makes.  *)

Conn == [id : Client \cup {None}, live : BOOLEAN, in : Request \cup {NoMsg},
         hdr : {"none", "connect", "start"}, pending : BOOLEAN,
         waiting : BOOLEAN, disconnect : BOOLEAN, purge : SUBSET Track]
Remote == [pc : {"idle", "run", "sent", "connect", "greet", "closed"},
           ask : Request \cup {NoMsg}, next : Request \cup {NoMsg},
           cur : Track \cup {None}, dirty : BOOLEAN,
           left : Nat, failed : BOOLEAN,
           cache : [Track -> {"none", "good", "old"}]]

\* The device thread waits with the START of the connection.
SrvAt(i) == srv.pc # "loop" /\ srv.ix = i

\* A channel program whose START has been answered and whose END has not.
Past(r) == r.pc = "run" \/ r.ask.cmd \in {"end", "reserve", "release", "read", "write"}
Reading(r, t) == r.ask.cmd = "read" /\ r.ask.trk = t
Answering(c, cmd) == cl[c].pc = "sent" /\ resp[c] # NoAnswer /\ cl[c].ask.cmd = cmd

\* Every image in the cache is the server's, but for one that is being read, or
\* could not be.
Clean(r) == \A t \in Track : r.cache[t] = "old" => Reading(r, t) \/ (r.failed /\ r.cur = None)

\* The server may still grant a START of the client.
StartPending(c) ==
  \E i \in Slot : slot[i].id = c /\ (slot[i].in.cmd = "start" \/ slot[i].hdr = "start" \/ SrvAt(i))

-----------------------------------------------------------------------------
(* The inductive invariant.                                                  *)

\* What a client's own record says of the request it makes.
RecordOK(c, r) ==
  /\ IF r.pc \in {"sent", "connect", "greet"} THEN r.ask \in Request ELSE r.ask = NoMsg
  /\ r.ask.cmd = "read" => /\ r.ask.trk \in Track /\ r.cur = None /\ r.left < Accesses[c]
                           /\ r.cache[r.ask.trk] # "none"
  /\ r.ask.cmd = "write" => /\ r.ask.trk \in Track /\ r.cur = r.ask.trk
                            /\ r.next \in Request /\ r.next.cmd \in {"read", "end"}
                            /\ r.next.cmd = "read" => /\ r.next.trk \in Track
                                                     /\ r.left < Accesses[c]
  /\ r.dirty => /\ r.cur # None
                /\ r.ask.cmd = "write" \/ (r.pc = "run" /\ r.left < Accesses[c])
  /\ r.failed => r.cur = None /\ (r.pc = "run" \/ r.ask.cmd = "end")
  /\ r.cur # None => r.cache[r.cur] # "none"
  /\ r.left <= Accesses[c]

\* The cache of a program that has the device is clean.  A client whose START
\* may yet be granted on a connection that has gone has forgotten everything.
CacheOK(c, r) ==
  Past(r) => /\ ioactive = c => Clean(r)
             /\ StartPending(c) => (Clean(r) /\ \A t \in Track : r.cache[t] # "good")

ClientOK(c) ==
  /\ RecordOK(c, cl[c])
  /\ CacheOK(c, cl[c])
  /\ resp[c] # NoAnswer => cl[c].pc \in {"sent", "greet"}
  /\ Answering(c, "read") /\ resp[c].code = "ok" /\ ioactive = c
        => cl[c].cache[cl[c].ask.trk] = "good"

\* A connection without a client is free, a client has one at most, and a
\* request is in one place.
SlotOK(i) ==
  /\ slot[i].id = None => slot[i] = FreeSlot /\ ~SrvAt(i)
  /\ \A j \in Slot : slot[i].id = slot[j].id /\ slot[i].id # None => i = j
  /\ slot[i].in.cmd \in {"read", "write"} => slot[i].in.trk \in Track
  /\ slot[i].in # NoMsg => slot[i].hdr = "none" /\ ~SrvAt(i)
  /\ slot[i].hdr # "none" => ~SrvAt(i)
  /\ slot[i].id # None /\ ~slot[i].live => resp[slot[i].id] = NoAnswer

\* What the server has of a live connection is what the client has asked, and
\* everything that other systems have updated is on the purge list.
PurgeOK(i, r, a) ==
  /\ Past(r) /\ ioactive # slot[i].id /\ ~(r.pc = "sent" /\ a # NoAnswer /\ r.ask.cmd = "end")
        => slot[i].purge = Track
  /\ \A t \in Track : r.cache[t] = "old" =>
        \/ Reading(r, t)
        \/ t \in (IF r.pc = "sent" /\ a # NoAnswer /\ r.ask.cmd = "start" THEN a.purge
                                                                       ELSE slot[i].purge)

LinkOK(i, r, a) ==
  /\ slot[i].hdr = "connect" => r.pc = "greet" /\ a = NoAnswer
  /\ slot[i].in # NoMsg => r.pc = "sent" /\ a = NoAnswer /\ slot[i].in = r.ask
  /\ slot[i].hdr = "start" \/ SrvAt(i) => r.pc = "sent" /\ a = NoAnswer /\ r.ask.cmd = "start"
  /\ r.pc = "greet" => /\ a # NoAnswer \/ slot[i].hdr = "connect"
                       /\ ioactive # slot[i].id /\ slot[i].purge = Track
  /\ r.pc # "connect"
  /\ r.pc = "sent" /\ a # NoAnswer /\ r.ask.cmd = "start" => ioactive = slot[i].id
  /\ r.pc = "sent" /\ a # NoAnswer /\ r.ask.cmd = "read" /\ a.code = "error" => ioactive # slot[i].id

ConnOK(i) == slot[i].live => /\ LinkOK(i, cl[slot[i].id], resp[slot[i].id])
                             /\ PurgeOK(i, cl[slot[i].id], resp[slot[i].id])

\* The device is with a connected client, or the server's guest.
HolderOK ==
  /\ ioactive \in Client => \E i \in Slot : slot[i].id = ioactive
  /\ loc = "run" => ioactive = Local
  /\ srv.pc # "loop" => ioactive \in {Local, None}

CohInv == /\ TypeOK /\ HolderOK
          /\ \A c \in Client : ClientOK(c)
          /\ \A i \in Slot : SlotOK(i) /\ ConnOK(i)

\* A connection that waits, but for the one the device thread waits with, waits
\* for another client; and a client ends its program or leaves only if the device
\* is not left to it, unless it has it reserved.
LeaveAt(i) ==
  /\ slot[i].waiting /\ ~SrvAt(i) => ioactive \in Client \ {slot[i].id}
  /\ slot[i].in.cmd = "disconnect" => ioactive # slot[i].id
  /\ (/\ slot[i].live /\ ioactive = slot[i].id
      /\ cl[slot[i].id].pc = "idle" \/ Answering(slot[i].id, "end")) => reserved
LeaveOK == \A i \in Slot : LeaveAt(i)

\* No client is detached while it holds a reservation.
ClosedReleased == \A c \in Client : <<"close", c>> \in Ops => <<"keep", c>> \notin Ops
-----------------------------------------------------------------------------
LEMMA Constants ==
    /\ None \notin Client /\ Local \notin Client /\ None # Local /\ None \notin Track
    /\ NoMsg \notin Request /\ NoMsg.cmd = "none" /\ "none" \notin Command
    /\ \A m \in Request : m.cmd \in Command
    /\ NoAnswer \notin Answer
  BY ConstantsAssumption DEF NoMsg, Request, Command, NoAnswer, Answer

LEMMA Typed ==
    ASSUME TypeOK
    PROVE  /\ slot \in [Slot -> Conn] /\ cl \in [Client -> Remote]
           /\ resp \in [Client -> Answer \cup {NoAnswer}]
  BY DEF TypeOK, Conn, Remote

LEMMA CohInit == Init => CohInv
  <1>. SUFFICES ASSUME Init PROVE CohInv
    OBVIOUS
  <1>1. \A c \in Client : At[c] \in Slot /\ \A d \in Client : At[c] = At[d] => c = d
    BY ConstantsAssumption DEF Slot
  <1>. DEFINE who(i) == CHOOSE c \in Client : At[c] = i
  <1>2. \A i \in Slot : (\E c \in Client : At[c] = i) => who(i) \in Client /\ At[who(i)] = i
    OBVIOUS
  <1>3. \A i \in Slot : slot[i] = IF \E c \in Client : At[c] = i
                                  THEN [FreeSlot EXCEPT !.id = who(i), !.live = TRUE, !.purge = Track]
                                  ELSE FreeSlot
    BY DEF Init
  <1>. HIDE DEF who
  <1>4. FreeSlot \in Conn /\ FreeSlot.id = None /\ FreeSlot.in = NoMsg /\ FreeSlot.hdr = "none"
        /\ FreeSlot.live = FALSE
    BY DEF FreeSlot, Conn
  <1>5. ASSUME NEW i \in Slot
        PROVE  /\ slot[i] \in Conn /\ slot[i].in = NoMsg /\ slot[i].hdr = "none"
               /\ \/ slot[i] = FreeSlot
                  \/ /\ slot[i].id \in Client /\ At[slot[i].id] = i /\ slot[i].live
                     /\ slot[i].purge = Track
    <2>1. CASE \E c \in Client : At[c] = i
      <3>1. slot[i] = [FreeSlot EXCEPT !.id = who(i), !.live = TRUE, !.purge = Track]
        BY <1>3, <2>1
      <3>2. who(i) \in Client /\ At[who(i)] = i
        BY <1>2, <2>1
      <3>. QED
        BY <3>1, <3>2 DEF FreeSlot, Conn
    <2>2. CASE ~\E c \in Client : At[c] = i
      BY <1>3, <1>4, <2>2
    <2>. QED
      BY <2>1, <2>2
  <1>. DEFINE r0 == [pc |-> "idle", ask |-> NoMsg, next |-> NoMsg,
                     cur |-> None, dirty |-> FALSE, left |-> 0, failed |-> FALSE,
                     cache |-> [t \in Track |-> "none"]]
  <1>6. r0 \in Remote /\ cl = [c \in Client |-> r0]
    BY DEF Init, Remote
  <1>7. slot \in [Slot -> Conn]
    <2>1. slot = [i \in Slot |-> slot[i]]
      BY DEF Init
    <2>. QED
      BY <1>5, <2>1
  <1>8. r0.pc = "idle" /\ r0.ask = NoMsg /\ r0.cur = None /\ r0.dirty = FALSE /\ r0.left = 0
        /\ r0.failed = FALSE /\ \A t \in Track : r0.cache[t] = "none"
    OBVIOUS
  <1>. HIDE DEF r0
  <1>9. TypeOK
    <2>1. 1 \in Slot /\ 0 \in 0 .. MaxFaults
      BY ConstantsAssumption DEF Slot
    <2>2. cl \in [Client -> Remote]
      BY <1>6
    <2>3. resp \in [Client -> Answer \cup {NoAnswer}]
      BY DEF Init
    <2>4. \A c \in Client : cl[c].dirty => cl[c].cur # None
      BY <1>6, <1>8
    <2>5. /\ ioactive \in Client \cup {Local, None} /\ reserved \in BOOLEAN
          /\ srv \in [pc : {"loop", "wait", "awake"}, ix : Slot]
          /\ loc \in {"idle", "wait", "awake", "run", "susp"} /\ faults \in 0 .. MaxFaults
      BY <2>1 DEF Init
    <2>. QED
      BY <1>7, <2>2, <2>3, <2>4, <2>5 DEF TypeOK, Conn, Remote
  <1>10. HolderOK
    BY Constants DEF HolderOK, Init
  <1>11. srv.pc = "loop" /\ \A c \in Client : resp[c] = NoAnswer
    BY DEF Init
  <1>12. ASSUME NEW c \in Client PROVE ClientOK(c)
    <2>1. cl[c] = r0 /\ resp[c] = NoAnswer
      BY <1>6, <1>11
    <2>2. RecordOK(c, r0) /\ CacheOK(c, r0)
      BY <1>8, Constants, ConstantsAssumption DEF RecordOK, CacheOK, Past
    <2>. QED
      BY <2>1, <2>2 DEF ClientOK, Answering
  <1>13. ASSUME NEW i \in Slot PROVE SlotOK(i) /\ ConnOK(i)
    <2>1. SlotOK(i)
      <3>1. \A j \in Slot : slot[i].id = slot[j].id /\ slot[i].id # None => i = j
        BY <1>4, <1>5
      <3>. QED
        BY <1>4, <1>5, <1>11, <3>1, Constants DEF SlotOK, SrvAt
    <2>2. ASSUME slot[i].live PROVE ConnOK(i)
      <3>1. slot[i].id \in Client /\ slot[i].in = NoMsg /\ slot[i].hdr = "none"
        BY <1>4, <1>5, <2>2
      <3>2. cl[slot[i].id] = r0
        BY <1>6, <3>1
      <3>. QED
        BY <1>8, <1>11, <3>1, <3>2, Constants DEF ConnOK, LinkOK, PurgeOK, Past, SrvAt
    <2>. QED
      BY <2>1, <2>2 DEF ConnOK
  <1>. QED
    BY <1>9, <1>10, <1>12, <1>13 DEF CohInv

-----------------------------------------------------------------------------
(* What a step leaves alone.                                                 *)

\* s2 is what the invariant sees of connection s.
Alike(s2, s) == /\ s2.id = s.id /\ s2.live = s.live /\ s2.in = s.in /\ s2.hdr = s.hdr
                /\ s2.purge = s.purge

\* A step about client c, and the connections I that it has or gets, leaves the
\* other connections and clients as they are.
LEMMA StrangersKept ==
    ASSUME CohInv, NEW I \in SUBSET Slot, NEW c \in Client,
           \A i \in I : slot[i].id \in {c, None} /\ slot'[i].id \in {c, None},
           slot' \in [Slot -> Conn],
           \A j \in Slot \ I : /\ Alike(slot'[j], slot[j]) /\ SrvAt(j)' = SrvAt(j)
                               /\ slot[j].id # c
                               /\ slot[j].id = None => slot'[j] = slot[j],
           \A d \in Client \ {c} : /\ cl'[d] = cl[d] /\ resp'[d] = resp[d]
                                   /\ ioactive' = d <=> ioactive = d
    PROVE  /\ \A d \in Client \ {c} : ClientOK(d)'
           /\ \A j \in Slot \ I : SlotOK(j)' /\ ConnOK(j)'
  <1>1. ASSUME NEW d \in Client \ {c} PROVE ClientOK(d)'
    <2>1. ClientOK(d) /\ cl'[d] = cl[d] /\ resp'[d] = resp[d] /\ (ioactive' = d <=> ioactive = d)
      BY DEF CohInv
    <2>2. StartPending(d)' => StartPending(d)
      BY Constants DEF StartPending, Alike
    <2>3. CacheOK(d, cl[d])'
      BY <2>1, <2>2 DEF ClientOK, CacheOK
    <2>. QED
      BY <2>1, <2>3 DEF ClientOK, RecordOK, Answering
  <1>2. ASSUME NEW j \in Slot \ I PROVE SlotOK(j)' /\ ConnOK(j)'
    <2>1. /\ SlotOK(j) /\ ConnOK(j) /\ Alike(slot'[j], slot[j]) /\ SrvAt(j)' = SrvAt(j)
          /\ slot[j].id # c /\ (slot[j].id = None => slot'[j] = slot[j])
          /\ slot[j].id \in Client \cup {None}
      BY Typed DEF CohInv, Conn
    <2>2. SlotOK(j)'
      <3>1. \A k \in Slot : slot'[j].id = slot'[k].id /\ slot'[j].id # None => j = k
        BY <2>1 DEF SlotOK, Alike
      <3>. QED
        BY <2>1, <3>1 DEF SlotOK, Alike
    <2>3. ConnOK(j)'
      <3>1. CASE slot[j].id = None
        BY <2>1, <3>1 DEF SlotOK, ConnOK, FreeSlot
      <3>2. CASE slot[j].id \in Client \ {c}
        BY <2>1, <3>2 DEF ConnOK, LinkOK, PurgeOK, Alike
      <3>. QED
        BY <2>1, <3>1, <3>2
    <2>. QED
      BY <2>2, <2>3
  <1>. QED
    BY <1>1, <1>2

LEMMA OthersKept ==
    ASSUME CohInv, NEW i \in Slot, NEW c \in Client, slot[i].id \in {c, None},
           slot' \in [Slot -> Conn], slot'[i].id \in {c, None},
           \A j \in Slot \ {i} : /\ Alike(slot'[j], slot[j]) /\ SrvAt(j)' = SrvAt(j)
                                 /\ slot[j].id # c
                                 /\ slot[j].id = None => slot'[j] = slot[j],
           \A d \in Client \ {c} : /\ cl'[d] = cl[d] /\ resp'[d] = resp[d]
                                   /\ ioactive' = d <=> ioactive = d
    PROVE  /\ \A d \in Client \ {c} : ClientOK(d)'
           /\ \A j \in Slot \ {i} : SlotOK(j)' /\ ConnOK(j)'
  <1>1. {i} \in SUBSET Slot /\ \A k \in {i} : slot[k].id \in {c, None} /\ slot'[k].id \in {c, None}
    OBVIOUS
  <1>. QED
    BY <1>1, StrangersKept

-----------------------------------------------------------------------------
(* The steps of the server.                                                  *)

LEMMA ReplyDoes ==
    ASSUME TypeOK, NEW sl \in [Slot -> Conn], NEW i \in Slot, NEW s \in Conn, s.id \in Client,
           NEW a \in Answer, Reply(sl, i, s, a)
    PROVE  /\ slot' \in [Slot -> Conn] /\ \A j \in Slot \ {i} : slot'[j] = sl[j]
           /\ Alike(slot'[i], s)
           /\ resp' \in [Client -> Answer \cup {NoAnswer}]
           /\ \A d \in Client \ {s.id} : resp'[d] = resp[d]
           /\ resp'[s.id] = IF s.live THEN a ELSE resp[s.id]
  <1>1. CASE s.live
    BY <1>1, Typed DEF Reply, Alike
  <1>2. CASE ~s.live
    <2>1. [s EXCEPT !.disconnect = TRUE] \in Conn /\ Alike([s EXCEPT !.disconnect = TRUE], s)
      BY DEF Conn, Alike
    <2>. QED
      BY <1>2, <2>1, Typed DEF Reply
  <1>. QED
    BY <1>1, <1>2

LEMMA ServedDoes ==
    ASSUME TypeOK, NEW i \in Slot
    PROVE  /\ Served(i) \in Conn
           /\ Served(i).id = slot[i].id /\ Served(i).live = slot[i].live
           /\ Served(i).purge = slot[i].purge /\ Served(i).waiting = FALSE
           /\ Served(i).in = NoMsg /\ Served(i).hdr = "none"
           /\ NoWaiters(slot) \in [Slot -> Conn]
           /\ \A j \in Slot : Alike(NoWaiters(slot)[j], slot[j])
  <1>1. slot \in [Slot -> Conn]
    BY Typed
  <1>2. \A j \in Slot : /\ [slot[j] EXCEPT !.waiting = FALSE] \in Conn
                        /\ Alike([slot[j] EXCEPT !.waiting = FALSE], slot[j])
    BY <1>1 DEF Conn, Alike
  <1>3. NoWaiters(slot) \in [Slot -> Conn] /\ \A j \in Slot : Alike(NoWaiters(slot)[j], slot[j])
    BY <1>2 DEF NoWaiters
  <1>. QED
    BY <1>1, <1>3 DEF Served, Conn

LEMMA FreeKept ==
    ASSUME NEW j \in Slot, slot[j] = FreeSlot
    PROVE  NoWaiters(slot)[j] = FreeSlot
  <1>1. [FreeSlot EXCEPT !.waiting = FALSE] = FreeSlot
    <2>1. \A r \in Conn : r.waiting = FALSE => [r EXCEPT !.waiting = FALSE] = r
      BY DEF Conn
    <2>2. FreeSlot \in Conn /\ FreeSlot.waiting = FALSE
      BY DEF FreeSlot, Conn
    <2>. QED
      BY <2>1, <2>2
  <1>2. NoWaiters(slot)[j] = [slot[j] EXCEPT !.waiting = FALSE]
    BY DEF NoWaiters
  <1>. QED
    BY <1>1, <1>2

LEMMA TypeKept ==
    ASSUME TypeOK, slot' \in [Slot -> Conn], resp' \in [Client -> Answer \cup {NoAnswer}],
           ioactive' \in Client \cup {Local, None}, reserved' \in BOOLEAN,
           srv' \in [pc : {"loop", "wait", "awake"}, ix : Slot],
           loc' \in {"idle", "wait", "awake", "run", "susp"},
           cl' \in [Client -> Remote], \A c \in Client : cl'[c].dirty => cl'[c].cur # None,
           faults' \in 0 .. MaxFaults
    PROVE  TypeOK'
  BY DEF TypeOK, Conn, Remote

\* START granted, to a new request or to a saved one.
LEMMA GrantKeeps ==
    ASSUME CohInv, NEW i \in Slot, NEW c \in Client, slot[i].id = c,
           srv.pc # "loop" => srv.ix = i,
           slot[i].in.cmd = "start" \/ slot[i].hdr = "start" \/ SrvAt(i),
           ioactive \in {None, c, Local}, ioactive = Local => Suspended,
           Grant(i), UNCHANGED <<reserved, loc, cl, faults>>
    PROVE  CohInv'
  <1>. DEFINE s == [Served(i) EXCEPT !.purge = {}]
              a == [code |-> "ok", purge |-> slot[i].purge]
  <1>1. TypeOK /\ HolderOK /\ ClientOK(c) /\ SlotOK(i) /\ ConnOK(i) /\ slot[i] \in Conn
    BY Typed DEF CohInv
  <1>2. /\ s \in Conn /\ s.id = c /\ s.live = slot[i].live /\ s.in = NoMsg /\ s.hdr = "none"
        /\ s.purge = {} /\ a \in Answer /\ a # NoAnswer
    BY <1>1, ServedDoes DEF Conn, Answer, NoAnswer
  <1>3. Reply(slot, i, s, a) /\ ioactive' = c /\ srv' = [pc |-> "loop", ix |-> 1]
    BY DEF Grant
  <1>4. a.purge = slot[i].purge
    OBVIOUS
  <1>. HIDE DEF s, a
  <1>5. /\ slot' \in [Slot -> Conn] /\ \A j \in Slot \ {i} : slot'[j] = slot[j]
        /\ Alike(slot'[i], s)
        /\ resp' \in [Client -> Answer \cup {NoAnswer}]
        /\ \A d \in Client \ {c} : resp'[d] = resp[d]
        /\ resp'[c] = IF slot[i].live THEN a ELSE resp[c]
    BY <1>1, <1>2, <1>3, ReplyDoes, Typed
  <1>6. slot'[i].id = c /\ slot'[i].live = slot[i].live /\ slot'[i].in = NoMsg
        /\ slot'[i].hdr = "none" /\ slot'[i].purge = {} /\ srv'.pc = "loop"
    BY <1>2, <1>3, <1>5 DEF Alike
  <1>7. TypeOK'
    <2>1. srv' \in [pc : {"loop", "wait", "awake"}, ix : Slot]
      BY <1>3, ConstantsAssumption DEF Slot
    <2>. QED
      BY <1>1, <1>3, <1>5, <2>1, TypeKept, Typed DEF TypeOK
  <1>8. HolderOK'
    BY <1>1, <1>3, <1>6, Constants DEF HolderOK, Suspended
  <1>9. \A j \in Slot \ {i} : slot[j].id # c
    BY <1>1, Constants DEF SlotOK
  <1>10. /\ \A d \in Client \ {c} : ClientOK(d)'
         /\ \A j \in Slot \ {i} : SlotOK(j)' /\ ConnOK(j)'
    BY <1>3, <1>5, <1>6, <1>9, OthersKept, Constants DEF SrvAt, Alike
  <1>11. StartPending(c) /\ ~StartPending(c)'
    BY <1>5, <1>6, <1>9, Constants DEF StartPending, SrvAt
  <1>12. ClientOK(c)'
    BY <1>1, <1>3, <1>5, <1>6, <1>11, Constants
       DEF ClientOK, RecordOK, CacheOK, Past, Answering, ConnOK, LinkOK, SlotOK
  <1>13. SlotOK(i)'
    BY <1>1, <1>5, <1>6, <1>9, Constants DEF SlotOK, SrvAt
  <1>14. ConnOK(i)'
    BY <1>1, <1>2, <1>3, <1>4, <1>5, <1>6, Constants
       DEF ConnOK, LinkOK, PurgeOK, Past, SlotOK, Reading, SrvAt
  <1>. QED
    BY <1>7, <1>8, <1>10, <1>12, <1>13, <1>14 DEF CohInv

\* Any other request answered: by END and DISCONNECT the device may become free.
LEMMA AnswerKeeps ==
    ASSUME CohInv, NEW i \in Slot, NEW c \in Client, slot[i].id = c, srv.pc = "loop",
           NEW sl \in [Slot -> Conn],
           \A j \in Slot : Alike(sl[j], slot[j]) /\ (slot[j].id = None => sl[j] = slot[j]),
           NEW s \in Conn, Alike(s, Served(i)), NEW a \in Answer, Reply(sl, i, s, a),
           \/ slot[i].hdr = "connect"
           \/ slot[i].in # NoMsg /\ slot[i].in.cmd # "start",
           \/ ioactive' = ioactive
           \/ /\ ioactive = c /\ ioactive' \in {None, Local} /\ slot[i].hdr # "connect"
              /\ slot[i].in.cmd \in {"end", "disconnect"},
           \/ cl' = cl
           \/ slot[i].live /\ cl' = [cl EXCEPT ![c].cache[slot[i].in.trk] = "good"],
           slot[i].live /\ slot[i].in.cmd = "read" =>
             IF a.code = "ok" THEN cl' = [cl EXCEPT ![c].cache[slot[i].in.trk] = "good"]
             ELSE ioactive # c,
           UNCHANGED <<srv, faults>>, reserved' \in BOOLEAN,
           loc' = loc \/ (loc = "wait" /\ loc' = "awake"),
           cl' # cl => slot[i].in.cmd = "read"
    PROVE  CohInv'
  <1>1. /\ TypeOK /\ HolderOK /\ ClientOK(c) /\ SlotOK(i) /\ ConnOK(i) /\ slot[i] \in Conn
        /\ cl \in [Client -> Remote] /\ a # NoAnswer
    BY Typed, Constants DEF CohInv
  <1>2. /\ s.id = c /\ s.live = slot[i].live /\ s.in = NoMsg /\ s.hdr = "none"
        /\ s.purge = slot[i].purge
    BY <1>1, ServedDoes DEF Alike
  <1>3. /\ slot' \in [Slot -> Conn] /\ \A j \in Slot \ {i} : slot'[j] = sl[j]
        /\ Alike(slot'[i], s)
        /\ resp' \in [Client -> Answer \cup {NoAnswer}]
        /\ \A d \in Client \ {c} : resp'[d] = resp[d]
        /\ resp'[c] = IF slot[i].live THEN a ELSE resp[c]
    BY <1>1, <1>2, ReplyDoes, Typed
  <1>4. slot'[i].id = c /\ slot'[i].live = slot[i].live /\ slot'[i].in = NoMsg
        /\ slot'[i].hdr = "none" /\ slot'[i].purge = slot[i].purge
    BY <1>2, <1>3 DEF Alike
  <1>5. \A j \in Slot \ {i} : slot[j].id # c
    BY <1>1, Constants DEF SlotOK
  <1>6. \A j \in Slot : ~SrvAt(j) /\ ~SrvAt(j)'
    BY DEF SrvAt
  \* What the step does to the client's record.
  <1>7. /\ cl' \in [Client -> Remote] /\ \A d \in Client \ {c} : cl'[d] = cl[d]
        /\ \A d \in Client : /\ cl'[d].pc = cl[d].pc /\ cl'[d].ask = cl[d].ask
                             /\ cl'[d].next = cl[d].next /\ cl'[d].cur = cl[d].cur
                             /\ cl'[d].dirty = cl[d].dirty /\ cl'[d].left = cl[d].left
                             /\ cl'[d].failed = cl[d].failed
        /\ \A t \in Track : cl'[c].cache[t] = cl[c].cache[t] \/ cl'[c].cache[t] = "good"
        /\ cl'[c].cache # cl[c].cache => slot[i].live /\ slot[i].in.cmd = "read"
    <2>1. CASE cl' = cl
      BY <1>1, <2>1
    <2>2. CASE slot[i].live /\ cl' = [cl EXCEPT ![c].cache[slot[i].in.trk] = "good"]
      <3>1. "good" \in {"none", "good", "old"}
        OBVIOUS
      <3>2. cl' = [cl EXCEPT ![c] = [cl[c] EXCEPT !.cache = [cl[c].cache EXCEPT ![slot[i].in.trk] = "good"]]]
        BY <1>1, <2>2
      <3>3. cl[c] \in Remote /\ cl[c].cache \in [Track -> {"none", "good", "old"}]
        BY <1>1 DEF Remote
      <3>4. [cl[c].cache EXCEPT ![slot[i].in.trk] = "good"] \in [Track -> {"none", "good", "old"}]
        BY <3>1, <3>3
      <3>5. [cl[c] EXCEPT !.cache = [cl[c].cache EXCEPT ![slot[i].in.trk] = "good"]] \in Remote
        BY <3>3, <3>4 DEF Remote
      <3>6. CASE cl' = cl
        BY <1>1, <3>6
      <3>7. CASE cl' # cl
        BY <1>1, <2>2, <3>2, <3>3, <3>5, <3>7, SMTT(30) DEF Remote
      <3>. QED
        BY <3>6, <3>7
    <2>. QED
      BY <2>1, <2>2
  <1>8. TypeOK'
    <2>1. \A d \in Client : cl'[d].dirty => cl'[d].cur # None
      BY <1>1, <1>7 DEF TypeOK
    <2>. QED
      BY <1>1, <1>3, <1>7, <2>1, TypeKept DEF TypeOK
  <1>9. HolderOK'
    <2>1. \A j \in Slot : slot'[j].id = slot[j].id
      BY <1>3, <1>4 DEF Alike
    <2>. QED
      BY <1>1, <2>1, Constants DEF HolderOK
  <1>10. /\ \A d \in Client \ {c} : ClientOK(d)'
         /\ \A j \in Slot \ {i} : SlotOK(j)' /\ ConnOK(j)'
    <2>1. \A j \in Slot \ {i} : /\ Alike(slot'[j], slot[j]) /\ SrvAt(j)' = SrvAt(j)
                                /\ slot[j].id # c
                                /\ slot[j].id = None => slot'[j] = slot[j]
      BY <1>3, <1>5, <1>6 DEF SrvAt
    <2>2. \A d \in Client \ {c} : /\ cl'[d] = cl[d] /\ resp'[d] = resp[d]
                                  /\ ioactive' = d <=> ioactive = d
      BY <1>3, <1>7, Constants
    <2>. QED
      BY <1>3, <1>4, <2>1, <2>2, OthersKept
  <1>11. ~StartPending(c)'
    BY <1>3, <1>4, <1>5, <1>6, Constants DEF StartPending, Alike
  <1>12. ClientOK(c)'
    <2>1. RecordOK(c, cl[c])'
      <3>1. RecordOK(c, cl[c]) /\ cl[c].cur \in Track \cup {None}
        BY <1>1 DEF ClientOK, Remote
      <3>. QED
        BY <1>7, <3>1 DEF RecordOK
    <2>2. CacheOK(c, cl[c])'
      BY <1>1, <1>7, <1>11, Constants DEF ClientOK, CacheOK, Past, Clean, Reading
    <2>3. (resp[c] # NoAnswer => cl[c].pc \in {"sent", "greet"})'
      BY <1>1, <1>3, <1>7 DEF ClientOK, ConnOK, LinkOK
    <2>4. (Answering(c, "read") /\ resp[c].code = "ok" /\ ioactive = c
              => cl[c].cache[cl[c].ask.trk] = "good")'
      <3>1. CASE slot[i].live
        BY <1>1, <1>3, <1>7, <3>1, Constants DEF ConnOK, LinkOK, Answering, Remote, RecordOK, ClientOK
      <3>2. CASE ~slot[i].live
        BY <1>1, <1>3, <1>7, <3>2, Constants DEF SlotOK, Answering
      <3>. QED
        BY <3>1, <3>2
    <2>. QED
      BY <2>1, <2>2, <2>3, <2>4 DEF ClientOK
  <1>13. SlotOK(i)'
    <2>1. \A j \in Slot \ {i} : slot'[j].id # c
      BY <1>3, <1>5 DEF Alike
    <2>. QED
      BY <1>1, <1>3, <1>4, <1>6, <2>1, Constants DEF SlotOK
  <1>14. ASSUME slot[i].live PROVE LinkOK(i, cl[c], resp[c])' /\ PurgeOK(i, cl[c], resp[c])'
    <2>1. LinkOK(i, cl[c], resp[c]) /\ PurgeOK(i, cl[c], resp[c]) /\ resp'[c] = a
      BY <1>1, <1>3, <1>14 DEF ConnOK
    <2>2. LinkOK(i, cl[c], resp[c])'
      BY <1>1, <1>4, <1>6, <1>7, <1>14, <2>1, Constants DEF LinkOK, SlotOK
    <2>3. PurgeOK(i, cl[c], resp[c])'
      BY <1>1, <1>4, <1>6, <1>7, <1>14, <2>1, Constants DEF LinkOK, PurgeOK, SlotOK, Past, Reading
    <2>. QED
      BY <2>2, <2>3
  <1>15. ConnOK(i)'
    BY <1>4, <1>14 DEF ConnOK
  <1>. QED
    BY <1>8, <1>9, <1>10, <1>12, <1>13, <1>15 DEF CohInv

\* An update of track t: it goes on the purge list of every other connection,
\* and makes old what the other clients have of it.
LEMMA NotifyDoes ==
    ASSUME TypeOK, NEW by \in Client \cup {Local}, NEW t \in Track
    PROVE  /\ Notify(slot, by, t) \in [Slot -> Conn]
           /\ \A j \in Slot :
                 LET s == Notify(slot, by, t)[j] IN
                 /\ s.id = slot[j].id /\ s.live = slot[j].live /\ s.in = slot[j].in
                 /\ s.hdr = slot[j].hdr /\ s.waiting = slot[j].waiting
                 /\ slot[j].id \in {None, by} => s = slot[j]
                 /\ slot[j].purge \subseteq s.purge
                 /\ slot[j].id \notin {None, by} => t \in s.purge
  <1>1. slot \in [Slot -> Conn]
    BY Typed
  <1>2. ASSUME NEW j \in Slot, NEW p \in SUBSET Track
        PROVE  /\ [slot[j] EXCEPT !.purge = p] \in Conn
               /\ [slot[j] EXCEPT !.purge = p].purge = p
               /\ [slot[j] EXCEPT !.purge = p].id = slot[j].id
               /\ [slot[j] EXCEPT !.purge = p].live = slot[j].live
               /\ [slot[j] EXCEPT !.purge = p].in = slot[j].in
               /\ [slot[j] EXCEPT !.purge = p].hdr = slot[j].hdr
               /\ [slot[j] EXCEPT !.purge = p].waiting = slot[j].waiting
    BY <1>1, <1>2 DEF Conn
  <1>. DEFINE new(j) == IF Cardinality(slot[j].purge \cup {t}) > MaxPurge
                        THEN Track ELSE slot[j].purge \cup {t}
  <1>3. \A j \in Slot : /\ new(j) \in SUBSET Track /\ slot[j].purge \subseteq new(j) /\ t \in new(j)
    BY <1>1 DEF Conn
  <1>4. \A j \in Slot : Notify(slot, by, t)[j] = IF slot[j].id \in {None, by} THEN slot[j]
                                                 ELSE [slot[j] EXCEPT !.purge = new(j)]
    BY <1>1 DEF Notify, Conn
  <1>. HIDE DEF new
  <1>5. ASSUME NEW j \in Slot
        PROVE  LET s == Notify(slot, by, t)[j] IN
               /\ s \in Conn
               /\ s.id = slot[j].id /\ s.live = slot[j].live /\ s.in = slot[j].in
               /\ s.hdr = slot[j].hdr /\ s.waiting = slot[j].waiting
               /\ slot[j].id \in {None, by} => s = slot[j]
               /\ slot[j].purge \subseteq s.purge
               /\ slot[j].id \notin {None, by} => t \in s.purge
    <2>1. CASE slot[j].id \in {None, by}
      <3>1. Notify(slot, by, t)[j] = slot[j]
        BY <1>4, <2>1
      <3>. QED
        BY <1>1, <2>1, <3>1
    <2>2. CASE slot[j].id \notin {None, by}
      <3>1. Notify(slot, by, t)[j] = [slot[j] EXCEPT !.purge = new(j)]
        BY <1>4, <2>2
      <3>2. new(j) \in SUBSET Track /\ slot[j].purge \subseteq new(j) /\ t \in new(j)
        BY <1>3
      <3>. QED
        BY <1>2, <2>2, <3>1, <3>2
    <2>. QED
      BY <2>1, <2>2
  <1>6. Notify(slot, by, t) \in [Slot -> Conn]
    BY <1>5 DEF Notify
  <1>. QED
    BY <1>5, <1>6

LEMMA OutdateDoes ==
    ASSUME TypeOK, NEW by \in Client \cup {Local}, NEW t \in Track, cl' = Outdate(by, t)
    PROVE  /\ cl' \in [Client -> Remote]
           /\ \A d \in Client :
                 /\ cl'[d].pc = cl[d].pc /\ cl'[d].ask = cl[d].ask /\ cl'[d].next = cl[d].next
                 /\ cl'[d].cur = cl[d].cur /\ cl'[d].dirty = cl[d].dirty
                 /\ cl'[d].left = cl[d].left /\ cl'[d].failed = cl[d].failed
                 /\ d = by => cl'[d] = cl[d]
                 /\ \A u \in Track : \/ cl'[d].cache[u] = cl[d].cache[u]
                                     \/ cl[d].cache[u] = "good" /\ cl'[d].cache[u] = "old" /\ u = t
  <1>1. cl \in [Client -> Remote]
    BY Typed
  <1>2. \A d \in Client : cl[d] \in Remote /\ cl[d].cache \in [Track -> {"none", "good", "old"}]
    BY <1>1 DEF Remote
  <1>. DEFINE new(d) == [cl[d].cache EXCEPT ![t] = "old"]
  <1>3. \A d \in Client : /\ new(d) \in [Track -> {"none", "good", "old"}]
                          /\ new(d)[t] = "old"
                          /\ \A u \in Track \ {t} : new(d)[u] = cl[d].cache[u]
    BY <1>2
  <1>4. \A d \in Client : cl'[d] = IF d = by \/ cl[d].cache[t] # "good" THEN cl[d]
                                   ELSE [cl[d] EXCEPT !.cache = new(d)]
    BY <1>2 DEF Outdate, Remote
  <1>. HIDE DEF new
  <1>5. \A d \in Client : [cl[d] EXCEPT !.cache = new(d)] \in Remote
    BY <1>2, <1>3 DEF Remote
  <1>6. \A d \in Client : cl'[d] \in Remote
    BY <1>2, <1>4, <1>5
  <1>7. cl' \in [Client -> Remote]
    BY <1>6 DEF Outdate
  <1>. QED
    BY <1>2, <1>3, <1>4, <1>7 DEF Remote

LEMMA UpdateKeepsOthers ==
    ASSUME CohInv, NEW by \in Client \cup {Local}, NEW t \in Track, ioactive = by, ioactive' = by,
           \A j \in Slot : slot[j].id # by => slot'[j] = Notify(slot, by, t)[j],
           \A j \in Slot : slot'[j].id = slot[j].id, srv' = srv,
           cl' = Outdate(by, t), \A d \in Client \ {by} : resp'[d] = resp[d]
    PROVE  /\ \A d \in Client \ {by} : ClientOK(d)'
           /\ \A j \in Slot : slot[j].id # by => SlotOK(j)' /\ ConnOK(j)'
  <1>1. TypeOK /\ slot \in [Slot -> Conn] /\ \A j \in Slot : SrvAt(j)' = SrvAt(j)
    BY Typed DEF CohInv, SrvAt
  <1>2. \A j \in Slot : slot[j].id # by =>
                 /\ slot'[j].id = slot[j].id /\ slot'[j].live = slot[j].live
                 /\ slot'[j].in = slot[j].in /\ slot'[j].hdr = slot[j].hdr
                 /\ slot[j].id = None => slot'[j] = slot[j]
                 /\ slot[j].purge \subseteq slot'[j].purge /\ slot'[j].purge \subseteq Track
                 /\ slot[j].id # None => t \in slot'[j].purge
    BY <1>1, NotifyDoes, SMTT(30) DEF Conn
  <1>3. ASSUME NEW d \in Client \ {by} PROVE ClientOK(d)'
    <2>1. ClientOK(d) /\ resp'[d] = resp[d] /\ ioactive # d /\ ioactive' # d /\ cl[d] \in Remote
      BY Typed DEF CohInv
    <2>2. StartPending(d)' => StartPending(d)
      BY <1>1, <1>2 DEF StartPending
    <2>3. RecordOK(d, cl[d])'
      <3>1. RecordOK(d, cl[d]) /\ cl[d].cur \in Track \cup {None}
        BY <2>1 DEF ClientOK, Remote
      <3>. QED
        BY <1>1, <3>1, OutdateDoes DEF RecordOK
    <2>4. /\ cl'[d].pc = cl[d].pc /\ cl'[d].ask = cl[d].ask /\ cl'[d].failed = cl[d].failed
          /\ cl'[d].cur = cl[d].cur
          /\ \A u \in Track : \/ cl'[d].cache[u] = cl[d].cache[u]
                              \/ cl[d].cache[u] = "good" /\ cl'[d].cache[u] = "old" /\ u = t
      BY <1>1, OutdateDoes
    <2>5. CacheOK(d, cl[d])'
      BY <2>1, <2>2, <2>4 DEF ClientOK, CacheOK, Past, Clean, Reading
    <2>. QED
      BY <2>1, <2>3, <2>4, <2>5 DEF ClientOK, Answering
  <1>4. ASSUME NEW j \in Slot, slot[j].id # by PROVE SlotOK(j)' /\ ConnOK(j)'
    <2>1. SlotOK(j) /\ ConnOK(j) /\ slot[j].id \in Client \cup {None}
      BY <1>1 DEF CohInv, Conn
    <2>2. SlotOK(j)'
      <3>1. slot[j].id \in Client => resp'[slot[j].id] = resp[slot[j].id]
        BY <1>4
      <3>. QED
        BY <1>1, <1>2, <1>4, <2>1, <3>1 DEF SlotOK
    <2>3. ASSUME slot[j].live, NEW d \in Client, slot[j].id = d
          PROVE  LinkOK(j, cl[d], resp[d])' /\ PurgeOK(j, cl[d], resp[d])'
      <3>1. /\ LinkOK(j, cl[d], resp[d]) /\ PurgeOK(j, cl[d], resp[d])
            /\ resp'[d] = resp[d] /\ ioactive # d /\ ioactive' # d
        BY <1>4, <2>1, <2>3 DEF ConnOK
      <3>2. /\ cl'[d].pc = cl[d].pc /\ cl'[d].ask = cl[d].ask /\ cl'[d].failed = cl[d].failed
            /\ cl'[d].cur = cl[d].cur
            /\ \A u \in Track : \/ cl'[d].cache[u] = cl[d].cache[u]
                                \/ cl[d].cache[u] = "good" /\ cl'[d].cache[u] = "old" /\ u = t
        BY <1>1, OutdateDoes, SMTT(60)
      <3>3. /\ slot'[j].id = d /\ slot'[j].in = slot[j].in /\ slot'[j].hdr = slot[j].hdr
            /\ slot[j].purge \subseteq slot'[j].purge /\ slot'[j].purge \subseteq Track
            /\ t \in slot'[j].purge
        BY <1>2, <1>4, <2>3, Constants
      <3>4. LinkOK(j, cl[d], resp[d])'
        BY <1>1, <2>3, <3>1, <3>2, <3>3 DEF LinkOK
      <3>5. slot[j].purge = Track => slot'[j].purge = Track
        BY <3>3
      <3>6. ~(cl[d].pc = "sent" /\ resp[d] # NoAnswer /\ cl[d].ask.cmd = "start")
        BY <2>3, <3>1 DEF LinkOK
      <3>7. PurgeOK(j, cl[d], resp[d])'
        BY <2>3, <3>1, <3>2, <3>3, <3>5, <3>6 DEF PurgeOK, Past, Reading
      <3>. QED
        BY <3>4, <3>7
    <2>4. ConnOK(j)'
      <3>1. slot'[j].id = slot[j].id /\ slot'[j].live = slot[j].live
        BY <1>2, <1>4
      <3>2. slot[j].id = None => ~slot[j].live
        BY <2>1 DEF SlotOK, FreeSlot
      <3>. QED
        BY <2>1, <2>3, <3>1, <3>2 DEF ConnOK
    <2>. QED
      BY <2>2, <2>4
  <1>. QED
    BY <1>3, <1>4

LEMMA WriteKeeps ==
    ASSUME CohInv, NEW i \in Slot, NEW c \in Client, slot[i].id = c, srv.pc = "loop",
           slot[i].hdr = "none", slot[i].in.cmd = "write", ioactive = c,
           ServeWrite(i), UNCHANGED faults
    PROVE  CohInv'
  <1>. DEFINE t == slot[i].in.trk
              sl == Notify(slot, c, t)
  <1>1. /\ TypeOK /\ HolderOK /\ ClientOK(c) /\ SlotOK(i) /\ ConnOK(i) /\ slot[i] \in Conn
        /\ cl \in [Client -> Remote] /\ t \in Track /\ OK \in Answer /\ OK # NoAnswer
        /\ OK.code = "ok"
    BY Typed, Constants DEF CohInv, SlotOK, OK, Answer
  <1>2. /\ Reply(sl, i, Served(i), OK) /\ cl' = Outdate(c, t)
        /\ UNCHANGED <<ioactive, reserved, srv, loc, faults>>
    BY DEF ServeWrite
  <1>. HIDE DEF t
  <1>3. /\ sl \in [Slot -> Conn] /\ \A j \in Slot : sl[j].id = slot[j].id
    BY <1>1, NotifyDoes
  <1>. HIDE DEF sl
  <1>4. /\ slot' \in [Slot -> Conn] /\ \A j \in Slot \ {i} : slot'[j] = sl[j]
        /\ Alike(slot'[i], Served(i))
        /\ resp' \in [Client -> Answer \cup {NoAnswer}]
        /\ \A d \in Client \ {c} : resp'[d] = resp[d]
        /\ resp'[c] = IF slot[i].live THEN OK ELSE resp[c]
    <2>1. Served(i) \in Conn /\ Served(i).id = c /\ Served(i).live = slot[i].live
      BY <1>1, ServedDoes
    <2>. HIDE DEF Served
    <2>. QED
      BY <1>1, <1>2, <1>3, <2>1, ReplyDoes
  <1>5. slot'[i].id = c /\ slot'[i].live = slot[i].live /\ slot'[i].in = NoMsg
        /\ slot'[i].hdr = "none" /\ slot'[i].purge = slot[i].purge
    BY <1>1, <1>4, ServedDoes DEF Alike
  <1>6. \A j \in Slot \ {i} : slot[j].id # c
    BY <1>1, Constants DEF SlotOK
  <1>7. \A j \in Slot : slot'[j].id = slot[j].id
    BY <1>3, <1>4, <1>5
  <1>8. /\ \A d \in Client \ {c} : ClientOK(d)'
        /\ \A j \in Slot \ {i} : SlotOK(j)' /\ ConnOK(j)'
    <2>1. \A j \in Slot : slot[j].id # c => slot'[j] = Notify(slot, c, t)[j]
      BY <1>4 DEF sl
    <2>. QED
      BY <1>1, <1>2, <1>4, <1>6, <1>7, <2>1, UpdateKeepsOthers
  <1>9. cl' \in [Client -> Remote] /\ cl'[c] = cl[c]
        /\ \A d \in Client : cl'[d].dirty = cl[d].dirty /\ cl'[d].cur = cl[d].cur
    BY <1>1, <1>2, OutdateDoes
  <1>10. TypeOK'
    BY <1>1, <1>2, <1>4, <1>9, TypeKept DEF TypeOK
  <1>11. HolderOK'
    BY <1>1, <1>2, <1>7 DEF HolderOK
  <1>12. \A j \in Slot : ~SrvAt(j) /\ ~SrvAt(j)'
    BY <1>2 DEF SrvAt
  <1>13. ~StartPending(c)'
    BY <1>4, <1>5, <1>6, <1>7, <1>12, Constants DEF StartPending
  <1>14. slot[i].live => cl[c].ask.cmd = "write" /\ cl[c].pc = "sent"
    BY <1>1, Constants DEF ConnOK, LinkOK
  <1>15. ClientOK(c)'
    <2>1. CacheOK(c, cl[c])'
      BY <1>1, <1>2, <1>9, <1>13 DEF ClientOK, CacheOK
    <2>2. resp'[c] = resp[c] \/ (slot[i].live /\ resp'[c] = OK)
      BY <1>4
    <2>. QED
      BY <1>1, <1>2, <1>9, <1>14, <2>1, <2>2 DEF ClientOK, RecordOK, Answering
  <1>16. SlotOK(i)'
    BY <1>1, <1>4, <1>5, <1>6, <1>7, <1>12, Constants DEF SlotOK
  <1>17. ConnOK(i)'
    <2>1. ASSUME slot[i].live PROVE LinkOK(i, cl[c], resp[c])' /\ PurgeOK(i, cl[c], resp[c])'
      <3>1. LinkOK(i, cl[c], resp[c]) /\ PurgeOK(i, cl[c], resp[c]) /\ resp'[c] = OK
        BY <1>1, <1>4, <2>1 DEF ConnOK
      <3>. QED
        BY <1>1, <1>2, <1>5, <1>9, <1>12, <1>14, <2>1, <3>1, Constants
           DEF LinkOK, PurgeOK, Reading, Past
    <2>. QED
      BY <1>5, <2>1 DEF ConnOK
  <1>. QED
    BY <1>8, <1>10, <1>11, <1>15, <1>16, <1>17 DEF CohInv

\* The server only moves the request from one place to another, or marks the
\* connection: nothing is answered.
LEMMA MoveKeeps ==
    ASSUME CohInv, NEW i \in Slot, NEW c \in Client, slot[i].id = c, srv.pc # "loop" => srv.ix = i,
           slot' \in [Slot -> Conn], \A j \in Slot \ {i} : slot'[j] = slot[j],
           slot'[i].id = c, slot'[i].live = slot[i].live, slot'[i].purge = slot[i].purge,
           srv' \in [pc : {"loop", "wait", "awake"}, ix : Slot],
           srv'.pc # "loop" => srv'.ix = i /\ ioactive \in {Local, None},
           \/ slot'[i].in = slot[i].in /\ slot'[i].hdr = slot[i].hdr /\ srv' = srv
           \/ /\ slot[i].in.cmd = "start" \/ slot[i].hdr = "start" \/ SrvAt(i)
              /\ slot'[i].in = NoMsg
              /\ \/ slot'[i].hdr = "none"
                 \/ slot'[i].hdr = "start" /\ srv'.pc = "loop",
           UNCHANGED <<ioactive, reserved, loc, cl, resp, faults>>
    PROVE  CohInv'
  <1>1. /\ TypeOK /\ HolderOK /\ ClientOK(c) /\ SlotOK(i) /\ ConnOK(i) /\ slot[i] \in Conn
    BY Typed DEF CohInv
  <1>2. TypeOK'
    BY <1>1, TypeKept, Typed DEF TypeOK
  <1>3. HolderOK'
    BY <1>1 DEF HolderOK
  <1>4. \A j \in Slot \ {i} : slot[j].id # c /\ ~SrvAt(j) /\ ~SrvAt(j)'
    BY <1>1, Constants DEF SlotOK, SrvAt
  <1>5. /\ \A d \in Client \ {c} : ClientOK(d)'
        /\ \A j \in Slot \ {i} : SlotOK(j)' /\ ConnOK(j)'
    <2>1. \A j \in Slot \ {i} : /\ Alike(slot'[j], slot[j]) /\ SrvAt(j)' = SrvAt(j)
                                /\ slot[j].id # c
                                /\ slot[j].id = None => slot'[j] = slot[j]
      BY <1>4 DEF Alike, SrvAt
    <2>. QED
      BY <2>1, OthersKept
  <1>6. StartPending(c)' => StartPending(c)
    BY <1>4, Constants DEF StartPending, SrvAt
  <1>7. ClientOK(c)'
    BY <1>1, <1>6 DEF ClientOK, RecordOK, CacheOK, Answering
  <1>8. SlotOK(i)'
    <2>1. \A j \in Slot \ {i} : slot'[j].id # c
      BY <1>4
    <2>. QED
      BY <1>1, <2>1, Constants DEF SlotOK, SrvAt
  <1>9. ASSUME slot[i].live PROVE LinkOK(i, cl[c], resp[c])' /\ PurgeOK(i, cl[c], resp[c])'
    <2>1. LinkOK(i, cl[c], resp[c]) /\ PurgeOK(i, cl[c], resp[c])
      BY <1>1, <1>9 DEF ConnOK
    <2>2. LinkOK(i, cl[c], resp[c])'
      BY <1>1, <1>9, <2>1, Constants DEF LinkOK, SlotOK, SrvAt
    <2>3. PurgeOK(i, cl[c], resp[c])'
      BY <1>1, <1>9, <2>1 DEF PurgeOK
    <2>. QED
      BY <2>2, <2>3
  <1>10. ConnOK(i)'
    BY <1>9 DEF ConnOK
  <1>. QED
    BY <1>2, <1>3, <1>5, <1>7, <1>8, <1>10 DEF CohInv

LEMMA DeferKeeps ==
    ASSUME CohInv, NEW i \in Slot, NEW c \in Client, slot[i].id = c,
           srv.pc # "loop" => srv.ix = i,
           slot[i].in.cmd = "start" \/ slot[i].hdr = "start" \/ SrvAt(i),
           Defer(i) \/ (ioactive = Local /\ WaitForLocal(i)),
           UNCHANGED <<reserved, loc, cl, faults>>
    PROVE  CohInv'
  <1>1. slot \in [Slot -> Conn] /\ 1 \in Slot
    BY Typed, ConstantsAssumption DEF CohInv, Slot
  <1>. DEFINE s(h) == [slot[i] EXCEPT !.waiting = TRUE, !.in = NoMsg, !.hdr = h]
  <1>2. \A h \in {"none", "start"} :
            /\ s(h) \in Conn /\ s(h).id = c /\ s(h).live = slot[i].live /\ s(h).purge = slot[i].purge
            /\ s(h).in = NoMsg /\ s(h).hdr = h
    BY <1>1, ZenonT(60) DEF Conn
  <1>3. CASE Defer(i)
    <2>1. slot' = [slot EXCEPT ![i] = s("start")] /\ srv' = [pc |-> "loop", ix |-> 1]
      BY <1>1, <1>3 DEF Defer, Conn
    <2>. HIDE DEF s
    <2>2. slot' \in [Slot -> Conn] /\ slot'[i] = s("start") /\ \A j \in Slot \ {i} : slot'[j] = slot[j]
      BY <1>1, <1>2, <2>1
    <2>3. srv' \in [pc : {"loop", "wait", "awake"}, ix : Slot] /\ srv'.pc = "loop"
      BY <1>1, <2>1
    <2>. QED
      BY <1>2, <1>3, <2>2, <2>3, MoveKeeps DEF Defer
  <1>4. CASE ioactive = Local /\ WaitForLocal(i)
    <2>1. slot' = [slot EXCEPT ![i] = s("none")] /\ srv' = [pc |-> "wait", ix |-> i]
      BY <1>1, <1>4 DEF WaitForLocal, Conn
    <2>. HIDE DEF s
    <2>2. slot' \in [Slot -> Conn] /\ slot'[i] = s("none") /\ \A j \in Slot \ {i} : slot'[j] = slot[j]
      BY <1>1, <1>2, <2>1
    <2>3. srv' \in [pc : {"loop", "wait", "awake"}, ix : Slot] /\ srv'.ix = i
      BY <1>1, <2>1
    <2>. QED
      BY <1>2, <1>4, <2>2, <2>3, MoveKeeps DEF WaitForLocal
  <1>. QED
    BY <1>3, <1>4

\* A step that no connection and no client sees.
LEMMA UnseenKeeps ==
    ASSUME CohInv, slot' \in [Slot -> Conn],
           \A j \in Slot : /\ Alike(slot'[j], slot[j]) /\ SrvAt(j)' = SrvAt(j)
                           /\ slot[j].id = None => slot'[j] = slot[j],
           \A d \in Client : ioactive' = d <=> ioactive = d,
           UNCHANGED <<cl, resp, faults>>, TypeOK', HolderOK'
    PROVE  CohInv'
  <1>1. slot \in [Slot -> Conn]
    BY Typed DEF CohInv
  <1>2. ASSUME NEW d \in Client PROVE ClientOK(d)'
    <2>1. ClientOK(d) /\ (ioactive' = d <=> ioactive = d)
      BY DEF CohInv
    <2>2. StartPending(d)' => StartPending(d)
      BY DEF StartPending, Alike
    <2>. QED
      BY <2>1, <2>2 DEF ClientOK, RecordOK, CacheOK, Answering
  <1>3. ASSUME NEW j \in Slot PROVE SlotOK(j)' /\ ConnOK(j)'
    <2>1. /\ SlotOK(j) /\ ConnOK(j) /\ Alike(slot'[j], slot[j]) /\ SrvAt(j)' = SrvAt(j)
          /\ slot[j].id \in Client \cup {None}
      BY <1>1 DEF CohInv, Conn
    <2>2. SlotOK(j)'
      <3>1. \A k \in Slot : slot'[j].id = slot'[k].id /\ slot'[j].id # None => j = k
        BY <2>1 DEF SlotOK, Alike
      <3>. QED
        BY <2>1, <3>1 DEF SlotOK, Alike
    <2>3. ConnOK(j)'
      <3>1. CASE slot[j].id = None
        BY <2>1, <3>1 DEF SlotOK, ConnOK, FreeSlot, Alike
      <3>2. CASE slot[j].id \in Client
        BY <2>1, <3>2 DEF ConnOK, LinkOK, PurgeOK, Alike
      <3>. QED
        BY <2>1, <3>1, <3>2
    <2>. QED
      BY <2>2, <2>3
  <1>. QED
    BY <1>2, <1>3 DEF CohInv

LEMMA RemoveKeeps ==
    ASSUME CohInv, NEW i \in Slot, NEW c \in Client, slot[i].id = c, srv.pc = "loop",
           Remove(i), faults' \in 0 .. MaxFaults
    PROVE  CohInv'
  <1>1. /\ TypeOK /\ HolderOK /\ ClientOK(c) /\ SlotOK(i)
        /\ slot \in [Slot -> Conn]
    BY Typed DEF CohInv
  <1>2. UNCHANGED <<reserved, srv, cl, resp>>
    BY DEF Remove
  <1>3. FreeSlot \in Conn /\ FreeSlot.id = None /\ FreeSlot.live = FALSE /\ FreeSlot.in = NoMsg
        /\ FreeSlot.hdr = "none"
    BY DEF FreeSlot, Conn
  <1>4. /\ slot' \in [Slot -> Conn] /\ slot'[i] = FreeSlot
        /\ \A j \in Slot \ {i} : /\ Alike(slot'[j], slot[j])
                                 /\ slot[j].id = None => slot'[j] = slot[j]
    <2>1. PICK sl \in {slot, NoWaiters(slot)} : slot' = [sl EXCEPT ![i] = FreeSlot]
      BY DEF Remove
    <2>2. sl \in [Slot -> Conn] /\ \A j \in Slot : Alike(sl[j], slot[j])
      BY <1>1, <2>1, ServedDoes DEF Alike
    <2>3. \A j \in Slot : slot[j].id = None => sl[j] = slot[j]
      <3>1. \A j \in Slot : slot[j].id = None => slot[j] = FreeSlot
        BY DEF CohInv, SlotOK
      <3>2. \A j \in Slot : slot[j].id = None => NoWaiters(slot)[j] = slot[j]
        BY <3>1, FreeKept
      <3>. QED
        BY <2>1, <3>2
    <2>. QED
      BY <1>3, <2>1, <2>2, <2>3
  <1>5. /\ ioactive' = ioactive \/ (ioactive = c /\ ioactive' \in {None, Local})
        /\ loc' = loc \/ (loc = "wait" /\ loc' = "awake")
        /\ ioactive' # c
    BY Constants DEF Remove, FreeDevice, WakeLocal
  <1>6. TypeOK'
    BY <1>1, <1>2, <1>4, <1>5, TypeKept, Typed DEF TypeOK
  <1>7. \A j \in Slot : ~SrvAt(j) /\ ~SrvAt(j)'
    BY <1>2 DEF SrvAt
  <1>8. HolderOK'
    BY <1>1, <1>2, <1>4, <1>5, Constants DEF HolderOK, Alike
  <1>9. \A j \in Slot \ {i} : slot[j].id # c
    BY <1>1, Constants DEF SlotOK
  <1>10. /\ \A d \in Client \ {c} : ClientOK(d)'
         /\ \A j \in Slot \ {i} : SlotOK(j)' /\ ConnOK(j)'
    <2>1. \A j \in Slot \ {i} : SrvAt(j)' = SrvAt(j)
      BY <1>2 DEF SrvAt
    <2>2. \A d \in Client \ {c} : /\ cl'[d] = cl[d] /\ resp'[d] = resp[d]
                                  /\ ioactive' = d <=> ioactive = d
      BY <1>2, <1>5, Constants
    <2>. QED
      BY <1>3, <1>4, <1>9, <2>1, <2>2, OthersKept
  <1>11. ClientOK(c)'
    <2>1. ~StartPending(c)'
      BY <1>3, <1>4, <1>9, Constants DEF StartPending, Alike
    <2>. QED
      BY <1>1, <1>2, <1>5, <2>1 DEF ClientOK, RecordOK, CacheOK, Answering
  <1>12. SlotOK(i)' /\ ConnOK(i)'
    BY <1>3, <1>4, <1>7, Constants DEF SlotOK, ConnOK
  <1>. QED
    BY <1>6, <1>8, <1>10, <1>11, <1>12 DEF CohInv

LEMMA SelectKeeps == ASSUME CohInv, Select PROVE CohInv'
  <1>1. TypeOK /\ HolderOK /\ slot \in [Slot -> Conn]
    BY Typed DEF CohInv
  <1>2. UNCHANGED <<ioactive, reserved, srv, loc, cl, resp, faults>>
    BY DEF Select
  <1>3. \A j \in Slot : /\ slot'[j] \in Conn /\ Alike(slot'[j], slot[j])
                        /\ slot[j].id = None => slot'[j] = slot[j]
    BY <1>1 DEF Select, Readable, Alike, Conn
  <1>4. slot' \in [Slot -> Conn]
    BY <1>3 DEF Select
  <1>5. TypeOK' /\ HolderOK'
    BY <1>1, <1>2, <1>3, <1>4, TypeKept, Typed DEF TypeOK, HolderOK, Alike
  <1>6. \A j \in Slot : SrvAt(j)' = SrvAt(j)
    BY <1>2 DEF SrvAt
  <1>. QED
    BY <1>2, <1>3, <1>4, <1>5, <1>6, UnseenKeeps

LEMMA ServeKeeps == ASSUME CohInv, NEW i \in Slot, Serve(i) PROVE CohInv'
  <1>1. /\ TypeOK /\ HolderOK /\ SlotOK(i) /\ ConnOK(i) /\ slot[i] \in Conn /\ srv.pc = "loop"
        /\ slot \in [Slot -> Conn]
        /\ ServeRequest(i) /\ UNCHANGED faults
    BY Typed DEF CohInv, Serve
  <1>2. PICK c \in Client : slot[i].id = c
    BY <1>1 DEF Serve, Ready, Conn
  <1>3. slot[i].in.cmd \in Command \cup {"none"} /\ slot[i].in \in Request \cup {NoMsg}
        /\ OK \in Answer /\ Error \in Answer /\ OK.code = "ok" /\ Error.code = "error"
    BY <1>1, Constants DEF Conn, OK, Error, Answer
  <1>4. /\ Served(i) \in Conn /\ Alike(Served(i), Served(i))
        /\ [Served(i) EXCEPT !.disconnect = TRUE] \in Conn
        /\ Alike([Served(i) EXCEPT !.disconnect = TRUE], Served(i))
    BY <1>1, ServedDoes DEF Alike, Conn
  <1>5. \A j \in Slot : Alike(slot[j], slot[j])
    BY DEF Alike
  <1>6. CASE slot[i].hdr = "connect" /\ ServeConnect(i)
    BY <1>1, <1>2, <1>3, <1>4, <1>5, <1>6, AnswerKeeps, Constants DEF ServeConnect, TypeOK, SlotOK
  <1>7. CASE ServeStart(i) /\ (slot[i].in.cmd = "start" \/ slot[i].hdr = "start")
    <2>1. Start(i) /\ UNCHANGED <<reserved, loc, cl, faults>> /\ ioactive \in Client \cup {Local, None}
      BY <1>1, <1>7 DEF ServeStart, TypeOK
    <2>2. \/ Grant(i) /\ ioactive \in {None, c, Local} /\ (ioactive = Local => Suspended)
          \/ ioactive = Local /\ WaitForLocal(i)
          \/ Defer(i)
      BY <1>2, <2>1, Constants DEF Start
    <2>. QED
      BY <1>1, <1>2, <1>7, <2>1, <2>2, GrantKeeps, DeferKeeps
  <1>8. CASE slot[i].hdr = "none" /\ ReceiveError(i)
    <2>1. /\ slot' \in [Slot -> Conn] /\ \A j \in Slot \ {i} : slot'[j] = slot[j]
          /\ slot'[i].id = c /\ slot'[i].live = slot[i].live /\ slot'[i].purge = slot[i].purge
          /\ slot'[i].in = slot[i].in /\ slot'[i].hdr = slot[i].hdr
      BY <1>1, <1>2, <1>8 DEF ReceiveError, Conn
    <2>2. srv \in [pc : {"loop", "wait", "awake"}, ix : Slot]
      BY <1>1 DEF TypeOK
    <2>. QED
      BY <1>1, <1>2, <1>8, <2>1, <2>2, MoveKeeps DEF ReceiveError
  <1>9. CASE slot[i].hdr = "none" /\ slot[i].in.cmd = "disconnect" /\ ServeDisconnect(i)
    <2>1. /\ Reply(slot, i, [Served(i) EXCEPT !.disconnect = TRUE], OK)
          /\ ioactive' = ioactive \/ (ioactive = c /\ ioactive' \in {None, Local})
          /\ loc' = loc \/ (loc = "wait" /\ loc' = "awake")
          /\ UNCHANGED <<reserved, srv, cl>>
      BY <1>2, <1>9 DEF ServeDisconnect, FreeDevice, WakeLocal
    <2>. QED
      BY <1>1, <1>2, <1>3, <1>4, <1>5, <1>9, <2>1, AnswerKeeps, Constants DEF TypeOK
  <1>. DEFINE cmd == slot[i].in.cmd
  <1>10. CASE slot[i].hdr = "none" /\ cmd \notin {"none", "start", "disconnect"}
                /\ ioactive # c /\ ServeInactive(i)
    BY <1>1, <1>2, <1>3, <1>4, <1>5, <1>10, AnswerKeeps, Constants DEF ServeInactive, TypeOK
  <1>11. CASE slot[i].hdr = "none" /\ cmd = "end" /\ ioactive = c /\ ServeEnd(i)
    <2>1. PICK sl \in {slot, NoWaiters(slot)} : Reply(sl, i, Served(i), OK)
      BY <1>11 DEF ServeEnd
    <2>2. /\ ioactive' = ioactive \/ (ioactive = c /\ ioactive' \in {None, Local})
          /\ loc' = loc \/ (loc = "wait" /\ loc' = "awake")
          /\ UNCHANGED <<reserved, srv, cl>>
      BY <1>11 DEF ServeEnd, FreeDevice, WakeLocal
    <2>3. sl \in [Slot -> Conn] /\ \A j \in Slot : Alike(sl[j], slot[j])
      BY <1>1, <1>5, <2>1, ServedDoes
    <2>4. \A j \in Slot : slot[j].id = None => sl[j] = slot[j]
      <3>1. \A j \in Slot : slot[j].id = None => slot[j] = FreeSlot
        BY DEF CohInv, SlotOK
      <3>2. \A j \in Slot : slot[j].id = None => NoWaiters(slot)[j] = slot[j]
        BY <3>1, FreeKept
      <3>. QED
        BY <2>1, <3>2
    <2>. QED
      BY <1>1, <1>2, <1>3, <1>4, <1>11, <2>1, <2>2, <2>3, <2>4, AnswerKeeps, Constants DEF TypeOK
  <1>12. CASE slot[i].hdr = "none" /\ cmd \in {"reserve", "release"} /\ ServeReserve(i)
    BY <1>1, <1>2, <1>3, <1>4, <1>5, <1>12, AnswerKeeps, Constants DEF ServeReserve
  <1>13. CASE slot[i].hdr = "none" /\ cmd = "read" /\ ServeRead(i)
    BY <1>1, <1>2, <1>3, <1>4, <1>5, <1>13, AnswerKeeps, Constants DEF ServeRead, TypeOK
  <1>14. CASE slot[i].hdr = "none" /\ cmd = "write" /\ ioactive = c /\ ServeWrite(i)
    BY <1>1, <1>2, <1>14, WriteKeeps
  <1>15. CASE slot[i].hdr = "connect"
    BY <1>1, <1>6, <1>15, Constants DEF ServeRequest, SlotOK
  <1>16. CASE slot[i].hdr = "start"
    BY <1>1, <1>7, <1>16, Constants DEF ServeRequest, SlotOK
  <1>17. CASE slot[i].hdr = "none" /\ cmd \in {"none", "disconnect", "start"}
    BY <1>1, <1>7, <1>8, <1>9, <1>17 DEF ServeRequest
  <1>18. CASE slot[i].hdr = "none" /\ cmd \notin {"none", "disconnect", "start"}
    <2>1. IF ioactive # slot[i].id THEN ServeInactive(i)
          ELSE \/ cmd = "end" /\ ServeEnd(i)
               \/ cmd \in {"reserve", "release"} /\ ServeReserve(i)
               \/ cmd = "read" /\ ServeRead(i)
               \/ cmd = "write" /\ ServeWrite(i)
      BY <1>1, <1>18 DEF ServeRequest
    <2>. QED
      BY <1>2, <1>10, <1>11, <1>12, <1>13, <1>14, <1>18, <2>1
  <1>. QED
    BY <1>1, <1>15, <1>16, <1>17, <1>18 DEF Conn

LEMMA ServerKeeps == ASSUME CohInv, ServerStep \/ (\E i \in Slot : TimeOut(i)) PROVE CohInv'
  <1>1. /\ TypeOK /\ HolderOK /\ slot \in [Slot -> Conn] /\ srv.ix \in Slot
        /\ \A i \in Slot : SlotOK(i)
    BY Typed DEF CohInv, TypeOK
  <1>2. CASE ServerAwake
    <2>. DEFINE i == srv.ix
    <2>1. slot[i].id # None
      BY <1>1, <1>2 DEF ServerAwake, SlotOK, SrvAt
    <2>2. PICK c \in Client : slot[i].id = c
      BY <1>1, <2>1 DEF Conn
    <2>3. SrvAt(i) /\ Start(i) /\ UNCHANGED <<reserved, loc, cl, faults>>
          /\ ioactive \in {Local, None} /\ i \in Slot
      BY <1>1, <1>2 DEF ServerAwake, SrvAt, HolderOK
    <2>. HIDE DEF i
    <2>4. srv.ix = i
      BY DEF i
    <2>5. \/ Grant(i) /\ ioactive \in {None, c, Local} /\ (ioactive = Local => Suspended)
          \/ ioactive = Local /\ WaitForLocal(i)
          \/ Defer(i)
      BY <2>2, <2>3, Constants DEF Start
    <2>. QED
      BY <2>2, <2>3, <2>4, <2>5, GrantKeeps, DeferKeeps
  <1>3. ASSUME NEW i \in Slot, Disconnect(i) \/ TimeOut(i) PROVE CohInv'
    <2>1. srv.pc = "loop" /\ Remove(i) /\ faults' \in 0 .. MaxFaults /\ slot[i].id # None
      BY <1>1, <1>3, ConstantsAssumption DEF Disconnect, TimeOut, Doomed, Fault, TypeOK
    <2>2. PICK c \in Client : slot[i].id = c
      BY <1>1, <2>1 DEF Conn
    <2>. QED
      BY <2>1, <2>2, RemoveKeeps
  <1>. QED
    BY <1>2, <1>3, SelectKeeps, ServeKeeps DEF ServerStep

-----------------------------------------------------------------------------
(* The server's guest.                                                       *)

LEMMA LocalKeeps == ASSUME CohInv, LocalStart \/ LocalStep PROVE CohInv'
  <1>1. TypeOK /\ HolderOK /\ slot \in [Slot -> Conn]
        /\ srv \in [pc : {"loop", "wait", "awake"}, ix : Slot]
    BY Typed DEF CohInv, TypeOK
  <1>2. ASSUME NEW t \in Track, LocalUpdate(t) PROVE CohInv'
    <2>1. /\ ioactive = Local /\ slot' = Notify(slot, Local, t) /\ cl' = Outdate(Local, t)
          /\ UNCHANGED <<ioactive, reserved, srv, loc, resp, faults>>
      BY <1>1, <1>2 DEF LocalUpdate, HolderOK
    <2>2. slot' \in [Slot -> Conn] /\ \A j \in Slot : slot'[j].id = slot[j].id
      <3>1. /\ Notify(slot, Local, t) \in [Slot -> Conn]
            /\ \A j \in Slot : Notify(slot, Local, t)[j].id = slot[j].id
        BY <1>1, NotifyDoes
      <3>. QED
        BY <2>1, <3>1
    <2>3. /\ cl' \in [Client -> Remote]
          /\ \A d \in Client : cl'[d].dirty = cl[d].dirty /\ cl'[d].cur = cl[d].cur
      BY <1>1, <2>1, OutdateDoes
    <2>4. TypeOK'
      BY <1>1, <2>1, <2>2, <2>3, TypeKept, Typed DEF TypeOK
    <2>5. HolderOK'
      BY <1>1, <2>1, <2>2 DEF HolderOK
    <2>6. \A j \in Slot : slot[j].id # Local
      BY <1>1, Constants DEF Conn
    <2>7. /\ \A d \in Client \ {Local} : ClientOK(d)'
          /\ \A j \in Slot : slot[j].id # Local => SlotOK(j)' /\ ConnOK(j)'
      BY <2>1, <2>2, UpdateKeepsOthers
    <2>. QED
      BY <2>4, <2>5, <2>6, <2>7, Constants DEF CohInv
  <1>3. ASSUME UNCHANGED <<slot, cl, resp, faults>>,
               srv' = srv \/ (srv.pc = "wait" /\ srv' = [srv EXCEPT !.pc = "awake"]),
               reserved' \in BOOLEAN, loc' \in {"idle", "wait", "awake", "run", "susp"},
               \/ ioactive' = ioactive
               \/ ioactive \in {None, Local} /\ ioactive' \in {None, Local},
               loc' = "run" => ioactive' = Local
        PROVE  CohInv'
    <2>1. TypeOK'
      BY <1>1, <1>3, TypeKept, Typed DEF TypeOK
    <2>2. HolderOK'
      BY <1>1, <1>3, Constants DEF HolderOK
    <2>3. \A j \in Slot : SrvAt(j)' = SrvAt(j)
      BY <1>1, <1>3 DEF SrvAt
    <2>4. \A d \in Client : ioactive' = d <=> ioactive = d
      BY <1>3, Constants
    <2>5. slot' \in [Slot -> Conn] /\ \A j \in Slot : Alike(slot'[j], slot[j])
      BY <1>1, <1>3 DEF Alike
    <2>. QED
      BY <1>3, <2>1, <2>2, <2>3, <2>4, <2>5, UnseenKeeps
  <1>4. CASE LocalStart \/ LocalAwake
    BY <1>1, <1>3, <1>4 DEF LocalStart, LocalAwake, LocalEnter, GetDevice, TypeOK
  <1>5. CASE LocalResume
    BY <1>1, <1>3, <1>5 DEF LocalResume, GetDevice, TypeOK
  <1>6. CASE LocalSuspend \/ LocalEnd
    BY <1>1, <1>3, <1>6 DEF LocalSuspend, LocalEnd, LeaveDevice, WakeServer, HolderOK, TypeOK
  <1>. QED
    BY <1>2, <1>4, <1>5, <1>6 DEF LocalStep

-----------------------------------------------------------------------------
(* The clients.  A step of client c makes its record r, and sends what it    *)
(* asks, when no request and no answer of it is on its way.                  *)

Unasked(c) == \A i \in Slot : slot[i].id = c /\ slot[i].live =>
                 slot[i].in = NoMsg /\ slot[i].hdr = "none" /\ ~SrvAt(i)

Good(c, r) ==
  /\ r \in Remote /\ RecordOK(c, r) /\ CacheOK(c, r)
  /\ IF Up(c) THEN r.pc \in {"idle", "run", "sent", "closed"} ELSE r.pc # "greet"
  /\ \A i \in Slot : slot[i].id = c /\ slot[i].live => PurgeOK(i, r, NoAnswer)

Moves(c, r) ==
  /\ cl' = [cl EXCEPT ![c] = r]
  /\ slot' = IF Up(c) /\ r.pc = "sent"
             THEN [i \in Slot |-> IF slot[i].id = c THEN [slot[i] EXCEPT !.in = r.ask] ELSE slot[i]]
             ELSE slot

Stepped(c) == \E r \in Remote : Good(c, r) /\ Moves(c, r)

ClientStep(c) == /\ Unasked(c) /\ Stepped(c)
                 /\ resp' = [resp EXCEPT ![c] = NoAnswer]
                 /\ UNCHANGED <<ioactive, reserved, srv, loc, faults>>

LEMMA WhenUnasked ==
    ASSUME CohInv, NEW c \in Client,
           cl[c].pc \notin {"sent", "greet"} \/ resp[c] # NoAnswer \/ ~Up(c)
    PROVE  Unasked(c)
  <1>. SUFFICES ASSUME NEW i \in Slot, slot[i].id = c, slot[i].live
                PROVE  slot[i].in = NoMsg /\ slot[i].hdr = "none" /\ ~SrvAt(i)
    BY DEF Unasked
  <1>1. Up(c)
    BY DEF Up, SlotsOf
  <1>2. LinkOK(i, cl[c], resp[c]) /\ slot[i].hdr \in {"none", "connect", "start"}
    BY Typed DEF CohInv, ConnOK, Conn
  <1>. QED
    BY <1>1, <1>2 DEF LinkOK

LEMMA MovesKeeps ==
    ASSUME CohInv, NEW c \in Client, ClientStep(c)
    PROVE  CohInv'
  <1>0. /\ Unasked(c) /\ Stepped(c) /\ resp' = [resp EXCEPT ![c] = NoAnswer]
        /\ UNCHANGED <<ioactive, reserved, srv, loc, faults>>
    BY DEF ClientStep
  <1>1. PICK r \in Remote : Good(c, r) /\ Moves(c, r)
    BY <1>0 DEF Stepped
  <1>2. /\ TypeOK /\ HolderOK /\ ClientOK(c) /\ slot \in [Slot -> Conn] /\ cl \in [Client -> Remote]
        /\ resp \in [Client -> Answer \cup {NoAnswer}]
    BY Typed DEF CohInv
  <1>3. /\ cl' \in [Client -> Remote] /\ cl'[c] = r /\ \A d \in Client \ {c} : cl'[d] = cl[d]
        /\ resp' \in [Client -> Answer \cup {NoAnswer}]
        /\ resp'[c] = NoAnswer /\ \A d \in Client \ {c} : resp'[d] = resp[d]
    BY <1>0, <1>1, <1>2 DEF Moves
  <1>. DEFINE sends == Up(c) /\ r.pc = "sent"
  <1>4. /\ slot' \in [Slot -> Conn]
        /\ \A j \in Slot :
              /\ slot'[j].id = slot[j].id /\ slot'[j].live = slot[j].live
              /\ slot'[j].hdr = slot[j].hdr /\ slot'[j].purge = slot[j].purge
              /\ slot[j].id # c => slot'[j] = slot[j]
              /\ slot[j].id = c => slot'[j].in = IF sends THEN r.ask ELSE slot[j].in
    <2>1. ASSUME NEW j \in Slot
          PROVE  LET s == [slot[j] EXCEPT !.in = r.ask] IN
                 /\ s \in Conn /\ s.id = slot[j].id /\ s.live = slot[j].live
                 /\ s.hdr = slot[j].hdr /\ s.purge = slot[j].purge /\ s.in = r.ask
      <3>1. r.ask \in Request \cup {NoMsg} /\ slot[j] \in Conn
        BY <1>2 DEF Remote
      <3>. HIDE DEF Request, NoMsg
      <3>. QED
        BY <3>1 DEF Conn
    <2>2. CASE sends
      <3>1. slot' = [j \in Slot |-> IF slot[j].id = c THEN [slot[j] EXCEPT !.in = r.ask] ELSE slot[j]]
        BY <1>1, <2>2 DEF Moves
      <3>. QED
        BY <1>2, <2>1, <2>2, <3>1
    <2>3. CASE ~sends
      BY <1>1, <1>2, <2>3 DEF Moves
    <2>. QED
      BY <2>2, <2>3
  <1>. HIDE DEF sends
  <1>5. TypeOK'
    <2>1. \A d \in Client : cl'[d].dirty => cl'[d].cur # None
      BY <1>1, <1>2, <1>3 DEF TypeOK, Good, RecordOK
    <2>. QED
      BY <1>0, <1>2, <1>3, <1>4, <2>1, TypeKept DEF TypeOK
  <1>6. HolderOK'
    BY <1>0, <1>2, <1>4 DEF HolderOK
  <1>7. \A j \in Slot : SrvAt(j)' = SrvAt(j)
    BY <1>0 DEF SrvAt
  <1>. DEFINE I == {i \in Slot : slot[i].id = c}
  <1>8. /\ \A d \in Client \ {c} : ClientOK(d)'
        /\ \A j \in Slot \ I : SlotOK(j)' /\ ConnOK(j)'
    <2>1. \A j \in Slot \ I : /\ Alike(slot'[j], slot[j]) /\ SrvAt(j)' = SrvAt(j)
                              /\ slot[j].id # c /\ (slot[j].id = None => slot'[j] = slot[j])
      BY <1>4, <1>7 DEF Alike
    <2>2. I \in SUBSET Slot /\ \A i \in I : slot[i].id \in {c, None} /\ slot'[i].id \in {c, None}
      BY <1>4
    <2>3. \A d \in Client \ {c} : /\ cl'[d] = cl[d] /\ resp'[d] = resp[d]
                                  /\ ioactive' = d <=> ioactive = d
      BY <1>0, <1>3
    <2>. HIDE DEF I
    <2>. QED
      BY <1>4, <2>1, <2>2, <2>3, StrangersKept
  \* A connection of c that is not live is as it was; one that is was idle.
  <1>9. ASSUME NEW i \in Slot, slot[i].id = c, slot[i].live
        PROVE  /\ slot[i].in = NoMsg /\ slot[i].hdr = "none" /\ ~SrvAt(i) /\ Up(c)
               /\ \A j \in Slot : slot[j].id = c => j = i
    BY <1>0, <1>9, Constants DEF Unasked, Up, SlotsOf, CohInv, SlotOK
  <1>10. Up(c) => \A i \in Slot : slot[i].id = c => slot[i].live
    BY <1>9 DEF Up, SlotsOf
  <1>11. Past(r) /\ StartPending(c)' => StartPending(c)
    <2>. SUFFICES ASSUME Past(r), NEW i \in Slot, slot'[i].id = c,
                         slot'[i].in.cmd = "start" \/ slot'[i].hdr = "start" \/ SrvAt(i)'
                  PROVE  StartPending(c)
      BY DEF StartPending
    <2>1. CASE ~sends
      BY <1>4, <1>7, <2>1 DEF StartPending
    <2>2. CASE sends
      <3>1. slot[i].live /\ slot'[i].in = r.ask /\ r.pc = "sent"
        BY <1>4, <1>10, <2>2 DEF sends
      <3>. QED
        BY <1>4, <1>7, <1>9, <3>1 DEF Past
    <2>. QED
      BY <2>1, <2>2
  <1>12. ClientOK(c)'
    BY <1>0, <1>1, <1>3, <1>11 DEF ClientOK, Good, RecordOK, CacheOK, Answering
  <1>13. ASSUME NEW i \in I PROVE SlotOK(i)'
    <2>1. SlotOK(i) /\ slot[i].id = c /\ c # None
      BY <1>13, Constants DEF CohInv
    <2>2. \A j \in Slot : slot'[i].id = slot'[j].id => i = j
      BY <1>4, <2>1 DEF SlotOK
    <2>3. slot'[i].in.cmd \in {"read", "write"} => slot'[i].in.trk \in Track
      BY <1>1, <1>4, <2>1 DEF SlotOK, Good, RecordOK
    <2>4. slot'[i].in # NoMsg => slot'[i].hdr = "none" /\ ~SrvAt(i)'
      BY <1>4, <1>7, <1>9, <1>10, <2>1 DEF SlotOK, sends
    <2>. QED
      BY <1>3, <1>4, <1>7, <2>1, <2>2, <2>3, <2>4 DEF SlotOK
  <1>14. ASSUME NEW i \in I, slot[i].live PROVE LinkOK(i, r, NoAnswer)' /\ PurgeOK(i, r, NoAnswer)'
    <2>1. /\ slot[i].in = NoMsg /\ slot[i].hdr = "none" /\ ~SrvAt(i) /\ Up(c)
          /\ slot'[i].hdr = "none" /\ ~SrvAt(i)' /\ slot'[i].id = c /\ slot'[i].purge = slot[i].purge
          /\ slot'[i].in = IF sends THEN r.ask ELSE NoMsg
      BY <1>4, <1>7, <1>9, <1>14
    <2>2. r.pc \in {"idle", "run", "sent", "closed"} /\ PurgeOK(i, r, NoAnswer)
      BY <1>1, <1>14, <2>1 DEF Good
    <2>3. LinkOK(i, r, NoAnswer)'
      BY <1>0, <2>1, <2>2 DEF LinkOK, sends
    <2>4. PurgeOK(i, r, NoAnswer)'
      BY <1>0, <1>14, <2>1, <2>2 DEF PurgeOK
    <2>. QED
      BY <2>3, <2>4
  <1>15. ASSUME NEW i \in I PROVE ConnOK(i)'
    BY <1>3, <1>4, <1>14 DEF ConnOK
  <1>. QED
    BY <1>5, <1>6, <1>8, <1>12, <1>13, <1>15 DEF CohInv

\* A record for the middle of a channel program, whatever it asks next.
Running(c, r) ==
  LET forgotten == \A t \in Track : r.cache[t] = "old" => r.failed /\ r.cur = None IN
  /\ r \in Remote /\ r.left <= Accesses[c]
  /\ r.failed => r.cur = None
  /\ r.cur # None => r.cache[r.cur] # "none"
  /\ ioactive = c => forgotten
  /\ StartPending(c) => forgotten /\ \A t \in Track : r.cache[t] # "good"
  /\ \A i \in Slot : slot[i].id = c /\ slot[i].live =>
        /\ ioactive # c => slot[i].purge = Track
        /\ \A t \in Track : r.cache[t] = "old" => t \in slot[i].purge

\* What the client accesses next, or the end of the program.
NextOK(c, r, m) ==
  /\ m \in Request
  /\ \/ m.cmd = "end"
     \/ m.cmd = "read" /\ m.trk \in Track /\ ~r.failed /\ r.left < Accesses[c]

LEMMA GoesOn ==
    ASSUME NEW c \in Client, NEW r, Running(c, r), NEW u \in BOOLEAN,
           u => r.cur # None /\ r.left < Accesses[c]
    PROVE  Good(c, [r EXCEPT !.dirty = u, !.pc = "run", !.ask = NoMsg])
  <1>. DEFINE q == [r EXCEPT !.dirty = u, !.pc = "run", !.ask = NoMsg]
  <1>1. /\ q \in Remote /\ q.pc = "run" /\ q.ask = NoMsg /\ q.dirty = u /\ q.cur = r.cur
        /\ q.left = r.left /\ q.failed = r.failed /\ q.cache = r.cache
    BY DEF Running, Remote
  <1>. HIDE DEF q
  <1>2. RecordOK(c, q)
    BY <1>1, Constants DEF RecordOK, Running
  <1>3. CacheOK(c, q)
    BY <1>1 DEF CacheOK, Running, Clean
  <1>4. \A i \in Slot : slot[i].id = c /\ slot[i].live => PurgeOK(i, q, NoAnswer)
    BY <1>1 DEF PurgeOK, Running
  <1>5. Good(c, q)
    BY <1>1, <1>2, <1>3, <1>4 DEF Good
  <1>. QED
    BY <1>5 DEF q

\* Asks that are no accesses leave the cache alone.
LEMMA Asks ==
    ASSUME NEW c \in Client, NEW r, Running(c, r), ~r.dirty,
           NEW m \in Request, m.cmd \in {"end", "reserve", "release"}, r.failed => m.cmd = "end",
           NEW p \in {"sent", "connect"}, Up(c) => p = "sent"
    PROVE  Good(c, [r EXCEPT !.ask = m, !.next = NoMsg, !.pc = p])
  <1>. DEFINE q == [r EXCEPT !.ask = m, !.next = NoMsg, !.pc = p]
  <1>1. /\ q \in Remote /\ q.pc = p /\ q.ask = m /\ q.dirty = FALSE /\ q.cur = r.cur
        /\ q.left = r.left /\ q.failed = r.failed /\ q.cache = r.cache
    BY DEF Running, Remote
  <1>. HIDE DEF q
  <1>2. RecordOK(c, q)
    BY <1>1 DEF RecordOK, Running
  <1>3. CacheOK(c, q)
    BY <1>1 DEF CacheOK, Running, Clean
  <1>4. \A i \in Slot : slot[i].id = c /\ slot[i].live => PurgeOK(i, q, NoAnswer)
    BY <1>1 DEF PurgeOK, Running
  <1>5. Good(c, q)
    BY <1>1, <1>2, <1>3, <1>4 DEF Good
  <1>. QED
    BY <1>5 DEF q

\* An image that is not cached is read.
LEMMA Reads ==
    ASSUME NEW c \in Client, NEW r, Running(c, r), ~r.dirty, ~r.failed,
           NEW m \in Request, m.cmd = "read", m.trk \in Track, r.cache[m.trk] = "none",
           r.left < Accesses[c],
           NEW p \in {"sent", "connect"}, Up(c) => p = "sent"
    PROVE  Good(c, [[r EXCEPT !.cur = None, !.cache[m.trk] = "old"]
                       EXCEPT !.ask = m, !.next = NoMsg, !.pc = p])
  <1>. DEFINE q == [[r EXCEPT !.cur = None, !.cache[m.trk] = "old"]
                       EXCEPT !.ask = m, !.next = NoMsg, !.pc = p]
              k == [r.cache EXCEPT ![m.trk] = "old"]
  <1>1. r \in Remote /\ r.cache \in [Track -> {"none", "good", "old"}]
    BY DEF Running, Remote
  <1>2. /\ k \in [Track -> {"none", "good", "old"}] /\ k[m.trk] = "old"
        /\ \A t \in Track \ {m.trk} : k[t] = r.cache[t]
    BY <1>1
  <1>3. q = [r EXCEPT !.cur = None, !.cache = k, !.ask = m, !.next = NoMsg, !.pc = p]
    BY <1>1 DEF Remote
  <1>. HIDE DEF k, q
  <1>4. /\ q \in Remote /\ q.pc = p /\ q.ask = m /\ q.dirty = FALSE /\ q.cur = None
        /\ q.left = r.left /\ q.failed = FALSE /\ q.cache = k
    BY <1>1, <1>2, <1>3 DEF Remote
  <1>5. RecordOK(c, q)
    BY <1>2, <1>4 DEF RecordOK, Running
  <1>6. CacheOK(c, q)
    BY <1>2, <1>4 DEF CacheOK, Running, Clean, Reading
  <1>7. \A i \in Slot : slot[i].id = c /\ slot[i].live => PurgeOK(i, q, NoAnswer)
    BY <1>2, <1>4 DEF PurgeOK, Running, Reading
  <1>8. Good(c, q)
    BY <1>4, <1>5, <1>6, <1>7 DEF Good
  <1>. QED
    BY <1>8 DEF q

\* The current track is written back.
LEMMA Writes ==
    ASSUME NEW c \in Client, NEW r, Running(c, r), r.dirty, r.cur # None, NEW m, NextOK(c, r, m),
           NEW p \in {"sent", "connect"}, Up(c) => p = "sent"
    PROVE  Good(c, [[r EXCEPT !.ask = [cmd |-> "write", trk |-> r.cur, upd |-> FALSE], !.next = m]
                       EXCEPT !.pc = p])
  <1>. DEFINE w == [cmd |-> "write", trk |-> r.cur, upd |-> FALSE]
              q == [[r EXCEPT !.ask = w, !.next = m] EXCEPT !.pc = p]
  <1>1. w \in Request /\ w.cmd = "write" /\ w.trk = r.cur /\ r.cur \in Track /\ m \in Request
    BY DEF Running, Remote, Request, Command, NextOK
  <1>. HIDE DEF w
  <1>2. /\ q \in Remote /\ q.pc = p /\ q.ask = w /\ q.dirty = TRUE /\ q.cur = r.cur /\ q.next = m
        /\ q.left = r.left /\ q.failed = r.failed /\ q.cache = r.cache
    BY <1>1 DEF Running, Remote
  <1>. HIDE DEF q
  <1>3. RecordOK(c, q)
    BY <1>1, <1>2 DEF RecordOK, Running, NextOK
  <1>4. CacheOK(c, q)
    BY <1>1, <1>2 DEF CacheOK, Running, Clean
  <1>5. \A i \in Slot : slot[i].id = c /\ slot[i].live => PurgeOK(i, q, NoAnswer)
    BY <1>1, <1>2 DEF PurgeOK, Running
  <1>6. Good(c, q)
    BY <1>2, <1>3, <1>4, <1>5 DEF Good
  <1>. QED
    BY <1>6 DEF q, w

\* clientSend.
LEMMA TransmitDoes ==
    ASSUME NEW c \in Client, NEW r, Transmit(c, r),
           \A p \in {"sent", "connect"} : (Up(c) => p = "sent") => Good(c, [r EXCEPT !.pc = p]),
           \A p : [r EXCEPT !.pc = p].ask = r.ask
    PROVE  Stepped(c)
  <1>1. \A p \in {"sent", "connect"} : Good(c, [r EXCEPT !.pc = p]) =>
            [r EXCEPT !.pc = p] \in Remote
    BY DEF Good
  <1>2. CASE Up(c)
    <2>1. Good(c, [r EXCEPT !.pc = "sent"])
      BY <1>2
    <2>2. [r EXCEPT !.pc = "sent"].ask = r.ask
      OBVIOUS
    <2>3. cl' = [cl EXCEPT ![c] = [r EXCEPT !.pc = "sent"]]
          /\ slot' = [i \in Slot |-> IF slot[i].id = c THEN [slot[i] EXCEPT !.in = r.ask] ELSE slot[i]]
      BY <1>2 DEF Transmit
    <2>4. Moves(c, [r EXCEPT !.pc = "sent"])
      BY <1>2, <2>2, <2>3 DEF Moves
    <2>. QED
      BY <1>1, <2>1, <2>4 DEF Stepped
  <1>3. CASE ~Up(c)
    <2>1. PICK p \in {"sent", "connect"} : cl' = [cl EXCEPT ![c] = [r EXCEPT !.pc = p]] /\ slot' = slot
      BY <1>3 DEF Transmit
    <2>2. Good(c, [r EXCEPT !.pc = p]) /\ Moves(c, [r EXCEPT !.pc = p])
      BY <1>3, <2>1 DEF Moves
    <2>. QED
      BY <1>1, <2>2 DEF Stepped
  <1>. QED
    BY <1>2, <1>3

LEMMA Returns ==
    ASSUME NEW c \in Client, NEW r, NEW p, Return(c, r, p), p # "sent",
           Good(c, [r EXCEPT !.pc = p, !.ask = NoMsg])
    PROVE  Stepped(c)
  <1>. DEFINE q == [r EXCEPT !.pc = p, !.ask = NoMsg]
  <1>1. cl' = [cl EXCEPT ![c] = q] /\ slot' = slot
    BY DEF Return
  <1>2. q \in Remote /\ RecordOK(c, q)
    BY DEF Good
  <1>3. q.pc # "sent"
    <2>1. CASE q.pc = "sent"
      <3>1. q.ask \in Request
        BY <1>2, <2>1 DEF RecordOK
      <3>2. q.ask = NoMsg
        BY <1>2 DEF Remote
      <3>. QED
        BY <3>1, <3>2, Constants
    <2>. QED
      BY <2>1
  <1>. HIDE DEF q
  <1>4. Moves(c, q)
    BY <1>1, <1>3 DEF Moves
  <1>5. Good(c, q)
    BY DEF q
  <1>. QED
    BY <1>2, <1>4, <1>5 DEF Stepped

LEMMA Proceeds ==
    ASSUME NEW c \in Client, NEW r, Running(c, r), ~r.dirty, NEW m, NextOK(c, r, m),
           Proceed(c, r, m)
    PROVE  Stepped(c)
  <1>1. r \in Remote /\ m \in Request /\ r.cache \in [Track -> {"none", "good", "old"}]
    BY DEF Running, Remote, NextOK
  <1>2. CASE m.cmd = "read"
    <2>1. Read(c, r, m) /\ m.trk \in Track /\ ~r.failed /\ r.left < Accesses[c] /\ m.upd \in BOOLEAN
      BY <1>1, <1>2 DEF Proceed, NextOK, Request
    <2>2. CASE r.cache[m.trk] # "none"
      <3>. DEFINE q == [r EXCEPT !.cur = m.trk, !.dirty = m.upd, !.next = NoMsg]
      <3>1. Return(c, q, "run")
        BY <2>1, <2>2 DEF Read
      <3>2. /\ q \in Remote /\ q.left = r.left /\ q.failed = FALSE /\ q.cur = m.trk
            /\ q.cache = r.cache /\ q.dirty = m.upd
        BY <1>1, <2>1 DEF Remote
      <3>3. [q EXCEPT !.dirty = m.upd, !.pc = "run", !.ask = NoMsg]
               = [q EXCEPT !.pc = "run", !.ask = NoMsg]
        BY <1>1 DEF Remote
      <3>. HIDE DEF q
      <3>4. Running(c, q)
        BY <1>1, <2>1, <2>2, <3>2, Constants DEF Running
      <3>5. m.upd => q.cur # None /\ q.left < Accesses[c]
        BY <2>1, <3>2, Constants
      <3>6. Good(c, [q EXCEPT !.pc = "run", !.ask = NoMsg])
        BY <2>1, <3>3, <3>4, <3>5, GoesOn
      <3>. QED
        BY <3>1, <3>6, Returns
    <2>3. CASE r.cache[m.trk] = "none"
      <3>. DEFINE q == [[r EXCEPT !.cur = None, !.cache[m.trk] = "old"] EXCEPT !.ask = m, !.next = NoMsg]
      <3>1. Transmit(c, q)
        BY <2>1, <2>3 DEF Read, Ask
      <3>2. \A p : [q EXCEPT !.pc = p] = [[r EXCEPT !.cur = None, !.cache[m.trk] = "old"]
                                            EXCEPT !.ask = m, !.next = NoMsg, !.pc = p]
        BY <1>1 DEF Remote
      <3>3. \A p \in {"sent", "connect"} : (Up(c) => p = "sent") => Good(c, [q EXCEPT !.pc = p])
        BY <1>1, <1>2, <2>1, <2>3, <3>2, Reads
      <3>4. \A p : [q EXCEPT !.pc = p].ask = q.ask
        OBVIOUS
      <3>. HIDE DEF q
      <3>. QED
        BY <3>1, <3>3, <3>4, TransmitDoes
    <2>. QED
      BY <1>1, <2>1, <2>2, <2>3
  <1>3. CASE m.cmd # "read"
    <2>. DEFINE q == [r EXCEPT !.ask = m, !.next = NoMsg]
    <2>1. Transmit(c, q) /\ m.cmd = "end"
      BY <1>3 DEF Proceed, Ask, NextOK
    <2>2. \A p : [q EXCEPT !.pc = p] = [r EXCEPT !.ask = m, !.next = NoMsg, !.pc = p]
      BY <1>1 DEF Remote
    <2>3. \A p \in {"sent", "connect"} : (Up(c) => p = "sent") => Good(c, [q EXCEPT !.pc = p])
      BY <1>1, <2>1, <2>2, Asks
    <2>4. \A p : [q EXCEPT !.pc = p].ask = q.ask
      OBVIOUS
    <2>. HIDE DEF q
    <2>. QED
      BY <2>1, <2>3, <2>4, TransmitDoes
  <1>. QED
    BY <1>2, <1>3

LEMMA WritesBack ==
    ASSUME NEW c \in Client, NEW r, Running(c, r), r.dirty => r.cur # None, NEW m, NextOK(c, r, m),
           WriteBack(c, r, m)
    PROVE  Stepped(c)
  <1>1. CASE r.dirty
    <2>. DEFINE q == [r EXCEPT !.ask = [cmd |-> "write", trk |-> r.cur, upd |-> FALSE], !.next = m]
    <2>1. Transmit(c, q)
      BY <1>1 DEF WriteBack
    <2>2. \A p \in {"sent", "connect"} : (Up(c) => p = "sent") => Good(c, [q EXCEPT !.pc = p])
      BY <1>1, Writes
    <2>3. \A p : [q EXCEPT !.pc = p].ask = q.ask
      OBVIOUS
    <2>. HIDE DEF q
    <2>. QED
      BY <2>1, <2>2, <2>3, TransmitDoes
  <1>2. CASE ~r.dirty
    BY <1>2, Proceeds DEF WriteBack
  <1>. QED
    BY <1>1, <1>2

\* A client that is in a channel program, and not reading a track.
LEMMA Runs ==
    ASSUME CohInv, NEW c \in Client,
           cl[c].pc = "run" \/ cl[c].ask.cmd \in {"reserve", "release", "write"}
    PROVE  Running(c, cl[c])
  <1>1. ClientOK(c) /\ cl[c] \in Remote
    BY Typed DEF CohInv
  <1>2. ~\E t \in Track : Reading(cl[c], t)
    BY <1>1, Constants DEF Reading, ClientOK, RecordOK
  <1>3. Past(cl[c]) /\ cl[c].ask.cmd \notin {"start", "end"}
    BY <1>1, Constants DEF Past, ClientOK, RecordOK
  <1>4. /\ cl[c].left <= Accesses[c] /\ cl[c].failed => cl[c].cur = None
        /\ cl[c].cur # None => cl[c].cache[cl[c].cur] # "none"
    BY <1>1 DEF ClientOK, RecordOK
  <1>5. ASSUME NEW i \in Slot, slot[i].id = c, slot[i].live
        PROVE  /\ ioactive # c => slot[i].purge = Track
               /\ \A t \in Track : cl[c].cache[t] = "old" => t \in slot[i].purge
    <2>1. PurgeOK(i, cl[c], resp[c])
      BY <1>5 DEF CohInv, ConnOK
    <2>. QED
      BY <1>2, <1>3, <1>5, <2>1 DEF PurgeOK
  <1>. QED
    BY <1>1, <1>2, <1>3, <1>4, <1>5 DEF Running, ClientOK, RecordOK, CacheOK, Clean

LEMMA PurgeDoes ==
    ASSUME NEW r \in Remote, NEW ts \in SUBSET Track
    PROVE  LET q == Purge(r, ts) IN
           /\ q \in Remote /\ q.pc = r.pc /\ q.ask = r.ask /\ q.next = r.next
           /\ q.dirty = r.dirty /\ q.left = r.left /\ q.failed = r.failed
           /\ q.cur = IF r.cur \in ts THEN None ELSE r.cur
           /\ \A t \in Track : q.cache[t] = IF t \in ts THEN "none" ELSE r.cache[t]
  <1>. DEFINE k == [t \in Track |-> IF t \in ts THEN "none" ELSE r.cache[t]]
              u == IF r.cur \in ts THEN None ELSE r.cur
  <1>1. Purge(r, ts) = [r EXCEPT !.cache = k, !.cur = u]
    BY DEF Purge, Remote
  <1>2. /\ k \in [Track -> {"none", "good", "old"}] /\ u \in Track \cup {None}
        /\ \A t \in Track : k[t] = IF t \in ts THEN "none" ELSE r.cache[t]
    BY DEF Remote
  <1>3. u = IF r.cur \in ts THEN None ELSE r.cur
    OBVIOUS
  <1>. HIDE DEF k, u
  <1>. QED
    BY <1>1, <1>2, <1>3 DEF Remote

\* A program that has forgotten everything can go on, if the connection it has
\* is a new one.
LEMMA Forgotten ==
    ASSUME NEW c \in Client, NEW r \in Remote, r.left <= Accesses[c],
           r.cur = None, \A t \in Track : r.cache[t] = "none",
           Up(c) /\ ioactive # c => \A i \in Slot : slot[i].id = c => slot[i].purge = Track
    PROVE  Running(c, r)
  BY DEF Running, Up, SlotsOf

\* The answer to RESERVE, RELEASE or WRITE, also if there is none.
LEMMA AnsweredInProgram ==
    ASSUME CohInv, NEW c \in Client, cl[c].ask.cmd \in {"reserve", "release", "write"},
           NEW a \in Answer, Answered(c, cl[c], a)
    PROVE  Stepped(c)
  <1>. DEFINE r == cl[c]
  <1>1. Running(c, r) /\ r \in Remote /\ RecordOK(c, r)
    BY Runs, Typed DEF CohInv, ClientOK
  <1>. HIDE DEF r
  <1>2. CASE r.ask.cmd \in {"reserve", "release"}
    <2>1. Return(c, r, "run")
      BY <1>2 DEF Answered, r
    <2>2. r.dirty = FALSE
      BY <1>1, <1>2, Constants DEF RecordOK, Remote
    <2>3. [r EXCEPT !.dirty = FALSE, !.pc = "run", !.ask = NoMsg] = [r EXCEPT !.pc = "run", !.ask = NoMsg]
      BY <1>1, <2>2 DEF Remote
    <2>4. Good(c, [r EXCEPT !.pc = "run", !.ask = NoMsg])
      BY <1>1, <2>3, GoesOn
    <2>. QED
      BY <2>1, <2>4, Returns
  <1>3. CASE r.ask.cmd = "write"
    <2>. DEFINE q == IF a.code = "ok" THEN r ELSE Purge(r, Track)
                w == [q EXCEPT !.dirty = FALSE]
    <2>1. Proceed(c, w, r.next)
      BY <1>3 DEF Answered, Written, r
    <2>2. r.failed = FALSE /\ r.cur # None /\ NextOK(c, r, r.next)
      BY <1>1, <1>3, Constants DEF RecordOK, NextOK, Remote
    <2>3. q \in Remote /\ Running(c, q) /\ NextOK(c, q, r.next)
      <3>1. CASE a.code = "ok"
        BY <1>1, <2>2, <3>1
      <3>2. CASE a.code # "ok"
        <4>1. /\ q \in Remote /\ q.left = r.left /\ q.failed = FALSE /\ q.cur = None
              /\ \A t \in Track : q.cache[t] = "none"
          BY <1>1, <2>2, <3>2, PurgeDoes DEF Remote
        <4>2. Up(c) /\ ioactive # c => \A i \in Slot : slot[i].id = c => slot[i].purge = Track
          <5>1. ASSUME NEW i \in Slot, slot[i].id = c, Up(c), ioactive # c
                PROVE  slot[i].live
            BY <5>1, Constants DEF Up, SlotsOf, CohInv, SlotOK
          <5>. QED
            BY <1>1, <5>1 DEF Running
        <4>3. q.left <= Accesses[c]
          BY <1>1, <4>1 DEF Running
        <4>. HIDE DEF q
        <4>4. Running(c, q)
          BY <4>1, <4>2, <4>3, Forgotten
        <4>. QED
          BY <2>2, <4>1, <4>4 DEF NextOK
      <3>. QED
        BY <3>1, <3>2
    <2>. HIDE DEF q
    <2>4. /\ w \in Remote /\ w.dirty = FALSE /\ w.left = q.left /\ w.failed = q.failed
          /\ w.cur = q.cur /\ w.cache = q.cache
      BY <2>3 DEF Remote
    <2>. HIDE DEF w
    <2>5. Running(c, w) /\ NextOK(c, w, r.next)
      BY <2>3, <2>4 DEF Running, NextOK
    <2>. QED
      BY <2>1, <2>4, <2>5, Proceeds
  <1>. QED
    BY <1>2, <1>3 DEF r

\* The last answer of a program, or of the device's use.
LEMMA Leaves ==
    ASSUME CohInv, NEW c \in Client, NEW q \in Remote, NEW p \in {"idle", "closed"},
           q.left <= Accesses[c], q.dirty = FALSE, q.failed = FALSE,
           q.cur # None => q.cache[q.cur] # "none",
           \A i \in Slot : slot[i].id = c /\ slot[i].live =>
              \A t \in Track : q.cache[t] = "old" => t \in slot[i].purge,
           Return(c, q, p)
    PROVE  Stepped(c)
  <1>. DEFINE g == [q EXCEPT !.pc = p, !.ask = NoMsg]
  <1>1. /\ g \in Remote /\ g.pc = p /\ g.ask = NoMsg /\ g.dirty = FALSE /\ g.failed = FALSE
        /\ g.left = q.left /\ g.cur = q.cur /\ g.cache = q.cache
    BY DEF Remote
  <1>. HIDE DEF g
  <1>2. RecordOK(c, g) /\ CacheOK(c, g)
    BY <1>1, Constants DEF RecordOK, CacheOK, Past
  <1>3. \A i \in Slot : slot[i].id = c /\ slot[i].live => PurgeOK(i, g, NoAnswer)
    BY <1>1, Constants DEF PurgeOK, Past, Reading
  <1>4. Good(c, g)
    BY <1>1, <1>2, <1>3 DEF Good
  <1>. QED
    BY <1>4, Returns DEF g

LEMMA RunsOn ==
    ASSUME NEW c \in Client, NEW r, Running(c, r), Return(c, r, "run"),
           r.dirty => r.cur # None /\ r.left < Accesses[c]
    PROVE  Stepped(c)
  <1>1. r \in Remote /\ r.dirty \in BOOLEAN
    BY DEF Running, Remote
  <1>2. [r EXCEPT !.dirty = r.dirty, !.pc = "run", !.ask = NoMsg] = [r EXCEPT !.pc = "run", !.ask = NoMsg]
    BY <1>1 DEF Remote
  <1>3. Good(c, [r EXCEPT !.pc = "run", !.ask = NoMsg])
    BY <1>1, <1>2, GoesOn
  <1>. QED
    BY <1>3, Returns

LEMMA ReadFailed ==
    ASSUME NEW r \in Remote, NEW t \in Track
    PROVE  LET q == [r EXCEPT !.failed = TRUE, !.cache[t] = "old"] IN
           /\ q \in Remote /\ q.cur = r.cur /\ q.dirty = r.dirty /\ q.left = r.left
           /\ q.failed = TRUE /\ q.cache[t] = "old"
           /\ \A s \in Track \ {t} : q.cache[s] = r.cache[s]
  <1>. DEFINE k == [r.cache EXCEPT ![t] = "old"]
  <1>1. /\ [r EXCEPT !.failed = TRUE, !.cache[t] = "old"] = [r EXCEPT !.failed = TRUE, !.cache = k]
        /\ k \in [Track -> {"none", "good", "old"}] /\ k[t] = "old"
        /\ \A s \in Track \ {t} : k[s] = r.cache[s]
    BY DEF Remote
  <1>. HIDE DEF k
  <1>2. LET q == [r EXCEPT !.failed = TRUE, !.cache = k] IN
        /\ q \in Remote /\ q.cur = r.cur /\ q.dirty = r.dirty /\ q.left = r.left
        /\ q.failed = TRUE /\ q.cache = k
    BY <1>1 DEF Remote
  <1>. QED
    BY <1>1, <1>2, ZenonT(60)

\* The answer to a request.
LEMMA HearSteps ==
    ASSUME CohInv, NEW c \in Client, cl[c].pc = "sent", resp[c] # NoAnswer,
           Answered(c, cl[c], resp[c])
    PROVE  Stepped(c)
  <1>. DEFINE r == cl[c]  a == resp[c]
  <1>1. /\ r \in Remote /\ a \in Answer /\ ClientOK(c) /\ RecordOK(c, r) /\ CacheOK(c, r)
        /\ r.ask \in Request /\ r.pc = "sent"
    BY Typed DEF CohInv, ClientOK, RecordOK
  <1>2. ASSUME NEW i \in Slot, slot[i].id = c
        PROVE  /\ slot[i].live /\ LinkOK(i, r, a) /\ PurgeOK(i, r, a)
               /\ slot[i].in = NoMsg /\ slot[i].hdr = "none" /\ ~SrvAt(i)
    <2>1. slot[i].live
      BY <1>2, Constants DEF CohInv, SlotOK
    <2>2. Unasked(c)
      BY WhenUnasked
    <2>. QED
      BY <1>2, <2>1, <2>2 DEF CohInv, ConnOK, Unasked
  <1>3. ~StartPending(c)
    BY <1>2, Constants DEF StartPending
  <1>4. a.code \in {"ok", "error"} /\ a.purge \in SUBSET Track /\ a # NoAnswer
    BY <1>1 DEF Answer
  <1>5. Accesses[c] \in Nat /\ 0 \in Nat /\ 0 <= Accesses[c]
    BY ConstantsAssumption
  <1>6. r.ask.cmd # "write" => r.dirty = FALSE
    BY <1>1 DEF RecordOK, Remote
  <1>. HIDE DEF r, a
  <1>7. CASE r.ask.cmd = "start"
    <2>. DEFINE p == Purge(r, a.purge)
                q == [p EXCEPT !.left = Accesses[c], !.failed = FALSE]
    <2>1. Return(c, q, "run")
      BY <1>7 DEF Answered, r, a
    <2>2. /\ p \in Remote /\ p.dirty = r.dirty
          /\ p.cur = IF r.cur \in a.purge THEN None ELSE r.cur
          /\ \A t \in Track : p.cache[t] = IF t \in a.purge THEN "none" ELSE r.cache[t]
      BY <1>1, <1>4, PurgeDoes
    <2>. HIDE DEF p
    <2>3. /\ q \in Remote /\ q.cur = p.cur /\ q.dirty = p.dirty /\ q.left = Accesses[c]
          /\ q.failed = FALSE /\ q.cache = p.cache
      BY <1>5, <2>2 DEF Remote
    <2>. HIDE DEF q
    <2>4. ASSUME NEW i \in Slot, slot[i].id = c
          PROVE  ioactive = c /\ \A t \in Track : q.cache[t] # "old"
      BY <1>1, <1>2, <1>4, <1>7, <2>2, <2>3, <2>4 DEF LinkOK, PurgeOK, Reading
    <2>5. ioactive = c => \A t \in Track : q.cache[t] # "old"
      BY <2>4 DEF CohInv, HolderOK
    <2>6. q.cur # None => q.cache[q.cur] # "none"
      BY <1>1, <2>2, <2>3, Constants DEF RecordOK, Remote
    <2>7. Running(c, q)
      BY <1>3, <1>5, <2>3, <2>4, <2>5, <2>6 DEF Running
    <2>. QED
      BY <1>6, <1>7, <2>1, <2>2, <2>3, <2>7, RunsOn
  <1>8. CASE r.ask.cmd = "read"
    <2>1. /\ r.ask.trk \in Track /\ r.cur = None /\ r.left < Accesses[c] /\ r.left <= Accesses[c]
          /\ r.cache[r.ask.trk] # "none" /\ r.failed = FALSE /\ r.ask.upd \in BOOLEAN
          /\ r.dirty = FALSE /\ r.left \in Nat /\ Past(r)
      BY <1>1, <1>6, <1>8 DEF RecordOK, Remote, Request, Past
    <2>2. ASSUME NEW i \in Slot, slot[i].id = c
          PROVE  /\ ioactive # c => slot[i].purge = Track
                 /\ \A t \in Track : r.cache[t] = "old" => t \in slot[i].purge \/ t = r.ask.trk
      BY <1>2, <1>8, <2>1, <2>2 DEF PurgeOK, Reading
    <2>3. CASE a.code = "ok"
      <3>. DEFINE q == [r EXCEPT !.cur = r.ask.trk, !.dirty = r.ask.upd]
      <3>1. Return(c, q, "run")
        BY <1>8, <2>3 DEF Answered, r, a
      <3>2. /\ q \in Remote /\ q.cur = r.ask.trk /\ q.dirty = r.ask.upd /\ q.left = r.left
            /\ q.failed = r.failed /\ q.cache = r.cache
        BY <1>1, <2>1 DEF Remote
      <3>. HIDE DEF q
      <3>3. ioactive = c => r.cache[r.ask.trk] = "good"
        BY <1>1, <1>4, <1>8, <2>3 DEF ClientOK, Answering, r, a
      <3>4. ioactive = c => \A t \in Track : r.cache[t] # "old"
        BY <1>1, <2>1, <3>3 DEF CacheOK, Clean, Reading
      <3>5. ASSUME NEW i \in Slot, slot[i].id = c
            PROVE  /\ ioactive # c => slot[i].purge = Track
                   /\ \A t \in Track : r.cache[t] = "old" => t \in slot[i].purge
        BY <2>2, <3>4, <3>5
      <3>6. Running(c, q)
        BY <1>3, <2>1, <3>2, <3>4, <3>5 DEF Running
      <3>. QED
        BY <2>1, <3>1, <3>2, <3>6, Constants, RunsOn
    <2>4. CASE a.code = "error"
      <3>. DEFINE q == [r EXCEPT !.failed = TRUE, !.cache[r.ask.trk] = "old"]
      <3>1. Return(c, q, "run")
        BY <1>8, <2>4 DEF Answered, r, a
      <3>2. /\ q \in Remote /\ q.cur = r.cur /\ q.dirty = r.dirty /\ q.left = r.left
            /\ q.failed = TRUE
        BY <1>1, <2>1, ReadFailed
      <3>. HIDE DEF q
      <3>3. \A i \in Slot : slot[i].id = c => ioactive # c
        BY <1>1, <1>2, <1>4, <1>8, <2>4 DEF LinkOK
      <3>4. \A i \in Slot : slot[i].id = c => slot[i].purge = Track
        BY <2>2, <3>3
      <3>5. Running(c, q)
        BY <1>3, <2>1, <3>2, <3>3, <3>4 DEF Running
      <3>. QED
        BY <2>1, <3>1, <3>2, <3>5, RunsOn
    <2>. QED
      BY <1>4, <2>3, <2>4
  <1>9. CASE r.ask.cmd \in {"reserve", "release", "write"}
    BY <1>1, <1>9, AnsweredInProgram DEF r, a
  <1>10. ASSUME r.ask.cmd \in {"end", "disconnect"}, NEW i \in Slot, slot[i].id = c, slot[i].live
         PROVE  \A t \in Track : r.cache[t] = "old" => t \in slot[i].purge
    BY <1>2, <1>10 DEF PurgeOK, Reading
  <1>11. r.cur # None => r.cache[r.cur] # "none"
    BY <1>1 DEF RecordOK
  <1>12. CASE r.ask.cmd = "end"
    <2>. DEFINE q == [r EXCEPT !.left = 0, !.failed = FALSE]
    <2>1. Return(c, q, "idle")
      BY <1>12 DEF Answered, r, a
    <2>2. /\ q \in Remote /\ q.cur = r.cur /\ q.dirty = r.dirty /\ q.left = 0
          /\ q.failed = FALSE /\ q.cache = r.cache
      BY <1>1 DEF Remote
    <2>. HIDE DEF q
    <2>. QED
      BY <1>5, <1>6, <1>10, <1>11, <1>12, <2>1, <2>2, Leaves
  <1>13. CASE r.ask.cmd = "disconnect"
    <2>1. Return(c, r, "closed")
      BY <1>13 DEF Answered, r, a
    <2>2. r.failed = FALSE /\ r.left <= Accesses[c]
      BY <1>1, <1>13 DEF RecordOK, Remote
    <2>. QED
      BY <1>1, <1>6, <1>10, <1>11, <1>13, <2>1, <2>2, Leaves
  <1>14. r.ask.cmd \in Command
    BY <1>1, Constants
  <1>. QED
    BY <1>7, <1>8, <1>9, <1>12, <1>13, <1>14 DEF Command

\* What a client makes of a request that got no answer.
LEMMA FailSteps ==
    ASSUME CohInv, NEW c \in Client, cl[c].pc \in {"sent", "connect", "greet"}, ~Up(c),
           Failed(c, cl[c])
    PROVE  Stepped(c)
  <1>. DEFINE r == cl[c]
  <1>1. /\ r \in Remote /\ RecordOK(c, r) /\ CacheOK(c, r) /\ r.ask \in Request
        /\ r.pc \in {"sent", "connect", "greet"}
    BY Typed DEF CohInv, ClientOK, RecordOK
  <1>2. \A i \in Slot : ~(slot[i].id = c /\ slot[i].live)
    BY DEF Up, SlotsOf
  <1>3. Error \in Answer /\ Error.code = "error"
    BY DEF Error, Answer
  <1>5. Accesses[c] \in Nat /\ 0 \in Nat /\ 0 <= Accesses[c]
    BY ConstantsAssumption
  <1>6. r.ask.cmd # "write" => r.dirty = FALSE
    BY <1>1 DEF RecordOK, Remote
  <1>. HIDE DEF r
  <1>. DEFINE p == Purge(r, Track)
  <1>7. /\ p \in Remote /\ p.dirty = r.dirty /\ p.cur = None /\ p.ask = r.ask
        /\ \A t \in Track : p.cache[t] = "none"
    BY <1>1, PurgeDoes DEF Remote
  <1>. HIDE DEF p
  <1>8. CASE r.ask.cmd = "start"
    <2>. DEFINE q == [p EXCEPT !.left = Accesses[c], !.failed = FALSE]
    <2>1. Return(c, q, "run")
      BY <1>8 DEF Failed, r, p
    <2>2. /\ q \in Remote /\ q.cur = None /\ q.dirty = p.dirty /\ q.left = Accesses[c]
          /\ q.failed = FALSE /\ q.cache = p.cache
      BY <1>5, <1>7 DEF Remote
    <2>. HIDE DEF q
    <2>3. Running(c, q)
      BY <1>5, <1>7, <2>2, Forgotten
    <2>. QED
      BY <1>6, <1>7, <1>8, <2>1, <2>2, <2>3, RunsOn
  <1>9. CASE r.ask.cmd = "end"
    <2>. DEFINE q == [p EXCEPT !.left = 0, !.failed = FALSE]
    <2>1. Answered(c, p, Error)
      BY <1>9 DEF Failed, r, p
    <2>2. Return(c, q, "idle")
      BY <1>7, <1>9, <2>1 DEF Answered
    <2>3. /\ q \in Remote /\ q.cur = None /\ q.dirty = p.dirty /\ q.left = 0
          /\ q.failed = FALSE /\ q.cache = p.cache
      BY <1>7 DEF Remote
    <2>. HIDE DEF q
    <2>. QED
      BY <1>2, <1>5, <1>6, <1>7, <1>9, <2>2, <2>3, Leaves
  <1>10. CASE r.ask.cmd \notin {"start", "end"}
    <2>1. Answered(c, r, Error)
      BY <1>10 DEF Failed, r
    <2>2. CASE r.ask.cmd = "read"
      <3>. DEFINE q == [r EXCEPT !.failed = TRUE, !.cache[r.ask.trk] = "old"]
      <3>1. Return(c, q, "run")
        BY <1>3, <2>1, <2>2 DEF Answered
      <3>2. /\ r.ask.trk \in Track /\ r.cur = None /\ r.left <= Accesses[c]
            /\ r.failed = FALSE /\ r.dirty = FALSE /\ r.left \in Nat /\ Past(r)
        BY <1>1, <1>6, <2>2 DEF RecordOK, Remote, Past
      <3>3. /\ q \in Remote /\ q.cur = r.cur /\ q.dirty = r.dirty /\ q.left = r.left
            /\ q.failed = TRUE /\ q.cache[r.ask.trk] = "old"
            /\ \A s \in Track \ {r.ask.trk} : q.cache[s] = r.cache[s]
        BY <1>1, <3>2, ReadFailed
      <3>. HIDE DEF q
      <3>4. StartPending(c) => \A t \in Track : q.cache[t] # "good"
        BY <1>1, <3>2, <3>3 DEF CacheOK
      <3>5. Running(c, q)
        BY <1>2, <3>2, <3>3, <3>4 DEF Running
      <3>. QED
        BY <3>1, <3>2, <3>3, <3>5, RunsOn
    <2>3. CASE r.ask.cmd \in {"reserve", "release", "write"}
      BY <1>3, <2>1, <2>3, AnsweredInProgram DEF r
    <2>4. CASE r.ask.cmd = "disconnect"
      <3>1. Return(c, r, "closed")
        BY <2>1, <2>4 DEF Answered
      <3>2. /\ r.failed = FALSE /\ r.left <= Accesses[c] /\ r.dirty = FALSE
            /\ r.cur # None => r.cache[r.cur] # "none"
        BY <1>1, <1>6, <2>4 DEF RecordOK, Remote
      <3>. QED
        BY <1>1, <1>2, <3>1, <3>2, Leaves
    <2>5. r.ask.cmd \in Command
      BY <1>1, Constants
    <2>. QED
      BY <1>10, <2>2, <2>3, <2>4, <2>5 DEF Command
  <1>. QED
    BY <1>8, <1>9, <1>10

\* A client that has no answer to come asks, or goes on without asking.
LEMMA QuietSteps ==
    ASSUME CohInv, NEW c \in Client, cl[c].pc \notin {"sent", "greet"}, Stepped(c),
           UNCHANGED <<ioactive, reserved, srv, loc, resp, faults>>
    PROVE  ClientStep(c)
  <1>1. ClientOK(c) /\ resp \in [Client -> Answer \cup {NoAnswer}]
    BY Typed DEF CohInv
  <1>2. resp[c] = NoAnswer
    BY <1>1 DEF ClientOK
  <1>3. resp' = [resp EXCEPT ![c] = NoAnswer]
    BY <1>1, <1>2
  <1>4. Unasked(c)
    BY WhenUnasked
  <1>. QED
    BY <1>3, <1>4 DEF ClientStep

\* A client that is in no channel program begins one, or leaves.
LEMMA OutsideAsks ==
    ASSUME CohInv, NEW c \in Client, cl[c].pc = "idle", NEW r \in Remote,
           r.dirty = FALSE, r.failed = FALSE, r.left <= Accesses[c],
           r.cur # None => r.cache[r.cur] # "none",
           \A t \in Track : r.cache[t] = "old" => cl[c].cache[t] = "old",
           NEW m \in Request, m.cmd \in {"start", "disconnect"}, Ask(c, r, m)
    PROVE  Stepped(c)
  <1>. DEFINE q == [r EXCEPT !.ask = m, !.next = NoMsg]
              g(p) == [q EXCEPT !.pc = p]
  <1>1. Transmit(c, q)
    BY DEF Ask
  <1>2. ASSUME NEW p \in {"sent", "connect"}
        PROVE  /\ g(p) \in Remote /\ g(p).pc = p /\ g(p).ask = m /\ g(p).dirty = FALSE
               /\ g(p).cur = r.cur /\ g(p).left = r.left /\ g(p).failed = FALSE /\ g(p).cache = r.cache
    BY DEF Remote
  <1>3. \A p : g(p).ask = q.ask
    BY DEF Remote
  <1>. HIDE DEF q, g
  <1>4. ASSUME NEW p \in {"sent", "connect"}, Up(c) => p = "sent" PROVE Good(c, g(p))
    <2>1. RecordOK(c, g(p)) /\ CacheOK(c, g(p))
      BY <1>2, <1>4 DEF RecordOK, CacheOK, Past
    <2>2. ASSUME NEW i \in Slot, slot[i].id = c, slot[i].live PROVE PurgeOK(i, g(p), NoAnswer)
      <3>1. PurgeOK(i, cl[c], resp[c]) /\ RecordOK(c, cl[c])
        BY <2>2 DEF CohInv, ConnOK, ClientOK
      <3>. QED
        BY <1>2, <1>4, <3>1, Constants DEF PurgeOK, Past, Reading, RecordOK
    <2>. QED
      BY <1>2, <1>4, <2>1, <2>2 DEF Good
  <1>5. \A p \in {"sent", "connect"} : (Up(c) => p = "sent") => Good(c, [q EXCEPT !.pc = p])
    BY <1>4 DEF g
  <1>6. \A p : [q EXCEPT !.pc = p].ask = q.ask
    BY <1>3 DEF g
  <1>. QED
    BY <1>1, <1>5, <1>6, TransmitDoes

LEMMA Messages ==
    \A x \in Command : Msg(x) \in Request /\ Msg(x).cmd = x
  BY DEF Msg, Request

\* What holds of the record of a client that is in no request.
LEMMA AtRest ==
    ASSUME CohInv, NEW c \in Client, cl[c].pc = "idle"
    PROVE  /\ cl[c] \in Remote /\ cl[c].dirty = FALSE /\ cl[c].failed = FALSE
           /\ cl[c].left <= Accesses[c] /\ (cl[c].cur # None => cl[c].cache[cl[c].cur] # "none")
  BY Typed, Constants DEF CohInv, ClientOK, RecordOK, Remote

LEMMA StartProgramSteps == ASSUME CohInv, NEW c \in Client, StartProgram(c) PROVE Stepped(c)
  <1>1. Msg("start") \in Request /\ Msg("start").cmd = "start"
    BY Messages DEF Command
  <1>2. cl[c].pc = "idle" /\ Ask(c, cl[c], Msg("start"))
    BY DEF StartProgram
  <1>. QED
    BY <1>1, <1>2, AtRest, OutsideAsks

LEMMA CloseSteps == ASSUME CohInv, NEW c \in Client, Close(c) PROVE Stepped(c)
  <1>. DEFINE r == Purge(cl[c], Track)
  <1>1. Msg("disconnect") \in Request /\ Msg("disconnect").cmd = "disconnect"
    BY Messages DEF Command
  <1>2. cl[c].pc = "idle" /\ Ask(c, r, Msg("disconnect"))
    BY DEF Close
  <1>3. /\ r \in Remote /\ r.dirty = FALSE /\ r.failed = FALSE /\ r.left <= Accesses[c]
        /\ r.cur = None /\ \A t \in Track : r.cache[t] = "none"
    <2>1. /\ cl[c] \in Remote /\ cl[c].dirty = FALSE /\ cl[c].failed = FALSE
          /\ cl[c].left <= Accesses[c]
      BY <1>2, AtRest
    <2>2. /\ r \in Remote /\ r.dirty = cl[c].dirty /\ r.failed = cl[c].failed
          /\ r.left = cl[c].left /\ r.cur = IF cl[c].cur \in Track THEN None ELSE cl[c].cur
          /\ \A t \in Track : r.cache[t] = "none"
      BY <2>1, PurgeDoes
    <2>. HIDE DEF r
    <2>3. cl[c].cur \in Track \cup {None}
      BY <2>1 DEF Remote
    <2>. QED
      BY <2>1, <2>2, <2>3
  <1>. HIDE DEF r
  <1>. QED
    BY <1>1, <1>2, <1>3, OutsideAsks

LEMMA ReserveSteps == ASSUME CohInv, NEW c \in Client, Reserve(c) PROVE Stepped(c)
  <1>. DEFINE r == [cl[c] EXCEPT !.left = 0]
              m == Msg(IF Holds(c) THEN "release" ELSE "reserve")
              q == [r EXCEPT !.ask = m, !.next = NoMsg]
  <1>1. m \in Request /\ m.cmd \in {"reserve", "release"}
    BY Messages DEF Command
  <1>. HIDE DEF m
  <1>2. /\ cl[c].pc = "run" /\ ~cl[c].failed /\ cl[c].left = Accesses[c] /\ Transmit(c, q)
        /\ cl[c] \in Remote /\ RecordOK(c, cl[c]) /\ Running(c, cl[c]) /\ Accesses[c] \in Nat
    BY Typed, Runs, ConstantsAssumption DEF Reserve, Fresh, Ask, CohInv, ClientOK, m
  <1>3. cl[c].dirty = FALSE /\ cl[c].failed = FALSE
    BY <1>2, Constants DEF RecordOK, Remote
  <1>4. /\ r \in Remote /\ r.left = 0 /\ r.dirty = FALSE /\ r.failed = FALSE /\ r.cur = cl[c].cur
        /\ r.cache = cl[c].cache
    BY <1>2, <1>3 DEF Remote
  <1>. HIDE DEF r
  <1>5. Running(c, r)
    BY <1>2, <1>3, <1>4 DEF Running
  <1>6. \A p : [q EXCEPT !.pc = p] = [r EXCEPT !.ask = m, !.next = NoMsg, !.pc = p]
    BY <1>4 DEF Remote
  <1>7. \A p \in {"sent", "connect"} : (Up(c) => p = "sent") => Good(c, [q EXCEPT !.pc = p])
    BY <1>1, <1>4, <1>5, <1>6, Asks
  <1>8. \A p : [q EXCEPT !.pc = p].ask = q.ask
    BY <1>4 DEF Remote
  <1>. HIDE DEF q
  <1>. QED
    BY <1>2, <1>7, <1>8, TransmitDoes

LEMMA AccessSteps ==
    ASSUME CohInv, NEW c \in Client, NEW t \in Track, NEW u \in BOOLEAN, Access(c, t, u)
    PROVE  Stepped(c)
  <1>. DEFINE r == [cl[c] EXCEPT !.left = @ - 1]
              m == [cmd |-> "read", trk |-> t, upd |-> u]
  <1>1. /\ cl[c].pc = "run" /\ ~cl[c].failed /\ cl[c].left > 0 /\ cl[c].left \in Nat
        /\ cl[c] \in Remote /\ RecordOK(c, cl[c]) /\ Running(c, cl[c]) /\ Accesses[c] \in Nat
        /\ IF r.cur = t
           THEN cl' = [cl EXCEPT ![c] = [r EXCEPT !.dirty = @ \/ u]] /\ slot' = slot
           ELSE WriteBack(c, r, m)
        /\ cl[c].ask = NoMsg
    BY Typed, Runs, ConstantsAssumption DEF Access, CohInv, ClientOK, RecordOK, Remote
  <1>2. /\ r \in Remote /\ r.left = cl[c].left - 1 /\ r.dirty = cl[c].dirty
        /\ r.failed = cl[c].failed /\ r.cur = cl[c].cur /\ r.cache = cl[c].cache
        /\ r.pc = "run" /\ r.ask = NoMsg
    BY <1>1 DEF Remote
  <1>. HIDE DEF r
  <1>3. Running(c, r) /\ r.left < Accesses[c] /\ (r.dirty => r.cur # None)
    BY <1>1, <1>2 DEF Running, RecordOK
  <1>4. Stepped(c)
    <2>1. CASE r.cur = t
      <3>. DEFINE d == r.dirty \/ u
                  q == [r EXCEPT !.dirty = d, !.pc = "run", !.ask = NoMsg]
      <3>1. q = [r EXCEPT !.dirty = @ \/ u] /\ q.pc = "run"
        BY <1>2 DEF Remote
      <3>2. d \in BOOLEAN /\ (d => r.cur # None)
        BY <2>1, Constants
      <3>. HIDE DEF d
      <3>3. Good(c, q)
        BY <1>3, <3>2, GoesOn
      <3>. HIDE DEF q
      <3>4. Moves(c, q)
        BY <1>1, <2>1, <3>1 DEF Moves
      <3>. QED
        BY <3>3, <3>4 DEF Stepped, Good
    <2>2. CASE r.cur # t
      <3>1. m \in Request /\ m.cmd = "read" /\ m.trk = t
        BY DEF Request, Command
      <3>. HIDE DEF m
      <3>2. NextOK(c, r, m)
        BY <1>1, <1>2, <1>3, <3>1 DEF NextOK
      <3>3. WriteBack(c, r, m)
        BY <1>1, <2>2
      <3>. QED
        BY <1>3, <3>2, <3>3, WritesBack
    <2>. QED
      BY <2>1, <2>2
  <1>. QED
    BY <1>4

LEMMA EndProgramSteps == ASSUME CohInv, NEW c \in Client, EndProgram(c) PROVE Stepped(c)
  <1>1. cl[c].pc = "run" /\ WriteBack(c, cl[c], Msg("end"))
    BY DEF EndProgram
  <1>2. Running(c, cl[c]) /\ RecordOK(c, cl[c])
    BY <1>1, Runs DEF CohInv, ClientOK
  <1>3. Msg("end") \in Request /\ Msg("end").cmd = "end"
    BY Messages DEF Command
  <1>4. NextOK(c, cl[c], Msg("end"))
    BY <1>3 DEF NextOK
  <1>. QED
    BY <1>1, <1>2, <1>4, WritesBack DEF RecordOK

LEMMA ProgramSteps ==
    ASSUME CohInv, NEW c \in Client, StartProgram(c) \/ Program(c) \/ Close(c) PROVE ClientStep(c)
  <1>1. Stepped(c)
    BY StartProgramSteps, CloseSteps, ReserveSteps, AccessSteps, EndProgramSteps DEF Program
  <1>2. /\ cl[c].pc \notin {"sent", "greet"}
        /\ UNCHANGED <<ioactive, reserved, srv, loc, resp, faults>>
    BY DEF StartProgram, Program, Close, Reserve, Fresh, Access, EndProgram
  <1>. QED
    BY <1>1, <1>2, QuietSteps

LEMMA HearsAnswer == ASSUME CohInv, NEW c \in Client, Hear(c) PROVE ClientStep(c)
  <1>1. Stepped(c) /\ Unasked(c)
    BY HearSteps, WhenUnasked DEF Hear
  <1>. QED
    BY <1>1 DEF Hear, ClientStep

\* A client whose connection has gone, or is new, sends its request again.
LEMMA Retries ==
    ASSUME CohInv, NEW c \in Client, cl[c].pc \in {"sent", "connect", "greet"},
           NEW p \in {"sent", "connect"}, Up(c) => p = "sent",
           \A i \in Slot : slot[i].id = c /\ slot[i].live => slot[i].purge = Track
    PROVE  /\ Good(c, [cl[c] EXCEPT !.pc = p]) /\ [cl[c] EXCEPT !.pc = p] \in Remote
           /\ [cl[c] EXCEPT !.pc = p].pc = p /\ [cl[c] EXCEPT !.pc = p].ask = cl[c].ask
  <1>. DEFINE q == [cl[c] EXCEPT !.pc = p]
  <1>1. cl[c] \in Remote /\ RecordOK(c, cl[c]) /\ CacheOK(c, cl[c])
    BY Typed DEF CohInv, ClientOK
  <1>2. /\ q \in Remote /\ q.pc = p /\ q.ask = cl[c].ask /\ q.next = cl[c].next /\ q.cur = cl[c].cur
        /\ q.dirty = cl[c].dirty /\ q.left = cl[c].left /\ q.failed = cl[c].failed
        /\ q.cache = cl[c].cache
    BY <1>1 DEF Remote
  <1>. HIDE DEF q
  <1>3. RecordOK(c, q)
    BY <1>1, <1>2 DEF RecordOK
  <1>4. CacheOK(c, q)
    BY <1>1, <1>2 DEF CacheOK, Past, Clean, Reading
  <1>5. \A i \in Slot : slot[i].id = c /\ slot[i].live => PurgeOK(i, q, NoAnswer)
    BY <1>2 DEF PurgeOK
  <1>6. Good(c, q)
    BY <1>2, <1>3, <1>4, <1>5 DEF Good
  <1>. QED
    BY <1>2, <1>6 DEF q

\* Without a connection nothing is sent.
LEMMA RetriesUnsent ==
    ASSUME CohInv, NEW c \in Client, cl[c].pc \in {"sent", "connect", "greet"}, ~Up(c),
           NEW p \in {"sent", "connect"}, cl' = [cl EXCEPT ![c].pc = p], slot' = slot
    PROVE  Stepped(c)
  <1>1. \A i \in Slot : ~(slot[i].id = c /\ slot[i].live)
    BY DEF Up, SlotsOf
  <1>2. Good(c, [cl[c] EXCEPT !.pc = p]) /\ [cl[c] EXCEPT !.pc = p] \in Remote
    BY <1>1, Retries
  <1>3. cl' = [cl EXCEPT ![c] = [cl[c] EXCEPT !.pc = p]]
    BY Typed DEF CohInv
  <1>4. Moves(c, [cl[c] EXCEPT !.pc = p])
    BY <1>3 DEF Moves
  <1>. QED
    BY <1>2, <1>4 DEF Stepped

LEMMA ReceiveFailsSteps == ASSUME CohInv, NEW c \in Client, ReceiveFails(c) PROVE ClientStep(c)
  <1>1. cl[c].pc = "sent" /\ resp[c] = NoAnswer /\ ~Up(c) /\ UNCHANGED resp
    BY DEF ReceiveFails
  <1>2. resp' = [resp EXCEPT ![c] = NoAnswer]
    BY <1>1, Typed DEF CohInv
  <1>3. Stepped(c)
    BY <1>1, FailSteps, RetriesUnsent DEF ReceiveFails
  <1>4. Unasked(c)
    BY <1>1, WhenUnasked
  <1>. QED
    BY <1>2, <1>3, <1>4 DEF ReceiveFails, ClientStep

LEMMA UnreachableSteps == ASSUME CohInv, NEW c \in Client, Unreachable(c) PROVE ClientStep(c)
  <1>1. cl[c].pc = "connect" /\ Failed(c, cl[c])
    BY DEF Unreachable
  <1>2. ~Up(c)
    BY <1>1 DEF Up, SlotsOf, CohInv, ConnOK, LinkOK
  <1>3. Stepped(c)
    BY <1>1, <1>2, FailSteps
  <1>. QED
    BY <1>1, <1>3, QuietSteps DEF Unreachable

LEMMA GreetSteps == ASSUME CohInv, NEW c \in Client, Greet(c) PROVE ClientStep(c)
  <1>1. cl[c].pc = "greet" /\ UNCHANGED <<ioactive, reserved, srv, loc, faults>>
    BY DEF Greet
  <1>2. CASE resp[c] # NoAnswer
    <2>1. Transmit(c, cl[c]) /\ resp' = [resp EXCEPT ![c] = NoAnswer]
      BY <1>2 DEF Greet
    <2>2. \A i \in Slot : slot[i].id = c /\ slot[i].live => slot[i].purge = Track
      BY <1>1 DEF CohInv, ConnOK, LinkOK
    <2>3. \A p \in {"sent", "connect"} : (Up(c) => p = "sent") => Good(c, [cl[c] EXCEPT !.pc = p])
      BY <1>1, <2>2, Retries
    <2>4. \A p : [cl[c] EXCEPT !.pc = p].ask = cl[c].ask
      BY Typed DEF CohInv, Remote
    <2>5. Stepped(c)
      BY <2>1, <2>3, <2>4, TransmitDoes
    <2>6. Unasked(c)
      BY <1>2, WhenUnasked
    <2>. QED
      BY <1>1, <2>1, <2>5, <2>6 DEF ClientStep
  <1>3. CASE resp[c] = NoAnswer
    <2>1. ~Up(c) /\ resp' = resp
      BY <1>3 DEF Greet
    <2>2. resp' = [resp EXCEPT ![c] = NoAnswer]
      BY <1>3, <2>1, Typed DEF CohInv
    <2>3. Stepped(c)
      BY <1>1, <1>3, <2>1, FailSteps, RetriesUnsent DEF Greet
    <2>4. Unasked(c)
      BY <2>1, WhenUnasked
    <2>. QED
      BY <1>1, <2>2, <2>3, <2>4 DEF ClientStep
  <1>. QED
    BY <1>2, <1>3

\* A connection that is refused is found out when the answer does not come.
Refused(c) == SlotsOf(c) # {} \/ {i \in Slot : slot[i].id = None} = {}
LEMMA RefusedSteps ==
    ASSUME CohInv, NEW c \in Client, Connect(c), Refused(c) PROVE ClientStep(c) /\ ~Up(c)
  <1>1. cl[c].pc = "connect" /\ UNCHANGED <<ioactive, reserved, srv, loc, resp, faults>>
        /\ cl' = [cl EXCEPT ![c].pc = "sent"] /\ slot' = slot
    BY DEF Connect, Refused
  <1>2. ~Up(c)
    BY <1>1 DEF Up, SlotsOf, CohInv, ConnOK, LinkOK
  <1>3. Stepped(c)
    BY <1>1, <1>2, RetriesUnsent
  <1>. QED
    BY <1>1, <1>2, <1>3, QuietSteps

\* A connection that is made has everything on its purge list.
LEMMA ConnectKeeps == ASSUME CohInv, NEW c \in Client, Connect(c) PROVE CohInv'
  <1>. DEFINE free == {i \in Slot : slot[i].id = None}
  <1>1. /\ cl[c].pc = "connect" /\ UNCHANGED <<ioactive, reserved, srv, loc, resp, faults>>
        /\ TypeOK /\ HolderOK /\ ClientOK(c)
        /\ slot \in [Slot -> Conn] /\ cl \in [Client -> Remote] /\ resp \in [Client -> Answer \cup {NoAnswer}]
    BY Typed DEF Connect, CohInv
  <1>2. CASE Refused(c)
    BY <1>2, RefusedSteps, MovesKeeps
  <1>3. CASE SlotsOf(c) = {} /\ free # {}
    <2>. DEFINE first == CHOOSE i \in free : \A j \in free : i <= j
                n == [FreeSlot EXCEPT !.id = c, !.live = TRUE, !.hdr = "connect",
                                      !.pending = TRUE, !.purge = Track]
    <2>1. cl' = [cl EXCEPT ![c].pc = "greet"] /\ slot' = [slot EXCEPT ![first] = n]
      BY <1>3 DEF Connect
    <2>2. first \in free
      <3>. DEFINE R == {ss \in Nat \X Nat : ss[1] < ss[2]}
      <3>1. IsWellFoundedOn(R, Nat)
        BY NatLessThanWellFounded DEF OpToRel
      <3>2. free \in SUBSET Nat
        BY ConstantsAssumption DEF Slot
      <3>. HIDE DEF free
      <3>3. PICK m \in free : \A j \in free : <<j, m>> \notin R
        <4>. HIDE DEF R
        <4>. QED
          BY <1>3, <3>1, <3>2, WFMin
      <3>4. ASSUME NEW j \in free PROVE m <= j
        <4>1. m \in Nat /\ j \in Nat /\ (<<j, m>> \in R <=> j < m)
          BY <3>2
        <4>. QED
          BY <3>3, <4>1
      <3>. QED
        BY <3>4
    <2>3. PICK k \in Slot : slot[k].id = None /\ slot' = [slot EXCEPT ![k] = n]
      BY <2>1, <2>2
    <2>4. /\ k \in Slot /\ slot[k].id = None /\ ~SrvAt(k) /\ c # None
          /\ \A j \in Slot : slot[j].id # c
      BY <1>3, <2>3, Constants DEF SlotsOf, CohInv, SlotOK
    <2>5. /\ n \in Conn /\ n.id = c /\ n.live /\ n.in = NoMsg /\ n.hdr = "connect" /\ n.purge = Track
      BY DEF Conn, FreeSlot
    <2>6. PICK q \in Remote :
             /\ cl' = [cl EXCEPT ![c] = q] /\ q.pc = "greet" /\ q.ask = cl[c].ask
             /\ q.next = cl[c].next /\ q.cur = cl[c].cur /\ q.dirty = cl[c].dirty
             /\ q.left = cl[c].left /\ q.failed = cl[c].failed /\ q.cache = cl[c].cache
      <3>. DEFINE g == [cl[c] EXCEPT !.pc = "greet"]
      <3>1. /\ g \in Remote /\ g.pc = "greet" /\ g.ask = cl[c].ask
            /\ g.next = cl[c].next /\ g.cur = cl[c].cur /\ g.dirty = cl[c].dirty
            /\ g.left = cl[c].left /\ g.failed = cl[c].failed /\ g.cache = cl[c].cache
        BY <1>1 DEF Remote
      <3>2. cl' = [cl EXCEPT ![c] = g]
        BY <1>1, <2>1
      <3>. HIDE DEF g
      <3>. QED
        BY <3>1, <3>2
    <2>. HIDE DEF free, n
    <2>7. /\ slot' \in [Slot -> Conn] /\ slot'[k] = n /\ \A j \in Slot \ {k} : slot'[j] = slot[j]
          /\ cl' \in [Client -> Remote] /\ cl'[c] = q /\ \A d \in Client \ {c} : cl'[d] = cl[d]
      BY <1>1, <2>3, <2>4, <2>5, <2>6
    <2>8. TypeOK'
      <3>1. \A d \in Client : cl'[d].dirty => cl'[d].cur # None
        BY <1>1, <2>6, <2>7 DEF TypeOK
      <3>. QED
        BY <1>1, <2>7, <3>1, TypeKept DEF TypeOK
    <2>9. HolderOK' /\ ioactive # c
      BY <1>1, <2>4, <2>7, Constants DEF HolderOK
    <2>10. \A j \in Slot : SrvAt(j)' = SrvAt(j)
      BY <1>1 DEF SrvAt
    <2>11. /\ \A d \in Client \ {c} : ClientOK(d)'
           /\ \A j \in Slot \ {k} : SlotOK(j)' /\ ConnOK(j)'
      <3>1. \A j \in Slot \ {k} : /\ Alike(slot'[j], slot[j]) /\ SrvAt(j)' = SrvAt(j)
                                  /\ slot[j].id # c
                                  /\ slot[j].id = None => slot'[j] = slot[j]
        BY <2>4, <2>7, <2>10 DEF Alike
      <3>. QED
        BY <1>1, <2>4, <2>5, <2>7, <3>1, OthersKept
    <2>12. ClientOK(c)'
      <3>1. ~StartPending(c)'
        BY <2>4, <2>5, <2>7, <2>10, Constants DEF StartPending, NoMsg
      <3>2. RecordOK(c, q) /\ resp[c] = NoAnswer
        BY <1>1, <2>6 DEF ClientOK, RecordOK
      <3>. QED
        BY <1>1, <2>6, <2>7, <2>9, <3>1, <3>2 DEF ClientOK, RecordOK, CacheOK, Answering
    <2>13. SlotOK(k)'
      <3>1. \A j \in Slot : slot'[k].id = slot'[j].id => k = j
        BY <2>4, <2>5, <2>7
      <3>2. n.in.cmd \notin {"read", "write"}
        BY <2>5, Constants
      <3>. QED
        BY <2>4, <2>5, <2>7, <2>10, <3>1, <3>2 DEF SlotOK
    <2>14. ConnOK(k)'
      <3>1. resp[c] = NoAnswer
        BY <1>1 DEF ClientOK
      <3>2. LinkOK(k, q, NoAnswer)'
        BY <1>1, <2>4, <2>5, <2>6, <2>7, <2>9, <2>10 DEF LinkOK
      <3>3. PurgeOK(k, q, NoAnswer)'
        BY <1>1, <2>4, <2>5, <2>6, <2>7, <2>9 DEF PurgeOK
      <3>. QED
        BY <1>1, <2>5, <2>7, <3>1, <3>2, <3>3 DEF ConnOK
    <2>. QED
      BY <2>4, <2>8, <2>9, <2>11, <2>12, <2>13, <2>14 DEF CohInv
  <1>. QED
    BY <1>2, <1>3 DEF Refused

\* A connection that is lost takes the answer with it.
LEMMA LoseKeeps == ASSUME CohInv, NEW c \in Client, Lose(c) PROVE CohInv'
  <1>0. faults' \in 0 .. MaxFaults
    <2>1. faults \in 0 .. MaxFaults /\ MaxFaults \in Nat
      BY ConstantsAssumption DEF CohInv, TypeOK
    <2>2. faults < MaxFaults /\ faults' = faults + 1
      BY DEF Lose, Fault
    <2>. QED
      BY <2>1, <2>2
  <1>1. /\ UNCHANGED <<ioactive, reserved, srv, loc, cl>>
        /\ resp' = [resp EXCEPT ![c] = NoAnswer]
        /\ TypeOK /\ HolderOK /\ ClientOK(c)
        /\ slot \in [Slot -> Conn] /\ cl \in [Client -> Remote] /\ resp \in [Client -> Answer \cup {NoAnswer}]
    BY Typed DEF Lose, CohInv
  <1>2. /\ slot' \in [Slot -> Conn]
        /\ \A j \in Slot : IF slot[j].id = c
                           THEN /\ slot'[j].id = c /\ slot'[j].live = FALSE /\ slot'[j].hdr = slot[j].hdr
                                /\ slot'[j].in \in {slot[j].in, NoMsg}
                           ELSE slot'[j] = slot[j]
    <2>1. PICK kept \in BOOLEAN :
            slot' = [i \in Slot |-> IF slot[i].id = c
                                    THEN [slot[i] EXCEPT !.live = FALSE, !.in = IF kept THEN @ ELSE NoMsg]
                                    ELSE slot[i]]
      BY DEF Lose
    <2>. DEFINE g(j) == [slot[j] EXCEPT !.live = FALSE, !.in = IF kept THEN @ ELSE NoMsg]
    <2>2. ASSUME NEW j \in Slot
          PROVE  /\ g(j) \in Conn /\ g(j).id = slot[j].id /\ g(j).live = FALSE
                 /\ g(j).hdr = slot[j].hdr /\ g(j).in \in {slot[j].in, NoMsg}
      <3>1. slot[j].in \in Request \cup {NoMsg} /\ slot[j] \in Conn
        BY <1>1 DEF Conn
      <3>. DEFINE m == IF kept THEN slot[j].in ELSE NoMsg
      <3>2. m \in Request \cup {NoMsg} /\ m \in {slot[j].in, NoMsg}
        BY <3>1
      <3>3. g(j) = [slot[j] EXCEPT !.live = FALSE, !.in = m]
        BY <3>1 DEF Conn
      <3>. HIDE DEF m, Request, NoMsg, g
      <3>. QED
        BY <3>1, <3>2, <3>3 DEF Conn
    <2>3. slot' = [i \in Slot |-> IF slot[i].id = c THEN g(i) ELSE slot[i]]
      BY <2>1
    <2>. HIDE DEF g
    <2>. QED
      BY <1>1, <2>2, <2>3
  <1>3. /\ resp' \in [Client -> Answer \cup {NoAnswer}] /\ resp'[c] = NoAnswer
        /\ \A d \in Client \ {c} : resp'[d] = resp[d]
    BY <1>1
  <1>4. TypeOK'
    BY <1>0, <1>1, <1>2, <1>3, TypeKept DEF TypeOK
  <1>5. HolderOK'
    BY <1>1, <1>2 DEF HolderOK
  <1>6. \A j \in Slot : SrvAt(j)' = SrvAt(j)
    BY <1>1 DEF SrvAt
  <1>. DEFINE I == {i \in Slot : slot[i].id = c}
  <1>7. /\ \A d \in Client \ {c} : ClientOK(d)'
        /\ \A j \in Slot \ I : SlotOK(j)' /\ ConnOK(j)'
    <2>1. \A j \in Slot \ I : /\ Alike(slot'[j], slot[j]) /\ SrvAt(j)' = SrvAt(j)
                              /\ slot[j].id # c /\ (slot[j].id = None => slot'[j] = slot[j])
      BY <1>2, <1>6 DEF Alike
    <2>2. I \in SUBSET Slot /\ \A i \in I : slot[i].id \in {c, None} /\ slot'[i].id \in {c, None}
      BY <1>2
    <2>3. \A d \in Client \ {c} : /\ cl'[d] = cl[d] /\ resp'[d] = resp[d]
                                  /\ ioactive' = d <=> ioactive = d
      BY <1>1, <1>3
    <2>. HIDE DEF I
    <2>. QED
      BY <1>2, <2>1, <2>2, <2>3, StrangersKept
  <1>8. ClientOK(c)'
    <2>1. StartPending(c)' => StartPending(c)
      BY <1>2, <1>6, Constants DEF StartPending
    <2>. QED
      BY <1>1, <1>3, <2>1 DEF ClientOK, RecordOK, CacheOK, Answering
  <1>9. ASSUME NEW i \in I PROVE SlotOK(i)' /\ ConnOK(i)'
    <2>1. SlotOK(i) /\ slot[i].id = c /\ c # None
      BY <1>9, Constants DEF CohInv
    <2>2. \A j \in Slot : slot'[i].id = slot'[j].id => i = j
      BY <1>2, <2>1 DEF SlotOK
    <2>3. slot'[i].in.cmd \in {"read", "write"} => slot'[i].in.trk \in Track
      BY <1>2, <2>1, Constants DEF SlotOK
    <2>. QED
      BY <1>2, <1>3, <1>6, <2>1, <2>2, <2>3 DEF SlotOK, ConnOK
  <1>. QED
    BY <1>4, <1>5, <1>7, <1>8, <1>9 DEF CohInv

-----------------------------------------------------------------------------
(* The results.                                                              *)

LEMMA CohNext == CohInv /\ [Next]_vars => CohInv'
  <1>1. ASSUME CohInv, Next PROVE CohInv'
    <2>1. CASE LocalStart \/ LocalStep
      BY <1>1, <2>1, LocalKeeps
    <2>2. CASE ServerStep \/ \E i \in Slot : TimeOut(i)
      BY <1>1, <2>2, ServerKeeps
    <2>3. ASSUME NEW c \in Client,
                 StartProgram(c) \/ Program(c) \/ Exchange(c) \/ Close(c) \/ Unreachable(c) \/ Lose(c)
          PROVE  CohInv'
      BY <1>1, <2>3, ProgramSteps, HearsAnswer, ReceiveFailsSteps, UnreachableSteps, GreetSteps,
         MovesKeeps, ConnectKeeps, LoseKeeps DEF Exchange
    <2>. QED
      BY <1>1, <2>1, <2>2, <2>3 DEF Next
  <1>2. CASE UNCHANGED vars
    BY <1>2 DEF vars, CohInv, TypeOK, HolderOK, ClientOK, RecordOK, CacheOK, Answering, StartPending,
                SrvAt, SlotOK, ConnOK, LinkOK, PurgeOK
  <1>. QED
    BY <1>1, <1>2

LEMMA CohAlways == Spec => []CohInv
  BY CohInit, CohNext, PTL DEF Spec

\* The variables keep their types, and a client that has updated its current
\* track has a current track: the state of shared.c is one that the model
\* describes, however connections come and go.
THEOREM TypeCorrect == Spec => []TypeOK
  <1>1. CohInv => TypeOK
    BY DEF CohInv
  <1>. QED
    BY <1>1, CohAlways, PTL

\* No channel program of a client uses a track image that another system has
\* updated, for any number of clients and tracks, any limit of the purge list
\* and any loss of connections: shared_update_notify, the purge at START and
\* the forgetting of everything on a new connection are enough.
THEOREM CachesCoherent == Spec => []Coherent
  <1>1. ASSUME CohInv PROVE Coherent
    <2>. SUFFICES ASSUME NEW c \in Client, ioactive = c, InProgram(c), cl[c].cur # None
                  PROVE  cl[c].cache[cl[c].cur] = "good"
      BY DEF Coherent
    <2>1. RecordOK(c, cl[c]) /\ CacheOK(c, cl[c]) /\ cl[c] \in Remote
      BY <1>1, Typed DEF CohInv, ClientOK
    <2>2. Clean(cl[c])
      BY <2>1 DEF CacheOK, Past, InProgram
    <2>3. /\ cl[c].cur \in Track /\ cl[c].cache[cl[c].cur] \in {"none", "good", "old"}
          /\ cl[c].cache[cl[c].cur] # "none"
      BY <2>1 DEF RecordOK, Remote
    <2>4. ~Reading(cl[c], cl[c].cur)
      BY <2>1 DEF Reading, RecordOK
    <2>. QED
      BY <2>2, <2>3, <2>4 DEF Clean
  <1>. QED
    BY <1>1, CohAlways, PTL

-----------------------------------------------------------------------------
(* Who waits: the connections that wait have a client to wait for.           *)

LEMMA LeaveInit == Init => LeaveOK
  <1>. SUFFICES ASSUME Init, NEW i \in Slot PROVE LeaveAt(i)
    BY DEF LeaveOK
  <1>1. slot[i].waiting = FALSE /\ slot[i].in = NoMsg
    BY DEF Init, FreeSlot
  <1>2. CohInv /\ ioactive = None
    BY CohInit DEF Init
  <1>3. slot[i].id \in Client \cup {None} /\ (slot[i].live => slot[i].id # None)
    BY <1>2, Typed DEF CohInv, SlotOK, Conn, FreeSlot
  <1>. QED
    BY <1>1, <1>2, <1>3, Constants DEF LeaveAt

\* A step that adds no waiter, gives the device to nobody and ends no program.
LEMMA LeaveKept ==
    ASSUME CohInv, LeaveOK, NEW j \in Slot,
           slot'[j].id = slot[j].id, slot'[j].live => slot[j].live,
           slot'[j].in \in {slot[j].in, NoMsg},
           slot'[j].waiting /\ ~SrvAt(j)' => ioactive' \in Client \ {slot[j].id},
           ioactive' = slot[j].id /\ ioactive' \in Client
              => ioactive = slot[j].id /\ (reserved => reserved'),
           slot[j].id \in Client /\ slot[j].live
              => /\ cl'[slot[j].id].pc = "idle"
                      => cl[slot[j].id].pc = "idle" \/ Answering(slot[j].id, "end")
                 /\ Answering(slot[j].id, "end")' => Answering(slot[j].id, "end")
    PROVE  LeaveAt(j)'
  <1>1. SlotOK(j) /\ LeaveAt(j) /\ slot[j].id \in Client \cup {None}
    BY Typed DEF CohInv, LeaveOK, Conn
  <1>2. CASE slot[j].id = None
    <2>1. ~slot[j].live /\ slot[j].in = NoMsg
      BY <1>1, <1>2 DEF SlotOK, FreeSlot
    <2>. QED
      BY <1>2, <2>1, Constants DEF LeaveAt
  <1>3. CASE slot[j].id \in Client
    <2>1. (/\ slot'[j].live /\ ioactive' = slot[j].id
           /\ cl'[slot[j].id].pc = "idle" \/ Answering(slot[j].id, "end")') => reserved'
      BY <1>1, <1>3 DEF LeaveAt
    <2>2. slot'[j].in.cmd = "disconnect" => ioactive' # slot[j].id
      BY <1>1, <1>3, Constants DEF LeaveAt
    <2>. QED
      BY <2>1, <2>2 DEF LeaveAt
  <1>. QED
    BY <1>1, <1>2, <1>3

\* Nobody waits while the device is free or with the server's guest, but for the
\* connection of the device thread.
LEMMA NoneWaits ==
    ASSUME LeaveOK, NEW j \in Slot, ioactive \notin Client
    PROVE  slot[j].waiting => SrvAt(j)
  BY DEF LeaveOK, LeaveAt

LEMMA ReplyWaits ==
    ASSUME TypeOK, NEW sl \in [Slot -> Conn], NEW i \in Slot, NEW s \in Conn, NEW a, Reply(sl, i, s, a)
    PROVE  slot'[i].waiting = s.waiting
  BY DEF Reply, Conn

\* A request of connection i that was answered.
LEMMA ReplyLeaves ==
    ASSUME CohInv, LeaveOK, NEW i \in Slot, slot[i].id \in Client,
           NEW sl \in [Slot -> Conn], NEW s \in Conn, NEW a \in Answer, Reply(sl, i, s, a),
           s.id = slot[i].id, s.live = slot[i].live, s.in = NoMsg, s.waiting = FALSE,
           \A j \in Slot \ {i} : /\ sl[j].id = slot[j].id /\ sl[j].live = slot[j].live
                                 /\ sl[j].in = slot[j].in,
           \A j \in Slot \ {i} : sl[j].waiting /\ ~SrvAt(j)' => ioactive' \in Client \ {slot[j].id},
           ioactive' \in {ioactive, None, Local, slot[i].id},
           ioactive # slot[i].id => reserved' = reserved,
           \A c \in Client : cl'[c].pc = cl[c].pc /\ cl'[c].ask = cl[c].ask,
           slot[i].live /\ ioactive' = slot[i].id
              => reserved' \/ (cl[slot[i].id].pc # "idle" /\ cl[slot[i].id].ask.cmd # "end")
    PROVE  LeaveOK'
  <1>1. /\ \A j \in Slot \ {i} : slot'[j] = sl[j]
        /\ Alike(slot'[i], s) /\ slot'[i].waiting = FALSE
        /\ \A d \in Client \ {slot[i].id} : resp'[d] = resp[d]
    BY ReplyDoes, ReplyWaits DEF CohInv
  <1>2. ASSUME NEW j \in Slot \ {i} PROVE LeaveAt(j)'
    <2>1. slot[j].id # slot[i].id
      BY Constants DEF CohInv, SlotOK
    <2>2. ioactive' = slot[j].id /\ ioactive' \in Client => ioactive = slot[j].id /\ (reserved => reserved')
      BY <2>1, Constants
    <2>3. slot[j].id \in Client => (Answering(slot[j].id, "end")' => Answering(slot[j].id, "end"))
      BY <1>1, <2>1 DEF Answering
    <2>. QED
      BY <1>1, <2>1, <2>2, <2>3, LeaveKept
  <1>3. LeaveAt(i)'
    BY <1>1, Constants DEF LeaveAt, Alike, Answering
  <1>. QED
    BY <1>2, <1>3 DEF LeaveOK

\* What the server holds of a live connection is what its client asked.
LEMMA AskedIs ==
    ASSUME CohInv, NEW i \in Slot, slot[i].live, slot[i].in # NoMsg
    PROVE  cl[slot[i].id].pc = "sent" /\ cl[slot[i].id].ask = slot[i].in
  BY DEF CohInv, ConnOK, LinkOK

LEMMA AnsweredOK == OK \in Answer /\ Error \in Answer
                    /\ \A ts \in SUBSET Track : [code |-> "ok", purge |-> ts] \in Answer
  BY DEF OK, Error, Answer

LEMMA GrantLeaves ==
    ASSUME CohInv, LeaveOK, NEW i \in Slot, slot[i].id \in Client, Grant(i), UNCHANGED <<reserved, cl>>,
           slot[i].in.cmd = "start" \/ slot[i].hdr = "start" \/ SrvAt(i)
    PROVE  LeaveOK'
  <1>. DEFINE s == [Served(i) EXCEPT !.purge = {}]
  <1>1. /\ s \in Conn /\ s.id = slot[i].id /\ s.live = slot[i].live /\ s.in = NoMsg /\ s.waiting = FALSE
        /\ slot \in [Slot -> Conn] /\ slot[i].purge \in SUBSET Track
    BY ServedDoes, Typed DEF CohInv, Conn
  <1>2. Reply(slot, i, s, [code |-> "ok", purge |-> slot[i].purge]) /\ ioactive' = slot[i].id
    BY DEF Grant
  <1>3. [code |-> "ok", purge |-> slot[i].purge] \in Answer
    BY <1>1, AnsweredOK
  <1>. HIDE DEF s
  <1>4. slot[i].live => cl[slot[i].id].pc = "sent" /\ cl[slot[i].id].ask.cmd = "start"
    BY Constants DEF CohInv, ConnOK, LinkOK
  <1>5. \A j \in Slot \ {i} : slot[j].id # slot[i].id
    BY Constants DEF CohInv, SlotOK
  <1>. QED
    BY <1>1, <1>2, <1>3, <1>4, <1>5, ReplyLeaves

\* The connection waits, for another client or with the device thread.
LEMMA WaitLeaves ==
    ASSUME CohInv, LeaveOK, NEW i \in Slot, NEW h \in {"none", "start"},
           slot' = [slot EXCEPT ![i].waiting = TRUE, ![i].in = NoMsg, ![i].hdr = h],
           UNCHANGED <<ioactive, reserved, resp, cl>>,
           srv.pc = "loop" \/ srv.ix = i,
           ioactive \in Client \ {slot[i].id} \/ SrvAt(i)'
    PROVE  LeaveOK'
  <1>1. /\ \A j \in Slot \ {i} : slot'[j] = slot[j]
        /\ slot'[i].id = slot[i].id /\ slot'[i].live = slot[i].live /\ slot'[i].in = NoMsg
    BY Typed DEF CohInv, Conn
  <1>2. ASSUME NEW j \in Slot PROVE LeaveAt(j)'
    <2>1. slot'[j].waiting /\ ~SrvAt(j)' => ioactive' \in Client \ {slot[j].id}
      BY <1>1 DEF LeaveOK, LeaveAt, SrvAt
    <2>2. slot'[j].id = slot[j].id /\ slot'[j].live = slot[j].live /\ slot'[j].in \in {slot[j].in, NoMsg}
      BY <1>1
    <2>3. Answering(slot[j].id, "end")' => Answering(slot[j].id, "end")
      BY <2>2 DEF Answering
    <2>. QED
      BY <2>1, <2>2, <2>3, LeaveKept
  <1>. QED
    BY <1>2 DEF LeaveOK

LEMMA StartLeaves ==
    ASSUME CohInv, LeaveOK, NEW i \in Slot, slot[i].id \in Client, Start(i), UNCHANGED <<reserved, cl>>,
           srv.pc = "loop" \/ srv.ix = i,
           slot[i].in.cmd = "start" \/ slot[i].hdr = "start" \/ SrvAt(i)
    PROVE  LeaveOK'
  <1>1. CASE Grant(i)
    BY <1>1, GrantLeaves
  <1>2. CASE ioactive \notin {None, Local, slot[i].id} /\ Defer(i)
    <2>1. ioactive \in Client \ {slot[i].id}
      BY <1>2 DEF CohInv, TypeOK
    <2>. QED
      BY <1>2, <2>1, WaitLeaves DEF Defer
  <1>3. CASE WaitForLocal(i)
    <2>1. SrvAt(i)'
      BY <1>3 DEF WaitForLocal, SrvAt
    <2>. QED
      BY <1>3, <2>1, WaitLeaves DEF WaitForLocal
  <1>. QED
    BY <1>1, <1>2, <1>3 DEF Start

\* A step that leaves the device, the clients and the requests alone.
LEMMA UnseenLeaves ==
    ASSUME CohInv, LeaveOK, UNCHANGED <<ioactive, reserved, srv, resp>>,
           \A c \in Client : cl'[c].pc = cl[c].pc /\ cl'[c].ask = cl[c].ask,
           \A j \in Slot : /\ slot'[j].id = slot[j].id /\ slot'[j].live = slot[j].live
                           /\ slot'[j].in = slot[j].in /\ slot'[j].waiting = slot[j].waiting
    PROVE  LeaveOK'
  <1>1. ASSUME NEW j \in Slot PROVE LeaveAt(j)'
    <2>1. slot'[j].waiting /\ ~SrvAt(j)' => ioactive' \in Client \ {slot[j].id}
      BY DEF LeaveOK, LeaveAt, SrvAt
    <2>2. slot[j].id \in Client => (Answering(slot[j].id, "end")' => Answering(slot[j].id, "end"))
      BY DEF Answering
    <2>. QED
      BY <2>1, <2>2, LeaveKept
  <1>. QED
    BY <1>1 DEF LeaveOK

LEMMA RemoveLeaves ==
    ASSUME CohInv, LeaveOK, NEW i \in Slot, slot[i].id # None, srv.pc = "loop", Remove(i)
    PROVE  LeaveOK'
  <1>1. /\ slot[i].id \in Client /\ slot \in [Slot -> Conn] /\ UNCHANGED <<reserved, srv, cl, resp>>
        /\ FreeSlot.id = None /\ FreeSlot.live = FALSE /\ FreeSlot.in = NoMsg /\ FreeSlot.waiting = FALSE
    BY Typed DEF CohInv, Conn, Remove, FreeSlot
  <1>2. \A j \in Slot \ {i} : slot[j].id # slot[i].id
    BY <1>1, Constants DEF CohInv, SlotOK
  <1>3. /\ slot'[i] = FreeSlot
        /\ IF ioactive = slot[i].id
           THEN /\ ioactive' \in {None, Local}
                /\ \A j \in Slot \ {i} : slot'[j] = NoWaiters(slot)[j]
           ELSE /\ ioactive' = ioactive /\ \A j \in Slot \ {i} : slot'[j] = slot[j]
    <2>1. NoWaiters(slot) \in [Slot -> Conn]
      BY ServedDoes DEF CohInv
    <2>2. CASE ioactive = slot[i].id
      <3>1. slot' = [NoWaiters(slot) EXCEPT ![i] = FreeSlot] /\ FreeDevice
        BY <2>2 DEF Remove
      <3>2. ioactive' \in {None, Local}
        BY <3>1 DEF FreeDevice
      <3>. QED
        BY <2>1, <2>2, <3>1, <3>2
    <2>3. CASE ioactive # slot[i].id
      <3>1. slot' = [slot EXCEPT ![i] = FreeSlot] /\ ioactive' = ioactive
        BY <2>3 DEF Remove
      <3>. QED
        BY <1>1, <2>3, <3>1
    <2>. QED
      BY <2>2, <2>3
  <1>4. ASSUME NEW j \in Slot \ {i} PROVE LeaveAt(j)'
    <2>1. NoWaiters(slot)[j].waiting = FALSE /\ Alike(NoWaiters(slot)[j], slot[j])
      <3>1. NoWaiters(slot)[j] = [slot[j] EXCEPT !.waiting = FALSE]
        BY DEF NoWaiters
      <3>2. [slot[j] EXCEPT !.waiting = FALSE].waiting = FALSE
        BY <1>1 DEF Conn
      <3>. QED
        BY <3>1, <3>2, ServedDoes DEF CohInv
    <2>2. /\ slot'[j].id = slot[j].id /\ slot'[j].live = slot[j].live /\ slot'[j].in = slot[j].in
          /\ slot'[j].waiting => slot[j].waiting /\ ioactive' = ioactive
      BY <1>3, <2>1 DEF Alike
    <2>3. slot'[j].waiting /\ ~SrvAt(j)' => ioactive' \in Client \ {slot[j].id}
      BY <1>1, <2>2 DEF LeaveOK, LeaveAt, SrvAt
    <2>4. ioactive' = slot[j].id /\ ioactive' \in Client => ioactive = slot[j].id /\ (reserved => reserved')
      BY <1>1, <1>3, Constants
    <2>5. Answering(slot[j].id, "end")' => Answering(slot[j].id, "end")
      BY <1>1, <2>2 DEF Answering
    <2>. QED
      BY <1>1, <2>2, <2>3, <2>4, <2>5, LeaveKept
  <1>5. LeaveAt(i)'
    BY <1>1, <1>3, Constants DEF LeaveAt
  <1>. QED
    BY <1>4, <1>5 DEF LeaveOK

LEMMA RequestLeaves ==
    ASSUME CohInv, LeaveOK, NEW i \in Slot, slot[i].id # None, srv.pc = "loop", ServeRequest(i)
    PROVE  LeaveOK'
  <1>. DEFINE s == Served(i)
              n == NoWaiters(slot)
  <1>1. /\ slot[i].id \in Client /\ slot \in [Slot -> Conn] /\ cl \in [Client -> Remote]
        /\ slot[i].hdr \in {"none", "connect", "start"}
        /\ s \in Conn /\ s.id = slot[i].id /\ s.live = slot[i].live /\ s.in = NoMsg /\ s.waiting = FALSE
        /\ n \in [Slot -> Conn] /\ \A j \in Slot : Alike(n[j], slot[j])
    BY ServedDoes, Typed DEF CohInv, Conn
  <1>2. \A j \in Slot : /\ n[j].waiting = FALSE /\ n[j].id = slot[j].id
                        /\ n[j].live = slot[j].live /\ n[j].in = slot[j].in
    <2>1. \A j \in Slot : n[j] = [slot[j] EXCEPT !.waiting = FALSE]
      BY DEF NoWaiters
    <2>. QED
      BY <1>1, <2>1 DEF Alike, Conn
  <1>. HIDE DEF s, n
  <1>3. \A j \in Slot : slot[j].waiting => ioactive \in Client \ {slot[j].id}
    BY DEF LeaveOK, LeaveAt, SrvAt
  \* A request that does not give the device away or take it.
  <1>4. ASSUME NEW a \in Answer, Reply(slot, i, s, a), UNCHANGED <<ioactive, srv>>,
               ioactive # slot[i].id => reserved' = reserved,
               \A c \in Client : cl'[c].pc = cl[c].pc /\ cl'[c].ask = cl[c].ask,
               slot[i].live /\ ioactive = slot[i].id
                  => reserved' \/ (cl[slot[i].id].pc # "idle" /\ cl[slot[i].id].ask.cmd # "end")
        PROVE  LeaveOK'
    BY <1>1, <1>2, <1>3, <1>4, ReplyLeaves
  <1>5. CASE ServeConnect(i) /\ slot[i].hdr = "connect"
    <2>1. slot[i].live => ioactive # slot[i].id
      BY <1>5 DEF CohInv, ConnOK, LinkOK
    <2>. QED
      BY <1>4, <1>5, <2>1, AnsweredOK DEF ServeConnect, s
  <1>6. CASE ServeStart(i) /\ (slot[i].in.cmd = "start" \/ slot[i].hdr = "start")
    BY <1>1, <1>6, StartLeaves DEF ServeStart
  <1>7. CASE ReceiveError(i)
    <2>1. \A j \in Slot : /\ slot'[j].id = slot[j].id /\ slot'[j].live = slot[j].live
                          /\ slot'[j].in = slot[j].in /\ slot'[j].waiting = slot[j].waiting
      BY <1>1, <1>7 DEF ReceiveError, Conn
    <2>. QED
      BY <1>7, <2>1, UnseenLeaves DEF ReceiveError
  <1>8. CASE ServeDisconnect(i) /\ slot[i].in.cmd = "disconnect"
    <2>1. ioactive # slot[i].id
      BY <1>8 DEF LeaveOK, LeaveAt
    <2>. DEFINE d == [s EXCEPT !.disconnect = TRUE]
    <2>2. /\ d \in Conn /\ d.id = slot[i].id /\ d.live = slot[i].live /\ d.in = NoMsg
          /\ d.waiting = FALSE
      BY <1>1 DEF Conn
    <2>3. Reply(slot, i, d, OK) /\ UNCHANGED <<ioactive, reserved, srv, cl>>
      BY <1>8, <2>1 DEF ServeDisconnect, s
    <2>. HIDE DEF d
    <2>. QED
      BY <1>1, <1>2, <1>3, <2>1, <2>2, <2>3, AnsweredOK, ReplyLeaves
  <1>9. CASE ServeInactive(i) /\ ioactive # slot[i].id
    BY <1>4, <1>9, AnsweredOK DEF ServeInactive, s
  <1>10. CASE ServeEnd(i) /\ ioactive = slot[i].id
    <2>1. CASE reserved
      BY <1>4, <1>10, <2>1, AnsweredOK DEF ServeEnd, s
    <2>2. CASE ~reserved
      <3>1. Reply(n, i, s, OK) /\ ioactive' \in {None, Local} /\ UNCHANGED <<reserved, srv, cl>>
        BY <1>10, <2>2 DEF ServeEnd, FreeDevice, s, n
      <3>2. ioactive' # slot[i].id
        BY <1>1, <3>1, Constants
      <3>. QED
        BY <1>1, <1>2, <3>1, <3>2, AnsweredOK, ReplyLeaves
    <2>. QED
      BY <2>1, <2>2
  <1>11. ASSUME slot[i].in.cmd \in {"reserve", "release", "read", "write"}, slot[i].live
         PROVE  cl[slot[i].id].pc # "idle" /\ cl[slot[i].id].ask.cmd # "end"
    BY <1>11, AskedIs, Constants
  <1>12. CASE ServeReserve(i) /\ ioactive = slot[i].id /\ slot[i].in.cmd \in {"reserve", "release"}
    BY <1>4, <1>11, <1>12, AnsweredOK DEF ServeReserve, s
  <1>13. CASE ServeRead(i) /\ slot[i].in.cmd = "read"
    <2>1. \A c \in Client : cl'[c].pc = cl[c].pc /\ cl'[c].ask = cl[c].ask
      BY <1>1, <1>13 DEF ServeRead, Remote
    <2>. QED
      BY <1>4, <1>11, <1>13, <2>1, AnsweredOK DEF ServeRead, s
  <1>14. CASE ServeWrite(i) /\ slot[i].in.cmd = "write"
    <2>1. \A c \in Client : cl'[c].pc = cl[c].pc /\ cl'[c].ask = cl[c].ask
      BY <1>1, <1>14 DEF ServeWrite, Outdate, Remote
    <2>. DEFINE sl == Notify(slot, slot[i].id, slot[i].in.trk)
    <2>2. Reply(sl, i, s, OK) /\ UNCHANGED <<ioactive, reserved, srv>>
      BY <1>14 DEF ServeWrite, s
    <2>3. slot[i].in.trk \in Track
      BY <1>14 DEF CohInv, SlotOK
    <2>4. ASSUME NEW j \in Slot
          PROVE  /\ sl[j].id = slot[j].id /\ sl[j].live = slot[j].live
                 /\ sl[j].in = slot[j].in /\ sl[j].waiting = slot[j].waiting
      BY <1>1, <2>3, NotifyDoes DEF CohInv
    <2>5. sl \in [Slot -> Conn]
      BY <1>1, <2>3, NotifyDoes DEF CohInv
    <2>. HIDE DEF sl
    <2>. QED
      BY <1>1, <1>3, <1>11, <1>14, <2>1, <2>2, <2>4, <2>5, AnsweredOK, ReplyLeaves
  <1>. QED
    BY <1>1, <1>5, <1>6, <1>7, <1>8, <1>9, <1>10, <1>12, <1>13, <1>14 DEF ServeRequest

LEMMA ServerLeaves ==
    ASSUME CohInv, LeaveOK, ServerStep \/ (\E i \in Slot : TimeOut(i)) PROVE LeaveOK'
  <1>1. CASE ServerAwake
    <2>1. /\ srv.pc = "awake" /\ srv.ix \in Slot /\ Start(srv.ix) /\ UNCHANGED <<reserved, cl>>
      BY <1>1 DEF ServerAwake, CohInv, TypeOK
    <2>2. SrvAt(srv.ix)
      BY <2>1 DEF SrvAt
    <2>3. slot[srv.ix].id \in Client
      BY <2>1, <2>2, Typed DEF CohInv, SlotOK, Conn
    <2>. QED
      BY <2>1, <2>2, <2>3, StartLeaves
  <1>2. CASE Select
    <2>1. slot \in [Slot -> Conn]
      BY Typed DEF CohInv
    <2>2. \A j \in Slot : /\ slot'[j].id = slot[j].id /\ slot'[j].live = slot[j].live
                          /\ slot'[j].in = slot[j].in /\ slot'[j].waiting = slot[j].waiting
      BY <1>2, <2>1 DEF Select, Conn
    <2>3. UNCHANGED <<ioactive, reserved, srv, resp, cl>>
      BY <1>2 DEF Select
    <2>. QED
      BY <2>2, <2>3, UnseenLeaves
  <1>3. ASSUME NEW i \in Slot, Serve(i) PROVE LeaveOK'
    BY <1>3, RequestLeaves DEF Serve, Ready
  <1>4. ASSUME NEW i \in Slot, Disconnect(i) \/ TimeOut(i) PROVE LeaveOK'
    BY <1>4, RemoveLeaves DEF Disconnect, TimeOut, Doomed
  <1>. QED
    BY <1>1, <1>2, <1>3, <1>4 DEF ServerStep

LEMMA LocalLeaves == ASSUME CohInv, LeaveOK, LocalStart \/ LocalStep PROVE LeaveOK'
  \* The device passes between the server's guest and nobody.
  <1>1. ASSUME UNCHANGED <<slot, cl, resp>>, ioactive \notin Client, ioactive' \notin Client,
               \A j \in Slot : SrvAt(j) => SrvAt(j)'
        PROVE  LeaveOK'
    <2>1. ASSUME NEW j \in Slot PROVE LeaveAt(j)'
      <3>1. slot'[j].waiting => SrvAt(j)'
        BY <1>1, NoneWaits
      <3>2. Answering(slot[j].id, "end")' => Answering(slot[j].id, "end")
        BY <1>1 DEF Answering
      <3>. QED
        BY <1>1, <3>1, <3>2, LeaveKept
    <2>. QED
      BY <2>1 DEF LeaveOK
  <1>2. ASSUME LocalEnter \/ GetDevice, UNCHANGED <<slot, srv, cl, resp>>, UNCHANGED reserved \/ LocalEnter
        PROVE  LeaveOK'
    <2>1. CASE ioactive \in {None, Local}
      <3>1. ioactive' = Local
        BY <1>2, <2>1 DEF LocalEnter, GetDevice
      <3>2. \A j \in Slot : SrvAt(j) => SrvAt(j)'
        BY <1>2 DEF SrvAt
      <3>. QED
        BY <1>1, <1>2, <2>1, <3>1, <3>2, Constants
    <2>2. CASE ioactive \notin {None, Local}
      <3>1. UNCHANGED <<ioactive, reserved>>
        BY <1>2, <2>2 DEF LocalEnter, GetDevice
      <3>. QED
        BY <1>2, <3>1, UnseenLeaves
    <2>. QED
      BY <2>1, <2>2
  <1>3. ASSUME loc = "run", LeaveDevice, UNCHANGED <<reserved, slot, cl, resp>> PROVE LeaveOK'
    <2>1. ioactive = Local
      BY <1>3 DEF CohInv, HolderOK
    <2>2. CASE reserved
      BY <1>3, <2>2, UnseenLeaves DEF LeaveDevice
    <2>3. CASE ~reserved
      <3>1. ioactive' = None /\ WakeServer
        BY <1>3, <2>3 DEF LeaveDevice
      <3>2. \A j \in Slot : SrvAt(j) => SrvAt(j)'
        BY <3>1 DEF WakeServer, SrvAt, CohInv, TypeOK
      <3>. QED
        BY <1>1, <1>3, <2>1, <3>1, <3>2, Constants
    <2>. QED
      BY <2>2, <2>3
  <1>4. CASE LocalStart \/ LocalAwake
    BY <1>2, <1>4 DEF LocalStart, LocalAwake
  <1>5. CASE LocalResume
    BY <1>2, <1>5 DEF LocalResume
  <1>6. CASE LocalSuspend \/ LocalEnd
    BY <1>3, <1>6 DEF LocalSuspend, LocalEnd
  <1>7. ASSUME NEW t \in Track, LocalUpdate(t) PROVE LeaveOK'
    <2>1. slot' = Notify(slot, Local, t) /\ cl' = Outdate(Local, t)
          /\ UNCHANGED <<ioactive, reserved, srv, resp>>
      BY <1>7 DEF LocalUpdate
    <2>2. cl \in [Client -> Remote]
      BY Typed DEF CohInv
    <2>3. \A c \in Client : cl'[c].pc = cl[c].pc /\ cl'[c].ask = cl[c].ask
      BY <2>1, <2>2 DEF Outdate, Remote
    <2>4. \A j \in Slot : /\ slot'[j].id = slot[j].id /\ slot'[j].live = slot[j].live
                          /\ slot'[j].in = slot[j].in /\ slot'[j].waiting = slot[j].waiting
      BY <2>1, NotifyDoes, ZenonT(60) DEF CohInv
    <2>. QED
      BY <2>1, <2>3, <2>4, UnseenLeaves
  <1>. QED
    BY <1>4, <1>5, <1>6, <1>7 DEF LocalStep

\* A client that steps ends no program and leaves, unless the server has not
\* left the device to it.
LEMMA StepLeaves ==
    ASSUME CohInv, LeaveOK, NEW c \in Client, Stepped(c), UNCHANGED <<ioactive, reserved, srv>>,
           resp' = [resp EXCEPT ![c] = NoAnswer],
           Up(c) /\ cl'[c].pc = "idle" => Answering(c, "end"),
           Up(c) /\ cl'[c].ask.cmd = "disconnect" => ioactive # c
    PROVE  LeaveOK'
  <1>1. PICK r \in Remote : Good(c, r) /\ Moves(c, r)
    BY DEF Stepped
  <1>2. /\ slot \in [Slot -> Conn] /\ cl \in [Client -> Remote]
        /\ resp \in [Client -> Answer \cup {NoAnswer}]
    BY Typed DEF CohInv
  <1>3. /\ cl'[c] = r /\ \A d \in Client \ {c} : cl'[d] = cl[d]
        /\ resp'[c] = NoAnswer /\ \A d \in Client \ {c} : resp'[d] = resp[d]
    BY <1>1, <1>2 DEF Moves
  <1>4. ASSUME NEW j \in Slot
        PROVE  /\ slot'[j].id = slot[j].id /\ slot'[j].live = slot[j].live
               /\ slot'[j].waiting = slot[j].waiting
               /\ slot[j].id # c => slot'[j] = slot[j]
               /\ slot'[j].in = slot[j].in \/ (Up(c) /\ slot'[j].in = r.ask)
    <2>1. CASE Up(c) /\ r.pc = "sent"
      <3>1. slot' = [i \in Slot |-> IF slot[i].id = c THEN [slot[i] EXCEPT !.in = r.ask] ELSE slot[i]]
        BY <1>1, <2>1 DEF Moves
      <3>2. slot'[j] = IF slot[j].id = c THEN [slot[j] EXCEPT !.in = r.ask] ELSE slot[j]
        BY <3>1
      <3>. HIDE DEF Request, NoMsg
      <3>. QED
        BY <1>2, <2>1, <3>2 DEF Conn
    <2>2. CASE ~(Up(c) /\ r.pc = "sent")
      BY <1>1, <2>2 DEF Moves
    <2>. QED
      BY <2>1, <2>2
  <1>5. ASSUME NEW j \in Slot, slot[j].id # c PROVE LeaveAt(j)'
    <2>1. slot'[j] = slot[j] /\ (slot[j].id \in Client => cl'[slot[j].id] = cl[slot[j].id]
                                                         /\ resp'[slot[j].id] = resp[slot[j].id])
      BY <1>3, <1>4, <1>5
    <2>2. slot'[j].waiting /\ ~SrvAt(j)' => ioactive' \in Client \ {slot[j].id}
      BY <2>1 DEF LeaveOK, LeaveAt, SrvAt
    <2>3. slot[j].id \in Client => (Answering(slot[j].id, "end")' => Answering(slot[j].id, "end"))
      BY <2>1 DEF Answering
    <2>. QED
      BY <2>1, <2>2, <2>3, LeaveKept
  <1>6. ASSUME NEW j \in Slot, slot[j].id = c PROVE LeaveAt(j)'
    <2>1. slot'[j].waiting /\ ~SrvAt(j)' => ioactive' \in Client \ {c}
      BY <1>4, <1>6 DEF LeaveOK, LeaveAt, SrvAt
    <2>2. slot'[j].in.cmd = "disconnect" => ioactive' # c
      <3>1. CASE slot'[j].in = slot[j].in
        BY <1>6, <3>1 DEF LeaveOK, LeaveAt
      <3>2. CASE Up(c) /\ slot'[j].in = r.ask
        BY <1>3, <3>2
      <3>. QED
        BY <1>4, <3>1, <3>2
    <2>3. slot'[j].live => Up(c)
      BY <1>4, <1>6 DEF Up, SlotsOf
    <2>4. slot[j].live /\ ioactive = c /\ Answering(c, "end") => reserved
      BY <1>6 DEF LeaveOK, LeaveAt
    <2>5. ~Answering(slot[j].id, "end")'
      BY <1>3, <1>4, <1>6 DEF Answering
    <2>6. slot'[j].live /\ ioactive' = c /\ cl'[c].pc = "idle" => reserved'
      BY <1>4, <1>6, <2>3, <2>4
    <2>7. slot'[j].id = c
      BY <1>4, <1>6
    <2>. QED
      BY <2>1, <2>2, <2>5, <2>6, <2>7 DEF LeaveAt
  <1>. QED
    BY <1>5, <1>6 DEF LeaveOK

\* What a client does when it neither ends a program nor leaves.
Stays(c) == cl'[c].pc # "idle" /\ cl'[c].ask.cmd # "disconnect"

LEMMA TransmitStays ==
    ASSUME cl \in [Client -> Remote], NEW c \in Client, NEW r \in Remote, Transmit(c, r),
           r.ask.cmd # "disconnect"
    PROVE  Stays(c)
  <1>1. PICK p \in {"sent", "connect"} : cl' = [cl EXCEPT ![c] = [r EXCEPT !.pc = p]]
    BY DEF Transmit
  <1>. QED
    BY <1>1 DEF Stays, Remote

LEMMA AskStays ==
    ASSUME cl \in [Client -> Remote], NEW c \in Client, NEW r \in Remote, NEW m \in Request,
           m.cmd # "disconnect", Ask(c, r, m)
    PROVE  Stays(c)
  <1>. DEFINE q == [r EXCEPT !.ask = m, !.next = NoMsg]
  <1>1. q \in Remote /\ q.ask = m
    BY DEF Remote
  <1>2. Transmit(c, q)
    BY DEF Ask
  <1>. HIDE DEF q
  <1>. QED
    BY <1>1, <1>2, TransmitStays

LEMMA ReturnStays ==
    ASSUME cl \in [Client -> Remote], NEW c \in Client, NEW r \in Remote, NEW p \in {"run", "closed"},
           Return(c, r, p)
    PROVE  Stays(c)
  BY Constants DEF Return, Stays, Remote

LEMMA ProceedStays ==
    ASSUME cl \in [Client -> Remote], NEW c \in Client, NEW r \in Remote, NEW m \in Request,
           m.cmd \in {"read", "end"}, m.cmd = "read" => m.trk \in Track, Proceed(c, r, m)
    PROVE  Stays(c)
  <1>1. CASE m.cmd = "read"
    <2>. DEFINE q == [r EXCEPT !.cur = m.trk, !.dirty = m.upd, !.next = NoMsg]
                k == [r.cache EXCEPT ![m.trk] = "old"]
                g == [r EXCEPT !.cur = None, !.cache[m.trk] = "old"]
    <2>1. m.trk \in Track /\ m.upd \in BOOLEAN
      BY <1>1 DEF Request
    <2>2. q \in Remote
      BY <2>1 DEF Remote
    <2>3. g \in Remote
      <3>1. k \in [Track -> {"none", "good", "old"}] /\ g = [r EXCEPT !.cur = None, !.cache = k]
        BY <2>1 DEF Remote
      <3>. HIDE DEF k, g
      <3>. QED
        BY <3>1 DEF Remote
    <2>4. Return(c, q, "run") \/ Ask(c, g, m)
      BY <1>1 DEF Proceed, Read
    <2>. HIDE DEF q, g
    <2>. QED
      BY <1>1, <2>2, <2>3, <2>4, ReturnStays, AskStays
  <1>2. CASE m.cmd = "end"
    BY <1>2, AskStays DEF Proceed
  <1>. QED
    BY <1>1, <1>2

LEMMA WriteBackStays ==
    ASSUME cl \in [Client -> Remote], NEW c \in Client, NEW r \in Remote, NEW m \in Request,
           m.cmd \in {"read", "end"}, m.cmd = "read" => m.trk \in Track, r.dirty => r.cur # None,
           WriteBack(c, r, m)
    PROVE  Stays(c)
  <1>1. CASE r.dirty
    <2>. DEFINE w == [cmd |-> "write", trk |-> r.cur, upd |-> FALSE]
                q == [r EXCEPT !.ask = w, !.next = m]
    <2>1. w \in Request /\ w.cmd = "write"
      BY DEF Request, Command, Remote
    <2>. HIDE DEF w
    <2>2. q \in Remote /\ q.ask = w
      BY <2>1 DEF Remote
    <2>3. Transmit(c, q)
      BY <1>1 DEF WriteBack, w
    <2>. HIDE DEF q
    <2>. QED
      BY <2>1, <2>2, <2>3, TransmitStays
  <1>2. CASE ~r.dirty
    BY <1>2, ProceedStays DEF WriteBack
  <1>. QED
    BY <1>1, <1>2

\* Only the answer to END ends a program.
LEMMA AnswerStays ==
    ASSUME CohInv, NEW c \in Client, NEW a \in Answer, cl[c].pc = "sent", cl[c].ask.cmd # "end",
           Answered(c, cl[c], a)
    PROVE  Stays(c)
  <1>. DEFINE r == cl[c]
  <1>1. /\ cl \in [Client -> Remote] /\ r \in Remote /\ RecordOK(c, r) /\ r.ask \in Request
        /\ a.code \in {"ok", "error"} /\ a.purge \in SUBSET Track /\ Accesses[c] \in Nat
    BY Typed, ConstantsAssumption DEF CohInv, ClientOK, RecordOK, Answer
  <1>. HIDE DEF r
  <1>2. CASE r.ask.cmd = "start"
    <2>. DEFINE p == Purge(r, a.purge)
                q == [p EXCEPT !.left = Accesses[c], !.failed = FALSE]
    <2>1. Return(c, q, "run")
      BY <1>2 DEF Answered, r
    <2>2. p \in Remote
      BY <1>1, PurgeDoes
    <2>. HIDE DEF p
    <2>3. q \in Remote
      BY <1>1, <2>2 DEF Remote
    <2>. HIDE DEF q
    <2>. QED
      BY <1>1, <2>1, <2>3, ReturnStays
  <1>3. CASE r.ask.cmd = "read"
    <2>. DEFINE q == [r EXCEPT !.cur = r.ask.trk, !.dirty = r.ask.upd]
                g == [r EXCEPT !.failed = TRUE, !.cache[r.ask.trk] = "old"]
    <2>1. r.ask.trk \in Track /\ r.ask.upd \in BOOLEAN
      BY <1>1, <1>3 DEF RecordOK, Request
    <2>2. q \in Remote
      BY <1>1, <2>1 DEF Remote
    <2>3. g \in Remote
      BY <1>1, <2>1, ReadFailed
    <2>4. CASE a.code = "ok"
      <3>1. Return(c, q, "run")
        BY <1>3, <2>4 DEF Answered, r
      <3>. HIDE DEF q
      <3>. QED
        BY <1>1, <2>2, <3>1, ReturnStays
    <2>5. CASE a.code = "error"
      <3>1. Return(c, g, "run")
        BY <1>3, <2>5 DEF Answered, r
      <3>. HIDE DEF g
      <3>. QED
        BY <1>1, <2>3, <3>1, ReturnStays
    <2>. QED
      BY <1>1, <2>4, <2>5
  <1>4. CASE r.ask.cmd = "write"
    <2>. DEFINE p == Purge(r, Track)
                g == IF a.code = "ok" THEN r ELSE p
                w == [g EXCEPT !.dirty = FALSE]
    <2>1. Proceed(c, w, r.next)
      BY <1>4 DEF Answered, Written, r
    <2>2. p \in Remote
      BY <1>1, PurgeDoes
    <2>. HIDE DEF p
    <2>3. g \in Remote
      BY <1>1, <2>2
    <2>. HIDE DEF g
    <2>4. w \in Remote
      BY <2>3 DEF Remote
    <2>. HIDE DEF w
    <2>5. /\ r.next \in Request /\ r.next.cmd \in {"read", "end"}
          /\ r.next.cmd = "read" => r.next.trk \in Track
      BY <1>1, <1>4 DEF RecordOK
    <2>. QED
      BY <1>1, <2>1, <2>4, <2>5, ProceedStays
  <1>5. CASE r.ask.cmd \in {"reserve", "release"}
    <2>1. Return(c, r, "run")
      BY <1>5 DEF Answered, r
    <2>. QED
      BY <1>1, <2>1, ReturnStays
  <1>6. CASE r.ask.cmd = "disconnect"
    <2>1. Return(c, r, "closed")
      BY <1>6 DEF Answered, r
    <2>. QED
      BY <1>1, <2>1, ReturnStays
  <1>7. r.ask.cmd \in Command \ {"end"}
    BY <1>1, Constants DEF r
  <1>. QED
    BY <1>2, <1>3, <1>4, <1>5, <1>6, <1>7 DEF Command

LEMMA StayLeaves ==
    ASSUME CohInv, LeaveOK, NEW c \in Client, ClientStep(c), Stays(c) \/ ~Up(c) PROVE LeaveOK'
  BY StepLeaves DEF Stays, ClientStep

LEMMA ProgramStays ==
    ASSUME CohInv, NEW c \in Client, StartProgram(c) \/ Program(c) PROVE Stays(c)
  <1>. DEFINE r == cl[c]
  <1>1. /\ cl \in [Client -> Remote] /\ r \in Remote /\ RecordOK(c, r) /\ r.left \in Nat
    BY Typed DEF CohInv, ClientOK, Remote
  <1>. HIDE DEF r
  <1>2. CASE StartProgram(c)
    <2>1. Msg("start") \in Request /\ Msg("start").cmd = "start" /\ Ask(c, r, Msg("start"))
      BY <1>2, Messages DEF Command, StartProgram, r
    <2>. QED
      BY <1>1, <2>1, AskStays
  <1>3. CASE Reserve(c)
    <2>. DEFINE q == [r EXCEPT !.left = 0]
                m == Msg(IF Holds(c) THEN "release" ELSE "reserve")
    <2>1. m \in Request /\ m.cmd \in {"release", "reserve"}
      BY Messages DEF Command
    <2>2. q \in Remote
      BY <1>1 DEF Remote
    <2>3. Ask(c, q, m)
      BY <1>3 DEF Reserve, r
    <2>. HIDE DEF q, m
    <2>. QED
      BY <1>1, <2>1, <2>2, <2>3, AskStays
  <1>4. CASE EndProgram(c)
    <2>1. /\ Msg("end") \in Request /\ Msg("end").cmd = "end" /\ WriteBack(c, r, Msg("end"))
      BY <1>4, Messages DEF Command, EndProgram, r
    <2>. QED
      BY <1>1, <2>1, WriteBackStays DEF RecordOK
  <1>5. ASSUME NEW t \in Track, NEW u \in BOOLEAN, Access(c, t, u) PROVE Stays(c)
    <2>. DEFINE q == [r EXCEPT !.left = @ - 1]
                m == [cmd |-> "read", trk |-> t, upd |-> u]
    <2>1. m \in Request /\ m.cmd = "read" /\ m.trk \in Track
      BY DEF Request, Command
    <2>2. /\ r.pc = "run" /\ r.left > 0 /\ r.ask = NoMsg
          /\ IF q.cur = t
             THEN cl' = [cl EXCEPT ![c] = [q EXCEPT !.dirty = @ \/ u]] /\ slot' = slot
             ELSE WriteBack(c, q, m)
      BY <1>1, <1>5 DEF Access, RecordOK, r
    <2>3. q \in Remote /\ q.pc = "run" /\ q.ask = NoMsg /\ q.cur = r.cur /\ q.dirty = r.dirty
      BY <1>1, <2>2, SMTT(30) DEF Remote
    <2>. HIDE DEF q, m
    <2>4. CASE q.cur = t
      BY <1>1, <2>2, <2>3, <2>4, Constants DEF Stays, Remote
    <2>5. CASE q.cur # t
      BY <1>1, <2>1, <2>2, <2>3, <2>5, WriteBackStays DEF RecordOK
    <2>. QED
      BY <2>4, <2>5
  <1>. QED
    BY <1>2, <1>3, <1>4, <1>5 DEF Program

\* A client that is detached has left the device, since it has no reservation.
LEMMA CloseLeaves ==
    ASSUME ClosedReleased, CohInv, LeaveOK, NEW c \in Client, Close(c) PROVE LeaveOK'
  <1>1. ClientStep(c)
    BY ProgramSteps
  <1>2. cl \in [Client -> Remote] /\ cl[c].pc = "idle" /\ ~Holds(c)
    BY Typed DEF Close, ClosedReleased, CohInv
  <1>3. Up(c) => ioactive # c
    BY <1>2 DEF LeaveOK, LeaveAt, Up, SlotsOf, Holds
  <1>4. cl'[c].pc # "idle"
    <2>1. PICK p \in {"sent", "connect"}, q \in Remote : cl' = [cl EXCEPT ![c] = [q EXCEPT !.pc = p]]
      <3>. DEFINE r == Purge(cl[c], Track)
                  q == [r EXCEPT !.ask = Msg("disconnect"), !.next = NoMsg]
      <3>1. r \in Remote
        BY <1>2, PurgeDoes
      <3>. HIDE DEF r
      <3>2. q \in Remote
        BY <3>1, Messages DEF Command, Remote
      <3>3. Transmit(c, q)
        BY DEF Close, Ask, r
      <3>. HIDE DEF q
      <3>. QED
        BY <3>2, <3>3 DEF Transmit
    <2>. QED
      BY <1>2, <2>1 DEF Remote
  <1>. QED
    BY <1>1, <1>3, <1>4, StepLeaves DEF ClientStep

LEMMA HearLeaves == ASSUME CohInv, LeaveOK, NEW c \in Client, Hear(c) PROVE LeaveOK'
  <1>1. ClientStep(c)
    BY HearsAnswer
  <1>2. /\ cl \in [Client -> Remote] /\ cl[c].pc = "sent" /\ resp[c] # NoAnswer
        /\ resp[c] \in Answer /\ Answered(c, cl[c], resp[c])
    BY Typed DEF Hear, CohInv
  <1>3. CASE cl[c].ask.cmd # "end"
    <2>1. Stays(c)
      BY <1>2, <1>3, AnswerStays
    <2>. QED
      BY <1>1, <2>1, StayLeaves
  <1>4. CASE cl[c].ask.cmd = "end"
    <2>. DEFINE q == [cl[c] EXCEPT !.left = 0, !.failed = FALSE]
    <2>1. Return(c, q, "idle") /\ Answering(c, "end")
      BY <1>2, <1>4 DEF Answered, Answering
    <2>2. q \in Remote
      BY <1>2 DEF Remote
    <2>. HIDE DEF q
    <2>3. cl'[c].ask = NoMsg
      BY <1>2, <2>1, <2>2 DEF Return, Remote
    <2>. QED
      BY <1>1, <2>1, <2>3, Constants, StepLeaves DEF ClientStep
  <1>. QED
    BY <1>3, <1>4

LEMMA GreetLeaves == ASSUME CohInv, LeaveOK, NEW c \in Client, Greet(c) PROVE LeaveOK'
  <1>1. ClientStep(c)
    BY GreetSteps
  <1>2. CASE ~Up(c)
    BY <1>1, <1>2, StayLeaves
  <1>3. CASE Up(c)
    <2>1. cl \in [Client -> Remote] /\ cl[c].pc = "greet" /\ Transmit(c, cl[c])
      BY <1>3, Typed DEF Greet, CohInv
    <2>2. ioactive # c
      BY <1>3, <2>1 DEF CohInv, ConnOK, LinkOK, Up, SlotsOf
    <2>3. cl'[c].pc # "idle"
      BY <2>1 DEF Transmit, Remote
    <2>. QED
      BY <1>1, <2>2, <2>3, StepLeaves DEF ClientStep
  <1>. QED
    BY <1>2, <1>3

\* A new connection waits for nobody.
LEMMA ConnectLeaves == ASSUME CohInv, LeaveOK, NEW c \in Client, Connect(c) PROVE LeaveOK'
  <1>1. CASE Refused(c)
    BY <1>1, RefusedSteps, StayLeaves
  <1>2. CASE ~Refused(c)
    <2>. DEFINE free == {i \in Slot : slot[i].id = None}
                first == CHOOSE i \in free : \A j \in free : i <= j
                n == [FreeSlot EXCEPT !.id = c, !.live = TRUE, !.hdr = "connect",
                                      !.pending = TRUE, !.purge = Track]
    <2>1. /\ UNCHANGED <<ioactive, reserved, srv, resp>> /\ SlotsOf(c) = {}
          /\ cl' = [cl EXCEPT ![c].pc = "greet"] /\ slot' = [slot EXCEPT ![first] = n]
      BY <1>2 DEF Connect, Refused
    <2>2. PICK k : slot' = [slot EXCEPT ![k] = n]
      BY <2>1
    <2>3. n.id = c /\ n.in = NoMsg /\ n.waiting = FALSE
      BY DEF FreeSlot
    <2>. HIDE DEF n, free, first
    <2>4. cl \in [Client -> Remote] /\ slot \in [Slot -> Conn]
      BY Typed DEF CohInv
    <2>5. cl'[c].pc = "greet" /\ \A d \in Client \ {c} : cl'[d] = cl[d]
      BY <2>1, <2>4 DEF Remote
    <2>6. ASSUME NEW j \in Slot PROVE LeaveAt(j)'
      <3>1. CASE j = k
        <4>1. slot'[j] = n
          BY <2>2, <2>4, <3>1
        <4>2. ioactive # c
          BY <2>1 DEF CohInv, HolderOK, SlotsOf
        <4>. QED
          BY <2>1, <2>3, <4>1, <4>2, Constants DEF LeaveAt
      <3>2. CASE j # k
        <4>1. slot'[j] = slot[j] /\ slot[j].id # c
          BY <2>1, <2>2, <2>4, <3>2 DEF SlotsOf
        <4>2. slot[j].id \in Client => cl'[slot[j].id] = cl[slot[j].id]
          BY <2>5, <4>1
        <4>3. slot'[j].waiting /\ ~SrvAt(j)' => ioactive' \in Client \ {slot[j].id}
          BY <2>1, <4>1 DEF LeaveOK, LeaveAt, SrvAt
        <4>4. slot[j].id \in Client => (Answering(slot[j].id, "end")' => Answering(slot[j].id, "end"))
          BY <2>1, <4>1, <4>2 DEF Answering
        <4>. QED
          BY <2>1, <4>1, <4>2, <4>3, <4>4, LeaveKept
      <3>. QED
        BY <3>1, <3>2
    <2>. QED
      BY <2>6 DEF LeaveOK
  <1>. QED
    BY <1>1, <1>2

LEMMA LoseLeaves == ASSUME CohInv, LeaveOK, NEW c \in Client, Lose(c) PROVE LeaveOK'
  <1>1. UNCHANGED <<ioactive, reserved, srv, cl>> /\ resp' = [resp EXCEPT ![c] = NoAnswer]
    BY DEF Lose
  <1>2. ASSUME NEW j \in Slot
        PROVE  /\ slot'[j].id = slot[j].id /\ (slot'[j].live => slot[j].live)
               /\ slot'[j].waiting = slot[j].waiting /\ slot'[j].in \in {slot[j].in, NoMsg}
    <2>1. PICK kept \in BOOLEAN :
            slot' = [i \in Slot |-> IF slot[i].id = c
                                    THEN [slot[i] EXCEPT !.live = FALSE, !.in = IF kept THEN @ ELSE NoMsg]
                                    ELSE slot[i]]
      BY DEF Lose
    <2>. DEFINE m == IF kept THEN slot[j].in ELSE NoMsg
                g == [slot[j] EXCEPT !.live = FALSE, !.in = IF kept THEN @ ELSE NoMsg]
    <2>2. slot[j] \in Conn /\ slot'[j] = IF slot[j].id = c THEN g ELSE slot[j]
      BY <2>1, Typed DEF CohInv
    <2>3. g = [slot[j] EXCEPT !.live = FALSE, !.in = m] /\ m \in {slot[j].in, NoMsg}
      BY <2>2 DEF Conn
    <2>. HIDE DEF m, g, NoMsg, Request
    <2>. QED
      BY <2>2, <2>3 DEF Conn
  <1>3. ASSUME NEW j \in Slot PROVE LeaveAt(j)'
    <2>1. slot'[j].waiting /\ ~SrvAt(j)' => ioactive' \in Client \ {slot[j].id}
      BY <1>1, <1>2 DEF LeaveOK, LeaveAt, SrvAt
    <2>2. slot[j].id \in Client => (Answering(slot[j].id, "end")' => Answering(slot[j].id, "end"))
      BY <1>1, <1>2, Typed DEF Answering, CohInv
    <2>. QED
      BY <1>1, <1>2, <2>1, <2>2, LeaveKept
  <1>. QED
    BY <1>3 DEF LeaveOK

LEMMA LeaveNext == ClosedReleased /\ CohInv /\ LeaveOK /\ [Next]_vars => LeaveOK'
  <1>1. ASSUME ClosedReleased, CohInv, LeaveOK, Next PROVE LeaveOK'
    <2>1. CASE LocalStart \/ LocalStep
      BY <1>1, <2>1, LocalLeaves
    <2>2. CASE ServerStep \/ \E i \in Slot : TimeOut(i)
      BY <1>1, <2>2, ServerLeaves
    <2>3. ASSUME NEW c \in Client, StartProgram(c) \/ Program(c) PROVE LeaveOK'
      BY <1>1, <2>3, ProgramSteps, ProgramStays, StayLeaves
    <2>4. ASSUME NEW c \in Client, ReceiveFails(c) \/ Unreachable(c) PROVE LeaveOK'
      <3>1. ~Up(c)
        BY <1>1, <2>4 DEF ReceiveFails, Unreachable, Up, SlotsOf, CohInv, ConnOK, LinkOK
      <3>. QED
        BY <1>1, <2>4, <3>1, ReceiveFailsSteps, UnreachableSteps, StayLeaves
    <2>5. ASSUME NEW c \in Client, Hear(c) \/ Greet(c) \/ Connect(c) \/ Lose(c) \/ Close(c) PROVE LeaveOK'
      BY <1>1, <2>5, HearLeaves, GreetLeaves, ConnectLeaves, LoseLeaves, CloseLeaves
    <2>. QED
      BY <1>1, <2>1, <2>2, <2>3, <2>4, <2>5 DEF Next, Exchange
  <1>2. CASE UNCHANGED vars
    BY <1>2 DEF vars, LeaveOK, LeaveAt, SrvAt, Answering
  <1>. QED
    BY <1>1, <1>2

\* A connection that waits has a client to wait for, one that is connected and
\* whose END or disconnection will end the wait, if no client is detached while
\* it holds a reservation: NoWaiters of END and serverDisconnect miss nobody,
\* and the device passes from hand to hand without leaving a waiter behind.
THEOREM WaitHasEnd == ASSUME ClosedReleased PROVE Spec => []WaitersHaveHolder
  <1>1. ASSUME CohInv, LeaveOK PROVE WaitersHaveHolder
    <2>. SUFFICES ASSUME NEW i \in Slot, slot[i].waiting, ~SrvAt(i)
                  PROVE  ioactive \in Client \ {slot[i].id} /\ SlotsOf(ioactive) # {}
      BY DEF WaitersHaveHolder, SrvAt
    <2>1. ioactive \in Client \ {slot[i].id}
      BY <1>1 DEF LeaveOK, LeaveAt
    <2>. QED
      BY <1>1, <2>1 DEF CohInv, HolderOK, SlotsOf
  <1>2. CohInv /\ LeaveOK /\ [Next]_vars => LeaveOK'
    BY LeaveNext
  <1>. QED
    BY <1>1, <1>2, LeaveInit, CohAlways, PTL DEF Spec
=============================================================================
