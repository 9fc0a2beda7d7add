---------------------------- MODULE SharedDevice ----------------------------
(***************************************************************************)
(* A DASD device served to other emulators: shared.c.  The server side is  *)
(* one thread per shared device that takes the requests of the connected   *)
(* clients in slot order, and the device threads of the server's own       *)
(* guest; dev->ioactive names the system whose channel program has the     *)
(* device.  The client side is the device handler of a remote device: it   *)
(* keeps track images in its cache between channel programs, and the       *)
(* server tells it at START which of them other systems have updated.      *)
(*                                                                         *)
(* A step of the server is one pass of the loop of serverConnect, a step   *)
(* of a client one send, receive or connect.  What a client holds of a     *)
(* track is "good" while it is the image the server has (with the client's *)
(* own updates), else "old".  A client's identifier is the client: it is   *)
(* kept over reconnections.  QUERY, COMPRESS, SENSE and NOWAIT, errors of  *)
(* the device below the server and resets of the device are left out.      *)
(***************************************************************************)
EXTENDS Integers, FiniteSets

CONSTANTS
  Client,     \* remote systems
  Track,
  NSlots,     \* SHARED_MAX_SYS, connections of a device
  At,         \* At[c]: the slot of a client when the model starts
  MaxPurge,   \* SHARED_PURGE_MAX, entries of a purge list
  Accesses,   \* Accesses[c]: track accesses of a channel program at most (a model bound)
  MaxFaults,  \* lost and timed out connections (a model bound)
  Used,       \* Used[x]: the tracks that the programs of a system read,
  Updated,    \* and those they update (model bounds)
  Ops,        \* <<op, x>>: what may happen to system x besides channel programs
  None, Local

ASSUME ConstantsAssumption ==
  /\ NSlots \in Nat \ {0} /\ MaxPurge \in Nat
  /\ Accesses \in [Client -> Nat] /\ MaxFaults \in Nat
  /\ IsFiniteSet(Client) /\ IsFiniteSet(Track)
  /\ At \in [Client -> 1 .. NSlots] /\ \A c, d \in Client : At[c] = At[d] => c = d
  /\ Used \in [Client -> SUBSET Track] /\ Updated \in [Client \cup {Local} -> SUBSET Track]
  /\ Ops \subseteq {"reserve", "suspend", "close", "lose", "timeout", "keep"} \X (Client \cup {Local})
  /\ None # Local /\ None \notin Client \cup Track /\ Local \notin Client

VARIABLES
  ioactive,  \* dev->ioactive: None, Local or the client
  reserved,  \* dev->reserved
  slot,      \* dev->shrd: the connections
  srv,       \* the shared device thread: [pc, ix]
  loc,       \* the channel program of the server's own guest
  cl,        \* the clients
  resp,      \* resp[c]: answer on its way to the client
  faults     \* faults so far

vars == <<ioactive, reserved, slot, srv, loc, cl, resp, faults>>

Slot == 1 .. NSlots
Command == {"start", "end", "reserve", "release", "read", "write", "disconnect"}
Request == [cmd : Command, trk : Track \cup {None}, upd : BOOLEAN]
Msg(c) == [cmd |-> c, trk |-> None, upd |-> FALSE]
NoMsg == [cmd |-> "none", trk |-> None, upd |-> FALSE]
Answer == [code : {"ok", "error"}, purge : SUBSET Track]
NoAnswer == [code |-> "none", purge |-> {}]

\* One connection; hdr is the request header saved in it ("none" when havehdr
\* is off), in the request in its socket, live whether its peer is still there.
\* A purge list that is full (purgen < 0) is the set of all tracks.
FreeSlot == [id |-> None, live |-> FALSE, in |-> NoMsg, hdr |-> "none", pending |-> FALSE,
             waiting |-> FALSE, disconnect |-> FALSE, purge |-> {}]

TypeOK ==
  /\ ioactive \in Client \cup {Local, None} /\ reserved \in BOOLEAN
  /\ slot \in [Slot -> [id : Client \cup {None}, live : BOOLEAN, in : Request \cup {NoMsg},
                        hdr : {"none", "connect", "start"}, pending : BOOLEAN,
                        waiting : BOOLEAN, disconnect : BOOLEAN, purge : SUBSET Track]]
  /\ srv \in [pc : {"loop", "wait", "awake"}, ix : Slot]
  /\ loc \in {"idle", "wait", "awake", "run", "susp"}
  /\ cl \in [Client -> [pc : {"idle", "run", "sent", "connect", "greet", "closed"},
                        ask : Request \cup {NoMsg}, next : Request \cup {NoMsg},
                        cur : Track \cup {None}, dirty : BOOLEAN,
                        left : Nat, failed : BOOLEAN,
                        cache : [Track -> {"none", "good", "old"}]]]
  /\ \A c \in Client : cl[c].dirty => cl[c].cur # None
  /\ resp \in [Client -> Answer \cup {NoAnswer}]
  /\ faults \in 0 .. MaxFaults

Holds(x) == reserved /\ ioactive = x
SlotsOf(c) == {i \in Slot : slot[i].id = c}
Up(c) == \E i \in SlotsOf(c) : slot[i].live
Fault(op, c) == /\ <<op, c>> \in Ops /\ faults < MaxFaults
                /\ faults' = faults + 1

\* The clients connected and idle: every track is to be purged.
Init ==
  /\ ioactive = None /\ reserved = FALSE /\ faults = 0
  /\ slot = [i \in Slot |-> IF \E c \in Client : At[c] = i
                            THEN [FreeSlot EXCEPT !.id = CHOOSE c \in Client : At[c] = i,
                                                  !.live = TRUE, !.purge = Track]
                            ELSE FreeSlot]
  /\ srv = [pc |-> "loop", ix |-> 1]
  /\ loc = "idle"
  /\ cl = [c \in Client |-> [pc |-> "idle", ask |-> NoMsg, next |-> NoMsg, 
                             cur |-> None, dirty |-> FALSE, left |-> 0, failed |-> FALSE,
                             cache |-> [t \in Track |-> "none"]]]
  /\ resp = [c \in Client |-> NoAnswer]

----------------------------------------------------------------------------
(* Updates: what every other system has cached of the track is old.        *)

\* A seeded defect: a full purge list takes no more tracks.
NotifyFull(sl, by, t) ==
  [i \in Slot |->
     IF sl[i].id \in {None, by} \/ Cardinality(sl[i].purge \cup {t}) > MaxPurge THEN sl[i]
     ELSE [sl[i] EXCEPT !.purge = @ \cup {t}]]

\* shared_update_notify: the track goes on the purge lists of the other connections.
Notify(sl, by, t) ==
  [i \in Slot |->
     IF sl[i].id \in {None, by} THEN sl[i]
     ELSE [sl[i] EXCEPT !.purge = IF Cardinality(@ \cup {t}) > MaxPurge THEN Track ELSE @ \cup {t}]]

Outdate(by, t) == [c \in Client |-> IF c = by \/ cl[c].cache[t] # "good" THEN cl[c]
                                    ELSE [cl[c] EXCEPT !.cache[t] = "old"]]

----------------------------------------------------------------------------
(* The server's guest.                                                     *)

\* A wait for iocond ends; one waiter is woken, and there is never more than one.
WakeLocal == loc' = IF loc = "wait" THEN "awake" ELSE loc
WakeServer == srv' = IF srv.pc = "wait" THEN [srv EXCEPT !.pc = "awake"] ELSE srv

\* The server's guest gets the device or waits for it.
GetDevice ==
  IF ioactive \in {None, Local} THEN ioactive' = Local /\ loc' = "run"
                                ELSE UNCHANGED ioactive /\ loc' = "wait"

\* A channel program begins by releasing a reservation of an earlier one, or
\* may begin by making one.
LocalEnter ==
  /\ GetDevice
  /\ IF ioactive \in {None, Local}
     THEN \/ reserved' = (reserved /\ ~Holds(Local))
          \/ ~Holds(Local) /\ <<"reserve", Local>> \in Ops /\ reserved' = TRUE
     ELSE UNCHANGED reserved

LocalStart == /\ loc = "idle"
              /\ LocalEnter
              /\ UNCHANGED <<slot, srv, cl, resp, faults>>

LocalAwake == /\ loc = "awake"
              /\ LocalEnter
              /\ UNCHANGED <<slot, srv, cl, resp, faults>>

LocalUpdate(t) == /\ loc = "run" /\ t \in Updated[Local]
                  /\ slot' = Notify(slot, Local, t)
                  /\ cl' = Outdate(Local, t)
                  /\ UNCHANGED <<ioactive, reserved, srv, loc, resp, faults>>

LeaveDevice == IF reserved THEN UNCHANGED <<ioactive, srv>>
               ELSE ioactive' = None /\ WakeServer

LocalSuspend == /\ <<"suspend", Local>> \in Ops /\ loc = "run"
                /\ reserved => <<"keep", Local>> \in Ops
                /\ LeaveDevice
                /\ loc' = "susp"
                /\ UNCHANGED <<reserved, slot, cl, resp, faults>>

LocalResume == /\ loc = "susp"
               /\ GetDevice
               /\ UNCHANGED <<reserved, slot, srv, cl, resp, faults>>

LocalEnd == /\ loc = "run"
            /\ LeaveDevice
            /\ loc' = "idle"
            /\ UNCHANGED <<reserved, slot, cl, resp, faults>>

----------------------------------------------------------------------------
(* The shared device thread.                                               *)

\* The device goes back to the server's guest if its program is suspended.
Suspended == loc = "susp"
FreeDevice == ioactive' = IF Suspended THEN Local ELSE None

\* serverSend: the answer goes to the client or, when it is gone, the
\* connection is marked; s is the slot after the request.
Reply(sl, i, s, a) ==
  IF s.live
  THEN /\ resp' = [resp EXCEPT ![s.id] = a]
       /\ slot' = [sl EXCEPT ![i] = s]
  ELSE /\ resp' = resp
       /\ slot' = [sl EXCEPT ![i] = [s EXCEPT !.disconnect = TRUE]]

OK == [code |-> "ok", purge |-> {}]
Error == [code |-> "error", purge |-> {}]
Served(i) == [slot[i] EXCEPT !.pending = FALSE, !.waiting = FALSE, !.in = NoMsg, !.hdr = "none"]
NoWaiters(sl) == [i \in Slot |-> [sl[i] EXCEPT !.waiting = FALSE]]

\* The START is granted: the client's purge list goes with the answer.
Grant(i) ==
  /\ ioactive' = slot[i].id
  /\ srv' = [pc |-> "loop", ix |-> 1]
  /\ Reply(slot, i, [Served(i) EXCEPT !.purge = {}],
           [code |-> "ok", purge |-> slot[i].purge])

\* The header is saved and the connection waits.
Defer(i) ==
  /\ slot' = [slot EXCEPT ![i].waiting = TRUE, ![i].in = NoMsg, ![i].hdr = "start"]
  /\ srv' = [pc |-> "loop", ix |-> 1]
  /\ UNCHANGED <<ioactive, resp>>

\* The device is busy with the server's guest: the thread waits for it.
WaitForLocal(i) ==
  /\ slot' = [slot EXCEPT ![i].waiting = TRUE, ![i].in = NoMsg, ![i].hdr = "none"]
  /\ srv' = [pc |-> "wait", ix |-> i]
  /\ UNCHANGED <<ioactive, resp>>

\* A START request, new or saved: the device may be free, with the server's
\* guest (which lends it while it is suspended) or with another client.
Start(i) ==
  CASE ioactive \in {None, slot[i].id} -> Grant(i)
    [] ioactive = Local /\ Suspended   -> Grant(i)
    [] ioactive = Local /\ ~Suspended  -> WaitForLocal(i)
    [] OTHER                           -> Defer(i)

ServeStart(i) == Start(i) /\ UNCHANGED <<reserved, loc, cl>>

ServerAwake == /\ srv.pc = "awake"
               /\ Start(srv.ix)
               /\ UNCHANGED <<reserved, loc, cl, faults>>

ServeConnect(i) == /\ Reply(slot, i, Served(i), OK)
                   /\ UNCHANGED <<ioactive, reserved, srv, loc, cl>>

ServeDisconnect(i) ==
  /\ Reply(slot, i, [Served(i) EXCEPT !.disconnect = TRUE], OK)
  /\ IF ioactive = slot[i].id THEN FreeDevice /\ WakeLocal ELSE UNCHANGED <<ioactive, loc>>
  /\ UNCHANGED <<reserved, srv, cl>>

\* Every other request must come from the system the device is active for.
ServeInactive(i) == /\ Reply(slot, i, Served(i), Error)
                    /\ UNCHANGED <<ioactive, reserved, srv, loc, cl>>

\* A seeded defect: the other connections stay waiting.
EndAlone(i) ==
  /\ IF reserved THEN Reply(slot, i, Served(i), OK) /\ UNCHANGED <<ioactive, loc>>
     ELSE Reply(slot, i, Served(i), OK) /\ FreeDevice /\ WakeLocal
  /\ UNCHANGED <<reserved, srv, cl>>

ServeEnd(i) ==
  /\ IF reserved THEN Reply(slot, i, Served(i), OK) /\ UNCHANGED <<ioactive, loc>>
     ELSE Reply(NoWaiters(slot), i, Served(i), OK) /\ FreeDevice /\ WakeLocal
  /\ UNCHANGED <<reserved, srv, cl>>

ServeReserve(i) == /\ reserved' = (slot[i].in.cmd = "reserve")
                   /\ Reply(slot, i, Served(i), OK)
                   /\ UNCHANGED <<ioactive, srv, loc, cl>>

\* The image sent is the one the device has now.
ServeRead(i) == /\ Reply(slot, i, Served(i), OK)
                /\ cl' = IF slot[i].live
                         THEN [cl EXCEPT ![slot[i].id].cache[slot[i].in.trk] = "good"] ELSE cl
                /\ UNCHANGED <<ioactive, reserved, srv, loc>>

ServeWrite(i) == /\ Reply(Notify(slot, slot[i].id, slot[i].in.trk), i, Served(i), OK)
                 /\ cl' = Outdate(slot[i].id, slot[i].in.trk)
                 /\ UNCHANGED <<ioactive, reserved, srv, loc>>

\* serverRequest, and the receive before it: nothing comes from a dead connection.
ReceiveError(i) == /\ slot' = [slot EXCEPT ![i].disconnect = TRUE, ![i].pending = FALSE]
                   /\ UNCHANGED <<ioactive, reserved, srv, loc, cl, resp>>

ServeRequest(i) ==
  LET cmd == slot[i].in.cmd IN
  CASE slot[i].hdr = "connect"            -> ServeConnect(i)
    [] slot[i].hdr = "start"              -> ServeStart(i)
    [] slot[i].hdr = "none" /\ cmd = "none" -> ReceiveError(i)
    [] cmd = "disconnect"                 -> ServeDisconnect(i)
    [] cmd = "start"                      -> ServeStart(i)
    [] OTHER ->
         IF ioactive # slot[i].id THEN ServeInactive(i)
         ELSE \/ cmd = "end" /\ ServeEnd(i)
              \/ cmd \in {"reserve", "release"} /\ ServeReserve(i)
              \/ cmd = "read" /\ ServeRead(i)
              \/ cmd = "write" /\ ServeWrite(i)

\* serverDisconnect: a client that has the device is extricated from it.
Remove(i) ==
  /\ IF ioactive = slot[i].id
     THEN /\ slot' = [NoWaiters(slot) EXCEPT ![i] = FreeSlot]
          /\ FreeDevice /\ WakeLocal
     ELSE /\ slot' = [slot EXCEPT ![i] = FreeSlot]
          /\ UNCHANGED <<ioactive, loc>>
  /\ UNCHANGED <<reserved, srv, cl, resp>>

\* One pass over the connections, in slot order, up to the first request.
Ready(i) == slot[i].id # None /\ slot[i].pending /\ ~slot[i].waiting
Doomed(i) == slot[i].id # None /\ slot[i].disconnect /\ ~Ready(i)
First(i) == \A j \in 1 .. i - 1 : ~Ready(j) /\ ~Doomed(j)

Serve(i) == srv.pc = "loop" /\ Ready(i) /\ First(i) /\ ServeRequest(i) /\ UNCHANGED faults
Disconnect(i) == srv.pc = "loop" /\ Doomed(i) /\ First(i) /\ Remove(i) /\ UNCHANGED faults

\* serverDisconnectable after SHARED_TIMEOUT seconds without a request
TimeOut(i) == /\ Fault("timeout", slot[i].id) /\ srv.pc = "loop" /\ First(i)
              /\ slot[i].id # None /\ ~slot[i].waiting /\ ~slot[i].pending
              /\ ioactive # slot[i].id
              /\ Remove(i)

\* select: the connections that can be read have a request, or have gone.
Readable(i) == /\ slot[i].id # None /\ ~slot[i].waiting /\ ~slot[i].pending
               /\ slot[i].in # NoMsg \/ ~slot[i].live
Select == /\ srv.pc = "loop"
          /\ \A i \in Slot : ~Ready(i) /\ ~Doomed(i)
          /\ \E i \in Slot : Readable(i)
          /\ slot' = [i \in Slot |-> IF Readable(i) THEN [slot[i] EXCEPT !.pending = TRUE]
                                     ELSE slot[i]]
          /\ UNCHANGED <<ioactive, reserved, srv, loc, cl, resp, faults>>

\* When every connection waits nothing is selected, and the thread goes round
\* with dev->lock held.
Spinning == /\ srv.pc = "loop"
            /\ \E i \in Slot : slot[i].id # None
            /\ \A i \in Slot : slot[i].id # None => slot[i].waiting /\ ~slot[i].disconnect

----------------------------------------------------------------------------
(* A client.  r is the client's record, with the request to send in r.ask. *)

\* clientSend: a send on a connection that has gone may fail, and then the
\* client connects again, or seem to succeed.
Transmit(c, r) ==
  IF Up(c)
  THEN /\ slot' = [i \in Slot |-> IF slot[i].id = c THEN [slot[i] EXCEPT !.in = r.ask] ELSE slot[i]]
       /\ cl' = [cl EXCEPT ![c] = [r EXCEPT !.pc = "sent"]]
  ELSE /\ \E p \in {"sent", "connect"} : cl' = [cl EXCEPT ![c] = [r EXCEPT !.pc = p]]
       /\ slot' = slot

Ask(c, r, m) == Transmit(c, [r EXCEPT !.ask = m, !.next = NoMsg])
Return(c, r, p) == /\ cl' = [cl EXCEPT ![c] = [r EXCEPT !.pc = p, !.ask = NoMsg]]
                   /\ slot' = slot

\* The rest of shared_ckd_read, after the previous track was written: the
\* entry of the track is found, or taken and the image asked for.
Read(c, r, m) ==
  IF r.cache[m.trk] # "none"
  THEN Return(c, [r EXCEPT !.cur = m.trk, !.dirty = m.upd, !.next = NoMsg], "run")
  ELSE Ask(c, [r EXCEPT !.cur = None, !.cache[m.trk] = "old"], m)

Proceed(c, r, m) == IF m.cmd = "read" THEN Read(c, r, m) ELSE Ask(c, r, m)

\* The current track is written first if it was updated.
WriteBack(c, r, m) ==
  IF r.dirty
  THEN Transmit(c, [r EXCEPT !.ask = [cmd |-> "write", trk |-> r.cur, upd |-> FALSE],
                             !.next = m])
  ELSE Proceed(c, r, m)

\* clientPurge of the tracks ts; the current track goes with its entry.
Purge(r, ts) ==
  [r EXCEPT !.cache = [t \in Track |-> IF t \in ts THEN "none" ELSE @[t]],
            !.cur = IF @ \in ts THEN None ELSE @]

\* A channel program begins.  It accesses tracks; or it makes a reservation, or
\* releases the one that an earlier program made, and accesses none.  (A program
\* may access tracks after its RESERVE, or under an earlier one.  That is left
\* out: nobody else is granted the device meanwhile, so it is an access by the
\* only system that has the device, as any other.)
StartProgram(c) == /\ cl[c].pc = "idle"
                   /\ Ask(c, cl[c], Msg("start"))
                   /\ UNCHANGED <<ioactive, reserved, srv, loc, resp, faults>>

Fresh(c) == cl[c].pc = "run" /\ ~cl[c].failed /\ cl[c].left = Accesses[c]

Reserve(c) == /\ <<"reserve", c>> \in Ops /\ Fresh(c)
              /\ Ask(c, [cl[c] EXCEPT !.left = 0],
                     Msg(IF Holds(c) THEN "release" ELSE "reserve"))
              /\ UNCHANGED <<ioactive, reserved, srv, loc, resp, faults>>

Access(c, t, u) ==
  LET r == [cl[c] EXCEPT !.left = @ - 1] IN
  /\ cl[c].pc = "run" /\ ~cl[c].failed /\ cl[c].left > 0
  /\ ~Holds(c) /\ t \in Used[c] /\ (u => t \in Updated[c])
  /\ IF r.cur = t
     THEN cl' = [cl EXCEPT ![c] = [r EXCEPT !.dirty = @ \/ u]] /\ slot' = slot
     ELSE WriteBack(c, r, [cmd |-> "read", trk |-> t, upd |-> u])
  /\ UNCHANGED <<ioactive, reserved, srv, loc, resp, faults>>

EndProgram(c) == /\ cl[c].pc = "run"
                 /\ Holds(c) => ~Fresh(c)
                 /\ WriteBack(c, cl[c], Msg("end"))
                 /\ UNCHANGED <<ioactive, reserved, srv, loc, resp, faults>>

\* shared_ckd_close: the device is detached, or the emulator ends.
Close(c) == /\ <<"close", c>> \in Ops /\ cl[c].pc = "idle"
            /\ Holds(c) => <<"keep", c>> \in Ops
            /\ Ask(c, Purge(cl[c], Track), Msg("disconnect"))
            /\ UNCHANGED <<ioactive, reserved, srv, loc, resp, faults>>

\* A seeded defect: bufupd stays on after a WRITE that failed.
WrittenDirty(r, a) == IF a.code = "ok" THEN [r EXCEPT !.dirty = FALSE] ELSE Purge(r, Track)

\* After a WRITE that failed nothing stays cached, and the program goes on.
Written(r, a) == [(IF a.code = "ok" THEN r ELSE Purge(r, Track)) EXCEPT !.dirty = FALSE]

\* The answer to the request. An error is taken for success except by a READ
\* or a WRITE.
Answered(c, r, a) ==
  CASE r.ask.cmd = "start" ->
         Return(c, [Purge(r, a.purge) EXCEPT !.left = Accesses[c], !.failed = FALSE], "run")
    [] r.ask.cmd = "read" /\ a.code = "ok" ->
         Return(c, [r EXCEPT !.cur = r.ask.trk, !.dirty = r.ask.upd], "run")
    [] r.ask.cmd = "read" /\ a.code = "error" ->
         Return(c, [r EXCEPT !.failed = TRUE, !.cache[r.ask.trk] = "old"], "run")
    [] r.ask.cmd = "write" -> Proceed(c, Written(r, a), r.next)
    [] r.ask.cmd = "end" -> Return(c, [r EXCEPT !.left = 0, !.failed = FALSE], "idle")
    [] r.ask.cmd \in {"reserve", "release"} -> Return(c, r, "run")
    [] r.ask.cmd = "disconnect" -> Return(c, r, "closed")

\* No answer could be got.
Failed(c, r) ==
  CASE r.ask.cmd = "start" ->
         Return(c, [Purge(r, Track) EXCEPT !.left = Accesses[c], !.failed = FALSE], "run")
    [] r.ask.cmd = "end" -> Answered(c, Purge(r, Track), Error)
    [] OTHER -> Answered(c, r, Error)

\* After its disconnect was answered the client closes the socket.
Hear(c) ==
  /\ cl[c].pc = "sent" /\ resp[c] # NoAnswer
  /\ Answered(c, cl[c], resp[c])
  /\ resp' = [resp EXCEPT ![c] = NoAnswer]
  /\ UNCHANGED <<ioactive, reserved, srv, loc, faults>>

\* The connection has gone before the answer came: the request is sent again,
\* ten times at most, on a new connection.
ReceiveFails(c) ==
  /\ cl[c].pc = "sent" /\ resp[c] = NoAnswer /\ ~Up(c)
  /\ \/ cl' = [cl EXCEPT ![c].pc = "connect"] /\ slot' = slot
     \/ Failed(c, cl[c])
  /\ UNCHANGED <<ioactive, reserved, srv, loc, resp, faults>>

\* clientConnect and serverConnect: a client that is still connected, for the
\* server, or for which there is no slot gets an error and its socket is
\* closed, which the client takes for a connection.
Connect(c) ==
  LET free == {i \in Slot : slot[i].id = None} IN
  /\ cl[c].pc = "connect"
  /\ IF SlotsOf(c) # {} \/ free = {}
     THEN cl' = [cl EXCEPT ![c].pc = "sent"] /\ slot' = slot
     ELSE /\ cl' = [cl EXCEPT ![c].pc = "greet"]
          /\ slot' = [slot EXCEPT ![CHOOSE i \in free : \A j \in free : i <= j] =
                        [FreeSlot EXCEPT !.id = c, !.live = TRUE, !.hdr = "connect",
                                         !.pending = TRUE, !.purge = Track]]
  /\ UNCHANGED <<ioactive, reserved, srv, loc, resp, faults>>

Unreachable(c) == /\ <<"lose", c>> \in Ops
                  /\ cl[c].pc = "connect"
                  /\ Failed(c, cl[c])
                  /\ UNCHANGED <<ioactive, reserved, srv, loc, resp, faults>>

\* The answer to CONNECT; without it the client tries again, or gives up
\* when it connects from a failed send.
Greet(c) ==
  /\ cl[c].pc = "greet"
  /\ IF resp[c] # NoAnswer
     THEN Transmit(c, cl[c]) /\ resp' = [resp EXCEPT ![c] = NoAnswer]
     ELSE /\ ~Up(c) /\ resp' = resp
          /\ \/ cl' = [cl EXCEPT ![c].pc = "connect"] /\ slot' = slot
             \/ Failed(c, cl[c])
  /\ UNCHANGED <<ioactive, reserved, srv, loc, faults>>

\* The connection is lost; a request in the server's socket may be lost too.
\* A reservation that goes with its client is not undone (see "keep").
Lose(c) ==
  /\ Fault("lose", c) /\ Up(c) /\ cl[c].pc # "closed"
  /\ Holds(c) \/ cl[c].ask.cmd = "reserve" => <<"keep", c>> \in Ops
  /\ \E kept \in BOOLEAN :
       slot' = [i \in Slot |-> IF slot[i].id = c
                               THEN [slot[i] EXCEPT !.live = FALSE, !.in = IF kept THEN @ ELSE NoMsg]
                               ELSE slot[i]]
  /\ resp' = [resp EXCEPT ![c] = NoAnswer]
  /\ UNCHANGED <<ioactive, reserved, srv, loc, cl>>

----------------------------------------------------------------------------
LocalStep == \/ LocalAwake \/ LocalSuspend \/ LocalResume \/ LocalEnd
             \/ \E t \in Track : LocalUpdate(t)
ServerStep == \/ ServerAwake \/ Select
              \/ \E i \in Slot : Serve(i) \/ Disconnect(i)
Exchange(c) == Hear(c) \/ ReceiveFails(c) \/ (~Spinning /\ Connect(c)) \/ Greet(c)
Program(c) == \/ Reserve(c) \/ EndProgram(c)
              \/ \E t \in Track, u \in BOOLEAN : Access(c, t, u)

Next == \/ ~Spinning /\ (LocalStart \/ LocalStep)
        \/ ServerStep
        \/ \E i \in Slot : TimeOut(i)
        \/ \E c \in Client : \/ StartProgram(c) \/ Program(c) \/ Exchange(c)
                             \/ Close(c) \/ Unreachable(c) \/ Lose(c)

Spec == Init /\ [][Next]_vars

----------------------------------------------------------------------------
(* Properties.                                                             *)

\* While the device is a client's, the track its channel program reads,
\* updates or writes back is not one that another system has updated since it
\* was cached: the purge lists, the wait for the device and the forgetting of
\* every track on a new connection keep the caches of the systems coherent.
InProgram(c) == cl[c].pc = "run" \/ (cl[c].pc # "idle" /\ cl[c].ask.cmd \in {"write", "end"})
Coherent == \A c \in Client : ioactive = c /\ InProgram(c) /\ cl[c].cur # None
                                => cl[c].cache[cl[c].cur] = "good"

\* A connection that waits waits for another client that is connected, so
\* that there is an END or a disconnection to come that lets it go on.
WaitersHaveHolder ==
  \A i \in Slot : slot[i].waiting /\ ~(srv.pc # "loop" /\ srv.ix = i)
     => ioactive \in Client \ {slot[i].id} /\ SlotsOf(ioactive) # {}
=============================================================================
