----------------------------- MODULE TrackStore -----------------------------
(***************************************************************************)
(* What the track cache promises the channel programs: one copy of every   *)
(* track.  A program that turns to a track sees its latest contents, an    *)
(* update is seen from then on, and the file receives the latest contents  *)
(* at some time.  There are no entries, flags, threads or locks here.      *)
(***************************************************************************)
EXTENDS Naturals

CONSTANTS Device, Key, NoKey

VARIABLES
  store,  \* store[k]: the latest contents of track k, as a version
  disk,   \* disk[k]: the contents in the file
  seen    \* seen[d]: the track the program of d is on, and the image it sees

storeVars == <<store, disk, seen>>

Image(k) == [of |-> k, ver |-> store[k]]
Nothing == [of |-> NoKey, image |-> [of |-> NoKey, ver |-> 0]]

Init ==
  /\ store = [k \in Key |-> 0] /\ disk = store
  /\ seen = [d \in Device |-> Nothing]

\* A program turns to a track, or goes on with the one it had
Look(d, k) ==
  /\ k[1] = d
  /\ seen' = [seen EXCEPT ![d] = [of |-> k, image |-> Image(k)]]
  /\ UNCHANGED <<store, disk>>

\* A program gives up its track: it ends, or waits for another one
Leave(d) == seen' = [seen EXCEPT ![d] = Nothing] /\ UNCHANGED <<store, disk>>

Update(d) ==
  LET k == seen[d].of
  IN  /\ k # NoKey
      /\ store' = [store EXCEPT ![k] = @ + 1]
      /\ seen' = [seen EXCEPT ![d].image.ver = store[k] + 1]
      /\ UNCHANGED disk

WriteBack(k) == disk' = [disk EXCEPT ![k] = store[k]] /\ UNCHANGED <<store, seen>>

Next ==
  \/ \E d \in Device : Leave(d) \/ Update(d) \/ \E k \in Key : Look(d, k)
  \/ \E k \in Key : WriteBack(k)

Spec == Init /\ [][Next]_storeVars
=============================================================================
