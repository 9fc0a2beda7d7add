------------------------------ MODULE StartQueue ------------------------------
(* What the request queue promises: pending start functions are served by    *)
(* priority, first come first served among equals, and as long as there are  *)
(* any, another one is served.  DeviceThreads implements it.                 *)
EXTENDS Naturals, Sequences

CONSTANTS Dev, Priority

VARIABLE requests       \* per priority, the devices in order of arrival

Priorities == {Priority[d] : d \in Dev}
Pending(d) == \E i \in 1 .. Len(requests[Priority[d]]) : requests[Priority[d]][i] = d

Init == requests = [p \in Priorities |-> << >>]

Request(d) ==
    /\ ~Pending(d)
    /\ requests' = [requests EXCEPT ![Priority[d]] = Append(@, d)]

Serve(d) ==
    /\ Pending(d) /\ Head(requests[Priority[d]]) = d
    /\ \A p \in Priorities : p < Priority[d] => requests[p] = << >>
    /\ requests' = [requests EXCEPT ![Priority[d]] = Tail(@)]

Withdraw(d) ==
    /\ Pending(d)
    /\ requests' = [requests EXCEPT ![Priority[d]] = SelectSeq(@, LAMBDA e : e # d)]

Next == \E d \in Dev : Request(d) \/ Serve(d) \/ Withdraw(d)

Spec == /\ Init /\ [][Next]_requests
        /\ WF_requests(\E d \in Dev : Serve(d))
=============================================================================
