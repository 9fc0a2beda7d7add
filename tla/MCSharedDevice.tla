--------------------------- MODULE MCSharedDevice ---------------------------
EXTENDS SharedDevice

CONSTANTS c1, c2, t1, t2

\* The first client updates both tracks, the server's guest and the second
\* client share one of them.
MCUsed == [c \in {c1, c2} |-> IF c = c1 THEN {t1, t2} ELSE {t1}]
MCUpdated == [x \in {c1, c2, Local} |-> IF x = c1 THEN {t1, t2} ELSE IF x = Local THEN {t1} ELSE {}]
MCAccesses == [c \in {c1, c2} |-> IF c = c1 THEN 2 ELSE 1]
MCAt == [c \in {c1, c2} |-> IF c = c1 THEN 1 ELSE 2]
MCOps == {<<"lose", c1>>, <<"reserve", c2>>, <<"close", c2>>, <<"timeout", c2>>, <<"suspend", Local>>, <<"reserve", Local>>}
=============================================================================
