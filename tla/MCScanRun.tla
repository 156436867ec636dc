------------------------------ MODULE MCScanRun -----------------------------
(* Two tasks, alone or in a chain, that fit the byte budget or do not; graphs to refuse; and chains of
   three, blocked from the end, in both orders of their ids. *)
EXTENDS ScanRun, Sequences

CONSTANTS Other, c1, c2, f, g

AllWorkers == Task \cup {Other}
OneEach == [w \in AllWorkers |-> IF w = 2 THEN 2 ELSE 1]

AllSame == {[p \in Project |-> c1]}
Files == [c \in {c1, c2} |-> IF c = c1 THEN {f} ELSE {f, g}]

Old == {<<1, c1>>}

\* The third task fits no budget, so it is blocked at once.
Pair(d, y) == [deps |-> d \o <<{}>>, bytes |-> y \o <<MaxBytes + 1>>]
Chain(d, y) == [deps |-> d, bytes |-> y]
Graphs == {Pair(<<{}, {}>>, <<1, 1>>), Pair(<<{}, {}>>, <<2, 1>>), Pair(<<{2}, {}>>, <<1, 1>>),
           Pair(<<{2}, {}>>, <<1, 3>>), Pair(<<{2}, {1}>>, <<1, 1>>), Pair(<<{Unknown}, {}>>, <<1, 1>>),
           Chain(<<{}, {1}, {2}>>, <<3, 1, 1>>), Chain(<<{}, {3}, {1}>>, <<3, 1, 1>>)}
=============================================================================
