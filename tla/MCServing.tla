----------------------------- MODULE MCServing -----------------------------
(* Instances of Serving for TLC. *)
EXTENDS Serving

CONSTANTS q1, q2, s1, s2

\* Two servers and one query; one link breaks or one connect fails.
FanOut(a) == [api |-> a, queries |-> {q1}, servers |-> {s1, s2}, topK |-> 0, faults |-> 1, connected |-> TRUE]

\* One of two servers is asked.
Closest == [FanOut("ann") EXCEPT !.topK = 1]

\* Two queries, of which the server refuses the second, over one connection.
TwoQueries == [api |-> "wrapper", queries |-> {q1, q2}, servers |-> {s1}, topK |-> 0, faults |-> 0, connected |-> TRUE]

\* One query, with the connections still to be made.
Reconnecting(a) == [api |-> a, queries |-> {q1}, servers |-> {s1}, topK |-> 0, faults |-> 1, connected |-> FALSE]

AllSettings == {FanOut("ann"), Closest, TwoQueries, Reconnecting("wrapper"), Reconnecting("ann")}
=============================================================================
