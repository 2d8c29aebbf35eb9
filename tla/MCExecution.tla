----------------------------- MODULE MCExecution -----------------------------
(* Small graphs, in which node n produces value n + 1.  Wide graphs have four nodes
   that read up to two values, or one value twice.  In the others there is a graph
   input, value 0, and node 0 of three has a second output, whose live range begins
   with that of the first. *)
EXTENDS Execution

Second == 9

Reads(S) == {<<>>} \cup {<<v>> : v \in S} \cup {s \in S \X S : s[1] < s[2]}
Twice(S) == {<<v, v>> : v \in S}

Four == [inputs : [0 .. 3 -> Reads(1 .. 3) \cup Twice(1 .. 3)],
         outputs : {[n \in 0 .. 3 |-> <<n + 1>>]}]

Wide == {g \in Four : \A n \in 0 .. 3 : g.inputs[n] \in Reads(1 .. n) \cup Twice(1 .. n)}

Three == [inputs : [0 .. 2 -> Reads((0 .. 2) \cup {Second})],
          outputs : {[n \in 0 .. 2 |-> IF n = 0 THEN <<1, Second>> ELSE <<n + 1>>]}]

TwoOutputs == {g \in Three : \A n \in 0 .. 2 :
                  g.inputs[n] \in Reads((0 .. n) \cup (IF n > 0 THEN {Second} ELSE {}))}

MCGraphs == Wide \cup TwoOutputs
=============================================================================
