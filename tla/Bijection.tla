----------------------------- MODULE Bijection -----------------------------
(***************************************************************************)
(* What a vocabulary promises (src/tokenizer/tokenizer.h): a bidirectional *)
(* mapping of token texts and identifiers that only grows, in which no     *)
(* text has two identifiers and no identifier two texts, and special roles *)
(* that only a token of the vocabulary plays.                              *)
(***************************************************************************)
EXTENDS Naturals

CONSTANTS Texts, Ids, Roles, NoId

VARIABLES
    pairs,      \* the tokens: <<text, identifier>>
    roles       \* the identifier that plays each role, or NoId

Init == pairs = {} /\ roles = [r \in Roles |-> NoId]

Add(text, id) ==
    /\ \A p \in pairs : p[1] # text /\ p[2] # id
    /\ pairs' = pairs \cup {<<text, id>>}
    /\ UNCHANGED roles

Assign(role, id) ==
    /\ \E p \in pairs : p[2] = id
    /\ roles' = [roles EXCEPT ![role] = id]
    /\ UNCHANGED pairs

Next ==
    \/ \E text \in Texts, id \in Ids : Add(text, id)
    \/ \E role \in Roles, id \in Ids : Assign(role, id)

Spec == Init /\ [][Next]_<<pairs, roles>>
=============================================================================
