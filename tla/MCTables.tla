------------------------------ MODULE MCTables ------------------------------
(* Two tables of interchangeable objects, each checked on its own: that of *)
(* the KV contexts, and the vocabulary.  A behaviour is one of one of them, *)
(* while the variables of the other stay as they are.                      *)
EXTENDS KvManager, TLC

CONSTANTS
    x1, x2, x3, x4, y1, y2, y3, y4, empty, unknown, NoId

VARIABLES
    part,     \* the component of the behaviour
    s1, s2, s3, s4, s5, s6    \* the variables of Vocabulary

slots == <<s1, s2, s3, s4, s5, s6>>
tablesVars == <<part, vars, slots>>

\* Interchangeable: texts and handles; identifiers and threads.
Symmetry == Permutations({x1, x2, x3, x4}) \cup Permutations({y1, y2, y3, y4})

-----------------------------------------------------------------------------
Voc == INSTANCE Vocabulary WITH
    Texts <- {x1, x2, x3, x4}, BadTexts <- {empty}, Ids <- {y1, y2, y3, y4},
    Roles <- {unknown}, Unknown <- unknown, NoId <- NoId, Hashes <- {0, 7},
    InitialCapacity <- 4, hash <- s1, capacity <- s2, table <- s3,
    count <- s4, specialIds <- s5, status <- s6

ASSUME TablesAssumptions == KvAssumption

-----------------------------------------------------------------------------
\* The vocabulary of a behaviour of the KV manager stays empty.
TablesInit ==
    /\ part \in {"vocabulary", "kv_manager"} /\ Init /\ Voc!Init
    /\ part = "kv_manager" => \A text \in {x1, x2, x3, x4} : s1[text] = 0

TablesNext ==
    \/ part = "vocabulary" /\ Voc!Next /\ UNCHANGED <<part, vars>>
    \/ part = "kv_manager" /\ Next /\ UNCHANGED <<part, slots>>

TablesSpec == TablesInit /\ [][TablesNext]_tablesVars

-----------------------------------------------------------------------------
\* Vocabulary: every search finds its token or ends, and the hash table
\* implements the bidirectional mapping of Bijection.
VocabularyExact == []Voc!SearchesEnd /\ Voc!ImplementsBijection
=============================================================================
