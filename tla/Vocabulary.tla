----------------------------- MODULE Vocabulary -----------------------------
(***************************************************************************)
(* The vocabulary of src/tokenizer/tokenizer.c: an open-addressing table   *)
(* with linear probing, keyed by token text, that is doubled when more     *)
(* than 0.7 of it is in use.  Identifiers are found by a scan.  The hash   *)
(* of a text is an arbitrary number reduced modulo the capacity, a power   *)
(* of two; a rejected text (empty or too long) is in BadTexts.             *)
(***************************************************************************)
EXTENDS Integers, FiniteSets, FiniteSetsExt

CONSTANTS
    Texts, BadTexts, Ids, Roles, NoId,
    Hashes,             \* values of the hash before the reduction
    InitialCapacity,    \* the least capacity, 16 in the code
    Unknown             \* HBI_SPECIAL_UNKNOWN, the role of an ordinary token

VARIABLES
    hash,       \* the hash of each text
    capacity, table,    \* the slots in use: slot -> entry
    count,
    specialIds,
    status      \* of the last call

vars == <<hash, capacity, table, count, specialIds, status>>

\* hbi_vocabulary_create
Init ==
    /\ hash \in [Texts -> Hashes]
    /\ capacity = InitialCapacity /\ table = <<>> /\ count = 0
    /\ specialIds = [r \in Roles |-> NoId]
    /\ status = "OK"

\* The i-th slot a probe for the text visits.
Probe(text, i, cap) == (hash[text] + i) % cap

\* The number of probes until the first slot that is free, or holds the text;
\* cap when there is none.
ProbesToFree(t, text, cap) ==
    Min({i \in 0..cap - 1 : Probe(text, i, cap) \notin DOMAIN t} \cup {cap})

\* vocab_find_slot: the slot of the text, or the capacity.  A free slot ends
\* the search.
FindSlot(text) ==
    LET found == {i \in 0..ProbesToFree(table, text, capacity) - 1 :
                      table[Probe(text, i, capacity)].text = text}
    IN  IF found = {} THEN capacity ELSE Probe(text, Min(found), capacity)

\* vocab_find_by_id
FindById(id) == Min({s \in DOMAIN table : table[s].id = id} \cup {capacity})

\* An entry put in the first free slot of its probe sequence; unchanged
\* when the table is full.
Insert(t, entry, cap) ==
    LET i == ProbesToFree(t, entry.text, cap)
    IN  IF i = cap THEN t
        ELSE [s \in DOMAIN t \cup {Probe(entry.text, i, cap)} |->
                 IF s \in DOMAIN t THEN t[s] ELSE entry]

\* vocab_resize: the entries inserted in the order of their slots.
Rehash(t, cap, newCap) ==
    LET moved[s \in 0..cap] ==
            IF s = 0 THEN <<>>
            ELSE IF s - 1 \in DOMAIN t THEN Insert(moved[s - 1], t[s - 1], newCap)
            ELSE moved[s - 1]
    IN  moved[cap]

NeedsResize == count * 10 > capacity * 7

-----------------------------------------------------------------------------
Reject(st) == status' = st /\ UNCHANGED <<hash, capacity, table, count, specialIds>>

\* The insertion at the end of hbi_vocabulary_add, into a table t of capacity cap.
InsertNew(t, cap, text, id) ==
    LET grown == Insert(t, [text |-> text, id |-> id, special |-> FALSE, role |-> Unknown], cap)
    IN  /\ capacity' = cap /\ table' = grown
        /\ count' = count + Cardinality(DOMAIN grown) - Cardinality(DOMAIN t)
        /\ status' = IF grown = t THEN "TABLE_FULL" ELSE "OK"
        /\ UNCHANGED <<hash, specialIds>>

AddBad(text) == text \in BadTexts /\ Reject("INVALID_ARG")

\* An identifier or a text that is there already.
AddKnown(text, id) ==
    /\ FindById(id) # capacity \/ FindSlot(text) # capacity
    /\ Reject(IF FindById(id) # capacity /\ table[FindById(id)].text = text
              THEN "OK" ELSE "STATE")

\* Mutant: only the identifier is looked for.
AddNewUnchecked(text, id) ==
    /\ FindById(id) = capacity
    /\ ~NeedsResize
    /\ InsertNew(table, capacity, text, id)

AddNew(text, id) ==
    /\ FindById(id) = capacity /\ FindSlot(text) = capacity
    /\ ~NeedsResize
    /\ InsertNew(table, capacity, text, id)

AddGrowing(text, id) ==
    /\ FindById(id) = capacity /\ FindSlot(text) = capacity
    /\ NeedsResize
    /\ \/ Reject("OOM")
       \/ InsertNew(Rehash(table, capacity, 2 * capacity), 2 * capacity, text, id)

\* hbi_vocabulary_set_special.  The token that played the role keeps its mark.
SetSpecial(id, role) ==
    IF FindById(id) = capacity THEN Reject("NOT_FOUND")
    ELSE /\ table' = [table EXCEPT ![FindById(id)].special = TRUE,
                                   ![FindById(id)].role = role]
         /\ specialIds' = [specialIds EXCEPT ![role] = id]
         /\ status' = "OK"
         /\ UNCHANGED <<hash, capacity, count>>

Next ==
    \/ \E text \in BadTexts : AddBad(text)
    \/ \E text \in Texts, id \in Ids :
          AddKnown(text, id) \/ AddNew(text, id) \/ AddGrowing(text, id)
    \/ \E id \in Ids, role \in Roles : SetSpecial(id, role)

Spec == Init /\ [][Next]_vars

-----------------------------------------------------------------------------
\* Every token is found by its text, whatever the hashes, the order of the
\* additions and the growth of the table in between, and the text of an
\* unknown token is not: the search of hbi_vocabulary_lookup stops at the
\* first free slot and must not stop before the token.
TokensFound ==
    \A text \in Texts :
        LET slots == {s \in DOMAIN table : table[s].text = text}
        IN  IF slots = {} THEN FindSlot(text) = capacity ELSE FindSlot(text) \in slots

\* The count hbi_vocabulary_size returns is that of the slots in use, and a
\* free slot is always left, so that hbi_vocabulary_add never reports
\* "vocabulary table full (unexpected)".
NeverFull ==
    /\ count = Cardinality(DOMAIN table) /\ DOMAIN table \subseteq 0..capacity - 1
    /\ count < capacity
    /\ status # "TABLE_FULL"

Pairs == {<<table[s].text, table[s].id>> : s \in DOMAIN table}
Promise == INSTANCE Bijection WITH pairs <- Pairs, roles <- specialIds

\* The table implements the bidirectional mapping: an addition adds one
\* pair or none, a resize none, no text or identifier is ever in two pairs,
\* and a role is only given to a token of the vocabulary.
ImplementsBijection == Promise!Spec

\* The token hbi_vocabulary_special_id names for a role is marked special.
SpecialsMarked ==
    \A role \in Roles : specialIds[role] # NoId =>
        FindById(specialIds[role]) # capacity /\ table[FindById(specialIds[role])].special

\* What the table must give for that: every search ends at the token or at a
\* free slot, and the specials are tokens.
SearchesEnd == TokensFound /\ NeverFull /\ SpecialsMarked
=============================================================================
