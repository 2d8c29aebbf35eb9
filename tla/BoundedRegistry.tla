--------------------------- MODULE BoundedRegistry ---------------------------
(***************************************************************************)
(* What the registries of the engine (model adapters, format handlers,     *)
(* tokenizers) promise: a bounded table of entries with distinct names, in *)
(* the order of their registration, emptied as a whole.                    *)
(***************************************************************************)
EXTENDS Naturals, Sequences

CONSTANTS Names, MaxEntries

VARIABLE table

Init == table = <<>>

Register(name) ==
    /\ \A i \in DOMAIN table : table[i] # name
    /\ Len(table) < MaxEntries
    /\ table' = Append(table, name)

Clear == table' = <<>>

Next == Clear \/ \E name \in Names : Register(name)

Spec == Init /\ [][Next]_table
=============================================================================
