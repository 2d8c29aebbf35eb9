------------------------------- MODULE Config -------------------------------
(***************************************************************************)
(* src/config/config.c: a typed configuration bound to a schema, loaded    *)
(* from a file, from the environment and by setters, with the precedence   *)
(* default < file < environment < set.  A text is a numeral or a word, and *)
(* may have a leading blank, which the file's lines lose to trim and the   *)
(* other texts keep.  The strings an entry holds are copies it owns.       *)
(***************************************************************************)
EXTENDS Integers, Sequences, FiniteSets

CONSTANTS
    Schemas,        \* the schemas hbi_config_create is called with
    Files,          \* the contents of configuration files: sequences of lines
    Environments,   \* functions from environment variables to texts
    Texts,          \* given to hbi_config_apply_kv
    Keys,           \* asked for by callers, some in no schema
    Numbers,        \* given to the typed setters
    IntMax, UintMax,    \* of int64_t and uint64_t
    Unset,          \* NULL: a variable that is not set or empty, a missing default
    NoEnv,          \* the descriptor names no variable
    MaxCalls        \* bound on the calls of a behaviour

ConfigAssumption == IntMax \in Nat /\ UintMax \in Nat /\ MaxCalls \in Nat

VARIABLES
    schema,         \* of the configuration being created or in use
    entries,        \* value and source of each entry of the schema; <<>> without one
    objects,        \* live allocations of the object and of its entries
    strings,        \* live copies of strings
    call, at, lines,    \* the call under way, its index, the lines left of a file
    environment,
    status,         \* of the last call
    offers,         \* history: per entry and source the last valid value reached
    calls

vars == <<schema, entries, objects, strings, call, at, lines, environment, status, offers, calls>>

Default == 0
File == 1
Env == 2
Set == 3
Sources == 0..3

Init ==
    /\ schema = <<>> /\ entries = <<>> /\ objects = 0 /\ strings = 0
    /\ call = "none" /\ at = 0 /\ lines = <<>>
    /\ environment \in Environments
    /\ status = "OK" /\ offers = <<>> /\ calls = 0

-----------------------------------------------------------------------------
(* Parsing and validation.                                                 *)

Words == [true |-> 1, on |-> 1, yes |-> 1, false |-> 0, off |-> 0, no |-> 0]

Clamp(n, low, high) == IF n < low THEN low ELSE IF n > high THEN high ELSE n

\* The values of a text for a type: none when assign_from_text rejects it.
\* strtoll and strtoull skip a leading blank and saturate; a '-' is rejected
\* for an unsigned only when it comes first, and negated modulo 2^64 otherwise.
Parsed(type, text) ==
    LET n == text.number
        numeral == text.word = ""
    IN  CASE type = "bool" ->
               IF numeral THEN {v \in {0, 1} : v = n /\ ~text.blank}
               ELSE {Words[w] : w \in {x \in DOMAIN Words : x = text.word /\ ~text.blank}}
          [] type = "int" -> IF numeral THEN {Clamp(n, -IntMax - 1, IntMax)} ELSE {}
          [] type = "uint" ->
               IF ~numeral \/ (n < 0 /\ ~text.blank) THEN {}
               ELSE IF n < -UintMax \/ n > UintMax THEN {UintMax}
               ELSE {n % (UintMax + 1)}
          [] type = "string" -> {text}

\* set_int and set_uint: bounds of zero and zero stand for none.
InRange(desc, value) ==
    desc.type \in {"int", "uint"} /\ ~(desc.min = 0 /\ desc.max = 0)
        => desc.min <= value /\ value <= desc.max

\* validate_schema, for a schema that is not empty.  The defaults are not
\* tested against the bounds.
ValidSchema(s) ==
    /\ s # <<>>
    /\ \A i, j \in DOMAIN s : s[i].key = s[j].key => i = j
    /\ \A i \in DOMAIN s :
        /\ s[i].type \in {"int", "uint"} => s[i].min <= s[i].max
        /\ s[i].type = "string" => s[i].def # Unset

EntriesOf(key) == {i \in DOMAIN entries : schema[i].key = key}
IsString(i) == schema[i].type = "string"

-----------------------------------------------------------------------------
(* Creation and destruction.                                               *)

Called == calls < MaxCalls /\ calls' = calls + 1
Idle == call = "none"
Ready == Idle /\ entries # <<>>

\* hbi_config_create, up to the two allocations: the first or the second may
\* fail, and what was allocated is freed.
CreateBegin(s) ==
    /\ Idle /\ entries = <<>> /\ Called
    /\ \/ /\ ~ValidSchema(s)
          /\ status' = "CORRUPT" /\ UNCHANGED <<schema, objects, call, at>>
       \/ /\ ValidSchema(s)
          /\ status' = "OOM" /\ UNCHANGED <<schema, objects, call, at>>
       \/ /\ ValidSchema(s)
          /\ schema' = s /\ objects' = 2 /\ call' = "create" /\ at' = 1
          /\ UNCHANGED status
    /\ UNCHANGED <<entries, strings, lines, environment, offers>>

\* The next entry gets its default; a failed copy unwinds.
DefaultEntry ==
    /\ call = "create" /\ at <= Len(schema)
    /\ \/ /\ IsString(at)
          /\ status' = "OOM" /\ objects' = 0
          /\ strings' = strings - Cardinality({j \in 1..(at - 1) : IsString(j)})
          /\ schema' = <<>> /\ entries' = <<>> /\ offers' = <<>> /\ call' = "none" /\ at' = 0
       \/ /\ entries' = Append(entries, [value |-> schema[at].def, source |-> Default])
          /\ offers' = Append(offers, [src \in Sources |->
                            IF src = Default THEN {schema[at].def} ELSE {}])
          /\ strings' = IF IsString(at) THEN strings + 1 ELSE strings
          /\ at' = at + 1
          /\ UNCHANGED <<schema, objects, call, status>>
    /\ UNCHANGED <<lines, environment, calls>>

Return(result) == call' = "none" /\ at' = 0 /\ lines' = <<>> /\ status' = result

CreateEnd ==
    /\ call = "create" /\ at > Len(schema)
    /\ Return("OK")
    /\ UNCHANGED <<schema, entries, objects, strings, environment, offers, calls>>

Destroy ==
    /\ Ready /\ Called
    /\ strings' = strings - Cardinality({i \in DOMAIN entries : IsString(i)})
    /\ objects' = 0 /\ schema' = <<>> /\ entries' = <<>> /\ offers' = <<>>
    /\ Return("OK") /\ UNCHANGED environment

-----------------------------------------------------------------------------
(* Assignment.  Each of the following gives the new entries, strings and   *)
(* status of the assignment and leaves the rest to its caller.             *)

Keeps(result) == status' = result /\ UNCHANGED <<entries, strings, offers>>

Offer(i, value, src) == offers' = [offers EXCEPT ![i][src] = {value}]

\* set_bool, set_int, set_uint, set_string: a string is copied, which may fail,
\* before the old copy is freed.
Store(i, value, src) ==
    \/ ~InRange(schema[i], value) /\ Keeps("CORRUPT")
    \/ IsString(i) /\ Keeps("OOM")
    \/ /\ InRange(schema[i], value)
       /\ entries' = [entries EXCEPT ![i] = [value |-> value, source |-> src]]
       /\ UNCHANGED strings
       /\ Offer(i, value, src) /\ status' = "OK"

AssignFromText(i, text, src) ==
    LET values == Parsed(schema[i].type, text)
    IN  \/ values = {} /\ Keeps("CORRUPT")
        \/ \E value \in values : Store(i, value, src)

\* A value that a higher source keeps out is not even parsed; if it is valid
\* it counts as offered.
Skip(i, text, src) ==
    /\ status' = "OK" /\ UNCHANGED <<entries, strings>>
    /\ LET valid == {v \in Parsed(schema[i].type, text) : InRange(schema[i], v)}
       IN  offers' = IF valid = {} THEN offers ELSE [offers EXCEPT ![i][src] = valid]

\* Mutant: the sources are not compared.
ApplyLast(i, text, src) == AssignFromText(i, text, src)

\* The assignment behind apply_text and hbi_config_load_env.
ApplyEntry(i, text, src) ==
    IF src < entries[i].source THEN Skip(i, text, src) ELSE AssignFromText(i, text, src)

ApplyText(key, text, src) ==
    \/ EntriesOf(key) = {} /\ Keeps("NOT_FOUND")
    \/ \E i \in EntriesOf(key) : ApplyEntry(i, text, src)

-----------------------------------------------------------------------------
(* Loading.                                                                *)

\* hbi_config_load_file: opening, measuring (16 MiB at most), allocating or
\* reading may fail; else the lines are parsed one after the other.
LoadFileBegin(content) ==
    /\ Ready /\ Called
    /\ \/ /\ status' \in {"NOT_FOUND", "IO", "CORRUPT", "OOM"}
          /\ UNCHANGED <<call, lines>>
       \/ call' = "file" /\ lines' = content /\ UNCHANGED status
    /\ UNCHANGED <<schema, entries, objects, strings, at, environment, offers>>

\* One line; the first that fails ends the loading, and what the lines before
\* it have set stays.
LoadLine ==
    /\ call = "file" /\ lines # <<>>
    /\ LET line == Head(lines)
       IN  \/ line.kind = "blank" /\ Keeps("OK")
           \/ line.kind = "malformed" /\ Keeps("CORRUPT")
           \/ line.kind = "pair" /\ ApplyText(line.key, [line.text EXCEPT !.blank = FALSE], File)
    /\ IF status' = "OK" THEN lines' = Tail(lines) /\ UNCHANGED call
       ELSE lines' = <<>> /\ call' = "none"
    /\ UNCHANGED <<schema, objects, at, environment, calls>>

LoadFileEnd ==
    /\ call = "file" /\ lines = <<>>
    /\ Return("OK")
    /\ UNCHANGED <<schema, entries, objects, strings, environment, offers, calls>>

LoadEnvBegin ==
    /\ Ready /\ Called
    /\ call' = "env" /\ at' = 1
    /\ UNCHANGED <<schema, entries, objects, strings, lines, environment, status, offers>>

\* The next entry of the schema, in its order; the first invalid one ends it.
LoadEnvEntry ==
    /\ call = "env" /\ at <= Len(schema)
    /\ LET variable == schema[at].env
       IN  IF variable = NoEnv \/ environment[variable] = Unset THEN Keeps("OK")
           ELSE ApplyEntry(at, environment[variable], Env)
    /\ IF status' = "OK" THEN at' = at + 1 /\ UNCHANGED call ELSE at' = 0 /\ call' = "none"
    /\ UNCHANGED <<schema, objects, lines, environment, calls>>

LoadEnvEnd ==
    /\ call = "env" /\ at > Len(schema)
    /\ Return("OK")
    /\ UNCHANGED <<schema, entries, objects, strings, environment, offers, calls>>

ApplyKv(key, text) ==
    /\ Ready /\ Called
    /\ ApplyText(key, text, Set)
    /\ UNCHANGED <<schema, objects, call, at, lines, environment>>

\* hbi_config_set_bool, _int, _uint, _string: the type must be the schema's.
SetTyped(key, type, value) ==
    /\ Ready /\ Called
    /\ \/ EntriesOf(key) = {} /\ Keeps("NOT_FOUND")
       \/ \E i \in EntriesOf(key) :
            IF schema[i].type # type THEN Keeps("INVALID_ARG") ELSE Store(i, value, Set)
    /\ UNCHANGED <<schema, objects, call, at, lines, environment>>

\* What a setter of a type can be given.
Given(type) ==
    CASE type = "bool" -> {0, 1} [] type = "int" -> Numbers
      [] type = "uint" -> Numbers \cap Nat [] type = "string" -> Texts

Next ==
    \/ \E s \in Schemas : CreateBegin(s)
    \/ DefaultEntry \/ CreateEnd \/ Destroy
    \/ \E content \in Files : LoadFileBegin(content)
    \/ LoadLine \/ LoadFileEnd \/ LoadEnvBegin \/ LoadEnvEntry \/ LoadEnvEnd
    \/ \E key \in Keys, text \in Texts : ApplyKv(key, text)
    \/ \E key \in Keys, type \in {"bool", "int", "uint", "string"} :
            \E value \in Given(type) : SetTyped(key, type, value)

Spec == Init /\ [][Next]_vars

-----------------------------------------------------------------------------
(* Properties.                                                             *)

TypeOK ==
    /\ call \in {"none", "create", "file", "env"}
    /\ DOMAIN entries = DOMAIN offers /\ DOMAIN entries \subseteq DOMAIN schema
    /\ \A i \in DOMAIN entries : entries[i].source \in Sources
    /\ objects \in {0, 2} /\ strings \in Nat

\* "default < file < environment < programmatic" whatever the order of the
\* loads and wherever one of them stopped: an entry holds the last valid value
\* of the highest source that has offered one.
HighestSourceWins ==
    \A i \in DOMAIN entries :
        LET offered == {src \in Sources : offers[i][src] # {}}
        IN  /\ entries[i].source \in offered
            /\ \A src \in offered : src <= entries[i].source
            /\ entries[i].value \in offers[i][entries[i].source]

\* A rejected value is never in force: every value is of its entry's type and,
\* the schema's default apart, within its bounds.
ValuesValid ==
    \A i \in DOMAIN entries :
        /\ entries[i].source # Default => InRange(schema[i], entries[i].value)
        /\ schema[i].type = "bool" => entries[i].value \in {0, 1}
        /\ schema[i].type = "int" => entries[i].value \in (-IntMax - 1)..IntMax
        /\ schema[i].type = "uint" => entries[i].value \in 0..UintMax

\* Every string entry owns one copy, and nothing else is allocated: not after
\* a failed create, a failed assignment, a file that stops half-way, destroy.
NothingLeaks ==
    /\ strings = Cardinality({i \in DOMAIN entries : IsString(i)})
    /\ objects = (IF schema = <<>> THEN 0 ELSE 2)
    /\ Idle => (entries = <<>> <=> schema = <<>>)

\* What is in force after any sequence of loads and assignments, failed ones
\* included: the value with precedence, valid, and owned once.
ValuesInForce == TypeOK /\ HighestSourceWins /\ ValuesValid /\ NothingLeaks
=============================================================================
