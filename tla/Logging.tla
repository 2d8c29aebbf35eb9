------------------------------- MODULE Logging -------------------------------
(***************************************************************************)
(* src/logging/logging.c: hbi_log_emit from any thread, through a built-in *)
(* sink that writes a line piece by piece under a lazily created mutex.    *)
(* The mutex is created without synchronisation: logging.c:71-73 relies on *)
(* the first emit happening before any other thread runs.                  *)
(***************************************************************************)
EXTENDS Naturals, Sequences

CONSTANTS
    Threads, Main,  \* Main logs first
    Levels,         \* 0..5, of which Profiling is the last
    Profiling,      \* HBI_LOG_PROFILING
    MaxFields,      \* HBI_LOG_MAX_FIELDS
    FieldCounts,    \* the numbers of fields callers pass
    NoThread

VARIABLES
    level,          \* g_level
    sink,           \* g_sink_fn: "text" or "json"
    mutex, ready,   \* g_sink_mutex (0: NULL), g_sink_mutex_ready
    created, holder,
    pc, left, mine, \* per thread: location, fields to write, mutex
    line            \* the pieces of the unfinished line of the stream

lazy == <<mutex, ready, created>>
vars == <<level, sink, lazy, holder, pc, left, mine, line>>

Init ==
    /\ level = 2 /\ sink = "text"
    /\ mutex = 0 /\ ready = FALSE /\ created = 0 /\ holder = <<>>
    /\ pc = [t \in Threads |-> "idle"] /\ left = [t \in Threads |-> 0]
    /\ mine = [t \in Threads |-> 0]
    /\ line = <<>>

Goes(t, location) == pc' = [pc EXCEPT ![t] = location]

SetLevel(l) ==
    /\ level # l /\ level' = l
    /\ UNCHANGED <<sink, lazy, holder, pc, left, mine, line>>

\* "do it once at startup before other threads log" (logging.h:21).
SetSink(s) ==
    /\ \A t \in Threads : pc[t] = "idle"
    /\ sink # s /\ sink' = s
    /\ UNCHANGED <<level, lazy, holder, pc, left, mine, line>>

Enabled(l) == l = Profiling \/ l >= level

\* hbi_log_emit: the level is tested, the fields are clamped, the message is
\* formatted on the caller's stack, and the sink is called.
Emit(t, l, fields) ==
    /\ pc[t] = "idle" /\ Enabled(l)
    /\ ready \/ t = Main
    /\ left' = [left EXCEPT ![t] = IF fields > MaxFields THEN MaxFields ELSE fields]
    /\ Goes(t, "load")
    /\ UNCHANGED <<level, sink, lazy, holder, mine, line>>

\* sink_mutex tests the flag, and then the pointer.
Load(t) ==
    /\ pc[t] = "load"
    /\ IF ready THEN Goes(t, "lock") /\ mine' = [mine EXCEPT ![t] = mutex] /\ UNCHANGED <<created, holder>>
       ELSE IF mutex = 0
            THEN /\ created' = created + 1 /\ holder' = Append(holder, NoThread)
                 /\ mine' = [mine EXCEPT ![t] = created + 1] /\ Goes(t, "store")
            ELSE Goes(t, "set_ready") /\ UNCHANGED <<created, holder, mine>>
    /\ UNCHANGED <<level, sink, mutex, ready, left, line>>

\* Mutant: the flag is set before the pointer is.
StoreAfterReady(t) ==
    /\ pc[t] = "store"
    /\ IF ready THEN mutex' = mine[t] /\ Goes(t, "lock") /\ UNCHANGED ready
       ELSE ready' = TRUE /\ UNCHANGED <<mutex, pc>>
    /\ UNCHANGED <<level, sink, created, holder, left, mine, line>>

Store(t) ==
    /\ pc[t] = "store"
    /\ mutex' = mine[t]
    /\ Goes(t, "set_ready")
    /\ UNCHANGED <<level, sink, ready, created, holder, left, mine, line>>

SetReady(t) ==
    /\ pc[t] = "set_ready"
    /\ ready' = TRUE /\ mine' = [mine EXCEPT ![t] = mutex]
    /\ Goes(t, "lock")
    /\ UNCHANGED <<level, sink, mutex, created, holder, left, line>>

\* Without a mutex the sink writes all the same.
Lock(t) ==
    /\ pc[t] = "lock"
    /\ IF mine[t] = 0 THEN UNCHANGED holder
       ELSE holder[mine[t]] = NoThread /\ holder' = [holder EXCEPT ![mine[t]] = t]
    /\ Goes(t, "head")
    /\ UNCHANGED <<level, sink, lazy, left, mine, line>>

Writes(t, piece) == line' = Append(line, <<t, piece>>)

\* The record's own part of the line; the JSON sink opens the fields, if any.
WriteHead(t) ==
    /\ pc[t] = "head"
    /\ Writes(t, IF sink = "json" /\ left[t] > 0 THEN "head{" ELSE "head")
    /\ Goes(t, IF left[t] > 0 THEN "field" ELSE "newline")
    /\ UNCHANGED <<level, sink, lazy, holder, left, mine>>

WriteField(t) ==
    /\ pc[t] = "field"
    /\ Writes(t, "field")
    /\ left' = [left EXCEPT ![t] = @ - 1]
    /\ Goes(t, IF left[t] > 1 THEN "field" ELSE "newline")
    /\ UNCHANGED <<level, sink, lazy, holder, mine>>

\* The end of the line, and the unlock.
Newline(t) ==
    /\ pc[t] = "newline"
    /\ line' = <<>>
    /\ holder' = IF mine[t] = 0 THEN holder ELSE [holder EXCEPT ![mine[t]] = NoThread]
    /\ mine' = [mine EXCEPT ![t] = 0]
    /\ Goes(t, "idle")
    /\ UNCHANGED <<level, sink, lazy, left>>

Step(t) ==
    \/ Load(t) \/ Store(t) \/ SetReady(t) \/ Lock(t) \/ WriteHead(t) \/ WriteField(t) \/ Newline(t)

Next ==
    \/ \E t \in Threads : Step(t)
    \/ \E t \in Threads, l \in Levels, n \in FieldCounts : Emit(t, l, n)
    \/ \E l \in Levels : SetLevel(l)
    \/ \E s \in {"text", "json"} : SetSink(s)

Spec == Init /\ [][Next]_vars

-----------------------------------------------------------------------------
(* Properties.                                                             *)

\* "concurrent emits from many threads never interleave a half-line"
\* (logging.c:5-6): the unfinished line has one writer, and begins with its
\* head.
LinesWhole ==
    line # <<>> =>
        /\ line[1][2] \in {"head", "head{"}
        /\ \A i \in DOMAIN line : line[i][1] = line[1][1] /\ (i > 1 => line[i][2] = "field")
        /\ pc[line[1][1]] \in {"field", "newline"}
=============================================================================
