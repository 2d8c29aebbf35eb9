-------------------------------- MODULE Model --------------------------------
(***************************************************************************)
(* src/model/model.c with its formats: the load of a model file.  A load   *)
(* creates a session (with its manifest and metadata), detects the format, *)
(* finds the handler, reads and parses the header, adds a manifest entry   *)
(* per tensor, validates the manifest and hands the session to the caller. *)
(* Any allocation and any read may fail, and the file may be cut short at  *)
(* any time.                                                               *)
(***************************************************************************)
EXTENDS Integers, Sequences, FiniteSets, SequencesExt

CONSTANTS
    Files,          \* [format, header, size, members]; the header is 8 bytes and more
    Handlers,       \* the formats with a registered handler
    Width,          \* dtype -> bytes of an element, for the dtypes map_dtype knows
    MaxNameLength, InitialEntries, InitialPairs,
    None

VARIABLES
    file,           \* on the disk
    fileSize,       \* what read_header found
    strict, hint,   \* options of the load
    step,           \* where hbi_model_load is
    member,         \* index in the header's members
    live,           \* allocations
    entries, entriesCap, pairs, pairsCap,   \* the manifest and the metadata
    state,          \* of the session
    errors, warnings,
    out,            \* *out_session: FALSE while it is NULL
    status,
    read            \* the entry the last successful read_tensor_data returned

vars == <<file, fileSize, strict, hint, step, member, live, entries, entriesCap, pairs, pairsCap,
          state, errors, warnings, out, status, read>>
manifest == <<entries, entriesCap, pairs, pairsCap>>

SessionObjects == {"session", "manifest", "entries", "metadata", "pairs"}

Init ==
    /\ file \in Files /\ strict \in BOOLEAN
    /\ hint \in {"unknown"} \cup Handlers
    /\ step = "session" /\ member = 1 /\ live = {} /\ fileSize = 0
    /\ entries = <<>> /\ entriesCap = InitialEntries /\ pairs = <<>> /\ pairsCap = InitialPairs
    /\ state = "INIT" /\ errors = 0 /\ warnings = 0
    /\ out = FALSE /\ status = "OK" /\ read = None

-----------------------------------------------------------------------------
\* The error returns of hbi_model_load, which free what they free.
Fail(st, freed) ==
    /\ live' = live \ freed
    /\ status' = st /\ step' = "returned" /\ state' = "FAILED"
    /\ UNCHANGED <<member, errors, warnings, out>>

Go(next) == step' = next /\ UNCHANGED <<member, state, errors, warnings, out, status>>

\* load_session_create: the allocations in order, and what each one's failure frees
SessionOrder == <<"session", "manifest", "entries", "metadata", "pairs">>

\* Mutant: the manifest is left behind.
UndoneKeeps(object) ==
    CASE object = "session" -> {}
      [] object = "manifest" -> {"session"}
      [] object = "entries" -> {"manifest", "session"}
      [] object = "metadata" -> {"session"}
      [] object = "pairs" -> {"metadata", "session"}

Undone(object) ==
    CASE object = "session" -> {}
      [] object = "manifest" -> {"session"}
      [] object = "entries" -> {"manifest", "session"}
      [] object = "metadata" -> {"manifest", "entries", "session"}
      [] object = "pairs" -> {"metadata", "manifest", "entries", "session"}

CreateSession ==
    \E i \in DOMAIN SessionOrder :
        /\ step = SessionOrder[i]
        /\ \/ /\ live' = live \cup {SessionOrder[i]}
              /\ Go(IF i < Len(SessionOrder) THEN SessionOrder[i + 1] ELSE "detect")
           \/ Fail("OOM", Undone(SessionOrder[i]))
        /\ UNCHANGED <<file, fileSize, strict, hint, manifest, read>>

\* hbi_format_handler_detect: the handlers look at the file unless the
\* caller gave a format
DetectFormat ==
    /\ step = "detect"
    /\ LET format == IF hint # "unknown" THEN hint ELSE file.format
       IN  IF format = "unknown" THEN Fail("UNSUPPORTED", SessionObjects)
           ELSE IF format \notin Handlers THEN Fail("NOT_FOUND", SessionObjects)
           ELSE Go(format) /\ UNCHANGED live
    /\ UNCHANGED <<file, fileSize, strict, hint, manifest, read>>

\* gguf_parse_metadata
ParseGguf ==
    /\ step = "gguf"
    /\ Fail("UNSUPPORTED", SessionObjects)
    /\ UNCHANGED <<file, fileSize, strict, hint, manifest, read>>

\* read_header of the safetensors format
ReadHeader ==
    /\ step = "safetensors"
    /\ \/ Fail("IO", SessionObjects)
       \/ (file.header < 9 \/ file.size < file.header) /\ Fail("CORRUPT", SessionObjects)
       \/ Fail("OOM", SessionObjects)
       \/ /\ file.header >= 9 /\ file.size >= file.header
          /\ live' = live \cup {"header"} /\ Go("json")
    /\ fileSize' = file.size
    /\ UNCHANGED <<file, strict, hint, manifest, read>>

\* hbi_json_parse of the header
ParseHeader ==
    /\ step = "json"
    /\ \/ Fail("CORRUPT", SessionObjects \cup {"header"})
       \/ live' = live \cup {"root"} /\ Go("members")
    /\ UNCHANGED <<file, fileSize, strict, hint, manifest, read>>

-----------------------------------------------------------------------------
(* The members of the header.                                              *)

Parsing == SessionObjects \cup {"header", "root"}

\* parse_tensor_entry.  The offsets of a member are relative to the end of
\* the header, the offset of an entry is that in the file.
EntryOf(m) ==
    [name |-> m.name, dtype |-> m.dtype, count |-> m.count,
     offset |-> file.header + m.begin, size |-> m.end - m.begin]

EntryError(m) ==
    IF m.dtype \notin DOMAIN Width THEN "UNSUPPORTED"
    ELSE IF \/ m.count = 0 \/ m.begin < 0 \/ m.end < m.begin
            \/ file.header + m.begin + (m.end - m.begin) > fileSize
            \/ m.length > MaxNameLength
    THEN "CORRUPT"
    ELSE "OK"

\* The errors of hbi_model_manifest_add before it grows
AddError(m) ==
    IF m.length = 0 \/ EntryOf(m).size = 0 THEN "INVALID_ARG"
    ELSE IF \E i \in DOMAIN entries : entries[i].name = m.name THEN "STATE"
    ELSE "OK"

NextMember == member' = member + 1 /\ UNCHANGED <<step, state, errors, warnings, out, status, live>>

AddTensor ==
    /\ step = "members" /\ member <= Len(file.members)
    /\ LET m == file.members[member] IN
       /\ m.kind = "tensor"
       /\ IF EntryError(m) # "OK" THEN Fail(EntryError(m), Parsing) /\ UNCHANGED manifest
          ELSE IF AddError(m) # "OK"
          THEN Fail(AddError(m), Parsing) /\ UNCHANGED manifest
          ELSE \/ /\ entries' = Append(entries, EntryOf(m))
                  /\ entriesCap' = IF Len(entries) >= entriesCap THEN 2 * entriesCap
                                   ELSE entriesCap
                  /\ UNCHANGED <<pairs, pairsCap>>
                  /\ NextMember
               \/ /\ Len(entries) >= entriesCap
                  /\ Fail("OOM", Parsing) /\ UNCHANGED manifest
    /\ UNCHANGED <<file, fileSize, strict, hint, read>>

\* hbi_model_metadata_set: a key that is there gets the new value.  The
\* caller ignores a failure to grow.
SetPair ==
    /\ step = "members" /\ member <= Len(file.members)
    /\ LET m == file.members[member]
           found == {i \in DOMAIN pairs : pairs[i].key = m.key}
       IN  /\ m.kind = "metadata"
           /\ \/ /\ found # {}
                 /\ pairs' = [i \in DOMAIN pairs |->
                                 IF i \in found THEN [pairs[i] EXCEPT !.value = m.value]
                                 ELSE pairs[i]]
                 /\ UNCHANGED pairsCap
              \/ /\ found = {}
                 /\ pairs' = Append(pairs, [key |-> m.key, value |-> m.value])
                 /\ pairsCap' = IF Len(pairs) >= pairsCap THEN 2 * pairsCap ELSE pairsCap
              \/ /\ found = {} /\ Len(pairs) >= pairsCap
                 /\ UNCHANGED <<pairs, pairsCap>>
    /\ NextMember
    /\ UNCHANGED <<file, fileSize, strict, hint, entries, entriesCap, read>>

\* Members and metadata that are not what they should be are passed over.
SkipMember ==
    /\ step = "members" /\ member <= Len(file.members)
    /\ file.members[member].kind = "other"
    /\ NextMember
    /\ UNCHANGED <<file, fileSize, strict, hint, manifest, read>>

Parsed ==
    /\ step = "members" /\ member > Len(file.members)
    /\ live' = live \ {"header", "root"}
    /\ step' = "validate" /\ state' = "PARSED"
    /\ UNCHANGED <<member, errors, warnings, out, status>>
    /\ UNCHANGED <<file, fileSize, strict, hint, manifest, read>>

-----------------------------------------------------------------------------
\* hbi_model_manifest_validate: the elements of a tensor fit its bytes
FitsBytes(e) == e.count * Width[e.dtype] <= e.size
ManifestValid == \A i \in DOMAIN entries : FitsBytes(entries[i])

Complete ==
    /\ state' = "COMPLETE" /\ out' = TRUE /\ status' = "OK" /\ step' = "returned"
    /\ UNCHANGED <<member, live>>

Validate ==
    /\ step = "validate"
    /\ IF ManifestValid THEN Complete /\ UNCHANGED <<errors, warnings>>
       ELSE IF strict THEN Fail("INVALID_ARG", SessionObjects)
       ELSE Complete /\ errors' = errors + 1 /\ warnings' = warnings + 1
    /\ UNCHANGED <<file, fileSize, strict, hint, manifest, read>>

Truncate ==
    /\ step # "returned" \/ out
    /\ \E size \in 0..file.size - 1 : file' = [file EXCEPT !.size = size]
    /\ UNCHANGED <<fileSize, strict, hint, step, member, live, manifest, state, errors, warnings, out,
                   status, read>>

\* safetensors_read_tensor_data: the file is opened again
ReadTensorData(e) ==
    /\ out
    /\ \/ /\ e.offset + e.size <= file.size
          /\ status' = "OK" /\ read' = [entry |-> e, of |-> file.size]
       \/ status' = "IO" /\ read' = None
    /\ UNCHANGED <<file, fileSize, strict, hint, step, member, live, manifest, state, errors, warnings, out>>

\* hbi_model_load_session_destroy
Destroy ==
    /\ out
    /\ out' = FALSE /\ live' = live \ SessionObjects /\ status' = "OK" /\ read' = None
    /\ UNCHANGED <<file, fileSize, strict, hint, step, member, manifest, state, errors, warnings>>

Next ==
    \/ CreateSession \/ DetectFormat \/ ParseGguf \/ ReadHeader \/ ParseHeader
    \/ AddTensor \/ SetPair \/ SkipMember \/ Parsed \/ Validate \/ Truncate \/ Destroy
    \/ \E i \in DOMAIN entries : ReadTensorData(entries[i])

Spec == Init /\ [][Next]_vars

-----------------------------------------------------------------------------
\* A load that fails, at whichever step, leaves nothing allocated; one that
\* succeeds leaves the session, its manifest and its metadata, and neither
\* the header nor its tree; and the destruction frees all of it.
LoadOwnsSession ==
    step = "returned" => live = IF out THEN SessionObjects ELSE {}

\* No two tensors of a loaded manifest share a name, and each lies between
\* the header and the end of the file as it was read.
EntriesInsideFile ==
    /\ \A i, j \in DOMAIN entries : i # j => entries[i].name # entries[j].name
    /\ \A i \in DOMAIN entries :
          /\ entries[i].size > 0 /\ entries[i].offset >= file.header
          /\ entries[i].offset + entries[i].size <= fileSize

\* In a session loaded strictly, the bytes of every tensor hold its
\* elements; in any other the defects were counted.
StrictIsValid == out => (ManifestValid \/ (~strict /\ errors = 1 /\ warnings = 1))

\* A read that succeeds found all the bytes of the tensor, although the
\* file may have been cut short since its header was read.
ReadsWhole == read # None => read.entry.offset + read.entry.size <= read.of

\* A load succeeds with a manifest that can be relied on, or leaves nothing.
LoadReliable == LoadOwnsSession /\ EntriesInsideFile /\ StrictIsValid /\ ReadsWhole
=============================================================================
