------------------------------- MODULE Archive -------------------------------
(***************************************************************************)
(* The source files that are taken out of the archive of a package         *)
(* (apps/analysis/src/main.rs): the archive comes in chunks up to a limit, *)
(* and its entries are read one by one within the limits of the parser.    *)
(* An entry is [kind, path, extension, size, packed, content].             *)
(***************************************************************************)
EXTENDS Integers, Sequences, SequencesExt, FiniteSets

CONSTANTS Entries,          \* what an archive may hold
          SourceExtensions,
          MaxBytes,         \* of the archive
          MaxFileSize, MaxFiles, MaxUnpackedSize,
          MaxEntries        \* bound

LimitsAssumption ==
    MaxFiles \in Nat \ {0} /\ MaxUnpackedSize \in Nat /\ \A e \in Entries : e.size \in Nat

VARIABLES entries,          \* of the archive, in their order
          read,             \* entries that were looked at
          inspected,        \* inspected_unpacked_bytes
          results,          \* indices of the entries whose text was taken
          reading           \* the archive is open and its limits are not reached

\* download_tarball: what is announced, if anything is, and what has come are
\* held against the limit.
Downloaded(size) == size <= MaxBytes

\* safe_relative_path: the normal parts of the path, if any.
SafeRelativePath(path) == SelectSeq(path, LAMBDA part : part \notin {"/", "..", "."})

IsSource(e) ==
    e.kind = "file" /\ SafeRelativePath(e.path) # <<>> /\ e.extension \in SourceExtensions
Readable(e) == e.size <= MaxFileSize /\ e.content = "text"

-----------------------------------------------------------------------------
Init == entries = <<>> /\ read = 0 /\ inspected = 0 /\ results = <<>> /\ reading = FALSE

Pack ==
    /\ ~reading /\ read = 0 /\ Len(entries) < MaxEntries
    /\ \E e \in Entries : entries' = Append(entries, e)
    /\ UNCHANGED <<read, inspected, results, reading>>

Open ==
    /\ ~reading /\ read = 0 /\ entries # <<>>
    /\ Downloaded(FoldSeq(LAMBDA e, n : n + e.packed, 0, entries))
    /\ reading' = TRUE
    /\ UNCHANGED <<entries, read, inspected, results>>

\* One entry in extract_source_files: only the sizes of sources count, and the
\* entry that goes over the limit is not read.
ReadEntry ==
    LET e == entries[read + 1]
    IN /\ reading /\ read < Len(entries)
       /\ read' = read + 1
       /\ inspected' = inspected + IF IsSource(e) THEN e.size ELSE 0
       /\ results' = IF IsSource(e) /\ inspected' <= MaxUnpackedSize /\ Readable(e)
                     THEN Append(results, read + 1) ELSE results
       /\ reading' = (inspected' <= MaxUnpackedSize /\ Len(results') < MaxFiles)
       /\ UNCHANGED entries

Next == Pack \/ Open \/ ReadEntry

-----------------------------------------------------------------------------
\* A unit for each of their bytes.
SizeOf(is) == Cardinality(UNION {{i} \X (1 .. entries[i].size) : i \in is})
Taken == ToSet(results)
SourcesUpTo(n) == {i \in 1 .. n : IsSource(entries[i])}

\* The files that are taken fit all the limits together; they are the first
\* ones that do, in their order; and no source that could be read is left out
\* but for the limits.
WithinBudget ==
    /\ SizeOf(Taken) <= MaxUnpackedSize /\ Len(results) <= MaxFiles
    /\ \A i \in 1 .. Len(results) - 1 : results[i] < results[i + 1]
    /\ \A i \in 1 .. read :
          IsSource(entries[i]) /\ Readable(entries[i]) /\ i \notin Taken =>
              SizeOf(SourcesUpTo(i)) > MaxUnpackedSize
    /\ read < Len(entries) /\ read > 0 /\ ~reading =>
          Len(results) = MaxFiles \/ inspected > MaxUnpackedSize
=============================================================================
