---------------------------- MODULE FileAccess ----------------------------
(***************************************************************************)
(* A receiver that appends to a file in partitions while another process,  *)
(* such as daq_plotter, reads from it.  Both open and close each partition *)
(* under a lock file of its own (open_file, close_file), many times in one *)
(* operation: what was read under one lock may be stale under the next.    *)
(*                                                                         *)
(* The reader asks for n samples after an offset; a sample is its number   *)
(* in the whole file.  All partitions but the newest are full, as          *)
(* FilePartitions shows.                                                   *)
(***************************************************************************)
EXTENDS PartitionQuery, FileDimensions

CONSTANTS
  MaxPartitions, \* bound on the partitions
  MaxQueries,    \* bound on the reads
  Back,          \* how far before the end a query may begin, as a negative offset
  Beyond,        \* how far beyond the samples written so far a query may end
  MaxRestarts    \* bound on the receivers that are started in this directory meanwhile

ASSUME AccessAssumption ==
  /\ {NSamples, FileSize, MaxPartitions} \subseteq Nat \ {0}
  /\ {MaxQueries, Back, Beyond, MaxRestarts} \subseteq Nat

Nobody == "nobody"
NoFile == -1
Raised == <<-2>>

Partitions == 0 .. MaxPartitions - 1

VARIABLES
  blocks,   \* n_blocks of each partition
  lock,     \* who holds the lock of each partition
  writer,   \* where ingest_data is (at), and the partition it has open
  kind,     \* fixed: the kind of file
  reader,   \* where read_data is, the partition it has open, and loops left to do
  query,    \* the offset asked for, that from the start, the number of samples, and
            \* how many there were when it was asked for
  seen,     \* what the reader keeps of the attributes it read
  parts,    \* the parts still to be read
  result,   \* the samples read so far, or Failed
  queries,  \* reads begun
  restarts  \* receivers started meanwhile

accessVars == <<blocks, lock, writer, kind, reader, query, seen, parts, result, queries, restarts>>

NewestPartition == Len(blocks) - 1

Samples(p) == NSamples * blocks[p + 1]

Global(p, row) == p * FileSize * NSamples + row

SamplesWritten == IF blocks = <<>> THEN 0 ELSE Global(NewestPartition, Samples(NewestPartition))

AccessInit ==
  /\ blocks = <<>>
  /\ lock = [p \in Partitions |-> Nobody]
  /\ writer = [at |-> "idle", file |-> NoFile]
  /\ kind \in {"raw", "channel", "beam", "stationbeam", "correlation"}
  /\ reader = [at |-> "idle", file |-> NoFile, loops |-> 0]
  /\ query = [asked |-> 0, offset |-> 0, n |-> 0, written |-> 0]
  /\ seen = [total |-> 0, partitions |-> 0, per_partition |-> 0]
  /\ parts = <<>>
  /\ result = <<>>
  /\ queries = 0
  /\ restarts = 0
-----------------------------------------------------------------------------
(* open_file and close_file: a lock file beside each partition.  One that   *)
(* the same thread left locked does not stop it.                            *)

\* mutant: no one waits
OpenAtOnce(p, who) == lock' = [lock EXCEPT ![p] = who]

open_file(p, who) ==
  /\ lock[p] \in {Nobody, who}
  /\ lock' = [lock EXCEPT ![p] = who]

\* the lock of the partition is released, whoever has it
close_file(p) ==
  /\ lock[p] # Nobody
  /\ lock' = [lock EXCEPT ![p] = Nobody]

\* or, when it has been removed, the release raises
CloseRaises(p) == lock[p] = Nobody /\ UNCHANGED lock
-----------------------------------------------------------------------------
(* The receiver: ingest_data in append mode, one file opened after another  *)

IsFull == blocks[NewestPartition + 1] >= FileSize

Ingest ==
  /\ writer.at = "idle"
  /\ blocks # <<>> /\ IsFull => Len(blocks) < MaxPartitions
  /\ writer' = [writer EXCEPT !.at = IF NewestPartition > 0 THEN "final"
                                     ELSE IF NewestPartition = 0 THEN "size" ELSE "append"]
  /\ UNCHANGED <<blocks, lock, kind, reader, query, seen, parts, result, queries, restarts>>

WriterFile ==
  CASE writer.at = "final" -> NewestPartition - 1
    [] writer.at \in {"size", "latest"} -> NewestPartition
    [] writer.at = "append" -> IF blocks = <<>> THEN 0 ELSE NewestPartition
    [] writer.at = "begin" -> NewestPartition + 1

WriterOpen ==
  /\ writer.at # "idle"
  /\ writer.file = NoFile
  /\ open_file(WriterFile, "writer")
  /\ writer' = [writer EXCEPT !.file = WriterFile]
  /\ UNCHANGED <<blocks, kind, reader, query, seen, parts, result, queries, restarts>>

\* file_final_timestamp, file_size, then _append_data; or, if that partition is full,
\* file_final_timestamp of it and _write_data to a new one
AfterClose ==
  CASE writer.at = "final" -> "size"
    [] writer.at = "size" -> IF IsFull THEN "latest" ELSE "append"
    [] writer.at = "latest" -> "begin"
    [] writer.at \in {"append", "begin"} -> "idle"

WriterWrites ==
  LET newest == NewestPartition + 1 IN
  blocks' = CASE writer.at \in {"final", "size", "latest"} -> blocks
              [] writer.at = "begin" \/ (writer.at = "append" /\ blocks = <<>>) -> Append(blocks, 1)
              [] writer.at = "append" /\ blocks # <<>> -> [blocks EXCEPT ![newest] = @ + 1]

\* an exception ends ingest_data: what it was going to write is lost
WriterClose ==
  /\ writer.file # NoFile
  /\ \/ close_file(writer.file) /\ writer' = [at |-> AfterClose, file |-> NoFile]
     \/ CloseRaises(writer.file) /\ writer' = [at |-> "idle", file |-> NoFile]
  /\ WriterWrites
  /\ UNCHANGED <<kind, reader, query, seen, parts, result, queries, restarts>>
-----------------------------------------------------------------------------
(* The reader: read_data with n_samples given                               *)

UnchangedByReader == UNCHANGED <<blocks, writer, kind, restarts>>

\* there is a file: without one get_metadata returns None, which read_data indexes
read_data ==
  /\ reader.at \in {"idle", "done"}
  /\ queries < MaxQueries
  /\ blocks # <<>>
  /\ \E offset \in (-Back) .. SamplesWritten + Beyond - 1, n \in 1 .. SamplesWritten + Beyond :
       /\ offset + n <= SamplesWritten + Beyond
       /\ offset < 0 => SamplesWritten + offset >= 0
       /\ query' = [asked |-> offset, offset |-> offset, n |-> n, written |-> SamplesWritten]
  /\ reader' = [at |-> "metadata", file |-> NoFile, loops |-> 0]
  /\ seen' = [total |-> 0, partitions |-> 0, per_partition |-> 0]
  /\ parts' = <<>>
  /\ result' = <<>>
  /\ queries' = queries + 1
  /\ UNCHANGED lock
  /\ UnchangedByReader

ReaderFile ==
  CASE reader.at \in {"metadata", "part_metadata"} -> NewestPartition
    [] reader.at \in {"total", "query"} -> 0
    [] reader.at = "end" -> EndPartition(query.offset, query.n, seen.per_partition)
    [] reader.at = "part" -> Head(parts).partition

ReaderOpen ==
  /\ reader.at \notin {"idle", "done"}
  /\ reader.file = NoFile
  /\ open_file(ReaderFile, "reader")
  /\ reader' = [reader EXCEPT !.file = ReaderFile]
  /\ UNCHANGED <<query, seen, parts, result, queries>>
  /\ UnchangedByReader

\* mutant: the file is left open
GoWithoutClosing(at, loops) ==
  /\ UNCHANGED lock
  /\ reader' = [at |-> at, file |-> NoFile, loops |-> loops]

\* close the file and go on
CloseAndGo(at, loops) ==
  /\ close_file(reader.file)
  /\ reader' = [at |-> at, file |-> NoFile, loops |-> loops]

get_metadata ==
  /\ reader.at = "metadata" /\ reader.file # NoFile
  /\ CloseAndGo("total", Len(blocks))
  /\ UNCHANGED <<query, seen, parts, result, queries>>
  /\ UnchangedByReader

\* partition 0 is loaded as often as there are partitions
get_total_samples_in_all_partitions ==
  /\ reader.at = "total" /\ reader.file # NoFile
  /\ LET total == seen.total + Samples(reader.file)
         offset == QueryOffset(query.offset, total)
     IN IF reader.loops > 1
          THEN /\ CloseAndGo("total", reader.loops - 1)
               /\ seen' = [seen EXCEPT !.total = total]
               /\ UNCHANGED query
          ELSE /\ CloseAndGo("query", 0)
               /\ seen' = [seen EXCEPT !.total = total, !.partitions = Len(blocks)]
               /\ query' = [query EXCEPT !.offset = offset,
                                         !.n = QuerySamples(offset, query.n, total)]
  /\ UNCHANGED <<parts, result, queries>>
  /\ UnchangedByReader

\* the end of read_data; with files left locked or not
Return(found) ==
  /\ reader' = [reader EXCEPT !.at = "done", !.file = NoFile]
  /\ result' = found

\* what is returned early is returned without closing the file
get_partitions_given_samples ==
  /\ reader.at = "query" /\ reader.file # NoFile
  /\ LET per_partition == Samples(reader.file)
         start == StartPartition(query.offset, per_partition)
         end == EndPartition(query.offset, query.n, per_partition)
     IN /\ seen' = [seen EXCEPT !.per_partition = per_partition]
        /\ IF ~Exist(query.offset, query.n, per_partition, seen.partitions)
             THEN Return(<<>>) /\ UNCHANGED <<lock, parts>>
             ELSE IF start = end
               THEN /\ CloseAndGo("part_metadata", 0)
                    /\ parts' = PartsOfSamples(query.offset, query.n, per_partition, per_partition)
                    /\ UNCHANGED result
               ELSE CloseAndGo("end", 0) /\ UNCHANGED <<parts, result>>
  /\ UNCHANGED <<query, queries>>
  /\ UnchangedByReader

get_end_partition ==
  /\ reader.at = "end" /\ reader.file # NoFile
  /\ CloseAndGo("part_metadata", 0)
  /\ parts' = PartsOfSamples(query.offset, query.n, seen.per_partition, Samples(reader.file))
  /\ UNCHANGED <<query, seen, result, queries>>
  /\ UnchangedByReader

ReaderRaises ==
  /\ reader.file # NoFile
  /\ reader.at = "query" =>
       Exist(query.offset, query.n, Samples(reader.file), seen.partitions)
  /\ CloseRaises(reader.file)
  /\ Return(Raised)
  /\ UNCHANGED <<query, seen, parts, queries>>
  /\ UnchangedByReader

part_metadata ==
  /\ reader.at = "part_metadata" /\ reader.file # NoFile
  /\ CloseAndGo("part", 0)
  /\ UNCHANGED <<query, seen, parts, result, queries>>
  /\ UnchangedByReader

\* correlation data must have the shape that was asked for
InShape(samples) == kind # "correlation" \/ Len(samples) = query.n

_read_data ==
  /\ reader.at = "part" /\ reader.file # NoFile
  /\ LET part == Head(parts)
         rows == ReadRows(kind, Samples(part.partition), part.first, part.last - part.first)
         samples == IF rows = Failed THEN Failed
                    ELSE result \o [i \in DOMAIN rows |-> Global(part.partition, rows[i])]
     IN /\ parts' = Tail(parts)
        /\ IF samples # Failed /\ Len(parts) > 1
             THEN CloseAndGo("part_metadata", 0) /\ result' = samples
             ELSE /\ CloseAndGo("done", 0)
                  /\ result' = IF samples = Failed \/ ~InShape(samples) THEN Failed ELSE samples
  /\ UNCHANGED <<query, seen, queries>>
  /\ UnchangedByReader

Reader ==
  \/ ReaderOpen
  \/ ReaderRaises
  \/ get_metadata
  \/ get_total_samples_in_all_partitions
  \/ get_partitions_given_samples
  \/ get_end_partition
  \/ part_metadata
  \/ _read_data

Writer == WriterOpen \/ WriterClose

\* initialise_daq of a receiver in the same directory removes all locks
RemoveLocks ==
  /\ restarts < MaxRestarts
  /\ restarts' = restarts + 1
  /\ lock' = [p \in Partitions |-> Nobody]
  /\ UNCHANGED <<blocks, writer, kind, reader, query, seen, parts, result, queries>>

AccessNext == Ingest \/ Writer \/ read_data \/ Reader \/ RemoveLocks

AccessSpec == AccessInit /\ [][AccessNext]_accessVars

\* both processes go on with what they have begun
FairAccess == AccessSpec /\ WF_accessVars(Writer) /\ WF_accessVars(Reader)
-----------------------------------------------------------------------------
(* Properties                                                               *)

\* Each process is at one of its steps, with at most one partition open.
AccessTypeOK ==
  /\ blocks \in Seq(1 .. FileSize) /\ Len(blocks) <= MaxPartitions
  /\ lock \in [Partitions -> {Nobody, "writer", "reader"}]
  /\ writer \in [at : {"idle", "final", "size", "latest", "append", "begin"},
                 file : Partitions \cup {NoFile}]
  /\ reader.at \in {"idle", "metadata", "total", "query", "end", "part_metadata", "part", "done"}
  /\ reader.file \in Partitions \cup {NoFile}
  /\ result \in {Failed, Raised} \/ result \in Seq(Nat)
  /\ queries \in 0 .. MaxQueries

\* A read of samples that had all been written when it was asked for returns them all,
\* in order and nothing else, although between its steps buffers are appended and
\* partitions begun, so that the attributes it computes with are of different times.
ReadsExactly ==
  reader.at = "done" /\ query.asked >= 0 /\ query.n > 0
    /\ query.offset + query.n <= query.written /\ result # Raised =>
    result = [i \in 1 .. query.n |-> query.offset + i]

\* A read from the back (the comment in get_file_partition_indexes_to_read_given_samples:
\* "if reading from the back") begins that many samples before the end.
ReadsFromBack ==
  reader.at = "done" /\ query.asked < 0 /\ SamplesWritten = query.written =>
    result = <<>> \/ Head(result) = query.written + query.asked + 1

\* partition 0 of a query that returned early, which is still open and locked
LeftOpen == reader.at = "done" /\ result = <<>> /\ lock[0] = "reader"

\* A buffer that is being ingested is written in the end, to whatever partition, although the
\* reader holds locks and opens partitions meanwhile; but not when a receiver that is started
\* removes the locks, which makes a close raise, nor while the partition is locked that a query
\* for samples that do not exist left open (aavs_file.py:657).
BufferIsWritten ==
  \A n \in 0 .. MaxPartitions * FileSize * NSamples :
    writer.at # "idle" /\ SamplesWritten = n ~> SamplesWritten > n \/ restarts > 0 \/ LeftOpen

\* samples of partition p with times from .. to that PartOfTimes selects; the time of a
\* sample is its number
Selected(p, from, to) ==
  LET stamps == [i \in 1 .. Samples(p) |-> Global(p, i)]
      found == PartOfTimes(p, stamps, from, to)
  IN IF Global(p, 1) > to \/ found = <<>> THEN {}
     ELSE {Global(p, i) : i \in found[1].first + 1 .. found[1].last}

\* Selected by time, no partition contributes a sample outside the span, and each leaves
\* out at most one within it (the last: its index is taken for the end of the range).
TimesInside ==
  \A p \in 0 .. NewestPartition, from, to \in 1 .. SamplesWritten :
    LET inside == {k \in Global(p, 1) .. Global(p, Samples(p)) : k \in from .. to} IN
    from <= to =>
      /\ Selected(p, from, to) \subseteq inside
      /\ \A k, l \in inside \ Selected(p, from, to) : k = l

\* A partition is open in one process at a time, as long as no other receiver is started.
ExclusiveAccess ==
  restarts = 0 => \A p \in Partitions : ~(writer.file = p /\ reader.file = p)

\* Not even then.
AlwaysExclusive ==
  \A p \in Partitions : ~(writer.file = p /\ reader.file = p)
=============================================================================
