--------------------------- MODULE PartitionQuery ---------------------------
(***************************************************************************)
(* How the file managers find and read samples of a file that is split     *)
(* into partitions: get_total_samples_in_all_partitions, the two           *)
(* get_file_partition_indexes_to_read_given_... and the _read_data of the  *)
(* subclasses.  The arguments are what the code reads from the files, so   *)
(* that a reader may take each at another time (see FileAccess).           *)
(***************************************************************************)
EXTENDS Integers, Sequences

\* rows first + 1 .. last of a partition, which is numbered from 0
Part(partition, first, last) == [partition |-> partition, first |-> first, last |-> last]

\* what an operation that raises or gives up returns: no row has that number
Failed == <<-1>>

\* offset from the back, and no more samples than there are
QueryOffset(offset, total) == IF offset < 0 THEN total + offset ELSE offset

QuerySamples(offset, n, total) == IF offset + n > total THEN total - offset ELSE n

StartPartition(offset, per_partition) == offset \div per_partition

\* mutant: a query that ends with a partition goes on in the next
EndIsNext(offset, n, per_partition) == (offset + n) \div per_partition + 1

EndPartition(offset, n, per_partition) == (offset + n) \div (per_partition + 1)

\* the partitions exist; if not nothing is read
Exist(offset, n, per_partition, nof_partitions) ==
  /\ EndPartition(offset, n, per_partition) < nof_partitions
  /\ StartPartition(offset, per_partition) < nof_partitions

EndIndex(offset, n, per_partition, in_last) ==
  LET index == offset + n - per_partition * EndPartition(offset, n, per_partition)
  IN IF index > in_last THEN in_last ELSE index

\* the partitions in between are those of start_partition
PartsOfSamples(offset, n, per_partition, in_last) ==
  LET start == StartPartition(offset, per_partition)
      end == EndPartition(offset, n, per_partition)
      first == offset - per_partition * start
      last == EndIndex(offset, n, per_partition, in_last)
      between == [i \in 1 .. end - start - 1 |-> Part(start, 0, per_partition)]
  IN IF start = end
       THEN <<Part(start, first, last)>>
       ELSE <<Part(start, first, per_partition)>> \o between
              \o (IF last # 0 THEN <<Part(end, 0, last)>> ELSE <<>>)

\* mutant: the first row after the span is the last
OneMore(partition, stamps, from, to) ==
  LET notBefore == {i \in DOMAIN stamps : stamps[i] >= from}
      notAfter == {i \in DOMAIN stamps : stamps[i] <= to}
      Least(S) == CHOOSE i \in S : \A j \in S : i <= j
  IN IF notBefore = {} THEN <<>>
     ELSE <<Part(partition, Least(notBefore) - 1, Least(notBefore) + Len(stamps))>>

\* the rows of one partition, with these timestamps, from the first that is not before
\* from to the last that is not after to; the last index is included here, but is the
\* end of the range that is read
PartOfTimes(partition, stamps, from, to) ==
  LET notBefore == {i \in DOMAIN stamps : stamps[i] >= from}
      after == {i \in DOMAIN stamps : stamps[i] > to}
      Least(S) == CHOOSE i \in S : \A j \in S : i <= j
      last == IF after = {} THEN Len(stamps) ELSE Least(after) - 1
  IN IF notBefore = {} THEN <<>> ELSE <<Part(partition, Least(notBefore) - 1, last - 1)>>
-----------------------------------------------------------------------------
(* _read_data: n rows from offset on, of a dataset with so many rows        *)

Filler == 0

Rows(offset, n) == [i \in 1 .. n |-> offset + i]

RowsFromStart(rows, n) == [i \in 1 .. n |-> IF i <= rows THEN i ELSE Filler]

\* beyond the end the rows are read from the start of the file
ReadRaw(rows, offset, n) ==
  IF offset + n <= rows THEN Rows(offset, n)
  ELSE IF n < rows THEN Failed ELSE RowsFromStart(rows, n)

ReadBeam(rows, offset, n) ==
  IF offset + n <= rows THEN Rows(offset, n)
  ELSE IF n < rows THEN Failed ELSE RowsFromStart(rows, n)

ReadStationBeam(rows, offset, n) ==
  IF offset + n <= rows THEN Rows(offset, n)
  ELSE IF n < rows THEN Failed ELSE RowsFromStart(rows, n)

\* beyond the end as many rows are added as the file is short of n, which are too few
\* unless the file is read from its start
ReadChannel(rows, offset, n) ==
  IF offset + n <= rows THEN Rows(offset, n)
  ELSE IF offset # 0 THEN Failed ELSE RowsFromStart(rows, n)

\* beyond the end there are fewer rows
ReadCorrelation(rows, offset, n) ==
  IF offset + n <= rows THEN Rows(offset, n)
  ELSE IF offset < rows THEN Rows(offset, rows - offset) ELSE <<>>

ReadRows(kind, rows, offset, n) ==
  CASE n < 0 -> Failed
    [] n >= 0 /\ kind = "raw" -> ReadRaw(rows, offset, n)
    [] n >= 0 /\ kind = "beam" -> ReadBeam(rows, offset, n)
    [] n >= 0 /\ kind = "stationbeam" -> ReadStationBeam(rows, offset, n)
    [] n >= 0 /\ kind = "channel" -> ReadChannel(rows, offset, n)
    [] n >= 0 /\ kind = "correlation" -> ReadCorrelation(rows, offset, n)
=============================================================================
