-------------------------- MODULE FilePartitions --------------------------
(***************************************************************************)
(* What the file managers of pydaq/persisters put on disk: the set of      *)
(* files of one consumer and tile.  A file is named after the second of    *)
(* the timestamp it is filed under, and is split into partitions by size.  *)
(* ingest_data decides between appending to the newest partition, writing  *)
(* partition 0 and beginning a new partition, and what is added to the     *)
(* timestamps of the samples; the five subclasses do the rest.             *)
(*                                                                         *)
(* Times are in units of the sampling time, sizes in buffers.  An HDF5     *)
(* dataset is the sequence of the buffers in it, a buffer is its time (the *)
(* timestamp the receiver gave it) and the timestamp of its first sample.  *)
(***************************************************************************)
EXTENDS Integers, Sequences, FileDimensions

CONSTANTS
  TicksPerSecond,  \* resolution of the time in a file's name
  Usages,          \* the ways daq_receiver calls ingest_data, see Usage
  Gaps,            \* samples lost between two buffers
  MaxTime          \* bound: last time at which a buffer may begin

Kinds == {"raw", "channel", "beam", "stationbeam", "correlation"}

\* how a callback of daq_receiver uses its file manager: append mode or not, which
\* sampling time, whether it passes buffer_timestamp, and (raw files only) whether
\* every sample gets a timestamp
Usage == [kind : Kinds, append : BOOLEAN, sampling_time : {0, 1},
          buffer_timestamp : BOOLEAN, per_sample : BOOLEAN]

\* the first partition of a file outlasts the second it is named after
ASSUME FileAssumption ==
  /\ NSamples \in Nat \ {0}
  /\ TicksPerSecond \in Nat \ {0}
  /\ FileSize \in Nat \ {0, 1}
  /\ TicksPerSecond <= FileSize * NSamples
  /\ Usages \subseteq Usage
  /\ Gaps \subseteq Nat
  /\ MaxTime \in Nat

\* every callback that appends says when its buffer begins
ASSUME UsageAssumption == \A u \in Usages : u.append => u.buffer_timestamp

VARIABLES
  usage,      \* fixed: the consumer's
  disk,       \* the partitions of each second's file
  timestamp,  \* what appended buffers are filed under, NoTime before the first
  time,       \* when the buffer that comes next begins
  ingested    \* history: the buffers of each second's file, in the order they came

vars == <<usage, disk, timestamp, time, ingested>>

NoTime == 0

Second(t) == t \div TicksPerSecond

Seconds == 0 .. Second(MaxTime)

Init ==
  /\ usage \in Usages
  /\ disk = [s \in Seconds |-> <<>>]
  /\ timestamp = NoTime
  /\ time \in 1 .. TicksPerSecond
  /\ ingested = [s \in Seconds |-> <<>>]
-----------------------------------------------------------------------------
(* One partition: timestamps of its samples, and the two attributes that    *)
(* say which span they cover                                                 *)

\* create_file: an empty file
NewPartition(ts) == [blocks |-> <<>>, ts_start |-> ts, ts_end |-> ts]

\* mutant: the pad is added to the offset alone
PadOnly(given, ts, pad) == IF pad > 0 THEN pad ELSE given

\* what the subclasses add to the offset of each sample: the pad replaces the
\* file's timestamp, but is added to the buffer's
Padded(given, ts, pad) == given + pad - (IF pad > 0 THEN ts ELSE 0)

Given(ts, now) == IF usage.buffer_timestamp THEN now ELSE ts

\* timestamp of a buffer's first sample; without a sampling time all are zero
FirstStamp(given, ts, pad) ==
  IF usage.sampling_time = 0 THEN 0 ELSE Padded(given, ts, pad)

LastStamp(first) == first + usage.sampling_time * (NSamples - 1)

Block(now, first) == [time |-> now, stamp |-> first]

AddBlock(part, now, first) == [part EXCEPT !.blocks = Append(@, Block(now, first))]

\* mutant: the end of the span is not kept
EndNotKept(part, now, first) == AddBlock(part, now, first)

Appended(part, now, first) ==
  [AddBlock(part, now, first) EXCEPT !.ts_end = LastStamp(first)]

Written(part, now, first) ==
  [Appended(part, now, first) EXCEPT !.ts_start = first]

AppendChannel(part, ts, now, pad) ==
  Appended(part, now, FirstStamp(Given(ts, now), ts, pad))

WriteChannel(ts, now, pad) ==
  Written(NewPartition(ts), now, FirstStamp(Given(ts, now), ts, pad))

AppendBeam(part, ts, now, pad) ==
  Appended(part, now, FirstStamp(Given(ts, now), ts, pad))

WriteBeam(ts, now, pad) ==
  Written(NewPartition(ts), now, FirstStamp(Given(ts, now), ts, pad))

\* the number of packets behind each sample is kept beside it
AppendStationBeam(part, ts, now, pad) ==
  Appended(part, now, FirstStamp(Given(ts, now), ts, pad))

WriteStationBeam(ts, now, pad) ==
  Written(NewPartition(ts), now, FirstStamp(Given(ts, now), ts, pad))

\* the span's attributes stay as create_file set them
AppendCorrelation(part, ts, now, pad) ==
  AddBlock(part, now, FirstStamp(Given(ts, now), ts, pad))

WriteCorrelation(ts, now, pad) ==
  AddBlock(NewPartition(ts), now, FirstStamp(Given(ts, now), ts, pad))

\* without a sampling time the timestamp of the file is added instead
RawStamp(given, ts, pad) ==
  Padded(given, ts, pad) + (IF usage.sampling_time = 0 THEN ts ELSE 0)

AppendRaw(part, ts, now, pad) ==
  IF usage.per_sample
    THEN Appended(part, now, RawStamp(Given(ts, now), ts, pad))
    ELSE AddBlock(part, now, 0)

WriteRaw(ts, now, pad) ==
  IF usage.per_sample
    THEN Written(NewPartition(ts), now,
                 RawStamp(IF usage.buffer_timestamp THEN now ELSE 0, ts, pad))
    ELSE AddBlock(NewPartition(ts), now, 0)

AppendData(part, ts, now, pad) ==
  CASE usage.kind = "raw" -> AppendRaw(part, ts, now, pad)
    [] usage.kind = "channel" -> AppendChannel(part, ts, now, pad)
    [] usage.kind = "beam" -> AppendBeam(part, ts, now, pad)
    [] usage.kind = "stationbeam" -> AppendStationBeam(part, ts, now, pad)
    [] usage.kind = "correlation" -> AppendCorrelation(part, ts, now, pad)

WriteData(ts, now, pad) ==
  CASE usage.kind = "raw" -> WriteRaw(ts, now, pad)
    [] usage.kind = "channel" -> WriteChannel(ts, now, pad)
    [] usage.kind = "beam" -> WriteBeam(ts, now, pad)
    [] usage.kind = "stationbeam" -> WriteStationBeam(ts, now, pad)
    [] usage.kind = "correlation" -> WriteCorrelation(ts, now, pad)
-----------------------------------------------------------------------------
(* AAVSFileManager: the partitions of a file, numbered from 0               *)

\* the largest number, -1 if there is no file
file_partitions(ts) == Len(disk[Second(ts)]) - 1

Partition(ts, id) == disk[Second(ts)][id + 1]

file_final_timestamp(ts, id) ==
  IF id \in 0 .. file_partitions(ts) THEN Partition(ts, id).ts_end ELSE 0

file_size(ts) ==
  IF file_partitions(ts) < 0 THEN 0 ELSE Len(Partition(ts, file_partitions(ts)).blocks)

\* a partition put at number id: a file that was there is truncated
Put(ts, id, part) ==
  disk' = [disk EXCEPT ![Second(ts)] =
             IF id < Len(@) THEN [@ EXCEPT ![id + 1] = part] ELSE Append(@, part)]

\* what appending adds to the timestamps, from the partition before the newest
AppendPad(ts) ==
  LET last == file_partitions(ts)
      final == IF last > 0 THEN file_final_timestamp(ts, last - 1) ELSE 0
  IN IF final > 0 THEN final + usage.sampling_time ELSE final

AppendToNewest(ts, now) ==
  LET last == file_partitions(ts) IN
  IF last < 0
    THEN Put(ts, 0, AppendData(NewPartition(ts), ts, now, AppendPad(ts)))
    ELSE Put(ts, last, AppendData(Partition(ts, last), ts, now, AppendPad(ts)))

\* mutant: the newest partition begins anew
Overwrite(ts, now) ==
  Put(ts, file_partitions(ts),
      WriteData(ts, now, file_final_timestamp(ts, file_partitions(ts)) + usage.sampling_time))

BeginPartition(ts, now) ==
  LET last == file_partitions(ts) IN
  Put(ts, last + 1,
      WriteData(ts, now, file_final_timestamp(ts, last) + usage.sampling_time))

HasRoom(ts) == file_size(ts) < FileSize

ingest_data(ts, now) ==
  \/ HasRoom(ts) /\ usage.append /\ AppendToNewest(ts, now)
  \/ HasRoom(ts) /\ ~usage.append /\ Put(ts, 0, WriteData(ts, now, 0))
  \/ ~HasRoom(ts) /\ BeginPartition(ts, now)
-----------------------------------------------------------------------------
(* The callbacks of daq_receiver, and a stop and start of the receiver      *)

\* what a callback files its buffer under: in append mode, the first one's timestamp
BaseTimestamp == IF usage.append /\ timestamp # NoTime THEN timestamp ELSE time

\* the timestamps of the receiver have the append modes' only
Remembered == IF usage.append THEN BaseTimestamp ELSE NoTime

Callback ==
  /\ time <= MaxTime
  /\ ingest_data(BaseTimestamp, time)
  /\ timestamp' = Remembered
  /\ ingested' = [ingested EXCEPT ![Second(BaseTimestamp)] = Append(@, time)]
  /\ \E gap \in Gaps : time' = time + NSamples + gap
  /\ UNCHANGED usage

Restart ==
  /\ timestamp # NoTime
  /\ timestamp' = NoTime
  /\ UNCHANGED <<usage, disk, time, ingested>>

Next == Callback \/ Restart

Spec == Init /\ [][Next]_vars
-----------------------------------------------------------------------------
(* Properties                                                               *)

PartitionType == [blocks : Seq([time : Nat, stamp : Int]), ts_start : Int, ts_end : Int]

\* Files are sequences of partitions, which are sequences of buffers.
TypeOK ==
  /\ usage \in Usages
  /\ disk \in [Seconds -> Seq(PartitionType)]
  /\ timestamp \in Nat /\ (timestamp # NoTime => usage.append)
  /\ time \in Nat \ {0}
  /\ ingested \in [Seconds -> Seq(Nat)]

Blocks(s, p) == disk[s][p].blocks

\* In append mode the partitions of a file, one after the other, hold every buffer that
\* was filed under its name, once and in order: whatever the gaps, and a restart that meets
\* the file of its own second.  A partition is begun when, and only when, the newest one
\* is full, so that FileSize buffers are in each one before.
NothingLost ==
  usage.append => \A s \in Seconds :
    /\ \A p \in DOMAIN disk[s] :
         /\ Len(Blocks(s, p)) \in 1 .. FileSize
         /\ p < Len(disk[s]) => Len(Blocks(s, p)) = FileSize
         /\ \A i \in DOMAIN Blocks(s, p) :
              Blocks(s, p)[i].time = ingested[s][(p - 1) * FileSize + i]
    /\ Len(ingested[s]) = IF disk[s] = <<>> THEN 0
                          ELSE (Len(disk[s]) - 1) * FileSize + Len(Blocks(s, Len(disk[s])))

Stamped == usage.per_sample /\ (usage.sampling_time # 0 \/ usage.kind = "raw")

\* Timestamps grow from buffer to buffer and from partition to partition by at least
\* the duration of a buffer, although every partition shifts them.  (Not in correlation
\* files, whose ts_end stays the timestamp of the file: after a restart within the second
\* that names it the next partition's may fall back.)
StampsOrdered ==
  Stamped /\ usage.kind # "correlation" => \A s \in Seconds : \A p, q \in DOMAIN disk[s] :
    \A i \in DOMAIN Blocks(s, p), j \in DOMAIN Blocks(s, q) :
      p < q \/ (p = q /\ i < j) =>
        Blocks(s, p)[i].stamp + NSamples * usage.sampling_time <= Blocks(s, q)[j].stamp

\* ts_start and ts_end of a partition enclose the timestamps in it: queries by time
\* choose partitions by them.  (Correlation files do not keep them.)
SpanCovers ==
  Stamped /\ usage.kind # "correlation" =>
    \A s \in Seconds : \A p \in DOMAIN disk[s] : \A i \in DOMAIN Blocks(s, p) :
      /\ disk[s][p].ts_start <= Blocks(s, p)[i].stamp
      /\ LastStamp(Blocks(s, p)[i].stamp) <= disk[s][p].ts_end

\* What the docstring of ingest_data says of buffer_timestamp, "Timestamp for this
\* particular input buffer", would be this, in every partition.
StampsExact ==
  Stamped => \A s \in Seconds : \A p \in DOMAIN disk[s] : \A i \in DOMAIN Blocks(s, p) :
    Blocks(s, p)[i].stamp = Blocks(s, p)[i].time
=============================================================================
