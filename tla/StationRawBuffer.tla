-------------------------- MODULE StationRawBuffer --------------------------
(***************************************************************************)
(* The raw station beam: StationRawDoubleBuffer, filled by the             *)
(* StationRawData consumer thread (write_data) and emptied by the          *)
(* StationRawPersister thread (read_buffer, callback, release_buffer).     *)
(*                                                                         *)
(* A packet is its 64-bit unwrapped counter; a slot holds the counters of  *)
(* the packets copied to it, each at the offset of its counter from the    *)
(* slot's index.  Channels, frequencies and times are left out.            *)
(*                                                                         *)
(* Here the two threads do lock the slots.  A mutex remembers the thread   *)
(* that locked it, but unlock frees it whoever calls it, as the default    *)
(* mutex of the platform does, and a thread that locks one it holds waits. *)
(***************************************************************************)
EXTENDS RingIndex

CONSTANTS
  Window,       \* packets of one channel in a buffer: nof_samples / samples
  First,        \* counter of the first packet received
  IntMax,       \* largest value of the int that holds an index (2^31 - 1)
  MaxCounter,   \* bound: largest counter the stream sends
  MaxLate,      \* bound: how far behind the newest packet a packet may arrive
  MaxLoss,      \* bound: how far ahead of the newest packet the next one may be
  EarlierThanFirst,  \* may packets older than the first received one arrive?
  Paces         \* how soon the persister gives buffers back: see Init

ASSUME StationRawAssumption ==
  /\ {Window, First, IntMax} \subseteq Nat \ {0}
  /\ {MaxCounter, MaxLate, MaxLoss} \subseteq Nat
  /\ First <= IntMax
  /\ EarlierThanFirst \in BOOLEAN
  /\ Paces \subseteq {"prompt", "any"}

VARIABLES
  pace,           \* how soon the persister gives buffers back
  sample_index,   \* per slot: counter of the first packet, 0 if free
  ready,          \* the slots published to the persister
  slot_data,      \* per slot: the packets copied to it
  mutex,          \* per slot: the thread that holds its mutex, or "free"
  producer,       \* cursor of the receiving thread
  consumer,       \* cursor of the persister thread
  writer,         \* where the receiving thread is in write_data's wait
  packet_counter, \* the packet it holds meanwhile
  current_index,  \* its copy of the index of the buffer it leaves
  persister,      \* where the persister thread is in threadEntry
  stop_thread,    \* the persister has been told to stop
  newest,         \* largest counter the stream has sent (0: none yet)
  delivered       \* history: index of the last buffer given to the callback

contents == <<sample_index, slot_data>>
reception == <<producer, writer, packet_counter, current_index>>
reader == <<consumer, persister, delivered>>
vars == <<pace, contents, ready, mutex, reception, reader, stop_thread, newest>>

waiting == writer # "idle"

\* "prompt": before the next boundary; "any": at any time, so that waits may run out
Init ==
  /\ pace \in Paces
  /\ sample_index = [i \in Slots |-> 0]
  /\ ready = {}
  /\ slot_data = [i \in Slots |-> {}]
  /\ mutex = [i \in Slots |-> "free"]
  /\ producer = 0
  /\ consumer = 0
  /\ writer = "idle"
  /\ packet_counter = 0
  /\ current_index = 0
  /\ persister = "read"
  /\ delivered = 0
  /\ stop_thread = FALSE
  /\ newest = 0

Held(i, thread) == [mutex EXCEPT ![i] = thread]
-----------------------------------------------------------------------------
(* The stream: packets are lost, duplicated, and overtaken by others.       *)

Arrives(pc) ==
  /\ ~waiting
  /\ ~stop_thread
  /\ pc \in 1 .. MaxCounter
  /\ IF newest = 0 THEN pc = First
                   ELSE /\ pc + MaxLate >= newest
                        /\ pc <= newest + MaxLoss
                        /\ EarlierThanFirst \/ pc >= First
  /\ newest' = IF pc > newest THEN pc ELSE newest

\* an index that does not fit the int is negative, and compares with an unsigned
\* counter as one beyond all counters
Negative == MaxCounter + 1
Stored(pc) == IF pc > IntMax THEN pc + Negative ELSE pc

\* the counter an index stands for
Meant(i) == IF i > MaxCounter THEN i - Negative ELSE i

\* process_data
ProcessData(i, pc) == slot_data' = [slot_data EXCEPT ![i] = @ \cup {pc}]

IsOpen == sample_index[producer] # 0

WriteFirst(pc) ==
  /\ Arrives(pc)
  /\ ~IsOpen
  /\ sample_index' = [sample_index EXCEPT ![producer] = Stored(pc)]
  /\ ProcessData(producer, pc)
  /\ UNCHANGED <<pace, ready, mutex, reception, reader, stop_thread>>

IsLate(pc) == sample_index[producer] > pc

\* mutant: late packets are not compared with the previous buffer
NeverOlder(i, pc) == FALSE

\* is the packet older than the previous buffer as well?
IsOlderThan(i, pc) == sample_index[i] > pc

\* a packet older than the current buffer goes to the previous one or is ignored
WriteLate(pc) ==
  /\ Arrives(pc)
  /\ IsOpen
  /\ IsLate(pc)
  /\ IF IsOlderThan(Pred(producer), pc) THEN UNCHANGED slot_data
                                        ELSE ProcessData(Pred(producer), pc)
  /\ UNCHANGED <<pace, sample_index, ready, mutex, reception, reader, stop_thread>>

IsWithin(pc) == pc - sample_index[producer] < Window

WriteCurrent(pc) ==
  /\ Arrives(pc)
  /\ IsOpen
  /\ ~IsLate(pc)
  /\ IsWithin(pc)
  /\ ProcessData(producer, pc)
  /\ UNCHANGED <<pace, sample_index, ready, mutex, reception, reader, stop_thread>>

\* mutant: the slot just filled is published, late packets or not
PublishCurrent(i) == ready' = ready \cup {producer}

\* the slot published at a boundary is the one before the previous
Publish(i) == ready' = IF sample_index[i] # 0 THEN ready \cup {i} ELSE ready

\* the persister has given back what was published so far
CaughtUp == persister = "read" /\ consumer \notin ready

\* any packet beyond the current buffer, however far, moves on by one slot
CrossBoundary(pc) ==
  /\ Arrives(pc)
  /\ IsOpen
  /\ ~IsLate(pc)
  /\ ~IsWithin(pc)
  /\ pace = "prompt" => CaughtUp
  /\ Publish(Pred2(producer))
  /\ producer' = Succ(producer)
  /\ writer' = "lock"
  /\ packet_counter' = pc
  /\ current_index' = sample_index[producer]
  /\ UNCHANGED <<pace, contents, mutex, reader, stop_thread>>

WriteData(pc) ==
  \/ WriteFirst(pc)
  \/ WriteLate(pc)
  \/ WriteCurrent(pc)
  \/ CrossBoundary(pc)

-----------------------------------------------------------------------------
(* write_data's wait for the next slot                                      *)

LockSlot ==
  /\ writer = "lock"
  /\ mutex[producer] = "free"
  /\ mutex' = Held(producer, "writer")
  /\ writer' = "check"
  /\ UNCHANGED <<pace, contents, ready, producer, packet_counter, current_index, reader,
                 stop_thread, newest>>

\* the slot is not consumed yet: unlock it and sleep
Sleep ==
  /\ writer = "check"
  /\ IsOpen
  /\ mutex' = Held(producer, "free")
  /\ writer' = "sleep"
  /\ UNCHANGED <<pace, contents, ready, producer, packet_counter, current_index, reader,
                 stop_thread, newest>>

\* lock it again, and look once more or give up
LockAgain(next) ==
  /\ writer = "sleep"
  /\ mutex[producer] = "free"
  /\ mutex' = Held(producer, "writer")
  /\ writer' = next
  /\ UNCHANGED <<pace, contents, ready, producer, packet_counter, current_index, reader,
                 stop_thread, newest>>

Relock == LockAgain("check")

\* enough time has passed to take the slot as it is
WaitRunsOut == LockAgain("overwrite")

\* the slot whose mutex is unlocked in the end is the persister's
UnlockedSlot == consumer

\* the counter of the packet that opens the buffer (and mutant of NextIndex)
PacketsIndex == Stored(packet_counter)

\* an index that compares as larger than the packet's counter is replaced by it
NextIndex ==
  LET next == Stored(Meant(current_index) + Window) IN
  IF next > packet_counter THEN PacketsIndex ELSE next

\* take the slot and store the packet
UseSlot(previous) ==
  /\ sample_index' = [sample_index EXCEPT ![producer] = NextIndex]
  /\ slot_data' = [slot_data EXCEPT ![producer] = previous \cup {packet_counter}]
  /\ mutex' = Held(UnlockedSlot, "free")
  /\ writer' = "idle"
  /\ packet_counter' = 0
  /\ current_index' = 0
  /\ UNCHANGED <<pace, producer, reader, stop_thread, newest>>

ClaimSlot ==
  /\ writer = "check"
  /\ ~IsOpen
  /\ UseSlot(slot_data[producer])
  /\ UNCHANGED ready

\* the wait ran out: clear the slot and use it, consumed or not
OverwriteSlot ==
  /\ writer = "overwrite"
  /\ UseSlot({})
  /\ ready' = ready \ {producer}

Writer == LockSlot \/ Sleep \/ Relock \/ WaitRunsOut \/ ClaimSlot \/ OverwriteSlot

-----------------------------------------------------------------------------
(* StationRawPersister::threadEntry                                         *)

\* read_buffer finds a ready slot ...
FindReady ==
  /\ persister = "read"
  /\ consumer \in ready
  /\ persister' = "lock"
  /\ UNCHANGED <<pace, contents, ready, mutex, reception, consumer, delivered, stop_thread, newest>>

\* ... and locks it; the callback gets it unless the thread is to stop
LockBuffer ==
  /\ persister = "lock"
  /\ mutex[consumer] = "free"
  /\ mutex' = Held(consumer, "persister")
  /\ IF stop_thread
       THEN persister' = "stopped" /\ UNCHANGED delivered
       ELSE persister' = "callback" /\ delivered' = Meant(sample_index[consumer])
  /\ UNCHANGED <<pace, contents, ready, reception, consumer, stop_thread, newest>>

\* release_buffer: clear resets the flags and the index first ...
ClearFlags ==
  /\ persister = "callback"
  /\ ready' = ready \ {consumer}
  /\ sample_index' = [sample_index EXCEPT ![consumer] = 0]
  /\ persister' = "clear"
  /\ UNCHANGED <<pace, slot_data, mutex, reception, consumer, delivered, stop_thread, newest>>

\* mutant: the data is not cleared
KeepData ==
  /\ persister = "clear"
  /\ mutex' = Held(consumer, "free")
  /\ consumer' = Succ(consumer)
  /\ persister' = IF stop_thread THEN "stopped" ELSE "read"
  /\ UNCHANGED <<pace, contents, ready, reception, delivered, stop_thread, newest>>

\* mutant: the mutex stays locked
KeepLocked ==
  /\ persister = "clear"
  /\ slot_data' = [slot_data EXCEPT ![consumer] = {}]
  /\ consumer' = Succ(consumer)
  /\ persister' = IF stop_thread THEN "stopped" ELSE "read"
  /\ UNCHANGED <<pace, sample_index, ready, mutex, reception, delivered, stop_thread, newest>>

\* ... and the data last; then the slot is unlocked and the cursor moves on
ReleaseBuffer ==
  /\ persister = "clear"
  /\ slot_data' = [slot_data EXCEPT ![consumer] = {}]
  /\ mutex' = Held(consumer, "free")
  /\ consumer' = Succ(consumer)
  /\ persister' = IF stop_thread THEN "stopped" ELSE "read"
  /\ UNCHANGED <<pace, sample_index, ready, reception, delivered, stop_thread, newest>>

PersisterStops ==
  /\ persister = "read"
  /\ stop_thread
  /\ consumer \notin ready
  /\ persister' = "stopped"
  /\ UNCHANGED <<pace, contents, ready, mutex, reception, consumer, delivered, stop_thread, newest>>

Persister ==
  FindReady \/ LockBuffer \/ ClearFlags \/ ReleaseBuffer \/ PersisterStops

\* cleanUp stops the persister once the receiving thread has ended
CleanUp ==
  /\ ~stop_thread
  /\ ~waiting
  /\ stop_thread' = TRUE
  /\ UNCHANGED <<pace, contents, ready, mutex, reception, reader, newest>>

Terminated ==
  /\ persister = "stopped"
  /\ UNCHANGED vars

Next ==
  \/ \E pc \in 1 .. MaxCounter : WriteData(pc)
  \/ Writer
  \/ Persister
  \/ CleanUp
  \/ Terminated

Spec == Init /\ [][Next]_vars

\* both threads keep running and the sleeps of a wait add up; nothing is assumed of
\* the stream
FairSpec == Spec /\ WF_vars(Writer) /\ SF_vars(WaitRunsOut) /\ WF_vars(Persister)
-----------------------------------------------------------------------------
(* Properties                                                               *)

\* Every variable keeps its type: cursors stay in the ring and each thread is at
\* a known place.
TypeOK ==
  /\ pace \in Paces
  /\ sample_index \in [Slots -> Nat]
  /\ ready \in SUBSET Slots
  /\ slot_data \in [Slots -> SUBSET Nat]
  /\ mutex \in [Slots -> {"free", "writer", "persister"}]
  /\ producer \in Slots
  /\ consumer \in Slots
  /\ writer \in {"idle", "lock", "check", "sleep", "overwrite"}
  /\ packet_counter \in Nat
  /\ current_index \in Nat
  /\ persister \in {"read", "lock", "callback", "clear", "stopped"}
  /\ delivered \in Nat
  /\ stop_thread \in BOOLEAN
  /\ newest \in Nat

InCallback == persister = "callback"

\* While buffers are given back promptly, every packet is copied to a place inside
\* its slot: its counter is within Window of the slot's index.  process_data computes
\* the place from their difference and checks nothing (StationDataRaw.cpp:442-447).
PacketsInBuffer ==
  pace = "prompt" => \A i \in Slots :
    LET start == Meant(sample_index[i]) IN
    sample_index[i] # 0 => slot_data[i] \subseteq start .. start + Window - 1

\* No packet is copied to a slot that belongs to no buffer, outside release.
FreeSlotsEmpty ==
  \A i \in Slots :
    sample_index[i] = 0 =>
      \/ slot_data[i] = {}
      \/ i = consumer /\ persister = "clear"

\* While buffers are given back promptly, the callback receives the buffers of the
\* stream one after the other.
SuccessiveBuffers ==
  [][pace = "prompt" /\ delivered' # delivered /\ delivered # 0
       => delivered' = delivered + Window]_vars

\* While buffers are given back promptly, the slot in the callback keeps its index
\* and its packets: read_buffer locks it "so that it's not overwritten by the
\* producer" (StationDataRaw.cpp:495).
StableDuringCallback ==
  [][pace = "prompt" /\ InCallback /\ InCallback'
       => /\ sample_index'[consumer] = sample_index[consumer]
          /\ slot_data'[consumer] = slot_data[consumer]]_vars

\* The slot the callback gets is one that was published, and still is: read_buffer
\* looks at ready, to "wait for buffer to become available", before it has the
\* mutex (StationDataRaw.cpp:489).
CallbackGetsReady == [][InCallback' /\ ~InCallback => consumer \in ready]_vars

\* A slot with a buffer in it is locked by the persister before it is read, even
\* if the producer left the slot's mutex locked when it claimed the slot.
PublishedIsDelivered ==
  \A i \in Slots :
    i \in ready /\ persister = "read"
      ~> (InCallback /\ consumer = i) \/ stop_thread

\* While buffers are given back promptly the receiving thread gets its slot in the
\* end: "if enough time passes, then the buffer will be acquired regardless"
\* (StationDataRaw.cpp:393-395).
WaitEnds == waiting /\ pace = "prompt" ~> ~waiting
=============================================================================
