-------------------------- MODULE CorrelatorBuffer --------------------------
(***************************************************************************)
(* The correlator's DoubleBuffer when one channel is correlated            *)
(* continuously (nof_channels = 1): the CorrelatorData thread fills it     *)
(* (write_data_single_channel, finish_write on a receive timeout) and the  *)
(* CrossCorrelator thread empties it (read_buffer, xGPU, release_buffer).  *)
(*                                                                         *)
(* A packet is its counter, which is its time as well; a slot has a place  *)
(* for each packet of a buffer, and counts those copied since it was       *)
(* claimed.  Claiming and releasing reset the counts but not the samples:  *)
(* clear(), which does, is not called.  Antennas and tiles are not told    *)
(* apart: their packets share a counter.                                   *)
(*                                                                         *)
(* finish_write and the boundary code look at the previous slot and then   *)
(* mark it ready, without its mutex: two steps.  Claiming a slot and       *)
(* releasing one take the slot's mutex.                                    *)
(***************************************************************************)
EXTENDS RingIndex

CONSTANTS
  Window,       \* packets in a buffer: nof_samples / samples
  First,        \* counter of the first packet received
  MaxCounter,   \* bound: largest counter the stream sends
  MaxUnsteady,  \* bound: the same at any pace
  MaxLate,      \* bound: how far behind the newest packet a packet may arrive
  BoundaryLoss, \* may the packets that start a buffer be lost?
  Paces         \* how the stream and the correlator run: see Init

ASSUME CorrelatorAssumption ==
  /\ {Window, First} \subseteq Nat \ {0}
  /\ {MaxCounter, MaxUnsteady, MaxLate} \subseteq Nat
  /\ BoundaryLoss \in BOOLEAN
  /\ Paces \subseteq {"steady", "any"}

VARIABLES
  pace,           \* how the stream and the correlator run
  channel,        \* the slots whose channel is set (not -1)
  index,          \* the slots whose index is set (not -1)
  ref_time,       \* per slot: its earliest packet, 0 or Never if none
  ready,          \* the slots published to the correlator
  counted,        \* per slot: the packets that nof_packets and read_samples count
  samples,        \* per slot and place in data: the packet copied there last (0: none)
  producer,       \* cursor of the receiving thread
  writer,         \* where the receiving thread is in the handling of a packet
  packet,         \* the packet it holds meanwhile (0: none)
  in_use,         \* what it saw of the previous slot
  reference_counter, \* counter of the packet at the start of a buffer (0: none)
  consumer,       \* cursor of the correlator thread
  correlator,     \* where the correlator thread is in threadEntry
  delivered,      \* history: ref_time of the last buffer correlated
  stop_thread,    \* the correlator has been told to stop
  newest          \* largest counter the stream has sent (0: none yet)

slot == <<channel, index, ref_time>>
contents == <<slot, ready, counted, samples>>
receiver == <<producer, writer, packet, in_use, reference_counter>>
reader == <<consumer, correlator, delivered>>
vars == <<pace, contents, receiver, reader, stop_thread, newest>>

\* ref_time of a released slot: DBL_MAX
Never == MaxCounter + 1

\* the packets' places in a slot
Places == 0 .. Window - 1

\* "steady": the stream does not pause for the receive timeout, nor does the 1 ms wait
\* for a slot run out; "any": both may happen, and a correlation may last forever
Init ==
  /\ pace \in Paces
  /\ channel = {}
  /\ index = {}
  /\ ref_time = [i \in Slots |-> 0]
  /\ ready = {}
  /\ counted = [i \in Slots |-> {}]
  /\ samples = [i \in Slots |-> [k \in Places |-> 0]]
  /\ producer = 0
  /\ writer = "idle"
  /\ packet = 0
  /\ in_use = FALSE
  /\ reference_counter = 0
  /\ consumer = 0
  /\ correlator = "read"
  /\ delivered = 0
  /\ stop_thread = FALSE
  /\ newest = 0

Releasing == correlator \in {"flag", "reset"}
-----------------------------------------------------------------------------
(* The stream and CorrelatorData::processPacket                             *)

\* the counter that packet indices are relative to: the first packet's
Reference(t) == IF reference_counter = 0 THEN t ELSE reference_counter

PacketIndex(t) == (t - Reference(t)) % Window

\* packets are lost, duplicated and reordered, but none is late by a whole receive
\* timeout; a packet that starts a buffer is lost only if BoundaryLoss
Arrives(t) ==
  /\ writer = "idle"
  /\ ~stop_thread
  /\ t \in First .. (IF pace = "steady" THEN MaxCounter ELSE MaxUnsteady)
  /\ IF newest = 0
       THEN t = First
       ELSE /\ t + MaxLate >= newest
            /\ reference_counter = 0 => t > newest
            /\ BoundaryLoss \/ \A u \in newest + 1 .. t - 1 : PacketIndex(u) # 0
  /\ newest' = IF t > newest THEN t ELSE newest
  /\ reference_counter' = Reference(t)

\* copy_data
CopyData(i, t) ==
  /\ samples' = [samples EXCEPT ![i] = [@ EXCEPT ![PacketIndex(t)] = t]]
  /\ counted' = [counted EXCEPT ![i] = @ \cup {t}]
  /\ ref_time' = [ref_time EXCEPT ![i] = IF @ > t \/ @ = 0 THEN t ELSE @]

-----------------------------------------------------------------------------
(* write_data_single_channel                                                *)

\* mutant: the first packet of the buffer counts as older
AtItsStart(t) == ref_time[producer] >= t

\* is the packet older than the current buffer?
IsPrevious(t) == ref_time[producer] > t

\* a packet before the current buffer goes to the previous slot, whatever it holds
WritePrevious(t) ==
  /\ Arrives(t)
  /\ IsPrevious(t)
  /\ CopyData(Pred(producer), t)
  /\ index' = index \cup {Pred(producer)}
  /\ UNCHANGED <<pace, channel, ready, producer, writer, packet, in_use, reader, stop_thread>>

\* the current slot is empty
WriteEmpty(t) ==
  /\ Arrives(t)
  /\ ~IsPrevious(t)
  /\ producer \notin channel
  /\ channel' = channel \cup {producer}
  /\ index' = index \cup {producer}
  /\ CopyData(producer, t)
  /\ UNCHANGED <<pace, ready, producer, writer, packet, in_use, reader, stop_thread>>

\* the first packet of a buffer, at least one buffer after the current one's
IsBoundary(t) == PacketIndex(t) = 0 /\ t >= ref_time[producer] + Window

WriteCurrent(t) ==
  /\ Arrives(t)
  /\ ~IsPrevious(t)
  /\ producer \in channel
  /\ ~IsBoundary(t)
  /\ CopyData(producer, t)
  /\ UNCHANGED <<pace, channel, index, ready, producer, writer, packet, in_use, reader, stop_thread>>

\* the buffer is full: look at the previous slot ...
CrossBoundary(t) ==
  /\ Arrives(t)
  /\ ~IsPrevious(t)
  /\ producer \in channel
  /\ IsBoundary(t)
  /\ in_use' = (Pred(producer) \in index)
  /\ writer' = "publish"
  /\ packet' = t
  /\ UNCHANGED <<pace, contents, producer, reader, stop_thread>>

\* the buffer published is the one before the one just filled
Published == Pred(producer)

\* ... and mark it ready, move on, and wait for the next slot
PublishPrevious ==
  /\ writer = "publish"
  /\ ready' = IF in_use THEN ready \cup {Published} ELSE ready
  /\ producer' = Succ(producer)
  /\ in_use' = FALSE
  /\ writer' = "wait"
  /\ UNCHANGED <<pace, slot, counted, samples, packet, reference_counter, reader, stop_thread, newest>>

\* mutant: the slot is used without waiting for it
ClaimAtOnce == TRUE

\* mutant: the wait has no end
ClaimWhenFree == producer \notin index

MayClaim == producer \notin index \/ pace = "any"

\* the mutex of the slot is free
Unlocked(i) == ~(Releasing /\ consumer = i)

\* start using the slot: every field is reset before the packet, the first of its
\* buffer, is copied; the samples of the lap before stay where none comes
ClaimSlot ==
  /\ writer = "wait"
  /\ MayClaim
  /\ Unlocked(producer)
  /\ channel' = channel \cup {producer}
  /\ index' = index \cup {producer}
  /\ ready' = ready \ {producer}
  /\ ref_time' = [ref_time EXCEPT ![producer] = packet]
  /\ counted' = [counted EXCEPT ![producer] = {packet}]
  /\ samples' = [samples EXCEPT ![producer] = [@ EXCEPT ![0] = packet]]
  /\ packet' = 0
  /\ writer' = "idle"
  /\ UNCHANGED <<pace, producer, in_use, reference_counter, reader, stop_thread, newest>>

-----------------------------------------------------------------------------
(* finish_write, when no packet came for the receive timeout                *)

\* look at the previous slot ...
FinishWrite ==
  /\ pace = "any"
  /\ writer = "idle"
  /\ ~stop_thread
  /\ in_use' = (Pred(producer) \in channel)
  /\ writer' = "finish"
  /\ UNCHANGED <<pace, contents, producer, packet, reference_counter, reader, stop_thread, newest>>

\* ... and mark it ready, then the current one, and forget the reference
FinishReady ==
  /\ writer = "finish"
  /\ ready' = ready \cup (IF in_use THEN {Pred(producer)} ELSE {})
                    \cup (channel \cap {producer})
  /\ producer' = IF producer \in channel THEN Succ(producer) ELSE producer
  /\ in_use' = FALSE
  /\ reference_counter' = 0
  /\ writer' = "idle"
  /\ UNCHANGED <<pace, slot, counted, samples, packet, reader, stop_thread, newest>>

Receiver ==
  PublishPrevious \/ ClaimSlot \/ FinishReady

WriteData(t) ==
  WritePrevious(t) \/ WriteEmpty(t) \/ WriteCurrent(t) \/ CrossBoundary(t)

-----------------------------------------------------------------------------
(* CrossCorrelator::threadEntry                                             *)

\* read_buffer returns a ready slot, and xGPU works on it in place
ReadBuffer ==
  /\ correlator = "read"
  /\ ~stop_thread
  /\ consumer \in ready
  /\ delivered' = ref_time[consumer]
  /\ correlator' = "correlate"
  /\ UNCHANGED <<pace, contents, receiver, consumer, stop_thread, newest>>

\* release_buffer locks the slot, resets channel and index first ...
ReleaseSlot ==
  /\ correlator = "correlate"
  /\ channel' = channel \ {consumer}
  /\ index' = index \ {consumer}
  /\ correlator' = "flag"
  /\ UNCHANGED <<pace, ref_time, ready, counted, samples, receiver, consumer, delivered, stop_thread, newest>>

\* ... then ready ...
ReleaseReady ==
  /\ correlator = "flag"
  /\ ready' = ready \ {consumer}
  /\ correlator' = "reset"
  /\ UNCHANGED <<pace, slot, counted, samples, receiver, consumer, delivered, stop_thread, newest>>

\* mutant: the cursor stays
ReleaseInPlace ==
  /\ correlator = "reset"
  /\ ref_time' = [ref_time EXCEPT ![consumer] = Never]
  /\ counted' = [counted EXCEPT ![consumer] = {}]
  /\ correlator' = "read"
  /\ UNCHANGED <<pace, channel, index, ready, samples, receiver, consumer, delivered, stop_thread, newest>>

\* ... then the time and the counts; then it unlocks the slot and moves on (the
\* correlation callback that follows works on copies)
ReleaseReset ==
  /\ correlator = "reset"
  /\ ref_time' = [ref_time EXCEPT ![consumer] = Never]
  /\ counted' = [counted EXCEPT ![consumer] = {}]
  /\ consumer' = Succ(consumer)
  /\ correlator' = "read"
  /\ UNCHANGED <<pace, channel, index, ready, samples, receiver, delivered, stop_thread, newest>>

CorrelatorStops ==
  /\ correlator = "read"
  /\ stop_thread
  /\ correlator' = "stopped"
  /\ UNCHANGED <<pace, contents, receiver, consumer, delivered, stop_thread, newest>>

Correlator ==
  ReadBuffer \/ ReleaseSlot \/ ReleaseReady \/ ReleaseReset \/ CorrelatorStops

\* cleanUp stops the correlator once the receiving thread has ended
CleanUp ==
  /\ ~stop_thread
  /\ writer = "idle"
  /\ stop_thread' = TRUE
  /\ UNCHANGED <<pace, contents, receiver, reader, newest>>

Terminated ==
  /\ correlator = "stopped"
  /\ UNCHANGED vars

Next ==
  \/ \E t \in First .. MaxCounter : WriteData(t)
  \/ Receiver
  \/ FinishWrite
  \/ Correlator
  \/ CleanUp
  \/ Terminated

Spec == Init /\ [][Next]_vars

\* the receiving thread keeps running, and a release ends once it has begun; at a
\* steady pace the correlations end too.  Nothing is assumed of the stream.
FairSpec ==
  /\ Spec
  /\ WF_vars(Receiver)
  /\ WF_vars(ReleaseReady \/ ReleaseReset)
  /\ WF_vars(pace = "steady" /\ Correlator)

\* the receive timeout does come when nothing arrives
TimeoutSpec == FairSpec /\ WF_vars(FinishWrite)
-----------------------------------------------------------------------------
(* Properties                                                               *)

\* Every variable keeps its type: cursors stay in the ring and each thread is at
\* a known place.
TypeOK ==
  /\ pace \in Paces
  /\ {channel, index, ready} \subseteq SUBSET Slots
  /\ ref_time \in [Slots -> Nat]
  /\ counted \in [Slots -> SUBSET Nat]
  /\ samples \in [Slots -> [Places -> Nat]]
  /\ {producer, consumer} \subseteq Slots
  /\ writer \in {"idle", "publish", "wait", "finish"}
  /\ {packet, reference_counter, delivered, newest} \subseteq Nat
  /\ correlator \in {"read", "correlate", "flag", "reset", "stopped"}
  /\ {in_use, stop_thread} \subseteq BOOLEAN

InCorrelation == correlator = "correlate"

\* the packets counted in a slot are at their places, and all else in it is older
HoldsCounted(i) ==
  \A k \in Places :
    IF ref_time[i] + k \in counted[i]
      THEN samples[i][k] = ref_time[i] + k
      ELSE samples[i][k] < ref_time[i]

\* At a steady pace every packet that came for a buffer is in its slot, at its own place, and
\* no packet of a later buffer is, in spite of "skipped buffer borders" (DoubleBuffer.cpp:153).
\* Not that xGPU gets the samples of one buffer: where a packet was lost the slot still has
\* those of a lap before, which release_buffer and the claim leave, and xGPU correlates them.
SlotHoldsItsBuffer ==
  pace = "steady" =>
    \A i \in channel : /\ counted[i] \subseteq ref_time[i] .. ref_time[i] + Window - 1
                       /\ HoldsCounted(i)

\* At a steady pace, while xGPU works on a slot in place, no sample is copied to it and it is
\* neither claimed nor marked anew: writes "are guaranteed to be non-conflicting"
\* (DoubleBuffer.h:16).
StableDuringCorrelation ==
  [][pace = "steady" /\ InCorrelation /\ InCorrelation'
       => /\ samples'[consumer] = samples[consumer]
          /\ ref_time'[consumer] = ref_time[consumer]
          /\ consumer \in channel']_vars

\* At a steady pace a slot marked ready holds a buffer: finish_write finalises a slot
\* "if a buffer is being written to" (DoubleBuffer.cpp:224).
ReadyHoldsBuffer ==
  pace = "steady" =>
    \A i \in ready : i \in channel \/ (Releasing /\ i = consumer)

\* At a steady pace a packet newer than all before goes to the current buffer, which
\* it opens if it is empty; only older packets are "adding to previous buffer"
\* (DoubleBuffer.cpp:132).
NewestInCurrentBuffer ==
  [][pace = "steady" /\ newest' > newest /\ writer' = "idle"
       => newest' \in counted'[producer]]_vars

\* At any pace reception goes on, even under a correlation that never ends: the wait for the next
\* slot is bounded, and whoever holds a slot's mutex gives it back.
ReceptionContinues == writer # "idle" ~> writer = "idle"

\* When the stream has stopped the last buffers are correlated: the receive
\* timeout is there to "finish current buffer" (DoubleBuffer.cpp:220).
FlushedInTheEnd == channel # {} ~> channel = {} \/ stop_thread

\* What would be wanted and does not hold: xGPU finds no sample of an earlier buffer.
NoStaleSamples ==
  pace = "steady" /\ InCorrelation =>
    \A k \in Places : samples[consumer][k] \in {0, delivered + k}
-----------------------------------------------------------------------------
(* The promise it makes when it keeps up: a pipeline with a lag of two      *)

\* the slot the correlator will read next
Bottom == IF Releasing THEN Succ(consumer) ELSE consumer

Filling == IF writer = "wait" THEN packet ELSE ref_time[producer]

\* what the pipeline sees of the ring: nothing, where it promises nothing
Seen(x) == IF pace = "steady" THEN x ELSE 0

Pipeline == INSTANCE BufferPipeline WITH
  Lag      <- 2,
  Capacity <- NofBuffers,
  filling  <- Seen(Filling),
  next     <- Seen(ref_time[Bottom]),
  reading  <- pace = "steady" /\ InCorrelation,
  stopped  <- pace = "steady" /\ stop_thread

\* With no pause in the stream, no lost buffer start and no overrun the ring is a
\* pipeline: consecutive buffers, each correlated once and in order, as soon as
\* the second buffer after it is begun, and never more than the ring holds.
ImplementsPipeline == Pipeline!FairSpec
=============================================================================
