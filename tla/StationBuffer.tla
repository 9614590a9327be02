--------------------------- MODULE StationBuffer ---------------------------
(***************************************************************************)
(* The integrated station beam: StationDoubleBuffer, filled by the         *)
(* StationData consumer thread (write_data) and emptied by the             *)
(* StationPersister thread (read_buffer, callback, release_buffer).        *)
(*                                                                         *)
(* A packet is its 64-bit unwrapped counter.  The samples integrated in a  *)
(* slot are abstracted to the set of counters they came from, once for the *)
(* power sums (integrators) and once for the number of samples they are    *)
(* divided by (read_samples): the two are reset in different places.       *)
(* Channels are not told apart (packets of several channels carry the same *)
(* counter), nor are saturation and reference time.                        *)
(*                                                                         *)
(* Neither thread locks a slot against the other: release_buffer takes the *)
(* slot's mutex, write_data does not, so the mutex orders nothing and the  *)
(* fields change in the order the two threads assign them.                 *)
(***************************************************************************)
EXTENDS RingIndex

CONSTANTS
  Window,       \* packets of one channel in a buffer: nof_samples / samples
  First,        \* counter of the first packet received
  MaxCounter,   \* bound: largest counter the stream sends
  MaxLate,      \* bound: how far behind the newest packet a packet may arrive
  MaxLoss,      \* bound: how far ahead of the newest packet the next one may be
  EarlierThanFirst,  \* may packets older than the first received one arrive?
  Pace          \* how well the persister keeps up with the stream, see below

(***************************************************************************)
(* Pace is an assumption on the speed of the callback:                     *)
(*   "ahead"   the producer never comes to the slot the persister is on;   *)
(*   "full"    it may, and the persister then frees it within the wait;    *)
(*   "overrun" it may, and the bounded wait (1 ms) may run out.            *)
(***************************************************************************)
Paces == {"ahead", "full", "overrun"}

ASSUME StationAssumption ==
  /\ Window \in Nat \ {0}
  /\ First \in Nat \ {0}
  /\ MaxCounter \in Nat
  /\ MaxLate \in Nat
  /\ MaxLoss \in Nat
  /\ EarlierThanFirst \in BOOLEAN
  /\ Pace \in Paces

VARIABLES
  index,          \* per slot: first packet counter of its buffer, 0 if free
  ready,          \* the slots published to the persister
  integrators,    \* per slot: packets in the power sums
  read_samples,   \* per slot: packets in the counts of samples
  producer,       \* cursor of the consumer thread that receives packets
  consumer,       \* cursor of the persister thread
  packet_counter, \* the packet held in write_data's bounded wait (0: no wait)
  current_index,  \* write_data's copy of the index of the buffer it leaves
  persister,      \* where the persister thread is in threadEntry
  stop_thread,    \* the persister has been told to stop
  newest,         \* largest counter the stream has sent (0: none yet)
  delivered       \* history: index of the last buffer given to the callback

data == <<integrators, read_samples>>
ring == <<index, ready, data>>
writer == <<producer, packet_counter, current_index>>
reader == <<consumer, persister, delivered>>
vars == <<ring, writer, reader, stop_thread, newest>>

waiting == packet_counter # 0

Init ==
  /\ index = [i \in Slots |-> 0]
  /\ ready = {}
  /\ integrators = [i \in Slots |-> {}]
  /\ read_samples = [i \in Slots |-> {}]
  /\ producer = 0
  /\ packet_counter = 0
  /\ current_index = 0
  /\ consumer = 0
  /\ persister = "read"
  /\ delivered = 0
  /\ stop_thread = FALSE
  /\ newest = 0

-----------------------------------------------------------------------------
(* The stream: packets are lost, duplicated, and overtaken by others.       *)

Arrives(pc) ==
  /\ ~waiting
  /\ ~stop_thread
  /\ pc \in 1 .. MaxCounter
  /\ IF newest = 0 THEN pc = First
                   ELSE /\ pc + MaxLate >= newest
                        /\ pc <= newest + MaxLoss
                        /\ EarlierThanFirst \/ pc >= First
  /\ newest' = IF pc > newest THEN pc ELSE newest

\* process_data: add the packet to slot i
ProcessData(i, pc) ==
  /\ integrators' = [integrators EXCEPT ![i] = @ \cup {pc}]
  /\ read_samples' = [read_samples EXCEPT ![i] = @ \cup {pc}]

-----------------------------------------------------------------------------
(* write_data, called once per packet by the receiving thread               *)

\* counter of a packet relative to the buffer being filled
Offset(pc) == pc - index[producer]

IsOpen == index[producer] # 0

\* the current buffer is empty: it starts at this packet
WriteFirst(pc) ==
  /\ Arrives(pc)
  /\ ~IsOpen
  /\ index' = [index EXCEPT ![producer] = pc]
  /\ ProcessData(producer, pc)
  /\ UNCHANGED <<ready, writer, reader, stop_thread>>

\* mutant: late packets are not compared with the previous buffer
NeverOlder(i, pc) == FALSE

\* is the packet older than the previous buffer as well?
IsOlderThan(i, pc) == index[i] > pc

\* a packet older than the current buffer goes to the previous one or is ignored
WriteLate(pc) ==
  /\ Arrives(pc)
  /\ IsOpen
  /\ Offset(pc) < 0
  /\ IF IsOlderThan(Pred(producer), pc) THEN UNCHANGED data
                                        ELSE ProcessData(Pred(producer), pc)
  /\ UNCHANGED <<index, ready, writer, reader, stop_thread>>

WriteCurrent(pc) ==
  /\ Arrives(pc)
  /\ IsOpen
  /\ Offset(pc) \in 0 .. Window - 1
  /\ ProcessData(producer, pc)
  /\ UNCHANGED <<index, ready, writer, reader, stop_thread>>

\* mutant: a jump of any length is taken for the next buffer
NeverBeyondNext(pc) == FALSE

\* beyond the next buffer as well
IsBeyondNext(pc) == Offset(pc) > 2 * Window

IgnoreBeyondNext(pc) ==
  /\ Arrives(pc)
  /\ IsOpen
  /\ Offset(pc) >= Window
  /\ IsBeyondNext(pc)
  /\ UNCHANGED <<ring, writer, reader, stop_thread>>

\* the slot published at a boundary is the one before the previous
Publish(i) == ready' = IF index[i] # 0 THEN ready \cup {i} ELSE ready

\* the packet crosses the end of the current buffer: publish, move to the next
\* slot and start waiting for it
CrossBoundary(pc) ==
  /\ Arrives(pc)
  /\ IsOpen
  /\ Offset(pc) >= Window
  /\ ~IsBeyondNext(pc)
  /\ Pace = "ahead" => Succ(producer) # consumer
  /\ Publish(Pred2(producer))
  /\ producer' = Succ(producer)
  /\ packet_counter' = pc
  /\ current_index' = index[producer]
  /\ UNCHANGED <<index, data, reader, stop_thread>>

\* mutant: the slot is used without waiting for it
ClaimAtOnce == TRUE

\* mutant: the wait has no bound
ClaimWhenFree == ~IsOpen

\* the wait ends because the slot has become free, or because it ran out
MayClaim == ~IsOpen \/ Pace = "overrun"

\* mutant: the buffer starts at the packet that opens it
PacketsIndex == packet_counter

\* the next increment after the previous buffer
NextIndex == current_index + Window

\* start using the slot: its index follows the previous buffer's whatever the
\* packet's counter is; read_samples is reset, the other fields are not
ClaimSlot ==
  /\ waiting
  /\ MayClaim
  /\ index' = [index EXCEPT ![producer] = NextIndex]
  /\ read_samples' = [read_samples EXCEPT ![producer] = {packet_counter}]
  /\ integrators' = [integrators EXCEPT ![producer] = @ \cup {packet_counter}]
  /\ packet_counter' = 0
  /\ current_index' = 0
  /\ UNCHANGED <<ready, producer, reader, stop_thread, newest>>

WriteData(pc) ==
  \/ WriteFirst(pc)
  \/ WriteLate(pc)
  \/ WriteCurrent(pc)
  \/ IgnoreBeyondNext(pc)
  \/ CrossBoundary(pc)

-----------------------------------------------------------------------------
(* StationPersister::threadEntry                                            *)

\* read_buffer returns a ready slot, which is handed to the callback (the
\* division of integrators by read_samples in place is left to the reader)
ReadBuffer ==
  /\ persister = "read"
  /\ ~stop_thread
  /\ consumer \in ready
  /\ persister' = "callback"
  /\ delivered' = index[consumer]
  /\ UNCHANGED <<ring, writer, consumer, stop_thread, newest>>

\* mutant: the index is not reset
KeepIndex ==
  /\ persister = "callback"
  /\ persister' = "release"
  /\ UNCHANGED <<index, ready, data, writer, consumer, delivered, stop_thread, newest>>

\* release_buffer, one field after the other: index first ...
ReleaseIndex ==
  /\ persister = "callback"
  /\ index' = [index EXCEPT ![consumer] = 0]
  /\ persister' = "release"
  /\ UNCHANGED <<ready, data, writer, consumer, delivered, stop_thread, newest>>

\* ... then ready and the integrators ...
ReleaseIntegrators ==
  /\ persister = "release"
  /\ ready' = ready \ {consumer}
  /\ integrators' = [integrators EXCEPT ![consumer] = {}]
  /\ persister' = "advance"
  /\ UNCHANGED <<index, read_samples, writer, consumer, delivered, stop_thread, newest>>

\* ... then read_samples, and the cursor moves on
ReleaseAdvance ==
  /\ persister = "advance"
  /\ read_samples' = [read_samples EXCEPT ![consumer] = {}]
  /\ consumer' = Succ(consumer)
  /\ persister' = "read"
  /\ UNCHANGED <<index, ready, integrators, writer, delivered, stop_thread, newest>>

\* the thread leaves its loop when it next looks for a buffer, ready or not
PersisterStops ==
  /\ persister = "read"
  /\ stop_thread
  /\ persister' = "stopped"
  /\ UNCHANGED <<ring, writer, consumer, delivered, stop_thread, newest>>

Persister ==
  ReadBuffer \/ ReleaseIndex \/ ReleaseIntegrators \/ ReleaseAdvance \/ PersisterStops

\* cleanUp stops the persister once the receiving thread has ended
CleanUp ==
  /\ ~stop_thread
  /\ ~waiting
  /\ stop_thread' = TRUE
  /\ UNCHANGED <<ring, writer, reader, newest>>

Terminated ==
  /\ persister = "stopped"
  /\ UNCHANGED vars

Next ==
  \/ \E pc \in 1 .. MaxCounter : WriteData(pc)
  \/ ClaimSlot
  \/ Persister
  \/ CleanUp
  \/ Terminated

Spec == Init /\ [][Next]_vars

\* the receiving thread runs; the callback may never return
ReceiverSpec == Spec /\ WF_vars(ClaimSlot)

\* both threads keep running; nothing is assumed of the stream
FairSpec == ReceiverSpec /\ WF_vars(Persister)
-----------------------------------------------------------------------------
(* Properties                                                               *)

\* Every variable keeps its type: cursors stay in the ring, each thread is at a
\* known place, and every slot holds a counter and sets of counters.
TypeOK ==
  /\ index \in [Slots -> Nat]
  /\ ready \in SUBSET Slots
  /\ integrators \in [Slots -> SUBSET Nat]
  /\ read_samples \in [Slots -> SUBSET Nat]
  /\ producer \in Slots
  /\ packet_counter \in Nat
  /\ current_index \in Nat
  /\ consumer \in Slots
  /\ persister \in {"read", "callback", "release", "advance", "stopped"}
  /\ delivered \in Nat
  /\ stop_thread \in BOOLEAN
  /\ newest \in Nat

InCallback == persister = "callback"

\* The callback receives the buffers of the stream one after the other, in the
\* order of their samples, none twice and none left out: write_data gives each
\* buffer the index that follows its predecessor's, and the two cursors visit
\* the slots in the same order.
SuccessiveBuffers ==
  [][delivered' # delivered /\ delivered # 0
       => delivered' = delivered + Window]_vars

\* While the callback reads a slot, no packet is integrated in it and none of
\* its fields changes, though no lock protects it.
StableDuringCallback ==
  [][InCallback /\ InCallback'
       => /\ consumer \in ready'
          /\ index'[consumer] = index[consumer]
          /\ integrators'[consumer] = integrators[consumer]
          /\ read_samples'[consumer] = read_samples[consumer]]_vars

\* What the callback receives is a mean over one buffer's samples: the sums and
\* the counts they are divided by come from the same packets, and these are
\* packets of that buffer's span (one packet more than Window, see below).
CallbackData ==
  InCallback =>
    /\ integrators[consumer] = read_samples[consumer]
    /\ integrators[consumer] \subseteq index[consumer] .. index[consumer] + Window

\* A packet beyond the next buffer is never integrated: write_data's comment says
\* that it checks for such packets and ignores them (StationData.cpp:324).
CallbackWithinBuffer ==
  InCallback =>
    integrators[consumer] \subseteq index[consumer] .. index[consumer] + Window - 1

\* The sums are divided by the number of the samples that are in them, as
\* read_buffer's comment says (StationData.cpp:416).
DividedByOwnSamples ==
  InCallback => integrators[consumer] = read_samples[consumer]

\* A published buffer is delivered, unless the persister is stopped.
PublishedIsDelivered ==
  \A i \in Slots :
    i \in ready /\ persister = "read"
      ~> (InCallback /\ consumer = i) \/ stop_thread

\* The receiving thread is never blocked for ever behind a full ring.
WaitEnds == waiting ~> ~waiting

-----------------------------------------------------------------------------
(* The inductive invariant of a ring whose persister keeps up: Pace is      *)
(* "ahead" or "full".                                                       *)

\* the slot the persister will read next: release_buffer gives a slot up when
\* it resets its index, before it moves the cursor
Bottom == IF persister \in {"release", "advance"} THEN Succ(consumer) ELSE consumer

\* the slot opened last
Top == IF waiting THEN Pred(producer) ELSE producer

Depth(i) == Ahead(Bottom, i)

Started == index[Top] # 0

\* Nothing has been touched before the first packet.
NotStartedInv ==
  /\ \A i \in Slots : index[i] = 0
  /\ ready = {}
  /\ ~waiting
  /\ consumer = producer
  /\ delivered = 0
  /\ persister \in {"read", "stopped"}

\* Slots from Bottom to Top are in use and hold consecutive buffers; the
\* others are free.
OccupiedInv ==
  \A i \in Slots :
    /\ Depth(i) <= Depth(Top) => index[i] # 0
    /\ Depth(i) < Depth(Top) => index[Succ(i)] = index[i] + Window
    /\ Depth(i) > Depth(Top) => index[i] = 0

\* A ready slot is at least two buffers behind the one being filled, or is the
\* one the persister has just given up.
ReadyInv ==
  \A i \in ready :
    \/ Depth(i) + 2 <= Depth(Top)
    \/ i = consumer /\ persister = "release"

\* Where the persister is: the slot it holds is ready, and what it reads next
\* follows what it delivered last.
PersisterInv ==
  /\ InCallback => consumer \in ready /\ delivered = index[consumer]
  /\ ~InCallback /\ delivered # 0
       => index[Bottom] = delivered + Window /\ Depth(Top) >= 1
  /\ persister \in {"release", "advance"} => delivered # 0

WaitInv == waiting => current_index = index[Top]

KeepUpInv ==
  /\ TypeOK
  /\ IF Started THEN OccupiedInv /\ ReadyInv /\ PersisterInv /\ WaitInv
                ELSE NotStartedInv

-----------------------------------------------------------------------------
(* What the slots hold, when Pace is "ahead" and no packet is older than    *)
(* the first one received; inductive together with KeepUpInv.               *)

Releasing == persister \in {"release", "advance"}

\* The sums and the counts of a buffer come from the same packets, of its span.
ContentsInv ==
  \A i \in Slots :
    index[i] # 0 =>
      /\ integrators[i] = read_samples[i]
      /\ integrators[i] \subseteq index[i] .. index[i] + Window

\* A free slot is clean, except for the one being released.
CleanInv ==
  /\ \A i \in Slots :
       \/ index[i] # 0
       \/ integrators[i] = {} /\ read_samples[i] = {}
       \/ i = consumer /\ Releasing
  /\ persister = "advance" => integrators[consumer] = {}

\* The producer is kept off the slot the persister is on, and the packet that
\* waits belongs to the slot it waits for (or is one too far, see
\* CallbackWithinBuffer).
AheadInv ==
  /\ waiting =>
       /\ producer # consumer
       /\ packet_counter \in current_index + Window .. current_index + 2 * Window
  /\ Releasing => index[consumer] = 0

\* Until something is delivered the ring starts at the first packet.
FirstInv ==
  IF Started THEN delivered = 0 => index[Bottom] = First ELSE newest = 0

DataInv == KeepUpInv /\ ContentsInv /\ CleanInv /\ AheadInv /\ FirstInv
=============================================================================
