----------------------- MODULE CorrelatorBuffer_proofs -----------------------
(***************************************************************************)
(* Proofs about the correlator's buffers: at a steady pace a slot holds    *)
(* the packets that came for its buffer and none of a later one, nothing   *)
(* changes in the slot that xGPU works on, and the ring implements the     *)
(* safety part of BufferPipeline, for any number of slots and any size of  *)
(* buffers.                                                                *)
(***************************************************************************)
EXTENDS CorrelatorBuffer, TLAPS

-----------------------------------------------------------------------------
(* The cursor arithmetic of the ring, for every ring size                   *)

\* A cursor of the ring stays in the ring, whichever way the code moves it.
LEMMA SlotsClosed ==
  ASSUME NEW i \in Slots
  PROVE  Succ(i) \in Slots /\ Pred(i) \in Slots /\ Pred2(i) \in Slots
  BY NofBuffersAssumption DEF Slots, Succ, Pred, Pred2

\* Moving on and looking back cancel out.
LEMMA PredSucc ==
  ASSUME NEW i \in Slots
  PROVE  Pred(Succ(i)) = i /\ Succ(Pred(i)) = i
  BY NofBuffersAssumption DEF Slots, Succ, Pred

\* The slot after i is one further ahead, unless it is the cursor's own slot,
\* and then i is the last slot of the ring as the cursor sees it.
LEMMA AheadSucc ==
  ASSUME NEW c \in Slots, NEW i \in Slots
  PROVE  /\ Succ(i) # c => Ahead(c, Succ(i)) = Ahead(c, i) + 1
         /\ Succ(i) = c <=> Ahead(c, i) = NofBuffers - 1
  BY NofBuffersAssumption DEF Slots, Ahead, Succ

\* When the cursor moves on, its old slot becomes the last one and every other
\* slot comes one position closer.
LEMMA AheadAdvance ==
  ASSUME NEW c \in Slots, NEW i \in Slots
  PROVE  Ahead(Succ(c), i) = IF i = c THEN NofBuffers - 1 ELSE Ahead(c, i) - 1
  BY NofBuffersAssumption DEF Slots, Ahead, Succ

-----------------------------------------------------------------------------

\* What the theorems assume of the stream: no packet is late by more than a buffer, and
\* the packets that start a buffer are not lost.
Benign == MaxLate <= Window /\ ~BoundaryLoss

waiting == writer = "wait"

\* how far the receiving thread is ahead of the correlator
Lag == Ahead(consumer, producer)

\* how many slots, from the correlator's on, are used: all of them when the receiving
\* thread waits for the correlator's own
Depth == IF ~waiting THEN Lag + 1 ELSE IF Lag = 0 THEN NofBuffers ELSE Lag

\* ... and how many of these are published
Settled == IF waiting THEN Depth - 1 ELSE Depth - 2

Used(i) == Ahead(consumer, i) < Depth

\* the slot that is released already, but which the cursor has not left
Freed(i) == i = consumer /\ correlator \in {"flag", "reset"}

\* Before the first packet everything is free.
Fresh ==
  /\ channel = {} /\ index = {} /\ ready = {}
  /\ ref_time = [i \in Slots |-> 0]
  /\ counted = [i \in Slots |-> {}]
  /\ producer = 0 /\ consumer = 0
  /\ writer = "idle" /\ reference_counter = 0
  /\ correlator \in {"read", "stopped"}

\* The slots are used from the correlator's on, and published up to the last two.
Placed ==
  /\ writer \in {"idle", "publish", "wait"}
  /\ \A i \in Slots :
       /\ i \in index <=> Used(i) /\ ~Freed(i)
       /\ i \in channel <=> Used(i) /\ ~Freed(i)
       /\ i \in ready <=> Ahead(consumer, i) < Settled /\ ~(i = consumer /\ correlator = "reset")
  /\ correlator \in {"correlate", "flag", "reset"} => Settled >= 1

\* They hold their own packets.
Filled ==
  \A i \in Slots : Used(i) /\ ~Freed(i) =>
    /\ ref_time[i] # 0
    /\ counted[i] \subseteq ref_time[i] .. ref_time[i] + Window - 1

\* Their buffers follow each other.
Successive ==
  \A i \in Slots : Ahead(consumer, i) + 1 < Depth /\ ~Freed(i) =>
    ref_time[Succ(i)] = ref_time[i] + Window

\* Buffers start a whole number of buffers after the first packet.
Aligned(t) == (t - reference_counter) % Window = 0

\* The newest packet belongs to the current buffer, or begins the next one.
Current ==
  /\ reference_counter # 0
  /\ ~waiting => /\ ref_time[producer] <= newest
                 /\ Aligned(ref_time[producer])
                 /\ Lag = 0 => ref_time[producer] = First
  /\ writer = "idle" => newest < ref_time[producer] + Window
  /\ writer = "publish" => /\ packet = newest /\ newest = ref_time[producer] + Window
                           /\ in_use <=> Lag # 0
  /\ waiting => /\ packet = newest /\ newest = ref_time[Pred(producer)] + Window
                /\ Aligned(newest)

Steady == Placed /\ Filled /\ Successive /\ Current

\* What is in data is never newer than the stream, and a slot has the packets that came for it
\* at their places: a sample of an earlier lap may stay between them, none of a later one.
Stored ==
  /\ \A i \in Slots, k \in Places :
       /\ samples[i][k] <= newest
       /\ writer # "idle" => samples[i][k] < newest
  /\ \A i \in channel : Aligned(ref_time[i]) /\ HoldsCounted(i)

IInv ==
  /\ TypeOK
  /\ pace = "steady" /\ newest = 0 => Fresh
  /\ pace = "steady" /\ newest # 0 => Steady
  /\ pace = "steady" => Stored
-----------------------------------------------------------------------------
(* Whole numbers of buffers                                                 *)

LEMMA QuotientAndRest ==
  ASSUME NEW a \in Int, NEW b \in Nat \ {0}
  PROVE  /\ a = b * (a \div b) + (a % b)
         /\ a % b \in 0 .. b - 1 /\ a \div b \in Int
BY SMT

LEMMA MultipleBelow ==
  ASSUME NEW b \in Nat \ {0}, NEW k \in Int, NEW r \in 0 .. b - 1, b * k = r
  PROVE  r = 0
<1>1. CASE k = 0
  BY <1>1
<1>2. CASE k >= 1
  <2>1. PICK d \in Nat : k = 1 + d
    <3>1. k - 1 \in Nat /\ k = 1 + (k - 1)
      BY <1>2
    <3> QED BY <3>1
  <2>2. b * k = b + b * d
    BY <2>1
  <2>3. b * d \in Nat
    OBVIOUS
  <2> QED BY <2>2, <2>3
<1>3. CASE k <= -1
  <2>1. PICK d \in Nat : k = -1 - d
    <3>1. -1 - k \in Nat /\ k = -1 - (-1 - k)
      BY <1>3
    <3> QED BY <3>1
  <2>2. b * k = -b - b * d
    BY <2>1
  <2>3. b * d \in Nat
    OBVIOUS
  <2> QED BY <2>2, <2>3
<1> QED BY <1>1, <1>2, <1>3

\* One buffer after the start of a buffer another one starts.
LEMMA NextMultiple ==
  ASSUME NEW a \in Int, NEW b \in Nat \ {0}, a % b = 0
  PROVE  (a + b) % b = 0
<1> DEFINE q == a \div b
           m == a % b
           p == (a + b) \div b
           r == (a + b) % b
<1>1. a = b * q + m /\ q \in Int /\ m = 0
  BY QuotientAndRest, Zenon
<1>2. a + b = b * p + r /\ p \in Int /\ r \in 0 .. b - 1
  <2>1. a + b \in Int
    OBVIOUS
  <2> QED BY <2>1, QuotientAndRest, Zenon
<1> HIDE DEF q, m, p, r
<1>3. b * (q + 1 - p) = r
  BY <1>1, <1>2
<1>4. r = 0
  BY <1>1, <1>2, <1>3, MultipleBelow
<1> QED BY <1>4 DEF r

\* The place of a packet is its distance from the start of its buffer.
LEMMA PlaceInBuffer ==
  ASSUME NEW a \in Int, NEW b \in Nat \ {0}, a % b = 0, NEW k \in 0 .. b - 1
  PROVE  (a + k) % b = k
<1> DEFINE q == a \div b
           m == a % b
           p == (a + k) \div b
           r == (a + k) % b
<1>1. a = b * q + m /\ q \in Int /\ m = 0
  BY QuotientAndRest, Zenon
<1>2. a + k = b * p + r /\ p \in Int /\ r \in 0 .. b - 1
  <2>1. a + k \in Int
    OBVIOUS
  <2> QED BY <2>1, QuotientAndRest, Zenon
<1> HIDE DEF q, m, p, r
<1>3. CASE r >= k
  <2>1. b * (q - p) = r - k /\ q - p \in Int /\ r - k \in 0 .. b - 1
    BY <1>1, <1>2, <1>3
  <2>2. r - k = 0
    BY <2>1, MultipleBelow
  <2> QED BY <1>2, <2>2 DEF r
<1>4. CASE r < k
  <2>1. b * (p - q) = k - r /\ p - q \in Int /\ k - r \in 0 .. b - 1
    BY <1>1, <1>2, <1>4
  <2>2. k - r = 0
    BY <2>1, MultipleBelow
  <2> QED BY <1>2, <2>2 DEF r
<1> QED BY <1>2, <1>3, <1>4
-----------------------------------------------------------------------------
(* Types                                                                    *)

LEMMA TypeInit == Init => TypeOK
<1>1. 0 \in Slots
  BY NofBuffersAssumption DEF Slots
<1>2. ASSUME Init
      PROVE  /\ ref_time \in [Slots -> Nat] /\ counted \in [Slots -> SUBSET Nat]
             /\ samples \in [Slots -> [Places -> Nat]]
  BY <1>2 DEF Init
<1>3. ASSUME Init
      PROVE  /\ pace \in Paces
             /\ channel = {} /\ index = {} /\ ready = {}
             /\ producer \in Slots /\ consumer \in Slots
             /\ packet \in Nat /\ reference_counter \in Nat /\ delivered \in Nat /\ newest \in Nat
             /\ writer = "idle" /\ correlator = "read"
             /\ in_use = FALSE /\ stop_thread = FALSE
  BY <1>1, <1>3 DEF Init
<1> QED BY <1>2, <1>3 DEF TypeOK

LEMMA ArrivalType ==
  ASSUME TypeOK, NEW t \in First .. MaxCounter, Arrives(t)
  PROVE  /\ t \in Nat \ {0} /\ newest' \in Nat \ {0}
         /\ reference_counter' \in Nat \ {0}
<1>1. First \in Nat \ {0} /\ MaxCounter \in Nat
  BY CorrelatorAssumption
<1>2. t \in Nat \ {0} /\ newest \in Nat /\ reference_counter \in Nat
  BY <1>1 DEF TypeOK
<1> QED BY <1>2 DEF Arrives, Reference

LEMMA CopyType ==
  ASSUME TypeOK, NEW i \in Slots, NEW t \in Nat, CopyData(i, t)
  PROVE  /\ ref_time' \in [Slots -> Nat] /\ counted' \in [Slots -> SUBSET Nat]
         /\ samples' \in [Slots -> [Places -> Nat]]
<1>1. ref_time' \in [Slots -> Nat] /\ counted' \in [Slots -> SUBSET Nat]
  BY DEF TypeOK, CopyData
<1>2. samples' \in [Slots -> [Places -> Nat]]
  BY DEF TypeOK, CopyData
<1> QED BY <1>1, <1>2

LEMMA TypeStep == TypeOK /\ [Next]_vars => TypeOK'
<1> SUFFICES ASSUME TypeOK, [Next]_vars PROVE TypeOK'
  OBVIOUS
<1> USE DEF TypeOK
<1>0. /\ Succ(producer) \in Slots /\ Pred(producer) \in Slots /\ Succ(consumer) \in Slots
      /\ producer \in Slots /\ consumer \in Slots
      /\ Never \in Nat /\ First \in Nat /\ MaxCounter \in Nat
  BY SlotsClosed, CorrelatorAssumption DEF Never
<1>1. ASSUME NEW t \in First .. MaxCounter, WriteData(t) PROVE TypeOK'
  <2>1. /\ t \in Nat /\ newest' \in Nat /\ reference_counter' \in Nat
        /\ UNCHANGED <<pace, reader, stop_thread>>
    BY <1>1, ArrivalType DEF WriteData, WritePrevious, WriteEmpty, WriteCurrent, CrossBoundary
  <2>2. CASE WritePrevious(t)
    BY <1>0, <2>1, <2>2, CopyType DEF WritePrevious, reader
  <2>3. CASE WriteEmpty(t)
    BY <1>0, <2>1, <2>3, CopyType DEF WriteEmpty, reader
  <2>4. CASE WriteCurrent(t)
    BY <1>0, <2>1, <2>4, CopyType DEF WriteCurrent, reader
  <2>5. CASE CrossBoundary(t)
    BY <1>0, <2>1, <2>5 DEF CrossBoundary, contents, slot, reader
  <2> QED BY <1>1, <2>2, <2>3, <2>4, <2>5 DEF WriteData
<1>2. CASE PublishPrevious
  BY <1>0, <1>2 DEF PublishPrevious, Published, slot, reader
<1>3. CASE ClaimSlot
  <2>1. samples' \in [Slots -> [Places -> Nat]]
    <3>1. [samples[producer] EXCEPT ![0] = packet] \in [Places -> Nat]
      BY <1>0
    <3> QED BY <1>0, <1>3, <3>1 DEF ClaimSlot
  <2>2. ref_time' \in [Slots -> Nat] /\ counted' \in [Slots -> SUBSET Nat]
    BY <1>0, <1>3 DEF ClaimSlot
  <2>3. /\ {channel, index, ready}' \subseteq SUBSET Slots
        /\ {producer, consumer}' \subseteq Slots
        /\ {packet, reference_counter, delivered, newest}' \subseteq Nat
        /\ {in_use, stop_thread}' \subseteq BOOLEAN
        /\ writer' = "idle" /\ pace' = pace /\ correlator' = correlator
    BY <1>0, <1>3 DEF ClaimSlot, reader
  <2> QED BY <2>1, <2>2, <2>3
<1>4. CASE FinishWrite
  BY <1>0, <1>4 DEF FinishWrite, contents, slot, reader
<1>5. CASE FinishReady
  <2>1. ready' \in SUBSET Slots /\ producer' \in Slots
    BY <1>0, <1>5 DEF FinishReady
  <2>2. /\ reference_counter' = 0 /\ writer' = "idle" /\ in_use' = FALSE
        /\ packet' = packet /\ delivered' = delivered /\ newest' = newest
        /\ stop_thread' = stop_thread /\ pace' = pace /\ correlator' = correlator
        /\ ref_time' = ref_time /\ counted' = counted /\ samples' = samples
        /\ channel' = channel /\ index' = index /\ consumer' = consumer
    BY <1>5 DEF FinishReady, slot, reader
  <2>3. {channel, index, ready}' \subseteq SUBSET Slots
    BY <2>1, <2>2
  <2>4. {producer, consumer}' \subseteq Slots
    BY <2>1, <2>2
  <2>5. {packet, reference_counter, delivered, newest}' \subseteq Nat
    BY <2>2
  <2>6. {in_use, stop_thread}' \subseteq BOOLEAN
    BY <2>2
  <2>7. /\ pace' \in Paces
        /\ ref_time' \in [Slots -> Nat] /\ counted' \in [Slots -> SUBSET Nat]
        /\ samples' \in [Slots -> [Places -> Nat]]
        /\ writer' \in {"idle", "publish", "wait", "finish"}
        /\ correlator' \in {"read", "correlate", "flag", "reset", "stopped"}
    BY <2>2
  <2> QED BY <2>3, <2>4, <2>5, <2>6, <2>7
<1>6. CASE ReadBuffer \/ CorrelatorStops
  BY <1>0, <1>6 DEF ReadBuffer, CorrelatorStops, contents, slot, receiver
<1>7. CASE ReleaseSlot \/ ReleaseReady \/ ReleaseReset
  BY <1>0, <1>7 DEF ReleaseSlot, ReleaseReady, ReleaseReset, slot, receiver
<1>8. CASE CleanUp \/ Terminated \/ UNCHANGED vars
  BY <1>8 DEF CleanUp, Terminated, vars, contents, slot, receiver, reader
<1> QED BY <1>1, <1>2, <1>3, <1>4, <1>5, <1>6, <1>7, <1>8 DEF Next, Receiver, Correlator
-----------------------------------------------------------------------------
(* The ring                                                                 *)

\* What the proofs below use of the ring's arithmetic, as the correlator sees it.
LEMMA RingFacts ==
  ASSUME TypeOK
  PROVE  /\ \A i \in Slots : Ahead(consumer, i) \in 0 .. NofBuffers - 1
         /\ \A i \in Slots : Ahead(consumer, i) = 0 <=> i = consumer
         /\ \A i, j \in Slots : Ahead(consumer, i) = Ahead(consumer, j) => i = j
         /\ Lag \in 0 .. NofBuffers - 1
         /\ NofBuffers \in Nat /\ NofBuffers >= 3
         /\ producer \in Slots /\ consumer \in Slots
         /\ Pred(producer) \in Slots /\ Succ(producer) \in Slots /\ Succ(consumer) \in Slots
         /\ Lag # 0 => Ahead(consumer, Pred(producer)) = Lag - 1
         /\ Lag = 0 => Ahead(consumer, Pred(producer)) = NofBuffers - 1
         /\ Ahead(consumer, Succ(producer)) = IF Lag = NofBuffers - 1 THEN 0 ELSE Lag + 1
         /\ Pred(Succ(producer)) = producer /\ Succ(Pred(producer)) = producer
<1>1. producer \in Slots /\ consumer \in Slots
  BY DEF TypeOK
<1> QED BY <1>1, NofBuffersAssumption DEF Slots, Ahead, Succ, Pred, Lag

LEMMA DepthFacts ==
  ASSUME TypeOK
  PROVE  /\ Depth \in 1 .. NofBuffers
         /\ Settled \in Int /\ Settled < Depth /\ Settled + 2 >= Depth
         /\ ~waiting => Depth = Lag + 1 /\ Settled = Lag - 1
         /\ waiting => Settled = Depth - 1
BY RingFacts DEF Depth, Settled

\* Neither thread moves, nor does the receiving one begin or end a wait.
LEMMA PlacesKept ==
  ASSUME UNCHANGED <<producer, consumer>>, waiting' = waiting
  PROVE  /\ Lag' = Lag /\ Depth' = Depth /\ Settled' = Settled
         /\ \A i : Used(i)' <=> Used(i)
         /\ \A i : Ahead(consumer, i)' = Ahead(consumer, i)
BY DEF Lag, Depth, Settled, Used, Ahead
-----------------------------------------------------------------------------
(* Packets                                                                  *)

\* The slot that is filled, and the one before it, are not the correlator's.
LEMMA WritersSlots ==
  ASSUME TypeOK, Steady, ~waiting
  PROVE  /\ Used(producer) /\ ~Freed(producer) /\ producer \in channel /\ producer \in index
         /\ ref_time[producer] # 0
         /\ ~Freed(Pred(producer))
         /\ correlator = "correlate" => consumer # producer /\ consumer # Pred(producer)
         /\ Lag # 0 => /\ Used(Pred(producer)) /\ Pred(producer) \in index
                       /\ ref_time[Pred(producer)] # 0
                       /\ ref_time[producer] = ref_time[Pred(producer)] + Window
<1>1. /\ Depth = Lag + 1 /\ Settled = Lag - 1 /\ Lag \in Nat
      /\ producer \in Slots /\ Pred(producer) \in Slots
      /\ Ahead(consumer, producer) = Lag
      /\ Lag # 0 => Ahead(consumer, Pred(producer)) = Lag - 1
  BY DepthFacts, RingFacts DEF Lag
<1>2. Used(producer) /\ (Lag # 0 => Used(Pred(producer)))
  BY <1>1 DEF Used
<1>3. correlator \in {"correlate", "flag", "reset"} =>
        consumer # producer /\ consumer # Pred(producer)
  <2>1. correlator \in {"correlate", "flag", "reset"} => Lag >= 2
    BY <1>1 DEF Steady, Placed
  <2>2. Lag >= 2 => consumer # producer /\ consumer # Pred(producer)
    BY <1>1, RingFacts
  <2> QED BY <2>1, <2>2
<1>4. ~Freed(producer) /\ ~Freed(Pred(producer))
  BY <1>3 DEF Freed
<1>5. producer \in channel /\ producer \in index /\ (Lag # 0 => Pred(producer) \in index)
  BY <1>1, <1>2, <1>4 DEF Steady, Placed
<1>6. ref_time[producer] # 0 /\ (Lag # 0 => ref_time[Pred(producer)] # 0)
  BY <1>1, <1>2, <1>4 DEF Steady, Filled
<1>7. Lag # 0 => ref_time[producer] = ref_time[Pred(producer)] + Window
  <2>1. Succ(Pred(producer)) = producer
    BY RingFacts
  <2>2. Lag # 0 => Ahead(consumer, Pred(producer)) + 1 < Depth
    BY <1>1
  <2> QED BY <1>1, <1>4, <2>1, <2>2 DEF Steady, Successive
<1> QED BY <1>2, <1>3, <1>4, <1>5, <1>6, <1>7

\* No packet passes over the start of a buffer.
LEMMA NoStartSkipped ==
  ASSUME TypeOK, Benign, Steady, newest # 0, NEW t \in First .. MaxCounter, Arrives(t)
  PROVE  /\ t <= ref_time[producer] + Window
         /\ t = ref_time[producer] + Window => PacketIndex(t) = 0
         /\ reference_counter' = reference_counter
         /\ newest' = IF t > newest THEN t ELSE newest
         /\ t + Window >= newest
         /\ ~waiting
<1> DEFINE start == ref_time[producer]
           next == start + Window
<1>1. /\ writer = "idle" /\ ~waiting
      /\ start <= newest /\ newest < next /\ Aligned(start)
      /\ reference_counter # 0
  BY DEF Arrives, Steady, Current, waiting
<1>2. /\ start \in Nat /\ t \in Nat /\ newest \in Nat /\ reference_counter \in Nat
      /\ Window \in Nat \ {0} /\ MaxLate \in Nat
  BY RingFacts, CorrelatorAssumption DEF TypeOK
<1>3. PacketIndex(next) = 0 /\ PacketIndex(next) = PacketIndex(start + Window)
  <2> DEFINE a == start - reference_counter
  <2>1. a \in Int /\ a % Window = 0
    BY <1>1, <1>2 DEF Aligned
  <2>2. (a + Window) % Window = 0
    BY <1>2, <2>1, NextMultiple
  <2>3. next - reference_counter = a + Window
    BY <1>2
  <2> HIDE DEF next, a
  <2> QED BY <1>1, <2>2, <2>3 DEF PacketIndex, Reference, next
<1>4. /\ t + MaxLate >= newest
      /\ \A u \in newest + 1 .. t - 1 : PacketIndex(u) # 0
      /\ newest' = (IF t > newest THEN t ELSE newest)
      /\ reference_counter' = Reference(t)
  BY <1>2 DEF Arrives, Benign
<1> HIDE DEF start
<1>5. t <= next
  <2>1. t > next => next \in newest + 1 .. t - 1
    BY <1>1, <1>2
  <2> HIDE DEF next
  <2>2. ~(t > next)
    BY <1>3, <1>4, <2>1
  <2>3. next \in Nat
    BY <1>2 DEF next
  <2> QED BY <1>2, <2>2, <2>3
<1>6. t + Window >= newest
  BY <1>2, <1>4 DEF Benign
<1>7. t = next => PacketIndex(t) = 0
  <2> HIDE DEF next
  <2> QED BY <1>3
<1> QED BY <1>1, <1>4, <1>5, <1>6, <1>7 DEF start, Reference

\* A packet is added to a slot in whose span it lies: nothing else changes.
LEMMA AddedPacketKeeps ==
  ASSUME TypeOK, Steady, writer = "idle", NEW t \in Nat, NEW j \in Slots,
         Used(j), ~Freed(j),
         t >= ref_time[j], t < ref_time[j] + Window,
         CopyData(j, t),
         newest' \in Nat, newest' >= newest, newest' < ref_time[producer] + Window,
         UNCHANGED <<channel, index, ready, producer, writer, packet, in_use,
                     reference_counter, reader>>
  PROVE  Steady' /\ ref_time' = ref_time
<1>1. /\ ref_time \in [Slots -> Nat] /\ counted \in [Slots -> SUBSET Nat]
      /\ samples \in [Slots -> [Places -> Nat]]
      /\ newest \in Nat /\ Window \in Nat \ {0} /\ producer \in Slots
  BY CorrelatorAssumption DEF TypeOK
<1>2. ref_time' = ref_time
  <2>1. ref_time[j] # 0 /\ ~(ref_time[j] > t)
    <3>1. ref_time[j] # 0
      BY DEF Steady, Filled
    <3> QED BY <1>1, <3>1
  <2> QED BY <1>1, <2>1 DEF CopyData
<1>3. /\ waiting' = waiting /\ UNCHANGED <<consumer, correlator, delivered>>
  BY DEF waiting, reader
<1>4. /\ Lag' = Lag /\ Depth' = Depth /\ Settled' = Settled
      /\ \A i : Used(i)' <=> Used(i)
      /\ \A i : Ahead(consumer, i)' = Ahead(consumer, i)
      /\ \A i : Freed(i)' <=> Freed(i)
  BY <1>3, PlacesKept DEF Freed
<1>5. Placed'
  BY <1>3, <1>4 DEF Steady, Placed
<1>6. Filled'
  <2> SUFFICES ASSUME NEW i \in Slots, Used(i), ~Freed(i)
               PROVE  /\ ref_time[i] # 0
                      /\ counted'[i] \subseteq ref_time[i] .. ref_time[i] + Window - 1
    BY <1>2, <1>4 DEF Filled
  <2>1. /\ ref_time[i] # 0
        /\ counted[i] \subseteq ref_time[i] .. ref_time[i] + Window - 1
    BY DEF Steady, Filled
  <2>2. CASE i # j
    <3>1. counted'[i] = counted[i]
      BY <1>1, <2>2 DEF CopyData
    <3> QED BY <2>1, <3>1
  <2>3. CASE i = j
    <3>1. counted'[j] = counted[j] \cup {t}
      BY <1>1 DEF CopyData
    <3>2. ref_time[j] \in Nat
      BY <1>1
    <3>3. t \in ref_time[j] .. ref_time[j] + Window - 1
      BY <1>1, <3>2
    <3> QED BY <2>1, <2>3, <3>1, <3>3
  <2> QED BY <2>2, <2>3
<1>7. Successive'
  BY <1>2, <1>4 DEF Steady, Successive
<1>8. Current'
  <2>1. ref_time[producer] <= newest'
    <3>1. ref_time[producer] <= newest /\ ref_time[producer] \in Nat
      BY <1>1 DEF Steady, Current, waiting
    <3> QED BY <1>1, <3>1
  <2>2. Aligned(ref_time[producer])'
    BY <1>2 DEF Steady, Current, waiting, Aligned
  <2> QED BY <1>2, <1>3, <1>4, <2>1, <2>2 DEF Steady, Current, waiting
<1> QED BY <1>2, <1>5, <1>6, <1>7, <1>8 DEF Steady

\* What Stored says of one place.
LEMMA PlaceFacts ==
  ASSUME TypeOK, Stored, NEW i \in Slots, NEW k \in Places
  PROVE  /\ samples[i][k] \in Nat /\ newest \in Nat /\ samples[i][k] <= newest
         /\ writer # "idle" => samples[i][k] < newest
<1>1. samples[i] \in [Places -> Nat] /\ newest \in Nat
  BY DEF TypeOK
<1>2. samples[i][k] \in Nat
  BY <1>1
<1>3. samples[i][k] <= newest /\ (writer # "idle" => samples[i][k] < newest)
  BY Zenon DEF Stored
<1> QED BY <1>1, <1>2, <1>3

\* A packet is added to the slot of its buffer, at its own place.
LEMMA AddedPacketStored ==
  ASSUME TypeOK, Stored, writer = "idle", NEW t \in Nat, NEW j \in channel,
         t >= ref_time[j], t < ref_time[j] + Window,
         CopyData(j, t), ref_time' = ref_time,
         newest' \in Nat, newest' >= newest, newest' >= t, reference_counter # 0,
         UNCHANGED <<channel, writer, reference_counter>>
  PROVE  Stored'
<1>1. /\ ref_time \in [Slots -> Nat] /\ counted \in [Slots -> SUBSET Nat]
      /\ samples \in [Slots -> [Places -> Nat]] /\ channel \subseteq Slots
      /\ newest \in Nat /\ Window \in Nat \ {0} /\ reference_counter \in Nat
  BY CorrelatorAssumption DEF TypeOK
<1>2. j \in Slots /\ ref_time[j] \in Nat
  BY <1>1
<1> DEFINE place == t - ref_time[j]
<1>3. PacketIndex(t) = place /\ place \in Places
  <2> DEFINE a == ref_time[j] - reference_counter
  <2>1. place \in 0 .. Window - 1
    BY <1>1, <1>2
  <2>2. a % Window = 0
    BY DEF Stored, Aligned
  <2>3. a \in Int /\ t - reference_counter = a + place
    BY <1>1, <1>2
  <2> HIDE DEF a, place
  <2>4. (a + place) % Window = place
    BY <1>1, <2>1, <2>2, <2>3, PlaceInBuffer
  <2> QED BY <2>1, <2>3, <2>4 DEF PacketIndex, Reference, Places
<1>4. /\ samples' = [samples EXCEPT ![j] = [samples[j] EXCEPT ![place] = t]]
      /\ counted' = [counted EXCEPT ![j] = counted[j] \cup {t}]
  BY <1>1, <1>2, <1>3 DEF CopyData
<1>5. ref_time[j] + place = t
  BY <1>1, <1>2
<1> HIDE DEF place
<1>6. /\ \A i \in Slots \ {j} : samples'[i] = samples[i] /\ counted'[i] = counted[i]
      /\ samples'[j] = [samples[j] EXCEPT ![place] = t]
      /\ counted'[j] = counted[j] \cup {t}
  BY <1>1, <1>2, <1>4
<1>7. samples'[j][place] = t /\ \A k \in Places \ {place} : samples'[j][k] = samples[j][k]
  <2>1. samples[j] \in [Places -> Nat]
    BY <1>1, <1>2
  <2> QED BY <1>3, <1>6, <2>1
<1>8. ASSUME NEW i \in Slots, NEW k \in Places
      PROVE  samples'[i][k] <= newest'
  <2>1. samples[i][k] \in Nat /\ samples[i][k] <= newest
    BY PlaceFacts
  <2>2. samples'[i][k] = samples[i][k] \/ samples'[i][k] = t
    BY <1>6, <1>7
  <2> QED BY <1>1, <2>1, <2>2
<1>9. ASSUME NEW i \in channel
      PROVE  Aligned(ref_time[i])' /\ HoldsCounted(i)'
  <2>1. Aligned(ref_time[i]) /\ HoldsCounted(i) /\ i \in Slots
    BY <1>1 DEF Stored
  <2>2. Aligned(ref_time[i])'
    BY <2>1 DEF Aligned
  <2>3. CASE i # j
    BY <1>6, <2>1, <2>2, <2>3 DEF HoldsCounted
  <2>4. CASE i = j
    <3>1. ASSUME NEW k \in Places
          PROVE  IF ref_time[j] + k \in counted'[j]
                   THEN samples'[j][k] = ref_time[j] + k
                   ELSE samples'[j][k] < ref_time[j]
      <4>1. CASE k = place
        BY <1>5, <1>6, <1>7, <4>1
      <4>2. CASE k # place
        <5>1. k \in Int /\ place \in Int
          BY <1>1, <1>3 DEF Places
        <5>2. ref_time[j] + k # t
          BY <1>2, <1>5, <4>2, <5>1
        <5> QED BY <1>6, <1>7, <2>1, <2>4, <4>2, <5>2 DEF HoldsCounted
      <4> QED BY <4>1, <4>2
    <3> QED BY <2>2, <2>4, <3>1 DEF HoldsCounted
  <2> QED BY <2>3, <2>4
<1> QED BY <1>8, <1>9 DEF Stored

\* Nothing in the slots changes, but for the slot the correlator has released.
LEMMA NothingStored ==
  ASSUME TypeOK, Stored, UNCHANGED <<samples, reference_counter>>, channel' \subseteq channel,
         \A i \in channel' : ref_time'[i] = ref_time[i] /\ counted'[i] = counted[i],
         newest' \in Nat, newest' >= newest,
         writer' # "idle" => writer # "idle" \/ newest' > newest
  PROVE  Stored'
<1>1. samples \in [Slots -> [Places -> Nat]] /\ newest \in Nat
  BY DEF TypeOK
<1>2. ASSUME NEW i \in Slots, NEW k \in Places
      PROVE  samples[i][k] <= newest' /\ (writer' # "idle" => samples[i][k] < newest')
  <2>1. /\ samples[i][k] \in Nat /\ samples[i][k] <= newest
        /\ writer # "idle" => samples[i][k] < newest
    BY PlaceFacts
  <2> QED BY <1>1, <2>1
<1>3. ASSUME NEW i \in channel'
      PROVE  Aligned(ref_time[i])' /\ HoldsCounted(i)'
  <2>1. Aligned(ref_time[i]) /\ HoldsCounted(i)
    BY <1>3 DEF Stored
  <2> QED BY <1>3, <2>1 DEF Aligned, HoldsCounted
<1> QED BY <1>2, <1>3 DEF Stored

\* The first packet opens slot 0.
LEMMA EmptyKeeps ==
  ASSUME TypeOK, Fresh, Stored, newest = 0, NEW t \in First .. MaxCounter, WriteEmpty(t)
  PROVE  Steady' /\ Stored'
<1>1. /\ channel = {} /\ index = {} /\ ready = {}
      /\ ref_time = [i \in Slots |-> 0]
      /\ counted = [i \in Slots |-> {}]
      /\ producer = 0 /\ consumer = 0
      /\ writer = "idle" /\ reference_counter = 0
      /\ correlator \in {"read", "stopped"}
  BY DEF Fresh
<1>2. First \in Nat \ {0} /\ Window \in Nat \ {0} /\ 0 \in Slots
  BY <1>1, CorrelatorAssumption DEF TypeOK
<1>3. t = First /\ newest' = First /\ reference_counter' = First
  BY <1>1, <1>2 DEF WriteEmpty, Arrives, Reference
<1>4. /\ ref_time' = [i \in Slots |-> IF i = 0 THEN First ELSE 0]
      /\ counted' = [i \in Slots |-> IF i = 0 THEN {First} ELSE {}]
  BY <1>1, <1>2, <1>3 DEF WriteEmpty, CopyData
<1>5. /\ channel' = {0} /\ index' = {0} /\ ready' = {}
      /\ producer' = 0 /\ consumer' = 0 /\ writer' = "idle" /\ correlator' = correlator
  BY <1>1 DEF WriteEmpty, reader
<1>6. \A i \in Slots : Ahead(0, i) = i /\ i \in Nat
  BY NofBuffersAssumption DEF Ahead, Slots
<1>7. Lag' = 0 /\ Depth' = 1 /\ Settled' = -1 /\ ~waiting'
  BY <1>2, <1>5, <1>6 DEF Lag, Depth, Settled, waiting
<1>8. \A i \in Slots : /\ Ahead(consumer, i)' = i /\ i \in Nat
                       /\ Used(i)' <=> i = 0
                       /\ ~Freed(i)'
  BY <1>1, <1>5, <1>6, <1>7 DEF Used, Freed
<1>9. Placed'
  <2>1. \A i \in Slots : /\ i \in {0} <=> i = 0
                         /\ ~(i < -1)
    BY <1>8
  <2> QED BY <1>1, <1>5, <1>7, <1>8, <2>1 DEF Placed
<1>10. Filled'
  BY <1>2, <1>4, <1>8 DEF Filled
<1>11. Successive'
  BY <1>7, <1>8 DEF Successive
<1>12. Current'
  <2>1. Aligned(First)'
    <3>1. (First - First) % Window = 0
      BY <1>2
    <3> QED BY <1>3, <3>1 DEF Aligned
  <2> QED BY <1>2, <1>3, <1>4, <1>5, <1>7, <2>1 DEF Current, Aligned
<1>13. Stored'
  <2>1. samples \in [Slots -> [Places -> Nat]] /\ 0 \in Places
    BY <1>2 DEF TypeOK, Places
  <2>2. \A i \in Slots, k \in Places : samples[i][k] = 0
    <3> SUFFICES ASSUME NEW i \in Slots, NEW k \in Places PROVE samples[i][k] = 0
      OBVIOUS
    <3>1. samples[i][k] \in Nat /\ samples[i][k] <= 0
      BY PlaceFacts
    <3> QED BY <3>1
  <2>3. PacketIndex(First) = 0
    BY <1>1, <1>2 DEF PacketIndex, Reference
  <2>4. samples' = [samples EXCEPT ![0] = [samples[0] EXCEPT ![0] = First]]
    BY <1>1, <1>2, <1>3, <2>1, <2>3 DEF WriteEmpty, CopyData
  <2>5. samples'[0] = [samples[0] EXCEPT ![0] = First] /\ samples[0] \in [Places -> Nat]
    BY <1>2, <2>1, <2>4
  <2>6. \A k \in Places : samples'[0][k] = IF k = 0 THEN First ELSE 0
    BY <1>2, <2>1, <2>2, <2>5
  <2>7. \A i \in Slots, k \in Places : samples'[i][k] = IF i = 0 /\ k = 0 THEN First ELSE 0
    BY <1>2, <2>1, <2>2, <2>4, <2>6
  <2>8. \A i \in Slots, k \in Places : samples'[i][k] <= First
    BY <1>2, <2>7
  <2>9. HoldsCounted(0)'
    <3>1. ref_time'[0] = First /\ counted'[0] = {First}
      BY <1>2, <1>4
    <3>2. ASSUME NEW k \in Places
          PROVE  IF First + k \in {First} THEN samples'[0][k] = First + k
                                         ELSE samples'[0][k] < First
      <4>1. k \in Nat
        BY <1>2 DEF Places
      <4> QED BY <1>2, <2>6, <4>1
    <3> QED BY <3>1, <3>2 DEF HoldsCounted
  <2>10. Aligned(ref_time[0])'
    BY <1>2, <1>3, <1>4 DEF Aligned
  <2> QED BY <1>3, <1>5, <2>8, <2>9, <2>10 DEF Stored
<1> QED BY <1>9, <1>10, <1>11, <1>12, <1>13 DEF Steady

\* A late packet is of the previous buffer, and goes there.
LEMMA PreviousKeeps ==
  ASSUME TypeOK, Benign, Steady, Stored, newest # 0, NEW t \in First .. MaxCounter,
         WritePrevious(t)
  PROVE  Steady' /\ Stored' /\ ref_time' = ref_time
<1> DEFINE j == Pred(producer)
<1>1. /\ Arrives(t) /\ ref_time[producer] > t /\ CopyData(j, t)
      /\ index' = index \cup {j}
      /\ UNCHANGED <<channel, ready, producer, writer, packet, in_use, reader>>
  BY DEF WritePrevious, IsPrevious
<1>2. /\ producer \in Slots /\ j \in Slots /\ ref_time[producer] \in Nat /\ ref_time[j] \in Nat
      /\ newest \in Nat /\ t \in Nat /\ Window \in Nat \ {0} /\ First \in Nat
  BY RingFacts, CorrelatorAssumption DEF TypeOK
<1>3. /\ reference_counter' = reference_counter /\ writer = "idle" /\ ~waiting
      /\ newest' = IF t > newest THEN t ELSE newest
      /\ t + Window >= newest
  BY <1>1, NoStartSkipped DEF Arrives
<1>4. /\ ref_time[producer] <= newest /\ newest < ref_time[producer] + Window
      /\ Lag = 0 => ref_time[producer] = First
  BY <1>3 DEF Steady, Current
<1>5. Lag # 0
  BY <1>1, <1>2, <1>4
<1>6. /\ Used(j) /\ ~Freed(j) /\ j \in index
      /\ ref_time[producer] = ref_time[j] + Window
  BY <1>3, <1>5, WritersSlots
<1>7. /\ t >= ref_time[j] /\ t < ref_time[j] + Window
      /\ newest' = newest
  BY <1>1, <1>2, <1>3, <1>4, <1>6
<1>8. index' = index
  BY <1>1, <1>6
<1> HIDE DEF j
<1>9. Steady' /\ ref_time' = ref_time
  BY <1>1, <1>2, <1>3, <1>4, <1>6, <1>7, <1>8, AddedPacketKeeps
<1>10. Stored'
  <2>1. j \in channel /\ reference_counter # 0
    BY <1>2, <1>6 DEF Steady, Placed, Current
  <2>2. newest' >= t
    BY <1>1, <1>2, <1>4, <1>7
  <2> QED BY <1>1, <1>2, <1>3, <1>7, <1>9, <2>1, <2>2, AddedPacketStored
<1> QED BY <1>9, <1>10

\* A packet of the current buffer.
LEMMA CurrentKeeps ==
  ASSUME TypeOK, Benign, Steady, Stored, newest # 0, NEW t \in First .. MaxCounter,
         WriteCurrent(t)
  PROVE  Steady' /\ Stored' /\ ref_time' = ref_time
<1>1. /\ Arrives(t) /\ ~(ref_time[producer] > t) /\ CopyData(producer, t)
      /\ ~IsBoundary(t)
      /\ UNCHANGED <<channel, index, ready, producer, writer, packet, in_use, reader>>
  BY DEF WriteCurrent, IsPrevious
<1>2. /\ producer \in Slots /\ ref_time[producer] \in Nat
      /\ newest \in Nat /\ t \in Nat /\ Window \in Nat \ {0}
  BY RingFacts, CorrelatorAssumption DEF TypeOK
<1>3. /\ reference_counter' = reference_counter /\ writer = "idle" /\ ~waiting
      /\ newest' = IF t > newest THEN t ELSE newest
      /\ t <= ref_time[producer] + Window
      /\ t = ref_time[producer] + Window => PacketIndex(t) = 0
  BY <1>1, NoStartSkipped DEF Arrives
<1>4. t < ref_time[producer] + Window
  BY <1>1, <1>2, <1>3 DEF IsBoundary
<1>5. newest < ref_time[producer] + Window
  BY <1>3 DEF Steady, Current
<1>6. /\ newest' \in Nat /\ newest' >= newest /\ newest' < ref_time[producer] + Window
  BY <1>2, <1>3, <1>4, <1>5
<1>7. Used(producer) /\ ~Freed(producer) /\ t >= ref_time[producer]
  BY <1>1, <1>2, <1>3, WritersSlots
<1>8. Steady' /\ ref_time' = ref_time
  BY <1>1, <1>2, <1>3, <1>4, <1>6, <1>7, AddedPacketKeeps
<1>9. Stored'
  <2>1. producer \in channel /\ reference_counter # 0
    BY <1>2, <1>7 DEF Steady, Placed, Current
  <2>2. newest' >= t
    BY <1>2, <1>3
  <2> QED BY <1>1, <1>2, <1>3, <1>4, <1>6, <1>7, <1>8, <2>1, <2>2, AddedPacketStored
<1> QED BY <1>8, <1>9

\* The first packet of the next buffer: is there a buffer before the current one?
LEMMA BoundaryKeeps ==
  ASSUME TypeOK, Benign, Steady, Stored, newest # 0, NEW t \in First .. MaxCounter,
         CrossBoundary(t)
  PROVE  Steady' /\ Stored'
<1>1. /\ Arrives(t) /\ t >= ref_time[producer] + Window
      /\ in_use' = (Pred(producer) \in index)
      /\ writer' = "publish" /\ packet' = t
      /\ UNCHANGED <<channel, index, ready, ref_time, counted, samples, producer, consumer,
                     correlator>>
  BY DEF CrossBoundary, IsBoundary, contents, slot, reader
<1>2. /\ producer \in Slots /\ ref_time[producer] \in Nat
      /\ newest \in Nat /\ t \in Nat /\ Window \in Nat \ {0}
  BY RingFacts, CorrelatorAssumption DEF TypeOK
<1>3. /\ reference_counter' = reference_counter /\ writer = "idle" /\ ~waiting
      /\ newest' = IF t > newest THEN t ELSE newest
      /\ t <= ref_time[producer] + Window
  BY <1>1, NoStartSkipped DEF Arrives
<1>4. /\ ref_time[producer] <= newest /\ newest < ref_time[producer] + Window
  BY <1>3 DEF Steady, Current
<1>5. newest' = t /\ t = ref_time[producer] + Window
  BY <1>1, <1>2, <1>3, <1>4
<1>6. waiting' = waiting
  BY <1>1, <1>3 DEF waiting
<1>7. /\ Lag' = Lag /\ Depth' = Depth /\ Settled' = Settled
      /\ \A i : Used(i)' <=> Used(i)
      /\ \A i : Ahead(consumer, i)' = Ahead(consumer, i)
      /\ \A i : Freed(i)' <=> Freed(i)
  BY <1>1, <1>6, PlacesKept DEF Freed
<1>8. Placed'
  BY <1>1, <1>7 DEF Steady, Placed
<1>9. Filled' /\ Successive'
  BY <1>1, <1>7 DEF Steady, Filled, Successive
<1>10. in_use' <=> Lag # 0
  <2>1. Lag # 0 => Pred(producer) \in index
    BY <1>3, WritersSlots
  <2>2. Lag = 0 => Pred(producer) \notin index
    <3>1. /\ Pred(producer) \in Slots /\ NofBuffers >= 3 /\ NofBuffers \in Nat
          /\ Lag = 0 => Ahead(consumer, Pred(producer)) = NofBuffers - 1
      BY RingFacts
    <3>2. Lag = 0 => ~Used(Pred(producer))
      BY <1>3, <3>1, DepthFacts DEF Used
    <3> QED BY <3>1, <3>2 DEF Steady, Placed
  <2> QED BY <1>1, <2>1, <2>2
<1>11. Current'
  <2>1. Aligned(ref_time[producer])'
    BY <1>1, <1>3 DEF Steady, Current, Aligned
  <2>2. ref_time[producer] <= newest'
    BY <1>2, <1>5
  <2> QED BY <1>1, <1>3, <1>5, <1>6, <1>7, <1>10, <2>1, <2>2 DEF Steady, Current
<1>12. Stored'
  BY <1>1, <1>2, <1>3, <1>4, <1>5, NothingStored
<1> QED BY <1>8, <1>9, <1>11, <1>12 DEF Steady

\* The slot before the one just filled is published, and the receiving thread waits for
\* the next one.
LEMMA PublishKeeps ==
  ASSUME TypeOK, Steady, newest # 0, PublishPrevious
  PROVE  Steady' /\ Settled' = Settled + 1
<1> DEFINE j == Pred(producer)
<1>1. /\ writer = "publish" /\ ~waiting /\ writer' = "wait" /\ waiting'
      /\ ready' = IF in_use THEN ready \cup {j} ELSE ready
      /\ producer' = Succ(producer)
      /\ UNCHANGED <<channel, index, ref_time, counted, packet, reference_counter, consumer,
                     correlator, newest>>
  BY DEF PublishPrevious, Published, slot, reader, waiting
<1>2. /\ producer \in Slots /\ j \in Slots /\ Pred(producer') = producer
      /\ NofBuffers \in Nat /\ NofBuffers >= 3 /\ Lag \in 0 .. NofBuffers - 1
      /\ Depth = Lag + 1 /\ Settled = Lag - 1
      /\ Lag # 0 => Ahead(consumer, j) = Lag - 1
      /\ \A i \in Slots : Ahead(consumer, i) \in Nat
      /\ Window \in Nat \ {0} /\ ref_time[producer] \in Nat /\ newest \in Nat
  BY <1>1, RingFacts, DepthFacts, CorrelatorAssumption DEF TypeOK
<1> HIDE DEF j
<1>3. in_use <=> Lag # 0
  BY <1>1 DEF Steady, Current
<1>4. Lag' = IF Lag = NofBuffers - 1 THEN 0 ELSE Lag + 1
  <2>1. Lag' = Ahead(consumer, Succ(producer))
    BY <1>1 DEF Lag
  <2> QED BY <2>1, RingFacts
<1>5. Depth' = Depth /\ Settled' = Settled + 1
  <2>1. Depth' = IF Lag' = 0 THEN NofBuffers ELSE Lag'
    BY <1>1 DEF Depth
  <2>2. Settled' = Depth' - 1
    BY <1>1 DEF Settled
  <2> QED BY <1>2, <1>4, <2>1, <2>2
<1>6. /\ \A i : Used(i)' <=> Used(i)
      /\ \A i : Ahead(consumer, i)' = Ahead(consumer, i)
      /\ \A i : Freed(i)' <=> Freed(i)
  BY <1>1, <1>5 DEF Used, Freed, Ahead
<1>7. \A i \in Slots : i \in ready' <=>
        Ahead(consumer, i) < Settled + 1 /\ ~(i = consumer /\ correlator = "reset")
  <2> SUFFICES ASSUME NEW i \in Slots
               PROVE  i \in ready' <=>
                 Ahead(consumer, i) < Settled + 1 /\ ~(i = consumer /\ correlator = "reset")
    OBVIOUS
  <2>1. i \in ready <=> Ahead(consumer, i) < Settled /\ ~(i = consumer /\ correlator = "reset")
    BY DEF Steady, Placed
  <2>2. Ahead(consumer, i) = Settled <=> i = j /\ Lag # 0
    <3>1. Lag # 0 => (Ahead(consumer, i) = Ahead(consumer, j) => i = j)
      BY <1>2, RingFacts
    <3>2. Ahead(consumer, i) \in Nat
      BY <1>2
    <3> QED BY <1>2, <3>1, <3>2
  <2>3. i = j /\ Lag # 0 => ~(i = consumer /\ correlator = "reset")
    <3>1. ~Freed(j)
      BY <1>1, WritersSlots DEF j
    <3> QED BY <3>1 DEF Freed
  <2>4. i \in ready' <=> i \in ready \/ (i = j /\ Lag # 0)
    BY <1>1, <1>3
  <2>5. Ahead(consumer, i) < Settled + 1 <=> Ahead(consumer, i) < Settled \/ Ahead(consumer, i) = Settled
    <3>1. Ahead(consumer, i) \in Nat
      BY <1>2
    <3> QED BY <1>2, <3>1
  <2> QED BY <2>1, <2>2, <2>3, <2>4, <2>5, Zenon
<1>8. Placed'
  <2>1. correlator' \in {"correlate", "flag", "reset"} => Settled' >= 1
    BY <1>1, <1>2, <1>5 DEF Steady, Placed
  <2> QED BY <1>1, <1>5, <1>6, <1>7, <2>1 DEF Steady, Placed
<1>9. Filled' /\ Successive'
  BY <1>1, <1>5, <1>6 DEF Steady, Filled, Successive
<1>10. Current'
  <2>1. Aligned(newest)'
    <3>1. /\ (ref_time[producer] - reference_counter) % Window = 0
          /\ newest = ref_time[producer] + Window
      BY <1>1 DEF Steady, Current, Aligned
    <3>2. reference_counter \in Nat
      BY DEF TypeOK
    <3> DEFINE a == ref_time[producer] - reference_counter
    <3>3. a \in Int /\ a % Window = 0 /\ newest - reference_counter = a + Window
      BY <1>2, <3>1, <3>2
    <3> HIDE DEF a
    <3>4. (a + Window) % Window = 0
      BY <1>2, <3>3, NextMultiple
    <3> QED BY <1>1, <3>3, <3>4 DEF Aligned
  <2> QED BY <1>1, <1>2, <2>1 DEF Steady, Current
<1> QED BY <1>5, <1>8, <1>9, <1>10 DEF Steady

\* The slot is claimed when it is free: it is beyond all that are used.
LEMMA ClaimKeeps ==
  ASSUME TypeOK, Steady, newest # 0, pace = "steady", ClaimSlot
  PROVE  Steady' /\ (Stored => Stored') /\ Settled' = Settled /\ producer # consumer
<1>1. /\ waiting /\ producer \notin index /\ Unlocked(producer)
      /\ channel' = channel \cup {producer} /\ index' = index \cup {producer}
      /\ ready' = ready \ {producer}
      /\ ref_time' = [ref_time EXCEPT ![producer] = packet]
      /\ counted' = [counted EXCEPT ![producer] = {packet}]
      /\ samples' = [samples EXCEPT ![producer] = [samples[producer] EXCEPT ![0] = packet]]
      /\ writer' = "idle" /\ ~waiting'
      /\ UNCHANGED <<producer, consumer, correlator, reference_counter, newest>>
  BY DEF ClaimSlot, MayClaim, waiting, reader
<1>2. /\ producer \in Slots /\ consumer \in Slots
      /\ ref_time \in [Slots -> Nat] /\ counted \in [Slots -> SUBSET Nat]
      /\ samples \in [Slots -> [Places -> Nat]]
      /\ NofBuffers \in Nat /\ NofBuffers >= 3 /\ Lag \in 0 .. NofBuffers - 1
      /\ Ahead(consumer, producer) = Lag
      /\ Depth = (IF Lag = 0 THEN NofBuffers ELSE Lag) /\ Settled = Depth - 1
      /\ \A i \in Slots : Ahead(consumer, i) \in Nat
      /\ Window \in Nat \ {0} /\ newest \in Nat \ {0} /\ First \in Nat
  BY <1>1, RingFacts, DepthFacts, CorrelatorAssumption DEF TypeOK, Depth, Lag
<1>3. /\ packet = newest /\ newest = ref_time[Pred(producer)] + Window
      /\ Aligned(newest)
  BY <1>1 DEF Steady, Current
<1>4. ~Freed(producer)
  BY <1>1 DEF Unlocked, Releasing, Freed
<1>5. ~Used(producer)
  BY <1>1, <1>2, <1>4 DEF Steady, Placed
<1>6. Lag # 0 /\ Depth = Lag /\ producer # consumer
  <2>1. Lag # 0
    BY <1>2, <1>5 DEF Used
  <2> QED BY <1>2, <2>1, RingFacts
<1>7. /\ Lag' = Lag /\ Depth' = Depth + 1 /\ Settled' = Settled
      /\ \A i : Ahead(consumer, i)' = Ahead(consumer, i)
      /\ \A i : Freed(i)' <=> Freed(i)
  <2>1. Lag' = Lag
    BY <1>1 DEF Lag
  <2>2. Depth' = Lag + 1
    BY <1>1, <2>1 DEF Depth
  <2>3. Settled' = Depth' - 2
    BY <1>1 DEF Settled
  <2> QED BY <1>1, <1>2, <1>6, <2>1, <2>2, <2>3 DEF Ahead, Freed
<1>8. \A i \in Slots : Used(i)' <=> Used(i) \/ i = producer
  <2> SUFFICES ASSUME NEW i \in Slots
               PROVE  Ahead(consumer, i) < Lag + 1 <=> Ahead(consumer, i) < Lag \/ i = producer
    BY <1>6, <1>7 DEF Used
  <2>1. Ahead(consumer, i) \in Nat /\ (Ahead(consumer, i) = Lag <=> i = producer)
    BY <1>2, RingFacts
  <2>2. Lag \in Nat
    BY <1>2
  <2> QED BY <2>1, <2>2
<1>9. producer \notin ready
  <2>1. ~(Ahead(consumer, producer) < Settled)
    BY <1>2, <1>6
  <2> QED BY <1>2, <2>1 DEF Steady, Placed
<1>10. Placed'
  <2>1. ready' = ready
    BY <1>1, <1>9
  <2>2. \A i \in Slots : /\ i \in index' <=> Used(i)' /\ ~Freed(i)'
                         /\ i \in channel' <=> Used(i)' /\ ~Freed(i)'
    BY <1>1, <1>4, <1>7, <1>8 DEF Steady, Placed
  <2> QED BY <1>1, <1>7, <2>1, <2>2 DEF Steady, Placed
<1>11. Filled'
  <2> SUFFICES ASSUME NEW i \in Slots, Used(i)', ~Freed(i)
               PROVE  /\ ref_time'[i] # 0
                      /\ counted'[i] \subseteq ref_time'[i] .. ref_time'[i] + Window - 1
    BY <1>7 DEF Filled
  <2>1. CASE i = producer
    <3>1. ref_time'[i] = newest /\ counted'[i] = {newest}
      BY <1>1, <1>2, <1>3, <2>1
    <3> QED BY <1>2, <3>1
  <2>2. CASE i # producer
    <3>1. ref_time'[i] = ref_time[i] /\ counted'[i] = counted[i] /\ Used(i)
      BY <1>1, <1>2, <1>8, <2>2
    <3> QED BY <3>1 DEF Steady, Filled
  <2> QED BY <2>1, <2>2
<1>12. Successive'
  <2> SUFFICES ASSUME NEW i \in Slots, Ahead(consumer, i) + 1 < Lag + 1, ~Freed(i)
               PROVE  ref_time'[Succ(i)] = ref_time'[i] + Window
    BY <1>6, <1>7 DEF Successive
  <2>1. Ahead(consumer, i) \in Nat /\ i # producer
    BY <1>2
  <2>2. Succ(i) \in Slots /\ Pred(Succ(i)) = i
    BY SlotsClosed, PredSucc
  <2>3. CASE Succ(i) = producer
    BY <1>1, <1>2, <1>3, <2>1, <2>2, <2>3
  <2>4. CASE Succ(i) # producer
    <3>1. Ahead(consumer, i) # Lag - 1
      <4>1. Ahead(consumer, Pred(producer)) = Lag - 1 /\ Pred(producer) \in Slots
        BY <1>6, RingFacts
      <4>2. i # Pred(producer)
        BY <2>4, RingFacts
      <4> QED BY <4>1, <4>2, RingFacts
    <3>2. Ahead(consumer, i) + 1 < Depth
      BY <1>2, <1>6, <2>1, <3>1
    <3>3. ref_time[Succ(i)] = ref_time[i] + Window
      BY <3>2 DEF Steady, Successive
    <3> QED BY <1>1, <1>2, <2>1, <2>2, <2>4, <3>3
  <2> QED BY <2>3, <2>4
<1>13. Current'
  <2>1. ref_time'[producer'] = newest /\ newest' = newest
    BY <1>1, <1>2, <1>3
  <2>2. newest' < ref_time'[producer'] + Window /\ ref_time'[producer'] <= newest'
    BY <1>2, <2>1
  <2>3. Aligned(ref_time[producer])'
    BY <1>1, <1>3, <2>1 DEF Aligned
  <2> QED BY <1>1, <1>6, <1>7, <2>2, <2>3 DEF Steady, Current
<1>14. ASSUME Stored PROVE Stored'
  <2>1. /\ ref_time'[producer] = newest /\ counted'[producer] = {newest}
        /\ \A i \in Slots \ {producer} :
             /\ ref_time'[i] = ref_time[i] /\ counted'[i] = counted[i]
             /\ samples'[i] = samples[i]
    BY <1>1, <1>2, <1>3
  <2>2. \A k \in Places : samples'[producer][k] = IF k = 0 THEN newest ELSE samples[producer][k]
    <3>1. samples[producer] \in [Places -> Nat] /\ 0 \in Places
      BY <1>2 DEF Places
    <3>2. samples'[producer] = [samples[producer] EXCEPT ![0] = newest]
      BY <1>1, <1>2, <1>3
    <3> QED BY <3>1, <3>2
  <2>3. \A i \in Slots, k \in Places : samples[i][k] \in Nat /\ samples[i][k] < newest
    BY <1>1, <1>14, PlaceFacts DEF waiting
  <2>4. ASSUME NEW i \in Slots, NEW k \in Places
        PROVE  samples'[i][k] <= newest
    BY <1>2, <2>1, <2>2, <2>3
  <2>5. HoldsCounted(producer)'
    <3>1. ASSUME NEW k \in Places
          PROVE  IF newest + k \in {newest} THEN samples'[producer][k] = newest + k
                                           ELSE samples'[producer][k] < newest
      <4>1. k \in Nat /\ newest \in Nat
        BY <1>2 DEF Places
      <4>2. samples[producer][k] < newest
        BY <1>2, <2>3
      <4>3. newest + k \in {newest} <=> k = 0
        BY <4>1
      <4> QED BY <2>2, <4>1, <4>2, <4>3
    <3> QED BY <1>1, <2>1, <3>1 DEF HoldsCounted
  <2>6. ASSUME NEW i \in channel, i # producer
        PROVE  Aligned(ref_time[i])' /\ HoldsCounted(i)'
    <3>1. i \in Slots /\ Aligned(ref_time[i]) /\ HoldsCounted(i)
      BY <1>14 DEF Stored, TypeOK
    <3> QED BY <1>1, <2>1, <2>6, <3>1 DEF Aligned, HoldsCounted
  <2>7. Aligned(ref_time[producer])'
    BY <1>1, <1>3, <2>1 DEF Aligned
  <2> QED BY <1>1, <2>4, <2>5, <2>6, <2>7 DEF Stored
<1> QED BY <1>6, <1>7, <1>10, <1>11, <1>12, <1>13, <1>14 DEF Steady
-----------------------------------------------------------------------------
(* The correlator                                                           *)

\* Steps that change no buffer and no cursor.
LEMMA OthersKeep ==
  ASSUME Steady,
         UNCHANGED <<contents, receiver, consumer, newest>>,
         correlator' \in {"flag", "reset"} <=> correlator \in {"flag", "reset"},
         correlator' = "reset" <=> correlator = "reset",
         correlator' = "correlate" => Settled >= 1
  PROVE  Steady'
<1>1. /\ UNCHANGED <<channel, index, ref_time, ready, counted, producer, writer, packet,
                     in_use, reference_counter, consumer, newest>>
      /\ waiting' = waiting
  BY DEF contents, slot, receiver, waiting
<1>2. /\ Lag' = Lag /\ Depth' = Depth /\ Settled' = Settled
      /\ \A i : Used(i)' <=> Used(i)
      /\ \A i : Ahead(consumer, i)' = Ahead(consumer, i)
      /\ \A i : Freed(i)' <=> Freed(i)
  BY <1>1, PlacesKept DEF Freed
<1>3. Placed'
  BY <1>1, <1>2 DEF Steady, Placed
<1>4. Filled' /\ Successive'
  BY <1>1, <1>2 DEF Steady, Filled, Successive
<1>5. Current'
  BY <1>1, <1>2 DEF Steady, Current, Aligned
<1> QED BY <1>3, <1>4, <1>5 DEF Steady

\* The slots the receiving thread looks at while it waits, or does not, are not the
\* correlator's.
LEMMA CorrelatorsSlot ==
  ASSUME TypeOK, Steady, correlator \in {"correlate", "flag", "reset"}
  PROVE  /\ Used(consumer) /\ consumer \in Slots /\ Settled >= 1
         /\ ~waiting => consumer # producer
         /\ consumer # Pred(producer)
<1>1. /\ consumer \in Slots /\ Ahead(consumer, consumer) = 0
      /\ Lag \in 0 .. NofBuffers - 1 /\ NofBuffers >= 3 /\ NofBuffers \in Nat
      /\ Lag # 0 => Ahead(consumer, Pred(producer)) = Lag - 1
      /\ Lag = 0 => Ahead(consumer, Pred(producer)) = NofBuffers - 1
      /\ Depth \in 1 .. NofBuffers
      /\ ~waiting => Settled = Lag - 1
      /\ waiting => Settled = Depth - 1
  BY RingFacts, DepthFacts DEF TypeOK
<1>2. Settled >= 1
  BY DEF Steady, Placed
<1>3. Used(consumer)
  BY <1>1 DEF Used
<1>4. ~waiting => consumer # producer
  <2>1. ~waiting => Lag # 0
    BY <1>1, <1>2
  <2> QED BY <1>1, <2>1 DEF Lag
<1>5. Lag # 1
  <2>1. waiting /\ Lag # 0 => Depth = Lag
    BY DEF Depth
  <2> QED BY <1>1, <1>2, <2>1
<1>6. consumer # Pred(producer)
  BY <1>1, <1>5
<1> QED BY <1>1, <1>2, <1>3, <1>4, <1>6

\* First channel and index: the slot is no buffer any more, and is the correlator's still.
LEMMA ReleaseSlotKeeps ==
  ASSUME TypeOK, Steady, ReleaseSlot
  PROVE  Steady'
<1>1. /\ correlator = "correlate" /\ correlator' = "flag"
      /\ channel' = channel \ {consumer} /\ index' = index \ {consumer}
      /\ UNCHANGED <<ref_time, ready, counted, producer, writer, packet, in_use,
                     reference_counter, consumer, newest>>
      /\ waiting' = waiting
  BY DEF ReleaseSlot, receiver, waiting
<1>2. /\ Lag' = Lag /\ Depth' = Depth /\ Settled' = Settled
      /\ \A i : Used(i)' <=> Used(i)
      /\ \A i : Ahead(consumer, i)' = Ahead(consumer, i)
  BY <1>1, PlacesKept
<1>3. \A i : Freed(i)' <=> i = consumer
  BY <1>1 DEF Freed
<1>4. \A i : ~Freed(i)
  BY <1>1 DEF Freed
<1>5. Settled >= 1
  BY <1>1 DEF Steady, Placed
<1>6. Placed'
  <2>1. \A i \in Slots :
          /\ i \in index' <=> Used(i)' /\ ~Freed(i)'
          /\ i \in channel' <=> Used(i)' /\ ~Freed(i)'
    BY <1>1, <1>2, <1>3, <1>4 DEF Steady, Placed
  <2> QED BY <1>1, <1>2, <1>5, <2>1 DEF Steady, Placed
<1>7. Filled' /\ Successive'
  BY <1>1, <1>2, <1>4 DEF Steady, Filled, Successive
<1>8. Current'
  BY <1>1, <1>2 DEF Steady, Current, Aligned
<1> QED BY <1>6, <1>7, <1>8 DEF Steady

\* ... then ready ...
LEMMA ReleaseReadyKeeps ==
  ASSUME TypeOK, Steady, ReleaseReady
  PROVE  Steady'
<1>1. /\ correlator = "flag" /\ correlator' = "reset"
      /\ ready' = ready \ {consumer}
      /\ UNCHANGED <<channel, index, ref_time, counted, producer, writer, packet, in_use,
                     reference_counter, consumer, newest>>
      /\ waiting' = waiting
  BY DEF ReleaseReady, slot, receiver, waiting
<1>2. /\ Lag' = Lag /\ Depth' = Depth /\ Settled' = Settled
      /\ \A i : Used(i)' <=> Used(i)
      /\ \A i : Ahead(consumer, i)' = Ahead(consumer, i)
      /\ \A i : Freed(i)' <=> Freed(i)
  BY <1>1, PlacesKept DEF Freed
<1>3. Placed'
  <2>1. Settled >= 1
    BY <1>1 DEF Steady, Placed
  <2>2. \A i \in Slots :
          i \in ready' <=> Ahead(consumer, i) < Settled /\ ~(i = consumer /\ correlator' = "reset")
    BY <1>1 DEF Steady, Placed
  <2> QED BY <1>1, <1>2, <2>1, <2>2 DEF Steady, Placed
<1>4. Filled' /\ Successive'
  BY <1>1, <1>2 DEF Steady, Filled, Successive
<1>5. Current'
  BY <1>1, <1>2 DEF Steady, Current, Aligned
<1> QED BY <1>3, <1>4, <1>5 DEF Steady

\* ... then the rest, and the slot is the last of the ring.
LEMMA ReleaseResetKeeps ==
  ASSUME TypeOK, Steady, ReleaseReset
  PROVE  Steady' /\ Settled' = Settled - 1
<1>1. /\ correlator = "reset" /\ correlator' = "read"
      /\ ref_time' = [ref_time EXCEPT ![consumer] = Never]
      /\ counted' = [counted EXCEPT ![consumer] = {}]
      /\ consumer' = Succ(consumer)
      /\ UNCHANGED <<channel, index, ready, producer, writer, packet, in_use,
                     reference_counter, newest>>
      /\ waiting' = waiting
  BY DEF ReleaseReset, receiver, waiting
<1>2. /\ Used(consumer) /\ consumer \in Slots /\ Settled >= 1
      /\ ~waiting => consumer # producer
      /\ consumer # Pred(producer)
  BY <1>1, CorrelatorsSlot
<1>3. /\ producer \in Slots /\ Pred(producer) \in Slots
      /\ ref_time \in [Slots -> Nat] /\ counted \in [Slots -> SUBSET Nat]
      /\ samples \in [Slots -> [Places -> Nat]]
      /\ NofBuffers \in Nat /\ NofBuffers >= 3 /\ Lag \in 0 .. NofBuffers - 1
      /\ Depth \in 1 .. NofBuffers /\ Settled \in Int /\ Settled < Depth
      /\ ~waiting => Depth = Lag + 1 /\ Settled = Lag - 1
      /\ waiting => Settled = Depth - 1
      /\ \A i \in Slots : Ahead(consumer, i) \in Nat
      /\ Ahead(consumer, producer) = Lag
      /\ Lag = 0 <=> producer = consumer
  BY RingFacts, DepthFacts DEF TypeOK, Lag
<1>4. \A i \in Slots :
        Ahead(consumer', i) = IF i = consumer THEN NofBuffers - 1 ELSE Ahead(consumer, i) - 1
  BY <1>1, <1>2, AheadAdvance
<1>5. /\ Lag' = (IF Lag = 0 THEN NofBuffers - 1 ELSE Lag - 1)
      /\ Depth' = Depth - 1 /\ Settled' = Settled - 1
  <2>1. Lag' = Ahead(consumer', producer)
    BY <1>1 DEF Lag
  <2>2. Lag' = (IF Lag = 0 THEN NofBuffers - 1 ELSE Lag - 1)
    BY <1>3, <1>4, <2>1
  <2>3. Depth' = Depth - 1
    <3>1. CASE ~waiting
      <4>1. Depth' = Lag' + 1 /\ Lag # 0
        BY <1>1, <1>2, <1>3, <3>1 DEF Depth
      <4> QED BY <1>3, <2>2, <3>1, <4>1
    <3>2. CASE waiting /\ Lag = 0
      <4>1. Lag' = NofBuffers - 1 /\ Depth = NofBuffers
        BY <2>2, <3>2 DEF Depth
      <4>2. Depth' = IF Lag' = 0 THEN NofBuffers ELSE Lag'
        BY <1>1, <3>2 DEF Depth
      <4> QED BY <1>3, <4>1, <4>2
    <3>3. CASE waiting /\ Lag # 0
      <4>1. Lag' = Lag - 1 /\ Depth = Lag /\ Depth >= 2
        BY <1>2, <1>3, <2>2, <3>3 DEF Depth
      <4>2. Depth' = IF Lag' = 0 THEN NofBuffers ELSE Lag'
        BY <1>1, <3>3 DEF Depth
      <4> QED BY <1>3, <4>1, <4>2
    <3> QED BY <3>1, <3>2, <3>3
  <2>4. Settled' = Settled - 1
    <3>1. Settled' = IF waiting THEN Depth' - 1 ELSE Depth' - 2
      BY <1>1 DEF Settled
    <3> QED BY <1>3, <2>3, <3>1 DEF Settled
  <2> QED BY <2>2, <2>3, <2>4
<1>6. /\ \A i \in Slots : Used(i)' <=> Used(i) /\ i # consumer
      /\ \A i : ~Freed(i)'
  <2>1. \A i : ~Freed(i)'
    BY <1>1 DEF Freed
  <2>2. ASSUME NEW i \in Slots
        PROVE  Used(i)' <=> Used(i) /\ i # consumer
    <3>1. Used(i)' <=> Ahead(consumer', i) < Depth - 1
      BY <1>5 DEF Used
    <3>2. Ahead(consumer, i) \in Nat
      BY <1>3
    <3>3. CASE i = consumer
      BY <1>3, <1>4, <3>1, <3>3
    <3>4. CASE i # consumer
      BY <1>3, <1>4, <3>1, <3>2, <3>4 DEF Used
    <3> QED BY <3>3, <3>4
  <2> QED BY <2>1, <2>2
<1>7. \A i : Freed(i) <=> i = consumer
  BY <1>1 DEF Freed
<1>8. Placed'
  <2>1. \A i \in Slots :
          /\ i \in index' <=> Used(i)' /\ ~Freed(i)'
          /\ i \in channel' <=> Used(i)' /\ ~Freed(i)'
    BY <1>1, <1>6, <1>7 DEF Steady, Placed
  <2>2. ASSUME NEW i \in Slots
        PROVE  i \in ready' <=> Ahead(consumer', i) < Settled'
    <3>1. i \in ready <=> Ahead(consumer, i) < Settled /\ i # consumer
      BY <1>1 DEF Steady, Placed
    <3>2. Ahead(consumer, i) \in Nat
      BY <1>3
    <3>3. CASE i = consumer
      BY <1>1, <1>3, <1>4, <1>5, <3>1, <3>3
    <3>4. CASE i # consumer
      BY <1>1, <1>3, <1>4, <1>5, <3>1, <3>2, <3>4
    <3> QED BY <3>3, <3>4
  <2> QED BY <1>1, <2>1, <2>2 DEF Steady, Placed
<1>9. \A i \in Slots \ {consumer} : ref_time'[i] = ref_time[i] /\ counted'[i] = counted[i]
  BY <1>1, <1>3
<1>10. Filled'
  BY <1>6, <1>7, <1>9 DEF Steady, Filled
<1>11. Successive'
  <2> SUFFICES ASSUME NEW i \in Slots, Ahead(consumer', i) + 1 < Depth'
               PROVE  ref_time'[Succ(i)] = ref_time'[i] + Window
    BY DEF Successive
  <2>1. i # consumer
    BY <1>3, <1>4, <1>5
  <2>2. Ahead(consumer, i) + 1 < Depth /\ ~Freed(i)
    BY <1>3, <1>4, <1>5, <1>7, <2>1
  <2>3. ref_time[Succ(i)] = ref_time[i] + Window
    BY <2>2 DEF Steady, Successive
  <2>4. Succ(i) # consumer /\ Succ(i) \in Slots
    <3>1. Ahead(consumer, i) # NofBuffers - 1
      BY <1>3, <2>2
    <3> QED BY <1>2, <3>1, AheadSucc, SlotsClosed
  <2> QED BY <1>9, <2>1, <2>3, <2>4
<1>12. Current'
  <2>1. ref_time'[Pred(producer)] = ref_time[Pred(producer)]
    BY <1>2, <1>3, <1>9
  <2>2. ~waiting => ref_time'[producer] = ref_time[producer]
    BY <1>2, <1>3, <1>9
  <2>3. ~waiting => Lag # 0 /\ Lag' # 0
    BY <1>2, <1>3, <1>5
  <2>4. writer \in {"idle", "publish"} => ~waiting
    BY DEF waiting
  <2>5. ~waiting => Aligned(ref_time[producer])'
    BY <1>1, <2>2 DEF Steady, Current, Aligned
  <2>6. waiting => Aligned(newest)'
    BY <1>1 DEF Steady, Current, Aligned
  <2> QED BY <1>1, <2>1, <2>2, <2>3, <2>4, <2>5, <2>6 DEF Steady, Current
<1> QED BY <1>5, <1>8, <1>10, <1>11, <1>12 DEF Steady

LEMMA CorrelatorKeeps ==
  ASSUME TypeOK, Steady, Correlator
  PROVE  Steady'
<1>1. CASE ReadBuffer
  <2>1. Settled >= 1
    <3>1. consumer \in Slots /\ Ahead(consumer, consumer) = 0 /\ Settled \in Int
      BY RingFacts, DepthFacts
    <3> QED BY <1>1, <3>1 DEF ReadBuffer, Steady, Placed
  <2> QED BY <1>1, <2>1, OthersKeep DEF ReadBuffer
<1>2. CASE CorrelatorStops
  BY <1>2, OthersKeep DEF CorrelatorStops
<1> QED BY <1>1, <1>2, ReleaseSlotKeeps, ReleaseReadyKeeps, ReleaseResetKeeps DEF Correlator
-----------------------------------------------------------------------------
(* The invariant                                                            *)

LEMMA InitInv == Init => IInv
<1> SUFFICES ASSUME Init PROVE IInv
  OBVIOUS
<1>1. TypeOK
  BY TypeInit
<1>2. Fresh /\ newest = 0
  BY DEF Init, Fresh
<1>3. Stored
  <2>1. \A i \in Slots, k \in Places : samples[i][k] = 0
    BY DEF Init
  <2> QED BY <1>2, <2>1 DEF Stored, Fresh
<1> QED BY <1>1, <1>2, <1>3 DEF IInv

\* Before the first packet the correlator may only stop.
LEMMA FreshKeeps ==
  ASSUME TypeOK, Fresh, newest = 0, pace = "steady", [Next]_vars
  PROVE  /\ newest' # 0 \/ (Fresh' /\ UNCHANGED <<samples, counted, ref_time>>)
         /\ newest' # 0 => \E t \in First .. MaxCounter : WriteEmpty(t)
<1>1. ASSUME NEW t \in First .. MaxCounter, WriteData(t)
      PROVE  newest' # 0 /\ WriteEmpty(t)
  <2>1. Arrives(t)
    BY <1>1 DEF WriteData, WritePrevious, WriteEmpty, WriteCurrent, CrossBoundary
  <2>2. t \in Nat \ {0} /\ newest' # 0
    BY <2>1, ArrivalType
  <2>3. ref_time[producer] = 0
    BY DEF Fresh, TypeOK
  <2>4. ~IsPrevious(t)
    BY <2>2, <2>3 DEF IsPrevious
  <2>5. producer \notin channel
    BY DEF Fresh
  <2> QED BY <1>1, <2>2, <2>4, <2>5 DEF WriteData, WritePrevious, WriteCurrent, CrossBoundary
<1>2. ~Receiver /\ ~FinishWrite
  BY DEF Fresh, Receiver, PublishPrevious, ClaimSlot, FinishReady, FinishWrite
<1>3. CASE Correlator
  <2>1. CorrelatorStops
    BY <1>3 DEF Fresh, Correlator, ReadBuffer, ReleaseSlot, ReleaseReady, ReleaseReset
  <2> QED BY <2>1 DEF CorrelatorStops, Fresh, contents, slot, receiver
<1>4. CASE CleanUp \/ Terminated \/ UNCHANGED vars
  BY <1>4 DEF CleanUp, Terminated, vars, Fresh, contents, slot, receiver, reader
<1> QED BY <1>1, <1>2, <1>3, <1>4 DEF Next

\* The pace is chosen once, and packets do not become unsent.
LEMMA NewestStays ==
  ASSUME TypeOK, [Next]_vars
  PROVE  pace' = pace /\ (newest # 0 => newest' # 0)
<1>1. ASSUME NEW t \in First .. MaxCounter, WriteData(t)
      PROVE  pace' = pace /\ newest' # 0
  <2>1. Arrives(t) /\ pace' = pace
    BY <1>1 DEF WriteData, WritePrevious, WriteEmpty, WriteCurrent, CrossBoundary
  <2> QED BY <2>1, ArrivalType
<1>2. CASE Receiver \/ FinishWrite
  BY <1>2 DEF Receiver, PublishPrevious, ClaimSlot, FinishReady, FinishWrite
<1>3. CASE Correlator
  BY <1>3 DEF Correlator, ReadBuffer, ReleaseSlot, ReleaseReady, ReleaseReset, CorrelatorStops
<1>4. CASE CleanUp \/ Terminated \/ UNCHANGED vars
  BY <1>4 DEF CleanUp, Terminated, vars
<1> QED BY <1>1, <1>2, <1>3, <1>4 DEF Next

LEMMA SteadyStep ==
  ASSUME Benign, TypeOK, Steady, Stored, newest # 0, pace = "steady", [Next]_vars
  PROVE  Steady'
<1>1. ASSUME NEW t \in First .. MaxCounter, WriteData(t)
      PROVE  Steady'
  <2>1. ~WriteEmpty(t)
    BY WritersSlots DEF WriteEmpty, Arrives, waiting
  <2> QED BY <1>1, <2>1, PreviousKeeps, CurrentKeeps, BoundaryKeeps DEF WriteData
<1>2. CASE Receiver
  <2>1. ~FinishReady
    BY DEF FinishReady, Steady, Placed
  <2> QED BY <1>2, <2>1, PublishKeeps, ClaimKeeps DEF Receiver
<1>3. ~FinishWrite
  BY DEF FinishWrite
<1>4. CASE CleanUp \/ Terminated \/ UNCHANGED vars
  <2>1. UNCHANGED <<contents, receiver, consumer, newest, correlator>>
    BY <1>4 DEF CleanUp, Terminated, vars, reader
  <2>2. correlator = "correlate" => Settled >= 1
    BY DEF Steady, Placed
  <2> QED BY <2>1, <2>2, OthersKeep
<1> QED BY <1>1, <1>2, <1>3, <1>4, CorrelatorKeeps DEF Next

\* Of the steps that are left only the release of a slot touches what Stored speaks of.
LEMMA StoredStep ==
  ASSUME Benign, TypeOK, TypeOK', Steady, Stored, newest # 0, pace = "steady", [Next]_vars
  PROVE  Stored'
<1>1. ASSUME NEW t \in First .. MaxCounter, WriteData(t)
      PROVE  Stored'
  <2>1. ~WriteEmpty(t)
    BY WritersSlots DEF WriteEmpty, Arrives, waiting
  <2> QED BY <1>1, <2>1, PreviousKeeps, CurrentKeeps, BoundaryKeeps DEF WriteData
<1>2. newest \in Nat
  BY DEF TypeOK
<1>3. CASE Receiver
  <2>1. ~FinishReady
    BY DEF FinishReady, Steady, Placed
  <2>2. CASE PublishPrevious
    BY <1>2, <2>2, NothingStored DEF PublishPrevious, slot
  <2> QED BY <1>3, <2>1, <2>2, ClaimKeeps DEF Receiver
<1>4. ~FinishWrite
  BY DEF FinishWrite
<1>5. CASE ReleaseReset
  <2>1. consumer \notin channel
    <3>1. consumer \in Slots /\ Freed(consumer)
      BY <1>5 DEF ReleaseReset, Freed, TypeOK
    <3> QED BY <3>1 DEF Steady, Placed
  <2>2. \A i \in channel : ref_time'[i] = ref_time[i] /\ counted'[i] = counted[i]
    BY <1>5, <2>1 DEF ReleaseReset, TypeOK
  <2> QED BY <1>2, <1>5, <2>2, NothingStored DEF ReleaseReset, receiver
<1>6. CASE ReleaseSlot \/ ReleaseReady
  BY <1>2, <1>6, NothingStored DEF ReleaseSlot, ReleaseReady, slot, receiver
<1>7. CASE ReadBuffer \/ CorrelatorStops \/ CleanUp \/ Terminated \/ UNCHANGED vars
  <2>1. UNCHANGED <<contents, receiver, newest>>
    BY <1>7 DEF ReadBuffer, CorrelatorStops, CleanUp, Terminated, vars
  <2> QED BY <1>2, <2>1, NothingStored DEF contents, slot, receiver
<1> QED BY <1>1, <1>3, <1>4, <1>5, <1>6, <1>7 DEF Next, Correlator

LEMMA StepInv ==
  ASSUME Benign, IInv, [Next]_vars
  PROVE  IInv'
<1>1. TypeOK /\ TypeOK'
  BY TypeStep DEF IInv
<1>2. pace' = pace /\ (newest # 0 => newest' # 0)
  BY <1>1, NewestStays
<1>3. ASSUME pace = "steady", newest = 0
      PROVE  (IF newest' = 0 THEN Fresh' ELSE Steady') /\ Stored'
  <2>1. Fresh /\ Stored
    BY <1>3 DEF IInv
  <2>2. CASE newest' # 0
    BY <1>1, <1>3, <2>1, <2>2, FreshKeeps, EmptyKeeps
  <2>3. CASE newest' = 0
    <3>1. Fresh' /\ UNCHANGED <<samples, counted, ref_time>>
      BY <1>1, <1>3, <2>1, <2>3, FreshKeeps
    <3> QED BY <1>3, <2>1, <2>3, <3>1 DEF Stored, Fresh
  <2> QED BY <2>2, <2>3
<1>4. ASSUME pace = "steady", newest # 0
      PROVE  Steady' /\ Stored'
  <2>1. Steady /\ Stored
    BY <1>4 DEF IInv
  <2> QED BY <1>1, <1>4, <2>1, SteadyStep, StoredStep
<1> QED BY <1>1, <1>2, <1>3, <1>4 DEF IInv

\* The cursors stay in the ring and slots stay well formed, at any pace, whatever the
\* stream does and however long a correlation takes (DoubleBuffer, CrossCorrelator).
THEOREM TypeCorrect == Spec => []TypeOK
BY TypeInit, TypeStep, PTL DEF Spec

\* At a steady pace the slots from the correlator's cursor to the writer's hold
\* consecutive buffers, published up to the last two (write_data_single_channel,
\* release_buffer).
THEOREM RingInvariant ==
  ASSUME Benign
  PROVE  Spec => []IInv
<1>1. IInv /\ [Next]_vars => IInv'
  BY StepInv
<1> QED BY <1>1, InitInv, PTL DEF Spec

\* At a steady pace copy_data puts every packet that comes to its own place in the slot of its
\* buffer, and a slot has nothing of a later buffer, whatever is lost; what was lost leaves the
\* samples of an earlier lap in their places (copy_data, release_buffer).
THEOREM SlotsHoldTheirBuffers ==
  ASSUME Benign
  PROVE  Spec => []SlotHoldsItsBuffer
<1>1. IInv => SlotHoldsItsBuffer
  <2> SUFFICES ASSUME IInv, pace = "steady", NEW i \in channel
               PROVE  /\ counted[i] \subseteq ref_time[i] .. ref_time[i] + Window - 1
                      /\ HoldsCounted(i)
    BY DEF SlotHoldsItsBuffer
  <2>1. newest # 0 /\ i \in Slots
    BY DEF IInv, Fresh, TypeOK
  <2>2. Used(i) /\ ~Freed(i)
    BY <2>1 DEF IInv, Steady, Placed
  <2> QED BY <2>1, <2>2 DEF IInv, Steady, Filled, Stored
<1> QED BY <1>1, RingInvariant, PTL

\* At a steady pace nothing is written to the slot that xGPU works on in place, and it is
\* not claimed: DoubleBuffer's writes are non-conflicting indeed, though the previous slot
\* is written and published without its mutex.
THEOREM CorrelationIsStable ==
  ASSUME Benign
  PROVE  Spec => StableDuringCorrelation
<1> DEFINE Kept ==
      pace = "steady" /\ InCorrelation /\ InCorrelation'
        => /\ samples'[consumer] = samples[consumer]
           /\ ref_time'[consumer] = ref_time[consumer]
           /\ consumer \in channel'
<1>1. IInv /\ [Next]_vars => [Kept]_vars
  <2> SUFFICES ASSUME IInv, [Next]_vars, pace = "steady", InCorrelation, InCorrelation'
               PROVE  /\ samples'[consumer] = samples[consumer]
                      /\ ref_time'[consumer] = ref_time[consumer]
                      /\ consumer \in channel'
    OBVIOUS
  <2>1. TypeOK /\ newest # 0 /\ Steady /\ correlator = "correlate" /\ correlator' = "correlate"
    BY DEF IInv, Fresh, InCorrelation
  <2>2. /\ consumer \in Slots /\ consumer \in channel
        /\ ref_time \in [Slots -> Nat] /\ counted \in [Slots -> SUBSET Nat]
        /\ samples \in [Slots -> [Places -> Nat]]
        /\ consumer # Pred(producer)
        /\ ~waiting => consumer # producer
    <3>1. Used(consumer) /\ consumer \in Slots /\ ~Freed(consumer)
      BY <2>1, CorrelatorsSlot DEF Freed
    <3>2. consumer \in channel
      BY <2>1, <3>1 DEF Steady, Placed
    <3> QED BY <2>1, <3>1, <3>2, CorrelatorsSlot DEF TypeOK
  <2>3. ASSUME NEW t \in First .. MaxCounter, WriteData(t)
        PROVE  /\ samples'[consumer] = samples[consumer]
               /\ ref_time'[consumer] = ref_time[consumer]
               /\ consumer \in channel'
    <3>1. consumer # producer
      BY <2>2, <2>3 DEF WriteData, WritePrevious, WriteEmpty, WriteCurrent, CrossBoundary,
                       Arrives, waiting
    <3> QED BY <2>2, <2>3, <3>1
            DEF WriteData, WritePrevious, WriteEmpty, WriteCurrent, CrossBoundary, CopyData,
                contents, slot
  <2>4. CASE PublishPrevious
    BY <2>2, <2>4 DEF PublishPrevious, slot
  <2>5. CASE ClaimSlot
    <3>1. consumer # producer
      BY <2>1, <2>5, ClaimKeeps
    <3> QED BY <2>2, <2>5, <3>1 DEF ClaimSlot
  <2>6. CASE FinishReady \/ FinishWrite
    BY <2>2, <2>6 DEF FinishReady, FinishWrite, contents, slot
  <2>7. CASE Correlator
    BY <2>1, <2>7 DEF Correlator, ReadBuffer, ReleaseSlot, ReleaseReady, ReleaseReset,
                      CorrelatorStops
  <2>8. CASE CleanUp \/ Terminated \/ UNCHANGED vars
    BY <2>2, <2>8 DEF CleanUp, Terminated, vars, contents, slot
  <2> QED BY <2>3, <2>4, <2>5, <2>6, <2>7, <2>8 DEF Next, Receiver
<1> QED BY <1>1, RingInvariant, PTL DEF Spec, StableDuringCorrelation
-----------------------------------------------------------------------------
(* The pipeline                                                             *)

Span(n) == n * Window

\* how many buffers the one begun last is ahead of the one the correlator is due
Gap == IF Releasing THEN Settled ELSE Settled + 1

\* The two ends of the pipeline are as far apart as the ring says.
Level == Filling = ref_time[Bottom] + Span(Gap)

PipelineInv ==
  /\ IInv
  /\ pace = "steady" /\ newest # 0 => Level

\* Lengths of buffers in a row add up, and more buffers are not shorter.
LEMMA Spans ==
  ASSUME NEW n \in Nat
  PROVE  /\ Span(n) \in Nat
         /\ Span(n + 1) = Span(n) + Window
         /\ n >= 2 => 2 * Window <= Span(n)
         /\ n < NofBuffers => Span(n + 1) <= NofBuffers * Window
<1>1. Window \in Nat \ {0} /\ NofBuffers \in Nat
  BY CorrelatorAssumption, NofBuffersAssumption
<1>2. Span(n) \in Nat /\ Span(n + 1) = Span(n) + Window
  BY <1>1 DEF Span
<1>3. ASSUME NEW m \in Nat, NEW d \in Nat
      PROVE  m * Window <= (m + d) * Window
  <2>1. (m + d) * Window = m * Window + d * Window
    BY <1>1
  <2>2. m * Window \in Nat /\ d * Window \in Nat
    BY <1>1
  <2> QED BY <2>1, <2>2
<1>4. ASSUME n >= 2 PROVE 2 * Window <= Span(n)
  <2>1. n - 2 \in Nat /\ 2 + (n - 2) = n
    BY <1>4
  <2> QED BY <1>3, <2>1 DEF Span
<1>5. ASSUME n < NofBuffers PROVE Span(n + 1) <= NofBuffers * Window
  <2>1. NofBuffers - (n + 1) \in Nat /\ n + 1 \in Nat /\ (n + 1) + (NofBuffers - (n + 1)) = NofBuffers
    BY <1>1, <1>5
  <2> QED BY <1>3, <2>1 DEF Span
<1> QED BY <1>2, <1>4, <1>5

\* The numbers the pipeline is read from are numbers.
LEMMA EndsShown ==
  ASSUME TypeOK, Steady, newest # 0
  PROVE  /\ Bottom \in Slots /\ ref_time[Bottom] \in Nat
         /\ Filling \in Nat \ {0}
         /\ Gap \in Nat
         /\ Gap < NofBuffers \/ waiting
<1>1. /\ Succ(consumer) \in Slots /\ consumer \in Slots /\ producer \in Slots
      /\ ref_time \in [Slots -> Nat] /\ packet \in Nat /\ newest \in Nat
  BY RingFacts DEF TypeOK
<1>2. Bottom \in Slots /\ ref_time[Bottom] \in Nat
  BY <1>1 DEF Bottom
<1>3. Filling \in Nat \ {0}
  <2>1. ~waiting => ref_time[producer] # 0
    BY WritersSlots
  <2>2. waiting => packet = newest
    BY DEF Steady, Current
  <2> QED BY <1>1, <2>1, <2>2 DEF Filling, waiting
<1>4. Gap \in Nat /\ (Gap < NofBuffers \/ waiting)
  <2>1. Releasing => Settled >= 1
    BY DEF Releasing, Steady, Placed
  <2>2. /\ Depth \in 1 .. NofBuffers /\ NofBuffers \in Nat
        /\ Settled \in Int /\ Settled + 2 >= Depth /\ Settled < Depth
        /\ ~waiting => Depth = Lag + 1 /\ Settled = Lag - 1 /\ Lag \in 0 .. NofBuffers - 1
    BY DepthFacts, RingFacts
  <2> QED BY <2>1, <2>2 DEF Gap
<1> QED BY <1>2, <1>3, <1>4

\* Steps that move neither end.
LEMMA EndsKept ==
  ASSUME Level, UNCHANGED <<Filling, Gap, ref_time[Bottom]>>
  PROVE  Level'
BY DEF Level, Span

\* The first packet fills and is due at once.
LEMMA BeginShows ==
  ASSUME TypeOK, Fresh, newest = 0, NEW t \in First .. MaxCounter, WriteEmpty(t)
  PROVE  /\ Level'
         /\ Filling = 0 /\ ref_time[Bottom] = 0
         /\ Filling' \in Nat \ {0} /\ ref_time'[Bottom'] = Filling'
<1>1. /\ producer = 0 /\ consumer = 0 /\ writer = "idle" /\ ~Releasing
      /\ ref_time = [i \in Slots |-> 0] /\ 0 \in Slots
  BY DEF Fresh, Releasing, TypeOK
<1>2. /\ producer' = 0 /\ consumer' = 0 /\ writer' = "idle" /\ ~Releasing'
  BY <1>1 DEF WriteEmpty, reader, Releasing
<1>3. t \in Nat \ {0}
  BY ArrivalType DEF WriteEmpty
<1>4. ref_time'[0] = t
  BY <1>1 DEF WriteEmpty, CopyData
<1>5. /\ Filling = 0 /\ ref_time[Bottom] = 0 /\ Filling' = t /\ ref_time'[Bottom'] = t
  BY <1>1, <1>2, <1>4 DEF Filling, Bottom
<1>6. Gap' = 0
  <2>1. Ahead(0, 0) = 0
    BY DEF Ahead
  <2>2. Lag' = 0
    BY <1>2, <2>1 DEF Lag
  <2> QED BY <1>2, <2>2 DEF Gap, Settled, Depth, waiting
<1>7. Span(0) = 0
  BY CorrelatorAssumption DEF Span
<1>8. Level'
  <2>1. Span(Gap)' = 0
    BY <1>6, <1>7, CorrelatorAssumption DEF Span
  <2> QED BY <1>3, <1>5, <2>1 DEF Level
<1> QED BY <1>3, <1>5, <1>8

\* Publishing a buffer begins the next one, for which the ring has room.
LEMMA PublishShows ==
  ASSUME TypeOK, Steady, Level, newest # 0, PublishPrevious
  PROVE  /\ Level' /\ ref_time'[Bottom'] = ref_time[Bottom]
         /\ Filling' = Filling + Window
         /\ Filling' <= ref_time[Bottom] + NofBuffers * Window
<1>1. /\ Settled' = Settled + 1 /\ Settled \in Int /\ ~waiting
      /\ Bottom' = Bottom /\ Releasing' = Releasing /\ ref_time' = ref_time
  BY PublishKeeps, DepthFacts DEF PublishPrevious, waiting, Bottom, Releasing, slot, reader
<1>2. Filling = ref_time[producer] /\ Filling' = ref_time[producer] + Window
  BY DEF PublishPrevious, Filling, Steady, Current
<1>3. Gap' = Gap + 1
  BY <1>1 DEF Gap
<1>4. /\ Gap \in Nat /\ Gap < NofBuffers /\ ref_time[Bottom] \in Nat
      /\ Window \in Nat /\ NofBuffers * Window \in Nat
  BY <1>1, EndsShown, CorrelatorAssumption, NofBuffersAssumption
<1>5. Span(Gap)' = Span(Gap + 1)
  BY <1>3 DEF Span
<1>6. /\ Span(Gap) \in Nat /\ Span(Gap + 1) = Span(Gap) + Window
      /\ Span(Gap + 1) <= NofBuffers * Window
  BY <1>4, Spans
<1>7. Filling' = ref_time[Bottom] + Span(Gap + 1)
  BY <1>2, <1>4, <1>6 DEF Level
<1> QED BY <1>1, <1>2, <1>4, <1>5, <1>6, <1>7 DEF Level

\* Claiming the slot for it shows nothing.
LEMMA ClaimShows ==
  ASSUME TypeOK, Steady, Level, newest # 0, pace = "steady", ClaimSlot
  PROVE  Level' /\ UNCHANGED <<Filling, ref_time[Bottom]>>
<1>1. /\ Settled' = Settled /\ producer # consumer /\ producer \in Slots
      /\ Bottom' = Bottom /\ Releasing' = Releasing
      /\ ref_time' = [ref_time EXCEPT ![producer] = packet] /\ ref_time \in [Slots -> Nat]
      /\ writer = "wait" /\ writer' = "idle" /\ producer' = producer
  BY ClaimKeeps DEF ClaimSlot, Bottom, Releasing, reader, TypeOK
<1>2. Bottom # producer
  <2>1. Releasing => consumer # Pred(producer)
    BY CorrelatorsSlot DEF Releasing
  <2>2. Pred(Succ(consumer)) = consumer
    BY PredSucc DEF TypeOK
  <2> QED BY <1>1, <2>1, <2>2 DEF Bottom
<1>3. Filling' = Filling
  BY <1>1 DEF Filling
<1>4. ref_time'[Bottom'] = ref_time[Bottom]
  BY <1>1, <1>2, EndsShown
<1> QED BY <1>1, <1>3, <1>4, EndsKept DEF Gap

\* Releasing the slot moves the end of the correlator to the next buffer.
LEMMA ReleaseShows ==
  ASSUME TypeOK, Steady, Level, newest # 0, ReleaseSlot
  PROVE  /\ Level' /\ Filling' = Filling
         /\ ref_time'[Bottom'] = ref_time[Bottom] + Window
<1>1. /\ correlator = "correlate" /\ Settled >= 1 /\ Settled \in Int /\ Settled < Depth
      /\ consumer \in Slots /\ Ahead(consumer, consumer) = 0 /\ Depth \in Nat
  BY CorrelatorsSlot, RingFacts, DepthFacts DEF ReleaseSlot
<1>2. /\ ~Releasing /\ Releasing' /\ Bottom = consumer /\ Bottom' = Succ(consumer)
      /\ Filling' = Filling /\ Settled' = Settled /\ ref_time' = ref_time
  <2>1. Settled' = Settled
    BY PlacesKept DEF ReleaseSlot, receiver, waiting
  <2> QED BY <1>1, <2>1 DEF ReleaseSlot, Releasing, Bottom, Filling, receiver
<1>3. ref_time[Succ(consumer)] = ref_time[consumer] + Window
  <2>1. ~Freed(consumer) /\ Ahead(consumer, consumer) + 1 < Depth
    BY <1>1 DEF Freed
  <2> QED BY <1>1, <2>1 DEF Steady, Successive
<1>4. Gap = Settled + 1 /\ Gap' = Settled
  BY <1>2 DEF Gap
<1>5. Span(Settled) \in Nat /\ Span(Settled + 1) = Span(Settled) + Window /\ Window \in Nat
  BY <1>1, Spans, CorrelatorAssumption
<1>6. Span(Gap)' = Span(Settled)
  BY <1>4 DEF Span
<1>7. ref_time[Bottom] \in Nat
  BY EndsShown
<1> QED BY <1>2, <1>3, <1>4, <1>5, <1>6, <1>7 DEF Level

\* The rest of the release shows nothing.
LEMMA ResetShows ==
  ASSUME TypeOK, Steady, Level, newest # 0, ReleaseReset
  PROVE  Level' /\ UNCHANGED <<Filling, ref_time[Bottom]>>
<1>1. /\ Releasing /\ ~Releasing' /\ Bottom = Succ(consumer) /\ Bottom' = Succ(consumer)
      /\ Settled' = Settled - 1 /\ Settled \in Int
      /\ consumer \in Slots /\ producer \in Slots /\ ref_time \in [Slots -> Nat]
      /\ ref_time' = [ref_time EXCEPT ![consumer] = Never]
      /\ UNCHANGED <<producer, writer, packet>>
  BY ReleaseResetKeeps, DepthFacts DEF ReleaseReset, Releasing, Bottom, receiver, TypeOK
<1>2. ~waiting => consumer # producer
  BY CorrelatorsSlot DEF ReleaseReset
<1>3. Succ(consumer) # consumer /\ Succ(consumer) \in Slots
  BY <1>1, NofBuffersAssumption DEF Succ, Slots
<1>4. Filling' = Filling /\ ref_time'[Bottom'] = ref_time[Bottom]
  BY <1>1, <1>2, <1>3 DEF Filling, waiting
<1>5. Gap' = Gap
  BY <1>1 DEF Gap
<1> QED BY <1>4, <1>5, EndsKept

\* A buffer is taken when two later ones have been begun.
LEMMA TakeShows ==
  ASSUME TypeOK, Steady, Level, newest # 0, ReadBuffer
  PROVE  /\ Level' /\ UNCHANGED <<Filling, ref_time[Bottom]>>
         /\ ref_time[Bottom] + 2 * Window <= Filling
<1>1. /\ ~Releasing /\ ~Releasing' /\ Bottom' = Bottom
      /\ UNCHANGED <<ref_time, producer, writer, packet>> /\ Settled' = Settled
  <2>1. Settled' = Settled
    BY PlacesKept DEF ReadBuffer, receiver, waiting
  <2> QED BY <2>1 DEF ReadBuffer, Releasing, Bottom, contents, slot, receiver
<1>2. Filling' = Filling /\ ref_time'[Bottom'] = ref_time[Bottom] /\ Gap' = Gap
  BY <1>1 DEF Filling, Gap
<1>3. Gap >= 2
  <2>1. consumer \in Slots /\ Ahead(consumer, consumer) = 0 /\ Settled \in Int
    BY RingFacts, DepthFacts
  <2>2. Settled >= 1
    BY <2>1 DEF ReadBuffer, Steady, Placed
  <2> QED BY <1>1, <2>1, <2>2 DEF Gap
<1>4. Gap \in Nat /\ ref_time[Bottom] \in Nat /\ Window \in Nat
  BY EndsShown, CorrelatorAssumption
<1>5. Span(Gap) \in Nat /\ 2 * Window <= Span(Gap)
  BY <1>3, <1>4, Spans
<1> QED BY <1>2, <1>4, <1>5, EndsKept DEF Level

\* Once the stream has begun every step is one of the pipeline's, or leaves it alone.
LEMMA SteadyShows ==
  ASSUME Benign, TypeOK, Steady, Stored, Level, newest # 0, pace = "steady", pace' = "steady",
         [Next]_vars
  PROVE  Level' /\ [Pipeline!Next]_(Pipeline!vars)
<1>1. ASSUME Level', UNCHANGED <<Filling, ref_time[Bottom], correlator = "correlate", stop_thread>>
      PROVE  Level' /\ [Pipeline!Next]_(Pipeline!vars)
  BY <1>1 DEF Pipeline!vars, Seen, InCorrelation
<1>2. /\ Seen(Filling) = Filling /\ Seen(Filling)' = Filling'
      /\ Seen(ref_time[Bottom]) = ref_time[Bottom]
      /\ Seen(ref_time[Bottom])' = ref_time'[Bottom']
  BY DEF Seen
<1>3. ASSUME NEW t \in First .. MaxCounter, WriteData(t)
      PROVE  Level' /\ [Pipeline!Next]_(Pipeline!vars)
  <2>1. ~WriteEmpty(t)
    BY WritersSlots DEF WriteEmpty, Arrives, waiting
  <2>2. /\ ref_time' = ref_time /\ waiting' = waiting /\ ~waiting
        /\ UNCHANGED <<producer, consumer, correlator, stop_thread>>
    <3>1. CASE WritePrevious(t) \/ WriteCurrent(t)
      BY <3>1, PreviousKeeps, CurrentKeeps DEF WritePrevious, WriteCurrent, Arrives, waiting, reader
    <3>2. CASE CrossBoundary(t)
      BY <3>2 DEF CrossBoundary, Arrives, waiting, reader, contents, slot
    <3> QED BY <1>3, <2>1, <3>1, <3>2 DEF WriteData
  <2>3. UNCHANGED <<Filling, Gap, ref_time[Bottom]>>
    BY <2>2, PlacesKept DEF Filling, Gap, Bottom, Releasing, waiting
  <2> QED BY <1>1, <2>2, <2>3, EndsKept
<1>4. CASE PublishPrevious
  <2>1. UNCHANGED <<correlator, stop_thread>>
    BY <1>4 DEF PublishPrevious, reader
  <2>2. Filling # 0
    BY EndsShown
  <2>3. Pipeline!Advance
    BY <1>2, <1>4, <2>1, <2>2, PublishShows DEF Pipeline!Advance, InCorrelation
  <2> QED BY <1>4, <2>3, PublishShows DEF Pipeline!Next
<1>5. CASE ClaimSlot
  <2>1. UNCHANGED <<correlator, stop_thread>>
    BY <1>5 DEF ClaimSlot, reader
  <2> QED BY <1>1, <1>5, <2>1, ClaimShows
<1>6. CASE ReadBuffer
  <2>1. /\ ~stop_thread /\ stop_thread' = stop_thread
        /\ correlator = "read" /\ correlator' = "correlate"
    BY <1>6 DEF ReadBuffer
  <2>2. Pipeline!Take
    BY <1>2, <1>6, <2>1, TakeShows DEF Pipeline!Take, InCorrelation
  <2> QED BY <1>6, <2>2, TakeShows DEF Pipeline!Next, Pipeline!Reader
<1>7. CASE ReleaseSlot
  <2>1. correlator = "correlate" /\ correlator' = "flag" /\ stop_thread' = stop_thread
    BY <1>7 DEF ReleaseSlot
  <2>2. Pipeline!Return
    BY <1>2, <1>7, <2>1, ReleaseShows DEF Pipeline!Return, InCorrelation
  <2> QED BY <1>7, <2>2, ReleaseShows DEF Pipeline!Next, Pipeline!Reader
<1>8. CASE ReleaseReset
  <2>1. correlator = "reset" /\ correlator' = "read" /\ stop_thread' = stop_thread
    BY <1>8 DEF ReleaseReset
  <2> QED BY <1>1, <1>8, <2>1, ResetShows
<1>9. CASE ReleaseReady \/ CorrelatorStops \/ CleanUp \/ Terminated \/ UNCHANGED vars
  <2>1. /\ UNCHANGED <<ref_time, producer, consumer, writer, packet>>
        /\ Releasing' = Releasing /\ (correlator' = "correlate" <=> correlator = "correlate")
    BY <1>9 DEF ReleaseReady, CorrelatorStops, CleanUp, Terminated, vars, contents, slot,
                receiver, reader, Releasing
  <2>2. UNCHANGED <<Filling, Gap, ref_time[Bottom]>>
    BY <2>1, PlacesKept DEF Filling, Gap, Bottom, waiting
  <2>3. CASE CleanUp
    <3>1. Pipeline!Stop
      BY <1>2, <2>1, <2>2, <2>3 DEF CleanUp, Pipeline!Stop, InCorrelation
    <3> QED BY <2>2, <3>1, EndsKept DEF Pipeline!Next
  <2>4. CASE ~CleanUp
    <3>1. stop_thread' = stop_thread
      BY <1>9, <2>4 DEF ReleaseReady, CorrelatorStops, Terminated, vars
    <3> QED BY <1>1, <2>1, <2>2, <3>1, EndsKept
  <2> QED BY <2>3, <2>4
<1>10. ~FinishReady /\ ~FinishWrite
  BY DEF FinishReady, FinishWrite, Steady, Placed
<1> QED BY <1>3, <1>4, <1>5, <1>6, <1>7, <1>8, <1>9, <1>10 DEF Next, Receiver, Correlator

\* So are the steps before that, and at any other pace the pipeline does not move.
LEMMA PipelineStep ==
  ASSUME Benign, PipelineInv, [Next]_vars
  PROVE  PipelineInv' /\ [Pipeline!Next]_(Pipeline!vars)
<1>1. TypeOK /\ IInv' /\ pace' = pace /\ (newest # 0 => newest' # 0)
  BY StepInv, NewestStays DEF PipelineInv, IInv
<1>2. CASE pace # "steady"
  BY <1>1, <1>2 DEF PipelineInv, Pipeline!vars, Seen
<1>3. CASE pace = "steady" /\ newest # 0
  BY <1>1, <1>3, SteadyShows DEF PipelineInv, IInv
<1>4. CASE pace = "steady" /\ newest = 0
  <2>1. Fresh
    BY <1>4 DEF PipelineInv, IInv
  <2>2. CASE newest' = 0
    <3>1. Fresh'
      BY <1>1, <1>4, <2>1, <2>2, FreshKeeps
    <3>2. /\ Filling = 0 /\ Filling' = 0 /\ ref_time[Bottom] = 0 /\ ref_time'[Bottom'] = 0
          /\ ~InCorrelation /\ ~InCorrelation'
      <4>1. 0 \in Slots
        BY NofBuffersAssumption DEF Slots
      <4> QED BY <2>1, <3>1, <4>1 DEF Fresh, Filling, Bottom, Releasing, InCorrelation
    <3>3. CASE CleanUp
      <4>1. Pipeline!Stop
        BY <1>1, <1>4, <3>2, <3>3 DEF CleanUp, Pipeline!Stop, Seen
      <4> QED BY <1>1, <2>2, <4>1 DEF Pipeline!Next, PipelineInv
    <3>4. CASE ~CleanUp
      <4>1. stop_thread' = stop_thread
        BY <3>4 DEF Next, vars, Terminated, WriteData, WritePrevious, WriteEmpty, WriteCurrent,
                    CrossBoundary, Receiver, PublishPrevious, ClaimSlot, FinishReady, FinishWrite,
                    Correlator, ReadBuffer, ReleaseSlot, ReleaseReady, ReleaseReset,
                    CorrelatorStops
      <4> QED BY <1>1, <1>4, <2>2, <3>2, <4>1 DEF Pipeline!vars, Seen, PipelineInv
    <3> QED BY <3>3, <3>4
  <2>3. CASE newest' # 0
    <3>1. PICK t \in First .. MaxCounter : WriteEmpty(t)
      BY <1>1, <1>4, <2>1, <2>3, FreshKeeps
    <3>2. UNCHANGED <<correlator, stop_thread>>
      BY <3>1 DEF WriteEmpty, reader
    <3>3. /\ Level' /\ Filling = 0 /\ ref_time[Bottom] = 0
          /\ Filling' \in Nat \ {0} /\ ref_time'[Bottom'] = Filling'
      BY <1>1, <1>4, <2>1, <3>1, BeginShows
    <3>4. Pipeline!Begin
      BY <1>1, <1>4, <3>2, <3>3 DEF Pipeline!Begin, Seen, InCorrelation
    <3> QED BY <1>1, <3>3, <3>4 DEF Pipeline!Next, PipelineInv
  <2> QED BY <2>2, <2>3
<1> QED BY <1>2, <1>3, <1>4

\* The empty ring is an empty pipeline.
LEMMA PipelineInit == Init => PipelineInv /\ Pipeline!Init
<1> SUFFICES ASSUME Init PROVE PipelineInv /\ Pipeline!Init
  OBVIOUS
<1>1. PipelineInv
  BY InitInv DEF Init, PipelineInv
<1>2. 0 \in Slots
  BY NofBuffersAssumption DEF Slots
<1>3. Filling = 0 /\ ref_time[Bottom] = 0 /\ ~InCorrelation /\ ~stop_thread
  BY <1>2 DEF Init, Filling, Bottom, Releasing, InCorrelation
<1> QED BY <1>1, <1>3 DEF Pipeline!Init, Seen

\* At a steady pace the ring is a pipeline, for any number of slots, any size of buffers and
\* any stream: buffers are correlated once each and in order, as soon as two later ones have
\* been begun, and the stream is never further ahead than the ring holds.
THEOREM CorrelatorRefinesPipeline ==
  ASSUME Benign
  PROVE  Spec => Pipeline!Spec
<1>1. PipelineInv /\ [Next]_vars => PipelineInv'
  BY PipelineStep
<1>2. PipelineInv /\ [Next]_vars => [Pipeline!Next]_(Pipeline!vars)
  BY PipelineStep
<1> QED BY <1>1, <1>2, PipelineInit, PTL DEF Spec, Pipeline!Spec
=============================================================================
