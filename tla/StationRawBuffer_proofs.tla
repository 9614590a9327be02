----------------------- MODULE StationRawBuffer_proofs -----------------------
(***************************************************************************)
(* Proofs about the raw station beam's buffers: while the persister gives  *)
(* its buffers back before the next boundary, packets stay in their slots  *)
(* and nothing changes in the slot the callback reads, for any ring of at  *)
(* least four slots and any size of buffers, without a word of the         *)
(* mutexes: the distance of the two threads in the ring is enough.  And    *)
(* about the counters of the packets that get there: StationCounter.       *)
(***************************************************************************)
EXTENDS StationRawBuffer, StationCounter, TLAPS

-----------------------------------------------------------------------------
(* The cursor arithmetic of the ring, for every ring size                   *)

\* A cursor of the ring stays in the ring, whichever way the code moves it.
LEMMA SlotsClosed ==
  ASSUME NEW i \in Slots
  PROVE  Succ(i) \in Slots /\ Pred(i) \in Slots /\ Pred2(i) \in Slots
  BY NofBuffersAssumption DEF Slots, Succ, Pred, Pred2

\* Moving on and looking back cancel out.
LEMMA PredSucc ==
  ASSUME NEW i \in Slots
  PROVE  Pred(Succ(i)) = i /\ Succ(Pred(i)) = i
  BY NofBuffersAssumption DEF Slots, Succ, Pred

\* The slot after i is one further ahead, unless it is the cursor's own slot,
\* and then i is the last slot of the ring as the cursor sees it.
LEMMA AheadSucc ==
  ASSUME NEW c \in Slots, NEW i \in Slots
  PROVE  /\ Succ(i) # c => Ahead(c, Succ(i)) = Ahead(c, i) + 1
         /\ Succ(i) = c <=> Ahead(c, i) = NofBuffers - 1
  BY NofBuffersAssumption DEF Slots, Ahead, Succ

\* When the cursor moves on, its old slot becomes the last one and every other
\* slot comes one position closer.
LEMMA AheadAdvance ==
  ASSUME NEW c \in Slots, NEW i \in Slots
  PROVE  Ahead(Succ(c), i) = IF i = c THEN NofBuffers - 1 ELSE Ahead(c, i) - 1
  BY NofBuffersAssumption DEF Slots, Ahead, Succ

-----------------------------------------------------------------------------

\* What the theorems assume of the ring and of the stream: one slot that is filled, one
\* for late packets, one that settles and one that the callback reads; no gap of more than
\* a buffer; counters that an int holds.
Benign ==
  /\ NofBuffers >= 4
  /\ MaxLoss <= Window
  /\ MaxCounter <= IntMax
  /\ ~EarlierThanFirst

\* how far the receiving thread is ahead of the persister
Lag == Ahead(consumer, producer)

\* how many slots, from the persister's on, have been used
Depth == IF waiting THEN Lag ELSE Lag + 1

Used(i) == Ahead(consumer, i) < Depth

\* the slot whose index is reset already, but whose data is not
Clearing(i) == i = consumer /\ persister = "clear"

\* Before the first packet everything is free.
Fresh ==
  /\ sample_index = [i \in Slots |-> 0]
  /\ slot_data = [i \in Slots |-> {}]
  /\ ready = {}
  /\ producer = 0
  /\ consumer = 0
  /\ writer = "idle"
  /\ persister \in {"read", "stopped"}

\* The persister has at most one buffer, the one three slots behind.
Apart ==
  /\ ready \subseteq {consumer}
  /\ Lag <= 3
  /\ Lag = 3 <=> (consumer \in ready \/ persister = "clear")
  /\ persister \in {"lock", "callback"} => consumer \in ready
  /\ persister = "clear" => consumer \notin ready
  /\ waiting => Lag # 0

\* The used slots hold their own packets, the others none.
Filled ==
  \A i \in Slots :
    /\ sample_index[i] <= newest
    /\ ~Used(i) => sample_index[i] = 0 /\ slot_data[i] = {}
    /\ Clearing(i) => sample_index[i] = 0
    /\ Used(i) /\ ~Clearing(i) =>
         /\ sample_index[i] # 0
         /\ slot_data[i] \subseteq sample_index[i] .. sample_index[i] + Window - 1

\* Their buffers follow each other.
Successive ==
  \A i \in Slots :
    Ahead(consumer, i) + 1 < Depth /\ ~Clearing(i) =>
      sample_index[Succ(i)] = sample_index[i] + Window

\* The newest packet belongs to the current buffer, or begins the next one.
Current ==
  /\ ~waiting => /\ sample_index[producer] <= newest
                 /\ newest < sample_index[producer] + Window
                 /\ Lag = 0 => sample_index[producer] = First
  /\ waiting => /\ current_index = sample_index[Pred(producer)]
                /\ packet_counter = newest
                /\ current_index + Window <= newest
                /\ newest < current_index + Window + Window

Steady == Apart /\ Filled /\ Successive /\ Current

IInv ==
  /\ TypeOK
  /\ newest <= MaxCounter
  /\ newest = 0 => Fresh
  /\ pace = "prompt" /\ newest # 0 => Steady
-----------------------------------------------------------------------------
(* Types                                                                    *)

LEMMA StoredIsNatural ==
  ASSUME NEW n \in Nat
  PROVE  Stored(n) \in Nat /\ Meant(n) \in Nat
BY StationRawAssumption DEF Stored, Meant, Negative

LEMMA ArrivalType ==
  ASSUME TypeOK, NEW pc \in 1 .. MaxCounter, Arrives(pc)
  PROVE  /\ newest' \in Nat \ {0} /\ pc \in Nat
         /\ newest <= MaxCounter => newest' <= MaxCounter
BY StationRawAssumption DEF TypeOK, Arrives

LEMMA TypeInit == Init => TypeOK
<1>1. 0 \in Slots
  BY NofBuffersAssumption DEF Slots
<1>2. ASSUME Init
      PROVE  /\ sample_index \in [Slots -> Nat] /\ slot_data \in [Slots -> SUBSET Nat]
             /\ mutex \in [Slots -> {"free", "writer", "persister"}]
  BY <1>2 DEF Init
<1>3. ASSUME Init
      PROVE  /\ pace \in Paces /\ ready \in SUBSET Slots /\ stop_thread \in BOOLEAN
             /\ producer \in Slots /\ consumer \in Slots
             /\ packet_counter \in Nat /\ current_index \in Nat
             /\ delivered \in Nat /\ newest \in Nat
             /\ writer = "idle" /\ persister = "read"
  BY <1>1, <1>3 DEF Init
<1> QED BY <1>2, <1>3 DEF TypeOK

LEMMA TypeStep == TypeOK /\ [Next]_vars => TypeOK'
<1> SUFFICES ASSUME TypeOK, [Next]_vars PROVE TypeOK'
  OBVIOUS
<1> USE DEF TypeOK
<1>0. /\ Succ(producer) \in Slots /\ Pred(producer) \in Slots /\ Pred2(producer) \in Slots
      /\ Succ(consumer) \in Slots
  BY SlotsClosed
<1>1. ASSUME NEW pc \in 1 .. MaxCounter, WriteFirst(pc) PROVE TypeOK'
  BY <1>1, ArrivalType, StoredIsNatural DEF WriteFirst, ProcessData, reception, reader
<1>2. ASSUME NEW pc \in 1 .. MaxCounter, WriteLate(pc) PROVE TypeOK'
  BY <1>0, <1>2, ArrivalType DEF WriteLate, ProcessData, reception, reader
<1>3. ASSUME NEW pc \in 1 .. MaxCounter, WriteCurrent(pc) PROVE TypeOK'
  BY <1>3, ArrivalType DEF WriteCurrent, ProcessData, reception, reader
<1>4. ASSUME NEW pc \in 1 .. MaxCounter, CrossBoundary(pc) PROVE TypeOK'
  BY <1>0, <1>4, ArrivalType DEF CrossBoundary, Publish, contents, reader
<1>5. CASE LockSlot \/ Sleep \/ Relock \/ WaitRunsOut
  BY <1>5 DEF LockSlot, Sleep, Relock, WaitRunsOut, LockAgain, Held, contents, reader
<1>6. CASE ClaimSlot \/ OverwriteSlot
  <2>1. NextIndex \in Nat
    BY StoredIsNatural, StationRawAssumption DEF NextIndex, PacketsIndex
  <2> QED BY <1>6, <2>1 DEF ClaimSlot, OverwriteSlot, UseSlot, UnlockedSlot, Held, reader
<1>7. CASE Persister
  <2>1. Meant(sample_index[consumer]) \in Nat
    BY StoredIsNatural
  <2> QED BY <1>0, <1>7, <2>1
          DEF Persister, FindReady, LockBuffer, ClearFlags, ReleaseBuffer, PersisterStops,
              Held, contents, reception
<1>8. CASE CleanUp \/ Terminated \/ UNCHANGED vars
  BY <1>8 DEF CleanUp, Terminated, vars, contents, reception, reader
<1> QED BY <1>1, <1>2, <1>3, <1>4, <1>5, <1>6, <1>7, <1>8 DEF Next, WriteData, Writer
-----------------------------------------------------------------------------
(* The ring                                                                 *)

\* What the proofs below use of the ring's arithmetic, as the persister sees it.
LEMMA RingFacts ==
  ASSUME TypeOK, Benign
  PROVE  /\ \A i \in Slots : Ahead(consumer, i) \in 0 .. NofBuffers - 1
         /\ \A i \in Slots : Ahead(consumer, i) = 0 <=> i = consumer
         /\ \A i, j \in Slots : Ahead(consumer, i) = Ahead(consumer, j) => i = j
         /\ Lag \in 0 .. NofBuffers - 1
         /\ NofBuffers \in Nat /\ NofBuffers >= 4
         /\ {producer, consumer, Pred(producer), Pred2(producer), Succ(producer),
             Succ(consumer)} \subseteq Slots
         /\ Lag # 0 => Ahead(consumer, Pred(producer)) = Lag - 1
         /\ Lag = 0 => Ahead(consumer, Pred(producer)) = NofBuffers - 1
         /\ Lag >= 2 => Ahead(consumer, Pred2(producer)) = Lag - 2
         /\ Lag < 2 => Ahead(consumer, Pred2(producer)) > Lag
         /\ Lag < 3 => Ahead(consumer, Succ(producer)) = Lag + 1
         /\ Pred(Succ(producer)) = producer
BY NofBuffersAssumption DEF Slots, Ahead, Succ, Pred, Pred2, TypeOK, Benign, Lag

LEMMA DepthKept ==
  ASSUME UNCHANGED <<producer, consumer>>, waiting' = waiting
  PROVE  /\ Lag' = Lag /\ Depth' = Depth
         /\ \A i : Used(i)' <=> Used(i)
         /\ \A i : Ahead(consumer, i)' = Ahead(consumer, i)
BY DEF Lag, Depth, Used, Ahead
-----------------------------------------------------------------------------
(* Packets                                                                  *)

\* The slot that is filled, and the one before it, are not the persister's.
LEMMA WritersSlots ==
  ASSUME IInv, Benign, Steady, ~waiting
  PROVE  /\ sample_index[producer] # 0 /\ ~Clearing(producer) /\ Used(producer)
         /\ ~Clearing(Pred(producer))
         /\ consumer \in ready => consumer # producer /\ consumer # Pred(producer)
         /\ Lag # 0 => /\ Used(Pred(producer))
                       /\ sample_index[Pred(producer)] # 0
                       /\ sample_index[producer] = sample_index[Pred(producer)] + Window
<1>1. Lag \in Nat /\ Depth = Lag + 1 /\ Ahead(consumer, producer) = Lag
  BY RingFacts DEF Depth, Lag, IInv
<1>2. /\ Lag <= 3 /\ Lag = 3 <=> (consumer \in ready \/ persister = "clear")
  BY DEF Steady, Apart
<1>3. /\ Used(producer) /\ producer \in Slots /\ Pred(producer) \in Slots
      /\ Lag # 0 => Used(Pred(producer))
  BY <1>1, RingFacts DEF Used, IInv
<1>4. Lag = 3 => consumer # producer /\ consumer # Pred(producer)
  BY <1>1, RingFacts DEF IInv
<1>5. ~Clearing(producer) /\ ~Clearing(Pred(producer))
  BY <1>2, <1>4 DEF Clearing
<1>6. sample_index[producer] # 0
  BY <1>3, <1>5 DEF Steady, Filled
<1>7. ASSUME Lag # 0
      PROVE  /\ sample_index[Pred(producer)] # 0
             /\ sample_index[producer] = sample_index[Pred(producer)] + Window
  <2>1. Ahead(consumer, Pred(producer)) + 1 < Depth
    BY <1>1, <1>7, RingFacts DEF IInv
  <2>2. Succ(Pred(producer)) = producer
    BY PredSucc DEF IInv, TypeOK
  <2> QED BY <1>3, <1>5, <1>7, <2>1, <2>2 DEF Steady, Filled, Successive
<1> QED BY <1>2, <1>3, <1>4, <1>5, <1>6, <1>7

\* The first packet opens slot 0.
LEMMA FirstKeeps ==
  ASSUME IInv, Benign, pace = "prompt", NEW pc \in 1 .. MaxCounter, WriteFirst(pc)
  PROVE  Steady'
<1>1. newest = 0
  BY WritersSlots DEF WriteFirst, Arrives, IsOpen, IInv
<1>2. /\ sample_index = [i \in Slots |-> 0]
      /\ slot_data = [i \in Slots |-> {}]
      /\ ready = {}
      /\ producer = 0 /\ consumer = 0 /\ writer = "idle" /\ persister \in {"read", "stopped"}
  BY <1>1 DEF IInv, Fresh
<1>3. pc = First /\ First \in Nat \ {0} /\ Window \in Nat \ {0} /\ newest' = First
  BY <1>1, StationRawAssumption DEF WriteFirst, Arrives
<1>4. Stored(First) = First
  BY StationRawAssumption DEF Stored
<1>5. /\ sample_index' = [i \in Slots |-> IF i = 0 THEN First ELSE 0]
      /\ slot_data' = [i \in Slots |-> IF i = 0 THEN {First} ELSE {}]
      /\ ready' = {} /\ producer' = 0 /\ consumer' = 0 /\ writer' = "idle"
      /\ persister' = persister
  BY <1>2, <1>3, <1>4 DEF WriteFirst, ProcessData, reception, reader
<1>6. 0 \in Slots /\ NofBuffers \in Nat
  BY NofBuffersAssumption DEF Slots
<1>7. \A i \in Slots : Ahead(0, i) = i /\ i \in Nat
  BY <1>6 DEF Ahead, Slots
<1>8. Lag' = 0 /\ Depth' = 1 /\ ~waiting'
  BY <1>5, <1>6, <1>7 DEF Lag, Depth, waiting
<1>9. \A i \in Slots : /\ Ahead(consumer, i)' = i
                       /\ Used(i)' <=> i = 0
                       /\ ~Clearing(i)'
  BY <1>2, <1>5, <1>7, <1>8 DEF Used, Clearing
<1>10. Apart'
  BY <1>2, <1>5, <1>8 DEF Apart
<1>11. Filled'
  BY <1>3, <1>5, <1>9 DEF Filled
<1>12. Successive'
  BY <1>7, <1>8, <1>9 DEF Successive
<1>13. Current'
  BY <1>3, <1>5, <1>6, <1>8 DEF Current
<1> QED BY <1>10, <1>11, <1>12, <1>13 DEF Steady

\* A packet is added to a slot in whose span it lies: nothing else changes.
LEMMA AddedPacketKeeps ==
  ASSUME IInv, Benign, Steady, ~waiting, NEW pc \in Nat, NEW j \in Slots,
         Used(j), ~Clearing(j),
         pc >= sample_index[j], pc < sample_index[j] + Window,
         slot_data' = [slot_data EXCEPT ![j] = @ \cup {pc}],
         newest' \in Nat, newest' >= newest,
         newest' < sample_index[producer] + Window,
         UNCHANGED <<sample_index, ready, reception, reader>>
  PROVE  Steady'
<1>1. /\ UNCHANGED <<producer, consumer, writer, persister, packet_counter, current_index>>
      /\ waiting' = waiting
  BY DEF reception, reader, waiting
<1>2. /\ Lag' = Lag /\ Depth' = Depth
      /\ \A i : Used(i)' <=> Used(i)
      /\ \A i : Ahead(consumer, i)' = Ahead(consumer, i)
      /\ \A i : Clearing(i)' <=> Clearing(i)
  BY <1>1, DepthKept DEF Clearing
<1>3. Apart'
  BY <1>1, <1>2 DEF Steady, Apart
<1>4. /\ sample_index \in [Slots -> Nat] /\ slot_data \in [Slots -> SUBSET Nat]
      /\ newest \in Nat /\ Window \in Nat \ {0} /\ producer \in Slots
  BY StationRawAssumption DEF IInv, TypeOK
<1>5. Filled'
  <2> SUFFICES ASSUME NEW i \in Slots
               PROVE  /\ sample_index[i] <= newest'
                      /\ ~Used(i) => sample_index[i] = 0 /\ slot_data'[i] = {}
                      /\ Clearing(i) => sample_index[i] = 0
                      /\ Used(i) /\ ~Clearing(i) =>
                           /\ sample_index[i] # 0
                           /\ slot_data'[i] \subseteq sample_index[i] .. sample_index[i] + Window - 1
    BY <1>2 DEF Filled
  <2>1. /\ sample_index[i] <= newest
        /\ ~Used(i) => sample_index[i] = 0 /\ slot_data[i] = {}
        /\ Clearing(i) => sample_index[i] = 0
        /\ Used(i) /\ ~Clearing(i) =>
             /\ sample_index[i] # 0
             /\ slot_data[i] \subseteq sample_index[i] .. sample_index[i] + Window - 1
    BY DEF Steady, Filled
  <2>2. i # j => slot_data'[i] = slot_data[i]
    BY <1>4
  <2>3. slot_data'[j] = slot_data[j] \cup {pc} /\ sample_index[j] \in Nat
    BY <1>4
  <2>4. sample_index[i] <= newest'
    BY <1>4, <2>1
  <2> HIDE DEF Used, Clearing
  <2>5. CASE i # j
    BY <2>1, <2>2, <2>4, <2>5
  <2>6. CASE i = j
    <3>1. pc \in sample_index[j] .. sample_index[j] + Window - 1
      BY <1>4, <2>3
    <3> QED BY <2>1, <2>3, <2>4, <2>6, <3>1
  <2> QED BY <2>5, <2>6
<1>6. Successive'
  BY <1>2 DEF Steady, Successive
<1>7. Current'
  BY <1>1, <1>2, <1>4 DEF Steady, Current, waiting
<1> QED BY <1>3, <1>5, <1>6, <1>7 DEF Steady

\* A late packet goes to the previous buffer, if it is of its span, or nowhere.
LEMMA LateKeeps ==
  ASSUME IInv, Benign, Steady, newest # 0, NEW pc \in 1 .. MaxCounter, WriteLate(pc)
  PROVE  Steady'
<1> DEFINE j == Pred(producer)
<1>1. /\ ~waiting /\ Arrives(pc) /\ pc < sample_index[producer]
      /\ UNCHANGED <<sample_index, ready, reception, reader>>
  BY DEF WriteLate, Arrives, IsLate, TypeOK, IInv
<1>2. /\ sample_index \in [Slots -> Nat] /\ producer \in Slots /\ j \in Slots
      /\ newest \in Nat /\ Window \in Nat \ {0} /\ pc \in Nat \ {0}
      /\ slot_data \in [Slots -> SUBSET Nat]
  BY RingFacts, StationRawAssumption DEF IInv, TypeOK
<1>3. sample_index[producer] <= newest /\ newest < sample_index[producer] + Window
  BY <1>1 DEF Steady, Current
<1>4. newest' = newest
  BY <1>1, <1>2, <1>3 DEF Arrives
<1>5. Lag # 0
  <2>1. pc >= First
    BY <1>1 DEF Arrives, Benign
  <2>2. Lag = 0 => sample_index[producer] = First
    BY <1>1 DEF Steady, Current
  <2>3. First \in Nat
    BY StationRawAssumption
  <2> QED BY <1>1, <1>2, <2>1, <2>2, <2>3
<1>6. /\ Used(j) /\ ~Clearing(j)
      /\ sample_index[producer] = sample_index[j] + Window
  BY <1>1, <1>5, WritersSlots
<1>7. CASE IsOlderThan(j, pc)
  <2>1. slot_data' = slot_data
    BY <1>7 DEF WriteLate
  <2>2. UNCHANGED <<producer, consumer, writer, persister, packet_counter, current_index>>
    BY <1>1 DEF reception, reader
  <2>3. /\ Lag' = Lag /\ Depth' = Depth /\ waiting' = waiting
        /\ \A i : Used(i)' <=> Used(i)
        /\ \A i : Ahead(consumer, i)' = Ahead(consumer, i)
        /\ \A i : Clearing(i)' <=> Clearing(i)
    BY <2>2, DepthKept DEF Clearing, waiting
  <2>4. Apart' /\ Successive'
    BY <1>1, <2>2, <2>3 DEF Steady, Apart, Successive
  <2>5. Filled'
    BY <1>1, <1>4, <2>1, <2>3 DEF Steady, Filled
  <2>6. Current'
    BY <1>1, <1>4, <2>2, <2>3 DEF Steady, Current, waiting
  <2> QED BY <2>4, <2>5, <2>6 DEF Steady
<1>8. CASE ~IsOlderThan(j, pc)
  <2>1. slot_data' = [slot_data EXCEPT ![j] = @ \cup {pc}]
    BY <1>8 DEF WriteLate, ProcessData
  <2>2. pc >= sample_index[j] /\ pc < sample_index[j] + Window
    BY <1>1, <1>2, <1>6, <1>8 DEF IsOlderThan
  <2>3. /\ newest' \in Nat /\ newest' >= newest
        /\ newest' < sample_index[producer] + Window
    BY <1>2, <1>3, <1>4
  <2> HIDE DEF j
  <2> QED BY <1>1, <1>2, <1>6, <2>1, <2>2, <2>3, AddedPacketKeeps
<1> QED BY <1>7, <1>8

\* A packet of the current buffer.
LEMMA CurrentKeeps ==
  ASSUME IInv, Benign, Steady, newest # 0, NEW pc \in 1 .. MaxCounter, WriteCurrent(pc)
  PROVE  Steady'
<1>1. /\ ~waiting /\ Arrives(pc)
      /\ pc >= sample_index[producer] /\ pc < sample_index[producer] + Window
      /\ slot_data' = [slot_data EXCEPT ![producer] = @ \cup {pc}]
      /\ UNCHANGED <<sample_index, ready, reception, reader>>
  BY StationRawAssumption
     DEF WriteCurrent, Arrives, IsLate, IsWithin, ProcessData, TypeOK, IInv
<1>2. producer \in Slots /\ newest \in Nat /\ pc \in Nat /\ sample_index[producer] \in Nat
  BY DEF IInv, TypeOK
<1>3. Used(producer) /\ ~Clearing(producer)
  BY <1>1, WritersSlots
<1>4. newest < sample_index[producer] + Window
  BY <1>1 DEF Steady, Current
<1>5. /\ newest' \in Nat /\ newest' >= newest
      /\ newest' < sample_index[producer] + Window
  BY <1>1, <1>2, <1>4 DEF Arrives
<1> QED BY <1>1, <1>2, <1>3, <1>5, AddedPacketKeeps

\* A boundary: the persister has given back what it had, and gets the buffer two slots back.
LEMMA BoundaryKeeps ==
  ASSUME IInv, Benign, Steady, newest # 0, pace = "prompt",
         NEW pc \in 1 .. MaxCounter, CrossBoundary(pc)
  PROVE  Steady'
<1>2. /\ producer \in Slots /\ newest \in Nat /\ pc \in Nat /\ Window \in Nat \ {0}
      /\ sample_index \in [Slots -> Nat] /\ sample_index[producer] \in Nat
  BY StationRawAssumption DEF IInv, TypeOK
<1>0. pc >= sample_index[producer] + Window
  BY <1>2 DEF CrossBoundary, IsWithin
<1>1. /\ ~waiting /\ Arrives(pc) /\ pc >= sample_index[producer] + Window
      /\ persister = "read" /\ consumer \notin ready
      /\ UNCHANGED <<sample_index, slot_data, consumer, persister>>
      /\ producer' = Succ(producer) /\ waiting'
      /\ packet_counter' = pc /\ current_index' = sample_index[producer]
  BY <1>0 DEF CrossBoundary, Arrives, CaughtUp, contents, reader, waiting
<1>3. sample_index[producer] <= newest /\ newest < sample_index[producer] + Window
  BY <1>1 DEF Steady, Current
<1>4. newest' = pc
  BY <1>1, <1>2, <1>3 DEF Arrives
<1>5. newest' < sample_index[producer] + Window + Window
  <2>1. pc <= newest + MaxLoss /\ MaxLoss <= Window /\ MaxLoss \in Nat
    BY <1>1, StationRawAssumption DEF Arrives, Benign
  <2> QED BY <1>2, <1>3, <1>4, <2>1
<1>6. Lag \in Nat /\ Depth = Lag + 1 /\ Lag < 3
  <2>1. Lag \in Nat /\ Lag <= 3 /\ Lag # 3
    BY <1>1, RingFacts DEF Steady, Apart, IInv
  <2> QED BY <1>1, <2>1 DEF Depth
<1>7. Lag' = Lag + 1 /\ Depth' = Depth
  <2>1. Lag' = Ahead(consumer, Succ(producer))
    BY <1>1 DEF Lag, Ahead
  <2>2. Lag' = Lag + 1
    BY <1>6, <2>1, RingFacts DEF IInv
  <2> QED BY <1>1, <1>6, <2>2 DEF Depth
<1>8. /\ \A i : Used(i)' <=> Used(i)
      /\ \A i : Ahead(consumer, i)' = Ahead(consumer, i)
      /\ \A i : Clearing(i)' <=> Clearing(i)
  BY <1>1, <1>7 DEF Used, Clearing, Ahead
<1>9. Apart'
  <2>1. ready \subseteq {consumer}
    BY DEF Steady, Apart
  <2>2. ready = {}
    BY <1>1, <2>1
  <2>3. CASE Lag = 2
    <3>1. Pred2(producer) = consumer
      BY <2>3, RingFacts DEF IInv
    <3>2. sample_index[consumer] # 0
      <4>1. consumer \in Slots /\ Used(consumer) /\ ~Clearing(consumer)
        BY <1>1, <1>6, <2>3, RingFacts DEF Used, Clearing, IInv, TypeOK
      <4> QED BY <4>1 DEF Steady, Filled
    <3>3. ready' = {consumer}
      BY <2>2, <3>1, <3>2 DEF CrossBoundary, Publish
    <3> QED BY <1>1, <1>7, <2>3, <3>3 DEF Apart
  <2>4. CASE Lag < 2
    <3>1. Ahead(consumer, Pred2(producer)) > Lag /\ Pred2(producer) \in Slots
      BY <2>4, RingFacts DEF IInv
    <3>2. Ahead(consumer, Pred2(producer)) \in Nat
      BY <3>1, RingFacts DEF IInv
    <3>3. sample_index[Pred2(producer)] = 0
      <4>1. ~Used(Pred2(producer))
        BY <1>6, <3>1, <3>2 DEF Used
      <4> QED BY <3>1, <4>1 DEF Steady, Filled
    <3>4. ready' = {}
      BY <2>2, <3>3 DEF CrossBoundary, Publish
    <3> QED BY <1>1, <1>6, <1>7, <2>4, <3>4 DEF Apart
  <2> QED BY <1>6, <2>3, <2>4
<1>10. Filled'
  <2> SUFFICES ASSUME NEW i \in Slots
               PROVE  sample_index[i] <= newest'
    BY <1>1, <1>8 DEF Steady, Filled
  <2>1. sample_index[i] <= newest /\ sample_index[i] \in Nat
    BY <1>2 DEF Steady, Filled
  <2> QED BY <1>1, <1>2, <1>3, <1>4, <2>1
<1>11. Successive'
  BY <1>1, <1>7, <1>8 DEF Steady, Successive
<1>12. Current'
  <2>1. Pred(producer') = producer
    BY <1>1, RingFacts DEF IInv
  <2> QED BY <1>1, <1>4, <1>5, <2>1 DEF Current
<1> QED BY <1>9, <1>10, <1>11, <1>12 DEF Steady
-----------------------------------------------------------------------------
(* The wait for the next slot                                               *)

\* Steps that change no buffer and no cursor.
LEMMA OthersKeep ==
  ASSUME Steady, waiting' = waiting,
         UNCHANGED <<sample_index, slot_data, ready, producer, consumer,
                     packet_counter, current_index, newest>>,
         persister' = "clear" <=> persister = "clear",
         persister' \in {"lock", "callback"} => consumer \in ready
  PROVE  Steady'
<1>1. /\ Lag' = Lag /\ Depth' = Depth
      /\ \A i : Used(i)' <=> Used(i)
      /\ \A i : Ahead(consumer, i)' = Ahead(consumer, i)
      /\ \A i : Clearing(i)' <=> Clearing(i)
  BY DepthKept DEF Clearing
<1>2. Apart'
  BY <1>1 DEF Steady, Apart
<1>3. Filled' /\ Successive'
  BY <1>1 DEF Steady, Filled, Successive
<1>4. Current'
  BY <1>1 DEF Steady, Current
<1> QED BY <1>2, <1>3, <1>4 DEF Steady

\* The slot the receiving thread waits for is free: it is beyond all that were used.
LEMMA NextSlotIsFree ==
  ASSUME IInv, Benign, Steady, waiting
  PROVE  /\ Lag \in Nat \ {0} /\ Depth = Lag /\ Ahead(consumer, producer) = Lag
         /\ ~Used(producer) /\ producer # consumer
         /\ sample_index[producer] = 0 /\ slot_data[producer] = {}
<1>1. Lag \in Nat \ {0} /\ Depth = Lag /\ Ahead(consumer, producer) = Lag
  BY RingFacts DEF Depth, Lag, IInv, Steady, Apart
<1>2. ~Used(producer) /\ producer # consumer /\ producer \in Slots
  BY <1>1, RingFacts DEF Used, IInv
<1> QED BY <1>1, <1>2 DEF Steady, Filled

\* The buffer begins one buffer after the one before, and holds the packet that was kept.
LEMMA ClaimKeeps ==
  ASSUME IInv, Benign, Steady, waiting, UseSlot({}),
         ready' = ready \/ ready' = ready \ {producer}
  PROVE  Steady'
<1> DEFINE next == current_index + Window
<1>1. /\ Lag \in Nat \ {0} /\ Depth = Lag /\ Ahead(consumer, producer) = Lag
      /\ ~Used(producer) /\ producer # consumer
  BY NextSlotIsFree
<1>2. /\ current_index = sample_index[Pred(producer)]
      /\ packet_counter = newest /\ next <= newest /\ newest < next + Window
  BY DEF Steady, Current
<1>3. /\ current_index \in Nat /\ newest \in Nat /\ newest <= MaxCounter
      /\ Window \in Nat \ {0} /\ next \in Nat \ {0}
      /\ sample_index \in [Slots -> Nat] /\ slot_data \in [Slots -> SUBSET Nat]
      /\ producer \in Slots /\ consumer \in Slots
  BY StationRawAssumption DEF IInv, TypeOK
<1>4. NextIndex = next
  <2>1. current_index <= MaxCounter /\ next <= MaxCounter /\ MaxCounter <= IntMax
    BY <1>2, <1>3, StationRawAssumption DEF Benign
  <2>2. Meant(current_index) = current_index /\ Stored(next) = next
    BY <1>3, <2>1, StationRawAssumption DEF Meant, Stored
  <2> QED BY <1>2, <1>3, <2>2 DEF NextIndex
<1>5. /\ sample_index' = [sample_index EXCEPT ![producer] = next]
      /\ slot_data' = [slot_data EXCEPT ![producer] = {newest}]
      /\ ~waiting'
      /\ UNCHANGED <<producer, consumer, persister, newest>>
  BY <1>2, <1>4 DEF UseSlot, reader, waiting
<1> HIDE DEF next
<1>6. /\ Lag' = Lag /\ Depth' = Lag + 1
      /\ \A i : Ahead(consumer, i)' = Ahead(consumer, i)
      /\ \A i : Clearing(i)' <=> Clearing(i)
  BY <1>5 DEF Lag, Depth, Ahead, Clearing
<1>7. \A i \in Slots : Used(i)' <=> Used(i) \/ i = producer
  <2> SUFFICES ASSUME NEW i \in Slots
               PROVE  Ahead(consumer, i) < Lag + 1 <=> Ahead(consumer, i) < Lag \/ i = producer
    BY <1>1, <1>6 DEF Used
  <2>1. Ahead(consumer, i) \in Nat /\ (Ahead(consumer, i) = Lag => i = producer)
    BY <1>1, <1>3, RingFacts DEF IInv
  <2> QED BY <1>1, <2>1
<1>8. Apart'
  BY <1>1, <1>5, <1>6 DEF Steady, Apart
<1>9. Filled'
  <2> SUFFICES ASSUME NEW i \in Slots
               PROVE  /\ sample_index'[i] <= newest'
                      /\ ~Used(i)' => sample_index'[i] = 0 /\ slot_data'[i] = {}
                      /\ Clearing(i)' => sample_index'[i] = 0
                      /\ Used(i)' /\ ~Clearing(i)' =>
                           /\ sample_index'[i] # 0
                           /\ slot_data'[i] \subseteq
                                sample_index'[i] .. sample_index'[i] + Window - 1
    BY DEF Filled
  <2>1. CASE i # producer
    <3>1. sample_index'[i] = sample_index[i] /\ slot_data'[i] = slot_data[i]
      BY <1>3, <1>5, <2>1
    <3>2. (Used(i)' <=> Used(i)) /\ (Clearing(i)' <=> Clearing(i)) /\ newest' = newest
      BY <1>5, <1>6, <1>7, <2>1
    <3> QED BY <3>1, <3>2 DEF Steady, Filled
  <2>2. CASE i = producer
    <3>1. sample_index'[i] = next /\ slot_data'[i] = {newest}
      BY <1>3, <1>5, <2>2
    <3>2. Used(i)' /\ ~Clearing(i)'
      BY <1>1, <1>6, <1>7, <2>2 DEF Clearing
    <3>3. newest \in next .. next + Window - 1
      BY <1>2, <1>3
    <3> QED BY <1>2, <1>3, <1>5, <3>1, <3>2, <3>3
  <2> QED BY <2>1, <2>2
<1>10. Successive'
  <2> SUFFICES ASSUME NEW i \in Slots, Ahead(consumer, i) + 1 < Lag + 1, ~Clearing(i)
               PROVE  sample_index'[Succ(i)] = sample_index'[i] + Window
    BY <1>6 DEF Successive
  <2>1. Ahead(consumer, i) \in Nat /\ i # producer
    BY <1>1, RingFacts DEF IInv
  <2>2. Succ(i) \in Slots /\ Pred(Succ(i)) = i
    BY SlotsClosed, PredSucc
  <2>3. CASE Succ(i) = producer
    BY <1>2, <1>3, <1>5, <2>1, <2>2, <2>3 DEF next
  <2>4. CASE Succ(i) # producer
    <3>1. Ahead(consumer, i) # Lag - 1
      <4>1. Ahead(consumer, Pred(producer)) = Lag - 1 /\ Pred(producer) \in Slots
        BY <1>1, RingFacts DEF IInv
      <4>2. Succ(Pred(producer)) = producer
        BY <1>3, PredSucc
      <4>3. i # Pred(producer)
        BY <2>4, <4>2
      <4> QED BY <4>1, <4>3, RingFacts DEF IInv
    <3>2. Ahead(consumer, i) + 1 < Depth
      BY <1>1, <2>1, <3>1
    <3>3. sample_index[Succ(i)] = sample_index[i] + Window
      BY <3>2 DEF Steady, Successive
    <3> QED BY <1>3, <1>5, <2>1, <2>2, <2>4, <3>3
  <2> QED BY <2>3, <2>4
<1>11. Current'
  <2>1. sample_index'[producer'] = next /\ newest' = newest /\ Lag' # 0
    BY <1>1, <1>3, <1>5, <1>6
  <2> QED BY <1>2, <1>5, <2>1 DEF Current
<1> QED BY <1>8, <1>9, <1>10, <1>11 DEF Steady

LEMMA WriterKeeps ==
  ASSUME IInv, Benign, Steady, Writer
  PROVE  Steady'
<1>1. CASE LockSlot \/ Sleep \/ Relock \/ WaitRunsOut
  <2>1. /\ waiting' = waiting
        /\ UNCHANGED <<sample_index, slot_data, ready, producer, consumer,
                       packet_counter, current_index, newest, persister>>
    BY <1>1
       DEF LockSlot, Sleep, Relock, WaitRunsOut, LockAgain, contents, reader, waiting
  <2>2. persister \in {"lock", "callback"} => consumer \in ready
    BY DEF Steady, Apart
  <2> QED BY <2>1, <2>2, OthersKeep
<1>2. CASE ClaimSlot
  <2>1. waiting /\ ready' = ready
    BY <1>2 DEF ClaimSlot, waiting
  <2>2. UseSlot({})
    BY <1>2, <2>1, NextSlotIsFree DEF ClaimSlot
  <2> QED BY <2>1, <2>2, ClaimKeeps
<1>3. CASE OverwriteSlot
  <2>1. waiting /\ UseSlot({}) /\ ready' = ready \ {producer}
    BY <1>3 DEF OverwriteSlot, waiting
  <2> QED BY <2>1, ClaimKeeps
<1> QED BY <1>1, <1>2, <1>3 DEF Writer
-----------------------------------------------------------------------------
(* The persister                                                            *)

\* While it releases a buffer, the persister is three slots behind.
LEMMA Releasing ==
  ASSUME IInv, Benign, Steady, consumer \in ready \/ persister = "clear"
  PROVE  /\ Lag = 3 /\ Depth \in {3, 4}
         /\ Used(consumer) /\ consumer \in Slots
         /\ consumer # producer /\ consumer # Pred(producer)
         /\ \A i \in Slots : Ahead(consumer, i) + 1 < Depth => Succ(i) # consumer
<1>1. Lag = 3
  BY DEF Steady, Apart
<1>2. Depth \in {3, 4}
  BY <1>1 DEF Depth
<1>3. /\ consumer \in Slots /\ Ahead(consumer, consumer) = 0
      /\ Ahead(consumer, producer) = 3 /\ Ahead(consumer, Pred(producer)) = 2
  BY <1>1, RingFacts DEF IInv, TypeOK, Lag
<1>4. consumer # producer /\ consumer # Pred(producer)
  BY <1>3
<1>5. ASSUME NEW i \in Slots, Ahead(consumer, i) + 1 < Depth
      PROVE  Succ(i) # consumer
  <2>1. Ahead(consumer, i) \in Nat /\ NofBuffers \in Nat /\ NofBuffers >= 4
    BY RingFacts DEF IInv
  <2>2. Ahead(consumer, i) # NofBuffers - 1
    BY <1>2, <1>5, <2>1
  <2> QED BY <1>3, <2>2, AheadSucc
<1> QED BY <1>1, <1>2, <1>3, <1>4, <1>5 DEF Used

\* First the flags: the slot has no index any more, and is the persister's still.
LEMMA ClearFlagsKeeps ==
  ASSUME IInv, Benign, Steady, ClearFlags
  PROVE  Steady'
<1>1. /\ consumer \in ready /\ ready \subseteq {consumer}
      /\ persister = "callback" /\ persister' = "clear"
  BY DEF ClearFlags, Steady, Apart
<1>2. /\ Lag = 3 /\ Depth \in {3, 4} /\ consumer \in Slots
      /\ consumer # producer /\ consumer # Pred(producer)
      /\ Used(consumer)
      /\ \A i \in Slots : Ahead(consumer, i) + 1 < Depth => Succ(i) # consumer
  BY <1>1, Releasing
<1>3. /\ ready' = {}
      /\ sample_index' = [sample_index EXCEPT ![consumer] = 0]
      /\ UNCHANGED <<slot_data, producer, consumer, writer, packet_counter, current_index, newest>>
      /\ waiting' = waiting
  BY <1>1 DEF ClearFlags, reception, waiting
<1>4. /\ sample_index \in [Slots -> Nat] /\ newest \in Nat /\ producer \in Slots
      /\ Pred(producer) \in Slots
  BY RingFacts DEF IInv, TypeOK
<1>5. /\ Lag' = Lag /\ Depth' = Depth
      /\ \A i : Used(i)' <=> Used(i)
      /\ \A i : Ahead(consumer, i)' = Ahead(consumer, i)
      /\ \A i : Clearing(i)' <=> i = consumer
      /\ \A i : ~Clearing(i)
  BY <1>1, <1>3, DepthKept DEF Clearing
<1>6. /\ sample_index'[consumer] = 0
      /\ \A i \in Slots \ {consumer} : sample_index'[i] = sample_index[i]
  BY <1>2, <1>3, <1>4
<1>7. Apart'
  BY <1>1, <1>2, <1>3, <1>5 DEF Apart, Steady
<1>8. Filled'
  BY <1>2, <1>3, <1>4, <1>5, <1>6 DEF Steady, Filled
<1>9. Successive'
  <2> SUFFICES ASSUME NEW i \in Slots, Ahead(consumer, i) + 1 < Depth, i # consumer
               PROVE  sample_index'[Succ(i)] = sample_index'[i] + Window
    BY <1>5 DEF Successive
  <2>1. Succ(i) # consumer /\ Succ(i) \in Slots
    BY <1>2, SlotsClosed
  <2>2. sample_index[Succ(i)] = sample_index[i] + Window
    BY <1>5 DEF Steady, Successive
  <2> QED BY <1>6, <2>1, <2>2
<1>10. Current'
  BY <1>2, <1>3, <1>4, <1>5, <1>6 DEF Steady, Current
<1> QED BY <1>7, <1>8, <1>9, <1>10 DEF Steady

\* Then the data, and the slot is the last of the ring.
LEMMA ReleaseKeeps ==
  ASSUME IInv, Benign, Steady, ReleaseBuffer
  PROVE  Steady'
<1>1. /\ persister = "clear" /\ persister' \in {"stopped", "read"}
      /\ consumer \notin ready /\ ready = {} /\ ready' = {}
  BY DEF ReleaseBuffer, Steady, Apart
<1>2. /\ Lag = 3 /\ Depth \in {3, 4} /\ consumer \in Slots
      /\ consumer # producer /\ consumer # Pred(producer)
  BY <1>1, Releasing
<1>3. /\ slot_data' = [slot_data EXCEPT ![consumer] = {}]
      /\ consumer' = Succ(consumer)
      /\ UNCHANGED <<sample_index, producer, writer, packet_counter, current_index, newest>>
      /\ waiting' = waiting
  BY DEF ReleaseBuffer, reception, waiting
<1>4. /\ slot_data \in [Slots -> SUBSET Nat] /\ producer \in Slots
      /\ NofBuffers \in Nat /\ NofBuffers >= 4
      /\ \A i \in Slots : Ahead(consumer, i) \in Nat
  BY RingFacts DEF IInv, TypeOK
<1>5. \A i \in Slots :
        Ahead(consumer, i)' = IF i = consumer THEN NofBuffers - 1 ELSE Ahead(consumer, i) - 1
  <2>1. \A i : Ahead(consumer, i)' = Ahead(Succ(consumer), i)
    BY <1>3 DEF Ahead
  <2> QED BY <1>2, <2>1, AheadAdvance
<1>6. Lag' = 2 /\ Depth' = Depth - 1
  <2>1. Lag' = Ahead(consumer', producer) /\ Ahead(consumer, producer) = 3
    BY <1>2, <1>3 DEF Lag
  <2>2. Ahead(consumer', producer) = Ahead(consumer, producer) - 1
    BY <1>2, <1>4, <1>5
  <2>3. Lag' = 2
    BY <2>1, <2>2
  <2> QED BY <1>2, <1>3, <2>3 DEF Depth
<1>7. /\ \A i \in Slots : Used(i)' <=> Used(i) /\ i # consumer
      /\ \A i : ~Clearing(i)'
  <2>1. \A i : ~Clearing(i)'
    BY <1>1 DEF Clearing
  <2>2. ASSUME NEW i \in Slots
        PROVE  Used(i)' <=> Used(i) /\ i # consumer
    <3>1. Used(i)' <=> Ahead(consumer, i)' < Depth - 1
      BY <1>6 DEF Used
    <3>2. Ahead(consumer, i) \in Nat
      BY <1>4
    <3>3. CASE i = consumer
      BY <1>2, <1>4, <1>5, <3>1, <3>3
    <3>4. CASE i # consumer
      BY <1>2, <1>5, <3>1, <3>2, <3>4 DEF Used
    <3> QED BY <3>3, <3>4
  <2> QED BY <2>1, <2>2
<1>8. Apart'
  BY <1>1, <1>3, <1>6 DEF Apart
<1>9. Filled'
  <2> SUFFICES ASSUME NEW i \in Slots
               PROVE  /\ sample_index[i] <= newest
                      /\ ~(Used(i) /\ i # consumer) => sample_index[i] = 0 /\ slot_data'[i] = {}
                      /\ Used(i) /\ i # consumer =>
                           /\ sample_index[i] # 0
                           /\ slot_data'[i] \subseteq sample_index[i] .. sample_index[i] + Window - 1
    BY <1>3, <1>7 DEF Filled
  <2>1. CASE i = consumer
    <3>1. Clearing(i) /\ sample_index[i] = 0
      BY <1>1, <2>1 DEF Steady, Filled, Clearing
    <3>2. slot_data'[i] = {}
      BY <1>3, <1>4, <2>1
    <3>3. sample_index[i] <= newest
      BY DEF Steady, Filled
    <3> QED BY <2>1, <3>1, <3>2, <3>3
  <2>2. CASE i # consumer
    <3>1. slot_data'[i] = slot_data[i] /\ ~Clearing(i)
      BY <1>3, <1>4, <2>2 DEF Clearing
    <3> QED BY <2>2, <3>1 DEF Steady, Filled
  <2> QED BY <2>1, <2>2
<1>10. Successive'
  <2> SUFFICES ASSUME NEW i \in Slots, Ahead(consumer, i)' + 1 < Depth'
               PROVE  sample_index[Succ(i)] = sample_index[i] + Window
    BY <1>3 DEF Successive
  <2>1. i # consumer
    BY <1>2, <1>4, <1>5, <1>6
  <2>2. Ahead(consumer, i) + 1 < Depth /\ ~Clearing(i)
    BY <1>2, <1>4, <1>5, <1>6, <2>1 DEF Clearing
  <2> QED BY <2>2 DEF Steady, Successive
<1>11. Current'
  BY <1>3, <1>6 DEF Steady, Current
<1> QED BY <1>8, <1>9, <1>10, <1>11 DEF Steady

LEMMA PersisterKeeps ==
  ASSUME IInv, Benign, Steady, Persister
  PROVE  Steady'
<1>1. CASE FindReady \/ LockBuffer \/ PersisterStops
  <2>1. /\ waiting' = waiting
        /\ UNCHANGED <<sample_index, slot_data, ready, producer, consumer,
                       packet_counter, current_index, newest>>
    BY <1>1 DEF FindReady, LockBuffer, PersisterStops, contents, reception, waiting
  <2>2. /\ persister' = "clear" <=> persister = "clear"
        /\ persister' \in {"lock", "callback"} => consumer \in ready
    BY <1>1 DEF FindReady, LockBuffer, PersisterStops, Steady, Apart
  <2> QED BY <2>1, <2>2, OthersKeep
<1> QED BY <1>1, ClearFlagsKeeps, ReleaseKeeps DEF Persister
-----------------------------------------------------------------------------
(* The invariant                                                            *)

LEMMA InitInv == Init => IInv
<1> SUFFICES ASSUME Init PROVE IInv
  OBVIOUS
<1>1. TypeOK
  BY TypeInit
<1>2. Fresh /\ newest = 0 /\ 0 <= MaxCounter
  BY StationRawAssumption DEF Init, Fresh
<1> QED BY <1>1, <1>2 DEF IInv

\* Before the first packet no thread but the receiving one does anything.
LEMMA FreshKeeps ==
  ASSUME IInv, newest = 0, [Next]_vars
  PROVE  /\ newest' # 0 \/ Fresh'
         /\ newest' # 0 => \E pc \in 1 .. MaxCounter : WriteFirst(pc)
<1>1. Fresh /\ writer = "idle" /\ persister \in {"read", "stopped"} /\ ready = {} /\ ~IsOpen
  BY DEF IInv, Fresh, IsOpen, TypeOK
<1>2. ASSUME NEW pc \in 1 .. MaxCounter, WriteData(pc)
      PROVE  newest' # 0 /\ WriteFirst(pc)
  <2>1. WriteFirst(pc)
    BY <1>1, <1>2 DEF WriteData, WriteLate, WriteCurrent, CrossBoundary
  <2> QED BY <2>1, ArrivalType DEF WriteFirst, IInv
<1>3. ~Writer
  BY <1>1 DEF Writer, LockSlot, Sleep, Relock, WaitRunsOut, LockAgain, ClaimSlot, OverwriteSlot
<1>4. CASE Persister
  <2>1. PersisterStops
    BY <1>1, <1>4 DEF Persister, FindReady, LockBuffer, ClearFlags, ReleaseBuffer
  <2>2. newest' = 0 /\ Fresh'
    BY <1>1, <2>1 DEF PersisterStops, Fresh, contents, reception
  <2> QED BY <2>2
<1>5. CASE CleanUp \/ Terminated \/ UNCHANGED vars
  BY <1>1, <1>5 DEF CleanUp, Terminated, vars, Fresh, contents, reception, reader
<1> QED BY <1>2, <1>3, <1>4, <1>5 DEF Next

LEMMA StepInv ==
  ASSUME Benign, IInv, [Next]_vars
  PROVE  IInv'
<1>1. TypeOK'
  BY TypeStep DEF IInv
<1>2. /\ newest \in Nat /\ newest <= MaxCounter
      /\ newest' <= MaxCounter /\ (newest # 0 => newest' # 0) /\ pace' = pace
  <2>1. newest \in Nat /\ newest <= MaxCounter
    BY DEF IInv, TypeOK
  <2>2. ASSUME NEW pc \in 1 .. MaxCounter, WriteData(pc)
        PROVE  newest' <= MaxCounter /\ newest' # 0 /\ pace' = pace
    <3>1. Arrives(pc) /\ pace' = pace
      BY <2>2 DEF WriteData, WriteFirst, WriteLate, WriteCurrent, CrossBoundary
    <3> QED BY <2>1, <3>1, ArrivalType DEF IInv
  <2>3. CASE Writer
    BY <2>1, <2>3 DEF Writer, LockSlot, Sleep, Relock, WaitRunsOut, LockAgain, ClaimSlot,
                      OverwriteSlot, UseSlot
  <2>4. CASE Persister
    BY <2>1, <2>4 DEF Persister, FindReady, LockBuffer, ClearFlags, ReleaseBuffer, PersisterStops
  <2>5. CASE CleanUp \/ Terminated \/ UNCHANGED vars
    BY <2>1, <2>5 DEF CleanUp, Terminated, vars
  <2> QED BY <2>1, <2>2, <2>3, <2>4, <2>5 DEF Next
<1>3. newest' = 0 => Fresh'
  BY <1>2, FreshKeeps
<1>4. ASSUME pace = "prompt", newest' # 0
      PROVE  Steady'
  <2>1. CASE newest = 0
    BY <1>4, <2>1, FreshKeeps, FirstKeeps
  <2>2. CASE newest # 0
    <3>1. Steady
      BY <1>4, <2>2 DEF IInv
    <3>2. ASSUME NEW pc \in 1 .. MaxCounter, WriteData(pc)
          PROVE  Steady'
      BY <1>4, <2>2, <3>1, <3>2, FirstKeeps, LateKeeps, CurrentKeeps, BoundaryKeeps DEF WriteData
    <3>3. CASE CleanUp \/ Terminated \/ UNCHANGED vars
      <4>1. /\ waiting' = waiting
            /\ UNCHANGED <<sample_index, slot_data, ready, producer, consumer,
                           packet_counter, current_index, newest, persister>>
        BY <3>3 DEF CleanUp, Terminated, vars, contents, reception, reader, waiting
      <4>2. persister \in {"lock", "callback"} => consumer \in ready
        BY <3>1 DEF Steady, Apart
      <4> QED BY <3>1, <4>1, <4>2, OthersKeep
    <3> QED BY <3>1, <3>2, <3>3, WriterKeeps, PersisterKeeps DEF Next
  <2> QED BY <2>1, <2>2
<1> QED BY <1>1, <1>2, <1>3, <1>4 DEF IInv

\* The cursors stay in the ring and slots stay well formed, at any pace, whatever is lost
\* and however late the persister is (write_data, read_buffer, release_buffer).
THEOREM TypeCorrect == Spec => []TypeOK
BY TypeInit, TypeStep, PTL DEF Spec

\* While buffers are given back promptly, the persister is always less than the ring
\* behind the receiver: no slot from which a buffer is taken is written to (IInv).
THEOREM RingInvariant ==
  ASSUME Benign
  PROVE  Spec => []IInv
<1>1. IInv /\ [Next]_vars => IInv'
  BY StepInv
<1> QED BY <1>1, InitInv, PTL DEF Spec

\* While buffers are given back promptly, process_data copies every packet to a place
\* inside its slot.
THEOREM PacketsStayInBuffer ==
  ASSUME Benign
  PROVE  Spec => []PacketsInBuffer
<1>1. IInv => PacketsInBuffer
  <2> SUFFICES ASSUME IInv, pace = "prompt", NEW i \in Slots, sample_index[i] # 0
               PROVE  slot_data[i] \subseteq
                        Meant(sample_index[i]) .. Meant(sample_index[i]) + Window - 1
    BY DEF PacketsInBuffer
  <2>1. newest # 0
    BY DEF IInv, Fresh
  <2>2. Steady
    BY <2>1 DEF IInv
  <2>3. /\ sample_index[i] <= newest
        /\ slot_data[i] \subseteq sample_index[i] .. sample_index[i] + Window - 1
    BY <2>2 DEF Steady, Filled
  <2>4. sample_index[i] \in Nat /\ newest \in Nat /\ newest <= MaxCounter
    BY DEF IInv, TypeOK
  <2>5. Meant(sample_index[i]) = sample_index[i]
    BY <2>3, <2>4, StationRawAssumption DEF Meant
  <2> QED BY <2>3, <2>5
<1> QED BY <1>1, RingInvariant, PTL

\* While buffers are given back promptly, the slot that the callback reads keeps its index
\* and its packets: none of write_data's steps reaches it, mutex or not.
THEOREM CallbackIsStable ==
  ASSUME Benign
  PROVE  Spec => StableDuringCallback
<1> DEFINE Kept ==
      pace = "prompt" /\ InCallback /\ InCallback'
        => /\ sample_index'[consumer] = sample_index[consumer]
           /\ slot_data'[consumer] = slot_data[consumer]
<1>1. IInv /\ [Next]_vars => [Kept]_vars
  <2> SUFFICES ASSUME IInv, [Next]_vars, pace = "prompt", InCallback, InCallback'
               PROVE  /\ sample_index'[consumer] = sample_index[consumer]
                      /\ slot_data'[consumer] = slot_data[consumer]
    OBVIOUS
  <2>1. newest # 0 /\ Steady
    BY DEF IInv, Fresh, InCallback
  <2>2. consumer \in ready
    BY <2>1 DEF Steady, Apart, InCallback
  <2>3. /\ consumer # producer /\ consumer # Pred(producer) /\ consumer \in Slots
        /\ sample_index \in [Slots -> Nat] /\ slot_data \in [Slots -> SUBSET Nat]
    BY <2>1, <2>2, Releasing DEF IInv, TypeOK
  <2>4. ASSUME NEW pc \in 1 .. MaxCounter, WriteData(pc)
        PROVE  /\ sample_index'[consumer] = sample_index[consumer]
               /\ slot_data'[consumer] = slot_data[consumer]
    BY <2>3, <2>4
       DEF WriteData, WriteFirst, WriteLate, WriteCurrent, CrossBoundary, ProcessData, contents
  <2>5. CASE Writer
    BY <2>3, <2>5
       DEF Writer, LockSlot, Sleep, Relock, WaitRunsOut, LockAgain, ClaimSlot, OverwriteSlot,
           UseSlot, contents
  <2>6. CASE Persister
    BY <2>6
       DEF Persister, FindReady, LockBuffer, ClearFlags, ReleaseBuffer, PersisterStops,
           InCallback, contents
  <2>7. CASE CleanUp \/ Terminated \/ UNCHANGED vars
    BY <2>7 DEF CleanUp, Terminated, vars, contents
  <2> QED BY <2>4, <2>5, <2>6, <2>7 DEF Next
<1> QED BY <1>1, RingInvariant, PTL DEF Spec, StableDuringCallback

\* With such a persister no packet is copied to a slot of no buffer.
THEOREM FreeSlotsStayEmpty ==
  ASSUME Benign
  PROVE  Spec => [](pace = "prompt" => FreeSlotsEmpty)
<1>1. IInv => (pace = "prompt" => FreeSlotsEmpty)
  <2> SUFFICES ASSUME IInv, pace = "prompt", NEW i \in Slots, sample_index[i] = 0,
                      slot_data[i] # {}
               PROVE  i = consumer /\ persister = "clear"
    BY DEF FreeSlotsEmpty
  <2>1. newest # 0
    BY DEF IInv, Fresh
  <2> QED BY <2>1 DEF IInv, Steady, Filled, Clearing
<1> QED BY <1>1, RingInvariant, PTL
-----------------------------------------------------------------------------
(* Counters: they are unwrapped alike if the stream is orderly where the    *)
(* header goes round, for every modulus and set of channels, whatever is     *)
(* lost or late elsewhere, and wherever capture starts.                      *)

USE CounterAssumption

\* The packet of channel 0 with counter 0 arrives, and last; nothing is late there.
Orderly == ZeroLast /\ ~ZeroLoss /\ ~LateAcross

\* Nothing has been unwrapped yet.
LEMMA InitRollover == CounterInit => RolloverInv
  BY DEF CounterInit, RolloverInv, CounterTypeOK, Headers

\* The outcomes of processPacket: nothing happens before the start of capture;
\* after it, a rollover is counted or not, and the packet is unwrapped.
Discards ==
  /\ capture_start_time = "set"
  /\ UNCHANGED <<capture_start_time, rollover_counter, unwrapped>>

Counts(e) ==
  /\ capture_start_time' = "unset"
  /\ rollover_counter' = rollover_counter + 1
  /\ unwrapped' = unwrapped \cup {(rollover_counter + 1) - e}

Stores(e, ahead) ==
  /\ capture_start_time' = "unset"
  /\ rollover_counter' = rollover_counter
  /\ unwrapped' = unwrapped \cup {(rollover_counter + ahead) - e}

\* Which outcome a packet has depends on its channel and on whether its counter is 0.
LEMMA Outcomes ==
  ASSUME RolloverInv, NEW e \in Nat, NEW h, NEW ch, ProcessPacket(e, h, ch)
  PROVE  \/ Discards
         \/ h = 0 /\ ch = 0 /\ Counts(e)
         \/ h = 0 /\ ch # 0 /\ Stores(e, 1)
         \/ h # 0 /\ Stores(e, 0)
<1>1. CASE capture_start_time = "set" /\ IsBeforeStart(e, h)
  BY <1>1, Zenon DEF ProcessPacket, Discards
<1>2. CASE ~(capture_start_time = "set" /\ IsBeforeStart(e, h))
  <2>1. rollover_counter + 0 = rollover_counter
    BY DEF RolloverInv, CounterTypeOK
  <2>2. QED
    BY <1>2, <2>1, Zenon
       DEF ProcessPacket, RollsOver, OthersAhead, Unwraps, Counts, Stores
<1>3. QED
  BY <1>1, <1>2

\* A packet that is not of channel 0 with counter 0 leaves the count of rollovers
\* alone, and is unwrapped with the rollover that is due counted in.
LEMMA OtherPacket ==
  ASSUME RolloverInv, NEW h, NEW ch, ProcessPacket(epoch, h, ch),
         ~(h = 0 /\ ch = 0),
         Pending = IF h = 0 THEN 1 ELSE 0
  PROVE  /\ rollover_counter' = rollover_counter
         /\ capture_start_time' = "set" => unwrapped' = {}
         /\ unwrapped' \subseteq {rollover_counter + Pending - epoch}
<1>1. /\ rollover_counter \in Nat /\ epoch \in Nat
      /\ unwrapped \subseteq {rollover_counter + Pending - epoch}
      /\ capture_start_time = "set" => unwrapped = {}
  BY DEF RolloverInv, CounterTypeOK
<1>2. \/ Discards
      \/ h = 0 /\ Stores(epoch, 1)
      \/ h # 0 /\ Stores(epoch, 0)
  BY <1>1, Outcomes, Zenon
<1>3. CASE Discards
  BY <1>1, <1>3 DEF Discards
<1>4. CASE h = 0 /\ Stores(epoch, 1)
  BY <1>1, <1>4 DEF Stores
<1>5. CASE h # 0 /\ Stores(epoch, 0)
  BY <1>1, <1>5 DEF Stores
<1>6. QED
  BY <1>2, <1>3, <1>4, <1>5

\* The packet of channel 0 with counter 0 counts the rollover that was due.
LEMMA ZeroPacket ==
  ASSUME RolloverInv, ProcessPacket(epoch, 0, 0), Pending = 1
  PROVE  /\ rollover_counter' \in Nat
         /\ capture_start_time' = "set" => unwrapped' = {}
         /\ unwrapped' \subseteq {rollover_counter' - epoch}
<1>1. /\ rollover_counter \in Nat /\ epoch \in Nat
      /\ unwrapped \subseteq {rollover_counter + Pending - epoch}
      /\ capture_start_time = "set" => unwrapped = {}
  BY DEF RolloverInv, CounterTypeOK
<1>2. Discards \/ Counts(epoch)
  BY <1>1, Outcomes, Zenon
<1>3. CASE Discards
  <2>1. unwrapped' = {} /\ rollover_counter' = rollover_counter
    BY <1>1, <1>3 DEF Discards
  <2>2. QED
    BY <1>1, <2>1
<1>4. CASE Counts(epoch)
  BY <1>1, <1>4 DEF Counts
<1>5. QED
  BY <1>2, <1>3, <1>4

\* The start time is set or unset.
LEMMA StartedType ==
  ASSUME RolloverInv, NEW e \in Nat, NEW h, NEW ch, ProcessPacket(e, h, ch)
  PROVE  capture_start_time' \in {"set", "unset"}
  BY Outcomes, Zenon DEF Discards, Counts, Stores, RolloverInv, CounterTypeOK

\* A packet that arrives in its turn keeps the invariant.
LEMMA ReceiveStep ==
  ASSUME Orderly, RolloverInv, NEW ch \in Channels, Receive(ch)
  PROVE  RolloverInv'
<1>1. /\ ch \in sending
      /\ ProcessPacket(epoch, header, ch)
      /\ sending' = sending \ {ch}
      /\ UNCHANGED <<epoch, header, delayed, late, start>>
      /\ header = 0 /\ ch = 0 => sending = {0}
  BY DEF Receive, Orderly
<1>2. CASE header = 0 /\ ch = 0
  <2>1. Pending = 1 /\ Pending' = 0
    BY <1>1, <1>2 DEF Pending
  <2>2. QED
    BY <1>1, <1>2, <2>1, ZeroPacket, StartedType DEF RolloverInv, CounterTypeOK, Headers, start
<1>3. CASE header = 0 /\ ch # 0
  <2>1. 0 \in sending
    BY <1>1, <1>3 DEF RolloverInv
  <2>2. Pending = 1 /\ Pending' = 1
    BY <1>1, <1>3, <2>1 DEF Pending
  <2>3. QED
    BY <1>1, <1>3, <2>2, OtherPacket, StartedType DEF RolloverInv, CounterTypeOK, Headers, start
<1>4. CASE header # 0
  <2>1. Pending = 0 /\ Pending' = 0
    BY <1>1, <1>4 DEF Pending
  <2>2. QED
    BY <1>1, <1>4, <2>1, OtherPacket, StartedType DEF RolloverInv, CounterTypeOK, Headers, start
<1>5. QED
  BY <1>2, <1>3, <1>4

\* A lost packet is not the one that counts the rollover.
LEMMA LoseStep ==
  ASSUME Orderly, RolloverInv, NEW ch \in Channels, Lose(ch)
  PROVE  RolloverInv'
<1>1. /\ ch \in sending
      /\ ~(header = 0 /\ ch = 0)
      /\ sending' = sending \ {ch}
      /\ UNCHANGED <<epoch, header, delayed, late, start, capture_start_time,
                     rollover_counter, unwrapped>>
  BY DEF Lose, Orderly
<1>2. Pending' = Pending
  BY <1>1 DEF Pending
<1>3. header = 0 => 0 \in sending
  BY <1>1 DEF RolloverInv
<1>4. QED
  BY <1>1, <1>2, <1>3 DEF RolloverInv, CounterTypeOK, Headers, start

\* No packet is delayed where the header goes round.
LEMMA DelayStep ==
  ASSUME Orderly, RolloverInv, NEW ch \in Channels, Delay(ch)
  PROVE  RolloverInv'
<1>1. /\ header \notin {0, Modulus - 1}
      /\ sending' = sending \ {ch}
      /\ delayed' = delayed \cup {ch}
      /\ UNCHANGED <<epoch, header, late, start, capture_start_time,
                     rollover_counter, unwrapped>>
  BY DEF Delay, Orderly
<1>2. Pending' = Pending
  BY <1>1 DEF Pending
<1>3. QED
  BY <1>1, <1>2 DEF RolloverInv, CounterTypeOK, Headers, start

\* A late packet is of this epoch, and its counter is not 0.
LEMMA ReceiveLateStep ==
  ASSUME Orderly, RolloverInv, NEW ch \in Channels, ReceiveLate(ch)
  PROVE  RolloverInv'
<1>1. /\ ch \in late
      /\ late' = late \ {ch}
      /\ ProcessPacket(PreviousEpoch, PreviousHeader, ch)
      /\ UNCHANGED <<epoch, header, sending, delayed, start>>
  BY DEF ReceiveLate
<1>2. header \in Headers /\ header \notin {0, 1}
  BY <1>1 DEF RolloverInv, CounterTypeOK
<1>3. PreviousEpoch = epoch /\ PreviousHeader # 0
  BY <1>2 DEF PreviousEpoch, PreviousHeader, Headers
<1>4. Pending = 0 /\ Pending' = 0
  BY <1>1, <1>2 DEF Pending
<1>5. QED
  BY <1>1, <1>2, <1>3, <1>4, OtherPacket, StartedType DEF RolloverInv, CounterTypeOK, Headers, start

\* With the next epoch a rollover becomes due.
LEMMA AdvanceStep ==
  ASSUME Orderly, RolloverInv, Advance
  PROVE  RolloverInv'
<1>1. /\ sending = {}
      /\ sending' = Channels
      /\ late' = delayed
      /\ delayed' = {}
      /\ UNCHANGED <<start, capture_start_time, rollover_counter, unwrapped>>
      /\ header \in Headers /\ epoch \in Nat /\ rollover_counter \in Nat
  BY DEF Advance, RolloverInv, CounterTypeOK
<1>2. Pending = 0
  BY <1>1 DEF Pending
<1>3. CASE header = Modulus - 1
  <2>1. epoch' = epoch + 1 /\ header' = 0
    BY <1>3 DEF Advance
  <2>2. Pending' = 1 /\ delayed = {}
    BY <1>1, <1>3, <2>1 DEF Pending, RolloverInv
  <2>3. (rollover_counter + 1) - (epoch + 1) = rollover_counter + 0 - epoch
    BY <1>1
  <2>4. QED
    BY <1>1, <1>2, <2>1, <2>2, <2>3 DEF RolloverInv, CounterTypeOK, Headers, start
<1>4. CASE header # Modulus - 1
  <2>1. epoch' = epoch /\ header' = header + 1
    BY <1>4 DEF Advance
  <2>2. Pending' = 0
    BY <1>1, <2>1 DEF Pending, Headers
  <2>3. delayed # {} => header' \notin {0, 1}
    BY <1>1, <2>1 DEF RolloverInv, Headers
  <2>4. QED
    BY <1>1, <1>2, <1>4, <2>1, <2>2, <2>3 DEF RolloverInv, CounterTypeOK, Headers, start
<1>5. QED
  BY <1>3, <1>4

\* A step that changes nothing keeps the invariant.
LEMMA StutterStep ==
  ASSUME RolloverInv, UNCHANGED counter_vars
  PROVE  RolloverInv'
<1>1. Pending' = Pending
  BY DEF counter_vars, stream, Pending
<1>2. QED
  BY <1>1 DEF counter_vars, stream, start, RolloverInv, CounterTypeOK, Headers

\* If the packet of channel 0 with counter 0 is neither lost nor overtaken and none
\* is late there, every packet is unwrapped with the rollovers that were counted and
\* the one that is due, wherever in the stream capture starts.
THEOREM RolloverInvariant == Orderly => (CounterSpec => []RolloverInv)
<1> SUFFICES ASSUME Orderly PROVE CounterSpec => []RolloverInv
  OBVIOUS
<1>1. ASSUME RolloverInv, [CounterNext]_counter_vars PROVE RolloverInv'
  <2>1. CASE \E ch \in Channels : Receive(ch) \/ Lose(ch) \/ Delay(ch) \/ ReceiveLate(ch)
    BY <1>1, <2>1, ReceiveStep, LoseStep, DelayStep, ReceiveLateStep, Zenon
  <2>2. CASE Advance
    BY <1>1, <2>2, AdvanceStep
  <2>3. CASE StreamEnds \/ UNCHANGED counter_vars
    BY <1>1, <2>3, StutterStep DEF StreamEnds
  <2>4. QED
    BY <1>1, <2>1, <2>2, <2>3, Zenon DEF CounterNext
<1>2. QED
  BY InitRollover, <1>1, PTL DEF CounterSpec

\* Under the same conditions the counters of StationRawData and StationData unwrap
\* alike for every channel: the distance of any two is that in the stream.
THEOREM CountersUnwrapAlike == Orderly => (CounterSpec => []SameRollover)
<1> SUFFICES ASSUME Orderly PROVE CounterSpec => []SameRollover
  OBVIOUS
<1>1. RolloverInv => SameRollover
  BY DEF RolloverInv, SameRollover
<1>2. CounterSpec => []RolloverInv
  BY RolloverInvariant
<1>3. QED
  BY <1>1, <1>2, PTL
=============================================================================
