------------------------- MODULE ChannelContainers -------------------------
(***************************************************************************)
(* ContinuousChannelisedData: a consumer with one thread, which stores the *)
(* packets of all tiles in the current one of a ring of containers, moves  *)
(* on when the stream has reached the next buffer, and persists containers *)
(* (calls back) while it handles a packet.                                 *)
(*                                                                         *)
(* A packet is its sender, one FPGA of a tile, and its counter since the   *)
(* start of the stream; the header has the counter modulo Modulus, and the *)
(* packet's time is proportional to the counter.  A container is the set   *)
(* of packets added since it was cleared, each with the index where its    *)
(* samples were put.                                                       *)
(*                                                                         *)
(* Times are doubles, seconds since 1970, whose resolution is coarse next  *)
(* to the duration of a packet: they are multiples of Grain here.          *)
(***************************************************************************)
EXTENDS Integers, FiniteSets

CONSTANTS
  NofContainers,   \* nof_containers: 4
  Window,          \* packets of a sender in a buffer: nof_samples / samples_in_packet
  Senders,         \* FPGAs: two per tile; 0 is the one with tile_id 0 and pol_id 0
  Modulus,         \* values of the header's counter: 2^24
  Tick, Grain,     \* time from one counter to the next, and resolution of times
  BufferSkips,     \* values of nof_buffer_skips in the configuration
  StartTimes,      \* values of start_time in the configuration, 0 if none
  First,           \* counter being sent when the consumer starts
  MaxCounter,      \* bound: largest counter the stream sends
  MaxLate,         \* bound: how many counters late a packet may arrive
  MaxLost,         \* bound: how many packets are lost
  LateWhenSkipping,\* may packets be late when some buffers are skipped?
  StartLoss,       \* may sender 0's first packet of a buffer be lost?
  StartFirst       \* does that packet arrive before all others of its buffer?

ASSUME ContainerAssumption ==
  /\ {NofContainers, Window, Modulus, Tick, Grain} \subseteq Nat \ {0}
  /\ 0 \in Senders
  /\ BufferSkips \subseteq Nat
  /\ StartTimes \subseteq Nat
  /\ {First, MaxCounter, MaxLate, MaxLost} \subseteq Nat
  /\ First >= MaxLate
  /\ {LateWhenSkipping, StartLoss, StartFirst} \subseteq BOOLEAN

VARIABLES
  nof_buffer_skips, start_time,   \* the configuration
  containers,        \* per container: the packets added to it
  current_container,
  current_buffer,    \* how many buffers were skipped, if some are
  reference_time,    \* time at which the current buffer starts, 0 if unset
  reference_counter, \* counter of the first packet, 0 if unset
  rollover_counter,
  num_packets,       \* packets stored since the current buffer was begun
  persisted,         \* history: the container persisted last
  origin,            \* history: counter of the first packet processed, -1 if none
  sent,              \* the counter being sent
  transit,           \* the packets sent that are to arrive
  lost               \* history: the packets lost

configuration == <<nof_buffer_skips, start_time>>
counters == <<reference_counter, rollover_counter>>
position == <<current_container, current_buffer, reference_time, num_packets>>
stream == <<sent, transit, lost>>
containerVars == <<configuration, containers, position, counters, persisted, origin, stream>>

Containers == 0 .. NofContainers - 1

ContainersInit ==
  /\ nof_buffer_skips \in BufferSkips
  /\ start_time \in StartTimes
  /\ containers = [i \in Containers |-> {}]
  /\ current_container = 0
  /\ current_buffer = 0
  /\ reference_time = 0
  /\ reference_counter = 0
  /\ rollover_counter = 0
  /\ num_packets = 0
  /\ persisted = {}
  /\ origin = -1
  /\ sent = First
  /\ transit = Senders \X (First - MaxLate .. First)
  /\ lost = {}
-----------------------------------------------------------------------------
(* Time and counter of a packet                                             *)

Round(t) == ((t + Grain \div 2) \div Grain) * Grain

PacketTime(c) == Round(c * Tick)

\* mutant: the first packet's counter is not kept
NoReference(c) == reference_counter

\* the first packet's counter, or a later one's if that was 0
Reference(c) == IF reference_counter = 0 THEN c % Modulus ELSE reference_counter

\* sender 0's packet with counter 0 counts a rollover, unless it is the first packet
Rollovers(s, c) ==
  IF reference_counter # 0 /\ s = 0 /\ c % Modulus = 0 THEN rollover_counter + 1
                                                        ELSE rollover_counter

\* rollovers of this packet: other senders' packets with counter 0 have one
Epoch(s, c) ==
  IF reference_counter = 0 THEN 0
  ELSE IF s # 0 /\ c % Modulus = 0 THEN 1
  ELSE Rollovers(s, c)

PacketIndex(s, c) == ((c % Modulus) + Epoch(s, c) * Modulus - Reference(c)) % Window
-----------------------------------------------------------------------------
(* processPacket                                                            *)

\* add_data
AddData(buffers, i, s, c) ==
  containers' = [buffers EXCEPT ![i] = @ \cup {<<s, PacketIndex(s, c), c>>}]

Previous == (current_container - 1) % NofContainers

\* time at which the current buffer starts: the first packet's, at first
BufferStart(c) == IF reference_time = 0 THEN PacketTime(c) ELSE reference_time

BufferEnd(c) == Round(BufferStart(c) + Window * Tick)

\* mutant: a packet of a buffer long past is not told from the current ones
NeverLate(c) == FALSE

\* a packet of the previous buffer
IsLate(c) == PacketTime(c) < BufferStart(c)

StoreLate(s, c) ==
  /\ IsLate(c)
  /\ IF nof_buffer_skips = 0 THEN AddData(containers, Previous, s, c)
                             ELSE UNCHANGED containers
  /\ UNCHANGED <<position, persisted>>

\* sender 0's first packet of the next buffer, when enough packets were received
IsBoundary(s, c) ==
  /\ PacketIndex(s, c) = 0
  /\ PacketTime(c) >= BufferEnd(c)
  /\ num_packets > Cardinality(Senders)
  /\ s = 0

StoreCurrent(s, c) ==
  /\ ~IsLate(c)
  /\ ~IsBoundary(s, c)
  /\ current_buffer = 0
  /\ AddData(containers, current_container, s, c)
  /\ num_packets' = num_packets + 1
  /\ reference_time' = BufferStart(c)
  /\ UNCHANGED <<current_container, current_buffer, persisted>>

\* this buffer is skipped
SkipPacket(s, c) ==
  /\ ~IsLate(c)
  /\ ~IsBoundary(s, c)
  /\ current_buffer # 0
  /\ UNCHANGED <<containers, position, persisted>>

NextBuffer == IF nof_buffer_skips = 0 THEN 0 ELSE (current_buffer + 1) % nof_buffer_skips

\* the next buffer is skipped
SkipBuffer(s, c) ==
  /\ ~IsLate(c)
  /\ IsBoundary(s, c)
  /\ NextBuffer # 0
  /\ current_buffer' = NextBuffer
  /\ UNCHANGED <<containers, current_container, reference_time, num_packets, persisted>>

NextContainer == (current_container + 1) % NofContainers

\* when none is skipped, the oldest container is persisted, to be filled anew
Oldest == IF nof_buffer_skips = 0 THEN NextContainer ELSE current_container

\* mutant: the container is not cleared
Keep(i) == containers

\* persist_container, if there is anything in it
Clear(i) == [containers EXCEPT ![i] = {}]

MoveOn(s, c) ==
  /\ ~IsLate(c)
  /\ IsBoundary(s, c)
  /\ NextBuffer = 0
  /\ persisted' = IF containers[Oldest] = {} THEN persisted ELSE containers[Oldest]
  /\ AddData(Clear(Oldest), NextContainer, s, c)
  /\ current_container' = NextContainer
  /\ current_buffer' = 0
  /\ reference_time' = BufferEnd(c)
  /\ num_packets' = 1

ProcessPacket(s, c) ==
  IF PacketTime(c) < start_time
    THEN UNCHANGED <<containers, position, counters, persisted, origin>>
    ELSE /\ reference_counter' = Reference(c)
         /\ rollover_counter' = Rollovers(s, c)
         /\ origin' = IF origin = -1 THEN c ELSE origin
         /\ \/ StoreLate(s, c)
            \/ StoreCurrent(s, c)
            \/ SkipPacket(s, c)
            \/ SkipBuffer(s, c)
            \/ MoveOn(s, c)
-----------------------------------------------------------------------------
(* The stream                                                               *)

\* buffers are counted from the first packet processed
Buffer(c) == (c - origin) \div Window

IsStart(s, c) == s = 0 /\ origin # -1 /\ c > origin /\ (c - origin) % Window = 0

Receive(s, c) ==
  /\ <<s, c>> \in transit
  /\ StartFirst => ~\E p \in transit \ {<<s, c>>} : IsStart(p[1], p[2]) /\ p[2] <= c
  /\ transit' = transit \ {<<s, c>>}
  /\ ProcessPacket(s, c)
  /\ UNCHANGED <<configuration, sent, lost>>

Lose(s, c) ==
  /\ <<s, c>> \in transit
  /\ origin # -1
  /\ Cardinality(lost) < MaxLost
  /\ IsStart(s, c) => StartLoss
  /\ lost' = lost \cup {<<s, c>>}
  /\ transit' = transit \ {<<s, c>>}
  /\ UNCHANGED <<configuration, containers, position, counters, persisted, origin, sent>>

Lateness == IF nof_buffer_skips > 1 /\ ~LateWhenSkipping THEN 0 ELSE MaxLate

Send ==
  /\ sent < MaxCounter
  /\ \A p \in transit : sent + 1 - p[2] <= Lateness
  /\ sent' = sent + 1
  /\ transit' = transit \cup (Senders \X {sent + 1})
  /\ UNCHANGED <<configuration, containers, position, counters, persisted, origin, lost>>

StreamEnds ==
  /\ sent = MaxCounter
  /\ transit = {}
  /\ UNCHANGED containerVars

ContainersNext ==
  \/ \E p \in transit : Receive(p[1], p[2]) \/ Lose(p[1], p[2])
  \/ Send
  \/ StreamEnds

ContainersSpec == ContainersInit /\ [][ContainersNext]_containerVars
-----------------------------------------------------------------------------
(* Properties                                                               *)

\* Every variable keeps its type; in particular the cursor stays in the ring.
ContainersTypeOK ==
  /\ containers \in [Containers -> SUBSET (Senders \X (0 .. Window - 1) \X Nat)]
  /\ current_container \in Containers
  /\ {current_buffer, reference_time, reference_counter, rollover_counter, num_packets,
      sent} \subseteq Nat
  /\ persisted \subseteq Senders \X (0 .. Window - 1) \X Nat
  /\ origin \in Nat \cup {-1}
  /\ {transit, lost} \subseteq SUBSET (Senders \X Nat)

\* The packets of a container are of one buffer, whichever sender they come from
\* and however late: those "less than reference time" are of the previous buffer,
\* the others of the current one (ChannelisedData.cpp:424).
OneBufferPerContainer ==
  \A i \in Containers : \A p, q \in containers[i] : Buffer(p[3]) = Buffer(q[3])

\* The samples of a packet are put where its distance from the first packet says,
\* although the header's counter goes round ("assigned correct packet index",
\* ChannelisedData.cpp:413).
SamplesInPlace ==
  \A i \in Containers : \A p \in containers[i] : p[2] = (p[3] - origin) % Window

BufferOf(container) == Buffer((CHOOSE p \in container : TRUE)[3])

\* Buffers are persisted in order, each once, and only those that are to be skipped
\* are left out.
PersistedInOrder ==
  [][persisted' # persisted /\ persisted # {}
       => BufferOf(persisted') = BufferOf(persisted)
            + (IF nof_buffer_skips = 0 THEN 1 ELSE nof_buffer_skips)]_containerVars
=============================================================================
