-------------------------- MODULE Recording_proofs --------------------------
(***************************************************************************)
(* Proofs about ChannelContainers: containers hold the packets of one      *)
(* buffer each, every packet in its place, and are persisted in order, for *)
(* any number and size of containers, senders, losses and counters, when   *)
(* the stream is orderly.                                                  *)
(*                                                                         *)
(* Proofs about FilePartitions, for any size of buffers and partitions,    *)
(* any gaps and any number of restarts.                                    *)
(*   - The files are well formed, and in append mode no buffer is lost,    *)
(*     filed twice or out of order.                                        *)
(*   - Timestamps grow with the buffers, and the spans in the attributes   *)
(*     of partitions enclose them.                                         *)
(*                                                                         *)
(* Proofs about FileAccess, for any number of partitions, buffers, samples *)
(* and reads; they use the assumption of that module only.                 *)
(*   - A partition is open in one process at a time, as long as no         *)
(*     receiver is started in the directory meanwhile.                     *)
(*   - All partitions but the newest are full.                             *)
(*   - What is selected by time lies inside the span, and leaves out one   *)
(*     sample of each partition at most.                                   *)
(*   - In a file of two partitions, what had been written is read exactly, *)
(*     whatever is appended between the steps of the read.                 *)
(***************************************************************************)
EXTENDS ChannelContainers, FilePartitions, FileAccess, SequenceTheorems, FiniteSetTheorems, TLAPS

\* What the consumer relies on.  The counter goes round at the start of a buffer, and times
\* are exact; sender 0's first packet of a buffer arrives, and before the others; packets
\* are less than a buffer late, and not late at all when buffers are skipped; and of those
\* that are on time enough arrive for the buffer to be believed over.
Orderly ==
  /\ Modulus % Window = 0
  /\ Tick % Grain = 0
  /\ NofContainers > 1
  /\ StartFirst /\ ~StartLoss
  /\ MaxLate < Window /\ ~LateWhenSkipping
  /\ IsFiniteSet(Senders)
  /\ Cardinality(Senders) * (Window - MaxLate) > MaxLost + Cardinality(Senders)
-----------------------------------------------------------------------------
(* Arithmetic                                                               *)

LEMMA QuotientAndRest ==
  ASSUME NEW a \in Int, NEW b \in Nat \ {0}
  PROVE  /\ a = b * (a \div b) + (a % b)
         /\ a % b \in 0 .. b - 1 /\ a \div b \in Int
BY SMT

LEMMA NoMultipleBelow ==
  ASSUME NEW b \in Nat \ {0}, NEW k \in Int, b * k < b, b * k > -b
  PROVE  k = 0
<1>1. CASE k >= 1
  <2>1. PICK d \in Nat : k = 1 + d
    <3>1. k - 1 \in Nat /\ k = 1 + (k - 1)
      BY <1>1
    <3> QED BY <3>1
  <2>2. b * k = b + b * d
    BY <2>1
  <2>3. b * d \in Nat
    OBVIOUS
  <2> QED BY <2>2, <2>3
<1>2. CASE k <= -1
  <2>1. PICK d \in Nat : k = -1 - d
    <3>1. -1 - k \in Nat /\ k = -1 - (-1 - k)
      BY <1>2
    <3> QED BY <3>1
  <2>2. b * k = -b - b * d
    BY <2>1
  <2>3. b * d \in Nat
    OBVIOUS
  <2> QED BY <2>2, <2>3
<1> QED BY <1>1, <1>2

\* Quotient and rest are unique.
LEMMA Division ==
  ASSUME NEW b \in Nat \ {0}, NEW x \in Int, NEW q \in Int, NEW r \in 0 .. b - 1,
         x = b * q + r
  PROVE  x \div b = q /\ x % b = r
<1> DEFINE p == x \div b
           m == x % b
<1>1. x = b * p + m /\ m \in 0 .. b - 1 /\ p \in Int
  BY QuotientAndRest, Zenon
<1> HIDE DEF p, m
<1>2. b * (p - q) = r - m
  BY <1>1
<1>3. p - q \in Int /\ b * (p - q) < b /\ b * (p - q) > -b
  <2> DEFINE d == b * (p - q)
  <2>1. d = r - m /\ p - q \in Int
    BY <1>1, <1>2
  <2> HIDE DEF d
  <2>2. d < b /\ d > -b
    BY <1>1, <2>1
  <2> QED BY <2>1, <2>2 DEF d
<1>4. p - q = 0
  BY <1>3, NoMultipleBelow
<1>5. p = q
  BY <1>1, <1>4
<1>6. m = r
  BY <1>1, <1>5
<1> QED BY <1>5, <1>6 DEF p, m

LEMMA RestShifted ==
  ASSUME NEW b \in Nat \ {0}, NEW x \in Int, NEW k \in Int
  PROVE  (x + b * k) % b = x % b
<1> DEFINE q == x \div b
           r == x % b
<1>1. x = b * q + r /\ r \in 0 .. b - 1 /\ q \in Int
  BY QuotientAndRest, Zenon
<1> HIDE DEF q, r
<1>2. x + b * k = b * (q + k) + r
  BY <1>1
<1>3. x + b * k \in Int /\ q + k \in Int
  BY <1>1
<1>4. (x + b * k) % b = r
  BY <1>1, <1>2, <1>3, Division
<1> QED BY <1>4 DEF r

LEMMA MultipleRest ==
  ASSUME NEW b \in Nat \ {0}, NEW x \in Int, x % b = 0
  PROVE  \E k \in Int : x = b * k
<1> DEFINE q == x \div b
           r == x % b
<1>1. x = b * q + r /\ q \in Int /\ r = 0
  BY QuotientAndRest, Zenon
<1> HIDE DEF q, r
<1>2. x = b * q
  BY <1>1
<1> QED BY <1>1, <1>2

LEMMA Scaled ==
  ASSUME NEW t \in Nat \ {0}, NEW a \in Int, NEW b \in Int
  PROVE  /\ a * t \in Int
         /\ (a + b) * t = a * t + b * t
         /\ a * t < b * t <=> a < b
<1>1. ASSUME NEW m \in Int, NEW n \in Int, m < n
      PROVE  m * t < n * t
  <2>1. PICK d \in Nat : n = m + 1 + d
    <3>1. n - m - 1 \in Nat /\ n = m + 1 + (n - m - 1)
      BY <1>1
    <3> QED BY <3>1
  <2>2. n * t = m * t + t + d * t /\ d * t \in Nat
    BY <2>1
  <2>3. m * t \in Int
    OBVIOUS
  <2> DEFINE x == m * t
             y == n * t
             z == d * t
  <2>4. x \in Int /\ z \in Nat /\ y = x + t + z
    BY <2>2, <2>3
  <2> HIDE DEF x, y, z
  <2>5. x < y
    BY <2>4
  <2> QED BY <2>5 DEF x, y
<1>2. a * t \in Int /\ b * t \in Int /\ (a + b) * t = a * t + b * t
  OBVIOUS
<1>3. a < b \/ a = b \/ b < a
  OBVIOUS
<1>4. a * t < b * t <=> a < b
  <2> DEFINE x == a * t
             y == b * t
  <2>1. /\ x \in Int /\ y \in Int
        /\ a < b => x < y
        /\ a = b => x = y
        /\ b < a => y < x
    BY <1>1, <1>2
  <2> HIDE DEF x, y
  <2>2. x < y <=> a < b
    BY <1>3, <2>1
  <2> QED BY <2>2 DEF x, y
<1> QED BY <1>2, <1>4
-----------------------------------------------------------------------------
(* Times and places                                                         *)

Sizes ==
  /\ NofContainers \in Nat \ {0} /\ Window \in Nat \ {0} /\ Modulus \in Nat \ {0}
  /\ Tick \in Nat \ {0} /\ Grain \in Nat \ {0}
  /\ First \in Nat /\ MaxCounter \in Nat /\ MaxLate \in Nat /\ MaxLost \in Nat

LEMMA Constants == Sizes
BY ContainerAssumption DEF Sizes

\* Multiples of the resolution are exact.
LEMMA RoundIsExact ==
  ASSUME NEW t \in Int, t % Grain = 0
  PROVE  Round(t) = t
<1>1. Grain \in Nat \ {0}
  BY Constants DEF Sizes
<1>2. PICK q \in Int : t = Grain * q
  BY <1>1, MultipleRest
<1> DEFINE half == Grain \div 2
<1>3. half \in 0 .. Grain - 1
  <2>1. Grain = 2 * half + (Grain % 2) /\ Grain % 2 \in 0 .. 1 /\ half \in Int
    BY <1>1, SMT
  <2> HIDE DEF half
  <2> QED BY <1>1, <2>1
<1> HIDE DEF half
<1>4. t + half = Grain * q + half /\ t + half \in Int
  BY <1>2, <1>3
<1>5. (t + half) \div Grain = q
  BY <1>1, <1>3, <1>4, Division
<1>6. q * Grain = t
  BY <1>1, <1>2
<1> QED BY <1>5, <1>6 DEF Round, half

LEMMA TimesAreExact ==
  ASSUME Orderly, NEW c \in Int
  PROVE  Round(c * Tick) = c * Tick /\ PacketTime(c) = c * Tick
<1>1. Grain \in Nat \ {0} /\ Tick \in Nat \ {0} /\ Tick % Grain = 0
  BY Constants DEF Sizes, Orderly
<1>2. PICK k \in Int : Tick = Grain * k
  BY <1>1, MultipleRest
<1>3. c * Tick = Grain * (c * k) /\ c * k \in Int /\ c * Tick \in Int
  BY <1>1, <1>2
<1>4. (c * Tick) % Grain = 0
  <2> DEFINE x == c * Tick
             q == c * k
  <2>1. x \in Int /\ q \in Int /\ x = Grain * q + 0
    BY <1>1, <1>3
  <2> HIDE DEF x, q
  <2>2. 0 \in 0 .. Grain - 1
    BY <1>1
  <2>3. x % Grain = 0
    BY <1>1, <2>1, <2>2, Division
  <2> QED BY <2>3 DEF x
<1>5. Round(c * Tick) = c * Tick
  BY <1>3, <1>4, RoundIsExact
<1> QED BY <1>5 DEF PacketTime

\* The header's counter, however often it went round, tells the place in the buffer.
LEMMA IndexIsPlace ==
  ASSUME Orderly, NEW c \in Int, NEW o \in Int, NEW e \in Int
  PROVE  ((c % Modulus) + e * Modulus - (o % Modulus)) % Window = (c - o) % Window
<1>1. Modulus \in Nat \ {0} /\ Window \in Nat \ {0} /\ Modulus % Window = 0
  BY Constants DEF Sizes, Orderly
<1>2. PICK m \in Int : Modulus = Window * m
  BY <1>1, MultipleRest
<1> DEFINE p == c \div Modulus
           q == o \div Modulus
           u == c % Modulus
           v == o % Modulus
<1>3. c = Modulus * p + u /\ o = Modulus * q + v /\ p \in Int /\ q \in Int /\ u \in Int /\ v \in Int
  BY <1>1, QuotientAndRest
<1> HIDE DEF p, q, u, v
<1>4. u + e * Modulus - v = (c - o) + Modulus * (e - p + q)
  BY <1>1, <1>3
<1>5. Modulus * (e - p + q) = Window * (m * (e - p + q)) /\ m * (e - p + q) \in Int
  BY <1>1, <1>2, <1>3
<1>6. ((c - o) + Window * (m * (e - p + q))) % Window = (c - o) % Window
  <2> DEFINE k == m * (e - p + q)
             x == c - o
  <2>1. k \in Int /\ x \in Int
    BY <1>5
  <2> HIDE DEF k, x
  <2>2. (x + Window * k) % Window = x % Window
    BY <1>1, <2>1, RestShifted
  <2> QED BY <2>2 DEF k, x
<1> QED BY <1>4, <1>5, <1>6 DEF u, v
-----------------------------------------------------------------------------
(* The invariant                                                            *)

\* one buffer is kept, and then that many less one are skipped
Stride == IF nof_buffer_skips = 0 THEN 1 ELSE nof_buffer_skips

\* Packets are not later than they may be.
Types ==
  /\ nof_buffer_skips \in Nat /\ start_time \in Nat
  /\ current_container \in Containers
  /\ current_buffer \in 0 .. Stride - 1
  /\ num_packets \in Nat /\ rollover_counter \in Nat
  /\ DOMAIN containers = Containers
  /\ sent \in Nat /\ sent >= First
  /\ transit \subseteq Senders \X Nat
  /\ \A p \in transit : p[2] <= sent /\ sent - p[2] <= MaxLate
  /\ sent = First \/ \A p \in transit : sent - p[2] <= Lateness
  /\ IsFiniteSet(lost) /\ Cardinality(lost) <= MaxLost

\* No packet has been processed: all that can be the first are still to come.
Waiting ==
  /\ containers = [i \in Containers |-> {}]
  /\ current_container = 0 /\ current_buffer = 0 /\ reference_time = 0
  /\ reference_counter = 0 /\ num_packets = 0
  /\ persisted = {}
  /\ \A s \in Senders, c \in 0 .. sent :
       c + MaxLate >= sent /\ PacketTime(c) >= start_time => <<s, c>> \in transit

\* how many buffers ago a container was filled, when none is skipped
Age(i) == IF i <= current_container THEN current_container - i
          ELSE current_container - i + NofContainers

\* counter of the first packet of buffer b
Opens(b) == origin + b * Window

\* buffer that the stream has reached when the consumer has moved on a times
Reached(a) == a * Stride + current_buffer

\* The containers hold the last buffers that were kept; the packets that were sent before the
\* first one but came after it are in the container before.
Filed(a) ==
  /\ containers[current_container] # {}
  /\ nof_buffer_skips = 0 => \A i \in Containers :
        /\ \A p \in containers[i] : Buffer(p[3]) = a - Age(i)
        /\ Age(i) <= a => containers[i] # {}
        /\ Age(i) > a + 1 => containers[i] = {}
  /\ nof_buffer_skips # 0 =>
        /\ \A p \in containers[current_container] : Buffer(p[3]) = a * Stride
        /\ \A i \in Containers : i # current_container => containers[i] = {}

\* What was persisted last is the buffer before the oldest one held.
Persisted(a) ==
  LET b == IF nof_buffer_skips = 0 THEN a - NofContainers ELSE (a - 1) * Stride IN
  /\ \A p \in persisted : Buffer(p[3]) = b
  /\ persisted # {} => b >= -1

Stored == {<<p[1], p[3]>> : p \in containers[current_container]}

\* The packets of the buffer are counted as they are stored, or are to come, or lost.
Tallied(b) ==
  IF current_buffer = 0
    THEN /\ IsFiniteSet(containers[current_container])
         /\ num_packets >= Cardinality(containers[current_container])
         /\ \A s \in Senders, c \in Nat :
              Opens(b) <= c /\ c <= sent /\ c < Opens(b + 1) =>
                <<s, c>> \in transit \cup lost \cup Stored
    ELSE num_packets > Cardinality(Senders)

\* The packets of later buffers are to come, or lost, but the one that starts the next buffer
\* is not lost.
Starts(b) ==
  /\ Opens(b) <= sent
  /\ Opens(b + 1) <= sent => <<0, Opens(b + 1)>> \in transit
  /\ b > 0 => <<0, Opens(b)>> \notin transit
  /\ \A s \in Senders, c \in Nat :
       Opens(b + 1) <= c /\ c <= sent => <<s, c>> \in transit \cup lost

At(a) ==
  /\ reference_time = Opens(a) * Tick
  /\ Starts(Reached(a))
  /\ Filed(a) /\ Persisted(a) /\ Tallied(Reached(a))

AtPlace == \A i \in Containers : \A p \in containers[i] : p[2] = (p[3] - origin) % Window

Running ==
  /\ origin \in Nat /\ origin + MaxLate >= First
  /\ PacketTime(origin) >= start_time
  /\ reference_counter = origin % Modulus
  /\ AtPlace
  /\ \E a \in Nat : At(a)

\* A stream whose first packet has counter 0 in the header is another matter: the consumer
\* takes the next packet's counter for its reference.
ChannelInv ==
  /\ Types
  /\ origin = -1 => Waiting
  /\ origin # -1 /\ origin % Modulus # 0 => Running
-----------------------------------------------------------------------------
(* Buffers and steps                                                        *)

LEMMA Opening ==
  ASSUME origin \in Int, NEW b \in Int
  PROVE  /\ Opens(b) \in Int /\ Opens(b + 1) = Opens(b) + Window
         /\ Opens(b - 1) = Opens(b) - Window
         /\ Opens(0) = origin
         /\ \A d \in Int : b < d <=> Opens(b) < Opens(d)
<1>1. Window \in Nat \ {0}
  BY Constants DEF Sizes
<1>2. b * Window \in Int /\ (b + 1) * Window = b * Window + Window
        /\ (b - 1) * Window = b * Window - Window /\ 0 * Window = 0
  BY <1>1
<1>3. ASSUME NEW d \in Int
      PROVE  b < d <=> Opens(b) < Opens(d)
  <2>1. b * Window < d * Window <=> b < d
    BY <1>1, Scaled
  <2>2. b * Window \in Int /\ d * Window \in Int
    BY <1>1
  <2> DEFINE x == b * Window
             y == d * Window
  <2>3. x \in Int /\ y \in Int /\ (x < y <=> b < d)
    BY <2>1, <2>2
  <2> HIDE DEF x, y
  <2>4. origin + x < origin + y <=> b < d
    BY <2>3
  <2> QED BY <2>4 DEF x, y, Opens
<1>4. /\ Opens(b) \in Int /\ Opens(b + 1) = Opens(b) + Window
      /\ Opens(b - 1) = Opens(b) - Window /\ Opens(0) = origin
  BY <1>1, <1>2 DEF Opens
<1> QED BY <1>3, <1>4

LEMMA WithinBuffer ==
  ASSUME origin \in Int, NEW b \in Int, NEW c \in Int, Opens(b) <= c, c < Opens(b + 1)
  PROVE  Buffer(c) = b /\ ((c - origin) % Window = 0 <=> c = Opens(b))
<1>1. Window \in Nat \ {0}
  BY Constants DEF Sizes
<1>2. Opens(b) \in Int /\ Opens(b + 1) = Opens(b) + Window /\ Opens(b) = origin + b * Window
  BY Opening DEF Opens
<1> DEFINE r == c - Opens(b)
           m == b * Window
           x == c - origin
<1>3. m \in Int /\ Opens(b) = origin + m /\ m = Window * b
  BY <1>1, <1>2
<1>4. r \in 0 .. Window - 1
  BY <1>1, <1>2
<1> HIDE DEF m
<1>5. x = m + r /\ x \in Int /\ (r = 0 <=> c = Opens(b))
  BY <1>2, <1>3
<1> HIDE DEF r, x
<1>6. x = Window * b + r
  BY <1>3, <1>5
<1>7. x \div Window = b /\ x % Window = r
  BY <1>1, <1>4, <1>5, <1>6, Division
<1> QED BY <1>5, <1>7 DEF x, Buffer

LEMMA Strides ==
  ASSUME Types, NEW a \in Nat
  PROVE  /\ Stride \in Nat \ {0} /\ a * Stride \in Nat /\ a * Stride >= a
         /\ (a + 1) * Stride = a * Stride + Stride
         /\ Stride = 1 => a * Stride = a /\ current_buffer = 0
         /\ Reached(a) \in Nat /\ Reached(a) >= a /\ Reached(a) = a * Stride + current_buffer
<1>1. Stride \in Nat \ {0} /\ current_buffer \in 0 .. Stride - 1
  BY DEF Types, Stride
<1> HIDE DEF Stride
<1>2. a * Stride \in Nat /\ (a + 1) * Stride = a * Stride + Stride
  BY <1>1
<1>3. Stride = 1 => a * Stride = a
  OBVIOUS
<1>4. a * Stride >= a
  <2>1. PICK d \in Nat : Stride = 1 + d
    <3>1. Stride - 1 \in Nat /\ Stride = 1 + (Stride - 1)
      BY <1>1
    <3> QED BY <3>1
  <2>2. a * (1 + d) = a + a * d /\ a * d \in Nat
    OBVIOUS
  <2> QED BY <2>1, <2>2
<1> DEFINE m == a * Stride
<1>5. m \in Nat /\ m >= a /\ Reached(a) = m + current_buffer
  BY <1>2, <1>4 DEF Reached
<1> HIDE DEF m
<1>6. Reached(a) \in Nat /\ Reached(a) >= a
  BY <1>1, <1>5
<1> QED BY <1>1, <1>2, <1>3, <1>4, <1>5, <1>6 DEF m

\* Which packets the consumer takes for what, when it has moved on a times.
LEMMA Seen ==
  ASSUME Orderly, Types, Running, origin % Modulus # 0, NEW a \in Nat,
         reference_time = Opens(a) * Tick, NEW s, NEW c \in Nat
  PROVE  /\ Reference(c) = reference_counter
         /\ Rollovers(s, c) \in Nat
         /\ PacketIndex(s, c) = (c - origin) % Window
         /\ BufferStart(c) = reference_time
         /\ IsLate(c) <=> c < Opens(a)
         /\ BufferEnd(c) = Opens(a + 1) * Tick
         /\ IsBoundary(s, c) <=>
              /\ (c - origin) % Window = 0 /\ c >= Opens(a + 1)
              /\ num_packets > Cardinality(Senders) /\ s = 0
<1>1. /\ Modulus \in Nat \ {0} /\ Window \in Nat \ {0} /\ Tick \in Nat \ {0}
      /\ origin \in Nat /\ rollover_counter \in Nat
      /\ reference_counter = origin % Modulus /\ reference_counter # 0
  BY Constants DEF Sizes, Types, Running
<1>2. Reference(c) = reference_counter /\ Rollovers(s, c) \in Nat
  BY <1>1 DEF Reference, Rollovers
<1>3. Epoch(s, c) \in Int
  BY <1>1, <1>2 DEF Epoch
<1>4. PacketIndex(s, c) = (c - origin) % Window
  <2> DEFINE e == Epoch(s, c)
  <2>1. e \in Int
    BY <1>3
  <2> HIDE DEF e
  <2>2. c \in Int /\ origin \in Int
    BY <1>1
  <2>3. ((c % Modulus) + e * Modulus - (origin % Modulus)) % Window = (c - origin) % Window
    BY <2>1, <2>2, IndexIsPlace, Zenon
  <2> QED BY <1>1, <1>2, <2>3 DEF PacketIndex, e
<1>5. /\ Opens(a) \in Int /\ Opens(a) >= origin /\ origin # 0
      /\ Opens(a + 1) = Opens(a) + Window
  <2>1. origin # 0
    BY <1>1
  <2>2. Opens(0) = origin /\ Opens(0) \in Int /\ (a < 0 <=> Opens(a) < Opens(0))
    BY <1>1, Opening
  <2>3. Opens(a) \in Int /\ Opens(a + 1) = Opens(a) + Window
    BY <1>1, Opening
  <2>4. ~(Opens(a) < origin)
    BY <2>2
  <2> QED BY <1>1, <2>1, <2>3, <2>4
<1> DEFINE base == Opens(a)
<1>6. base \in Nat \ {0} /\ reference_time = base * Tick /\ Opens(a + 1) = base + Window
  BY <1>1, <1>5
<1> HIDE DEF base
<1>7. reference_time # 0
  BY <1>1, <1>6, SMT
<1>8. BufferStart(c) = reference_time
  BY <1>7 DEF BufferStart
<1>9. BufferEnd(c) = (base + Window) * Tick
  <2>1. (base + Window) * Tick = base * Tick + Window * Tick
    BY <1>1, <1>6
  <2>2. base + Window \in Int
    BY <1>1, <1>6
  <2>3. Round((base + Window) * Tick) = (base + Window) * Tick
    BY <2>2, TimesAreExact
  <2> QED BY <1>6, <1>8, <2>1, <2>3 DEF BufferEnd
<1>10. PacketTime(c) = c * Tick
  BY TimesAreExact
<1>11. /\ c * Tick < base * Tick <=> c < base
       /\ c * Tick < (base + Window) * Tick <=> c < base + Window
       /\ c * Tick \in Int /\ (base + Window) * Tick \in Int
  BY <1>1, <1>6, Scaled
<1>12. IsLate(c) <=> c < base
  BY <1>6, <1>8, <1>10, <1>11 DEF IsLate
<1>13. PacketTime(c) >= BufferEnd(c) <=> c >= base + Window
  <2> DEFINE x == c * Tick
             y == (base + Window) * Tick
  <2>1. x \in Int /\ y \in Int /\ (x < y <=> c < base + Window)
    BY <1>11
  <2> HIDE DEF x, y
  <2>2. x >= y <=> ~(x < y)
    BY <2>1
  <2>3. c >= base + Window <=> ~(c < base + Window)
    BY <1>1, <1>6
  <2> QED BY <1>9, <1>10, <2>1, <2>2, <2>3 DEF x, y
<1>14. IsBoundary(s, c) <=>
         /\ (c - origin) % Window = 0 /\ c >= base + Window
         /\ num_packets > Cardinality(Senders) /\ s = 0
  BY <1>4, <1>13 DEF IsBoundary
<1> QED BY <1>2, <1>4, <1>6, <1>8, <1>9, <1>12, <1>14 DEF base

LEMMA StoredAreFewer ==
  ASSUME IsFiniteSet(containers[current_container])
  PROVE  /\ IsFiniteSet(Stored)
         /\ Cardinality(Stored) <= Cardinality(containers[current_container])
<1> DEFINE held == containers[current_container]
           f == [p \in held |-> <<p[1], p[3]>>]
<1>1. f \in Surjection(held, Stored)
  <2>1. f \in [held -> Stored]
    BY DEF Stored
  <2>2. ASSUME NEW t \in Stored PROVE \E p \in held : f[p] = t
    BY <2>2 DEF Stored
  <2> QED BY <2>1, <2>2 DEF Surjection
<1> HIDE DEF f
<1> QED BY <1>1, FS_Surjection

\* When the next buffer starts, more packets of this one have been stored than there are
\* senders: those that are on time are not to come any more, and few are lost.
LEMMA EnoughStored ==
  ASSUME Orderly, Types, origin \in Nat, NEW b \in Nat, Tallied(b),
         <<0, Opens(b + 1)>> \in transit
  PROVE  num_packets > Cardinality(Senders)
<1>1. CASE current_buffer # 0
  BY <1>1 DEF Tallied
<1>2. CASE current_buffer = 0
  <2>1. /\ Window \in Nat \ {0} /\ MaxLate \in Nat /\ MaxLost \in Nat /\ MaxLate < Window
        /\ IsFiniteSet(Senders) /\ IsFiniteSet(lost) /\ Cardinality(lost) <= MaxLost
        /\ num_packets \in Nat /\ sent \in Nat
    BY Constants DEF Sizes, Orderly, Types
  <2>2. Opens(b) \in Int /\ Opens(b + 1) = Opens(b) + Window /\ Opens(b + 1) <= sent
          /\ Opens(b) >= 0
    <3>1. Opens(0) = origin /\ Opens(0) \in Int /\ Opens(b) \in Int
            /\ Opens(b + 1) = Opens(b) + Window /\ (b < 0 <=> Opens(b) < Opens(0))
      BY Opening
    <3>2. Opens(b + 1) <= sent
      BY DEF Types
    <3> QED BY <3>1, <3>2
  <2> DEFINE first == Opens(b)
             last == Opens(b) + Window - MaxLate - 1
             due == Senders \X (first .. last)
             held == containers[current_container]
  <2>3. due \subseteq lost \cup Stored
    <3> SUFFICES ASSUME NEW s \in Senders, NEW c \in first .. last
                 PROVE  <<s, c>> \in lost \cup Stored
      OBVIOUS
    <3>1. c \in Nat /\ Opens(b) <= c /\ c <= sent /\ c < Opens(b + 1) /\ sent - c > MaxLate
      <4>1. first \in Int /\ first >= 0 /\ first + Window <= sent
        BY <2>2
      <4> HIDE DEF first
      <4>2. c \in Nat /\ first <= c /\ c <= sent /\ c < first + Window /\ sent - c > MaxLate
        BY <2>1, <4>1 DEF first
      <4> QED BY <2>2, <4>2 DEF first
    <3>2. <<s, c>> \notin transit
      <4>1. \A p \in transit : sent - p[2] <= MaxLate
        BY DEF Types
      <4>2. <<s, c>>[2] = c
        OBVIOUS
      <4>3. ~(sent - c <= MaxLate)
        BY <2>1, <3>1
      <4> QED BY <4>1, <4>2, <4>3
    <3>3. <<s, c>> \in transit \cup lost \cup Stored
      BY <1>2, <3>1 DEF Tallied
    <3> QED BY <3>2, <3>3
  <2>4. IsFiniteSet(first .. last) /\ Cardinality(first .. last) = Window - MaxLate
    <3>1. first \in Int /\ last \in Int /\ last - first + 1 = Window - MaxLate /\ ~(first > last)
      BY <2>1, <2>2
    <3> HIDE DEF first, last
    <3> QED BY <3>1, FS_Interval
  <2>5. IsFiniteSet(due) /\ Cardinality(due) = Cardinality(Senders) * (Window - MaxLate)
    BY <2>1, <2>4, FS_Product
  <2>6. /\ IsFiniteSet(held) /\ num_packets >= Cardinality(held)
        /\ IsFiniteSet(Stored) /\ Cardinality(Stored) <= Cardinality(held)
    BY <1>2, StoredAreFewer DEF Tallied
  <2>7. IsFiniteSet(lost \cup Stored)
          /\ Cardinality(lost \cup Stored) <= Cardinality(lost) + Cardinality(Stored)
    <3>1. /\ IsFiniteSet(lost \cup Stored) /\ IsFiniteSet(lost \cap Stored)
          /\ Cardinality(lost \cup Stored)
               = Cardinality(lost) + Cardinality(Stored) - Cardinality(lost \cap Stored)
      BY <2>1, <2>6, FS_Union, FS_Intersection
    <3>2. Cardinality(lost) \in Nat /\ Cardinality(Stored) \in Nat
            /\ Cardinality(lost \cap Stored) \in Nat
      BY <2>1, <2>6, <3>1, FS_CardinalityType
    <3> QED BY <3>1, <3>2
  <2>8. Cardinality(due) <= Cardinality(lost \cup Stored)
    BY <2>3, <2>7, FS_Subset
  <2> HIDE DEF due, held
  <2> DEFINE x == Cardinality(due)
             y == Cardinality(lost \cup Stored)
             l == Cardinality(lost)
             t == Cardinality(Stored)
             h == Cardinality(held)
             n == Cardinality(Senders)
  <2>9. /\ x \in Nat /\ y \in Nat /\ l \in Nat /\ t \in Nat /\ h \in Nat /\ n \in Nat
    BY <2>1, <2>5, <2>6, <2>7, FS_CardinalityType
  <2>10. /\ x > MaxLost + n /\ x <= y /\ y <= l + t /\ l <= MaxLost /\ t <= h
         /\ num_packets >= h
    BY <2>1, <2>5, <2>6, <2>7, <2>8 DEF Orderly
  <2> HIDE DEF x, y, l, t, h, n
  <2>11. num_packets > n
    BY <2>1, <2>9, <2>10
  <2> QED BY <2>11 DEF n
<1> QED BY <1>1, <1>2

\* The packets that arrive: beyond the buffer that was reached it is the one that starts the
\* next, and the consumer takes that for it.
LEMMA Arriving ==
  ASSUME Orderly, Types, Running, origin % Modulus # 0, NEW a \in Nat, At(a),
         NEW s, NEW c, Receive(s, c)
  PROVE  LET b == Reached(a) IN
         /\ s \in Senders /\ c \in Nat /\ c <= sent /\ sent - c <= MaxLate
         /\ c >= Opens(b + 1) => s = 0 /\ c = Opens(b + 1)
         /\ IsBoundary(s, c) <=> c >= Opens(b + 1)
         /\ IsLate(c) <=> c < Opens(b)
         /\ IsLate(c) /\ nof_buffer_skips = 0 => Buffer(c) = a - 1 /\ b = a
         /\ ~IsLate(c) /\ ~IsBoundary(s, c) => Buffer(c) = b
         /\ Buffer(Opens(b + 1)) = b + 1
         /\ b \in Nat /\ b >= a
<1> DEFINE b == Reached(a)
<1>1. /\ s \in Senders /\ c \in Nat /\ c <= sent /\ sent - c <= MaxLate
      /\ <<s, c>> \in transit
  BY DEF Types, Receive
<1>2. /\ origin \in Nat /\ reference_time = Opens(a) * Tick /\ Starts(b) /\ Tallied(b)
      /\ sent \in Nat /\ MaxLate \in Nat /\ Window \in Nat \ {0} /\ MaxLate < Window
  BY Constants DEF Running, At, Types, Sizes, Orderly
<1>3. b \in Nat /\ b >= a /\ (Stride = 1 => b = a)
  <2>1. /\ Reached(a) \in Nat /\ Reached(a) >= a /\ Reached(a) = a * Stride + current_buffer
        /\ Stride = 1 => a * Stride = a /\ current_buffer = 0
    BY Strides
  <2> QED BY <2>1
<1>4. /\ Opens(a) \in Int /\ Opens(a + 1) = Opens(a) + Window
      /\ Opens(a - 1) = Opens(a) - Window
      /\ Opens(b) \in Int /\ Opens(b + 1) = Opens(b) + Window
      /\ Opens(b + 1 + 1) = Opens(b + 1) + Window
      /\ Opens(a) <= Opens(b) /\ Opens(0) = origin /\ Opens(0) <= Opens(a)
  <2> HIDE DEF b
  <2>1. /\ Opens(a) \in Int /\ Opens(a + 1) = Opens(a) + Window
        /\ Opens(a - 1) = Opens(a) - Window
        /\ Opens(b) \in Int /\ Opens(b + 1) = Opens(b) + Window
    BY <1>2, <1>3, Opening
  <2>2. b + 1 \in Int
    BY <1>3
  <2>3. Opens(b + 1 + 1) = Opens(b + 1) + Window
    BY <1>2, <2>2, Opening
  <2>4. (b < a <=> Opens(b) < Opens(a)) /\ Opens(0) = origin /\ Opens(0) \in Int
          /\ (a < 0 <=> Opens(a) < Opens(0))
    BY <1>2, <1>3, Opening
  <2> QED BY <1>3, <2>1, <2>3, <2>4
<1>5. /\ IsLate(c) <=> c < Opens(a)
      /\ IsBoundary(s, c) <=>
           /\ (c - origin) % Window = 0 /\ c >= Opens(a + 1)
           /\ num_packets > Cardinality(Senders) /\ s = 0
  BY <1>1, <1>2, Seen
<1> HIDE DEF b
<1>6. ASSUME c >= Opens(b + 1)
      PROVE  s = 0 /\ c = Opens(b + 1)
  <2>1. Opens(b + 1) <= sent /\ Opens(b + 1) \in Int
    BY <1>1, <1>2, <1>4, <1>6
  <2>2. <<0, Opens(b + 1)>> \in transit
    BY <1>2, <2>1 DEF Starts
  <2>3. IsStart(0, Opens(b + 1))
    <3>1. Opens(b + 1) > origin
      BY <1>2, <1>4
    <3>2. (Opens(b + 1) - origin) % Window = 0
      <4>1. b + 1 \in Int /\ Opens(b + 1) < Opens(b + 1 + 1)
        BY <1>2, <1>3, <1>4, <2>1
      <4>2. origin \in Int /\ Opens(b + 1) <= Opens(b + 1)
        BY <1>2, <2>1
      <4> QED BY <2>1, <4>1, <4>2, WithinBuffer
    <3>3. origin # -1
      BY <1>2
    <3> QED BY <3>1, <3>2, <3>3 DEF IsStart
  <2>4. ~\E p \in transit \ {<<s, c>>} : IsStart(p[1], p[2]) /\ p[2] <= c
    BY DEF Receive, Orderly
  <2>5. <<0, Opens(b + 1)>> = <<s, c>>
    <3> DEFINE p == <<0, Opens(b + 1)>>
    <3>1. p[1] = 0 /\ p[2] = Opens(b + 1) /\ p \in transit
      BY <2>2
    <3> HIDE DEF p
    <3>2. p[2] <= c /\ IsStart(p[1], p[2])
      BY <1>1, <1>6, <2>1, <2>3, <3>1
    <3>3. p = <<s, c>>
      BY <2>4, <3>1, <3>2
    <3> QED BY <3>3 DEF p
  <2> QED BY <2>5
<1>7. ~(c >= Opens(b + 1)) => ~IsBoundary(s, c)
  <2> SUFFICES ASSUME c < Opens(b + 1), IsBoundary(s, c) PROVE FALSE
    BY <1>1, <1>2, <1>4
  <2>1. (c - origin) % Window = 0 /\ c >= Opens(a + 1) /\ s = 0
    BY <1>5
  <2>2. a # b
    BY <1>1, <1>2, <1>4, <2>1
  <2>3. sent = First \/ sent = c
    <3>1. Stride # 1
      BY <1>3, <2>2
    <3>2. nof_buffer_skips > 1
      BY <3>1 DEF Stride, Types
    <3>3. Lateness = 0
      BY <3>2 DEF Lateness, Orderly
    <3>4. sent = First \/ sent - c <= 0
      BY <1>1, <3>3 DEF Types
    <3> QED BY <1>1, <1>2, <3>4
  <2>4. c >= Opens(b)
    <3>1. origin + MaxLate >= First /\ First \in Nat
      BY Constants DEF Sizes, Running
    <3>2. Opens(b) <= sent
      BY <1>2 DEF Starts
    <3>3. Opens(b) >= Opens(a) + Window
      <4>1. a + 1 <= b
        BY <1>3, <2>2
      <4>2. b \in Int /\ a + 1 \in Int /\ origin \in Int
        BY <1>2, <1>3
      <4>3. b < a + 1 <=> Opens(b) < Opens(a + 1)
        BY <4>2, Opening, Zenon
      <4> QED BY <1>2, <1>3, <1>4, <4>1, <4>3
    <3>4. sent # First
      BY <1>2, <1>4, <3>1, <3>2, <3>3
    <3> QED BY <2>3, <3>2, <3>4
  <2>5. c = Opens(b)
    BY <1>1, <1>2, <1>3, <2>1, <2>4, WithinBuffer
  <2>6. b > 0
    BY <1>3, <2>2
  <2> QED BY <1>1, <1>2, <2>1, <2>5, <2>6 DEF Starts
<1>8. c >= Opens(b + 1) => IsBoundary(s, c)
  <2> SUFFICES ASSUME c >= Opens(b + 1) PROVE IsBoundary(s, c)
    OBVIOUS
  <2>1. s = 0 /\ c = Opens(b + 1)
    BY <1>6
  <2>2. num_packets > Cardinality(Senders)
    BY <1>1, <1>2, <1>3, <2>1, EnoughStored
  <2>3. c >= Opens(a + 1)
    BY <1>4, <1>2, <2>1
  <2>4. (c - origin) % Window = 0
    <3>1. b + 1 \in Int /\ c < Opens(b + 1 + 1) /\ Opens(b + 1) <= c /\ origin \in Int
      BY <1>1, <1>2, <1>3, <1>4, <2>1
    <3> QED BY <1>1, <2>1, <3>1, WithinBuffer
  <2> QED BY <1>5, <2>1, <2>2, <2>3, <2>4
<1>9. IsLate(c) <=> c < Opens(b)
  <2>1. CASE Stride = 1
    BY <1>3, <1>5, <2>1
  <2>2. CASE Stride # 1
    <3>1. nof_buffer_skips > 1
      BY <2>2 DEF Stride, Types
    <3>2. Lateness = 0
      BY <3>1 DEF Lateness, Orderly
    <3>3. sent = First \/ sent - c <= 0
      BY <1>1, <3>2 DEF Types
    <3>4. Opens(b) <= sent
      BY <1>2 DEF Starts
    <3>5. CASE sent = First
      <4>1. origin + MaxLate >= First /\ First \in Nat
        BY Constants DEF Sizes, Running
      <4>2. Opens(b) < Opens(1)
        <5>1. Opens(0 + 1) = Opens(0) + Window
          BY <1>2, Opening
        <5>2. Opens(1) = origin + Window
          BY <1>4, <5>1
        <5> QED BY <1>2, <1>4, <3>4, <3>5, <4>1, <5>2
      <4>3. b < 1
        BY <1>2, <1>3, <4>2, Opening
      <4>4. b = a
        BY <1>3, <4>3
      <4> QED BY <1>5, <4>4
    <3>6. CASE sent # First
      <4>1. c >= Opens(b)
        BY <1>1, <1>2, <1>4, <3>3, <3>4, <3>6
      <4> QED BY <1>1, <1>4, <1>5, <4>1
    <3> QED BY <3>5, <3>6
  <2> QED BY <2>1, <2>2
<1>10. ASSUME IsLate(c), nof_buffer_skips = 0
       PROVE  Buffer(c) = a - 1 /\ b = a
  <2>1. b = a
    BY <1>3, <1>10 DEF Stride
  <2>2. Opens(a) <= sent
    BY <1>2, <2>1 DEF Starts
  <2>3. Opens(a - 1) <= c /\ c < Opens(a)
    BY <1>1, <1>2, <1>4, <1>5, <1>10, <2>2
  <2>4. a - 1 \in Int /\ a - 1 + 1 = a /\ origin \in Int /\ c \in Int
    BY <1>1, <1>2
  <2>5. c < Opens(a - 1 + 1)
    BY <2>3, <2>4
  <2>6. Buffer(c) = a - 1
    BY <2>3, <2>4, <2>5, WithinBuffer
  <2> QED BY <2>1, <2>6
<1>11. ASSUME ~IsLate(c), ~IsBoundary(s, c)
       PROVE  Buffer(c) = b
  <2>1. Opens(b) <= c /\ c < Opens(b + 1)
    BY <1>1, <1>2, <1>4, <1>8, <1>9, <1>11
  <2>2. origin \in Int /\ c \in Int /\ b \in Int
    BY <1>1, <1>2, <1>3
  <2> QED BY <2>1, <2>2, WithinBuffer
<1>12. Buffer(Opens(b + 1)) = b + 1
  <2>1. b + 1 \in Int /\ Opens(b + 1) < Opens(b + 1 + 1) /\ Opens(b + 1) <= Opens(b + 1)
          /\ origin \in Int /\ Opens(b + 1) \in Int
    BY <1>2, <1>3, <1>4
  <2> QED BY <2>1, WithinBuffer
<1>13. IsBoundary(s, c) <=> c >= Opens(b + 1)
  BY <1>7, <1>8
<1> QED BY <1>1, <1>3, <1>6, <1>9, <1>10, <1>11, <1>12, <1>13 DEF b

LEMMA Neighbours ==
  ASSUME Orderly, Types
  PROVE  /\ NextContainer \in Containers /\ Previous \in Containers
         /\ NextContainer # current_container /\ Previous # current_container
         /\ \A i \in Containers : Age(i) \in 0 .. NofContainers - 1
         /\ \A i \in Containers : Age(i) = 0 <=> i = current_container
         /\ Age(NextContainer) = NofContainers - 1 /\ Age(Previous) = 1
         /\ current_container' = NextContainer =>
              \A i \in Containers : Age(i)' = IF i = NextContainer THEN 0 ELSE Age(i) + 1
<1> DEFINE n == NofContainers
           cur == current_container
<1>1. n \in Nat /\ n > 1 /\ cur \in 0 .. n - 1
  BY Constants DEF Sizes, Orderly, Types, Containers
<1>2. NextContainer = IF cur = n - 1 THEN 0 ELSE cur + 1
  <2> HIDE DEF cur, n
  <2>1. CASE cur = n - 1
    <3>1. cur + 1 = n * 1 + 0 /\ 0 \in 0 .. n - 1 /\ n \in Nat \ {0} /\ cur + 1 \in Int
      BY <1>1, <2>1
    <3>2. (cur + 1) % n = 0
      BY <3>1, Division
    <3> QED BY <2>1, <3>2 DEF NextContainer, cur, n
  <2>2. CASE cur # n - 1
    <3>1. cur + 1 = n * 0 + (cur + 1) /\ cur + 1 \in 0 .. n - 1 /\ n \in Nat \ {0}
            /\ cur + 1 \in Int
      BY <1>1, <2>2
    <3>2. (cur + 1) % n = cur + 1
      BY <3>1, Division
    <3> QED BY <2>2, <3>2 DEF NextContainer, cur, n
  <2> QED BY <2>1, <2>2
<1>3. Previous = IF cur = 0 THEN n - 1 ELSE cur - 1
  <2> HIDE DEF cur, n
  <2>1. CASE cur = 0
    <3>1. cur - 1 = n * (-1) + (n - 1) /\ n - 1 \in 0 .. n - 1 /\ n \in Nat \ {0}
            /\ cur - 1 \in Int
      BY <1>1, <2>1
    <3>2. (cur - 1) % n = n - 1
      BY <3>1, Division
    <3> QED BY <2>1, <3>2 DEF Previous, cur, n
  <2>2. CASE cur # 0
    <3>1. cur - 1 = n * 0 + (cur - 1) /\ cur - 1 \in 0 .. n - 1 /\ n \in Nat \ {0}
            /\ cur - 1 \in Int
      BY <1>1, <2>2
    <3>2. (cur - 1) % n = cur - 1
      BY <3>1, Division
    <3> QED BY <2>2, <3>2 DEF Previous, cur, n
  <2> QED BY <2>1, <2>2
<1>4. \A i : Age(i) = IF i <= cur THEN cur - i ELSE cur - i + n
  BY DEF Age
<1>5. current_container' = NextContainer =>
        \A i : Age(i)' = IF i <= NextContainer THEN NextContainer - i ELSE NextContainer - i + n
  BY DEF Age
<1> HIDE DEF cur, n
<1>6. /\ NextContainer \in 0 .. n - 1 /\ Previous \in 0 .. n - 1
      /\ NextContainer # cur /\ Previous # cur
  BY <1>1, <1>2, <1>3
<1>7. \A i \in 0 .. n - 1 : Age(i) \in 0 .. n - 1 /\ (Age(i) = 0 <=> i = cur)
  BY <1>1, <1>4
<1>8. Age(NextContainer) = n - 1
  BY <1>1, <1>2, <1>4
<1>9. Age(Previous) = 1
  BY <1>1, <1>3, <1>4
<1>10. ASSUME current_container' = NextContainer, NEW i \in 0 .. n - 1
       PROVE  Age(i)' = IF i = NextContainer THEN 0 ELSE Age(i) + 1
  <2> DEFINE new == Age(i)'
             old == Age(i)
             next == NextContainer
  <2>1. /\ new = IF i <= next THEN next - i ELSE next - i + n
        /\ old = IF i <= cur THEN cur - i ELSE cur - i + n
        /\ next = IF cur = n - 1 THEN 0 ELSE cur + 1
    BY <1>2, <1>4, <1>5, <1>10
  <2> HIDE DEF new, old, next
  <2>2. new = IF i = next THEN 0 ELSE old + 1
    BY <1>1, <2>1
  <2> QED BY <2>2 DEF new, old, next
<1> QED BY <1>6, <1>7, <1>8, <1>9, <1>10 DEF cur, n, Containers

\* The place of a packet, as it is stored.
Placed(s, c) == <<s, (c - origin) % Window, c>>

\* What the consumer does with a packet, when it has moved on a times.
StoresLate(a, s, c) ==
  /\ nof_buffer_skips = 0 /\ c < Opens(Reached(a)) /\ Buffer(c) = a - 1
  /\ containers' = [containers EXCEPT ![Previous] = @ \cup {Placed(s, c)}]
  /\ UNCHANGED <<position, persisted>>

Drops(a, c) ==
  /\ c < Opens(Reached(a)) \/ (current_buffer # 0 /\ c < Opens(Reached(a) + 1))
  /\ UNCHANGED <<containers, position, persisted>>

Stores(a, s, c) ==
  /\ Opens(Reached(a)) <= c /\ c < Opens(Reached(a) + 1) /\ Buffer(c) = Reached(a)
  /\ current_buffer = 0
  /\ containers' = [containers EXCEPT ![current_container] = @ \cup {Placed(s, c)}]
  /\ num_packets' = num_packets + 1
  /\ UNCHANGED <<current_container, current_buffer, reference_time, persisted>>

Skips(a, s, c) ==
  /\ s = 0 /\ c = Opens(Reached(a) + 1) /\ num_packets > Cardinality(Senders)
  /\ NextBuffer # 0
  /\ current_buffer' = NextBuffer
  /\ UNCHANGED <<containers, current_container, reference_time, num_packets, persisted>>

MovesOn(a, s, c) ==
  /\ s = 0 /\ c = Opens(Reached(a) + 1) /\ Buffer(c) = Reached(a) + 1
  /\ NextBuffer = 0
  /\ persisted' = IF containers[Oldest] = {} THEN persisted ELSE containers[Oldest]
  /\ containers' = [Clear(Oldest) EXCEPT ![NextContainer] = @ \cup {Placed(s, c)}]
  /\ current_container' = NextContainer
  /\ current_buffer' = 0
  /\ reference_time' = Opens(a + 1) * Tick
  /\ num_packets' = 1

LEMMA Processes ==
  ASSUME Orderly, Types, Running, origin % Modulus # 0, NEW a \in Nat, At(a),
         NEW s, NEW c, Receive(s, c)
  PROVE  /\ UNCHANGED <<configuration, origin, reference_counter, sent, lost>>
         /\ transit' = transit \ {<<s, c>>} /\ s \in Senders /\ c \in Nat /\ rollover_counter' \in Nat
         /\ StoresLate(a, s, c) \/ Drops(a, c) \/ Stores(a, s, c) \/ Skips(a, s, c) \/ MovesOn(a, s, c)
<1> DEFINE b == Reached(a)
<1>1. /\ s \in Senders /\ c \in Nat /\ c <= sent /\ sent - c <= MaxLate
      /\ c >= Opens(b + 1) => s = 0 /\ c = Opens(b + 1)
      /\ IsBoundary(s, c) <=> c >= Opens(b + 1)
      /\ IsLate(c) <=> c < Opens(b)
      /\ IsLate(c) /\ nof_buffer_skips = 0 => Buffer(c) = a - 1 /\ b = a
      /\ ~IsLate(c) /\ ~IsBoundary(s, c) => Buffer(c) = b
      /\ Buffer(Opens(b + 1)) = b + 1
      /\ b \in Nat /\ b >= a
  BY Arriving
<1>2. /\ reference_time = Opens(a) * Tick /\ origin \in Nat /\ Window \in Nat \ {0}
      /\ Tick \in Nat \ {0} /\ rollover_counter \in Nat
  BY Constants DEF At, Running, Sizes, Types
<1>3. /\ Reference(c) = reference_counter
      /\ Rollovers(s, c) \in Nat
      /\ PacketIndex(s, c) = (c - origin) % Window
      /\ BufferStart(c) = reference_time
      /\ BufferEnd(c) = Opens(a + 1) * Tick
      /\ IsBoundary(s, c) => num_packets > Cardinality(Senders)
  BY <1>1, <1>2, Seen
<1>4. /\ UNCHANGED <<configuration, sent, lost>> /\ transit' = transit \ {<<s, c>>}
      /\ ProcessPacket(s, c)
  BY DEF Receive
<1>5. CASE PacketTime(c) < start_time
  <2>1. UNCHANGED <<containers, position, counters, persisted, origin>>
    BY <1>4, <1>5 DEF ProcessPacket
  <2>2. c < Opens(b)
    <3>1. PacketTime(origin) = origin * Tick /\ PacketTime(c) = c * Tick
      BY <1>1, <1>2, TimesAreExact
    <3>2. c * Tick \in Int /\ origin * Tick \in Int /\ (c * Tick < origin * Tick <=> c < origin)
      BY <1>1, <1>2, Scaled
    <3>3. start_time \in Nat /\ PacketTime(origin) >= start_time
      BY DEF Types, Running
    <3> DEFINE x == c * Tick
               y == origin * Tick
    <3>4. x \in Int /\ y \in Int /\ (x < y <=> c < origin) /\ x < start_time /\ y >= start_time
      BY <1>5, <3>1, <3>2, <3>3
    <3> HIDE DEF x, y
    <3>5. c < origin
      BY <3>3, <3>4
    <3> HIDE DEF b
    <3>6. Opens(0) = origin /\ Opens(0) \in Int /\ Opens(b) \in Int
      BY <1>1, <1>2, Opening
    <3>7. b < 0 <=> Opens(b) < Opens(0)
      BY <1>1, <1>2, Opening
    <3> QED BY <1>1, <1>2, <3>5, <3>6, <3>7
  <2> QED BY <1>1, <1>2, <1>4, <2>1, <2>2 DEF Drops, counters
<1>6. CASE ~(PacketTime(c) < start_time)
  <2>1. /\ reference_counter' = Reference(c) /\ rollover_counter' = Rollovers(s, c)
        /\ origin' = IF origin = -1 THEN c ELSE origin
        /\ \/ StoreLate(s, c)
           \/ StoreCurrent(s, c)
           \/ SkipPacket(s, c)
           \/ SkipBuffer(s, c)
           \/ MoveOn(s, c)
    BY <1>4, <1>6 DEF ProcessPacket
  <2>2. origin' = origin
    BY <1>2, <2>1
  <2>3. Opens(b + 1) \in Int /\ Opens(b) \in Int
    <3> HIDE DEF b
    <3>1. b \in Int /\ b + 1 \in Int /\ origin \in Int
      BY <1>1, <1>2
    <3> QED BY <3>1, Opening
  <2>4. CASE StoreLate(s, c)
    <3>1. c < Opens(b) /\ UNCHANGED <<position, persisted>>
      BY <1>1, <2>4 DEF StoreLate
    <3>2. ASSUME nof_buffer_skips = 0
          PROVE  StoresLate(a, s, c)
      <4>1. containers' = [containers EXCEPT ![Previous] = @ \cup {Placed(s, c)}]
        BY <1>3, <2>4, <3>2 DEF StoreLate, AddData, Placed
      <4>2. Buffer(c) = a - 1
        BY <1>1, <2>4, <3>2 DEF StoreLate
      <4> QED BY <3>1, <3>2, <4>1, <4>2 DEF StoresLate
    <3>3. ASSUME nof_buffer_skips # 0
          PROVE  Drops(a, c)
      BY <2>4, <3>1, <3>3 DEF StoreLate, Drops
    <3>4. StoresLate(a, s, c) \/ Drops(a, c)
      BY <3>2, <3>3
    <3> QED BY <1>1, <1>3, <1>4, <2>1, <2>2, <3>4
  <2>5. CASE StoreCurrent(s, c)
    <3>1. ~IsLate(c) /\ ~IsBoundary(s, c) /\ Buffer(c) = b
      BY <1>1, <2>5 DEF StoreCurrent
    <3>2. Opens(b) <= c /\ c < Opens(b + 1)
      BY <1>1, <2>3, <3>1
    <3>3. containers' = [containers EXCEPT ![current_container] = @ \cup {Placed(s, c)}]
      BY <1>3, <2>5 DEF StoreCurrent, AddData, Placed
    <3>4. Stores(a, s, c)
      BY <1>3, <2>5, <3>1, <3>2, <3>3 DEF StoreCurrent, Stores
    <3> QED BY <1>1, <1>3, <1>4, <2>1, <2>2, <3>4
  <2>6. CASE SkipPacket(s, c)
    <3>1. c < Opens(b + 1)
      BY <1>1, <2>3, <2>6 DEF SkipPacket
    <3>2. Drops(a, c)
      BY <2>6, <3>1 DEF SkipPacket, Drops
    <3> QED BY <1>1, <1>3, <1>4, <2>1, <2>2, <3>2
  <2>7. CASE SkipBuffer(s, c)
    <3>1. s = 0 /\ c = Opens(b + 1)
      BY <1>1, <2>7 DEF SkipBuffer
    <3>2. Skips(a, s, c)
      BY <1>3, <2>7, <3>1 DEF SkipBuffer, Skips
    <3> QED BY <1>1, <1>3, <1>4, <2>1, <2>2, <3>2
  <2>8. CASE MoveOn(s, c)
    <3>1. s = 0 /\ c = Opens(b + 1)
      BY <1>1, <2>8 DEF MoveOn
    <3>2. containers' = [Clear(Oldest) EXCEPT ![NextContainer] = @ \cup {Placed(s, c)}]
      BY <1>3, <2>8 DEF MoveOn, AddData, Placed
    <3>3. Buffer(c) = b + 1
      BY <1>1, <3>1
    <3>4. MovesOn(a, s, c)
      BY <1>3, <2>8, <3>1, <3>2, <3>3 DEF MoveOn, MovesOn
    <3> QED BY <1>1, <1>3, <1>4, <2>1, <2>2, <3>4
  <2> QED BY <2>1, <2>4, <2>5, <2>6, <2>7, <2>8
<1> QED BY <1>5, <1>6
-----------------------------------------------------------------------------
(* Each step keeps the invariant                                            *)

\* What is true of a packet that arrives, whatever is done with it.
LEMMA AtFacts ==
  ASSUME Orderly, Types, origin \in Nat, NEW a \in Nat, At(a)
  PROVE  /\ Reached(a) \in Nat
         /\ Opens(Reached(a)) \in Int /\ Window \in Nat \ {0} /\ sent \in Nat
         /\ Opens(Reached(a) + 1) = Opens(Reached(a)) + Window
         /\ Opens(Reached(a) + 1 + 1) = Opens(Reached(a) + 1) + Window
         /\ reference_time = Opens(a) * Tick
         /\ Starts(Reached(a)) /\ Filed(a) /\ Persisted(a) /\ Tallied(Reached(a))
         /\ Stride \in Nat \ {0} /\ (nof_buffer_skips = 0 => Reached(a) = a)
         /\ Reached(a) = a * Stride + current_buffer /\ a * Stride \in Nat
         /\ (a + 1) * Stride = a * Stride + Stride
<1> DEFINE b == Reached(a)
<1>1. /\ b \in Nat /\ b = a * Stride + current_buffer /\ Stride \in Nat \ {0}
      /\ a * Stride \in Nat /\ (a + 1) * Stride = a * Stride + Stride
      /\ Stride = 1 => a * Stride = a /\ current_buffer = 0
  BY Strides
<1>2. nof_buffer_skips = 0 => b = a
  BY <1>1 DEF Stride
<1> HIDE DEF b
<1>3. b \in Int /\ b + 1 \in Int /\ origin \in Int
  BY <1>1
<1>4. Opens(b) \in Int /\ Opens(b + 1) = Opens(b) + Window
  BY <1>3, Opening, Zenon
<1>5. Opens(b + 1 + 1) = Opens(b + 1) + Window
  BY <1>3, Opening, Zenon
<1>6. Window \in Nat \ {0} /\ sent \in Nat
  BY Constants DEF Sizes, Types
<1>7. Starts(b) /\ Filed(a) /\ Persisted(a) /\ Tallied(b) /\ reference_time = Opens(a) * Tick
  BY DEF At, b
<1> QED BY <1>1, <1>2, <1>4, <1>5, <1>6, <1>7 DEF b

\* Once the consumer has begun, buffers keep their counters.
LEMMA SameBuffers ==
  ASSUME origin' = origin, configuration' = configuration
  PROVE  /\ \A b : Opens(b)' = Opens(b)
         /\ \A c : Buffer(c)' = Buffer(c)
         /\ Stride' = Stride
         /\ \A a : current_buffer' = current_buffer => Reached(a)' = Reached(a)
         /\ \A a, b : persisted' = persisted => (Persisted(a) <=> Persisted(a)')
BY DEF Opens, Buffer, Stride, Reached, configuration, Persisted

\* The invariant after a step, said of the buffer that is reached then.
LEMMA AtAfter ==
  ASSUME NEW a, NEW b, Reached(a)' = b, reference_time' = Opens(a)' * Tick,
         Starts(b)', Filed(a)', Persisted(a)', Tallied(b)'
  PROVE  At(a)'
BY DEF At, Starts, Tallied, Opens

\* Where the stream and the consumer stand.
Standing(a, b) ==
  /\ b = Reached(a) /\ Opens(b) \in Int /\ Window \in Nat \ {0} /\ sent \in Nat
  /\ Opens(b + 1) \in Int /\ Opens(b + 1) = Opens(b) + Window
  /\ Opens(b + 1 + 1) = Opens(b + 1) + Window
  /\ reference_time = Opens(a) * Tick
  /\ Starts(b) /\ Filed(a) /\ Persisted(a) /\ Tallied(b)
  /\ Stride \in Nat \ {0} /\ (nof_buffer_skips = 0 => b = a)
  /\ b = a * Stride + current_buffer /\ a * Stride \in Nat
  /\ (a + 1) * Stride = a * Stride + Stride

LEMMA BufferReached ==
  ASSUME Orderly, Types, origin \in Nat, NEW a \in Nat, At(a)
  PROVE  \E b \in Nat : Standing(a, b)
<1>1. PICK b \in Nat : b = Reached(a)
  BY AtFacts
<1>2. /\ Opens(b) \in Int /\ Window \in Nat \ {0} /\ sent \in Nat
      /\ Opens(b + 1) = Opens(b) + Window
      /\ Opens(b + 1 + 1) = Opens(b + 1) + Window
      /\ reference_time = Opens(a) * Tick
      /\ Starts(b) /\ Filed(a) /\ Persisted(a) /\ Tallied(b)
      /\ Stride \in Nat \ {0} /\ (nof_buffer_skips = 0 => b = a)
      /\ b = a * Stride + current_buffer /\ a * Stride \in Nat
      /\ (a + 1) * Stride = a * Stride + Stride
  BY <1>1, AtFacts
<1>3. Opens(b + 1) \in Int
  BY <1>2
<1> QED BY <1>1, <1>2, <1>3 DEF Standing

\* A packet before the buffer that was reached is not one that is waited for.
LEMMA StartsWithout ==
  ASSUME origin' = origin, sent' = sent, lost' = lost, NEW b \in Nat, NEW s, NEW c \in Nat,
         transit' = transit \ {<<s, c>>}, Starts(b), c < Opens(b + 1), Opens(b + 1) \in Int
  PROVE  Starts(b)'
<1>1. \A d : Opens(d)' = Opens(d)
  BY DEF Opens
<1>2. c # Opens(b + 1)
  BY SMT
<1>3. <<0, Opens(b + 1)>> # <<s, c>>
  BY <1>2
<1>4. ASSUME NEW t \in Senders, NEW d \in Nat, Opens(b + 1) <= d, d <= sent
      PROVE  <<t, d>> \in transit' \cup lost'
  <2>1. <<t, d>> \in transit \cup lost
    BY <1>4 DEF Starts
  <2>2. d # c
    BY <1>4
  <2> QED BY <2>1, <2>2
<1> QED BY <1>1, <1>3, <1>4 DEF Starts

LEMMA DropKeeps ==
  ASSUME Orderly, Types, origin \in Nat, NEW a \in Nat, At(a), NEW s, NEW c \in Nat,
         UNCHANGED <<configuration, origin, sent, lost>>, transit' = transit \ {<<s, c>>},
         Drops(a, c)
  PROVE  At(a)'
<1>0. PICK b \in Nat : Standing(a, b)
  BY BufferReached
<1>u. origin' = origin /\ sent' = sent /\ lost' = lost
  OBVIOUS
<1>1. UNCHANGED <<containers, position, persisted>>
  BY DEF Drops
<1>2. /\ Opens(b)' = Opens(b) /\ Reached(a)' = b
      /\ \A d : Opens(d)' = Opens(d)
      /\ \A d : Buffer(d)' = Buffer(d)
      /\ Persisted(a)'
  BY <1>0, <1>1, SameBuffers DEF position, Standing
<1>3. Filed(a)'
  <2>1. Stride' = Stride /\ Filed(a)
    BY SameBuffers, <1>0 DEF Standing
  <2>2. \A i : Age(i)' = Age(i)
    BY <1>1 DEF Age, position
  <2> QED BY <1>1, <1>2, <2>1, <2>2 DEF Filed, position, configuration
<1>4. c < Opens(b + 1)
  BY <1>0 DEF Drops, Standing
<1>5. Starts(b)'
  BY <1>0, <1>u, <1>4, StartsWithout, Zenon DEF Standing
<1>6. Tallied(b)'
  <2>1. CASE current_buffer # 0
    BY <1>1, <2>1, <1>0 DEF Tallied, position, Standing
  <2>2. CASE current_buffer = 0
    <3>1. c < Opens(b) /\ Opens(b) \in Int
      BY <2>2, <1>0 DEF Drops, Standing
    <3>2. \A t, d : d \in Nat /\ Opens(b) <= d => <<t, d>> # <<s, c>>
      BY <3>1
    <3>3. Stored' = Stored
      BY <1>1 DEF Stored, position
    <3>4. Tallied(b)
      BY <1>0 DEF Standing
    <3> QED BY <1>1, <1>2, <2>2, <3>2, <3>3, <3>4 DEF Tallied, position
  <2> QED BY <2>1, <2>2
<1>7. reference_time' = Opens(a)' * Tick
  BY <1>1, <1>2, <1>0 DEF position, Standing
<1> QED BY <1>2, <1>3, <1>5, <1>6, <1>7, AtAfter, Zenon

LEMMA LateKeeps ==
  ASSUME Orderly, Types, origin \in Nat, NEW a \in Nat, At(a), NEW s, NEW c \in Nat,
         UNCHANGED <<configuration, origin, sent, lost>>, transit' = transit \ {<<s, c>>},
         StoresLate(a, s, c)
  PROVE  At(a)'
<1>0. PICK b \in Nat : Standing(a, b)
  BY BufferReached
<1>u. origin' = origin /\ sent' = sent /\ lost' = lost
  OBVIOUS
<1>1. /\ nof_buffer_skips = 0 /\ c < Opens(b) /\ Buffer(c) = a - 1
      /\ containers' = [containers EXCEPT ![Previous] = @ \cup {Placed(s, c)}]
      /\ UNCHANGED <<position, persisted>>
  BY <1>0 DEF StoresLate, Standing
<1>2. /\ Opens(b)' = Opens(b) /\ Reached(a)' = b
      /\ \A d : Opens(d)' = Opens(d)
      /\ \A d : Buffer(d)' = Buffer(d)
      /\ Persisted(a)'
  BY <1>0, <1>1, SameBuffers DEF position, Standing
<1>3. /\ Previous \in Containers /\ Previous # current_container /\ Age(Previous) = 1
      /\ DOMAIN containers = Containers
  BY Neighbours DEF Types
<1>4. /\ containers'[current_container] = containers[current_container]
      /\ containers'[Previous] = containers[Previous] \cup {Placed(s, c)}
      /\ \A i \in Containers \ {Previous} : containers'[i] = containers[i]
  BY <1>1, <1>3 DEF Types
<1>5. Filed(a)'
  <2>1. Filed(a)
    BY <1>0 DEF Standing
  <2>2. \A i : Age(i)' = Age(i)
    BY <1>1 DEF Age, position
  <2>3. Buffer(Placed(s, c)[3]) = a - Age(Previous)
    BY <1>1, <1>3 DEF Placed
  <2>4. ~(Age(Previous) > a + 1)
    BY <1>3
  <2>5. ASSUME NEW i \in Containers
        PROVE  /\ \A p \in containers'[i] : Buffer(p[3]) = a - Age(i)
               /\ Age(i) <= a => containers'[i] # {}
               /\ Age(i) > a + 1 => containers'[i] = {}
    <3>1. /\ \A p \in containers[i] : Buffer(p[3]) = a - Age(i)
          /\ Age(i) <= a => containers[i] # {}
          /\ Age(i) > a + 1 => containers[i] = {}
      BY <1>1, <2>1, <2>5 DEF Filed
    <3>2. CASE i = Previous
      BY <1>4, <2>3, <2>4, <3>1, <3>2
    <3>3. CASE i # Previous
      BY <1>4, <3>1, <3>3
    <3> QED BY <3>2, <3>3
  <2>6. containers'[current_container] # {}
    BY <1>4, <2>1 DEF Filed
  <2> QED BY <1>1, <1>2, <2>2, <2>5, <2>6 DEF Filed, position, configuration
<1>6. Starts(b)'
  <2>1. c < Opens(b + 1)
    BY <1>1, <1>0 DEF Standing
  <2> QED BY <1>0, <1>u, <2>1, StartsWithout, Zenon DEF Standing
<1>7. Tallied(b)'
  <2>1. current_buffer' = current_buffer /\ num_packets' = num_packets
          /\ current_container' = current_container
    BY <1>1 DEF position
  <2>2. \A t, d : d \in Nat /\ Opens(b) <= d => <<t, d>> # <<s, c>>
    <3>1. Opens(b) \in Int
      BY <1>0 DEF Standing
    <3> QED BY <1>1, <3>1
  <2>3. Stored' = Stored
    BY <1>4, <2>1 DEF Stored
  <2>4. Tallied(b)
    BY <1>0 DEF Standing
  <2> QED BY <1>2, <1>4, <2>1, <2>2, <2>3, <2>4 DEF Tallied
<1>8. reference_time' = Opens(a)' * Tick
  BY <1>1, <1>2, <1>0 DEF position, Standing
<1> QED BY <1>2, <1>5, <1>6, <1>7, <1>8, AtAfter, Zenon

LEMMA StoreKeeps ==
  ASSUME Orderly, Types, origin \in Nat, NEW a \in Nat, At(a), NEW s, NEW c \in Nat,
         UNCHANGED <<configuration, origin, sent, lost>>, transit' = transit \ {<<s, c>>},
         Stores(a, s, c)
  PROVE  At(a)'
<1>0. PICK b \in Nat : Standing(a, b)
  BY BufferReached
<1>u. origin' = origin /\ sent' = sent /\ lost' = lost
  OBVIOUS
<1> DEFINE held == containers[current_container]
<1>1. /\ Opens(b) <= c /\ c < Opens(b + 1) /\ Buffer(c) = b
      /\ current_buffer = 0
      /\ containers' = [containers EXCEPT ![current_container] = @ \cup {Placed(s, c)}]
      /\ num_packets' = num_packets + 1
      /\ UNCHANGED <<current_container, current_buffer, reference_time, persisted>>
  BY <1>0 DEF Stores, Standing
<1>2. /\ Opens(b)' = Opens(b) /\ Reached(a)' = b
      /\ \A d : Opens(d)' = Opens(d)
      /\ \A d : Buffer(d)' = Buffer(d)
      /\ Persisted(a)'
  BY <1>0, <1>1, SameBuffers DEF Standing
<1>3. /\ current_container \in Containers /\ Age(current_container) = 0
      /\ DOMAIN containers = Containers /\ num_packets \in Nat
  BY Neighbours DEF Types
<1>4. /\ containers'[current_container] = held \cup {Placed(s, c)}
      /\ \A i \in Containers \ {current_container} : containers'[i] = containers[i]
  BY <1>1, <1>3 DEF Types
<1>5. /\ b = a * Stride + 0 /\ a * Stride \in Nat
      /\ nof_buffer_skips = 0 => b = a
  BY <1>1, <1>0 DEF Standing
<1>6. Buffer(Placed(s, c)[3]) = b
  BY <1>1 DEF Placed
<1> HIDE DEF held
<1>7. Filed(a)'
  <2>1. Filed(a)
    BY <1>0 DEF Standing
  <2>2. \A i : Age(i)' = Age(i)
    BY <1>1 DEF Age
  <2>3. Stride' = Stride
    BY SameBuffers
  <2>4. containers'[current_container] # {}
    BY <1>4
  <2>5. ASSUME nof_buffer_skips = 0, NEW i \in Containers
        PROVE  /\ \A p \in containers'[i] : Buffer(p[3]) = a - Age(i)
               /\ Age(i) <= a => containers'[i] # {}
               /\ Age(i) > a + 1 => containers'[i] = {}
    <3>1. /\ \A p \in containers[i] : Buffer(p[3]) = a - Age(i)
          /\ Age(i) <= a => containers[i] # {}
          /\ Age(i) > a + 1 => containers[i] = {}
      BY <2>1, <2>5 DEF Filed
    <3>2. CASE i = current_container
      <4>1. a - Age(i) = a /\ ~(Age(i) > a + 1)
        BY <1>3, <3>2
      <4> QED BY <1>4, <1>5, <1>6, <2>5, <3>1, <3>2, <4>1 DEF held
    <3>3. CASE i # current_container
      BY <1>4, <3>1, <3>3
    <3> QED BY <3>2, <3>3
  <2>6. ASSUME nof_buffer_skips # 0
        PROVE  /\ \A p \in containers'[current_container] : Buffer(p[3]) = a * Stride
               /\ \A i \in Containers : i # current_container => containers'[i] = {}
    <3>1. a * Stride = b
      BY <1>5
    <3>2. /\ \A p \in held : Buffer(p[3]) = a * Stride
          /\ \A i \in Containers : i # current_container => containers[i] = {}
      BY <2>1, <2>6 DEF Filed, held
    <3> QED BY <1>4, <1>6, <3>1, <3>2
  <2> QED BY <1>1, <1>2, <2>2, <2>3, <2>4, <2>5, <2>6 DEF Filed, configuration
<1>8. Starts(b)'
  BY <1>0, <1>u, <1>1, StartsWithout, Zenon DEF Standing
<1>9. Tallied(b)'
  <2>1. Tallied(b)
    BY <1>0 DEF Standing
  <2>2. /\ IsFiniteSet(held) /\ num_packets >= Cardinality(held)
    BY <1>1, <2>1 DEF Tallied, held
  <2>3. /\ IsFiniteSet(held \cup {Placed(s, c)})
        /\ num_packets + 1 >= Cardinality(held \cup {Placed(s, c)})
    <3> DEFINE h == Cardinality(held)
               k == Cardinality(held \cup {Placed(s, c)})
    <3>1. h \in Nat /\ IsFiniteSet(held \cup {Placed(s, c)})
            /\ k = IF Placed(s, c) \in held THEN h ELSE h + 1
      BY <2>2, FS_CardinalityType, FS_AddElement
    <3>2. num_packets >= h
      BY <2>2
    <3> HIDE DEF h, k
    <3>3. num_packets + 1 >= k
      BY <1>3, <3>1, <3>2
    <3> QED BY <3>1, <3>3 DEF k
  <2>4. Stored' = Stored \cup {<<s, c>>}
    <3>1. containers'[current_container'] = held \cup {Placed(s, c)}
      BY <1>1, <1>4
    <3>2. Stored' = {<<p[1], p[3]>> : p \in held \cup {Placed(s, c)}}
      BY <3>1 DEF Stored
    <3>3. Stored = {<<p[1], p[3]>> : p \in held}
      BY DEF Stored, held
    <3>4. <<Placed(s, c)[1], Placed(s, c)[3]>> = <<s, c>>
      BY DEF Placed
    <3> HIDE DEF held
    <3> QED BY <3>2, <3>3, <3>4
  <2>5. ASSUME NEW t \in Senders, NEW d \in Nat, Opens(b) <= d, d <= sent, d < Opens(b + 1)
        PROVE  <<t, d>> \in transit' \cup lost' \cup Stored'
    <3>1. <<t, d>> \in transit \cup lost \cup Stored
      BY <1>1, <2>1, <2>5 DEF Tallied
    <3> QED BY <2>4, <3>1
  <2> QED BY <1>1, <1>2, <1>4, <2>3, <2>5 DEF Tallied
<1>10. reference_time' = Opens(a)' * Tick
  BY <1>1, <1>2, <1>0 DEF Standing
<1> QED BY <1>2, <1>7, <1>8, <1>9, <1>10, AtAfter, Zenon

\* A packet that starts the next buffer is the last that was sent before it, or nearly.
LEMMA StartsNext ==
  ASSUME Orderly, Types, origin' = origin, sent' = sent, NEW b \in Nat,
         <<0, Opens(b + 1)>> \in transit, transit' = transit \ {<<0, Opens(b + 1)>>},
         Opens(b + 1) \in Int, Opens(b + 1 + 1) = Opens(b + 1) + Window
  PROVE  Starts(b + 1)'
<1> DEFINE next == Opens(b + 1)
           after == Opens(b + 1 + 1)
<1>1. next <= sent /\ sent - next <= MaxLate
  <2>1. <<0, next>> \in transit /\ <<0, next>>[2] = next
    OBVIOUS
  <2> QED BY <2>1 DEF Types
<1>2. sent \in Nat /\ MaxLate \in Nat /\ Window \in Nat /\ MaxLate < Window
  BY Constants DEF Sizes, Types, Orderly
<1>3. Opens(b + 1)' = next /\ Opens(b + 1 + 1)' = after
  BY DEF Opens
<1>4. after = next + Window /\ next \in Int /\ <<0, next>> \notin transit'
  OBVIOUS
<1> HIDE DEF next, after
<1>5. sent < after /\ after \in Int
  BY <1>1, <1>2, <1>4
<1> QED BY <1>1, <1>2, <1>3, <1>4, <1>5 DEF Starts

LEMMA NextBuffers ==
  ASSUME Types
  PROVE  /\ Stride \in Nat \ {0} /\ current_buffer \in 0 .. Stride - 1
         /\ NextBuffer # 0 => /\ nof_buffer_skips # 0 /\ NextBuffer = current_buffer + 1
                              /\ NextBuffer \in 1 .. Stride - 1
         /\ NextBuffer = 0 => current_buffer = Stride - 1
<1>1. Stride \in Nat \ {0} /\ current_buffer \in 0 .. Stride - 1
  BY DEF Types, Stride
<1>2. CASE nof_buffer_skips = 0
  BY <1>1, <1>2 DEF NextBuffer, Stride
<1>3. CASE nof_buffer_skips # 0
  <2> DEFINE n == nof_buffer_skips
             k == current_buffer
  <2>1. n \in Nat \ {0} /\ k \in 0 .. n - 1 /\ Stride = n /\ NextBuffer = (k + 1) % n
    BY <1>1, <1>3 DEF NextBuffer, Stride, Types
  <2> HIDE DEF n, k
  <2>2. CASE k = n - 1
    <3>1. k + 1 = n * 1 + 0 /\ k + 1 \in Int /\ 0 \in 0 .. n - 1
      BY <2>1, <2>2
    <3>2. (k + 1) % n = 0
      BY <2>1, <3>1, Division
    <3> QED BY <1>1, <2>1, <2>2, <3>2 DEF k
  <2>3. CASE k # n - 1
    <3>1. k + 1 = n * 0 + (k + 1) /\ k + 1 \in Int /\ k + 1 \in 0 .. n - 1 /\ k + 1 # 0
      BY <2>1, <2>3
    <3>2. (k + 1) % n = k + 1
      BY <2>1, <3>1, Division
    <3> QED BY <1>1, <1>3, <2>1, <3>1, <3>2 DEF k, n
  <2> QED BY <2>2, <2>3
<1> QED BY <1>2, <1>3

LEMMA SkipKeeps ==
  ASSUME Orderly, Types, origin \in Nat, NEW a \in Nat, At(a), NEW s, NEW c \in Nat,
         UNCHANGED <<configuration, origin, sent, lost>>, transit' = transit \ {<<s, c>>},
         <<s, c>> \in transit, Skips(a, s, c)
  PROVE  At(a)'
<1>0. PICK b \in Nat : Standing(a, b)
  BY BufferReached
<1>u. origin' = origin /\ sent' = sent /\ configuration' = configuration
  OBVIOUS
<1>1. /\ s = 0 /\ c = Opens(b + 1) /\ num_packets > Cardinality(Senders)
      /\ NextBuffer # 0 /\ current_buffer' = NextBuffer
      /\ UNCHANGED <<containers, current_container, reference_time, num_packets, persisted>>
  BY <1>0 DEF Skips, Standing
<1>2. /\ \A d : Opens(d)' = Opens(d)
      /\ \A d : Buffer(d)' = Buffer(d)
      /\ Stride' = Stride
      /\ Persisted(a)'
  BY <1>0, <1>1, <1>u, SameBuffers DEF Standing
<1>3. NextBuffer = current_buffer + 1 /\ nof_buffer_skips # 0 /\ Stride \in Nat
        /\ current_buffer \in Nat
  BY <1>1, NextBuffers
<1>4. Reached(a)' = b + 1
  <2>1. b = a * Stride + current_buffer /\ a * Stride \in Nat
    BY <1>0 DEF Standing
  <2>2. Reached(a)' = a * Stride + NextBuffer
    BY <1>1, <1>2 DEF Reached
  <2> QED BY <1>3, <2>1, <2>2
<1>5. Starts(b + 1)'
  BY <1>0, <1>1, <1>u, StartsNext DEF Standing
<1>6. Filed(a)'
  <2>1. Filed(a)
    BY <1>0 DEF Standing
  <2>2. nof_buffer_skips' = nof_buffer_skips
    BY DEF configuration
  <2> QED BY <1>1, <1>2, <1>3, <2>1, <2>2 DEF Filed
<1>7. Tallied(b + 1)'
  BY <1>1 DEF Tallied
<1>8. reference_time' = Opens(a)' * Tick
  BY <1>0, <1>1, <1>2 DEF Standing
<1> QED BY <1>2, <1>4, <1>5, <1>6, <1>7, <1>8, AtAfter, Zenon

LEMMA MoveKeeps ==
  ASSUME Orderly, Types, origin \in Nat, NEW a \in Nat, At(a), NEW s, NEW c \in Nat,
         s \in Senders,
         UNCHANGED <<configuration, origin, sent, lost>>, transit' = transit \ {<<s, c>>},
         <<s, c>> \in transit, MovesOn(a, s, c)
  PROVE  At(a + 1)'
<1>0. PICK b \in Nat : Standing(a, b)
  BY BufferReached
<1>u. /\ origin' = origin /\ sent' = sent /\ lost' = lost /\ configuration' = configuration
      /\ nof_buffer_skips' = nof_buffer_skips
  BY DEF configuration
<1>1. /\ s = 0 /\ c = Opens(b + 1) /\ Buffer(c) = b + 1
      /\ NextBuffer = 0
      /\ persisted' = IF containers[Oldest] = {} THEN persisted ELSE containers[Oldest]
      /\ containers' = [Clear(Oldest) EXCEPT ![NextContainer] = @ \cup {Placed(s, c)}]
      /\ current_container' = NextContainer
      /\ current_buffer' = 0
      /\ reference_time' = Opens(a + 1) * Tick
      /\ num_packets' = 1
  BY <1>0 DEF MovesOn, Standing
<1>2. /\ \A d : Opens(d)' = Opens(d)
      /\ \A d : Buffer(d)' = Buffer(d)
      /\ Stride' = Stride
  BY <1>u, SameBuffers
<1>3. current_buffer = Stride - 1 /\ Stride \in Nat \ {0}
  BY <1>1, NextBuffers
<1>4. b + 1 = (a + 1) * Stride /\ (nof_buffer_skips = 0 => b = a) /\ a * Stride \in Nat
  BY <1>0, <1>3 DEF Standing
<1>5. Reached(a + 1)' = b + 1
  <2>1. Reached(a + 1)' = (a + 1) * Stride + 0
    BY <1>1, <1>2 DEF Reached
  <2> QED BY <1>4, <2>1
<1>6. Starts(b + 1)'
  BY <1>0, <1>1, <1>u, StartsNext DEF Standing
<1>7. Filed(a) /\ Persisted(a) /\ Starts(b) /\ Opens(b + 1) \in Int
  BY <1>0 DEF Standing
<1>8. /\ NextContainer \in Containers /\ current_container \in Containers
      /\ NextContainer # current_container /\ NofContainers \in Nat
      /\ \A i \in Containers : Age(i) \in 0 .. NofContainers - 1
      /\ Age(NextContainer) = NofContainers - 1
      /\ \A i \in Containers : Age(i)' = IF i = NextContainer THEN 0 ELSE Age(i) + 1
      /\ DOMAIN containers = Containers
  BY <1>1, Neighbours, Constants DEF Types, Sizes
<1>9. Oldest = IF nof_buffer_skips = 0 THEN NextContainer ELSE current_container
  BY DEF Oldest
<1>10. /\ containers'[NextContainer] = {Placed(s, c)}
       /\ \A i \in Containers \ {NextContainer} :
            containers'[i] = IF i = Oldest THEN {} ELSE containers[i]
  <2>1. Clear(Oldest) = [containers EXCEPT ![Oldest] = {}] /\ DOMAIN Clear(Oldest) = Containers
    BY <1>8 DEF Clear
  <2>2. Clear(Oldest)[NextContainer] = {}
    <3>1. nof_buffer_skips # 0 => containers[NextContainer] = {}
      BY <1>7, <1>8 DEF Filed
    <3> QED BY <1>8, <1>9, <2>1, <3>1
  <2>3. containers'[NextContainer] = {Placed(s, c)}
    BY <1>1, <1>8, <2>1, <2>2
  <2>4. ASSUME NEW i \in Containers \ {NextContainer}
        PROVE  containers'[i] = IF i = Oldest THEN {} ELSE containers[i]
    BY <1>1, <1>8, <2>1, <2>4
  <2> QED BY <2>3, <2>4
<1>11. Placed(s, c)[3] = c /\ Placed(s, c)[1] = s
  BY DEF Placed
<1>12. Filed(a + 1)'
  <2>1. containers'[current_container'] # {}
    BY <1>1, <1>10
  <2>2. ASSUME nof_buffer_skips = 0, NEW i \in Containers
        PROVE  /\ \A p \in containers'[i] : Buffer(p[3]) = (a + 1) - Age(i)'
               /\ Age(i)' <= a + 1 => containers'[i] # {}
               /\ Age(i)' > a + 1 + 1 => containers'[i] = {}
    <3>1. /\ \A p \in containers[i] : Buffer(p[3]) = a - Age(i)
          /\ Age(i) <= a => containers[i] # {}
          /\ Age(i) > a + 1 => containers[i] = {}
      BY <1>7, <2>2 DEF Filed
    <3>2. CASE i = NextContainer
      <4>1. Age(i)' = 0
        BY <1>8, <3>2
      <4>2. \A p \in containers'[i] : Buffer(p[3]) = a + 1
        BY <1>1, <1>4, <1>10, <1>11, <2>2, <3>2
      <4> QED BY <1>10, <3>2, <4>1, <4>2
    <3>3. CASE i # NextContainer
      <4>1. Age(i)' = Age(i) + 1 /\ containers'[i] = containers[i] /\ Age(i) \in Int
        BY <1>8, <1>9, <1>10, <2>2, <3>3
      <4>2. /\ (a + 1) - (Age(i) + 1) = a - Age(i)
            /\ Age(i) + 1 <= a + 1 => Age(i) <= a
            /\ Age(i) + 1 > a + 1 + 1 => Age(i) > a + 1
        BY <4>1
      <4> QED BY <3>1, <4>1, <4>2
    <3> QED BY <3>2, <3>3
  <2>3. ASSUME nof_buffer_skips # 0
        PROVE  /\ \A p \in containers'[current_container'] : Buffer(p[3]) = (a + 1) * Stride
               /\ \A i \in Containers : i # current_container' => containers'[i] = {}
    <3>1. \A p \in containers'[current_container'] : Buffer(p[3]) = (a + 1) * Stride
      BY <1>1, <1>4, <1>10, <1>11
    <3>2. \A i \in Containers : i # current_container => containers[i] = {}
      BY <1>7, <2>3 DEF Filed
    <3> QED BY <1>1, <1>9, <1>10, <2>3, <3>1, <3>2
  <2> QED BY <1>u, <1>2, <2>1, <2>2, <2>3 DEF Filed
<1>13. Persisted(a + 1)'
  <2>1. CASE nof_buffer_skips = 0
    <3>1. /\ \A p \in persisted' : Buffer(p[3]) = (a + 1) - NofContainers
          /\ persisted' # {} => (a + 1) - NofContainers >= -1
      <4>1. /\ \A p \in containers[NextContainer] : Buffer(p[3]) = a - (NofContainers - 1)
            /\ NofContainers - 1 <= a => containers[NextContainer] # {}
            /\ NofContainers - 1 > a + 1 => containers[NextContainer] = {}
        BY <1>7, <1>8, <2>1 DEF Filed
      <4>2. persisted # {} => a - NofContainers >= -1
        BY <1>7, <2>1 DEF Persisted
      <4>3. CASE containers[NextContainer] = {}
        <5>1. ~(a - NofContainers >= -1)
          BY <1>8, <4>1, <4>3
        <5>2. persisted' = {}
          BY <1>1, <1>9, <2>1, <4>2, <4>3, <5>1
        <5> QED BY <5>2
      <4>4. CASE containers[NextContainer] # {}
        <5>1. persisted' = containers[NextContainer]
          BY <1>1, <1>9, <2>1, <4>4
        <5>2. a - (NofContainers - 1) = (a + 1) - NofContainers /\ (a + 1) - NofContainers >= -1
          BY <1>8, <4>1, <4>4
        <5> QED BY <4>1, <5>1, <5>2
      <4> QED BY <4>3, <4>4
    <3> QED BY <1>u, <1>2, <2>1, <3>1 DEF Persisted
  <2>2. CASE nof_buffer_skips # 0
    <3>1. /\ \A p \in containers[current_container] : Buffer(p[3]) = a * Stride
          /\ containers[current_container] # {}
      BY <1>7, <2>2 DEF Filed
    <3>2. persisted' = containers[current_container]
      BY <1>1, <1>9, <2>2, <3>1
    <3>3. ((a + 1) - 1) * Stride = a * Stride /\ a * Stride >= -1
      BY <1>4
    <3> QED BY <1>u, <1>2, <2>2, <3>1, <3>2, <3>3 DEF Persisted
  <2> QED BY <2>1, <2>2
<1>14. Tallied(b + 1)'
  <2>1. containers'[current_container'] = {Placed(s, c)}
    BY <1>1, <1>10
  <2>2. /\ IsFiniteSet(containers'[current_container'])
        /\ num_packets' >= Cardinality(containers'[current_container'])
    <3>1. IsFiniteSet({Placed(s, c)}) /\ Cardinality({Placed(s, c)}) = 1
      BY FS_Singleton
    <3>2. num_packets' = 1
      BY <1>1
    <3> QED BY <2>1, <3>1, <3>2
  <2>3. <<s, c>> \in Stored'
    <3>1. Stored' = {<<p[1], p[3]>> : p \in {Placed(s, c)}}
      BY <2>1 DEF Stored
    <3> QED BY <1>11, <3>1
  <2>4. ASSUME NEW t \in Senders, NEW d \in Nat, Opens(b + 1) <= d, d <= sent
        PROVE  <<t, d>> \in transit' \cup lost' \cup Stored'
    <3>1. <<t, d>> \in transit \cup lost
      BY <1>7, <2>4 DEF Starts
    <3> QED BY <1>u, <2>3, <3>1
  <2> QED BY <1>u, <1>1, <1>2, <2>2, <2>4 DEF Tallied
<1>15. reference_time' = Opens(a + 1)' * Tick
  BY <1>1, <1>2
<1> QED BY <1>5, <1>6, <1>12, <1>13, <1>14, <1>15, AtAfter, Zenon

LEMMA ReceiveKeeps ==
  ASSUME Orderly, Types, Running, origin % Modulus # 0, NEW s, NEW c, Receive(s, c)
  PROVE  Running' /\ UNCHANGED <<configuration, origin>>
<1>1. PICK a \in Nat : At(a)
  BY DEF Running
<1>2. /\ UNCHANGED <<configuration, origin, reference_counter, sent, lost>>
      /\ transit' = transit \ {<<s, c>>} /\ s \in Senders /\ c \in Nat /\ rollover_counter' \in Nat
      /\ StoresLate(a, s, c) \/ Drops(a, c) \/ Stores(a, s, c) \/ Skips(a, s, c) \/ MovesOn(a, s, c)
  BY <1>1, Processes
<1>3. origin \in Nat /\ AtPlace /\ <<s, c>> \in transit /\ a + 1 \in Nat
  BY DEF Running, Receive
<1>4. UNCHANGED <<configuration, origin, sent, lost>>
  BY <1>2
<1>5. \E k \in Nat : At(k)'
  <2>1. CASE StoresLate(a, s, c)
    BY <1>1, <1>2, <1>3, <1>4, <2>1, LateKeeps
  <2>2. CASE Drops(a, c)
    BY <1>1, <1>2, <1>3, <1>4, <2>2, DropKeeps
  <2>3. CASE Stores(a, s, c)
    BY <1>1, <1>2, <1>3, <1>4, <2>3, StoreKeeps
  <2>4. CASE Skips(a, s, c)
    BY <1>1, <1>2, <1>3, <1>4, <2>4, SkipKeeps
  <2>5. CASE MovesOn(a, s, c)
    BY <1>1, <1>2, <1>3, <1>4, <2>5, MoveKeeps
  <2> QED BY <1>2, <2>1, <2>2, <2>3, <2>4, <2>5
<1>6. AtPlace'
  <2>1. DOMAIN containers = Containers /\ origin' = origin
    BY <1>2 DEF Types
  <2>2. ASSUME NEW i \in Containers, NEW p \in containers'[i]
        PROVE  (\E j \in Containers : p \in containers[j]) \/ p = Placed(s, c)
    BY <1>2, <2>1, <2>2 DEF StoresLate, Drops, Stores, Skips, MovesOn, Clear, position
  <2>3. Placed(s, c)[2] = (Placed(s, c)[3] - origin) % Window
    BY DEF Placed
  <2>4. ASSUME NEW i \in Containers, NEW p \in containers'[i]
        PROVE  p[2] = (p[3] - origin) % Window
    BY <1>3, <2>2, <2>3, <2>4 DEF AtPlace
  <2> QED BY <2>1, <2>4 DEF AtPlace
<1>7. PacketTime(origin') >= start_time' /\ PacketTime(origin)' = PacketTime(origin)
  BY <1>2 DEF Running, configuration, PacketTime, Round
<1> QED BY <1>2, <1>5, <1>6, <1>7 DEF Running

\* The first packet that the consumer takes.
LEMMA FirstKeeps ==
  ASSUME Orderly, Types, Waiting, origin = -1, NEW s, NEW c, Receive(s, c)
  PROVE  /\ UNCHANGED configuration
         /\ \/ origin' = -1 /\ Waiting'
            \/ origin' \in Nat /\ Running'
<1>1. /\ <<s, c>> \in transit /\ s \in Senders /\ c \in Nat /\ c <= sent /\ sent - c <= MaxLate
      /\ transit' = transit \ {<<s, c>>} /\ UNCHANGED <<configuration, sent, lost>>
      /\ ProcessPacket(s, c)
  BY DEF Receive, Types
<1>2. /\ Tick \in Nat \ {0} /\ Window \in Nat \ {0} /\ NofContainers \in Nat \ {0}
      /\ MaxLate \in Nat /\ MaxLate < Window /\ First \in Nat /\ Modulus \in Nat \ {0}
      /\ sent \in Nat /\ sent >= First /\ num_packets = 0
      /\ IsFiniteSet(Senders)
  BY Constants DEF Sizes, Orderly, Types, Waiting
<1>3. CASE PacketTime(c) < start_time
  <2>1. UNCHANGED <<containers, position, counters, persisted, origin>>
    BY <1>1, <1>3 DEF ProcessPacket
  <2>2. ASSUME NEW t \in Senders, NEW d \in 0 .. sent, d + MaxLate >= sent,
               PacketTime(d) >= start_time
        PROVE  <<t, d>> \in transit'
    <3>1. <<t, d>> \in transit
      BY <2>2 DEF Waiting
    <3>2. d # c
      <4>1. PacketTime(c) = c * Tick /\ c * Tick \in Int /\ start_time \in Nat
        BY <1>1, <1>2, TimesAreExact DEF Types
      <4> DEFINE x == c * Tick
      <4>2. PacketTime(c) = x /\ x \in Int /\ start_time \in Int
        BY <4>1
      <4> HIDE DEF x
      <4>3. ~(PacketTime(c) >= start_time)
        BY <1>3, <4>2
      <4> QED BY <2>2, <4>3
    <3> QED BY <1>1, <3>1, <3>2
  <2>3. \A d : PacketTime(d)' = PacketTime(d)
    BY DEF PacketTime, Round
  <2>4. Waiting'
    BY <1>1, <2>1, <2>2, <2>3 DEF Waiting, position, counters, configuration
  <2> QED BY <1>1, <2>1, <2>4
<1>4. CASE ~(PacketTime(c) < start_time)
  <2>1. PacketTime(c) = c * Tick /\ c * Tick \in Int /\ start_time \in Nat
    BY <1>1, <1>2, TimesAreExact DEF Types
  <2>2. PacketTime(c) >= start_time
    <3> DEFINE x == c * Tick
    <3>1. PacketTime(c) = x /\ x \in Int /\ start_time \in Int
      BY <2>1
    <3> HIDE DEF x
    <3> QED BY <1>4, <3>1
  <2>3. /\ reference_counter' = Reference(c) /\ rollover_counter' = Rollovers(s, c)
        /\ origin' = c
        /\ \/ StoreLate(s, c)
           \/ StoreCurrent(s, c)
           \/ SkipPacket(s, c)
           \/ SkipBuffer(s, c)
           \/ MoveOn(s, c)
    BY <1>1, <1>4 DEF ProcessPacket
  <2>4. BufferStart(c) = PacketTime(c) /\ Reference(c) = c % Modulus /\ Epoch(s, c) = 0
    BY DEF Waiting, BufferStart, Reference, Epoch
  <2>5. ~IsLate(c)
    <3> DEFINE x == c * Tick
    <3>1. PacketTime(c) = x /\ x \in Int
      BY <2>1
    <3> HIDE DEF x
    <3> QED BY <2>4, <3>1 DEF IsLate
  <2>6. ~IsBoundary(s, c)
    <3>1. Cardinality(Senders) \in Nat
      BY <1>2, FS_CardinalityType
    <3> QED BY <1>2, <3>1 DEF IsBoundary
  <2>7. PacketIndex(s, c) = (c - c) % Window
    <3>1. c % Modulus \in Int
      BY <1>1, <1>2
    <3> DEFINE m == c % Modulus
    <3>2. m \in Int /\ m + 0 * Modulus - m = c - c
      BY <1>1, <1>2, <3>1
    <3> HIDE DEF m
    <3> QED BY <2>4, <3>2 DEF PacketIndex, m
  <2>8. StoreCurrent(s, c)
    BY <2>3, <2>5, <2>6, Zenon DEF StoreLate, SkipPacket, SkipBuffer, MoveOn, Waiting
  <2> DEFINE packet == <<s, (c - c) % Window, c>>
  <2>9. /\ containers' = [i \in Containers |-> IF i = 0 THEN {packet} ELSE {}]
        /\ current_container' = 0 /\ current_buffer' = 0 /\ num_packets' = 1
        /\ reference_time' = c * Tick /\ persisted' = {}
    <3>1. 0 \in Containers
      BY <1>2 DEF Containers
    <3>2. /\ current_container' = 0 /\ current_buffer' = 0 /\ num_packets' = 1
          /\ reference_time' = c * Tick /\ persisted' = {}
      <4>1. /\ num_packets' = num_packets + 1 /\ reference_time' = BufferStart(c)
            /\ UNCHANGED <<current_container, current_buffer, persisted>>
        BY <2>8 DEF StoreCurrent
      <4> QED BY <2>1, <2>4, <4>1 DEF Waiting
    <3>3. containers = [i \in Containers |-> {}] /\ current_container = 0
      BY DEF Waiting
    <3>4. containers' = [containers EXCEPT ![0] = @ \cup {packet}]
      BY <2>7, <2>8, <3>3 DEF StoreCurrent, AddData
    <3> HIDE DEF packet
    <3>5. containers' = [i \in Containers |-> IF i = 0 THEN {packet} ELSE {}]
      BY <3>1, <3>3, <3>4
    <3> QED BY <3>2, <3>5
  <2>10. origin' \in Nat /\ origin' + MaxLate >= First
    BY <1>1, <1>2, <2>3
  <2>11. AtPlace'
    BY <2>3, <2>9 DEF AtPlace
  <2>12. At(0)'
    <3>1. /\ Opens(0)' = c /\ Opens(1)' = c + Window /\ Reached(0)' = 0
          /\ Opens(0 + 1)' = c + Window
      <4>1. Opens(0)' = c /\ Opens(1)' = c + Window
        BY <1>1, <1>2, <2>3 DEF Opens
      <4>2. Stride' = Stride /\ Stride \in Nat
        BY <1>1 DEF Stride, configuration, Types
      <4>3. Reached(0)' = 0 * Stride + 0
        BY <2>9, <4>2 DEF Reached
      <4>4. 0 * Stride + 0 = 0 /\ 0 + 1 = 1
        BY <4>2
      <4> QED BY <4>1, <4>3, <4>4
    <3>2. sent' = sent /\ sent < c + Window
      BY <1>1, <1>2
    <3>3. Starts(0)'
      BY <1>1, <1>2, <3>1, <3>2 DEF Starts
    <3>4. Tallied(0)'
      <4>1. containers'[current_container'] = {packet}
        BY <1>2, <2>9 DEF Containers
      <4>2. IsFiniteSet({packet}) /\ Cardinality({packet}) = 1
        BY FS_Singleton
      <4>3. <<s, c>> \in Stored'
        <5>1. Stored' = {<<p[1], p[3]>> : p \in {packet}}
          BY <4>1 DEF Stored
        <5> QED BY <5>1
      <4>4. ASSUME NEW t \in Senders, NEW d \in Nat, c <= d, d <= sent
            PROVE  <<t, d>> \in transit' \cup lost' \cup Stored'
        <5>1. PacketTime(d) >= start_time
          <6>1. PacketTime(d) = d * Tick /\ d * Tick \in Int /\ (d * Tick < c * Tick <=> d < c)
            BY <1>1, <1>2, TimesAreExact, Scaled
          <6> DEFINE x == c * Tick
                     y == d * Tick
          <6>2. PacketTime(d) = y /\ y \in Int /\ x \in Int /\ (y < x <=> d < c)
                  /\ start_time \in Int /\ x >= start_time
            BY <2>1, <2>2, <6>1
          <6> HIDE DEF x, y
          <6> QED BY <1>1, <4>4, <6>2
        <5>2. <<t, d>> \in transit
          <6>1. d \in 0 .. sent /\ d + MaxLate >= sent
            BY <1>1, <1>2, <4>4
          <6> QED BY <5>1, <6>1 DEF Waiting
        <5> QED BY <1>1, <4>3, <5>2
      <4> HIDE DEF packet
      <4>5. num_packets' >= Cardinality(containers'[current_container'])
        <5>1. num_packets' = 1
          BY <2>9
        <5> QED BY <4>1, <4>2, <5>1
      <4> QED BY <2>9, <3>1, <3>2, <4>1, <4>2, <4>4, <4>5 DEF Tallied
    <3>5. Filed(0)'
      <4>1. Buffer(c)' = 0
        <5>1. Buffer(c)' = (c - c) \div Window
          BY <2>3 DEF Buffer
        <5>2. c - c = Window * 0 + 0 /\ 0 \in 0 .. Window - 1 /\ c - c \in Int
          BY <1>1, <1>2
        <5>3. (c - c) \div Window = 0
          BY <1>2, <5>2, Division
        <5> QED BY <5>1, <5>3
      <4>2. \A i \in Containers : Age(i)' = IF i = 0 THEN 0 ELSE NofContainers - i
        BY <1>2, <2>9 DEF Age, Containers
      <4>3. 0 \in Containers /\ Containers = 0 .. NofContainers - 1 /\ packet[3] = c
        BY <1>2 DEF Containers
      <4> HIDE DEF packet
      <4>4. \A i \in Containers : /\ i = 0 => containers'[i] = {packet} /\ Age(i)' = 0
                                  /\ i # 0 => containers'[i] = {} /\ Age(i)' > 0
        BY <1>2, <2>9, <4>2, <4>3
      <4>5. containers'[current_container'] = {packet} /\ current_container' = 0
        BY <2>9, <4>3, <4>4
      <4>6. 0 * Stride' = 0
        BY <1>1 DEF Types, Stride, configuration
      <4>7. /\ containers'[current_container'] # {}
            /\ \A p \in containers'[current_container'] : Buffer(p[3])' = 0
        BY <4>1, <4>3, <4>5
      <4>8. ASSUME NEW i \in Containers
            PROVE  /\ \A p \in containers'[i] : Buffer(p[3])' = 0 - Age(i)'
                   /\ Age(i)' <= 0 => containers'[i] # {}
                   /\ Age(i)' > 0 + 1 => containers'[i] = {}
                   /\ i # current_container' => containers'[i] = {}
        <5>1. CASE i = 0
          BY <4>1, <4>3, <4>4, <4>5, <5>1
        <5>2. CASE i # 0
          <6>1. containers'[i] = {} /\ Age(i)' \in Int /\ Age(i)' > 0
            BY <1>2, <4>2, <4>3, <4>4, <5>2
          <6> QED BY <6>1
        <5> QED BY <5>1, <5>2
      <4> QED BY <4>6, <4>7, <4>8 DEF Filed
    <3>6. Persisted(0)'
      BY <2>9 DEF Persisted
    <3>7. reference_time' = Opens(0)' * Tick
      BY <2>9, <3>1
    <3> QED BY <3>1, <3>3, <3>4, <3>5, <3>6, <3>7, AtAfter, Zenon
  <2>13. reference_counter' = origin' % Modulus
    BY <2>3, <2>4
  <2>14. PacketTime(origin)' >= start_time'
    BY <1>1, <2>2, <2>3 DEF PacketTime, Round, configuration
  <2> QED BY <1>1, <2>10, <2>11, <2>12, <2>13, <2>14 DEF Running
<1> QED BY <1>3, <1>4

LEMMA TypesKept ==
  ASSUME Orderly, Types, [ContainersNext]_containerVars
  PROVE  Types'
<1>1. /\ MaxLate \in Nat /\ MaxLost \in Nat /\ Cardinality(lost) \in Nat
      /\ Stride \in Nat \ {0} /\ Lateness \in 0 .. MaxLate
  BY Constants, NextBuffers, FS_CardinalityType DEF Sizes, Types, Lateness
<1>2. ASSUME configuration' = configuration
      PROVE  /\ Stride' = Stride /\ Lateness' = Lateness
             /\ nof_buffer_skips' = nof_buffer_skips /\ start_time' = start_time
  BY <1>2 DEF configuration, Stride, Lateness
<1>3. ASSUME NEW s, NEW c, Receive(s, c)
      PROVE  Types'
  <2>1. /\ UNCHANGED <<configuration, sent, lost>> /\ transit' \subseteq transit
        /\ c \in Nat /\ ProcessPacket(s, c)
    BY <1>3 DEF Receive, Types
  <2>2. /\ current_container' \in Containers
        /\ current_buffer' \in 0 .. Stride - 1
        /\ num_packets' \in Nat /\ rollover_counter' \in Nat
        /\ DOMAIN containers' = Containers
    <3>1. NextContainer \in Containers /\ Rollovers(s, c) \in Nat
      BY Neighbours DEF Types, Rollovers
    <3>2. NextBuffer # 0 => NextBuffer \in 0 .. Stride - 1
      BY <1>1, NextBuffers
    <3>3. 0 \in 0 .. Stride - 1
      BY <1>1
    <3>4. CASE PacketTime(c) < start_time
      BY <2>1, <3>4 DEF ProcessPacket, position, counters, Types
    <3>5. CASE ~(PacketTime(c) < start_time)
      <4>1. /\ rollover_counter' = Rollovers(s, c)
            /\ \/ StoreLate(s, c)
               \/ StoreCurrent(s, c)
               \/ SkipPacket(s, c)
               \/ SkipBuffer(s, c)
               \/ MoveOn(s, c)
        BY <2>1, <3>5 DEF ProcessPacket
      <4>2. CASE StoreLate(s, c)
        BY <3>1, <4>1, <4>2 DEF StoreLate, AddData, position, Types
      <4>3. CASE StoreCurrent(s, c)
        BY <3>1, <4>1, <4>3 DEF StoreCurrent, AddData, Types
      <4>4. CASE SkipPacket(s, c)
        BY <3>1, <4>1, <4>4 DEF SkipPacket, position, Types
      <4>5. CASE SkipBuffer(s, c)
        BY <3>1, <3>2, <4>1, <4>5 DEF SkipBuffer, Types
      <4>6. CASE MoveOn(s, c)
        BY <3>1, <3>3, <4>1, <4>6 DEF MoveOn, AddData, Clear, Types
      <4> QED BY <4>1, <4>2, <4>3, <4>4, <4>5, <4>6
    <3> QED BY <3>4, <3>5
  <2> QED BY <1>2, <2>1, <2>2 DEF Types
<1>4. ASSUME NEW s, NEW c, Lose(s, c)
      PROVE  Types'
  <2>1. /\ UNCHANGED <<configuration, containers, position, counters, sent>>
        /\ transit' \subseteq transit /\ lost' = lost \cup {<<s, c>>}
        /\ Cardinality(lost) < MaxLost
    BY <1>4 DEF Lose
  <2>2. IsFiniteSet(lost') /\ Cardinality(lost') <= MaxLost
    <3>1. /\ IsFiniteSet(lost \cup {<<s, c>>})
          /\ Cardinality(lost \cup {<<s, c>>})
               = IF <<s, c>> \in lost THEN Cardinality(lost) ELSE Cardinality(lost) + 1
      BY FS_AddElement DEF Types
    <3> DEFINE k == Cardinality(lost)
               n == Cardinality(lost \cup {<<s, c>>})
    <3>2. k \in Nat /\ k < MaxLost /\ (n = k \/ n = k + 1)
      BY <1>1, <2>1, <3>1
    <3> HIDE DEF k, n
    <3>3. n <= MaxLost
      BY <1>1, <3>2
    <3> QED BY <2>1, <3>1, <3>3 DEF n
  <2>3. UNCHANGED <<current_container, current_buffer, num_packets, rollover_counter>>
    BY <2>1 DEF position, counters
  <2> QED BY <1>2, <2>1, <2>2, <2>3 DEF Types
<1>5. CASE Send
  <2>1. /\ UNCHANGED <<configuration, containers, position, counters, lost>>
        /\ sent' = sent + 1 /\ transit' = transit \cup (Senders \X {sent + 1})
        /\ \A p \in transit : sent + 1 - p[2] <= Lateness
    BY <1>5 DEF Send
  <2>2. UNCHANGED <<current_container, current_buffer, num_packets, rollover_counter>>
    BY <2>1 DEF position, counters
  <2>3. ASSUME NEW p \in transit'
        PROVE  /\ p \in Senders \X Nat /\ p[2] <= sent + 1
               /\ sent + 1 - p[2] <= Lateness /\ sent + 1 - p[2] <= MaxLate
    <3>1. sent \in Nat /\ transit \subseteq Senders \X Nat /\ \A q \in transit : q[2] <= sent
      BY DEF Types
    <3>2. CASE p \in transit
      BY <1>1, <2>1, <3>1, <3>2
    <3>3. CASE p \in Senders \X {sent + 1}
      BY <1>1, <3>1, <3>3
    <3> QED BY <2>1, <2>3, <3>2, <3>3
  <2>4. sent' \in Nat /\ sent' >= First
    BY <2>1, Constants DEF Types, Sizes
  <2> QED BY <1>2, <2>1, <2>2, <2>3, <2>4 DEF Types
<1>6. CASE UNCHANGED containerVars
  <2>1. UNCHANGED <<configuration, containers, current_container, current_buffer, num_packets,
                    rollover_counter, sent, transit, lost>>
    BY <1>6 DEF containerVars, position, counters, stream
  <2> QED BY <1>2, <2>1 DEF Types
<1> QED BY <1>3, <1>4, <1>5, <1>6 DEF ContainersNext, StreamEnds

\* Opens and Buffer are of the first packet: steps of the stream leave all else alone.
LEMMA StreamKeeps ==
  ASSUME UNCHANGED <<configuration, containers, position, counters, persisted, origin>>,
         \A b \in Nat : (Starts(b) => Starts(b)') /\ (Tallied(b) => Tallied(b)'),
         Orderly, Types, Running
  PROVE  Running'
<1>1. PICK a \in Nat : At(a)
  BY DEF Running
<1>2. origin \in Nat
  BY DEF Running
<1>3. PICK b \in Nat : Standing(a, b)
  BY <1>1, <1>2, BufferReached
<1>4. /\ UNCHANGED <<current_container, current_buffer, num_packets, reference_time,
                     reference_counter, nof_buffer_skips, start_time>>
      /\ origin' = origin /\ configuration' = configuration
  BY DEF position, counters, configuration
<1>5. /\ \A d : Opens(d)' = Opens(d)
      /\ \A d : Buffer(d)' = Buffer(d)
      /\ Stride' = Stride /\ Reached(a)' = b /\ Persisted(a)'
  BY <1>3, <1>4, SameBuffers DEF Standing
<1>6. Filed(a)'
  <2>1. \A i : Age(i)' = Age(i)
    BY <1>4 DEF Age
  <2>2. Filed(a)
    BY <1>3 DEF Standing
  <2> QED BY <1>4, <1>5, <2>1, <2>2 DEF Filed
<1>7. Starts(b)' /\ Tallied(b)'
  BY <1>3 DEF Standing
<1>8. reference_time' = Opens(a)' * Tick
  BY <1>3, <1>4, <1>5 DEF Standing
<1>9. At(a)'
  BY <1>5, <1>6, <1>7, <1>8, AtAfter, Zenon
<1>10. AtPlace'
  BY <1>4 DEF Running, AtPlace
<1>11. PacketTime(origin)' = PacketTime(origin)
  BY <1>4 DEF PacketTime, Round
<1> QED BY <1>4, <1>9, <1>10, <1>11 DEF Running

LEMMA SendKeeps ==
  ASSUME Orderly, Types, Running, Send
  PROVE  Running'
<1>1. /\ UNCHANGED <<configuration, containers, position, counters, persisted, origin, lost>>
      /\ sent' = sent + 1 /\ transit' = transit \cup (Senders \X {sent + 1})
  BY DEF Send
<1>2. sent \in Nat /\ origin \in Nat /\ 0 \in Senders
  BY ContainerAssumption DEF Types, Running
<1>3. /\ \A d : Opens(d)' = Opens(d)
      /\ UNCHANGED <<containers, current_container, current_buffer, num_packets>>
  BY <1>1 DEF Opens, position
<1>4. ASSUME NEW b \in Nat, Starts(b)
      PROVE  Starts(b)'
  <2>1. Opens(b) \in Int /\ Opens(b + 1) \in Int
    <3>1. b \in Int /\ b + 1 \in Int /\ origin \in Int
      BY <1>2
    <3> QED BY <3>1, Opening
  <2>2. Opens(b) <= sent + 1
    BY <1>2, <1>4, <2>1 DEF Starts
  <2>3. Opens(b + 1) <= sent + 1 => <<0, Opens(b + 1)>> \in transit'
    BY <1>1, <1>2, <1>4, <2>1 DEF Starts
  <2>4. b > 0 => <<0, Opens(b)>> \notin transit'
    BY <1>1, <1>2, <1>4, <2>1 DEF Starts
  <2>5. ASSUME NEW s \in Senders, NEW c \in Nat, Opens(b + 1) <= c, c <= sent + 1
        PROVE  <<s, c>> \in transit' \cup lost'
    <3>1. c = sent + 1 \/ c <= sent
      BY <1>2, <2>5
    <3> QED BY <1>1, <1>4, <2>5, <3>1 DEF Starts
  <2> QED BY <1>1, <1>3, <2>2, <2>3, <2>4, <2>5 DEF Starts
<1>5. ASSUME NEW b \in Nat, Tallied(b)
      PROVE  Tallied(b)'
  <2>1. Stored' = Stored
    BY <1>3 DEF Stored
  <2>2. CASE current_buffer # 0
    BY <1>3, <1>5, <2>2 DEF Tallied
  <2>3. CASE current_buffer = 0
    <3>1. ASSUME NEW s \in Senders, NEW c \in Nat, Opens(b) <= c, c <= sent + 1, c < Opens(b + 1)
          PROVE  <<s, c>> \in transit' \cup lost' \cup Stored'
      <4>1. c = sent + 1 \/ c <= sent
        BY <1>2, <3>1
      <4> QED BY <1>1, <1>5, <2>1, <2>3, <3>1, <4>1 DEF Tallied
    <3>2. IsFiniteSet(containers[current_container])
            /\ num_packets >= Cardinality(containers[current_container])
      BY <1>5, <2>3 DEF Tallied
    <3> QED BY <1>1, <1>3, <2>3, <3>1, <3>2 DEF Tallied
  <2> QED BY <2>2, <2>3
<1> QED BY <1>1, <1>4, <1>5, StreamKeeps

LEMMA LoseKeeps ==
  ASSUME Orderly, Types, Running, NEW s, NEW c, Lose(s, c)
  PROVE  Running'
<1>1. /\ UNCHANGED <<configuration, containers, position, counters, persisted, origin, sent>>
      /\ transit' = transit \ {<<s, c>>} /\ lost' = lost \cup {<<s, c>>}
      /\ ~IsStart(s, c)
  BY DEF Lose, Orderly
<1>2. sent \in Nat /\ origin \in Nat /\ Window \in Nat \ {0}
  BY Constants DEF Types, Running, Sizes
<1>3. /\ \A d : Opens(d)' = Opens(d)
      /\ UNCHANGED <<containers, current_container, current_buffer, num_packets>>
  BY <1>1 DEF Opens, position
<1>4. ASSUME NEW b \in Nat, Starts(b)
      PROVE  Starts(b)'
  <2>1. <<0, Opens(b + 1)>> # <<s, c>>
    <3>1. b + 1 \in Nat /\ b + 1 \in Int /\ origin \in Int
      BY <1>2
    <3>2. /\ Opens(b + 1) \in Int /\ Opens(b + 1 + 1) = Opens(b + 1) + Window
          /\ Opens(0) = origin
      BY <3>1, Opening
    <3>3. Opens(b + 1) > origin
      <4>1. 0 < b + 1 /\ 0 \in Int
        OBVIOUS
      <4>2. Opens(0) < Opens(b + 1)
        BY <3>1, <4>1, Opening
      <4> QED BY <1>2, <3>2, <4>2
    <3>4. (Opens(b + 1) - origin) % Window = 0
      <4>1. Opens(b + 1) <= Opens(b + 1) /\ Opens(b + 1) < Opens(b + 1 + 1)
        BY <1>2, <3>2
      <4> QED BY <3>1, <3>2, <4>1, WithinBuffer
    <3> QED BY <1>1, <1>2, <3>3, <3>4 DEF IsStart
  <2> QED BY <1>1, <1>3, <1>4, <2>1 DEF Starts
<1>5. ASSUME NEW b \in Nat, Tallied(b)
      PROVE  Tallied(b)'
  <2>1. Stored' = Stored
    BY <1>3 DEF Stored
  <2>2. transit \cup lost \subseteq transit' \cup lost'
    BY <1>1
  <2> QED BY <1>1, <1>3, <1>5, <2>1, <2>2 DEF Tallied
<1> QED BY <1>1, <1>4, <1>5, StreamKeeps

LEMMA WaitingSend ==
  ASSUME Types, Waiting, Send
  PROVE  Waiting'
<1>1. /\ UNCHANGED <<configuration, containers, position, counters, persisted, origin, lost>>
      /\ sent' = sent + 1 /\ transit' = transit \cup (Senders \X {sent + 1})
  BY DEF Send
<1>2. sent \in Nat /\ MaxLate \in Nat
  BY Constants DEF Types, Sizes
<1>3. \A c : PacketTime(c)' = PacketTime(c)
  BY DEF PacketTime, Round
<1>4. ASSUME NEW s \in Senders, NEW c \in 0 .. sent + 1, c + MaxLate >= sent + 1,
             PacketTime(c) >= start_time
      PROVE  <<s, c>> \in transit'
  <2>1. CASE c = sent + 1
    BY <1>1, <2>1
  <2>2. CASE c # sent + 1
    <3>1. c \in 0 .. sent /\ c + MaxLate >= sent
      BY <1>2, <1>4, <2>2
    <3>2. <<s, c>> \in transit
      BY <1>4, <3>1 DEF Waiting
    <3> QED BY <1>1, <3>2
  <2> QED BY <2>1, <2>2
<1>5. UNCHANGED <<containers, current_container, current_buffer, reference_time,
                  reference_counter, num_packets, persisted, start_time>>
  BY <1>1 DEF position, counters, configuration
<1> QED BY <1>1, <1>3, <1>4, <1>5 DEF Waiting

LEMMA UnchangedKeeps ==
  ASSUME Orderly, ChannelInv, UNCHANGED containerVars
  PROVE  ChannelInv'
<1>1. /\ UNCHANGED <<configuration, containers, position, counters, persisted, origin>>
      /\ UNCHANGED <<sent, transit, lost>>
  BY DEF containerVars, stream
<1>2. UNCHANGED <<nof_buffer_skips, start_time, current_container, current_buffer,
                  reference_time, num_packets, reference_counter, rollover_counter>>
  BY <1>1 DEF configuration, position, counters
<1>3. Types'
  BY TypesKept DEF ChannelInv
<1>4. ASSUME Waiting
      PROVE  Waiting'
  <2>1. \A c : PacketTime(c)' = PacketTime(c)
    BY DEF PacketTime, Round
  <2> QED BY <1>1, <1>2, <1>4, <2>1 DEF Waiting
<1>5. ASSUME Running
      PROVE  Running'
  <2>1. \A d : Opens(d)' = Opens(d)
    BY <1>1 DEF Opens
  <2>2. \A b \in Nat : Starts(b) => Starts(b)'
    BY <1>1, <2>1 DEF Starts
  <2>3. Stored' = Stored
    BY <1>1, <1>2 DEF Stored
  <2>4. \A b \in Nat : Tallied(b) => Tallied(b)'
    BY <1>1, <1>2, <2>1, <2>3 DEF Tallied
  <2> QED BY <1>1, <1>5, <2>2, <2>4, StreamKeeps DEF ChannelInv
<1> QED BY <1>1, <1>3, <1>4, <1>5 DEF ChannelInv

LEMMA ChannelInvInit ==
  ASSUME ContainersInit, BufferSkips \subseteq Nat, StartTimes \subseteq Nat, First >= MaxLate
  PROVE  ChannelInv
<1>1. Sizes
  BY Constants
<1>2. /\ nof_buffer_skips \in Nat /\ start_time \in Nat /\ sent = First /\ lost = {}
      /\ transit = Senders \X (First - MaxLate .. First) /\ origin = -1
      /\ current_container = 0 /\ current_buffer = 0 /\ num_packets = 0 /\ rollover_counter = 0
      /\ containers = [i \in Containers |-> {}]
      /\ reference_time = 0 /\ reference_counter = 0 /\ persisted = {}
  BY DEF ContainersInit
<1>3. Types
  <2>1. IsFiniteSet({}) /\ Cardinality({}) = 0
    BY FS_EmptySet
  <2>2. 0 \in Containers /\ current_buffer \in 0 .. Stride - 1
    BY <1>1, <1>2 DEF Sizes, Containers, Stride
  <2>3. ASSUME NEW p \in transit
        PROVE  p \in Senders \X Nat /\ p[2] <= sent /\ sent - p[2] <= MaxLate
    BY <1>1, <1>2, <2>3 DEF Sizes
  <2> QED BY <1>1, <1>2, <2>1, <2>2, <2>3 DEF Types, Sizes
<1>4. Waiting
  <2>1. ASSUME NEW s \in Senders, NEW c \in 0 .. sent, c + MaxLate >= sent
        PROVE  <<s, c>> \in transit
    BY <1>1, <1>2, <2>1 DEF Sizes
  <2> QED BY <1>2, <2>1 DEF Waiting
<1> QED BY <1>2, <1>3, <1>4 DEF ChannelInv

LEMMA ChannelInvInductive ==
  ASSUME Orderly, ChannelInv, [ContainersNext]_containerVars
  PROVE  ChannelInv'
<1>1. Types /\ Types'
  BY TypesKept DEF ChannelInv
<1>2. CASE UNCHANGED containerVars
  BY <1>2, UnchangedKeeps
<1>3. CASE origin = -1
  <2>1. Waiting
    BY <1>3 DEF ChannelInv
  <2>2. ASSUME NEW s, NEW c, Receive(s, c)
        PROVE  ChannelInv'
    <3>1. (origin' = -1 /\ Waiting') \/ (origin' \in Nat /\ Running')
      BY <1>1, <1>3, <2>1, <2>2, FirstKeeps
    <3> QED BY <1>1, <3>1 DEF ChannelInv
  <2>3. ASSUME NEW s, NEW c, Lose(s, c)
        PROVE  ChannelInv'
    BY <1>3, <2>3 DEF Lose
  <2>4. CASE Send
    <3>1. origin' = -1 /\ Waiting'
      BY <1>1, <1>3, <2>1, <2>4, WaitingSend DEF Send
    <3> QED BY <1>1, <3>1 DEF ChannelInv
  <2> QED BY <1>2, <2>2, <2>3, <2>4 DEF ContainersNext, StreamEnds
<1>4. CASE origin # -1 /\ origin % Modulus # 0
  <2>1. Running
    BY <1>4 DEF ChannelInv
  <2>2. ASSUME NEW s, NEW c, Receive(s, c)
        PROVE  Running' /\ origin' = origin
    BY <1>1, <1>4, <2>1, <2>2, ReceiveKeeps
  <2>3. ASSUME NEW s, NEW c, Lose(s, c)
        PROVE  Running' /\ origin' = origin
    BY <1>1, <2>1, <2>3, LoseKeeps DEF Lose
  <2>4. CASE Send
    BY <1>1, <1>4, <2>1, <2>4, SendKeeps DEF Send, ChannelInv
  <2> QED BY <1>1, <1>2, <1>4, <2>2, <2>3, <2>4 DEF ContainersNext, StreamEnds, ChannelInv
<1>5. CASE origin # -1 /\ ~(origin % Modulus # 0)
  <2>1. ASSUME NEW s, NEW c, Receive(s, c)
        PROVE  origin' = origin
    BY <1>5, <2>1 DEF Receive, ProcessPacket
  <2>2. origin' = origin
    BY <1>2, <2>1, <1>5 DEF ContainersNext, Lose, Send, StreamEnds, containerVars
  <2> QED BY <1>1, <1>5, <2>2 DEF ChannelInv
<1> QED BY <1>3, <1>4, <1>5

\* The invariant holds of every orderly stream.
THEOREM ChannelInvariant ==
  ASSUME Orderly
  PROVE  ContainersSpec => []ChannelInv
<1>1. ContainersInit => ChannelInv
  BY ContainerAssumption, ChannelInvInit
<1>2. ChannelInv /\ [ContainersNext]_containerVars => ChannelInv'
  BY ChannelInvInductive
<1> QED BY <1>1, <1>2, PTL DEF ContainersSpec
-----------------------------------------------------------------------------
(* Theorems                                                                 *)

\* The first packet's counter is not 0 in the header, which the consumer takes for none.
Referenced == origin % Modulus # 0

\* The packets of a container are of one buffer, whichever sender they come from and however
\* late, in every orderly stream with a first packet that can be told from none.
THEOREM BuffersAreKeptApart ==
  ASSUME Orderly
  PROVE  ContainersSpec => [](Referenced => OneBufferPerContainer)
<1>1. ASSUME ChannelInv, Referenced
      PROVE  OneBufferPerContainer
  <2>1. CASE origin = -1
    BY <1>1, <2>1 DEF ChannelInv, Waiting, OneBufferPerContainer
  <2>2. CASE origin # -1
    <3>1. PICK a \in Nat : At(a)
      BY <1>1, <2>2 DEF ChannelInv, Referenced, Running
    <3>2. Filed(a)
      BY <3>1 DEF At
    <3> SUFFICES ASSUME NEW i \in Containers, NEW p \in containers[i], NEW q \in containers[i]
                 PROVE  Buffer(p[3]) = Buffer(q[3])
      BY DEF OneBufferPerContainer
    <3>3. CASE nof_buffer_skips = 0
      <4>1. Buffer(p[3]) = a - Age(i) /\ Buffer(q[3]) = a - Age(i)
        BY <3>2, <3>3 DEF Filed
      <4> QED BY <4>1
    <3>4. CASE nof_buffer_skips # 0
      <4>1. i = current_container
        BY <3>2, <3>4 DEF Filed
      <4>2. Buffer(p[3]) = a * Stride /\ Buffer(q[3]) = a * Stride
        BY <3>2, <3>4, <4>1 DEF Filed
      <4> QED BY <4>2
    <3> QED BY <3>3, <3>4
  <2> QED BY <2>1, <2>2
<1>2. ChannelInv => (Referenced => OneBufferPerContainer)
  BY <1>1
<1> QED BY <1>2, ChannelInvariant, PTL

\* The samples of a packet are put where its distance from the first packet says, although
\* the header's counter goes round, in the same streams.
THEOREM SamplesArePlaced ==
  ASSUME Orderly
  PROVE  ContainersSpec => [](Referenced => SamplesInPlace)
<1>1. ASSUME ChannelInv, Referenced
      PROVE  SamplesInPlace
  <2>1. CASE origin = -1
    BY <1>1, <2>1 DEF ChannelInv, Waiting, SamplesInPlace
  <2>2. CASE origin # -1
    BY <1>1, <2>2 DEF ChannelInv, Referenced, Running, AtPlace, SamplesInPlace
  <2> QED BY <2>1, <2>2
<1>2. ChannelInv => (Referenced => SamplesInPlace)
  BY <1>1
<1> QED BY <1>2, ChannelInvariant, PTL

LEMMA BufferOfAll ==
  ASSUME NEW packets, NEW b, packets # {}, \A p \in packets : Buffer(p[3]) = b
  PROVE  BufferOf(packets) = b
<1>1. (CHOOSE p \in packets : TRUE) \in packets
  OBVIOUS
<1> QED BY <1>1 DEF BufferOf

LEMMA PersistsNext ==
  ASSUME Orderly, ChannelInv, Referenced, [ContainersNext]_containerVars, persisted' # persisted, persisted # {}
  PROVE  BufferOf(persisted') = BufferOf(persisted)
           + (IF nof_buffer_skips = 0 THEN 1 ELSE nof_buffer_skips)
<1>1. Types /\ Running
  BY DEF ChannelInv, Waiting, Referenced
<1>2. PICK s, c : Receive(s, c)
  BY DEF ContainersNext, Lose, Send, StreamEnds, containerVars
<1>3. PICK a \in Nat : At(a)
  BY <1>1 DEF Running
<1>4. MovesOn(a, s, c)
  <2>1. StoresLate(a, s, c) \/ Drops(a, c) \/ Stores(a, s, c) \/ Skips(a, s, c) \/ MovesOn(a, s, c)
    BY <1>1, <1>2, <1>3, Processes DEF Referenced
  <2> QED BY <2>1 DEF StoresLate, Drops, Stores, Skips
<1>5. persisted' = containers[Oldest] /\ persisted' # {}
  BY <1>4 DEF MovesOn
<1>6. Filed(a) /\ Persisted(a)
  BY <1>3 DEF At
<1>7. CASE nof_buffer_skips = 0
  <2>1. NextContainer \in Containers /\ Age(NextContainer) = NofContainers - 1
    BY <1>1, Neighbours
  <2>2. \A p \in persisted' : Buffer(p[3]) = a - (NofContainers - 1)
    BY <1>5, <1>6, <1>7, <2>1 DEF Filed, Oldest
  <2>3. \A p \in persisted : Buffer(p[3]) = a - NofContainers
    BY <1>6, <1>7 DEF Persisted
  <2>4. BufferOf(persisted') = a - (NofContainers - 1) /\ BufferOf(persisted) = a - NofContainers
    BY <1>5, <2>2, <2>3, BufferOfAll
  <2>5. NofContainers \in Nat
    BY Constants DEF Sizes
  <2> QED BY <1>7, <2>4, <2>5
<1>8. CASE nof_buffer_skips # 0
  <2>1. Stride = nof_buffer_skips /\ nof_buffer_skips \in Nat
    BY <1>1, <1>8 DEF Stride, Types
  <2>2. \A p \in persisted' : Buffer(p[3]) = a * Stride
    BY <1>5, <1>6, <1>8 DEF Filed, Oldest
  <2>3. \A p \in persisted : Buffer(p[3]) = (a - 1) * Stride
    BY <1>6, <1>8 DEF Persisted
  <2>4. BufferOf(persisted') = a * Stride /\ BufferOf(persisted) = (a - 1) * Stride
    BY <1>5, <2>2, <2>3, BufferOfAll
  <2>5. a * Stride = (a - 1) * Stride + Stride
    BY <2>1
  <2> QED BY <1>8, <2>1, <2>4, <2>5
<1> QED BY <1>7, <1>8

\* Buffers are persisted in order, each once, and only those that are to be skipped are left
\* out, in the same streams.
THEOREM PersistedIsOrdered ==
  ASSUME Orderly
  PROVE  ContainersSpec /\ []Referenced => PersistedInOrder
<1>1. ChannelInv /\ Referenced /\ [ContainersNext]_containerVars =>
        [persisted' # persisted /\ persisted # {}
           => BufferOf(persisted') = BufferOf(persisted)
                + (IF nof_buffer_skips = 0 THEN 1 ELSE nof_buffer_skips)]_containerVars
  BY PersistsNext
<1> QED BY <1>1, ChannelInvariant, PTL DEF ContainersSpec, PersistedInOrder
-----------------------------------------------------------------------------
(* Files                                                                    *)

\* a buffer filed at this time, whatever its timestamp
IsBlock(b, now) == b \in [time : Nat, stamp : Int] /\ b.time = now
-----------------------------------------------------------------------------
(* The five kinds of files                                                  *)

LEMMA StampsAreIntegers ==
  ASSUME usage \in Usage, NEW given \in Int, NEW ts \in Nat, NEW pad \in Int
  PROVE  FirstStamp(given, ts, pad) \in Int /\ RawStamp(given, ts, pad) \in Int
BY DEF Usage, FirstStamp, RawStamp, Padded

\* Adding a buffer to a partition appends it to the dataset, and keeps the attributes
\* integers.
LEMMA AddedBlock ==
  ASSUME usage \in Usage, NEW part \in PartitionType, NEW now \in Nat, NEW first \in Int
  PROVE  /\ AddBlock(part, now, first) \in PartitionType
         /\ AddBlock(part, now, first).blocks = Append(part.blocks, Block(now, first))
         /\ Appended(part, now, first) \in PartitionType
         /\ Appended(part, now, first).blocks = Append(part.blocks, Block(now, first))
         /\ Written(part, now, first) \in PartitionType
         /\ Written(part, now, first).blocks = Append(part.blocks, Block(now, first))
<1>1. LastStamp(first) \in Int
  BY FileAssumption DEF LastStamp, Usage
<1>2. Block(now, first) \in [time : Nat, stamp : Int]
  BY DEF Block
<1>3. Append(part.blocks, Block(now, first)) \in Seq([time : Nat, stamp : Int])
  BY <1>2 DEF PartitionType
<1> QED BY <1>1, <1>3 DEF AddBlock, Appended, Written, PartitionType

\* Whatever the kind of file, appending to a partition adds the buffer at its end.
LEMMA AppendDataAppends ==
  ASSUME usage \in Usage, NEW part \in PartitionType,
         NEW ts \in Nat, NEW now \in Nat, NEW pad \in Int
  PROVE  /\ AppendData(part, ts, now, pad) \in PartitionType
         /\ \E first \in Int :
              AppendData(part, ts, now, pad).blocks = Append(part.blocks, Block(now, first))
<1> DEFINE Appends(new) ==
      /\ new \in PartitionType
      /\ \E first \in Int : new.blocks = Append(part.blocks, Block(now, first))
<1>1. ASSUME NEW first \in Int
      PROVE  Appends(AddBlock(part, now, first)) /\ Appends(Appended(part, now, first))
  BY AddedBlock, Zenon
<1>2. /\ FirstStamp(Given(ts, now), ts, pad) \in Int
      /\ RawStamp(Given(ts, now), ts, pad) \in Int
  <2>1. Given(ts, now) \in Int
    BY DEF Given
  <2> QED BY <2>1, StampsAreIntegers, Zenon
<1> HIDE DEF Appends
<1>3. Appends(AppendRaw(part, ts, now, pad))
  <2>1. Appends(AddBlock(part, now, 0))
    BY <1>1
  <2> QED BY <1>1, <1>2, <2>1 DEF AppendRaw
<1>4. /\ Appends(AppendChannel(part, ts, now, pad))
      /\ Appends(AppendBeam(part, ts, now, pad))
      /\ Appends(AppendStationBeam(part, ts, now, pad))
      /\ Appends(AppendCorrelation(part, ts, now, pad))
  BY <1>1, <1>2 DEF AppendChannel, AppendBeam, AppendStationBeam, AppendCorrelation
<1>5. Appends(AppendData(part, ts, now, pad))
  BY <1>3, <1>4 DEF AppendData, Usage, Kinds
<1> QED BY <1>5 DEF Appends

\* Whatever the kind of file, a partition that is written begins with the buffer.
LEMMA WriteDataBegins ==
  ASSUME usage \in Usage, NEW ts \in Nat, NEW now \in Nat, NEW pad \in Int
  PROVE  /\ WriteData(ts, now, pad) \in PartitionType
         /\ \E first \in Int :
              WriteData(ts, now, pad).blocks = Append(<<>>, Block(now, first))
<1>1. NewPartition(ts) \in PartitionType /\ NewPartition(ts).blocks = <<>>
  BY DEF NewPartition, PartitionType
<1> DEFINE Begins(part) ==
      /\ part \in PartitionType
      /\ \E first \in Int : part.blocks = Append(<<>>, Block(now, first))
<1>2. ASSUME NEW first \in Int
      PROVE  Begins(AddBlock(NewPartition(ts), now, first))
               /\ Begins(Written(NewPartition(ts), now, first))
  <2> DEFINE new == NewPartition(ts)
  <2>1. new \in PartitionType /\ new.blocks = <<>>
    BY <1>1
  <2> HIDE DEF new
  <2>2. /\ AddBlock(new, now, first) \in PartitionType
        /\ AddBlock(new, now, first).blocks = Append(new.blocks, Block(now, first))
        /\ Written(new, now, first) \in PartitionType
        /\ Written(new, now, first).blocks = Append(new.blocks, Block(now, first))
    BY <2>1, AddedBlock, Zenon
  <2>3. Begins(AddBlock(new, now, first)) /\ Begins(Written(new, now, first))
    BY <2>1, <2>2, Zenon
  <2> QED BY <2>3 DEF new
<1>3. FirstStamp(Given(ts, now), ts, pad) \in Int
  <2>1. Given(ts, now) \in Int
    BY DEF Given
  <2> QED BY <2>1, StampsAreIntegers, Zenon
<1>4. RawStamp(IF usage.buffer_timestamp THEN now ELSE 0, ts, pad) \in Int
  <2> DEFINE given == IF usage.buffer_timestamp THEN now ELSE 0
  <2>1. given \in Int
    OBVIOUS
  <2> HIDE DEF given
  <2>2. RawStamp(given, ts, pad) \in Int
    BY <2>1, StampsAreIntegers, Zenon
  <2> QED BY <2>2 DEF given
<1> HIDE DEF Begins
<1>5. Begins(WriteRaw(ts, now, pad))
  BY <1>2, <1>4 DEF WriteRaw
<1>6. /\ Begins(WriteChannel(ts, now, pad))
      /\ Begins(WriteBeam(ts, now, pad))
      /\ Begins(WriteStationBeam(ts, now, pad))
      /\ Begins(WriteCorrelation(ts, now, pad))
  BY <1>2, <1>3 DEF WriteChannel, WriteBeam, WriteStationBeam, WriteCorrelation
<1>7. Begins(WriteData(ts, now, pad))
  BY <1>5, <1>6 DEF WriteData, Usage, Kinds
<1> QED BY <1>7 DEF Begins
-----------------------------------------------------------------------------
(* Where a buffer is filed                                                  *)

\* a partition with the buffer alone, after all that were there
Begun(old, new, now) ==
  \E part \in PartitionType, first \in Int :
    /\ part.blocks = Append(<<>>, Block(now, first))
    /\ new = Append(old, part)

\* the newest partition with the buffer after those that were in it
Continued(old, new, now) ==
  \E part \in PartitionType, first \in Int :
    /\ old # <<>>
    /\ part.blocks = Append(old[Len(old)].blocks, Block(now, first))
    /\ new = [old EXCEPT ![Len(old)] = part]

NewestLength(file) == Len(file[Len(file)].blocks)

\* ingest_data changes the partitions of one second in one of three ways.
Ingested(s, now) ==
  \E new \in Seq(PartitionType) :
    /\ disk' = [disk EXCEPT ![s] = new]
    /\ usage.append =>
         \/ /\ Begun(disk[s], new, now)
            /\ disk[s] = <<>> \/ NewestLength(disk[s]) >= FileSize
         \/ /\ Continued(disk[s], new, now)
            /\ NewestLength(disk[s]) < FileSize

LEMMA IngestDataFiles ==
  ASSUME TypeOK, NEW ts \in Nat, NEW now \in Nat, Second(ts) \in Seconds, ingest_data(ts, now)
  PROVE  Ingested(Second(ts), now)
<1> DEFINE s == Second(ts)
           old == disk[s]
<1>1. old \in Seq(PartitionType) /\ disk \in [Seconds -> Seq(PartitionType)]
  BY DEF TypeOK
<1>2. usage \in Usage /\ usage.sampling_time \in Int
  BY FileAssumption DEF TypeOK, Usage
<1>3. ASSUME NEW id PROVE file_final_timestamp(ts, id) \in Int
  <2>1. CASE id \in 0 .. file_partitions(ts)
    <3>1. id + 1 \in 1 .. Len(old) /\ old[id + 1] \in PartitionType
      BY <1>1, <2>1 DEF file_partitions
    <3> QED BY <2>1, <3>1 DEF file_final_timestamp, Partition, PartitionType
  <2>2. CASE id \notin 0 .. file_partitions(ts)
    BY <2>2 DEF file_final_timestamp
  <2> QED BY <2>1, <2>2
<1>4. file_partitions(ts) = Len(old) - 1 /\ Len(old) \in Nat
  BY <1>1 DEF file_partitions
<1>5. AppendPad(ts) \in Int
  <2> DEFINE final == file_final_timestamp(ts, file_partitions(ts) - 1)
  <2>1. final \in Int
    BY <1>3
  <2> HIDE DEF final
  <2> QED BY <1>2, <2>1 DEF AppendPad, final
<1>6. CASE HasRoom(ts) /\ usage.append /\ AppendToNewest(ts, now) /\ Len(old) = 0
  <2> DEFINE part == AppendData(NewPartition(ts), ts, now, AppendPad(ts))
  <2>2. NewPartition(ts) \in PartitionType /\ NewPartition(ts).blocks = <<>>
    BY DEF NewPartition, PartitionType
  <2>3. /\ part \in PartitionType
        /\ \E first \in Int : part.blocks = Append(NewPartition(ts).blocks, Block(now, first))
    BY <1>2, <1>5, <2>2, AppendDataAppends, Zenon
  <2>4. disk' = [disk EXCEPT ![s] = Append(old, part)]
    BY <1>4, <1>6 DEF AppendToNewest, Put
  <2> HIDE DEF part, s
  <2>5. Begun(old, Append(old, part), now)
    BY <2>2, <2>3 DEF Begun
  <2>6. old = <<>> /\ Append(old, part) \in Seq(PartitionType)
    BY <1>1, <1>6, <2>3
  <2> QED BY <2>4, <2>5, <2>6 DEF Ingested, s
<1>7. CASE HasRoom(ts) /\ usage.append /\ AppendToNewest(ts, now) /\ Len(old) > 0
  <2> DEFINE newest == Partition(ts, file_partitions(ts))
             part == AppendData(newest, ts, now, AppendPad(ts))
  <2>2. newest = old[Len(old)] /\ newest \in PartitionType
    BY <1>1, <1>4, <1>7 DEF Partition
  <2> HIDE DEF newest
  <2>3. /\ part \in PartitionType
        /\ \E first \in Int : part.blocks = Append(newest.blocks, Block(now, first))
    BY <1>2, <1>5, <2>2, AppendDataAppends, Zenon
  <2>4. disk' = [disk EXCEPT ![s] = [old EXCEPT ![Len(old)] = part]]
    BY <1>4, <1>7 DEF AppendToNewest, Put, newest
  <2> HIDE DEF part
  <2>5. Continued(old, [old EXCEPT ![Len(old)] = part], now)
    <3>1. old # <<>>
      BY <1>7
    <3> QED BY <2>2, <2>3, <3>1, Zenon DEF Continued
  <2>6. [old EXCEPT ![Len(old)] = part] \in Seq(PartitionType)
    BY <1>1, <1>7, <2>3
  <2>7. NewestLength(old) < FileSize
    BY <1>4, <1>7 DEF HasRoom, file_size, NewestLength, Partition
  <2> HIDE DEF s
  <2> QED BY <2>4, <2>5, <2>6, <2>7 DEF Ingested, s
<1>8. CASE HasRoom(ts) /\ ~usage.append /\ Put(ts, 0, WriteData(ts, now, 0))
  <2> DEFINE part == WriteData(ts, now, 0)
             new == IF 0 < Len(old) THEN [old EXCEPT ![1] = part] ELSE Append(old, part)
  <2>1. part \in PartitionType
    BY <1>2, WriteDataBegins
  <2>2. disk' = [disk EXCEPT ![s] = new]
    BY <1>8 DEF Put
  <2> HIDE DEF part
  <2>3. new \in Seq(PartitionType)
    BY <1>1, <2>1
  <2> QED BY <1>8, <2>2, <2>3 DEF Ingested
<1>9. CASE ~HasRoom(ts) /\ BeginPartition(ts, now)
  <2> DEFINE pad == file_final_timestamp(ts, file_partitions(ts)) + usage.sampling_time
             part == WriteData(ts, now, pad)
  <2>1. pad \in Int
    <3>1. file_final_timestamp(ts, file_partitions(ts)) \in Int
      BY <1>3
    <3> HIDE DEF s
    <3> QED BY <1>2, <3>1
  <2> HIDE DEF pad
  <2>2. part \in PartitionType /\ \E first \in Int : part.blocks = Append(<<>>, Block(now, first))
    BY <1>2, <2>1, WriteDataBegins, Zenon
  <2>3. disk' = [disk EXCEPT ![s] = Append(old, part)]
    <3>1. Put(ts, Len(old), part)
      <4>1. Put(ts, (Len(old) - 1) + 1, part)
        BY <1>4, <1>9 DEF BeginPartition, pad
      <4>2. (Len(old) - 1) + 1 = Len(old)
        BY <1>4
      <4> QED BY <4>1, <4>2
    <3>2. ~(Len(old) < Len(old))
      BY <1>4
    <3> HIDE DEF part
    <3> QED BY <3>1, <3>2 DEF Put
  <2> HIDE DEF part
  <2>4. Begun(old, Append(old, part), now) /\ Append(old, part) \in Seq(PartitionType)
    BY <1>1, <2>2 DEF Begun
  <2>5. NewestLength(old) >= FileSize
    <3>1. file_size(ts) >= FileSize /\ file_size(ts) # 0
      BY <1>1, <1>4, <1>9, FileAssumption DEF HasRoom, file_size, Partition, PartitionType
    <3> QED BY <1>4, <3>1 DEF file_size, NewestLength, Partition
  <2> HIDE DEF s
  <2> QED BY <2>3, <2>4, <2>5 DEF Ingested, s
<1> QED BY <1>4, <1>6, <1>7, <1>8, <1>9 DEF ingest_data
-----------------------------------------------------------------------------
(* No buffer is lost                                                        *)

\* What NothingLost says of one second's file, its partitions and the buffers it was given:
\* all partitions but the newest are full, ...
Full(file) ==
  \A p \in DOMAIN file :
    /\ Len(file[p].blocks) \in 1 .. FileSize
    /\ p < Len(file) => Len(file[p].blocks) = FileSize

\* ... those of partition p begin with buffer (p - 1) * FileSize + 1, ...
InPlace(stored, p, times) ==
  \A i \in DOMAIN stored : stored[i].time = times[(p - 1) * FileSize + i]

\* ... and there are no others.
Counted(file, times) ==
  Len(times) = IF file = <<>> THEN 0
               ELSE (Len(file) - 1) * FileSize + NewestLength(file)

Kept(file, times) ==
  /\ Full(file)
  /\ \A p \in DOMAIN file : InPlace(file[p].blocks, p, times)
  /\ Counted(file, times)

LEMMA NothingLostIsKept ==
  /\ NothingLost <=> (usage.append => \A s \in Seconds : Kept(disk[s], ingested[s]))
  /\ NothingLost' <=> (usage'.append => \A s \in Seconds : Kept(disk'[s], ingested'[s]))
BY DEF NothingLost, Kept, Full, InPlace, Counted, Blocks, NewestLength

LEMMA Multiples ==
  ASSUME NEW m \in Nat, NEW n \in Nat, m <= n
  PROVE  /\ m * FileSize \in Nat
         /\ m * FileSize <= n * FileSize
         /\ (m + 1) * FileSize = m * FileSize + FileSize
<1>1. FileSize \in Nat
  BY FileAssumption
<1>2. PICK d \in Nat : n = m + d
  <2>1. n - m \in Nat /\ n = m + (n - m)
    OBVIOUS
  <2> QED BY <2>1
<1>3. d * FileSize \in Nat /\ m * FileSize \in Nat
  BY <1>1
<1>4. (m + d) * FileSize = m * FileSize + d * FileSize
  BY <1>1
<1> QED BY <1>1, <1>2, <1>3, <1>4

\* The buffers in the partitions are among those that were given.
LEMMA PlacesGiven ==
  ASSUME NEW file \in Seq(PartitionType), NEW times \in Seq(Nat), Kept(file, times),
         NEW p \in DOMAIN file, NEW i \in DOMAIN file[p].blocks
  PROVE  (p - 1) * FileSize + i \in 1 .. Len(times)
<1> DEFINE n == Len(file)
           size == Len(file[p].blocks)
           newest == NewestLength(file)
<1>1. /\ n \in Nat /\ p \in 1 .. n
      /\ file # <<>>
      /\ file[p] \in PartitionType
      /\ size \in 1 .. FileSize /\ newest \in 1 .. FileSize
      /\ p < n => size = FileSize
      /\ p = n => size = newest
      /\ Len(times) = (n - 1) * FileSize + newest
  BY DEF Kept, Full, Counted, NewestLength
<1>2. i \in 1 .. size
  <2>1. file[p].blocks \in Seq([time : Nat, stamp : Int])
    BY <1>1 DEF PartitionType
  <2> QED BY <2>1
<1>3. FileSize \in Nat
  BY FileAssumption
<1>4. p - 1 \in Nat /\ n - 1 \in Nat /\ p - 1 <= n - 1
  BY <1>1
<1>5. (p - 1) * FileSize \in Nat /\ (n - 1) * FileSize \in Nat
  BY <1>4, Multiples
<1> HIDE DEF n, size, newest
<1>6. CASE p = n
  BY <1>1, <1>2, <1>3, <1>5, <1>6
<1>7. CASE p < n
  <2>1. p \in Nat /\ p <= n - 1
    BY <1>1, <1>7
  <2>2. p * FileSize <= (n - 1) * FileSize
    BY <1>4, <2>1, Multiples
  <2>3. ((p - 1) + 1) * FileSize = (p - 1) * FileSize + FileSize
    BY <1>4, Multiples
  <2>4. (p - 1) + 1 = p
    BY <2>1
  <2> DEFINE before == (p - 1) * FileSize
             most == (n - 1) * FileSize
  <2>5. before + FileSize <= most
    BY <2>2, <2>3, <2>4
  <2>6. before \in Nat /\ most \in Nat /\ Len(times) = most + newest
    BY <1>1, <1>5
  <2>7. i \in 1 .. FileSize /\ newest \in 1 .. FileSize
    BY <1>1, <1>2, <1>7
  <2> HIDE DEF before, most
  <2>8. before + i \in 1 .. Len(times)
    BY <1>3, <2>5, <2>6, <2>7
  <2> QED BY <2>8 DEF before
<1> QED BY <1>1, <1>6, <1>7

\* One more buffer does not change the places of the others.
LEMMA OthersInPlace ==
  ASSUME NEW file \in Seq(PartitionType), NEW times \in Seq(Nat), Kept(file, times),
         NEW p \in DOMAIN file, NEW now \in Nat
  PROVE  InPlace(file[p].blocks, p, Append(times, now))
<1> SUFFICES ASSUME NEW i \in DOMAIN file[p].blocks
             PROVE  file[p].blocks[i].time = Append(times, now)[(p - 1) * FileSize + i]
  BY DEF InPlace
<1> DEFINE place == (p - 1) * FileSize + i
<1>1. place \in 1 .. Len(times)
  BY PlacesGiven
<1>2. file[p].blocks[i].time = times[place]
  BY DEF Kept, InPlace
<1> HIDE DEF place
<1>3. Append(times, now)[place] = times[place]
  BY <1>1
<1> QED BY <1>2, <1>3 DEF place

\* When the newest partition is full, or there is none, the next buffer begins the next one.
LEMMA BegunKeeps ==
  ASSUME NEW file \in Seq(PartitionType), NEW times \in Seq(Nat), Kept(file, times),
         NEW new, NEW now \in Nat, Begun(file, new, now),
         file = <<>> \/ NewestLength(file) >= FileSize
  PROVE  Kept(new, Append(times, now))
<1>1. PICK part \in PartitionType, first \in Int :
        part.blocks = Append(<<>>, Block(now, first)) /\ new = Append(file, part)
  BY DEF Begun
<1> DEFINE n == Len(file)
<1>2. n \in Nat /\ FileSize \in Nat /\ FileSize >= 1 /\ n * FileSize \in Nat
  BY FileAssumption, Multiples
<1>3. /\ Len(part.blocks) = 1 /\ DOMAIN part.blocks = {1}
      /\ part.blocks[1].time = now
  BY <1>1 DEF Block
<1>4. /\ Len(new) = n + 1 /\ DOMAIN new = 1 .. n + 1 /\ DOMAIN file = 1 .. n
      /\ new # <<>>
      /\ new[n + 1] = part
      /\ \A p \in 1 .. n : new[p] = file[p]
  BY <1>1
<1>5. \A p \in 1 .. n : Len(file[p].blocks) = FileSize
  <2> DEFINE length(p) == Len(file[p].blocks)
  <2>1. \A p \in 1 .. n : /\ length(p) \in 1 .. FileSize
                          /\ p < n => length(p) = FileSize
    BY <1>4 DEF Kept, Full
  <2>2. n > 0 => length(n) >= FileSize
    BY DEF NewestLength
  <2> HIDE DEF n, length
  <2>3. n \in Nat /\ FileSize \in Nat
    BY <1>2
  <2>4. \A p \in 1 .. n : length(p) = FileSize
    BY <2>1, <2>2, <2>3
  <2> QED BY <2>4 DEF length
<1>6. Len(times) = n * FileSize
  <2>1. CASE file = <<>>
    BY <1>2, <2>1 DEF Kept, Counted
  <2>2. CASE file # <<>>
    <3>1. n - 1 \in Nat /\ (n - 1) + 1 = n /\ n \in 1 .. n
      BY <2>2
    <3>2. NewestLength(file) = FileSize
      BY <1>5, <3>1 DEF NewestLength
    <3>3. ((n - 1) + 1) * FileSize = (n - 1) * FileSize + FileSize
      BY <3>1, Multiples
    <3> QED BY <2>2, <3>1, <3>2, <3>3 DEF Kept, Counted
  <2> QED BY <2>1, <2>2
<1>7. (n + 1) - 1 = n
  BY <1>2
<1>8. Full(new)
  <2>1. \A p \in 1 .. n : Len(new[p].blocks) = FileSize
    BY <1>4, <1>5
  <2>2. Len(new[n + 1].blocks) = 1
    BY <1>3, <1>4
  <2> SUFFICES ASSUME NEW p \in 1 .. n + 1
               PROVE  /\ Len(new[p].blocks) \in 1 .. FileSize
                      /\ p < n + 1 => Len(new[p].blocks) = FileSize
    BY <1>4 DEF Full
  <2>3. p \in 1 .. n \/ p = n + 1
    BY <1>2
  <2> HIDE DEF n
  <2>4. FileSize \in Nat /\ FileSize >= 1 /\ n \in Nat
    BY <1>2
  <2>5. CASE p \in 1 .. n
    <3>1. Len(new[p].blocks) = FileSize
      BY <2>1, <2>5
    <3> QED BY <2>4, <3>1
  <2>6. CASE p = n + 1
    <3>1. Len(new[p].blocks) = 1 /\ ~(p < n + 1)
      BY <2>2, <2>4, <2>6
    <3> QED BY <2>4, <3>1
  <2> QED BY <2>3, <2>5, <2>6
<1>9. Counted(new, Append(times, now))
  <2>1. NewestLength(new) = 1
    BY <1>2, <1>3, <1>4 DEF NewestLength
  <2>2. Len(Append(times, now)) = Len(times) + 1
    OBVIOUS
  <2> QED BY <1>4, <1>6, <1>7, <2>1, <2>2 DEF Counted
<1>10. ASSUME NEW p \in DOMAIN new
       PROVE  InPlace(new[p].blocks, p, Append(times, now))
  <2>1. CASE p \in 1 .. n
    BY <1>4, <2>1, OthersInPlace
  <2>2. CASE p = n + 1
    <3>1. Append(times, now)[Len(times) + 1] = now
      OBVIOUS
    <3>2. InPlace(part.blocks, n + 1, Append(times, now))
      BY <1>3, <1>6, <1>7, <3>1 DEF InPlace
    <3> QED BY <1>4, <2>2, <3>2
  <2> QED BY <1>2, <1>4, <2>1, <2>2
<1> QED BY <1>8, <1>9, <1>10 DEF Kept

\* Otherwise it is added to the newest one.
LEMMA ContinuedKeeps ==
  ASSUME NEW file \in Seq(PartitionType), NEW times \in Seq(Nat), Kept(file, times),
         NEW new, NEW now \in Nat, Continued(file, new, now), NewestLength(file) < FileSize
  PROVE  Kept(new, Append(times, now))
<1>1. PICK part \in PartitionType, first \in Int :
        /\ file # <<>>
        /\ part.blocks = Append(file[Len(file)].blocks, Block(now, first))
        /\ new = [file EXCEPT ![Len(file)] = part]
  BY DEF Continued
<1> DEFINE n == Len(file)
           stored == file[n].blocks
           size == Len(stored)
           before == (n - 1) * FileSize
<1>2. n \in Nat \ {0} /\ DOMAIN file = 1 .. n /\ FileSize \in Nat
  BY <1>1, FileAssumption
<1>3. before \in Nat
  <2> DEFINE m == n - 1
  <2>1. m \in Nat /\ m <= m
    BY <1>2
  <2> HIDE DEF m
  <2>2. m * FileSize \in Nat
    BY <2>1, Multiples
  <2> QED BY <2>2 DEF m
<1>4. stored \in Seq([time : Nat, stamp : Int]) /\ size \in Nat
  <2>1. file[n] \in PartitionType
    BY <1>2
  <2> QED BY <2>1 DEF PartitionType
<1>5. /\ Len(part.blocks) = size + 1
      /\ DOMAIN part.blocks = 1 .. size + 1 /\ DOMAIN stored = 1 .. size
      /\ \A i \in 1 .. size : part.blocks[i] = stored[i]
      /\ part.blocks[size + 1].time = now
  BY <1>1, <1>4 DEF Block
<1>6. /\ Len(new) = n /\ DOMAIN new = 1 .. n /\ new # <<>>
      /\ new[n] = part
      /\ \A p \in 1 .. n - 1 : new[p] = file[p]
  BY <1>1, <1>2
<1>7. Len(times) = before + size
  BY <1>1 DEF Kept, Counted, NewestLength
<1> HIDE DEF before, size, stored
<1>8. Append(times, now)[before + (size + 1)] = now
         /\ Len(Append(times, now)) = before + (size + 1)
  <2>1. Len(times) + 1 = before + (size + 1)
    BY <1>3, <1>4, <1>7
  <2>2. Append(times, now)[Len(times) + 1] = now /\ Len(Append(times, now)) = Len(times) + 1
    OBVIOUS
  <2> QED BY <2>1, <2>2
<1>9. Full(new)
  <2>1. size < FileSize
    BY DEF NewestLength, size, stored
  <2>2. \A p \in 1 .. n - 1 : Len(new[p].blocks) = FileSize
    <3>1. \A p \in 1 .. n : p < n => Len(file[p].blocks) = FileSize
      BY <1>2 DEF Kept, Full
    <3> QED BY <1>2, <1>6, <3>1
  <2>3. FileSize >= 1
    BY FileAssumption
  <2> HIDE DEF n
  <2> QED BY <1>2, <1>4, <1>5, <1>6, <2>1, <2>2, <2>3 DEF Full
<1>10. Counted(new, Append(times, now))
  BY <1>5, <1>6, <1>8 DEF Counted, NewestLength, before
<1>11. ASSUME NEW p \in DOMAIN new
       PROVE  InPlace(new[p].blocks, p, Append(times, now))
  <2>1. CASE p \in 1 .. n - 1
    BY <1>2, <1>6, <2>1, OthersInPlace
  <2>2. CASE p = n
    <3>1. InPlace(stored, n, Append(times, now))
      BY <1>2, OthersInPlace DEF stored
    <3>2. ASSUME NEW i \in DOMAIN part.blocks
          PROVE  part.blocks[i].time = Append(times, now)[before + i]
      <4>1. CASE i \in 1 .. size
        <5>1. stored[i].time = Append(times, now)[before + i]
          BY <1>5, <3>1, <4>1 DEF InPlace, before
        <5> QED BY <1>5, <4>1, <5>1
      <4>2. CASE i = size + 1
        BY <1>5, <1>8, <4>2
      <4>3. i \in 1 .. size \/ i = size + 1
        <5>1. i \in 1 .. size + 1
          BY <1>5
        <5> QED BY <1>4, <5>1
      <4> QED BY <4>1, <4>2, <4>3
    <3> QED BY <1>6, <2>2, <3>2 DEF InPlace, before
  <2> QED BY <1>2, <1>6, <2>1, <2>2
<1> QED BY <1>9, <1>10, <1>11 DEF Kept
-----------------------------------------------------------------------------
(* The invariant                                                            *)

IInv == TypeOK /\ NothingLost

LEMMA InitKeepsAll == Init => IInv
<1> SUFFICES ASSUME Init PROVE IInv
  OBVIOUS
<1>1. TypeOK
  <2>1. usage \in Usages /\ timestamp = NoTime /\ NoTime \in Nat
    BY DEF Init, NoTime
  <2>2. disk \in [Seconds -> Seq(PartitionType)] /\ ingested \in [Seconds -> Seq(Nat)]
    BY DEF Init
  <2>3. time \in Nat \ {0}
    BY FileAssumption DEF Init
  <2> QED BY <2>1, <2>2, <2>3 DEF TypeOK
<1>2. ASSUME NEW s \in Seconds PROVE Kept(disk[s], ingested[s])
  <2>1. disk[s] = <<>> /\ ingested[s] = <<>>
    BY DEF Init
  <2> QED BY <2>1 DEF Kept, Full, InPlace, Counted
<1> QED BY <1>1, <1>2, NothingLostIsKept DEF IInv

\* A file of a second outside the bound is not looked at.
LEMMA OutOfBound ==
  ASSUME TypeOK, NEW ts \in Nat, NEW now \in Nat, Second(ts) \notin Seconds,
         ingest_data(ts, now)
  PROVE  disk' = disk
<1>1. ASSUME NEW id, NEW part, Put(ts, id, part)
      PROVE  disk' = disk
  <2>1. disk = [s \in Seconds |-> disk[s]]
    BY DEF TypeOK
  <2> DEFINE s == Second(ts)
  <2>2. PICK new : disk' = [disk EXCEPT ![s] = new]
    BY <1>1 DEF Put
  <2> HIDE DEF s
  <2> QED BY <2>1, <2>2 DEF s
<1> QED BY <1>1 DEF ingest_data, AppendToNewest, BeginPartition

LEMMA CallbackKeepsAll ==
  ASSUME IInv, Callback
  PROVE  IInv'
<1> DEFINE ts == BaseTimestamp
           s == Second(ts)
<1>1. TypeOK /\ NothingLost
  BY DEF IInv
<1>2. /\ time \in Nat /\ time # 0 /\ timestamp \in Nat
      /\ disk \in [Seconds -> Seq(PartitionType)]
      /\ ingested \in [Seconds -> Seq(Nat)]
      /\ usage \in Usages
  BY <1>1 DEF TypeOK
<1>3. ts \in Nat
  BY <1>2 DEF BaseTimestamp
<1>4. /\ ingest_data(ts, time)
      /\ timestamp' = Remembered
      /\ ingested' = [ingested EXCEPT ![s] = Append(@, time)]
      /\ \E gap \in Gaps : time' = time + NSamples + gap
      /\ usage' = usage
  BY DEF Callback
<1> HIDE DEF ts, s
<1>5. usage' \in Usages
  BY <1>2, <1>4
<1>6. timestamp' \in Nat /\ (timestamp' # NoTime => usage'.append)
  BY <1>3, <1>4 DEF Remembered, NoTime, ts
<1>7. time' \in Nat \ {0}
  BY <1>2, <1>4, FileAssumption
<1>8. ingested' \in [Seconds -> Seq(Nat)]
  <2>1. CASE s \in Seconds
    <3>1. Append(ingested[s], time) \in Seq(Nat)
      BY <1>2, <2>1
    <3> QED BY <1>2, <1>4, <3>1
  <2>2. CASE s \notin Seconds
    BY <1>2, <1>4, <2>2
  <2> QED BY <2>1, <2>2
<1>9. CASE s \in Seconds
  <2>1. PICK new \in Seq(PartitionType) :
          /\ disk' = [disk EXCEPT ![s] = new]
          /\ usage.append =>
               \/ /\ Begun(disk[s], new, time)
                  /\ disk[s] = <<>> \/ NewestLength(disk[s]) >= FileSize
               \/ /\ Continued(disk[s], new, time)
                  /\ NewestLength(disk[s]) < FileSize
    <3>1. Ingested(s, time)
      BY <1>1, <1>2, <1>3, <1>4, <1>9, IngestDataFiles DEF s
    <3> QED BY <3>1 DEF Ingested
  <2>2. disk' \in [Seconds -> Seq(PartitionType)]
    BY <1>2, <2>1
  <2>3. TypeOK'
    BY <1>5, <1>6, <1>7, <1>8, <2>2 DEF TypeOK
  <2>4. ASSUME usage'.append, NEW r \in Seconds
        PROVE  Kept(disk'[r], ingested'[r])
    <3>1. Kept(disk[r], ingested[r]) /\ usage.append
      BY <1>1, <1>4, <2>4, NothingLostIsKept
    <3>2. CASE r # s
      BY <1>2, <1>4, <2>1, <3>1, <3>2
    <3>3. CASE r = s
      <4>1. disk'[r] = new /\ ingested'[r] = Append(ingested[r], time)
        BY <1>2, <1>4, <2>1, <3>3
      <4>2. disk[r] \in Seq(PartitionType) /\ ingested[r] \in Seq(Nat)
        BY <1>2
      <4>3. Kept(new, Append(ingested[r], time))
        <5>1. CASE /\ Begun(disk[s], new, time)
                   /\ disk[s] = <<>> \/ NewestLength(disk[s]) >= FileSize
          BY <1>2, <3>1, <3>3, <4>2, <5>1, BegunKeeps
        <5>2. CASE Continued(disk[s], new, time) /\ NewestLength(disk[s]) < FileSize
          BY <1>2, <3>1, <3>3, <4>2, <5>2, ContinuedKeeps
        <5> QED BY <2>1, <3>1, <5>1, <5>2
      <4> QED BY <4>1, <4>3
    <3> QED BY <3>2, <3>3
  <2> QED BY <2>3, <2>4, NothingLostIsKept DEF IInv
<1>10. CASE s \notin Seconds
  <2>1. disk' = disk
    BY <1>1, <1>2, <1>3, <1>4, <1>10, OutOfBound DEF s
  <2>2. ingested' = ingested
    BY <1>2, <1>4, <1>10
  <2>3. TypeOK'
    BY <1>2, <1>5, <1>6, <1>7, <2>1, <2>2 DEF TypeOK
  <2>4. NothingLost'
    BY <1>1, <1>4, <2>1, <2>2, NothingLostIsKept
  <2> QED BY <2>3, <2>4 DEF IInv
<1> QED BY <1>9, <1>10

LEMMA StepKeepsAll == IInv /\ [Next]_vars => IInv'
<1> SUFFICES ASSUME IInv, [Next]_vars PROVE IInv'
  OBVIOUS
<1>1. CASE Callback
  BY <1>1, CallbackKeepsAll
<1>2. CASE Restart
  <2>1. TypeOK'
    BY <1>2 DEF IInv, TypeOK, Restart, NoTime
  <2>2. NothingLost'
    BY <1>2, NothingLostIsKept DEF IInv, Restart
  <2> QED BY <2>1, <2>2 DEF IInv
<1>3. CASE UNCHANGED vars
  <2>1. TypeOK'
    BY <1>3 DEF IInv, TypeOK, vars
  <2>2. NothingLost'
    BY <1>3, NothingLostIsKept DEF IInv, vars
  <2> QED BY <2>1, <2>2 DEF IInv
<1> QED BY <1>1, <1>2, <1>3 DEF Next

\* The files are sequences of partitions, which are sequences of buffers, whatever the kind
\* of file, the gaps and the restarts.
THEOREM TypeCorrect == Spec => []TypeOK
<1>1. IInv => TypeOK
  BY DEF IInv
<1> QED BY <1>1, InitKeepsAll, StepKeepsAll, PTL DEF Spec

\* In append mode the partitions that ingest_data writes hold every buffer that was filed
\* under their name, once and in the order they came, and all but the newest one are full.
THEOREM NoBufferIsLost == Spec => []NothingLost
<1>1. IInv => NothingLost
  BY DEF IInv
<1> QED BY <1>1, InitKeepsAll, StepKeepsAll, PTL DEF Spec
-----------------------------------------------------------------------------
(* Timestamps in append mode: how they grow, and what a partition keeps of  *)
(* them                                                                      *)

\* files whose partitions keep the span of their timestamps
Spanned == Stamped /\ usage.kind # "correlation"

\* the timestamp of a buffer that is added with this pad
Stamp(ts, now, pad) == RawStamp(now, ts, pad)

\* Whatever the kind, a buffer is appended or written with this timestamp and span.
LEMMA StampOfBuffer ==
  ASSUME usage \in Usages, Spanned, usage.append, NEW part,
         NEW ts \in Nat, NEW now \in Nat, NEW pad \in Int
  PROVE  /\ AppendData(part, ts, now, pad) = Appended(part, now, Stamp(ts, now, pad))
         /\ WriteData(ts, now, pad) = Written(NewPartition(ts), now, Stamp(ts, now, pad))
<1>1. usage \in Usage /\ usage.buffer_timestamp /\ Given(ts, now) = now
  BY FileAssumption, UsageAssumption DEF Given
<1>2. Padded(now, ts, pad) \in Int
  BY DEF Padded
<1>3. CASE usage.kind = "raw"
  BY <1>1, <1>3 DEF Spanned, Stamped, Stamp, AppendData, WriteData, AppendRaw, WriteRaw
<1>4. CASE usage.kind # "raw"
  <2>1. usage.sampling_time # 0
    BY <1>4 DEF Spanned, Stamped
  <2>2. FirstStamp(Given(ts, now), ts, pad) = Stamp(ts, now, pad)
    BY <1>1, <1>2, <2>1 DEF FirstStamp, Stamp, RawStamp
  <2> QED BY <1>1, <1>4, <2>2 DEF Spanned, AppendData, WriteData, Usage, Kinds,
       AppendChannel, AppendBeam, AppendStationBeam, WriteChannel, WriteBeam, WriteStationBeam
<1> QED BY <1>3, <1>4

\* A timestamp grows as time does, is no less than the pad, and without one no less than
\* the file's.
LEMMA StampGrows ==
  ASSUME usage \in Usages, NEW ts \in Nat, NEW now \in Nat, NEW pad \in Nat, ts <= now
  PROVE  /\ Stamp(ts, now, pad) \in Int
         /\ Stamp(ts, now, pad) >= pad
         /\ pad = 0 => /\ ts <= Stamp(ts, now, pad)
                       /\ now <= Stamp(ts, now, pad)
                       /\ Stamp(ts, now, pad) <= Stamp(now, now, 0)
<1>1. usage.sampling_time \in {0, 1}
  BY FileAssumption DEF Usage
<1> QED BY <1>1 DEF Stamp, RawStamp, Padded

LEMMA StampShifts ==
  ASSUME usage \in Usages, NEW ts \in Nat, NEW now \in Nat, NEW later \in Nat, NEW pad \in Nat
  PROVE  /\ Stamp(ts, now, pad) \in Int
         /\ Stamp(ts, later, pad) = Stamp(ts, now, pad) + (later - now)
<1>1. usage.sampling_time \in {0, 1}
  BY FileAssumption DEF Usage
<1> QED BY <1>1 DEF Stamp, RawStamp, Padded

\* the timestamps of a buffer
Width == NSamples * usage.sampling_time

LEMMA LastStampFacts ==
  ASSUME usage \in Usages, NEW x \in Int
  PROVE  /\ LastStamp(x) \in Int /\ x <= LastStamp(x)
         /\ LastStamp(x) + usage.sampling_time = x + Width
         /\ Width \in Nat /\ Width <= NSamples
         /\ \A y \in Int : x <= y => LastStamp(x) <= LastStamp(y)
<1>1. usage.sampling_time \in {0, 1} /\ NSamples \in Nat \ {0}
  BY FileAssumption DEF Usage
<1>2. CASE usage.sampling_time = 0
  BY <1>1, <1>2 DEF LastStamp, Width
<1>3. CASE usage.sampling_time = 1
  BY <1>1, <1>3 DEF LastStamp, Width
<1> QED BY <1>1, <1>2, <1>3

Newest(file) == file[Len(file)]

NewestBlock(file) == Newest(file).blocks[NewestLength(file)]

\* What StampsOrdered and SpanCovers say of one file.
InOrder(file) ==
  \A p, q \in DOMAIN file :
    \A i \in DOMAIN file[p].blocks, j \in DOMAIN file[q].blocks :
      p < q \/ (p = q /\ i < j) =>
        file[p].blocks[i].stamp + Width <= file[q].blocks[j].stamp

Covered(file) ==
  \A p \in DOMAIN file : \A i \in DOMAIN file[p].blocks :
    /\ file[p].ts_start <= file[p].blocks[i].stamp
    /\ LastStamp(file[p].blocks[i].stamp) <= file[p].ts_end

NonEmpty(file) == \A p \in DOMAIN file : file[p].blocks # <<>>

\* a file to which this buffer was added: at the end of the newest partition or in a new one
Extended(old, new, block) ==
  /\ new \in Seq(PartitionType) /\ new # <<>>
  /\ Len(new) \in {Len(old), Len(old) + 1}
  /\ \A p \in 1 .. Len(new) - 1 : new[p] = old[p]
  /\ Newest(new).ts_end = LastStamp(block.stamp)
  /\ Len(new) = Len(old) =>
       /\ Newest(new).blocks = Append(Newest(old).blocks, block)
       /\ Newest(new).ts_start = Newest(old).ts_start
  /\ Len(new) = Len(old) + 1 =>
       /\ Newest(new).blocks = <<block>>
       /\ Newest(new).ts_start <= block.stamp

BlockType == [time : Nat, stamp : Int]

LEMMA PartsAndBlocks ==
  ASSUME NEW file \in Seq(PartitionType)
  PROVE  /\ Len(file) \in Nat /\ DOMAIN file = 1 .. Len(file)
         /\ file # <<>> <=> Len(file) \in DOMAIN file
         /\ \A p \in DOMAIN file :
              /\ file[p] \in PartitionType
              /\ file[p].ts_start \in Int /\ file[p].ts_end \in Int
              /\ file[p].blocks \in Seq(BlockType)
              /\ Len(file[p].blocks) \in Nat
              /\ DOMAIN file[p].blocks = 1 .. Len(file[p].blocks)
              /\ \A i \in DOMAIN file[p].blocks : file[p].blocks[i].stamp \in Int
<1>1. /\ Len(file) \in Nat /\ DOMAIN file = 1 .. Len(file)
      /\ file # <<>> <=> Len(file) \in DOMAIN file
      /\ \A p \in DOMAIN file : file[p] \in PartitionType
  OBVIOUS
<1>2. ASSUME NEW part \in PartitionType
      PROVE  /\ part.ts_start \in Int /\ part.ts_end \in Int
             /\ part.blocks \in Seq(BlockType)
  BY DEF PartitionType, BlockType
<1>3. ASSUME NEW stored \in Seq(BlockType)
      PROVE  /\ Len(stored) \in Nat /\ DOMAIN stored = 1 .. Len(stored)
             /\ \A i \in DOMAIN stored : stored[i].stamp \in Int
  <2>1. ASSUME NEW i \in DOMAIN stored PROVE stored[i].stamp \in Int
    <3>1. stored[i] \in BlockType
      OBVIOUS
    <3> QED BY <3>1 DEF BlockType
  <2> QED BY <2>1
<1>4. ASSUME NEW p \in DOMAIN file
      PROVE  /\ file[p] \in PartitionType
             /\ file[p].ts_start \in Int /\ file[p].ts_end \in Int
             /\ file[p].blocks \in Seq(BlockType)
             /\ Len(file[p].blocks) \in Nat
             /\ DOMAIN file[p].blocks = 1 .. Len(file[p].blocks)
             /\ \A i \in DOMAIN file[p].blocks : file[p].blocks[i].stamp \in Int
  BY <1>1, <1>2, <1>3, Zenon
<1> QED BY <1>1, <1>4, Zenon

\* No timestamp in a file is greater than that of its last buffer.
LEMMA NewestIsGreatest ==
  ASSUME usage \in Usages, NEW file \in Seq(PartitionType), NonEmpty(file), InOrder(file),
         NEW p \in DOMAIN file, NEW i \in DOMAIN file[p].blocks
  PROVE  file[p].blocks[i].stamp <= NewestBlock(file).stamp
<1> DEFINE n == Len(file)
           m == NewestLength(file)
<1>1. n \in DOMAIN file /\ n \in Nat /\ p \in 1 .. n
  BY PartsAndBlocks
<1>2. m \in DOMAIN file[n].blocks /\ m \in Nat /\ DOMAIN file[n].blocks = 1 .. m
  BY <1>1, PartsAndBlocks DEF NonEmpty, NewestLength
<1>3. file[p].blocks[i].stamp \in Int /\ file[n].blocks[m].stamp \in Int
  BY <1>1, <1>2, PartsAndBlocks
<1>4. Width \in Nat
  <2>1. 0 \in Int
    OBVIOUS
  <2> QED BY <2>1, LastStampFacts
<1>5. NewestBlock(file) = file[n].blocks[m]
  BY DEF NewestBlock, Newest
<1> HIDE DEF n, m
<1>6. CASE p < n \/ (p = n /\ i < m)
  <2>1. file[p].blocks[i].stamp + Width <= file[n].blocks[m].stamp
    BY <1>1, <1>2, <1>6 DEF InOrder
  <2> QED BY <1>3, <1>4, <1>5, <2>1
<1>7. CASE p = n /\ i = m
  BY <1>3, <1>5, <1>7
<1> QED BY <1>1, <1>2, <1>6, <1>7

\* A buffer whose timestamp is far enough after the last one's keeps the order and the spans.
LEMMA ExtendedKeeps ==
  ASSUME usage \in Usages, NEW old \in Seq(PartitionType), NEW new, NEW block \in BlockType,
         Extended(old, new, block), NonEmpty(old), InOrder(old), Covered(old),
         old # <<>> =>
           NewestBlock(old).stamp + Width <= block.stamp
  PROVE  NonEmpty(new) /\ InOrder(new) /\ Covered(new) /\ NewestBlock(new) = block
<1> DEFINE n == Len(new)
           last == NewestLength(new)
           m == Len(old)
<1>0. n \in Nat /\ n # 0 /\ m \in Nat /\ (n = m \/ n = m + 1)
  <2>1. new \in Seq(PartitionType) /\ new # <<>> /\ n \in {m, m + 1}
    BY DEF Extended
  <2> QED BY <2>1
<1>1. /\ new \in Seq(PartitionType) /\ n \in Nat /\ n # 0 /\ n \in DOMAIN new
      /\ DOMAIN new = 1 .. n /\ DOMAIN old = 1 .. m
      /\ block.stamp \in Int /\ Width \in Nat
  <2>1. block.stamp \in Int
    BY DEF BlockType
  <2>2. Width \in Nat
    BY LastStampFacts
  <2>3. new \in Seq(PartitionType) /\ new # <<>> /\ n \in {Len(old), Len(old) + 1}
    BY DEF Extended
  <2> QED BY <2>1, <2>2, <2>3
<1>2. \A p \in 1 .. n - 1 : p \in DOMAIN old /\ new[p] = old[p]
  <2>1. \A p \in 1 .. n - 1 : new[p] = old[p]
    BY DEF Extended
  <2> HIDE DEF n, m
  <2>2. \A p \in 1 .. n - 1 : p \in 1 .. m
    BY <1>0
  <2> QED BY <1>1, <2>1, <2>2
<1>3. /\ last \in DOMAIN new[n].blocks /\ DOMAIN new[n].blocks = 1 .. last /\ last \in Nat
      /\ new[n].blocks[last] = block
      /\ \A i \in 1 .. last - 1 : /\ n \in DOMAIN old /\ i \in DOMAIN old[n].blocks
                                  /\ new[n].blocks[i] = old[n].blocks[i]
      /\ new[n].ts_end = LastStamp(block.stamp) /\ new[n].ts_start \in Int
      /\ \/ n \in DOMAIN old /\ new[n].ts_start = old[n].ts_start
         \/ n \notin DOMAIN old /\ new[n].ts_start <= block.stamp
  <2>1. /\ new[n].blocks \in Seq(BlockType) /\ new[n].ts_start \in Int
        /\ last = Len(new[n].blocks)
    BY <1>1, PartsAndBlocks DEF NewestLength
  <2>2. new[n].ts_end = LastStamp(block.stamp)
    BY DEF Extended, Newest
  <2>3. CASE n = m
    <3>1. /\ new[n].blocks = Append(old[n].blocks, block)
          /\ new[n].ts_start = old[n].ts_start
      BY <2>3 DEF Extended, Newest
    <3>2. n \in DOMAIN old
      BY <1>0, <1>1, <2>3
    <3>3. old[n].blocks \in Seq(BlockType)
      BY <3>2, PartsAndBlocks
    <3> DEFINE stored == old[n].blocks
               more == new[n].blocks
    <3> HIDE DEF n, last, stored, more
    <3>4. /\ last \in Nat /\ DOMAIN more = 1 .. last /\ last \in DOMAIN more
          /\ more[last] = block
          /\ \A i \in 1 .. last - 1 : i \in DOMAIN stored /\ more[i] = stored[i]
      <4>1. stored \in Seq(BlockType) /\ more = Append(stored, block) /\ last = Len(more)
        BY <2>1, <3>1, <3>3 DEF stored, more
      <4> QED BY <4>1
    <3> QED BY <2>1, <2>2, <3>1, <3>2, <3>4 DEF stored, more
  <2>4. CASE n = m + 1
    <3>1. new[n].blocks = <<block>> /\ new[n].ts_start <= block.stamp
      BY <2>4 DEF Extended, Newest
    <3>2. n \notin DOMAIN old
      BY <1>1, <2>4
    <3> DEFINE more == new[n].blocks
    <3> HIDE DEF n, last, more
    <3>3. /\ last = 1 /\ DOMAIN more = 1 .. last /\ more[last] = block
      BY <2>1, <3>1 DEF more
    <3> QED BY <2>1, <2>2, <3>1, <3>2, <3>3 DEF more
  <2> QED BY <1>0, <2>3, <2>4, Zenon
<1>4. NewestBlock(new) = block
  BY <1>3 DEF NewestBlock, Newest
<1>5. ASSUME NEW p \in DOMAIN new, NEW i \in DOMAIN new[p].blocks
      PROVE  \/ /\ p \in DOMAIN old /\ i \in DOMAIN old[p].blocks
                /\ new[p].blocks[i] = old[p].blocks[i]
                /\ p < n \/ i < last
             \/ p = n /\ i = last /\ new[p].blocks[i] = block
  <2> HIDE DEF n, last
  <2>1. CASE p = n
    BY <1>1, <1>3, <2>1
  <2>2. CASE p # n
    BY <1>1, <1>2, <2>2
  <2> QED BY <2>1, <2>2
<1>6. ASSUME NEW p \in DOMAIN old, NEW i \in DOMAIN old[p].blocks
      PROVE  old[p].blocks[i].stamp + Width <= block.stamp /\ old[p].blocks[i].stamp \in Int
  <2>1. old # <<>> /\ NewestBlock(old).stamp \in Int
    <3>1. old # <<>> /\ Len(old) \in DOMAIN old
      BY <1>1
    <3>2. NewestLength(old) \in DOMAIN old[Len(old)].blocks
      <4>1. old[Len(old)].blocks \in Seq(BlockType) /\ old[Len(old)].blocks # <<>>
        BY <3>1, PartsAndBlocks DEF NonEmpty
      <4> QED BY <4>1 DEF NewestLength
    <3>3. old[Len(old)].blocks[NewestLength(old)].stamp \in Int
      BY <3>1, <3>2, PartsAndBlocks
    <3> QED BY <3>1, <3>3 DEF NewestBlock, Newest
  <2>2. old[p].blocks[i].stamp <= NewestBlock(old).stamp
    BY NewestIsGreatest
  <2>3. old[p].blocks[i].stamp \in Int
    BY PartsAndBlocks
  <2>4. NewestBlock(old).stamp + Width <= block.stamp
    BY <2>1 DEF Width
  <2> QED BY <1>1, <2>1, <2>2, <2>3, <2>4
<1>7. NonEmpty(new)
  <2>1. \A p \in 1 .. n - 1 : new[p].blocks # <<>>
    BY <1>2 DEF NonEmpty
  <2>2. new[n].blocks # <<>>
    BY <1>3
  <2> HIDE DEF n
  <2> QED BY <1>1, <2>1, <2>2 DEF NonEmpty
<1> HIDE DEF n, last
<1>8. InOrder(new)
  <2> SUFFICES ASSUME NEW p \in DOMAIN new, NEW q \in DOMAIN new,
                      NEW i \in DOMAIN new[p].blocks, NEW j \in DOMAIN new[q].blocks,
                      p < q \/ (p = q /\ i < j)
               PROVE  new[p].blocks[i].stamp + Width <= new[q].blocks[j].stamp
    BY DEF InOrder
  <2>0. p \in 1 .. n /\ q \in 1 .. n
    BY <1>1
  <2>1. ~(p = n /\ i = last)
    <3> SUFFICES ASSUME p = n, i = last PROVE FALSE
      OBVIOUS
    <3>1. q = n /\ j \in 1 .. last /\ i < j
      BY <1>1, <1>3, <2>0
    <3> QED BY <1>3, <3>1
  <2>2. /\ p \in DOMAIN old /\ i \in DOMAIN old[p].blocks
        /\ new[p].blocks[i] = old[p].blocks[i]
    BY <1>5, <2>1
  <2>3. CASE q = n /\ j = last /\ new[q].blocks[j] = block
    BY <1>6, <2>2, <2>3
  <2>4. CASE /\ q \in DOMAIN old /\ j \in DOMAIN old[q].blocks
             /\ new[q].blocks[j] = old[q].blocks[j]
    BY <2>2, <2>4 DEF InOrder
  <2> QED BY <1>5, <2>3, <2>4
<1>9. Covered(new)
  <2> SUFFICES ASSUME NEW p \in DOMAIN new, NEW i \in DOMAIN new[p].blocks
               PROVE  /\ new[p].ts_start <= new[p].blocks[i].stamp
                      /\ LastStamp(new[p].blocks[i].stamp) <= new[p].ts_end
    BY DEF Covered
  <2>1. CASE p # n
    BY <1>1, <1>2, <2>1 DEF Covered
  <2>2. CASE p = n /\ i = last
    <3>1. n \in DOMAIN old => new[n].ts_start <= block.stamp
      <4> SUFFICES ASSUME n \in DOMAIN old PROVE new[n].ts_start <= block.stamp
        OBVIOUS
      <4>1. 1 \in DOMAIN old[n].blocks /\ old[n].ts_start \in Int
        <5>1. /\ old[n].blocks \in Seq(BlockType) /\ old[n].blocks # <<>>
              /\ old[n].ts_start \in Int
          BY PartsAndBlocks DEF NonEmpty
        <5> QED BY <5>1
      <4>2. old[n].ts_start <= old[n].blocks[1].stamp
        BY <4>1 DEF Covered
      <4>3. old[n].blocks[1].stamp + Width <= block.stamp /\ old[n].blocks[1].stamp \in Int
        BY <1>6, <4>1
        <4> QED BY <1>1, <1>3, <4>1, <4>2, <4>3
    <3>2. LastStamp(block.stamp) \in Int
      BY <1>1, LastStampFacts
    <3> QED BY <1>3, <2>2, <3>1, <3>2
  <2>3. CASE p = n /\ i # last
    <3>1. /\ n \in DOMAIN old /\ i \in DOMAIN old[n].blocks
          /\ new[n].blocks[i] = old[n].blocks[i]
      BY <1>5, <2>3
    <3>2. old[n].blocks[i].stamp + Width <= block.stamp /\ old[n].blocks[i].stamp \in Int
      BY <1>6, <3>1
    <3>3. old[n].blocks[i].stamp <= block.stamp
        <4> QED BY <1>1, <3>2
    <3>4. LastStamp(old[n].blocks[i].stamp) <= LastStamp(block.stamp)
      BY <1>1, <3>2, <3>3, LastStampFacts
    <3> QED BY <1>3, <2>3, <3>1, <3>4 DEF Covered
  <2> QED BY <2>1, <2>2, <2>3
<1> QED BY <1>4, <1>7, <1>8, <1>9

\* what is added to the timestamps of the newest partition
PadOf(file) ==
  IF Len(file) > 1 THEN file[Len(file) - 1].ts_end + usage.sampling_time ELSE 0

Positive(file) == \A p \in DOMAIN file : file[p].ts_end > 0

\* a new partition is begun if there is none, or the newest is full
InItsPlace(old, new) ==
  IF Len(new) = Len(old) THEN NewestLength(old) < FileSize
                         ELSE old = <<>> \/ NewestLength(old) >= FileSize

LEMMA PadType ==
  ASSUME usage \in Usages, NEW file \in Seq(PartitionType), Positive(file)
  PROVE  PadOf(file) \in Nat /\ (Len(file) > 1 => PadOf(file) > 0)
<1> DEFINE n == Len(file)
<1>1. n \in Nat /\ usage.sampling_time \in Nat
  BY FileAssumption DEF Usage
<1>2. CASE n > 1
  <2>1. n - 1 \in DOMAIN file
    BY <1>1, <1>2
  <2>2. file[n - 1].ts_end > 0 /\ file[n - 1].ts_end \in Int
    BY <2>1, PartsAndBlocks DEF Positive
  <2> HIDE DEF n
  <2> QED BY <1>1, <1>2, <2>2 DEF PadOf, n
<1>3. CASE ~(n > 1)
  BY <1>3 DEF PadOf
<1> QED BY <1>2, <1>3

\* Adding a buffer to a partition of append mode, new or not, keeps its span.
LEMMA SpansOfPartition ==
  ASSUME usage \in Usages, NEW part \in PartitionType, NEW now \in Nat, NEW x \in Int
  PROVE  /\ Appended(part, now, x) \in PartitionType
         /\ Appended(part, now, x).blocks = Append(part.blocks, Block(now, x))
         /\ Appended(part, now, x).ts_start = part.ts_start
         /\ Appended(part, now, x).ts_end = LastStamp(x)
         /\ Written(part, now, x) \in PartitionType
         /\ Written(part, now, x).blocks = Append(part.blocks, Block(now, x))
         /\ Written(part, now, x).ts_start = x
         /\ Written(part, now, x).ts_end = LastStamp(x)
<1>1. usage \in Usage
  BY FileAssumption
<1>2. /\ Appended(part, now, x) \in PartitionType
      /\ Appended(part, now, x).blocks = Append(part.blocks, Block(now, x))
      /\ Written(part, now, x) \in PartitionType
      /\ Written(part, now, x).blocks = Append(part.blocks, Block(now, x))
  BY <1>1, AddedBlock, Zenon
<1>3. /\ Appended(part, now, x).ts_start = part.ts_start
      /\ Appended(part, now, x).ts_end = LastStamp(x)
      /\ Written(part, now, x).ts_start = x
      /\ Written(part, now, x).ts_end = LastStamp(x)
  BY DEF Written, Appended, AddBlock, PartitionType
<1> QED BY <1>2, <1>3

\* ingest_data in append mode adds one buffer, with the timestamp that its pad gives it.
LEMMA IngestExtends ==
  ASSUME TypeOK, Spanned, usage.append, NEW ts \in Nat, NEW now \in Nat, ts <= now,
         Second(ts) \in Seconds, ingest_data(ts, now), Positive(disk[Second(ts)])
  PROVE  \E new \in Seq(PartitionType) :
           /\ disk' = [disk EXCEPT ![Second(ts)] = new]
           /\ Extended(disk[Second(ts)], new, Block(now, Stamp(ts, now, PadOf(new))))
           /\ InItsPlace(disk[Second(ts)], new)
<1> DEFINE s == Second(ts)
           old == disk[s]
           n == Len(old)
           Adds(new) ==
             /\ disk' = [disk EXCEPT ![s] = new]
             /\ Extended(old, new, Block(now, Stamp(ts, now, PadOf(new))))
             /\ InItsPlace(old, new)
<1> SUFFICES \E new \in Seq(PartitionType) : Adds(new)
  OBVIOUS
<1>1. /\ old \in Seq(PartitionType) /\ n \in Nat /\ usage \in Usages
      /\ DOMAIN old = 1 .. n /\ Len(old) = n
      /\ usage.sampling_time \in {0, 1} /\ FileSize \in Nat \ {0, 1}
  BY FileAssumption DEF TypeOK, Usage
<1>2. file_partitions(ts) = n - 1 /\ (n > 0 => Partition(ts, n - 1) = old[n])
  BY <1>1 DEF file_partitions, Partition
<1>3. n > 0 => file_size(ts) = NewestLength(old)
  BY <1>1, <1>2 DEF file_size, NewestLength
<1>4. ASSUME NEW id \in 0 .. n - 1
      PROVE  file_final_timestamp(ts, id) = old[id + 1].ts_end
  BY <1>2 DEF file_final_timestamp, Partition
<1>5. ASSUME NEW pad \in Nat
      PROVE  Stamp(ts, now, pad) \in Int /\ (pad = 0 => ts <= Stamp(ts, now, pad))
  BY <1>1, <1>5, StampGrows
<1>6. Positive(old) /\ (HasRoom(ts) <=> file_size(ts) < FileSize)
  BY DEF HasRoom
<1>7. n = 0 \/ n = 1 \/ n > 1
  <2> HIDE DEF n
  <2> QED BY <1>1
<1> HIDE DEF s, old, n, Adds
<1>a. CASE n = 0
  <2> DEFINE x == Stamp(ts, now, 0)
             part == Appended(NewPartition(ts), now, x)
             new == <<part>>
  <2>1. HasRoom(ts)
    BY <1>1, <1>2, <1>a DEF HasRoom, file_size
  <2>2. AppendPad(ts) = 0
    BY <1>2, <1>a DEF AppendPad
  <2>3. AppendData(NewPartition(ts), ts, now, 0) = part
    BY <1>1, StampOfBuffer
  <2>4. Put(ts, 0, part)
    <3>1. AppendToNewest(ts, now)
      BY <2>1 DEF ingest_data
    <3> HIDE DEF part
    <3> QED BY <1>2, <1>a, <2>2, <2>3, <3>1 DEF AppendToNewest
  <2>5. disk' = [disk EXCEPT ![s] = Append(old, part)]
    <3> HIDE DEF part
    <3> QED BY <1>a, <2>4 DEF Put, s, old, n
  <2>6. NewPartition(ts) \in PartitionType /\ NewPartition(ts).blocks = <<>>
        /\ NewPartition(ts).ts_start = ts
    BY DEF NewPartition, PartitionType
  <2>7. x \in Int /\ ts <= x
    BY <1>5
  <2> HIDE DEF x, Adds
  <2>8. /\ part \in PartitionType /\ part.blocks = Append(<<>>, Block(now, x))
        /\ part.ts_start = ts /\ part.ts_end = LastStamp(x)
    <3> DEFINE fresh == NewPartition(ts)
    <3> HIDE DEF fresh
    <3>1. /\ fresh \in PartitionType /\ fresh.blocks = <<>> /\ fresh.ts_start = ts
          /\ part = Appended(fresh, now, x)
      BY <2>6 DEF fresh
    <3>2. /\ Appended(fresh, now, x) \in PartitionType
          /\ Appended(fresh, now, x).blocks = Append(fresh.blocks, Block(now, x))
          /\ Appended(fresh, now, x).ts_start = fresh.ts_start
          /\ Appended(fresh, now, x).ts_end = LastStamp(x)
      <4>1. usage \in Usages /\ fresh \in PartitionType /\ now \in Nat /\ x \in Int
        BY <1>1, <2>7, <3>1
      <4> QED BY <4>1, SpansOfPartition, Zenon
    <3> HIDE DEF part
    <3> QED BY <3>1, <3>2
  <2> HIDE DEF part
  <2>9. /\ old = <<>> /\ Append(old, part) = new /\ new \in Seq(PartitionType)
        /\ new # <<>> /\ Len(new) = 1 /\ Newest(new) = part
    <3>1. old = <<>>
      BY <1>1, <1>a
    <3>2. /\ Append(<<>>, part) = <<part>> /\ <<part>> \in Seq(PartitionType)
          /\ <<part>> # <<>> /\ Len(<<part>>) = 1 /\ <<part>>[1] = part
      BY <2>8
    <3> QED BY <3>1, <3>2 DEF Newest
  <2>10. PadOf(new) = 0
    BY <2>9 DEF PadOf
  <2>11. Extended(old, new, Block(now, x))
    <3>1. Block(now, x).stamp = x /\ Append(<<>>, Block(now, x)) = <<Block(now, x)>>
      BY DEF Block
    <3>2. Len(new) = n + 1 /\ Len(new) # n
      BY <1>a, <2>9
    <3> HIDE DEF new
    <3> QED BY <1>1, <2>7, <2>8, <2>9, <3>1, <3>2 DEF Extended
  <2>12. InItsPlace(old, new)
    BY <1>1, <1>a, <2>9 DEF InItsPlace
  <2>13. Adds(new)
    <3> HIDE DEF new
    <3> QED BY <2>5, <2>9, <2>10, <2>11, <2>12 DEF x, Adds
  <2> HIDE DEF new
  <2> QED BY <2>9, <2>13
<1>8. CASE n > 0 /\ NewestLength(old) < FileSize
  <2> DEFINE newest == old[n]
             pad == PadOf(old)
             x == Stamp(ts, now, pad)
             part == Appended(newest, now, x)
             new == [old EXCEPT ![n] = part]
  <2>1. HasRoom(ts)
    BY <1>3, <1>8 DEF HasRoom
  <2>2. newest \in PartitionType /\ pad \in Nat
    BY <1>1, <1>6, <1>8, PadType
  <2>3. AppendPad(ts) = pad
    <3>1. CASE n = 1
      BY <1>1, <1>2, <3>1 DEF AppendPad, PadOf
    <3>2. CASE n > 1
      <4>1. n - 2 \in 0 .. n - 1 /\ (n - 2) + 1 = n - 1 /\ (n - 1) - 1 = n - 2 /\ n - 1 \in DOMAIN old
        BY <1>1, <3>2
      <4>2. file_final_timestamp(ts, n - 2) = old[n - 1].ts_end /\ old[n - 1].ts_end > 0
        BY <1>4, <1>6, <4>1 DEF Positive
      <4> QED BY <1>1, <1>2, <3>2, <4>1, <4>2 DEF AppendPad, PadOf
    <3> QED BY <1>7, <1>8, <3>1, <3>2
  <2> HIDE DEF pad
  <2>4. AppendData(newest, ts, now, pad) = part
    BY <1>1, <2>2, StampOfBuffer
  <2>5. Put(ts, n - 1, part)
    <3>1. AppendToNewest(ts, now)
      BY <2>1 DEF ingest_data
    <3> HIDE DEF part
    <3> QED BY <1>1, <1>2, <1>8, <2>3, <2>4, <3>1 DEF AppendToNewest
  <2>6. disk' = [disk EXCEPT ![s] = new]
    <3>1. n - 1 < n /\ (n - 1) + 1 = n
      BY <1>1
    <3> HIDE DEF part
    <3>2. n = Len(disk[Second(ts)]) /\ s = Second(ts) /\ new = [disk[Second(ts)] EXCEPT ![n] = part]
      BY DEF n, old, s
    <3> HIDE DEF new
    <3> QED BY <2>5, <3>1, <3>2 DEF Put
  <2>7. x \in Int
    BY <1>5, <2>2
  <2>8. /\ part \in PartitionType /\ part.blocks = Append(newest.blocks, Block(now, x))
        /\ part.ts_start = newest.ts_start /\ part.ts_end = LastStamp(x)
    <3> HIDE DEF x, newest
    <3>1. usage \in Usages /\ newest \in PartitionType /\ now \in Nat /\ x \in Int
      BY <1>1, <2>2, <2>7
    <3> QED BY <3>1, SpansOfPartition, Zenon
  <2> HIDE DEF part, x
  <2>9. /\ new \in Seq(PartitionType) /\ new # <<>> /\ Len(new) = n /\ Newest(new) = part
        /\ \A p \in 1 .. n - 1 : new[p] = old[p]
    BY <1>1, <1>8, <2>8 DEF Newest
  <2>10. PadOf(new) = pad
    <3>1. n > 1 => new[n - 1] = old[n - 1]
      BY <1>1, <2>9
    <3> HIDE DEF new
    <3> QED BY <1>1, <2>9, <3>1 DEF PadOf, pad, n
  <2>11. Extended(old, new, Block(now, x))
    <3>1. Block(now, x).stamp = x /\ Newest(old) = newest /\ n # n + 1
      BY <1>1 DEF Block, Newest
    <3> HIDE DEF new, newest
    <3> QED BY <1>1, <2>8, <2>9, <3>1 DEF Extended
  <2>12. InItsPlace(old, new)
    <3> HIDE DEF new
    <3> QED BY <1>1, <1>8, <2>9 DEF InItsPlace
  <2>13. Adds(new)
    <3> HIDE DEF new
    <3> QED BY <2>6, <2>10, <2>11, <2>12 DEF x, Adds
  <2> HIDE DEF new
  <2> QED BY <2>9, <2>13
<1>9. CASE n > 0 /\ NewestLength(old) >= FileSize
  <2> DEFINE pad == old[n].ts_end + usage.sampling_time
             x == Stamp(ts, now, pad)
             part == Written(NewPartition(ts), now, x)
             new == Append(old, part)
  <2>0. NewestLength(old) \in Nat /\ n \in DOMAIN old
    BY <1>1, <1>9, PartsAndBlocks DEF NewestLength
  <2>1. ~HasRoom(ts)
    BY <1>1, <1>3, <1>9, <2>0 DEF HasRoom
  <2>2. pad \in Nat
    <3>1. old[n].ts_end \in Int /\ old[n].ts_end > 0
      BY <1>1, <1>6, <2>0, PartsAndBlocks DEF Positive
    <3> QED BY <1>1, <3>1
  <2>3. file_final_timestamp(ts, n - 1) + usage.sampling_time = pad
    <3>1. n - 1 \in 0 .. n - 1 /\ (n - 1) + 1 = n
      BY <1>1, <1>9
    <3> QED BY <1>4, <3>1
  <2> HIDE DEF pad
  <2>4. WriteData(ts, now, pad) = part
    <3>1. pad \in Int /\ usage \in Usages
      BY <1>1, <2>2
    <3>2. ASSUME NEW any PROVE WriteData(ts, now, pad) = part
      BY <3>1, StampOfBuffer, Zenon
    <3> QED BY <3>2
  <2>5. Put(ts, n, part)
    <3>1. BeginPartition(ts, now)
      BY <2>1 DEF ingest_data
    <3>2. (n - 1) + 1 = n
      BY <1>1
    <3> HIDE DEF part
    <3> QED BY <1>2, <2>3, <2>4, <3>1, <3>2 DEF BeginPartition
  <2>6. disk' = [disk EXCEPT ![s] = new]
    <3>1. ~(n < n)
      BY <1>1
    <3> HIDE DEF part
    <3>2. n = Len(disk[Second(ts)]) /\ s = Second(ts) /\ new = Append(disk[Second(ts)], part)
      BY DEF n, old, s
    <3> HIDE DEF new
    <3> QED BY <2>5, <3>1, <3>2 DEF Put
  <2>7. x \in Int
    BY <1>5, <2>2
  <2>8. /\ part \in PartitionType /\ part.blocks = Append(<<>>, Block(now, x))
        /\ part.ts_start = x /\ part.ts_end = LastStamp(x)
    <3> DEFINE fresh == NewPartition(ts)
    <3>1. fresh \in PartitionType /\ fresh.blocks = <<>>
      BY DEF NewPartition, PartitionType
    <3> HIDE DEF x, fresh
    <3>2. part = Written(fresh, now, x)
      BY DEF fresh
    <3>3. /\ Written(fresh, now, x) \in PartitionType
          /\ Written(fresh, now, x).blocks = Append(fresh.blocks, Block(now, x))
          /\ Written(fresh, now, x).ts_start = x
          /\ Written(fresh, now, x).ts_end = LastStamp(x)
      <4>1. usage \in Usages /\ fresh \in PartitionType /\ now \in Nat /\ x \in Int
        BY <1>1, <2>7, <3>1
      <4> QED BY <4>1, SpansOfPartition, Zenon
    <3> HIDE DEF part
    <3> QED BY <3>1, <3>2, <3>3
  <2> HIDE DEF part, x
  <2>9. /\ new \in Seq(PartitionType) /\ new # <<>> /\ Len(new) = n + 1 /\ Newest(new) = part
        /\ \A p \in 1 .. n : new[p] = old[p]
    BY <1>1, <1>9, <2>8 DEF Newest
  <2>10. PadOf(new) = pad
    <3>1. new[n] = old[n] /\ n + 1 > 1 /\ (n + 1) - 1 = n
      BY <1>1, <1>9, <2>9
    <3> HIDE DEF new
    <3> QED BY <1>1, <2>9, <3>1 DEF PadOf, pad
  <2>11. Extended(old, new, Block(now, x))
    <3>1. /\ Block(now, x).stamp = x /\ Append(<<>>, Block(now, x)) = <<Block(now, x)>>
          /\ n # n + 1 /\ (n + 1) - 1 = n /\ x <= x
      BY <1>1, <2>7 DEF Block
    <3> HIDE DEF new
    <3> QED BY <1>1, <2>8, <2>9, <3>1 DEF Extended
  <2>12. InItsPlace(old, new)
    <3> HIDE DEF new
    <3> QED BY <1>1, <1>9, <2>9 DEF InItsPlace
  <2>13. Adds(new)
    <3> HIDE DEF new
    <3> QED BY <2>6, <2>10, <2>11, <2>12 DEF x, Adds
  <2> HIDE DEF new
  <2> QED BY <2>9, <2>13
<1>10. n > 0 => NewestLength(old) \in Nat
  <2>1. n > 0 => n \in DOMAIN old
    BY <1>1
  <2> QED BY <2>1, PartsAndBlocks DEF NewestLength
<1> QED BY <1>1, <1>7, <1>a, <1>8, <1>9, <1>10
-----------------------------------------------------------------------------
(* The invariant of the timestamps                                          *)

\* One file of append mode, now that the next buffer comes at this time and what is appended
\* is filed under ts (NoTime: not yet).  Timestamps grow and are within the spans; the last
\* is no greater than what its time and pad give under ts, or, if the file is of one
\* partition, under any later one; and the buffers of the first partition take up the time
\* since the beginning of the second that the file is named after.
Grown(file, s, ts, now) ==
  /\ NonEmpty(file) /\ InOrder(file) /\ Covered(file) /\ Positive(file)
  /\ file # <<>> =>
       LET last == NewestBlock(file) IN
       /\ last \in BlockType
       /\ Newest(file).ts_end = LastStamp(last.stamp)
       /\ last.time + NSamples <= now
       /\ s * TicksPerSecond + Len(file[1].blocks) * NSamples <= now
       /\ Len(file) = 1 => last.stamp <= Stamp(last.time, last.time, 0)
       /\ ts # NoTime /\ Second(ts) = s => last.stamp <= Stamp(ts, last.time, PadOf(file))

LEMMA SecondsOf ==
  ASSUME NEW t \in Nat, NEW s \in Int, Second(t) = s
  PROVE  s * TicksPerSecond <= t /\ t < s * TicksPerSecond + TicksPerSecond
<1>1. TicksPerSecond \in Nat \ {0}
  BY FileAssumption
<1>2. t = TicksPerSecond * (t \div TicksPerSecond) + (t % TicksPerSecond)
        /\ t % TicksPerSecond \in 0 .. TicksPerSecond - 1
  BY <1>1, SMT
<1>3. t = TicksPerSecond * s + (t % TicksPerSecond)
  BY <1>2 DEF Second
<1> QED BY <1>1, <1>2, <1>3

\* Once there is a second partition the second that names the file is over.
LEMMA SecondIsOver ==
  ASSUME NEW file \in Seq(PartitionType), NEW s \in Int, NEW ts, NEW now \in Nat,
         Grown(file, s, ts, now), Full(file), Len(file) > 1
  PROVE  Second(now) # s
<1>1. file # <<>> /\ 1 \in DOMAIN file /\ 1 < Len(file)
  OBVIOUS
<1>2. Len(file[1].blocks) = FileSize
  BY <1>1 DEF Full
<1>3. s * TicksPerSecond + FileSize * NSamples <= now
  BY <1>1, <1>2 DEF Grown
<1>4. TicksPerSecond <= FileSize * NSamples
  BY FileAssumption
<1> DEFINE begin == s * TicksPerSecond
           first == FileSize * NSamples
<1>5. begin \in Int /\ first \in Int /\ TicksPerSecond \in Int
  BY FileAssumption
<1>6. Second(now) = s => now < begin + TicksPerSecond
  BY SecondsOf
<1> HIDE DEF begin, first
<1>7. begin + first <= now /\ TicksPerSecond <= first
  BY <1>3, <1>4 DEF begin, first
<1> QED BY <1>5, <1>6, <1>7

\* the buffer that begins now is filed under ts, in the file of second s
Files(old, new, s, remembered, now, ts) ==
  /\ ts = IF remembered # NoTime THEN remembered ELSE now
  /\ remembered <= now
  /\ Second(ts) = s
  /\ Grown(old, s, remembered, now)
  /\ Full(old)
  /\ Extended(old, new, Block(now, Stamp(ts, now, PadOf(new))))
  /\ InItsPlace(old, new)

\* The timestamp of the buffer that comes next is far enough after the last one's.
LEMMA NextStamp ==
  ASSUME usage \in Usages, NEW old \in Seq(PartitionType), NEW new \in Seq(PartitionType),
         NEW s \in Int, NEW remembered \in Nat, NEW now \in Nat, NEW ts \in Nat,
         Files(old, new, s, remembered, now, ts), old # <<>>
  PROVE  NewestBlock(old).stamp + Width <= Stamp(ts, now, PadOf(new))
<1> DEFINE last == NewestBlock(old)
           n == Len(old)
           pad == PadOf(new)
           x == Stamp(ts, now, pad)
           y == last.stamp
           t == last.time
<1> SUFFICES y + Width <= x
  OBVIOUS
<1>1. /\ last \in BlockType /\ last.time + NSamples <= now
      /\ Newest(old).ts_end = LastStamp(last.stamp)
      /\ n = 1 => last.stamp <= Stamp(last.time, last.time, 0)
      /\ remembered # NoTime /\ Second(remembered) = s =>
           last.stamp <= Stamp(remembered, last.time, PadOf(old))
      /\ Positive(old)
  BY DEF Grown, Files
<1>2. y \in Int /\ t \in Nat /\ t + NSamples <= now
  BY <1>1 DEF BlockType
<1>3. /\ n \in Nat /\ n # 0 /\ n \in DOMAIN old /\ DOMAIN old = 1 .. n
      /\ Len(new) \in {n, n + 1} /\ NSamples \in Nat /\ ts <= now
      /\ \A p \in 1 .. Len(new) - 1 : new[p] = old[p]
  <2>1. n \in Nat /\ n # 0 /\ n \in DOMAIN old /\ DOMAIN old = 1 .. n
    OBVIOUS
  <2>2. NSamples \in Nat /\ ts <= now
    BY FileAssumption DEF Files
  <2>3. Len(new) \in {n, n + 1} /\ \A p \in 1 .. Len(new) - 1 : new[p] = old[p]
    BY DEF Extended, Files
  <2> QED BY <2>1, <2>2, <2>3
<1>4. LastStamp(last.stamp) + usage.sampling_time = last.stamp + Width
      /\ Width \in Nat /\ Width <= NSamples
  BY <1>2, LastStampFacts
<1>5. PadOf(old) \in Nat
  BY <1>1, PadType
<1>6. CASE Len(new) = n + 1
  <2>1. pad = old[n].ts_end + usage.sampling_time
    <3>1. Len(new) > 1 /\ Len(new) - 1 = n
      BY <1>3, <1>6
    <3>2. new[n] = old[n]
      <4>1. n \in 1 .. Len(new) - 1
        BY <1>3, <3>1
      <4> QED BY <1>3, <4>1
    <3> QED BY <3>1, <3>2 DEF PadOf
  <2>2. pad = last.stamp + Width
    BY <1>1, <1>4, <2>1 DEF Newest
  <2>3. pad \in Nat
    <3>1. old[n].ts_end > 0 /\ old[n].ts_end \in Int
      BY <1>1, <1>3, PartsAndBlocks DEF Positive
    <3>2. usage.sampling_time \in Nat
      BY FileAssumption DEF Usage
    <3> HIDE DEF pad, n
    <3> QED BY <2>1, <3>1, <3>2
  <2>4. x >= pad
    BY <1>3, <2>3, StampGrows
  <2> QED BY <2>2, <2>4
<1>7. CASE Len(new) = n
  <2>1. pad = PadOf(old)
    <3>1. n > 1 => new[n - 1] = old[n - 1]
      <4>1. n > 1 => n - 1 \in 1 .. Len(new) - 1
        BY <1>3, <1>7
      <4> QED BY <1>3, <4>1
    <3> QED BY <1>7, <3>1 DEF PadOf
  <2>2. CASE remembered # NoTime
    <3>1. y <= Stamp(ts, t, pad)
      BY <1>1, <2>1, <2>2 DEF Files
    <3> HIDE DEF t, pad
    <3>2. x \in Int /\ Stamp(ts, t, pad) = x + (t - now)
      <4>1. pad \in Nat /\ t \in Nat
        BY <1>2, <1>5, <2>1
      <4>2. Stamp(ts, now, pad) \in Int
        BY <4>1, StampShifts
      <4>3. Stamp(ts, t, pad) = Stamp(ts, now, pad) + (t - now)
        BY <4>1, StampShifts
      <4> QED BY <4>2, <4>3 DEF x
    <3> HIDE DEF x, y
    <3> QED BY <1>2, <1>3, <1>4, <3>1, <3>2
  <2>3. CASE remembered = NoTime
    <3>1. ts = now /\ ~(n > 1)
      BY <2>3, SecondIsOver DEF Files
    <3>2. n = 1 /\ pad = 0
      BY <1>3, <2>1, <3>1 DEF PadOf
    <3>3. y <= Stamp(t, t, 0) /\ x = Stamp(now, now, 0)
      BY <1>1, <3>1, <3>2
    <3> HIDE DEF x, y, t
    <3>4. Stamp(t, t, 0) \in Int /\ Stamp(t, now, 0) = Stamp(t, t, 0) + (now - t)
      BY <1>2, StampShifts
    <3>5. t <= now
      BY <1>2, <1>3
    <3>6. Stamp(t, now, 0) <= Stamp(now, now, 0) /\ Stamp(now, now, 0) \in Int
      <4>1. 0 \in Nat /\ t \in Nat
        BY <1>2
      <4>2. Stamp(t, now, 0) <= Stamp(now, now, 0)
        BY <3>5, <4>1, StampGrows, Zenon
      <4>3. Stamp(now, now, 0) \in Int
        BY <4>1, StampShifts, Zenon
      <4> QED BY <4>2, <4>3
    <3> QED BY <1>2, <1>3, <1>4, <3>3, <3>4, <3>5, <3>6
  <2> QED BY <2>2, <2>3
<1> QED BY <1>3, <1>6, <1>7

\* The partitions of a file that was extended.
LEMMA PartsOfExtended ==
  ASSUME NEW old \in Seq(PartitionType), NEW new, NEW block, Extended(old, new, block)
  PROVE  /\ Len(new) \in Nat /\ Len(new) # 0 /\ DOMAIN new = 1 .. Len(new)
         /\ Len(old) \in Nat /\ DOMAIN old = 1 .. Len(old)
         /\ Len(new) = 1 \/ Len(new) > 1
         /\ old = <<>> => Len(new) = 1 /\ Len(new) = Len(old) + 1
         /\ old # <<>> /\ Len(new) = 1 => Len(new) = Len(old)
         /\ Len(new) > 1 => /\ 1 \in 1 .. Len(new) - 1
                           /\ Len(new) - 1 \in 1 .. Len(new) - 1
         /\ \A p \in 1 .. Len(new) - 1 : p \in DOMAIN old /\ new[p] = old[p]
         /\ \A p \in DOMAIN new : p \in 1 .. Len(new) - 1 \/ p = Len(new)
<1> DEFINE n == Len(new)
           m == Len(old)
<1>1. /\ n \in Nat /\ n # 0 /\ DOMAIN new = 1 .. n
      /\ m \in Nat /\ DOMAIN old = 1 .. m /\ (old = <<>> <=> m = 0)
  <2>1. new \in Seq(PartitionType) /\ new # <<>>
    BY DEF Extended
  <2> QED BY <2>1
<1>2. /\ (n = m \/ n = m + 1)
      /\ \A p \in 1 .. n - 1 : new[p] = old[p]
  BY DEF Extended
<1> HIDE DEF n, m
<1>3. /\ n = 1 \/ n > 1
      /\ m = 0 => n = 1 /\ n = m + 1
      /\ m # 0 /\ n = 1 => n = m
      /\ n > 1 => 1 \in 1 .. n - 1 /\ n - 1 \in 1 .. n - 1
      /\ \A p \in 1 .. n - 1 : p \in 1 .. m
      /\ \A p \in 1 .. n : p \in 1 .. n - 1 \/ p = n
  BY <1>1, <1>2
<1> QED BY <1>1, <1>2, <1>3 DEF n, m

\* A buffer that is added to a file of append mode leaves it as it should be.
LEMMA GrownGrows ==
  ASSUME usage \in Usages, NEW old \in Seq(PartitionType), NEW new \in Seq(PartitionType),
         NEW s \in Int, NEW remembered \in Nat, NEW now \in Nat, NEW ts \in Nat, NEW later \in Nat,
         now # 0, later >= now + NSamples, Files(old, new, s, remembered, now, ts)
  PROVE  Grown(new, s, ts, later)
<1> DEFINE pad == PadOf(new)
           x == Stamp(ts, now, pad)
           block == Block(now, x)
           n == Len(new)
<1>a. Extended(old, new, block)
  BY DEF Files
<1> HIDE DEF block, x, pad
<1>0. /\ n \in Nat /\ n # 0 /\ DOMAIN new = 1 .. n
      /\ DOMAIN old = 1 .. Len(old)
      /\ n = 1 \/ n > 1
      /\ old = <<>> => n = 1 /\ n = Len(old) + 1
      /\ old # <<>> /\ n = 1 => n = Len(old)
      /\ n > 1 => 1 \in 1 .. n - 1 /\ n - 1 \in 1 .. n - 1
      /\ \A p \in 1 .. n - 1 : p \in DOMAIN old /\ new[p] = old[p]
      /\ \A p \in DOMAIN new : p \in 1 .. n - 1 \/ p = n
  BY <1>a, PartsOfExtended, Zenon
<1>b. /\ Newest(new).ts_end = LastStamp(block.stamp)
      /\ n = Len(old) => Newest(new).blocks = Append(Newest(old).blocks, block)
      /\ n = Len(old) + 1 => Newest(new).blocks = <<block>>
      /\ new # <<>>
  BY <1>a DEF Extended
<1> HIDE DEF n
<1>1. NonEmpty(old) /\ InOrder(old) /\ Covered(old) /\ Positive(old)
  BY DEF Grown, Files
<1>2. ts <= now /\ NSamples \in Nat /\ Second(ts) = s
  BY FileAssumption DEF Files
<1>3. pad \in Nat
  <2>1. CASE n > 1
    <3>1. n - 1 \in DOMAIN old /\ new[n - 1] = old[n - 1]
      BY <1>0, <2>1
    <3>2. new[n - 1].ts_end \in Int /\ new[n - 1].ts_end > 0
      BY <1>1, <3>1, PartsAndBlocks DEF Positive
    <3>3. usage.sampling_time \in Nat
      BY FileAssumption DEF Usage
    <3> QED BY <2>1, <3>2, <3>3 DEF PadOf, n, pad
  <2>2. CASE n = 1
    BY <2>2 DEF PadOf, n, pad
  <2> QED BY <1>0, <2>1, <2>2
<1>4. x \in Int /\ x > 0
  <2>1. x \in Int /\ x >= pad /\ (pad = 0 => now <= x)
    BY <1>2, <1>3, StampGrows, Zenon DEF x
  <2> QED BY <1>3, <2>1
<1>5. block \in BlockType /\ block.stamp = x /\ block.time = now
  BY <1>4 DEF block, Block, BlockType
<1>6. old # <<>> => NewestBlock(old).stamp + Width <= x
  <2> SUFFICES ASSUME old # <<>> PROVE NewestBlock(old).stamp + Width <= x
    OBVIOUS
  <2> QED BY NextStamp DEF x, pad
<1>7. NonEmpty(new) /\ InOrder(new) /\ Covered(new) /\ NewestBlock(new) = block
  BY <1>1, <1>5, <1>6, <1>a, ExtendedKeeps
<1>8. LastStamp(x) \in Int /\ LastStamp(x) >= x
  BY <1>4, LastStampFacts
<1>9. Positive(new)
  <2>1. \A p \in 1 .. n - 1 : new[p].ts_end > 0
    BY <1>0, <1>1 DEF Positive
  <2>2. new[n].ts_end > 0
    <3>1. new[n].ts_end = LastStamp(x)
      BY <1>b, <1>5 DEF Newest, n
    <3> QED BY <1>4, <1>8, <3>1
  <2> QED BY <1>0, <2>1, <2>2 DEF Positive
<1>10. s * TicksPerSecond + Len(new[1].blocks) * NSamples <= later
  <2> DEFINE begin == s * TicksPerSecond
             size == Len(new[1].blocks)
  <2>0. begin \in Int /\ later \in Nat
    BY FileAssumption
  <2>1. CASE old = <<>>
    <3>1. size = 1
      <4>1. n = 1 /\ Newest(new).blocks = <<block>>
        BY <1>0, <1>b, <2>1
      <4> QED BY <4>1 DEF Newest, n
    <3>2. begin <= ts
      BY <1>2, SecondsOf
    <3> HIDE DEF begin, size
    <3>3. begin + NSamples <= later
      BY <1>2, <2>0, <3>2
    <3>4. size * NSamples = NSamples
      BY <1>2, <3>1
    <3> QED BY <3>3, <3>4 DEF begin, size
  <2>2. CASE old # <<>>
    <3> DEFINE before == Len(old[1].blocks)
    <3>1. begin + before * NSamples <= now
      BY <2>2 DEF Grown, Files
    <3>2. 1 \in DOMAIN old /\ before \in Nat
      <4>1. 1 \in DOMAIN old
        BY <2>2
      <4> QED BY <4>1, PartsAndBlocks
    <3>3. size = before \/ size = before + 1
      <4>1. CASE n > 1
        <5>1. new[1] = old[1]
          BY <1>0, <4>1
        <5> QED BY <5>1
      <4>2. CASE n = 1
        <5>1. new[1].blocks = Append(old[1].blocks, block)
          BY <1>0, <1>b, <2>2, <4>2 DEF Newest, n
        <5>2. old[1].blocks \in Seq(BlockType)
          BY <3>2, PartsAndBlocks
        <5> QED BY <1>5, <5>1, <5>2
      <4> QED BY <1>0, <4>1, <4>2
    <3> DEFINE first == before * NSamples
    <3>4. first \in Nat /\ (before + 1) * NSamples = first + NSamples
      BY <1>2, <3>2
    <3>5. size * NSamples = first \/ size * NSamples = first + NSamples
      BY <3>3, <3>4
    <3> DEFINE second == size * NSamples
    <3> HIDE DEF begin, first, second, size, before
    <3>6. begin + first <= now /\ (second = first \/ second = first + NSamples)
      BY <3>1, <3>5 DEF first, second
    <3>7. begin + second <= later
      BY <1>2, <2>0, <3>4, <3>6
    <3> QED BY <3>7 DEF begin, second, size
  <2> QED BY <2>1, <2>2
<1>11. n = 1 => x <= Stamp(now, now, 0)
  <2> SUFFICES ASSUME n = 1 PROVE x <= Stamp(now, now, 0)
    OBVIOUS
  <2>1. pad = 0 /\ 0 \in Nat
    BY DEF pad, PadOf, n
  <2> QED BY <1>2, <2>1, StampGrows, Zenon DEF x
<1>12. x <= Stamp(ts, now, PadOf(new))
  BY <1>4 DEF x, pad
<1>13. now + NSamples <= later
  OBVIOUS
<1> QED BY <1>b, <1>5, <1>7, <1>9, <1>10, <1>11, <1>12, <1>13 DEF Grown, n

\* Time passes; what is appended next may be filed under another second, or not be known yet.
LEMMA StillGrown ==
  ASSUME NEW file \in Seq(PartitionType), NEW s, NEW ts, NEW now \in Nat,
         Grown(file, s, ts, now), NEW ts2, NEW later \in Nat, now <= later, s \in Int,
         ts2 # NoTime /\ Second(ts2) = s => ts2 = ts
  PROVE  Grown(file, s, ts2, later)
<1> DEFINE last == NewestBlock(file)
           begun == s * TicksPerSecond + Len(file[1].blocks) * NSamples
<1>1. /\ NonEmpty(file) /\ InOrder(file) /\ Covered(file) /\ Positive(file)
      /\ file # <<>> =>
           /\ last \in BlockType
           /\ Newest(file).ts_end = LastStamp(last.stamp)
           /\ last.time + NSamples <= now
           /\ begun <= now
           /\ Len(file) = 1 => last.stamp <= Stamp(last.time, last.time, 0)
           /\ ts # NoTime /\ Second(ts) = s => last.stamp <= Stamp(ts, last.time, PadOf(file))
  BY DEF Grown
<1>2. file # <<>> => last.time \in Int /\ NSamples \in Int /\ begun \in Int
  <2> SUFFICES ASSUME file # <<>> PROVE last.time \in Int /\ NSamples \in Int /\ begun \in Int
    OBVIOUS
  <2>1. last.time \in Int /\ NSamples \in Int /\ TicksPerSecond \in Int
    BY <1>1, FileAssumption DEF BlockType
  <2>2. Len(file[1].blocks) \in Int
    <3>1. 1 \in DOMAIN file
      OBVIOUS
    <3> QED BY <3>1, PartsAndBlocks
  <2> QED BY <2>1, <2>2
<1> HIDE DEF last, begun
<1>3. file # <<>> => last.time + NSamples <= later /\ begun <= later
  BY <1>1, <1>2
<1> QED BY <1>1, <1>3, Zenon DEF Grown, last, begun
-----------------------------------------------------------------------------
(* Outside append mode: a file holds the last buffer of its second alone    *)

Alone(file) ==
  file # <<>> => \E ts, now \in Nat : \E x \in Int :
                    file = <<Written(NewPartition(ts), now, x)>>

LEMMA WrittenAlone ==
  ASSUME usage \in Usages, NEW ts \in Nat, NEW now \in Nat, NEW x \in Int
  PROVE  /\ Written(NewPartition(ts), now, x).blocks = Append(<<>>, Block(now, x))
         /\ Written(NewPartition(ts), now, x).ts_start = x
         /\ Written(NewPartition(ts), now, x).ts_end = LastStamp(x)
<1> DEFINE fresh == NewPartition(ts)
<1>1. fresh \in PartitionType /\ fresh.blocks = <<>>
  BY DEF NewPartition, PartitionType
<1> HIDE DEF fresh
<1>2. /\ Written(fresh, now, x).blocks = Append(fresh.blocks, Block(now, x))
      /\ Written(fresh, now, x).ts_start = x
      /\ Written(fresh, now, x).ts_end = LastStamp(x)
  BY <1>1, SpansOfPartition, Zenon
<1> QED BY <1>1, <1>2 DEF fresh

LEMMA AloneIsOrdered ==
  ASSUME usage \in Usages, NEW file, Alone(file)
  PROVE  InOrder(file) /\ Covered(file)
<1>1. CASE file = <<>>
  BY <1>1 DEF InOrder, Covered
<1>2. CASE file # <<>>
  <2>1. PICK ts \in Nat, now \in Nat, x \in Int : file = <<Written(NewPartition(ts), now, x)>>
    BY <1>2 DEF Alone
  <2> DEFINE part == Written(NewPartition(ts), now, x)
  <2>2. /\ part.blocks = Append(<<>>, Block(now, x))
        /\ part.ts_start = x /\ part.ts_end = LastStamp(x)
    BY WrittenAlone
  <2> HIDE DEF part
  <2>3. /\ DOMAIN file = {1} /\ file[1] = part
        /\ DOMAIN part.blocks = {1} /\ part.blocks[1].stamp = x
    BY <2>1, <2>2 DEF part, Block
  <2>4. InOrder(file)
    BY <2>3 DEF InOrder
  <2>5. x <= x /\ LastStamp(x) <= LastStamp(x)
    BY LastStampFacts
  <2>6. Covered(file)
    BY <2>2, <2>3, <2>5 DEF Covered
  <2> QED BY <2>4, <2>6
<1> QED BY <1>1, <1>2

\* ingest_data outside append mode leaves one partition of one buffer: it never finds a full
\* one.
LEMMA IngestAlone ==
  ASSUME TypeOK, Spanned, ~usage.append, NEW ts \in Nat, NEW now \in Nat,
         Second(ts) \in Seconds, ingest_data(ts, now), Alone(disk[Second(ts)])
  PROVE  \E new \in Seq(PartitionType) :
           disk' = [disk EXCEPT ![Second(ts)] = new] /\ Alone(new)
<1> DEFINE s == Second(ts)
           old == disk[s]
           part == WriteData(ts, now, 0)
           new == <<part>>
<1>1. usage \in Usages /\ usage \in Usage /\ FileSize \in Nat /\ FileSize > 1
      /\ old \in Seq(PartitionType)
  BY FileAssumption DEF TypeOK
<1>2. \E x \in Int : part = Written(NewPartition(ts), now, x)
  <2> DEFINE given == IF usage.buffer_timestamp THEN now ELSE 0
  <2>1. given \in Int /\ Given(ts, now) \in Int
    BY DEF Given
  <2> HIDE DEF given
  <2>2. RawStamp(given, ts, 0) \in Int /\ FirstStamp(Given(ts, now), ts, 0) \in Int
    <3>1. usage \in Usage /\ 0 \in Int /\ ts \in Nat
      BY <1>1
    <3> QED BY <2>1, <3>1, StampsAreIntegers, Zenon
  <2>3. CASE usage.kind = "raw"
    <3>1. part = Written(NewPartition(ts), now, RawStamp(given, ts, 0))
      BY <2>3 DEF given, Spanned, Stamped, WriteData, WriteRaw
    <3> QED BY <2>2, <3>1
  <2>4. CASE usage.kind # "raw"
    <3>1. part = Written(NewPartition(ts), now, FirstStamp(Given(ts, now), ts, 0))
      BY <1>1, <2>4 DEF Spanned, WriteData, Usage, Kinds, WriteChannel, WriteBeam,
         WriteStationBeam
    <3> QED BY <2>2, <3>1
  <2> QED BY <2>3, <2>4
<1>3. part \in PartitionType
  BY <1>1, WriteDataBegins
<1>4. old = <<>> \/ (Len(old) = 1 /\ Len(old[1].blocks) = 1)
  <2> SUFFICES ASSUME old # <<>> PROVE Len(old) = 1 /\ Len(old[1].blocks) = 1
    OBVIOUS
  <2>1. PICK t \in Nat, u \in Nat, x \in Int : old = <<Written(NewPartition(t), u, x)>>
    BY DEF Alone
  <2>2. Written(NewPartition(t), u, x).blocks = Append(<<>>, Block(u, x))
    BY <1>1, WrittenAlone
  <2> QED BY <2>1, <2>2
<1>5. file_size(ts) <= 1 /\ file_size(ts) \in Int
  <2>1. file_partitions(ts) = Len(old) - 1
    BY DEF file_partitions
  <2>2. CASE old = <<>>
    BY <2>1, <2>2 DEF file_size
  <2>3. CASE Len(old) = 1 /\ Len(old[1].blocks) = 1
    <3>1. file_partitions(ts) = 0
      BY <2>1, <2>3
    <3>2. Partition(ts, 0) = old[1]
      BY DEF Partition
    <3>3. file_size(ts) = Len(Partition(ts, 0).blocks)
      BY <3>1 DEF file_size
    <3>4. file_size(ts) = 1
      BY <2>3, <3>2, <3>3, Zenon
    <3> QED BY <3>4
  <2> QED BY <1>4, <2>2, <2>3
<1>6. Put(ts, 0, part)
  <2>1. HasRoom(ts)
    BY <1>1, <1>5 DEF HasRoom
  <2> HIDE DEF part
  <2> QED BY <2>1 DEF ingest_data, part
<1>7. disk' = [disk EXCEPT ![s] = new] /\ new \in Seq(PartitionType)
  <2> HIDE DEF part
  <2>1. old = <<>> => Append(old, part) = new /\ ~(0 < Len(old))
    OBVIOUS
  <2>2. Len(old) = 1 => [old EXCEPT ![1] = part] = new /\ 0 < Len(old)
    BY <1>1, <1>3
  <2>3. disk' = [disk EXCEPT ![s] =
                   IF 0 < Len(old) THEN [old EXCEPT ![1] = part] ELSE Append(old, part)]
    BY <1>6 DEF Put
  <2>4. new \in Seq(PartitionType)
    BY <1>3
  <2> HIDE DEF s, old, new
  <2> QED BY <1>4, <2>1, <2>2, <2>3, <2>4
<1>8. Alone(new)
  BY <1>2 DEF Alone
<1> HIDE DEF new
<1> QED BY <1>7, <1>8
-----------------------------------------------------------------------------
(* The files of all seconds                                                 *)

SpanInv ==
  /\ timestamp <= time
  /\ Spanned => \A s \in Seconds :
       /\ usage.append => Grown(disk[s], s, timestamp, time)
       /\ ~usage.append => Alone(disk[s])

\* The consumer keeps its mode, so that the next state's files are judged by the same measure.
LEMMA SpanInvNext ==
  ASSUME usage' = usage,
         timestamp' <= time',
         Spanned => \A s \in Seconds :
           /\ usage.append => Grown(disk'[s], s, timestamp', time')
           /\ ~usage.append => Alone(disk'[s])
  PROVE  SpanInv'
<1>1. Spanned' <=> Spanned
  BY DEF Spanned, Stamped
<1>2. ASSUME NEW s \in Seconds
      PROVE  Grown(disk[s], s, timestamp, time)' <=> Grown(disk'[s], s, timestamp', time')
  <2>1. InOrder(disk[s])' <=> InOrder(disk'[s])
    BY DEF InOrder, Width
  <2>2. Covered(disk[s])' <=> Covered(disk'[s])
    BY DEF Covered, LastStamp
  <2> QED BY <2>1, <2>2
       DEF Grown, NewestBlock, Newest, NewestLength, Stamp, RawStamp, Padded, PadOf, LastStamp
<1>3. ASSUME NEW s \in Seconds
      PROVE  Alone(disk[s])' <=> Alone(disk'[s])
  BY DEF Alone, Written, Appended, AddBlock, LastStamp
<1> QED BY <1>1, <1>2, <1>3 DEF SpanInv

LEMMA InitSpans == Init => SpanInv
<1> SUFFICES ASSUME Init PROVE SpanInv
  OBVIOUS
<1>1. timestamp <= time
  BY FileAssumption DEF Init, NoTime
<1>2. ASSUME NEW s \in Seconds PROVE Grown(disk[s], s, timestamp, time) /\ Alone(disk[s])
  <2>1. disk[s] = <<>>
    BY DEF Init
  <2> QED BY <2>1 DEF Grown, Alone, NonEmpty, InOrder, Covered, Positive
<1> QED BY <1>1, <1>2 DEF SpanInv

LEMMA CallbackSpans ==
  ASSUME IInv, SpanInv, Callback
  PROVE  SpanInv'
<1> DEFINE ts == BaseTimestamp
           s == Second(ts)
<1>1. /\ TypeOK /\ NothingLost
      /\ usage \in Usages /\ time \in Nat /\ time # 0 /\ timestamp \in Nat
      /\ disk \in [Seconds -> Seq(PartitionType)]
      /\ timestamp <= time
  BY DEF IInv, TypeOK, SpanInv
<1>2. /\ ingest_data(ts, time)
      /\ timestamp' = Remembered
      /\ usage' = usage
  BY DEF Callback
<1>3. time' \in Nat /\ time' >= time + NSamples /\ time <= time'
  <2>1. PICK gap \in Gaps : time' = time + NSamples + gap
    BY DEF Callback
  <2> QED BY <1>1, <2>1, FileAssumption
<1>4. ts \in Nat /\ ts <= time /\ (~usage.append => timestamp' = NoTime)
      /\ (usage.append => timestamp' = ts)
      /\ ts = IF usage.append /\ timestamp # NoTime THEN timestamp ELSE time
  <2>1. CASE usage.append
    BY <1>1, <1>2, <2>1 DEF BaseTimestamp, Remembered
  <2>2. CASE ~usage.append
    BY <1>1, <1>2, <2>2 DEF BaseTimestamp, Remembered
  <2> QED BY <2>1, <2>2
<1>5. timestamp' <= time'
  BY <1>1, <1>3, <1>4 DEF NoTime
<1> HIDE DEF ts
<1>6. s \notin Seconds => disk' = disk
  BY <1>1, <1>2, <1>4, OutOfBound
<1>7. ASSUME Spanned, usage.append, NEW r \in Seconds
      PROVE  Grown(disk'[r], r, timestamp', time')
  <2>1. Grown(disk[r], r, timestamp, time)
    BY <1>7 DEF SpanInv
  <2>2. r \in Int /\ disk[r] \in Seq(PartitionType)
    <3>1. r \in Int
      BY DEF Seconds
    <3> QED BY <1>1, <3>1
  <2>3. CASE r # s
    <3>1. disk'[r] = disk[r]
      <4>1. CASE s \notin Seconds
        BY <1>6, <4>1
      <4>2. CASE s \in Seconds
        <5>1. PICK new \in Seq(PartitionType) : disk' = [disk EXCEPT ![s] = new]
          BY <1>1, <1>2, <1>4, <4>2, IngestDataFiles DEF Ingested
        <5> HIDE DEF s
        <5> QED BY <1>1, <2>3, <5>1
      <4> QED BY <4>1, <4>2
    <3>2. timestamp' # NoTime /\ Second(timestamp') = r => timestamp' = timestamp
      BY <1>4, <1>7, <2>3
    <3>3. Grown(disk[r], r, timestamp', time')
      BY <1>1, <1>3, <2>1, <2>2, <3>2, StillGrown
    <3> QED BY <3>1, <3>3
  <2>4. CASE r = s
    <3>1. Positive(disk[s])
      BY <2>1, <2>4 DEF Grown
    <3>2. PICK new \in Seq(PartitionType) :
            /\ disk' = [disk EXCEPT ![s] = new]
            /\ Extended(disk[s], new, Block(time, Stamp(ts, time, PadOf(new))))
            /\ InItsPlace(disk[s], new)
      BY <1>1, <1>2, <1>4, <1>7, <2>4, <3>1, IngestExtends
    <3>3. Full(disk[s])
      BY <1>1, <1>7, <2>4, NothingLostIsKept DEF Kept
    <3>4. ts = IF timestamp # NoTime THEN timestamp ELSE time
      BY <1>4, <1>7
    <3>5. Files(disk[s], new, s, timestamp, time, ts)
      BY <1>1, <2>1, <2>4, <3>2, <3>3, <3>4 DEF Files
    <3> HIDE DEF s
    <3>6. Grown(new, s, ts, time')
      BY <1>1, <1>3, <1>4, <2>2, <2>4, <3>5, GrownGrows
    <3>7. disk'[s] = new
      BY <1>1, <2>4, <3>2
    <3> QED BY <1>4, <1>7, <2>4, <3>6, <3>7
  <2> QED BY <2>3, <2>4
<1>8. ASSUME Spanned, ~usage.append, NEW r \in Seconds
      PROVE  Alone(disk'[r])
  <2>1. \A q \in Seconds : Alone(disk[q])
    BY <1>8 DEF SpanInv
  <2>2. CASE s \notin Seconds
    BY <1>6, <2>1, <2>2
  <2>3. CASE s \in Seconds
    <3>1. PICK new \in Seq(PartitionType) : disk' = [disk EXCEPT ![s] = new] /\ Alone(new)
      BY <1>1, <1>2, <1>4, <1>8, <2>1, <2>3, IngestAlone
    <3> HIDE DEF s
    <3>2. disk'[r] = IF r = s THEN new ELSE disk[r]
      BY <1>1, <2>3, <3>1
    <3> QED BY <2>1, <3>1, <3>2
  <2> QED BY <2>2, <2>3
<1> QED BY <1>2, <1>5, <1>7, <1>8, SpanInvNext

LEMMA StepSpans == IInv /\ SpanInv /\ [Next]_vars => SpanInv'
<1> SUFFICES ASSUME IInv, SpanInv, [Next]_vars PROVE SpanInv'
  OBVIOUS
<1>1. CASE Callback
  BY <1>1, CallbackSpans
<1>2. ASSUME usage' = usage, disk' = disk, time' = time,
             timestamp' = timestamp \/ timestamp' = NoTime
      PROVE  SpanInv'
  <2>1. timestamp' <= time'
    BY <1>2 DEF IInv, TypeOK, SpanInv, NoTime
  <2>2. ASSUME Spanned, usage.append, NEW s \in Seconds
        PROVE  Grown(disk'[s], s, timestamp', time')
    <3>1. Grown(disk[s], s, timestamp, time)
      BY <2>2 DEF SpanInv
    <3>2. disk[s] \in Seq(PartitionType) /\ time \in Nat /\ s \in Int /\ time <= time
      <4>1. s \in Int
        BY DEF Seconds
      <4> QED BY <4>1 DEF IInv, TypeOK
    <3>3. Grown(disk[s], s, timestamp', time)
      BY <1>2, <3>1, <3>2, StillGrown
    <3> QED BY <1>2, <3>3
  <2>3. ASSUME Spanned, ~usage.append, NEW s \in Seconds
        PROVE  Alone(disk'[s])
    BY <1>2, <2>3 DEF SpanInv
  <2> QED BY <1>2, <2>1, <2>2, <2>3, SpanInvNext
<1>3. CASE Restart
  BY <1>2, <1>3 DEF Restart
<1>4. CASE UNCHANGED vars
  BY <1>2, <1>4 DEF vars
<1> QED BY <1>1, <1>3, <1>4 DEF Next

LEMMA SpansOfFiles ==
  ASSUME IInv, SpanInv, Spanned, NEW s \in Seconds
  PROVE  InOrder(disk[s]) /\ Covered(disk[s])
<1>1. CASE usage.append
  BY <1>1 DEF SpanInv, Grown
<1>2. CASE ~usage.append
  <2>1. usage \in Usages /\ Alone(disk[s])
    BY <1>2 DEF SpanInv, IInv, TypeOK
  <2> QED BY <2>1, AloneIsOrdered
<1> QED BY <1>1, <1>2

\* The timestamps in the files grow from buffer to buffer and from partition to partition by
\* at least the duration of a buffer, whatever the pads that ingest_data adds, the gaps and the
\* restarts.
THEOREM StampsAreOrdered == Spec => []StampsOrdered
<1>1. IInv /\ SpanInv => StampsOrdered
  <2> SUFFICES ASSUME IInv, SpanInv, Spanned
               PROVE  \A s \in Seconds : InOrder(disk[s])
    BY DEF StampsOrdered, InOrder, Spanned, Blocks, Width
  <2> QED BY SpansOfFiles
<1> QED BY <1>1, InitKeepsAll, InitSpans, StepKeepsAll, StepSpans, PTL DEF Spec

\* ts_start and ts_end enclose the timestamps of every partition but those of correlation
\* files, so that a query by time may choose partitions by them.
THEOREM SpansAreCovered == Spec => []SpanCovers
<1>1. IInv /\ SpanInv => SpanCovers
  <2> SUFFICES ASSUME IInv, SpanInv, Spanned
               PROVE  \A s \in Seconds : Covered(disk[s])
    BY DEF SpanCovers, Covered, Spanned, Blocks
  <2> QED BY SpansOfFiles
<1> QED BY <1>1, InitKeepsAll, InitSpans, StepKeepsAll, StepSpans, PTL DEF Spec
-----------------------------------------------------------------------------
(* Readers and the writer, step by step under lock files: FileAccess        *)

\* Every partition has a lock, which somebody or nobody holds, and each process has at
\* most one file open.
LockType ==
  /\ lock \in [Partitions -> {Nobody, "writer", "reader"}]
  /\ DOMAIN writer = {"at", "file"}
  /\ DOMAIN reader = {"at", "file", "loops"}

\* Who has a partition open holds its lock; the reader may hold the locks of partitions
\* too that it has returned from without closing them.
OpenIsLocked ==
  restarts = 0 => \A p \in Partitions :
    /\ writer.file = p => lock[p] = "writer"
    /\ reader.file = p => lock[p] = "reader"

LockInv == LockType /\ restarts \in Nat /\ OpenIsLocked
-----------------------------------------------------------------------------
LEMMA NoFileIsNone == NoFile \notin Partitions
BY AccessAssumption, SMT DEF NoFile, Partitions

\* open_file gives the lock to the process that opens the partition, and takes none from
\* the other one.
LEMMA OpenLocks ==
  ASSUME LockType, NEW f, NEW who \in {"writer", "reader"}, open_file(f, who)
  PROVE  /\ lock' \in [Partitions -> {Nobody, "writer", "reader"}]
         /\ f \in Partitions => lock'[f] = who
         /\ \A p \in Partitions : lock[p] \notin {Nobody, who} => lock'[p] = lock[p]
BY DEF LockType, open_file, Nobody

\* close_file releases one lock and leaves the others.
LEMMA CloseUnlocks ==
  ASSUME LockType, NEW f, close_file(f)
  PROVE  /\ lock' \in [Partitions -> {Nobody, "writer", "reader"}]
         /\ \A p \in Partitions \ {f} : lock'[p] = lock[p]
BY DEF LockType, close_file, Nobody

\* A process that closes its file gives up one lock, and has no file open.
LEMMA WriterKeepsLocks ==
  ASSUME LockInv, Ingest \/ Writer
  PROVE  LockInv'
<1> USE NoFileIsNone DEF LockInv
<1>1. CASE Ingest
  <2>1. writer'.file = writer.file /\ UNCHANGED <<lock, reader, restarts>>
    BY <1>1 DEF Ingest, LockType
  <2>2. LockType'
    BY <1>1 DEF Ingest, LockType
  <2> QED BY <2>1, <2>2 DEF OpenIsLocked
<1>2. CASE WriterOpen
  <2>1. /\ lock' \in [Partitions -> {Nobody, "writer", "reader"}]
        /\ WriterFile \in Partitions => lock'[WriterFile] = "writer"
        /\ \A p \in Partitions : lock[p] = "reader" => lock'[p] = "reader"
    BY <1>2, OpenLocks DEF WriterOpen, Nobody
  <2>2. /\ writer'.file = WriterFile /\ DOMAIN writer' = {"at", "file"}
        /\ UNCHANGED <<reader, restarts>>
    BY <1>2 DEF WriterOpen, LockType
  <2> QED BY <2>1, <2>2 DEF LockType, OpenIsLocked
<1>3. CASE WriterClose
  <2>1. /\ lock' \in [Partitions -> {Nobody, "writer", "reader"}]
        /\ \A p \in Partitions \ {writer.file} : lock'[p] = lock[p]
    BY <1>3, CloseUnlocks DEF WriterClose, CloseRaises, LockType
  <2>2. /\ writer'.file = NoFile /\ DOMAIN writer' = {"at", "file"}
        /\ UNCHANGED <<reader, restarts>>
    BY <1>3 DEF WriterClose
  <2>3. ASSUME restarts = 0, NEW p \in Partitions, reader.file = p
        PROVE  p # writer.file
    BY <2>3 DEF OpenIsLocked
  <2> QED BY <2>1, <2>2, <2>3 DEF LockType, OpenIsLocked
<1> QED BY <1>1, <1>2, <1>3 DEF Writer

\* A step of the reader other than opening a file leaves it with none: it closes the one
\* it has, or leaves its lock behind.
ReaderLetsGo ==
  /\ reader'.file = NoFile /\ DOMAIN reader' = {"at", "file", "loops"}
  /\ UNCHANGED <<writer, restarts>>
  /\ UNCHANGED lock \/ close_file(reader.file)

LEMMA ReaderSteps ==
  ASSUME LockType, Reader
  PROVE  ReaderOpen \/ ReaderLetsGo
<1>1. ASSUME NEW at, NEW loops, CloseAndGo(at, loops), UnchangedByReader
      PROVE  ReaderLetsGo
  BY <1>1 DEF CloseAndGo, UnchangedByReader, ReaderLetsGo
<1>2. ASSUME NEW found, Return(found), UNCHANGED lock, UnchangedByReader
      PROVE  ReaderLetsGo
  BY <1>2 DEF Return, UnchangedByReader, ReaderLetsGo, LockType
<1>3. CASE ReaderRaises
  BY <1>2, <1>3 DEF ReaderRaises, CloseRaises
<1>4. CASE get_metadata
  BY <1>1, <1>4 DEF get_metadata
<1>5. CASE get_total_samples_in_all_partitions
  BY <1>1, <1>5 DEF get_total_samples_in_all_partitions
<1>6. CASE get_partitions_given_samples
  BY <1>1, <1>2, <1>6 DEF get_partitions_given_samples
<1>7. CASE get_end_partition
  BY <1>1, <1>7 DEF get_end_partition
<1>8. CASE part_metadata
  BY <1>1, <1>8 DEF part_metadata
<1>9. CASE _read_data
  BY <1>1, <1>9 DEF _read_data
<1> QED BY <1>3, <1>4, <1>5, <1>6, <1>7, <1>8, <1>9 DEF Reader

LEMMA ReaderKeepsLocks ==
  ASSUME LockInv, read_data \/ Reader
  PROVE  LockInv'
<1> USE NoFileIsNone DEF LockInv
<1>1. CASE read_data
  <2>1. /\ reader'.file = NoFile /\ DOMAIN reader' = {"at", "file", "loops"}
        /\ UNCHANGED <<lock, writer, restarts>>
    BY <1>1 DEF read_data, UnchangedByReader
  <2> QED BY <2>1 DEF LockType, OpenIsLocked
<1>2. CASE ReaderOpen
  <2>1. /\ lock' \in [Partitions -> {Nobody, "writer", "reader"}]
        /\ ReaderFile \in Partitions => lock'[ReaderFile] = "reader"
        /\ \A p \in Partitions : lock[p] = "writer" => lock'[p] = "writer"
    BY <1>2, OpenLocks DEF ReaderOpen, Nobody
  <2>2. /\ reader'.file = ReaderFile /\ DOMAIN reader' = {"at", "file", "loops"}
        /\ UNCHANGED <<writer, restarts>>
    BY <1>2 DEF ReaderOpen, LockType, UnchangedByReader
  <2> QED BY <2>1, <2>2 DEF LockType, OpenIsLocked
<1>3. CASE ReaderLetsGo
  <2>1. /\ lock' \in [Partitions -> {Nobody, "writer", "reader"}]
        /\ \A p \in Partitions \ {reader.file} : lock'[p] = lock[p]
    BY <1>3, CloseUnlocks DEF ReaderLetsGo, LockType
  <2>2. /\ reader'.file = NoFile /\ DOMAIN reader' = {"at", "file", "loops"}
        /\ UNCHANGED <<writer, restarts>>
    BY <1>3 DEF ReaderLetsGo
  <2>3. ASSUME restarts = 0, NEW p \in Partitions, writer.file = p
        PROVE  p # reader.file
    BY <2>3 DEF OpenIsLocked
  <2> QED BY <2>1, <2>2, <2>3 DEF LockType, OpenIsLocked
<1> QED BY <1>1, <1>2, <1>3, ReaderSteps

LEMMA LockInvInductive == LockInv /\ [AccessNext]_accessVars => LockInv'
<1> SUFFICES ASSUME LockInv, [AccessNext]_accessVars PROVE LockInv'
  OBVIOUS
<1>1. CASE RemoveLocks
  <2>1. restarts' # 0
    BY <1>1 DEF RemoveLocks, LockInv, LockType
  <2> QED BY <1>1, <2>1 DEF RemoveLocks, LockInv, LockType, OpenIsLocked
<1>2. CASE UNCHANGED accessVars
  BY <1>2 DEF accessVars, LockInv, LockType, OpenIsLocked
<1> QED BY <1>1, <1>2, WriterKeepsLocks, ReaderKeepsLocks DEF AccessNext

\* Whoever has a partition open holds its lock (open_file and close_file of aavs_file),
\* until a receiver that is started in the directory removes the locks.
THEOREM OpenPartitionsAreLocked == AccessSpec => []LockInv
<1>1. AccessInit => LockInv
  BY NoFileIsNone DEF AccessInit, LockInv, LockType, OpenIsLocked
<1> QED BY <1>1, LockInvInductive, PTL DEF AccessSpec

\* No partition is open in the receiver and the reader at once, unless a receiver was
\* started in the directory meanwhile and removed the locks.
THEOREM LocksExclude == AccessSpec => []ExclusiveAccess
<1>1. LockInv => ExclusiveAccess
  BY DEF LockInv, OpenIsLocked, ExclusiveAccess
<1> QED BY <1>1, OpenPartitionsAreLocked, PTL
-----------------------------------------------------------------------------
(* The partitions: all but the newest are full                              *)

\* The receiver knows, at each step of ingest_data, whether the newest partition is full.
WriterAt ==
  /\ writer.at \in {"idle", "final", "size", "latest", "append", "begin"}
  /\ writer.at = "idle" => writer.file = NoFile
  /\ writer.at \in {"final", "size", "latest", "begin"} => blocks # <<>>
  /\ writer.at # "idle" /\ blocks # <<>> /\ IsFull => Len(blocks) < MaxPartitions
  /\ writer.at \in {"latest", "begin"} => IsFull
  /\ writer.at = "append" /\ blocks # <<>> => ~IsFull

PartitionsFull ==
  /\ blocks \in Seq(1 .. FileSize) /\ Len(blocks) <= MaxPartitions
  /\ \A p \in DOMAIN blocks : p < Len(blocks) => blocks[p] = FileSize
  /\ WriterAt

LEMMA Elements ==
  ASSUME NEW S, NEW seq \in Seq(S), NEW i \in DOMAIN seq
  PROVE  seq[i] \in S
OBVIOUS

LEMMA Replaced ==
  ASSUME NEW S, NEW seq \in Seq(S), NEW i \in DOMAIN seq, NEW x \in S
  PROVE  LET new == [seq EXCEPT ![i] = x] IN
         /\ new \in Seq(S) /\ Len(new) = Len(seq) /\ DOMAIN new = DOMAIN seq
         /\ new[i] = x
         /\ \A j \in DOMAIN seq : j # i => new[j] = seq[j]
OBVIOUS

LEMMA NewestIsLast ==
  ASSUME blocks \in Seq(1 .. FileSize)
  PROVE  /\ Len(blocks) \in Nat /\ DOMAIN blocks = 1 .. Len(blocks)
         /\ NewestPartition = Len(blocks) - 1 /\ NewestPartition + 1 = Len(blocks) /\ NewestPartition \in Int
         /\ blocks = <<>> <=> Len(blocks) = 0
         /\ blocks # <<>> => /\ Len(blocks) \in DOMAIN blocks
                             /\ blocks[Len(blocks)] \in 1 .. FileSize
                             /\ IsFull <=> blocks[Len(blocks)] = FileSize
<1>1. /\ Len(blocks) \in Nat /\ DOMAIN blocks = 1 .. Len(blocks)
      /\ blocks = <<>> <=> Len(blocks) = 0
  OBVIOUS
<1>2. NewestPartition = Len(blocks) - 1 /\ NewestPartition + 1 = Len(blocks) /\ NewestPartition \in Int
  BY <1>1 DEF NewestPartition
<1>3. ASSUME blocks # <<>>
      PROVE  /\ Len(blocks) \in DOMAIN blocks
             /\ blocks[Len(blocks)] \in 1 .. FileSize
             /\ IsFull <=> blocks[Len(blocks)] = FileSize
  <2>1. Len(blocks) \in DOMAIN blocks
    BY <1>1, <1>3
  <2>2. blocks[Len(blocks)] \in 1 .. FileSize
    BY <2>1, Elements, Zenon
  <2> QED BY <1>2, <2>1, <2>2, AccessAssumption DEF IsFull
<1> QED BY <1>1, <1>2, <1>3

\* What the receiver writes: nothing, a new partition after full ones, or one more buffer.
Grew ==
  \/ blocks' = blocks
  \/ blocks' = Append(blocks, 1) /\ (blocks # <<>> => IsFull) /\ Len(blocks) < MaxPartitions
  \/ /\ blocks # <<>> /\ ~IsFull
     /\ blocks' = [blocks EXCEPT ![Len(blocks)] = @ + 1]

LEMMA StepGrows ==
  ASSUME PartitionsFull, [AccessNext]_accessVars
  PROVE  Grew
<1>1. CASE WriterClose
  <2>1. /\ NewestPartition + 1 = Len(blocks) /\ Len(blocks) \in Nat
        /\ blocks = <<>> <=> Len(blocks) = 0
        /\ MaxPartitions \in Nat \ {0}
    BY NewestIsLast, AccessAssumption DEF PartitionsFull
  <2>2. writer.at # "idle"
    BY <1>1 DEF WriterClose, PartitionsFull, WriterAt
  <2>3. WriterWrites
    BY <1>1 DEF WriterClose
  <2>4. CASE writer.at \in {"final", "size", "latest"}
    BY <2>3, <2>4 DEF WriterWrites, Grew
  <2>5. CASE writer.at = "append" /\ blocks # <<>>
    BY <2>1, <2>3, <2>5 DEF WriterWrites, PartitionsFull, WriterAt, Grew
  <2>6. CASE writer.at = "begin" \/ (writer.at = "append" /\ blocks = <<>>)
    <3>1. blocks' = Append(blocks, 1)
      BY <2>3, <2>6 DEF WriterWrites
    <3>2. (blocks # <<>> => IsFull) /\ Len(blocks) < MaxPartitions
      BY <2>1, <2>6 DEF PartitionsFull, WriterAt
    <3> QED BY <3>1, <3>2 DEF Grew
  <2> QED BY <2>2, <2>4, <2>5, <2>6 DEF PartitionsFull, WriterAt
<1>2. CASE UNCHANGED blocks
  BY <1>2 DEF Grew
<1>3. CASE Ingest \/ WriterOpen \/ read_data \/ RemoveLocks \/ UNCHANGED accessVars
  BY <1>2, <1>3 DEF Ingest, WriterOpen, read_data, RemoveLocks, UnchangedByReader, accessVars
<1>4. CASE Reader
  BY <1>2, <1>4 DEF Reader, ReaderOpen, ReaderRaises, get_metadata,
     get_total_samples_in_all_partitions, get_partitions_given_samples, get_end_partition,
     part_metadata, _read_data, UnchangedByReader
<1> QED BY <1>1, <1>3, <1>4 DEF AccessNext, Writer

\* However the files grow, they stay full but for the newest.
LEMMA GrewKeepsFull ==
  ASSUME blocks \in Seq(1 .. FileSize), Len(blocks) <= MaxPartitions,
         \A p \in DOMAIN blocks : p < Len(blocks) => blocks[p] = FileSize,
         Grew
  PROVE  /\ blocks' \in Seq(1 .. FileSize) /\ Len(blocks') <= MaxPartitions
         /\ \A p \in DOMAIN blocks' : p < Len(blocks') => blocks'[p] = FileSize
         /\ Len(blocks) <= Len(blocks')
         /\ \A p \in DOMAIN blocks : p \in DOMAIN blocks' /\ blocks[p] <= blocks'[p]
<1> DEFINE n == Len(blocks)
<1>1. /\ n \in Nat /\ DOMAIN blocks = 1 .. n /\ FileSize \in Nat \ {0}
      /\ \A p \in DOMAIN blocks : blocks[p] \in 1 .. FileSize
      /\ MaxPartitions \in Nat
      /\ blocks # <<>> => n \in DOMAIN blocks /\ n > 0 /\ (IsFull <=> blocks[n] = FileSize)
  BY NewestIsLast, AccessAssumption
<1>2. CASE blocks' = blocks
  BY <1>1, <1>2
<1>3. CASE blocks' = Append(blocks, 1) /\ (blocks # <<>> => IsFull) /\ n < MaxPartitions
  <2>1. /\ blocks' \in Seq(1 .. FileSize) /\ Len(blocks') = n + 1
        /\ DOMAIN blocks' = 1 .. n + 1
        /\ \A p \in 1 .. n : blocks'[p] = blocks[p]
    BY <1>1, <1>3
  <2>2. \A p \in 1 .. n : blocks[p] = FileSize
    <3>1. n > 0 => blocks # <<>>
      OBVIOUS
    <3> HIDE DEF n
    <3>2. \A p \in 1 .. n : p < n \/ (p = n /\ n > 0)
      BY <1>1
    <3> QED BY <1>1, <1>3, <3>1, <3>2 DEF n
  <2> HIDE DEF n
  <2> QED BY <1>1, <1>3, <2>1, <2>2
<1>4. CASE blocks # <<>> /\ ~IsFull /\ blocks' = [blocks EXCEPT ![n] = @ + 1]
  <2>1. blocks[n] \in 1 .. FileSize /\ blocks[n] # FileSize
    BY <1>1, <1>4
  <2>2. blocks[n] + 1 \in 1 .. FileSize /\ blocks[n] <= blocks[n] + 1
    BY <1>1, <2>1
  <2> DEFINE size == blocks[n] + 1
             new == [blocks EXCEPT ![n] = size]
  <2>3. blocks' = new /\ n \in DOMAIN blocks /\ size \in 1 .. FileSize
    BY <1>1, <1>4, <2>2
  <2> HIDE DEF size, n
  <2>4. /\ new \in Seq(1 .. FileSize) /\ Len(new) = n /\ DOMAIN new = DOMAIN blocks
        /\ new[n] = size
        /\ \A p \in DOMAIN blocks : p # n => new[p] = blocks[p]
    <3>1. ASSUME NEW i \in DOMAIN blocks
          PROVE  LET put == [blocks EXCEPT ![i] = size] IN
                 /\ put \in Seq(1 .. FileSize) /\ Len(put) = Len(blocks)
                 /\ DOMAIN put = DOMAIN blocks /\ put[i] = size
                 /\ \A p \in DOMAIN blocks : p # i => put[p] = blocks[p]
      BY <2>3, Replaced
    <3> QED BY <2>3, <3>1 DEF n
  <2>5. blocks[n] <= size
    BY <2>2 DEF size
  <2> HIDE DEF n, new
  <2>6. Len(blocks') = n /\ Len(blocks) = n
    BY <2>3, <2>4 DEF n
  <2>7. ASSUME NEW p \in DOMAIN blocks PROVE blocks[p] <= new[p]
    BY <1>1, <2>4, <2>5, <2>7
  <2>8. ASSUME NEW p \in DOMAIN blocks, p < n PROVE new[p] = FileSize
    <3>1. p # n
      BY <1>1, <2>8
    <3> QED BY <2>4, <2>6, <2>8, <3>1
  <2>9. n <= n
    BY <1>1
  <2> QED BY <2>3, <2>4, <2>6, <2>7, <2>8, <2>9
<1> QED BY <1>2, <1>3, <1>4 DEF Grew

LEMMA FullInductive == PartitionsFull /\ [AccessNext]_accessVars => PartitionsFull'
<1> SUFFICES ASSUME PartitionsFull, [AccessNext]_accessVars PROVE PartitionsFull'
  OBVIOUS
<1>1. /\ blocks' \in Seq(1 .. FileSize) /\ Len(blocks') <= MaxPartitions
      /\ \A p \in DOMAIN blocks' : p < Len(blocks') => blocks'[p] = FileSize
  BY StepGrows, GrewKeepsFull DEF PartitionsFull
<1>2. /\ NewestPartition = Len(blocks) - 1 /\ NewestPartition \in Int /\ Len(blocks) \in Nat
      /\ blocks = <<>> <=> Len(blocks) = 0
  BY NewestIsLast DEF PartitionsFull
<1>3. WriterAt
  BY DEF PartitionsFull
<1> SUFFICES WriterAt'
  BY <1>1 DEF PartitionsFull
<1>4. ASSUME UNCHANGED blocks, writer'.at = writer.at,
             writer.at = "idle" => writer'.file = writer.file
      PROVE  WriterAt'
  BY <1>3, <1>4 DEF WriterAt, IsFull, NewestPartition
<1>5. CASE Ingest
  <2>1. UNCHANGED blocks /\ (IsFull' <=> IsFull)
    BY <1>5 DEF Ingest, IsFull, NewestPartition
  <2>2. writer'.at = IF NewestPartition > 0 THEN "final" ELSE IF NewestPartition = 0 THEN "size" ELSE "append"
    BY <1>5 DEF Ingest
  <2>3. blocks # <<>> /\ IsFull => Len(blocks) < MaxPartitions
    BY <1>5 DEF Ingest
  <2>4. writer.file = NoFile /\ writer'.file = writer.file
    BY <1>3, <1>5 DEF Ingest, WriterAt
  <2> QED BY <1>2, <2>1, <2>2, <2>3, <2>4 DEF WriterAt
<1>6. CASE WriterOpen
  BY <1>4, <1>6 DEF WriterOpen
<1>7. CASE WriterClose
  <2>1. writer'.file = NoFile /\ writer'.at \in {AfterClose, "idle"}
    BY <1>7 DEF WriterClose
  <2>2. CASE writer'.at = "idle"
    BY <2>1, <2>2 DEF WriterAt
  <2>3. CASE writer'.at = AfterClose /\ writer'.at # "idle"
    <3>1. writer.at \in {"final", "size", "latest"}
      <4>1. writer.at # "idle"
        BY <1>3, <1>7 DEF WriterClose, WriterAt
      <4> QED BY <1>3, <2>3, <4>1 DEF AfterClose, WriterAt
    <3>2. UNCHANGED blocks /\ (IsFull' <=> IsFull)
      BY <1>7, <3>1 DEF WriterClose, WriterWrites, IsFull, NewestPartition
    <3> QED BY <1>3, <2>1, <2>3, <3>1, <3>2 DEF AfterClose, WriterAt
  <2> QED BY <2>1, <2>2, <2>3
<1>8. CASE read_data \/ RemoveLocks \/ UNCHANGED accessVars
  BY <1>4, <1>8 DEF read_data, RemoveLocks, UnchangedByReader, accessVars
<1>9. CASE Reader
  BY <1>4, <1>9 DEF Reader, ReaderOpen, ReaderRaises, get_metadata,
     get_total_samples_in_all_partitions, get_partitions_given_samples, get_end_partition,
     part_metadata, _read_data, UnchangedByReader
<1> QED BY <1>5, <1>6, <1>7, <1>8, <1>9 DEF AccessNext, Writer

\* All partitions but the newest are full, whatever the reader and other receivers do: what
\* the reader computes with one of them is true of all that it can see behind it.
THEOREM AllButNewestAreFull == AccessSpec => []PartitionsFull
<1>1. AccessInit => PartitionsFull
  BY AccessAssumption DEF AccessInit, PartitionsFull, WriterAt, NoFile
<1> QED BY <1>1, FullInductive, PTL DEF AccessSpec
-----------------------------------------------------------------------------
(* What is selected by time                                                 *)

LEMMA LeastIs ==
  ASSUME NEW S \in SUBSET Int, NEW m \in S, \A j \in S : m <= j
  PROVE  (CHOOSE i \in S : \A j \in S : i <= j) = m
<1> DEFINE least == CHOOSE i \in S : \A j \in S : i <= j
<1>1. least \in S /\ \A j \in S : least <= j
  OBVIOUS
<1> HIDE DEF least
<1>2. least <= m /\ m <= least /\ least \in Int /\ m \in Int
  BY <1>1
<1>3. least = m
  BY <1>2
<1> QED BY <1>3 DEF least

\* the first of n samples, the i-th of time begin + i, that is not before the span, and the
\* last that is not after it
FirstNotBefore(begin, from) == IF from - begin >= 1 THEN from - begin ELSE 1

LastNotAfter(begin, n, to) == IF to - begin < n THEN to - begin ELSE n

\* Of n samples, the i-th of time begin + i, those from first to last are not outside the span;
\* PartOfTimes leaves the last one out.
LEMMA PartOfSpan ==
  ASSUME NEW partition, NEW begin \in Int, NEW n \in Nat, NEW from \in Int, NEW to \in Int,
         begin + 1 <= to
  PROVE  LET first == FirstNotBefore(begin, from)
             last == LastNotAfter(begin, n, to)
             found == PartOfTimes(partition, [i \in 1 .. n |-> begin + i], from, to)
         IN
         /\ first > n => found = <<>>
         /\ first <= n => found = <<Part(partition, first - 1, last - 1)>>
<1> DEFINE first == FirstNotBefore(begin, from)
           last == LastNotAfter(begin, n, to)
           stamps == [i \in 1 .. n |-> begin + i]
           notBefore == {i \in DOMAIN stamps : stamps[i] >= from}
           after == {i \in DOMAIN stamps : stamps[i] > to}
           Least(S) == CHOOSE i \in S : \A j \in S : i <= j
           end == IF after = {} THEN Len(stamps) ELSE Least(after) - 1
<1>1. DOMAIN stamps = 1 .. n /\ Len(stamps) = n /\ \A i \in 1 .. n : stamps[i] = begin + i
  OBVIOUS
<1>0. /\ first = IF from - begin >= 1 THEN from - begin ELSE 1
      /\ last = IF to - begin < n THEN to - begin ELSE n
      /\ first \in Int /\ last \in Int
  BY DEF FirstNotBefore, LastNotAfter
<1> HIDE DEF stamps, first, last
<1>2. first > n => notBefore = {}
  BY <1>0, <1>1
<1>3. first <= n => notBefore # {} /\ Least(notBefore) = first
  <2> SUFFICES ASSUME first <= n PROVE notBefore # {} /\ Least(notBefore) = first
    OBVIOUS
  <2>1. /\ notBefore \in SUBSET Int /\ first \in notBefore
        /\ \A j \in notBefore : first <= j
    BY <1>0, <1>1
  <2> HIDE DEF notBefore
  <2> QED BY <2>1, LeastIs
<1>4. end = last
  <2>1. CASE to - begin < n
    <3> DEFINE m == last + 1
    <3>1. /\ after \in SUBSET Int /\ m \in after
          /\ \A j \in after : m <= j
      BY <1>0, <1>1, <2>1
    <3> HIDE DEF after, m
    <3>2. Least(after) = m /\ after # {}
      BY <3>1, LeastIs
    <3> HIDE DEF Least
    <3> QED BY <1>0, <3>2 DEF m
  <2>2. CASE ~(to - begin < n)
    <3>1. after = {} /\ last = n
      BY <1>0, <1>1, <2>2
    <3> QED BY <1>1, <3>1
  <2> QED BY <2>1, <2>2
<1> HIDE DEF notBefore, end, Least
<1>5. PartOfTimes(partition, stamps, from, to) =
        IF notBefore = {} THEN <<>> ELSE <<Part(partition, Least(notBefore) - 1, end - 1)>>
  BY DEF PartOfTimes, notBefore, end, after, Least
<1>6. /\ first > n => PartOfTimes(partition, stamps, from, to) = <<>>
      /\ first <= n =>
           PartOfTimes(partition, stamps, from, to) = <<Part(partition, first - 1, last - 1)>>
  BY <1>2, <1>3, <1>4, <1>5
<1> QED BY <1>6 DEF stamps, first, last

LEMMA SamplesOf ==
  ASSUME blocks \in Seq(1 .. FileSize), NEW p \in 0 .. NewestPartition
  PROVE  /\ Samples(p) \in Nat \ {0}
         /\ p * FileSize * NSamples \in Nat
<1>1. FileSize \in Nat \ {0} /\ NSamples \in Nat \ {0}
  BY AccessAssumption
<1>2. p + 1 \in DOMAIN blocks /\ p \in Nat
  BY NewestIsLast
<1>3. blocks[p + 1] \in 1 .. FileSize
  BY <1>2, Elements, Zenon
<1>4. ASSUME NEW a \in Nat \ {0}, NEW b \in Nat \ {0} PROVE a * b \in Nat \ {0}
  BY <1>4, SMT
<1>5. blocks[p + 1] \in Nat \ {0}
  BY <1>1, <1>3
<1>6. Samples(p) \in Nat \ {0}
  BY <1>1, <1>4, <1>5 DEF Samples
<1>7. ASSUME NEW a \in Nat, NEW b \in Nat PROVE a * b \in Nat
  BY <1>7, SMT
<1>8. p * FileSize \in Nat
  BY <1>1, <1>2, <1>7
<1>9. p * FileSize * NSamples \in Nat
  BY <1>1, <1>7, <1>8
<1> QED BY <1>6, <1>9

LEMMA WrittenIsNumber ==
  ASSUME blocks \in Seq(1 .. FileSize)
  PROVE  SamplesWritten \in Nat
<1>1. CASE blocks = <<>>
  BY <1>1 DEF SamplesWritten
<1>2. CASE blocks # <<>>
  <2>1. NewestPartition \in 0 .. NewestPartition
    BY <1>2, NewestIsLast
  <2>2. Samples(NewestPartition) \in Nat /\ NewestPartition * FileSize * NSamples \in Nat
    BY <2>1, SamplesOf
  <2> QED BY <1>2, <2>2 DEF SamplesWritten, Global
<1> QED BY <1>1, <1>2

LEMMA SelectedInside ==
  ASSUME blocks \in Seq(1 .. FileSize), NEW p \in 0 .. NewestPartition, NEW from \in Int, NEW to \in Int,
         from <= to
  PROVE  LET inside == {k \in Global(p, 1) .. Global(p, Samples(p)) : k \in from .. to} IN
         /\ Selected(p, from, to) \subseteq inside
         /\ \A k, l \in inside \ Selected(p, from, to) : k = l
<1> DEFINE begin == p * FileSize * NSamples
           n == Samples(p)
           inside == {k \in begin + 1 .. begin + n : k \in from .. to}
           first == FirstNotBefore(begin, from)
           last == LastNotAfter(begin, n, to)
           stamps == [i \in 1 .. n |-> begin + i]
           found == PartOfTimes(p, stamps, from, to)
<1> HIDE DEF found
<1>1. begin \in Nat /\ n \in Nat \ {0}
  BY SamplesOf
<1>2. Selected(p, from, to) =
        IF begin + 1 > to \/ found = <<>> THEN {}
        ELSE {begin + i : i \in found[1].first + 1 .. found[1].last}
  BY DEF Selected, Global, found
<1> HIDE DEF begin, n
<1>3. /\ first \in Int /\ last \in Int
      /\ first = IF from - begin >= 1 THEN from - begin ELSE 1
      /\ last = IF to - begin < n THEN to - begin ELSE n
  BY <1>1 DEF FirstNotBefore, LastNotAfter
<1> HIDE DEF first, last
<1> SUFFICES /\ Selected(p, from, to) \subseteq inside
             /\ \A k, l \in inside \ Selected(p, from, to) : k = l
  BY DEF Global, begin, n
<1>4. CASE begin + 1 > to
  <2>1. inside = {}
    BY <1>1, <1>4
  <2>2. Selected(p, from, to) = {}
    BY <1>2, <1>4
  <2> QED BY <2>1, <2>2
<1>5. CASE begin + 1 <= to
  <2>1. /\ first > n => found = <<>>
        /\ first <= n => found = <<Part(p, first - 1, last - 1)>>
    <3>1. begin \in Int /\ n \in Nat
      BY <1>1
    <3>2. /\ FirstNotBefore(begin, from) > n =>
               PartOfTimes(p, [i \in 1 .. n |-> begin + i], from, to) = <<>>
          /\ FirstNotBefore(begin, from) <= n =>
               PartOfTimes(p, [i \in 1 .. n |-> begin + i], from, to)
                 = <<Part(p, FirstNotBefore(begin, from) - 1, LastNotAfter(begin, n, to) - 1)>>
      BY <1>5, <3>1, PartOfSpan, ZenonT(60)
    <3> QED BY <3>2 DEF found, stamps, first, last
  <2>2. CASE first > n
    <3>1. Selected(p, from, to) = {}
      BY <1>2, <2>1, <2>2
    <3>2. inside = {}
      BY <1>1, <1>3, <2>2
    <3> QED BY <3>1, <3>2
  <2>3. CASE first <= n
    <3>1. found # <<>> /\ found[1].first = first - 1 /\ found[1].last = last - 1
      BY <1>3, <2>1, <2>3 DEF Part
    <3>2. (first - 1) + 1 = first
      BY <1>3
    <3>3. ~(begin + 1 > to)
      BY <1>1, <1>5
    <3>4. Selected(p, from, to) = {begin + i : i \in first .. last - 1}
      BY <1>2, <3>1, <3>2, <3>3
    <3>5. ASSUME NEW k \in Selected(p, from, to) PROVE k \in inside
      <4>1. PICK i \in first .. last - 1 : k = begin + i
        BY <3>4
      <4> QED BY <1>1, <1>3, <4>1
    <3>6. ASSUME NEW k \in inside \ Selected(p, from, to) PROVE k = begin + last
      <4>1. k - begin \in first .. last /\ k = begin + (k - begin)
        BY <1>1, <1>3
      <4>2. k - begin \notin first .. last - 1
        BY <3>4, <4>1
      <4> QED BY <1>1, <1>3, <4>1, <4>2
    <3> QED BY <3>5, <3>6
  <2> QED BY <1>1, <1>3, <2>2, <2>3
<1> QED BY <1>1, <1>4, <1>5

\* Selected by time (get_file_partition_indexes_to_read_given_ts), no partition gives a sample
\* outside the span, and each leaves out one at most, whatever was written so far.
THEOREM TimesAreInside == AccessSpec => []TimesInside
<1>1. PartitionsFull => TimesInside
  <2> SUFFICES ASSUME PartitionsFull, NEW p \in 0 .. NewestPartition,
                      NEW from \in 1 .. SamplesWritten, NEW to \in 1 .. SamplesWritten, from <= to
               PROVE  LET inside == {k \in Global(p, 1) .. Global(p, Samples(p)) : k \in from .. to} IN
                      /\ Selected(p, from, to) \subseteq inside
                      /\ \A k, l \in inside \ Selected(p, from, to) : k = l
    BY DEF TimesInside
  <2>1. blocks \in Seq(1 .. FileSize) /\ from \in Int /\ to \in Int
    BY WrittenIsNumber DEF PartitionsFull
  <2> QED BY <2>1, SelectedInside, Zenon
<1> QED BY <1>1, AllButNewestAreFull, PTL
-----------------------------------------------------------------------------
(* What a file of two partitions holds                                      *)

\* samples of a full partition, and those of a file whose partitions have b buffers
FullSize == FileSize * NSamples

SizeIn(b, p) == NSamples * b[p + 1]

WrittenIn(b) ==
  IF b = <<>> THEN 0 ELSE (Len(b) - 1) * FileSize * NSamples + SizeIn(b, Len(b) - 1)

Filled(b) ==
  b \in Seq(1 .. FileSize) /\ \A p \in DOMAIN b : p < Len(b) => b[p] = FileSize

LEMMA InFile ==
  /\ SamplesWritten = WrittenIn(blocks) /\ SamplesWritten' = WrittenIn(blocks')
  /\ \A p : Samples(p) = SizeIn(blocks, p)
  /\ NewestPartition = Len(blocks) - 1
  /\ PartitionsFull => Filled(blocks)
BY DEF SamplesWritten, WrittenIn, Samples, SizeIn, NewestPartition, Global, PartitionsFull, Filled

LEMMA MoreSamples ==
  ASSUME NEW x \in Nat, NEW y \in Nat, x <= y
  PROVE  NSamples * x \in Nat /\ NSamples * x <= NSamples * y /\ (x # 0 => NSamples * x # 0)
<1>1. NSamples \in Nat \ {0}
  BY AccessAssumption
<1>2. PICK d \in Nat : y = x + d
  <2>1. y - x \in Nat /\ y = x + (y - x)
    OBVIOUS
  <2> QED BY <2>1
<1>3. NSamples * x \in Nat /\ NSamples * d \in Nat
  BY <1>1
<1>4. NSamples * (x + d) = NSamples * x + NSamples * d
  BY <1>1
<1>5. x # 0 => NSamples * x # 0
  BY <1>1, SMT
<1> DEFINE a == NSamples * x
           c == NSamples * y
           e == NSamples * d
<1>6. a \in Nat /\ e \in Nat /\ c = a + e
  BY <1>2, <1>3, <1>4
<1> HIDE DEF a, c, e
<1>7. a <= c
  BY <1>6
<1> QED BY <1>3, <1>5, <1>7 DEF a, c

LEMMA SizesInTwo ==
  ASSUME NEW b, Filled(b), Len(b) <= 2
  PROVE  /\ FullSize \in Nat \ {0} /\ Len(b) \in {0, 1, 2}
         /\ Len(b) = 0 => WrittenIn(b) = 0
         /\ Len(b) = 1 => SizeIn(b, 0) \in 1 .. FullSize /\ WrittenIn(b) = SizeIn(b, 0)
         /\ Len(b) = 2 => /\ SizeIn(b, 0) = FullSize /\ SizeIn(b, 1) \in 1 .. FullSize
                          /\ WrittenIn(b) = FullSize + SizeIn(b, 1)
<1>1. /\ b \in Seq(1 .. FileSize) /\ Len(b) \in Nat /\ FileSize \in Nat \ {0}
      /\ NSamples \in Nat \ {0}
      /\ \A p \in DOMAIN b : p < Len(b) => b[p] = FileSize
  BY AccessAssumption DEF Filled
<1>2. FullSize = NSamples * FileSize /\ FullSize \in Nat \ {0}
  <2>1. FileSize * NSamples = NSamples * FileSize
    BY <1>1
  <2>2. NSamples * FileSize \in Nat \ {0}
    BY <1>1, MoreSamples
  <2> QED BY <2>1, <2>2 DEF FullSize
<1>3. ASSUME NEW p \in DOMAIN b
      PROVE  NSamples * b[p] \in 1 .. FullSize
  <2>1. b[p] \in 1 .. FileSize
    BY <1>1, Elements, Zenon
  <2>2. b[p] \in Nat /\ b[p] # 0 /\ b[p] <= FileSize /\ FileSize \in Nat
    BY <1>1, <2>1
  <2>3. /\ NSamples * b[p] \in Nat /\ NSamples * b[p] <= NSamples * FileSize
        /\ NSamples * b[p] # 0
    BY <2>2, MoreSamples
  <2> DEFINE a == NSamples * b[p]
             c == NSamples * FileSize
  <2>4. a \in Nat /\ a # 0 /\ a <= c /\ FullSize = c
    BY <1>2, <2>3
  <2> HIDE DEF a, c
  <2>5. a \in 1 .. FullSize
    BY <1>2, <2>4
  <2> QED BY <2>5 DEF a
<1>4. Len(b) = 0 => WrittenIn(b) = 0
  BY DEF WrittenIn
<1>5. ASSUME Len(b) = 1
      PROVE  SizeIn(b, 0) \in 1 .. FullSize /\ WrittenIn(b) = SizeIn(b, 0)
  <2>1. 1 \in DOMAIN b /\ b # <<>>
    BY <1>1, <1>5
  <2>2. SizeIn(b, 0) \in 1 .. FullSize
    BY <1>3, <2>1 DEF SizeIn
  <2>3. WrittenIn(b) = 0 * FileSize * NSamples + SizeIn(b, 0)
    BY <1>5, <2>1 DEF WrittenIn
  <2>4. 0 * FileSize * NSamples = 0
    BY <1>1
  <2>5. SizeIn(b, 0) \in Nat
    BY <1>2, <2>2
  <2> QED BY <2>2, <2>3, <2>4, <2>5
<1>6. ASSUME Len(b) = 2
      PROVE  /\ SizeIn(b, 0) = FullSize /\ SizeIn(b, 1) \in 1 .. FullSize
             /\ WrittenIn(b) = FullSize + SizeIn(b, 1)
  <2>1. 1 \in DOMAIN b /\ 2 \in DOMAIN b /\ b # <<>> /\ b[1] = FileSize
    <3>1. DOMAIN b = 1 .. 2 /\ 1 < 2
      BY <1>1, <1>6
    <3>2. 1 \in DOMAIN b /\ 2 \in DOMAIN b /\ b # <<>>
      BY <1>6, <3>1
    <3> QED BY <1>1, <1>6, <3>1, <3>2
  <2>2. SizeIn(b, 1) \in 1 .. FullSize
    BY <1>3, <2>1 DEF SizeIn
  <2>3. SizeIn(b, 0) = FullSize
    BY <1>2, <2>1 DEF SizeIn
  <2>4. WrittenIn(b) = 1 * FileSize * NSamples + SizeIn(b, 1)
    BY <1>6, <2>1 DEF WrittenIn
  <2>5. 1 * FileSize * NSamples = FullSize
    BY <1>1 DEF FullSize
  <2> QED BY <2>2, <2>3, <2>4, <2>5
<1>7. Len(b) \in {0, 1, 2}
  <2> DEFINE n == Len(b)
  <2>1. n \in Nat /\ n <= 2
    BY <1>1
  <2> HIDE DEF n
  <2>2. n \in {0, 1, 2}
    BY <2>1
  <2> QED BY <2>2 DEF n
<1> QED BY <1>2, <1>4, <1>5, <1>6, <1>7

LEMMA GlobalInTwo ==
  ASSUME NEW r \in Int
  PROVE  Global(0, r) = r /\ Global(1, r) = FullSize + r
<1>1. FileSize \in Nat /\ NSamples \in Nat
  BY AccessAssumption
<1>2. 0 * FileSize * NSamples = 0 /\ 1 * FileSize * NSamples = FullSize
  BY <1>1 DEF FullSize
<1> QED BY <1>2 DEF Global

\* A file that grew to two partitions has more samples, in each of them and in all.
LEMMA SizesGrow ==
  ASSUME NEW b, NEW c, Filled(b), Filled(c), Len(b) <= Len(c), Len(c) <= 2,
         \A p \in DOMAIN b : p \in DOMAIN c /\ b[p] <= c[p]
  PROVE  /\ WrittenIn(b) <= WrittenIn(c)
         /\ WrittenIn(b) \in Nat /\ WrittenIn(c) \in Nat
         /\ \A p \in 0 .. Len(b) - 1 :
              SizeIn(b, p) \in Nat /\ SizeIn(c, p) \in Nat /\ SizeIn(b, p) <= SizeIn(c, p)
<1>1. /\ b \in Seq(1 .. FileSize) /\ c \in Seq(1 .. FileSize)
      /\ Len(b) \in Nat /\ Len(c) \in Nat /\ FileSize \in Nat
      /\ DOMAIN b = 1 .. Len(b) /\ DOMAIN c = 1 .. Len(c)
  BY AccessAssumption DEF Filled
<1>2. Len(b) <= 2
  BY <1>1
<1>3. ASSUME NEW p \in 0 .. Len(b) - 1
      PROVE  SizeIn(b, p) \in Nat /\ SizeIn(c, p) \in Nat /\ SizeIn(b, p) <= SizeIn(c, p)
  <2>1. p + 1 \in DOMAIN b
    BY <1>1
  <2>2. b[p + 1] \in 1 .. FileSize /\ c[p + 1] \in 1 .. FileSize /\ b[p + 1] <= c[p + 1]
    BY <1>1, <2>1, Elements
  <2> DEFINE x == b[p + 1]
             y == c[p + 1]
  <2>3. x \in Nat /\ y \in Nat /\ x <= y /\ y <= y
    BY <1>1, <2>2
  <2> HIDE DEF x, y
  <2>4. NSamples * x \in Nat /\ NSamples * y \in Nat /\ NSamples * x <= NSamples * y
    BY <2>3, MoreSamples
  <2> QED BY <2>4 DEF SizeIn, x, y
<1>4. /\ FullSize \in Nat \ {0} /\ Len(b) \in {0, 1, 2} /\ Len(c) \in {0, 1, 2}
      /\ Len(b) = 0 => WrittenIn(b) = 0
      /\ Len(b) = 1 => SizeIn(b, 0) \in 1 .. FullSize /\ WrittenIn(b) = SizeIn(b, 0)
      /\ Len(b) = 2 => /\ SizeIn(b, 0) = FullSize /\ SizeIn(b, 1) \in 1 .. FullSize
                       /\ WrittenIn(b) = FullSize + SizeIn(b, 1)
      /\ Len(c) = 0 => WrittenIn(c) = 0
      /\ Len(c) = 1 => SizeIn(c, 0) \in 1 .. FullSize /\ WrittenIn(c) = SizeIn(c, 0)
      /\ Len(c) = 2 => /\ SizeIn(c, 0) = FullSize /\ SizeIn(c, 1) \in 1 .. FullSize
                       /\ WrittenIn(c) = FullSize + SizeIn(c, 1)
  BY <1>2, SizesInTwo
<1>5. Len(b) = 1 => SizeIn(b, 0) <= SizeIn(c, 0)
  BY <1>3
<1>6. Len(b) = 2 => SizeIn(b, 1) <= SizeIn(c, 1)
  BY <1>3
<1>7. /\ WrittenIn(b) <= WrittenIn(c)
      /\ WrittenIn(b) \in Nat /\ WrittenIn(c) \in Nat
  <2> DEFINE m == Len(b)
             n == Len(c)
             u == WrittenIn(b)
             v == WrittenIn(c)
             b0 == SizeIn(b, 0)
             b1 == SizeIn(b, 1)
             c0 == SizeIn(c, 0)
             c1 == SizeIn(c, 1)
  <2>1. /\ FullSize \in Nat \ {0} /\ m \in {0, 1, 2} /\ n \in {0, 1, 2} /\ m <= n
        /\ m = 0 => u = 0
        /\ m = 1 => b0 \in 1 .. FullSize /\ u = b0 /\ b0 <= c0
        /\ m = 2 => b0 = FullSize /\ b1 \in 1 .. FullSize /\ u = FullSize + b1 /\ b1 <= c1
        /\ n = 0 => v = 0
        /\ n = 1 => c0 \in 1 .. FullSize /\ v = c0
        /\ n = 2 => c0 = FullSize /\ c1 \in 1 .. FullSize /\ v = FullSize + c1
    BY <1>4, <1>5, <1>6
  <2> HIDE DEF m, n, u, v, b0, b1, c0, c1
  <2>2. u <= v /\ u \in Nat /\ v \in Nat
    BY <2>1
  <2> QED BY <2>2 DEF u, v
<1> QED BY <1>3, <1>7
-----------------------------------------------------------------------------
(* Which parts are read                                                     *)

LEMMA Quotients ==
  ASSUME NEW a \in Nat, NEW d \in Nat \ {0}
  PROVE  /\ a < d => a \div d = 0
         /\ d <= a /\ a < d + d => a \div d = 1
<1> DEFINE q == a \div d
           r == a % d
<1>1. q \in Nat /\ r \in 0 .. d - 1 /\ a = d * q + r
  BY SMT
<1> HIDE DEF q, r
<1>2. q = 0 => d * q = 0
  OBVIOUS
<1>3. q = 1 => d * q = d
  OBVIOUS
<1>4. q >= 1 => d * q >= d
  BY <1>1, SMT
<1>5. q >= 2 => d * q >= d + d
  BY <1>1, SMT
<1>6. q = 0 \/ q = 1 \/ q >= 2
  BY <1>1
<1> DEFINE m == d * q
<1>7. m \in Nat /\ a = m + r
  BY <1>1, SMT
<1> HIDE DEF m
<1>8. a < d => ~(m >= d)
  BY <1>1, <1>7
<1>9. d <= a => m # 0
  BY <1>1, <1>7
<1>10. a < d + d => ~(m >= d + d)
  BY <1>1, <1>7
<1>11. /\ a < d => q = 0
       /\ d <= a /\ a < d + d => q = 1
  BY <1>2, <1>4, <1>5, <1>6, <1>8, <1>9, <1>10 DEF m
<1> QED BY <1>11 DEF q

LEMMA TwoTogether ==
  ASSUME NEW x, NEW y
  PROVE  <<x>> \o <<y>> = <<x, y>>
<1> DEFINE S == {x, y}
           both == <<x>> \o <<y>>
<1>1. <<x>> \in Seq(S) /\ <<y>> \in Seq(S) /\ Len(<<x>>) = 1 /\ Len(<<y>>) = 1
  OBVIOUS
<1>2. /\ both \in Seq(S) /\ Len(both) = 2
      /\ \A i \in 1 .. 2 : both[i] = IF i <= 1 THEN <<x>>[i] ELSE <<y>>[i - 1]
  BY <1>1, ConcatProperties
<1>3. both[1] = x /\ both[2] = y
  BY <1>2
<1> HIDE DEF both
<1>4. both = <<x, y>>
  BY <1>2, <1>3
<1> QED BY <1>4 DEF both

\* A query within the first partition has one part.
LEMMA WithinFirst ==
  ASSUME NEW offset \in Nat, NEW n \in Nat \ {0}, NEW size \in Nat \ {0}, offset + n <= size
  PROVE  /\ StartPartition(offset, size) = 0
         /\ EndPartition(offset, n, size) = 0
         /\ PartsOfSamples(offset, n, size, size) = <<Part(0, offset, offset + n)>>
<1>1. StartPartition(offset, size) = 0
  BY Quotients DEF StartPartition
<1>2. EndPartition(offset, n, size) = 0
  <2> DEFINE a == offset + n
             d == size + 1
  <2>1. a \in Nat /\ d \in Nat \ {0} /\ a < d
    OBVIOUS
  <2> HIDE DEF a, d
  <2>2. a \div d = 0
    BY <2>1, Quotients
  <2> QED BY <2>2 DEF a, d, EndPartition
<1>3. EndIndex(offset, n, size, size) = offset + n
  <2>1. size * 0 = 0
    OBVIOUS
  <2> QED BY <1>2, <2>1 DEF EndIndex
<1>4. offset - size * 0 = offset
  OBVIOUS
<1> QED BY <1>1, <1>2, <1>3, <1>4 DEF PartsOfSamples

\* One that ends in the second partition has one part in each that it meets.
LEMMA UpToSecond ==
  ASSUME NEW offset \in Nat, NEW n \in Nat \ {0}, NEW size \in Nat \ {0},
         size < offset + n, offset + n <= size + size, NEW in_last \in Nat,
         offset + n - size <= in_last
  PROVE  /\ EndPartition(offset, n, size) = 1
         /\ offset >= size =>
              /\ StartPartition(offset, size) = 1
              /\ PartsOfSamples(offset, n, size, in_last) =
                   <<Part(1, offset - size, offset + n - size)>>
         /\ offset < size =>
              /\ StartPartition(offset, size) = 0
              /\ PartsOfSamples(offset, n, size, in_last) =
                   <<Part(0, offset, size), Part(1, 0, offset + n - size)>>
<1>1. EndPartition(offset, n, size) = 1
  <2> DEFINE a == offset + n
             d == size + 1
  <2>1. a \in Nat /\ d \in Nat \ {0} /\ d <= a /\ a < d + d
    OBVIOUS
  <2> HIDE DEF a, d
  <2>2. a \div d = 1
    BY <2>1, Quotients
  <2> QED BY <2>2 DEF a, d, EndPartition
<1>2. EndIndex(offset, n, size, in_last) = offset + n - size /\ offset + n - size # 0
  <2>1. size * 1 = size
    OBVIOUS
  <2> QED BY <1>1, <2>1 DEF EndIndex
<1>3. ASSUME offset >= size
      PROVE  /\ StartPartition(offset, size) = 1
             /\ PartsOfSamples(offset, n, size, in_last) =
                  <<Part(1, offset - size, offset + n - size)>>
  <2>1. StartPartition(offset, size) = 1
    <3>1. offset < size + size
      OBVIOUS
    <3> QED BY <1>3, <3>1, Quotients DEF StartPartition
  <2>2. offset - size * 1 = offset - size
    OBVIOUS
  <2> QED BY <1>1, <1>2, <2>1, <2>2 DEF PartsOfSamples
<1>4. ASSUME offset < size
      PROVE  /\ StartPartition(offset, size) = 0
             /\ PartsOfSamples(offset, n, size, in_last) =
                  <<Part(0, offset, size), Part(1, 0, offset + n - size)>>
  <2>1. StartPartition(offset, size) = 0
    BY <1>4, Quotients DEF StartPartition
  <2> DEFINE between == [i \in 1 .. 1 - 0 - 1 |-> Part(0, 0, size)]
             head == Part(0, offset, size)
             tail == Part(1, 0, offset + n - size)
  <2>2. between = <<>>
    <3>1. 1 .. 1 - 0 - 1 = {}
      OBVIOUS
    <3> QED BY <3>1
  <2>3. offset - size * 0 = offset
    OBVIOUS
  <2> HIDE DEF between, head, tail
  <2>4. PartsOfSamples(offset, n, size, in_last) = <<head>> \o between \o <<tail>>
    BY <1>1, <1>2, <2>1, <2>3 DEF PartsOfSamples, between, head, tail
  <2>5. <<head>> \o <<>> \o <<tail>> = <<head, tail>>
    <3>1. <<head>> \o <<>> = <<head>>
      OBVIOUS
    <3>2. <<head>> \o <<tail>> = <<head, tail>>
      BY TwoTogether
    <3> QED BY <3>1, <3>2
  <2> QED BY <2>1, <2>2, <2>4, <2>5 DEF head, tail
<1> QED BY <1>1, <1>3, <1>4
-----------------------------------------------------------------------------
(* A read of samples that had been written, at each of its steps            *)

\* the first k of the samples asked for
Wanted(k) == [i \in 1 .. k |-> query.offset + i]

\* They had been written then, and still are.
Asked ==
  /\ query.offset \in Nat /\ query.n \in Nat \ {0} /\ query.written \in Nat
  /\ query.offset + query.n <= query.written /\ query.written <= SamplesWritten

\* Partition 0 has been loaded once less than there are loops, which are as many as there
\* were partitions: with one, nothing had been written behind it.
Summing ==
  /\ reader.file \in {NoFile, 0}
  /\ \/ reader.loops = 1 /\ seen.total = 0 /\ query.written <= FullSize
     \/ reader.loops = 2 /\ seen.total = 0 /\ Len(blocks) = 2
     \/ reader.loops = 1 /\ seen.total = FullSize /\ Len(blocks) = 2

\* As many partitions were seen as the samples asked for need.
Known ==
  /\ reader.file \in {NoFile, 0}
  /\ seen.partitions \in {1, 2} /\ seen.partitions <= Len(blocks)
  /\ query.written > FullSize => seen.partitions = 2

\* The samples asked for begin in the first partition and end in the second.
Across ==
  /\ Len(blocks) = 2
  /\ query.offset < FullSize /\ FullSize < query.offset + query.n

Ending == reader.file \in {NoFile, 1} /\ seen.per_partition = FullSize /\ Across

\* first sample of a partition
Begin(p) == IF p = 0 THEN 0 ELSE FullSize

\* The samples asked for, from the k-th on, are those of this part, which its partition has.
InOne(part, k) ==
  /\ part.partition \in {0, 1} /\ part.partition < Len(blocks)
  /\ part.first \in Nat /\ part.last \in Nat
  /\ part.first < part.last /\ part.last <= Samples(part.partition)
  /\ Begin(part.partition) + part.first = query.offset + k
  /\ Begin(part.partition) + part.last = query.offset + query.n

\* One part is left to read, or two.
ToRead ==
  \/ /\ parts = <<Head(parts)>>
     /\ \E k \in 0 .. query.n - 1 : result = Wanted(k) /\ InOne(Head(parts), k)
  \/ /\ result = <<>> /\ Across
     /\ parts = <<Part(0, query.offset, FullSize),
                  Part(1, 0, query.offset + query.n - FullSize)>>

ReadingWell ==
  /\ Asked
  /\ reader.at \in {"metadata", "total", "query", "end"} => result = <<>>
  /\ reader.at = "metadata" => seen.total = 0
  /\ reader.at = "total" => Summing
  /\ reader.at = "query" => Known
  /\ reader.at = "end" => Ending
  /\ reader.at \in {"part_metadata", "part"} => ToRead
  /\ reader.at = "done" => result = Raised \/ result = Wanted(query.n)

InTwo == query.asked >= 0 /\ Len(blocks) <= 2

\* A third partition would be another matter: what get_file_partition_indexes_to_read
\* calls the partitions in between are all the first.
Reading == InTwo /\ reader.at # "idle" => ReadingWell

Attributes ==
  /\ DOMAIN query = {"asked", "offset", "n", "written"}
  /\ DOMAIN seen = {"total", "partitions", "per_partition"}
  /\ kind \in {"raw", "channel", "beam", "stationbeam", "correlation"}
  /\ reader.at = "idle" => reader.file = NoFile

ReadInv == LockType /\ Attributes /\ PartitionsFull /\ Reading

\* The receiver that appends meanwhile disturbs nothing that is true of the read.
LEMMA ReadingGrows ==
  ASSUME ReadInv, Grew, PartitionsFull', UNCHANGED <<reader, query, seen, parts, result>>
  PROVE  Reading'
<1> SUFFICES ASSUME InTwo', reader.at # "idle" PROVE ReadingWell'
  BY DEF Reading
<1>1. /\ Len(blocks) <= Len(blocks') /\ Len(blocks) \in Nat /\ Len(blocks') \in Nat
      /\ \A p \in DOMAIN blocks : p \in DOMAIN blocks' /\ blocks[p] <= blocks'[p]
      /\ Filled(blocks) /\ Filled(blocks') /\ Len(blocks') <= 2 /\ Len(blocks) <= 2
  BY GrewKeepsFull DEF ReadInv, PartitionsFull, Filled, InTwo
<1>2. InTwo /\ ReadingWell
  BY <1>1 DEF ReadInv, Reading, InTwo
<1>3. /\ SamplesWritten \in Nat /\ SamplesWritten' \in Nat /\ SamplesWritten <= SamplesWritten'
      /\ \A p \in 0 .. Len(blocks) - 1 :
           SizeIn(blocks, p) \in Nat /\ SizeIn(blocks', p) \in Nat
             /\ SizeIn(blocks, p) <= SizeIn(blocks', p)
  BY <1>1, SizesGrow, InFile
<1>4. Asked'
  BY <1>2, <1>3 DEF ReadingWell, Asked
<1>5. Len(blocks) = 2 => Len(blocks') = 2
  <2> DEFINE m == Len(blocks)
             n == Len(blocks')
  <2>1. m \in Nat /\ n \in Nat /\ m <= n /\ n <= 2
    BY <1>1
  <2> HIDE DEF m, n
  <2>2. m = 2 => n = 2
    BY <2>1
  <2> QED BY <2>2 DEF m, n
<1>6. Across => Across'
  BY <1>5 DEF Across
<1>7. ASSUME NEW part, NEW k, InOne(part, k)
      PROVE  InOne(part, k)'
  <2>1. part.partition \in 0 .. Len(blocks) - 1
    BY <1>1, <1>7 DEF InOne
  <2> DEFINE p == part.partition
  <2>2. p \in {0, 1} /\ p < Len(blocks) /\ part.last \in Nat /\ part.last <= SizeIn(blocks, p)
    BY <1>7 DEF InOne, Samples, SizeIn
  <2>3. SizeIn(blocks, p) \in Nat /\ SizeIn(blocks', p) \in Nat
          /\ SizeIn(blocks, p) <= SizeIn(blocks', p)
    BY <1>3, <2>1
  <2> HIDE DEF p
  <2>4. p < Len(blocks') /\ part.last <= SizeIn(blocks', p)
    BY <1>1, <2>2, <2>3
  <2> QED BY <1>7, <2>4 DEF InOne, Samples, SizeIn, p, Begin
<1>8. Summing => Summing'
  BY <1>5 DEF Summing
<1>9. Known => Known'
  <2>1. ASSUME seen.partitions \in {1, 2}, seen.partitions <= Len(blocks)
        PROVE  seen.partitions <= Len(blocks')
    BY <1>1, <2>1
  <2> QED BY <2>1 DEF Known
<1>10. Ending => Ending'
  BY <1>6 DEF Ending
<1>11. ToRead => ToRead'
  BY <1>6, <1>7 DEF ToRead, Wanted
<1> QED BY <1>2, <1>4, <1>8, <1>9, <1>10, <1>11 DEF ReadingWell, Wanted

\* What the reader knows of the file when it has been asked for samples of it.
LEMMA FileOfTwo ==
  ASSUME PartitionsFull, InTwo, Asked
  PROVE  /\ FullSize \in Nat \ {0} /\ Len(blocks) \in {1, 2}
         /\ Len(blocks) = 1 => Samples(0) \in 1 .. FullSize /\ SamplesWritten = Samples(0)
         /\ Len(blocks) = 2 => /\ Samples(0) = FullSize /\ Samples(1) \in 1 .. FullSize
                               /\ SamplesWritten = FullSize + Samples(1)
<1>1. /\ FullSize \in Nat \ {0} /\ Len(blocks) \in {0, 1, 2}
      /\ Len(blocks) = 0 => SamplesWritten = 0
      /\ Len(blocks) = 1 => Samples(0) \in 1 .. FullSize /\ SamplesWritten = Samples(0)
      /\ Len(blocks) = 2 => /\ Samples(0) = FullSize /\ Samples(1) \in 1 .. FullSize
                            /\ SamplesWritten = FullSize + Samples(1)
  BY SizesInTwo, InFile DEF InTwo
<1>2. SamplesWritten # 0
  BY DEF Asked
<1>3. Len(blocks) \in {1, 2}
  BY <1>1, <1>2, Zenon
<1> QED BY <1>1, <1>3

\* read_data begins with samples that there are.
LEMMA ReadBegins ==
  ASSUME ReadInv, Beyond = 0, read_data, InTwo'
  PROVE  ReadingWell'
<1>1. /\ blocks' = blocks /\ reader'.at = "metadata" /\ seen'.total = 0 /\ result' = <<>>
  BY DEF read_data, UnchangedByReader
<1>2. PICK offset \in (-Back) .. SamplesWritten + Beyond - 1, n \in 1 .. SamplesWritten + Beyond :
        /\ offset + n <= SamplesWritten + Beyond
        /\ query' = [asked |-> offset, offset |-> offset, n |-> n, written |-> SamplesWritten]
  BY DEF read_data
<1>3. /\ query'.asked = offset /\ query'.offset = offset /\ query'.n = n
      /\ query'.written = SamplesWritten
  BY <1>2
<1>4. SamplesWritten \in Nat /\ SamplesWritten' = SamplesWritten
  BY <1>1, WrittenIsNumber, InFile DEF ReadInv, PartitionsFull
<1>5. offset >= 0
  BY <1>3 DEF InTwo
<1>6. offset \in Nat /\ n \in Nat \ {0} /\ offset + n <= SamplesWritten
  BY <1>2, <1>4, <1>5, AccessAssumption
<1>7. Asked'
  BY <1>3, <1>4, <1>6 DEF Asked
<1> QED BY <1>1, <1>7 DEF ReadingWell

\* A step of the reader leaves the file as it is.
LEMMA FileAsItWas ==
  ASSUME blocks' = blocks
  PROVE  SamplesWritten' = SamplesWritten /\ Len(blocks') = Len(blocks) /\ \A p : Samples(p)' = Samples(p)
BY DEF SamplesWritten, Samples, Global, NewestPartition

LEMMA WellAsked ==
  ASSUME ReadInv, InTwo, reader.at # "idle"
  PROVE  PartitionsFull /\ ReadingWell /\ Asked
BY DEF ReadInv, Reading, ReadingWell

LEMMA MetadataRead ==
  ASSUME ReadInv, InTwo, get_metadata
  PROVE  ReadingWell'
<1>1. /\ reader.at = "metadata" /\ reader'.at = "total" /\ reader'.file = NoFile
      /\ reader'.loops = Len(blocks)
      /\ UNCHANGED <<query, seen, parts, result, blocks>>
  BY DEF get_metadata, CloseAndGo, UnchangedByReader
<1>2. /\ PartitionsFull /\ ReadingWell /\ Asked
      /\ seen.total = 0 /\ result = <<>>
  BY <1>1, WellAsked DEF ReadingWell
<1>3. Asked'
  BY <1>1, <1>2, FileAsItWas DEF Asked
<1>4. Len(blocks) = 1 => query.written <= FullSize
  BY <1>2, FileOfTwo DEF Asked
<1>5. Len(blocks) \in {1, 2}
  BY <1>2, FileOfTwo
<1>6. Summing'
  BY <1>1, <1>2, <1>4, <1>5 DEF Summing
<1> QED BY <1>1, <1>2, <1>3, <1>6 DEF ReadingWell

\* The total is that of as many full partitions as there were, which the samples asked for
\* do not exceed: the query stays as it is.
LEMMA TotalRead ==
  ASSUME ReadInv, InTwo, get_total_samples_in_all_partitions
  PROVE  ReadingWell'
<1>1. /\ reader.at = "total" /\ reader.file # NoFile
      /\ UNCHANGED <<result, blocks>>
  BY DEF get_total_samples_in_all_partitions, UnchangedByReader
<1>2. /\ PartitionsFull /\ ReadingWell /\ Asked
      /\ Summing /\ result = <<>>
  BY <1>1, WellAsked DEF ReadingWell
<1>3. reader.file = 0 /\ reader.loops \in {1, 2}
  BY <1>1, <1>2 DEF Summing
<1>4. /\ FullSize \in Nat \ {0} /\ Len(blocks) \in {1, 2}
      /\ Len(blocks) = 1 => Samples(0) \in 1 .. FullSize /\ SamplesWritten = Samples(0)
      /\ Len(blocks) = 2 => /\ Samples(0) = FullSize /\ Samples(1) \in 1 .. FullSize
                            /\ SamplesWritten = FullSize + Samples(1)
  BY <1>2, FileOfTwo
<1> DEFINE total == seen.total + Samples(0)
           offset == QueryOffset(query.offset, total)
           n == QuerySamples(offset, query.n, total)
<1>5. CASE reader.loops = 2
  <2>1. /\ reader' = [at |-> "total", file |-> NoFile, loops |-> 1]
        /\ seen' = [seen EXCEPT !.total = total]
        /\ query' = query
    <3>1. reader.loops > 1 /\ reader.loops - 1 = 1
      BY <1>5
    <3> QED BY <1>3, <3>1 DEF get_total_samples_in_all_partitions, CloseAndGo
  <2>2. seen.total = 0 /\ Len(blocks) = 2
    BY <1>2, <1>5 DEF Summing
  <2>3. total = FullSize
    BY <1>4, <2>2
  <2>4. seen'.total = FullSize
    BY <2>1, <2>3 DEF ReadInv, Attributes
  <2>5. Summing'
    BY <1>1, <2>1, <2>2, <2>4 DEF Summing
  <2>6. Asked'
    BY <1>1, <1>2, <2>1, FileAsItWas DEF Asked
  <2> QED BY <1>1, <1>2, <2>1, <2>5, <2>6 DEF ReadingWell
<1>6. CASE reader.loops = 1
  <2>1. /\ reader' = [at |-> "query", file |-> NoFile, loops |-> 0]
        /\ seen' = [seen EXCEPT !.total = total, !.partitions = Len(blocks)]
        /\ query' = [query EXCEPT !.offset = offset, !.n = n]
    <3>1. ~(reader.loops > 1)
      BY <1>6
    <3> QED BY <1>3, <3>1 DEF get_total_samples_in_all_partitions, CloseAndGo
  <2>2. query.offset \in Nat /\ query.n \in Nat \ {0} /\ query.written \in Nat
          /\ query.offset + query.n <= query.written /\ query.written <= SamplesWritten
    BY <1>2 DEF Asked
  <2>3. total \in Nat /\ query.written <= total
    <3>1. CASE seen.total = 0 /\ query.written <= FullSize
      <4>1. total = Samples(0) /\ Samples(0) \in Nat
        BY <1>4, <3>1
      <4>2. query.written <= Samples(0)
        BY <1>4, <2>2, <3>1
      <4> QED BY <4>1, <4>2
    <3>2. CASE seen.total = FullSize /\ Len(blocks) = 2
      <4>1. total = FullSize + FullSize
        BY <1>4, <3>2
      <4>2. SamplesWritten <= FullSize + FullSize /\ SamplesWritten \in Nat
        BY <1>4, <3>2
      <4> HIDE DEF total
      <4>3. query.written <= total
        BY <1>4, <2>2, <4>1, <4>2
      <4> QED BY <1>4, <4>1, <4>3
    <3> QED BY <1>2, <1>6, <3>1, <3>2 DEF Summing
  <2> HIDE DEF total
  <2>4. offset = query.offset
    BY <2>2 DEF QueryOffset
  <2>5. n = query.n
    BY <2>2, <2>3, <2>4 DEF QuerySamples
  <2>6. /\ query'.offset = query.offset /\ query'.n = query.n /\ query'.written = query.written
        /\ seen'.partitions = Len(blocks)
    BY <2>1, <2>4, <2>5 DEF ReadInv, Attributes
  <2>7. Asked'
    BY <1>1, <2>2, <2>6, FileAsItWas DEF Asked
  <2>8. query.written > FullSize => Len(blocks) = 2
    BY <1>4, <2>2
  <2>9. Known'
    BY <1>1, <1>4, <2>1, <2>6, <2>8 DEF Known
  <2> QED BY <1>1, <1>2, <2>1, <2>7, <2>9 DEF ReadingWell
<1> QED BY <1>3, <1>5, <1>6

LEMMA OneLeft ==
  ASSUME UNCHANGED <<blocks, query>>,
         \E part, k : /\ k \in 0 .. query.n - 1 /\ InOne(part, k)
                      /\ parts' = <<part>> /\ result' = Wanted(k)
  PROVE  ToRead'
<1>1. PICK part, k : /\ k \in 0 .. query.n - 1 /\ InOne(part, k)
                     /\ parts' = <<part>> /\ result' = Wanted(k)
  OBVIOUS
<1>2. Head(parts') = part /\ parts' = <<Head(parts')>>
  BY <1>1
<1>3. InOne(part, k)'
  BY <1>1, FileAsItWas DEF InOne, Begin
<1>4. result' = Wanted(k)' /\ k \in 0 .. query'.n - 1
  BY <1>1 DEF Wanted
<1> QED BY <1>2, <1>3, <1>4 DEF ToRead

\* The partitions of the query are found with those that were seen.
LEMMA PartitionsFound ==
  ASSUME ReadInv, InTwo, get_partitions_given_samples
  PROVE  ReadingWell'
<1>1. reader.at = "query" /\ reader.file # NoFile /\ blocks' = blocks /\ query' = query
  BY DEF get_partitions_given_samples, UnchangedByReader
<1>2. PartitionsFull /\ ReadingWell /\ Asked /\ Known /\ result = <<>>
  BY <1>1, WellAsked DEF ReadingWell
<1>3. reader.file = 0
  BY <1>1, <1>2 DEF Known
<1>4. /\ FullSize \in Nat \ {0} /\ Len(blocks) \in {1, 2}
      /\ Len(blocks) = 1 => Samples(0) \in 1 .. FullSize /\ SamplesWritten = Samples(0)
      /\ Len(blocks) = 2 => /\ Samples(0) = FullSize /\ Samples(1) \in 1 .. FullSize
                            /\ SamplesWritten = FullSize + Samples(1)
  BY <1>2, FileOfTwo
<1>5. /\ query.offset \in Nat /\ query.n \in Nat \ {0} /\ query.written \in Nat
      /\ query.offset + query.n <= query.written /\ query.written <= SamplesWritten
  BY <1>2 DEF Asked
<1>6. Asked'
  BY <1>1, <1>2, FileAsItWas DEF Asked
<1> DEFINE size == Samples(0)
           start == StartPartition(query.offset, size)
           end == EndPartition(query.offset, query.n, size)
           found == PartsOfSamples(query.offset, query.n, size, size)
<1>7. /\ seen' = [seen EXCEPT !.per_partition = size]
      /\ Exist(query.offset, query.n, size, seen.partitions) =>
           /\ start = end => CloseAndGo("part_metadata", 0) /\ parts' = found /\ result' = result
           /\ start # end => CloseAndGo("end", 0) /\ parts' = parts /\ result' = result
  BY <1>3 DEF get_partitions_given_samples
<1>8. seen.partitions \in {1, 2}
  BY <1>2 DEF Known
<1>9. size \in Nat \ {0}
  BY <1>4
<1>10. /\ \A p : Samples(p)' = Samples(p)
       /\ Len(blocks') = Len(blocks)
  BY <1>1, FileAsItWas
<1>11. ASSUME query.offset + query.n <= size
       PROVE  ReadingWell'
  <2>1. /\ start = 0 /\ end = 0
        /\ found = <<Part(0, query.offset, query.offset + query.n)>>
    BY <1>5, <1>9, <1>11, WithinFirst
  <2>2. Exist(query.offset, query.n, size, seen.partitions)
    BY <1>8, <2>1 DEF Exist
  <2>3. CloseAndGo("part_metadata", 0) /\ parts' = found /\ result' = <<>>
    BY <1>2, <1>7, <2>1, <2>2
  <2> DEFINE part == Part(0, query.offset, query.offset + query.n)
  <2>4. parts' = <<part>>
    BY <2>1, <2>3
  <2>5. part.partition = 0 /\ part.first = query.offset /\ part.last = query.offset + query.n
    BY DEF Part
  <2> HIDE DEF part
  <2>6. InOne(part, 0)
    <3>1. 0 < Len(blocks)
      BY <1>4
    <3>2. /\ query.offset + query.n \in Nat /\ query.offset < query.offset + query.n
          /\ 0 + query.offset = query.offset + 0
          /\ 0 + (query.offset + query.n) = query.offset + query.n
      BY <1>5
    <3>3. part.last <= Samples(part.partition)
      BY <1>11, <2>5
    <3> QED BY <1>5, <2>5, <3>1, <3>2, <3>3 DEF InOne, Begin
  <2>7. <<>> = Wanted(0)
    BY DEF Wanted
  <2>8. 0 \in 0 .. query.n - 1
    BY <1>5
  <2>9. ToRead'
    <3>1. result' = Wanted(0)
      BY <2>3, <2>7
    <3> QED BY <1>1, <2>4, <2>6, <2>8, <3>1, OneLeft, Zenon
  <2> QED BY <1>6, <2>3, <2>9 DEF ReadingWell, CloseAndGo
<1>12. ASSUME ~(query.offset + query.n <= size)
       PROVE  ReadingWell'
  <2>1. Len(blocks) = 2 /\ size = FullSize
    BY <1>4, <1>5, <1>12
  <2>2. seen.partitions = 2
    BY <1>2, <1>4, <1>5, <1>12, <2>1 DEF Known
  <2>3. size < query.offset + query.n /\ query.offset + query.n <= size + size
    BY <1>4, <1>5, <1>12, <2>1
  <2>4. size \in Nat /\ query.offset + query.n - size <= size
    BY <1>5, <1>9, <2>3
  <2>5. /\ end = 1
        /\ query.offset >= size =>
             start = 1 /\ found = <<Part(1, query.offset - size, query.offset + query.n - size)>>
        /\ query.offset < size => start = 0
    BY <1>5, <1>9, <2>3, <2>4, UpToSecond
  <2>6. start \in {0, 1}
    BY <1>5, <1>9, <2>5
  <2>7. Exist(query.offset, query.n, size, seen.partitions)
    BY <2>2, <2>5, <2>6 DEF Exist
  <2>8. CASE query.offset >= size
    <3>1. CloseAndGo("part_metadata", 0) /\ parts' = found /\ result' = <<>>
      BY <1>2, <1>7, <2>5, <2>7, <2>8
    <3> DEFINE part == Part(1, query.offset - size, query.offset + query.n - size)
    <3>2. parts' = <<part>>
      BY <2>5, <2>8, <3>1
    <3>3. /\ part.partition = 1 /\ part.first = query.offset - size
          /\ part.last = query.offset + query.n - size
      BY DEF Part
    <3> HIDE DEF part
    <3>4. InOne(part, 0)
      <4> HIDE DEF size
      <4>1. /\ query.offset - size \in Nat /\ query.offset + query.n - size \in Nat
            /\ query.offset - size < query.offset + query.n - size
            /\ size + (query.offset - size) = query.offset + 0
            /\ size + (query.offset + query.n - size) = query.offset + query.n
        BY <1>5, <1>9, <2>3, <2>8
      <4>2. query.offset + query.n - size <= Samples(1)
        BY <1>4, <1>5, <2>1
      <4>3. part.last <= Samples(part.partition)
        BY <3>3, <4>2
      <4>4. 1 < Len(blocks)
        BY <2>1
      <4> QED BY <2>1, <3>3, <4>1, <4>3, <4>4 DEF InOne, Begin
    <3>5. <<>> = Wanted(0)
      BY DEF Wanted
    <3>6. 0 \in 0 .. query.n - 1
      BY <1>5
    <3>7. ToRead'
      <4>1. result' = Wanted(0)
        BY <3>1, <3>5
      <4> QED BY <1>1, <3>2, <3>4, <3>6, <4>1, OneLeft, Zenon
    <3> QED BY <1>6, <3>1, <3>7 DEF ReadingWell, CloseAndGo
  <2>9. CASE query.offset < size
    <3>1. start # end
      BY <2>5, <2>9
    <3>2. CloseAndGo("end", 0) /\ result' = <<>>
      BY <1>2, <1>7, <2>7, <3>1
    <3>3. seen'.per_partition = FullSize
      BY <1>7, <2>1 DEF ReadInv, Attributes
    <3>4. Across'
      BY <1>1, <1>10, <2>1, <2>3, <2>9 DEF Across
    <3> QED BY <1>6, <3>2, <3>3, <3>4 DEF ReadingWell, Ending, CloseAndGo
  <2> QED BY <1>5, <1>9, <2>8, <2>9
<1> QED BY <1>11, <1>12

LEMMA AcrossIsTwo ==
  ASSUME PartitionsFull, InTwo, Asked, Across
  PROVE  /\ EndPartition(query.offset, query.n, FullSize) = 1
         /\ PartsOfSamples(query.offset, query.n, FullSize, Samples(1)) =
              <<Part(0, query.offset, FullSize), Part(1, 0, query.offset + query.n - FullSize)>>
         /\ query.offset + query.n - FullSize <= Samples(1)
         /\ Samples(0) = FullSize /\ FullSize \in Nat /\ Samples(1) \in Nat
<1>1. /\ FullSize \in Nat \ {0}
      /\ Samples(0) = FullSize /\ Samples(1) \in 1 .. FullSize
      /\ SamplesWritten = FullSize + Samples(1)
  BY FileOfTwo DEF Across
<1>2. /\ query.offset \in Nat /\ query.n \in Nat \ {0} /\ query.written \in Nat
      /\ query.offset + query.n <= query.written /\ query.written <= SamplesWritten
      /\ query.offset < FullSize /\ FullSize < query.offset + query.n
  BY DEF Asked, Across
<1>3. /\ Samples(1) \in Nat /\ Samples(1) <= FullSize
      /\ query.offset + query.n - FullSize <= Samples(1)
      /\ query.offset + query.n <= FullSize + FullSize
  BY <1>1, <1>2
<1>4. /\ EndPartition(query.offset, query.n, FullSize) = 1
      /\ PartsOfSamples(query.offset, query.n, FullSize, Samples(1)) =
           <<Part(0, query.offset, FullSize), Part(1, 0, query.offset + query.n - FullSize)>>
  <2> DEFINE offset == query.offset
             n == query.n
             in_last == Samples(1)
  <2>1. /\ offset \in Nat /\ n \in Nat \ {0} /\ FullSize \in Nat \ {0} /\ in_last \in Nat
        /\ FullSize < offset + n /\ offset + n <= FullSize + FullSize
        /\ offset + n - FullSize <= in_last /\ offset < FullSize
    BY <1>1, <1>2, <1>3
  <2> HIDE DEF offset, n, in_last
  <2>2. /\ EndPartition(offset, n, FullSize) = 1
        /\ PartsOfSamples(offset, n, FullSize, in_last) =
             <<Part(0, offset, FullSize), Part(1, 0, offset + n - FullSize)>>
    BY <2>1, UpToSecond
  <2> QED BY <2>2 DEF offset, n, in_last
<1> QED BY <1>1, <1>3, <1>4

LEMMA EndFound ==
  ASSUME ReadInv, InTwo, get_end_partition
  PROVE  ReadingWell'
<1>1. /\ reader.at = "end" /\ reader.file # NoFile /\ reader'.at = "part_metadata"
      /\ UNCHANGED <<query, result, blocks>>
      /\ parts' = PartsOfSamples(query.offset, query.n, seen.per_partition, Samples(reader.file))
  BY DEF get_end_partition, CloseAndGo, UnchangedByReader
<1>2. PartitionsFull /\ Asked /\ Ending /\ result = <<>>
  BY <1>1, WellAsked DEF ReadingWell
<1>3. reader.file = 1 /\ seen.per_partition = FullSize /\ Across
  BY <1>1, <1>2 DEF Ending
<1>4. parts' = <<Part(0, query.offset, FullSize),
                 Part(1, 0, query.offset + query.n - FullSize)>>
  BY <1>1, <1>2, <1>3, AcrossIsTwo
<1>5. Asked' /\ Across'
  BY <1>1, <1>2, <1>3, FileAsItWas DEF Asked, Across
<1>6. ToRead'
  BY <1>1, <1>2, <1>4, <1>5 DEF ToRead
<1> QED BY <1>1, <1>5, <1>6 DEF ReadingWell

\* Opening the next file, looking at the metadata of a part, and giving up.
LEMMA OtherSteps ==
  ASSUME ReadInv, InTwo, ReaderOpen \/ part_metadata \/ ReaderRaises
  PROVE  ReadingWell'
<1>1. UNCHANGED <<query, blocks>> /\ reader.at # "idle"
  BY DEF ReaderOpen, part_metadata, ReaderRaises, UnchangedByReader, ReadInv, Attributes
<1>2. PartitionsFull /\ ReadingWell /\ Asked
  BY <1>1, WellAsked
<1>3. Asked' /\ (Across => Across')
  BY <1>1, <1>2, FileAsItWas DEF Asked, Across
<1>4. ToRead /\ UNCHANGED <<parts, result>> => ToRead'
  <2>1. \A part, k : InOne(part, k) => InOne(part, k)'
    BY <1>1, FileAsItWas DEF InOne, Begin
  <2> QED BY <1>1, <1>3, <2>1 DEF ToRead, Wanted
<1>5. CASE ReaderRaises
  BY <1>3, <1>5 DEF ReaderRaises, Return, ReadInv, LockType, ReadingWell
<1>6. CASE part_metadata
  BY <1>2, <1>3, <1>4, <1>6 DEF part_metadata, CloseAndGo, ReadingWell
<1>7. CASE ReaderOpen
  <2>1. /\ reader'.at = reader.at /\ reader'.loops = reader.loops /\ reader'.file = ReaderFile
        /\ UNCHANGED <<query, seen, parts, result, blocks>>
    BY <1>7 DEF ReaderOpen, UnchangedByReader, ReadInv, LockType
  <2>2. Wanted(query.n)' = Wanted(query.n)
    BY <2>1 DEF Wanted
  <2>3. CASE reader.at \in {"total", "query"}
    <3>1. reader'.file = 0
      BY <2>1, <2>3 DEF ReaderFile
    <3>2. Summing => Summing'
      BY <2>1, <3>1 DEF Summing
    <3>3. Known => Known'
      BY <2>1, <3>1 DEF Known
    <3> QED BY <1>2, <1>3, <2>1, <2>3, <3>2, <3>3 DEF ReadingWell
  <2>4. CASE reader.at = "end"
    <3>1. Ending
      BY <1>2, <2>4 DEF ReadingWell
    <3>2. reader'.file = 1
      <4>1. reader'.file = EndPartition(query.offset, query.n, FullSize)
        BY <2>1, <2>4, <3>1 DEF ReaderFile, Ending
      <4> QED BY <1>2, <3>1, <4>1, AcrossIsTwo DEF Ending
    <3>3. Ending'
      BY <1>3, <2>1, <3>1, <3>2 DEF Ending
    <3> QED BY <1>2, <1>3, <2>1, <2>4, <3>3 DEF ReadingWell
  <2>5. CASE reader.at \notin {"total", "query", "end"}
    BY <1>2, <1>3, <1>4, <2>1, <2>2, <2>5 DEF ReadingWell
  <2> QED BY <2>3, <2>4, <2>5
<1> QED BY <1>5, <1>6, <1>7

\* A part that its partition has is read as it is, in each kind of file.
LEMMA PartRead ==
  ASSUME NEW k \in {"raw", "channel", "beam", "stationbeam", "correlation"},
         NEW rows \in Nat, NEW offset \in Nat, NEW n \in Nat, n # 0, offset + n <= rows
  PROVE  ReadRows(k, rows, offset, n) = Rows(offset, n) /\ Rows(offset, n) # Failed
<1>1. n >= 0 /\ ~(n < 0)
  OBVIOUS
<1>2. ReadRows(k, rows, offset, n) = Rows(offset, n)
  <2>1. /\ ReadRaw(rows, offset, n) = Rows(offset, n)
        /\ ReadBeam(rows, offset, n) = Rows(offset, n)
        /\ ReadStationBeam(rows, offset, n) = Rows(offset, n)
        /\ ReadChannel(rows, offset, n) = Rows(offset, n)
        /\ ReadCorrelation(rows, offset, n) = Rows(offset, n)
    BY DEF ReadRaw, ReadBeam, ReadStationBeam, ReadChannel, ReadCorrelation
  <2> HIDE DEF Rows
  <2>2. k = "raw" => ReadRows(k, rows, offset, n) = Rows(offset, n)
    BY <1>1, <2>1 DEF ReadRows
  <2>3. k = "channel" => ReadRows(k, rows, offset, n) = Rows(offset, n)
    BY <1>1, <2>1 DEF ReadRows
  <2>4. k = "beam" => ReadRows(k, rows, offset, n) = Rows(offset, n)
    BY <1>1, <2>1 DEF ReadRows
  <2>5. k = "stationbeam" => ReadRows(k, rows, offset, n) = Rows(offset, n)
    BY <1>1, <2>1 DEF ReadRows
  <2>6. k = "correlation" => ReadRows(k, rows, offset, n) = Rows(offset, n)
    BY <1>1, <2>1 DEF ReadRows
  <2> QED BY <2>2, <2>3, <2>4, <2>5, <2>6
<1>3. Rows(offset, n)[1] = offset + 1
  BY DEF Rows
<1>4. Failed[1] = -1
  BY DEF Failed
<1>5. offset + 1 # -1
  OBVIOUS
<1> QED BY <1>2, <1>3, <1>4, <1>5

\* What has been read and what the next part holds follow one another.
LEMMA Following ==
  ASSUME NEW a \in Nat, NEW k \in Nat, NEW m \in Nat
  PROVE  [i \in 1 .. k |-> a + i] \o [i \in 1 .. m |-> a + k + i] = [i \in 1 .. k + m |-> a + i]
<1> DEFINE s == [i \in 1 .. k |-> a + i]
           t == [i \in 1 .. m |-> a + k + i]
           u == [i \in 1 .. k + m |-> a + i]
<1>1. /\ s \in Seq(Int) /\ Len(s) = k
      /\ t \in Seq(Int) /\ Len(t) = m
      /\ u \in Seq(Int) /\ Len(u) = k + m
  BY SMT
<1>2. /\ s \o t \in Seq(Int) /\ Len(s \o t) = k + m
      /\ \A i \in 1 .. k + m : (s \o t)[i] = IF i <= k THEN s[i] ELSE t[i - k]
  <2> HIDE DEF s, t, u
  <2> QED BY <1>1, ConcatProperties
<1>3. ASSUME NEW i \in 1 .. k + m
      PROVE  (s \o t)[i] = u[i]
  <2>1. CASE i <= k
    BY <1>2, <2>1
  <2>2. CASE ~(i <= k)
    <3>1. i - k \in 1 .. m /\ a + k + (i - k) = a + i
      BY <2>2
    <3>2. t[i - k] = a + i /\ u[i] = a + i
      BY <3>1
    <3> QED BY <1>2, <2>2, <3>2
  <2> QED BY <2>1, <2>2
<1> HIDE DEF s, t, u
<1>4. s \o t = u
  BY <1>1, <1>2, <1>3, SeqEqual
<1> QED BY <1>4 DEF s, t, u

\* The rows of a part that begins with the k-th sample wanted continue the first k.
LEMMA PartContinues ==
  ASSUME Asked, NEW k \in Nat, NEW m \in Nat, NEW first \in Nat, NEW p \in {0, 1},
         Begin(p) + first = query.offset + k
  PROVE  LET rows == Rows(first, m) IN
         Wanted(k) \o [i \in DOMAIN rows |-> Global(p, rows[i])] = Wanted(k + m)
<1>1. query.offset \in Nat /\ FullSize \in Nat
  <2>1. FileSize \in Nat /\ NSamples \in Nat
    BY AccessAssumption
  <2> QED BY <2>1 DEF Asked, FullSize
<1> DEFINE rows == Rows(first, m)
<1>2. DOMAIN rows = 1 .. m /\ \A i \in 1 .. m : rows[i] = first + i
  BY DEF Rows
<1>3. ASSUME NEW r \in Int
      PROVE  Global(p, r) = Begin(p) + r
  BY GlobalInTwo DEF Begin
<1> HIDE DEF rows
<1>4. ASSUME NEW i \in 1 .. m
      PROVE  Global(p, rows[i]) = query.offset + k + i
  <2>1. rows[i] = first + i /\ first + i \in Int /\ i \in Int
    BY <1>2
  <2>2. Global(p, rows[i]) = Begin(p) + (first + i)
    BY <1>3, <2>1
  <2>3. Begin(p) \in Int
    BY <1>1 DEF Begin
  <2> DEFINE b == Begin(p)
             a == query.offset
  <2>4. b \in Int /\ a \in Int /\ b + first = a + k
    BY <1>1, <2>3
  <2> HIDE DEF a, b
  <2>5. b + (first + i) = a + k + i
    BY <2>1, <2>4
  <2> QED BY <2>2, <2>5 DEF a, b
<1>5. [i \in DOMAIN rows |-> Global(p, rows[i])] = [i \in 1 .. m |-> query.offset + k + i]
  BY <1>2, <1>4
<1>6. Wanted(k) \o [i \in 1 .. m |-> query.offset + k + i] = Wanted(k + m)
  BY <1>1, Following DEF Wanted
<1>7. Wanted(k) \o [i \in DOMAIN rows |-> Global(p, rows[i])] = Wanted(k + m)
  BY <1>5, <1>6
<1> QED BY <1>7 DEF rows

\* No samples wanted are taken for an error.
LEMMA WantedIsNoError ==
  ASSUME Asked, NEW k \in Nat \ {0}
  PROVE  Wanted(k) # Failed /\ Len(Wanted(k)) = k
<1>1. query.offset \in Nat
  BY DEF Asked
<1>2. Wanted(k)[1] = query.offset + 1
  BY DEF Wanted
<1>3. Failed[1] = -1 /\ query.offset + 1 # -1
  BY <1>1 DEF Failed
<1> QED BY <1>2, <1>3 DEF Wanted

LEMMA DataRead ==
  ASSUME ReadInv, InTwo, _read_data
  PROVE  ReadingWell'
<1>1. /\ reader.at = "part" /\ reader.file # NoFile
      /\ UNCHANGED <<query, blocks>> /\ parts' = Tail(parts)
  BY DEF _read_data, UnchangedByReader
<1>2. PartitionsFull /\ Asked /\ ToRead
  BY <1>1, WellAsked DEF ReadingWell
<1>3. Asked' /\ \A m : Wanted(m)' = Wanted(m)
  BY <1>1, <1>2, FileAsItWas DEF Asked, Wanted
<1>4. /\ query.offset \in Nat /\ query.n \in Nat \ {0}
  BY <1>2 DEF Asked
<1>5. \A p : p \in {0, 1} /\ p < Len(blocks) => Samples(p) \in Nat
  BY <1>2, FileOfTwo
<1> DEFINE part == Head(parts)
           rows == ReadRows(kind, Samples(part.partition), part.first, part.last - part.first)
           samples == result \o [i \in DOMAIN rows |-> Global(part.partition, rows[i])]
<1>6. /\ rows # Failed /\ samples # Failed /\ Len(parts) > 1 =>
           CloseAndGo("part_metadata", 0) /\ result' = samples
      /\ rows # Failed /\ samples # Failed /\ ~(Len(parts) > 1) /\ InShape(samples) =>
           CloseAndGo("done", 0) /\ result' = samples
  BY DEF _read_data
<1>7. ASSUME NEW k \in Nat, result = Wanted(k),
             part.partition \in {0, 1}, part.partition < Len(blocks),
             part.first \in Nat, part.last \in Nat, part.first < part.last,
             part.last <= Samples(part.partition),
             Begin(part.partition) + part.first = query.offset + k
      PROVE  /\ rows # Failed /\ samples # Failed
             /\ samples = Wanted(k + (part.last - part.first))
  <2> DEFINE m == part.last - part.first
             first == part.first
             p == part.partition
  <2>1. m \in Nat \ {0} /\ first + m = part.last
    BY <1>7
  <2>2. Samples(p) \in Nat
    BY <1>5, <1>7
  <2>3. kind \in {"raw", "channel", "beam", "stationbeam", "correlation"}
    BY DEF ReadInv, Attributes
  <2>4. first \in Nat /\ p \in {0, 1} /\ first + m <= Samples(p)
          /\ Begin(p) + first = query.offset + k
    BY <1>7, <2>1
  <2> HIDE DEF m, first, p
  <2>5. /\ ReadRows(kind, Samples(p), first, m) = Rows(first, m)
        /\ Rows(first, m) # Failed
    BY <2>1, <2>2, <2>3, <2>4, PartRead
  <2>6. rows = Rows(first, m)
    BY <2>5 DEF m, first, p
  <2>7. Wanted(k) \o [i \in DOMAIN Rows(first, m) |-> Global(p, Rows(first, m)[i])]
          = Wanted(k + m)
    BY <1>2, <2>1, <2>4, PartContinues
  <2>8. samples = Wanted(k + m)
    BY <1>7, <2>6, <2>7 DEF p
  <2>9. k + m \in Nat \ {0}
    BY <2>1
  <2>10. Wanted(k + m) # Failed
    BY <1>2, <2>9, WantedIsNoError
  <2> QED BY <2>5, <2>6, <2>8, <2>10 DEF m
<1>8. ASSUME parts = <<part>>, NEW k \in 0 .. query.n - 1, result = Wanted(k), InOne(part, k)
      PROVE  ReadingWell'
  <2>1. /\ part.partition \in {0, 1} /\ part.partition < Len(blocks)
        /\ part.first \in Nat /\ part.last \in Nat
        /\ part.first < part.last /\ part.last <= Samples(part.partition)
        /\ Begin(part.partition) + part.first = query.offset + k
        /\ Begin(part.partition) + part.last = query.offset + query.n
    BY <1>8 DEF InOne
  <2>2. k \in Nat
    BY <1>4
  <2>3. /\ rows # Failed /\ samples # Failed
        /\ samples = Wanted(k + (part.last - part.first))
    BY <1>7, <1>8, <2>1, <2>2
  <2>4. k + (part.last - part.first) = query.n
    <3> DEFINE b == Begin(part.partition)
               first == part.first
               last == part.last
    <3>1. b \in Int
      <4>1. FileSize \in Nat /\ NSamples \in Nat
        BY AccessAssumption
      <4> QED BY <4>1 DEF Begin, FullSize
    <3>2. first \in Nat /\ last \in Nat /\ b + first = query.offset + k
            /\ b + last = query.offset + query.n
      BY <2>1
    <3> HIDE DEF b, first, last
    <3>3. k + (last - first) = query.n
      BY <1>4, <2>2, <3>1, <3>2
    <3> QED BY <3>3 DEF first, last
  <2>5. ~(Len(parts) > 1)
    <3>1. Len(<<part>>) = 1
      OBVIOUS
    <3>2. Len(parts) = 1
      BY <1>8, <3>1, Zenon
    <3>3. ~(1 > 1)
      OBVIOUS
    <3> QED BY <3>2, <3>3, Zenon
  <2>6. InShape(samples)
    BY <1>2, <1>4, <2>3, <2>4, WantedIsNoError DEF InShape
  <2>7. CloseAndGo("done", 0) /\ result' = Wanted(query.n)
    BY <1>6, <2>3, <2>4, <2>5, <2>6
  <2>8. reader'.at = "done" /\ result' = Wanted(query.n)'
    BY <1>1, <1>3, <2>7 DEF CloseAndGo
  <2> QED BY <1>3, <2>8 DEF ReadingWell
<1>9. ASSUME result = <<>>, Across,
             parts = <<Part(0, query.offset, FullSize),
                       Part(1, 0, query.offset + query.n - FullSize)>>
      PROVE  ReadingWell'
  <2> DEFINE next == Part(1, 0, query.offset + query.n - FullSize)
             k == FullSize - query.offset
  <2>1. part = Part(0, query.offset, FullSize) /\ Len(parts) > 1 /\ parts' = <<next>>
    BY <1>1, <1>9
  <2>2. /\ query.offset + query.n - FullSize <= Samples(1)
        /\ Samples(0) = FullSize /\ FullSize \in Nat /\ Samples(1) \in Nat
    BY <1>2, <1>9, AcrossIsTwo
  <2>3. query.offset < FullSize /\ FullSize < query.offset + query.n /\ Len(blocks) = 2
    BY <1>9 DEF Across
  <2>4. /\ part.partition = 0 /\ part.first = query.offset /\ part.last = FullSize
        /\ next.partition = 1 /\ next.first = 0
        /\ next.last = query.offset + query.n - FullSize
    BY <2>1 DEF Part
  <2>5. result = Wanted(0)
    BY <1>9 DEF Wanted
  <2>6. Begin(part.partition) + part.first = query.offset + 0
    BY <1>4, <2>4 DEF Begin
  <2>7. /\ rows # Failed /\ samples # Failed
        /\ samples = Wanted(0 + (part.last - part.first))
    <3>1. part.last <= Samples(part.partition) /\ part.first < part.last
      BY <2>2, <2>3, <2>4
    <3>2. part.partition < Len(blocks)
      BY <2>3, <2>4
    <3>3. part.partition \in {0, 1} /\ part.first \in Nat /\ part.last \in Nat /\ 0 \in Nat
      BY <1>4, <2>2, <2>4
    <3> HIDE DEF part, rows, samples
    <3> QED BY <1>7, <2>5, <2>6, <3>1, <3>2, <3>3
  <2>8. 0 + (part.last - part.first) = k
    BY <1>4, <2>2, <2>4
  <2>9. CloseAndGo("part_metadata", 0) /\ result' = Wanted(k)
    BY <1>6, <2>1, <2>7, <2>8
  <2>10. k \in 0 .. query.n - 1
    BY <1>4, <2>2, <2>3
  <2>11. InOne(next, k)
    <3>1. /\ query.offset + query.n - FullSize \in Nat
          /\ 0 < query.offset + query.n - FullSize
          /\ FullSize + 0 = query.offset + k
          /\ FullSize + (query.offset + query.n - FullSize) = query.offset + query.n
      BY <1>4, <2>2, <2>3
    <3>2. 1 < Len(blocks)
      BY <2>3
    <3> HIDE DEF next, k
    <3> QED BY <2>2, <2>4, <3>1, <3>2 DEF InOne, Begin
  <2> HIDE DEF next, k
  <2>12. ToRead'
    BY <1>1, <2>1, <2>9, <2>10, <2>11, OneLeft, Zenon
  <2>13. reader'.at = "part_metadata"
    BY <2>9 DEF CloseAndGo
  <2> QED BY <1>3, <2>12, <2>13 DEF ReadingWell
<1> HIDE DEF rows, samples
<1> QED BY <1>2, <1>8, <1>9 DEF ToRead

LEMMA ReaderReadsOn ==
  ASSUME ReadInv, Reader
  PROVE  Reading'
<1> SUFFICES ASSUME InTwo' PROVE ReadingWell'
  BY DEF Reading
<1>1. UNCHANGED blocks /\ query'.asked = query.asked
  BY DEF Reader, ReaderOpen, ReaderRaises, get_metadata, get_total_samples_in_all_partitions,
     get_partitions_given_samples, get_end_partition, part_metadata, _read_data,
     UnchangedByReader, ReadInv, Attributes
<1>2. InTwo
  BY <1>1 DEF InTwo
<1> QED BY <1>2, OtherSteps, MetadataRead, TotalRead, PartitionsFound, EndFound, DataRead
        DEF Reader

LEMMA AttributesKept ==
  ASSUME ReadInv, [AccessNext]_accessVars
  PROVE  Attributes'
<1>1. CASE UNCHANGED <<query, seen, kind, reader>>
  BY <1>1 DEF ReadInv, Attributes
<1>2. CASE Ingest \/ Writer \/ RemoveLocks \/ UNCHANGED accessVars
  BY <1>1, <1>2 DEF Ingest, Writer, WriterOpen, WriterClose, RemoveLocks, accessVars
<1>3. CASE read_data
  BY <1>3 DEF ReadInv, read_data, Attributes, UnchangedByReader
<1>4. CASE Reader
  <2>1. kind' = kind /\ DOMAIN query' = DOMAIN query /\ DOMAIN seen' = DOMAIN seen
    BY <1>4 DEF Reader, ReaderOpen, ReaderRaises, get_metadata,
       get_total_samples_in_all_partitions, get_partitions_given_samples, get_end_partition,
       part_metadata, _read_data, UnchangedByReader
  <2>2. reader'.at = "idle" => reader'.file = NoFile
    BY <1>4, ReaderSteps DEF ReaderOpen, ReaderLetsGo, ReadInv, LockType
  <2> QED BY <2>1, <2>2 DEF ReadInv, Attributes
<1> QED BY <1>2, <1>3, <1>4 DEF AccessNext

LEMMA ReadInvInductive ==
  ASSUME Beyond = 0, LockInv, ReadInv, [AccessNext]_accessVars
  PROVE  ReadInv'
<1>1. LockType' /\ PartitionsFull'
  BY LockInvInductive, FullInductive DEF LockInv, ReadInv
<1>2. Attributes'
  BY AttributesKept
<1>3. CASE Ingest \/ Writer \/ RemoveLocks \/ UNCHANGED accessVars
  <2>1. UNCHANGED <<reader, query, seen, parts, result>>
    BY <1>3 DEF Ingest, Writer, WriterOpen, WriterClose, RemoveLocks, accessVars
  <2>2. Grew
    BY StepGrows DEF ReadInv
  <2>3. Reading'
    BY <1>1, <2>1, <2>2, ReadingGrows
  <2> QED BY <1>1, <1>2, <2>3 DEF ReadInv
<1>4. CASE read_data
  BY <1>1, <1>2, <1>4, ReadBegins DEF ReadInv, Reading
<1>5. CASE Reader
  BY <1>1, <1>2, <1>5, ReaderReadsOn DEF ReadInv
<1> QED BY <1>3, <1>4, <1>5 DEF AccessNext

\* A read of samples that had been written returns them all and in order, for any number
\* and size of buffers, as long as the file has two partitions at most, and when only samples
\* that there are are asked for (Beyond = 0): the locks and attributes of each step may be of
\* another moment, and the receiver may append and begin the second partition between any two.
THEOREM ReadsInTwoAreExact ==
  ASSUME Beyond = 0
  PROVE  AccessSpec => [](Len(blocks) <= 2 => ReadsExactly)
<1>1. AccessInit => LockInv /\ ReadInv
  <2> SUFFICES ASSUME AccessInit PROVE LockInv /\ ReadInv
    OBVIOUS
  <2>1. LockInv /\ PartitionsFull
    BY AccessAssumption, NoFileIsNone
       DEF AccessInit, LockInv, LockType, OpenIsLocked, PartitionsFull, WriterAt, NoFile
  <2>2. Attributes /\ Reading
    BY DEF AccessInit, Attributes, Reading
  <2> QED BY <2>1, <2>2 DEF ReadInv, LockInv
<1>2. LockInv /\ ReadInv /\ [AccessNext]_accessVars => (LockInv /\ ReadInv)'
  BY LockInvInductive, ReadInvInductive
<1>3. LockInv /\ ReadInv => (Len(blocks) <= 2 => ReadsExactly)
  BY DEF ReadInv, Reading, InTwo, ReadingWell, ReadsExactly, Wanted
<1> QED BY <1>1, <1>2, <1>3, PTL DEF AccessSpec

\* With no more than two partitions, all that is asked for and was written is read exactly.
THEOREM ReadsAreExact ==
  ASSUME Beyond = 0, MaxPartitions <= 2
  PROVE  AccessSpec => []ReadsExactly
<1>1. PartitionsFull => Len(blocks) <= 2
  <2> SUFFICES ASSUME PartitionsFull PROVE Len(blocks) <= 2
    OBVIOUS
  <2>1. Len(blocks) \in Nat /\ Len(blocks) <= MaxPartitions /\ MaxPartitions \in Nat
    BY AccessAssumption DEF PartitionsFull
  <2> DEFINE n == Len(blocks)
  <2>2. n \in Nat /\ n <= MaxPartitions
    BY <2>1
  <2> HIDE DEF n
  <2>3. n <= 2
    BY <2>1, <2>2
  <2> QED BY <2>3 DEF n
<1> QED BY <1>1, AllButNewestAreFull, ReadsInTwoAreExact, PTL
=============================================================================
