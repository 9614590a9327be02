--------------------------- MODULE StationCounter ---------------------------
(***************************************************************************)
(* How processPacket of StationData and StationRawData unwraps counters.   *)
(* The stream sends every counter once per logical channel; the header has *)
(* its low 32 bits, and the consumer counts how often they went round.  A  *)
(* counter is a pair here: how often it went round (epoch), and the value  *)
(* in the header.                                                          *)
(*                                                                         *)
(* StationRawData also discards the packets before a start time, and with  *)
(* them their rollovers.                                                   *)
(***************************************************************************)
EXTENDS Integers

CONSTANTS
  Modulus,     \* values of the header's counter: 2^32
  Channels,    \* the logical channels, 0 among them
  MaxEpoch,    \* bound: how often the counter goes round
  ZeroLast,    \* at counter 0, does the packet of channel 0 arrive last?
  ZeroLoss,    \* may the packet of channel 0 with counter 0 be lost?
  LateAcross   \* may packets be late at the end of an epoch, or at its counter 0?

ASSUME CounterAssumption ==
  /\ Modulus \in Nat \ {0, 1}
  /\ 0 \in Channels
  /\ MaxEpoch \in Nat
  /\ {ZeroLast, ZeroLoss, LateAcross} \subseteq BOOLEAN

VARIABLES
  epoch, header,    \* the counter being sent
  sending,          \* the channels whose packet with it is still to come
  delayed,          \* the channels whose packet will come with the next counter
  late,             \* the channels whose packet of the last counter is to come
  start_epoch, start_header, \* counter at the capture start time
  capture_start_time, \* "unset" if none is given, or once it has come
  rollover_counter,
  unwrapped         \* history: rollovers counted minus epoch, of each packet so far

stream == <<epoch, header, sending, delayed, late>>
start == <<start_epoch, start_header>>
counter_vars == <<stream, start, capture_start_time, rollover_counter, unwrapped>>

Headers == 0 .. Modulus - 1

CounterInit ==
  /\ epoch = 0
  /\ header \in Headers
  /\ sending = Channels
  /\ delayed = {}
  /\ late = {}
  /\ start_epoch \in 0 .. MaxEpoch
  /\ start_header \in Headers
  /\ capture_start_time \in {"set", "unset"}
  /\ rollover_counter = 0
  /\ unwrapped = {}
-----------------------------------------------------------------------------
(* processPacket                                                            *)

IsBeforeStart(e, h) == e < start_epoch \/ (e = start_epoch /\ h < start_header)

RollsOver(ch) == ch = 0

\* mutant: the channels that come before channel 0 are not told apart
NoneAhead == rollover_counter

\* the rollovers of the other channels' packets with counter 0, which are taken to
\* come before that of channel 0
OthersAhead == rollover_counter + 1

Unwraps(e, rollovers) == unwrapped' = unwrapped \cup {rollovers - e}

ProcessPacket(e, h, ch) ==
  IF capture_start_time = "set" /\ IsBeforeStart(e, h)
    THEN UNCHANGED <<capture_start_time, rollover_counter, unwrapped>>
    ELSE /\ capture_start_time' = "unset"
         /\ \/ /\ h = 0
               /\ RollsOver(ch)
               /\ rollover_counter' = rollover_counter + 1
               /\ Unwraps(e, rollover_counter + 1)
            \/ /\ h = 0
               /\ ~RollsOver(ch)
               /\ UNCHANGED rollover_counter
               /\ Unwraps(e, OthersAhead)
            \/ /\ h # 0
               /\ UNCHANGED rollover_counter
               /\ Unwraps(e, rollover_counter)
-----------------------------------------------------------------------------
(* The stream                                                               *)

Receive(ch) ==
  /\ ch \in sending
  /\ ZeroLast /\ header = 0 /\ ch = 0 => sending = {0}
  /\ sending' = sending \ {ch}
  /\ ProcessPacket(epoch, header, ch)
  /\ UNCHANGED <<epoch, header, delayed, late, start>>

Lose(ch) ==
  /\ ch \in sending
  /\ header = 0 /\ ch = 0 => ZeroLoss
  /\ sending' = sending \ {ch}
  /\ UNCHANGED <<epoch, header, delayed, late, start, capture_start_time,
                 rollover_counter, unwrapped>>

Delay(ch) ==
  /\ ch \in sending
  /\ header \in {0, Modulus - 1} => LateAcross
  /\ sending' = sending \ {ch}
  /\ delayed' = delayed \cup {ch}
  /\ UNCHANGED <<epoch, header, late, start, capture_start_time, rollover_counter, unwrapped>>

PreviousEpoch == IF header = 0 THEN epoch - 1 ELSE epoch
PreviousHeader == IF header = 0 THEN Modulus - 1 ELSE header - 1

ReceiveLate(ch) ==
  /\ ch \in late
  /\ late' = late \ {ch}
  /\ ProcessPacket(PreviousEpoch, PreviousHeader, ch)
  /\ UNCHANGED <<epoch, header, sending, delayed, start>>

\* the next counter is sent; what was late for the last one is lost
Advance ==
  /\ sending = {}
  /\ IF header = Modulus - 1 THEN epoch < MaxEpoch /\ epoch' = epoch + 1 /\ header' = 0
                             ELSE epoch' = epoch /\ header' = header + 1
  /\ sending' = Channels
  /\ late' = delayed
  /\ delayed' = {}
  /\ UNCHANGED <<start, capture_start_time, rollover_counter, unwrapped>>

StreamEnds ==
  /\ sending = {}
  /\ header = Modulus - 1
  /\ epoch = MaxEpoch
  /\ UNCHANGED counter_vars

CounterNext ==
  \/ \E ch \in Channels : Receive(ch) \/ Lose(ch) \/ Delay(ch) \/ ReceiveLate(ch)
  \/ Advance
  \/ StreamEnds

CounterSpec == CounterInit /\ [][CounterNext]_counter_vars
-----------------------------------------------------------------------------
(* Properties                                                               *)

CounterTypeOK ==
  /\ {epoch, start_epoch, rollover_counter} \subseteq Nat
  /\ {header, start_header} \subseteq Headers
  /\ {sending, delayed, late} \subseteq SUBSET Channels
  /\ capture_start_time \in {"set", "unset"}
  /\ unwrapped \subseteq Int

\* All packets are unwrapped alike: the distance of any two unwrapped counters is
\* that of the packets in the stream, whatever the channel and however often the
\* header's counter has gone round.
SameRollover == \A a, b \in unwrapped : a = b
-----------------------------------------------------------------------------
(* The inductive invariant, when the packet of channel 0 with counter 0 is  *)
(* neither lost nor overtaken, and none is late at that point.              *)

\* the rollover of this epoch is still to be counted
Pending == IF header = 0 /\ 0 \in sending THEN 1 ELSE 0

\* All packets so far are where a packet sent now would be, and none is late that
\* was sent at the rollover or before.
RolloverInv ==
  /\ CounterTypeOK
  /\ unwrapped \subseteq {rollover_counter + Pending - epoch}
  /\ capture_start_time = "set" => unwrapped = {}
  /\ header = 0 /\ sending # {} => 0 \in sending
  /\ delayed # {} => header \notin {0, Modulus - 1}
  /\ late # {} => header \notin {0, 1}
=============================================================================
