---------------------------- MODULE RingIndex ----------------------------
(***************************************************************************)
(* Index arithmetic of the rings of buffers that the DAQ consumers share   *)
(* with their persister threads (StationDoubleBuffer,                      *)
(* StationRawDoubleBuffer and DoubleBuffer).  A ring has NofBuffers slots  *)
(* numbered from 0; the producer and the consumer cursor each move through *)
(* them with Succ, and the producer looks back one slot for late packets   *)
(* and one or two slots to find the buffer it publishes.                   *)
(***************************************************************************)
EXTENDS Integers

CONSTANT NofBuffers     \* nof_buffers: 6 (StationData), 4 (StationDataRaw, correlator)

\* The producer keeps three slots in play (filling, late packets, settling).
ASSUME NofBuffersAssumption == NofBuffers \in Nat /\ NofBuffers >= 3

Slots == 0 .. NofBuffers - 1

\* (i + 1) % nof_buffers, for i in Slots
Succ(i) == IF i = NofBuffers - 1 THEN 0 ELSE i + 1

\* (i == 0) ? nof_buffers - 1 : i - 1
Pred(i) == IF i = 0 THEN NofBuffers - 1 ELSE i - 1

\* mutant: the buffer published is the previous one
Pred2IsPred(i) == IF i < 1 THEN (i - 1) + NofBuffers ELSE i - 1

\* (i < 2) ? (i - 2) + nof_buffers : (i - 2)
Pred2(i) == IF i < 2 THEN (i - 2) + NofBuffers ELSE i - 2

\* How many steps of Succ lead from slot c to slot i: the position of i in the
\* ring as seen by a cursor that stands on c.  Used by properties only.
Ahead(c, i) == IF i >= c THEN i - c ELSE i - c + NofBuffers
=============================================================================
