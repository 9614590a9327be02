-------------------------- MODULE StationPipeline --------------------------
(***************************************************************************)
(* StationBuffer implements BufferPipeline as long as write_data waits for *)
(* a free slot: at a boundary it publishes the slot before the previous    *)
(* one, so that a buffer is read once the third buffer after it is begun.  *)
(***************************************************************************)
EXTENDS StationBuffer

\* the slot being filled, or the buffer the receiving thread waits to begin
Filling == IF waiting THEN current_index + Window ELSE index[producer]

Pipeline == INSTANCE BufferPipeline WITH
  Lag      <- 3,
  Capacity <- NofBuffers,
  filling  <- Filling,
  next     <- index[Bottom],
  reading  <- InCallback,
  stopped  <- stop_thread

\* The ring is a pipeline: consecutive buffers of Window packets, each read once
\* and in order, never before three more were begun, never more in use than the
\* ring has slots, and each one that is due is read unless the thread is stopped.
ImplementsPipeline == Pipeline!FairSpec

\* Its safety part, the subject of the proof.
RefinesPipeline == Pipeline!Spec
-----------------------------------------------------------------------------
(* What the refinement rests on, beyond KeepUpInv                           *)

\* packets in n buffers
Span(n) == n * Window

\* Counted from the bottom of the ring, each buffer in use starts Window packets
\* after the one before.
LevelInv ==
  \A i \in Slots :
    Depth(i) <= Depth(Top) => index[i] = index[Bottom] + Span(Depth(i))

\* buffers begun after the one at the bottom, the awaited one included
Begun == IF waiting THEN Depth(Top) + 1 ELSE Depth(Top)

\* A ready slot is three buffers behind the last one begun (or being released).
LagInv ==
  \A i \in ready :
    \/ Depth(i) + 3 <= Begun
    \/ i = consumer /\ persister = "release"

PipelineInv == KeepUpInv /\ (Started => LevelInv /\ LagInv)
=============================================================================
