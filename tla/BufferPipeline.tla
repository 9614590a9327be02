-------------------------- MODULE BufferPipeline --------------------------
(***************************************************************************)
(* What a ring of buffers promises: a stream cut into consecutive buffers  *)
(* of Window packets, each handed to the reader once and in order, a fixed *)
(* Lag behind the one being filled (late packets still find their buffer   *)
(* until then), with at most Capacity buffers between the one the reader   *)
(* is due and the one being filled.  Slots, cursors and flags are gone: a  *)
(* buffer is the counter of its first packet.                              *)
(***************************************************************************)
EXTENDS Integers

CONSTANTS
  Window,     \* packets per buffer
  Lag,        \* a buffer may be read once this many later ones were begun
  Capacity    \* buffers begun and not yet given back, the one due included

VARIABLES
  filling,    \* first counter of the buffer begun last (0: none yet)
  next,       \* first counter of the buffer the reader is due (0: none yet)
  reading,    \* the reader has that buffer
  stopped     \* the reader is to take no more buffers

vars == <<filling, next, reading, stopped>>

Init ==
  /\ filling = 0
  /\ next = 0
  /\ reading = FALSE
  /\ stopped = FALSE

\* the stream starts, at any counter
Begin ==
  /\ filling = 0
  /\ filling' \in Nat \ {0}
  /\ next' = filling'
  /\ UNCHANGED <<reading, stopped>>

\* the stream goes on to the next buffer
Advance ==
  /\ filling # 0
  /\ filling' = filling + Window
  /\ filling' <= next + Capacity * Window
  /\ UNCHANGED <<next, reading, stopped>>

Take ==
  /\ ~stopped
  /\ ~reading
  /\ next + Lag * Window <= filling
  /\ reading' = TRUE
  /\ UNCHANGED <<filling, next, stopped>>

Return ==
  /\ reading
  /\ reading' = FALSE
  /\ next' = next + Window
  /\ UNCHANGED <<filling, stopped>>

Stop ==
  /\ ~stopped
  /\ stopped' = TRUE
  /\ UNCHANGED <<filling, next, reading>>

Reader == Take \/ Return

Next == Begin \/ Advance \/ Reader \/ Stop

Spec == Init /\ [][Next]_vars

\* a buffer that is due is read, and is given back
FairSpec == Spec /\ WF_vars(Reader)
=============================================================================
