------------------------------ MODULE DaqSteps ------------------------------
(***************************************************************************)
(* The words in which DaqReceiver and DaqInterface say what the functions  *)
(* of the two data acquisition receivers do: a function of the main thread *)
(* is a sequence of steps, each one change of the receiver's state or one  *)
(* call of the library, and a callback of a consumer's thread a            *)
(* description of how it persists a buffer.  DaqSession runs them.         *)
(***************************************************************************)
EXTENDS SequencesExt

DaqModes == {"RAW_DATA", "CHANNEL_DATA", "BEAM_DATA", "CONTINUOUS_CHANNEL_DATA",
             "INTEGRATED_BEAM_DATA", "INTEGRATED_CHANNEL_DATA", "STATION_BEAM_DATA",
             "CORRELATOR_DATA", "ANTENNA_BUFFER"}

All == "ALL_MODES"

\* a step, the mode it is about, and the slot of the persisters it changes
Do(step, mode) == [do |-> step, mode |-> mode, slot |-> mode]

\* of the interface, when none is configured: without one the program is left
get_ip_address == <<Do("get_ip_address", All)>>

initialise_library == <<Do("load_library", All)>>

call_start_receiver == <<Do("start_receiver", All)>>

\* each of the ports that are configured
call_add_receiver_port == <<Do("add_receiver_ports", All)>>

call_stop_receiver == <<Do("stop_receiver", All)>>

\* the library's loadConsumer, initialiseConsumer and startConsumer, the first of which
\* to fail ends the function with an exception; then the flag, with no way back
start_consumer(mode) == <<Do("start_consumer", mode), Do("running", mode)>>

SetManager(mode) == <<Do("manager", mode)>>

SetManagerIn(mode, slot) == <<[Do("manager", mode) EXCEPT !.slot = slot]>>

SetSamplingTime(mode) == <<Do("sampling_time", mode)>>

SetExternal(mode) == <<Do("external", mode)>>

\* stop_consumer, too, may end the function with an exception
stop_consumer(mode) ==
  <<Do("no_external", mode), Do("stop_consumer", mode), Do("not_running", mode)>>

\* How a callback persists its buffer: with the file manager in which slot, appending or
\* not, with the sampling time or not, filed under the first timestamp its mode remembers
\* or under the buffer's own
Persist(slot) ==
  [slot |-> slot, append |-> FALSE, sampled |-> FALSE, remember |-> FALSE,
   first |-> FALSE, ignore |-> FALSE, threshold |-> FALSE]

Sampled(persist) == [persist EXCEPT !.sampled = TRUE]

\* the mode's first timestamp is remembered
Remember(persist) == [persist EXCEPT !.remember = TRUE]

\* and what comes is appended to the file named after it
AppendToFirst(persist) == [Remember(persist) EXCEPT !.append = TRUE, !.first = TRUE]

\* the first two buffers are counted and ignored
IgnoreTwo(persist) == [persist EXCEPT !.ignore = TRUE]
=============================================================================
