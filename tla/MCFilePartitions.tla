------------------------- MODULE MCFilePartitions -------------------------
(* The ways the callbacks of daq_receiver.py and of the class in            *)
(* daq_receiver_interface.py call ingest_data.                               *)
EXTENDS FilePartitions

Use(kind, append, sampling, buffer, per_sample) ==
  [kind |-> kind, append |-> append, sampling_time |-> sampling,
   buffer_timestamp |-> buffer, per_sample |-> per_sample]

ReceiverUsages == {
  Use("raw", FALSE, 0, FALSE, TRUE),          \* raw_data_callback
  Use("raw", TRUE, 0, TRUE, FALSE),           \* antenna_buffer_callback
  Use("channel", FALSE, 1, FALSE, TRUE),      \* channel_data_callback, burst
  Use("channel", TRUE, 1, TRUE, TRUE),        \* continuous, integrated
  Use("channel", FALSE, 1, TRUE, TRUE),       \* continuous_period, append_integrated
  Use("channel", TRUE, 0, TRUE, TRUE),        \* integrated, without sampling_time
  Use("beam", FALSE, 1, FALSE, TRUE),         \* beam_burst_data_callback
  Use("beam", TRUE, 1, TRUE, TRUE),           \* beam_integrated_data_callback
  Use("stationbeam", TRUE, 1, TRUE, TRUE),    \* station_callback
  Use("correlation", TRUE, 1, TRUE, TRUE),    \* correlator_callback
  Use("correlation", FALSE, 1, FALSE, TRUE)}  \* correlator_callback, several channels
=============================================================================
