---------------------------- MODULE DaqReceiver ----------------------------
(***************************************************************************)
(* The functions of pydaq/daq_receiver.py.  options says how it is         *)
(* configured: together, whether buffers go into one file                  *)
(* (continuous_period = 0, append_integrated, nof_correlator_channels = 1) *)
(* or each has a file of its own; and the threshold on raw data.           *)
(***************************************************************************)
EXTENDS DaqSteps

\* quiet data may be dropped, without a sampling time; each dump is a file
raw_data_callback(options) ==
  [Persist("RAW_DATA") EXCEPT !.threshold = options.threshold]

channel_data_callback(mode, options) ==
  CASE mode = "continuous" /\ options.together ->
         IgnoreTwo(AppendToFirst(Sampled(Persist("CHANNEL_DATA"))))
    [] mode = "continuous" /\ ~options.together ->
         IgnoreTwo(Remember(Sampled(Persist("CHANNEL_DATA"))))
    [] mode = "integrated" /\ options.together ->
         AppendToFirst(Sampled(Persist("INTEGRATED_CHANNEL_DATA")))
    [] mode = "integrated" /\ ~options.together ->
         Remember(Sampled(Persist("INTEGRATED_CHANNEL_DATA")))
    [] mode = "burst" -> Sampled(Persist("CHANNEL_DATA"))

channel_burst_data_callback(options) == channel_data_callback("burst", options)

channel_continuous_data_callback(options) == channel_data_callback("continuous", options)

channel_integrated_data_callback(options) == channel_data_callback("integrated", options)

beam_burst_data_callback(options) == Sampled(Persist("BEAM_DATA"))

\* filed under the first timestamp whether appended or not
beam_integrated_data_callback(options) ==
  [AppendToFirst(Sampled(Persist("INTEGRATED_BEAM_DATA"))) EXCEPT !.append = options.together]

correlator_callback(options) ==
  IF options.together THEN AppendToFirst(Sampled(Persist("CORRELATOR_DATA")))
                      ELSE Sampled(Persist("CORRELATOR_DATA"))

station_callback(options) ==
  IgnoreTwo(AppendToFirst(Sampled(Persist("STATION_BEAM_DATA"))))

antenna_buffer_callback(options) == AppendToFirst(Persist("ANTENNA_BUFFER"))

\* the dictionary callbacks
callbacks(options) ==
  [RAW_DATA |-> raw_data_callback(options),
   CHANNEL_DATA |-> channel_burst_data_callback(options),
   BEAM_DATA |-> beam_burst_data_callback(options),
   CONTINUOUS_CHANNEL_DATA |-> channel_continuous_data_callback(options),
   INTEGRATED_BEAM_DATA |-> beam_integrated_data_callback(options),
   INTEGRATED_CHANNEL_DATA |-> channel_integrated_data_callback(options),
   STATION_BEAM_DATA |-> station_callback(options),
   CORRELATOR_DATA |-> correlator_callback(options),
   ANTENNA_BUFFER |-> antenna_buffer_callback(options)]
-----------------------------------------------------------------------------
start_raw_data_consumer ==
  start_consumer("RAW_DATA") \o SetManager("RAW_DATA") \o SetExternal("RAW_DATA")

start_channel_data_consumer ==
  start_consumer("CHANNEL_DATA") \o SetManager("CHANNEL_DATA")
    \o SetSamplingTime("CHANNEL_DATA") \o SetExternal("CHANNEL_DATA")

\* the sampling time comes first, since it is needed in the configuration; the file
\* manager takes the place of the burst consumer's
start_continuous_channel_data_consumer ==
  SetSamplingTime("CONTINUOUS_CHANNEL_DATA") \o start_consumer("CONTINUOUS_CHANNEL_DATA")
    \o SetManagerIn("CONTINUOUS_CHANNEL_DATA", "CHANNEL_DATA")
    \o SetExternal("CONTINUOUS_CHANNEL_DATA")

start_integrated_channel_data_consumer ==
  start_consumer("INTEGRATED_CHANNEL_DATA") \o SetManager("INTEGRATED_CHANNEL_DATA")
    \o SetSamplingTime("INTEGRATED_CHANNEL_DATA") \o SetExternal("INTEGRATED_CHANNEL_DATA")

\* mutant: no sampling time
BeamNotSampled ==
  start_consumer("BEAM_DATA") \o SetManager("BEAM_DATA") \o SetExternal("BEAM_DATA")

start_beam_data_consumer ==
  start_consumer("BEAM_DATA") \o SetManager("BEAM_DATA")
    \o SetSamplingTime("BEAM_DATA") \o SetExternal("BEAM_DATA")

\* an empty list is there before the file manager
start_integrated_beam_data_consumer ==
  start_consumer("INTEGRATED_BEAM_DATA") \o <<Do("no_manager", "INTEGRATED_BEAM_DATA")>>
    \o SetManager("INTEGRATED_BEAM_DATA") \o SetSamplingTime("INTEGRATED_BEAM_DATA")
    \o SetExternal("INTEGRATED_BEAM_DATA")

start_station_beam_data_consumer ==
  start_consumer("STATION_BEAM_DATA") \o SetManager("STATION_BEAM_DATA")
    \o SetSamplingTime("STATION_BEAM_DATA") \o SetExternal("STATION_BEAM_DATA")

start_correlator ==
  start_consumer("CORRELATOR_DATA") \o SetManager("CORRELATOR_DATA")
    \o SetSamplingTime("CORRELATOR_DATA") \o SetExternal("CORRELATOR_DATA")

start_antenna_buffer_data_consumer ==
  start_consumer("ANTENNA_BUFFER") \o SetManager("ANTENNA_BUFFER") \o SetExternal("ANTENNA_BUFFER")

start_functions ==
  [RAW_DATA |-> start_raw_data_consumer,
   CHANNEL_DATA |-> start_channel_data_consumer,
   BEAM_DATA |-> start_beam_data_consumer,
   CONTINUOUS_CHANNEL_DATA |-> start_continuous_channel_data_consumer,
   INTEGRATED_BEAM_DATA |-> start_integrated_beam_data_consumer,
   INTEGRATED_CHANNEL_DATA |-> start_integrated_channel_data_consumer,
   STATION_BEAM_DATA |-> start_station_beam_data_consumer,
   CORRELATOR_DATA |-> start_correlator,
   ANTENNA_BUFFER |-> start_antenna_buffer_data_consumer]

stop_raw_data_consumer == stop_consumer("RAW_DATA")

stop_channel_data_consumer == stop_consumer("CHANNEL_DATA")

stop_continuous_channel_data_consumer == stop_consumer("CONTINUOUS_CHANNEL_DATA")

stop_integrated_channel_data_consumer == stop_consumer("INTEGRATED_CHANNEL_DATA")

stop_beam_data_consumer == stop_consumer("BEAM_DATA")

stop_integrated_beam_data_consumer == stop_consumer("INTEGRATED_BEAM_DATA")

\* mutant: only the flag
FlagOnly == <<Do("no_external", "STATION_BEAM_DATA"), Do("not_running", "STATION_BEAM_DATA")>>

stop_station_beam_data_consumer == stop_consumer("STATION_BEAM_DATA")

\* mutant: not running even if the library refuses
FlagFirst ==
  <<Do("no_external", "CORRELATOR_DATA"), Do("not_running", "CORRELATOR_DATA"),
    Do("stop_consumer", "CORRELATOR_DATA")>>

stop_correlator == stop_consumer("CORRELATOR_DATA")

stop_antenna_buffer_data_consumer == stop_consumer("ANTENNA_BUFFER")

stop_functions ==
  [RAW_DATA |-> stop_raw_data_consumer,
   CHANNEL_DATA |-> stop_channel_data_consumer,
   BEAM_DATA |-> stop_beam_data_consumer,
   CONTINUOUS_CHANNEL_DATA |-> stop_continuous_channel_data_consumer,
   INTEGRATED_BEAM_DATA |-> stop_integrated_beam_data_consumer,
   INTEGRATED_CHANNEL_DATA |-> stop_integrated_channel_data_consumer,
   STATION_BEAM_DATA |-> stop_station_beam_data_consumer,
   CORRELATOR_DATA |-> stop_correlator,
   ANTENNA_BUFFER |-> stop_antenna_buffer_data_consumer]
-----------------------------------------------------------------------------
\* a directory that does not exist is refused before anything is applied
populate_configuration ==
  <<Do("check_directory", All), Do("apply", All)>> \o get_ip_address

initialise_daq ==
  <<Do("remove_locks", All)>> \o initialise_library \o call_start_receiver
    \o call_add_receiver_port

\* mutant: all is forgotten first
ForgetAllFirst ==
  <<Do("forget_ignored", All), Do("forget_timestamps", All), Do("stop_running", All)>>
    \o call_stop_receiver

\* the first timestamps are forgotten first, the ignored buffers last but for the receiver
stop_daq ==
  <<Do("forget_timestamps", All), Do("stop_running", All), Do("forget_ignored", All)>>
    \o call_stop_receiver

\* the order in which the script starts what its options ask for
start_order ==
  <<"RAW_DATA", "ANTENNA_BUFFER", "INTEGRATED_CHANNEL_DATA", "CONTINUOUS_CHANNEL_DATA",
    "CHANNEL_DATA", "BEAM_DATA", "INTEGRATED_BEAM_DATA", "STATION_BEAM_DATA",
    "CORRELATOR_DATA">>

\* the script: initialise, start each mode if it was asked for (stop_daq when told to quit)
script == initialise_daq \o [i \in DOMAIN start_order |-> Do("start", start_order[i])]
=============================================================================
