---------------------------- MODULE DaqInterface ----------------------------
(***************************************************************************)
(* The methods of class DaqReceiver of pydaq/daq_receiver_interface.py,    *)
(* the second version of daq_receiver.py; see there for options.           *)
(***************************************************************************)
EXTENDS DaqSteps

_raw_data_callback(options) ==
  [Persist("RAW_DATA") EXCEPT !.threshold = options.threshold]

\* integrated channels are appended without their sampling time
_channel_data_callback(mode, options) ==
  CASE mode = "continuous" /\ options.together ->
         IgnoreTwo(AppendToFirst(Sampled(Persist("CHANNEL_DATA"))))
    [] mode = "continuous" /\ ~options.together ->
         IgnoreTwo(Remember(Sampled(Persist("CHANNEL_DATA"))))
    [] mode = "integrated" /\ options.together ->
         AppendToFirst(Persist("INTEGRATED_CHANNEL_DATA"))
    [] mode = "integrated" /\ ~options.together ->
         Remember(Sampled(Persist("INTEGRATED_CHANNEL_DATA")))
    [] mode = "burst" -> Sampled(Persist("CHANNEL_DATA"))

_channel_burst_data_callback(options) == _channel_data_callback("burst", options)

_channel_continuous_data_callback(options) == _channel_data_callback("continuous", options)

_channel_integrated_data_callback(options) == _channel_data_callback("integrated", options)

_beam_burst_data_callback(options) == Sampled(Persist("BEAM_DATA"))

_beam_integrated_data_callback(options) ==
  [AppendToFirst(Sampled(Persist("INTEGRATED_BEAM_DATA"))) EXCEPT !.append = options.together]

_correlator_callback(options) ==
  IF options.together THEN AppendToFirst(Sampled(Persist("CORRELATOR_DATA")))
                      ELSE Sampled(Persist("CORRELATOR_DATA"))

_station_callback(options) ==
  IgnoreTwo(AppendToFirst(Sampled(Persist("STATION_BEAM_DATA"))))

_antenna_buffer_callback(options) == AppendToFirst(Persist("ANTENNA_BUFFER"))

\* the dictionary _callbacks
_callbacks(options) ==
  [RAW_DATA |-> _raw_data_callback(options),
   CHANNEL_DATA |-> _channel_burst_data_callback(options),
   BEAM_DATA |-> _beam_burst_data_callback(options),
   CONTINUOUS_CHANNEL_DATA |-> _channel_continuous_data_callback(options),
   INTEGRATED_BEAM_DATA |-> _beam_integrated_data_callback(options),
   INTEGRATED_CHANNEL_DATA |-> _channel_integrated_data_callback(options),
   STATION_BEAM_DATA |-> _station_callback(options),
   CORRELATOR_DATA |-> _correlator_callback(options),
   ANTENNA_BUFFER |-> _antenna_buffer_callback(options)]
-----------------------------------------------------------------------------
_start_raw_data_consumer ==
  start_consumer("RAW_DATA") \o SetManager("RAW_DATA") \o SetExternal("RAW_DATA")

_start_channel_data_consumer ==
  start_consumer("CHANNEL_DATA") \o SetManager("CHANNEL_DATA")
    \o SetSamplingTime("CHANNEL_DATA") \o SetExternal("CHANNEL_DATA")

_start_continuous_channel_data_consumer ==
  SetSamplingTime("CONTINUOUS_CHANNEL_DATA") \o start_consumer("CONTINUOUS_CHANNEL_DATA")
    \o SetManagerIn("CONTINUOUS_CHANNEL_DATA", "CHANNEL_DATA")
    \o SetExternal("CONTINUOUS_CHANNEL_DATA")

_start_integrated_channel_data_consumer ==
  start_consumer("INTEGRATED_CHANNEL_DATA") \o SetManager("INTEGRATED_CHANNEL_DATA")
    \o SetSamplingTime("INTEGRATED_CHANNEL_DATA") \o SetExternal("INTEGRATED_CHANNEL_DATA")

_start_beam_data_consumer ==
  start_consumer("BEAM_DATA") \o SetManager("BEAM_DATA")
    \o SetSamplingTime("BEAM_DATA") \o SetExternal("BEAM_DATA")

_start_integrated_beam_data_consumer ==
  start_consumer("INTEGRATED_BEAM_DATA") \o <<Do("no_manager", "INTEGRATED_BEAM_DATA")>>
    \o SetManager("INTEGRATED_BEAM_DATA") \o SetSamplingTime("INTEGRATED_BEAM_DATA")
    \o SetExternal("INTEGRATED_BEAM_DATA")

_start_station_beam_data_consumer ==
  start_consumer("STATION_BEAM_DATA") \o SetManager("STATION_BEAM_DATA")
    \o SetSamplingTime("STATION_BEAM_DATA") \o SetExternal("STATION_BEAM_DATA")

_start_correlator ==
  start_consumer("CORRELATOR_DATA") \o SetManager("CORRELATOR_DATA")
    \o SetSamplingTime("CORRELATOR_DATA") \o SetExternal("CORRELATOR_DATA")

\* start_daq passes no callback: None takes the place of one that is there
_start_antenna_buffer_data_consumer ==
  start_consumer("ANTENNA_BUFFER") \o SetManager("ANTENNA_BUFFER")
    \o <<Do("no_external", "ANTENNA_BUFFER")>>

_start_functions ==
  [RAW_DATA |-> _start_raw_data_consumer,
   CHANNEL_DATA |-> _start_channel_data_consumer,
   BEAM_DATA |-> _start_beam_data_consumer,
   CONTINUOUS_CHANNEL_DATA |-> _start_continuous_channel_data_consumer,
   INTEGRATED_BEAM_DATA |-> _start_integrated_beam_data_consumer,
   INTEGRATED_CHANNEL_DATA |-> _start_integrated_channel_data_consumer,
   STATION_BEAM_DATA |-> _start_station_beam_data_consumer,
   CORRELATOR_DATA |-> _start_correlator,
   ANTENNA_BUFFER |-> _start_antenna_buffer_data_consumer]

_stop_raw_data_consumer == stop_consumer("RAW_DATA")

_stop_channel_data_consumer == stop_consumer("CHANNEL_DATA")

_stop_continuous_channel_data_consumer == stop_consumer("CONTINUOUS_CHANNEL_DATA")

_stop_integrated_channel_data_consumer == stop_consumer("INTEGRATED_CHANNEL_DATA")

_stop_beam_data_consumer == stop_consumer("BEAM_DATA")

_stop_integrated_beam_data_consumer == stop_consumer("INTEGRATED_BEAM_DATA")

_stop_station_beam_data_consumer == stop_consumer("STATION_BEAM_DATA")

_stop_correlator == stop_consumer("CORRELATOR_DATA")

_stop_antenna_buffer_consumer == stop_consumer("ANTENNA_BUFFER")

_stop_functions ==
  [RAW_DATA |-> _stop_raw_data_consumer,
   CHANNEL_DATA |-> _stop_channel_data_consumer,
   BEAM_DATA |-> _stop_beam_data_consumer,
   CONTINUOUS_CHANNEL_DATA |-> _stop_continuous_channel_data_consumer,
   INTEGRATED_BEAM_DATA |-> _stop_integrated_beam_data_consumer,
   INTEGRATED_CHANNEL_DATA |-> _stop_integrated_channel_data_consumer,
   STATION_BEAM_DATA |-> _stop_station_beam_data_consumer,
   CORRELATOR_DATA |-> _stop_correlator,
   ANTENNA_BUFFER |-> _stop_antenna_buffer_consumer]
-----------------------------------------------------------------------------
_get_ip_address == get_ip_address

\* what is given is applied before it is found that the directory does not exist
_populate_configuration ==
  <<Do("apply", All), Do("check_directory", All)>> \o _get_ip_address

_initialise_daq ==
  <<Do("remove_locks", All)>> \o initialise_library \o call_start_receiver
    \o call_add_receiver_port

\* The modes are started in the order in which they are given, each with its callback.
\* If there are more or fewer callbacks than modes they are dropped, and the first mode
\* to need its own finds none: an exception.
_start_daq(modes, callbacks_match) ==
  [i \in DOMAIN modes |->
     Do(IF callbacks_match \/ modes[i] = "ANTENNA_BUFFER" THEN "start" ELSE "raise", modes[i])]

\* ignored buffers and first timestamps are forgotten first
_stop_daq ==
  <<Do("forget_ignored", All), Do("forget_timestamps", All), Do("stop_running", All)>>
    \o call_stop_receiver

\* the order in which its script asks for modes
_modes_to_start ==
  <<"RAW_DATA", "INTEGRATED_CHANNEL_DATA", "CONTINUOUS_CHANNEL_DATA", "CHANNEL_DATA",
    "BEAM_DATA", "INTEGRATED_BEAM_DATA", "STATION_BEAM_DATA", "CORRELATOR_DATA",
    "ANTENNA_BUFFER">>

\* each if it was asked for
_script == _initialise_daq \o _start_daq(_modes_to_start, TRUE)
=============================================================================
