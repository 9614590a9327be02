---------------------------- MODULE TileCommands ----------------------------
(***************************************************************************)
(* The commands of pyaavs/tile.py that the FPGAs of a tile carry out at    *)
(* one time.  given says whether the caller gives the time from which the  *)
(* delay is counted; if not the tile reads it.                             *)
(***************************************************************************)
EXTENDS TileSteps

Firmware == INSTANCE TpmTestFirmware

stop_data_transmission(t) == ForBoth(t, Firmware!stop_channelised_data_continuous)

synchronised_data_operation(t, given) ==
  <<OfTile("await_no_request", t)>>
    \o (IF given THEN <<>> ELSE ReadTime) \o ForBoth(t, fpga_apply_sync_delay)

\* only tells
check_synchronised_data_operation(t) == <<OfTile("check_only", t)>>

clear_lmc_data_request(t) == ForBoth(t, Firmware!clear_lmc_data_request)

\* the flag of the mode, of the FPGAs that were checked
clear_timestamp_invalid_flag_register(t, mode, checked) ==
  ForAsked(t, checked, LAMBDA f : <<[do |-> "clear_flag", fpga |-> f, mode |-> mode]>>)

\* What is done when the request of the tile is found invalid
AfterInvalid(t, mode, checked, flagged) ==
  clear_lmc_data_request(t)
    \o (IF flagged THEN clear_timestamp_invalid_flag_register(t, mode, checked) ELSE <<>>)

\* by the firmware's flag, if it has one, or by the time
select_method_to_check_valid_synchronised_data_request(t, mode, checked) ==
  <<Check(t, mode, checked)>>

\* asked is both FPGAs, or the one that is asked to send
send_raw_data(t, given, sync, asked) ==
  stop_data_transmission(t) \o synchronised_data_operation(t, given)
    \o ForAsked(t, asked, LAMBDA f : IF sync THEN Firmware!send_raw_data_synchronised(f)
                                       ELSE Firmware!send_raw_data(f))
    \o select_method_to_check_valid_synchronised_data_request(t, "raw_adc_mode", asked)

send_raw_data_synchronised(t, given) == send_raw_data(t, given, TRUE, FpgasOf(t))

send_channelised_data(t, given) ==
  stop_data_transmission(t) \o synchronised_data_operation(t, given)
    \o ForBoth(t, Firmware!send_channelised_data)
    \o select_method_to_check_valid_synchronised_data_request(t, "channelized_mode", FpgasOf(t))

send_beam_data(t, given) ==
  stop_data_transmission(t) \o synchronised_data_operation(t, given)
    \o ForBoth(t, Firmware!send_beam_data)
    \o select_method_to_check_valid_synchronised_data_request(t, "beamformed_mode", FpgasOf(t))

\* mutant: checked as narrow band data are
ContinuousOnlyTells(t, given) ==
  stop_data_transmission(t) \o synchronised_data_operation(t, given)
    \o ForBoth(t, Firmware!send_channelised_data_continuous)
    \o check_synchronised_data_operation(t)

send_channelised_data_continuous(t, given) ==
  stop_data_transmission(t) \o synchronised_data_operation(t, given)
    \o ForBoth(t, Firmware!send_channelised_data_continuous)
    \o select_method_to_check_valid_synchronised_data_request(t, "channelized_mode", FpgasOf(t))

\* a request that is found invalid is not cleared
send_channelised_data_narrowband(t, given) ==
  stop_data_transmission(t) \o synchronised_data_operation(t, given)
    \o ForBoth(t, Firmware!send_channelised_data_narrowband)
    \o check_synchronised_data_operation(t)

set_multi_channel_tx(t) == ForBoth(t, SetAtOnce)

set_multi_channel_dst_ip(t) == ForBoth(t, SetAtOnce)

stop_multi_channel_tx(t) == ForBoth(t, SetAtOnce)

\* waits for nothing and tells no one
start_multi_channel_tx(t, given) ==
  (IF given THEN <<>> ELSE ReadTime) \o ForBoth(t, WriteTime) \o SuccessUnlessPassed
-----------------------------------------------------------------------------
(* The beamformer, test generators                                          *)

current_station_beamformer_frame == ReadTime

current_tile_beamformer_frame == ReadTime

stop_beamformer(t) == ForBoth(t, LAMBDA f : <<OfFpga("abort", f)>>)

\* mutant: the second FPGA is not stopped
StopTheFirst(t) == <<OfFpga("abort", <<t, 1>>)>>

\* What is done when one of the FPGAs refuses, or the time to start has come
AfterNotStarted(t) == stop_beamformer(t)

\* nothing if it is running; the start in either FPGA may fail
start_beamformer(t, duration) ==
  <<OfTile("leave_if_running", t)>> \o current_station_beamformer_frame
    \o ForBoth(t, LAMBDA f : <<[do |-> "start_beam", fpga |-> f, duration |-> duration]>>)
    \o <<OfTile("check_started", t)>>

\* these are in effect when the delays are loaded, or the calibration computed
set_pointing_delay(t) == ForBoth(t, SetAtOnce)

load_antenna_tapering(t) == ForBoth(t, SetAtOnce)

load_beam_angle(t) == ForBoth(t, SetAtOnce)

\* the first FPGA has the first eight antennas
load_calibration_coefficients(t, antenna) == SetAtOnce(fpgas(t)[IF antenna < 8 THEN 1 ELSE 2])

load_pointing_delay(t) == current_tile_beamformer_frame \o ForBoth(t, WriteTime)

switch_calibration_bank(t) == current_tile_beamformer_frame \o ForBoth(t, WriteTime)

synchronised_beamformer_coefficients(t, given) ==
  (IF given THEN <<>> ELSE ReadTime) \o ForBoth(t, WriteTime)

test_generator_set_tone(t) == ReadTime \o ForBoth(t, WriteTime)

test_generator_disable_tone(t) == test_generator_set_tone(t)

test_generator_set_noise(t) == ReadTime \o ForBoth(t, WriteTime)
=============================================================================
