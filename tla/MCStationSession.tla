-------------------------- MODULE MCStationSession --------------------------
(* Commands that touch the same registers, and between them all.             *)
EXTENDS StationSession

UsedTogether == {
  {"send_raw_data", "tile_send_raw_data", "tile_send_channelised_data"},
  {"send_raw_data_synchronised", "send_beam_data", "tile_send_raw_data_synchronised"},
  {"send_channelised_data", "send_channelised_data_continuous", "stop_data_transmission"},
  {"send_channelised_data", "send_channelised_data_narrowband"},
  {"send_raw_data", "tile_send_channelised_data_continuous"},
  {"set_multi_channel_tx", "set_multi_channel_dst_ip", "start_multi_channel_tx",
   "stop_multi_channel_tx", "set_pointing_delay", "load_antenna_tapering", "load_beam_angle",
   "switch_calibration_banks", "calibrate_station",
   "load_pointing_delay", "test_generator_set_tone", "test_generator_disable_tone",
   "test_generator_set_noise", "tile_start_multi_channel_tx", "tile_load_pointing_delay",
   "switch_calibration_bank", "synchronised_beamformer_coefficients",
   "tile_test_generator_set_tone", "tile_test_generator_disable_tone",
   "tile_test_generator_set_noise"},
  {"start_beamformer", "start_beamformer_duration", "stop_beamformer"}}
=============================================================================
