-------------------------- MODULE TpmTestFirmware ---------------------------
(***************************************************************************)
(* The functions of plugins/tpm/tpm_test_firmware.py that bring up an FPGA *)
(* and ask it for data.  Of the registers of lmc_gen there are the bits of request, the   *)
(* enable bit of channelized_single_channel_mode (data are sent until it   *)
(* is cleared) and channelized_ddc_mode (of a narrow band).                *)
(***************************************************************************)
EXTENDS TileSteps

send_raw_data(f) == <<Request(f, "raw_adc_mode")>>

\* of all antennas at once
send_raw_data_synchronised(f) == <<Request(f, "raw_adc_mode")>>

send_channelised_data(f) ==
  <<OfFpga("single_channel_off", f), OfFpga("ddc_off", f), Request(f, "channelized_mode")>>

send_channelised_data_continuous(f) ==
  <<OfFpga("single_channel_on", f), OfFpga("ddc_off", f), Request(f, "channelized_mode")>>

\* nothing is done when the firmware has no narrow band or the frequency is out of range
send_channelised_data_narrowband(f) ==
  <<OfFpga("single_channel_on", f), OfFpga("ddc_on", f), Request(f, "channelized_mode")>>

send_beam_data(f) == <<Request(f, "beamformed_mode")>>

stop_channelised_data_continuous(f) == <<OfFpga("single_channel_off", f)>>

clear_lmc_data_request(f) == <<OfFpga("clear_request", f)>>
-----------------------------------------------------------------------------
(* Bringing up                                                              *)

\* The other plug-ins the board gets from its two FPGAs, by the features of their firmware;
\* a name of the board that no plug-in has given it is an AttributeError
load_plugin(features) ==
  {"tpm_jesd", "tpm_fpga", "tpm_f2f", "test_generator", "tpm_integrator"}
    \cup {p \in {"tpm_10g_core"} : {"xg_eth", "xg_40g_eth"} \subseteq features}
    \cup {p \in {"beamf_fd"} : "tile_beamformer" \in features}
    \cup {p \in {"station_beamf"} : "station_beamformer" \in features}

\* What an object of the class adds to the board.  The features it reads are those of the
\* first FPGA, whichever FPGA it is for.
Plugin(features) == {"tpm_test_firmware"} \cup load_plugin(features)

start_ddr_initialisation(f) == <<OfFpga("start_ddr", f)>>

\* is the memory ready?  If not, three times: start again and look five times
check_ddr_initialisation(f) == <<OfFpga("check_ddr", f)>>

initialise_ddr(f) == <<OfFpga("initialise_ddr", f)>>

initialise_firmware(f) == <<OfFpga("start_jesd", f)>> \o start_ddr_initialisation(f)
=============================================================================
