------------------------- MODULE Tpm16TestFirmware --------------------------
(***************************************************************************)
(* What plugins/tpm_1_6/tpm_test_firmware.py does otherwise than the       *)
(* class it is derived from, TpmTestFirmware.                              *)
(***************************************************************************)
EXTENDS TileSteps

\* There is always a core for data, of one kind or another.
load_plugin(features) ==
  {"tpm_jesd", "tpm_fpga", "tpm_f2f", "test_generator", "tpm_integrator", "tpm_10g_core"}
    \cup {p \in {"beamf_fd"} : "tile_beamformer" \in features}
    \cup {p \in {"station_beamf"} : "station_beamformer" \in features}

\* What an object of the class adds to the board, by the features of the first FPGA.
Plugin(features) ==
  {"tpm_test_firmware", "configure_40g_core_flyover_test"} \cup load_plugin(features)

initialise_firmware(f) == <<OfFpga("start_jesd", f), OfFpga("start_ddr", f)>>
=============================================================================
