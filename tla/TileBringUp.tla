---------------------------- MODULE TileBringUp -----------------------------
(***************************************************************************)
(* How pyaavs/tile.py, tile_1_6.py and the plug-ins bring up one tile.  A  *)
(* function is a sequence of steps, of which one may raise an exception    *)
(* (the rest of the program is then left out) or return early (the rest up *)
(* to the end of the function, a step of its own, is left out).            *)
(*                                                                         *)
(* A board is a version, 2 or 6, and the features of its firmware.         *)
(***************************************************************************)
EXTENDS TileSteps, Integers

TPM_1_2 == INSTANCE TpmTestFirmware
TPM_1_6 == INSTANCE Tpm16TestFirmware

MaxAttempts == 5
PpsTarget == 20   \* cycles of 200 MHz
PpsMargin == 4

Connect(plugins, t) == <<[do |-> "connect", tile |-> t, plugins |-> plugins]>>

\* raises an exception if the board is not connected or has not all these plug-ins
Needs(t, names) == <<[do |-> "needs", tile |-> t, names |-> names]>>

\* of the plug-ins for both FPGAs, and those they load
load_plugin(board) ==
  IF board.version = 2 THEN TPM_1_2!Plugin(board.features) ELSE TPM_1_6!Plugin(board.features)

Firmware(board, f) ==
  IF board.version = 2 THEN TPM_1_2!initialise_firmware(f) ELSE TPM_1_6!initialise_firmware(f)

\* a new object, whose version is asked of the board
Instance(t) == <<OfTile("instance", t)>>

program_cpld(t) == Connect(FALSE, t) \o <<OfTile("write_cpld", t)>>

program_fpgas(t) == Connect(FALSE, t) \o <<Step("bitfile"), OfTile("download", t)>>
-----------------------------------------------------------------------------
(* Time                                                                     *)

wait_pps_event(t) == <<OfTile("await_pps", t)>>

get_fpga_time(f) == <<OfFpga("read_clock", f)>>

set_fpga_time(f) == <<OfFpga("set_clock", f)>>

set_pps_sampling(t, target, margin) ==
  <<[do |-> "sampling", tile |-> t, target |-> target, margin |-> margin]>>

\* How many steps of 40 / 5 cycles the delay is to be changed by; None when that is not
\* in reach
None == 5

\* mutant: a delay that is too high is not changed
OnlyUp(current, target, margin) ==
  IF current > target - margin THEN 0
  ELSE Min({n \in 0 .. None : n = None \/ current + 8 * n >= target - margin})

calculate_delay(current, target, margin) ==
  LET ref_low == target - margin
      ref_hi == target + margin
      Reaches(n) == IF current <= ref_low THEN current + 8 * n >= ref_low
                                         ELSE current - 8 * n <= ref_hi
  IN IF ref_low < current /\ current < ref_hi THEN 0
     ELSE Min({n \in 0 .. None : n = None \/ Reaches(n)})

\* the delay after that
Sampled(current, target, margin) ==
  LET change == 8 * calculate_delay(current, target, margin)
  IN IF current <= target - margin THEN current + change ELSE current - change

\* an attempt to set both clocks to the time of the computer, and to see whether they agree
SyncAttempt(t, n) ==
  wait_pps_event(t) \o <<Step("read_utc")>> \o ForBoth(t, set_fpga_time)
    \o set_pps_sampling(t, PpsTarget, PpsMargin)
    \o wait_pps_event(t) \o ForBoth(t, get_fpga_time)
    \o <<[do |-> "compare_two", tile |-> t, attempt |-> n]>>

sync_fpga_time(t) == SyncAttempt(t, 1)

\* after the last it gives up, which is only logged
AfterTwoCompared(equal, t, n) ==
  IF equal \/ n = MaxAttempts THEN <<>> ELSE SyncAttempt(t, n + 1)
-----------------------------------------------------------------------------
(* Functions that change nothing of the board that matters here, for each   *)
(* the names, of plug-ins or of their functions, without which the board    *)
(* raises an exception                                                      *)

set_c2c_burst == {}

configure_40g_core == {"tpm_10g_core"}

\* by a register of the board
is_qsfp_module_plugged == {}

\* "flyover_test" is not told from a warning on boards of version 1.2, since the method
\* tpm_version itself, and not what it returns, is compared
set_default_eth_configuration(board, config) ==
  IF "xg_eth" \notin board.features THEN {}
  ELSE configure_40g_core \cup is_qsfp_module_plugged
         \cup {n \in {"configure_40g_core_flyover_test"} : config.qsfp_detection = "flyover_test"}

set_lmc_download(use_40g) == IF use_40g THEN configure_40g_core ELSE {}

set_lmc_integrated_download(use_40g) == set_lmc_download(use_40g) \cup {"tpm_integrator"}

\* delays that are not one number or 32, or are out of range, are refused; the caller does
\* not look
set_time_delays == {}

set_channeliser_truncation == {}

stop_integrated_data == {"tpm_integrator"}

configure_integrated_channel_data == {"tpm_integrator"}

configure_integrated_beam_data == {"tpm_integrator"}

initialise_beamformer == {"beamf_fd", "station_beamf"}

define_spead_header == {"station_beamf"}

set_beamformer_epoch == {"station_beamf"}

reset_eth_errors(board) == IF "xg_eth" \in board.features THEN {"tpm_10g_core"} ELSE {}

set_preadu_attenuation == {}
-----------------------------------------------------------------------------
set_station_id(t) == <<OfTile("set_id", t)>>

\* Tells whether all links that are used are up, if there is one
check_arp_table(t) == Needs(t, {"tpm_10g_core"}) \o <<OfTile("check_arp", t)>>

\* None, of which no element can be taken, when the board is not programmed
get_adc_rms(t) == <<OfTile("needs_programmed", t)>>

equalize_preadu_gain(t) == Needs(t, {}) \o get_adc_rms(t)

\* the time at which both FPGAs are to start
start_acquisition(board, t) ==
  Needs(t, IF "station_beamformer" \in board.features THEN set_beamformer_epoch ELSE {})
    \o ForBoth(t, LAMBDA f : <<OfFpga("start_at", f)>>)

ReturnUnlessProgrammed(t) ==
  <<OfTile("needs_board", t), OfTile("return_unless_programmed", t)>>

\* of version 1.2
InitialiseBoard(board, config, t) ==
  ReturnUnlessProgrammed(t) \o <<OfTile("return_if_far", t)>>
    \o ForBoth(t, LAMBDA f : Firmware(board, f))
    \o set_station_id(t) \o Needs(t, set_c2c_burst) \o sync_fpga_time(t)
    \o Needs(t, {"tpm_f2f", "test_generator"} \cup set_default_eth_configuration(board, config))
    \o ForBoth(t, TPM_1_2!check_ddr_initialisation)
    \o Needs(t, set_lmc_download(config.use_teng) \cup set_time_delays
               \cup set_lmc_integrated_download(config.use_teng_integrated)
               \cup {n \in {"station_beamf"} :
                        board.version = 6 \/ "station_beamformer" \in board.features})
    \o <<OfTile("initialised", t)>>

initialise(board, config, t) ==
  Connect(TRUE, t) \o InitialiseBoard(board, config, t) \o <<Step("end")>>

\* of version 1.6, which has no internal PPS
initialise_1_6(board, config, t) ==
  <<Step("return_if_internal_pps")>> \o Connect(TRUE, t)
    \o InitialiseBoard(board, config, t) \o <<Step("end")>>
=============================================================================
