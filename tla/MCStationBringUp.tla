-------------------------- MODULE MCStationBringUp --------------------------
(* Boards of both versions, and configurations of a station.                 *)
EXTENDS StationBringUp

Board_1_2 ==
  [version |-> 2, features |-> {"xg_eth", "xg_40g_eth", "tile_beamformer", "station_beamformer"}]
Board_1_6 == [Board_1_2 EXCEPT !.version = 6]
NoBeamformer == [version |-> 6, features |-> {"xg_eth", "tile_beamformer"}]
Boards == {<<Board_1_2, Board_1_6>>, <<Board_1_2, NoBeamformer>>}

Earlier == {{}, {1}, {1, 2}}

\* ... which are 16 and 23 when they are sampled at 20, with a margin of 4: too far apart
DelaysOfTiles == {<<16, 39>>}

Default == [
  program_cpld |-> FALSE, program |-> FALSE, initialise |-> FALSE,
  bitfile |-> TRUE, named |-> TRUE, use_internal_pps |-> FALSE, pps_delay_far |-> FALSE,
  use_teng |-> TRUE, use_teng_integrated |-> TRUE, integrate |-> TRUE,
  qsfp_detection |-> "auto", enable_test |-> FALSE, equalize_preadu |-> TRUE]

StationConfigs == {
  Default,
  [Default EXCEPT !.initialise = TRUE, !.enable_test = TRUE],
  [Default EXCEPT !.program = TRUE, !.initialise = TRUE],
  [Default EXCEPT !.program_cpld = TRUE, !.program = TRUE],
  [Default EXCEPT !.program = TRUE, !.bitfile = FALSE],
  [Default EXCEPT !.program = TRUE, !.named = FALSE],
  [Default EXCEPT !.initialise = TRUE, !.use_internal_pps = TRUE, !.use_teng = FALSE, !.integrate = FALSE],
  [Default EXCEPT !.initialise = TRUE, !.qsfp_detection = "flyover_test"]}
=============================================================================
