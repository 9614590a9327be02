---------------------------- MODULE MCTileHealth -----------------------------
(* Errors of a few kinds, and paths that name a category, and a point whose *)
(* name is the beginning of another's.                                      *)
EXTENDS TileHealth

SomeBoards == {
  [version |-> 2, plugins |-> {"station_beamf"},
   voltages |-> {"MGT_AVTT"}, currents |-> {"FE0"}],
  [version |-> 6, plugins |-> {"beamf_fd", "station_beamf"},
   voltages |-> {"MGT_AVTT"}, currents |-> {"FE0"}]}

WatchedRegisters == {
  <<"clock", 1>>, <<"jesd_lane", 1>>, <<"jesd_resync", 0>>, <<"udp_crc", 1>>, <<"adc_pll_10", 0>>,
  <<"station_flag", 1>>}

SomePaths == {<<"adcs", "pll_status", "ADC1">>, <<"io">>}

Filters == {
  [group |-> "any", rate |-> "any"], [group |-> "any", rate |-> "slow"],
  [group |-> "udp_interface", rate |-> "fast"], [group |-> "station_beamf", rate |-> "any"]}
=============================================================================
