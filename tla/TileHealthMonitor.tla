-------------------------- MODULE TileHealthMonitor ---------------------------
(***************************************************************************)
(* The functions of pyaavs/tile_health_monitor.py that look at what the    *)
(* hardware remembers of its errors, and clear that.  A function is a      *)
(* sequence of steps, each one call to a plug-in: a look at registers, or  *)
(* a write that clears them.  A register is the kind of an error and the   *)
(* FPGA it is on (the board is 0).                                         *)
(*                                                                         *)
(* What shows the state of the moment, a temperature or whether a link is  *)
(* up, is looked at and not compared: its value is left out.  Of the       *)
(* voltages there is one here, of the currents one (FE0 is FE0_mVA in TPM  *)
(* 1.6 and ACS_FE0_VI in TPM 1.2), and of the 16 ADCs two.  The two cores  *)
(* of JESD of an FPGA are one, and so are the clocks and clock managers.   *)
(***************************************************************************)
EXTENDS SequencesExt, Integers

\* what a core for the network counts
EthErrors == {"udp_crc", "udp_bip", "udp_decode", "udp_linkup"}
\* what a station beamformer counts
StationErrors == {"station_flag", "ddr_parity"}
JesdErrors == {"jesd_lane", "jesd_resync", "jesd_qpll"}
OfFpgas ==
  EthErrors \cup StationErrors \cup JesdErrors
    \cup {"clock", "clock_manager", "pps", "ddr_reset", "f2f_pll", "tile_beamf"}
OfBoard == {"pll", "adc_pll_1", "adc_pll_10", "f2f_hard"}
Registers == (OfFpgas \X {0, 1}) \cup (OfBoard \X {0})

Look(kinds, f) == [do |-> "look", kinds |-> kinds, fpga |-> f]
Clear(kinds, f) == [do |-> "clear", kinds |-> kinds, fpga |-> f]
\* a board without this plug-in, or this measurement, raises an exception
Needs(plugin) == [do |-> "needs", plugin |-> plugin]

\* a look at what is not compared
Measure(f) == Look({}, f)

All == <<0, 1>>
ForFpgas(fpgas, step(_)) == [i \in DOMAIN fpgas |-> step(fpgas[i])]

\* In TPM 1.2 there are 2 cores between the FPGAs, in TPM 1.6 only one is looked at.
F2fCores(tpm) == IF tpm = 2 THEN All ELSE <<0>>
-----------------------------------------------------------------------------
(* Looking                                                                  *)

\* 0 when the FPGA is not programmed
get_fpga_temperature(fpgas) == ForFpgas(fpgas, Measure)
get_temperature == <<Measure(0)>>

\* the names that the plug-ins of the board and its FPGAs know
get_available_voltages(board) == board.voltages
get_available_currents(board) == board.currents

\* From the plug-in of the board, and those of the FPGAs.  An exception is raised when none
\* of them knows the name.
get_voltage(fpgas, voltage_name) ==
  <<Measure(0)>> \o ForFpgas(fpgas, Measure) \o <<Needs(voltage_name)>>
get_current(fpgas, current_name) ==
  <<Measure(0)>> \o ForFpgas(fpgas, Measure) \o <<Needs(current_name)>>

\* none for TPM 1.2
check_global_status_alarms(tpm) == IF tpm = 2 THEN <<>> ELSE <<Measure(0)>>
check_adc_sysref_setup_and_hold == <<Measure(0)>>

\* two readings, again and again until they were made in less than 3 ms
check_adc_sysref_counter == <<[do |-> "read_twice"]>>
check_jesd_link_status(fpgas) == ForFpgas(fpgas, Measure)
check_ddr_initialisation(fpgas) == ForFpgas(fpgas, Measure)
check_f2f_soft_errors(tpm) == IF tpm = 2 THEN <<>> ELSE <<Measure(0)>>
check_udp_arp_table_status(fpgas) == <<Measure(0)>> \o ForFpgas(fpgas, Measure)

\* The ADCs of TPM 1.2 do not tell of a lock that was lost.
check_adc_pll_status(tpm, adc) == IF tpm = 2 THEN <<Look({}, 0)>> ELSE <<Look({adc}, 0)>>
check_ad9528_pll_status == <<Look({"pll"}, 0)>>
check_clock_status(fpgas) == ForFpgas(fpgas, LAMBDA f : Look({"clock"}, f))
check_clock_manager_status(fpgas) == ForFpgas(fpgas, LAMBDA f : Look({"clock_manager"}, f))
check_pps_status(fpgas) == ForFpgas(fpgas, LAMBDA f : Look({"pps"}, f))
check_jesd_lane_error_counter(fpgas) == ForFpgas(fpgas, LAMBDA f : Look({"jesd_lane"}, f))
check_jesd_lane_status(fpgas) == ForFpgas(fpgas, LAMBDA f : Look({"jesd_lane"}, f))
check_jesd_resync_counter(fpgas) == ForFpgas(fpgas, LAMBDA f : Look({"jesd_resync"}, f))
check_jesd_qpll_status(fpgas) == ForFpgas(fpgas, LAMBDA f : Look({"jesd_qpll"}, f))
check_ddr_reset_counter(fpgas) == ForFpgas(fpgas, LAMBDA f : Look({"ddr_reset"}, f))
check_ddr_parity_error_counter(fpgas) ==
  <<Needs("station_beamf")>> \o ForFpgas(fpgas, LAMBDA f : Look({"ddr_parity"}, f))
check_f2f_pll_status(tpm) == ForFpgas(F2fCores(tpm), LAMBDA c : Look({"f2f_pll"}, c))
check_f2f_hard_errors(tpm) == IF tpm = 2 THEN <<Look({}, 0)>> ELSE <<Look({"f2f_hard"}, 0)>>
check_udp_status(fpgas) == ForFpgas(fpgas, LAMBDA f : Look(EthErrors, f))
check_udp_crc_error_counter(fpgas) == ForFpgas(fpgas, LAMBDA f : Look({"udp_crc"}, f))
check_udp_bip_error_counter(fpgas) == ForFpgas(fpgas, LAMBDA f : Look({"udp_bip"}, f))
check_udp_decode_error_counter(fpgas) == ForFpgas(fpgas, LAMBDA f : Look({"udp_decode"}, f))
check_udp_linkup_loss_counter(fpgas) == ForFpgas(fpgas, LAMBDA f : Look({"udp_linkup"}, f))
check_tile_beamformer_status(fpgas) ==
  <<Needs("beamf_fd")>> \o ForFpgas(fpgas, LAMBDA f : Look({"tile_beamf"}, f))
check_station_beamformer_status(fpgas) ==
  <<Needs("station_beamf")>> \o ForFpgas(fpgas, LAMBDA f : Look(StationErrors, f))
-----------------------------------------------------------------------------
(* Clearing                                                                 *)

enable_clock_monitoring(fpgas) == ForFpgas(fpgas, LAMBDA f : [do |-> "enable", fpga |-> f])

disable_clock_monitoring(fpgas) == ForFpgas(fpgas, LAMBDA f : [do |-> "disable", fpga |-> f])

clear_ad9528_pll_status == <<Clear({"pll"}, 0)>>
clear_clock_status(fpgas) == ForFpgas(fpgas, LAMBDA f : Clear({"clock"}, f))
clear_clock_manager_status(fpgas) == ForFpgas(fpgas, LAMBDA f : Clear({"clock_manager"}, f))
clear_pps_status(fpgas) == ForFpgas(fpgas, LAMBDA f : Clear({"pps"}, f))

\* mutant: those that the cores share are forgotten
ClearLanes(fpgas) == ForFpgas(fpgas, LAMBDA f : Clear({"jesd_lane"}, f))

clear_jesd_error_counters(fpgas) == ForFpgas(fpgas, LAMBDA f : Clear(JesdErrors, f))

clear_ddr_reset_counter(fpgas) == ForFpgas(fpgas, LAMBDA f : Clear({"ddr_reset"}, f))
clear_f2f_pll_lock_loss_counter(tpm) ==
  ForFpgas(F2fCores(tpm), LAMBDA c : Clear({"f2f_pll"}, c))
clear_udp_status(fpgas) == ForFpgas(fpgas, LAMBDA f : Clear(EthErrors, f))
clear_tile_beamformer_status(fpgas) ==
  <<Needs("beamf_fd")>> \o ForFpgas(fpgas, LAMBDA f : Clear({"tile_beamf"}, f))
clear_station_beamformer_status(fpgas) ==
  <<Needs("station_beamf")>> \o ForFpgas(fpgas, LAMBDA f : Clear(StationErrors, f))

clear_health_status(tpm) ==
  clear_clock_status(All) \o clear_clock_manager_status(All) \o clear_pps_status(All)
    \o clear_ad9528_pll_status \o clear_jesd_error_counters(All)
    \o clear_ddr_reset_counter(All) \o clear_f2f_pll_lock_loss_counter(tpm)
    \o clear_udp_status(All) \o clear_tile_beamformer_status(All)
    \o clear_station_beamformer_status(All)

\* A write that asks for an error, and then a look at whether it was made, until it was
\* or there was none for too long
inject_ddr_parity_error(fpgas) ==
  [n \in 1 .. 2 * Len(fpgas) |->
     [do |-> IF n % 2 = 1 THEN "inject" ELSE "await_injected", fpga |-> fpgas[(n + 1) \div 2]]]
-----------------------------------------------------------------------------
(* Monitoring points                                                        *)

\* The points in their order, and the method of each: tpm_1_2_ and
\* tpm_1_6_monitoring_point_lookup.py
lookup(tpm) == <<
  <<<<"temperatures", "board">>, get_temperature>>,
  <<<<"temperatures", "FPGA0">>, get_fpga_temperature(<<0>>)>>,
  <<<<"temperatures", "FPGA1">>, get_fpga_temperature(<<1>>)>>,
  <<<<"voltages", "MGT_AVTT">>, get_voltage(All, "MGT_AVTT")>>,
  <<<<"currents", "FE0">>, get_current(All, "FE0")>>,
  <<<<"alarms">>, check_global_status_alarms(tpm)>>,
  <<<<"adcs", "pll_status", "ADC1">>, check_adc_pll_status(tpm, "adc_pll_1")>>,
  <<<<"adcs", "pll_status", "ADC10">>, check_adc_pll_status(tpm, "adc_pll_10")>>,
  <<<<"adcs", "sysref_timing_requirements", "ADC1">>, check_adc_sysref_setup_and_hold>>,
  <<<<"adcs", "sysref_counter", "ADC1">>, check_adc_sysref_counter>>,
  <<<<"timing", "clocks", "FPGA0">>, check_clock_status(<<0>>)>>,
  <<<<"timing", "clocks", "FPGA1">>, check_clock_status(<<1>>)>>,
  <<<<"timing", "clock_managers", "FPGA0">>, check_clock_manager_status(<<0>>)>>,
  <<<<"timing", "clock_managers", "FPGA1">>, check_clock_manager_status(<<1>>)>>,
  <<<<"timing", "pps", "status">>, check_pps_status(All)>>,
  <<<<"timing", "pll">>, check_ad9528_pll_status>>,
  <<<<"io", "jesd_interface", "link_status">>, check_jesd_link_status(All)>>,
  <<<<"io", "jesd_interface", "lane_error_count", "FPGA0">>, check_jesd_lane_error_counter(<<0>>)>>,
  <<<<"io", "jesd_interface", "lane_error_count", "FPGA1">>, check_jesd_lane_error_counter(<<1>>)>>,
  <<<<"io", "jesd_interface", "lane_status">>, check_jesd_lane_status(All)>>,
  <<<<"io", "jesd_interface", "resync_count", "FPGA0">>, check_jesd_resync_counter(<<0>>)>>,
  <<<<"io", "jesd_interface", "resync_count", "FPGA1">>, check_jesd_resync_counter(<<1>>)>>,
  <<<<"io", "jesd_interface", "qpll_status", "FPGA0">>, check_jesd_qpll_status(<<0>>)>>,
  <<<<"io", "jesd_interface", "qpll_status", "FPGA1">>, check_jesd_qpll_status(<<1>>)>>,
  <<<<"io", "ddr_interface", "initialisation">>, check_ddr_initialisation(All)>>,
  <<<<"io", "ddr_interface", "reset_counter", "FPGA0">>, check_ddr_reset_counter(<<0>>)>>,
  <<<<"io", "ddr_interface", "reset_counter", "FPGA1">>, check_ddr_reset_counter(<<1>>)>>,
  <<<<"io", "f2f_interface", "pll_status">>, check_f2f_pll_status(tpm)>>,
  <<<<"io", "f2f_interface", "soft_error">>, check_f2f_soft_errors(tpm)>>,
  <<<<"io", "f2f_interface", "hard_error">>, check_f2f_hard_errors(tpm)>>,
  <<<<"io", "udp_interface", "arp">>, check_udp_arp_table_status(All)>>,
  <<<<"io", "udp_interface", "status">>, check_udp_status(All)>>,
  <<<<"io", "udp_interface", "crc_error_count", "FPGA0">>, check_udp_crc_error_counter(<<0>>)>>,
  <<<<"io", "udp_interface", "crc_error_count", "FPGA1">>, check_udp_crc_error_counter(<<1>>)>>,
  <<<<"io", "udp_interface", "bip_error_count", "FPGA0">>, check_udp_bip_error_counter(<<0>>)>>,
  <<<<"io", "udp_interface", "bip_error_count", "FPGA1">>, check_udp_bip_error_counter(<<1>>)>>,
  <<<<"io", "udp_interface", "decode_error_count", "FPGA0">>, check_udp_decode_error_counter(<<0>>)>>,
  <<<<"io", "udp_interface", "decode_error_count", "FPGA1">>, check_udp_decode_error_counter(<<1>>)>>,
  <<<<"io", "udp_interface", "linkup_loss_count", "FPGA0">>, check_udp_linkup_loss_counter(<<0>>)>>,
  <<<<"io", "udp_interface", "linkup_loss_count", "FPGA1">>, check_udp_linkup_loss_counter(<<1>>)>>,
  <<<<"dsp", "tile_beamf">>, check_tile_beamformer_status(All)>>,
  <<<<"dsp", "station_beamf", "status">>, check_station_beamformer_status(All)>>,
  <<<<"dsp", "station_beamf", "ddr_parity_error_count">>, check_ddr_parity_error_counter(All)>>>>

\* the points by their number
tpm_1_2_lookup == lookup(2)
tpm_1_6_lookup == lookup(6)
Path(i) == tpm_1_6_lookup[i][1]
Method(tpm, i) == (IF tpm = 2 THEN tpm_1_2_lookup ELSE tpm_1_6_lookup)[i][2]
all_monitoring_points == DOMAIN tpm_1_6_lookup

\* with their beginnings
all_monitoring_categories ==
  UNION {{SubSeq(Path(i), 1, n) : n \in 1 .. Len(Path(i))} : i \in all_monitoring_points}

\* the groups a point is in
Groups(i) ==
  {Path(i)[1]} \cup (IF Path(i)[1] \in {"timing", "io", "dsp"} THEN {Path(i)[2]} ELSE {})

\* Does the name of a point begin with this?  ADC10 does with ADC1.
StartsWith(i, path) ==
  \/ IsPrefix(path, Path(i))
  \/ path = <<"adcs", "pll_status", "ADC1">> /\ Path(i) = <<"adcs", "pll_status", "ADC10">>

\* The rate of points is set: rates is, for each value, the points that have it.
set_monitoring_point_attr(rates, path, override, value) ==
  LET points == {i \in all_monitoring_points : StartsWith(i, path)}
  IN [v \in DOMAIN rates |->
        IF v = value THEN rates[v] \cup points
        ELSE IF override THEN rates[v] \ points ELSE rates[v]]

\* the points with all the attributes that are asked for
_kwargs_handler(rates, asked) ==
  {i \in all_monitoring_points :
     /\ asked.group # "any" => asked.group \in Groups(i)
     /\ asked.rate # "any" => i \in rates[asked.rate]}

\* mutant: the last one first
LastPoint(points) == CHOOSE i \in points : \A j \in points : i >= j

\* the next point that get_health_status is to look at
NextPoint(points) == CHOOSE i \in points : \A j \in points : i <= j
=============================================================================
