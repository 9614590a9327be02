-------------------------- MODULE StationCommands ---------------------------
(***************************************************************************)
(* The commands of pyaavs/station.py to all tiles.  Those that send data   *)
(* wait until no FPGA has a request, read the time of the first tile, and  *)
(* give it to the tiles, one after the other.  A command is a sequence of  *)
(* calls, of which most are to a tile, and a call a sequence of steps.     *)
(***************************************************************************)
EXTENDS TileSteps

Tile == INSTANCE TileCommands

\* the same call to one tile after the other
Calls(tiles, call(_)) == [n \in DOMAIN tiles |-> call(tiles[n])]

_wait_available == <<<<Step("await_none")>>>>

\* mutant: before the data are asked for
CheckEarly(send) == <<ReadTime, SuccessUnlessLater>> \o send

\* to every tile, with the delay of t0 + delay > t1, where delay is no whole number
Synchronised(send) == <<ReadTime>> \o send \o <<SuccessUnlessLater>>

stop_data_transmission(tiles) == Calls(tiles, Tile!stop_data_transmission)

send_raw_data(tiles) ==
  _wait_available
    \o Synchronised(Calls(tiles, LAMBDA t : Tile!send_raw_data(t, TRUE, FALSE, FpgasOf(t))))

send_raw_data_synchronised(tiles) ==
  _wait_available
    \o Synchronised(Calls(tiles, LAMBDA t : Tile!send_raw_data_synchronised(t, TRUE)))

send_channelised_data(tiles) ==
  _wait_available
    \o Synchronised(Calls(tiles, LAMBDA t : Tile!send_channelised_data(t, TRUE)))

send_beam_data(tiles) ==
  _wait_available \o Synchronised(Calls(tiles, LAMBDA t : Tile!send_beam_data(t, TRUE)))

send_channelised_data_continuous(tiles) ==
  stop_data_transmission(tiles) \o _wait_available
    \o Synchronised(Calls(tiles, LAMBDA t : Tile!send_channelised_data_continuous(t, TRUE)))

\* if the firmware has narrow band channels
send_channelised_data_narrowband(tiles) ==
  stop_data_transmission(tiles) \o _wait_available
    \o Synchronised(Calls(tiles, LAMBDA t : Tile!send_channelised_data_narrowband(t, TRUE)))

set_multi_channel_tx(tiles) == Calls(tiles, Tile!set_multi_channel_tx)

set_multi_channel_dst_ip(tiles) == Calls(tiles, Tile!set_multi_channel_dst_ip)

stop_multi_channel_tx(tiles) == Calls(tiles, Tile!stop_multi_channel_tx)

\* what the tiles tell is not told on
start_multi_channel_tx(tiles) ==
  <<ReadTime>> \o Calls(tiles, LAMBDA t : Tile!start_multi_channel_tx(t, TRUE))
-----------------------------------------------------------------------------
(* The time of the first tile again, which warns if it is too late          *)

\* to both FPGAs of every tile
AtOneTime(tiles) == Calls(tiles, LAMBDA t : ForBoth(t, WriteTime))

switch_calibration_banks(tiles) ==
  <<Tile!current_tile_beamformer_frame>> \o AtOneTime(tiles) \o <<SuccessUnlessLater>>

\* the coefficients of each antenna (one of an FPGA stands for eight) to tile after tile; or
\* nothing, if they are not of the shape expected
calibrate_station(tiles) ==
  Calls(tiles,
    LAMBDA t : Tile!load_calibration_coefficients(t, 0) \o Tile!load_calibration_coefficients(t, 8))
    \o switch_calibration_banks(tiles)

load_pointing_delay(tiles) ==
  <<Tile!current_tile_beamformer_frame>> \o AtOneTime(tiles) \o <<SuccessUnlessLater>>

test_generator_set_tone(tiles) ==
  <<ReadTime>> \o AtOneTime(tiles) \o <<SuccessUnlessLater>>

test_generator_disable_tone(tiles) ==
  <<ReadTime>> \o AtOneTime(tiles) \o <<SuccessUnlessLater>>

test_generator_set_noise(tiles) ==
  <<ReadTime>> \o AtOneTime(tiles) \o <<SuccessUnlessLater>>
=============================================================================
