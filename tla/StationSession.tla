--------------------------- MODULE StationSession ---------------------------
(***************************************************************************)
(* A station at work: one command after the other, of the station to all   *)
(* tiles or to a single tile, while time passes in the FPGAs and these     *)
(* send what they were asked to, start and stop.  Time is counted back     *)
(* from the moments at which something is to happen: it has no end.        *)
(*                                                                         *)
(* The FPGAs of a station that is formed show the same time.  What the     *)
(* firmware does (Tick, Served, Write) is what tile.py says of it: it      *)
(* serves a request at its time and clears it; one that comes when its     *)
(* time has passed is neither served nor cleared, and raises a flag, in    *)
(* those versions of the firmware that have it.                            *)
(***************************************************************************)
EXTENDS StationCommands, Integers, FiniteSets

CONSTANTS
  NofTiles,
  Delay,       \* of every command, in frames
  Flagged,     \* versions of the firmware: with the flag or without
  Holding,     \* ... whose request of continuous data is there until they are stopped
  Groups       \* sets of commands that are used together

ASSUME StationAssumption ==
  /\ NofTiles \in Nat \ {0} /\ Delay \in Nat \ {0}
  /\ Flagged \subseteq BOOLEAN /\ Holding \subseteq BOOLEAN

tiles == [t \in 1 .. NofTiles |-> t]
Fpgas == (1 .. NofTiles) \X {1, 2}
DataModes == {"raw_adc_mode", "channelized_mode", "beamformed_mode"}
Passed == -1
Off == [wait |-> 0, run |-> 0]
Forever == -1

VARIABLES
  flagged, holding, commands, \* fixed
  request,      \* of each FPGA: bits of lmc_gen.request
  late,         \* did the request come when its time had passed?
  invalid,      \* flags, lmc_gen.timestamp_req_invalid
  single,       \* channelized_single_channel_mode.enable
  ddc,          \* channelized_ddc_mode
  time_left,    \* until timestamp_req_val, Passed in the end
  beam,         \* the station beamformer: frames until it starts, and it then runs
  calls,        \* of the command, to be done, and what there is to do of the first
  concerned,    \* FPGAs the command is for
  due,          \* time left until the time of the command
  refused,      \* has one of the beamformers refused to start?
  told,         \* what the command has told its caller: "nothing", "ok", "failed"
  asked,        \* history: has the command asked for data?
  written       \* history: the time that was left when the FPGA was told what to do

fixed == <<flagged, holding, commands>>
registers == <<request, late, invalid, single, ddc, time_left>>
local == <<concerned, due, refused, told, asked, written>>
vars == <<fixed, registers, beam, calls, local>>

Init ==
  /\ flagged \in Flagged
  /\ holding \in Holding
  /\ commands \in Groups
  /\ request = [f \in Fpgas |-> {}]
  /\ late = [f \in Fpgas |-> FALSE]
  /\ invalid = [f \in Fpgas |-> {}]
  /\ single = [f \in Fpgas |-> FALSE]
  /\ ddc = [f \in Fpgas |-> FALSE]
  /\ time_left = [f \in Fpgas |-> Passed]
  /\ beam = [f \in Fpgas |-> Off]
  /\ calls = <<>>
  /\ concerned = {}
  /\ due = Passed
  /\ refused = FALSE
  /\ told = "nothing"
  /\ asked = FALSE
  /\ written = [f \in Fpgas |-> Passed]
-----------------------------------------------------------------------------
(* Commands                                                                 *)

StationCommand == [
  send_raw_data |-> send_raw_data(tiles),
  send_raw_data_synchronised |-> send_raw_data_synchronised(tiles),
  send_channelised_data |-> send_channelised_data(tiles),
  send_beam_data |-> send_beam_data(tiles),
  send_channelised_data_continuous |-> send_channelised_data_continuous(tiles),
  send_channelised_data_narrowband |-> send_channelised_data_narrowband(tiles),
  stop_data_transmission |-> stop_data_transmission(tiles),
  set_multi_channel_tx |-> set_multi_channel_tx(tiles),
  set_multi_channel_dst_ip |-> set_multi_channel_dst_ip(tiles),
  start_multi_channel_tx |-> start_multi_channel_tx(tiles),
  stop_multi_channel_tx |-> stop_multi_channel_tx(tiles),
  switch_calibration_banks |-> switch_calibration_banks(tiles),
  calibrate_station |-> calibrate_station(tiles),
  load_pointing_delay |-> load_pointing_delay(tiles),
  test_generator_set_tone |-> test_generator_set_tone(tiles),
  test_generator_disable_tone |-> test_generator_disable_tone(tiles),
  test_generator_set_noise |-> test_generator_set_noise(tiles)]

\* those of a tile: of data, to an FPGA or to both
TileCommand(t) == [
  tile_send_raw_data |-> Tile!send_raw_data(t, FALSE, FALSE, {<<t, 1>>}),
  tile_send_raw_data_synchronised |-> Tile!send_raw_data_synchronised(t, FALSE),
  tile_send_channelised_data |-> Tile!send_channelised_data(t, FALSE),
  tile_send_channelised_data_continuous |-> Tile!send_channelised_data_continuous(t, FALSE),
  start_beamformer |-> Tile!start_beamformer(t, Forever),
  start_beamformer_duration |-> Tile!start_beamformer(t, 1),
  stop_beamformer |-> Tile!stop_beamformer(t),
  tile_start_multi_channel_tx |-> Tile!start_multi_channel_tx(t, FALSE),
  set_pointing_delay |-> Tile!set_pointing_delay(t),
  load_antenna_tapering |-> Tile!load_antenna_tapering(t),
  load_beam_angle |-> Tile!load_beam_angle(t),
  tile_load_pointing_delay |-> Tile!load_pointing_delay(t),
  switch_calibration_bank |-> Tile!switch_calibration_bank(t),
  synchronised_beamformer_coefficients |-> Tile!synchronised_beamformer_coefficients(t, FALSE),
  tile_test_generator_set_tone |-> Tile!test_generator_set_tone(t),
  tile_test_generator_disable_tone |-> Tile!test_generator_disable_tone(t),
  tile_test_generator_set_noise |-> Tile!test_generator_set_noise(t)]

Begin(command, fs) ==
  /\ calls = <<>>
  /\ calls' = command
  /\ concerned' = fs
  /\ due' = Passed
  /\ refused' = FALSE
  /\ told' = "nothing"
  /\ asked' = FALSE
  /\ written' = [f \in Fpgas |-> Passed]
  /\ UNCHANGED <<fixed, registers, beam>>

CommandStation ==
  \E name \in commands \cap DOMAIN StationCommand : Begin(StationCommand[name], Fpgas)

CommandTile ==
  \E t \in 1 .. NofTiles : \E name \in commands \cap DOMAIN TileCommand(t) :
    Begin(<<TileCommand(t)[name]>>, FpgasOf(t))

This == Head(Head(calls))

AtStep(do) == calls # <<>> /\ This.do = do

\* to this, and when there is none to the next call
Then(steps) ==
  calls' = IF steps = <<>> THEN Tail(calls) ELSE [calls EXCEPT ![1] = steps]

GoOn == Then(Tail(Head(calls)))

check_pending_data_requests(t) == \E f \in FpgasOf(t) : request[f] # {}

AwaitNone ==
  /\ AtStep("await_none")
  /\ \A t \in 1 .. NofTiles : ~check_pending_data_requests(t)
  /\ GoOn
  /\ UNCHANGED <<registers, beam, local>>

AwaitNoRequest ==
  /\ AtStep("await_no_request")
  /\ \A f \in FpgasOf(This.tile) : request[f] = {}
  /\ GoOn
  /\ UNCHANGED <<registers, beam, local>>

ReadTheTime ==
  /\ AtStep("read_time")
  /\ due' = Delay
  /\ GoOn
  /\ UNCHANGED <<registers, beam, concerned, refused, told, asked, written>>

Write ==
  /\ AtStep("write_time")
  /\ written' = [written EXCEPT ![This.fpga] = due]
  /\ GoOn
  /\ UNCHANGED <<registers, beam, concerned, due, refused, told, asked>>

Set == AtStep("set") /\ GoOn /\ UNCHANGED <<registers, beam, local>>

ApplySyncDelay ==
  /\ AtStep("apply_sync_delay")
  /\ time_left' = [time_left EXCEPT ![This.fpga] = due]
  /\ GoOn
  /\ UNCHANGED <<request, late, invalid, single, ddc, beam, local>>

SetMode ==
  LET f == This.fpga IN
  /\ \/ /\ AtStep("single_channel_on") \/ AtStep("single_channel_off")
        /\ single' = [single EXCEPT ![f] = This.do = "single_channel_on"]
        /\ UNCHANGED ddc
     \/ /\ AtStep("ddc_on") \/ AtStep("ddc_off")
        /\ ddc' = [ddc EXCEPT ![f] = This.do = "ddc_on"]
        /\ UNCHANGED single
  /\ GoOn
  /\ UNCHANGED <<request, late, invalid, time_left, beam, local>>

SetRequest ==
  /\ AtStep("request")
  /\ LET f == This.fpga
         passed == time_left[f] <= 0
     IN /\ request' = [request EXCEPT ![f] = @ \cup {This.mode}]
        /\ late' = [late EXCEPT ![f] = passed]
        /\ invalid' = [invalid EXCEPT ![f] = IF passed /\ flagged THEN @ \cup {This.mode} ELSE @]
        /\ written' = [written EXCEPT ![f] = time_left[f]]
  /\ asked' = TRUE
  /\ GoOn
  /\ UNCHANGED <<single, ddc, time_left, beam, concerned, due, refused, told>>

\* the flags, or the time
IsValid ==
  IF flagged THEN \A f \in This.checked : This.mode \notin invalid[f]
             ELSE due > 0

CheckFlag ==
  /\ AtStep("check_flag")
  /\ IF IsValid
       THEN GoOn
       ELSE Then(Tile!AfterInvalid(This.tile, This.mode, This.checked, flagged) \o Tail(Head(calls)))
  /\ UNCHANGED <<registers, beam, local>>

CheckOnly == AtStep("check_only") /\ GoOn /\ UNCHANGED <<registers, beam, local>>

ClearRequest ==
  /\ AtStep("clear_request")
  /\ request' = [request EXCEPT ![This.fpga] = {}]
  /\ late' = [late EXCEPT ![This.fpga] = FALSE]
  /\ GoOn
  /\ UNCHANGED <<invalid, single, ddc, time_left, beam, local>>

ClearFlag ==
  /\ AtStep("clear_flag")
  /\ invalid' = [invalid EXCEPT ![This.fpga] = @ \ {This.mode}]
  /\ GoOn
  /\ UNCHANGED <<request, late, single, ddc, time_left, beam, local>>

\* once failed, always failed
Tell ==
  /\ AtStep("check_later") \/ AtStep("check_passed")
  /\ LET well == IF This.do = "check_later" THEN due >= 0 ELSE due > 0
     IN told' = IF well /\ told # "failed" THEN "ok" ELSE "failed"
  /\ GoOn
  /\ UNCHANGED <<registers, beam, concerned, due, refused, asked, written>>
-----------------------------------------------------------------------------
(* The beamformer of a tile                                                 *)

IsRunning(f) == beam[f].wait = 0 /\ beam[f].run # 0

\* by the first FPGA; one that is going to start may be said to run or not
LeaveIfRunning ==
  LET f == <<This.tile, 1>> IN
  /\ AtStep("leave_if_running")
  /\ \/ /\ IsRunning(f) \/ beam[f].wait > 0
        /\ calls' = <<>> /\ told' = "failed"
     \/ ~IsRunning(f) /\ GoOn /\ UNCHANGED told
  /\ UNCHANGED <<registers, beam, concerned, due, refused, asked, written>>

\* An FPGA may refuse; one whose time has passed may start at once or never.
StartBeam ==
  /\ AtStep("start_beam")
  /\ LET f == This.fpga IN
     \/ /\ beam' = [beam EXCEPT ![f] = [wait |-> IF due > 0 THEN due ELSE 0, run |-> This.duration]]
        /\ UNCHANGED refused
     \/ due <= 0 /\ UNCHANGED <<beam, refused>>
     \/ refused' = TRUE /\ UNCHANGED beam
  /\ written' = [written EXCEPT ![This.fpga] = due]
  /\ GoOn
  /\ UNCHANGED <<registers, concerned, due, told, asked>>

CheckStarted ==
  /\ AtStep("check_started")
  /\ IF due > 0 /\ ~refused
       THEN told' = "ok" /\ GoOn
       ELSE told' = "failed" /\ Then(Tile!AfterNotStarted(This.tile) \o Tail(Head(calls)))
  /\ UNCHANGED <<registers, beam, concerned, due, refused, asked, written>>

Abort ==
  /\ AtStep("abort")
  /\ beam' = [beam EXCEPT ![This.fpga] = Off]
  /\ GoOn
  /\ UNCHANGED <<registers, local>>
-----------------------------------------------------------------------------
Main ==
  /\ \/ AwaitNone \/ AwaitNoRequest \/ ReadTheTime \/ Write \/ Set
     \/ ApplySyncDelay \/ SetMode \/ SetRequest \/ CheckFlag \/ CheckOnly \/ ClearRequest
     \/ ClearFlag \/ Tell \/ LeaveIfRunning \/ StartBeam \/ CheckStarted \/ Abort
  /\ UNCHANGED fixed

Less(left) == IF left = Passed THEN Passed ELSE left - 1

Goes(b) ==
  CASE b.wait > 0 -> [b EXCEPT !.wait = @ - 1]
    [] b.wait = 0 /\ b.run > 1 -> [b EXCEPT !.run = @ - 1]
    [] b.wait = 0 /\ b.run = 1 -> Off
    [] OTHER -> b

Tick ==
  /\ due' = Less(due)
  /\ time_left' = [f \in Fpgas |-> Less(time_left[f])]
  /\ beam' = [f \in Fpgas |-> Goes(beam[f])]
  /\ UNCHANGED <<fixed, request, late, invalid, single, ddc, calls, concerned, refused, told, asked, written>>

\* The data have been sent; continuous data are sent until they are stopped.
Served(f) ==
  /\ request[f] # {} /\ ~late[f] /\ time_left[f] <= 0
  /\ ~(single[f] /\ holding)
  /\ request' = [request EXCEPT ![f] = {}]
  /\ UNCHANGED <<fixed, late, invalid, single, ddc, time_left, beam, calls, local>>

Next ==
  \/ CommandStation \/ CommandTile
  \/ Main
  \/ Tick
  \/ \E f \in Fpgas : Served(f)

Spec == Init /\ [][Next]_vars

\* The thread goes on, time passes, and the firmware serves its requests.
FairSpec ==
  /\ Spec /\ WF_vars(Main) /\ WF_vars(Tick)
  /\ \A f \in Fpgas : WF_vars(Served(f))
-----------------------------------------------------------------------------
(* Properties                                                               *)

AtRest == calls = <<>>

\* An FPGA that has not served its request is waiting for its time, or never will.
TypeOK ==
  /\ request \in [Fpgas -> SUBSET DataModes]
  /\ invalid \in [Fpgas -> SUBSET DataModes]
  /\ time_left \in [Fpgas -> Passed .. Delay]
  /\ due \in Passed .. Delay
  /\ \A f \in Fpgas :
       /\ beam[f].wait \in 0 .. Delay
       /\ Cardinality(request[f]) <= 1
       /\ late[f] => request[f] # {}
  /\ told \in {"nothing", "ok", "failed"}

\* No command but one of narrow band data leaves a request that came too late, or its
\* flag, to the next one, for which the one would be in the way for ever and the other
\* make it look invalid.
NoneLeftLate ==
  AtRest => \A f \in Fpgas : late[f] \/ invalid[f] # {} => ddc[f]

\* the time that was left when an FPGA was told what to do, by which the command may say that
\* all went well: tiles want some to be left, the station only that it has not passed
InTime(left) == IF concerned = Fpgas THEN left >= 0 ELSE left > 0

\* When a command to a tile tells its caller that all went well, its FPGAs were told what to
\* do while there was time left, and all for the same time.  One to the station may have told
\* some in the very frame of the time, which is too late (SynchronisationWorked), but none
\* after it.
WellIsTogether ==
  AtRest /\ told = "ok" =>
    /\ \A f \in concerned : InTime(written[f])
    /\ asked => \A f, g \in concerned : time_left[f] = time_left[g]

\* The beamformer starts, runs and ends in both FPGAs of a tile or in none, also when one
\* of them refuses, a start comes too late, or it is started again.
BothOrNone ==
  AtRest => \A t \in 1 .. NofTiles : beam[<<t, 1>>] = beam[<<t, 2>>]

\* Every command comes to its end, unless it waits for a request of narrow band data that
\* came too late, or for continuous data to be stopped.
CommandEnds ==
  ~AtRest /\ ~holding ~> AtRest \/ \E f \in Fpgas : late[f] /\ ddc[f]

\* "... to allow the next data request to be executed successfully": no command leaves a
\* request that came too late.
NextRequestExecuted == AtRest => \A f \in Fpgas : ~late[f]

\* "Check whether data synchronisation worked" (station.py:718), for which a time "Must be
\* more than current timestamp" (tile.py:2140): well means that no request for data came when
\* there was no time left.
SynchronisationWorked ==
  AtRest /\ asked /\ told = "ok" => \A f \in concerned : written[f] > 0
=============================================================================
