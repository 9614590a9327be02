--------------------------- MODULE StationBringUp ---------------------------
(***************************************************************************)
(* Station.connect of pyaavs/station.py: the tiles are programmed and      *)
(* initialised by the processes of a pool, at the same time, then          *)
(* connected to, one after the other, brought to the same phase and time,  *)
(* and started.                                                            *)
(*                                                                         *)
(* PPS is the pulse at which every FPGA's clock goes on by a second.  The  *)
(* code waits for one, and has a second, less what it sleeps, for what it  *)
(* then does to the clocks: when another one comes before it is done, that *)
(* is a slip.  Clocks, and the times that are read from them, are relative *)
(* to the true time: 0 is right, -1 a second late.                         *)
(***************************************************************************)
EXTENDS TileBringUp, StationDimensions, FiniteSets

CONSTANTS
  BoardSets,   \* the tiles' boards: [version, features]
  Configs,     \* of the station
  Befores,     \* sets of tiles that were brought up earlier
  DelaySets,   \* the tiles' delays of PPS, in cycles of 200 MHz, before it is sampled
  Faults,      \* kinds of things that may go wrong
  MaxSlips

Tiles == 1 .. NofTiles

ASSUME BringUpAssumption ==
  /\ NofTiles \in Nat \ {0} /\ MaxSlips \in Nat
  /\ Befores \subseteq SUBSET Tiles
  /\ DelaySets \subseteq [Tiles -> Int]

Caller == 0
Processes == 0 .. NofTiles
Tpms == {pt \in Processes \X Tiles : pt[1] \in {Caller, pt[2]}}
Unconnected == [on |-> FALSE, plugins |-> {}]

StartDelay == 2
MaxDelaySkew == 4
MaxPolls == 4       \* seconds for which the station waits at most
NotSet == -10       \* of a clock
Never == -1

VARIABLES
  config, board, \* fixed
  before,       \* fixed: tiles that were brought up earlier
  programmed, initialised, tile_id, delay,
  clock,
  start_in,     \* seconds until the start, or Never
  began,        \* seconds since the start, or Never
  steps,        \* of each process, to be done
  result,       \* of each process of the pool
  tpm,          \* of each tile's object in a process
  held, seen,   \* times that a process has read and is going to use, or to compare
  ticked,       \* seconds for which a process has waited
  slips,
  properly_formed, outcome

given == <<config, board, before>>
tile_state == <<programmed, initialised, tile_id, delay>>
clocks == <<clock, start_in, began>>
times == <<held, seen, ticked>>
control == <<steps, result>>
station == <<properly_formed, outcome>>
bringUpVars == <<given, tile_state, clocks, control, tpm, times, slips, station>>
-----------------------------------------------------------------------------
(* station.py                                                               *)

\* calls[t], of n steps each, for one tile t after the other
ForTiles(n, calls) ==
  [i \in 1 .. n * NofTiles |-> calls[((i - 1) \div n) + 1][((i - 1) % n) + 1]]

create_tile_instance(t) == Instance(t)

\* The names of this tile and the next are looked up before exceptions are caught.
initialise_tile(t) ==
  <<Step("lookup")>> \o create_tile_instance(t)
    \o (IF board[t].version = 2 THEN initialise(board[t], config, t)
                                ELSE initialise_1_6(board[t], config, t))
    \o Needs(t, set_channeliser_truncation \cup stop_integrated_data
               \cup (IF config.integrate THEN configure_integrated_channel_data
                                              \cup configure_integrated_beam_data ELSE {}))

PoolProgram(kind, t) ==
  CASE kind = "program_cpld" -> create_tile_instance(t) \o program_cpld(t)
    [] kind = "program" -> create_tile_instance(t) \o program_fpgas(t)
    [] kind = "initialise" -> initialise_tile(t)

\* if it is configured, and all went well so far
Phase(kind) == IF config[kind] THEN <<[do |-> "map", of |-> kind], Step("join")>> ELSE <<>>

\* If the delays differ by too much, that of the first tile is the target of all.
SamplingLoop(n) ==
  wait_pps_event(1) \o <<[do |-> "compare_delays", attempt |-> n]>>

_check_pps_sampling_synchronisation == SamplingLoop(1)

AfterDelaysCompared(synced, target, n) ==
  IF synced THEN <<>>
  ELSE ForTiles(1, [t \in Tiles |-> set_pps_sampling(t, target, MaxDelaySkew)])
         \o (IF n < MaxAttempts THEN SamplingLoop(n + 1) ELSE <<>>)

\* If the clocks differ, all are set to what the first one said.
TimeAttempt(n) ==
  wait_pps_event(1) \o <<OfFpga("hold_clock", <<1, 1>>)>>
    \o ForTiles(2, [t \in Tiles |-> ForBoth(t, get_fpga_time)])
    \o <<[do |-> "compare_all", attempt |-> n]>>

_check_time_synchronisation == TimeAttempt(1)

AfterAllCompared(equal, n) ==
  IF equal THEN <<>>
  ELSE ForTiles(2, [t \in Tiles |-> ForBoth(t, set_fpga_time)])
         \o (IF n < MaxAttempts THEN TimeAttempt(n + 1) ELSE <<>>)

\* mutant: each tile from the time it reads itself
EachFromItsTime ==
  ForTiles(4, [t \in Tiles |-> <<OfFpga("hold_clock", <<t, 1>>)>> \o start_acquisition(board[t], t)])
    \o <<Step("check_start"), Step("await_started")>>

_start_acquisition ==
  ForTiles(3, [t \in Tiles |-> Needs(t, reset_eth_errors(board[t])) \o check_arp_table(t)])
    \o <<OfFpga("hold_clock", <<1, 1>>)>>
    \o ForTiles(3, [t \in Tiles |-> start_acquisition(board[t], t)])
    \o <<Step("check_start"), Step("await_started")>>

\* the gains of the preamplifiers
PreAdus ==
  IF config.enable_test THEN <<>>
  ELSE ForTiles(1, [t \in Tiles |-> Needs(t, set_preadu_attenuation)])
         \o (IF config.equalize_preadu THEN ForTiles(2, [t \in Tiles |-> equalize_preadu_gain(t)]) ELSE <<>>)

\* the beamformers, if the first tile has them
Form ==
  Needs(1, {"tpm_test_firmware"})
    \o (IF {"tile_beamformer", "station_beamformer"} \subseteq board[1].features
          THEN ForTiles(1, [t \in Tiles |->
                 Needs(t, initialise_beamformer \cup IF t = NofTiles THEN define_spead_header ELSE {})])
          ELSE <<>>)
    \o _check_pps_sampling_synchronisation \o _check_time_synchronisation
    \o _start_acquisition \o PreAdus

check_station_status == <<Step("check_status")>>

connect ==
  Phase("program_cpld") \o Phase("program") \o Phase("initialise")
    \o ForTiles(1, [t \in Tiles |-> Connect(TRUE, t)]) \o <<Step("form")>>

AfterConnected ==
  IF ~properly_formed THEN <<>> ELSE IF config.initialise THEN Form ELSE check_station_status
-----------------------------------------------------------------------------
BringUpInit ==
  /\ config \in Configs
  /\ board \in BoardSets
  /\ before \in Befores
  /\ programmed = [t \in Tiles |-> t \in before]
  /\ initialised = programmed
  /\ tile_id = [t \in Tiles |-> t - 1]
  /\ delay \in DelaySets
  /\ clock = [f \in Fpgas |-> NotSet]
  /\ start_in = [f \in Fpgas |-> Never]
  /\ began = [f \in Fpgas |-> Never]
  /\ steps = [p \in Processes |-> IF p = Caller THEN connect ELSE <<>>]
  /\ result = [t \in Tiles |-> "none"]
  /\ tpm = [pt \in Tpms |-> Unconnected]
  /\ held = [p \in Processes |-> {}]
  /\ seen = [p \in Processes |-> {}]
  /\ ticked = [p \in Processes |-> 0]
  /\ slips = 0
  /\ properly_formed = TRUE
  /\ outcome = "none"
-----------------------------------------------------------------------------
(* Steps of a process                                                       *)

Doing(p) == Head(steps[p])

IsAt(p, do) == steps[p] # <<>> /\ Doing(p).do = do

\* The step is done, and then there is more to do; the last of a process of the pool is
\* its result.
Proceeds(p, more) ==
  LET rest == more \o Tail(steps[p])
  IN /\ steps' = [steps EXCEPT ![p] = rest]
     /\ result' = IF p # Caller /\ rest = <<>> THEN [result EXCEPT ![p] = "ok"] ELSE result
     /\ outcome' = IF p = Caller /\ rest = <<>> THEN "returned" ELSE outcome

GoesOn(p) == Proceeds(p, <<>>)

\* mutant: a process of the pool lets the exception through, and has no result
EndsWithout(p, how) ==
  /\ steps' = [steps EXCEPT ![p] = <<>>]
  /\ UNCHANGED result
  /\ outcome' = IF p = Caller THEN how ELSE outcome

\* A process of the pool catches the exception, the station's does not.
Ends(p, how) ==
  /\ steps' = [steps EXCEPT ![p] = <<>>]
  /\ result' = IF p # Caller THEN [result EXCEPT ![p] = "failed"] ELSE result
  /\ outcome' = IF p = Caller THEN how ELSE outcome

Raises(p) == Ends(p, "raised")

\* to the end of the function
Returns(p) ==
  LET ends == {i \in DOMAIN steps[p] : steps[p][i].do = "end"}
  IN /\ steps' = [steps EXCEPT ![p] = SubSeq(@, Min(ends), Len(@))]
     /\ UNCHANGED <<result, outcome>>

\* May this go wrong here?
May(kind) == kind \in Faults

ThisTpm(p) == tpm[<<p, Doing(p).tile>>]

\* plug-ins are loaded if asked for, when the board is programmed
ConnectBoard(p) ==
  /\ IsAt(p, "instance") \/ IsAt(p, "connect")
  /\ LET t == Doing(p).tile IN
     \/ /\ IsAt(p, "connect")
        /\ tpm' = [tpm EXCEPT ![<<p, t>>] =
             [on |-> TRUE,
              plugins |-> IF Doing(p).plugins /\ programmed[t] THEN load_plugin(board[t]) ELSE {}]]
        /\ GoesOn(p)
     \/ /\ IsAt(p, "connect") /\ May("connect")
        /\ tpm' = [tpm EXCEPT ![<<p, t>>] = Unconnected]
        /\ GoesOn(p)
     \/ /\ IsAt(p, "instance")
        /\ tpm' = [tpm EXCEPT ![<<p, t>>] = Unconnected]
        /\ GoesOn(p) \/ (May("connect") /\ Raises(p))
  /\ UNCHANGED <<tile_state, clocks, times, properly_formed>>

NeedsPlugins(p) ==
  /\ \/ /\ IsAt(p, "needs") \/ IsAt(p, "needs_board")
        /\ LET names == IF IsAt(p, "needs") THEN Doing(p).names ELSE {}
           IN IF ThisTpm(p).on /\ names \subseteq ThisTpm(p).plugins THEN GoesOn(p) ELSE Raises(p)
     \/ /\ IsAt(p, "needs_programmed")
        /\ IF programmed[Doing(p).tile] THEN GoesOn(p) ELSE Raises(p)
  /\ UNCHANGED <<tile_state, clocks, tpm, times, properly_formed>>

\* nothing is written to a board that is not connected
Program(p) ==
  /\ \/ /\ IsAt(p, "bitfile")
        /\ IF config.bitfile THEN GoesOn(p) ELSE Raises(p)
        /\ UNCHANGED <<programmed, initialised, tile_id>>
     \/ /\ IsAt(p, "write_cpld") \/ (IsAt(p, "download") /\ ~ThisTpm(p).on)
        /\ GoesOn(p)
        /\ UNCHANGED <<programmed, initialised, tile_id>>
     \/ /\ IsAt(p, "download") /\ ThisTpm(p).on
        /\ LET t == Doing(p).tile IN
           \/ /\ programmed' = [programmed EXCEPT ![t] = TRUE]
              /\ GoesOn(p)
              /\ initialised' = [initialised EXCEPT ![t] = FALSE]
              /\ tile_id' = [tile_id EXCEPT ![t] = 0]
           \/ /\ May("download")
              /\ programmed' = [programmed EXCEPT ![t] = FALSE]
              /\ Raises(p)
              /\ initialised' = [initialised EXCEPT ![t] = FALSE]
              /\ UNCHANGED tile_id
  /\ UNCHANGED <<delay, clocks, tpm, times, properly_formed>>

\* an exception that the process of the pool does not catch
LookUp(p) ==
  /\ IsAt(p, "lookup")
  /\ \/ GoesOn(p)
     \/ /\ May("lookup")
        /\ steps' = [steps EXCEPT ![p] = <<>>]
        /\ result' = [result EXCEPT ![p] = "raised"]
        /\ UNCHANGED outcome
  /\ UNCHANGED <<tile_state, clocks, tpm, times, properly_formed>>

ReturnEarly(p) ==
  /\ \/ /\ IsAt(p, "return_unless_programmed")
        /\ IF programmed[Doing(p).tile] THEN GoesOn(p) ELSE Returns(p)
     \/ /\ IsAt(p, "return_if_far")
        /\ IF config.pps_delay_far THEN Returns(p) ELSE GoesOn(p)
     \/ /\ IsAt(p, "return_if_internal_pps")
        /\ IF config.use_internal_pps THEN Returns(p) ELSE GoesOn(p)
     \/ IsAt(p, "end") /\ GoesOn(p)
  /\ UNCHANGED <<tile_state, clocks, tpm, times, properly_formed>>

\* JESD is started up to four times; when it was the fourth that failed, or only the
\* fourth that did not, an exception is raised.  What the other checks find is logged.
Firmware_(p) ==
  /\ \/ IsAt(p, "start_jesd") /\ (GoesOn(p) \/ (May("jesd") /\ Raises(p)))
     \/ IsAt(p, "start_ddr") /\ GoesOn(p)
     \/ IsAt(p, "check_ddr") /\ GoesOn(p)
     \/ IsAt(p, "check_arp") /\ GoesOn(p)
  /\ UNCHANGED <<tile_state, clocks, tpm, times, properly_formed>>

SetRegisters(p) ==
  /\ \/ /\ IsAt(p, "set_id")
        /\ tile_id' = [tile_id EXCEPT ![Doing(p).tile] = Doing(p).tile - 1]
        /\ UNCHANGED initialised
     \/ /\ IsAt(p, "initialised")
        /\ initialised' = [initialised EXCEPT ![Doing(p).tile] = TRUE]
        /\ UNCHANGED tile_id
  /\ GoesOn(p)
  /\ UNCHANGED <<programmed, delay, clocks, tpm, times, properly_formed>>
-----------------------------------------------------------------------------
(* ... with the clocks                                                      *)

\* what was read before is not used any more
AwaitPps(p) ==
  /\ IsAt(p, "await_pps")
  /\ \/ ~ThisTpm(p).on /\ Raises(p)
     \/ ThisTpm(p).on /\ ticked[p] > 0 /\ GoesOn(p)
     \/ May("pps") /\ Raises(p)
  /\ ticked' = [ticked EXCEPT ![p] = 0]
  /\ held' = [held EXCEPT ![p] = {}]
  /\ seen' = [seen EXCEPT ![p] = {}]
  /\ UNCHANGED <<tile_state, clocks, tpm, properly_formed>>

ReadClock(p) ==
  /\ \/ /\ IsAt(p, "read_utc")
        /\ held' = [held EXCEPT ![p] = {0}]
        /\ UNCHANGED seen
     \/ /\ IsAt(p, "hold_clock")
        /\ held' = [held EXCEPT ![p] = {clock[Doing(p).fpga]}]
        /\ UNCHANGED seen
     \/ /\ IsAt(p, "read_clock")
        /\ seen' = [seen EXCEPT ![p] = @ \cup {clock[Doing(p).fpga]}]
        /\ UNCHANGED held
  /\ GoesOn(p)
  /\ UNCHANGED <<tile_state, clocks, tpm, ticked, properly_formed>>

SetClock(p) ==
  /\ IsAt(p, "set_clock")
  /\ \E time \in held[p] : clock' = [clock EXCEPT ![Doing(p).fpga] = time]
  /\ GoesOn(p)
  /\ UNCHANGED <<tile_state, start_in, began, tpm, times, properly_formed>>

\* with the correction of the FPGA, which is no part of the model
get_pps_delay(t) == delay[t]

\* A delay that is out of reach is an exception.
SetSampling(p) ==
  /\ IsAt(p, "sampling")
  /\ LET t == Doing(p).tile
         current == get_pps_delay(t)
     IN IF calculate_delay(current, Doing(p).target, Doing(p).margin) = None
          THEN Raises(p) /\ UNCHANGED delay
          ELSE GoesOn(p) /\ delay' = [delay EXCEPT ![t] = Sampled(current, Doing(p).target, Doing(p).margin)]
  /\ UNCHANGED <<programmed, initialised, tile_id, clocks, tpm, times, properly_formed>>

Compare(p) ==
  /\ LET equal == Cardinality(seen[p]) = 1
         synced == \A t \in 2 .. NofTiles :
           get_pps_delay(t) - get_pps_delay(1) \in -MaxDelaySkew .. MaxDelaySkew
     IN \/ /\ IsAt(p, "compare_two")
           /\ Proceeds(p, AfterTwoCompared(equal, Doing(p).tile, Doing(p).attempt))
           /\ held' = [held EXCEPT ![p] = {}]
        \/ /\ IsAt(p, "compare_delays")
           /\ Proceeds(p, AfterDelaysCompared(synced, delay[1], Doing(p).attempt))
           /\ UNCHANGED held
        \/ /\ IsAt(p, "compare_all")
           /\ Proceeds(p, AfterAllCompared(equal, Doing(p).attempt))
           /\ held' = [held EXCEPT ![p] = IF equal THEN {} ELSE @]
  /\ seen' = [seen EXCEPT ![p] = {}]
  /\ UNCHANGED <<tile_state, clocks, tpm, ticked, properly_formed>>

\* an FPGA that is told too late starts at once, or never
StartAt(p) ==
  /\ IsAt(p, "start_at")
  /\ LET f == Doing(p).fpga IN
     \E time \in held[p] :
       LET left == time + StartDelay - clock[f]
       IN /\ start_in' = [start_in EXCEPT ![f] = IF left > 0 THEN left ELSE Never]
          /\ began' \in {[began EXCEPT ![f] = since] : since \in IF left > 0 THEN {Never} ELSE {Never, 0}}
  /\ GoesOn(p)
  /\ UNCHANGED <<tile_state, clock, tpm, times, properly_formed>>

CheckStart(p) ==
  /\ \/ /\ IsAt(p, "check_start")
        /\ IF \A time \in held[p] : time + StartDelay > clock[<<1, 1>>] THEN GoesOn(p) ELSE Ends(p, "exit")
        /\ held' = [held EXCEPT ![p] = {}]
        /\ UNCHANGED ticked
     \/ /\ IsAt(p, "await_started")
        /\ \/ (\A f \in Fpgas : began[f] # Never) /\ GoesOn(p)
           \/ (\E f \in Fpgas : began[f] = Never) /\ ticked[p] >= StartDelay /\ Ends(p, "exit")
        /\ ticked' = [ticked EXCEPT ![p] = 0]
        /\ UNCHANGED held
  /\ UNCHANGED <<tile_state, clocks, tpm, seen, properly_formed>>
-----------------------------------------------------------------------------
(* ... of the station                                                       *)

\* A phase is left out when an earlier one failed.  Without a name there is no one to
\* notify.
Map ==
  /\ IsAt(Caller, "map")
  /\ LET kind == Doing(Caller).of IN
     \/ /\ ~config.named /\ properly_formed
        /\ Raises(Caller)
        /\ UNCHANGED times
     \/ /\ config.named /\ properly_formed
        /\ steps' = [p \in Processes |-> IF p = Caller THEN Tail(steps[Caller]) ELSE PoolProgram(kind, p)]
        /\ result' = [t \in Tiles |-> "running"]
        /\ UNCHANGED <<times, outcome>>
     \/ /\ ~properly_formed
        /\ steps' = [steps EXCEPT ![Caller] = Tail(Tail(@))]
        /\ UNCHANGED <<result, times, outcome>>
  /\ UNCHANGED <<tile_state, clocks, tpm, properly_formed>>

\* mutant: it is enough that the last one is
LastResult == result[NofTiles] = "ok"

AllResults == \A t \in Tiles : result[t] = "ok"

\* It goes on when all have a result, or with the exception of one.
Join ==
  /\ IsAt(Caller, "join")
  /\ \A t \in Tiles : result[t] # "running"
  /\ IF \E t \in Tiles : result[t] = "raised"
       THEN Raises(Caller) /\ UNCHANGED properly_formed
       ELSE GoesOn(Caller) /\ properly_formed' = (properly_formed /\ AllResults)
  /\ UNCHANGED <<tile_state, clocks, tpm, times>>

Branch ==
  /\ IsAt(Caller, "form")
  /\ Proceeds(Caller, AfterConnected)
  /\ UNCHANGED <<tile_state, clocks, tpm, times, properly_formed>>

\* the id of a board that is not programmed
IdOf(t) == IF programmed[t] THEN tile_id[t] ELSE -1

IdsAreRight ==
  /\ \A t \in Tiles : tpm[<<Caller, t>>].on /\ IdOf(t) < NofTiles
  /\ \A t, u \in Tiles : t # u => IdOf(t) # IdOf(u)

CheckStatus ==
  /\ IsAt(Caller, "check_status")
  /\ properly_formed' = IdsAreRight
  /\ GoesOn(Caller)
  /\ UNCHANGED <<tile_state, clocks, tpm, times>>
-----------------------------------------------------------------------------
Run(p) ==
  /\ \/ ConnectBoard(p) \/ NeedsPlugins(p) \/ Program(p) \/ LookUp(p) \/ ReturnEarly(p) \/ Firmware_(p)
     \/ SetRegisters(p) \/ AwaitPps(p) \/ ReadClock(p) \/ SetClock(p) \/ SetSampling(p)
     \/ Compare(p) \/ StartAt(p) \/ CheckStart(p)
     \/ p = Caller /\ (Map \/ Join \/ Branch \/ CheckStatus)
  /\ UNCHANGED <<given, slips>>

Waits(p) == IsAt(p, "await_pps") \/ IsAt(p, "await_started")

\* Is it between two steps that use a time it has read?
Counts(p) == ~Waits(p) /\ held[p] \cup seen[p] # {}

Lasting(time) == time - 1

Pps ==
  /\ \E p \in Processes : (Waits(p) /\ ticked[p] < MaxPolls) \/ Counts(p)
  /\ slips' = IF \E p \in Processes : Counts(p) THEN slips + 1 ELSE slips
  /\ slips' <= MaxSlips
  /\ held' = [p \in Processes |-> {Lasting(time) : time \in held[p]}]
  /\ seen' = [p \in Processes |-> {Lasting(time) : time \in seen[p]}]
  /\ ticked' = [p \in Processes |-> IF Waits(p) /\ ticked[p] < MaxPolls THEN ticked[p] + 1 ELSE ticked[p]]
  /\ start_in' = [f \in Fpgas |-> IF start_in[f] > 1 THEN start_in[f] - 1 ELSE Never]
  /\ began' = [f \in Fpgas |-> IF start_in[f] = 1 THEN 0 ELSE IF began[f] = Never THEN Never ELSE began[f] + 1]
  /\ UNCHANGED <<given, tile_state, clock, control, tpm, station>>

BringUpNext == (\E p \in Processes : Run(p)) \/ Pps

BringUpSpec == BringUpInit /\ [][BringUpNext]_bringUpVars

\* The processes go on, and PPS comes.
FairBringUp == BringUpSpec /\ (\A p \in Processes : WF_bringUpVars(Run(p))) /\ WF_bringUpVars(Pps)
-----------------------------------------------------------------------------
(* Properties                                                               *)

BringUpTypeOK ==
  /\ programmed \in [Tiles -> BOOLEAN] /\ initialised \in [Tiles -> BOOLEAN]
  /\ tile_id \in [Tiles -> 0 .. NofTiles - 1]
  /\ delay \in [Tiles -> Int]
  /\ {clock, start_in, began} \subseteq [Fpgas -> Int]
  /\ DOMAIN tpm = Tpms
  /\ result \in [Tiles -> {"none", "running", "ok", "failed", "raised"}]
  /\ {held, seen} \subseteq [Processes -> SUBSET Int]
  /\ \A p \in Processes : IsFiniteSet(seen[p])
  /\ ticked \in [Processes -> 0 .. MaxPolls]
  /\ slips \in 0 .. MaxSlips
  /\ properly_formed \in BOOLEAN
  /\ outcome \in {"none", "returned", "raised", "exit"}

Formed == outcome = "returned" /\ properly_formed

\* When connect returns a station it has initialised, all FPGAs of all tiles started at
\* the same PPS, although one came between two steps that set, compared or used clocks.
StartTogether ==
  Formed /\ config.initialise => \E since \in 0 .. MaxPolls : \A f \in Fpgas : began[f] = since

\* ... and every tile was programmed and initialised to the end, whatever went wrong.
FormedIsInitialised ==
  Formed /\ config.initialise => \A t \in Tiles : programmed[t] /\ initialised[t]

\* ... and PPS is sampled at the same phase in all tiles.
SkewIsSmall ==
  Formed /\ config.initialise =>
    \A t \in Tiles : delay[t] - delay[1] \in -MaxDelaySkew .. MaxDelaySkew

\* connect comes to its end.
ConnectEnds == <>(outcome # "none")

\* Claims of the code that this does not keep:
\* "check that station is formed properly"
FormedIsProgrammed == Formed => \A t \in Tiles : programmed[t]

\* An exception leaves no station that is said to be formed.
RaisedIsNotFormed == outcome = "raised" => ~properly_formed

\* "Set UTC time to two FPGAs in the tile"
FormedShowsUtc == Formed /\ config.initialise => \A f \in Fpgas : clock[f] = 0
=============================================================================
