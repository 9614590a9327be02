----------------------------- MODULE TileHealth ------------------------------
(***************************************************************************)
(* A client that watches the health of a tile, by the functions of         *)
(* TileHealthMonitor, while errors happen at any time.  A call is a        *)
(* sequence of steps, between any two of which there may be an error.      *)
(***************************************************************************)
EXTENDS TileHealthMonitor, FiniteSets

CONSTANTS
  Boards,       \* [version: 2 or 6, plugins: the beamformers that its firmware has,
                \* voltages, currents: those that are measured]
  Fpgas,        \* that calls for one FPGA are about
  Watched,      \* registers in which errors may happen
  Paths,        \* of points whose rate is set
  Asked,        \* groups and rates that are asked for
  MaxErrors, MaxCalls,
  MaxWaits      \* half seconds for an error to be made, or readings that took too long

ASSUME HealthAssumption ==
  /\ Fpgas \subseteq {0, 1} /\ Watched \subseteq Registers
  /\ MaxErrors \in Nat /\ MaxCalls \in Nat /\ MaxWaits \in Nat

VARIABLES
  board, responds, \* fixed; does the FPGA give its magic number?
  latched,      \* registers that hold an error
  enabled,      \* FPGAs whose clocks are monitored
  injecting,    \* FPGAs that are asked for an error
  rate,         \* of monitoring points
  call, steps,  \* that goes on
  todo, point,  \* points that are to be looked at, and the one that is
  waited,
  seen,         \* registers with errors that the method of the point has found
  report,       \* of each point that was looked at, whether it is well
  outcome,      \* of the last call
  calls, errors,
  meanwhile,    \* registers with an error since the call that goes on began
  since,        \* ... since the last call to clear them that returned began
  surely,       \* ... and not while a call to clear them was going on
  known,        \* what surely was when the last call to look at them began
  monitored     \* FPGAs whose clocks are, after calls that returned

fixed == <<board, responds>>
hardware == <<latched, enabled, injecting>>
client == <<call, steps, todo, point, waited, seen, report, outcome>>
ghosts == <<meanwhile, since, surely, known, monitored>>
vars == <<fixed, hardware, rate, client, calls, errors, ghosts>>

Idle == [name |-> "idle"]

Init ==
  /\ board \in Boards
  /\ responds \in BOOLEAN
  /\ latched = {}
  /\ enabled = {}
  /\ injecting = {}
  /\ rate = [fast |-> all_monitoring_points, slow |-> {}]
  /\ call = Idle
  /\ steps = <<>>
  /\ todo = {}
  /\ point = 0
  /\ waited = 0
  /\ seen = {}
  /\ report = <<>>
  /\ outcome = "none"
  /\ calls = 0
  /\ errors = 0
  /\ meanwhile = {}
  /\ since = {}
  /\ surely = {}
  /\ known = {}
  /\ monitored = {}
-----------------------------------------------------------------------------
(* Errors                                                                   *)

\* That of a clock is not latched unless the clock is monitored, nor is it sure to be when
\* that was not asked for.
Latch(r) ==
  /\ latched' = IF r[1] = "clock" /\ r[2] \notin enabled THEN latched ELSE latched \cup {r}
  /\ meanwhile' = meanwhile \cup {r}
  /\ since' = since \cup {r}
  /\ surely' = IF r[1] = "clock" /\ r[2] \notin monitored THEN surely ELSE surely \cup {r}

Error(r) ==
  /\ errors < MaxErrors
  /\ Latch(r)
  /\ errors' = errors + 1
  /\ UNCHANGED <<fixed, enabled, injecting, rate, client, calls, known, monitored>>

\* one that was asked for
Inject(f) ==
  /\ f \in injecting
  /\ Latch(<<"ddr_parity", f>>)
  /\ injecting' = injecting \ {f}
  /\ UNCHANGED <<fixed, enabled, rate, client, calls, errors, known, monitored>>
-----------------------------------------------------------------------------
(* Calls                                                                    *)

\* errors that no point of this board looks at
Untold == IF board.version = 2 THEN {"adc_pll_1", "adc_pll_10", "f2f_hard"} \X {0} ELSE {<<"f2f_pll", 1>>}

\* errors that points look at, and clear_health_status does not clear
Forgotten == IF board.version = 2 THEN {} ELSE {"adc_pll_1", "adc_pll_10", "f2f_hard"} \X {0}

\* registers that a call is to clear: all that points look at, the forgotten too
ToClear(c) ==
  CASE c.name = "clear" -> Registers \ Untold
    [] c.name = "clear_station" -> StationErrors \X {c.fpga}
    [] OTHER -> {}

\* the decorators communication_check and health_monitoring_compatible: a board that does
\* not give its magic number returns nothing
Checked(body) == IF responds THEN body ELSE <<>>

\* They raise an exception when an FPGA is not reached, or its firmware has no registers for
\* this; then nothing is done.
CallRefused ==
  /\ call = Idle /\ calls < MaxCalls
  /\ calls' = calls + 1
  /\ report' = <<>>
  /\ outcome' = "raised"
  /\ UNCHANGED <<fixed, hardware, rate, call, steps, todo, point, waited, seen, errors, ghosts>>

Begin(c, body, points) ==
  /\ call = Idle /\ calls < MaxCalls
  /\ calls' = calls + 1
  /\ call' = c
  /\ steps' = body
  /\ todo' = points
  /\ point' = 0
  /\ report' = <<>>
  /\ seen' = {}
  /\ meanwhile' = {}
  /\ monitored' = IF c.name = "disable" THEN monitored \ {c.fpga} ELSE monitored
  /\ UNCHANGED <<fixed, hardware, waited, outcome, errors, since>>

EnableHealthMonitoring ==
  /\ Begin([name |-> "enable"], Checked(enable_clock_monitoring(All)), {})
  /\ UNCHANGED <<rate, surely, known>>

DisableClockMonitoring(f) ==
  /\ Begin([name |-> "disable", fpga |-> f], disable_clock_monitoring(<<f>>), {})
  /\ UNCHANGED <<rate, surely, known>>

ClearHealthStatus ==
  /\ Begin([name |-> "clear"], Checked(clear_health_status(board.version)), {})
  /\ UNCHANGED <<rate, surely, known>>

ClearStationBeamformerStatus(f) ==
  /\ responds
  /\ Begin([name |-> "clear_station", fpga |-> f], clear_station_beamformer_status(<<f>>), {})
  /\ UNCHANGED <<rate, surely, known>>

InjectDdrParityError(f) ==
  /\ responds
  /\ Begin([name |-> "inject"], inject_ddr_parity_error(<<f>>), {})
  /\ UNCHANGED <<rate, surely, known>>

SetMonitoringPointAttr(path, override) ==
  /\ path \in all_monitoring_categories
  /\ rate' = set_monitoring_point_attr(rate, path, override, "slow")
  /\ Begin([name |-> "set"], <<>>, {})
  /\ UNCHANGED <<surely, known>>

GetHealthStatus(asked) ==
  /\ Begin([name |-> "get"], <<>>, IF responds THEN _kwargs_handler(rate, asked) ELSE {})
  /\ known' = surely
  /\ UNCHANGED <<rate, surely>>
-----------------------------------------------------------------------------
(* Steps of a call                                                          *)

This == Head(steps)
AtStep(do) == steps # <<>> /\ This.do = do

\* A call that raised an exception may have cleared some and not others.
Done(how) ==
  /\ meanwhile' = {}
  /\ since' = IF how = "returned" /\ responds THEN (since \ ToClear(call)) \cup meanwhile ELSE since
  /\ steps' = <<>>
  /\ todo' = {}
  /\ call' = Idle
  /\ outcome' = how
  /\ surely' = surely \ ToClear(call)
  /\ monitored' = IF call.name = "enable" /\ responds THEN {0, 1} ELSE monitored

\* what is as it was while a call goes on
Kept == <<call, outcome, meanwhile, since, surely, monitored>>

GoOn == steps' = Tail(steps) /\ UNCHANGED <<todo, Kept>>

Raise == Done("raised") /\ report' = <<>> /\ point' = 0

Known == board.plugins \cup get_available_voltages(board) \cup get_available_currents(board)

\* There is no report when the method of one point raises an exception.
Need ==
  /\ AtStep("needs")
  /\ \/ This.plugin \in Known /\ GoOn /\ UNCHANGED <<point, report>>
     \/ This.plugin \notin Known /\ Raise
  /\ UNCHANGED <<hardware, waited, seen>>

LookAt ==
  /\ AtStep("look")
  /\ seen' = seen \cup ((This.kinds \X {This.fpga}) \cap latched)
  /\ GoOn
  /\ UNCHANGED <<hardware, waited, point, report>>

\* What the method of a point returned is put down, and that of the next is called.
Put == [i \in DOMAIN report \cup {point} |-> IF i = point THEN seen = {} ELSE report[i]]

CallMethod ==
  /\ call.name = "get" /\ steps = <<>> /\ todo # {}
  /\ report' = IF point = 0 THEN report ELSE Put
  /\ point' = NextPoint(todo)
  /\ todo' = todo \ {point'}
  /\ steps' = Method(board.version, point')
  /\ seen' = {}
  /\ UNCHANGED <<hardware, waited, Kept>>

ClearThem ==
  /\ AtStep("clear")
  /\ latched' = latched \ (This.kinds \X {This.fpga})
  /\ GoOn
  /\ UNCHANGED <<enabled, injecting, waited, point, seen, report>>

Enable ==
  /\ \/ AtStep("enable") /\ enabled' = enabled \cup {This.fpga}
     \/ AtStep("disable") /\ enabled' = enabled \ {This.fpga}
  /\ GoOn
  /\ UNCHANGED <<latched, injecting, waited, point, seen, report>>

AskForError ==
  /\ AtStep("inject")
  /\ injecting' = injecting \cup {This.fpga}
  /\ waited' = 0
  /\ GoOn
  /\ UNCHANGED <<latched, enabled, point, seen, report>>

\* mutant: it does not give up
AwaitAck ==
  /\ AtStep("await_injected") /\ This.fpga \notin injecting
  /\ GoOn
  /\ UNCHANGED <<hardware, waited, point, seen, report>>

AwaitInjected ==
  /\ AtStep("await_injected")
  /\ IF This.fpga \notin injecting \/ waited > MaxWaits
       THEN GoOn /\ waited' = 0
       ELSE waited' = waited + 1 /\ UNCHANGED <<steps, todo, Kept>>
  /\ UNCHANGED <<hardware, point, seen, report>>

\* Two readings in less than 3 ms, or else another try, for a second
ReadTwice ==
  /\ AtStep("read_twice")
  /\ \/ GoOn /\ waited' = 0 /\ UNCHANGED <<point, report>>
     \/ /\ waited < MaxWaits
        /\ waited' = waited + 1
        /\ UNCHANGED <<steps, todo, Kept, point, report>>
     \/ waited = MaxWaits /\ waited' = 0 /\ Raise
  /\ UNCHANGED <<hardware, seen>>

Return ==
  /\ call # Idle /\ steps = <<>> /\ todo = {}
  /\ Done("returned")
  /\ report' = IF point = 0 THEN report ELSE Put
  /\ point' = 0
  /\ UNCHANGED <<hardware, waited, seen>>

Step ==
  /\ \/ Need \/ CallMethod \/ LookAt \/ ClearThem \/ Enable \/ AskForError \/ AwaitInjected
     \/ ReadTwice \/ Return
  /\ UNCHANGED <<fixed, rate, calls, errors, known>>
-----------------------------------------------------------------------------
Next ==
  \/ EnableHealthMonitoring \/ ClearHealthStatus \/ CallRefused
  \/ \E f \in Fpgas :
       \/ ClearStationBeamformerStatus(f) \/ DisableClockMonitoring(f)
       \/ InjectDdrParityError(f) \/ Inject(f)
  \/ \E path \in Paths, override \in BOOLEAN : SetMonitoringPointAttr(path, override)
  \/ \E asked \in Asked : GetHealthStatus(asked)
  \/ \E r \in Watched : Error(r)
  \/ Step

Spec == Init /\ [][Next]_vars

\* A call goes on.
FairSpec == Spec /\ WF_vars(Step)
-----------------------------------------------------------------------------
(* Properties                                                               *)

TypeOK ==
  /\ latched \subseteq Registers
  /\ rate \in [{"fast", "slow"} -> SUBSET all_monitoring_points]
  /\ todo \subseteq all_monitoring_points
  /\ DOMAIN report \subseteq all_monitoring_points
  /\ outcome \in {"none", "returned", "raised"}

\* the errors that a point is about, by its name
FpgasOf(p) == IF Last(p) = "FPGA0" THEN {0} ELSE IF Last(p) = "FPGA1" THEN {1} ELSE {0, 1}

KindsOf == [
  clocks |-> {"clock"}, clock_managers |-> {"clock_manager"}, pps |-> {"pps"}, pll |-> {"pll"},
  lane_error_count |-> {"jesd_lane"}, lane_status |-> {"jesd_lane"},
  resync_count |-> {"jesd_resync"}, qpll_status |-> {"jesd_qpll"}, reset_counter |-> {"ddr_reset"},
  pll_status |-> {"f2f_pll"}, hard_error |-> {"f2f_hard"},
  crc_error_count |-> {"udp_crc"}, bip_error_count |-> {"udp_bip"},
  decode_error_count |-> {"udp_decode"}, linkup_loss_count |-> {"udp_linkup"},
  tile_beamf |-> {"tile_beamf"}, ddr_parity_error_count |-> {"ddr_parity"}]

ErrorsOf(p) ==
  CASE p[1] = "adcs" /\ p[2] = "pll_status" -> {IF p[3] = "ADC1" THEN "adc_pll_1" ELSE "adc_pll_10"} \X {0}
    [] p = <<"io", "udp_interface", "status">> -> EthErrors \X {0, 1}
    [] p = <<"dsp", "station_beamf", "status">> -> StationErrors \X {0, 1}
    [] p[1] = "io" /\ p[3] \in DOMAIN KindsOf -> KindsOf[p[3]] \X FpgasOf(p)
    [] p[1] = "timing" -> KindsOf[p[2]] \X FpgasOf(p)
    [] p[1] = "dsp" /\ Last(p) \in DOMAIN KindsOf -> KindsOf[Last(p)] \X FpgasOf(p)
    [] OTHER -> {}

\* A report tells of every error that there was since the last call to clear it ended and
\* before the one to look at it began; and, but for the points whose errors
\* clear_health_status forgets (ClearedIsWell), of none that there was before the last call
\* to clear it that returned began.
ReportIsOfNow ==
  \A i \in DOMAIN report :
    /\ (ErrorsOf(Path(i)) \cap known) \ Untold # {} => ~report[i]
    /\ ~report[i] =>
         ErrorsOf(Path(i)) \cap Forgotten # {} \/ ErrorsOf(Path(i)) \cap since # {}

\* the points with this name
Points(group, name) ==
  {i \in all_monitoring_points : Len(Path(i)) > 2 /\ Path(i)[2] = group /\ Path(i)[3] = name}

\* A report does not contradict itself: what is said to be well had no errors when they
\* were counted, which was before, and what is not had some when they were counted after.
ReportIsConsistent ==
  LET Counts == UNION {Points("udp_interface", name) : name \in
        {"crc_error_count", "bip_error_count", "decode_error_count", "linkup_loss_count"}}
  IN /\ \A i \in Points("jesd_interface", "lane_status") \cap DOMAIN report :
          report[i] => \A j \in Points("jesd_interface", "lane_error_count") \cap DOMAIN report : report[j]
     /\ \A i \in Points("udp_interface", "status") \cap DOMAIN report :
          ~report[i] /\ Counts \subseteq DOMAIN report => \E j \in Counts : ~report[j]

\* A call comes to its end, although an FPGA may never make the error that it is asked for.
CallEnds == (call # Idle) ~> (call = Idle)

\* What the documentation and the tests claim and this does not keep:
\* "Clear and Get Health Status", and every point is to have its exp_value: no point tells of
\* an error that there was before the last call to clear it that returned began.
ClearedIsWell ==
  \A i \in DOMAIN report : ~report[i] => ErrorsOf(Path(i)) \cap since # {}

\* "If no arguments given, current value of all monitoring points is returned."
EveryCallReturns == outcome # "raised"

\* "Monitoring point path": the attribute is set of the points on the path, and no others.
SetPathOnly == \A i \in rate.slow : \E path \in Paths : IsPrefix(path, Path(i))
=============================================================================
