----------------------------- MODULE TileSteps ------------------------------
(***************************************************************************)
(* The words in which TpmTestFirmware, TileCommands and StationCommands    *)
(* say what a command does to the FPGAs of the tiles: a sequence of steps, *)
(* each one access to a register, between any two of which the FPGAs go    *)
(* on.  StationSession runs them.                                          *)
(*                                                                         *)
(* Every such command reads the time of an FPGA, adds a delay, writes the  *)
(* sum to a number of FPGAs as the time at which they are to act, all      *)
(* together, and most read the time again to see whether that was soon     *)
(* enough.                                                                 *)
(***************************************************************************)
EXTENDS SequencesExt

\* the FPGAs of a tile
fpgas(t) == <<<<t, 1>>, <<t, 2>>>>
FpgasOf(t) == {<<t, 1>>, <<t, 2>>}

\* a step of the command, and the tile, FPGA, mode or FPGAs it is about
Step(do) == [do |-> do]
OfTile(do, t) == [do |-> do, tile |-> t]
OfFpga(do, f) == [do |-> do, fpga |-> f]
Request(f, mode) == [do |-> "request", fpga |-> f, mode |-> mode]
Check(t, mode, checked) == [do |-> "check_flag", tile |-> t, mode |-> mode, checked |-> checked]

\* body(f) for the FPGAs of a tile that are asked, one after the other, and for both
ForAsked(t, asked, body(_)) ==
  (IF <<t, 1>> \in asked THEN body(<<t, 1>>) ELSE <<>>)
    \o (IF <<t, 2>> \in asked THEN body(<<t, 2>>) ELSE <<>>)
ForBoth(t, body(_)) == body(<<t, 1>>) \o body(<<t, 2>>)

\* The time at which the FPGAs are to act: that of an FPGA, plus the delay
ReadTime == <<Step("read_time")>>

\* a write to an FPGA of the time at which it is to act
WriteTime(f) == <<OfFpga("write_time", f)>>

\* of what it is to do at once, and which nothing here depends on
SetAtOnce(f) == <<OfFpga("set", f)>>

\* of the time at which it is to send the data that are asked for next
fpga_apply_sync_delay(f) == <<OfFpga("apply_sync_delay", f)>>

\* The command tells its caller that all went well, unless it is later than the time at
\* which they are to act, or that time has come.
SuccessUnlessLater == <<Step("check_later")>>
SuccessUnlessPassed == <<Step("check_passed")>>
=============================================================================
