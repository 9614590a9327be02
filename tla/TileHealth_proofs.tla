-------------------------- MODULE TileHealth_proofs --------------------------
(***************************************************************************)
(* What a client is told of a tile's errors, on any board, whichever of    *)
(* its calls follow each other, and wherever in them errors happen: a      *)
(* report tells of the errors since the last clearing that returned, and   *)
(* of no others that are cleared, and its points do not contradict each    *)
(* other.                                                                  *)
(*                                                                         *)
(* What is to be done of a call is a suffix of the steps of a function.    *)
(* The proofs need of it the registers that are still to be looked at, or  *)
(* cleared, and that the points of a report are asked in their order.      *)
(***************************************************************************)
EXTENDS TileHealth, SequenceTheorems, WellFoundedInduction, TLAPS

USE HealthAssumption

Kinds == OfFpgas \cup OfBoard

StepType ==
  [do : {"look", "clear"}, kinds : SUBSET Kinds, fpga : {0, 1}]
    \cup [do : {"needs"}, plugin : {"beamf_fd", "station_beamf", "MGT_AVTT", "FE0"}]
    \cup [do : {"enable", "disable", "inject", "await_injected"}, fpga : {0, 1}]
    \cup [do : {"read_twice"}]

\* what the steps of a call do
Doings == [
  idle |-> {}, enable |-> {"enable"}, disable |-> {"disable"}, clear |-> {"clear", "needs"},
  clear_station |-> {"clear", "needs"}, inject |-> {"inject", "await_injected"}, set |-> {},
  get |-> {"look", "needs", "read_twice"}]

\* what a call does clear
Cleans(c) == ToClear(c) \ Forgotten

On(s) == s.kinds \X {s.fpga}

\* the registers that these steps look at, or clear
Of(c, do) == UNION {On(c[i]) : i \in {j \in 1 .. Len(c) : c[j].do = do}}
Looked(c) == Of(c, "look")
Cleared(c) == Of(c, "clear")

Types ==
  /\ TypeOK
  /\ steps \in Seq(StepType)
  /\ call.name \in DOMAIN Doings
  /\ call.name \in {"disable", "clear_station"} => call.fpga \in {0, 1}
  /\ \A i \in 1 .. Len(steps) : steps[i].do \in Doings[call.name]
  /\ point \in all_monitoring_points \cup {0}

\* There is a report when it was asked for, and until the next call.
Asking ==
  /\ call.name \notin {"get", "idle"} => DOMAIN report = {}
  /\ call.name # "get" => todo = {} /\ point = 0
  /\ call.name = "get" =>
       /\ point = 0 => steps = <<>> /\ DOMAIN report = {}
       /\ \A i \in DOMAIN report : i < point
       /\ \A i \in todo : point < i

\* An FPGA whose clocks are said to be monitored has them monitored.
Monitoring ==
  /\ monitored \subseteq enabled
  /\ call.name = "enable" /\ responds =>
       \A f \in {0, 1} : f \in enabled \/ \E i \in 1 .. Len(steps) : steps[i].fpga = f
  /\ call.name = "disable" =>
       /\ call.fpga \notin monitored
       /\ \A i \in 1 .. Len(steps) : steps[i].fpga = call.fpga

\* What is latched is new, is going to be cleared, or is forgotten; what is not cleared is
\* still there.
Clearing ==
  /\ Cleared(steps) \subseteq Cleans(call)
  /\ responds => latched \cap Cleans(call) \subseteq meanwhile \cup Cleared(steps)
  /\ latched \ Forgotten \subseteq since
  /\ surely \ ToClear(call) \subseteq latched

\* what was found in the registers of a point, with these steps to be done
Looking ==
  point # 0 =>
    /\ seen \subseteq ErrorsOf(Path(point)) \cap latched
    /\ Looked(steps) \subseteq ErrorsOf(Path(point))
    /\ (ErrorsOf(Path(point)) \cap known) \ Untold \subseteq seen \cup Looked(steps)

\* An error that was found at a point is found at each that is asked after it.
FoundAfter(i, r) ==
  /\ \A j \in DOMAIN report : i < j /\ r \in ErrorsOf(Path(j)) \ Untold => ~report[j]
  /\ i < point /\ r \in ErrorsOf(Path(point)) \ Untold => r \in seen \cup Looked(steps)

Reporting ==
  /\ call.name = "get" => known \subseteq latched
  /\ \A i \in DOMAIN report :
       /\ report[i] => ErrorsOf(Path(i)) \cap known \subseteq Untold
       /\ ~report[i] => \E r \in ErrorsOf(Path(i)) \cap latched : FoundAfter(i, r)

HealthInv == Types /\ Asking /\ Monitoring /\ Clearing /\ Looking /\ Reporting
-----------------------------------------------------------------------------
(* Sequences of steps                                                       *)

LEMMA OfFacts ==
  ASSUME NEW c, NEW do, NEW r
  PROVE  r \in Of(c, do) <=> \E i \in 1 .. Len(c) : c[i].do = do /\ r \in On(c[i])
  BY Zenon DEF Of

\* What is known of the rest of a sequence.
LEMMA TailFacts ==
  ASSUME NEW s \in Seq(StepType), s # <<>>
  PROVE  /\ Tail(s) \in Seq(StepType)
         /\ Len(s) \in Nat \ {0}
         /\ Len(Tail(s)) = Len(s) - 1
         /\ Head(s) = s[1] /\ s[1] \in StepType
         /\ \A i \in 1 .. Len(s) - 1 : Tail(s)[i] = s[i + 1]
  BY HeadTailProperties, LenProperties, EmptySeq, ElementOfSeq

\* The first step is done, the others are still to be.
LEMMA TailOf ==
  ASSUME NEW s \in Seq(StepType), s # <<>>, NEW do
  PROVE  /\ Of(Tail(s), do) \subseteq Of(s, do)
         /\ Head(s).do = do => Of(s, do) = On(Head(s)) \cup Of(Tail(s), do)
         /\ Head(s).do # do => Of(s, do) = Of(Tail(s), do)
<1>1. /\ Len(s) \in Nat \ {0} /\ Len(Tail(s)) = Len(s) - 1 /\ Head(s) = s[1]
      /\ \A i \in 1 .. Len(s) - 1 : Tail(s)[i] = s[i + 1]
  BY TailFacts
<1>2. ASSUME NEW r, r \in Of(Tail(s), do) PROVE r \in Of(s, do)
  <2>1. PICK i \in 1 .. Len(Tail(s)) : Tail(s)[i].do = do /\ r \in On(Tail(s)[i])
    BY <1>2, OfFacts
  <2>2. i + 1 \in 1 .. Len(s) /\ s[i + 1].do = do /\ r \in On(s[i + 1])
    BY <1>1, <2>1
  <2> QED  BY <2>2, OfFacts
<1>3. ASSUME NEW r, r \in Of(s, do)
      PROVE  r \in Of(Tail(s), do) \/ (Head(s).do = do /\ r \in On(Head(s)))
  <2>1. PICK i \in 1 .. Len(s) : s[i].do = do /\ r \in On(s[i])
    BY <1>3, OfFacts
  <2>2. CASE i = 1
    BY <1>1, <2>1, <2>2
  <2>3. CASE i # 1
    <3>1. i - 1 \in 1 .. Len(Tail(s)) /\ Tail(s)[i - 1] = s[i]
      BY <1>1, <2>3
    <3> QED  BY <2>1, <3>1, OfFacts
  <2> QED  BY <2>2, <2>3
<1>4. ASSUME NEW r, Head(s).do = do, r \in On(Head(s)) PROVE r \in Of(s, do)
  <2>1. 1 \in 1 .. Len(s) /\ s[1].do = do /\ r \in On(s[1])
    BY <1>1, <1>4
  <2> QED  BY <2>1, OfFacts
<1> QED  BY <1>2, <1>3, <1>4

LEMMA NoneLeft ==
  ASSUME NEW do
  PROVE  Of(<<>>, do) = {}
  BY OfFacts

LEMMA OfOne ==
  ASSUME NEW s, NEW do
  PROVE  Of(<<s>>, do) = IF s.do = do THEN On(s) ELSE {}
<1>1. Len(<<s>>) = 1 /\ <<s>>[1] = s /\ 1 .. 1 = {1}
  OBVIOUS
<1>2. \A r : r \in Of(<<s>>, do) <=> s.do = do /\ r \in On(s)
  BY <1>1, OfFacts
<1> QED  BY <1>2, Zenon

\* Two sequences one after the other
LEMMA ConcatOf ==
  ASSUME NEW s \in Seq(StepType), NEW t \in Seq(StepType), NEW do
  PROVE  Of(s \o t, do) = Of(s, do) \cup Of(t, do)
<1>1. /\ Len(s) \in Nat /\ Len(t) \in Nat /\ Len(s \o t) = Len(s) + Len(t)
      /\ \A i \in 1 .. Len(s) + Len(t) : (s \o t)[i] = IF i <= Len(s) THEN s[i] ELSE t[i - Len(s)]
  BY LenProperties, ConcatProperties
<1>2. ASSUME NEW r, r \in Of(s \o t, do) PROVE r \in Of(s, do) \cup Of(t, do)
  <2>1. PICK i \in 1 .. Len(s) + Len(t) : (s \o t)[i].do = do /\ r \in On((s \o t)[i])
    BY <1>1, <1>2, OfFacts
  <2>2. CASE i <= Len(s)
    <3>1. i \in 1 .. Len(s) /\ (s \o t)[i] = s[i]
      BY <1>1, <2>2
    <3> QED  BY <2>1, <3>1, OfFacts
  <2>3. CASE ~(i <= Len(s))
    <3>1. i - Len(s) \in 1 .. Len(t) /\ (s \o t)[i] = t[i - Len(s)]
      BY <1>1, <2>3
    <3> QED  BY <2>1, <3>1, OfFacts
  <2> QED  BY <2>2, <2>3
<1>3. ASSUME NEW r, r \in Of(s, do) PROVE r \in Of(s \o t, do)
  <2>1. PICK i \in 1 .. Len(s) : s[i].do = do /\ r \in On(s[i])
    BY <1>3, OfFacts
  <2>2. i \in 1 .. Len(s \o t) /\ (s \o t)[i] = s[i]
    BY <1>1
  <2> QED  BY <2>1, <2>2, OfFacts
<1>4. ASSUME NEW r, r \in Of(t, do) PROVE r \in Of(s \o t, do)
  <2>1. PICK i \in 1 .. Len(t) : t[i].do = do /\ r \in On(t[i])
    BY <1>4, OfFacts
  <2>2. Len(s) + i \in 1 .. Len(s \o t) /\ (s \o t)[Len(s) + i] = t[i]
    BY <1>1
  <2> QED  BY <2>1, <2>2, OfFacts
<1> QED  BY <1>2, <1>3, <1>4
-----------------------------------------------------------------------------
(* Looking                                                                  *)

\* These steps do only this, and look at, or clear, these registers.
Does(m, doings, do, found) ==
  /\ m \in Seq(StepType)
  /\ \A i \in 1 .. Len(m) : m[i].do \in doings
  /\ Of(m, do) = found

\* of a report, and of a call to clear
Looks(m, found) == Does(m, {"look", "needs", "read_twice"}, "look", found)
Clears(m, found) == Does(m, {"clear", "needs"}, "clear", found)

LEMMA LookIsStep ==
  ASSUME NEW kinds \in SUBSET Kinds, NEW f \in {0, 1}
  PROVE  /\ Look(kinds, f) \in StepType /\ Clear(kinds, f) \in StepType
         /\ Look(kinds, f).do = "look" /\ On(Look(kinds, f)) = kinds \X {f}
         /\ Clear(kinds, f).do = "clear" /\ On(Clear(kinds, f)) = kinds \X {f}
  BY DEF Look, Clear, StepType, On

LEMMA NeedsIsStep ==
  ASSUME NEW plugin \in {"beamf_fd", "station_beamf", "MGT_AVTT", "FE0"}
  PROVE  Needs(plugin) \in StepType /\ Needs(plugin).do = "needs"
  BY DEF Needs, StepType

\* one after the other
LEMMA DoesConcat ==
  ASSUME NEW doings, NEW do, NEW c, NEW m, NEW found, NEW more,
         Does(c, doings, do, found), Does(m, doings, do, more)
  PROVE  Does(c \o m, doings, do, found \cup more)
<1>1. c \in Seq(StepType) /\ m \in Seq(StepType) /\ Of(c, do) = found /\ Of(m, do) = more
  BY DEF Does
<1>2. Of(c \o m, do) = found \cup more
  BY <1>1, ConcatOf, Zenon
<1>3. /\ c \o m \in Seq(StepType) /\ Len(c \o m) = Len(c) + Len(m)
      /\ Len(c) \in Nat /\ Len(m) \in Nat
      /\ \A i \in 1 .. Len(c) + Len(m) : (c \o m)[i] = IF i <= Len(c) THEN c[i] ELSE m[i - Len(c)]
  BY <1>1, ConcatProperties, LenProperties
<1>4. ASSUME NEW i \in 1 .. Len(c \o m)
      PROVE  (c \o m)[i].do \in doings
  <2>1. CASE i <= Len(c)
    <3>1. i \in 1 .. Len(c) /\ (c \o m)[i] = c[i]
      BY <1>3, <2>1
    <3> QED  BY <3>1 DEF Does
  <2>2. CASE ~(i <= Len(c))
    <3>1. i - Len(c) \in 1 .. Len(m) /\ (c \o m)[i] = m[i - Len(c)]
      BY <1>3, <2>2
    <3> QED  BY <3>1 DEF Does
  <2> QED  BY <2>1, <2>2
<1> QED  BY <1>2, <1>3, <1>4, Zenon DEF Does

LEMMA LooksConcat ==
  ASSUME NEW c, NEW m, NEW found, NEW more, Looks(c, found), Looks(m, more)
  PROVE  Looks(c \o m, found \cup more)
  BY DoesConcat, Zenon DEF Looks

LEMMA DoesNone ==
  ASSUME NEW doings, NEW do
  PROVE  Does(<<>>, doings, do, {})
  BY NoneLeft, EmptySeq DEF Does

LEMMA LooksNone == Looks(<<>>, {})
  BY DoesNone, Zenon DEF Looks

LEMMA DoesOnce ==
  ASSUME NEW s \in StepType, NEW doings, NEW do, s.do \in doings
  PROVE  Does(<<s>>, doings, do, IF s.do = do THEN On(s) ELSE {})
<1>1. <<s>> \in Seq(StepType) /\ Len(<<s>>) = 1 /\ <<s>>[1] = s
  OBVIOUS
<1>2. Of(<<s>>, do) = IF s.do = do THEN On(s) ELSE {}
  BY OfOne
<1> QED  BY <1>1, <1>2 DEF Does

LEMMA LooksOnce ==
  ASSUME NEW s \in StepType, s.do \in {"look", "needs", "read_twice"}
  PROVE  Looks(<<s>>, IF s.do = "look" THEN On(s) ELSE {})
  BY DoesOnce, Zenon DEF Looks

LEMMA LooksAtBoard ==
  ASSUME NEW kinds \in SUBSET Kinds
  PROVE  Looks(<<Look(kinds, 0)>>, kinds \X {0})
  BY LookIsStep, LooksOnce

\* What the functions do for one FPGA, and for both
LEMMA LooksAtFpgas ==
  ASSUME NEW kinds \in SUBSET Kinds
  PROVE  /\ Looks([i \in DOMAIN <<0>> |-> Look(kinds, <<0>>[i])], kinds \X {0})
         /\ Looks([i \in DOMAIN <<1>> |-> Look(kinds, <<1>>[i])], kinds \X {1})
         /\ Looks([i \in DOMAIN All |-> Look(kinds, All[i])], kinds \X {0, 1})
<1>1. /\ [i \in DOMAIN <<0>> |-> Look(kinds, <<0>>[i])] = <<Look(kinds, 0)>>
      /\ [i \in DOMAIN <<1>> |-> Look(kinds, <<1>>[i])] = <<Look(kinds, 1)>>
      /\ [i \in DOMAIN All |-> Look(kinds, All[i])] = <<Look(kinds, 0)>> \o <<Look(kinds, 1)>>
  BY DEF All
<1>2. Looks(<<Look(kinds, 0)>>, kinds \X {0}) /\ Looks(<<Look(kinds, 1)>>, kinds \X {1})
  BY LookIsStep, LooksOnce
<1>3. Looks(<<Look(kinds, 0)>> \o <<Look(kinds, 1)>>, (kinds \X {0}) \cup (kinds \X {1}))
  BY <1>2, LooksConcat
<1>4. (kinds \X {0}) \cup (kinds \X {1}) = kinds \X {0, 1}
  OBVIOUS
<1> QED  BY <1>1, <1>2, <1>3, <1>4

-----------------------------------------------------------------------------
(* The points                                                               *)

\* of the table that is asked
Tpm == IF board.version = 2 THEN 2 ELSE 6

LEMMA PointsAre == all_monitoring_points = 1 .. 43
  BY DEF all_monitoring_points, tpm_1_6_lookup, lookup

LEMMA PathsAre ==
  /\ Path(1) = <<"temperatures", "board">>
  /\ Path(2) = <<"temperatures", "FPGA0">>
  /\ Path(3) = <<"temperatures", "FPGA1">>
  /\ Path(4) = <<"voltages", "MGT_AVTT">>
  /\ Path(5) = <<"currents", "FE0">>
  /\ Path(6) = <<"alarms">>
  /\ Path(7) = <<"adcs", "pll_status", "ADC1">>
  /\ Path(8) = <<"adcs", "pll_status", "ADC10">>
  /\ Path(9) = <<"adcs", "sysref_timing_requirements", "ADC1">>
  /\ Path(10) = <<"adcs", "sysref_counter", "ADC1">>
  /\ Path(11) = <<"timing", "clocks", "FPGA0">>
  /\ Path(12) = <<"timing", "clocks", "FPGA1">>
  /\ Path(13) = <<"timing", "clock_managers", "FPGA0">>
  /\ Path(14) = <<"timing", "clock_managers", "FPGA1">>
  /\ Path(15) = <<"timing", "pps", "status">>
  /\ Path(16) = <<"timing", "pll">>
  /\ Path(17) = <<"io", "jesd_interface", "link_status">>
  /\ Path(18) = <<"io", "jesd_interface", "lane_error_count", "FPGA0">>
  /\ Path(19) = <<"io", "jesd_interface", "lane_error_count", "FPGA1">>
  /\ Path(20) = <<"io", "jesd_interface", "lane_status">>
  /\ Path(21) = <<"io", "jesd_interface", "resync_count", "FPGA0">>
  /\ Path(22) = <<"io", "jesd_interface", "resync_count", "FPGA1">>
  /\ Path(23) = <<"io", "jesd_interface", "qpll_status", "FPGA0">>
  /\ Path(24) = <<"io", "jesd_interface", "qpll_status", "FPGA1">>
  /\ Path(25) = <<"io", "ddr_interface", "initialisation">>
  /\ Path(26) = <<"io", "ddr_interface", "reset_counter", "FPGA0">>
  /\ Path(27) = <<"io", "ddr_interface", "reset_counter", "FPGA1">>
  /\ Path(28) = <<"io", "f2f_interface", "pll_status">>
  /\ Path(29) = <<"io", "f2f_interface", "soft_error">>
  /\ Path(30) = <<"io", "f2f_interface", "hard_error">>
  /\ Path(31) = <<"io", "udp_interface", "arp">>
  /\ Path(32) = <<"io", "udp_interface", "status">>
  /\ Path(33) = <<"io", "udp_interface", "crc_error_count", "FPGA0">>
  /\ Path(34) = <<"io", "udp_interface", "crc_error_count", "FPGA1">>
  /\ Path(35) = <<"io", "udp_interface", "bip_error_count", "FPGA0">>
  /\ Path(36) = <<"io", "udp_interface", "bip_error_count", "FPGA1">>
  /\ Path(37) = <<"io", "udp_interface", "decode_error_count", "FPGA0">>
  /\ Path(38) = <<"io", "udp_interface", "decode_error_count", "FPGA1">>
  /\ Path(39) = <<"io", "udp_interface", "linkup_loss_count", "FPGA0">>
  /\ Path(40) = <<"io", "udp_interface", "linkup_loss_count", "FPGA1">>
  /\ Path(41) = <<"dsp", "tile_beamf">>
  /\ Path(42) = <<"dsp", "station_beamf", "status">>
  /\ Path(43) = <<"dsp", "station_beamf", "ddr_parity_error_count">>
  BY DEF Path, tpm_1_6_lookup, lookup

LEMMA MethodIs ==
  ASSUME NEW i
  PROVE  Method(board.version, i) = lookup(Tpm)[i][2]
  BY DEF Method, tpm_1_2_lookup, tpm_1_6_lookup, Tpm

\* The method of a point looks at all registers that the point is about, but for those that
\* the board does not tell of, and at no others.
Told(i) ==
  \E found \in SUBSET ErrorsOf(Path(i)) :
    /\ Looks(Method(board.version, i), found)
    /\ (ErrorsOf(Path(i)) \cap Registers) \ Untold \subseteq found


LEMMA ToldOf ==
  ASSUME NEW i, NEW path, NEW method, NEW found, NEW about,
         Path(i) = path, lookup(Tpm)[i][2] = method, ErrorsOf(path) = about,
         Looks(method, found), found \subseteq about, (about \cap Registers) \ Untold \subseteq found
  PROVE  Told(i)
<1>1. found \in SUBSET ErrorsOf(Path(i)) /\ Looks(Method(board.version, i), found)
      /\ (ErrorsOf(Path(i)) \cap Registers) \ Untold \subseteq found
  BY MethodIs, Zenon
<1> QED  BY <1>1, Zenon DEF Told

\* of all of them
LEMMA ToldAll ==
  ASSUME NEW i, NEW path, NEW method, NEW about,
         Path(i) = path, lookup(Tpm)[i][2] = method, ErrorsOf(path) = about, Looks(method, about)
  PROVE  Told(i)
<1>1. about \subseteq about /\ (about \cap Registers) \ Untold \subseteq about
  OBVIOUS
<1> QED  BY <1>1, ToldOf, Zenon

\* Looks at what is not compared
LEMMA Measures ==
  /\ Looks(<<Measure(0)>>, {})
  /\ Looks([i \in DOMAIN <<0>> |-> Measure(<<0>>[i])], {})
  /\ Looks([i \in DOMAIN <<1>> |-> Measure(<<1>>[i])], {})
  /\ Looks([i \in DOMAIN All |-> Measure(All[i])], {})
<1>1. {} \in SUBSET Kinds /\ {} \X {0} = {} /\ {} \X {1} = {} /\ {} \X {0, 1} = {}
  OBVIOUS
<1>2. /\ Looks(<<Look({}, 0)>>, {} \X {0})
      /\ Looks([i \in DOMAIN <<0>> |-> Look({}, <<0>>[i])], {} \X {0})
      /\ Looks([i \in DOMAIN <<1>> |-> Look({}, <<1>>[i])], {} \X {1})
      /\ Looks([i \in DOMAIN All |-> Look({}, All[i])], {} \X {0, 1})
  BY <1>1, LooksAtBoard, LooksAtFpgas
<1> QED  BY <1>1, <1>2 DEF Measure

\* What is needed is not looked at.
LEMMA LooksNeeds ==
  ASSUME NEW plugin \in {"beamf_fd", "station_beamf", "MGT_AVTT", "FE0"}, NEW m, NEW found,
         Looks(m, found)
  PROVE  /\ Looks(<<Needs(plugin)>> \o m, found)
         /\ Looks(m \o <<Needs(plugin)>>, found)
<1>1. Needs(plugin) \in StepType /\ Needs(plugin).do = "needs"
  BY NeedsIsStep
<1>2. Looks(<<Needs(plugin)>>, {})
  BY <1>1, LooksOnce
<1>3. Looks(<<Needs(plugin)>> \o m, {} \cup found) /\ Looks(m \o <<Needs(plugin)>>, found \cup {})
  BY <1>2, LooksConcat, Zenon
<1>4. {} \cup found = found /\ found \cup {} = found
  OBVIOUS
<1> QED  BY <1>3, <1>4, Zenon

LEMMA Versions ==
  /\ board.version = 2 => Tpm = 2
  /\ board.version # 2 => Tpm = 6
  BY DEF Tpm

\* Points about temperatures, voltages, currents and alarms
LEMMA MeasuredTold == \A i \in 1 .. 6 : Told(i)
<1>1. /\ ErrorsOf(<<"temperatures", "board">>) = {}
      /\ ErrorsOf(<<"temperatures", "FPGA0">>) = {}
      /\ ErrorsOf(<<"temperatures", "FPGA1">>) = {}
      /\ ErrorsOf(<<"voltages", "MGT_AVTT">>) = {}
      /\ ErrorsOf(<<"currents", "FE0">>) = {}
      /\ ErrorsOf(<<"alarms">>) = {}
  BY DEF ErrorsOf, KindsOf, FpgasOf, Last
<1>2. /\ lookup(Tpm)[1][2] = get_temperature
      /\ lookup(Tpm)[2][2] = get_fpga_temperature(<<0>>)
      /\ lookup(Tpm)[3][2] = get_fpga_temperature(<<1>>)
      /\ lookup(Tpm)[4][2] = get_voltage(All, "MGT_AVTT")
      /\ lookup(Tpm)[5][2] = get_current(All, "FE0")
      /\ lookup(Tpm)[6][2] = check_global_status_alarms(Tpm)
  BY DEF lookup
<1>3. Looks(get_temperature, {})
  BY Measures DEF get_temperature
<1>4. /\ Looks(get_fpga_temperature(<<0>>), {})
      /\ Looks(get_fpga_temperature(<<1>>), {})
  BY Measures DEF get_fpga_temperature, ForFpgas
<1>5. Looks(get_voltage(All, "MGT_AVTT"), {})
  <2>1. Looks(<<Measure(0)>> \o [i \in DOMAIN All |-> Measure(All[i])], {} \cup {})
    BY Measures, LooksConcat, Zenon
  <2>2. {} \cup {} = {}
    OBVIOUS
  <2>3. Looks((<<Measure(0)>> \o [i \in DOMAIN All |-> Measure(All[i])]) \o <<Needs("MGT_AVTT")>>, {})
    BY <2>1, <2>2, LooksNeeds
  <2> QED  BY <2>3 DEF get_voltage, ForFpgas
<1>6. Looks(get_current(All, "FE0"), {})
  <2>1. Looks(<<Measure(0)>> \o [i \in DOMAIN All |-> Measure(All[i])], {} \cup {})
    BY Measures, LooksConcat, Zenon
  <2>2. {} \cup {} = {}
    OBVIOUS
  <2>3. Looks((<<Measure(0)>> \o [i \in DOMAIN All |-> Measure(All[i])]) \o <<Needs("FE0")>>, {})
    BY <2>1, <2>2, LooksNeeds
  <2> QED  BY <2>3 DEF get_current, ForFpgas
<1>7. Looks(check_global_status_alarms(Tpm), {})
  BY Measures, LooksNone DEF check_global_status_alarms
<1>8. Told(1)
  BY <1>1, <1>2, <1>3, PathsAre, ToldAll
<1>9. Told(2)
  BY <1>1, <1>2, <1>4, PathsAre, ToldAll
<1>10. Told(3)
  BY <1>1, <1>2, <1>4, PathsAre, ToldAll
<1>11. Told(4)
  BY <1>1, <1>2, <1>5, PathsAre, ToldAll
<1>12. Told(5)
  BY <1>1, <1>2, <1>6, PathsAre, ToldAll
<1>13. Told(6)
  BY <1>1, <1>2, <1>7, PathsAre, ToldAll
<1> QED  BY <1>8, <1>9, <1>10, <1>11, <1>12, <1>13

\* Points about the ADCs
LEMMA AdcsTold == \A i \in 7 .. 10 : Told(i)
<1>1. /\ ErrorsOf(<<"adcs", "pll_status", "ADC1">>) = {"adc_pll_1"} \X {0}
      /\ ErrorsOf(<<"adcs", "pll_status", "ADC10">>) = {"adc_pll_10"} \X {0}
      /\ ErrorsOf(<<"adcs", "sysref_timing_requirements", "ADC1">>) = {}
      /\ ErrorsOf(<<"adcs", "sysref_counter", "ADC1">>) = {}
  BY DEF ErrorsOf, KindsOf, FpgasOf, Last
<1>2. /\ lookup(Tpm)[7][2] = check_adc_pll_status(Tpm, "adc_pll_1")
      /\ lookup(Tpm)[8][2] = check_adc_pll_status(Tpm, "adc_pll_10")
      /\ lookup(Tpm)[9][2] = check_adc_sysref_setup_and_hold
      /\ lookup(Tpm)[10][2] = check_adc_sysref_counter
  BY DEF lookup
<1>3. /\ Looks(check_adc_pll_status(Tpm, "adc_pll_1"), IF board.version = 2 THEN {} ELSE {"adc_pll_1"} \X {0})
      /\ Looks(check_adc_pll_status(Tpm, "adc_pll_10"), IF board.version = 2 THEN {} ELSE {"adc_pll_10"} \X {0})
  <2>1. {"adc_pll_1"} \in SUBSET Kinds /\ {"adc_pll_10"} \in SUBSET Kinds
    BY DEF Kinds, OfBoard
  <2>2. /\ Looks(<<Look({"adc_pll_1"}, 0)>>, {"adc_pll_1"} \X {0})
        /\ Looks(<<Look({"adc_pll_10"}, 0)>>, {"adc_pll_10"} \X {0})
        /\ Looks(<<Look({}, 0)>>, {})
    BY <2>1, LooksAtBoard, Measures DEF Measure
  <2>3. CASE board.version = 2
    BY <2>2, <2>3, Versions DEF check_adc_pll_status
  <2>4. CASE board.version # 2
    BY <2>2, <2>4, Versions DEF check_adc_pll_status
  <2> QED  BY <2>3, <2>4
<1>4. Looks(check_adc_sysref_setup_and_hold, {})
  BY Measures DEF check_adc_sysref_setup_and_hold
<1>5. Looks(check_adc_sysref_counter, {})
  <2>1. [do |-> "read_twice"] \in StepType
    BY DEF StepType
  <2>2. Looks(<<[do |-> "read_twice"]>>, {})
    BY <2>1, LooksOnce
  <2> QED  BY <2>2 DEF check_adc_sysref_counter
<1>6. Told(7)
  <2>1. (IF board.version = 2 THEN {} ELSE {"adc_pll_1"} \X {0}) \subseteq {"adc_pll_1"} \X {0}
    OBVIOUS
  <2>2. ASSUME NEW r, r \in {"adc_pll_1"} \X {0}, r \in Registers, r \notin Untold
        PROVE  r \in (IF board.version = 2 THEN {} ELSE {"adc_pll_1"} \X {0})
    BY <2>2 DEF Registers, OfFpgas, OfBoard, EthErrors, StationErrors, JesdErrors, Untold
  <2> QED  BY <1>1, <1>2, <1>3, <2>1, <2>2, PathsAre, ToldOf
<1>7. Told(8)
  <2>1. (IF board.version = 2 THEN {} ELSE {"adc_pll_10"} \X {0}) \subseteq {"adc_pll_10"} \X {0}
    OBVIOUS
  <2>2. ASSUME NEW r, r \in {"adc_pll_10"} \X {0}, r \in Registers, r \notin Untold
        PROVE  r \in (IF board.version = 2 THEN {} ELSE {"adc_pll_10"} \X {0})
    BY <2>2 DEF Registers, OfFpgas, OfBoard, EthErrors, StationErrors, JesdErrors, Untold
  <2> QED  BY <1>1, <1>2, <1>3, <2>1, <2>2, PathsAre, ToldOf
<1>8. Told(9)
  BY <1>1, <1>2, <1>4, PathsAre, ToldAll
<1>9. Told(10)
  BY <1>1, <1>2, <1>5, PathsAre, ToldAll
<1> QED  BY <1>6, <1>7, <1>8, <1>9

\* Points about clocks
LEMMA TimingTold == \A i \in 11 .. 16 : Told(i)
<1>1. /\ ErrorsOf(<<"timing", "clocks", "FPGA0">>) = {"clock"} \X {0}
      /\ ErrorsOf(<<"timing", "clocks", "FPGA1">>) = {"clock"} \X {1}
      /\ ErrorsOf(<<"timing", "clock_managers", "FPGA0">>) = {"clock_manager"} \X {0}
      /\ ErrorsOf(<<"timing", "clock_managers", "FPGA1">>) = {"clock_manager"} \X {1}
      /\ ErrorsOf(<<"timing", "pps", "status">>) = {"pps"} \X {0, 1}
      /\ ErrorsOf(<<"timing", "pll">>) = {"pll"} \X {0, 1}
  BY DEF ErrorsOf, KindsOf, FpgasOf, Last
<1>2. /\ lookup(Tpm)[11][2] = check_clock_status(<<0>>)
      /\ lookup(Tpm)[12][2] = check_clock_status(<<1>>)
      /\ lookup(Tpm)[13][2] = check_clock_manager_status(<<0>>)
      /\ lookup(Tpm)[14][2] = check_clock_manager_status(<<1>>)
      /\ lookup(Tpm)[15][2] = check_pps_status(All)
      /\ lookup(Tpm)[16][2] = check_ad9528_pll_status
  BY DEF lookup
<1>3. /\ Looks(check_clock_status(<<0>>), {"clock"} \X {0})
      /\ Looks(check_clock_status(<<1>>), {"clock"} \X {1})
  <2>1. {"clock"} \in SUBSET Kinds
    BY DEF EthErrors, JesdErrors, Kinds, OfFpgas, OfBoard
  <2> QED  BY <2>1, LooksAtFpgas DEF check_clock_status, ForFpgas
<1>4. /\ Looks(check_clock_manager_status(<<0>>), {"clock_manager"} \X {0})
      /\ Looks(check_clock_manager_status(<<1>>), {"clock_manager"} \X {1})
  <2>1. {"clock_manager"} \in SUBSET Kinds
    BY DEF EthErrors, JesdErrors, Kinds, OfFpgas, OfBoard
  <2> QED  BY <2>1, LooksAtFpgas DEF check_clock_manager_status, ForFpgas
<1>5. Looks(check_pps_status(All), {"pps"} \X {0, 1})
  <2>1. {"pps"} \in SUBSET Kinds
    BY DEF EthErrors, JesdErrors, Kinds, OfFpgas, OfBoard
  <2> QED  BY <2>1, LooksAtFpgas DEF check_pps_status, ForFpgas
<1>6. Looks(check_ad9528_pll_status, {"pll"} \X {0})
  <2>1. {"pll"} \in SUBSET Kinds
    BY DEF EthErrors, JesdErrors, Kinds, OfFpgas, OfBoard
  <2> QED  BY <2>1, LooksAtBoard DEF check_ad9528_pll_status
<1>7. Told(11)
  BY <1>1, <1>2, <1>3, PathsAre, ToldAll
<1>8. Told(12)
  BY <1>1, <1>2, <1>3, PathsAre, ToldAll
<1>9. Told(13)
  BY <1>1, <1>2, <1>4, PathsAre, ToldAll
<1>10. Told(14)
  BY <1>1, <1>2, <1>4, PathsAre, ToldAll
<1>11. Told(15)
  BY <1>1, <1>2, <1>5, PathsAre, ToldAll
<1>12. Told(16)
  <2>1. {"pll"} \X {0} \subseteq {"pll"} \X {0, 1}
    OBVIOUS
  <2>2. ASSUME NEW r, r \in {"pll"} \X {0, 1}, r \in Registers, r \notin Untold
        PROVE  r \in {"pll"} \X {0}
    BY <2>2 DEF Registers, OfFpgas, OfBoard, EthErrors, StationErrors, JesdErrors, Untold
  <2> QED  BY <1>1, <1>2, <1>6, <2>1, <2>2, PathsAre, ToldOf
<1> QED  BY <1>7, <1>8, <1>9, <1>10, <1>11, <1>12

\* Points about JESD
LEMMA JesdTold == \A i \in 17 .. 24 : Told(i)
<1>1. /\ ErrorsOf(<<"io", "jesd_interface", "link_status">>) = {}
      /\ ErrorsOf(<<"io", "jesd_interface", "lane_error_count", "FPGA0">>) = {"jesd_lane"} \X {0}
      /\ ErrorsOf(<<"io", "jesd_interface", "lane_error_count", "FPGA1">>) = {"jesd_lane"} \X {1}
      /\ ErrorsOf(<<"io", "jesd_interface", "lane_status">>) = {"jesd_lane"} \X {0, 1}
      /\ ErrorsOf(<<"io", "jesd_interface", "resync_count", "FPGA0">>) = {"jesd_resync"} \X {0}
      /\ ErrorsOf(<<"io", "jesd_interface", "resync_count", "FPGA1">>) = {"jesd_resync"} \X {1}
      /\ ErrorsOf(<<"io", "jesd_interface", "qpll_status", "FPGA0">>) = {"jesd_qpll"} \X {0}
      /\ ErrorsOf(<<"io", "jesd_interface", "qpll_status", "FPGA1">>) = {"jesd_qpll"} \X {1}
  BY DEF ErrorsOf, KindsOf, FpgasOf, Last
<1>2. /\ lookup(Tpm)[17][2] = check_jesd_link_status(All)
      /\ lookup(Tpm)[18][2] = check_jesd_lane_error_counter(<<0>>)
      /\ lookup(Tpm)[19][2] = check_jesd_lane_error_counter(<<1>>)
      /\ lookup(Tpm)[20][2] = check_jesd_lane_status(All)
      /\ lookup(Tpm)[21][2] = check_jesd_resync_counter(<<0>>)
      /\ lookup(Tpm)[22][2] = check_jesd_resync_counter(<<1>>)
      /\ lookup(Tpm)[23][2] = check_jesd_qpll_status(<<0>>)
      /\ lookup(Tpm)[24][2] = check_jesd_qpll_status(<<1>>)
  BY DEF lookup
<1>3. Looks(check_jesd_link_status(All), {})
  BY Measures DEF check_jesd_link_status, ForFpgas
<1>4. /\ Looks(check_jesd_lane_error_counter(<<0>>), {"jesd_lane"} \X {0})
      /\ Looks(check_jesd_lane_error_counter(<<1>>), {"jesd_lane"} \X {1})
  <2>1. {"jesd_lane"} \in SUBSET Kinds
    BY DEF EthErrors, JesdErrors, Kinds, OfFpgas, OfBoard
  <2> QED  BY <2>1, LooksAtFpgas DEF check_jesd_lane_error_counter, ForFpgas
<1>5. Looks(check_jesd_lane_status(All), {"jesd_lane"} \X {0, 1})
  <2>1. {"jesd_lane"} \in SUBSET Kinds
    BY DEF EthErrors, JesdErrors, Kinds, OfFpgas, OfBoard
  <2> QED  BY <2>1, LooksAtFpgas DEF check_jesd_lane_status, ForFpgas
<1>6. /\ Looks(check_jesd_resync_counter(<<0>>), {"jesd_resync"} \X {0})
      /\ Looks(check_jesd_resync_counter(<<1>>), {"jesd_resync"} \X {1})
  <2>1. {"jesd_resync"} \in SUBSET Kinds
    BY DEF EthErrors, JesdErrors, Kinds, OfFpgas, OfBoard
  <2> QED  BY <2>1, LooksAtFpgas DEF check_jesd_resync_counter, ForFpgas
<1>7. /\ Looks(check_jesd_qpll_status(<<0>>), {"jesd_qpll"} \X {0})
      /\ Looks(check_jesd_qpll_status(<<1>>), {"jesd_qpll"} \X {1})
  <2>1. {"jesd_qpll"} \in SUBSET Kinds
    BY DEF EthErrors, JesdErrors, Kinds, OfFpgas, OfBoard
  <2> QED  BY <2>1, LooksAtFpgas DEF check_jesd_qpll_status, ForFpgas
<1>8. Told(17)
  BY <1>1, <1>2, <1>3, PathsAre, ToldAll
<1>9. Told(18)
  BY <1>1, <1>2, <1>4, PathsAre, ToldAll
<1>10. Told(19)
  BY <1>1, <1>2, <1>4, PathsAre, ToldAll
<1>11. Told(20)
  BY <1>1, <1>2, <1>5, PathsAre, ToldAll
<1>12. Told(21)
  BY <1>1, <1>2, <1>6, PathsAre, ToldAll
<1>13. Told(22)
  BY <1>1, <1>2, <1>6, PathsAre, ToldAll
<1>14. Told(23)
  BY <1>1, <1>2, <1>7, PathsAre, ToldAll
<1>15. Told(24)
  BY <1>1, <1>2, <1>7, PathsAre, ToldAll
<1> QED  BY <1>8, <1>9, <1>10, <1>11, <1>12, <1>13, <1>14, <1>15

\* Points about DDR and the cores between the FPGAs
LEMMA DdrTold == \A i \in 25 .. 30 : Told(i)
<1>1. /\ ErrorsOf(<<"io", "ddr_interface", "initialisation">>) = {}
      /\ ErrorsOf(<<"io", "ddr_interface", "reset_counter", "FPGA0">>) = {"ddr_reset"} \X {0}
      /\ ErrorsOf(<<"io", "ddr_interface", "reset_counter", "FPGA1">>) = {"ddr_reset"} \X {1}
      /\ ErrorsOf(<<"io", "f2f_interface", "pll_status">>) = {"f2f_pll"} \X {0, 1}
      /\ ErrorsOf(<<"io", "f2f_interface", "soft_error">>) = {}
      /\ ErrorsOf(<<"io", "f2f_interface", "hard_error">>) = {"f2f_hard"} \X {0, 1}
  BY DEF ErrorsOf, KindsOf, FpgasOf, Last
<1>2. /\ lookup(Tpm)[25][2] = check_ddr_initialisation(All)
      /\ lookup(Tpm)[26][2] = check_ddr_reset_counter(<<0>>)
      /\ lookup(Tpm)[27][2] = check_ddr_reset_counter(<<1>>)
      /\ lookup(Tpm)[28][2] = check_f2f_pll_status(Tpm)
      /\ lookup(Tpm)[29][2] = check_f2f_soft_errors(Tpm)
      /\ lookup(Tpm)[30][2] = check_f2f_hard_errors(Tpm)
  BY DEF lookup
<1>3. Looks(check_ddr_initialisation(All), {})
  BY Measures DEF check_ddr_initialisation, ForFpgas
<1>4. /\ Looks(check_ddr_reset_counter(<<0>>), {"ddr_reset"} \X {0})
      /\ Looks(check_ddr_reset_counter(<<1>>), {"ddr_reset"} \X {1})
  <2>1. {"ddr_reset"} \in SUBSET Kinds
    BY DEF EthErrors, JesdErrors, Kinds, OfFpgas, OfBoard
  <2> QED  BY <2>1, LooksAtFpgas DEF check_ddr_reset_counter, ForFpgas
<1>5. Looks(check_f2f_pll_status(Tpm), {"f2f_pll"} \X (IF board.version = 2 THEN {0, 1} ELSE {0}))
  <2>1. {"f2f_pll"} \in SUBSET Kinds
    BY DEF Kinds, OfFpgas
  <2>2. CASE board.version = 2
    BY <2>1, <2>2, LooksAtFpgas, Versions DEF check_f2f_pll_status, ForFpgas, F2fCores
  <2>3. CASE board.version # 2
    <3>1. F2fCores(Tpm) = <<0>> /\ (IF board.version = 2 THEN {0, 1} ELSE {0}) = {0}
      BY <2>3, Versions DEF F2fCores
    <3>2. Looks([i \in DOMAIN <<0>> |-> Look({"f2f_pll"}, <<0>>[i])], {"f2f_pll"} \X {0})
      BY <2>1, LooksAtFpgas
    <3> QED  BY <3>1, <3>2, Zenon DEF check_f2f_pll_status, ForFpgas
  <2> QED  BY <2>2, <2>3
<1>6. Looks(check_f2f_soft_errors(Tpm), {})
  BY Measures, LooksNone DEF check_f2f_soft_errors
<1>7. Looks(check_f2f_hard_errors(Tpm), IF board.version = 2 THEN {} ELSE {"f2f_hard"} \X {0})
  <2>1. {"f2f_hard"} \in SUBSET Kinds
    BY DEF Kinds, OfBoard
  <2>2. Looks(<<Look({"f2f_hard"}, 0)>>, {"f2f_hard"} \X {0}) /\ Looks(<<Look({}, 0)>>, {})
    BY <2>1, LooksAtBoard, Measures DEF Measure
  <2>3. CASE board.version = 2
    BY <2>2, <2>3, Versions DEF check_f2f_hard_errors
  <2>4. CASE board.version # 2
    BY <2>2, <2>4, Versions DEF check_f2f_hard_errors
  <2> QED  BY <2>3, <2>4
<1>8. Told(25)
  BY <1>1, <1>2, <1>3, PathsAre, ToldAll
<1>9. Told(26)
  BY <1>1, <1>2, <1>4, PathsAre, ToldAll
<1>10. Told(27)
  BY <1>1, <1>2, <1>4, PathsAre, ToldAll
<1>11. Told(28)
  <2>1. {"f2f_pll"} \X (IF board.version = 2 THEN {0, 1} ELSE {0}) \subseteq {"f2f_pll"} \X {0, 1}
    OBVIOUS
  <2>2. ASSUME NEW r, r \in {"f2f_pll"} \X {0, 1}, r \in Registers, r \notin Untold
        PROVE  r \in {"f2f_pll"} \X (IF board.version = 2 THEN {0, 1} ELSE {0})
    BY <2>2 DEF Registers, OfFpgas, OfBoard, EthErrors, StationErrors, JesdErrors, Untold
  <2> QED  BY <1>1, <1>2, <1>5, <2>1, <2>2, PathsAre, ToldOf
<1>12. Told(29)
  BY <1>1, <1>2, <1>6, PathsAre, ToldAll
<1>13. Told(30)
  <2>1. (IF board.version = 2 THEN {} ELSE {"f2f_hard"} \X {0}) \subseteq {"f2f_hard"} \X {0, 1}
    OBVIOUS
  <2>2. ASSUME NEW r, r \in {"f2f_hard"} \X {0, 1}, r \in Registers, r \notin Untold
        PROVE  r \in (IF board.version = 2 THEN {} ELSE {"f2f_hard"} \X {0})
    BY <2>2 DEF Registers, OfFpgas, OfBoard, EthErrors, StationErrors, JesdErrors, Untold
  <2> QED  BY <1>1, <1>2, <1>7, <2>1, <2>2, PathsAre, ToldOf
<1> QED  BY <1>8, <1>9, <1>10, <1>11, <1>12, <1>13

\* Points about the network
LEMMA UdpTold == \A i \in 31 .. 40 : Told(i)
<1>1. /\ ErrorsOf(<<"io", "udp_interface", "arp">>) = {}
      /\ ErrorsOf(<<"io", "udp_interface", "status">>) = EthErrors \X {0, 1}
      /\ ErrorsOf(<<"io", "udp_interface", "crc_error_count", "FPGA0">>) = {"udp_crc"} \X {0}
      /\ ErrorsOf(<<"io", "udp_interface", "crc_error_count", "FPGA1">>) = {"udp_crc"} \X {1}
      /\ ErrorsOf(<<"io", "udp_interface", "bip_error_count", "FPGA0">>) = {"udp_bip"} \X {0}
      /\ ErrorsOf(<<"io", "udp_interface", "bip_error_count", "FPGA1">>) = {"udp_bip"} \X {1}
      /\ ErrorsOf(<<"io", "udp_interface", "decode_error_count", "FPGA0">>) = {"udp_decode"} \X {0}
      /\ ErrorsOf(<<"io", "udp_interface", "decode_error_count", "FPGA1">>) = {"udp_decode"} \X {1}
      /\ ErrorsOf(<<"io", "udp_interface", "linkup_loss_count", "FPGA0">>) = {"udp_linkup"} \X {0}
      /\ ErrorsOf(<<"io", "udp_interface", "linkup_loss_count", "FPGA1">>) = {"udp_linkup"} \X {1}
  BY DEF ErrorsOf, KindsOf, FpgasOf, Last
<1>2. /\ lookup(Tpm)[31][2] = check_udp_arp_table_status(All)
      /\ lookup(Tpm)[32][2] = check_udp_status(All)
      /\ lookup(Tpm)[33][2] = check_udp_crc_error_counter(<<0>>)
      /\ lookup(Tpm)[34][2] = check_udp_crc_error_counter(<<1>>)
      /\ lookup(Tpm)[35][2] = check_udp_bip_error_counter(<<0>>)
      /\ lookup(Tpm)[36][2] = check_udp_bip_error_counter(<<1>>)
      /\ lookup(Tpm)[37][2] = check_udp_decode_error_counter(<<0>>)
      /\ lookup(Tpm)[38][2] = check_udp_decode_error_counter(<<1>>)
      /\ lookup(Tpm)[39][2] = check_udp_linkup_loss_counter(<<0>>)
      /\ lookup(Tpm)[40][2] = check_udp_linkup_loss_counter(<<1>>)
  BY DEF lookup
<1>3. Looks(check_udp_arp_table_status(All), {})
  <2>1. Looks(<<Measure(0)>> \o [i \in DOMAIN All |-> Measure(All[i])], {} \cup {})
    BY Measures, LooksConcat, Zenon
  <2>2. {} \cup {} = {}
    OBVIOUS
  <2> QED  BY <2>1, <2>2 DEF check_udp_arp_table_status, ForFpgas
<1>4. Looks(check_udp_status(All), EthErrors \X {0, 1})
  <2>1. EthErrors \in SUBSET Kinds
    BY DEF EthErrors, JesdErrors, Kinds, OfFpgas, OfBoard
  <2> QED  BY <2>1, LooksAtFpgas DEF check_udp_status, ForFpgas
<1>5. /\ Looks(check_udp_crc_error_counter(<<0>>), {"udp_crc"} \X {0})
      /\ Looks(check_udp_crc_error_counter(<<1>>), {"udp_crc"} \X {1})
  <2>1. {"udp_crc"} \in SUBSET Kinds
    BY DEF EthErrors, JesdErrors, Kinds, OfFpgas, OfBoard
  <2> QED  BY <2>1, LooksAtFpgas DEF check_udp_crc_error_counter, ForFpgas
<1>6. /\ Looks(check_udp_bip_error_counter(<<0>>), {"udp_bip"} \X {0})
      /\ Looks(check_udp_bip_error_counter(<<1>>), {"udp_bip"} \X {1})
  <2>1. {"udp_bip"} \in SUBSET Kinds
    BY DEF EthErrors, JesdErrors, Kinds, OfFpgas, OfBoard
  <2> QED  BY <2>1, LooksAtFpgas DEF check_udp_bip_error_counter, ForFpgas
<1>7. /\ Looks(check_udp_decode_error_counter(<<0>>), {"udp_decode"} \X {0})
      /\ Looks(check_udp_decode_error_counter(<<1>>), {"udp_decode"} \X {1})
  <2>1. {"udp_decode"} \in SUBSET Kinds
    BY DEF EthErrors, JesdErrors, Kinds, OfFpgas, OfBoard
  <2> QED  BY <2>1, LooksAtFpgas DEF check_udp_decode_error_counter, ForFpgas
<1>8. /\ Looks(check_udp_linkup_loss_counter(<<0>>), {"udp_linkup"} \X {0})
      /\ Looks(check_udp_linkup_loss_counter(<<1>>), {"udp_linkup"} \X {1})
  <2>1. {"udp_linkup"} \in SUBSET Kinds
    BY DEF EthErrors, JesdErrors, Kinds, OfFpgas, OfBoard
  <2> QED  BY <2>1, LooksAtFpgas DEF check_udp_linkup_loss_counter, ForFpgas
<1>9. Told(31)
  BY <1>1, <1>2, <1>3, PathsAre, ToldAll
<1>10. Told(32)
  BY <1>1, <1>2, <1>4, PathsAre, ToldAll
<1>11. Told(33)
  BY <1>1, <1>2, <1>5, PathsAre, ToldAll
<1>12. Told(34)
  BY <1>1, <1>2, <1>5, PathsAre, ToldAll
<1>13. Told(35)
  BY <1>1, <1>2, <1>6, PathsAre, ToldAll
<1>14. Told(36)
  BY <1>1, <1>2, <1>6, PathsAre, ToldAll
<1>15. Told(37)
  BY <1>1, <1>2, <1>7, PathsAre, ToldAll
<1>16. Told(38)
  BY <1>1, <1>2, <1>7, PathsAre, ToldAll
<1>17. Told(39)
  BY <1>1, <1>2, <1>8, PathsAre, ToldAll
<1>18. Told(40)
  BY <1>1, <1>2, <1>8, PathsAre, ToldAll
<1> QED  BY <1>9, <1>10, <1>11, <1>12, <1>13, <1>14, <1>15, <1>16, <1>17, <1>18

\* Points about the beamformers
LEMMA DspTold == \A i \in 41 .. 43 : Told(i)
<1>1. /\ ErrorsOf(<<"dsp", "tile_beamf">>) = {"tile_beamf"} \X {0, 1}
      /\ ErrorsOf(<<"dsp", "station_beamf", "status">>) = StationErrors \X {0, 1}
      /\ ErrorsOf(<<"dsp", "station_beamf", "ddr_parity_error_count">>) = {"ddr_parity"} \X {0, 1}
  BY DEF ErrorsOf, KindsOf, FpgasOf, Last
<1>2. /\ lookup(Tpm)[41][2] = check_tile_beamformer_status(All)
      /\ lookup(Tpm)[42][2] = check_station_beamformer_status(All)
      /\ lookup(Tpm)[43][2] = check_ddr_parity_error_counter(All)
  BY DEF lookup
<1>3. Looks(check_tile_beamformer_status(All), {"tile_beamf"} \X {0, 1})
  <2>1. {"tile_beamf"} \in SUBSET Kinds
    BY DEF EthErrors, StationErrors, Kinds, OfFpgas
  <2>2. Looks([i \in DOMAIN All |-> Look({"tile_beamf"}, All[i])], {"tile_beamf"} \X {0, 1})
    BY <2>1, LooksAtFpgas
  <2>3. Looks(<<Needs("beamf_fd")>> \o [i \in DOMAIN All |-> Look({"tile_beamf"}, All[i])], {"tile_beamf"} \X {0, 1})
    BY <2>2, LooksNeeds
  <2> QED  BY <2>3 DEF check_tile_beamformer_status, ForFpgas
<1>4. Looks(check_station_beamformer_status(All), StationErrors \X {0, 1})
  <2>1. StationErrors \in SUBSET Kinds
    BY DEF EthErrors, StationErrors, Kinds, OfFpgas
  <2>2. Looks([i \in DOMAIN All |-> Look(StationErrors, All[i])], StationErrors \X {0, 1})
    BY <2>1, LooksAtFpgas
  <2>3. Looks(<<Needs("station_beamf")>> \o [i \in DOMAIN All |-> Look(StationErrors, All[i])], StationErrors \X {0, 1})
    BY <2>2, LooksNeeds
  <2> QED  BY <2>3 DEF check_station_beamformer_status, ForFpgas
<1>5. Looks(check_ddr_parity_error_counter(All), {"ddr_parity"} \X {0, 1})
  <2>1. {"ddr_parity"} \in SUBSET Kinds
    BY DEF EthErrors, StationErrors, Kinds, OfFpgas
  <2>2. Looks([i \in DOMAIN All |-> Look({"ddr_parity"}, All[i])], {"ddr_parity"} \X {0, 1})
    BY <2>1, LooksAtFpgas
  <2>3. Looks(<<Needs("station_beamf")>> \o [i \in DOMAIN All |-> Look({"ddr_parity"}, All[i])], {"ddr_parity"} \X {0, 1})
    BY <2>2, LooksNeeds
  <2> QED  BY <2>3 DEF check_ddr_parity_error_counter, ForFpgas
<1>6. Told(41)
  BY <1>1, <1>2, <1>3, PathsAre, ToldAll
<1>7. Told(42)
  BY <1>1, <1>2, <1>4, PathsAre, ToldAll
<1>8. Told(43)
  BY <1>1, <1>2, <1>5, PathsAre, ToldAll
<1> QED  BY <1>6, <1>7, <1>8

-----------------------------------------------------------------------------
(* Clearing                                                                 *)

LEMMA PointsTold == \A i \in all_monitoring_points : Told(i)
<1> SUFFICES ASSUME NEW i \in 1 .. 43 PROVE Told(i)
  BY PointsAre
<1> QED  BY MeasuredTold, AdcsTold, TimingTold, JesdTold, DdrTold, UdpTold, DspTold

LEMMA ClearsConcat ==
  ASSUME NEW c, NEW m, NEW found, NEW more, Clears(c, found), Clears(m, more)
  PROVE  Clears(c \o m, found \cup more)
  BY DoesConcat, Zenon DEF Clears

LEMMA ClearsOn ==
  ASSUME NEW kinds \in SUBSET Kinds, NEW f \in {0, 1}
  PROVE  Clears(<<Clear(kinds, f)>>, kinds \X {f})
<1>1. Clear(kinds, f) \in StepType /\ Clear(kinds, f).do = "clear"
      /\ On(Clear(kinds, f)) = kinds \X {f}
  BY LookIsStep
<1>2. Does(<<Clear(kinds, f)>>, {"clear", "needs"}, "clear",
           IF Clear(kinds, f).do = "clear" THEN On(Clear(kinds, f)) ELSE {})
  BY <1>1, DoesOnce
<1> QED  BY <1>1, <1>2 DEF Clears

LEMMA ClearsOnFpgas ==
  ASSUME NEW kinds \in SUBSET Kinds
  PROVE  /\ Clears([i \in DOMAIN <<0>> |-> Clear(kinds, <<0>>[i])], kinds \X {0})
         /\ Clears([i \in DOMAIN <<1>> |-> Clear(kinds, <<1>>[i])], kinds \X {1})
         /\ Clears([i \in DOMAIN All |-> Clear(kinds, All[i])], kinds \X {0, 1})
<1>1. /\ [i \in DOMAIN <<0>> |-> Clear(kinds, <<0>>[i])] = <<Clear(kinds, 0)>>
      /\ [i \in DOMAIN <<1>> |-> Clear(kinds, <<1>>[i])] = <<Clear(kinds, 1)>>
      /\ [i \in DOMAIN All |-> Clear(kinds, All[i])] = <<Clear(kinds, 0)>> \o <<Clear(kinds, 1)>>
  BY DEF All
<1>2. Clears(<<Clear(kinds, 0)>>, kinds \X {0}) /\ Clears(<<Clear(kinds, 1)>>, kinds \X {1})
  BY ClearsOn
<1>3. Clears(<<Clear(kinds, 0)>> \o <<Clear(kinds, 1)>>, (kinds \X {0}) \cup (kinds \X {1}))
  BY <1>2, ClearsConcat
<1>4. (kinds \X {0}) \cup (kinds \X {1}) = kinds \X {0, 1}
  OBVIOUS
<1> QED  BY <1>1, <1>2, <1>3, <1>4

LEMMA ClearsNeeds ==
  ASSUME NEW plugin \in {"beamf_fd", "station_beamf"}, NEW m, NEW found, Clears(m, found)
  PROVE  Clears(<<Needs(plugin)>> \o m, found)
<1>1. Needs(plugin) \in StepType /\ Needs(plugin).do = "needs"
  BY NeedsIsStep
<1>2. Does(<<Needs(plugin)>>, {"clear", "needs"}, "clear", {})
  BY <1>1, DoesOnce
<1>3. Clears(<<Needs(plugin)>> \o m, {} \cup found)
  BY <1>2, ClearsConcat, Zenon DEF Clears
<1>4. {} \cup found = found
  OBVIOUS
<1> QED  BY <1>3, <1>4, Zenon

\* The functions that clear_health_status calls, and what they clear
LEMMA Cleanings ==
  /\ Clears(clear_clock_status(All), {"clock"} \X {0, 1})
  /\ Clears(clear_clock_manager_status(All), {"clock_manager"} \X {0, 1})
  /\ Clears(clear_pps_status(All), {"pps"} \X {0, 1})
  /\ Clears(clear_ad9528_pll_status, {"pll"} \X {0})
  /\ Clears(clear_jesd_error_counters(All), JesdErrors \X {0, 1})
  /\ Clears(clear_ddr_reset_counter(All), {"ddr_reset"} \X {0, 1})
  /\ Clears(clear_udp_status(All), EthErrors \X {0, 1})
  /\ Clears(clear_tile_beamformer_status(All), {"tile_beamf"} \X {0, 1})
  /\ Clears(clear_station_beamformer_status(All), StationErrors \X {0, 1})
<1>1. /\ {"clock"} \in SUBSET Kinds /\ {"clock_manager"} \in SUBSET Kinds
      /\ {"pps"} \in SUBSET Kinds /\ {"pll"} \in SUBSET Kinds /\ JesdErrors \in SUBSET Kinds
      /\ {"ddr_reset"} \in SUBSET Kinds /\ EthErrors \in SUBSET Kinds
      /\ {"tile_beamf"} \in SUBSET Kinds /\ StationErrors \in SUBSET Kinds
  BY DEF Kinds, OfFpgas, OfBoard
<1>2. Clears(clear_clock_status(All), {"clock"} \X {0, 1})
  BY <1>1, ClearsOnFpgas DEF clear_clock_status, ForFpgas
<1>3. Clears(clear_clock_manager_status(All), {"clock_manager"} \X {0, 1})
  BY <1>1, ClearsOnFpgas DEF clear_clock_manager_status, ForFpgas
<1>4. Clears(clear_pps_status(All), {"pps"} \X {0, 1})
  BY <1>1, ClearsOnFpgas DEF clear_pps_status, ForFpgas
<1>5. Clears(clear_ad9528_pll_status, {"pll"} \X {0})
  BY <1>1, ClearsOn DEF clear_ad9528_pll_status
<1>6. Clears(clear_jesd_error_counters(All), JesdErrors \X {0, 1})
  BY <1>1, ClearsOnFpgas DEF clear_jesd_error_counters, ForFpgas
<1>7. Clears(clear_ddr_reset_counter(All), {"ddr_reset"} \X {0, 1})
  BY <1>1, ClearsOnFpgas DEF clear_ddr_reset_counter, ForFpgas
<1>8. Clears(clear_udp_status(All), EthErrors \X {0, 1})
  BY <1>1, ClearsOnFpgas DEF clear_udp_status, ForFpgas
<1>9. Clears(clear_tile_beamformer_status(All), {"tile_beamf"} \X {0, 1})
  <2>1. Clears([i \in DOMAIN All |-> Clear({"tile_beamf"}, All[i])], {"tile_beamf"} \X {0, 1})
    BY <1>1, ClearsOnFpgas
  <2> QED  BY <2>1, ClearsNeeds DEF clear_tile_beamformer_status, ForFpgas
<1>10. Clears(clear_station_beamformer_status(All), StationErrors \X {0, 1})
  <2>1. Clears([i \in DOMAIN All |-> Clear(StationErrors, All[i])], StationErrors \X {0, 1})
    BY <1>1, ClearsOnFpgas
  <2> QED  BY <2>1, ClearsNeeds DEF clear_station_beamformer_status, ForFpgas
<1> QED  BY <1>2, <1>3, <1>4, <1>5, <1>6, <1>7, <1>8, <1>9, <1>10

\* There is one core less in TPM 1.6.
Cores == IF board.version = 2 THEN {0, 1} ELSE {0}

LEMMA F2fCleared == Clears(clear_f2f_pll_lock_loss_counter(board.version), {"f2f_pll"} \X Cores)
<1>1. {"f2f_pll"} \in SUBSET Kinds
  BY DEF Kinds, OfFpgas
<1>2. CASE board.version = 2
  <2>1. F2fCores(board.version) = All /\ Cores = {0, 1}
    BY <1>2 DEF F2fCores, Cores
  <2>2. Clears([i \in DOMAIN All |-> Clear({"f2f_pll"}, All[i])], {"f2f_pll"} \X {0, 1})
    BY <1>1, ClearsOnFpgas
  <2> QED  BY <2>1, <2>2, Zenon DEF clear_f2f_pll_lock_loss_counter, ForFpgas
<1>3. CASE board.version # 2
  <2>1. F2fCores(board.version) = <<0>> /\ Cores = {0}
    BY <1>3 DEF F2fCores, Cores
  <2>2. Clears([i \in DOMAIN <<0>> |-> Clear({"f2f_pll"}, <<0>>[i])], {"f2f_pll"} \X {0})
    BY <1>1, ClearsOnFpgas
  <2> QED  BY <2>1, <2>2, Zenon DEF clear_f2f_pll_lock_loss_counter, ForFpgas
<1> QED  BY <1>2, <1>3

\* clear_health_status clears all that the board tells of, but for the locks of ADCs and the
\* hard errors between FPGAs.
LEMMA AllCleared ==
  ASSUME NEW c, c.name = "clear"
  PROVE  Clears(clear_health_status(board.version), Cleans(c))
<1> DEFINE Found ==
      (((((((({"clock"} \X {0, 1} \cup {"clock_manager"} \X {0, 1}) \cup {"pps"} \X {0, 1})
        \cup {"pll"} \X {0}) \cup JesdErrors \X {0, 1}) \cup {"ddr_reset"} \X {0, 1})
        \cup {"f2f_pll"} \X Cores) \cup EthErrors \X {0, 1}) \cup {"tile_beamf"} \X {0, 1})
        \cup StationErrors \X {0, 1}
<1>1. Clears(clear_health_status(board.version), Found)
  <2> DEFINE C0 == clear_clock_status(All)
             C1 == C0 \o clear_clock_manager_status(All)
             C2 == C1 \o clear_pps_status(All)
             C3 == C2 \o clear_ad9528_pll_status
             C4 == C3 \o clear_jesd_error_counters(All)
             C5 == C4 \o clear_ddr_reset_counter(All)
             C6 == C5 \o clear_f2f_pll_lock_loss_counter(board.version)
             C7 == C6 \o clear_udp_status(All)
             C8 == C7 \o clear_tile_beamformer_status(All)
             C9 == C8 \o clear_station_beamformer_status(All)
             F0 == {"clock"} \X {0, 1}
             F1 == F0 \cup {"clock_manager"} \X {0, 1}
             F2 == F1 \cup {"pps"} \X {0, 1}
             F3 == F2 \cup {"pll"} \X {0}
             F4 == F3 \cup JesdErrors \X {0, 1}
             F5 == F4 \cup {"ddr_reset"} \X {0, 1}
             F6 == F5 \cup {"f2f_pll"} \X Cores
             F7 == F6 \cup EthErrors \X {0, 1}
             F8 == F7 \cup {"tile_beamf"} \X {0, 1}
             F9 == F8 \cup StationErrors \X {0, 1}
  <2>1. Clears(C0, F0)
    BY Cleanings, Zenon
  <2> HIDE DEF C0, F0
  <2>2. Clears(C1, F1)
    BY <2>1, Cleanings, ClearsConcat, Zenon
  <2> HIDE DEF C1, F1
  <2>3. Clears(C2, F2)
    BY <2>2, Cleanings, ClearsConcat, Zenon
  <2> HIDE DEF C2, F2
  <2>4. Clears(C3, F3)
    BY <2>3, Cleanings, ClearsConcat, Zenon
  <2> HIDE DEF C3, F3
  <2>5. Clears(C4, F4)
    BY <2>4, Cleanings, ClearsConcat, Zenon
  <2> HIDE DEF C4, F4
  <2>6. Clears(C5, F5)
    BY <2>5, Cleanings, ClearsConcat, Zenon
  <2> HIDE DEF C5, F5
  <2>7. Clears(C6, F6)
    BY <2>6, F2fCleared, ClearsConcat, Zenon
  <2> HIDE DEF C6, F6
  <2>8. Clears(C7, F7)
    BY <2>7, Cleanings, ClearsConcat, Zenon
  <2> HIDE DEF C7, F7
  <2>9. Clears(C8, F8)
    BY <2>8, Cleanings, ClearsConcat, Zenon
  <2> HIDE DEF C8, F8
  <2>10. Clears(C9, F9)
    BY <2>9, Cleanings, ClearsConcat, Zenon
  <2> HIDE DEF C9, F9
  <2> QED  BY <2>10 DEF clear_health_status, C0, C1, C2, C3, C4, C5, C6, C7, C8, C9, F0, F1, F2, F3, F4, F5, F6, F7, F8, F9
<1>2. Found = Cleans(c)
  <2>1. CASE board.version = 2
    BY <2>1 DEF Cores, Cleans, Forgotten, ToClear, Untold, Registers, OfFpgas, OfBoard, JesdErrors, EthErrors, StationErrors
  <2>2. CASE board.version # 2
    BY <2>2 DEF Cores, Cleans, Forgotten, ToClear, Untold, Registers, OfFpgas, OfBoard, JesdErrors, EthErrors, StationErrors
  <2> QED  BY <2>1, <2>2
<1> QED  BY <1>1, <1>2

LEMMA StationCleared ==
  ASSUME NEW f \in {0, 1}, NEW c, c.name = "clear_station", c.fpga = f
  PROVE  Clears(clear_station_beamformer_status(<<f>>), Cleans(c))
<1>1. StationErrors \in SUBSET Kinds
  BY DEF Kinds, OfFpgas
<1>2. Clears([i \in DOMAIN <<f>> |-> Clear(StationErrors, <<f>>[i])], StationErrors \X {f})
  BY <1>1, ClearsOnFpgas
<1>3. Clears(<<Needs("station_beamf")>> \o [i \in DOMAIN <<f>> |-> Clear(StationErrors, <<f>>[i])],
             StationErrors \X {f})
  BY <1>2, ClearsNeeds
<1>4. Cleans(c) = StationErrors \X {f}
  <2>1. ToClear(c) = StationErrors \X {f}
    BY DEF ToClear
  <2> QED  BY <2>1 DEF Cleans, Forgotten, StationErrors
<1> QED  BY <1>3, <1>4 DEF clear_station_beamformer_status, ForFpgas
-----------------------------------------------------------------------------
(* Calls                                                                    *)

LEMMA NoReport == DOMAIN <<>> = {}
  OBVIOUS

LEMMA NothingToDo ==
  /\ <<>> \in Seq(StepType) /\ Len(<<>>) = 0
  /\ Looked(<<>>) = {} /\ Cleared(<<>>) = {}
  BY NoneLeft, EmptySeq DEF Looked, Cleared

\* A call that clears nothing
LEMMA ClearedNone ==
  ASSUME NEW s, \A i \in 1 .. Len(s) : s[i].do # "clear"
  PROVE  Cleared(s) = {}
<1>1. \A r : r \notin Cleared(s)
  BY OfFacts DEF Cleared
<1> QED  BY <1>1

LEMMA ToClearSame ==
  ASSUME board' = board, call' = call
  PROVE  /\ ToClear(call)' = ToClear(call) /\ Cleans(call)' = Cleans(call)
         /\ Untold' = Untold /\ Forgotten' = Forgotten
  BY DEF Cleans, ToClear, Untold, Forgotten

LEMMA UntoldSame ==
  ASSUME board' = board
  PROVE  Untold' = Untold
  BY DEF Untold

LEMMA NotToClear ==
  ASSUME NEW c, c.name \notin {"clear", "clear_station"}
  PROVE  ToClear(c) = {} /\ Cleans(c) = {}
  BY DEF ToClear, Cleans

LEMMA InitHolds == Init => HealthInv
<1> SUFFICES ASSUME Init PROVE HealthInv
  OBVIOUS
<1>1. call.name = "idle" /\ ToClear(call) = {} /\ Cleans(call) = {} /\ Doings["idle"] = {} /\ "idle" \in DOMAIN Doings
  BY NotToClear DEF Init, Idle, Doings
<1>2. Types
  <2>1. TypeOK
    BY NoReport DEF Init, TypeOK
  <2> QED  BY <1>1, <2>1, NothingToDo DEF Init, Types
<1>3. Asking
  BY <1>1, NoReport DEF Init, Asking
<1>4. Monitoring
  BY <1>1, NothingToDo DEF Init, Monitoring
<1>5. Clearing
  BY <1>1, NothingToDo DEF Init, Clearing
<1>6. Looking
  BY DEF Init, Looking
<1>7. Reporting
  BY <1>1, NoReport DEF Init, Reporting
<1> QED  BY <1>2, <1>3, <1>4, <1>5, <1>6, <1>7 DEF HealthInv

\* A call that begins, with what is to be done of it
LEMMA BeginHolds ==
  ASSUME HealthInv, NEW c, NEW body \in Seq(StepType), NEW points \in SUBSET all_monitoring_points,
         Begin(c, body, points),
         c.name \in DOMAIN Doings \ {"idle"},
         c.name \in {"disable", "clear_station"} => c.fpga \in {0, 1},
         \A i \in 1 .. Len(body) : body[i].do \in Doings[c.name],
         c.name # "get" => points = {},
         c.name = "get" => body = <<>> /\ known' = surely,
         c.name = "enable" /\ responds =>
           \A f \in {0, 1} : \E i \in 1 .. Len(body) : body[i].fpga = f,
         c.name = "disable" => \A i \in 1 .. Len(body) : body[i].fpga = c.fpga,
         Cleared(body) \subseteq Cleans(c), responds => Cleans(c) \subseteq Cleared(body),
         rate' \in [{"fast", "slow"} -> SUBSET all_monitoring_points],
         surely' = surely
  PROVE  HealthInv'
<1>1. /\ call = Idle /\ call' = c /\ steps' = body /\ todo' = points /\ point' = 0
      /\ report' = <<>> /\ seen' = {} /\ meanwhile' = {}
      /\ monitored' = IF c.name = "disable" THEN monitored \ {c.fpga} ELSE monitored
      /\ board' = board /\ responds' = responds /\ latched' = latched /\ enabled' = enabled
      /\ outcome' = outcome /\ since' = since
  BY DEF Begin, fixed, hardware
<1>2. Cleans(call)' = Cleans(c) /\ ToClear(call) = {} /\ Forgotten' = Forgotten
  <2>1. Cleans(call)' = Cleans(c) /\ Forgotten' = Forgotten
    BY <1>1 DEF Cleans, Forgotten, ToClear, Untold
  <2>2. ToClear(call) = {}
    BY <1>1, NotToClear DEF Idle
  <2> QED  BY <2>1, <2>2
<1>3. /\ TypeOK /\ latched \ Forgotten \subseteq since /\ surely \ ToClear(call) \subseteq latched
      /\ monitored \subseteq enabled
  BY DEF HealthInv, Types, Clearing, Monitoring
<1>4. surely \subseteq latched
  BY <1>2, <1>3
<1>5. Types'
  <2>1. TypeOK'
    BY <1>1, <1>3, NoReport DEF TypeOK
  <2> QED  BY <1>1, <2>1 DEF Types
<1>6. Asking'
  <2>1. \A i \in points : 0 < i
    BY PointsAre
  <2> QED  BY <1>1, <2>1, NoReport DEF Asking
<1>7. Monitoring'
  BY <1>1, <1>3 DEF Monitoring
<1>8. Clearing'
  <2>1. Cleared(steps)' \subseteq Cleans(call)'
    BY <1>1, <1>2 DEF Cleared
  <2>2. responds' => latched' \cap Cleans(call)' \subseteq meanwhile' \cup Cleared(steps)'
    <3>1. Cleared(steps)' = Cleared(body)
      BY <1>1
    <3> QED  BY <1>1, <1>2, <3>1
  <2>3. latched' \ Forgotten' \subseteq since' /\ surely' \ ToClear(call)' \subseteq latched'
    BY <1>1, <1>2, <1>3, <1>4
  <2> QED  BY <2>1, <2>2, <2>3 DEF Clearing
<1>9. Looking'
  BY <1>1 DEF Looking
<1>10. Reporting'
  BY <1>1, <1>4, NoReport DEF Reporting
<1> QED  BY <1>5, <1>6, <1>7, <1>8, <1>9, <1>10 DEF HealthInv

LEMMA EnableHolds == HealthInv /\ EnableHealthMonitoring => HealthInv'
<1> SUFFICES ASSUME HealthInv, EnableHealthMonitoring PROVE HealthInv'
  OBVIOUS
<1> DEFINE c == [name |-> "enable"]
           body == Checked(enable_clock_monitoring(All))
<1>1. enable_clock_monitoring(All) = <<[do |-> "enable", fpga |-> 0], [do |-> "enable", fpga |-> 1]>>
  BY DEF enable_clock_monitoring, ForFpgas, All
<1>2. /\ [do |-> "enable", fpga |-> 0] \in StepType /\ [do |-> "enable", fpga |-> 1] \in StepType
  BY DEF StepType
<1>3. /\ body \in Seq(StepType)
      /\ \A i \in 1 .. Len(body) : body[i].do = "enable"
      /\ responds => Len(body) = 2 /\ body[1].fpga = 0 /\ body[2].fpga = 1
  BY <1>1, <1>2, NothingToDo DEF Checked
<1>4. c.name = "enable" /\ Doings["enable"] = {"enable"} /\ "enable" \in DOMAIN Doings
  BY DEF Doings
<1>5. Begin(c, body, {}) /\ rate' = rate /\ surely' = surely
  BY DEF EnableHealthMonitoring
<1> HIDE DEF body, c
<1>6. responds => \A f \in {0, 1} : \E i \in 1 .. Len(body) : body[i].fpga = f
  <2> SUFFICES ASSUME responds, NEW f \in {0, 1} PROVE \E i \in 1 .. Len(body) : body[i].fpga = f
    OBVIOUS
  <2>1. 1 \in 1 .. Len(body) /\ 2 \in 1 .. Len(body)
    BY <1>3
  <2> QED  BY <1>3, <2>1
<1>7. Cleared(body) = {} /\ Cleans(c) = {}
  BY <1>3, <1>4, ClearedNone, NotToClear
<1>8. rate' \in [{"fast", "slow"} -> SUBSET all_monitoring_points]
  BY <1>5 DEF HealthInv, Types, TypeOK
<1>9. /\ \A i \in 1 .. Len(body) : body[i].do \in Doings[c.name]
      /\ c.name \in DOMAIN Doings \ {"idle"}
      /\ {} \in SUBSET all_monitoring_points
  BY <1>3, <1>4
<1> QED  BY <1>3, <1>4, <1>5, <1>6, <1>7, <1>8, <1>9, BeginHolds

LEMMA DisableHolds == \A f \in Fpgas : HealthInv /\ DisableClockMonitoring(f) => HealthInv'
<1> SUFFICES ASSUME NEW f \in Fpgas, HealthInv, DisableClockMonitoring(f) PROVE HealthInv'
  OBVIOUS
<1> DEFINE c == [name |-> "disable", fpga |-> f]
           body == disable_clock_monitoring(<<f>>)
<1>1. f \in {0, 1}
  OBVIOUS
<1>2. body = <<[do |-> "disable", fpga |-> f]>>
  BY DEF disable_clock_monitoring, ForFpgas
<1>3. [do |-> "disable", fpga |-> f] \in StepType
  BY <1>1 DEF StepType
<1>4. /\ body \in Seq(StepType)
      /\ \A i \in 1 .. Len(body) : body[i].do = "disable" /\ body[i].fpga = f
  <2> DEFINE s == [do |-> "disable", fpga |-> f]
  <2>1. s \in StepType /\ s.do = "disable" /\ s.fpga = f /\ body = <<s>>
    BY <1>2, <1>3
  <2> HIDE DEF s, body
  <2> QED  BY <2>1
<1>5. c.name = "disable" /\ c.fpga = f /\ Doings["disable"] = {"disable"} /\ "disable" \in DOMAIN Doings
  BY DEF Doings
<1>6. Begin(c, body, {}) /\ rate' = rate /\ surely' = surely
  BY DEF DisableClockMonitoring
<1> HIDE DEF body, c
<1>7. Cleared(body) = {} /\ Cleans(c) = {}
  BY <1>4, <1>5, ClearedNone, NotToClear
<1>8. rate' \in [{"fast", "slow"} -> SUBSET all_monitoring_points]
  BY <1>6 DEF HealthInv, Types, TypeOK
<1>9. /\ \A i \in 1 .. Len(body) : body[i].do \in Doings[c.name] /\ body[i].fpga = c.fpga
      /\ c.name \in DOMAIN Doings \ {"idle"}
      /\ {} \in SUBSET all_monitoring_points
  BY <1>4, <1>5
<1> QED  BY <1>1, <1>4, <1>5, <1>6, <1>7, <1>8, <1>9, BeginHolds

LEMMA ClearHolds == HealthInv /\ ClearHealthStatus => HealthInv'
<1> SUFFICES ASSUME HealthInv, ClearHealthStatus PROVE HealthInv'
  OBVIOUS
<1> DEFINE c == [name |-> "clear"]
           body == Checked(clear_health_status(board.version))
<1>1. c.name = "clear" /\ Doings["clear"] = {"clear", "needs"} /\ "clear" \in DOMAIN Doings
  BY DEF Doings
<1>2. /\ clear_health_status(board.version) \in Seq(StepType)
      /\ \A i \in 1 .. Len(clear_health_status(board.version)) :
           clear_health_status(board.version)[i].do \in {"clear", "needs"}
      /\ Cleared(clear_health_status(board.version)) = Cleans(c)
  BY <1>1, AllCleared DEF Clears, Does, Cleared
<1>3. Begin(c, body, {}) /\ rate' = rate /\ surely' = surely
  BY DEF ClearHealthStatus
<1>4. /\ body \in Seq(StepType)
      /\ \A i \in 1 .. Len(body) : body[i].do \in {"clear", "needs"}
      /\ Cleared(body) \subseteq Cleans(c)
      /\ responds => Cleans(c) \subseteq Cleared(body)
  <2>1. CASE responds
    BY <1>2, <2>1 DEF Checked
  <2>2. CASE ~responds
    BY <2>2, NothingToDo DEF Checked
  <2> QED  BY <2>1, <2>2
<1> HIDE DEF body, c
<1>5. rate' \in [{"fast", "slow"} -> SUBSET all_monitoring_points]
  BY <1>3 DEF HealthInv, Types, TypeOK
<1>6. /\ \A i \in 1 .. Len(body) : body[i].do \in Doings[c.name]
      /\ c.name \in DOMAIN Doings \ {"idle"}
      /\ {} \in SUBSET all_monitoring_points
  BY <1>1, <1>4
<1> QED  BY <1>1, <1>3, <1>4, <1>5, <1>6, BeginHolds

LEMMA ClearStationHolds == \A f \in Fpgas : HealthInv /\ ClearStationBeamformerStatus(f) => HealthInv'
<1> SUFFICES ASSUME NEW f \in Fpgas, HealthInv, ClearStationBeamformerStatus(f) PROVE HealthInv'
  OBVIOUS
<1> DEFINE c == [name |-> "clear_station", fpga |-> f]
           body == clear_station_beamformer_status(<<f>>)
<1>1. f \in {0, 1}
  OBVIOUS
<1>2. /\ c.name = "clear_station" /\ c.fpga = f /\ Doings["clear_station"] = {"clear", "needs"}
      /\ "clear_station" \in DOMAIN Doings
  BY DEF Doings
<1>3. Begin(c, body, {}) /\ rate' = rate /\ surely' = surely
  BY DEF ClearStationBeamformerStatus
<1> HIDE DEF c
<1>4. Clears(body, Cleans(c))
  BY <1>1, <1>2, StationCleared
<1> HIDE DEF body
<1>5. /\ body \in Seq(StepType)
      /\ \A i \in 1 .. Len(body) : body[i].do \in {"clear", "needs"}
      /\ Cleared(body) = Cleans(c)
  BY <1>4 DEF Clears, Does, Cleared
<1>6. rate' \in [{"fast", "slow"} -> SUBSET all_monitoring_points]
  BY <1>3 DEF HealthInv, Types, TypeOK
<1>7. /\ \A i \in 1 .. Len(body) : body[i].do \in Doings[c.name]
      /\ c.name \in DOMAIN Doings \ {"idle"}
      /\ {} \in SUBSET all_monitoring_points
  BY <1>2, <1>5
<1> QED  BY <1>1, <1>2, <1>3, <1>5, <1>6, <1>7, BeginHolds

LEMMA InjectDdrHolds == \A f \in Fpgas : HealthInv /\ InjectDdrParityError(f) => HealthInv'
<1> SUFFICES ASSUME NEW f \in Fpgas, HealthInv, InjectDdrParityError(f) PROVE HealthInv'
  OBVIOUS
<1> DEFINE c == [name |-> "inject"]
           body == inject_ddr_parity_error(<<f>>)
<1>1. f \in {0, 1}
  OBVIOUS
<1>2. body = <<[do |-> "inject", fpga |-> f], [do |-> "await_injected", fpga |-> f]>>
  BY DEF inject_ddr_parity_error
<1>3. [do |-> "inject", fpga |-> f] \in StepType /\ [do |-> "await_injected", fpga |-> f] \in StepType
  BY <1>1 DEF StepType
<1>4. /\ body \in Seq(StepType)
      /\ \A i \in 1 .. Len(body) : body[i].do \in {"inject", "await_injected"}
  <2> DEFINE s == [do |-> "inject", fpga |-> f]
             t == [do |-> "await_injected", fpga |-> f]
  <2>1. /\ s \in StepType /\ s.do = "inject" /\ t \in StepType /\ t.do = "await_injected"
        /\ body = <<s, t>>
    BY <1>2, <1>3
  <2> HIDE DEF s, t, body
  <2>2. body \in Seq(StepType) /\ Len(body) = 2 /\ body[1] = s /\ body[2] = t
    BY <2>1
  <2> QED  BY <2>1, <2>2
<1>5. /\ c.name = "inject" /\ Doings["inject"] = {"inject", "await_injected"}
      /\ "inject" \in DOMAIN Doings
  BY DEF Doings
<1>6. Begin(c, body, {}) /\ rate' = rate /\ surely' = surely
  BY DEF InjectDdrParityError
<1> HIDE DEF body, c
<1>7. Cleared(body) = {} /\ Cleans(c) = {}
  BY <1>4, <1>5, ClearedNone, NotToClear
<1>8. rate' \in [{"fast", "slow"} -> SUBSET all_monitoring_points]
  BY <1>6 DEF HealthInv, Types, TypeOK
<1>9. /\ \A i \in 1 .. Len(body) : body[i].do \in Doings[c.name]
      /\ c.name \in DOMAIN Doings \ {"idle"}
      /\ {} \in SUBSET all_monitoring_points
  BY <1>4, <1>5
<1> QED  BY <1>4, <1>5, <1>6, <1>7, <1>8, <1>9, BeginHolds

LEMMA SetHolds ==
  \A path, override : HealthInv /\ SetMonitoringPointAttr(path, override) => HealthInv'
<1> SUFFICES ASSUME NEW path, NEW override, HealthInv, SetMonitoringPointAttr(path, override)
             PROVE  HealthInv'
  OBVIOUS
<1> DEFINE c == [name |-> "set"]
<1>1. c.name = "set" /\ "set" \in DOMAIN Doings
  BY DEF Doings
<1>2. Begin(c, <<>>, {}) /\ surely' = surely
  BY DEF SetMonitoringPointAttr
<1>3. rate' \in [{"fast", "slow"} -> SUBSET all_monitoring_points]
  <2>1. rate \in [{"fast", "slow"} -> SUBSET all_monitoring_points]
    BY DEF HealthInv, Types, TypeOK
  <2>2. rate' = set_monitoring_point_attr(rate, path, override, "slow")
    BY DEF SetMonitoringPointAttr
  <2> DEFINE points == {i \in all_monitoring_points : StartsWith(i, path)}
  <2>3. points \in SUBSET all_monitoring_points
    OBVIOUS
  <2>4. rate' = [v \in DOMAIN rate |->
                   IF v = "slow" THEN rate[v] \cup points
                   ELSE IF override THEN rate[v] \ points ELSE rate[v]]
    BY <2>2 DEF set_monitoring_point_attr
  <2> HIDE DEF points
  <2>5. \A v \in {"fast", "slow"} : rate[v] \cup points \in SUBSET all_monitoring_points
          /\ rate[v] \ points \in SUBSET all_monitoring_points
          /\ rate[v] \in SUBSET all_monitoring_points
    BY <2>1, <2>3
  <2> QED  BY <2>1, <2>4, <2>5
<1> HIDE DEF c
<1>4. Cleans(c) = {} /\ Cleared(<<>>) = {} /\ \A i \in 1 .. Len(<<>>) : FALSE
  BY <1>1, NotToClear, NothingToDo
<1>5. c.name \in DOMAIN Doings \ {"idle"} /\ {} \in SUBSET all_monitoring_points
  BY <1>1
<1> QED  BY <1>1, <1>2, <1>3, <1>4, <1>5, NothingToDo, BeginHolds

LEMMA GetHolds == \A asked : HealthInv /\ GetHealthStatus(asked) => HealthInv'
<1> SUFFICES ASSUME NEW asked, HealthInv, GetHealthStatus(asked) PROVE HealthInv'
  OBVIOUS
<1> DEFINE c == [name |-> "get"]
           points == IF responds THEN _kwargs_handler(rate, asked) ELSE {}
<1>1. c.name = "get" /\ "get" \in DOMAIN Doings
  BY DEF Doings
<1>2. Begin(c, <<>>, points) /\ surely' = surely /\ rate' = rate /\ known' = surely
  BY DEF GetHealthStatus
<1>3. points \in SUBSET all_monitoring_points
  BY DEF _kwargs_handler
<1> HIDE DEF c, points
<1>4. rate' \in [{"fast", "slow"} -> SUBSET all_monitoring_points]
  BY <1>2 DEF HealthInv, Types, TypeOK
<1>5. Cleans(c) = {} /\ Cleared(<<>>) = {} /\ \A i \in 1 .. Len(<<>>) : FALSE
  BY <1>1, NotToClear, NothingToDo
<1>6. c.name \in DOMAIN Doings \ {"idle"}
  BY <1>1
<1> QED  BY <1>1, <1>2, <1>3, <1>4, <1>5, <1>6, NothingToDo, BeginHolds
-----------------------------------------------------------------------------
(* Steps of a call                                                          *)

\* Whose step it is
LEMMA CallOf ==
  ASSUME Types, steps # <<>>
  PROVE  /\ This \in StepType /\ call.name \in DOMAIN Doings \ {"idle", "set"}
         /\ This.do \in {"look", "read_twice"} => call.name = "get"
         /\ This.do = "clear" => call.name \in {"clear", "clear_station"}
         /\ This.do = "needs" => call.name \in {"get", "clear", "clear_station"}
         /\ This.do = "enable" => call.name = "enable"
         /\ This.do = "disable" => call.name = "disable"
         /\ This.do \in {"inject", "await_injected"} => call.name = "inject"
<1>1. /\ steps \in Seq(StepType) /\ call.name \in DOMAIN Doings
      /\ \A i \in 1 .. Len(steps) : steps[i].do \in Doings[call.name]
  BY DEF Types
<1>2. This = steps[1] /\ This \in StepType /\ 1 \in 1 .. Len(steps)
  BY <1>1, TailFacts DEF This
<1>3. This.do \in Doings[call.name]
  BY <1>1, <1>2
<1> QED  BY <1>1, <1>2, <1>3 DEF Doings

\* What goes on has one step less to do.
LEMMA GoesOn ==
  ASSUME HealthInv, steps # <<>>, GoOn, UNCHANGED <<rate, point, report>>, latched' \subseteq Registers
  PROVE  /\ Types' /\ Asking'
         /\ steps' = Tail(steps)
         /\ call' = call /\ todo' = todo /\ meanwhile' = meanwhile /\ since' = since
         /\ surely' = surely /\ monitored' = monitored
         /\ Looked(steps)' \subseteq Looked(steps) /\ Cleared(steps)' \subseteq Cleared(steps)
         /\ This.do = "look" => Looked(steps) = On(This) \cup Looked(steps)'
         /\ This.do # "look" => Looked(steps)' = Looked(steps)
         /\ This.do = "clear" => Cleared(steps) = On(This) \cup Cleared(steps)'
         /\ This.do # "clear" => Cleared(steps)' = Cleared(steps)
<1>1. /\ steps' = Tail(steps) /\ call' = call /\ todo' = todo /\ meanwhile' = meanwhile
      /\ since' = since /\ surely' = surely /\ monitored' = monitored /\ outcome' = outcome
  BY DEF GoOn, Kept
<1>2. /\ TypeOK /\ steps \in Seq(StepType) /\ call.name \in DOMAIN Doings
      /\ call.name \in {"disable", "clear_station"} => call.fpga \in {0, 1}
      /\ \A i \in 1 .. Len(steps) : steps[i].do \in Doings[call.name]
      /\ point \in all_monitoring_points \cup {0}
  BY DEF HealthInv, Types
<1>3. /\ Tail(steps) \in Seq(StepType) /\ Len(steps) \in Nat \ {0}
      /\ Len(Tail(steps)) = Len(steps) - 1
      /\ \A i \in 1 .. Len(steps) - 1 : Tail(steps)[i] = steps[i + 1]
  BY <1>2, TailFacts
<1>4. Types'
  <2>1. TypeOK'
    BY <1>1, <1>2 DEF TypeOK
  <2>2. \A i \in 1 .. Len(steps') : steps'[i].do \in Doings[call.name]
    <3> SUFFICES ASSUME NEW i \in 1 .. Len(steps') PROVE steps'[i].do \in Doings[call.name]
      OBVIOUS
    <3>1. i + 1 \in 1 .. Len(steps) /\ steps'[i] = steps[i + 1]
      BY <1>1, <1>3
    <3> QED  BY <1>2, <3>1
  <2> QED  BY <1>1, <1>2, <1>3, <2>1, <2>2 DEF Types
<1>5. Asking'
  BY <1>1 DEF HealthInv, Asking
<1>6. /\ Of(Tail(steps), "look") \subseteq Of(steps, "look")
      /\ This.do = "look" => Of(steps, "look") = On(This) \cup Of(Tail(steps), "look")
      /\ This.do # "look" => Of(steps, "look") = Of(Tail(steps), "look")
  BY <1>2, TailOf, Zenon DEF This
<1>7. /\ Of(Tail(steps), "clear") \subseteq Of(steps, "clear")
      /\ This.do = "clear" => Of(steps, "clear") = On(This) \cup Of(Tail(steps), "clear")
      /\ This.do # "clear" => Of(steps, "clear") = Of(Tail(steps), "clear")
  BY <1>2, TailOf, Zenon DEF This
<1>8. Looked(steps)' = Of(Tail(steps), "look") /\ Cleared(steps)' = Of(Tail(steps), "clear")
  BY <1>1 DEF Looked, Cleared
<1> QED  BY <1>1, <1>4, <1>5, <1>6, <1>7, <1>8 DEF Looked, Cleared

\* A step that does nothing to what is remembered
LEMMA PassHolds ==
  ASSUME HealthInv, steps # <<>>, This.do \in {"needs", "read_twice", "inject", "await_injected"},
         GoOn, UNCHANGED <<board, responds, latched, enabled, rate, point, seen, report, known>>
  PROVE  HealthInv'
<1>1. latched' \subseteq Registers
  BY DEF HealthInv, Types, TypeOK
<1>2. /\ Types' /\ Asking' /\ call' = call /\ meanwhile' = meanwhile /\ since' = since
      /\ surely' = surely /\ monitored' = monitored
      /\ Looked(steps)' = Looked(steps) /\ Cleared(steps)' = Cleared(steps)
  BY <1>1, GoesOn
<1>3. call.name \notin {"enable", "disable"}
  BY CallOf DEF HealthInv
<1>4. /\ ToClear(call)' = ToClear(call) /\ Cleans(call)' = Cleans(call)
      /\ Untold' = Untold /\ Forgotten' = Forgotten
  BY <1>2, ToClearSame
<1>5. Monitoring'
  BY <1>2, <1>3 DEF HealthInv, Monitoring
<1>6. Clearing'
  BY <1>2, <1>4 DEF HealthInv, Clearing
<1>7. Looking'
  BY <1>2, <1>4 DEF HealthInv, Looking
<1>8. Reporting'
  <2>1. \A i, r : FoundAfter(i, r) => FoundAfter(i, r)'
    BY <1>2, <1>4 DEF FoundAfter
  <2> QED  BY <1>2, <1>4, <2>1 DEF HealthInv, Reporting
<1> QED  BY <1>2, <1>5, <1>6, <1>7, <1>8 DEF HealthInv

\* A call that ends
LEMMA DoneHolds ==
  ASSUME HealthInv, NEW how \in {"returned", "raised"}, Done(how),
         UNCHANGED <<board, responds, latched, enabled, rate>>, point' = 0,
         how = "returned" => steps = <<>>, call.name = "enable" => steps = <<>>,
         DOMAIN report' \subseteq all_monitoring_points, Reporting'
  PROVE  HealthInv'
<1>1. /\ meanwhile' = {} /\ steps' = <<>> /\ todo' = {} /\ call' = Idle /\ outcome' = how
      /\ since' = IF how = "returned" /\ responds THEN (since \ ToClear(call)) \cup meanwhile ELSE since
      /\ surely' = surely \ ToClear(call)
      /\ monitored' = IF call.name = "enable" /\ responds THEN {0, 1} ELSE monitored
  BY DEF Done
<1>2. call'.name = "idle" /\ Doings["idle"] = {} /\ "idle" \in DOMAIN Doings
  BY <1>1 DEF Idle, Doings
<1>3. ToClear(call)' = {} /\ Cleans(call)' = {} /\ Forgotten' = Forgotten
  BY <1>2 DEF Cleans, ToClear, Forgotten
<1>4. Types'
  <2>1. TypeOK'
    BY <1>1 DEF HealthInv, Types, TypeOK
  <2> QED  BY <1>1, <1>2, <2>1, NothingToDo DEF Types
<1>5. Asking'
  BY <1>1, <1>2 DEF Asking
<1>6. Monitoring'
  <2>1. CASE call.name = "enable" /\ responds
    <3>1. \A f \in {0, 1} : f \in enabled
      <4>1. \A i \in 1 .. Len(steps) : FALSE
        BY <2>1, NothingToDo
      <4> QED  BY <2>1, <4>1 DEF HealthInv, Monitoring
    <3> QED  BY <1>1, <1>2, <2>1, <3>1 DEF Monitoring
  <2>2. CASE ~(call.name = "enable" /\ responds)
    BY <1>1, <1>2, <2>2 DEF HealthInv, Monitoring
  <2> QED  BY <2>1, <2>2
<1>7. Clearing'
  <2>1. Cleared(steps)' = {}
    BY <1>1, NothingToDo
  <2>2. latched \ Forgotten \subseteq since'
    <3>1. latched \ Forgotten \subseteq since
      BY DEF HealthInv, Clearing
    <3>2. CASE how = "returned" /\ responds
      <4>1. latched \cap Cleans(call) \subseteq meanwhile
        BY <3>2, NothingToDo DEF HealthInv, Clearing
      <4>2. ToClear(call) \ Forgotten \subseteq Cleans(call)
        BY DEF Cleans
      <4> QED  BY <1>1, <3>1, <3>2, <4>1, <4>2
    <3>3. CASE ~(how = "returned" /\ responds)
      BY <1>1, <3>1, <3>3
    <3> QED  BY <3>2, <3>3
  <2>3. surely \ ToClear(call) \subseteq latched
    BY DEF HealthInv, Clearing
  <2>4. surely' \ ToClear(call)' \subseteq latched'
    BY <1>1, <1>3, <2>3
  <2> QED  BY <1>3, <2>1, <2>2, <2>4 DEF Clearing
<1>8. Looking'
  BY DEF Looking
<1> QED  BY <1>4, <1>5, <1>6, <1>7, <1>8 DEF HealthInv

\* There is no report of a call that raised an exception.
LEMMA RaiseHolds ==
  ASSUME HealthInv, Raise, UNCHANGED <<board, responds, latched, enabled, rate>>, call.name # "enable"
  PROVE  HealthInv'
<1>1. Done("raised") /\ report' = <<>> /\ point' = 0
  BY DEF Raise
<1>2. call'.name = "idle"
  BY <1>1 DEF Done, Idle
<1>3. DOMAIN report' = {}
  BY <1>1, NoReport
<1>4. Reporting'
  BY <1>2, <1>3 DEF Reporting
<1> QED  BY <1>1, <1>3, <1>4, DoneHolds

LEMMA NeedHolds == HealthInv /\ Need /\ UNCHANGED <<fixed, rate, known>> => HealthInv'
<1> SUFFICES ASSUME HealthInv, Need, UNCHANGED <<fixed, rate, known>> PROVE HealthInv'
  OBVIOUS
<1>1. /\ steps # <<>> /\ This.do = "needs"
      /\ UNCHANGED <<board, responds, latched, enabled, rate, seen, known>>
  BY DEF Need, AtStep, fixed, hardware
<1>2. CASE GoOn /\ UNCHANGED <<point, report>>
  BY <1>1, <1>2, PassHolds
<1>3. CASE Raise
  <2>1. call.name # "enable"
    BY <1>1, CallOf DEF HealthInv
  <2> QED  BY <1>1, <1>3, <2>1, RaiseHolds
<1> QED  BY <1>2, <1>3 DEF Need

LEMMA LookHolds == HealthInv /\ LookAt /\ UNCHANGED <<fixed, rate, known>> => HealthInv'
<1> SUFFICES ASSUME HealthInv, LookAt, UNCHANGED <<fixed, rate, known>> PROVE HealthInv'
  OBVIOUS
<1>1. /\ steps # <<>> /\ This.do = "look" /\ seen' = seen \cup (On(This) \cap latched) /\ GoOn
      /\ UNCHANGED <<board, responds, latched, enabled, rate, point, report, known>>
  BY DEF LookAt, AtStep, fixed, hardware, On
<1>2. latched' \subseteq Registers
  BY <1>1 DEF HealthInv, Types, TypeOK
<1>3. /\ Types' /\ Asking' /\ call' = call /\ meanwhile' = meanwhile /\ since' = since
      /\ surely' = surely /\ monitored' = monitored
      /\ Looked(steps) = On(This) \cup Looked(steps)' /\ Cleared(steps)' = Cleared(steps)
  BY <1>1, <1>2, GoesOn
<1>4. call.name = "get"
  BY <1>1, CallOf DEF HealthInv
<1>5. /\ ToClear(call)' = ToClear(call) /\ Cleans(call)' = Cleans(call)
      /\ Untold' = Untold /\ Forgotten' = Forgotten
  BY <1>1, <1>3, ToClearSame
<1>6. Monitoring'
  BY <1>1, <1>3, <1>4 DEF HealthInv, Monitoring
<1>7. Clearing'
  BY <1>1, <1>3, <1>5 DEF HealthInv, Clearing
<1>8. known \subseteq latched
  BY <1>4 DEF HealthInv, Reporting
<1>9. \A r \in latched : r \in seen \cup Looked(steps) => r \in seen' \cup Looked(steps)'
  BY <1>1, <1>3
<1>10. Looking'
  <2> SUFFICES ASSUME point # 0
               PROVE  /\ seen' \subseteq ErrorsOf(Path(point)) \cap latched
                      /\ Looked(steps)' \subseteq ErrorsOf(Path(point))
                      /\ (ErrorsOf(Path(point)) \cap known) \ Untold \subseteq seen' \cup Looked(steps)'
    BY <1>1, <1>5 DEF Looking
  <2>1. /\ seen \subseteq ErrorsOf(Path(point)) \cap latched
        /\ Looked(steps) \subseteq ErrorsOf(Path(point))
        /\ (ErrorsOf(Path(point)) \cap known) \ Untold \subseteq seen \cup Looked(steps)
    BY DEF HealthInv, Looking
  <2> HIDE DEF HealthInv
  <2>2. seen' \subseteq ErrorsOf(Path(point)) \cap latched
    BY <1>1, <1>3, <2>1
  <2>3. Looked(steps)' \subseteq ErrorsOf(Path(point))
    BY <1>3, <2>1
  <2>4. (ErrorsOf(Path(point)) \cap known) \ Untold \subseteq seen' \cup Looked(steps)'
    BY <1>8, <1>9, <2>1
  <2> QED  BY <2>2, <2>3, <2>4
<1>11. Reporting'
  <2>1. ASSUME NEW i, NEW r \in latched, FoundAfter(i, r) PROVE FoundAfter(i, r)'
    BY <1>1, <1>5, <1>9, <2>1 DEF FoundAfter
  <2>2. \A i \in DOMAIN report :
          /\ report[i] => ErrorsOf(Path(i)) \cap known \subseteq Untold
          /\ ~report[i] => \E r \in ErrorsOf(Path(i)) \cap latched : FoundAfter(i, r)
    BY DEF HealthInv, Reporting
  <2>3. \A i \in DOMAIN report :
          ~report[i] => \E r \in ErrorsOf(Path(i)) \cap latched : FoundAfter(i, r)'
    BY <2>1, <2>2
  <2> QED  BY <1>1, <1>5, <1>8, <2>2, <2>3 DEF Reporting
<1> QED  BY <1>3, <1>6, <1>7, <1>10, <1>11 DEF HealthInv

LEMMA ClearThemHolds == HealthInv /\ ClearThem /\ UNCHANGED <<fixed, rate, known>> => HealthInv'
<1> SUFFICES ASSUME HealthInv, ClearThem, UNCHANGED <<fixed, rate, known>> PROVE HealthInv'
  OBVIOUS
<1>1. /\ steps # <<>> /\ This.do = "clear" /\ latched' = latched \ On(This) /\ GoOn
      /\ UNCHANGED <<board, responds, enabled, rate, point, seen, report, known>>
  BY DEF ClearThem, AtStep, fixed, On
<1>2. latched' \subseteq Registers
  BY <1>1 DEF HealthInv, Types, TypeOK
<1>3. /\ Types' /\ Asking' /\ call' = call /\ meanwhile' = meanwhile /\ since' = since
      /\ surely' = surely /\ monitored' = monitored
      /\ Cleared(steps) = On(This) \cup Cleared(steps)'
  BY <1>1, <1>2, GoesOn
<1>4. call.name \in {"clear", "clear_station"}
  BY <1>1, CallOf DEF HealthInv
<1>5. DOMAIN report' = {} /\ point' = 0
  BY <1>1, <1>4 DEF HealthInv, Asking
<1>6. /\ ToClear(call)' = ToClear(call) /\ Cleans(call)' = Cleans(call)
      /\ Forgotten' = Forgotten
  BY <1>1, <1>3, ToClearSame
<1>7. Monitoring'
  BY <1>1, <1>3, <1>4 DEF HealthInv, Monitoring
<1>8. Clearing'
  <2>1. /\ Cleared(steps) \subseteq Cleans(call) /\ Cleans(call) \subseteq ToClear(call)
        /\ responds => latched \cap Cleans(call) \subseteq meanwhile \cup Cleared(steps)
        /\ latched \ Forgotten \subseteq since /\ surely \ ToClear(call) \subseteq latched
    BY DEF HealthInv, Clearing, Cleans
  <2>2. Cleared(steps)' \subseteq Cleans(call) /\ On(This) \subseteq Cleans(call)
    BY <1>3, <2>1
  <2>3. responds => latched' \cap Cleans(call) \subseteq meanwhile \cup Cleared(steps)'
    BY <1>1, <1>3, <2>1
  <2>4. latched' \ Forgotten \subseteq since /\ surely \ ToClear(call) \subseteq latched'
    BY <1>1, <2>1, <2>2
  <2> QED  BY <1>1, <1>3, <1>6, <2>2, <2>3, <2>4 DEF Clearing
<1>9. Looking'
  BY <1>5 DEF Looking
<1>10. Reporting'
  BY <1>3, <1>4, <1>5 DEF Reporting
<1> QED  BY <1>3, <1>7, <1>8, <1>9, <1>10 DEF HealthInv

LEMMA EnableStepHolds == HealthInv /\ Enable /\ UNCHANGED <<fixed, rate, known>> => HealthInv'
<1> SUFFICES ASSUME HealthInv, Enable, UNCHANGED <<fixed, rate, known>> PROVE HealthInv'
  OBVIOUS
<1>1. /\ steps # <<>> /\ GoOn
      /\ \/ This.do = "enable" /\ enabled' = enabled \cup {This.fpga}
         \/ This.do = "disable" /\ enabled' = enabled \ {This.fpga}
      /\ UNCHANGED <<board, responds, latched, rate, point, seen, report, known>>
  BY DEF Enable, AtStep, fixed
<1>2. latched' \subseteq Registers
  BY <1>1 DEF HealthInv, Types, TypeOK
<1>3. /\ Types' /\ Asking' /\ steps' = Tail(steps) /\ call' = call /\ meanwhile' = meanwhile
      /\ since' = since /\ surely' = surely /\ monitored' = monitored
      /\ Cleared(steps)' = Cleared(steps)
  BY <1>1, <1>2, GoesOn
<1>4. /\ This.do = "enable" => call.name = "enable"
      /\ This.do = "disable" => call.name = "disable"
  BY <1>1, CallOf DEF HealthInv
<1>5. call.name \in {"enable", "disable"} /\ DOMAIN report' = {} /\ point' = 0
  BY <1>1, <1>4 DEF HealthInv, Asking
<1>6. /\ ToClear(call)' = ToClear(call) /\ Cleans(call)' = Cleans(call)
      /\ Forgotten' = Forgotten
  BY <1>1, <1>3, ToClearSame
<1>7. /\ Len(steps) \in Nat \ {0} /\ Len(steps') = Len(steps) - 1 /\ This = steps[1]
      /\ \A i \in 1 .. Len(steps) - 1 : steps'[i] = steps[i + 1]
  BY <1>1, <1>3, TailFacts DEF This, HealthInv, Types
<1>8. Monitoring'
  <2>1. monitored \subseteq enabled
    BY DEF HealthInv, Monitoring
  <2>2. CASE This.do = "enable"
    <3>1. call.name = "enable" /\ enabled' = enabled \cup {This.fpga}
      BY <1>1, <1>4, <2>2
    <3>2. ASSUME responds, NEW f \in {0, 1}, f \notin enabled'
          PROVE  \E i \in 1 .. Len(steps') : steps'[i].fpga = f
      <4>1. f \notin enabled /\ f # steps[1].fpga
        BY <1>7, <3>1, <3>2
      <4>2. PICK i \in 1 .. Len(steps) : steps[i].fpga = f
        BY <3>1, <3>2, <4>1 DEF HealthInv, Monitoring
      <4>3. i - 1 \in 1 .. Len(steps') /\ steps'[i - 1] = steps[i]
        BY <1>7, <4>1, <4>2
      <4> QED  BY <4>2, <4>3
    <3>3. monitored' \subseteq enabled'
      BY <1>3, <2>1, <3>1
    <3> QED  BY <1>1, <1>3, <3>1, <3>2, <3>3 DEF Monitoring
  <2>3. CASE This.do = "disable"
    <3>1. call.name = "disable" /\ enabled' = enabled \ {This.fpga}
      BY <1>1, <1>4, <2>3
    <3>2. call.fpga \notin monitored /\ \A i \in 1 .. Len(steps) : steps[i].fpga = call.fpga
      BY <3>1 DEF HealthInv, Monitoring
    <3>3. This.fpga = call.fpga
      BY <1>7, <3>2
    <3>4. monitored' \subseteq enabled'
      BY <1>3, <2>1, <3>1, <3>2, <3>3
    <3>5. \A i \in 1 .. Len(steps') : steps'[i].fpga = call.fpga
      <4> SUFFICES ASSUME NEW i \in 1 .. Len(steps') PROVE steps'[i].fpga = call.fpga
        OBVIOUS
      <4>1. i + 1 \in 1 .. Len(steps) /\ steps'[i] = steps[i + 1]
        BY <1>7
      <4> QED  BY <3>2, <4>1
    <3> QED  BY <1>3, <3>1, <3>2, <3>4, <3>5 DEF Monitoring
  <2> QED  BY <1>1, <2>2, <2>3
<1>9. Clearing'
  BY <1>1, <1>3, <1>6 DEF HealthInv, Clearing
<1>10. Looking'
  BY <1>5 DEF Looking
<1>11. Reporting'
  BY <1>3, <1>5 DEF Reporting
<1> QED  BY <1>3, <1>8, <1>9, <1>10, <1>11 DEF HealthInv

\* Only time goes by.
LEMMA WaitHolds ==
  ASSUME HealthInv, UNCHANGED <<board, responds, latched, enabled, rate, steps, todo, Kept, point,
                                seen, report, known>>
  PROVE  HealthInv'
<1>1. /\ board' = board /\ responds' = responds /\ latched' = latched /\ enabled' = enabled
      /\ rate' = rate /\ steps' = steps /\ todo' = todo /\ point' = point /\ seen' = seen
      /\ report' = report /\ known' = known /\ call' = call /\ outcome' = outcome
      /\ meanwhile' = meanwhile /\ since' = since /\ surely' = surely /\ monitored' = monitored
  BY DEF Kept
<1>2. /\ ToClear(call)' = ToClear(call) /\ Cleans(call)' = Cleans(call)
      /\ Untold' = Untold /\ Forgotten' = Forgotten
  BY <1>1, ToClearSame
<1>3. Types' /\ Asking' /\ Monitoring'
  BY <1>1 DEF HealthInv, Types, TypeOK, Asking, Monitoring
<1>4. Clearing' /\ Looking'
  BY <1>1, <1>2 DEF HealthInv, Clearing, Looking
<1>5. Reporting'
  <2>1. \A i, r : FoundAfter(i, r) => FoundAfter(i, r)'
    BY <1>1, <1>2 DEF FoundAfter
  <2> QED  BY <1>1, <1>2, <2>1 DEF HealthInv, Reporting
<1> QED  BY <1>3, <1>4, <1>5 DEF HealthInv

LEMMA InjectStepsHold ==
  HealthInv /\ (AskForError \/ AwaitInjected) /\ UNCHANGED <<fixed, rate, known>> => HealthInv'
<1> SUFFICES ASSUME HealthInv, AskForError \/ AwaitInjected, UNCHANGED <<fixed, rate, known>>
             PROVE  HealthInv'
  OBVIOUS
<1>1. /\ steps # <<>> /\ This.do \in {"inject", "await_injected"}
      /\ GoOn \/ UNCHANGED <<steps, todo, Kept>>
      /\ UNCHANGED <<board, responds, latched, enabled, rate, point, seen, report, known>>
  BY DEF AskForError, AwaitInjected, AtStep, fixed, hardware
<1>2. CASE GoOn
  BY <1>1, <1>2, PassHolds
<1>3. CASE UNCHANGED <<steps, todo, Kept>>
  BY <1>1, <1>3, WaitHolds
<1> QED  BY <1>1, <1>2, <1>3

LEMMA ReadTwiceHolds == HealthInv /\ ReadTwice /\ UNCHANGED <<fixed, rate, known>> => HealthInv'
<1> SUFFICES ASSUME HealthInv, ReadTwice, UNCHANGED <<fixed, rate, known>> PROVE HealthInv'
  OBVIOUS
<1>1. /\ steps # <<>> /\ This.do = "read_twice"
      /\ UNCHANGED <<board, responds, latched, enabled, rate, seen, known>>
  BY DEF ReadTwice, AtStep, fixed, hardware
<1>2. CASE GoOn /\ UNCHANGED <<point, report>>
  BY <1>1, <1>2, PassHolds
<1>3. CASE UNCHANGED <<steps, todo, Kept, point, report>>
  BY <1>1, <1>3, WaitHolds
<1>4. CASE Raise
  <2>1. call.name # "enable"
    BY <1>1, CallOf DEF HealthInv
  <2> QED  BY <1>1, <1>4, <2>1, RaiseHolds
<1> QED  BY <1>2, <1>3, <1>4 DEF ReadTwice

\* The next point is the first of those that are left.
LEMMA NextIsFirst ==
  ASSUME NEW points \in SUBSET all_monitoring_points, points # {}
  PROVE  NextPoint(points) \in points /\ \A j \in points : NextPoint(points) <= j
<1>1. points \subseteq Nat
  BY PointsAre
<1>2. PICK i \in points : \A j \in points : <<j, i>> \notin OpToRel(<, Nat)
  BY <1>1, NatLessThanWellFounded, WFMin
<1>3. \A j \in points : i <= j
  <2> SUFFICES ASSUME NEW j \in points PROVE i <= j
    OBVIOUS
  <2>1. i \in Nat /\ j \in Nat /\ <<j, i>> \notin OpToRel(<, Nat)
    BY <1>1, <1>2
  <2> QED  BY <2>1 DEF OpToRel
<1> QED  BY <1>3 DEF NextPoint

\* What was found at the last point is put down.
LEMMA PutHolds ==
  ASSUME HealthInv, call.name = "get", steps = <<>>, point # 0
  PROVE  /\ DOMAIN Put = DOMAIN report \cup {point} /\ DOMAIN Put \subseteq all_monitoring_points
         /\ \A i \in DOMAIN Put : i <= point
         /\ \A i \in DOMAIN Put :
              /\ Put[i] => ErrorsOf(Path(i)) \cap known \subseteq Untold
              /\ ~Put[i] => \E r \in ErrorsOf(Path(i)) \cap latched :
                   \A j \in DOMAIN Put : i < j /\ r \in ErrorsOf(Path(j)) \ Untold => ~Put[j]
<1>1. /\ point \in all_monitoring_points /\ DOMAIN report \subseteq all_monitoring_points
      /\ \A i \in DOMAIN report : i < point
  BY DEF HealthInv, Types, TypeOK, Asking
<1>2. /\ seen \subseteq ErrorsOf(Path(point)) \cap latched
      /\ (ErrorsOf(Path(point)) \cap known) \ Untold \subseteq seen
  BY NothingToDo DEF HealthInv, Looking
<1>3. \A i \in DOMAIN report :
        /\ report[i] => ErrorsOf(Path(i)) \cap known \subseteq Untold
        /\ ~report[i] => \E r \in ErrorsOf(Path(i)) \cap latched : FoundAfter(i, r)
  BY DEF HealthInv, Reporting
<1>4. /\ DOMAIN Put = DOMAIN report \cup {point}
      /\ Put[point] = (seen = {})
      /\ \A i \in DOMAIN report : Put[i] = report[i] /\ i # point
  <2>1. \A i \in DOMAIN report : i # point
    BY <1>1, PointsAre
  <2> QED  BY <2>1 DEF Put
<1>5. DOMAIN Put \subseteq Nat /\ point \in Nat /\ \A i \in DOMAIN Put : i <= point
  <2>1. DOMAIN Put = DOMAIN report \cup {point}
    BY <1>4
  <2> HIDE DEF Put
  <2>2. point \in Nat /\ DOMAIN report \subseteq Nat
    <3>1. all_monitoring_points \subseteq Nat
      BY PointsAre
    <3> QED  BY <1>1, <3>1, Zenon
  <2>3. ASSUME NEW i \in DOMAIN report \cup {point} PROVE i \in Nat /\ i <= point
    <3>1. i \in Nat /\ (i = point \/ i < point)
      BY <1>1, <2>2, Zenon
    <3> QED  BY <2>2, <3>1
  <2> QED  BY <2>1, <2>2, <2>3
<1>6. ASSUME NEW i \in DOMAIN Put, Put[i] PROVE ErrorsOf(Path(i)) \cap known \subseteq Untold
  <2>1. CASE i = point
    BY <1>2, <1>4, <1>6, <2>1
  <2>2. CASE i # point
    BY <1>3, <1>4, <1>6, <2>2
  <2> QED  BY <2>1, <2>2
<1>7. ASSUME NEW i \in DOMAIN Put, ~Put[i]
      PROVE  \E r \in ErrorsOf(Path(i)) \cap latched :
               \A j \in DOMAIN Put : i < j /\ r \in ErrorsOf(Path(j)) \ Untold => ~Put[j]
  <2>1. CASE i = point
    <3>1. PICK r \in seen : TRUE
      BY <1>4, <1>7, <2>1
    <3>2. r \in ErrorsOf(Path(i)) \cap latched
      BY <1>2, <2>1
    <3>3. \A j \in DOMAIN Put : ~(i < j)
      <4> HIDE DEF Put
      <4> QED  BY <1>5, <2>1
    <3> QED  BY <3>2, <3>3
  <2>2. CASE i # point
    <3>1. i \in DOMAIN report /\ ~report[i] /\ i < point
      BY <1>1, <1>4, <1>7, <2>2
    <3>2. PICK r \in ErrorsOf(Path(i)) \cap latched : FoundAfter(i, r)
      BY <1>3, <3>1
    <3>3. ASSUME NEW j \in DOMAIN Put, i < j, r \in ErrorsOf(Path(j)) \ Untold PROVE ~Put[j]
      <4>1. CASE j = point
        <5>1. r \in seen
          BY <3>1, <3>2, <3>3, <4>1, NothingToDo DEF FoundAfter
        <5> QED  BY <1>4, <4>1, <5>1
      <4>2. CASE j # point
        <5>1. j \in DOMAIN report /\ Put[j] = report[j]
          BY <1>4, <4>2
        <5> QED  BY <3>2, <3>3, <5>1 DEF FoundAfter
      <4> QED  BY <4>1, <4>2
    <3> QED  BY <3>2, <3>3
  <2> QED  BY <2>1, <2>2
<1> QED  BY <1>1, <1>4, <1>5, <1>6, <1>7

LEMMA CallMethodHolds == HealthInv /\ CallMethod /\ UNCHANGED <<fixed, rate, known>> => HealthInv'
<1> SUFFICES ASSUME HealthInv, CallMethod, UNCHANGED <<fixed, rate, known>> PROVE HealthInv'
  OBVIOUS
<1>1. /\ call.name = "get" /\ steps = <<>> /\ todo # {}
      /\ report' = IF point = 0 THEN report ELSE Put
      /\ point' = NextPoint(todo) /\ todo' = todo \ {point'}
      /\ steps' = Method(board.version, point') /\ seen' = {}
      /\ call' = call /\ outcome' = outcome /\ meanwhile' = meanwhile /\ since' = since
      /\ surely' = surely /\ monitored' = monitored /\ board' = board /\ responds' = responds
      /\ latched' = latched /\ enabled' = enabled /\ rate' = rate /\ known' = known
  BY DEF CallMethod, Kept, fixed, hardware
<1>2. /\ TypeOK /\ known \subseteq latched /\ latched \subseteq Registers
      /\ todo \subseteq all_monitoring_points /\ point \in all_monitoring_points \cup {0}
      /\ point = 0 => DOMAIN report = {}
      /\ \A i \in todo : point < i
  BY <1>1 DEF HealthInv, Types, TypeOK, Asking, Reporting
<1>3. /\ ToClear(call)' = ToClear(call) /\ Cleans(call)' = Cleans(call)
      /\ Untold' = Untold /\ Forgotten' = Forgotten
  BY <1>1, ToClearSame
<1>4. point' \in todo /\ \A j \in todo : point' <= j
  BY <1>1, <1>2, NextIsFirst
<1>5. PICK found \in SUBSET ErrorsOf(Path(point')) :
        /\ Looks(Method(board.version, point'), found)
        /\ (ErrorsOf(Path(point')) \cap Registers) \ Untold \subseteq found
  BY <1>2, <1>4, PointsTold DEF Told
<1>6. /\ steps' \in Seq(StepType) /\ Looked(steps)' = found
      /\ \A i \in 1 .. Len(steps') : steps'[i].do \in {"look", "needs", "read_twice"}
  BY <1>1, <1>5 DEF Looks, Does, Looked
<1>7. Cleared(steps)' = {} /\ Cleared(steps) = {}
  <2>1. \A i \in 1 .. Len(steps') : steps'[i].do # "clear"
    BY <1>6
  <2>2. Cleared(steps') = {}
    BY <2>1, ClearedNone
  <2> QED  BY <1>1, <2>2, NothingToDo
<1>8. point' \in Nat \ {0} /\ point \in Nat /\ point < point' /\ todo \subseteq Nat
  <2>1. all_monitoring_points \subseteq Nat
    BY PointsAre
  <2>2. todo \subseteq Nat /\ point \in Nat
    BY <1>2, <2>1
  <2> QED  BY <1>2, <1>4, <2>2
<1>9. DOMAIN report' \subseteq all_monitoring_points /\ \A i \in DOMAIN report' : i \in Nat /\ i < point'
  <2>1. CASE point = 0
    BY <1>1, <1>2, <2>1
  <2>2. CASE point # 0
    <3>1. DOMAIN Put \subseteq all_monitoring_points /\ \A i \in DOMAIN Put : i <= point
      BY <1>1, <2>2, PutHolds
    <3> HIDE DEF Put
    <3>2. all_monitoring_points \subseteq Nat
      BY PointsAre
    <3>3. \A i \in DOMAIN Put : i \in Nat /\ i < point'
      <4> SUFFICES ASSUME NEW i \in DOMAIN Put PROVE i \in Nat /\ i < point'
        OBVIOUS
      <4>1. i \in Nat /\ i <= point
        BY <3>1, <3>2
      <4> QED  BY <1>8, <4>1
    <3> QED  BY <1>1, <2>2, <3>1, <3>3
  <2> QED  BY <2>1, <2>2
<1>10. Types'
  <2>1. TypeOK'
    BY <1>1, <1>2, <1>9 DEF TypeOK
  <2>2. "get" \in DOMAIN Doings /\ Doings["get"] = {"look", "needs", "read_twice"}
    BY DEF Doings
  <2> QED  BY <1>1, <1>2, <1>4, <1>6, <2>1, <2>2 DEF Types
<1>11. Asking'
  <2>1. \A i \in todo' : point' < i
    BY <1>1, <1>4, <1>8
  <2> QED  BY <1>1, <1>8, <1>9, <2>1 DEF Asking
<1>12. Monitoring'
  BY <1>1 DEF HealthInv, Monitoring
<1>13. Clearing'
  BY <1>1, <1>3, <1>7 DEF HealthInv, Clearing
<1>14. Looking'
  <2>1. seen' \subseteq ErrorsOf(Path(point')) \cap latched /\ found \subseteq ErrorsOf(Path(point'))
    BY <1>1
  <2>2. (ErrorsOf(Path(point')) \cap known) \ Untold \subseteq found
    BY <1>2, <1>5
  <2> QED  BY <1>1, <1>3, <1>6, <2>1, <2>2 DEF Looking
<1>15. Reporting'
  <2>1. CASE point = 0
    BY <1>1, <1>2, <2>1 DEF Reporting
  <2>2. CASE point # 0
    <3>1. report' = Put
      BY <1>1, <2>2
    <3>2. \A i \in DOMAIN Put :
            /\ Put[i] => ErrorsOf(Path(i)) \cap known \subseteq Untold
            /\ ~Put[i] => \E r \in ErrorsOf(Path(i)) \cap latched :
                 \A j \in DOMAIN Put : i < j /\ r \in ErrorsOf(Path(j)) \ Untold => ~Put[j]
      BY <1>1, <2>2, PutHolds
    <3> HIDE DEF Put
    <3>3. \A r \in latched : r \in ErrorsOf(Path(point')) \ Untold => r \in Looked(steps)'
      BY <1>2, <1>5, <1>6
    <3>4. \A i \in DOMAIN report' :
            ~report'[i] => \E r \in ErrorsOf(Path(i)) \cap latched' : FoundAfter(i, r)'
      <4> SUFFICES ASSUME NEW i \in DOMAIN Put, ~Put[i]
                   PROVE  \E r \in ErrorsOf(Path(i)) \cap latched : FoundAfter(i, r)'
        BY <1>1, <3>1
      <4>1. PICK r \in ErrorsOf(Path(i)) \cap latched :
              \A j \in DOMAIN Put : i < j /\ r \in ErrorsOf(Path(j)) \ Untold => ~Put[j]
        BY <3>2
      <4>2. FoundAfter(i, r)'
        BY <1>3, <3>1, <3>3, <4>1 DEF FoundAfter
      <4> QED  BY <4>2
    <3>5. \A i \in DOMAIN report' : report'[i] => ErrorsOf(Path(i)) \cap known' \subseteq Untold'
      BY <1>1, <1>3, <3>1, <3>2
    <3> QED  BY <1>1, <1>2, <3>4, <3>5 DEF Reporting
  <2> QED  BY <2>1, <2>2
<1> QED  BY <1>10, <1>11, <1>12, <1>13, <1>14, <1>15 DEF HealthInv

LEMMA ReturnHolds == HealthInv /\ Return /\ UNCHANGED <<fixed, rate, known>> => HealthInv'
<1> SUFFICES ASSUME HealthInv, Return, UNCHANGED <<fixed, rate, known>> PROVE HealthInv'
  OBVIOUS
<1>1. /\ steps = <<>> /\ Done("returned") /\ point' = 0
      /\ report' = IF point = 0 THEN report ELSE Put
      /\ UNCHANGED <<board, responds, latched, enabled, rate, known>>
  BY DEF Return, fixed, hardware
<1>2. call'.name = "idle"
  BY <1>1 DEF Done, Idle
<1>3. Untold' = Untold
  BY <1>1, UntoldSame
<1>4. CASE point # 0
  <2>1. call.name = "get"
    BY <1>4 DEF HealthInv, Asking
  <2>2. /\ DOMAIN Put \subseteq all_monitoring_points
        /\ \A i \in DOMAIN Put :
             /\ Put[i] => ErrorsOf(Path(i)) \cap known \subseteq Untold
             /\ ~Put[i] => \E r \in ErrorsOf(Path(i)) \cap latched :
                  \A j \in DOMAIN Put : i < j /\ r \in ErrorsOf(Path(j)) \ Untold => ~Put[j]
    BY <1>1, <1>4, <2>1, PutHolds
  <2>3. report' = Put
    BY <1>1, <1>4
  <2> HIDE DEF Put
  <2>4. DOMAIN Put \subseteq Nat
    BY <2>2, PointsAre
  <2>5. \A i \in DOMAIN report' :
          ~report'[i] => \E r \in ErrorsOf(Path(i)) \cap latched' : FoundAfter(i, r)'
    <3> SUFFICES ASSUME NEW i \in DOMAIN Put, ~Put[i]
                 PROVE  \E r \in ErrorsOf(Path(i)) \cap latched : FoundAfter(i, r)'
      BY <1>1, <2>3
    <3>1. PICK r \in ErrorsOf(Path(i)) \cap latched :
            \A j \in DOMAIN Put : i < j /\ r \in ErrorsOf(Path(j)) \ Untold => ~Put[j]
      BY <2>2
    <3>2. ~(i < 0)
      BY <2>4
    <3>3. FoundAfter(i, r)'
      BY <1>1, <1>3, <2>3, <3>1, <3>2 DEF FoundAfter
    <3> QED  BY <3>3
  <2>6. \A i \in DOMAIN report' : report'[i] => ErrorsOf(Path(i)) \cap known' \subseteq Untold'
    BY <1>1, <1>3, <2>2, <2>3
  <2>7. Reporting'
    BY <1>2, <2>5, <2>6 DEF Reporting
  <2>8. DOMAIN report' \subseteq all_monitoring_points
    BY <2>2, <2>3
  <2> QED  BY <1>1, <2>7, <2>8, DoneHolds
<1>5. CASE point = 0
  <2>1. report' = report
    BY <1>1, <1>5
  <2>2. DOMAIN report' \subseteq all_monitoring_points
    BY <2>1 DEF HealthInv, Types, TypeOK
  <2>3. Reporting'
    <3>1. \A i \in DOMAIN report : ~(i < 0)
      <4>1. DOMAIN report \subseteq 1 .. 43
        BY PointsAre DEF HealthInv, Types, TypeOK
      <4> QED  BY <4>1
    <3>2. \A i \in DOMAIN report : \A r : FoundAfter(i, r) => FoundAfter(i, r)'
      BY <1>1, <1>3, <2>1, <3>1 DEF FoundAfter
    <3>3. \A i \in DOMAIN report' :
            ~report'[i] => \E r \in ErrorsOf(Path(i)) \cap latched' : FoundAfter(i, r)'
      BY <1>1, <2>1, <3>2 DEF HealthInv, Reporting
    <3>4. \A i \in DOMAIN report' : report'[i] => ErrorsOf(Path(i)) \cap known' \subseteq Untold'
      BY <1>1, <1>3, <2>1 DEF HealthInv, Reporting
    <3> QED  BY <1>2, <3>3, <3>4 DEF Reporting
  <2> QED  BY <1>1, <2>2, <2>3, DoneHolds
<1> QED  BY <1>4, <1>5
-----------------------------------------------------------------------------
(* Errors                                                                   *)

\* They may come between any two steps.
LEMMA LatchHolds ==
  ASSUME HealthInv, NEW r \in Registers, Latch(r),
         UNCHANGED <<board, responds, enabled, rate, call, steps, todo, point, seen, report, outcome,
                     known, monitored>>
  PROVE  HealthInv'
<1>1. /\ latched' = IF r[1] = "clock" /\ r[2] \notin enabled THEN latched ELSE latched \cup {r}
      /\ meanwhile' = meanwhile \cup {r} /\ since' = since \cup {r}
      /\ surely' = IF r[1] = "clock" /\ r[2] \notin monitored THEN surely ELSE surely \cup {r}
  BY DEF Latch
<1>2. /\ ToClear(call)' = ToClear(call) /\ Cleans(call)' = Cleans(call)
      /\ Untold' = Untold /\ Forgotten' = Forgotten
  BY ToClearSame
<1>3. Looked(steps)' = Looked(steps) /\ Cleared(steps)' = Cleared(steps)
  OBVIOUS
<1>4. latched \subseteq latched' /\ latched' \subseteq latched \cup {r}
  BY <1>1
<1>5. Types'
  <2>1. TypeOK'
    BY <1>4 DEF HealthInv, Types, TypeOK
  <2> QED  BY <2>1 DEF HealthInv, Types
<1>6. Asking' /\ Monitoring'
  BY DEF HealthInv, Asking, Monitoring
<1>7. Clearing'
  <2>1. /\ Cleared(steps) \subseteq Cleans(call) /\ Cleans(call) \subseteq ToClear(call)
        /\ responds => latched \cap Cleans(call) \subseteq meanwhile \cup Cleared(steps)
        /\ latched \ Forgotten \subseteq since /\ surely \ ToClear(call) \subseteq latched
        /\ monitored \subseteq enabled
    BY DEF HealthInv, Clearing, Monitoring, Cleans
  <2>2. responds => latched' \cap Cleans(call) \subseteq meanwhile' \cup Cleared(steps)
    BY <1>1, <1>4, <2>1
  <2>3. latched' \ Forgotten \subseteq since'
    BY <1>1, <1>4, <2>1
  <2>4. surely' \ ToClear(call) \subseteq latched'
    BY <1>1, <1>4, <2>1
  <2> QED  BY <1>2, <1>3, <2>1, <2>2, <2>3, <2>4 DEF Clearing
<1>8. Looking'
  BY <1>2, <1>3, <1>4 DEF HealthInv, Looking
<1>9. Reporting'
  <2>1. \A i, q : FoundAfter(i, q) => FoundAfter(i, q)'
    BY <1>2, <1>3 DEF FoundAfter
  <2>2. /\ call.name = "get" => known \subseteq latched
        /\ \A i \in DOMAIN report :
             /\ report[i] => ErrorsOf(Path(i)) \cap known \subseteq Untold
             /\ ~report[i] => \E q \in ErrorsOf(Path(i)) \cap latched : FoundAfter(i, q)
    BY DEF HealthInv, Reporting
  <2>3. \A i \in DOMAIN report :
          ~report[i] => \E q \in ErrorsOf(Path(i)) \cap latched' : FoundAfter(i, q)'
    BY <1>4, <2>1, <2>2
  <2> QED  BY <1>2, <1>4, <2>2, <2>3 DEF Reporting
<1> QED  BY <1>5, <1>6, <1>7, <1>8, <1>9 DEF HealthInv

LEMMA ErrorHolds == \A r \in Watched : HealthInv /\ Error(r) => HealthInv'
<1> SUFFICES ASSUME NEW r \in Watched, HealthInv, Error(r) PROVE HealthInv'
  OBVIOUS
<1>1. /\ r \in Registers /\ Latch(r)
      /\ UNCHANGED <<board, responds, enabled, rate, call, steps, todo, point, seen, report, outcome,
                     known, monitored>>
  BY DEF Error, fixed, client
<1> QED  BY <1>1, LatchHolds

LEMMA InjectHolds == \A f \in Fpgas : HealthInv /\ Inject(f) => HealthInv'
<1> SUFFICES ASSUME NEW f \in Fpgas, HealthInv, Inject(f) PROVE HealthInv'
  OBVIOUS
<1>1. f \in {0, 1}
  OBVIOUS
<1>2. <<"ddr_parity", f>> \in Registers
  BY <1>1 DEF Registers, OfFpgas, StationErrors
<1>3. /\ Latch(<<"ddr_parity", f>>)
      /\ UNCHANGED <<board, responds, enabled, rate, call, steps, todo, point, seen, report, outcome,
                     known, monitored>>
  BY DEF Inject, fixed, client
<1> QED  BY <1>2, <1>3, LatchHolds
-----------------------------------------------------------------------------
(* The theorems                                                             *)

LEMMA RefusedHolds == HealthInv /\ CallRefused => HealthInv'
<1> SUFFICES ASSUME HealthInv, CallRefused PROVE HealthInv'
  OBVIOUS
<1>1. /\ call = Idle /\ report' = <<>> /\ outcome' = "raised"
      /\ UNCHANGED <<board, responds, latched, enabled, rate, call, steps, todo, point, seen,
                     meanwhile, since, surely, known, monitored>>
  BY DEF CallRefused, fixed, hardware, ghosts
<1>2. /\ ToClear(call)' = ToClear(call) /\ Cleans(call)' = Cleans(call)
      /\ Untold' = Untold /\ Forgotten' = Forgotten
  BY <1>1, ToClearSame
<1>3. DOMAIN report' = {}
  BY <1>1, NoReport
<1>4. call.name # "get"
  BY <1>1 DEF Idle
<1>5. Types'
  <2>1. TypeOK'
    BY <1>1, <1>3 DEF HealthInv, Types, TypeOK
  <2> QED  BY <1>1, <2>1 DEF HealthInv, Types
<1>6. Asking' /\ Monitoring'
  BY <1>1, <1>3, <1>4 DEF HealthInv, Asking, Monitoring
<1>7. Clearing'
  BY <1>1, <1>2 DEF HealthInv, Clearing
<1>8. Looking'
  BY <1>1, <1>4 DEF HealthInv, Asking, Looking
<1>9. Reporting'
  BY <1>1, <1>3, <1>4 DEF Reporting
<1> QED  BY <1>5, <1>6, <1>7, <1>8, <1>9 DEF HealthInv

LEMMA NextHolds == HealthInv /\ [Next]_vars => HealthInv'
<1> SUFFICES ASSUME HealthInv, [Next]_vars PROVE HealthInv'
  OBVIOUS
<1>1. CASE EnableHealthMonitoring \/ ClearHealthStatus \/ CallRefused
  BY <1>1, EnableHolds, ClearHolds, RefusedHolds
<1>2. CASE \E f \in Fpgas :
             \/ ClearStationBeamformerStatus(f) \/ DisableClockMonitoring(f)
             \/ InjectDdrParityError(f) \/ Inject(f)
  BY <1>2, ClearStationHolds, DisableHolds, InjectDdrHolds, InjectHolds
<1>3. CASE \E path \in Paths, override \in BOOLEAN : SetMonitoringPointAttr(path, override)
  BY <1>3, SetHolds
<1>4. CASE \E asked \in Asked : GetHealthStatus(asked)
  BY <1>4, GetHolds
<1>5. CASE \E r \in Watched : Error(r)
  BY <1>5, ErrorHolds
<1>6. CASE Step
  <2>1. UNCHANGED <<fixed, rate, known>>
    BY <1>6 DEF Step
  <2>2. CASE Need
    BY <2>1, <2>2, NeedHolds
  <2>3. CASE CallMethod
    BY <2>1, <2>3, CallMethodHolds
  <2>4. CASE LookAt
    BY <2>1, <2>4, LookHolds
  <2>5. CASE ClearThem
    BY <2>1, <2>5, ClearThemHolds
  <2>6. CASE Enable
    BY <2>1, <2>6, EnableStepHolds
  <2>7. CASE AskForError \/ AwaitInjected
    BY <2>1, <2>7, InjectStepsHold
  <2>8. CASE ReadTwice
    BY <2>1, <2>8, ReadTwiceHolds
  <2>9. CASE Return
    BY <2>1, <2>9, ReturnHolds
  <2> QED  BY <1>6, <2>2, <2>3, <2>4, <2>5, <2>6, <2>7, <2>8, <2>9 DEF Step
<1>7. CASE UNCHANGED vars
  <2>1. UNCHANGED <<board, responds, latched, enabled, rate, steps, todo, Kept, point, seen, report,
                    known>>
    BY <1>7 DEF vars, fixed, hardware, client, ghosts, Kept
  <2> QED  BY <2>1, WaitHolds
<1> QED  BY <1>1, <1>2, <1>3, <1>4, <1>5, <1>6, <1>7 DEF Next

\* What is known of a call that goes on, and of the report, in every state.
THEOREM HealthInvariant == Spec => []HealthInv
BY InitHolds, NextHolds, PTL DEF Spec

THEOREM TypeCorrect == Spec => []TypeOK
<1>1. HealthInv => TypeOK
  BY DEF HealthInv, Types
<1> QED  BY <1>1, HealthInvariant, PTL

\* A report tells of every error that there was since the last call to clear it ended, and
\* before the one to look at it began; and of none that was cleared, but for the points of TPM
\* 1.6 whose errors clear_health_status forgets (the locks of the ADCs, and hard errors between
\* FPGAs).
THEOREM ReportsAreOfNow == Spec => []ReportIsOfNow
<1>1. HealthInv => ReportIsOfNow
  <2> SUFFICES ASSUME HealthInv, NEW i \in DOMAIN report
               PROVE  /\ (ErrorsOf(Path(i)) \cap known) \ Untold # {} => ~report[i]
                      /\ ~report[i] => \/ ErrorsOf(Path(i)) \cap Forgotten # {}
                                       \/ ErrorsOf(Path(i)) \cap since # {}
    BY DEF ReportIsOfNow
  <2>1. /\ report[i] => ErrorsOf(Path(i)) \cap known \subseteq Untold
        /\ ~report[i] => \E r \in ErrorsOf(Path(i)) \cap latched : FoundAfter(i, r)
        /\ latched \ Forgotten \subseteq since
    BY DEF HealthInv, Reporting, Clearing
  <2> QED  BY <2>1
<1> QED  BY <1>1, HealthInvariant, PTL

\* Is this the name of a point?
Named(i, g, n) == Len(Path(i)) > 2 /\ Path(i)[2] = g /\ Path(i)[3] = n

LEMMA NamedOne ==
  ASSUME NEW i, NEW a, Path(i) = <<a>>, NEW g, NEW n
  PROVE  ~Named(i, g, n)
  BY DEF Named

LEMMA NamedTwo ==
  ASSUME NEW i, NEW a, NEW b, Path(i) = <<a, b>>, NEW g, NEW n
  PROVE  ~Named(i, g, n)
  BY DEF Named

LEMMA NamedThree ==
  ASSUME NEW i, NEW a, NEW b, NEW c, Path(i) = <<a, b, c>>, NEW g, NEW n
  PROVE  Named(i, g, n) <=> g = b /\ n = c
  BY DEF Named

LEMMA NamedFour ==
  ASSUME NEW i, NEW a, NEW b, NEW c, NEW d, Path(i) = <<a, b, c, d>>, NEW g, NEW n
  PROVE  Named(i, g, n) <=> g = b /\ n = c
  BY DEF Named

LEMMA Names ==
  ASSUME NEW g, NEW n
  PROVE  /\ ~Named(1, g, n)
         /\ ~Named(2, g, n)
         /\ ~Named(3, g, n)
         /\ ~Named(4, g, n)
         /\ ~Named(5, g, n)
         /\ ~Named(6, g, n)
         /\ Named(7, g, n) <=> g = "pll_status" /\ n = "ADC1"
         /\ Named(8, g, n) <=> g = "pll_status" /\ n = "ADC10"
         /\ Named(9, g, n) <=> g = "sysref_timing_requirements" /\ n = "ADC1"
         /\ Named(10, g, n) <=> g = "sysref_counter" /\ n = "ADC1"
         /\ Named(11, g, n) <=> g = "clocks" /\ n = "FPGA0"
         /\ Named(12, g, n) <=> g = "clocks" /\ n = "FPGA1"
         /\ Named(13, g, n) <=> g = "clock_managers" /\ n = "FPGA0"
         /\ Named(14, g, n) <=> g = "clock_managers" /\ n = "FPGA1"
         /\ Named(15, g, n) <=> g = "pps" /\ n = "status"
         /\ ~Named(16, g, n)
         /\ Named(17, g, n) <=> g = "jesd_interface" /\ n = "link_status"
         /\ Named(18, g, n) <=> g = "jesd_interface" /\ n = "lane_error_count"
         /\ Named(19, g, n) <=> g = "jesd_interface" /\ n = "lane_error_count"
         /\ Named(20, g, n) <=> g = "jesd_interface" /\ n = "lane_status"
         /\ Named(21, g, n) <=> g = "jesd_interface" /\ n = "resync_count"
         /\ Named(22, g, n) <=> g = "jesd_interface" /\ n = "resync_count"
         /\ Named(23, g, n) <=> g = "jesd_interface" /\ n = "qpll_status"
         /\ Named(24, g, n) <=> g = "jesd_interface" /\ n = "qpll_status"
         /\ Named(25, g, n) <=> g = "ddr_interface" /\ n = "initialisation"
         /\ Named(26, g, n) <=> g = "ddr_interface" /\ n = "reset_counter"
         /\ Named(27, g, n) <=> g = "ddr_interface" /\ n = "reset_counter"
         /\ Named(28, g, n) <=> g = "f2f_interface" /\ n = "pll_status"
         /\ Named(29, g, n) <=> g = "f2f_interface" /\ n = "soft_error"
         /\ Named(30, g, n) <=> g = "f2f_interface" /\ n = "hard_error"
         /\ Named(31, g, n) <=> g = "udp_interface" /\ n = "arp"
         /\ Named(32, g, n) <=> g = "udp_interface" /\ n = "status"
         /\ Named(33, g, n) <=> g = "udp_interface" /\ n = "crc_error_count"
         /\ Named(34, g, n) <=> g = "udp_interface" /\ n = "crc_error_count"
         /\ Named(35, g, n) <=> g = "udp_interface" /\ n = "bip_error_count"
         /\ Named(36, g, n) <=> g = "udp_interface" /\ n = "bip_error_count"
         /\ Named(37, g, n) <=> g = "udp_interface" /\ n = "decode_error_count"
         /\ Named(38, g, n) <=> g = "udp_interface" /\ n = "decode_error_count"
         /\ Named(39, g, n) <=> g = "udp_interface" /\ n = "linkup_loss_count"
         /\ Named(40, g, n) <=> g = "udp_interface" /\ n = "linkup_loss_count"
         /\ ~Named(41, g, n)
         /\ Named(42, g, n) <=> g = "station_beamf" /\ n = "status"
         /\ Named(43, g, n) <=> g = "station_beamf" /\ n = "ddr_parity_error_count"
<1>1. /\ ~Named(1, g, n)
      /\ ~Named(2, g, n)
      /\ ~Named(3, g, n)
      /\ ~Named(4, g, n)
      /\ ~Named(5, g, n)
      /\ ~Named(6, g, n)
  BY PathsAre, NamedOne, NamedTwo, NamedThree, NamedFour
<1>2. /\ Named(7, g, n) <=> g = "pll_status" /\ n = "ADC1"
      /\ Named(8, g, n) <=> g = "pll_status" /\ n = "ADC10"
      /\ Named(9, g, n) <=> g = "sysref_timing_requirements" /\ n = "ADC1"
      /\ Named(10, g, n) <=> g = "sysref_counter" /\ n = "ADC1"
      /\ Named(11, g, n) <=> g = "clocks" /\ n = "FPGA0"
      /\ Named(12, g, n) <=> g = "clocks" /\ n = "FPGA1"
  BY PathsAre, NamedOne, NamedTwo, NamedThree, NamedFour
<1>3. /\ Named(13, g, n) <=> g = "clock_managers" /\ n = "FPGA0"
      /\ Named(14, g, n) <=> g = "clock_managers" /\ n = "FPGA1"
      /\ Named(15, g, n) <=> g = "pps" /\ n = "status"
      /\ ~Named(16, g, n)
      /\ Named(17, g, n) <=> g = "jesd_interface" /\ n = "link_status"
      /\ Named(18, g, n) <=> g = "jesd_interface" /\ n = "lane_error_count"
  BY PathsAre, NamedOne, NamedTwo, NamedThree, NamedFour
<1>4. /\ Named(19, g, n) <=> g = "jesd_interface" /\ n = "lane_error_count"
      /\ Named(20, g, n) <=> g = "jesd_interface" /\ n = "lane_status"
      /\ Named(21, g, n) <=> g = "jesd_interface" /\ n = "resync_count"
      /\ Named(22, g, n) <=> g = "jesd_interface" /\ n = "resync_count"
      /\ Named(23, g, n) <=> g = "jesd_interface" /\ n = "qpll_status"
      /\ Named(24, g, n) <=> g = "jesd_interface" /\ n = "qpll_status"
  BY PathsAre, NamedOne, NamedTwo, NamedThree, NamedFour
<1>5. /\ Named(25, g, n) <=> g = "ddr_interface" /\ n = "initialisation"
      /\ Named(26, g, n) <=> g = "ddr_interface" /\ n = "reset_counter"
      /\ Named(27, g, n) <=> g = "ddr_interface" /\ n = "reset_counter"
      /\ Named(28, g, n) <=> g = "f2f_interface" /\ n = "pll_status"
      /\ Named(29, g, n) <=> g = "f2f_interface" /\ n = "soft_error"
      /\ Named(30, g, n) <=> g = "f2f_interface" /\ n = "hard_error"
  BY PathsAre, NamedOne, NamedTwo, NamedThree, NamedFour
<1>6. /\ Named(31, g, n) <=> g = "udp_interface" /\ n = "arp"
      /\ Named(32, g, n) <=> g = "udp_interface" /\ n = "status"
      /\ Named(33, g, n) <=> g = "udp_interface" /\ n = "crc_error_count"
      /\ Named(34, g, n) <=> g = "udp_interface" /\ n = "crc_error_count"
      /\ Named(35, g, n) <=> g = "udp_interface" /\ n = "bip_error_count"
      /\ Named(36, g, n) <=> g = "udp_interface" /\ n = "bip_error_count"
  BY PathsAre, NamedOne, NamedTwo, NamedThree, NamedFour
<1>7. /\ Named(37, g, n) <=> g = "udp_interface" /\ n = "decode_error_count"
      /\ Named(38, g, n) <=> g = "udp_interface" /\ n = "decode_error_count"
      /\ Named(39, g, n) <=> g = "udp_interface" /\ n = "linkup_loss_count"
      /\ Named(40, g, n) <=> g = "udp_interface" /\ n = "linkup_loss_count"
      /\ ~Named(41, g, n)
      /\ Named(42, g, n) <=> g = "station_beamf" /\ n = "status"
  BY PathsAre, NamedOne, NamedTwo, NamedThree, NamedFour
<1>8. /\ Named(43, g, n) <=> g = "station_beamf" /\ n = "ddr_parity_error_count"
  BY PathsAre, NamedOne, NamedTwo, NamedThree, NamedFour
<1> QED  BY <1>1, <1>2, <1>3, <1>4, <1>5, <1>6, <1>7, <1>8

\* The points with a name, by their numbers
LEMMA PointsNamed ==
  /\ Points("jesd_interface", "lane_error_count") = {18, 19}
  /\ Points("jesd_interface", "lane_status") = {20}
  /\ Points("udp_interface", "status") = {32}
  /\ Points("udp_interface", "crc_error_count") = {33, 34}
  /\ Points("udp_interface", "bip_error_count") = {35, 36}
  /\ Points("udp_interface", "decode_error_count") = {37, 38}
  /\ Points("udp_interface", "linkup_loss_count") = {39, 40}
<1>1. \A g, n, i : i \in Points(g, n) <=> i \in 1 .. 43 /\ Named(i, g, n)
  BY PointsAre DEF Points, Named
<1>2. \A i : i \in Points("jesd_interface", "lane_error_count") <=> i \in {18, 19}
  BY <1>1, Names
<1>3. \A i : i \in Points("jesd_interface", "lane_status") <=> i \in {20}
  BY <1>1, Names
<1>4. \A i : i \in Points("udp_interface", "status") <=> i \in {32}
  BY <1>1, Names
<1>5. \A i : i \in Points("udp_interface", "crc_error_count") <=> i \in {33, 34}
  BY <1>1, Names
<1>6. \A i : i \in Points("udp_interface", "bip_error_count") <=> i \in {35, 36}
  BY <1>1, Names
<1>7. \A i : i \in Points("udp_interface", "decode_error_count") <=> i \in {37, 38}
  BY <1>1, Names
<1>8. \A i : i \in Points("udp_interface", "linkup_loss_count") <=> i \in {39, 40}
  BY <1>1, Names
<1> QED  BY <1>2, <1>3, <1>4, <1>5, <1>6, <1>7, <1>8, Zenon

\* A report does not contradict itself: check_jesd_lane_status does not say that all is well of
\* lanes whose errors were counted before, and the counts tell of what check_udp_status found.
THEOREM ReportsAreConsistent == Spec => []ReportIsConsistent
<1>1. /\ ErrorsOf(<<"io", "jesd_interface", "lane_error_count", "FPGA0">>) = {"jesd_lane"} \X {0}
      /\ ErrorsOf(<<"io", "jesd_interface", "lane_error_count", "FPGA1">>) = {"jesd_lane"} \X {1}
      /\ ErrorsOf(<<"io", "jesd_interface", "lane_status">>) = {"jesd_lane"} \X {0, 1}
      /\ ErrorsOf(<<"io", "udp_interface", "status">>) = EthErrors \X {0, 1}
      /\ ErrorsOf(<<"io", "udp_interface", "crc_error_count", "FPGA0">>) = {"udp_crc"} \X {0}
      /\ ErrorsOf(<<"io", "udp_interface", "crc_error_count", "FPGA1">>) = {"udp_crc"} \X {1}
      /\ ErrorsOf(<<"io", "udp_interface", "bip_error_count", "FPGA0">>) = {"udp_bip"} \X {0}
      /\ ErrorsOf(<<"io", "udp_interface", "bip_error_count", "FPGA1">>) = {"udp_bip"} \X {1}
      /\ ErrorsOf(<<"io", "udp_interface", "decode_error_count", "FPGA0">>) = {"udp_decode"} \X {0}
      /\ ErrorsOf(<<"io", "udp_interface", "decode_error_count", "FPGA1">>) = {"udp_decode"} \X {1}
      /\ ErrorsOf(<<"io", "udp_interface", "linkup_loss_count", "FPGA0">>) = {"udp_linkup"} \X {0}
      /\ ErrorsOf(<<"io", "udp_interface", "linkup_loss_count", "FPGA1">>) = {"udp_linkup"} \X {1}
  BY DEF ErrorsOf, KindsOf, FpgasOf, Last
<1>2. /\ ErrorsOf(Path(18)) = {"jesd_lane"} \X {0}
      /\ ErrorsOf(Path(19)) = {"jesd_lane"} \X {1}
      /\ ErrorsOf(Path(20)) = {"jesd_lane"} \X {0, 1}
      /\ ErrorsOf(Path(32)) = EthErrors \X {0, 1}
      /\ ErrorsOf(Path(33)) = {"udp_crc"} \X {0} /\ ErrorsOf(Path(34)) = {"udp_crc"} \X {1}
      /\ ErrorsOf(Path(35)) = {"udp_bip"} \X {0} /\ ErrorsOf(Path(36)) = {"udp_bip"} \X {1}
      /\ ErrorsOf(Path(37)) = {"udp_decode"} \X {0} /\ ErrorsOf(Path(38)) = {"udp_decode"} \X {1}
      /\ ErrorsOf(Path(39)) = {"udp_linkup"} \X {0} /\ ErrorsOf(Path(40)) = {"udp_linkup"} \X {1}
  BY <1>1, PathsAre
<1>3. \A r \in (EthErrors \cup {"jesd_lane"}) \X {0, 1} : r \notin Untold
  BY DEF Untold, EthErrors
<1>4. \A r \in EthErrors \X {0, 1} : \E j \in 33 .. 40 : r \in ErrorsOf(Path(j)) \ Untold
  <2> SUFFICES ASSUME NEW r \in EthErrors \X {0, 1}
               PROVE  \E j \in 33 .. 40 : r \in ErrorsOf(Path(j)) \ Untold
    OBVIOUS
  <2>1. PICK k \in EthErrors, f \in {0, 1} : r = <<k, f>>
    OBVIOUS
  <2>2. \E j \in 33 .. 40 : <<k, f>> \in ErrorsOf(Path(j))
    <3>1. 33 .. 40 = {33, 34, 35, 36, 37, 38, 39, 40}
      OBVIOUS
    <3>2. k \in {"udp_crc", "udp_bip", "udp_decode", "udp_linkup"}
      BY DEF EthErrors
    <3> QED  BY <1>2, <3>1, <3>2
  <2>3. r \notin Untold
    BY <1>3
  <2> QED  BY <2>1, <2>2, <2>3
<1>5. ASSUME HealthInv PROVE ReportIsConsistent
  <2>1. \A i \in DOMAIN report : ~report[i] => \E r \in ErrorsOf(Path(i)) : FoundAfter(i, r)
    BY <1>5 DEF HealthInv, Reporting
  <2>2. ASSUME NEW j \in {18, 19} \cap DOMAIN report, 20 \in DOMAIN report, report[20]
        PROVE  report[j]
    <3> SUFFICES ASSUME ~report[j] PROVE FALSE
      OBVIOUS
    <3>1. PICK r \in ErrorsOf(Path(j)) : FoundAfter(j, r)
      BY <2>1
    <3>2. r \in ErrorsOf(Path(20)) /\ j < 20
      BY <1>2
    <3>3. r \notin Untold
      BY <1>2, <1>3, <3>2
    <3> QED  BY <2>2, <3>1, <3>2, <3>3 DEF FoundAfter
  <2>3. ASSUME 32 \in DOMAIN report, ~report[32], 33 .. 40 \subseteq DOMAIN report
        PROVE  \E j \in 33 .. 40 : ~report[j]
    <3>1. PICK r \in ErrorsOf(Path(32)) : FoundAfter(32, r)
      BY <2>1, <2>3
    <3>2. PICK j \in 33 .. 40 : r \in ErrorsOf(Path(j)) \ Untold
      BY <1>2, <1>4
    <3>3. j \in DOMAIN report /\ 32 < j
      BY <2>3
    <3> QED  BY <3>1, <3>2, <3>3 DEF FoundAfter
  <2> DEFINE CountNames == {"crc_error_count", "bip_error_count", "decode_error_count", "linkup_loss_count"}
             Counts == UNION {Points("udp_interface", n) : n \in CountNames}
  <2>4. Counts = 33 .. 40
    <3>1. \A i : i \in Counts <=> \E n \in CountNames : i \in Points("udp_interface", n)
      OBVIOUS
    <3> HIDE DEF Counts
    <3>2. \A i : i \in Counts <=> i \in {33, 34} \cup {35, 36} \cup {37, 38} \cup {39, 40}
      BY <3>1, PointsNamed
    <3> QED  BY <3>2
  <2>5. \A i \in Points("jesd_interface", "lane_status") \cap DOMAIN report :
          report[i] => \A j \in Points("jesd_interface", "lane_error_count") \cap DOMAIN report : report[j]
    BY <2>2, PointsNamed
  <2>6. \A i \in Points("udp_interface", "status") \cap DOMAIN report :
          ~report[i] /\ Counts \subseteq DOMAIN report => \E j \in Counts : ~report[j]
    <3> HIDE DEF Counts
    <3> QED  BY <2>3, <2>4, PointsNamed
  <2> QED  BY <2>5, <2>6, Zenon DEF ReportIsConsistent
<1> QED  BY <1>5, HealthInvariant, PTL
=============================================================================
