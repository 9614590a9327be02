----------------------- MODULE StationBringUp_proofs ------------------------
(***************************************************************************)
(* Proofs about StationBringUp, for any number of tiles, any boards,       *)
(* configurations, delays and failures: the types of its state, and that a *)
(* station is formed of tiles that sample PPS at phases no further apart   *)
(* than is allowed.                                                        *)
(*                                                                         *)
(* What a process has to do is a sequence of steps; of it the proofs need  *)
(* which steps come in it, which come after which, and which come right    *)
(* before which (Comes, NoneAfter, Leads).  Connecting and Formation say   *)
(* so of the process that calls connect, before and after all tiles are    *)
(* connected; each is shown of what is put before the rest, and to stay    *)
(* when a step is taken.                                                   *)
(***************************************************************************)
EXTENDS StationBringUp, SequenceTheorems, FiniteSetTheorems, WellFoundedInduction, TLAPS

USE BringUpAssumption
-----------------------------------------------------------------------------
(* Steps                                                                    *)

PlugInNames ==
  {"tpm_test_firmware", "tpm_integrator", "tpm_10g_core", "tpm_f2f", "test_generator",
   "configure_40g_core_flyover_test", "beamf_fd", "station_beamf"}

\* kinds of steps, by what they are about
Plain == {"join", "form", "check_status", "check_start", "await_started", "bitfile", "lookup",
          "read_utc", "return_if_internal_pps", "end"}
AboutTile == {"instance", "write_cpld", "download", "needs_board", "needs_programmed", "set_id",
              "return_unless_programmed", "return_if_far", "await_pps", "check_arp", "initialised"}
AboutFpga == {"start_jesd", "start_ddr", "check_ddr", "hold_clock", "read_clock", "set_clock",
              "start_at"}

BringUpStep ==
  [do : Plain]
    \cup [do : AboutTile, tile : Tiles]
    \cup [do : AboutFpga, fpga : Fpgas]
    \cup [do : {"connect"}, tile : Tiles, plugins : BOOLEAN]
    \cup [do : {"needs"}, tile : Tiles, names : SUBSET PlugInNames]
    \cup [do : {"sampling"}, tile : Tiles, target : Int, margin : {MaxDelaySkew}]
    \cup [do : {"compare_two"}, tile : Tiles, attempt : Nat]
    \cup [do : {"compare_delays", "compare_all"}, attempt : Nat]
    \cup [do : {"map"}, of : {"program_cpld", "program", "initialise"}]

ConnectKinds == {"map", "join", "connect"}

FormKinds ==
  {"needs", "await_pps", "compare_delays", "sampling", "hold_clock", "read_clock", "set_clock",
   "compare_all", "check_arp", "start_at", "check_start", "await_started", "needs_programmed"}

EarlyKinds == {"return_if_internal_pps", "return_unless_programmed", "return_if_far"}

PoolTileKinds ==
  {"instance", "connect", "write_cpld", "download", "needs_board", "set_id",
   "return_unless_programmed", "return_if_far", "needs", "await_pps", "sampling", "compare_two",
   "initialised"}
PoolFpgaKinds == {"start_jesd", "start_ddr", "set_clock", "read_clock", "check_ddr"}
PoolPlainKinds == {"bitfile", "lookup", "return_if_internal_pps", "read_utc", "end"}

\* steps of these kinds
Kinds(D) == {x \in BringUpStep : x.do \in D}

\* steps of the process that brings up this tile
PoolSteps(t) ==
  {x \in BringUpStep :
     \/ x.do \in PoolPlainKinds
     \/ x.do \in PoolTileKinds /\ x.tile = t
     \/ x.do \in PoolFpgaKinds /\ x.fpga \in FpgasOf(t)}

Comes(s, X) == \E i \in 1 .. Len(s) : s[i] \in X

\* No step of Y comes after one of X.
NoneAfter(s, X, Y) ==
  \A i, j \in 1 .. Len(s) : i < j /\ s[i] \in X => s[j] \notin Y

\* After each step of X comes one of Y.
Leads(s, X, Y) ==
  \A i \in 1 .. Len(s) : s[i] \in X => \E j \in 1 .. Len(s) : i < j /\ s[j] \in Y

ReadOf(f) == {OfFpga("read_clock", f)}
SetOf(f) == {OfFpga("set_clock", f)}
StartOf(f) == {OfFpga("start_at", f)}
SamplingOf(t) == {x \in Kinds({"sampling"}) : x.tile = t}
SamplingTo(targets) == {x \in Kinds({"sampling"}) : x.target \in targets}
MapOf(kind) == {[do |-> "map", of |-> kind]}
-----------------------------------------------------------------------------
(* The invariant                                                            *)

Types ==
  /\ BringUpTypeOK
  /\ \A p \in Processes : \A a, b \in held[p] : a = b

\* The processes that are started are waited for.
Mapped(s) ==
  \A i \in 1 .. Len(s) : s[i] \in Kinds({"map"}) => i < Len(s) /\ s[i + 1] = Step("join")

OtherMaps == Kinds({"map"}) \ MapOf("initialise")

\* what there is to do up to the forming of the station
Connecting(s) ==
  /\ s # <<>> /\ s[Len(s)] = Step("form")
  /\ \A i \in 1 .. Len(s) - 1 : s[i] \in Kinds(ConnectKinds)
  /\ Mapped(s)
  /\ config.initialise => Leads(s, OtherMaps, MapOf("initialise"))

\* ... and then, for a station that is initialised, and in which order
InOrder(s) ==
  /\ NoneAfter(s, Kinds(FormKinds \ {"set_clock"}), Kinds({"set_clock"}))
  /\ NoneAfter(s, Kinds({"compare_all"}), Kinds({"compare_all", "read_clock"}))
  /\ NoneAfter(s, Kinds({"check_start"}), Kinds({"check_start"}))
  /\ NoneAfter(s, Kinds({"await_started"}), Kinds({"await_started", "compare_all"}))
  /\ \A f \in Fpgas : Leads(s, Kinds({"await_pps", "compare_delays"}), ReadOf(f))
  /\ \A f \in Fpgas : Leads(s, Kinds({"hold_clock", "compare_all"}), StartOf(f))
  /\ Leads(s, Kinds({"await_pps", "compare_delays", "compare_all", "set_clock"}), Kinds({"hold_clock"}))
  /\ Leads(s, Kinds({"hold_clock", "start_at"}), Kinds({"check_start"}))
  /\ Leads(s, Kinds({"check_start"}), Kinds({"await_started"}))

Formation(s) ==
  IF config.initialise
    THEN s \in Seq(Kinds(FormKinds)) /\ InOrder(s)
    ELSE s \in Seq(Kinds({"check_status"}))

\* The pool works while the station waits for it.
Control ==
  /\ steps \in [Processes -> Seq(BringUpStep)]
  /\ Connecting(steps[Caller]) \/ Formation(steps[Caller])
  /\ \A t \in Tiles :
       /\ steps[t] \in Seq(PoolSteps(t))
       /\ Leads(steps[t], Kinds(EarlyKinds), {Step("end")})
       /\ steps[t] # <<>> <=> result[t] = "running"
       /\ steps[t] # <<>> => IsAt(Caller, "join")
  /\ Connecting(steps[Caller]) => held[Caller] = {} /\ seen[Caller] = {}
  /\ outcome # "none" => steps[Caller] = <<>>

\* Is the station being formed, of tiles that were initialised?
Forming ==
  /\ config.initialise /\ properly_formed
  /\ outcome \in {"none", "returned"}
  /\ Formation(steps[Caller])

Near(t) == delay[t] - delay[1] \in -MaxDelaySkew .. MaxDelaySkew

\* Each delay is near that of the first tile, or will be brought there, or compared.
Phases ==
  /\ ~Comes(steps[Caller], SamplingTo(Int \ {delay[1]}))
  /\ Forming => \/ Comes(steps[Caller], Kinds({"compare_delays"}))
                \/ \A t \in Tiles : Near(t) \/ Comes(steps[Caller], SamplingOf(t))

\* what the process of a tile is to do, and in which order
Initialising(s) ==
  /\ s # <<>> => s[Len(s)] \in Kinds({"needs"}) /\ "tpm_integrator" \in s[Len(s)].names
  /\ ~Comes(s, Kinds({"download"}))
  /\ NoneAfter(s, Kinds({"end", "return_unless_programmed"}), Kinds({"connect", "instance"}))
  /\ NoneAfter(s, Kinds({"return_if_internal_pps"}), Kinds({"instance"}))
  /\ NoneAfter(s, Kinds({"connect"}), Kinds({"return_if_internal_pps"}))

Object(t) == tpm[<<t, t>>]

\* It is going to raise an exception, at its last step if not before.
Doomed(t) ==
  /\ ~Comes(steps[t], Kinds({"connect", "instance"}))
  /\ ~(Object(t).on /\ "tpm_integrator" \in Object(t).plugins)

\* Until the station is formed its clocks are those that the process set.
InTime(t) ==
  slips = 0 /\ Connecting(steps[Caller]) => \A f \in FpgasOf(t) : clock[f] = 0 \/ Comes(steps[t], SetOf(f))

\* It is going to initialise the tile, or has done so.
Going(t) ==
  /\ initialised[t] \/ Comes(steps[t], Kinds({"initialised"}))
  /\ programmed[t] \/ Comes(steps[t], Kinds({"return_unless_programmed"}))
  /\ InTime(t)

Objects(t) ==
  Comes(steps[t], Kinds({"instance"})) \/
    /\ Object(t).plugins # {} => programmed[t]
    /\ Comes(steps[t], Kinds({"return_if_internal_pps"})) => ~Object(t).on

Prepared(t) ==
  /\ result[t] = "running" => Initialising(steps[t]) /\ Objects(t) /\ (Doomed(t) \/ Going(t))
  /\ result[t] = "ok" => Going(t)
  /\ result[t] \notin {"running", "ok"} => Comes(steps[Caller], Kinds({"join"}))

TilesPrepared ==
  config.initialise /\ properly_formed /\ outcome \in {"none", "returned"}
    /\ ~Comes(steps[Caller], MapOf("initialise")) => \A t \in Tiles : Prepared(t)

\* As long as no second has passed at a bad moment, a process uses the right time.
Current == slips = 0 => \A t \in Tiles : Waits(t) \/ held[t] \subseteq {0}

Together(c) == \A f, g \in Fpgas : c[f] = c[g]

Comparing(s) == Comes(s, Kinds({"compare_all"}))
Setting(s) == Comes(s, Kinds({"set_clock"}))
Awaits(s) == s # <<>> /\ Head(s).do \in {"await_pps", "await_started"}

\* Of the clocks c, after n slips, with what to do, and times held and seen:
\* no slip, no mistake
RightTime(s, n, c, times_seen) ==
  n = 0 =>
    /\ \A f \in Fpgas : c[f] = 0
    /\ ~Setting(s)
    /\ Comparing(s) => Awaits(s) \/ times_seen \subseteq {0}

\* Clocks that differ are seen, or will be, or are set to one time.
SameTime(s, c, times_held, times_seen) ==
  /\ Comparing(s) => Comes(s, ReadOf(<<1, 1>>)) \/ times_seen # {}
  /\ \/ Together(c)
     \/ Setting(s)
     \/ Comparing(s) /\ \A f \in Fpgas : Comes(s, ReadOf(f)) \/ c[f] \in times_seen
  /\ Setting(s) =>
       \E h \in Int : times_held \subseteq {h} /\ \A f \in Fpgas : Comes(s, SetOf(f)) \/ c[f] = h

\* The clocks of the station are right until a second passes at a bad moment, after which
\* they are compared with no mistake, and set with none.
Clocks ==
  Forming =>
    /\ RightTime(steps[Caller], slips, clock, seen[Caller])
    /\ SameTime(steps[Caller], clock, held[Caller], seen[Caller])

\* An FPGA starts in this many seconds, or has started as many ago.
StartsIn(start, start_ago, left) ==
  IF left > 0 THEN start = left /\ start_ago = Never ELSE start = Never /\ start_ago = -left

\* The time of the start is told to one FPGA after the other, early enough, ...
Announced(s, n, c, times_held, starts, starts_ago) ==
  ~Comes(s, Kinds({"hold_clock"})) /\ Comes(s, Kinds({"check_start"})) =>
    \E h \in Int :
      LET left == h + StartDelay - c[<<1, 1>>] IN
      /\ times_held = {h}
      /\ StartDelay - n <= left
      /\ \A f \in Fpgas : Comes(s, StartOf(f)) \/ StartsIn(starts[f], starts_ago[f], left)

\* ... and they start together, while the station waits.
Started(s, n, waited, starts, starts_ago) ==
  ~Comes(s, Kinds({"check_start"})) =>
    \E left \in Int :
      /\ \A f \in Fpgas : StartsIn(starts[f], starts_ago[f], left)
      /\ IF Comes(s, Kinds({"await_started"}))
           THEN StartDelay - n <= left + waited
           ELSE left <= 0 /\ StartDelay - MaxPolls - n <= left

Starts ==
  Forming =>
    /\ Announced(steps[Caller], slips, clock, held[Caller], start_in, began)
    /\ Started(steps[Caller], slips, ticked[Caller], start_in, began)
-----------------------------------------------------------------------------
(* Sequences of steps                                                       *)

LEMMA StepAfter ==
  ASSUME NEW s \in Seq(BringUpStep), s # <<>>
  PROVE  /\ Tail(s) \in Seq(BringUpStep) /\ Len(Tail(s)) = Len(s) - 1
         /\ Len(s) \in Nat \ {0}
         /\ \A i \in 1 .. Len(s) - 1 : Tail(s)[i] = s[i + 1]
         /\ Head(s) = s[1] /\ Head(s) \in BringUpStep
BY SMT

LEMMA ComesInTail ==
  ASSUME NEW s \in Seq(BringUpStep), s # <<>>, NEW X
  PROVE  Comes(s, X) <=> Head(s) \in X \/ Comes(Tail(s), X)
<1>1. ASSUME NEW i \in 1 .. Len(s), s[i] \in X, Head(s) \notin X
      PROVE  Comes(Tail(s), X)
  <2>1. i # 1 /\ i - 1 \in 1 .. Len(Tail(s)) /\ Tail(s)[i - 1] = s[i]
    BY <1>1, StepAfter
  <2> QED
    BY <1>1, <2>1 DEF Comes
<1>2. ASSUME NEW i \in 1 .. Len(Tail(s)), Tail(s)[i] \in X
      PROVE  Comes(s, X)
  <2>1. i + 1 \in 1 .. Len(s) /\ s[i + 1] = Tail(s)[i]
    BY <1>2, StepAfter
  <2> QED
    BY <1>2, <2>1 DEF Comes
<1>3. Head(s) \in X => Comes(s, X)
  BY StepAfter DEF Comes
<1> QED
  BY <1>1, <1>2, <1>3 DEF Comes

LEMMA NoneAfterInTail ==
  ASSUME NEW s \in Seq(BringUpStep), s # <<>>, NEW X, NEW Y, NoneAfter(s, X, Y)
  PROVE  NoneAfter(Tail(s), X, Y) /\ (Head(s) \in X => ~Comes(Tail(s), Y))
<1>1. ASSUME NEW i \in 1 .. Len(Tail(s)), NEW j \in 1 .. Len(Tail(s)), i < j, Tail(s)[i] \in X
      PROVE  Tail(s)[j] \notin Y
  <2>1. i + 1 \in 1 .. Len(s) /\ j + 1 \in 1 .. Len(s) /\ i + 1 < j + 1
        /\ s[i + 1] = Tail(s)[i] /\ s[j + 1] = Tail(s)[j]
    BY <1>1, StepAfter
  <2> QED
    BY <1>1, <2>1 DEF NoneAfter
<1>2. ASSUME Head(s) \in X, NEW j \in 1 .. Len(Tail(s)) PROVE Tail(s)[j] \notin Y
  <2>1. 1 \in 1 .. Len(s) /\ j + 1 \in 1 .. Len(s) /\ 1 < j + 1
        /\ s[1] = Head(s) /\ s[j + 1] = Tail(s)[j]
    BY <1>2, StepAfter
  <2> QED
    BY <1>2, <2>1 DEF NoneAfter
<1> QED
  BY <1>1, <1>2 DEF NoneAfter, Comes

LEMMA LeadsInTail ==
  ASSUME NEW s \in Seq(BringUpStep), s # <<>>, NEW X, NEW Y, Leads(s, X, Y)
  PROVE  Leads(Tail(s), X, Y) /\ (Head(s) \in X => Comes(Tail(s), Y))
<1>1. ASSUME NEW i \in 1 .. Len(s), s[i] \in X
      PROVE  \E j \in 1 .. Len(Tail(s)) : i < j + 1 /\ Tail(s)[j] \in Y
  <2>1. PICK j \in 1 .. Len(s) : i < j /\ s[j] \in Y
    BY <1>1 DEF Leads
  <2>2. j - 1 \in 1 .. Len(Tail(s)) /\ Tail(s)[j - 1] = s[j] /\ i < (j - 1) + 1
    BY <2>1, StepAfter
  <2> QED
    BY <2>1, <2>2
<1>2. ASSUME NEW i \in 1 .. Len(Tail(s)), Tail(s)[i] \in X
      PROVE  \E j \in 1 .. Len(Tail(s)) : i < j /\ Tail(s)[j] \in Y
  <2>1. i + 1 \in 1 .. Len(s) /\ s[i + 1] = Tail(s)[i]
    BY <1>2, StepAfter
  <2>2. PICK j \in 1 .. Len(Tail(s)) : i + 1 < j + 1 /\ Tail(s)[j] \in Y
    BY <1>1, <1>2, <2>1
  <2> QED
    BY <2>2, StepAfter
<1>3. Head(s) \in X => Comes(Tail(s), Y)
  <2>1. 1 \in 1 .. Len(s) /\ s[1] = Head(s)
    BY StepAfter
  <2> QED
    BY <1>1, <2>1 DEF Comes
<1> QED
  BY <1>2, <1>3 DEF Leads

LEMMA Joined ==
  ASSUME NEW a \in Seq(BringUpStep), NEW b \in Seq(BringUpStep)
  PROVE  /\ a \o b \in Seq(BringUpStep) /\ Len(a \o b) = Len(a) + Len(b)
         /\ Len(a) \in Nat /\ Len(b) \in Nat
         /\ \A i \in 1 .. Len(a) : (a \o b)[i] = a[i]
         /\ \A i \in 1 .. Len(b) : (a \o b)[Len(a) + i] = b[i]
         /\ \A i \in 1 .. Len(a) + Len(b) : i > Len(a) => (a \o b)[i] = b[i - Len(a)]
BY SMT

LEMMA ComesJoined ==
  ASSUME NEW a \in Seq(BringUpStep), NEW b \in Seq(BringUpStep), NEW X
  PROVE  Comes(a \o b, X) <=> Comes(a, X) \/ Comes(b, X)
<1>1. ASSUME NEW i \in 1 .. Len(a \o b), (a \o b)[i] \in X
      PROVE  Comes(a, X) \/ Comes(b, X)
  <2>1. CASE i <= Len(a)
    <3>1. i \in 1 .. Len(a) /\ a[i] = (a \o b)[i]
      BY <2>1, Joined
    <3> QED
      BY <1>1, <3>1 DEF Comes
  <2>2. CASE i > Len(a)
    <3>1. i - Len(a) \in 1 .. Len(b) /\ b[i - Len(a)] = (a \o b)[i]
      BY <2>2, Joined
    <3> QED
      BY <1>1, <3>1 DEF Comes
  <2> QED
    BY <2>1, <2>2, Joined
<1>2. ASSUME NEW i \in 1 .. Len(a), a[i] \in X PROVE Comes(a \o b, X)
  <2>1. i \in 1 .. Len(a \o b) /\ a[i] = (a \o b)[i]
    BY Joined
  <2> QED
    BY <1>2, <2>1 DEF Comes
<1>3. ASSUME NEW i \in 1 .. Len(b), b[i] \in X PROVE Comes(a \o b, X)
  <2>1. Len(a) + i \in 1 .. Len(a \o b) /\ b[i] = (a \o b)[Len(a) + i]
    BY Joined
  <2> QED
    BY <1>3, <2>1 DEF Comes
<1> QED
  BY <1>1, <1>2, <1>3 DEF Comes

LEMMA NoneAfterJoined ==
  ASSUME NEW a \in Seq(BringUpStep), NEW b \in Seq(BringUpStep), NEW X, NEW Y,
         NoneAfter(a, X, Y), NoneAfter(b, X, Y), ~Comes(a, X) \/ ~Comes(b, Y)
  PROVE  NoneAfter(a \o b, X, Y)
<1>1. SUFFICES ASSUME NEW i \in 1 .. Len(a \o b), NEW j \in 1 .. Len(a \o b), i < j,
                      (a \o b)[i] \in X, (a \o b)[j] \in Y
               PROVE  FALSE
  BY DEF NoneAfter
<1>2. CASE j <= Len(a)
  <2>1. i \in 1 .. Len(a) /\ j \in 1 .. Len(a) /\ a[i] = (a \o b)[i] /\ a[j] = (a \o b)[j]
    BY <1>1, <1>2, Joined
  <2> QED
    BY <1>1, <2>1 DEF NoneAfter
<1>3. CASE i > Len(a)
  <2>1. /\ i - Len(a) \in 1 .. Len(b) /\ j - Len(a) \in 1 .. Len(b) /\ i - Len(a) < j - Len(a)
        /\ b[i - Len(a)] = (a \o b)[i] /\ b[j - Len(a)] = (a \o b)[j]
    BY <1>1, <1>3, Joined
  <2> QED
    BY <1>1, <2>1 DEF NoneAfter
<1>4. CASE i <= Len(a) /\ j > Len(a)
  <2>1. i \in 1 .. Len(a) /\ a[i] = (a \o b)[i]
    BY <1>1, <1>4, Joined
  <2>2. j - Len(a) \in 1 .. Len(b) /\ b[j - Len(a)] = (a \o b)[j]
    BY <1>1, <1>4, Joined
  <2> QED
    BY <1>1, <2>1, <2>2 DEF Comes
<1> QED
  BY <1>2, <1>3, <1>4, Joined

LEMMA LeadsJoined ==
  ASSUME NEW a \in Seq(BringUpStep), NEW b \in Seq(BringUpStep), NEW X, NEW Y,
         Leads(b, X, Y), Leads(a, X, Y) \/ Comes(b, Y)
  PROVE  Leads(a \o b, X, Y)
<1>1. SUFFICES ASSUME NEW i \in 1 .. Len(a \o b), (a \o b)[i] \in X
               PROVE  \E j \in 1 .. Len(a \o b) : i < j /\ (a \o b)[j] \in Y
  BY DEF Leads
<1>2. CASE i > Len(a)
  <2>1. i - Len(a) \in 1 .. Len(b) /\ b[i - Len(a)] = (a \o b)[i]
    BY <1>1, <1>2, Joined
  <2>2. PICK j \in 1 .. Len(b) : i - Len(a) < j /\ b[j] \in Y
    BY <1>1, <2>1 DEF Leads
  <2>3. Len(a) + j \in 1 .. Len(a \o b) /\ i < Len(a) + j /\ (a \o b)[Len(a) + j] = b[j]
    BY <2>2, Joined
  <2> QED
    BY <2>2, <2>3
<1>3. CASE i <= Len(a) /\ Leads(a, X, Y)
  <2>1. i \in 1 .. Len(a) /\ a[i] = (a \o b)[i]
    BY <1>1, <1>3, Joined
  <2>2. PICK j \in 1 .. Len(a) : i < j /\ a[j] \in Y
    BY <1>1, <1>3, <2>1 DEF Leads
  <2>3. j \in 1 .. Len(a \o b) /\ (a \o b)[j] = a[j]
    BY <2>2, Joined
  <2> QED
    BY <2>2, <2>3
<1>4. CASE i <= Len(a) /\ Comes(b, Y)
  <2>1. PICK j \in 1 .. Len(b) : b[j] \in Y
    BY <1>4 DEF Comes
  <2>2. Len(a) + j \in 1 .. Len(a \o b) /\ i < Len(a) + j /\ (a \o b)[Len(a) + j] = b[j]
    BY <1>4, <2>1, Joined
  <2> QED
    BY <2>1, <2>2
<1> QED
  BY <1>2, <1>3, <1>4, Joined

\* what does not come leads to nothing, and nothing comes after it
LEMMA OfKinds ==
  ASSUME NEW D, NEW s \in Seq(Kinds(D))
  PROVE  /\ s \in Seq(BringUpStep)
         /\ \A E : D \cap E = {} => ~Comes(s, Kinds(E))
<1>1. Kinds(D) \subseteq BringUpStep
  BY DEF Kinds
<1>2. s \in Seq(BringUpStep)
  BY <1>1
<1>3. ASSUME NEW E, D \cap E = {} PROVE ~Comes(s, Kinds(E))
  <2>1. ASSUME NEW i \in 1 .. Len(s) PROVE s[i] \in Kinds(D)
    OBVIOUS
  <2> QED
    BY <1>3, <2>1 DEF Comes, Kinds
<1> QED
  BY <1>2, <1>3

LEMMA NothingComes ==
  ASSUME NEW s, NEW X, NEW Y, ~Comes(s, X)
  PROVE  NoneAfter(s, X, Y) /\ NoneAfter(s, Y, X) /\ Leads(s, X, Y)
BY DEF Comes, NoneAfter, Leads
-----------------------------------------------------------------------------
(* Single steps                                                             *)

LEMMA PlainStep == \A do \in Plain : Step(do) \in BringUpStep /\ Step(do).do = do
BY DEF Step, BringUpStep

LEMMA TileStep ==
  \A do \in AboutTile, t \in Tiles :
    OfTile(do, t) \in BringUpStep /\ OfTile(do, t).do = do /\ OfTile(do, t).tile = t
BY DEF OfTile, BringUpStep

LEMMA FpgaStep ==
  \A do \in AboutFpga, f \in Fpgas :
    OfFpga(do, f) \in BringUpStep /\ OfFpga(do, f).do = do /\ OfFpga(do, f).fpga = f
BY DEF OfFpga, BringUpStep

LEMMA ConnectStep ==
  \A b \in BOOLEAN, t \in Tiles :
    LET x == [do |-> "connect", tile |-> t, plugins |-> b]
    IN x \in BringUpStep /\ x.do = "connect" /\ x.tile = t
BY DEF BringUpStep

LEMMA NeedsStep ==
  \A t \in Tiles, names \in SUBSET PlugInNames :
    LET x == [do |-> "needs", tile |-> t, names |-> names]
    IN x \in BringUpStep /\ x.do = "needs" /\ x.tile = t /\ x.names = names
BY DEF BringUpStep

LEMMA SamplingStep ==
  \A t \in Tiles, target \in Int :
    LET x == [do |-> "sampling", tile |-> t, target |-> target, margin |-> 4]
    IN x \in BringUpStep /\ x.do = "sampling" /\ x.tile = t /\ x.target = target
BY DEF BringUpStep, MaxDelaySkew

LEMMA CompareStep ==
  \A n \in Nat :
    /\ \A t \in Tiles :
         LET x == [do |-> "compare_two", tile |-> t, attempt |-> n]
         IN x \in BringUpStep /\ x.do = "compare_two" /\ x.tile = t
    /\ \A do \in {"compare_delays", "compare_all"} :
         LET x == [do |-> do, attempt |-> n]
         IN x \in BringUpStep /\ x.do = do
BY DEF BringUpStep

LEMMA MapStep ==
  \A kind \in {"program_cpld", "program", "initialise"} :
    LET x == [do |-> "map", of |-> kind]
    IN x \in BringUpStep /\ x.do = "map" /\ x.of = kind
BY DEF BringUpStep

\* what a step is about
LEMMA TileOfStep ==
  ASSUME NEW x \in BringUpStep
  PROVE  /\ x.do \in AboutTile \cup {"connect", "needs", "sampling", "compare_two"} => x.tile \in Tiles
         /\ x.do \in AboutFpga => x.fpga \in Fpgas /\ x = OfFpga(x.do, x.fpga)
<1>1. x.do \in AboutTile => x.tile \in Tiles
  BY DEF BringUpStep, AboutTile, Plain, AboutFpga
<1>2. x.do \in {"connect", "needs", "sampling", "compare_two"} => x.tile \in Tiles
  BY DEF BringUpStep, AboutTile, Plain, AboutFpga
<1>3. x.do \in AboutFpga => x \in [do : AboutFpga, fpga : Fpgas]
  BY DEF BringUpStep, AboutTile, Plain, AboutFpga
<1>4. x \in [do : AboutFpga, fpga : Fpgas] => x.fpga \in Fpgas /\ x = [do |-> x.do, fpga |-> x.fpga]
  OBVIOUS
<1> QED
  BY <1>1, <1>2, <1>3, <1>4 DEF OfFpga

LEMMA SamplingOfStep ==
  ASSUME NEW x \in BringUpStep, x.do = "sampling"
  PROVE  x.tile \in Tiles /\ x.target \in Int /\ x.margin = 4
BY DEF BringUpStep, AboutTile, Plain, AboutFpga, MaxDelaySkew

LEMMA AttemptOfStep ==
  ASSUME NEW x \in BringUpStep, x.do \in {"compare_two", "compare_delays", "compare_all"}
  PROVE  x.attempt \in Nat
BY DEF BringUpStep, AboutTile, Plain, AboutFpga

LEMMA MapOfStep ==
  ASSUME NEW x \in BringUpStep, x.do = "map"
  PROVE  x.of \in {"program_cpld", "program", "initialise"} /\ x \in MapOf(x.of)
<1>1. x \in [do : {"map"}, of : {"program_cpld", "program", "initialise"}]
  BY DEF BringUpStep, AboutTile, Plain, AboutFpga
<1> QED
  BY <1>1 DEF MapOf

LEMMA PlainOfStep ==
  ASSUME NEW x \in BringUpStep, x.do \in Plain
  PROVE  x = Step(x.do)
<1>1. x \in [do : Plain]
  BY DEF BringUpStep, AboutTile, Plain, AboutFpga
<1> QED
  BY <1>1 DEF Step

LEMMA FpgasOfTile ==
  /\ \A t \in Tiles : FpgasOf(t) \subseteq Fpgas
  /\ \A f \in Fpgas : f[1] \in Tiles /\ f \in FpgasOf(f[1])
  /\ \A t \in Tiles : \A f \in FpgasOf(t) : f[1] = t
BY DEF FpgasOf, Fpgas, Tiles

\* the sets of a single step
LEMMA StepSets ==
  /\ \A f \in Fpgas : ReadOf(f) \subseteq Kinds({"read_clock"}) /\ SetOf(f) \subseteq Kinds({"set_clock"})
                      /\ StartOf(f) \subseteq Kinds({"start_at"})
  /\ \A kind \in {"program_cpld", "program", "initialise"} : MapOf(kind) \subseteq Kinds({"map"})
<1>1. \A f \in Fpgas : ReadOf(f) \subseteq Kinds({"read_clock"})
  BY FpgaStep DEF ReadOf, Kinds, AboutFpga
<1>2. \A f \in Fpgas : SetOf(f) \subseteq Kinds({"set_clock"})
  BY FpgaStep DEF SetOf, Kinds, AboutFpga
<1>3. \A f \in Fpgas : StartOf(f) \subseteq Kinds({"start_at"})
  BY FpgaStep DEF StartOf, Kinds, AboutFpga
<1>4. \A kind \in {"program_cpld", "program", "initialise"} : MapOf(kind) \subseteq Kinds({"map"})
  BY MapStep DEF MapOf, Kinds
<1> QED
  BY <1>1, <1>2, <1>3, <1>4

LEMMA ComesMore ==
  ASSUME NEW s, NEW X, NEW Y, X \subseteq Y
  PROVE  Comes(s, X) => Comes(s, Y)
BY DEF Comes

LEMMA OneStep ==
  ASSUME NEW x \in BringUpStep
  PROVE  /\ <<x>> \in Seq(BringUpStep) /\ Len(<<x>>) = 1 /\ <<x>>[1] = x /\ <<x>> # <<>>
         /\ \A X : Comes(<<x>>, X) <=> x \in X
         /\ \A X, Y : NoneAfter(<<x>>, X, Y)
         /\ \A X, Y : x \notin X => Leads(<<x>>, X, Y)
BY DEF Comes, NoneAfter, Leads
-----------------------------------------------------------------------------
(* One tile after the other                                                 *)

LEMMA Division ==
  ASSUME NEW a \in Int
  PROVE  /\ (2 * a) \div 2 = a /\ (2 * a) % 2 = 0
         /\ (2 * a + 1) \div 2 = a /\ (2 * a + 1) % 2 = 1
         /\ (3 * a) \div 3 = a /\ (3 * a) % 3 = 0
         /\ (3 * a + 1) \div 3 = a /\ (3 * a + 1) % 3 = 1
         /\ (3 * a + 2) \div 3 = a /\ (3 * a + 2) % 3 = 2
BY SMT

LEMMA TileOfIndex ==
  ASSUME NEW n \in {1, 2, 3}, NEW i \in 1 .. n * NofTiles
  PROVE  ((i - 1) \div n) + 1 \in Tiles /\ ((i - 1) % n) + 1 \in 1 .. n
<1>1. CASE n = 1
  BY <1>1 DEF Tiles
<1>2. CASE n = 2
  BY <1>2 DEF Tiles
<1>3. CASE n = 3
  BY <1>3 DEF Tiles
<1> QED
  BY <1>1, <1>2, <1>3

LEMMA IndexOfTile ==
  ASSUME NEW n \in {1, 2, 3}, NEW t \in Tiles, NEW k \in 1 .. n, NEW i \in Int, i = (t - 1) * n + k
  PROVE  i \in 1 .. n * NofTiles /\ ((i - 1) \div n) + 1 = t /\ ((i - 1) % n) + 1 = k
<1>1. CASE n = 1
  BY <1>1 DEF Tiles
<1>2. CASE n = 2
  <2>1. PICK a \in Int : a = t - 1
    BY DEF Tiles
  <2>2. i \in 1 .. 2 * NofTiles /\ ((i - 1 = 2 * a /\ k = 1) \/ (i - 1 = 2 * a + 1 /\ k = 2))
    BY <1>2, <2>1 DEF Tiles
  <2>3. /\ (2 * a) \div 2 = a /\ (2 * a) % 2 = 0
        /\ (2 * a + 1) \div 2 = a /\ (2 * a + 1) % 2 = 1
    BY Division
  <2>4. (i - 1) \div 2 = a /\ (i - 1) % 2 = k - 1
    BY <2>2, <2>3
  <2> QED
    BY <1>2, <2>1, <2>2, <2>4 DEF Tiles
<1>3. CASE n = 3
  <2>1. PICK a \in Int : a = t - 1
    BY DEF Tiles
  <2>2. /\ i \in 1 .. 3 * NofTiles
        /\ (i - 1 = 3 * a /\ k = 1) \/ (i - 1 = 3 * a + 1 /\ k = 2) \/ (i - 1 = 3 * a + 2 /\ k = 3)
    BY <1>3, <2>1 DEF Tiles
  <2>3. /\ (3 * a) \div 3 = a /\ (3 * a) % 3 = 0
        /\ (3 * a + 1) \div 3 = a /\ (3 * a + 1) % 3 = 1
        /\ (3 * a + 2) \div 3 = a /\ (3 * a + 2) % 3 = 2
    BY Division
  <2>4. (i - 1) \div 3 = a /\ (i - 1) % 3 = k - 1
    BY <2>2, <2>3
  <2> QED
    BY <1>3, <2>1, <2>2, <2>4 DEF Tiles
<1> QED
  BY <1>1, <1>2, <1>3

LEMMA ForAllTiles ==
  ASSUME NEW n \in {1, 2, 3}, NEW calls, NEW S \in SUBSET BringUpStep,
         \A t \in Tiles : \A k \in 1 .. n : calls[t][k] \in S
  PROVE  /\ ForTiles(n, calls) \in Seq(S)
         /\ \A t \in Tiles : \A k \in 1 .. n : \A X : calls[t][k] \in X => Comes(ForTiles(n, calls), X)
<1> DEFINE s == ForTiles(n, calls)
<1>1. n * NofTiles \in Nat
  <2>1. CASE n = 1
    BY <2>1
  <2>2. CASE n = 2
    BY <2>2
  <2>3. CASE n = 3
    BY <2>3
  <2> QED
    BY <2>1, <2>2, <2>3
<1>2. \A i \in 1 .. n * NofTiles : calls[((i - 1) \div n) + 1][((i - 1) % n) + 1] \in S
  BY TileOfIndex
<1>3. s \in [1 .. n * NofTiles -> S]
  BY <1>2 DEF ForTiles
<1>4. s \in Seq(S) /\ Len(s) = n * NofTiles
  BY <1>1, <1>3
<1>5. ASSUME NEW t \in Tiles, NEW k \in 1 .. n, NEW X, calls[t][k] \in X
      PROVE  Comes(s, X)
  <2> DEFINE i == (t - 1) * n + k
  <2>1. i \in 1 .. n * NofTiles /\ ((i - 1) \div n) + 1 = t /\ ((i - 1) % n) + 1 = k
    <3>1. i \in Int
      BY DEF Tiles
    <3> QED
      BY <3>1, IndexOfTile
  <2>2. s[i] = calls[((i - 1) \div n) + 1][((i - 1) % n) + 1]
    BY <2>1 DEF ForTiles
  <2> HIDE DEF i
  <2>3. s[i] = calls[t][k]
    BY <2>1, <2>2
  <2> QED
    BY <1>4, <1>5, <2>1, <2>3 DEF Comes
<1> QED
  BY <1>4, <1>5
-----------------------------------------------------------------------------
(* What the process of a tile is to do                                      *)

Of(t, D) == PoolSteps(t) \cap Kinds(D)

LEMMA PoolStep ==
  ASSUME NEW t \in Tiles, NEW D
  PROVE  /\ \A do \in PoolPlainKinds \cap D : Step(do) \in Of(t, D)
         /\ \A do \in PoolTileKinds \cap AboutTile \cap D : OfTile(do, t) \in Of(t, D)
         /\ \A do \in PoolFpgaKinds \cap D : \A f \in FpgasOf(t) : OfFpga(do, f) \in Of(t, D)
<1>1. \A do \in PoolPlainKinds \cap D : Step(do) \in Of(t, D)
  <2>1. PoolPlainKinds \subseteq Plain
    BY DEF PoolPlainKinds, Plain
  <2> QED
    BY <2>1, PlainStep DEF Of, PoolSteps, Kinds
<1>2. \A do \in PoolTileKinds \cap AboutTile \cap D : OfTile(do, t) \in Of(t, D)
  BY TileStep DEF Of, PoolSteps, Kinds
<1>3. \A do \in PoolFpgaKinds \cap D : \A f \in FpgasOf(t) : OfFpga(do, f) \in Of(t, D)
  <2>1. PoolFpgaKinds \subseteq AboutFpga
    BY DEF PoolFpgaKinds, AboutFpga
  <2> QED
    BY <2>1, FpgaStep, FpgasOfTile DEF Of, PoolSteps, Kinds
<1> QED
  BY <1>1, <1>2, <1>3

LEMMA PoolStepWith ==
  ASSUME NEW t \in Tiles, NEW D
  PROVE  /\ \A b \in BOOLEAN : "connect" \in D => Connect(b, t) \in Seq(Of(t, D))
         /\ \A names \in SUBSET PlugInNames : "needs" \in D => Needs(t, names) \in Seq(Of(t, D))
         /\ \A target \in Int : "sampling" \in D => set_pps_sampling(t, target, 4) \in Seq(Of(t, D))
         /\ \A n \in Nat : "compare_two" \in D =>
              [do |-> "compare_two", tile |-> t, attempt |-> n] \in Of(t, D)
<1>1. ASSUME NEW b \in BOOLEAN, "connect" \in D PROVE Connect(b, t) \in Seq(Of(t, D))
  <2> DEFINE x == [do |-> "connect", tile |-> t, plugins |-> b]
  <2>1. x \in BringUpStep /\ x.do = "connect" /\ x.tile = t
    BY ConnectStep
  <2> HIDE DEF x
  <2>2. x \in Of(t, D)
    BY <1>1, <2>1 DEF Of, PoolSteps, Kinds, PoolTileKinds
  <2>3. <<x>> \in Seq(Of(t, D))
    BY <2>2
  <2> QED
    BY <2>3 DEF Connect, x
<1>2. ASSUME NEW names \in SUBSET PlugInNames, "needs" \in D PROVE Needs(t, names) \in Seq(Of(t, D))
  <2> DEFINE x == [do |-> "needs", tile |-> t, names |-> names]
  <2>1. x \in BringUpStep /\ x.do = "needs" /\ x.tile = t
    BY NeedsStep
  <2> HIDE DEF x
  <2>2. x \in Of(t, D)
    BY <1>2, <2>1 DEF Of, PoolSteps, Kinds, PoolTileKinds
  <2>3. <<x>> \in Seq(Of(t, D))
    BY <2>2
  <2> QED
    BY <2>3 DEF Needs, x
<1>3. ASSUME NEW target \in Int, "sampling" \in D
      PROVE  set_pps_sampling(t, target, 4) \in Seq(Of(t, D))
  <2> DEFINE x == [do |-> "sampling", tile |-> t, target |-> target, margin |-> 4]
  <2>1. x \in BringUpStep /\ x.do = "sampling" /\ x.tile = t
    BY SamplingStep
  <2> HIDE DEF x
  <2>2. x \in Of(t, D)
    BY <1>3, <2>1 DEF Of, PoolSteps, Kinds, PoolTileKinds
  <2>3. <<x>> \in Seq(Of(t, D))
    BY <2>2
  <2> QED
    BY <2>3 DEF set_pps_sampling, x
<1>4. ASSUME NEW n \in Nat, "compare_two" \in D
      PROVE  [do |-> "compare_two", tile |-> t, attempt |-> n] \in Of(t, D)
  <2> DEFINE x == [do |-> "compare_two", tile |-> t, attempt |-> n]
  <2>1. x \in BringUpStep /\ x.do = "compare_two" /\ x.tile = t
    BY CompareStep
  <2> HIDE DEF x
  <2>2. x \in Of(t, D)
    BY <1>4, <2>1 DEF Of, PoolSteps, Kinds, PoolTileKinds
  <2> QED
    BY <2>2 DEF x
<1> QED
  BY <1>1, <1>2, <1>3, <1>4

LEMMA BothFpgas ==
  ASSUME NEW t \in Tiles
  PROVE  <<t, 1>> \in FpgasOf(t) /\ <<t, 2>> \in FpgasOf(t)
         /\ \A f \in FpgasOf(t) : f = <<t, 1>> \/ f = <<t, 2>>
BY DEF FpgasOf

\* a function of steps of the process of a tile is one of steps
LEMMA PoolSequence ==
  ASSUME NEW t \in Tiles, NEW D, NEW s \in Seq(Of(t, D))
  PROVE  s \in Seq(BringUpStep) /\ s \in Seq(PoolSteps(t)) /\ s \in Seq(Kinds(D))
<1>1. Of(t, D) \subseteq BringUpStep /\ Of(t, D) \subseteq PoolSteps(t) /\ Of(t, D) \subseteq Kinds(D)
  BY DEF Of, Kinds
<1> QED
  BY <1>1

SyncKinds == {"await_pps", "read_utc", "set_clock", "sampling", "read_clock", "compare_two"}

LEMMA SyncProgram ==
  ASSUME NEW t \in Tiles, NEW n \in Nat
  PROVE  /\ SyncAttempt(t, n) \in Seq(Of(t, SyncKinds))
         /\ \A f \in FpgasOf(t) : Comes(SyncAttempt(t, n), SetOf(f))
<1> DEFINE S == Of(t, SyncKinds)
<1> DEFINE f1 == <<t, 1>>
<1> DEFINE f2 == <<t, 2>>
<1> DEFINE a == wait_pps_event(t)
<1> DEFINE u == <<Step("read_utc")>>
<1> DEFINE s1 == <<OfFpga("set_clock", f1)>>
<1> DEFINE s2 == <<OfFpga("set_clock", f2)>>
<1> DEFINE d == set_pps_sampling(t, PpsTarget, PpsMargin)
<1> DEFINE r1 == <<OfFpga("read_clock", f1)>>
<1> DEFINE r2 == <<OfFpga("read_clock", f2)>>
<1> DEFINE c == <<[do |-> "compare_two", tile |-> t, attempt |-> n]>>
<1>1. SyncAttempt(t, n) = (((((a \o u) \o (s1 \o s2)) \o d) \o a) \o (r1 \o r2)) \o c
  BY DEF SyncAttempt, ForBoth, set_fpga_time, get_fpga_time
<1>2. a \in Seq(S)
  <2>1. OfTile("await_pps", t) \in S
    BY PoolStep DEF SyncKinds, PoolTileKinds, AboutTile
  <2> QED
    BY <2>1 DEF wait_pps_event
<1>3. u \in Seq(S)
  <2>1. Step("read_utc") \in S
    BY PoolStep DEF SyncKinds, PoolPlainKinds
  <2> QED
    BY <2>1
<1>4. f1 \in FpgasOf(t) /\ f2 \in FpgasOf(t) /\ \A f \in FpgasOf(t) : f = f1 \/ f = f2
  BY BothFpgas
<1> HIDE DEF f1, f2
<1>5. s1 \in Seq(S) /\ s2 \in Seq(S) /\ r1 \in Seq(S) /\ r2 \in Seq(S)
  <2>1. \A f \in {f1, f2} : OfFpga("set_clock", f) \in S /\ OfFpga("read_clock", f) \in S
    BY <1>4, PoolStep DEF SyncKinds, PoolFpgaKinds
  <2> QED
    BY <2>1
<1>6. d \in Seq(S)
  BY PoolStepWith DEF SyncKinds, PpsTarget, PpsMargin
<1>7. c \in Seq(S)
  <2>1. [do |-> "compare_two", tile |-> t, attempt |-> n] \in S
    BY PoolStepWith DEF SyncKinds
  <2> QED
    BY <2>1
<1>8. Comes(s1, SetOf(f1)) /\ Comes(s2, SetOf(f2)) /\ s1 \in Seq(BringUpStep) /\ s2 \in Seq(BringUpStep)
  <2>1. f1 \in Fpgas /\ f2 \in Fpgas
    BY <1>4, FpgasOfTile
  <2>2. OfFpga("set_clock", f1) \in BringUpStep /\ OfFpga("set_clock", f2) \in BringUpStep
    BY <2>1, FpgaStep DEF AboutFpga
  <2> QED
    BY <2>2, OneStep DEF SetOf
<1> HIDE DEF S, a, u, s1, s2, d, r1, r2, c
<1> DEFINE s12 == s1 \o s2
<1> DEFINE x1 == a \o u
<1> DEFINE x2 == x1 \o s12
<1> DEFINE x3 == x2 \o d
<1> DEFINE x4 == x3 \o a
<1> DEFINE x5 == x4 \o (r1 \o r2)
<1>9. s12 \in Seq(S) /\ r1 \o r2 \in Seq(S) /\ x1 \in Seq(S)
  BY <1>2, <1>3, <1>5
<1>10. \A f \in FpgasOf(t) : Comes(s12, SetOf(f))
  BY <1>4, <1>8, ComesJoined
<1> HIDE DEF s12, x1
<1>11. x2 \in Seq(S)
  BY <1>9
<1> HIDE DEF x2
<1>12. x3 \in Seq(S)
  BY <1>11, <1>6
<1> HIDE DEF x3
<1>13. x4 \in Seq(S)
  BY <1>12, <1>2
<1> HIDE DEF x4
<1>14. x5 \in Seq(S)
  BY <1>13, <1>9
<1> HIDE DEF x5
<1>15. x5 \o c \in Seq(S)
  BY <1>14, <1>7
<1>16. \A e \in {a, u, s12, d, r1 \o r2, c, x1, x2, x3, x4, x5} : e \in Seq(BringUpStep)
  BY <1>2, <1>3, <1>6, <1>7, <1>9, <1>11, <1>12, <1>13, <1>14, PoolSequence DEF S
<1>17. \A f \in FpgasOf(t) : Comes(x5 \o c, SetOf(f))
  <2> SUFFICES ASSUME NEW f \in FpgasOf(t) PROVE Comes(x5 \o c, SetOf(f))
    OBVIOUS
  <2>1. Comes(x2, SetOf(f))
    BY <1>10, <1>16, ComesJoined DEF x2
  <2>2. Comes(x3, SetOf(f))
    BY <2>1, <1>16, ComesJoined DEF x3
  <2>3. Comes(x4, SetOf(f))
    BY <2>2, <1>16, ComesJoined DEF x4
  <2>4. Comes(x5, SetOf(f))
    BY <2>3, <1>16, ComesJoined DEF x5
  <2> QED
    BY <2>4, <1>16, ComesJoined
<1> QED
  BY <1>1, <1>15, <1>17 DEF S, x5, x4, x3, x2, x1, s12

LEMMA JoinedOf ==
  ASSUME NEW t \in Tiles, NEW D, NEW a \in Seq(Of(t, D)), NEW b \in Seq(Of(t, D))
  PROVE  a \o b \in Seq(Of(t, D)) /\ \A X : Comes(a \o b, X) <=> Comes(a, X) \/ Comes(b, X)
<1>1. a \o b \in Seq(Of(t, D))
  OBVIOUS
<1> QED
  BY <1>1, PoolSequence, ComesJoined

LEMMA FewerKinds ==
  ASSUME NEW t \in Tiles, NEW D, NEW E, D \subseteq E, NEW s \in Seq(Of(t, D))
  PROVE  s \in Seq(Of(t, E))
<1>1. Of(t, D) \subseteq Of(t, E)
  BY DEF Of, Kinds
<1> QED
  BY <1>1

BoardKinds ==
  SyncKinds \cup {"needs_board", "return_unless_programmed", "return_if_far", "start_jesd",
                  "start_ddr", "set_id", "needs", "check_ddr", "initialised"}

LEMMA FirmwareProgram ==
  ASSUME NEW t \in Tiles, NEW b, NEW f \in FpgasOf(t)
  PROVE  Firmware(b, f) \in Seq(Of(t, BoardKinds)) /\ TPM_1_2!check_ddr_initialisation(f) \in Seq(Of(t, BoardKinds))
<1>1. /\ OfFpga("start_jesd", f) \in Of(t, BoardKinds)
      /\ OfFpga("start_ddr", f) \in Of(t, BoardKinds)
      /\ OfFpga("check_ddr", f) \in Of(t, BoardKinds)
  BY PoolStep DEF BoardKinds, PoolFpgaKinds
<1>2. TPM_1_2!initialise_firmware(f) \in Seq(Of(t, BoardKinds))
  <2>1. <<OfFpga("start_jesd", f)>> \in Seq(Of(t, BoardKinds))
        /\ <<OfFpga("start_ddr", f)>> \in Seq(Of(t, BoardKinds))
    BY <1>1
  <2> QED
    BY <2>1, JoinedOf DEF TPM_1_2!initialise_firmware, TPM_1_2!start_ddr_initialisation, TPM_1_2!OfFpga, OfFpga
<1>3. TPM_1_6!initialise_firmware(f) \in Seq(Of(t, BoardKinds))
  BY <1>1 DEF TPM_1_6!initialise_firmware, TPM_1_6!OfFpga, OfFpga
<1>4. TPM_1_2!check_ddr_initialisation(f) \in Seq(Of(t, BoardKinds))
  BY <1>1 DEF TPM_1_2!check_ddr_initialisation, TPM_1_2!OfFpga, OfFpga
<1> QED
  BY <1>2, <1>3, <1>4 DEF Firmware

LEMMA BoardNames ==
  ASSUME NEW b, NEW c
  PROVE  /\ {} \in SUBSET PlugInNames
         /\ {"tpm_f2f", "test_generator"} \cup set_default_eth_configuration(b, c) \in SUBSET PlugInNames
         /\ set_lmc_download(c.use_teng) \cup set_time_delays
              \cup set_lmc_integrated_download(c.use_teng_integrated)
              \cup {n \in {"station_beamf"} : b.version = 6 \/ "station_beamformer" \in b.features}
              \in SUBSET PlugInNames
<1>1. configure_40g_core \in SUBSET PlugInNames
  BY DEF configure_40g_core, PlugInNames
<1>2. set_default_eth_configuration(b, c) \in SUBSET PlugInNames
  BY <1>1 DEF set_default_eth_configuration, is_qsfp_module_plugged, PlugInNames
<1>3. \A u : set_lmc_download(u) \in SUBSET PlugInNames
  BY <1>1 DEF set_lmc_download
<1>4. \A u : set_lmc_integrated_download(u) \in SUBSET PlugInNames
  BY <1>3 DEF set_lmc_integrated_download, PlugInNames
<1>5. {"tpm_f2f", "test_generator"} \in SUBSET PlugInNames /\ {"station_beamf"} \in SUBSET PlugInNames
  BY DEF PlugInNames
<1> QED
  BY <1>2, <1>3, <1>4, <1>5 DEF set_time_delays

LEMMA BoardProgram ==
  ASSUME NEW t \in Tiles, NEW b, NEW c
  PROVE  /\ InitialiseBoard(b, c, t) \in Seq(Of(t, BoardKinds))
         /\ Comes(InitialiseBoard(b, c, t), Kinds({"return_unless_programmed"}))
         /\ Comes(InitialiseBoard(b, c, t), Kinds({"initialised"}))
         /\ \A f \in FpgasOf(t) : Comes(InitialiseBoard(b, c, t), SetOf(f))
<1> DEFINE S == Of(t, BoardKinds)
<1> DEFINE f1 == <<t, 1>>
<1> DEFINE f2 == <<t, 2>>
<1> DEFINE u == ReturnUnlessProgrammed(t)
<1> DEFINE r == <<OfTile("return_if_far", t)>>
<1> DEFINE w == Firmware(b, f1) \o Firmware(b, f2)
<1> DEFINE i == set_station_id(t)
<1> DEFINE n1 == Needs(t, set_c2c_burst)
<1> DEFINE y == sync_fpga_time(t)
<1> DEFINE n2 == Needs(t, {"tpm_f2f", "test_generator"} \cup set_default_eth_configuration(b, c))
<1> DEFINE d == TPM_1_2!check_ddr_initialisation(f1) \o TPM_1_2!check_ddr_initialisation(f2)
<1> DEFINE n3 == Needs(t, set_lmc_download(c.use_teng) \cup set_time_delays
              \cup set_lmc_integrated_download(c.use_teng_integrated)
              \cup {n \in {"station_beamf"} : b.version = 6 \/ "station_beamformer" \in b.features})
<1> DEFINE e == <<OfTile("initialised", t)>>
<1>1. InitialiseBoard(b, c, t) = ((((((((u \o r) \o w) \o i) \o n1) \o y) \o n2) \o d) \o n3) \o e
  BY DEF InitialiseBoard, ForBoth
<1>2. u \in Seq(S) /\ Comes(u, Kinds({"return_unless_programmed"}))
  <2> DEFINE u1 == OfTile("needs_board", t)
  <2> DEFINE u2 == OfTile("return_unless_programmed", t)
  <2>1. u1 \in S /\ u2 \in S
    BY PoolStep DEF BoardKinds, PoolTileKinds, AboutTile
  <2>2. u2 \in Kinds({"return_unless_programmed"})
    BY TileStep DEF Kinds, AboutTile
  <2> HIDE DEF u1, u2, S
  <2>3. <<u1, u2>> \in Seq(S) /\ Comes(<<u1, u2>>, Kinds({"return_unless_programmed"}))
    BY <2>1, <2>2 DEF Comes
  <2> QED
    BY <2>3 DEF u1, u2, ReturnUnlessProgrammed
<1>3. r \in Seq(S)
  <2>1. OfTile("return_if_far", t) \in S
    BY PoolStep DEF BoardKinds, PoolTileKinds, AboutTile
  <2> QED
    BY <2>1
<1>4. w \in Seq(S) /\ d \in Seq(S)
  BY FirmwareProgram, BothFpgas
<1>5. i \in Seq(S)
  <2>1. OfTile("set_id", t) \in S
    BY PoolStep DEF BoardKinds, PoolTileKinds, AboutTile
  <2> QED
    BY <2>1 DEF set_station_id
<1>6. n1 \in Seq(S)
  BY PoolStepWith, BoardNames DEF BoardKinds, set_c2c_burst
<1>7. n2 \in Seq(S)
  BY PoolStepWith, BoardNames DEF BoardKinds
<1>8. n3 \in Seq(S)
  BY PoolStepWith, BoardNames DEF BoardKinds
<1>9. y \in Seq(S) /\ \A f \in FpgasOf(t) : Comes(y, SetOf(f))
  <2>1. y \in Seq(Of(t, SyncKinds)) /\ \A f \in FpgasOf(t) : Comes(y, SetOf(f))
    BY SyncProgram DEF sync_fpga_time
  <2>2. SyncKinds \subseteq BoardKinds
    BY DEF BoardKinds
  <2> QED
    BY <2>1, <2>2, FewerKinds
<1>10. e \in Seq(S) /\ Comes(e, Kinds({"initialised"}))
  <2>1. OfTile("initialised", t) \in S
    BY PoolStep DEF BoardKinds, PoolTileKinds, AboutTile
  <2>2. OfTile("initialised", t) \in Kinds({"initialised"}) /\ OfTile("initialised", t) \in BringUpStep
    BY TileStep DEF Kinds, AboutTile
  <2> QED
    BY <2>1, <2>2, OneStep
<1> HIDE DEF S, u, r, w, i, n1, y, n2, d, n3, e
<1> DEFINE x1 == u \o r
<1> DEFINE x2 == x1 \o w
<1> DEFINE x3 == x2 \o i
<1> DEFINE x4 == x3 \o n1
<1> DEFINE x5 == x4 \o y
<1> DEFINE x6 == x5 \o n2
<1> DEFINE x7 == x6 \o d
<1> DEFINE x8 == x7 \o n3
<1> DEFINE G(x) == x \in Seq(S) /\ Comes(x, Kinds({"return_unless_programmed"}))
<1>11. \A a, z \in Seq(S) : a \o z \in Seq(S) /\ \A X : Comes(a \o z, X) <=> Comes(a, X) \/ Comes(z, X)
  BY JoinedOf DEF S
<1>12. G(x1)
  BY <1>11, <1>2, <1>3
<1> HIDE DEF x1
<1>13. G(x2)
  BY <1>11, <1>12, <1>4
<1> HIDE DEF x2
<1>14. G(x3)
  BY <1>11, <1>13, <1>5
<1> HIDE DEF x3
<1>15. G(x4)
  BY <1>11, <1>14, <1>6
<1> HIDE DEF x4
<1>16. G(x5) /\ \A f \in FpgasOf(t) : Comes(x5, SetOf(f))
  BY <1>11, <1>15, <1>9
<1> HIDE DEF x5
<1>17. G(x6) /\ \A f \in FpgasOf(t) : Comes(x6, SetOf(f))
  BY <1>11, <1>16, <1>7
<1> HIDE DEF x6
<1>18. G(x7) /\ \A f \in FpgasOf(t) : Comes(x7, SetOf(f))
  BY <1>11, <1>17, <1>4
<1> HIDE DEF x7
<1>19. G(x8) /\ \A f \in FpgasOf(t) : Comes(x8, SetOf(f))
  BY <1>11, <1>18, <1>8
<1> HIDE DEF x8
<1>20. /\ G(x8 \o e) /\ Comes(x8 \o e, Kinds({"initialised"}))
       /\ \A f \in FpgasOf(t) : Comes(x8 \o e, SetOf(f))
  BY <1>11, <1>19, <1>10
<1> QED
  BY <1>1, <1>20 DEF S, x8, x7, x6, x5, x4, x3, x2, x1

LEMMA NoKind ==
  ASSUME NEW t \in Tiles, NEW D, NEW s \in Seq(Of(t, D)), NEW E, D \cap E = {}
  PROVE  ~Comes(s, Kinds(E))
BY PoolSequence, OfKinds

\* the version of the board decides what comes before the connection
LEMMA BoardVersions ==
  ASSUME NEW t \in Tiles
  PROVE  \E h :
           /\ h \in Seq(Of(t, {"connect", "return_if_internal_pps"}))
           /\ NoneAfter(h, Kinds({"connect"}), Kinds({"return_if_internal_pps"}))
           /\ (IF board[t].version = 2 THEN initialise(board[t], config, t)
                                       ELSE initialise_1_6(board[t], config, t))
                = (h \o InitialiseBoard(board[t], config, t)) \o <<Step("end")>>
<1> DEFINE D == {"connect", "return_if_internal_pps"}
<1> DEFINE c == Connect(TRUE, t)
<1> DEFINE r == <<Step("return_if_internal_pps")>>
<1>1. c \in Seq(Of(t, {"connect"})) /\ c \in Seq(Of(t, D))
  BY PoolStepWith
<1>2. ~Comes(c, Kinds({"return_if_internal_pps"}))
  <2>1. {"connect"} \cap {"return_if_internal_pps"} = {}
    OBVIOUS
  <2> QED
    BY <1>1, <2>1, NoKind
<1>3. r \in Seq(Of(t, {"return_if_internal_pps"})) /\ r \in Seq(Of(t, D))
  <2>1. Step("return_if_internal_pps") \in Of(t, {"return_if_internal_pps"})
        /\ Step("return_if_internal_pps") \in Of(t, D)
    BY PoolStep DEF PoolPlainKinds
  <2> QED
    BY <2>1
<1>4. ~Comes(r, Kinds({"connect"}))
  <2>1. {"connect"} \cap {"return_if_internal_pps"} = {}
    OBVIOUS
  <2> QED
    BY <1>3, <2>1, NoKind
<1>5. c \in Seq(BringUpStep) /\ r \in Seq(BringUpStep) /\ r \o c \in Seq(Of(t, D))
  BY <1>1, <1>3, PoolSequence, JoinedOf
<1>6. /\ NoneAfter(c, Kinds({"connect"}), Kinds({"return_if_internal_pps"}))
      /\ NoneAfter(r, Kinds({"connect"}), Kinds({"return_if_internal_pps"}))
  BY <1>2, <1>4, NothingComes
<1>7. NoneAfter(r \o c, Kinds({"connect"}), Kinds({"return_if_internal_pps"}))
  BY <1>4, <1>5, <1>6, NoneAfterJoined
<1>8. CASE board[t].version = 2
  BY <1>1, <1>6, <1>8 DEF initialise
<1>9. CASE board[t].version # 2
  BY <1>5, <1>7, <1>9 DEF initialise_1_6
<1> QED
  BY <1>8, <1>9

ToInitialise(s, t) ==
  /\ Initialising(s)
  /\ Comes(s, Kinds({"instance"}))
  /\ Comes(s, Kinds({"initialised"}))
  /\ Comes(s, Kinds({"return_unless_programmed"}))
  /\ \A f \in FpgasOf(t) : Comes(s, SetOf(f))

LEMMA InitialiseProgram ==
  ASSUME NEW t \in Tiles, NEW s, s = initialise_tile(t)
  PROVE  /\ s \in Seq(PoolSteps(t)) /\ s # <<>>
         /\ Leads(s, Kinds(EarlyKinds), {Step("end")})
         /\ ToInitialise(s, t)
<1> DEFINE All == BoardKinds \cup {"lookup", "instance", "connect", "return_if_internal_pps", "end"}
<1> DEFINE names == set_channeliser_truncation \cup stop_integrated_data
               \cup (IF config.integrate THEN configure_integrated_channel_data
                                              \cup configure_integrated_beam_data ELSE {})
<1> DEFINE l == <<Step("lookup")>>
<1> DEFINE a == create_tile_instance(t)
<1> DEFINE k == InitialiseBoard(board[t], config, t)
<1> DEFINE e == <<Step("end")>>
<1> DEFINE n == Needs(t, names)
<1>1. PICK h :
           /\ h \in Seq(Of(t, {"connect", "return_if_internal_pps"}))
           /\ NoneAfter(h, Kinds({"connect"}), Kinds({"return_if_internal_pps"}))
           /\ (IF board[t].version = 2 THEN initialise(board[t], config, t)
                                       ELSE initialise_1_6(board[t], config, t))
                = (h \o k) \o e
  BY BoardVersions
<1>2. s = ((l \o a) \o ((h \o k) \o e)) \o n
  BY <1>1 DEF initialise_tile
<1>3. names \in SUBSET PlugInNames /\ "tpm_integrator" \in names
  BY DEF set_channeliser_truncation, stop_integrated_data, configure_integrated_channel_data,
         configure_integrated_beam_data, PlugInNames
<1>4. /\ l \in Seq(Of(t, {"lookup"})) /\ a \in Seq(Of(t, {"instance"}))
      /\ e \in Seq(Of(t, {"end"})) /\ n \in Seq(Of(t, {"needs"})) /\ k \in Seq(Of(t, BoardKinds))
  <2>1. Step("lookup") \in Of(t, {"lookup"}) /\ Step("end") \in Of(t, {"end"})
    BY PoolStep DEF PoolPlainKinds
  <2>2. OfTile("instance", t) \in Of(t, {"instance"})
    BY PoolStep DEF PoolTileKinds, AboutTile
  <2>3. n \in Seq(Of(t, {"needs"}))
    BY <1>3, PoolStepWith
  <2>4. k \in Seq(Of(t, BoardKinds))
    BY BoardProgram
  <2> QED
    BY <2>1, <2>2, <2>3, <2>4 DEF create_tile_instance, Instance
<1>5. Comes(a, Kinds({"instance"})) /\ Comes(e, {Step("end")}) /\ Comes(e, Kinds({"end"}))
  <2>1. OfTile("instance", t) \in BringUpStep /\ OfTile("instance", t) \in Kinds({"instance"})
    BY TileStep DEF AboutTile, Kinds
  <2>2. Step("end") \in BringUpStep /\ Step("end") \in Kinds({"end"})
    BY PlainStep DEF Plain, Kinds
  <2> QED
    BY <2>1, <2>2, OneStep DEF create_tile_instance, Instance
<1>6. n[Len(n)] \in Kinds({"needs"}) /\ "tpm_integrator" \in n[Len(n)].names /\ Len(n) = 1
  <2> DEFINE x == [do |-> "needs", tile |-> t, names |-> names]
  <2> HIDE DEF names
  <2>1. x \in BringUpStep /\ x.do = "needs" /\ x.names = names
    BY <1>3, NeedsStep
  <2>2. n = <<x>>
    BY DEF Needs
  <2> HIDE DEF x, n
  <2>3. Len(n) = 1 /\ n[1] = x
    BY <2>2
  <2> QED
    BY <1>3, <2>1, <2>3 DEF Kinds
<1> HIDE DEF l, a, k, e, n, names
<1> DEFINE p == l \o a
<1> DEFINE q == h \o k
<1> DEFINE b == q \o e
<1> DEFINE m == p \o b
<1>7. \A D \in {{"lookup"}, {"instance"}, {"end"}, {"needs"}, BoardKinds,
                {"connect", "return_if_internal_pps"}} : D \subseteq All
  BY DEF BoardKinds
<1>8. l \in Seq(Of(t, All)) /\ a \in Seq(Of(t, All)) /\ e \in Seq(Of(t, All))
      /\ n \in Seq(Of(t, All)) /\ k \in Seq(Of(t, All)) /\ h \in Seq(Of(t, All))
  <2>1. l \in Seq(Of(t, All))
    BY <1>4, <1>7, FewerKinds
  <2>2. a \in Seq(Of(t, All))
    BY <1>4, <1>7, FewerKinds
  <2>3. e \in Seq(Of(t, All))
    BY <1>4, <1>7, FewerKinds
  <2>4. n \in Seq(Of(t, All))
    BY <1>4, <1>7, FewerKinds
  <2>5. k \in Seq(Of(t, All))
    BY <1>4, <1>7, FewerKinds
  <2>6. h \in Seq(Of(t, All))
    BY <1>1, <1>7, FewerKinds
  <2> QED
    BY <2>1, <2>2, <2>3, <2>4, <2>5, <2>6
<1>9. "download" \notin All
  BY DEF BoardKinds, SyncKinds
<1> HIDE DEF All
<1>10. p \in Seq(Of(t, All)) /\ q \in Seq(Of(t, All)) /\ b \in Seq(Of(t, All)) /\ m \in Seq(Of(t, All))
       /\ s \in Seq(Of(t, All))
  <2>1. p \in Seq(Of(t, All)) /\ q \in Seq(Of(t, All))
    BY <1>8, JoinedOf
  <2>2. b \in Seq(Of(t, All))
    BY <2>1, <1>8, JoinedOf
  <2>3. m \in Seq(Of(t, All))
    BY <2>1, <2>2, JoinedOf
  <2> QED
    BY <1>2, <1>8, <2>1, <2>2, <2>3, JoinedOf
<1>11. /\ l \in Seq(BringUpStep) /\ a \in Seq(BringUpStep) /\ e \in Seq(BringUpStep)
       /\ n \in Seq(BringUpStep) /\ k \in Seq(BringUpStep) /\ h \in Seq(BringUpStep)
       /\ p \in Seq(BringUpStep) /\ q \in Seq(BringUpStep) /\ b \in Seq(BringUpStep)
       /\ m \in Seq(BringUpStep) /\ s \in Seq(BringUpStep)
  <2>1. \A x \in Seq(Of(t, All)) : x \in Seq(BringUpStep)
    BY PoolSequence
  <2> QED
    BY <2>1, <1>8, <1>10
<1>13. p = l \o a /\ q = h \o k /\ b = q \o e /\ m = p \o b /\ s = m \o n
  BY <1>2
<1> HIDE DEF m, b, q, p
<1>12. \A X : /\ Comes(p, X) <=> Comes(l, X) \/ Comes(a, X)
              /\ Comes(q, X) <=> Comes(h, X) \/ Comes(k, X)
              /\ Comes(b, X) <=> Comes(q, X) \/ Comes(e, X)
              /\ Comes(m, X) <=> Comes(p, X) \/ Comes(b, X)
              /\ Comes(s, X) <=> Comes(m, X) \/ Comes(n, X)
  <2>1. \A x, y \in Seq(BringUpStep) : \A X : Comes(x \o y, X) <=> Comes(x, X) \/ Comes(y, X)
    BY ComesJoined
  <2>2. \A X : Comes(m \o n, X) <=> Comes(m, X) \/ Comes(n, X)
    BY <2>1, <1>11, Zenon
  <2>3. \A X : /\ Comes(l \o a, X) <=> Comes(l, X) \/ Comes(a, X)
               /\ Comes(h \o k, X) <=> Comes(h, X) \/ Comes(k, X)
               /\ Comes(q \o e, X) <=> Comes(q, X) \/ Comes(e, X)
               /\ Comes(p \o b, X) <=> Comes(p, X) \/ Comes(b, X)
    BY <2>1, <1>11, Zenon
  <2> QED
    BY <2>2, <2>3, <1>13
<1>14. s # <<>> /\ s[Len(s)] = n[Len(n)]
  <2>1. Len(m \o n) = Len(m) + 1 /\ Len(m) \in Nat /\ (m \o n)[Len(m) + 1] = n[1]
    <3>1. m \in Seq(BringUpStep) /\ n \in Seq(BringUpStep)
      BY <1>11
    <3>2. /\ Len(m \o n) = Len(m) + Len(n) /\ Len(m) \in Nat
          /\ \A i \in 1 .. Len(n) : (m \o n)[Len(m) + i] = n[i]
      BY <3>1, Joined, Zenon
    <3>3. Len(n) = 1 /\ 1 \in 1 .. 1
      BY <1>6
    <3> QED
      BY <3>2, <3>3
  <2>2. Len(s) = Len(m) + 1 /\ Len(m) \in Nat /\ s[Len(m) + 1] = n[1]
    BY <2>1, <1>13
  <2> QED
    BY <1>6, <2>2, <1>11
<1>15. \A f \in FpgasOf(t) : Comes(s, SetOf(f))
  BY <1>12, BoardProgram DEF k
<1>16. Comes(s, Kinds({"initialised"})) /\ Comes(s, Kinds({"return_unless_programmed"}))
       /\ Comes(s, Kinds({"instance"}))
  BY <1>5, <1>12, BoardProgram DEF k
<1>17. ~Comes(s, Kinds({"download"}))
  <2>1. All \cap {"download"} = {}
    BY <1>9
  <2> QED
    BY <1>10, <2>1, NoKind
<1> DEFINE Ends1 == Kinds({"end", "return_unless_programmed"})
<1> DEFINE Objects1 == Kinds({"connect", "instance"})
<1>18. /\ ~Comes(l, Ends1) /\ ~Comes(a, Ends1) /\ ~Comes(h, Ends1)
       /\ ~Comes(k, Objects1) /\ ~Comes(e, Objects1) /\ ~Comes(n, Objects1)
  <2>1. {"lookup"} \cap {"end", "return_unless_programmed"} = {}
        /\ {"instance"} \cap {"end", "return_unless_programmed"} = {}
        /\ {"connect", "return_if_internal_pps"} \cap {"end", "return_unless_programmed"} = {}
    OBVIOUS
  <2>2. BoardKinds \cap {"connect", "instance"} = {} /\ {"end"} \cap {"connect", "instance"} = {}
        /\ {"needs"} \cap {"connect", "instance"} = {}
    BY DEF BoardKinds, SyncKinds
  <2>3. ~Comes(l, Ends1)
    BY <1>4, <2>1, NoKind
  <2>4. ~Comes(a, Ends1)
    BY <1>4, <2>1, NoKind
  <2>5. ~Comes(h, Ends1)
    BY <1>1, <2>1, NoKind
  <2>6. ~Comes(k, Objects1)
    BY <1>4, <2>2, NoKind
  <2>7. ~Comes(e, Objects1)
    BY <1>4, <2>2, NoKind
  <2>8. ~Comes(n, Objects1)
    BY <1>4, <2>2, NoKind
  <2> QED
    BY <2>3, <2>4, <2>5, <2>6, <2>7, <2>8
<1>19. NoneAfter(s, Ends1, Objects1)
  <2> HIDE DEF Ends1, Objects1
  <2>1. NoneAfter(h, Ends1, Objects1) /\ NoneAfter(k, Ends1, Objects1) /\ NoneAfter(e, Ends1, Objects1)
        /\ NoneAfter(n, Ends1, Objects1) /\ NoneAfter(l, Ends1, Objects1) /\ NoneAfter(a, Ends1, Objects1)
    BY <1>18, NothingComes
  <2>2. NoneAfter(p, Ends1, Objects1) /\ NoneAfter(q, Ends1, Objects1)
    BY <2>1, <1>11, <1>13, <1>12, <1>18, NoneAfterJoined
  <2>3. NoneAfter(b, Ends1, Objects1)
    BY <2>1, <2>2, <1>11, <1>13, <1>18, NoneAfterJoined
  <2>4. NoneAfter(m, Ends1, Objects1)
    BY <2>2, <2>3, <1>11, <1>13, <1>12, <1>18, NoneAfterJoined
  <2>9. NoneAfter(m \o n, Ends1, Objects1)
    BY <2>1, <2>4, <1>11, <1>18, NoneAfterJoined, Zenon
  <2> QED
    BY <2>9, <1>13
<1> DEFINE Far == Kinds({"return_if_internal_pps"})
<1> DEFINE New == Kinds({"instance"})
<1>20. ~Comes(l, Far) /\ ~Comes(a, Far) /\ ~Comes(n, New) /\ ~Comes(h, New) /\ ~Comes(k, New) /\ ~Comes(e, New)
  <2>1. {"lookup"} \cap {"return_if_internal_pps"} = {} /\ {"instance"} \cap {"return_if_internal_pps"} = {}
        /\ {"needs"} \cap {"instance"} = {} /\ {"connect", "return_if_internal_pps"} \cap {"instance"} = {}
        /\ BoardKinds \cap {"instance"} = {} /\ {"end"} \cap {"instance"} = {}
    BY DEF BoardKinds, SyncKinds
  <2>2. ~Comes(l, Far)
    BY <1>4, <2>1, NoKind
  <2>3. ~Comes(a, Far)
    BY <1>4, <2>1, NoKind
  <2>4. ~Comes(n, New)
    BY <1>4, <2>1, NoKind
  <2>5. ~Comes(h, New)
    BY <1>1, <2>1, NoKind
  <2>6. ~Comes(k, New)
    BY <1>4, <2>1, NoKind
  <2>7. ~Comes(e, New)
    BY <1>4, <2>1, NoKind
  <2> QED
    BY <2>2, <2>3, <2>4, <2>5, <2>6, <2>7
<1>21. NoneAfter(s, Far, New)
  <2> HIDE DEF Far, New
  <2>1. ~Comes(p, Far) /\ ~Comes(b, New)
    BY <1>12, <1>20
  <2>2. NoneAfter(p, Far, New) /\ NoneAfter(b, Far, New) /\ NoneAfter(n, Far, New)
    BY <2>1, <1>20, NothingComes
  <2>3. NoneAfter(m, Far, New)
    BY <2>1, <2>2, <1>11, <1>13, NoneAfterJoined
  <2>9. NoneAfter(m \o n, Far, New)
    BY <2>2, <2>3, <1>11, <1>20, NoneAfterJoined, Zenon
  <2> QED
    BY <2>9, <1>13
<1> DEFINE Conn == Kinds({"connect"})
<1>22. ~Comes(l, Conn) /\ ~Comes(a, Conn) /\ ~Comes(k, Far) /\ ~Comes(e, Far) /\ ~Comes(n, Far)
  <2>1. {"lookup"} \cap {"connect"} = {} /\ {"instance"} \cap {"connect"} = {}
        /\ BoardKinds \cap {"return_if_internal_pps"} = {} /\ {"end"} \cap {"return_if_internal_pps"} = {}
        /\ {"needs"} \cap {"return_if_internal_pps"} = {}
    BY DEF BoardKinds, SyncKinds
  <2>2. ~Comes(l, Conn)
    BY <1>4, <2>1, NoKind
  <2>3. ~Comes(a, Conn)
    BY <1>4, <2>1, NoKind
  <2>4. ~Comes(k, Far)
    BY <1>4, <2>1, NoKind
  <2>5. ~Comes(e, Far)
    BY <1>4, <2>1, NoKind
  <2>6. ~Comes(n, Far)
    BY <1>4, <2>1, NoKind
  <2> QED
    BY <2>2, <2>3, <2>4, <2>5, <2>6
<1>23. NoneAfter(s, Conn, Far)
  <2>1. NoneAfter(h, Conn, Far)
    BY <1>1
  <2> HIDE DEF Conn, Far
  <2>2. NoneAfter(k, Conn, Far) /\ NoneAfter(e, Conn, Far) /\ NoneAfter(n, Conn, Far)
        /\ NoneAfter(p, Conn, Far) /\ ~Comes(p, Conn)
    BY <1>12, <1>22, NothingComes
  <2>3. NoneAfter(q, Conn, Far)
    BY <2>1, <2>2, <1>11, <1>13, <1>22, NoneAfterJoined
  <2>4. NoneAfter(b, Conn, Far)
    BY <2>2, <2>3, <1>11, <1>13, <1>22, NoneAfterJoined
  <2>5. NoneAfter(m, Conn, Far)
    BY <2>2, <2>4, <1>11, <1>13, NoneAfterJoined
  <2>9. NoneAfter(m \o n, Conn, Far)
    BY <2>2, <2>5, <1>11, <1>22, NoneAfterJoined, Zenon
  <2> QED
    BY <2>9, <1>13
<1> DEFINE Early == Kinds(EarlyKinds)
<1>24. ~Comes(l, Early) /\ ~Comes(a, Early) /\ ~Comes(e, Early) /\ ~Comes(n, Early)
  <2>1. {"lookup"} \cap EarlyKinds = {} /\ {"instance"} \cap EarlyKinds = {}
        /\ {"end"} \cap EarlyKinds = {} /\ {"needs"} \cap EarlyKinds = {}
    BY DEF EarlyKinds
  <2>2. ~Comes(l, Early)
    BY <1>4, <2>1, NoKind
  <2>3. ~Comes(a, Early)
    BY <1>4, <2>1, NoKind
  <2>4. ~Comes(e, Early)
    BY <1>4, <2>1, NoKind
  <2>5. ~Comes(n, Early)
    BY <1>4, <2>1, NoKind
  <2> QED
    BY <2>2, <2>3, <2>4, <2>5
<1>25. Leads(s, Early, {Step("end")})
  <2> HIDE DEF Early
  <2>1. Leads(e, Early, {Step("end")}) /\ Leads(n, Early, {Step("end")}) /\ Leads(p, Early, {Step("end")})
    BY <1>12, <1>24, NothingComes
  <2>2. Leads(b, Early, {Step("end")})
    BY <2>1, <1>5, <1>11, <1>13, LeadsJoined
  <2>3. Leads(m, Early, {Step("end")})
    BY <2>1, <2>2, <1>11, <1>13, LeadsJoined
  <2>4. Leads(m \o n, Early, {Step("end")})
    BY <2>1, <2>3, <1>11, <1>13, LeadsJoined
  <2> QED
    BY <2>4, <1>13
<1>26. s \in Seq(PoolSteps(t))
  BY <1>10, PoolSequence
<1> QED
  BY <1>6, <1>14, <1>15, <1>16, <1>17, <1>19, <1>21, <1>23, <1>25, <1>26 DEF ToInitialise, Initialising

LEMMA PoolPrograms ==
  ASSUME NEW t \in Tiles, NEW kind \in {"program_cpld", "program", "initialise"}
  PROVE  /\ PoolProgram(kind, t) \in Seq(PoolSteps(t)) /\ PoolProgram(kind, t) # <<>>
         /\ Leads(PoolProgram(kind, t), Kinds(EarlyKinds), {Step("end")})
         /\ kind = "initialise" => ToInitialise(PoolProgram(kind, t), t)
<1> DEFINE D == {"instance", "connect", "write_cpld", "bitfile", "download"}
<1> DEFINE S == Of(t, D)
<1>1. create_tile_instance(t) \in Seq(S) /\ create_tile_instance(t) # <<>>
  <2>1. OfTile("instance", t) \in S
    BY PoolStep DEF PoolTileKinds, AboutTile
  <2> QED
    BY <2>1 DEF create_tile_instance, Instance
<1>2. program_cpld(t) \in Seq(S)
  <2>1. OfTile("write_cpld", t) \in S
    BY PoolStep DEF PoolTileKinds, AboutTile
  <2>2. Connect(FALSE, t) \in Seq(S)
    BY PoolStepWith
  <2>3. <<OfTile("write_cpld", t)>> \in Seq(S)
    BY <2>1
  <2> QED
    BY <2>2, <2>3, JoinedOf DEF program_cpld
<1>3. program_fpgas(t) \in Seq(S)
  <2>1. OfTile("download", t) \in S /\ Step("bitfile") \in S
    BY PoolStep DEF PoolTileKinds, AboutTile, PoolPlainKinds
  <2>2. Connect(FALSE, t) \in Seq(S)
    BY PoolStepWith
  <2> DEFINE x == Step("bitfile")
  <2> DEFINE y == OfTile("download", t)
  <2> HIDE DEF x, y, S
  <2>3. <<x, y>> \in Seq(S)
    BY <2>1 DEF x, y
  <2>4. \A u, v \in Seq(S) : u \o v \in Seq(S)
    OBVIOUS
  <2>5. Connect(FALSE, t) \o <<x, y>> \in Seq(S)
    BY <2>2, <2>3, <2>4, Zenon
  <2> QED
    BY <2>5 DEF program_fpgas, x, y
<1>4. ASSUME NEW q \in Seq(S), NEW s, s = create_tile_instance(t) \o q
      PROVE  /\ s \in Seq(PoolSteps(t)) /\ s # <<>>
             /\ Leads(s, Kinds(EarlyKinds), {Step("end")})
  <2>1. s \in Seq(S)
    BY <1>1, <1>4, JoinedOf
  <2>2. s # <<>>
    BY <1>1, <1>4
  <2>3. D \cap EarlyKinds = {}
    BY DEF EarlyKinds
  <2>4. ~Comes(s, Kinds(EarlyKinds))
    BY <2>1, <2>3, NoKind
  <2>5. Leads(s, Kinds(EarlyKinds), {Step("end")})
    BY <2>4, NothingComes
  <2> QED
    BY <2>1, <2>2, <2>5, PoolSequence
<1>5. CASE kind = "program_cpld"
  BY <1>2, <1>4, <1>5 DEF PoolProgram
<1>6. CASE kind = "program"
  BY <1>3, <1>4, <1>6 DEF PoolProgram
<1>7. CASE kind = "initialise"
  <2>1. PoolProgram(kind, t) = initialise_tile(t)
    BY <1>7 DEF PoolProgram
  <2> QED
    BY <1>7, <2>1, InitialiseProgram
<1> QED
  BY <1>5, <1>6, <1>7
-----------------------------------------------------------------------------
(* What the station is to do                                                *)

LEMMA OneOfKind ==
  ASSUME NEW x \in BringUpStep, NEW D, x.do \in D
  PROVE  <<x>> \in Seq(Kinds(D)) /\ x \in Kinds(D)
<1>1. x \in Kinds(D)
  BY DEF Kinds
<1> QED
  BY <1>1

LEMMA JoinedKinds ==
  ASSUME NEW D, NEW E, NEW F, NEW a \in Seq(Kinds(D)), NEW b \in Seq(Kinds(E)), D \cup E \subseteq F
  PROVE  a \o b \in Seq(Kinds(F))
<1>1. Kinds(D) \subseteq Kinds(F) /\ Kinds(E) \subseteq Kinds(F)
  BY DEF Kinds
<1>2. a \in Seq(Kinds(F)) /\ b \in Seq(Kinds(F))
  BY <1>1
<1> QED
  BY <1>2

LEMMA NoSuchKind ==
  ASSUME NEW D, NEW s \in Seq(Kinds(D)), NEW E, D \cap E = {}
  PROVE  ~Comes(s, Kinds(E))
BY OfKinds

LEMMA KindsFpga ==
  ASSUME NEW do \in AboutFpga, NEW f \in Fpgas
  PROVE  /\ OfFpga(do, f) \in Kinds({do}) /\ <<OfFpga(do, f)>> \in Seq(Kinds({do}))
BY FpgaStep, OneOfKind

LEMMA KindsOfTile ==
  ASSUME NEW do \in AboutTile, NEW t \in Tiles
  PROVE  /\ OfTile(do, t) \in Kinds({do}) /\ <<OfTile(do, t)>> \in Seq(Kinds({do}))
BY TileStep, OneOfKind

LEMMA KindsOfNeeds ==
  ASSUME NEW t \in Tiles, NEW names \in SUBSET PlugInNames
  PROVE  /\ Needs(t, names) \in Seq(Kinds({"needs"}))
         /\ Len(Needs(t, names)) = 1 /\ Needs(t, names)[1] \in Kinds({"needs"})
<1> DEFINE x == [do |-> "needs", tile |-> t, names |-> names]
<1>1. x \in BringUpStep /\ x.do = "needs"
  BY NeedsStep
<1>2. Needs(t, names) = <<x>>
  BY DEF Needs
<1> HIDE DEF x
<1>3. x \in Kinds({"needs"})
  BY <1>1 DEF Kinds
<1> QED
  BY <1>2, <1>3

\* an element of the pairs of FPGAs of the tiles
LEMMA ForAllFpgas ==
  ASSUME NEW do \in AboutFpga, NEW calls,
         \A t \in Tiles : calls[t] = <<OfFpga(do, <<t, 1>>)>> \o <<OfFpga(do, <<t, 2>>)>>
  PROVE  /\ ForTiles(2, calls) \in Seq(Kinds({do}))
         /\ \A f \in Fpgas : Comes(ForTiles(2, calls), {OfFpga(do, f)})
<1>1. \A t \in Tiles : calls[t][1] = OfFpga(do, <<t, 1>>) /\ calls[t][2] = OfFpga(do, <<t, 2>>)
  <2> SUFFICES ASSUME NEW t \in Tiles
               PROVE  calls[t][1] = OfFpga(do, <<t, 1>>) /\ calls[t][2] = OfFpga(do, <<t, 2>>)
    OBVIOUS
  <2> DEFINE x == OfFpga(do, <<t, 1>>)
  <2> DEFINE y == OfFpga(do, <<t, 2>>)
  <2>1. calls[t] = <<x>> \o <<y>>
    OBVIOUS
  <2> HIDE DEF x, y
  <2>2. calls[t][1] = x /\ calls[t][2] = y
    BY <2>1
  <2> QED
    BY <2>2 DEF x, y
<1>2. \A t \in Tiles : \A k \in 1 .. 2 : calls[t][k] \in Kinds({do})
  <2> SUFFICES ASSUME NEW t \in Tiles
               PROVE  calls[t][1] \in Kinds({do}) /\ calls[t][2] \in Kinds({do})
    <3>1. \A k \in 1 .. 2 : k = 1 \/ k = 2
      OBVIOUS
    <3> QED
      BY <3>1
  <2>1. <<t, 1>> \in Fpgas /\ <<t, 2>> \in Fpgas
    BY FpgasOfTile, BothFpgas
  <2> QED
    BY <1>1, <2>1, KindsFpga
<1>3. Kinds({do}) \in SUBSET BringUpStep
  BY DEF Kinds
<1>4. /\ ForTiles(2, calls) \in Seq(Kinds({do}))
      /\ \A t \in Tiles : \A k \in 1 .. 2 : \A X : calls[t][k] \in X => Comes(ForTiles(2, calls), X)
  BY <1>2, <1>3, ForAllTiles
<1>5. ASSUME NEW f \in Fpgas PROVE Comes(ForTiles(2, calls), {OfFpga(do, f)})
  <2>1. f[1] \in Tiles /\ (f = <<f[1], 1>> \/ f = <<f[1], 2>>)
    BY FpgasOfTile, BothFpgas
  <2>2. calls[f[1]][1] = OfFpga(do, f) \/ calls[f[1]][2] = OfFpga(do, f)
    BY <1>1, <2>1
  <2> QED
    BY <1>4, <2>1, <2>2
<1> QED
  BY <1>4, <1>5

LEMMA SamplingProgram ==
  ASSUME NEW n \in Nat
  PROVE  /\ SamplingLoop(n) \in Seq(Kinds({"await_pps", "compare_delays"}))
         /\ Comes(SamplingLoop(n), Kinds({"compare_delays"}))
<1> DEFINE x == [do |-> "compare_delays", attempt |-> n]
<1>1. x \in BringUpStep /\ x.do = "compare_delays"
  BY CompareStep
<1> DEFINE w == wait_pps_event(1)
<1> DEFINE c == <<x>>
<1>2. SamplingLoop(n) = w \o c
  BY DEF SamplingLoop
<1>3. w \in Seq(Kinds({"await_pps"}))
  BY KindsOfTile DEF wait_pps_event, AboutTile, Tiles
<1> HIDE DEF x, w
<1>4. c \in Seq(Kinds({"compare_delays"})) /\ Comes(c, Kinds({"compare_delays"}))
  BY <1>1, OneOfKind, OneStep
<1> HIDE DEF c
<1>5. w \o c \in Seq(Kinds({"await_pps", "compare_delays"}))
  <2>1. {"await_pps"} \cup {"compare_delays"} \subseteq {"await_pps", "compare_delays"}
    OBVIOUS
  <2> QED
    BY <1>3, <1>4, <2>1, JoinedKinds
<1>6. w \in Seq(BringUpStep) /\ c \in Seq(BringUpStep)
  BY <1>3, <1>4, OfKinds
<1>7. Comes(w \o c, Kinds({"compare_delays"}))
  BY <1>4, <1>6, ComesJoined
<1> QED
  BY <1>2, <1>5, <1>7

LEMMA SampleAll ==
  ASSUME NEW target \in Int, NEW s,
         s = ForTiles(1, [t \in Tiles |-> set_pps_sampling(t, target, MaxDelaySkew)])
  PROVE  /\ s \in Seq(Kinds({"sampling"}))
         /\ \A i \in 1 .. Len(s) : s[i].target = target
         /\ \A t \in Tiles : Comes(s, SamplingOf(t))
<1> DEFINE calls == [t \in Tiles |-> set_pps_sampling(t, target, MaxDelaySkew)]
<1> DEFINE S == {x \in Kinds({"sampling"}) : x.target = target}
<1>1. \A t \in Tiles : calls[t][1] \in S /\ calls[t][1] \in SamplingOf(t)
  <2> SUFFICES ASSUME NEW t \in Tiles PROVE calls[t][1] \in S /\ calls[t][1] \in SamplingOf(t)
    OBVIOUS
  <2> DEFINE x == [do |-> "sampling", tile |-> t, target |-> target, margin |-> 4]
  <2>1. x \in BringUpStep /\ x.do = "sampling" /\ x.tile = t /\ x.target = target
    BY SamplingStep
  <2>2. calls[t] = <<x>>
    BY DEF set_pps_sampling, MaxDelaySkew
  <2> HIDE DEF x, calls
  <2>3. calls[t][1] = x
    BY <2>2
  <2> QED
    BY <2>1, <2>3 DEF Kinds, SamplingOf
<1>2. \A t \in Tiles : \A k \in 1 .. 1 : calls[t][k] \in S
  BY <1>1
<1>3. S \in SUBSET BringUpStep /\ S \subseteq Kinds({"sampling"})
  BY DEF Kinds
<1>4. s = ForTiles(1, calls)
  OBVIOUS
<1> HIDE DEF calls, S
<1>5. /\ s \in Seq(S)
      /\ \A t \in Tiles : \A k \in 1 .. 1 : \A X : calls[t][k] \in X => Comes(s, X)
  BY <1>2, <1>3, <1>4, ForAllTiles
<1>6. \A i \in 1 .. Len(s) : s[i] \in S
  BY <1>5
<1>7. s \in Seq(Kinds({"sampling"}))
  BY <1>3, <1>5
<1> QED
  BY <1>1, <1>5, <1>6, <1>7 DEF S

TimeKinds == {"await_pps", "hold_clock", "read_clock", "compare_all"}

LEMMA TimeProgram ==
  ASSUME NEW n \in Nat, NEW s, s = TimeAttempt(n)
  PROVE  /\ s \in Seq(Kinds(TimeKinds))
         /\ Comes(s, Kinds({"compare_all"}))
         /\ \A f \in Fpgas : /\ Comes(s, ReadOf(f))
                             /\ Leads(s, Kinds({"await_pps", "compare_delays"}), ReadOf(f))
         /\ NoneAfter(s, Kinds({"compare_all"}), Kinds({"compare_all", "read_clock"}))
<1> DEFINE w == wait_pps_event(1)
<1> DEFINE h == <<OfFpga("hold_clock", <<1, 1>>)>>
<1> DEFINE calls == [t \in Tiles |-> ForBoth(t, get_fpga_time)]
<1> DEFINE r == ForTiles(2, calls)
<1> DEFINE x == [do |-> "compare_all", attempt |-> n]
<1> DEFINE Wait == Kinds({"await_pps", "compare_delays"})
<1>1. s = ((w \o h) \o r) \o <<x>>
  BY DEF TimeAttempt
<1>2. w \in Seq(Kinds({"await_pps"}))
  BY KindsOfTile DEF wait_pps_event, AboutTile, Tiles
<1>3. h \in Seq(Kinds({"hold_clock"}))
  <2>1. <<1, 1>> \in Fpgas
    BY DEF Fpgas
  <2> QED
    BY <2>1, KindsFpga DEF AboutFpga
<1>4. r \in Seq(Kinds({"read_clock"})) /\ \A f \in Fpgas : Comes(r, ReadOf(f))
  <2>1. \A t \in Tiles : calls[t] = <<OfFpga("read_clock", <<t, 1>>)>> \o <<OfFpga("read_clock", <<t, 2>>)>>
    BY DEF ForBoth, get_fpga_time
  <2> HIDE DEF calls
  <2>2. "read_clock" \in AboutFpga
    BY DEF AboutFpga
  <2> QED
    BY <2>1, <2>2, ForAllFpgas DEF ReadOf
<1>5. x \in BringUpStep /\ x.do = "compare_all"
  BY CompareStep
<1> HIDE DEF w, h, r, x, calls
<1>6. <<x>> \in Seq(Kinds({"compare_all"})) /\ Comes(<<x>>, Kinds({"compare_all"}))
  BY <1>5, OneOfKind, OneStep
<1> DEFINE c == <<x>>
<1> HIDE DEF c
<1> DEFINE p == w \o h
<1> DEFINE q == p \o r
<1>7. p \in Seq(Kinds(TimeKinds \ {"compare_all", "read_clock"}))
  <2>1. {"await_pps"} \cup {"hold_clock"} \subseteq TimeKinds \ {"compare_all", "read_clock"}
    BY DEF TimeKinds
  <2> QED
    BY <1>2, <1>3, <2>1, JoinedKinds
<1> HIDE DEF p
<1>8. q \in Seq(Kinds(TimeKinds \ {"compare_all"}))
  <2>1. (TimeKinds \ {"compare_all", "read_clock"}) \cup {"read_clock"} \subseteq TimeKinds \ {"compare_all"}
    BY DEF TimeKinds
  <2> QED
    BY <1>7, <1>4, <2>1, JoinedKinds
<1> HIDE DEF q
<1>9. q \o c \in Seq(Kinds(TimeKinds))
  <2>1. (TimeKinds \ {"compare_all"}) \cup {"compare_all"} \subseteq TimeKinds
    BY DEF TimeKinds
  <2> QED
    BY <1>8, <1>6, <2>1, JoinedKinds DEF c
<1>10. p \in Seq(BringUpStep) /\ q \in Seq(BringUpStep) /\ r \in Seq(BringUpStep) /\ c \in Seq(BringUpStep)
  BY <1>4, <1>6, <1>7, <1>8, OfKinds DEF c
<1>11. Comes(q \o c, Kinds({"compare_all"}))
  BY <1>6, <1>10, ComesJoined DEF c
<1>12. ASSUME NEW f \in Fpgas PROVE Comes(q \o c, ReadOf(f)) /\ Leads(q \o c, Wait, ReadOf(f))
  <2>1. Comes(q, ReadOf(f))
    BY <1>4, <1>10, ComesJoined DEF q
  <2>2. ~Comes(r, Wait) /\ ~Comes(c, Wait)
    <3>1. {"read_clock"} \cap {"await_pps", "compare_delays"} = {}
          /\ {"compare_all"} \cap {"await_pps", "compare_delays"} = {}
      OBVIOUS
    <3>2. ~Comes(r, Wait)
      BY <1>4, <3>1, NoSuchKind
    <3>3. ~Comes(c, Wait)
      BY <1>6, <3>1, NoSuchKind DEF c
    <3> QED
      BY <3>2, <3>3
  <2>3. Leads(r, Wait, ReadOf(f)) /\ Leads(c, Wait, ReadOf(f))
    BY <2>2, NothingComes
  <2>4. Leads(p \o r, Wait, ReadOf(f))
    BY <1>4, <1>10, <2>3, LeadsJoined
  <2>5. Leads(q \o c, Wait, ReadOf(f))
    BY <1>10, <2>3, <2>4, LeadsJoined DEF q
  <2> QED
    BY <2>1, <2>5, <1>10, ComesJoined
<1>13. NoneAfter(q \o c, Kinds({"compare_all"}), Kinds({"compare_all", "read_clock"}))
  <2>1. (TimeKinds \ {"compare_all"}) \cap {"compare_all"} = {}
    OBVIOUS
  <2>2. ~Comes(q, Kinds({"compare_all"}))
    BY <1>8, <2>1, NoSuchKind
  <2>3. NoneAfter(q, Kinds({"compare_all"}), Kinds({"compare_all", "read_clock"}))
    BY <2>2, NothingComes
  <2>4. NoneAfter(c, Kinds({"compare_all"}), Kinds({"compare_all", "read_clock"}))
    BY <1>5, OneStep DEF c
  <2> QED
    BY <1>10, <2>2, <2>3, <2>4, NoneAfterJoined
<1> QED
  BY <1>1, <1>9, <1>11, <1>12, <1>13 DEF c, q, p

LEMMA SetAll ==
  ASSUME NEW s, s = ForTiles(2, [t \in Tiles |-> ForBoth(t, set_fpga_time)])
  PROVE  s \in Seq(Kinds({"set_clock"})) /\ \A f \in Fpgas : Comes(s, SetOf(f))
<1> DEFINE calls == [t \in Tiles |-> ForBoth(t, set_fpga_time)]
<1>1. \A t \in Tiles : calls[t] = <<OfFpga("set_clock", <<t, 1>>)>> \o <<OfFpga("set_clock", <<t, 2>>)>>
  BY DEF ForBoth, set_fpga_time
<1>2. s = ForTiles(2, calls)
  OBVIOUS
<1> HIDE DEF calls
<1>3. "set_clock" \in AboutFpga
  BY DEF AboutFpga
<1> QED
  BY <1>1, <1>2, <1>3, ForAllFpgas DEF SetOf

StartKinds == {"needs", "check_arp", "hold_clock", "start_at", "check_start", "await_started"}

LEMMA TwoSteps ==
  ASSUME NEW x, NEW y
  PROVE  /\ <<x, y>> = <<x>> \o <<y>>
         /\ Len(<<x>> \o <<y>>) = 2 /\ (<<x>> \o <<y>>)[1] = x /\ (<<x>> \o <<y>>)[2] = y
         /\ <<x>> \o <<y>> \in Seq({x, y})
<1> DEFINE a == <<x>>
<1> DEFINE b == <<y>>
<1>1. a \in Seq({x, y}) /\ b \in Seq({x, y}) /\ Len(a) = 1 /\ Len(b) = 1 /\ a[1] = x /\ b[1] = y
  OBVIOUS
<1> HIDE DEF a, b
<1> DEFINE T == {x, y}
<1> HIDE DEF T
<1>2. a \o b \in Seq({x, y}) /\ Len(a \o b) = 2 /\ (a \o b)[1] = x /\ (a \o b)[2] = y
  <2>1. a \in Seq(T) /\ b \in Seq(T)
    BY <1>1 DEF T
  <2>2. /\ a \o b \in Seq(T) /\ Len(a \o b) = Len(a) + Len(b)
        /\ \A i \in 1 .. Len(a) : (a \o b)[i] = a[i]
        /\ \A i \in 1 .. Len(b) : (a \o b)[Len(a) + i] = b[i]
    BY <2>1
  <2>3. (a \o b)[1 + 1] = b[1] /\ (a \o b)[1] = a[1]
    BY <1>1, <2>2
  <2> QED
    BY <1>1, <2>2, <2>3 DEF T
<1> DEFINE c == a \o b
<1> HIDE DEF c
<1>3. c \in Seq({x, y}) /\ Len(c) = 2 /\ c[1] = x /\ c[2] = y
  BY <1>2 DEF c
<1>4. <<x, y>> = c
  <2> DEFINE d == <<x, y>>
  <2>1. d \in Seq({x, y}) /\ Len(d) = 2 /\ d[1] = x /\ d[2] = y
    OBVIOUS
  <2> HIDE DEF d
  <2>2. d = c
    BY <1>3, <2>1
  <2> QED
    BY <2>2 DEF d
<1> QED
  BY <1>2, <1>4 DEF c, a, b

LEMMA ThreeSteps ==
  ASSUME NEW a \in Seq(BringUpStep), NEW x \in BringUpStep, NEW y \in BringUpStep, Len(a) = 1
  PROVE  /\ (a \o (<<x>> \o <<y>>))[1] = a[1]
         /\ (a \o (<<x>> \o <<y>>))[2] = x
         /\ (a \o (<<x>> \o <<y>>))[3] = y
<1> DEFINE b == <<x>> \o <<y>>
<1>1. b \in Seq({x, y}) /\ Len(b) = 2 /\ b[1] = x /\ b[2] = y
  BY TwoSteps
<1> HIDE DEF b
<1>2. b \in Seq(BringUpStep)
  BY <1>1
<1>3. /\ \A i \in 1 .. Len(a) : (a \o b)[i] = a[i]
      /\ \A i \in 1 .. Len(b) : (a \o b)[Len(a) + i] = b[i]
  BY <1>2, Joined, Zenon
<1>4. 1 \in 1 .. Len(a) /\ 1 \in 1 .. Len(b) /\ 2 \in 1 .. Len(b) /\ Len(a) + 1 = 2 /\ Len(a) + 2 = 3
  BY <1>1
<1>5. (a \o b)[1] = a[1] /\ (a \o b)[Len(a) + 1] = b[1] /\ (a \o b)[Len(a) + 2] = b[2]
  BY <1>3, <1>4, Zenon
<1>6. (a \o b)[1] = a[1] /\ (a \o b)[2] = x /\ (a \o b)[3] = y
  BY <1>1, <1>4, <1>5, Zenon
<1> QED
  BY <1>6 DEF b

LEMMA LinksProgram ==
  ASSUME NEW s,
         s = ForTiles(3, [t \in Tiles |-> Needs(t, reset_eth_errors(board[t])) \o check_arp_table(t)])
  PROVE  s \in Seq(Kinds({"needs", "check_arp"}))
<1> DEFINE calls == [t \in Tiles |-> Needs(t, reset_eth_errors(board[t])) \o check_arp_table(t)]
<1>1. ASSUME NEW t \in Tiles, NEW k \in 1 .. 3 PROVE calls[t][k] \in Kinds({"needs", "check_arp"})
  <2> DEFINE a == Needs(t, reset_eth_errors(board[t]))
  <2> DEFINE x == [do |-> "needs", tile |-> t, names |-> {"tpm_10g_core"}]
  <2> DEFINE y == OfTile("check_arp", t)
  <2>1. calls[t] = a \o (<<x>> \o <<y>>)
    BY DEF check_arp_table, Needs
  <2>2. reset_eth_errors(board[t]) \in SUBSET PlugInNames /\ {"tpm_10g_core"} \in SUBSET PlugInNames
    BY DEF reset_eth_errors, PlugInNames
  <2>3. a \in Seq(Kinds({"needs"})) /\ Len(a) = 1 /\ a[1] \in Kinds({"needs"})
    BY <2>2, KindsOfNeeds
  <2>4. x \in BringUpStep /\ x.do = "needs"
    BY <2>2, NeedsStep
  <2>5. y \in BringUpStep /\ y.do = "check_arp"
    BY TileStep DEF AboutTile
  <2> HIDE DEF a, x, y, calls
  <2>6. calls[t][1] = a[1] /\ calls[t][2] = x /\ calls[t][3] = y
    <3>1. a \in Seq(BringUpStep)
      BY <2>3, OfKinds
    <3> QED
      BY <2>1, <2>3, <2>4, <2>5, <3>1, ThreeSteps
  <2>7. a[1] \in Kinds({"needs", "check_arp"}) /\ x \in Kinds({"needs", "check_arp"})
        /\ y \in Kinds({"needs", "check_arp"})
    BY <2>3, <2>4, <2>5 DEF Kinds
  <2>8. k = 1 \/ k = 2 \/ k = 3
    OBVIOUS
  <2> QED
    BY <2>6, <2>7, <2>8
<1>2. s = ForTiles(3, calls)
  OBVIOUS
<1> HIDE DEF calls
<1>3. Kinds({"needs", "check_arp"}) \in SUBSET BringUpStep
  BY DEF Kinds
<1>4. \A t \in Tiles : \A k \in 1 .. 3 : calls[t][k] \in Kinds({"needs", "check_arp"})
  BY <1>1
<1> QED
  BY <1>2, <1>3, <1>4, ForAllTiles

LEMMA StartAll ==
  ASSUME NEW s, s = ForTiles(3, [t \in Tiles |-> start_acquisition(board[t], t)])
  PROVE  s \in Seq(Kinds({"needs", "start_at"})) /\ \A f \in Fpgas : Comes(s, StartOf(f))
<1> DEFINE calls == [t \in Tiles |-> start_acquisition(board[t], t)]
<1>1. ASSUME NEW t \in Tiles
      PROVE  /\ calls[t][1] \in Kinds({"needs", "start_at"})
             /\ calls[t][2] = OfFpga("start_at", <<t, 1>>) /\ calls[t][3] = OfFpga("start_at", <<t, 2>>)
  <2> DEFINE names == IF "station_beamformer" \in board[t].features THEN set_beamformer_epoch ELSE {}
  <2> DEFINE a == Needs(t, names)
  <2> DEFINE x == OfFpga("start_at", <<t, 1>>)
  <2> DEFINE y == OfFpga("start_at", <<t, 2>>)
  <2>1. calls[t] = a \o (<<x>> \o <<y>>)
    BY DEF start_acquisition, ForBoth
  <2>2. names \in SUBSET PlugInNames
    BY DEF set_beamformer_epoch, PlugInNames
  <2> HIDE DEF names
  <2>3. a \in Seq(Kinds({"needs"})) /\ Len(a) = 1 /\ a[1] \in Kinds({"needs"})
    BY <2>2, KindsOfNeeds
  <2> HIDE DEF a, x, y, calls
  <2>4. calls[t][1] = a[1] /\ calls[t][2] = x /\ calls[t][3] = y
    <3>1. a \in Seq(BringUpStep)
      BY <2>3, OfKinds
    <3>2. x \in BringUpStep /\ y \in BringUpStep
      <4>1. <<t, 1>> \in Fpgas /\ <<t, 2>> \in Fpgas /\ "start_at" \in AboutFpga
        BY FpgasOfTile, BothFpgas DEF AboutFpga
      <4> QED
        BY <4>1, FpgaStep DEF x, y
    <3> QED
      BY <2>1, <2>3, <3>1, <3>2, ThreeSteps
  <2>5. a[1] \in Kinds({"needs", "start_at"})
    BY <2>3 DEF Kinds
  <2> QED
    BY <2>4, <2>5 DEF x, y
<1>2. s = ForTiles(3, calls)
  OBVIOUS
<1> HIDE DEF calls
<1>3. Kinds({"needs", "start_at"}) \in SUBSET BringUpStep
  BY DEF Kinds
<1>4. ASSUME NEW t \in Tiles, NEW k \in 1 .. 3 PROVE calls[t][k] \in Kinds({"needs", "start_at"})
  <2>1. <<t, 1>> \in Fpgas /\ <<t, 2>> \in Fpgas
    BY FpgasOfTile, BothFpgas
  <2>2. \A f \in Fpgas : OfFpga("start_at", f) \in Kinds({"needs", "start_at"})
    BY FpgaStep DEF Kinds, AboutFpga
  <2>3. k = 1 \/ k = 2 \/ k = 3
    OBVIOUS
  <2> QED
    BY <1>1, <2>1, <2>2, <2>3
<1>5. /\ s \in Seq(Kinds({"needs", "start_at"}))
      /\ \A t \in Tiles : \A k \in 1 .. 3 : \A X : calls[t][k] \in X => Comes(s, X)
  BY <1>2, <1>3, <1>4, ForAllTiles
<1>6. ASSUME NEW f \in Fpgas PROVE Comes(s, StartOf(f))
  <2>1. f[1] \in Tiles /\ (f = <<f[1], 1>> \/ f = <<f[1], 2>>)
    BY FpgasOfTile, BothFpgas
  <2>2. calls[f[1]][2] = OfFpga("start_at", f) \/ calls[f[1]][3] = OfFpga("start_at", f)
    BY <1>1, <2>1
  <2>3. 2 \in 1 .. 3 /\ 3 \in 1 .. 3
    OBVIOUS
  <2> QED
    BY <1>5, <2>1, <2>2, <2>3 DEF StartOf
<1> QED
  BY <1>5, <1>6

\* the order of what starts the acquisition of data
Starting(s) ==
  /\ s \in Seq(Kinds(StartKinds))
  /\ Comes(s, Kinds({"hold_clock"})) /\ Comes(s, Kinds({"check_start"}))
  /\ \A f \in Fpgas : Comes(s, StartOf(f)) /\ Leads(s, Kinds({"hold_clock", "compare_all"}), StartOf(f))
  /\ Leads(s, Kinds({"hold_clock", "start_at"}), Kinds({"check_start"}))
  /\ Leads(s, Kinds({"check_start"}), Kinds({"await_started"}))
  /\ NoneAfter(s, Kinds({"check_start"}), Kinds({"check_start"}))
  /\ NoneAfter(s, Kinds({"await_started"}), Kinds({"await_started", "compare_all"}))

LEMMA StartProgram == Starting(_start_acquisition)
<1> DEFINE a == ForTiles(3, [t \in Tiles |-> Needs(t, reset_eth_errors(board[t])) \o check_arp_table(t)])
<1> DEFINE h == <<OfFpga("hold_clock", <<1, 1>>)>>
<1> DEFINE b == ForTiles(3, [t \in Tiles |-> start_acquisition(board[t], t)])
<1> DEFINE x == Step("check_start")
<1> DEFINE y == Step("await_started")
<1> DEFINE Hold == Kinds({"hold_clock", "compare_all"})
<1> DEFINE Hold2 == Kinds({"hold_clock", "start_at"})
<1> DEFINE Checks == Kinds({"check_start"})
<1> DEFINE Wait == Kinds({"await_started"})
<1> DEFINE Wait2 == Kinds({"await_started", "compare_all"})
<1>1. _start_acquisition = ((a \o h) \o b) \o <<x, y>>
  BY DEF _start_acquisition
<1>2. a \in Seq(Kinds({"needs", "check_arp"}))
  BY LinksProgram
<1>3. b \in Seq(Kinds({"needs", "start_at"})) /\ \A f \in Fpgas : Comes(b, StartOf(f))
  BY StartAll
<1>4. h \in Seq(Kinds({"hold_clock"})) /\ Comes(h, Kinds({"hold_clock"}))
  <2>1. <<1, 1>> \in Fpgas /\ "hold_clock" \in AboutFpga
    BY DEF Fpgas, AboutFpga
  <2>2. OfFpga("hold_clock", <<1, 1>>) \in BringUpStep /\ OfFpga("hold_clock", <<1, 1>>) \in Kinds({"hold_clock"})
    BY <2>1, FpgaStep, KindsFpga
  <2> QED
    BY <2>1, <2>2, KindsFpga, OneStep
<1>5. x \in BringUpStep /\ x.do = "check_start" /\ y \in BringUpStep /\ y.do = "await_started"
  BY PlainStep DEF Plain
<1> HIDE DEF a, h, b, x, y
<1> DEFINE cx == <<x>>
<1> DEFINE cy == <<y>>
<1>6. <<x, y>> = cx \o cy
  BY TwoSteps
<1>7. cx \in Seq(BringUpStep) /\ cy \in Seq(BringUpStep)
      /\ cx \in Seq(Kinds({"check_start"})) /\ cy \in Seq(Kinds({"await_started"}))
  BY <1>5, OneOfKind, OneStep
<1>8. /\ Comes(cx, Checks) /\ Comes(cy, Wait)
      /\ ~Comes(cy, Checks) /\ ~Comes(cx, Wait) /\ ~Comes(cx, Wait2) /\ ~Comes(cx, Hold2) /\ ~Comes(cy, Hold2)
      /\ ~Comes(cx, Hold) /\ ~Comes(cy, Hold)
  BY <1>5, OneStep DEF Kinds
<1>9. NoneAfter(cx, Checks, Checks) /\ NoneAfter(cy, Wait, Wait2)
  BY <1>5, OneStep
<1> DEFINE p == a \o h
<1> DEFINE q == p \o b
<1> DEFINE c == cx \o cy
<1> HIDE DEF cx, cy, Hold, Hold2, Checks, Wait, Wait2
<1>10. p \in Seq(Kinds({"needs", "check_arp", "hold_clock"}))
  <2>1. {"needs", "check_arp"} \cup {"hold_clock"} \subseteq {"needs", "check_arp", "hold_clock"}
    OBVIOUS
  <2> QED
    BY <1>2, <1>4, <2>1, JoinedKinds
<1> HIDE DEF p
<1>11. q \in Seq(Kinds({"needs", "check_arp", "hold_clock", "start_at"}))
  <2>1. {"needs", "check_arp", "hold_clock"} \cup {"needs", "start_at"}
          \subseteq {"needs", "check_arp", "hold_clock", "start_at"}
    OBVIOUS
  <2> QED
    BY <1>3, <1>10, <2>1, JoinedKinds
<1> HIDE DEF q
<1>12. c \in Seq(Kinds({"check_start", "await_started"}))
  <2>1. {"check_start"} \cup {"await_started"} \subseteq {"check_start", "await_started"}
    OBVIOUS
  <2> QED
    BY <1>7, <2>1, JoinedKinds
<1>13. /\ NoneAfter(c, Checks, Checks) /\ NoneAfter(c, Wait, Wait2) /\ Leads(c, Checks, Wait)
       /\ Comes(c, Checks) /\ Leads(c, Hold, {}) /\ ~Comes(c, Hold) /\ ~Comes(c, Hold2)
  <2>1. NoneAfter(cy, Checks, Checks) /\ NoneAfter(cx, Wait, Wait2) /\ Leads(cy, Checks, Wait)
    BY <1>8, NothingComes
  <2>2. NoneAfter(cx \o cy, Checks, Checks)
    BY <2>1, <1>7, <1>8, <1>9, NoneAfterJoined
  <2>3. NoneAfter(cx \o cy, Wait, Wait2)
    BY <2>1, <1>7, <1>8, <1>9, NoneAfterJoined
  <2>4. Leads(cx \o cy, Checks, Wait)
    BY <2>1, <1>7, <1>8, LeadsJoined
  <2>5. Comes(cx \o cy, Checks) /\ ~Comes(cx \o cy, Hold) /\ ~Comes(cx \o cy, Hold2)
    BY <1>7, <1>8, ComesJoined
  <2> QED
    BY <2>2, <2>3, <2>4, <2>5, NothingComes
<1> HIDE DEF c
<1>14. q \o c \in Seq(Kinds(StartKinds))
  <2>1. {"needs", "check_arp", "hold_clock", "start_at"} \cup {"check_start", "await_started"}
          \subseteq StartKinds
    BY DEF StartKinds
  <2> QED
    BY <1>11, <1>12, <2>1, JoinedKinds
<1>15. a \in Seq(BringUpStep) /\ h \in Seq(BringUpStep) /\ b \in Seq(BringUpStep) /\ p \in Seq(BringUpStep)
       /\ q \in Seq(BringUpStep) /\ c \in Seq(BringUpStep)
  BY <1>2, <1>3, <1>4, <1>10, <1>11, <1>12, OfKinds
<1>16. ~Comes(q, Checks) /\ ~Comes(q, Wait) /\ ~Comes(b, Hold)
  <2>1. {"needs", "check_arp", "hold_clock", "start_at"} \cap {"check_start"} = {}
        /\ {"needs", "check_arp", "hold_clock", "start_at"} \cap {"await_started"} = {}
        /\ {"needs", "start_at"} \cap {"hold_clock", "compare_all"} = {}
    OBVIOUS
  <2>2. ~Comes(q, Checks)
    BY <1>11, <2>1, NoSuchKind DEF Checks
  <2>3. ~Comes(q, Wait)
    BY <1>11, <2>1, NoSuchKind DEF Wait
  <2>4. ~Comes(b, Hold)
    BY <1>3, <2>1, NoSuchKind DEF Hold
  <2> QED
    BY <2>2, <2>3, <2>4
<1>17. NoneAfter(q, Checks, Checks) /\ NoneAfter(q, Wait, Wait2) /\ Leads(q, Checks, Wait)
  BY <1>16, NothingComes
<1>18. NoneAfter(q \o c, Checks, Checks)
  BY <1>13, <1>15, <1>16, <1>17, NoneAfterJoined
<1>19. NoneAfter(q \o c, Wait, Wait2)
  BY <1>13, <1>15, <1>16, <1>17, NoneAfterJoined
<1>20. Leads(q \o c, Checks, Wait)
  BY <1>13, <1>15, <1>17, LeadsJoined
<1>21. Leads(q \o c, Hold2, Checks)
  <2>1. Leads(c, Hold2, Checks)
    BY <1>13, NothingComes
  <2> QED
    BY <2>1, <1>13, <1>15, LeadsJoined
<1>22. ASSUME NEW f \in Fpgas PROVE Comes(q \o c, StartOf(f)) /\ Leads(q \o c, Hold, StartOf(f))
  <2>1. Comes(q, StartOf(f))
    BY <1>3, <1>15, ComesJoined DEF q
  <2>2. Leads(b, Hold, StartOf(f)) /\ Leads(c, Hold, StartOf(f))
    BY <1>13, <1>16, NothingComes
  <2>3. Leads(p \o b, Hold, StartOf(f))
    BY <1>3, <1>15, <2>2, LeadsJoined
  <2>4. Leads(q \o c, Hold, StartOf(f))
    BY <1>15, <2>2, <2>3, LeadsJoined DEF q
  <2> QED
    BY <1>15, <2>1, <2>4, ComesJoined
<1>23. Comes(q \o c, Kinds({"hold_clock"})) /\ Comes(q \o c, Checks)
  <2>1. Comes(p, Kinds({"hold_clock"}))
    BY <1>4, <1>15, ComesJoined DEF p
  <2>2. Comes(q, Kinds({"hold_clock"}))
    BY <2>1, <1>15, ComesJoined DEF q
  <2> QED
    BY <2>2, <1>13, <1>15, ComesJoined
<1>24. _start_acquisition = q \o c
  BY <1>1, <1>6 DEF q, p, c
<1> QED
  BY <1>14, <1>18, <1>19, <1>20, <1>21, <1>22, <1>23, <1>24 DEF Starting, Hold, Hold2, Checks, Wait, Wait2

LEMMA PreAduProgram == PreAdus \in Seq(Kinds({"needs", "needs_programmed"}))
<1> DEFINE K == Kinds({"needs", "needs_programmed"})
<1> DEFINE c1 == [t \in Tiles |-> Needs(t, set_preadu_attenuation)]
<1> DEFINE c2 == [t \in Tiles |-> equalize_preadu_gain(t)]
<1>1. K \in SUBSET BringUpStep /\ Kinds({"needs"}) \subseteq K
  BY DEF Kinds
<1>2. {} \in SUBSET PlugInNames
  OBVIOUS
<1>3. \A t \in Tiles : \A k \in 1 .. 1 : c1[t][k] \in K
  BY <1>1, <1>2, KindsOfNeeds DEF set_preadu_attenuation
<1>4. ASSUME NEW t \in Tiles, NEW k \in 1 .. 2 PROVE c2[t][k] \in K
  <2> DEFINE x == [do |-> "needs", tile |-> t, names |-> {}]
  <2> DEFINE y == OfTile("needs_programmed", t)
  <2>1. c2[t] = <<x>> \o <<y>>
    BY DEF equalize_preadu_gain, get_adc_rms, Needs
  <2>2. x \in BringUpStep /\ x.do = "needs"
    BY <1>2, NeedsStep
  <2>3. y \in BringUpStep /\ y.do = "needs_programmed"
    BY TileStep DEF AboutTile
  <2> HIDE DEF x, y, c2
  <2>4. c2[t][1] = x /\ c2[t][2] = y
    BY <2>1, TwoSteps
  <2>5. k = 1 \/ k = 2
    OBVIOUS
  <2> QED
    BY <2>2, <2>3, <2>4, <2>5 DEF Kinds
<1> DEFINE s1 == ForTiles(1, c1)
<1> DEFINE s2 == IF config.equalize_preadu THEN ForTiles(2, c2) ELSE <<>>
<1>5. PreAdus = IF config.enable_test THEN <<>> ELSE s1 \o s2
  BY DEF PreAdus
<1> HIDE DEF c1, c2, K
<1>6. s1 \in Seq(K)
  BY <1>1, <1>3, ForAllTiles
<1>7. s2 \in Seq(K)
  <2>1. ForTiles(2, c2) \in Seq(K)
    BY <1>1, <1>4, ForAllTiles
  <2> QED
    BY <2>1
<1> HIDE DEF s1, s2
<1>8. s1 \o s2 \in Seq(K) /\ <<>> \in Seq(K)
  BY <1>6, <1>7
<1> QED
  BY <1>5, <1>8 DEF K

\* what comes first when the station is formed
LEMMA FirstNeeds ==
  LET s == Needs(1, {"tpm_test_firmware"})
             \o (IF {"tile_beamformer", "station_beamformer"} \subseteq board[1].features
                   THEN ForTiles(1, [t \in Tiles |->
                          Needs(t, initialise_beamformer \cup IF t = NofTiles THEN define_spead_header ELSE {})])
                   ELSE <<>>)
  IN s \in Seq(Kinds({"needs"})) /\ s # <<>>
<1> DEFINE K == Kinds({"needs"})
<1> DEFINE c == [t \in Tiles |->
                  Needs(t, initialise_beamformer \cup IF t = NofTiles THEN define_spead_header ELSE {})]
<1> DEFINE n == Needs(1, {"tpm_test_firmware"})
<1> DEFINE m == IF {"tile_beamformer", "station_beamformer"} \subseteq board[1].features
                  THEN ForTiles(1, c) ELSE <<>>
<1>1. K \in SUBSET BringUpStep
  BY DEF Kinds
<1>2. n \in Seq(K) /\ Len(n) = 1
  <2>1. 1 \in Tiles /\ {"tpm_test_firmware"} \in SUBSET PlugInNames
    BY DEF Tiles, PlugInNames
  <2> QED
    BY <2>1, KindsOfNeeds
<1>3. \A t \in Tiles : \A k \in 1 .. 1 : c[t][k] \in K
  <2> SUFFICES ASSUME NEW t \in Tiles PROVE c[t][1] \in K
    OBVIOUS
  <2> DEFINE names == initialise_beamformer \cup IF t = NofTiles THEN define_spead_header ELSE {}
  <2>1. names \in SUBSET PlugInNames
    BY DEF initialise_beamformer, define_spead_header, PlugInNames
  <2> HIDE DEF names
  <2>2. Needs(t, names)[1] \in K
    BY <2>1, KindsOfNeeds
  <2> QED
    BY <2>2 DEF names
<1> HIDE DEF c, K, n
<1>4. m \in Seq(K)
  <2>1. ForTiles(1, c) \in Seq(K)
    BY <1>1, <1>3, ForAllTiles
  <2> QED
    BY <2>1
<1> HIDE DEF m
<1>5. n \o m \in Seq(K) /\ n \o m # <<>>
  BY <1>2, <1>4
<1> QED
  BY <1>5 DEF n, m, c, K

ToForm(s) ==
  /\ s \in Seq(Kinds(FormKinds)) /\ s # <<>> /\ InOrder(s)
  /\ Comes(s, Kinds({"compare_delays"})) /\ Comes(s, Kinds({"compare_all"}))
  /\ Comes(s, Kinds({"hold_clock"})) /\ Comes(s, Kinds({"check_start"}))
  /\ ~Comes(s, Kinds({"set_clock"})) /\ ~Comes(s, Kinds({"sampling"}))
  /\ \A f \in Fpgas : Comes(s, ReadOf(f))

LEMMA FormProgram == ToForm(Form)
<1> DEFINE n == Needs(1, {"tpm_test_firmware"})
                  \o (IF {"tile_beamformer", "station_beamformer"} \subseteq board[1].features
                        THEN ForTiles(1, [t \in Tiles |->
                               Needs(t, initialise_beamformer \cup IF t = NofTiles THEN define_spead_header ELSE {})])
                        ELSE <<>>)
<1> DEFINE l == SamplingLoop(1)
<1> DEFINE t == TimeAttempt(1)
<1> DEFINE b == _start_acquisition
<1> DEFINE e == PreAdus
<1>1. Form = (((n \o l) \o t) \o b) \o e
  BY DEF Form, _check_pps_sampling_synchronisation, _check_time_synchronisation
<1>2. n \in Seq(Kinds({"needs"})) /\ n # <<>>
  BY FirstNeeds
<1>3. l \in Seq(Kinds({"await_pps", "compare_delays"})) /\ Comes(l, Kinds({"compare_delays"}))
  BY SamplingProgram
<1>4. /\ t \in Seq(Kinds(TimeKinds))
      /\ Comes(t, Kinds({"compare_all"}))
      /\ \A f \in Fpgas : /\ Comes(t, ReadOf(f))
                          /\ Leads(t, Kinds({"await_pps", "compare_delays"}), ReadOf(f))
      /\ NoneAfter(t, Kinds({"compare_all"}), Kinds({"compare_all", "read_clock"}))
  BY TimeProgram
<1>5. Starting(b)
  BY StartProgram
<1>6. e \in Seq(Kinds({"needs", "needs_programmed"}))
  BY PreAduProgram
<1> HIDE DEF n, l, t, b, e
<1> DEFINE p == n \o l
<1> DEFINE q == p \o t
<1> DEFINE r == q \o b
<1> DEFINE s == r \o e
<1> DEFINE DP == {"needs", "await_pps", "compare_delays"}
<1> DEFINE DQ == DP \cup TimeKinds
<1> DEFINE DR == DQ \cup StartKinds
<1> DEFINE DE == {"needs", "needs_programmed"}
<1>7. p \in Seq(Kinds(DP))
  <2>1. {"needs"} \cup {"await_pps", "compare_delays"} \subseteq DP
    OBVIOUS
  <2> QED
    BY <1>2, <1>3, <2>1, JoinedKinds
<1> HIDE DEF p
<1>8. q \in Seq(Kinds(DQ))
  BY <1>4, <1>7, JoinedKinds
<1> HIDE DEF q
<1>9. r \in Seq(Kinds(DR))
  BY <1>5, <1>8, JoinedKinds DEF Starting
<1> HIDE DEF r
<1>10. s \in Seq(Kinds(DR \cup DE))
  BY <1>6, <1>9, JoinedKinds
<1>11. /\ n \in Seq(BringUpStep) /\ l \in Seq(BringUpStep) /\ t \in Seq(BringUpStep)
       /\ b \in Seq(BringUpStep) /\ e \in Seq(BringUpStep) /\ p \in Seq(BringUpStep)
       /\ q \in Seq(BringUpStep) /\ r \in Seq(BringUpStep) /\ s \in Seq(BringUpStep)
  BY <1>2, <1>3, <1>4, <1>5, <1>6, <1>7, <1>8, <1>9, <1>10, OfKinds DEF Starting
<1> HIDE DEF s
<1>12. /\ DR \cup DE \subseteq FormKinds
       /\ (DR \cup DE) \cap {"set_clock"} = {} /\ (DR \cup DE) \cap {"sampling"} = {}
  BY DEF FormKinds, TimeKinds, StartKinds
<1>13. s \in Seq(Kinds(FormKinds))
  <2>1. DR \cup DE \subseteq FormKinds
    BY <1>12
  <2> HIDE DEF DR, DE
  <2>2. r \o e \in Seq(Kinds(FormKinds))
    BY <1>6, <1>9, <2>1, JoinedKinds DEF DE
  <2> QED
    BY <2>2 DEF s
<1>14. ~Comes(s, Kinds({"set_clock"})) /\ ~Comes(s, Kinds({"sampling"}))
  BY <1>10, <1>12, NoSuchKind
<1>15. \A X : /\ Comes(p, X) <=> Comes(n, X) \/ Comes(l, X)
              /\ Comes(q, X) <=> Comes(p, X) \/ Comes(t, X)
              /\ Comes(r, X) <=> Comes(q, X) \/ Comes(b, X)
              /\ Comes(s, X) <=> Comes(r, X) \/ Comes(e, X)
  <2>1. \A x, y \in Seq(BringUpStep) : \A X : Comes(x \o y, X) <=> Comes(x, X) \/ Comes(y, X)
    BY ComesJoined
  <2>2. p = n \o l /\ q = p \o t /\ r = q \o b /\ s = r \o e
    BY DEF p, q, r, s
  <2> QED
    BY <2>1, <2>2, <1>11, Zenon
<1>16. /\ Comes(s, Kinds({"compare_delays"})) /\ Comes(s, Kinds({"compare_all"}))
       /\ Comes(s, Kinds({"hold_clock"})) /\ Comes(s, Kinds({"check_start"}))
       /\ \A f \in Fpgas : Comes(s, ReadOf(f))
  BY <1>3, <1>4, <1>5, <1>15 DEF Starting
<1>17. NoneAfter(s, Kinds(FormKinds \ {"set_clock"}), Kinds({"set_clock"}))
  BY <1>14, NothingComes
\* what none of e, b, p and q has
<1> DEFINE All == Kinds({"compare_all"})
<1> DEFINE Read == Kinds({"compare_all", "read_clock"})
<1> DEFINE Checks == Kinds({"check_start"})
<1> DEFINE Wait == Kinds({"await_started"})
<1> DEFINE Wait2 == Kinds({"await_started", "compare_all"})
<1> DEFINE Start == Kinds({"await_pps", "compare_delays"})
<1> DEFINE Hold == Kinds({"hold_clock", "compare_all"})
<1> DEFINE Before == Kinds({"await_pps", "compare_delays", "compare_all", "set_clock"})
<1> DEFINE Hold2 == Kinds({"hold_clock", "start_at"})
<1>18. /\ ~Comes(e, All) /\ ~Comes(e, Read) /\ ~Comes(e, Checks) /\ ~Comes(e, Wait) /\ ~Comes(e, Wait2)
       /\ ~Comes(e, Start) /\ ~Comes(e, Hold) /\ ~Comes(e, Before) /\ ~Comes(e, Hold2)
  <2>1. \A D : DE \cap D = {} => ~Comes(e, Kinds(D))
    BY <1>6, OfKinds
  <2>2. DE \cap {"compare_all"} = {} /\ DE \cap {"compare_all", "read_clock"} = {}
        /\ DE \cap {"check_start"} = {} /\ DE \cap {"await_started"} = {}
        /\ DE \cap {"await_started", "compare_all"} = {}
    OBVIOUS
  <2>3. DE \cap {"await_pps", "compare_delays"} = {} /\ DE \cap {"hold_clock", "compare_all"} = {}
        /\ DE \cap {"await_pps", "compare_delays", "compare_all", "set_clock"} = {}
        /\ DE \cap {"hold_clock", "start_at"} = {}
    OBVIOUS
  <2> QED
    BY <2>1, <2>2, <2>3, Zenon
<1>19. ~Comes(b, All) /\ ~Comes(b, Read) /\ ~Comes(b, Start) /\ ~Comes(b, Before)
  <2>1. \A D : StartKinds \cap D = {} => ~Comes(b, Kinds(D))
    BY <1>5, OfKinds DEF Starting
  <2>2. /\ StartKinds \cap {"compare_all"} = {} /\ StartKinds \cap {"compare_all", "read_clock"} = {}
        /\ StartKinds \cap {"await_pps", "compare_delays"} = {}
        /\ StartKinds \cap {"await_pps", "compare_delays", "compare_all", "set_clock"} = {}
    BY DEF StartKinds
  <2> QED
    BY <2>1, <2>2, Zenon
<1>20. ~Comes(p, All) /\ ~Comes(q, Checks) /\ ~Comes(q, Wait)
  <2>1. DP \cap {"compare_all"} = {} /\ DQ \cap {"check_start"} = {} /\ DQ \cap {"await_started"} = {}
    BY DEF TimeKinds
  <2>2. ~Comes(p, All)
    BY <1>7, <2>1, NoSuchKind
  <2>3. ~Comes(q, Checks)
    BY <1>8, <2>1, NoSuchKind
  <2>4. ~Comes(q, Wait)
    BY <1>8, <2>1, NoSuchKind
  <2> QED
    BY <2>2, <2>3, <2>4
<1>21. /\ NoneAfter(b, Checks, Checks) /\ NoneAfter(b, Wait, Wait2) /\ Leads(b, Checks, Wait)
       /\ Leads(b, Hold2, Checks) /\ Comes(b, Checks) /\ Comes(b, Kinds({"hold_clock"}))
       /\ \A f \in Fpgas : Comes(b, StartOf(f)) /\ Leads(b, Hold, StartOf(f))
  BY <1>5 DEF Starting
<1>22. NoneAfter(t, All, Read) /\ \A f \in Fpgas : Leads(t, Start, ReadOf(f)) /\ Comes(t, ReadOf(f))
  BY <1>4
<1> HIDE DEF All, Read, Checks, Wait, Wait2, Start, Hold, Before, Hold2
<1>23. NoneAfter(s, All, Read)
  <2>1. NoneAfter(p, All, Read) /\ NoneAfter(b, All, Read) /\ NoneAfter(e, All, Read)
    BY <1>18, <1>19, <1>20, NothingComes
  <2>2. NoneAfter(p \o t, All, Read)
    BY <1>11, <1>20, <1>22, <2>1, NoneAfterJoined
  <2>3. NoneAfter(q \o b, All, Read)
    BY <1>11, <1>19, <2>1, <2>2, NoneAfterJoined DEF q
  <2>4. NoneAfter(r \o e, All, Read)
    BY <1>11, <1>18, <2>1, <2>3, NoneAfterJoined DEF r
  <2> QED
    BY <2>4 DEF s
<1>24. NoneAfter(s, Checks, Checks)
  <2>1. NoneAfter(q, Checks, Checks) /\ NoneAfter(e, Checks, Checks)
    BY <1>18, <1>20, NothingComes
  <2>2. NoneAfter(q \o b, Checks, Checks)
    BY <1>11, <1>20, <1>21, <2>1, NoneAfterJoined
  <2>3. NoneAfter(r \o e, Checks, Checks)
    BY <1>11, <1>18, <2>1, <2>2, NoneAfterJoined DEF r
  <2> QED
    BY <2>3 DEF s
<1>25. NoneAfter(s, Wait, Wait2)
  <2>1. NoneAfter(q, Wait, Wait2) /\ NoneAfter(e, Wait, Wait2)
    BY <1>18, <1>20, NothingComes
  <2>2. NoneAfter(q \o b, Wait, Wait2)
    BY <1>11, <1>20, <1>21, <2>1, NoneAfterJoined
  <2>3. NoneAfter(r \o e, Wait, Wait2)
    BY <1>11, <1>18, <2>1, <2>2, NoneAfterJoined DEF r
  <2> QED
    BY <2>3 DEF s
<1>26. ASSUME NEW f \in Fpgas PROVE Leads(s, Start, ReadOf(f))
  <2>1. Leads(b, Start, ReadOf(f)) /\ Leads(e, Start, ReadOf(f))
    BY <1>18, <1>19, NothingComes
  <2>2. Leads(p \o t, Start, ReadOf(f))
    BY <1>11, <1>22, LeadsJoined
  <2>3. Leads(q \o b, Start, ReadOf(f))
    BY <1>11, <2>1, <2>2, LeadsJoined DEF q
  <2>4. Leads(r \o e, Start, ReadOf(f))
    BY <1>11, <2>1, <2>3, LeadsJoined DEF r
  <2> QED
    BY <2>4 DEF s
<1>27. ASSUME NEW f \in Fpgas PROVE Leads(s, Hold, StartOf(f))
  <2>1. Leads(e, Hold, StartOf(f))
    BY <1>18, NothingComes
  <2>2. Leads(q \o b, Hold, StartOf(f))
    BY <1>11, <1>21, LeadsJoined
  <2>3. Leads(r \o e, Hold, StartOf(f))
    BY <1>11, <2>1, <2>2, LeadsJoined DEF r
  <2> QED
    BY <2>3 DEF s
<1>28. Leads(s, Before, Kinds({"hold_clock"}))
  <2>1. Leads(b, Before, Kinds({"hold_clock"})) /\ Leads(e, Before, Kinds({"hold_clock"}))
    BY <1>18, <1>19, NothingComes
  <2>2. Leads(q \o b, Before, Kinds({"hold_clock"}))
    BY <1>11, <1>21, <2>1, LeadsJoined
  <2>3. Leads(r \o e, Before, Kinds({"hold_clock"}))
    BY <1>11, <2>1, <2>2, LeadsJoined DEF r
  <2> QED
    BY <2>3 DEF s
<1>29. Leads(s, Hold2, Checks)
  <2>1. Leads(e, Hold2, Checks)
    BY <1>18, NothingComes
  <2>2. Leads(q \o b, Hold2, Checks)
    BY <1>11, <1>21, LeadsJoined
  <2>3. Leads(r \o e, Hold2, Checks)
    BY <1>11, <2>1, <2>2, LeadsJoined DEF r
  <2> QED
    BY <2>3 DEF s
<1>30. Leads(s, Checks, Wait)
  <2>1. Leads(q, Checks, Wait) /\ Leads(e, Checks, Wait)
    BY <1>18, <1>20, NothingComes
  <2>2. Leads(q \o b, Checks, Wait)
    BY <1>11, <1>21, <2>1, LeadsJoined
  <2>3. Leads(r \o e, Checks, Wait)
    BY <1>11, <2>1, <2>2, LeadsJoined DEF r
  <2> QED
    BY <2>3 DEF s
<1>31. InOrder(s)
  BY <1>17, <1>23, <1>24, <1>25, <1>26, <1>27, <1>28, <1>29, <1>30
     DEF InOrder, All, Read, Checks, Wait, Wait2, Start, Hold, Before, Hold2
<1>32. Form = s
  BY <1>1 DEF s, r, q, p
<1>33. s # <<>>
  <2>1. ~Comes(<<>>, Kinds({"compare_all"}))
    BY DEF Comes
  <2> QED
    BY <1>16, <2>1
<1> QED
  BY <1>13, <1>14, <1>16, <1>31, <1>32, <1>33 DEF ToForm
-----------------------------------------------------------------------------
(* The program of connect                                                   *)

LEMMA MappedJoined ==
  ASSUME NEW a \in Seq(BringUpStep), NEW b \in Seq(BringUpStep), Mapped(a), Mapped(b)
  PROVE  Mapped(a \o b)
<1> SUFFICES ASSUME NEW i \in 1 .. Len(a \o b), (a \o b)[i] \in Kinds({"map"})
             PROVE  i < Len(a \o b) /\ (a \o b)[i + 1] = Step("join")
  BY DEF Mapped
<1>1. CASE i <= Len(a)
  <2>1. i \in 1 .. Len(a) /\ a[i] = (a \o b)[i]
    BY <1>1, Joined
  <2>2. i < Len(a) /\ a[i + 1] = Step("join")
    BY <2>1 DEF Mapped
  <2>3. i + 1 \in 1 .. Len(a) /\ (a \o b)[i + 1] = a[i + 1]
    BY <2>2, Joined
  <2> QED
    BY <2>2, <2>3, Joined
<1>2. CASE i > Len(a)
  <2>1. i - Len(a) \in 1 .. Len(b) /\ b[i - Len(a)] = (a \o b)[i]
    BY <1>2, Joined
  <2>2. i - Len(a) < Len(b) /\ b[(i - Len(a)) + 1] = Step("join")
    BY <2>1 DEF Mapped
  <2>3. (i - Len(a)) + 1 \in 1 .. Len(b) /\ (a \o b)[i + 1] = b[(i - Len(a)) + 1]
    BY <1>2, <2>2, Joined
  <2> QED
    BY <2>2, <2>3, Joined
<1> QED
  BY <1>1, <1>2, Joined

LEMMA NoMap ==
  ASSUME NEW D, NEW s \in Seq(Kinds(D)), "map" \notin D
  PROVE  Mapped(s) /\ ~Comes(s, Kinds({"map"})) /\ ~Comes(s, OtherMaps) /\ ~Comes(s, MapOf("initialise"))
<1>1. ~Comes(s, Kinds({"map"}))
  <2>1. D \cap {"map"} = {}
    OBVIOUS
  <2> QED
    BY <2>1, NoSuchKind
<1>2. Mapped(s)
  BY <1>1 DEF Mapped, Comes
<1> QED
  BY <1>1, <1>2, StepSets, ComesMore DEF OtherMaps

LEMMA PhaseProgram ==
  ASSUME NEW kind \in {"program_cpld", "program", "initialise"}
  PROVE  /\ Phase(kind) \in Seq(Kinds({"map", "join"})) /\ Mapped(Phase(kind))
         /\ kind = "initialise" => ~Comes(Phase(kind), OtherMaps)
         /\ kind = "initialise" /\ config[kind] => Comes(Phase(kind), MapOf("initialise"))
<1> DEFINE x == [do |-> "map", of |-> kind]
<1> DEFINE y == Step("join")
<1>1. x \in BringUpStep /\ x.do = "map" /\ x.of = kind
  BY MapStep
<1>2. y \in BringUpStep /\ y.do = "join"
  BY PlainStep DEF Plain
<1>3. Phase(kind) = IF config[kind] THEN <<x, y>> ELSE <<>>
  BY DEF Phase
<1>4. x \in MapOf(kind) /\ (kind = "initialise" => x \notin OtherMaps)
  BY DEF MapOf, OtherMaps
<1>5. y \notin OtherMaps /\ y \notin Kinds({"map"})
  BY <1>2 DEF OtherMaps, Kinds
<1>6. x \in Kinds({"map", "join"}) /\ y \in Kinds({"map", "join"})
  BY <1>1, <1>2 DEF Kinds
<1> HIDE DEF x
<1>7. CASE ~config[kind]
  BY <1>3, <1>7 DEF Mapped, Comes
<1>8. CASE config[kind]
  <2> DEFINE s == <<x, y>>
  <2>1. Len(s) = 2 /\ s[1] = x /\ s[2] = y /\ s \in Seq(Kinds({"map", "join"}))
    BY <1>6
  <2>2. Phase(kind) = s
    BY <1>3, <1>8
  <2> HIDE DEF s
  <2>3. \A i \in 1 .. Len(s) : i = 1 \/ i = 2
    BY <2>1
  <2>4. Mapped(s)
    BY <1>5, <2>1, <2>3 DEF Mapped, y
  <2>5. kind = "initialise" => ~Comes(s, OtherMaps)
    BY <1>4, <1>5, <2>1, <2>3 DEF Comes
  <2>6. kind = "initialise" => Comes(s, MapOf("initialise"))
    BY <1>4, <2>1 DEF Comes
  <2> QED
    BY <2>1, <2>2, <2>4, <2>5, <2>6
<1> QED
  BY <1>7, <1>8

LEMMA ConnectAll ==
  ASSUME NEW s, s = ForTiles(1, [t \in Tiles |-> Connect(TRUE, t)])
  PROVE  s \in Seq(Kinds({"connect"}))
<1> DEFINE c == [t \in Tiles |-> Connect(TRUE, t)]
<1>1. ASSUME NEW t \in Tiles, NEW k \in 1 .. 1 PROVE c[t][k] \in Kinds({"connect"})
  <2> DEFINE x == [do |-> "connect", tile |-> t, plugins |-> TRUE]
  <2>1. x \in BringUpStep /\ x.do = "connect"
    BY ConnectStep
  <2>2. c[t] = <<x>>
    BY DEF Connect
  <2>3. k = 1
    OBVIOUS
  <2> HIDE DEF x, c
  <2> QED
    BY <2>1, <2>2, <2>3 DEF Kinds
<1>2. Kinds({"connect"}) \in SUBSET BringUpStep
  BY DEF Kinds
<1> HIDE DEF c
<1>3. ForTiles(1, c) \in Seq(Kinds({"connect"}))
  BY <1>1, <1>2, ForAllTiles
<1> QED
  BY <1>3 DEF c

LEMMA ConnectProgram ==
  /\ connect \in Seq(BringUpStep) /\ Connecting(connect)
  /\ config.initialise => Comes(connect, MapOf("initialise"))
<1> DEFINE a1 == Phase("program_cpld")
<1> DEFINE a2 == Phase("program")
<1> DEFINE a3 == Phase("initialise")
<1> DEFINE c == ForTiles(1, [t \in Tiles |-> Connect(TRUE, t)])
<1> DEFINE e == Step("form")
<1> DEFINE M == {"map", "join"}
<1>1. connect = (((a1 \o a2) \o a3) \o c) \o <<e>>
  BY DEF connect
<1>2. /\ a1 \in Seq(Kinds(M)) /\ a2 \in Seq(Kinds(M)) /\ a3 \in Seq(Kinds(M))
      /\ Mapped(a1) /\ Mapped(a2) /\ Mapped(a3)
      /\ ~Comes(a3, OtherMaps) /\ (config.initialise => Comes(a3, MapOf("initialise")))
  BY PhaseProgram
<1>3. c \in Seq(Kinds({"connect"})) /\ Mapped(c) /\ ~Comes(c, OtherMaps)
  BY ConnectAll, NoMap
<1>4. e \in BringUpStep /\ e.do = "form" /\ <<e>> \in Seq(Kinds({"form"})) /\ <<e>> \in Seq(BringUpStep)
      /\ Len(<<e>>) = 1 /\ <<e>>[1] = e
  BY PlainStep, OneOfKind DEF Plain
<1>5. Mapped(<<e>>) /\ ~Comes(<<e>>, OtherMaps)
  BY <1>4, NoMap
<1> HIDE DEF a1, a2, a3, c
<1> DEFINE p == a1 \o a2
<1> DEFINE q == p \o a3
<1> DEFINE r == q \o c
<1>6. p \in Seq(Kinds(M))
  <2>1. M \cup M \subseteq M
    OBVIOUS
  <2> QED
    BY <1>2, <2>1, JoinedKinds
<1>7. q \in Seq(Kinds(M))
  <2>1. M \cup M \subseteq M
    OBVIOUS
  <2> HIDE DEF p
  <2> QED
    BY <1>2, <1>6, <2>1, JoinedKinds
<1>8. r \in Seq(Kinds(ConnectKinds))
  <2>1. M \cup {"connect"} \subseteq ConnectKinds
    BY DEF ConnectKinds
  <2> HIDE DEF q
  <2> QED
    BY <1>3, <1>7, <2>1, JoinedKinds
<1>9. /\ a1 \in Seq(BringUpStep) /\ a2 \in Seq(BringUpStep) /\ a3 \in Seq(BringUpStep)
      /\ c \in Seq(BringUpStep) /\ p \in Seq(BringUpStep) /\ q \in Seq(BringUpStep)
      /\ r \in Seq(BringUpStep)
  <2> HIDE DEF p, q, r
  <2> QED
    BY <1>2, <1>3, <1>6, <1>7, <1>8, OfKinds
<1>10. Mapped(r \o <<e>>)
  <2>1. Mapped(p)
    BY <1>2, <1>9, MappedJoined
  <2>2. Mapped(q)
    <3> HIDE DEF p
    <3> QED
      BY <1>2, <1>9, <2>1, MappedJoined
  <2>3. Mapped(r)
    <3> HIDE DEF q
    <3> QED
      BY <1>3, <1>9, <2>2, MappedJoined
  <2> HIDE DEF r
  <2> QED
    BY <1>4, <1>5, <1>9, <2>3, MappedJoined
<1>11. ASSUME config.initialise
       PROVE  Leads(r \o <<e>>, OtherMaps, MapOf("initialise")) /\ Comes(r \o <<e>>, MapOf("initialise"))
  <2> DEFINE I == MapOf("initialise")
  <2>1. Comes(a3, I) /\ Leads(a3, OtherMaps, I) /\ Leads(c, OtherMaps, I) /\ Leads(<<e>>, OtherMaps, I)
    BY <1>2, <1>3, <1>5, <1>11, NothingComes
  <2> HIDE DEF I
  <2>2. Leads(q, OtherMaps, I) /\ Comes(q, I)
    <3> HIDE DEF p
    <3> QED
      BY <1>9, <2>1, LeadsJoined, ComesJoined
  <2>3. Leads(r, OtherMaps, I) /\ Comes(r, I)
    <3> HIDE DEF q
    <3> QED
      BY <1>9, <2>1, <2>2, LeadsJoined, ComesJoined
  <2>4. Leads(r \o <<e>>, OtherMaps, I) /\ Comes(r \o <<e>>, I)
    <3> HIDE DEF r
    <3> QED
      BY <1>4, <1>9, <2>1, <2>3, LeadsJoined, ComesJoined
  <2> QED
    BY <2>4 DEF I
<1> DEFINE s == r \o <<e>>
<1>12. connect = s
  BY <1>1
<1> HIDE DEF p, q, r
<1>13. s \in Seq(BringUpStep) /\ Len(s) = Len(r) + 1 /\ Len(r) \in Nat /\ s[Len(s)] = e
       /\ \A i \in 1 .. Len(r) : s[i] = r[i]
  BY <1>4, <1>9
<1>14. \A i \in 1 .. Len(s) - 1 : s[i] \in Kinds(ConnectKinds)
  <2>1. \A i \in 1 .. Len(r) : r[i] \in Kinds(ConnectKinds)
    BY <1>8
  <2> QED
    BY <1>13, <2>1
<1>15. s # <<>>
  BY <1>13
<1>16. Connecting(s)
  <2>1. Mapped(s) /\ (config.initialise => Leads(s, OtherMaps, MapOf("initialise")))
    BY <1>10, <1>11
  <2> HIDE DEF s
  <2> QED
    BY <1>13, <1>14, <1>15, <2>1 DEF Connecting, e
<1> QED
  BY <1>11, <1>12, <1>13, <1>16
-----------------------------------------------------------------------------
(* The order of the steps of the forming                                    *)

HeadInOrder(x, rest) ==
  /\ x.do # "set_clock" => ~Comes(rest, Kinds({"set_clock"}))
  /\ x.do = "compare_all" => ~Comes(rest, Kinds({"compare_all", "read_clock"}))
  /\ x.do = "check_start" => ~Comes(rest, Kinds({"check_start"}))
  /\ x.do = "await_started" => ~Comes(rest, Kinds({"await_started", "compare_all"}))
  /\ x.do \in {"await_pps", "compare_delays"} => \A f \in Fpgas : Comes(rest, ReadOf(f))
  /\ x.do \in {"hold_clock", "compare_all"} => \A f \in Fpgas : Comes(rest, StartOf(f))
  /\ x.do \in {"await_pps", "compare_delays", "compare_all", "set_clock"} => Comes(rest, Kinds({"hold_clock"}))
  /\ x.do \in {"hold_clock", "start_at"} => Comes(rest, Kinds({"check_start"}))
  /\ x.do = "check_start" => Comes(rest, Kinds({"await_started"}))

LEMMA KindsTail ==
  ASSUME NEW D, NEW s \in Seq(Kinds(D)), s # <<>>
  PROVE  /\ Tail(s) \in Seq(Kinds(D)) /\ Head(s) \in Kinds(D)
         /\ Head(s) \in BringUpStep /\ Head(s).do \in D
<1> DEFINE K == Kinds(D)
<1>1. K \subseteq BringUpStep /\ \A x \in K : x.do \in D
  BY DEF Kinds
<1> HIDE DEF K
<1>2. Tail(s) \in Seq(K) /\ Head(s) \in K
  BY DEF K
<1> QED
  BY <1>1, <1>2 DEF K

LEMMA InOrderTail ==
  ASSUME NEW s \in Seq(Kinds(FormKinds)), s # <<>>, InOrder(s)
  PROVE  /\ Tail(s) \in Seq(Kinds(FormKinds)) /\ InOrder(Tail(s))
         /\ Head(s) \in BringUpStep /\ Head(s).do \in FormKinds
         /\ HeadInOrder(Head(s), Tail(s))
<1> DEFINE x == Head(s)
<1> DEFINE r == Tail(s)
<1>1. r \in Seq(Kinds(FormKinds)) /\ x \in BringUpStep /\ x.do \in FormKinds
  BY KindsTail
<1>2. s \in Seq(BringUpStep)
  BY OfKinds
<1>3. \A X, Y : NoneAfter(s, X, Y) => NoneAfter(r, X, Y) /\ (x \in X => ~Comes(r, Y))
  BY <1>2, NoneAfterInTail
<1>4. \A X, Y : Leads(s, X, Y) => Leads(r, X, Y) /\ (x \in X => Comes(r, Y))
  BY <1>2, LeadsInTail
<1>5. \A D : x.do \in D => x \in Kinds(D)
  BY <1>1 DEF Kinds
<1> HIDE DEF x, r
<1>6. /\ NoneAfter(r, Kinds(FormKinds \ {"set_clock"}), Kinds({"set_clock"}))
      /\ x.do # "set_clock" => ~Comes(r, Kinds({"set_clock"}))
  <2>1. x.do # "set_clock" => x \in Kinds(FormKinds \ {"set_clock"})
    BY <1>1, <1>5
  <2> QED
    BY <1>3, <2>1 DEF InOrder
<1>7. /\ NoneAfter(r, Kinds({"compare_all"}), Kinds({"compare_all", "read_clock"}))
      /\ x.do = "compare_all" => ~Comes(r, Kinds({"compare_all", "read_clock"}))
  <2>1. x.do = "compare_all" => x \in Kinds({"compare_all"})
    BY <1>5
  <2> QED
    BY <1>3, <2>1 DEF InOrder
<1>8. /\ NoneAfter(r, Kinds({"check_start"}), Kinds({"check_start"}))
      /\ x.do = "check_start" => ~Comes(r, Kinds({"check_start"}))
  <2>1. x.do = "check_start" => x \in Kinds({"check_start"})
    BY <1>5
  <2> QED
    BY <1>3, <2>1 DEF InOrder
<1>9. /\ NoneAfter(r, Kinds({"await_started"}), Kinds({"await_started", "compare_all"}))
      /\ x.do = "await_started" => ~Comes(r, Kinds({"await_started", "compare_all"}))
  <2>1. x.do = "await_started" => x \in Kinds({"await_started"})
    BY <1>5
  <2> QED
    BY <1>3, <2>1 DEF InOrder
<1>10. ASSUME NEW f \in Fpgas
       PROVE  /\ Leads(r, Kinds({"await_pps", "compare_delays"}), ReadOf(f))
              /\ x.do \in {"await_pps", "compare_delays"} => Comes(r, ReadOf(f))
  <2>1. x.do \in {"await_pps", "compare_delays"} => x \in Kinds({"await_pps", "compare_delays"})
    BY <1>5
  <2> QED
    BY <1>4, <2>1 DEF InOrder
<1>11. ASSUME NEW f \in Fpgas
       PROVE  /\ Leads(r, Kinds({"hold_clock", "compare_all"}), StartOf(f))
              /\ x.do \in {"hold_clock", "compare_all"} => Comes(r, StartOf(f))
  <2>1. x.do \in {"hold_clock", "compare_all"} => x \in Kinds({"hold_clock", "compare_all"})
    BY <1>5
  <2> QED
    BY <1>4, <2>1 DEF InOrder
<1>12. /\ Leads(r, Kinds({"await_pps", "compare_delays", "compare_all", "set_clock"}), Kinds({"hold_clock"}))
       /\ x.do \in {"await_pps", "compare_delays", "compare_all", "set_clock"} => Comes(r, Kinds({"hold_clock"}))
  <2> DEFINE B == {"await_pps", "compare_delays", "compare_all", "set_clock"}
  <2>1. x.do \in B => x \in Kinds(B)
    BY <1>5
  <2> QED
    BY <1>4, <2>1 DEF InOrder
<1>13. /\ Leads(r, Kinds({"hold_clock", "start_at"}), Kinds({"check_start"}))
       /\ x.do \in {"hold_clock", "start_at"} => Comes(r, Kinds({"check_start"}))
  <2>1. x.do \in {"hold_clock", "start_at"} => x \in Kinds({"hold_clock", "start_at"})
    BY <1>5
  <2> QED
    BY <1>4, <2>1 DEF InOrder
<1>14. /\ Leads(r, Kinds({"check_start"}), Kinds({"await_started"}))
       /\ x.do = "check_start" => Comes(r, Kinds({"await_started"}))
  <2>1. x.do = "check_start" => x \in Kinds({"check_start"})
    BY <1>5
  <2> QED
    BY <1>4, <2>1 DEF InOrder
<1>15. InOrder(r)
  BY <1>6, <1>7, <1>8, <1>9, <1>10, <1>11, <1>12, <1>13, <1>14 DEF InOrder
<1>16. HeadInOrder(x, r)
  BY <1>6, <1>7, <1>8, <1>9, <1>10, <1>11, <1>12, <1>13, <1>14 DEF HeadInOrder
<1> QED
  BY <1>1, <1>15, <1>16 DEF x, r

\* The delays are brought to the target, and compared once more, before the rest.
LEMMA MoreSampling ==
  ASSUME NEW target \in Int, NEW n \in Nat, NEW r \in Seq(Kinds(FormKinds)), InOrder(r),
         HeadInOrder([do |-> "compare_delays", attempt |-> n], r),
         NEW a, a = AfterDelaysCompared(FALSE, target, n)
  PROVE  /\ a \o r \in Seq(Kinds(FormKinds)) /\ InOrder(a \o r)
         /\ a \in Seq(Kinds({"sampling", "await_pps", "compare_delays"}))
         /\ ~Comes(a, SamplingTo(Int \ {target}))
         /\ \A t \in Tiles : Comes(a, SamplingOf(t))
<1> DEFINE x == [do |-> "compare_delays", attempt |-> n]
<1> DEFINE c == ForTiles(1, [t \in Tiles |-> set_pps_sampling(t, target, MaxDelaySkew)])
<1> DEFINE l == IF n < MaxAttempts THEN SamplingLoop(n + 1) ELSE <<>>
<1> DEFINE D == {"sampling", "await_pps", "compare_delays"}
<1>1. a = c \o l
  BY DEF AfterDelaysCompared
<1>2. /\ c \in Seq(Kinds({"sampling"})) /\ \A i \in 1 .. Len(c) : c[i].target = target
      /\ \A t \in Tiles : Comes(c, SamplingOf(t))
  BY SampleAll
<1>3. l \in Seq(Kinds({"await_pps", "compare_delays"}))
  <2>1. n + 1 \in Nat
    OBVIOUS
  <2>2. SamplingLoop(n + 1) \in Seq(Kinds({"await_pps", "compare_delays"}))
    BY <2>1, SamplingProgram
  <2> QED
    BY <2>2
<1> HIDE DEF c, l
<1>4. a \in Seq(Kinds(D))
  <2>1. {"sampling"} \cup {"await_pps", "compare_delays"} \subseteq D
    OBVIOUS
  <2> HIDE DEF D
  <2>2. c \o l \in Seq(Kinds(D))
    BY <1>2, <1>3, <2>1, JoinedKinds
  <2> QED
    BY <1>1, <2>2
<1>5. c \in Seq(BringUpStep) /\ l \in Seq(BringUpStep) /\ a \in Seq(BringUpStep) /\ r \in Seq(BringUpStep)
  BY <1>2, <1>3, <1>4, OfKinds
<1>6. a \o r \in Seq(Kinds(FormKinds))
  <2>1. D \cup FormKinds \subseteq FormKinds
    BY DEF FormKinds
  <2> HIDE DEF D
  <2> QED
    BY <1>4, <2>1, JoinedKinds
<1>7. ~Comes(a, SamplingTo(Int \ {target}))
  <2> DEFINE X == SamplingTo(Int \ {target})
  <2>1. X \subseteq Kinds({"sampling"}) /\ \A y \in X : y.target # target
    BY DEF SamplingTo
  <2> HIDE DEF X
  <2>2. {"await_pps", "compare_delays"} \cap {"sampling"} = {}
    OBVIOUS
  <2>3. ~Comes(l, X)
    BY <1>3, <2>1, <2>2, NoSuchKind, ComesMore
  <2>4. ~Comes(c, X)
    BY <1>2, <2>1 DEF Comes
  <2>5. Comes(c \o l, X) <=> Comes(c, X) \/ Comes(l, X)
    BY <1>5, ComesJoined
  <2>6. ~Comes(a, X)
    BY <1>1, <2>3, <2>4, <2>5
  <2> QED
    BY <2>6 DEF X
<1>8. \A t \in Tiles : Comes(a, SamplingOf(t))
  BY <1>1, <1>2, <1>5, ComesJoined
<1>9. /\ ~Comes(a, Kinds({"set_clock"})) /\ ~Comes(a, Kinds({"compare_all"})) /\ ~Comes(a, Kinds({"check_start"}))
      /\ ~Comes(a, Kinds({"await_started"})) /\ ~Comes(a, Kinds({"hold_clock", "compare_all"}))
      /\ ~Comes(a, Kinds({"hold_clock", "start_at"}))
  <2>1. /\ D \cap {"set_clock"} = {} /\ D \cap {"compare_all"} = {} /\ D \cap {"check_start"} = {}
        /\ D \cap {"await_started"} = {} /\ D \cap {"hold_clock", "compare_all"} = {}
        /\ D \cap {"hold_clock", "start_at"} = {}
    OBVIOUS
  <2>2. \A E : D \cap E = {} => ~Comes(a, Kinds(E))
    BY <1>4, NoSuchKind
  <2> QED
    BY <2>1, <2>2, Zenon
<1>10. ~Comes(r, Kinds({"set_clock"})) /\ Comes(r, Kinds({"hold_clock"})) /\ \A f \in Fpgas : Comes(r, ReadOf(f))
  <2>1. x.do = "compare_delays"
    OBVIOUS
  <2>2. HeadInOrder(x, r)
    OBVIOUS
  <2> HIDE DEF x
  <2> QED
    BY <2>1, <2>2 DEF HeadInOrder
<1>11. \A X, Y : NoneAfter(r, X, Y) /\ ~Comes(a, X) => NoneAfter(a \o r, X, Y)
  BY <1>5, NothingComes, NoneAfterJoined
<1>12. \A X, Y : Leads(r, X, Y) /\ (~Comes(a, X) \/ Comes(r, Y)) => Leads(a \o r, X, Y)
  BY <1>5, NothingComes, LeadsJoined
<1>13. InOrder(a \o r)
  <2>1. NoneAfter(a \o r, Kinds(FormKinds \ {"set_clock"}), Kinds({"set_clock"}))
    BY <1>5, <1>9, <1>10, ComesJoined, NothingComes
  <2>2. NoneAfter(a \o r, Kinds({"compare_all"}), Kinds({"compare_all", "read_clock"}))
    BY <1>9, <1>11 DEF InOrder
  <2>3. NoneAfter(a \o r, Kinds({"check_start"}), Kinds({"check_start"}))
    BY <1>9, <1>11 DEF InOrder
  <2>4. NoneAfter(a \o r, Kinds({"await_started"}), Kinds({"await_started", "compare_all"}))
    BY <1>9, <1>11 DEF InOrder
  <2>5. \A f \in Fpgas : Leads(a \o r, Kinds({"await_pps", "compare_delays"}), ReadOf(f))
    BY <1>10, <1>12 DEF InOrder
  <2>6. \A f \in Fpgas : Leads(a \o r, Kinds({"hold_clock", "compare_all"}), StartOf(f))
    BY <1>9, <1>12 DEF InOrder
  <2>7. Leads(a \o r, Kinds({"await_pps", "compare_delays", "compare_all", "set_clock"}), Kinds({"hold_clock"}))
    BY <1>10, <1>12 DEF InOrder
  <2>8. Leads(a \o r, Kinds({"hold_clock", "start_at"}), Kinds({"check_start"}))
    BY <1>9, <1>12 DEF InOrder
  <2>9. Leads(a \o r, Kinds({"check_start"}), Kinds({"await_started"}))
    BY <1>9, <1>12 DEF InOrder
  <2> QED
    BY <2>1, <2>2, <2>3, <2>4, <2>5, <2>6, <2>7, <2>8, <2>9 DEF InOrder
<1> QED
  BY <1>4, <1>6, <1>7, <1>8, <1>13

\* The clocks are set, and compared once more, before the rest.
LEMMA MoreTime ==
  ASSUME NEW n \in Nat, NEW r \in Seq(Kinds(FormKinds)), InOrder(r),
         NEW x, x.do = "compare_all", HeadInOrder(x, r),
         NEW a, a = AfterAllCompared(FALSE, n)
  PROVE  /\ a \o r \in Seq(Kinds(FormKinds)) /\ InOrder(a \o r)
         /\ a \in Seq(Kinds({"set_clock"} \cup TimeKinds))
         /\ \A f \in Fpgas : Comes(a, SetOf(f))
         /\ Comes(a, Kinds({"compare_all"})) => \A f \in Fpgas : Comes(a, ReadOf(f))
<1> DEFINE c == ForTiles(2, [t \in Tiles |-> ForBoth(t, set_fpga_time)])
<1> DEFINE l == IF n < MaxAttempts THEN TimeAttempt(n + 1) ELSE <<>>
<1> DEFINE D == {"set_clock"} \cup TimeKinds
<1>1. a = c \o l
  BY DEF AfterAllCompared
<1>2. c \in Seq(Kinds({"set_clock"})) /\ \A f \in Fpgas : Comes(c, SetOf(f))
  BY SetAll
<1>3. /\ l \in Seq(Kinds(TimeKinds))
      /\ Comes(l, Kinds({"compare_all"})) => \A f \in Fpgas : Comes(l, ReadOf(f))
      /\ \A f \in Fpgas : Leads(l, Kinds({"await_pps", "compare_delays"}), ReadOf(f))
      /\ NoneAfter(l, Kinds({"compare_all"}), Kinds({"compare_all", "read_clock"}))
  <2>1. CASE n < MaxAttempts
    <3>1. n + 1 \in Nat /\ l = TimeAttempt(n + 1)
      BY <2>1
    <3> QED
      BY <3>1, TimeProgram
  <2>2. CASE ~(n < MaxAttempts)
    <3>1. l = <<>>
      BY <2>2
    <3> HIDE DEF l
    <3> QED
      BY <3>1 DEF Comes, Leads, NoneAfter
  <2> QED
    BY <2>1, <2>2
<1> HIDE DEF c, l
<1>4. a \in Seq(Kinds(D))
  <2>1. {"set_clock"} \cup TimeKinds \subseteq D
    OBVIOUS
  <2> HIDE DEF D
  <2>2. c \o l \in Seq(Kinds(D))
    BY <1>2, <1>3, <2>1, JoinedKinds
  <2> QED
    BY <1>1, <2>2
<1>5. c \in Seq(BringUpStep) /\ l \in Seq(BringUpStep) /\ a \in Seq(BringUpStep) /\ r \in Seq(BringUpStep)
  BY <1>2, <1>3, <1>4, OfKinds
<1>6. a \o r \in Seq(Kinds(FormKinds))
  <2>1. D \cup FormKinds \subseteq FormKinds
    BY DEF FormKinds, TimeKinds
  <2> HIDE DEF D
  <2> QED
    BY <1>4, <2>1, JoinedKinds
<1>7. \A X : Comes(a, X) <=> Comes(c, X) \/ Comes(l, X)
  <2>1. \A X : Comes(c \o l, X) <=> Comes(c, X) \/ Comes(l, X)
    BY <1>5, ComesJoined
  <2> QED
    BY <1>1, <2>1
<1>8. ~Comes(c, Kinds({"compare_all"})) /\ ~Comes(c, Kinds(FormKinds \ {"set_clock"})) /\ ~Comes(c, Kinds({"await_pps", "compare_delays"}))
  <2>1. /\ {"set_clock"} \cap {"compare_all"} = {} /\ {"set_clock"} \cap (FormKinds \ {"set_clock"}) = {}
        /\ {"set_clock"} \cap {"await_pps", "compare_delays"} = {}
    OBVIOUS
  <2>2. \A E : {"set_clock"} \cap E = {} => ~Comes(c, Kinds(E))
    BY <1>2, NoSuchKind
  <2> QED
    BY <2>1, <2>2, Zenon
<1>9. ~Comes(l, Kinds({"set_clock"}))
  <2>1. TimeKinds \cap {"set_clock"} = {}
    BY DEF TimeKinds
  <2> QED
    BY <1>3, <2>1, NoSuchKind
<1>10. /\ ~Comes(a, Kinds({"check_start"})) /\ ~Comes(a, Kinds({"await_started"}))
  <2>1. D \cap {"check_start"} = {} /\ D \cap {"await_started"} = {}
    BY DEF TimeKinds
  <2>2. \A E : D \cap E = {} => ~Comes(a, Kinds(E))
    BY <1>4, NoSuchKind
  <2> QED
    BY <2>1, <2>2, Zenon
<1>11. /\ ~Comes(r, Kinds({"set_clock"})) /\ Comes(r, Kinds({"hold_clock"}))
       /\ ~Comes(r, Kinds({"compare_all", "read_clock"}))
       /\ \A f \in Fpgas : Comes(r, StartOf(f))
  BY DEF HeadInOrder
<1>12. Comes(r, Kinds({"check_start"}))
  <2>1. PICK i \in 1 .. Len(r) : r[i] \in Kinds({"hold_clock"})
    BY <1>11 DEF Comes
  <2>2. r[i] \in Kinds({"hold_clock", "start_at"})
    BY <2>1 DEF Kinds
  <2>3. Leads(r, Kinds({"hold_clock", "start_at"}), Kinds({"check_start"}))
    BY DEF InOrder
  <2> QED
    BY <2>2, <2>3 DEF Leads, Comes
<1>13. \A X, Y : NoneAfter(r, X, Y) /\ NoneAfter(a, X, Y) /\ (~Comes(a, X) \/ ~Comes(r, Y)) => NoneAfter(a \o r, X, Y)
  BY <1>5, NoneAfterJoined
<1>14. \A X, Y : Leads(r, X, Y) /\ (Leads(a, X, Y) \/ Comes(r, Y)) => Leads(a \o r, X, Y)
  BY <1>5, LeadsJoined
<1>15. InOrder(a \o r)
  <2>1. NoneAfter(a \o r, Kinds(FormKinds \ {"set_clock"}), Kinds({"set_clock"}))
    <3>1. NoneAfter(c \o l, Kinds(FormKinds \ {"set_clock"}), Kinds({"set_clock"}))
      BY <1>5, <1>8, <1>9, NothingComes, NoneAfterJoined
    <3> QED
      BY <1>1, <1>11, <1>13, <3>1 DEF InOrder
  <2>2. NoneAfter(a \o r, Kinds({"compare_all"}), Kinds({"compare_all", "read_clock"}))
    <3>1. NoneAfter(c \o l, Kinds({"compare_all"}), Kinds({"compare_all", "read_clock"}))
      BY <1>3, <1>5, <1>8, NothingComes, NoneAfterJoined
    <3> QED
      BY <1>1, <1>11, <1>13, <3>1 DEF InOrder
  <2>3. NoneAfter(a \o r, Kinds({"check_start"}), Kinds({"check_start"}))
    BY <1>10, <1>13, NothingComes DEF InOrder
  <2>4. NoneAfter(a \o r, Kinds({"await_started"}), Kinds({"await_started", "compare_all"}))
    BY <1>10, <1>13, NothingComes DEF InOrder
  <2>5. ASSUME NEW f \in Fpgas PROVE Leads(a \o r, Kinds({"await_pps", "compare_delays"}), ReadOf(f))
    <3>1. Leads(c, Kinds({"await_pps", "compare_delays"}), ReadOf(f))
      BY <1>8, NothingComes
    <3>2. Leads(c \o l, Kinds({"await_pps", "compare_delays"}), ReadOf(f))
      BY <1>3, <1>5, <3>1, LeadsJoined
    <3> QED
      BY <1>1, <1>14, <3>2 DEF InOrder
  <2>6. \A f \in Fpgas : Leads(a \o r, Kinds({"hold_clock", "compare_all"}), StartOf(f))
    BY <1>11, <1>14 DEF InOrder
  <2>7. Leads(a \o r, Kinds({"await_pps", "compare_delays", "compare_all", "set_clock"}), Kinds({"hold_clock"}))
    BY <1>11, <1>14 DEF InOrder
  <2>8. Leads(a \o r, Kinds({"hold_clock", "start_at"}), Kinds({"check_start"}))
    BY <1>12, <1>14 DEF InOrder
  <2>9. Leads(a \o r, Kinds({"check_start"}), Kinds({"await_started"}))
    BY <1>10, <1>14, NothingComes DEF InOrder
  <2> QED
    BY <2>1, <2>2, <2>3, <2>4, <2>5, <2>6, <2>7, <2>8, <2>9 DEF InOrder
<1> QED
  BY <1>2, <1>3, <1>4, <1>6, <1>7, <1>8, <1>15

\* the same, of a process that does not sample
LEMMA CheckProgram ==
  check_station_status \in Seq(Kinds({"check_status"})) /\ check_station_status # <<>>
BY PlainStep, OneOfKind DEF check_station_status, Plain
-----------------------------------------------------------------------------
(* The sampling of PPS                                                      *)

LEMMA LeastOf ==
  ASSUME NEW S \in SUBSET (0 .. 5), 5 \in S
  PROVE  Min(S) \in S /\ \A m \in S : Min(S) <= m
<1>1. \E m \in S : \A k \in S : m <= k
  <2>1. CASE 0 \in S
    BY <2>1
  <2>2. CASE 0 \notin S /\ 1 \in S
    BY <2>2
  <2>3. CASE 0 \notin S /\ 1 \notin S /\ 2 \in S
    BY <2>3
  <2>4. CASE 0 \notin S /\ 1 \notin S /\ 2 \notin S /\ 3 \in S
    BY <2>4
  <2>5. CASE 0 \notin S /\ 1 \notin S /\ 2 \notin S /\ 3 \notin S /\ 4 \in S
    BY <2>5
  <2>6. CASE 0 \notin S /\ 1 \notin S /\ 2 \notin S /\ 3 \notin S /\ 4 \notin S
    BY <2>6
  <2> QED
    BY <2>1, <2>2, <2>3, <2>4, <2>5, <2>6
<1> QED
  BY <1>1 DEF Min

\* A delay that can be brought near the target is; that which is there stays.
LEMMA SamplingIsNear ==
  ASSUME NEW current \in Int, NEW target \in Int
  PROVE  /\ Sampled(current, target, 4) \in Int
         /\ calculate_delay(current, target, 4) # None =>
              Sampled(current, target, 4) - target \in -4 .. 4
         /\ current = target => Sampled(current, target, 4) = target
<1> DEFINE low == target - 4
<1> DEFINE hi == target + 4
<1> DEFINE U == {k \in 0 .. 5 : k = 5 \/ current + 8 * k >= low}
<1> DEFINE D == {k \in 0 .. 5 : k = 5 \/ current - 8 * k <= hi}
<1> DEFINE d == calculate_delay(current, target, 4)
<1>1. /\ low < current /\ current < hi => d = 0
      /\ current <= low => d = Min(U)
      /\ current >= hi => d = Min(D)
  <2> DEFINE S == {k \in 0 .. None : k = None \/ IF current <= low THEN current + 8 * k >= low
                                                                 ELSE current - 8 * k <= hi}
  <2>1. d = IF low < current /\ current < hi THEN 0 ELSE Min(S)
    BY DEF calculate_delay
  <2>2. current <= low => S = U
    BY DEF None
  <2>3. current >= hi => S = D
    BY DEF None
  <2> HIDE DEF S, U, D, d
  <2> QED
    BY <2>1, <2>2, <2>3
<1>2. /\ Min(U) \in U /\ \A k \in U : Min(U) <= k
      /\ Min(D) \in D /\ \A k \in D : Min(D) <= k
  BY LeastOf
<1>3. Sampled(current, target, 4) = IF current <= low THEN current + 8 * d ELSE current - 8 * d
  BY DEF Sampled
<1> HIDE DEF d
<1>4. CASE low < current /\ current < hi
  BY <1>1, <1>3, <1>4
<1>5. CASE current <= low
  <2>1. d \in U /\ (d # 0 /\ d # 5 => d - 1 \notin U)
    BY <1>1, <1>2, <1>5
  <2>2. d # 5 => current + 8 * d >= low /\ (d = 0 \/ current + 8 * (d - 1) < low)
    BY <2>1
  <2>3. d \in 0 .. 5
    BY <2>1
  <2>4. Sampled(current, target, 4) = current + 8 * d
    BY <1>3, <1>5
  <2>5. d # 5 => Sampled(current, target, 4) >= low /\ Sampled(current, target, 4) <= hi
    BY <1>5, <2>2, <2>3, <2>4
  <2> QED
    BY <1>5, <2>3, <2>4, <2>5 DEF None, d
<1>6. CASE current >= hi
  <2>1. d \in D /\ (d # 0 /\ d # 5 => d - 1 \notin D)
    BY <1>1, <1>2, <1>6
  <2>2. d # 5 => current - 8 * d <= hi /\ (d = 0 \/ current - 8 * (d - 1) > hi)
    BY <2>1
  <2>3. d \in 0 .. 5
    BY <2>1
  <2>4. Sampled(current, target, 4) = current - 8 * d
    BY <1>3, <1>6
  <2>5. d # 5 => Sampled(current, target, 4) >= low /\ Sampled(current, target, 4) <= hi
    BY <1>6, <2>2, <2>3, <2>4
  <2> QED
    BY <1>6, <2>3, <2>4, <2>5 DEF None, d
<1> QED
  BY <1>4, <1>5, <1>6
-----------------------------------------------------------------------------
(* The end of a function                                                    *)

\* a sequence that is the end of another
LEMMA ShiftedBack ==
  ASSUME NEW s \in Seq(BringUpStep), NEW m \in 1 .. Len(s), NEW q \in Seq(BringUpStep),
         Len(q) = Len(s) - m + 1, \A i \in 1 .. Len(q) : q[i] = s[i + m - 1]
  PROVE  /\ q # <<>> /\ Head(q) = s[m]
         /\ \A i \in 1 .. Len(q) : i + m - 1 \in 1 .. Len(s)
         /\ q[Len(q)] = s[Len(s)]
         /\ \A X, Y : Leads(s, X, Y) => Leads(q, X, Y)
         /\ \A X, Y : NoneAfter(s, X, Y) => NoneAfter(q, X, Y)
         /\ \A X : Comes(q, X) => Comes(s, X)
<1>1. Len(s) \in Nat /\ m \in Nat /\ m >= 1 /\ m <= Len(s)
  OBVIOUS
<1>2. /\ q \in Seq(BringUpStep) /\ Len(q) = Len(s) - m + 1
      /\ \A i \in 1 .. Len(q) : q[i] = s[i + m - 1]
  OBVIOUS
<1>3. q # <<>> /\ Head(q) = s[m] /\ q[Len(q)] = s[Len(s)]
  <2>1. Len(q) \in Nat \ {0} /\ 1 \in 1 .. Len(q) /\ Len(q) \in 1 .. Len(q)
    BY <1>1, <1>2
  <2>2. q # <<>> /\ Head(q) = q[1]
    BY <1>2, <2>1
  <2>3. q[1] = s[1 + m - 1] /\ q[Len(q)] = s[Len(q) + m - 1]
    BY <1>2, <2>1
  <2> QED
    BY <1>1, <1>2, <2>2, <2>3
<1>4. \A i \in 1 .. Len(q) : i + m - 1 \in 1 .. Len(s)
  BY <1>1, <1>2
<1>5. ASSUME NEW X, NEW Y, Leads(s, X, Y) PROVE Leads(q, X, Y)
  <2> SUFFICES ASSUME NEW i \in 1 .. Len(q), q[i] \in X
               PROVE  \E j \in 1 .. Len(q) : i < j /\ q[j] \in Y
    BY DEF Leads
  <2>1. i + m - 1 \in 1 .. Len(s) /\ s[i + m - 1] \in X
    BY <1>2, <1>4
  <2>2. PICK k \in 1 .. Len(s) : i + m - 1 < k /\ s[k] \in Y
    BY <1>5, <2>1 DEF Leads
  <2>3. k - m + 1 \in 1 .. Len(q) /\ i < k - m + 1 /\ (k - m + 1) + m - 1 = k
    BY <1>1, <1>2, <2>2
  <2>4. q[k - m + 1] = s[(k - m + 1) + m - 1]
    BY <1>2, <2>3
  <2> QED
    BY <2>2, <2>3, <2>4
<1>6. ASSUME NEW X, NEW Y, NoneAfter(s, X, Y) PROVE NoneAfter(q, X, Y)
  <2> SUFFICES ASSUME NEW i \in 1 .. Len(q), NEW j \in 1 .. Len(q), i < j, q[i] \in X
               PROVE  q[j] \notin Y
    BY DEF NoneAfter
  <2>1. i + m - 1 \in 1 .. Len(s) /\ j + m - 1 \in 1 .. Len(s) /\ i + m - 1 < j + m - 1
    BY <1>1, <1>4
  <2>2. s[i + m - 1] = q[i] /\ s[j + m - 1] = q[j]
    BY <1>2
  <2> QED
    BY <1>6, <2>1, <2>2 DEF NoneAfter
<1>7. \A X : Comes(q, X) => Comes(s, X)
  BY <1>2, <1>4 DEF Comes
<1> QED
  BY <1>2, <1>3, <1>4, <1>5, <1>6, <1>7

\* the rest of a sequence
LEMMA Suffix ==
  ASSUME NEW s \in Seq(BringUpStep), NEW m \in 1 .. Len(s), NEW q, q = SubSeq(s, m, Len(s))
  PROVE  /\ q \in Seq(BringUpStep) /\ Len(q) = Len(s) - m + 1 /\ q # <<>> /\ Head(q) = s[m]
         /\ \A i \in 1 .. Len(q) : q[i] = s[i + m - 1] /\ i + m - 1 \in 1 .. Len(s)
         /\ q[Len(q)] = s[Len(s)]
         /\ \A X, Y : Leads(s, X, Y) => Leads(q, X, Y)
         /\ \A X, Y : NoneAfter(s, X, Y) => NoneAfter(q, X, Y)
         /\ \A X : Comes(q, X) => Comes(s, X)
<1>1. Len(s) \in Nat /\ m \in Nat /\ m >= 1 /\ m <= Len(s)
  OBVIOUS
<1>2. /\ q \in Seq(BringUpStep) /\ Len(q) = Len(s) - m + 1
      /\ \A i \in 1 .. Len(q) : q[i] = s[i + m - 1]
  BY <1>1
<1> QED
  BY <1>2, ShiftedBack

LEMMA OfPool ==
  ASSUME NEW t \in Tiles, NEW q \in Seq(BringUpStep), \A i \in 1 .. Len(q) : q[i] \in PoolSteps(t)
  PROVE  q \in Seq(PoolSteps(t))
<1> DEFINE K == PoolSteps(t)
<1>1. \A i \in 1 .. Len(q) : q[i] \in K
  OBVIOUS
<1> HIDE DEF K
<1>2. q \in Seq(K)
  BY <1>1
<1> QED
  BY <1>2 DEF K

\* what is left of a program from its first "end" on
FromEnd(s) == SubSeq(s, Min({i \in DOMAIN s : s[i].do = "end"}), Len(s))

LEMMA FromTheEnd ==
  ASSUME NEW t \in Tiles, NEW s \in Seq(PoolSteps(t)), s # <<>>,
         Head(s).do \in EarlyKinds, Leads(s, Kinds(EarlyKinds), {Step("end")})
  PROVE  LET q == FromEnd(s)
         IN /\ q \in Seq(PoolSteps(t)) /\ q # <<>> /\ Head(q).do = "end"
            /\ \A X, Y : Leads(s, X, Y) => Leads(q, X, Y)
            /\ \A X, Y : NoneAfter(s, X, Y) => NoneAfter(q, X, Y)
            /\ \A X : Comes(q, X) => Comes(s, X)
            /\ q[Len(q)] = s[Len(s)]
<1> DEFINE q == FromEnd(s)
<1> DEFINE E == {i \in DOMAIN s : s[i].do = "end"}
<1> DEFINE m == Min(E)
<1>1. s \in Seq(BringUpStep) /\ Len(s) \in Nat \ {0} /\ DOMAIN s = 1 .. Len(s) /\ Head(s) = s[1]
      /\ PoolSteps(t) \subseteq BringUpStep /\ \A i \in 1 .. Len(s) : s[i] \in PoolSteps(t)
  BY DEF PoolSteps
<1>2. \E i \in E : \A j \in E : i <= j
  <2>1. s[1] \in Kinds(EarlyKinds) /\ 1 \in 1 .. Len(s)
    BY <1>1 DEF Kinds
  <2>2. PICK j \in 1 .. Len(s) : s[j] \in {Step("end")}
    BY <1>1, <2>1 DEF Leads
  <2>3. j \in E
    BY <1>1, <2>2 DEF Step
  <2>4. E \subseteq Nat /\ E # {}
    BY <1>1, <2>3
  <2> HIDE DEF E
  <2>5. PICK x \in E : \A y \in E : <<y, x>> \notin OpToRel(<, Nat)
    BY <2>4, NatLessThanWellFounded, WFMin
  <2>6. \A y \in E : ~(y < x)
    BY <2>4, <2>5 DEF OpToRel
  <2> QED
    BY <2>4, <2>6
<1>3. m \in E
  BY <1>2 DEF Min
<1>4. m \in 1 .. Len(s) /\ s[m].do = "end" /\ q = SubSeq(s, m, Len(s))
  BY <1>1, <1>3 DEF FromEnd
<1> HIDE DEF m, q
<1>50. /\ q # <<>> /\ Head(q) = s[m]
       /\ \A X, Y : Leads(s, X, Y) => Leads(q, X, Y)
       /\ \A X, Y : NoneAfter(s, X, Y) => NoneAfter(q, X, Y)
       /\ \A X : Comes(q, X) => Comes(s, X)
       /\ q[Len(q)] = s[Len(s)]
  <2>1. s \in Seq(BringUpStep) /\ m \in 1 .. Len(s) /\ q = SubSeq(s, m, Len(s))
    BY <1>1, <1>4
  <2>2. q # <<>> /\ Head(q) = s[m]
    BY <2>1, Suffix
  <2>3. \A X, Y : Leads(s, X, Y) => Leads(q, X, Y)
    BY <2>1, Suffix, Zenon
  <2>4. \A X, Y : NoneAfter(s, X, Y) => NoneAfter(q, X, Y)
    BY <2>1, Suffix, Zenon
  <2>5. \A X : Comes(q, X) => Comes(s, X)
    BY <2>1, Suffix, Zenon
  <2>6. q[Len(q)] = s[Len(s)]
    BY <2>1, Suffix
  <2> QED
    BY <2>2, <2>3, <2>4, <2>5, <2>6
<1>5. Head(q).do = "end"
  BY <1>4, <1>50
<1>6. q \in Seq(PoolSteps(t))
  <2>1. q \in Seq(BringUpStep) /\ \A i \in 1 .. Len(q) : q[i] = s[i + m - 1] /\ i + m - 1 \in 1 .. Len(s)
    BY <1>1, <1>4, Suffix
  <2>2. \A i \in 1 .. Len(q) : q[i] \in PoolSteps(t)
    BY <1>1, <2>1
  <2> QED
    BY <2>1, <2>2, OfPool
<1> QED
  BY <1>5, <1>50, <1>6 DEF q
-----------------------------------------------------------------------------
(* Types                                                                    *)

LEMMA DoingIsStep ==
  ASSUME Control, NEW p \in Processes, steps[p] # <<>>
  PROVE  /\ Doing(p) \in BringUpStep /\ steps[p] \in Seq(BringUpStep)
         /\ Doing(p).do \in AboutTile \cup {"connect", "needs", "sampling", "compare_two"} => Doing(p).tile \in Tiles
         /\ Doing(p).do \in AboutFpga => Doing(p).fpga \in Fpgas
<1>1. steps[p] \in Seq(BringUpStep)
  BY DEF Control
<1>2. Doing(p) \in BringUpStep
  BY <1>1, StepAfter DEF Doing
<1> QED
  BY <1>1, <1>2, TileOfStep

LEMMA CallerOrTile ==
  /\ Caller \in Processes /\ Caller \notin Tiles
  /\ \A p \in Processes : p = Caller \/ p \in Tiles
  /\ \A t \in Tiles : t \in Processes /\ t # Caller
  /\ 1 \in Tiles /\ <<1, 1>> \in Fpgas
BY DEF Caller, Processes, Tiles, Fpgas

Results == {"none", "running", "ok", "failed", "raised"}
Outcomes == {"none", "returned", "raised", "exit"}

LEMMA ResultsTyped ==
  ASSUME result \in [Tiles -> Results], outcome \in Outcomes, NEW p \in Processes
  PROVE  /\ \A more : Proceeds(p, more) => result' \in [Tiles -> Results] /\ outcome' \in Outcomes
         /\ GoesOn(p) => result' \in [Tiles -> Results] /\ outcome' \in Outcomes
         /\ Raises(p) => result' \in [Tiles -> Results] /\ outcome' \in Outcomes
         /\ Ends(p, "exit") => result' \in [Tiles -> Results] /\ outcome' \in Outcomes
         /\ Returns(p) => result' \in [Tiles -> Results] /\ outcome' \in Outcomes
<1>1. ASSUME NEW more, Proceeds(p, more) PROVE result' \in [Tiles -> Results] /\ outcome' \in Outcomes
  BY <1>1 DEF Proceeds, Results, Outcomes
<1>2. GoesOn(p) => result' \in [Tiles -> Results] /\ outcome' \in Outcomes
  BY <1>1 DEF GoesOn
<1>3. ASSUME NEW how \in Outcomes, Ends(p, how) PROVE result' \in [Tiles -> Results] /\ outcome' \in Outcomes
  BY <1>3 DEF Ends, Results
<1>4. Raises(p) => result' \in [Tiles -> Results] /\ outcome' \in Outcomes
  BY <1>3 DEF Raises, Outcomes
<1>5. Ends(p, "exit") => result' \in [Tiles -> Results] /\ outcome' \in Outcomes
  BY <1>3 DEF Outcomes
<1>6. Returns(p) => result' \in [Tiles -> Results] /\ outcome' \in Outcomes
  BY DEF Returns
<1> QED
  BY <1>1, <1>2, <1>4, <1>5, <1>6

\* the types of what a step of a process does not change together
TileTypes ==
  /\ programmed \in [Tiles -> BOOLEAN] /\ initialised \in [Tiles -> BOOLEAN]
  /\ tile_id \in [Tiles -> 0 .. NofTiles - 1]
  /\ delay \in [Tiles -> Int]
ClockTypes == clock \in [Fpgas -> Int] /\ start_in \in [Fpgas -> Int] /\ began \in [Fpgas -> Int]
TimeTypes ==
  /\ held \in [Processes -> SUBSET Int] /\ seen \in [Processes -> SUBSET Int]
  /\ \A p \in Processes : IsFiniteSet(seen[p])
  /\ \A p \in Processes : \A a, b \in held[p] : a = b
  /\ ticked \in [Processes -> 0 .. MaxPolls]
ResultTypes == result \in [Tiles -> Results] /\ outcome \in Outcomes
RestTypes == DOMAIN tpm = Tpms /\ slips \in 0 .. MaxSlips /\ properly_formed \in BOOLEAN

LEMMA TypesAre == Types <=> TileTypes /\ ClockTypes /\ TimeTypes /\ ResultTypes /\ RestTypes
BY DEF Types, BringUpTypeOK, TileTypes, ClockTypes, TimeTypes, ResultTypes, RestTypes, Results, Outcomes

LEMMA TypesAreNext == Types' <=> TileTypes' /\ ClockTypes' /\ TimeTypes' /\ ResultTypes' /\ RestTypes'
BY DEF Types, BringUpTypeOK, TileTypes, ClockTypes, TimeTypes, ResultTypes, RestTypes, Results, Outcomes

LEMMA TypesSame ==
  /\ TileTypes /\ UNCHANGED tile_state => TileTypes'
  /\ ClockTypes /\ UNCHANGED clocks => ClockTypes'
  /\ TimeTypes /\ UNCHANGED times => TimeTypes'
  /\ RestTypes /\ UNCHANGED <<tpm, slips, properly_formed>> => RestTypes'
<1>1. TileTypes /\ UNCHANGED tile_state => TileTypes'
  BY DEF TileTypes, tile_state
<1>2. ClockTypes /\ UNCHANGED clocks => ClockTypes'
  BY DEF ClockTypes, clocks
<1>3. TimeTypes /\ UNCHANGED times => TimeTypes'
  BY DEF TimeTypes, times
<1>4. RestTypes /\ UNCHANGED <<tpm, slips, properly_formed>> => RestTypes'
  BY DEF RestTypes
<1> QED
  BY <1>1, <1>2, <1>3, <1>4

LEMMA TypesNext ==
  ASSUME Types, Control, NEW p \in Processes, Run(p)
  PROVE  Types'
<1> DEFINE Moves == \/ \E more : Proceeds(p, more)
                    \/ GoesOn(p) \/ Raises(p) \/ Ends(p, "exit") \/ Returns(p)
<1>1. TileTypes /\ ClockTypes /\ TimeTypes /\ ResultTypes /\ RestTypes
  BY TypesAre
<1>2. Moves => ResultTypes'
  BY <1>1, ResultsTyped DEF ResultTypes
<1>3. UNCHANGED slips
  BY DEF Run
<1>4. \A do : IsAt(p, do) => steps[p] # <<>> /\ Doing(p).do = do
  BY DEF IsAt
<1>5. CASE ConnectBoard(p)
  <2>1. UNCHANGED tile_state /\ UNCHANGED clocks /\ UNCHANGED times /\ UNCHANGED properly_formed
    BY <1>5 DEF ConnectBoard
  <2>2. Moves
    BY <1>5 DEF ConnectBoard
  <2>3. DOMAIN tpm' = DOMAIN tpm
    BY <1>5 DEF ConnectBoard
  <2> QED
    BY <1>1, <1>2, <1>3, <2>1, <2>2, <2>3, TypesSame, TypesAreNext DEF RestTypes
<1>6. CASE NeedsPlugins(p) \/ LookUp(p) \/ ReturnEarly(p) \/ Firmware_(p)
  <2>1. UNCHANGED tile_state /\ UNCHANGED clocks /\ UNCHANGED times /\ UNCHANGED <<tpm, properly_formed>>
    BY <1>6 DEF NeedsPlugins, LookUp, ReturnEarly, Firmware_
  <2>2. ResultTypes'
    <3>1. CASE NeedsPlugins(p)
      <4>1. Moves
        BY <3>1 DEF NeedsPlugins
      <4> QED
        BY <1>2, <4>1
    <3>2. CASE LookUp(p)
      <4>1. GoesOn(p) \/ (result' = [result EXCEPT ![p] = "raised"] /\ outcome' = outcome)
        BY <3>2 DEF LookUp
      <4> QED
        BY <1>1, <1>2, <4>1 DEF ResultTypes, Results
    <3>3. CASE ReturnEarly(p)
      <4>1. Moves
        BY <3>3 DEF ReturnEarly
      <4> QED
        BY <1>2, <4>1
    <3>4. CASE Firmware_(p)
      <4>1. Moves
        BY <3>4 DEF Firmware_
      <4> QED
        BY <1>2, <4>1
    <3> QED
      BY <1>6, <3>1, <3>2, <3>3, <3>4
  <2> QED
    BY <1>1, <1>3, <2>1, <2>2, TypesSame, TypesAreNext
<1>7. CASE Program(p)
  <2>1. UNCHANGED delay /\ UNCHANGED clocks /\ UNCHANGED times /\ UNCHANGED <<tpm, properly_formed>>
    BY <1>7 DEF Program
  <2>2. Moves
    BY <1>7 DEF Program
  <2>3. TileTypes'
    <3>1. 0 \in 0 .. NofTiles - 1
      OBVIOUS
    <3>2. \/ UNCHANGED <<programmed, initialised, tile_id>>
          \/ \E t, b, i :
               /\ b \in BOOLEAN /\ programmed' = [programmed EXCEPT ![t] = b]
               /\ initialised' = [initialised EXCEPT ![t] = FALSE]
               /\ tile_id' = tile_id \/ tile_id' = [tile_id EXCEPT ![t] = 0]
      BY <1>7 DEF Program
    <3>3. CASE UNCHANGED <<programmed, initialised, tile_id>>
      BY <1>1, <2>1, <3>3 DEF TileTypes
    <3>4. ASSUME NEW t, NEW b \in BOOLEAN, NEW i,
                 programmed' = [programmed EXCEPT ![t] = b],
                 initialised' = [initialised EXCEPT ![t] = FALSE],
                 tile_id' = tile_id \/ tile_id' = [tile_id EXCEPT ![t] = 0]
          PROVE  TileTypes'
      <4>1. programmed' \in [Tiles -> BOOLEAN] /\ initialised' \in [Tiles -> BOOLEAN]
        BY <1>1, <3>4 DEF TileTypes
      <4>2. tile_id' \in [Tiles -> 0 .. NofTiles - 1]
        BY <1>1, <3>1, <3>4 DEF TileTypes
      <4> QED
        BY <1>1, <2>1, <4>1, <4>2 DEF TileTypes
    <3> QED
      BY <3>2, <3>3, <3>4
  <2> QED
    BY <1>1, <1>2, <1>3, <2>1, <2>2, <2>3, TypesSame, TypesAreNext
<1>8. CASE SetRegisters(p)
  <2>1. UNCHANGED <<programmed, delay>> /\ UNCHANGED clocks /\ UNCHANGED times /\ UNCHANGED <<tpm, properly_formed>>
    BY <1>8 DEF SetRegisters
  <2>2. Moves
    BY <1>8 DEF SetRegisters
  <2>3. TileTypes'
    <3>1. CASE IsAt(p, "set_id") /\ tile_id' = [tile_id EXCEPT ![Doing(p).tile] = Doing(p).tile - 1]
               /\ UNCHANGED initialised
      <4>1. Doing(p).tile \in Tiles
        BY <1>4, <3>1, DoingIsStep DEF AboutTile
      <4>2. Doing(p).tile - 1 \in 0 .. NofTiles - 1
        BY <4>1 DEF Tiles
      <4> QED
        BY <1>1, <2>1, <3>1, <4>2 DEF TileTypes
    <3>2. CASE initialised' = [initialised EXCEPT ![Doing(p).tile] = TRUE] /\ UNCHANGED tile_id
      BY <1>1, <2>1, <3>2 DEF TileTypes
    <3> QED
      BY <1>8, <3>1, <3>2 DEF SetRegisters
  <2> QED
    BY <1>1, <1>2, <1>3, <2>1, <2>2, <2>3, TypesSame, TypesAreNext
<1>9. CASE AwaitPps(p)
  <2>1. UNCHANGED tile_state /\ UNCHANGED clocks /\ UNCHANGED <<tpm, properly_formed>>
    BY <1>9 DEF AwaitPps
  <2>2. Moves
    BY <1>9 DEF AwaitPps
  <2>3. TimeTypes'
    <3>1. /\ held' = [held EXCEPT ![p] = {}] /\ seen' = [seen EXCEPT ![p] = {}]
          /\ ticked' = [ticked EXCEPT ![p] = 0]
      BY <1>9 DEF AwaitPps
    <3>2. IsFiniteSet({})
      BY FS_EmptySet
    <3> QED
      BY <1>1, <3>1, <3>2 DEF TimeTypes, MaxPolls
  <2> QED
    BY <1>1, <1>2, <1>3, <2>1, <2>2, <2>3, TypesSame, TypesAreNext
<1>10. CASE ReadClock(p)
  <2>1. UNCHANGED tile_state /\ UNCHANGED clocks /\ UNCHANGED <<tpm, properly_formed>>
    BY <1>10 DEF ReadClock
  <2>2. Moves
    BY <1>10 DEF ReadClock
  <2>3. TimeTypes'
    <3>1. CASE IsAt(p, "read_utc") /\ held' = [held EXCEPT ![p] = {0}] /\ UNCHANGED seen
      BY <1>1, <1>10, <3>1 DEF TimeTypes, ReadClock
    <3>2. CASE IsAt(p, "hold_clock") /\ held' = [held EXCEPT ![p] = {clock[Doing(p).fpga]}] /\ UNCHANGED seen
      <4>1. Doing(p).fpga \in Fpgas
        BY <1>4, <3>2, DoingIsStep DEF AboutFpga
      <4>2. clock[Doing(p).fpga] \in Int
        BY <1>1, <4>1 DEF ClockTypes
      <4>3. ticked' = ticked
        BY <1>10 DEF ReadClock
      <4> QED
        BY <1>1, <3>2, <4>2, <4>3 DEF TimeTypes
    <3>3. CASE IsAt(p, "read_clock") /\ seen' = [seen EXCEPT ![p] = @ \cup {clock[Doing(p).fpga]}] /\ UNCHANGED held
      <4>1. Doing(p).fpga \in Fpgas
        BY <1>4, <3>3, DoingIsStep DEF AboutFpga
      <4>2. clock[Doing(p).fpga] \in Int
        BY <1>1, <4>1 DEF ClockTypes
      <4>3. ticked' = ticked
        BY <1>10 DEF ReadClock
      <4>4. IsFiniteSet(seen[p] \cup {clock[Doing(p).fpga]})
        BY <1>1, FS_AddElement DEF TimeTypes
      <4> QED
        BY <1>1, <3>3, <4>2, <4>3, <4>4 DEF TimeTypes
    <3> QED
      BY <1>10, <3>1, <3>2, <3>3 DEF ReadClock
  <2> QED
    BY <1>1, <1>2, <1>3, <2>1, <2>2, <2>3, TypesSame, TypesAreNext
<1>11. CASE SetClock(p)
  <2>1. UNCHANGED tile_state /\ UNCHANGED <<start_in, began>> /\ UNCHANGED times /\ UNCHANGED <<tpm, properly_formed>>
    BY <1>11 DEF SetClock
  <2>2. Moves
    BY <1>11 DEF SetClock
  <2>3. ClockTypes'
    <3>1. PICK h \in held[p] : clock' = [clock EXCEPT ![Doing(p).fpga] = h]
      BY <1>11 DEF SetClock
    <3>2. h \in Int
      BY <1>1, <3>1 DEF TimeTypes
    <3> QED
      BY <1>1, <2>1, <3>1, <3>2 DEF ClockTypes
  <2> QED
    BY <1>1, <1>2, <1>3, <2>1, <2>2, <2>3, TypesSame, TypesAreNext
<1>12. CASE SetSampling(p)
  <2>1. UNCHANGED <<programmed, initialised, tile_id>> /\ UNCHANGED clocks /\ UNCHANGED times /\ UNCHANGED <<tpm, properly_formed>>
    BY <1>12 DEF SetSampling
  <2>2. Moves
    BY <1>12 DEF SetSampling
  <2>3. TileTypes'
    <3> DEFINE x == Doing(p)
    <3>1. x \in BringUpStep /\ x.do = "sampling"
      BY <1>4, <1>12, DoingIsStep DEF SetSampling
    <3>2. x.tile \in Tiles /\ x.target \in Int /\ x.margin = 4
      BY <3>1, SamplingOfStep
    <3>3. delay' = delay \/ delay' = [delay EXCEPT ![x.tile] = Sampled(delay[x.tile], x.target, x.margin)]
      BY <1>12 DEF SetSampling, get_pps_delay
    <3> HIDE DEF x
    <3>4. Sampled(delay[x.tile], x.target, x.margin) \in Int
      BY <1>1, <3>2, SamplingIsNear DEF TileTypes
    <3> QED
      BY <1>1, <2>1, <3>3, <3>4 DEF TileTypes
  <2> QED
    BY <1>1, <1>2, <1>3, <2>1, <2>2, <2>3, TypesSame, TypesAreNext
<1>13. CASE Compare(p)
  <2>1. UNCHANGED tile_state /\ UNCHANGED clocks /\ UNCHANGED ticked /\ UNCHANGED <<tpm, properly_formed>>
    BY <1>13 DEF Compare
  <2>2. Moves
    BY <1>13 DEF Compare
  <2>3. TimeTypes'
    <3>1. /\ held' = held \/ \E h : h \in {{}, held[p]} /\ held' = [held EXCEPT ![p] = h]
          /\ seen' = [seen EXCEPT ![p] = {}]
      BY <1>13 DEF Compare
    <3>2. IsFiniteSet({})
      BY FS_EmptySet
    <3> QED
      BY <1>1, <2>1, <3>1, <3>2 DEF TimeTypes
  <2> QED
    BY <1>1, <1>2, <1>3, <2>1, <2>2, <2>3, TypesSame, TypesAreNext
<1>14. CASE StartAt(p)
  <2>1. UNCHANGED tile_state /\ UNCHANGED clock /\ UNCHANGED times /\ UNCHANGED <<tpm, properly_formed>>
    BY <1>14 DEF StartAt
  <2>2. Moves
    BY <1>14 DEF StartAt
  <2>3. ClockTypes'
    <3> DEFINE f == Doing(p).fpga
    <3>1. f \in Fpgas
      BY <1>4, <1>14, DoingIsStep DEF StartAt, AboutFpga
    <3>2. PICK h \in held[p] :
            LET left == h + StartDelay - clock[f]
            IN /\ start_in' = [start_in EXCEPT ![f] = IF left > 0 THEN left ELSE Never]
               /\ began' \in {[began EXCEPT ![f] = since] : since \in IF left > 0 THEN {Never} ELSE {Never, 0}}
      BY <1>14 DEF StartAt
    <3>3. h \in Int /\ clock[f] \in Int
      BY <1>1, <3>1, <3>2 DEF TimeTypes, ClockTypes
    <3> DEFINE left == h + StartDelay - clock[f]
    <3>4. left \in Int
      BY <3>3 DEF StartDelay
    <3> HIDE DEF left, f
    <3>5. start_in' \in [Fpgas -> Int]
      <4>1. start_in' = [start_in EXCEPT ![f] = IF left > 0 THEN left ELSE Never]
        BY <3>2 DEF left
      <4>2. (IF left > 0 THEN left ELSE Never) \in Int
        BY <3>4 DEF Never
      <4> QED
        BY <1>1, <4>1, <4>2 DEF ClockTypes
    <3>6. \E since \in {Never, 0} : began' = [began EXCEPT ![f] = since]
      BY <3>2 DEF left
    <3>7. began' \in [Fpgas -> Int]
      <4>1. PICK since \in {Never, 0} : began' = [began EXCEPT ![f] = since]
        BY <3>6
      <4>2. since \in Int
        BY DEF Never
      <4> QED
        BY <1>1, <4>1, <4>2 DEF ClockTypes
    <3> QED
      BY <1>1, <2>1, <3>5, <3>7 DEF ClockTypes
  <2> QED
    BY <1>1, <1>2, <1>3, <2>1, <2>2, <2>3, TypesSame, TypesAreNext
<1>15. CASE CheckStart(p)
  <2>1. UNCHANGED tile_state /\ UNCHANGED clocks /\ UNCHANGED seen /\ UNCHANGED <<tpm, properly_formed>>
    BY <1>15 DEF CheckStart
  <2>2. Moves
    BY <1>15 DEF CheckStart
  <2>3. TimeTypes'
    <3>1. \/ held' = [held EXCEPT ![p] = {}] /\ UNCHANGED ticked
          \/ ticked' = [ticked EXCEPT ![p] = 0] /\ UNCHANGED held
      BY <1>15 DEF CheckStart
    <3> QED
      BY <1>1, <2>1, <3>1 DEF TimeTypes, MaxPolls
  <2> QED
    BY <1>1, <1>2, <1>3, <2>1, <2>2, <2>3, TypesSame, TypesAreNext
<1>16. CASE p = Caller /\ Map
  <2>1. UNCHANGED tile_state /\ UNCHANGED clocks /\ UNCHANGED times /\ UNCHANGED <<tpm, properly_formed>>
    BY <1>16 DEF Map
  <2>2. ResultTypes'
    <3>1. \/ Raises(p)
          \/ result' = [t \in Tiles |-> "running"] /\ UNCHANGED outcome
          \/ UNCHANGED <<result, outcome>>
      BY <1>16 DEF Map
    <3> QED
      BY <1>1, <1>2, <3>1 DEF ResultTypes, Results
  <2> QED
    BY <1>1, <1>3, <2>1, <2>2, TypesSame, TypesAreNext
<1>17. CASE p = Caller /\ (Join \/ Branch \/ CheckStatus)
  <2>1. UNCHANGED tile_state /\ UNCHANGED clocks /\ UNCHANGED times /\ UNCHANGED tpm
    BY <1>17 DEF Join, Branch, CheckStatus
  <2>2. Moves
    BY <1>17 DEF Join, Branch, CheckStatus
  <2>3. properly_formed' \in BOOLEAN
    BY <1>1, <1>17 DEF Join, Branch, CheckStatus, RestTypes, IdsAreRight
  <2>4. RestTypes'
    BY <1>1, <1>3, <2>1, <2>3 DEF RestTypes
  <2> QED
    BY <1>1, <1>2, <2>1, <2>2, <2>4, TypesSame, TypesAreNext
<1> QED
  BY <1>5, <1>6, <1>7, <1>8, <1>9, <1>10, <1>11, <1>12, <1>13, <1>14, <1>15, <1>16, <1>17 DEF Run

LEMMA TypesPps ==
  ASSUME Types, Pps
  PROVE  Types'
<1>1. TileTypes /\ ClockTypes /\ TimeTypes /\ ResultTypes /\ RestTypes
  BY TypesAre
<1>2. TileTypes' /\ ResultTypes'
  BY <1>1 DEF Pps, TileTypes, ResultTypes, tile_state, control, station
<1>3. ClockTypes'
  <2>1. /\ clock' = clock
        /\ start_in' = [f \in Fpgas |-> IF start_in[f] > 1 THEN start_in[f] - 1 ELSE Never]
        /\ began' = [f \in Fpgas |-> IF start_in[f] = 1 THEN 0 ELSE IF began[f] = Never THEN Never ELSE began[f] + 1]
    BY DEF Pps
  <2>2. start_in' \in [Fpgas -> Int]
    BY <1>1, <2>1 DEF ClockTypes, Never
  <2>3. began' \in [Fpgas -> Int]
    BY <1>1, <2>1 DEF ClockTypes, Never
  <2> QED
    BY <1>1, <2>1, <2>2, <2>3 DEF ClockTypes
<1>4. TimeTypes'
  <2>1. /\ held' = [p \in Processes |-> {Lasting(time) : time \in held[p]}]
        /\ seen' = [p \in Processes |-> {Lasting(time) : time \in seen[p]}]
        /\ ticked' = [p \in Processes |-> IF Waits(p) /\ ticked[p] < MaxPolls THEN ticked[p] + 1 ELSE ticked[p]]
    BY DEF Pps
  <2>2. held' \in [Processes -> SUBSET Int] /\ \A p \in Processes : \A a, b \in held'[p] : a = b
    <3>1. \A p \in Processes : held'[p] = {Lasting(time) : time \in held[p]}
      BY <2>1
    <3>2. ASSUME NEW p \in Processes PROVE held'[p] \in SUBSET Int /\ \A a, b \in held'[p] : a = b
      BY <1>1, <3>1 DEF TimeTypes, Lasting
    <3> QED
      BY <2>1, <3>2
  <2>3. seen' \in [Processes -> SUBSET Int] /\ \A p \in Processes : IsFiniteSet(seen'[p])
    <3>1. \A p \in Processes : seen'[p] = {Lasting(time) : time \in seen[p]}
      BY <2>1
    <3>2. ASSUME NEW p \in Processes PROVE seen'[p] \in SUBSET Int
      BY <1>1, <3>1 DEF TimeTypes, Lasting
    <3>3. ASSUME NEW p \in Processes PROVE IsFiniteSet(seen'[p])
      <4> DEFINE lower == [a \in seen[p] |-> Lasting(a)]
      <4>1. IsFiniteSet(seen[p])
        BY <1>1 DEF TimeTypes
      <4>2. lower \in Surjection(seen[p], seen'[p])
        BY <3>1 DEF Surjection
      <4> QED
        BY <4>1, <4>2, FS_Surjection
    <3> QED
      BY <2>1, <3>2, <3>3
  <2>4. ticked' \in [Processes -> 0 .. MaxPolls]
    BY <1>1, <2>1 DEF TimeTypes, MaxPolls
  <2> QED
    BY <2>2, <2>3, <2>4 DEF TimeTypes
<1>5. RestTypes'
  <2>1. slips' \in 0 .. MaxSlips
    BY <1>1 DEF Pps, RestTypes
  <2> QED
    BY <1>1, <2>1 DEF Pps, RestTypes, station
<1> QED
  BY <1>2, <1>3, <1>4, <1>5, TypesAreNext
-----------------------------------------------------------------------------
(* Control                                                                  *)

LEMMA FormationOrNot ==
  ASSUME NEW s, Formation(s)
  PROVE  /\ ~Connecting(s) /\ s \in Seq(BringUpStep)
         /\ s # <<>> => Head(s).do \in FormKinds \cup {"check_status"}
<1>1. CASE config.initialise
  <2>1. s \in Seq(Kinds(FormKinds))
    BY <1>1 DEF Formation
  <2>2. s \in Seq(BringUpStep) /\ (s # <<>> => Head(s).do \in FormKinds)
    BY <2>1, OfKinds, KindsTail
  <2>3. ~Connecting(s)
    <3> SUFFICES ASSUME Connecting(s) PROVE FALSE
      OBVIOUS
    <3>1. s # <<>> /\ s[Len(s)] = Step("form") /\ Len(s) \in 1 .. Len(s)
      BY <2>2 DEF Connecting
    <3>2. s[Len(s)] \in Kinds(FormKinds)
      BY <2>1, <3>1
    <3>3. Step("form").do = "form"
      BY DEF Step
    <3> QED
      BY <3>1, <3>2, <3>3 DEF Kinds, FormKinds
  <2> QED
    BY <2>2, <2>3
<1>2. CASE ~config.initialise
  <2> DEFINE D == {"check_status"}
  <2>1. s \in Seq(Kinds(D))
    BY <1>2 DEF Formation
  <2>2. s \in Seq(BringUpStep) /\ (s # <<>> => Head(s).do \in D)
    BY <2>1, OfKinds, KindsTail
  <2>3. ~Connecting(s)
    <3> SUFFICES ASSUME Connecting(s) PROVE FALSE
      OBVIOUS
    <3>1. s # <<>> /\ s[Len(s)] = Step("form") /\ Len(s) \in 1 .. Len(s)
      BY <2>2 DEF Connecting
    <3>2. s[Len(s)] \in Kinds(D)
      BY <2>1, <3>1
    <3>3. Step("form").do = "form"
      BY DEF Step
    <3> QED
      BY <3>1, <3>2, <3>3 DEF Kinds
  <2> QED
    BY <2>2, <2>3
<1> QED
  BY <1>1, <1>2

LEMMA FormationGoesOn ==
  ASSUME NEW s, Formation(s)
  PROVE  Formation(<<>>) /\ (s # <<>> => Formation(Tail(s)))
<1>1. Formation(<<>>)
  <2>1. InOrder(<<>>)
    BY DEF InOrder, NoneAfter, Leads
  <2> QED
    BY <2>1 DEF Formation
<1>2. CASE config.initialise /\ s # <<>>
  <2>1. s \in Seq(Kinds(FormKinds)) /\ InOrder(s)
    BY <1>2 DEF Formation
  <2>2. Tail(s) \in Seq(Kinds(FormKinds)) /\ InOrder(Tail(s))
    BY <1>2, <2>1, InOrderTail
  <2> QED
    BY <1>1, <1>2, <2>2 DEF Formation
<1>3. CASE ~config.initialise /\ s # <<>>
  <2> DEFINE D == {"check_status"}
  <2>1. Tail(s) \in Seq(Kinds(D))
    BY <1>3, KindsTail DEF Formation
  <2> QED
    BY <1>3, <2>1 DEF Formation
<1> QED
  BY <1>1, <1>2, <1>3

LEMMA ConnectingGoesOn ==
  ASSUME NEW s \in Seq(BringUpStep), Connecting(s)
  PROVE  /\ s # <<>> /\ Head(s) \in BringUpStep /\ Head(s).do \in ConnectKinds \cup {"form"}
         /\ Head(s).do = "form" => Tail(s) = <<>>
         /\ Head(s).do # "form" => Connecting(Tail(s))
         /\ Head(s).do = "map" => Head(Tail(s)) = Step("join")
<1>1. s # <<>> /\ Len(s) \in Nat \ {0} /\ Head(s) = s[1] /\ Head(s) \in BringUpStep
      /\ Tail(s) \in Seq(BringUpStep) /\ Len(Tail(s)) = Len(s) - 1
      /\ \A i \in 1 .. Len(s) - 1 : Tail(s)[i] = s[i + 1]
  BY StepAfter DEF Connecting
<1>2. Step("form").do = "form" /\ Step("join").do = "join"
  BY DEF Step
<1>3. Head(s).do \in ConnectKinds => Len(s) > 1
  <2>1. CASE Len(s) = 1
    BY <1>1, <1>2, <2>1 DEF Connecting, ConnectKinds
  <2> QED
    BY <1>1, <2>1
<1>4. CASE Len(s) = 1
  <2>1. s[1] = Step("form")
    BY <1>4 DEF Connecting
  <2>2. Head(s).do = "form"
    BY <1>1, <1>2, <2>1
  <2>3. Tail(s) \in Seq(BringUpStep) /\ Len(Tail(s)) = 0
    BY <1>1, <1>4
  <2>4. Tail(s) = <<>>
    BY <2>3, EmptySeq
  <2> QED
    BY <1>1, <2>2, <2>4
<1>5. CASE Len(s) > 1
  <2>1. s[1] \in Kinds(ConnectKinds)
    BY <1>1, <1>5 DEF Connecting
  <2>2. Head(s).do \in ConnectKinds /\ Head(s).do # "form"
    BY <1>1, <2>1 DEF Kinds, ConnectKinds
  <2> DEFINE r == Tail(s)
  <2>3. r # <<>> /\ r[Len(r)] = Step("form") /\ \A i \in 1 .. Len(r) - 1 : r[i] \in Kinds(ConnectKinds)
    <3>1. Len(r) # 0 /\ Len(r) \in Nat
      BY <1>1, <1>5
    <3>2. r[Len(r)] = s[Len(s)]
      BY <1>1, <1>5
    <3>3. \A i \in 1 .. Len(r) - 1 : i + 1 \in 1 .. Len(s) - 1 /\ r[i] = s[i + 1]
      BY <1>1, <1>5
    <3>4. \A i \in 1 .. Len(s) - 1 : s[i] \in Kinds(ConnectKinds)
      BY DEF Connecting
    <3>5. s[Len(s)] = Step("form")
      BY DEF Connecting
    <3>6. \A i \in 1 .. Len(r) - 1 : r[i] \in Kinds(ConnectKinds)
      BY <3>3, <3>4
    <3>7. r # <<>>
      <4>1. Len(<<>>) = 0
        OBVIOUS
      <4> HIDE DEF r
      <4> QED
        BY <3>1, <4>1
    <3>8. r[Len(r)] = Step("form")
      BY <3>2, <3>5
    <3> QED
      BY <3>6, <3>7, <3>8
  <2>4. Mapped(r)
    <3> SUFFICES ASSUME NEW i \in 1 .. Len(r), r[i] \in Kinds({"map"})
                 PROVE  i < Len(r) /\ r[i + 1] = Step("join")
      BY DEF Mapped
    <3>1. i + 1 \in 1 .. Len(s) /\ s[i + 1] \in Kinds({"map"})
      BY <1>1
    <3>2. i + 1 < Len(s) /\ s[(i + 1) + 1] = Step("join")
      BY <3>1 DEF Connecting, Mapped
    <3>3. i + 1 \in 1 .. Len(s) - 1
      BY <1>1, <3>2
    <3> QED
      BY <1>1, <3>2, <3>3
  <2>5. config.initialise => Leads(r, OtherMaps, MapOf("initialise"))
    BY <1>1, LeadsInTail DEF Connecting
  <2>6. Connecting(r)
    <3> HIDE DEF r
    <3> QED
      BY <2>3, <2>4, <2>5 DEF Connecting
  <2>7. Head(s).do = "map" => Head(r) = Step("join")
    <3> SUFFICES ASSUME Head(s).do = "map" PROVE Head(r) = Step("join")
      OBVIOUS
    <3>1. s[1] \in Kinds({"map"}) /\ 1 \in 1 .. Len(s)
      BY <1>1 DEF Kinds
    <3>2. s[1 + 1] = Step("join")
      BY <3>1 DEF Connecting, Mapped
    <3>3. Head(r) = r[1] /\ r[1] = s[1 + 1]
      BY <1>1, <1>5, <2>3, StepAfter
    <3> QED
      BY <3>2, <3>3
  <2> QED
    BY <1>1, <2>2, <2>6, <2>7
<1>6. Len(s) = 1 \/ Len(s) > 1
  BY <1>1
<1> QED
  BY <1>4, <1>5, <1>6, Zenon
-----------------------------------------------------------------------------
(* A process of the pool                                                    *)

LEMMA PoolDoing ==
  ASSUME Types, Control, NEW t \in Tiles, steps[t] # <<>>
  PROVE  /\ steps[t] \in Seq(PoolSteps(t)) /\ steps[t] \in Seq(BringUpStep)
         /\ Doing(t) \in PoolSteps(t) /\ Doing(t) \in BringUpStep
         /\ Tail(steps[t]) \in Seq(PoolSteps(t)) /\ Tail(steps[t]) \in Seq(BringUpStep)
         /\ Leads(steps[t], Kinds(EarlyKinds), {Step("end")})
         /\ Leads(Tail(steps[t]), Kinds(EarlyKinds), {Step("end")})
         /\ Doing(t).do \in PoolPlainKinds \cup PoolTileKinds \cup PoolFpgaKinds
         /\ Doing(t).do \in PoolTileKinds => Doing(t).tile = t
         /\ Doing(t).do \in PoolFpgaKinds => Doing(t).fpga \in FpgasOf(t)
         /\ result[t] = "running" /\ IsAt(Caller, "join")
<1> DEFINE K == PoolSteps(t)
<1>1. steps[t] \in Seq(K) /\ Leads(steps[t], Kinds(EarlyKinds), {Step("end")})
      /\ result[t] = "running" /\ IsAt(Caller, "join")
  BY DEF Control
<1>2. K \subseteq BringUpStep
  BY DEF PoolSteps
<1>3. \A x \in K : /\ x.do \in PoolPlainKinds \cup PoolTileKinds \cup PoolFpgaKinds
                   /\ x.do \in PoolTileKinds => x.tile = t
                   /\ x.do \in PoolFpgaKinds => x.fpga \in FpgasOf(t)
  BY DEF PoolSteps, PoolTileKinds, PoolPlainKinds, PoolFpgaKinds
<1> HIDE DEF K
<1>4. Doing(t) \in K /\ Tail(steps[t]) \in Seq(K) /\ steps[t] \in Seq(BringUpStep) /\ Tail(steps[t]) \in Seq(BringUpStep)
  BY <1>1, <1>2 DEF Doing
<1>5. Leads(Tail(steps[t]), Kinds(EarlyKinds), {Step("end")})
  BY <1>1, <1>4, LeadsInTail
<1>6. Doing(t) \in BringUpStep
  BY <1>2, <1>4
<1> QED
  BY <1>1, <1>3, <1>4, <1>5, <1>6 DEF K

\* The process has this left to do, and this as its result.
Moves(t, q, r) ==
  /\ q \in Seq(PoolSteps(t)) /\ Leads(q, Kinds(EarlyKinds), {Step("end")})
  /\ q # <<>> <=> r = "running"
  /\ r \in Results
  /\ steps' = [steps EXCEPT ![t] = q]
  /\ result' = [result EXCEPT ![t] = r]
  /\ outcome' = outcome

ResultOf(q) == IF q = <<>> THEN "ok" ELSE "running"

LEMMA PoolProceeds ==
  ASSUME Types, Control, NEW t \in Tiles, steps[t] # <<>>,
         NEW more \in Seq(PoolSteps(t)), ~Comes(more, Kinds(EarlyKinds)), Proceeds(t, more)
  PROVE  Moves(t, more \o Tail(steps[t]), ResultOf(more \o Tail(steps[t])))
<1> DEFINE q == more \o Tail(steps[t])
<1> DEFINE K == PoolSteps(t)
<1>1. /\ Tail(steps[t]) \in Seq(K) /\ Tail(steps[t]) \in Seq(BringUpStep)
      /\ Leads(Tail(steps[t]), Kinds(EarlyKinds), {Step("end")}) /\ result[t] = "running"
  BY PoolDoing
<1>2. K \subseteq BringUpStep
  BY DEF PoolSteps
<1>3. more \in Seq(K)
  OBVIOUS
<1> HIDE DEF K
<1>4. q \in Seq(K) /\ more \in Seq(BringUpStep)
  BY <1>1, <1>2, <1>3
<1>5. Leads(q, Kinds(EarlyKinds), {Step("end")})
  <2>1. Leads(more, Kinds(EarlyKinds), {Step("end")})
    BY NothingComes
  <2> QED
    BY <1>1, <1>4, <2>1, LeadsJoined
<1>6. t # Caller
  BY CallerOrTile
<1>7. /\ steps' = [steps EXCEPT ![t] = q]
      /\ result' = IF q = <<>> THEN [result EXCEPT ![t] = "ok"] ELSE result
      /\ outcome' = outcome
  BY <1>6 DEF Proceeds
<1>8. result = [result EXCEPT ![t] = "running"]
  BY <1>1 DEF Types, BringUpTypeOK
<1> HIDE DEF q
<1>9. result' = [result EXCEPT ![t] = ResultOf(q)]
  BY <1>7, <1>8 DEF ResultOf
<1>10. (q # <<>> <=> ResultOf(q) = "running") /\ ResultOf(q) \in Results
  BY DEF ResultOf, Results
<1>11. Moves(t, q, ResultOf(q))
  BY <1>4, <1>5, <1>7, <1>9, <1>10 DEF Moves, K
<1> QED
  BY <1>11 DEF q

LEMMA PoolGoesOn ==
  ASSUME Types, Control, NEW t \in Tiles, steps[t] # <<>>, GoesOn(t)
  PROVE  Moves(t, Tail(steps[t]), ResultOf(Tail(steps[t])))
<1>1. <<>> \in Seq(PoolSteps(t)) /\ ~Comes(<<>>, Kinds(EarlyKinds)) /\ Proceeds(t, <<>>)
  BY DEF Comes, GoesOn
<1>2. Tail(steps[t]) \in Seq(BringUpStep)
  BY PoolDoing
<1>3. <<>> \o Tail(steps[t]) = Tail(steps[t])
  BY <1>2
<1>4. Moves(t, <<>> \o Tail(steps[t]), ResultOf(<<>> \o Tail(steps[t])))
  BY <1>1, PoolProceeds
<1> QED
  BY <1>3, <1>4

LEMMA PoolEnds ==
  ASSUME Types, Control, NEW t \in Tiles, steps[t] # <<>>
  PROVE  /\ Raises(t) => Moves(t, <<>>, "failed")
         /\ steps' = [steps EXCEPT ![t] = <<>>] /\ result' = [result EXCEPT ![t] = "raised"]
              /\ outcome' = outcome => Moves(t, <<>>, "raised")
<1>1. <<>> \in Seq(PoolSteps(t)) /\ Leads(<<>>, Kinds(EarlyKinds), {Step("end")}) /\ t # Caller
  BY CallerOrTile DEF Leads
<1>2. Raises(t) => Moves(t, <<>>, "failed")
  BY <1>1 DEF Raises, Ends, Moves, Results
<1> QED
  BY <1>1, <1>2 DEF Moves, Results

LEMMA PoolReturns ==
  ASSUME Types, Control, NEW t \in Tiles, steps[t] # <<>>, Doing(t).do \in EarlyKinds, Returns(t)
  PROVE  \E q :
           /\ Moves(t, q, "running") /\ q # <<>> /\ Head(q).do = "end"
           /\ \A X, Y : NoneAfter(steps[t], X, Y) => NoneAfter(q, X, Y)
           /\ \A X : Comes(q, X) => Comes(steps[t], X)
           /\ q[Len(q)] = steps[t][Len(steps[t])]
<1> DEFINE s == steps[t]
<1> DEFINE q == FromEnd(s)
<1>1. /\ s \in Seq(PoolSteps(t)) /\ s # <<>> /\ Head(s).do \in EarlyKinds
      /\ Leads(s, Kinds(EarlyKinds), {Step("end")}) /\ result[t] = "running"
  BY PoolDoing DEF Doing
<1>2. steps' = [steps EXCEPT ![t] = q] /\ UNCHANGED <<result, outcome>>
  <2>1. s = steps[t] /\ t \in DOMAIN steps
    BY CallerOrTile DEF Control
  <2> QED
    BY <2>1 DEF Returns, FromEnd
<1> HIDE DEF s
<1>3. /\ q \in Seq(PoolSteps(t)) /\ q # <<>> /\ Head(q).do = "end"
      /\ \A X, Y : Leads(s, X, Y) => Leads(q, X, Y)
      /\ \A X, Y : NoneAfter(s, X, Y) => NoneAfter(q, X, Y)
      /\ \A X : Comes(q, X) => Comes(s, X)
      /\ q[Len(q)] = s[Len(s)]
  BY <1>1, FromTheEnd
<1> HIDE DEF q
<1>4. result' = [result EXCEPT ![t] = "running"]
  BY <1>1, <1>2 DEF Types, BringUpTypeOK
<1>5. Moves(t, q, "running")
  BY <1>1, <1>2, <1>3, <1>4 DEF Moves, Results
<1> QED
  BY <1>3, <1>5 DEF s

LEMMA FormSame ==
  ASSUME config' = config, steps'[Caller] = steps[Caller]
  PROVE  /\ Connecting(steps[Caller])' <=> Connecting(steps[Caller])
         /\ Formation(steps[Caller])' <=> Formation(steps[Caller])
BY DEF Connecting, Formation

LEMMA PoolControl ==
  ASSUME Types, Control, NEW t \in Tiles, steps[t] # <<>>, NEW q, NEW r, Moves(t, q, r),
         config' = config, held'[Caller] = held[Caller], seen'[Caller] = seen[Caller]
  PROVE  Control' /\ steps'[Caller] = steps[Caller] /\ steps'[t] = q /\ result'[t] = r
         /\ \A u \in Tiles \ {t} : steps'[u] = steps[u] /\ result'[u] = result[u]
<1>1. /\ steps \in [Processes -> Seq(BringUpStep)] /\ result \in [Tiles -> Results]
      /\ t \in Processes /\ t # Caller /\ Caller \in Processes
  BY CallerOrTile, TypesAre DEF Control, ResultTypes
<1>2. \A u \in Tiles : u \in Processes
  BY CallerOrTile
<1>3. /\ q \in Seq(PoolSteps(t)) /\ Leads(q, Kinds(EarlyKinds), {Step("end")})
      /\ q # <<>> <=> r = "running"
      /\ steps' = [steps EXCEPT ![t] = q] /\ result' = [result EXCEPT ![t] = r] /\ outcome' = outcome
  BY DEF Moves
<1>4. steps'[t] = q /\ steps'[Caller] = steps[Caller] /\ result'[t] = r
      /\ \A u \in Tiles \ {t} : steps'[u] = steps[u] /\ result'[u] = result[u]
  BY <1>1, <1>2, <1>3
<1>5. IsAt(Caller, "join")
  BY PoolDoing
<1>6. steps' \in [Processes -> Seq(BringUpStep)]
  <2>1. q \in Seq(BringUpStep)
    <3> DEFINE K == PoolSteps(t)
    <3>1. K \subseteq BringUpStep
      BY DEF PoolSteps
    <3>2. q \in Seq(K)
      BY <1>3
    <3> HIDE DEF K
    <3> QED
      BY <3>1, <3>2
  <2> QED
    BY <1>1, <1>3, <2>1
<1>7. (Connecting(steps[Caller]) \/ Formation(steps[Caller]))'
  BY <1>4, FormSame DEF Control
<1>8. IsAt(Caller, "join")'
  BY <1>4, <1>5 DEF IsAt, Doing
<1>9. ASSUME NEW u \in Tiles
      PROVE  (/\ steps[u] \in Seq(PoolSteps(u))
              /\ Leads(steps[u], Kinds(EarlyKinds), {Step("end")})
              /\ steps[u] # <<>> <=> result[u] = "running"
              /\ steps[u] # <<>> => IsAt(Caller, "join"))'
  <2>1. CASE u = t
    BY <1>3, <1>4, <1>8, <2>1
  <2>2. CASE u # t
    BY <1>4, <1>8, <2>2 DEF Control
  <2> QED
    BY <2>1, <2>2
<1>10. (Connecting(steps[Caller]) => held[Caller] = {} /\ seen[Caller] = {})'
  BY <1>4, FormSame DEF Control
<1>11. (outcome # "none" => steps[Caller] = <<>>)'
  BY <1>3, <1>4 DEF Control
<1>12. Control'
  BY <1>6, <1>7, <1>9, <1>10, <1>11 DEF Control
<1> QED
  BY <1>4, <1>12

LEMMA TwoCompared ==
  ASSUME Types, Control, NEW t \in Tiles, IsAt(t, "compare_two"), NEW equal,
         NEW more, more = AfterTwoCompared(equal, Doing(t).tile, Doing(t).attempt)
  PROVE  /\ more \in Seq(PoolSteps(t)) /\ ~Comes(more, Kinds(EarlyKinds))
         /\ more \in Seq(Of(t, SyncKinds))
<1>1. steps[t] # <<>> /\ Doing(t).do = "compare_two"
  BY DEF IsAt
<1>2. Doing(t) \in BringUpStep /\ Doing(t).tile = t
  BY <1>1, PoolDoing DEF PoolTileKinds
<1>3. Doing(t).attempt \in Nat /\ Doing(t).attempt + 1 \in Nat
  BY <1>1, <1>2, AttemptOfStep
<1>4. SyncAttempt(t, Doing(t).attempt + 1) \in Seq(Of(t, SyncKinds))
  BY <1>3, SyncProgram
<1>5. <<>> \in Seq(Of(t, SyncKinds))
  OBVIOUS
<1>6. more = <<>> \/ more = SyncAttempt(t, Doing(t).attempt + 1)
  BY <1>2 DEF AfterTwoCompared
<1>7. more \in Seq(Of(t, SyncKinds))
  BY <1>4, <1>5, <1>6
<1>8. SyncKinds \cap EarlyKinds = {}
  BY DEF SyncKinds, EarlyKinds
<1> QED
  BY <1>7, <1>8, PoolSequence, NoKind

\* what no process of the pool does
LEMMA PoolDoesNot ==
  ASSUME Types, Control, NEW t \in Tiles
  PROVE  /\ ~IsAt(t, "hold_clock") /\ ~IsAt(t, "compare_delays") /\ ~IsAt(t, "compare_all")
         /\ ~IsAt(t, "start_at") /\ ~IsAt(t, "check_start") /\ ~IsAt(t, "await_started")
         /\ ~IsAt(t, "needs_programmed")
<1>1. steps[t] # <<>> => Doing(t).do \in PoolPlainKinds \cup PoolTileKinds \cup PoolFpgaKinds
  BY PoolDoing
<1> QED
  BY <1>1 DEF IsAt, PoolPlainKinds, PoolTileKinds, PoolFpgaKinds

LEMMA PoolRun ==
  ASSUME Types, Control, NEW t \in Tiles, Run(t)
  PROVE  /\ steps[t] # <<>>
         /\ \E q, r : Moves(t, q, r)
         /\ held'[Caller] = held[Caller] /\ seen'[Caller] = seen[Caller]
         /\ properly_formed' = properly_formed
<1> DEFINE M == \E q, r : Moves(t, q, r)
<1>1. t # Caller /\ t \in Processes /\ Caller \in Processes
  BY CallerOrTile
<1>2. steps[t] # <<>> => /\ GoesOn(t) => M
                         /\ Raises(t) => M
                         /\ steps' = [steps EXCEPT ![t] = <<>>] /\ result' = [result EXCEPT ![t] = "raised"]
                            /\ outcome' = outcome => M
  BY PoolGoesOn, PoolEnds
<1>3. \A do : IsAt(t, do) => steps[t] # <<>> /\ Doing(t).do = do
  BY DEF IsAt
<1>4. /\ held \in [Processes -> SUBSET Int] /\ seen \in [Processes -> SUBSET Int]
  BY TypesAre DEF TimeTypes
<1>5. ASSUME UNCHANGED times PROVE held'[Caller] = held[Caller] /\ seen'[Caller] = seen[Caller]
  BY <1>5 DEF times
<1> HIDE DEF M
<1>6. CASE ConnectBoard(t)
  <2>1. steps[t] # <<>> /\ (GoesOn(t) \/ Raises(t)) /\ UNCHANGED times /\ UNCHANGED properly_formed
    BY <1>3, <1>6 DEF ConnectBoard
  <2> QED
    BY <1>2, <1>5, <2>1 DEF M
<1>7. CASE NeedsPlugins(t)
  <2>1. steps[t] # <<>> /\ (GoesOn(t) \/ Raises(t)) /\ UNCHANGED times /\ UNCHANGED properly_formed
    BY <1>3, <1>7 DEF NeedsPlugins
  <2> QED
    BY <1>2, <1>5, <2>1 DEF M
<1>8. CASE Program(t)
  <2>1. steps[t] # <<>> /\ (GoesOn(t) \/ Raises(t)) /\ UNCHANGED times /\ UNCHANGED properly_formed
    BY <1>3, <1>8 DEF Program
  <2> QED
    BY <1>2, <1>5, <2>1 DEF M
<1>9. CASE LookUp(t)
  <2>1. /\ steps[t] # <<>> /\ UNCHANGED times /\ UNCHANGED properly_formed
        /\ \/ GoesOn(t)
           \/ steps' = [steps EXCEPT ![t] = <<>>] /\ result' = [result EXCEPT ![t] = "raised"]
              /\ outcome' = outcome
    BY <1>3, <1>9 DEF LookUp
  <2> QED
    BY <1>2, <1>5, <2>1 DEF M
<1>10. CASE ReturnEarly(t)
  <2>1. /\ steps[t] # <<>> /\ (GoesOn(t) \/ (Doing(t).do \in EarlyKinds /\ Returns(t)))
        /\ UNCHANGED times /\ UNCHANGED properly_formed
    BY <1>3, <1>10 DEF ReturnEarly, EarlyKinds
  <2>2. Doing(t).do \in EarlyKinds /\ Returns(t) => M
    BY <2>1, PoolReturns DEF M
  <2> QED
    BY <1>2, <1>5, <2>1, <2>2 DEF M
<1>11. CASE Firmware_(t)
  <2>1. steps[t] # <<>> /\ (GoesOn(t) \/ Raises(t)) /\ UNCHANGED times /\ UNCHANGED properly_formed
    BY <1>3, <1>11 DEF Firmware_
  <2> QED
    BY <1>2, <1>5, <2>1 DEF M
<1>12. CASE SetRegisters(t)
  <2>1. steps[t] # <<>> /\ GoesOn(t) /\ UNCHANGED times /\ UNCHANGED properly_formed
    BY <1>3, <1>12 DEF SetRegisters
  <2> QED
    BY <1>2, <1>5, <2>1 DEF M
<1>13. CASE AwaitPps(t)
  <2>1. steps[t] # <<>> /\ (GoesOn(t) \/ Raises(t)) /\ UNCHANGED properly_formed
    BY <1>3, <1>13 DEF AwaitPps
  <2>2. held' = [held EXCEPT ![t] = {}] /\ seen' = [seen EXCEPT ![t] = {}]
    BY <1>13 DEF AwaitPps
  <2>3. held'[Caller] = held[Caller] /\ seen'[Caller] = seen[Caller]
    BY <1>1, <1>4, <2>2
  <2> QED
    BY <1>2, <2>1, <2>3 DEF M
<1>14. CASE ReadClock(t)
  <2>1. steps[t] # <<>> /\ GoesOn(t) /\ UNCHANGED properly_formed
    BY <1>3, <1>14 DEF ReadClock
  <2>2. \E h : (held' = held \/ held' = [held EXCEPT ![t] = h]) /\ (seen' = seen \/ seen' = [seen EXCEPT ![t] = h])
    BY <1>14 DEF ReadClock
  <2>3. held'[Caller] = held[Caller] /\ seen'[Caller] = seen[Caller]
    BY <1>1, <1>4, <2>2
  <2> QED
    BY <1>2, <2>1, <2>3 DEF M
<1>15. CASE SetClock(t)
  <2>1. steps[t] # <<>> /\ GoesOn(t) /\ UNCHANGED times /\ UNCHANGED properly_formed
    BY <1>3, <1>15 DEF SetClock
  <2> QED
    BY <1>2, <1>5, <2>1 DEF M
<1>16. CASE SetSampling(t)
  <2>1. steps[t] # <<>> /\ (GoesOn(t) \/ Raises(t)) /\ UNCHANGED times /\ UNCHANGED properly_formed
    BY <1>3, <1>16 DEF SetSampling
  <2> QED
    BY <1>2, <1>5, <2>1 DEF M
<1>17. CASE Compare(t)
  <2>1. IsAt(t, "compare_two")
    BY <1>17, PoolDoesNot DEF Compare
  <2>2. /\ \E equal : Proceeds(t, AfterTwoCompared(equal, Doing(t).tile, Doing(t).attempt))
        /\ held' = [held EXCEPT ![t] = {}] /\ seen' = [seen EXCEPT ![t] = {}]
        /\ UNCHANGED properly_formed
    BY <1>17, PoolDoesNot DEF Compare
  <2>3. PICK equal : Proceeds(t, AfterTwoCompared(equal, Doing(t).tile, Doing(t).attempt))
    BY <2>2
  <2>4. steps[t] # <<>>
    BY <1>3, <2>1
  <2> DEFINE more == AfterTwoCompared(equal, Doing(t).tile, Doing(t).attempt)
  <2>5. more \in Seq(PoolSteps(t)) /\ ~Comes(more, Kinds(EarlyKinds)) /\ Proceeds(t, more)
    BY <2>1, <2>3, TwoCompared
  <2> HIDE DEF more
  <2>6. M
    BY <2>4, <2>5, PoolProceeds DEF M
  <2>7. held'[Caller] = held[Caller] /\ seen'[Caller] = seen[Caller]
    BY <1>1, <1>4, <2>2
  <2> QED
    BY <2>2, <2>4, <2>6, <2>7 DEF M
<1>18. CASE StartAt(t) \/ CheckStart(t)
  BY <1>18, PoolDoesNot DEF StartAt, CheckStart
<1> QED
  BY <1>1, <1>6, <1>7, <1>8, <1>9, <1>10, <1>11, <1>12, <1>13, <1>14, <1>15, <1>16, <1>17, <1>18 DEF Run
-----------------------------------------------------------------------------
(* The station's process                                                    *)

\* While it does not wait for the pool, the pool does nothing.
LEMMA CallerAlone ==
  ASSUME Types, Control, Run(Caller)
  PROVE  steps[Caller] # <<>> /\ \A t \in Tiles : steps[t] = <<>>
<1>1. CASE Join
  BY <1>1 DEF Join, IsAt, Control
<1>2. CASE ~Join
  <2>1. steps[Caller] # <<>> /\ Doing(Caller).do # "join"
    <3>1. CASE ConnectBoard(Caller) \/ NeedsPlugins(Caller)
      BY <3>1 DEF ConnectBoard, NeedsPlugins, IsAt
    <3>2. CASE Program(Caller) \/ LookUp(Caller) \/ ReturnEarly(Caller) \/ Firmware_(Caller)
      BY <3>2 DEF Program, LookUp, ReturnEarly, Firmware_, IsAt
    <3>3. CASE SetRegisters(Caller) \/ AwaitPps(Caller) \/ ReadClock(Caller) \/ SetClock(Caller)
      BY <3>3 DEF SetRegisters, AwaitPps, ReadClock, SetClock, IsAt
    <3>4. CASE SetSampling(Caller) \/ Compare(Caller) \/ StartAt(Caller) \/ CheckStart(Caller)
      BY <3>4 DEF SetSampling, Compare, StartAt, CheckStart, IsAt
    <3>5. CASE Map \/ Branch \/ CheckStatus
      BY <3>5 DEF Map, Branch, CheckStatus, IsAt
    <3> QED
      BY <1>2, <3>1, <3>2, <3>3, <3>4, <3>5 DEF Run
  <2> QED
    BY <2>1 DEF Control, IsAt
<1> QED
  BY <1>1, <1>2

LEMMA CallerDoing ==
  ASSUME Types, Control, steps[Caller] # <<>>
  PROVE  /\ steps[Caller] \in Seq(BringUpStep) /\ Tail(steps[Caller]) \in Seq(BringUpStep)
         /\ Doing(Caller) \in BringUpStep /\ Doing(Caller) = Head(steps[Caller])
         /\ outcome = "none"
         /\ \/ Formation(steps[Caller]) /\ ~Connecting(steps[Caller])
               /\ Doing(Caller).do \in FormKinds \cup {"check_status"}
            \/ Connecting(steps[Caller]) /\ ~Formation(steps[Caller])
               /\ Doing(Caller).do \in ConnectKinds \cup {"form"}
<1>1. steps[Caller] \in Seq(BringUpStep) /\ (Connecting(steps[Caller]) \/ Formation(steps[Caller])) /\ outcome = "none"
  BY CallerOrTile DEF Control
<1>2. Tail(steps[Caller]) \in Seq(BringUpStep) /\ Doing(Caller) = Head(steps[Caller]) /\ Doing(Caller) \in BringUpStep
  BY <1>1, StepAfter DEF Doing
<1>3. ASSUME Formation(steps[Caller])
      PROVE  ~Connecting(steps[Caller]) /\ Doing(Caller).do \in FormKinds \cup {"check_status"}
  BY <1>2, <1>3, FormationOrNot
<1>4. ASSUME Connecting(steps[Caller])
      PROVE  Doing(Caller).do \in ConnectKinds \cup {"form"}
  BY <1>1, <1>2, <1>4, ConnectingGoesOn
<1> QED
  BY <1>1, <1>2, <1>3, <1>4

LEMMA CallerLeaves ==
  ASSUME Types, Control, \A t \in Tiles : steps[t] = <<>>,
         NEW q \in Seq(BringUpStep), steps' = [steps EXCEPT ![Caller] = q],
         result' = result, config' = config,
         Formation(q) \/ (Connecting(q) /\ held'[Caller] = {} /\ seen'[Caller] = {}),
         outcome' # "none" => q = <<>>
  PROVE  Control' /\ steps'[Caller] = q
<1>1. steps \in [Processes -> Seq(BringUpStep)]
  BY DEF Control
<1>2. Caller \in Processes /\ \A t \in Tiles : t \in Processes /\ t # Caller
  BY CallerOrTile
<1>3. steps'[Caller] = q /\ \A t \in Tiles : steps'[t] = <<>>
  BY <1>1, <1>2
<1>4. steps' \in [Processes -> Seq(BringUpStep)]
  BY <1>1
<1>5. /\ Connecting(steps[Caller])' <=> Connecting(q)
      /\ Formation(steps[Caller])' <=> Formation(q)
  BY <1>3 DEF Connecting, Formation
<1>6. (Connecting(steps[Caller]) \/ Formation(steps[Caller]))'
  BY <1>5
<1>7. ASSUME NEW t \in Tiles
      PROVE  (/\ steps[t] \in Seq(PoolSteps(t))
              /\ Leads(steps[t], Kinds(EarlyKinds), {Step("end")})
              /\ steps[t] # <<>> <=> result[t] = "running"
              /\ steps[t] # <<>> => IsAt(Caller, "join"))'
  BY <1>3 DEF Control
<1>8. (Connecting(steps[Caller]) => held[Caller] = {} /\ seen[Caller] = {})'
  <2>1. Formation(q) => ~Connecting(q)
    BY FormationOrNot
  <2>2. Connecting(q) => held'[Caller] = {} /\ seen'[Caller] = {}
    BY <2>1
  <2> QED
    BY <1>5, <2>2
<1>9. (outcome # "none" => steps[Caller] = <<>>)'
  BY <1>3
<1> QED
  BY <1>3, <1>4, <1>6, <1>7, <1>8, <1>9 DEF Control

LEMMA CallerProceeds ==
  ASSUME Types, Control, steps[Caller] # <<>>
  PROVE  /\ \A more : Proceeds(Caller, more) =>
              /\ steps' = [steps EXCEPT ![Caller] = more \o Tail(steps[Caller])]
              /\ result' = result
              /\ outcome' = IF more \o Tail(steps[Caller]) = <<>> THEN "returned" ELSE "none"
         /\ GoesOn(Caller) =>
              /\ steps' = [steps EXCEPT ![Caller] = Tail(steps[Caller])]
              /\ result' = result
              /\ outcome' = IF Tail(steps[Caller]) = <<>> THEN "returned" ELSE "none"
         /\ \A how : Ends(Caller, how) =>
              steps' = [steps EXCEPT ![Caller] = <<>>] /\ result' = result /\ outcome' = how
         /\ Raises(Caller) =>
              steps' = [steps EXCEPT ![Caller] = <<>>] /\ result' = result /\ outcome' = "raised"
<1>1. outcome = "none" /\ Tail(steps[Caller]) \in Seq(BringUpStep)
  BY CallerDoing
<1>2. ASSUME NEW more, Proceeds(Caller, more)
      PROVE  /\ steps' = [steps EXCEPT ![Caller] = more \o Tail(steps[Caller])]
             /\ result' = result
             /\ outcome' = IF more \o Tail(steps[Caller]) = <<>> THEN "returned" ELSE "none"
  BY <1>1, <1>2 DEF Proceeds
<1>3. <<>> \o Tail(steps[Caller]) = Tail(steps[Caller])
  BY <1>1
<1>4. GoesOn(Caller) =>
              /\ steps' = [steps EXCEPT ![Caller] = Tail(steps[Caller])]
              /\ result' = result
              /\ outcome' = IF Tail(steps[Caller]) = <<>> THEN "returned" ELSE "none"
  BY <1>2, <1>3 DEF GoesOn
<1>5. ASSUME NEW how, Ends(Caller, how)
      PROVE  steps' = [steps EXCEPT ![Caller] = <<>>] /\ result' = result /\ outcome' = how
  BY <1>5 DEF Ends
<1> QED
  BY <1>2, <1>4, <1>5 DEF Raises

\* In the forming of the station it goes on to the next step, ends, or compares.
LEMMA FormingMoves ==
  ASSUME Types, Control, Run(Caller), Formation(steps[Caller])
  PROVE  \/ GoesOn(Caller) \/ Raises(Caller) \/ Ends(Caller, "exit")
         \/ (IsAt(Caller, "compare_delays") \/ IsAt(Caller, "compare_all")) /\ Compare(Caller)
<1>1. steps[Caller] # <<>>
  BY CallerAlone
<1>2. Doing(Caller).do \in FormKinds \cup {"check_status"}
  BY <1>1, CallerDoing
<1>3. \A do : IsAt(Caller, do) => do \in FormKinds \cup {"check_status"}
  BY <1>2 DEF IsAt
<1>4. ~LookUp(Caller) /\ ~ReturnEarly(Caller) /\ ~Map /\ ~Join /\ ~Branch /\ ~IsAt(Caller, "compare_two")
  <2>1. ~LookUp(Caller) /\ ~ReturnEarly(Caller)
    BY <1>3 DEF FormKinds, LookUp, ReturnEarly
  <2>2. ~Map /\ ~Join /\ ~Branch
    BY <1>3 DEF FormKinds, Map, Join, Branch
  <2>3. ~IsAt(Caller, "compare_two")
    BY <1>3 DEF FormKinds
  <2> QED
    BY <2>1, <2>2, <2>3
<1>5. CASE ConnectBoard(Caller) \/ NeedsPlugins(Caller) \/ Program(Caller) \/ Firmware_(Caller)
  BY <1>5 DEF ConnectBoard, NeedsPlugins, Program, Firmware_
<1>6. CASE SetRegisters(Caller) \/ AwaitPps(Caller) \/ ReadClock(Caller) \/ SetClock(Caller)
  BY <1>6 DEF SetRegisters, AwaitPps, ReadClock, SetClock
<1>7. CASE SetSampling(Caller) \/ StartAt(Caller) \/ CheckStart(Caller) \/ CheckStatus
  BY <1>7 DEF SetSampling, StartAt, CheckStart, CheckStatus
<1>8. CASE Compare(Caller)
  BY <1>4, <1>8 DEF Compare
<1> QED
  BY <1>4, <1>5, <1>6, <1>7, <1>8 DEF Run

\* what the delays, or the clocks, that are compared lead to
LEMMA ComparedGoesOn ==
  ASSUME Types, Control, Formation(steps[Caller]), NEW more,
         \/ /\ IsAt(Caller, "compare_delays")
            /\ \E synced \in BOOLEAN : more = AfterDelaysCompared(synced, delay[1], Doing(Caller).attempt)
         \/ /\ IsAt(Caller, "compare_all")
            /\ \E equal \in BOOLEAN : more = AfterAllCompared(equal, Doing(Caller).attempt)
  PROVE  more \o Tail(steps[Caller]) \in Seq(BringUpStep) /\ Formation(more \o Tail(steps[Caller]))
<1> DEFINE x == Doing(Caller)
<1> DEFINE r == Tail(steps[Caller])
<1>1. /\ steps[Caller] # <<>> /\ x.do \in {"compare_delays", "compare_all"}
      /\ IsAt(Caller, "compare_delays") => x.do = "compare_delays"
      /\ IsAt(Caller, "compare_all") => x.do = "compare_all"
  BY DEF IsAt
<1>2. x \in BringUpStep /\ x = Head(steps[Caller]) /\ r \in Seq(BringUpStep)
  BY <1>1, CallerDoing
<1>3. x.attempt \in Nat
  BY <1>1, <1>2, AttemptOfStep
<1>4. config.initialise
  <2>1. CASE ~config.initialise
    <3>1. steps[Caller] \in Seq(Kinds({"check_status"}))
      BY <2>1 DEF Formation
    <3>2. x.do = "check_status"
      BY <1>1, <1>2, <3>1, KindsTail
    <3> QED
      BY <1>1, <3>2
  <2> QED
    BY <2>1
<1>5. r \in Seq(Kinds(FormKinds)) /\ InOrder(r) /\ HeadInOrder(x, r)
  BY <1>1, <1>2, <1>4, InOrderTail DEF Formation
<1> HIDE DEF r
<1>6. Formation(r)
  BY <1>4, <1>5 DEF Formation
<1>7. CASE more = <<>>
  <2>1. more \o r = r
    BY <1>2, <1>7
  <2> QED
    BY <1>2, <1>6, <2>1 DEF r
<1>8. ASSUME IsAt(Caller, "compare_delays"), more = AfterDelaysCompared(FALSE, delay[1], x.attempt)
      PROVE  more \o r \in Seq(Kinds(FormKinds)) /\ InOrder(more \o r)
  <2>1. x.do = "compare_delays" /\ HeadInOrder([do |-> "compare_delays", attempt |-> x.attempt], r)
    BY <1>1, <1>5, <1>8 DEF HeadInOrder
  <2>2. delay[1] \in Int
    BY TypesAre, CallerOrTile DEF TileTypes
  <2> HIDE DEF x
  <2> QED
    BY <1>3, <1>5, <1>8, <2>1, <2>2, MoreSampling
<1>9. ASSUME IsAt(Caller, "compare_all"), more = AfterAllCompared(FALSE, x.attempt)
      PROVE  more \o r \in Seq(Kinds(FormKinds)) /\ InOrder(more \o r)
  <2>1. x.do = "compare_all"
    BY <1>1, <1>9
  <2> HIDE DEF x
  <2> QED
    BY <1>3, <1>5, <1>9, <2>1, MoreTime
<1>10. \/ more = <<>>
       \/ IsAt(Caller, "compare_delays") /\ more = AfterDelaysCompared(FALSE, delay[1], x.attempt)
       \/ IsAt(Caller, "compare_all") /\ more = AfterAllCompared(FALSE, x.attempt)
  BY DEF AfterDelaysCompared, AfterAllCompared
<1>11. more \o r \in Seq(Kinds(FormKinds)) /\ InOrder(more \o r) => more \o r \in Seq(BringUpStep) /\ Formation(more \o r)
  <2> SUFFICES ASSUME more \o r \in Seq(Kinds(FormKinds)), InOrder(more \o r)
               PROVE  more \o r \in Seq(BringUpStep) /\ Formation(more \o r)
    OBVIOUS
  <2>1. more \o r \in Seq(BringUpStep)
    BY OfKinds
  <2> QED
    BY <1>4, <2>1 DEF Formation
<1> QED
  BY <1>7, <1>8, <1>9, <1>10, <1>11 DEF r

LEMMA ControlInForming ==
  ASSUME Types, Control, Run(Caller), Formation(steps[Caller])
  PROVE  Control'
<1>1. steps[Caller] # <<>> /\ \A t \in Tiles : steps[t] = <<>>
  BY CallerAlone
<1>2. config' = config
  BY DEF Run, given
<1>3. Tail(steps[Caller]) \in Seq(BringUpStep) /\ outcome = "none"
  BY <1>1, CallerDoing
<1>4. ASSUME NEW q \in Seq(BringUpStep), steps' = [steps EXCEPT ![Caller] = q],
             result' = result, Formation(q), outcome' # "none" => q = <<>>
      PROVE  Control'
  BY <1>1, <1>2, <1>4, CallerLeaves
<1>5. Formation(<<>>) /\ Formation(Tail(steps[Caller])) /\ <<>> \in Seq(BringUpStep)
  BY <1>1, FormationGoesOn
<1>6. CASE GoesOn(Caller)
  BY <1>1, <1>3, <1>4, <1>5, <1>6, CallerProceeds
<1>7. CASE Raises(Caller) \/ Ends(Caller, "exit")
  BY <1>1, <1>4, <1>5, <1>7, CallerProceeds
<1>8. CASE (IsAt(Caller, "compare_delays") \/ IsAt(Caller, "compare_all")) /\ Compare(Caller)
  <2>1. PICK more :
          /\ Proceeds(Caller, more)
          /\ \/ /\ IsAt(Caller, "compare_delays")
                /\ \E synced \in BOOLEAN : more = AfterDelaysCompared(synced, delay[1], Doing(Caller).attempt)
             \/ /\ IsAt(Caller, "compare_all")
                /\ \E equal \in BOOLEAN : more = AfterAllCompared(equal, Doing(Caller).attempt)
    BY <1>8 DEF Compare, IsAt
  <2> DEFINE q == more \o Tail(steps[Caller])
  <2>2. q \in Seq(BringUpStep) /\ Formation(q)
    BY <2>1, ComparedGoesOn
  <2>3. steps' = [steps EXCEPT ![Caller] = q] /\ result' = result
        /\ outcome' = IF q = <<>> THEN "returned" ELSE "none"
    BY <1>1, <2>1, CallerProceeds
  <2> HIDE DEF q
  <2> QED
    BY <1>4, <2>2, <2>3
<1> QED
  BY <1>6, <1>7, <1>8, FormingMoves

LEMMA FormationEmpty == Formation(<<>>)
<1>1. InOrder(<<>>)
  BY DEF InOrder, NoneAfter, Leads
<1> QED
  BY <1>1 DEF Formation

LEMMA AfterConnectedProgram ==
  AfterConnected \in Seq(BringUpStep) /\ Formation(AfterConnected)
<1>1. CASE ~properly_formed
  BY <1>1, FormationEmpty DEF AfterConnected
<1>2. CASE properly_formed /\ config.initialise
  <2>1. AfterConnected = Form
    BY <1>2 DEF AfterConnected
  <2>2. Form \in Seq(Kinds(FormKinds)) /\ InOrder(Form)
    BY FormProgram DEF ToForm
  <2>3. Form \in Seq(BringUpStep)
    BY <2>2, OfKinds
  <2> QED
    BY <1>2, <2>1, <2>2, <2>3 DEF Formation
<1>3. CASE properly_formed /\ ~config.initialise
  <2>1. AfterConnected = check_station_status
    BY <1>3 DEF AfterConnected
  <2>2. check_station_status \in Seq(BringUpStep)
    BY CheckProgram, OfKinds
  <2> QED
    BY <1>3, <2>1, <2>2, CheckProgram DEF Formation
<1> QED
  BY <1>1, <1>2, <1>3

\* what the station does until it is formed
LEMMA ConnectingMoves ==
  ASSUME Types, Control, Run(Caller), Connecting(steps[Caller])
  PROVE  \/ IsAt(Caller, "connect") /\ ConnectBoard(Caller) /\ GoesOn(Caller)
         \/ IsAt(Caller, "map") /\ Map
         \/ IsAt(Caller, "join") /\ Join
         \/ IsAt(Caller, "form") /\ Branch
<1>1. steps[Caller] # <<>>
  BY CallerAlone
<1>2. Doing(Caller).do \in ConnectKinds \cup {"form"}
  <2>1. ~Formation(steps[Caller])
    BY FormationOrNot
  <2> QED
    BY <1>1, <2>1, CallerDoing
<1>3. \A do : IsAt(Caller, do) => do \in ConnectKinds \cup {"form"}
  BY <1>2 DEF IsAt
<1>4. CASE ConnectBoard(Caller)
  BY <1>3, <1>4 DEF ConnectBoard, ConnectKinds
<1>5. ~NeedsPlugins(Caller) /\ ~Program(Caller) /\ ~Firmware_(Caller)
  BY <1>3 DEF NeedsPlugins, Program, Firmware_, ConnectKinds
<1>6. ~LookUp(Caller) /\ ~ReturnEarly(Caller) /\ ~SetRegisters(Caller) /\ ~AwaitPps(Caller)
  BY <1>3 DEF LookUp, ReturnEarly, SetRegisters, AwaitPps, ConnectKinds
<1>7. ~ReadClock(Caller) /\ ~SetClock(Caller) /\ ~SetSampling(Caller)
  BY <1>3 DEF ReadClock, SetClock, SetSampling, ConnectKinds
<1>8. ~Compare(Caller) /\ ~StartAt(Caller) /\ ~CheckStart(Caller) /\ ~CheckStatus
  <2>1. ~Compare(Caller)
    <3>1. Compare(Caller) =>
            IsAt(Caller, "compare_two") \/ IsAt(Caller, "compare_delays") \/ IsAt(Caller, "compare_all")
      BY DEF Compare
    <3>2. ~IsAt(Caller, "compare_two") /\ ~IsAt(Caller, "compare_delays") /\ ~IsAt(Caller, "compare_all")
      BY <1>3 DEF ConnectKinds
    <3> QED
      BY <3>1, <3>2
  <2>2. ~StartAt(Caller) /\ ~CheckStart(Caller) /\ ~CheckStatus
    BY <1>3 DEF StartAt, CheckStart, CheckStatus, ConnectKinds
  <2> QED
    BY <2>1, <2>2
<1> QED
  BY <1>4, <1>5, <1>6, <1>7, <1>8 DEF Run, Map, Join, Branch

\* The processes are started.
StartsPool(kind) ==
  /\ kind \in {"program_cpld", "program", "initialise"} /\ Doing(Caller) \in MapOf(kind)
  /\ steps' = [p \in Processes |-> IF p = Caller THEN Tail(steps[Caller]) ELSE PoolProgram(kind, p)]
  /\ result' = [t \in Tiles |-> "running"]
  /\ UNCHANGED <<times, outcome>>

LEMMA PoolIsStarted ==
  ASSUME Types, Control, Connecting(steps[Caller]), IsAt(Caller, "map"), config' = config,
         NEW kind, StartsPool(kind)
  PROVE  Control' /\ \A t \in Tiles : steps'[t] = PoolProgram(kind, t)
<1> DEFINE r == Tail(steps[Caller])
<1>1. steps[Caller] # <<>> /\ Doing(Caller).do = "map" /\ kind \in {"program_cpld", "program", "initialise"}
  BY DEF IsAt, StartsPool
<1>2. steps[Caller] \in Seq(BringUpStep) /\ r \in Seq(BringUpStep) /\ Doing(Caller) = Head(steps[Caller])
      /\ outcome = "none"
  BY <1>1, CallerDoing
<1>3. Connecting(r) /\ Head(r) = Step("join")
  BY <1>1, <1>2, ConnectingGoesOn
<1>4. Caller \in Processes /\ \A t \in Tiles : t \in Processes /\ t # Caller
  BY CallerOrTile
<1>5. \A p \in Processes : p = Caller \/ p \in Tiles
  BY CallerOrTile
<1>6. ASSUME NEW t \in Tiles
      PROVE  /\ PoolProgram(kind, t) \in Seq(PoolSteps(t)) /\ PoolProgram(kind, t) # <<>>
             /\ Leads(PoolProgram(kind, t), Kinds(EarlyKinds), {Step("end")})
             /\ PoolProgram(kind, t) \in Seq(BringUpStep)
  <2> DEFINE K == PoolSteps(t)
  <2>1. K \subseteq BringUpStep
    BY DEF PoolSteps
  <2>2. PoolProgram(kind, t) \in Seq(K) /\ PoolProgram(kind, t) # <<>>
        /\ Leads(PoolProgram(kind, t), Kinds(EarlyKinds), {Step("end")})
    BY <1>1, PoolPrograms
  <2> HIDE DEF K
  <2>3. PoolProgram(kind, t) \in Seq(BringUpStep)
    BY <2>1, <2>2
  <2> QED
    BY <2>2, <2>3 DEF K
<1> HIDE DEF r
<1>7. steps' = [p \in Processes |-> IF p = Caller THEN r ELSE PoolProgram(kind, p)]
      /\ result' = [t \in Tiles |-> "running"] /\ UNCHANGED <<times, outcome>>
  BY DEF StartsPool, r
<1>8. steps'[Caller] = r /\ \A t \in Tiles : steps'[t] = PoolProgram(kind, t) /\ result'[t] = "running"
  BY <1>4, <1>7
<1>9. steps' \in [Processes -> Seq(BringUpStep)]
  <2>1. \A p \in Processes : (IF p = Caller THEN r ELSE PoolProgram(kind, p)) \in Seq(BringUpStep)
    BY <1>2, <1>5, <1>6 DEF r
  <2> QED
    BY <1>7, <2>1
<1>10. Connecting(steps[Caller])'
  BY <1>3, <1>8 DEF Connecting
<1>11. IsAt(Caller, "join")'
  <2>1. r # <<>> /\ Head(r).do = "join"
    BY <1>3 DEF Connecting, Step
  <2> QED
    BY <1>8, <2>1 DEF IsAt, Doing
<1>12. ASSUME NEW t \in Tiles
      PROVE  (/\ steps[t] \in Seq(PoolSteps(t))
              /\ Leads(steps[t], Kinds(EarlyKinds), {Step("end")})
              /\ steps[t] # <<>> <=> result[t] = "running"
              /\ steps[t] # <<>> => IsAt(Caller, "join"))'
  BY <1>6, <1>8, <1>11
<1>13. (Connecting(steps[Caller]) => held[Caller] = {} /\ seen[Caller] = {})'
  BY <1>7 DEF Control, times
<1>14. (outcome # "none" => steps[Caller] = <<>>)'
  BY <1>2, <1>7
<1> QED
  BY <1>8, <1>9, <1>10, <1>12, <1>13, <1>14 DEF Control

LEMMA ControlInConnecting ==
  ASSUME Types, Control, Run(Caller), Connecting(steps[Caller])
  PROVE  Control'
<1> DEFINE s == steps[Caller]
<1>1. s # <<>> /\ \A t \in Tiles : steps[t] = <<>>
  BY CallerAlone
<1>2. config' = config
  BY DEF Run, given
<1>3. s \in Seq(BringUpStep) /\ Tail(s) \in Seq(BringUpStep) /\ outcome = "none" /\ Doing(Caller) = Head(s)
      /\ Doing(Caller) \in BringUpStep
  BY <1>1, CallerDoing
<1>4. held[Caller] = {} /\ seen[Caller] = {}
  BY DEF Control
<1>5. /\ Head(s).do = "form" => Tail(s) = <<>>
      /\ Head(s).do # "form" => Connecting(Tail(s))
      /\ Head(s).do = "map" => Head(Tail(s)) = Step("join")
  BY <1>3, ConnectingGoesOn
<1>6. ASSUME NEW q \in Seq(BringUpStep), steps' = [steps EXCEPT ![Caller] = q], result' = result,
             Formation(q) \/ (Connecting(q) /\ UNCHANGED times), outcome' # "none" => q = <<>>
      PROVE  Control'
  <2>1. UNCHANGED times => held'[Caller] = {} /\ seen'[Caller] = {}
    BY <1>4 DEF times
  <2>2. Formation(q) \/ (Connecting(q) /\ held'[Caller] = {} /\ seen'[Caller] = {})
    BY <1>6, <2>1
  <2> QED
    BY <1>1, <1>2, <1>6, <2>2, CallerLeaves
<1>7. <<>> \in Seq(BringUpStep) /\ Formation(<<>>)
  BY FormationEmpty
<1> HIDE DEF s
<1>8. CASE Raises(Caller)
  <2>1. steps' = [steps EXCEPT ![Caller] = <<>>] /\ result' = result
    BY <1>1, <1>8, CallerProceeds DEF s
  <2> QED
    BY <1>6, <1>7, <2>1
<1>9. CASE GoesOn(Caller) /\ Head(s).do # "form" /\ UNCHANGED times
  <2>1. steps' = [steps EXCEPT ![Caller] = Tail(s)] /\ result' = result
        /\ outcome' = IF Tail(s) = <<>> THEN "returned" ELSE "none"
    BY <1>1, <1>9, CallerProceeds DEF s
  <2> QED
    BY <1>3, <1>5, <1>6, <1>9, <2>1
<1>10. CASE IsAt(Caller, "connect") /\ ConnectBoard(Caller) /\ GoesOn(Caller)
  <2>1. UNCHANGED times /\ Head(s).do # "form"
    BY <1>3, <1>10 DEF ConnectBoard, IsAt
  <2> QED
    BY <1>9, <1>10, <2>1
<1>11. CASE IsAt(Caller, "map") /\ Map
  <2>1. Head(s).do = "map"
    BY <1>3, <1>11 DEF IsAt
  <2> DEFINE kind == Doing(Caller).of
  <2>2. kind \in {"program_cpld", "program", "initialise"} /\ Doing(Caller) \in MapOf(kind)
    BY <1>3, <2>1, MapOfStep
  <2>3. \/ Raises(Caller)
        \/ StartsPool(kind)
        \/ steps' = [steps EXCEPT ![Caller] = Tail(Tail(steps[Caller]))] /\ UNCHANGED <<result, times, outcome>>
    <3>1. Caller \in DOMAIN steps
      BY CallerOrTile DEF Control
    <3> QED
      BY <1>11, <2>2, <3>1 DEF Map, StartsPool
  <2>4. CASE StartsPool(kind)
    BY <1>2, <1>11, <2>4, PoolIsStarted
  <2>5. CASE steps' = [steps EXCEPT ![Caller] = Tail(Tail(steps[Caller]))] /\ UNCHANGED <<result, times, outcome>>
    <3>1. Connecting(Tail(s)) /\ Head(Tail(s)) = Step("join") /\ Tail(s) # <<>>
      BY <1>5, <2>1 DEF Connecting
    <3>2. Head(Tail(s)).do # "form"
      BY <3>1 DEF Step
    <3>3. Connecting(Tail(Tail(s))) /\ Tail(Tail(s)) \in Seq(BringUpStep)
      BY <1>3, <3>1, <3>2, ConnectingGoesOn, StepAfter
    <3> QED
      BY <1>3, <1>6, <2>5, <3>3 DEF s
  <2> QED
    BY <1>8, <2>3, <2>4, <2>5
<1>12. CASE IsAt(Caller, "join") /\ Join
  <2>1. UNCHANGED times /\ Head(s).do # "form" /\ (Raises(Caller) \/ GoesOn(Caller))
    BY <1>3, <1>12 DEF Join, IsAt
  <2> QED
    BY <1>8, <1>9, <2>1
<1>13. CASE IsAt(Caller, "form") /\ Branch
  <2> DEFINE q == AfterConnected
  <2>1. Head(s).do = "form" /\ Proceeds(Caller, q)
    BY <1>3, <1>13 DEF Branch, IsAt
  <2>2. q \in Seq(BringUpStep) /\ Formation(q)
    BY AfterConnectedProgram
  <2> HIDE DEF q
  <2>3. q \o Tail(s) = q
    <3>1. Tail(s) = <<>>
      BY <1>5, <2>1
    <3>2. q \o <<>> = q
      BY <2>2
    <3> QED
      BY <3>1, <3>2
  <2>4. steps' = [steps EXCEPT ![Caller] = q] /\ result' = result
        /\ outcome' = IF q = <<>> THEN "returned" ELSE "none"
    BY <1>1, <2>1, <2>3, CallerProceeds DEF s
  <2> QED
    BY <1>6, <2>2, <2>4
<1> QED
  BY <1>10, <1>11, <1>12, <1>13, ConnectingMoves DEF s

LEMMA ControlNext ==
  ASSUME Types, Control, NEW p \in Processes, Run(p)
  PROVE  Control'
<1>1. CASE p = Caller
  <2>1. steps[Caller] \in Seq(BringUpStep) /\ (Connecting(steps[Caller]) \/ Formation(steps[Caller]))
    BY CallerOrTile DEF Control
  <2> QED
    BY <1>1, <2>1, ControlInForming, ControlInConnecting
<1>2. CASE p \in Tiles
  <2>1. steps[p] # <<>> /\ held'[Caller] = held[Caller] /\ seen'[Caller] = seen[Caller]
    BY <1>2, PoolRun
  <2>2. PICK q : \E r : Moves(p, q, r)
    BY <1>2, PoolRun
  <2>3. PICK r : Moves(p, q, r)
    BY <2>2
  <2>4. config' = config
    BY DEF Run, given
  <2> QED
    BY <1>2, <2>1, <2>3, <2>4, PoolControl
<1> QED
  BY <1>1, <1>2, CallerOrTile

LEMMA ControlPps ==
  ASSUME Types, Control, Pps
  PROVE  Control'
<1>1. UNCHANGED <<steps, result, outcome, config>>
  BY DEF Pps, control, station, given
<1>2. Connecting(steps[Caller])' <=> Connecting(steps[Caller])
  BY <1>1 DEF Connecting
<1>3. Formation(steps[Caller])' <=> Formation(steps[Caller])
  BY <1>1 DEF Formation
<1>4. Connecting(steps[Caller]) => held'[Caller] = {} /\ seen'[Caller] = {}
  <2>1. /\ held'[Caller] = {Lasting(time) : time \in held[Caller]}
        /\ seen'[Caller] = {Lasting(time) : time \in seen[Caller]}
    BY CallerOrTile DEF Pps
  <2>2. Connecting(steps[Caller]) => held[Caller] = {} /\ seen[Caller] = {}
    BY DEF Control
  <2> QED
    BY <2>1, <2>2
<1>5. \A do : IsAt(Caller, do)' <=> IsAt(Caller, do)
  BY <1>1 DEF IsAt, Doing
<1>6. ASSUME NEW t \in Tiles
      PROVE  (/\ steps[t] \in Seq(PoolSteps(t))
              /\ Leads(steps[t], Kinds(EarlyKinds), {Step("end")})
              /\ steps[t] # <<>> <=> result[t] = "running"
              /\ steps[t] # <<>> => IsAt(Caller, "join"))'
  BY <1>1, <1>5 DEF Control
<1>7. (steps \in [Processes -> Seq(BringUpStep)])' /\ (outcome # "none" => steps[Caller] = <<>>)'
  BY <1>1 DEF Control
<1>8. (Connecting(steps[Caller]) \/ Formation(steps[Caller]))'
  BY <1>2, <1>3 DEF Control
<1>9. (Connecting(steps[Caller]) => held[Caller] = {} /\ seen[Caller] = {})'
  BY <1>2, <1>4
<1> QED
  BY <1>6, <1>7, <1>8, <1>9 DEF Control

LEMMA InitIsControlled ==
  ASSUME BringUpInit
  PROVE  Types /\ Control
<1>1. TileTypes
  <2>1. \A t \in Tiles : t - 1 \in 0 .. NofTiles - 1
    BY DEF Tiles
  <2>2. delay \in [Tiles -> Int]
    BY DEF BringUpInit
  <2> QED
    BY <2>1, <2>2 DEF BringUpInit, TileTypes
<1>2. ClockTypes
  BY DEF BringUpInit, ClockTypes, NotSet, Never
<1>3. TimeTypes
  <2>1. IsFiniteSet({})
    BY FS_EmptySet
  <2> QED
    BY <2>1 DEF BringUpInit, TimeTypes, MaxPolls
<1>4. ResultTypes /\ RestTypes
  BY DEF BringUpInit, ResultTypes, RestTypes, Results, Outcomes
<1>5. Types
  BY <1>1, <1>2, <1>3, <1>4, TypesAre
<1>6. steps[Caller] = connect /\ \A t \in Tiles : steps[t] = <<>>
  BY CallerOrTile DEF BringUpInit
<1>7. connect \in Seq(BringUpStep) /\ Connecting(connect)
  BY ConnectProgram
<1>8. steps \in [Processes -> Seq(BringUpStep)]
  BY <1>7 DEF BringUpInit
<1>9. ASSUME NEW t \in Tiles
      PROVE  /\ steps[t] \in Seq(PoolSteps(t))
             /\ Leads(steps[t], Kinds(EarlyKinds), {Step("end")})
             /\ steps[t] # <<>> <=> result[t] = "running"
             /\ steps[t] # <<>> => IsAt(Caller, "join")
  <2>1. steps[t] = <<>> /\ result[t] = "none"
    BY <1>6 DEF BringUpInit
  <2> QED
    BY <2>1 DEF Leads
<1>10. held[Caller] = {} /\ seen[Caller] = {} /\ outcome = "none"
  BY CallerOrTile DEF BringUpInit
<1> QED
  BY <1>5, <1>6, <1>7, <1>8, <1>9, <1>10 DEF Control
-----------------------------------------------------------------------------
(* The phase of PPS                                                         *)

\* A station that is being connected to is not yet formed.
LEMMA ConnectingOnly ==
  ASSUME NEW s \in Seq(BringUpStep), Connecting(s)
  PROVE  /\ ~Formation(s)
         /\ \A D : D \cap (ConnectKinds \cup {"form"}) = {} => ~Comes(s, Kinds(D))
<1>1. ~Formation(s)
  BY FormationOrNot
<1>2. /\ s[Len(s)] = Step("form") /\ \A i \in 1 .. Len(s) - 1 : s[i] \in Kinds(ConnectKinds)
  BY DEF Connecting
<1>3. \A i \in 1 .. Len(s) : s[i].do \in ConnectKinds \cup {"form"}
  <2>1. Len(s) \in Nat
    OBVIOUS
  <2>2. \A i \in 1 .. Len(s) : i \in 1 .. Len(s) - 1 \/ i = Len(s)
    BY <2>1
  <2>3. Step("form").do = "form"
    BY DEF Step
  <2> QED
    BY <1>2, <2>2, <2>3 DEF Kinds
<1>4. ASSUME NEW D, D \cap (ConnectKinds \cup {"form"}) = {}
      PROVE  ~Comes(s, Kinds(D))
  BY <1>3, <1>4 DEF Comes, Kinds
<1> QED
  BY <1>1, <1>4

LEMMA NoSampling ==
  ASSUME NEW s, ~Comes(s, Kinds({"sampling"}))
  PROVE  \A targets : ~Comes(s, SamplingTo(targets))
<1>1. \A targets : SamplingTo(targets) \subseteq Kinds({"sampling"})
  BY DEF SamplingTo
<1> QED
  BY <1>1, ComesMore

\* No phase is compared before the station is being formed.
LEMMA PhasesWithout ==
  ASSUME NEW q, steps'[Caller] = q, config' = config, ~Comes(q, Kinds({"sampling"})),
         Forming' => Comes(q, Kinds({"compare_delays"}))
  PROVE  Phases'
<1>1. \A targets : ~Comes(q, SamplingTo(targets))
  BY NoSampling
<1>2. ~Comes(steps'[Caller], SamplingTo(Int \ {delay'[1]}))
  BY <1>1
<1> QED
  BY <1>2 DEF Phases

LEMMA PhasesNotFormed ==
  ASSUME NEW q, q = <<>> \/ Connecting(q), q \in Seq(BringUpStep), steps'[Caller] = q, config' = config,
         q = <<>> => outcome' \notin {"none", "returned"} \/ ~properly_formed'
  PROVE  Phases'
<1>1. ~Comes(q, Kinds({"sampling"}))
  <2>1. CASE q = <<>>
    BY <2>1 DEF Comes
  <2>2. CASE Connecting(q)
    <3>1. {"sampling"} \cap (ConnectKinds \cup {"form"}) = {}
      BY DEF ConnectKinds
    <3> QED
      BY <2>2, <3>1, ConnectingOnly
  <2> QED
    BY <2>1, <2>2
<1>2. ~Forming'
  <2>1. CASE q = <<>>
    BY <2>1 DEF Forming
  <2>2. CASE Connecting(q)
    <3>1. ~Formation(q)
      BY <2>2, ConnectingOnly
    <3>2. ~Formation(steps[Caller])'
      BY <3>1 DEF Formation
    <3> QED
      BY <3>2 DEF Forming
  <2> QED
    BY <2>1, <2>2
<1> QED
  BY <1>1, <1>2, PhasesWithout

LEMMA PhasesInPool ==
  ASSUME Types, Control, Phases, NEW t \in Tiles, Run(t)
  PROVE  Phases'
<1>1. steps[t] # <<>>
  BY PoolRun
<1>2. PICK q : \E r : Moves(t, q, r)
  BY PoolRun
<1>3. config' = config /\ steps'[Caller] = steps[Caller]
  <2>1. t # Caller /\ Caller \in Processes
    BY CallerOrTile
  <2>2. steps' = [steps EXCEPT ![t] = q]
    BY <1>2 DEF Moves
  <2> QED
    BY <2>1, <2>2 DEF Run, given, Control
<1>4. Connecting(steps[Caller]) /\ steps[Caller] \in Seq(BringUpStep)
  <2>1. IsAt(Caller, "join")
    BY <1>1, PoolDoing
  <2>2. steps[Caller] # <<>> /\ Doing(Caller).do = "join"
    BY <2>1 DEF IsAt
  <2>3. "join" \notin FormKinds \cup {"check_status"}
    BY DEF FormKinds
  <2> QED
    BY <2>2, <2>3, CallerDoing
<1>5. steps[Caller] # <<>>
  BY <1>4 DEF Connecting
<1> QED
  BY <1>3, <1>4, <1>5, PhasesNotFormed

LEMMA PhasesInConnecting ==
  ASSUME Types, Control, Phases, Run(Caller), Connecting(steps[Caller])
  PROVE  Phases'
<1> DEFINE s == steps[Caller]
<1>1. s # <<>> /\ s \in Seq(BringUpStep) /\ Tail(s) \in Seq(BringUpStep) /\ Doing(Caller) = Head(s)
      /\ Caller \in DOMAIN steps /\ outcome = "none"
  BY CallerAlone, CallerDoing, CallerOrTile DEF Control
<1>2. config' = config
  BY DEF Run, given
<1>3. /\ Head(s).do = "form" => Tail(s) = <<>>
      /\ Head(s).do # "form" => Connecting(Tail(s))
      /\ Head(s).do = "map" => Head(Tail(s)) = Step("join")
  BY <1>1, ConnectingGoesOn
<1>4. ASSUME NEW q \in Seq(BringUpStep), steps' = [steps EXCEPT ![Caller] = q],
             q = <<>> \/ Connecting(q), q = <<>> => outcome' \notin {"none", "returned"} \/ ~properly_formed'
      PROVE  Phases'
  BY <1>1, <1>2, <1>4, PhasesNotFormed
<1>5. CASE Raises(Caller)
  <2>1. steps' = [steps EXCEPT ![Caller] = <<>>] /\ outcome' = "raised"
    BY <1>1, <1>5, CallerProceeds
  <2>2. <<>> \in Seq(BringUpStep)
    OBVIOUS
  <2> QED
    BY <1>4, <2>1, <2>2
<1>6. CASE GoesOn(Caller) /\ Head(s).do # "form"
  <2>1. Connecting(Tail(s)) /\ Tail(s) # <<>>
    BY <1>3, <1>6 DEF Connecting
  <2> QED
    BY <1>1, <1>4, <1>6, <2>1, CallerProceeds
<1>7. CASE IsAt(Caller, "connect") /\ ConnectBoard(Caller) /\ GoesOn(Caller)
  BY <1>1, <1>6, <1>7 DEF IsAt
<1>8. CASE IsAt(Caller, "map") /\ Map
  <2>1. Head(s).do = "map"
    BY <1>1, <1>8 DEF IsAt
  <2>2. Connecting(Tail(s)) /\ Tail(s) # <<>> /\ Head(Tail(s)).do # "form"
    BY <1>3, <2>1 DEF Connecting, Step
  <2>3. Connecting(Tail(Tail(s))) /\ Tail(Tail(s)) # <<>> /\ Tail(Tail(s)) \in Seq(BringUpStep)
    <3>1. Connecting(Tail(Tail(s))) /\ Tail(Tail(s)) \in Seq(BringUpStep)
      BY <1>1, <2>2, ConnectingGoesOn, StepAfter
    <3> QED
      BY <3>1 DEF Connecting
  <2>4. \/ Raises(Caller)
        \/ steps'[Caller] = Tail(s)
        \/ steps'[Caller] = Tail(Tail(s))
    <3>1. Caller \in Processes
      BY CallerOrTile
    <3> QED
      BY <1>1, <1>8, <3>1 DEF Map
  <2>5. CASE steps'[Caller] = Tail(s)
    BY <1>1, <1>2, <2>2, <2>5, PhasesNotFormed
  <2>6. CASE steps'[Caller] = Tail(Tail(s))
    BY <1>1, <1>2, <2>3, <2>6, PhasesNotFormed
  <2> QED
    BY <1>5, <2>4, <2>5, <2>6
<1>9. CASE IsAt(Caller, "join") /\ Join
  <2>1. Head(s).do # "form" /\ (Raises(Caller) \/ GoesOn(Caller))
    BY <1>1, <1>9 DEF Join, IsAt
  <2> QED
    BY <1>5, <1>6, <2>1
<1>10. CASE IsAt(Caller, "form") /\ Branch
  <2> DEFINE q == AfterConnected
  <2>1. Head(s).do = "form" /\ Proceeds(Caller, q) /\ properly_formed' = properly_formed
    BY <1>1, <1>10 DEF Branch, IsAt
  <2>2. q \in Seq(BringUpStep)
    BY AfterConnectedProgram
  <2>3. q \o Tail(s) = q
    <3>1. Tail(s) = <<>>
      BY <1>3, <2>1
    <3>2. q \o <<>> = q
      BY <2>2
    <3> QED
      BY <3>1, <3>2
  <2>4. steps' = [steps EXCEPT ![Caller] = q]
    BY <1>1, <2>1, <2>3, CallerProceeds
  <2>5. steps'[Caller] = q
    BY <1>1, <2>4
  <2>6. CASE ~properly_formed
    <3>1. q = <<>>
      BY <2>6 DEF AfterConnected
    <3> QED
      BY <1>2, <2>1, <2>2, <2>5, <2>6, <3>1, PhasesNotFormed
  <2>7. CASE properly_formed /\ config.initialise
    <3>1. q = Form
      BY <2>7 DEF AfterConnected
    <3>2. ~Comes(q, Kinds({"sampling"})) /\ Comes(q, Kinds({"compare_delays"}))
      BY <3>1, FormProgram DEF ToForm
    <3> HIDE DEF q
    <3> QED
      BY <1>2, <2>5, <3>2, PhasesWithout
  <2>8. CASE properly_formed /\ ~config.initialise
    <3>1. q = check_station_status
      BY <2>8 DEF AfterConnected
    <3>2. ~Comes(q, Kinds({"sampling"}))
      <4>1. {"check_status"} \cap {"sampling"} = {}
        OBVIOUS
      <4> QED
        BY <3>1, <4>1, CheckProgram, NoSuchKind
    <3>3. ~Forming'
      BY <1>2, <2>8 DEF Forming
    <3> HIDE DEF q
    <3> QED
      BY <1>2, <2>5, <3>2, <3>3, PhasesWithout
  <2> QED
    BY <2>6, <2>7, <2>8
<1> QED
  BY <1>7, <1>8, <1>9, <1>10, ConnectingMoves

LEMMA PhasesPps ==
  ASSUME Phases, Pps
  PROVE  Phases'
<1>1. UNCHANGED <<steps, outcome, config, delay, properly_formed>>
  BY DEF Pps, control, station, given, tile_state
<1>2. Forming' <=> Forming
  BY <1>1 DEF Forming, Formation
<1> QED
  BY <1>1, <1>2 DEF Phases, Near

LEMMA OnlySampling ==
  ASSUME NEW p \in Processes, Run(p), ~IsAt(p, "sampling")
  PROVE  delay' = delay
<1>1. CASE ConnectBoard(p) \/ NeedsPlugins(p) \/ Program(p) \/ LookUp(p) \/ ReturnEarly(p) \/ Firmware_(p)
  BY <1>1 DEF ConnectBoard, NeedsPlugins, Program, LookUp, ReturnEarly, Firmware_, tile_state
<1>2. CASE SetRegisters(p) \/ AwaitPps(p) \/ ReadClock(p) \/ SetClock(p)
  BY <1>2 DEF SetRegisters, AwaitPps, ReadClock, SetClock, tile_state
<1>3. CASE SetSampling(p) \/ Compare(p) \/ StartAt(p) \/ CheckStart(p)
  BY <1>3 DEF SetSampling, Compare, StartAt, CheckStart, tile_state
<1>4. CASE Map \/ Join \/ Branch \/ CheckStatus
  BY <1>4 DEF Map, Join, Branch, CheckStatus, tile_state
<1> QED
  BY <1>1, <1>2, <1>3, <1>4 DEF Run

LEMMA OnlyStatus ==
  ASSUME NEW p \in Processes, Run(p), ~IsAt(p, "join"), ~IsAt(p, "check_status")
  PROVE  properly_formed' = properly_formed
<1>1. CASE ConnectBoard(p) \/ NeedsPlugins(p) \/ Program(p) \/ LookUp(p) \/ ReturnEarly(p) \/ Firmware_(p)
  BY <1>1 DEF ConnectBoard, NeedsPlugins, Program, LookUp, ReturnEarly, Firmware_
<1>2. CASE SetRegisters(p) \/ AwaitPps(p) \/ ReadClock(p) \/ SetClock(p)
  BY <1>2 DEF SetRegisters, AwaitPps, ReadClock, SetClock
<1>3. CASE SetSampling(p) \/ Compare(p) \/ StartAt(p) \/ CheckStart(p)
  BY <1>3 DEF SetSampling, Compare, StartAt, CheckStart
<1>4. CASE p = Caller /\ (Map \/ Join \/ Branch \/ CheckStatus)
  BY <1>4 DEF Map, Join, Branch, CheckStatus
<1> QED
  BY <1>1, <1>2, <1>3, <1>4 DEF Run

\* No delay is changed, and what is to be done about them is the same.
LEMMA PhasesKept ==
  ASSUME Phases, NEW q, steps'[Caller] = q, delay' = delay, config' = config, Forming' => Forming,
         \A X : X \subseteq Kinds({"sampling", "compare_delays"}) => (Comes(q, X) <=> Comes(steps[Caller], X))
  PROVE  Phases'
<1> DEFINE Both == Kinds({"sampling", "compare_delays"})
<1>1. SamplingTo(Int \ {delay[1]}) \subseteq Both
  BY DEF SamplingTo, Kinds
<1>2. Kinds({"compare_delays"}) \subseteq Both /\ \A t \in Tiles : SamplingOf(t) \subseteq Both
  BY DEF SamplingOf, Kinds
<1> HIDE DEF Both
<1>3. \A X : X \subseteq Both => (Comes(q, X) <=> Comes(steps[Caller], X))
  BY DEF Both
<1>4. ~Comes(q, SamplingTo(Int \ {delay[1]}))
  BY <1>1, <1>3 DEF Phases
<1>5. ASSUME Forming'
      PROVE  Comes(q, Kinds({"compare_delays"})) \/ \A t \in Tiles : Near(t) \/ Comes(q, SamplingOf(t))
  BY <1>2, <1>3, <1>5 DEF Phases
<1>6. \A t \in Tiles : Near(t)' <=> Near(t)
  BY DEF Near
<1> QED
  BY <1>4, <1>5, <1>6 DEF Phases

LEMMA FormingIs ==
  ASSUME Types, Control, Run(Caller), Formation(steps[Caller]), config.initialise
  PROVE  /\ steps[Caller] \in Seq(Kinds(FormKinds)) /\ InOrder(steps[Caller])
         /\ steps[Caller] # <<>> /\ steps[Caller] \in Seq(BringUpStep) /\ Tail(steps[Caller]) \in Seq(BringUpStep)
         /\ Doing(Caller) = Head(steps[Caller]) /\ Doing(Caller) \in BringUpStep /\ Doing(Caller).do \in FormKinds
         /\ HeadInOrder(Doing(Caller), Tail(steps[Caller]))
         /\ Tail(steps[Caller]) \in Seq(Kinds(FormKinds)) /\ InOrder(Tail(steps[Caller]))
         /\ config' = config /\ outcome = "none" /\ properly_formed' = properly_formed
         /\ Caller \in DOMAIN steps
<1>1. steps[Caller] \in Seq(Kinds(FormKinds)) /\ InOrder(steps[Caller])
  BY DEF Formation
<1>2. steps[Caller] # <<>>
  BY CallerAlone
<1>3. /\ steps[Caller] \in Seq(BringUpStep) /\ Tail(steps[Caller]) \in Seq(BringUpStep)
      /\ Doing(Caller) = Head(steps[Caller]) /\ Doing(Caller) \in BringUpStep /\ outcome = "none"
  BY <1>2, CallerDoing
<1>4. Doing(Caller).do \in FormKinds /\ HeadInOrder(Doing(Caller), Tail(steps[Caller]))
      /\ Tail(steps[Caller]) \in Seq(Kinds(FormKinds)) /\ InOrder(Tail(steps[Caller]))
  BY <1>1, <1>2, <1>3, InOrderTail
<1>5. properly_formed' = properly_formed
  <2>1. ~IsAt(Caller, "join") /\ ~IsAt(Caller, "check_status")
    BY <1>4 DEF IsAt, FormKinds
  <2> QED
    BY <2>1, CallerOrTile, OnlyStatus
<1>6. config' = config /\ Caller \in DOMAIN steps
  BY CallerOrTile DEF Run, given, Control
<1> QED
  BY <1>1, <1>2, <1>3, <1>4, <1>5, <1>6

\* A delay is brought near that of the first tile, which keeps its own.
LEMMA PhasesSampling ==
  ASSUME Types, Control, Phases, Run(Caller), Formation(steps[Caller]), config.initialise,
         IsAt(Caller, "sampling")
  PROVE  Phases'
<1> DEFINE s == steps[Caller]
<1> DEFINE x == Doing(Caller)
<1> DEFINE r == Tail(s)
<1>1. /\ s # <<>> /\ s \in Seq(BringUpStep) /\ r \in Seq(BringUpStep) /\ x = Head(s) /\ x \in BringUpStep
      /\ config' = config /\ outcome = "none" /\ properly_formed' = properly_formed
      /\ Caller \in DOMAIN steps
  BY FormingIs
<1>2. x.do = "sampling" /\ x.tile \in Tiles /\ x.target \in Int /\ x.margin = 4
  BY <1>1, SamplingOfStep DEF IsAt
<1>3. SetSampling(Caller)
  <2>1. \A do : IsAt(Caller, do) => do = "sampling"
    BY <1>2 DEF IsAt
  <2>2. ~ConnectBoard(Caller) /\ ~NeedsPlugins(Caller) /\ ~Program(Caller) /\ ~LookUp(Caller)
        /\ ~ReturnEarly(Caller) /\ ~Firmware_(Caller)
    BY <2>1 DEF ConnectBoard, NeedsPlugins, Program, LookUp, ReturnEarly, Firmware_
  <2>3. ~SetRegisters(Caller) /\ ~AwaitPps(Caller) /\ ~ReadClock(Caller) /\ ~SetClock(Caller) /\ ~StartAt(Caller)
        /\ ~CheckStart(Caller)
    BY <2>1 DEF SetRegisters, AwaitPps, ReadClock, SetClock, StartAt, CheckStart
  <2>4. ~Map /\ ~Join /\ ~Branch /\ ~CheckStatus
    BY <2>1 DEF Map, Join, Branch, CheckStatus
  <2>5. ~Compare(Caller)
    <3>1. Compare(Caller) =>
            IsAt(Caller, "compare_two") \/ IsAt(Caller, "compare_delays") \/ IsAt(Caller, "compare_all")
      BY DEF Compare
    <3> QED
      BY <2>1, <3>1
  <2> QED
    BY <2>2, <2>3, <2>4, <2>5 DEF Run
<1>4. x.target = delay[1]
  <2>1. ~Comes(s, SamplingTo(Int \ {delay[1]}))
    BY DEF Phases
  <2>2. x \notin SamplingTo(Int \ {delay[1]})
    BY <1>1, <2>1, ComesInTail
  <2> QED
    BY <1>1, <1>2, <2>2 DEF SamplingTo, Kinds
<1>5. CASE Raises(Caller) /\ UNCHANGED delay
  <2>1. steps' = [steps EXCEPT ![Caller] = <<>>] /\ outcome' = "raised" /\ <<>> \in Seq(BringUpStep)
    BY <1>1, <1>5, CallerProceeds
  <2>2. steps'[Caller] = <<>>
    BY <1>1, <2>1
  <2> QED
    BY <1>1, <2>1, <2>2, PhasesNotFormed
<1>6. CASE /\ calculate_delay(delay[x.tile], x.target, 4) # None
           /\ GoesOn(Caller) /\ delay' = [delay EXCEPT ![x.tile] = Sampled(delay[x.tile], x.target, 4)]
  <2> DEFINE t == x.tile
  <2>1. steps'[Caller] = r
    BY <1>1, <1>6, CallerProceeds
  <2>2. delay \in [Tiles -> Int] /\ 1 \in Tiles /\ t \in Tiles
    BY <1>2, CallerOrTile DEF Types, BringUpTypeOK
  <2>3. /\ Sampled(delay[t], delay[1], 4) \in Int
        /\ Sampled(delay[t], delay[1], 4) - delay[1] \in -4 .. 4
        /\ t = 1 => Sampled(delay[t], delay[1], 4) = delay[1]
    <3>1. delay[t] \in Int /\ delay[1] \in Int
      BY <2>2
    <3> QED
      BY <1>4, <1>6, <3>1, SamplingIsNear
  <2>4. delay'[t] = Sampled(delay[t], delay[1], 4) /\ \A u \in Tiles \ {t} : delay'[u] = delay[u]
    BY <1>4, <1>6, <2>2
  <2>5. delay'[1] = delay[1]
    BY <2>2, <2>3, <2>4
  <2>6. ~Comes(r, SamplingTo(Int \ {delay[1]}))
    BY <1>1, ComesInTail DEF Phases
  <2>7. ~Comes(steps'[Caller], SamplingTo(Int \ {delay'[1]}))
    BY <2>1, <2>5, <2>6
  <2>8. ASSUME Forming', ~Comes(r, Kinds({"compare_delays"})), NEW u \in Tiles
        PROVE  Near(u)' \/ Comes(r, SamplingOf(u))
    <3>1. CASE u = t
      BY <2>3, <2>4, <2>5, <3>1 DEF Near, MaxDelaySkew
    <3>2. CASE u # t
      <4>1. Forming
        BY <1>1, <2>8 DEF Forming
      <4>2. ~Comes(s, Kinds({"compare_delays"}))
        <5>1. x \notin Kinds({"compare_delays"})
          BY <1>2 DEF Kinds
        <5> QED
          BY <1>1, <2>8, <5>1, ComesInTail
      <4>3. Near(u) \/ Comes(s, SamplingOf(u))
        BY <4>1, <4>2 DEF Phases
      <4>4. Comes(s, SamplingOf(u)) => Comes(r, SamplingOf(u))
        <5>1. x \notin SamplingOf(u)
          BY <3>2 DEF SamplingOf
        <5> QED
          BY <1>1, <5>1, ComesInTail
      <4>5. Near(u) => Near(u)'
        BY <2>4, <2>5, <3>2 DEF Near
      <4> QED
        BY <4>3, <4>4, <4>5
    <3> QED
      BY <3>1, <3>2
  <2> QED
    BY <2>1, <2>7, <2>8 DEF Phases
<1>7. \/ Raises(Caller) /\ UNCHANGED delay
      \/ /\ calculate_delay(delay[x.tile], x.target, 4) # None
         /\ GoesOn(Caller) /\ delay' = [delay EXCEPT ![x.tile] = Sampled(delay[x.tile], x.target, 4)]
  BY <1>2, <1>3 DEF SetSampling, get_pps_delay
<1> QED
  BY <1>5, <1>6, <1>7

\* what comes after the delays are compared
LEMMA PhasesCompared ==
  ASSUME Types, Control, Phases, Run(Caller), Formation(steps[Caller]), config.initialise,
         IsAt(Caller, "compare_delays")
  PROVE  Phases'
<1> DEFINE s == steps[Caller]
<1> DEFINE x == Doing(Caller)
<1> DEFINE r == Tail(s)
<1>1. /\ s # <<>> /\ s \in Seq(BringUpStep) /\ r \in Seq(BringUpStep) /\ x = Head(s) /\ x \in BringUpStep
      /\ r \in Seq(Kinds(FormKinds)) /\ InOrder(r) /\ HeadInOrder(x, r)
      /\ config' = config /\ outcome = "none" /\ properly_formed' = properly_formed
      /\ Caller \in DOMAIN steps
  BY FormingIs
<1>2. x.do = "compare_delays"
  BY DEF IsAt
<1>3. x.attempt \in Nat /\ x = [do |-> "compare_delays", attempt |-> x.attempt]
  <2>1. x.attempt \in Nat
    BY <1>1, <1>2, AttemptOfStep
  <2>2. x \in [do : {"compare_delays", "compare_all"}, attempt : Nat]
    BY <1>1, <1>2 DEF BringUpStep, Plain, AboutTile, AboutFpga
  <2> QED
    BY <1>2, <2>1, <2>2
<1>4. delay' = delay
  <2>1. ~IsAt(Caller, "sampling")
    BY <1>2 DEF IsAt
  <2> QED
    BY <2>1, CallerOrTile, OnlySampling
<1> DEFINE synced == \A t \in 2 .. NofTiles : delay[t] - delay[1] \in -MaxDelaySkew .. MaxDelaySkew
<1>5. Proceeds(Caller, AfterDelaysCompared(synced, delay[1], x.attempt))
  <2>1. \A do : IsAt(Caller, do) => do = "compare_delays"
    BY <1>2 DEF IsAt
  <2>2. ~ConnectBoard(Caller) /\ ~NeedsPlugins(Caller) /\ ~Program(Caller) /\ ~LookUp(Caller)
        /\ ~ReturnEarly(Caller) /\ ~Firmware_(Caller)
    BY <2>1 DEF ConnectBoard, NeedsPlugins, Program, LookUp, ReturnEarly, Firmware_
  <2>3. ~SetRegisters(Caller) /\ ~AwaitPps(Caller) /\ ~ReadClock(Caller) /\ ~SetClock(Caller) /\ ~StartAt(Caller)
        /\ ~CheckStart(Caller) /\ ~SetSampling(Caller)
    BY <2>1 DEF SetRegisters, AwaitPps, ReadClock, SetClock, StartAt, CheckStart, SetSampling
  <2>4. ~Map /\ ~Join /\ ~Branch /\ ~CheckStatus
    BY <2>1 DEF Map, Join, Branch, CheckStatus
  <2>5. Compare(Caller)
    BY <2>2, <2>3, <2>4 DEF Run
  <2>6. ~IsAt(Caller, "compare_two") /\ ~IsAt(Caller, "compare_all")
    BY <2>1
  <2> QED
    BY <2>5, <2>6 DEF Compare, get_pps_delay
<1>6. ~Comes(r, SamplingTo(Int \ {delay[1]}))
  BY <1>1, ComesInTail DEF Phases
<1>7. CASE synced
  <2>1. steps'[Caller] = r
    <3>1. AfterDelaysCompared(synced, delay[1], x.attempt) = <<>>
      BY <1>7 DEF AfterDelaysCompared
    <3>2. <<>> \o r = r
      BY <1>1
    <3>3. steps' = [steps EXCEPT ![Caller] = r]
      BY <1>1, <1>5, <3>1, <3>2, CallerProceeds
    <3> QED
      BY <1>1, <3>3
  <2>2. \A t \in Tiles : Near(t)
    <3>1. delay[1] \in Int /\ \A t \in Tiles : t = 1 \/ t \in 2 .. NofTiles
      BY CallerOrTile DEF Types, BringUpTypeOK, Tiles
    <3> QED
      BY <1>7, <3>1 DEF Near, MaxDelaySkew
  <2>3. \A t \in Tiles : Near(t)'
    BY <1>4, <2>2 DEF Near
  <2> QED
    BY <1>4, <1>6, <2>1, <2>3 DEF Phases
<1>8. CASE ~synced
  <2> DEFINE a == AfterDelaysCompared(FALSE, delay[1], x.attempt)
  <2>1. Proceeds(Caller, a)
    BY <1>5, <1>8 DEF AfterDelaysCompared
  <2>2. delay[1] \in Int
    BY CallerOrTile DEF Types, BringUpTypeOK
  <2>3. /\ a \in Seq(Kinds({"sampling", "await_pps", "compare_delays"}))
        /\ ~Comes(a, SamplingTo(Int \ {delay[1]}))
        /\ \A t \in Tiles : Comes(a, SamplingOf(t))
    BY <1>1, <1>3, <2>2, MoreSampling
  <2> HIDE DEF a
  <2>4. a \in Seq(BringUpStep)
    BY <2>3, OfKinds
  <2>5. steps'[Caller] = a \o r
    <3>1. steps' = [steps EXCEPT ![Caller] = a \o r]
      BY <1>1, <2>1, CallerProceeds
    <3> QED
      BY <1>1, <3>1
  <2>6. ~Comes(a \o r, SamplingTo(Int \ {delay[1]})) /\ \A t \in Tiles : Comes(a \o r, SamplingOf(t))
    BY <1>1, <1>6, <2>3, <2>4, ComesJoined
  <2> QED
    BY <1>4, <2>5, <2>6 DEF Phases
<1> QED
  BY <1>7, <1>8

LEMMA PhasesInForming ==
  ASSUME Types, Control, Phases, Run(Caller), Formation(steps[Caller])
  PROVE  Phases'
<1> DEFINE s == steps[Caller]
<1> DEFINE x == Doing(Caller)
<1> DEFINE r == Tail(s)
<1>1. s # <<>> /\ s \in Seq(BringUpStep) /\ r \in Seq(BringUpStep) /\ Caller \in DOMAIN steps
      /\ config' = config /\ outcome = "none" /\ <<>> \in Seq(BringUpStep)
  <2>1. s # <<>>
    BY CallerAlone
  <2>2. s \in Seq(BringUpStep) /\ r \in Seq(BringUpStep) /\ outcome = "none"
    BY <2>1, CallerDoing
  <2>3. Caller \in DOMAIN steps /\ config' = config
    BY CallerOrTile DEF Run, given, Control
  <2> QED
    BY <2>1, <2>2, <2>3
<1>2. CASE Raises(Caller) \/ Ends(Caller, "exit")
  <2>1. steps' = [steps EXCEPT ![Caller] = <<>>] /\ outcome' \in {"raised", "exit"}
    BY <1>1, <1>2, CallerProceeds
  <2>2. steps'[Caller] = <<>>
    BY <1>1, <2>1
  <2> QED
    BY <1>1, <2>1, <2>2, PhasesNotFormed
<1>3. CASE ~config.initialise
  <2>1. s \in Seq(Kinds({"check_status"}))
    BY <1>3 DEF Formation
  <2>2. x \in Kinds({"check_status"}) /\ r \in Seq(Kinds({"check_status"}))
    BY <1>1, <2>1, KindsTail DEF Doing
  <2>3. CASE GoesOn(Caller)
    <3>1. steps'[Caller] = r
      BY <1>1, <2>3, CallerProceeds
    <3>2. ~Comes(r, Kinds({"sampling"}))
      <4>1. {"check_status"} \cap {"sampling"} = {}
        OBVIOUS
      <4> QED
        BY <2>2, <4>1, NoSuchKind
    <3>3. ~Forming'
      BY <1>1, <1>3 DEF Forming
    <3> QED
      BY <1>1, <3>1, <3>2, <3>3, PhasesWithout
  <2>4. ~IsAt(Caller, "compare_delays") /\ ~IsAt(Caller, "compare_all")
    BY <2>2 DEF IsAt, Kinds
  <2> QED
    BY <1>2, <2>3, <2>4, FormingMoves
<1>4. CASE config.initialise /\ ~IsAt(Caller, "sampling") /\ ~IsAt(Caller, "compare_delays")
  <2>1. delay' = delay
    BY <1>4, CallerOrTile, OnlySampling
  <2>2. HeadInOrder(x, r) /\ r \in Seq(Kinds(FormKinds)) /\ InOrder(r) /\ x = Head(s) /\ x \in BringUpStep
        /\ properly_formed' = properly_formed
    BY <1>4, FormingIs
  <2>3. x.do \notin {"sampling", "compare_delays"}
    BY <1>1, <1>4 DEF IsAt
  <2>4. \A X : X \subseteq Kinds({"sampling", "compare_delays"}) => (Comes(r, X) <=> Comes(s, X))
    <3>1. x \notin Kinds({"sampling", "compare_delays"})
      BY <2>3 DEF Kinds
    <3> QED
      BY <1>1, <2>2, <3>1, ComesInTail
  <2>5. Forming' => Forming
    BY <1>1, <1>4, <2>2 DEF Forming
  <2>6. CASE GoesOn(Caller)
    <3>1. steps'[Caller] = r
      BY <1>1, <2>6, CallerProceeds
    <3> QED
      BY <1>1, <2>1, <2>4, <2>5, <3>1, PhasesKept
  <2>7. CASE IsAt(Caller, "compare_all") /\ Compare(Caller)
    <3>1. x.do = "compare_all"
      BY <2>7 DEF IsAt
    <3>2. PICK equal \in BOOLEAN : Proceeds(Caller, AfterAllCompared(equal, x.attempt))
      <4>1. ~IsAt(Caller, "compare_two") /\ ~IsAt(Caller, "compare_delays")
        BY <3>1 DEF IsAt
      <4> QED
        BY <2>7, <4>1 DEF Compare
    <3> DEFINE a == AfterAllCompared(equal, x.attempt)
    <3>3. a \in Seq(Kinds({"set_clock"} \cup TimeKinds))
      <4>1. CASE equal
        <5>1. a = <<>>
          BY <4>1 DEF AfterAllCompared
        <5> QED
          BY <5>1
      <4>2. CASE ~equal
        <5>1. x.attempt \in Nat
          BY <2>2, <3>1, AttemptOfStep
        <5>2. a = AfterAllCompared(FALSE, x.attempt)
          BY <4>2 DEF AfterAllCompared
        <5> QED
          BY <2>2, <3>1, <5>1, <5>2, MoreTime
      <4> QED
        BY <4>1, <4>2
    <3> HIDE DEF a
    <3>4. ({"set_clock"} \cup TimeKinds) \cap {"sampling", "compare_delays"} = {}
      BY DEF TimeKinds
    <3>5. a \in Seq(BringUpStep) /\ ~Comes(a, Kinds({"sampling", "compare_delays"}))
      BY <3>3, <3>4, OfKinds
    <3>6. \A X : X \subseteq Kinds({"sampling", "compare_delays"}) => (Comes(a \o r, X) <=> Comes(s, X))
      <4>1. \A X : X \subseteq Kinds({"sampling", "compare_delays"}) => ~Comes(a, X)
        BY <3>5, ComesMore
      <4>2. \A X : Comes(a \o r, X) <=> Comes(a, X) \/ Comes(r, X)
        BY <1>1, <3>5, ComesJoined
      <4> QED
        BY <2>4, <4>1, <4>2
    <3>7. steps'[Caller] = a \o r
      <4>1. steps' = [steps EXCEPT ![Caller] = a \o r]
        BY <1>1, <3>2, CallerProceeds DEF a
      <4> QED
        BY <1>1, <4>1
    <3> QED
      BY <1>1, <2>1, <2>5, <3>6, <3>7, PhasesKept
  <2> QED
    BY <1>2, <1>4, <2>6, <2>7, FormingMoves
<1> QED
  BY <1>3, <1>4, PhasesSampling, PhasesCompared

LEMMA PhasesNext ==
  ASSUME Types, Control, Phases, NEW p \in Processes, Run(p)
  PROVE  Phases'
<1>1. CASE p = Caller
  <2>1. Connecting(steps[Caller]) \/ Formation(steps[Caller])
    BY DEF Control
  <2> QED
    BY <1>1, <2>1, PhasesInForming, PhasesInConnecting
<1>2. CASE p \in Tiles
  BY <1>2, PhasesInPool
<1> QED
  BY <1>1, <1>2, CallerOrTile

LEMMA NearAtLast == ASSUME Types, Control, Phases PROVE SkewIsSmall
<1> SUFFICES ASSUME Formed, config.initialise, NEW t \in Tiles
             PROVE  delay[t] - delay[1] \in -MaxDelaySkew .. MaxDelaySkew
  BY DEF SkewIsSmall
<1>1. steps[Caller] = <<>>
  BY DEF Formed, Control
<1>2. Forming
  BY <1>1, FormationEmpty DEF Forming, Formed
<1>3. \A X : ~Comes(steps[Caller], X)
  BY <1>1 DEF Comes
<1> QED
  BY <1>2, <1>3 DEF Phases, Near

\* The pool works while the station waits for it, ...
BringUpInvariant == Types /\ Control /\ Phases

\* The steps of each process stay such as connect and the functions it maps to the pool are
\* made of (Control), and the phases of the tiles are within reach of the station's until the
\* corrections that are still to come (Phases), whatever fails and whenever PPS comes.
THEOREM BringUpStays == BringUpSpec => []BringUpInvariant
<1>1. BringUpInit => BringUpInvariant
  <2> SUFFICES ASSUME BringUpInit PROVE BringUpInvariant
    OBVIOUS
  <2>1. Types /\ Control
    BY InitIsControlled
  <2>2. Phases
    <3>1. steps[Caller] = connect
      BY CallerOrTile DEF BringUpInit
    <3>2. connect \in Seq(BringUpStep) /\ Connecting(connect)
      BY ConnectProgram
    <3>3. {"sampling"} \cap (ConnectKinds \cup {"form"}) = {}
      BY DEF ConnectKinds
    <3>4. ~Formation(connect) /\ ~Comes(connect, Kinds({"sampling"}))
      BY <3>2, <3>3, ConnectingOnly
    <3>5. \A targets : ~Comes(connect, SamplingTo(targets))
      BY <3>4, NoSampling
    <3> QED
      BY <3>1, <3>4, <3>5 DEF Phases, Forming
  <2> QED
    BY <2>1, <2>2 DEF BringUpInvariant
<1>2. BringUpInvariant /\ [BringUpNext]_bringUpVars => BringUpInvariant'
  <2> SUFFICES ASSUME BringUpInvariant, [BringUpNext]_bringUpVars PROVE BringUpInvariant'
    OBVIOUS
  <2>1. Types /\ Control /\ Phases
    BY DEF BringUpInvariant
  <2>2. CASE \E p \in Processes : Run(p)
    <3>1. PICK p \in Processes : Run(p)
      BY <2>2
    <3>2. Types' /\ Control' /\ Phases'
      BY <2>1, <3>1, TypesNext, ControlNext, PhasesNext
    <3> QED
      BY <3>2 DEF BringUpInvariant
  <2>3. CASE Pps
    <3>1. Types' /\ Control' /\ Phases'
      BY <2>1, <2>3, TypesPps, ControlPps, PhasesPps
    <3> QED
      BY <3>1 DEF BringUpInvariant
  <2>4. CASE UNCHANGED bringUpVars
    <3>1. UNCHANGED <<config, tile_state, clocks, control, tpm, times, slips, station>>
      BY <2>4 DEF bringUpVars, given
    <3>2. Types'
      <4>1. TileTypes' /\ ClockTypes' /\ TimeTypes' /\ RestTypes'
        BY <2>1, <3>1, TypesAre, TypesSame DEF station
      <4>2. ResultTypes'
        BY <2>1, <3>1, TypesAre DEF ResultTypes, control, station
      <4> QED
        BY <4>1, <4>2, TypesAreNext
    <3>3. UNCHANGED <<config, delay, steps, result, outcome, properly_formed, held, seen>>
      BY <3>1 DEF tile_state, control, station, times
    <3>4. Control'
      <4>1. (Connecting(steps[Caller])' <=> Connecting(steps[Caller]))
            /\ (Formation(steps[Caller])' <=> Formation(steps[Caller]))
        BY <3>3, FormSame
      <4>2. IsAt(Caller, "join")' <=> IsAt(Caller, "join")
        BY <3>3 DEF IsAt, Doing
      <4> QED
        BY <2>1, <3>3, <4>1, <4>2 DEF Control
    <3>5. Phases'
      <4>1. Forming' <=> Forming
        BY <3>3 DEF Forming, Formation
      <4> QED
        BY <2>1, <3>3, <4>1 DEF Phases, Near
    <3> QED
      BY <3>2, <3>4, <3>5 DEF BringUpInvariant
  <2> QED
    BY <2>2, <2>3, <2>4 DEF BringUpNext
<1> QED
  BY <1>1, <1>2, PTL DEF BringUpSpec

\* Registers, clocks and results are of their types, and no slip is counted too many.
THEOREM BringUpTypes == BringUpSpec => []BringUpTypeOK
<1>1. BringUpInvariant => BringUpTypeOK
  BY DEF BringUpInvariant, Types
<1> QED
  BY <1>1, BringUpStays, PTL

\* A station that is formed and was to be initialised has tiles that sample PPS within the
\* skew allowed of the first tile (_check_pps_sampling_synchronisation), whatever the delays
\* were before, or it is not formed.
THEOREM SkewStaysSmall == BringUpSpec => []SkewIsSmall
<1>1. BringUpInvariant => SkewIsSmall
  BY NearAtLast DEF BringUpInvariant
<1> QED
  BY <1>1, BringUpStays, PTL
=============================================================================
