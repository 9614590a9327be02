----------------------- MODULE StationForming_proofs ------------------------
(***************************************************************************)
(* Proofs about what is formed by StationBringUp, for any number of tiles  *)
(* and boards, where no PPS delay is out of range: a station is formed of  *)
(* tiles that were initialised, and all FPGAs start at one PPS if a second *)
(* passes at a bad moment once at most.                                    *)
(***************************************************************************)
EXTENDS StationBringUp_proofs, TLAPS

USE BringUpAssumption
-----------------------------------------------------------------------------
(* A process of the pool that initialises its tile                          *)

LEMMA InitialisingGoesOn ==
  ASSUME NEW s \in Seq(BringUpStep), s # <<>>, Initialising(s)
  PROVE  /\ Initialising(Tail(s)) /\ Head(s).do # "download"
         /\ Head(s).do \in {"end", "return_unless_programmed"} => ~Comes(Tail(s), Kinds({"connect", "instance"}))
         /\ Head(s).do = "return_if_internal_pps" => ~Comes(Tail(s), Kinds({"instance"}))
         /\ Head(s).do = "connect" => ~Comes(Tail(s), Kinds({"return_if_internal_pps"}))
         /\ Tail(s) = <<>> => Head(s).do = "needs" /\ "tpm_integrator" \in Head(s).names
<1>1. /\ Tail(s) \in Seq(BringUpStep) /\ Len(Tail(s)) = Len(s) - 1 /\ Len(s) \in Nat \ {0}
      /\ \A i \in 1 .. Len(s) - 1 : Tail(s)[i] = s[i + 1]
      /\ Head(s) = s[1] /\ Head(s) \in BringUpStep
  BY StepAfter
<1>2. s[Len(s)] \in Kinds({"needs"}) /\ "tpm_integrator" \in s[Len(s)].names
  BY DEF Initialising
<1>3. /\ ~Comes(s, Kinds({"download"}))
      /\ NoneAfter(s, Kinds({"end", "return_unless_programmed"}), Kinds({"connect", "instance"}))
      /\ NoneAfter(s, Kinds({"return_if_internal_pps"}), Kinds({"instance"}))
      /\ NoneAfter(s, Kinds({"connect"}), Kinds({"return_if_internal_pps"}))
  BY DEF Initialising
<1>4. Tail(s) # <<>> => Tail(s)[Len(Tail(s))] = s[Len(s)]
  <2>1. ASSUME Tail(s) # <<>>
        PROVE  Len(Tail(s)) \in 1 .. Len(s) - 1
    BY <1>1, <2>1
  <2> QED
    BY <1>1, <2>1
<1>5. Tail(s) = <<>> => Head(s) = s[Len(s)]
  BY <1>1
<1>6. ~Comes(Tail(s), Kinds({"download"})) /\ Head(s) \notin Kinds({"download"})
  BY <1>3, ComesInTail
<1>7. /\ NoneAfter(Tail(s), Kinds({"end", "return_unless_programmed"}), Kinds({"connect", "instance"}))
      /\ Head(s) \in Kinds({"end", "return_unless_programmed"}) => ~Comes(Tail(s), Kinds({"connect", "instance"}))
  BY <1>3, NoneAfterInTail
<1>8. /\ NoneAfter(Tail(s), Kinds({"return_if_internal_pps"}), Kinds({"instance"}))
      /\ Head(s) \in Kinds({"return_if_internal_pps"}) => ~Comes(Tail(s), Kinds({"instance"}))
  BY <1>3, NoneAfterInTail
<1>9. /\ NoneAfter(Tail(s), Kinds({"connect"}), Kinds({"return_if_internal_pps"}))
      /\ Head(s) \in Kinds({"connect"}) => ~Comes(Tail(s), Kinds({"return_if_internal_pps"}))
  BY <1>3, NoneAfterInTail
<1>10. Initialising(Tail(s))
  BY <1>2, <1>4, <1>6, <1>7, <1>8, <1>9 DEF Initialising
<1>11. \A D : Head(s) \in Kinds(D) <=> Head(s).do \in D
  BY <1>1 DEF Kinds
<1>12. Tail(s) = <<>> => Head(s).do = "needs" /\ "tpm_integrator" \in Head(s).names
  <2>1. Tail(s) = <<>> => Head(s) \in Kinds({"needs"}) /\ "tpm_integrator" \in Head(s).names
    BY <1>2, <1>5
  <2> QED
    BY <1>11, <2>1
<1> QED
  BY <1>6, <1>7, <1>8, <1>9, <1>10, <1>11, <1>12

\* another attempt to set the clocks of the tile
LEMMA InitialisingMore ==
  ASSUME NEW a \in Seq(Kinds(SyncKinds)), NEW r \in Seq(BringUpStep), r # <<>>, Initialising(r)
  PROVE  Initialising(a \o r)
<1>1. a \in Seq(BringUpStep)
  BY OfKinds
<1>2. /\ ~Comes(a, Kinds({"download"})) /\ ~Comes(a, Kinds({"end", "return_unless_programmed"}))
      /\ ~Comes(a, Kinds({"return_if_internal_pps"})) /\ ~Comes(a, Kinds({"connect"}))
  <2>1. /\ SyncKinds \cap {"download"} = {} /\ SyncKinds \cap {"end", "return_unless_programmed"} = {}
        /\ SyncKinds \cap {"return_if_internal_pps"} = {} /\ SyncKinds \cap {"connect"} = {}
    BY DEF SyncKinds
  <2> QED
    BY <2>1, NoSuchKind
<1>3. /\ ~Comes(r, Kinds({"download"}))
      /\ NoneAfter(r, Kinds({"end", "return_unless_programmed"}), Kinds({"connect", "instance"}))
      /\ NoneAfter(r, Kinds({"return_if_internal_pps"}), Kinds({"instance"}))
      /\ NoneAfter(r, Kinds({"connect"}), Kinds({"return_if_internal_pps"}))
      /\ r[Len(r)] \in Kinds({"needs"}) /\ "tpm_integrator" \in r[Len(r)].names
  BY DEF Initialising
<1>4. (a \o r)[Len(a \o r)] = r[Len(r)]
  <2>1. /\ Len(a \o r) = Len(a) + Len(r) /\ Len(a) \in Nat /\ Len(r) \in Nat
        /\ \A i \in 1 .. Len(r) : (a \o r)[Len(a) + i] = r[i]
    BY <1>1, Joined
  <2>2. Len(r) \in 1 .. Len(r)
    BY <2>1
  <2> QED
    BY <2>1, <2>2
<1>5. ~Comes(a \o r, Kinds({"download"}))
  BY <1>1, <1>2, <1>3, ComesJoined
<1>6. ASSUME NEW X, NEW Y, ~Comes(a, X), NoneAfter(r, X, Y)
      PROVE  NoneAfter(a \o r, X, Y)
  <2>1. NoneAfter(a, X, Y)
    BY <1>6, NothingComes
  <2> QED
    BY <1>1, <1>6, <2>1, NoneAfterJoined
<1> QED
  BY <1>2, <1>3, <1>4, <1>5, <1>6 DEF Initialising

\* what is left when the function returns early
LEMMA InitialisingFromEnd ==
  ASSUME NEW s \in Seq(BringUpStep), s # <<>>, Initialising(s),
         NEW q \in Seq(BringUpStep), q # <<>>, Head(q).do = "end", q[Len(q)] = s[Len(s)],
         \A X, Y : NoneAfter(s, X, Y) => NoneAfter(q, X, Y),
         \A X : Comes(q, X) => Comes(s, X)
  PROVE  Initialising(q) /\ ~Comes(q, Kinds({"connect", "instance"}))
<1>1. Initialising(q)
  BY DEF Initialising
<1>2. ~Comes(Tail(q), Kinds({"connect", "instance"}))
  BY <1>1, InitialisingGoesOn
<1>3. Head(q) \notin Kinds({"connect", "instance"})
  BY DEF Kinds
<1> QED
  BY <1>1, <1>2, <1>3, ComesInTail

\* Each action is that of its kinds of steps.
LEMMA DoesWhat ==
  ASSUME NEW p
  PROVE  /\ ConnectBoard(p) => Doing(p).do \in {"instance", "connect"}
         /\ NeedsPlugins(p) => Doing(p).do \in {"needs", "needs_board", "needs_programmed"}
         /\ Program(p) => Doing(p).do \in {"bitfile", "write_cpld", "download"}
         /\ LookUp(p) => Doing(p).do = "lookup"
         /\ ReturnEarly(p) => Doing(p).do \in EarlyKinds \cup {"end"}
         /\ Firmware_(p) => Doing(p).do \in {"start_jesd", "start_ddr", "check_ddr", "check_arp"}
         /\ SetRegisters(p) => Doing(p).do \in {"set_id", "initialised"}
         /\ AwaitPps(p) => Doing(p).do = "await_pps"
         /\ ReadClock(p) => Doing(p).do \in {"read_utc", "hold_clock", "read_clock"}
         /\ SetClock(p) => Doing(p).do = "set_clock"
         /\ SetSampling(p) => Doing(p).do = "sampling"
         /\ Compare(p) => Doing(p).do \in {"compare_two", "compare_delays", "compare_all"}
         /\ StartAt(p) => Doing(p).do = "start_at"
         /\ CheckStart(p) => Doing(p).do \in {"check_start", "await_started"}
         /\ p = Caller /\ (Map \/ Join \/ Branch \/ CheckStatus) =>
              Doing(p).do \in {"map", "join", "form", "check_status"}
<1>1. ConnectBoard(p) => Doing(p).do \in {"instance", "connect"}
  BY DEF ConnectBoard, IsAt
<1>2. NeedsPlugins(p) => Doing(p).do \in {"needs", "needs_board", "needs_programmed"}
  BY DEF NeedsPlugins, IsAt
<1>3. Program(p) => Doing(p).do \in {"bitfile", "write_cpld", "download"}
  BY DEF Program, IsAt
<1>4. LookUp(p) => Doing(p).do = "lookup"
  BY DEF LookUp, IsAt
<1>5. ReturnEarly(p) => Doing(p).do \in EarlyKinds \cup {"end"}
  BY DEF ReturnEarly, IsAt, EarlyKinds
<1>6. Firmware_(p) => Doing(p).do \in {"start_jesd", "start_ddr", "check_ddr", "check_arp"}
  BY DEF Firmware_, IsAt
<1>7. SetRegisters(p) => Doing(p).do \in {"set_id", "initialised"}
  BY DEF SetRegisters, IsAt
<1>8. AwaitPps(p) => Doing(p).do = "await_pps"
  BY DEF AwaitPps, IsAt
<1>9. ReadClock(p) => Doing(p).do \in {"read_utc", "hold_clock", "read_clock"}
  BY DEF ReadClock, IsAt
<1>10. SetClock(p) => Doing(p).do = "set_clock"
  BY DEF SetClock, IsAt
<1>11. SetSampling(p) => Doing(p).do = "sampling"
  BY DEF SetSampling, IsAt
<1>12. Compare(p) => Doing(p).do \in {"compare_two", "compare_delays", "compare_all"}
  <2>1. Compare(p) => IsAt(p, "compare_two") \/ IsAt(p, "compare_delays") \/ IsAt(p, "compare_all")
    BY DEF Compare
  <2> QED
    BY <2>1 DEF IsAt
<1>13. StartAt(p) => Doing(p).do = "start_at"
  BY DEF StartAt, IsAt
<1>14. CheckStart(p) => Doing(p).do \in {"check_start", "await_started"}
  BY DEF CheckStart, IsAt
<1>15. p = Caller /\ (Map \/ Join \/ Branch \/ CheckStatus) =>
         Doing(p).do \in {"map", "join", "form", "check_status"}
  BY DEF Map, Join, Branch, CheckStatus, IsAt
<1> QED
  BY <1>1, <1>2, <1>3, <1>4, <1>5, <1>6, <1>7, <1>8, <1>9, <1>10, <1>11, <1>12, <1>13, <1>14, <1>15

LEMMA RunIs ==
  ASSUME NEW p, Run(p)
  PROVE  /\ Doing(p).do \in {"instance", "connect"} => ConnectBoard(p)
         /\ Doing(p).do \in {"needs", "needs_board", "needs_programmed"} => NeedsPlugins(p)
         /\ Doing(p).do \in {"bitfile", "write_cpld", "download"} => Program(p)
         /\ Doing(p).do = "lookup" => LookUp(p)
         /\ Doing(p).do \in EarlyKinds \cup {"end"} => ReturnEarly(p)
         /\ Doing(p).do \in {"start_jesd", "start_ddr", "check_ddr", "check_arp"} => Firmware_(p)
         /\ Doing(p).do \in {"set_id", "initialised"} => SetRegisters(p)
         /\ Doing(p).do = "await_pps" => AwaitPps(p)
         /\ Doing(p).do \in {"read_utc", "hold_clock", "read_clock"} => ReadClock(p)
         /\ Doing(p).do = "set_clock" => SetClock(p)
         /\ Doing(p).do = "sampling" => SetSampling(p)
         /\ Doing(p).do \in {"compare_two", "compare_delays", "compare_all"} => Compare(p)
         /\ Doing(p).do = "start_at" => StartAt(p)
         /\ Doing(p).do \in {"check_start", "await_started"} => CheckStart(p)
<1> DEFINE d == Doing(p).do
<1>1. \/ ConnectBoard(p) /\ d \in {"instance", "connect"}
      \/ NeedsPlugins(p) /\ d \in {"needs", "needs_board", "needs_programmed"}
      \/ Program(p) /\ d \in {"bitfile", "write_cpld", "download"}
      \/ LookUp(p) /\ d = "lookup"
      \/ ReturnEarly(p) /\ d \in EarlyKinds \cup {"end"}
      \/ Firmware_(p) /\ d \in {"start_jesd", "start_ddr", "check_ddr", "check_arp"}
      \/ SetRegisters(p) /\ d \in {"set_id", "initialised"}
      \/ AwaitPps(p) /\ d = "await_pps"
      \/ ReadClock(p) /\ d \in {"read_utc", "hold_clock", "read_clock"}
      \/ SetClock(p) /\ d = "set_clock"
      \/ SetSampling(p) /\ d = "sampling"
      \/ Compare(p) /\ d \in {"compare_two", "compare_delays", "compare_all"}
      \/ StartAt(p) /\ d = "start_at"
      \/ CheckStart(p) /\ d \in {"check_start", "await_started"}
      \/ d \in {"map", "join", "form", "check_status"}
  BY DoesWhat DEF Run
<1> HIDE DEF d
<1>2. /\ d \in {"instance", "connect"} => ConnectBoard(p)
      /\ d \in {"needs", "needs_board", "needs_programmed"} => NeedsPlugins(p)
      /\ d \in {"bitfile", "write_cpld", "download"} => Program(p)
      /\ d = "lookup" => LookUp(p)
  BY <1>1 DEF EarlyKinds
<1>3. /\ d \in EarlyKinds \cup {"end"} => ReturnEarly(p)
      /\ d \in {"start_jesd", "start_ddr", "check_ddr", "check_arp"} => Firmware_(p)
      /\ d \in {"set_id", "initialised"} => SetRegisters(p)
      /\ d = "await_pps" => AwaitPps(p)
  BY <1>1 DEF EarlyKinds
<1>4. /\ d \in {"read_utc", "hold_clock", "read_clock"} => ReadClock(p)
      /\ d = "set_clock" => SetClock(p)
      /\ d = "sampling" => SetSampling(p)
  BY <1>1 DEF EarlyKinds
<1>5. /\ d \in {"compare_two", "compare_delays", "compare_all"} => Compare(p)
      /\ d = "start_at" => StartAt(p)
      /\ d \in {"check_start", "await_started"} => CheckStart(p)
  BY <1>1 DEF EarlyKinds
<1> QED
  BY <1>2, <1>3, <1>4, <1>5 DEF d

\* Which steps change what
LEMMA OnlyThen ==
  ASSUME NEW p, Run(p)
  PROVE  /\ tpm' # tpm => ConnectBoard(p)
         /\ programmed' # programmed \/ initialised' # initialised => Program(p) \/ SetRegisters(p)
         /\ clock' # clock => SetClock(p)
         /\ <<start_in, began>>' # <<start_in, began>> => StartAt(p)
         /\ held' # held => AwaitPps(p) \/ ReadClock(p) \/ Compare(p) \/ CheckStart(p)
         /\ seen' # seen => AwaitPps(p) \/ ReadClock(p) \/ Compare(p)
         /\ slips' = slips /\ config' = config
<1> DEFINE Then ==
         /\ tpm' # tpm => ConnectBoard(p)
         /\ programmed' # programmed \/ initialised' # initialised => Program(p) \/ SetRegisters(p)
         /\ clock' # clock => SetClock(p)
         /\ <<start_in, began>>' # <<start_in, began>> => StartAt(p)
         /\ held' # held => AwaitPps(p) \/ ReadClock(p) \/ Compare(p) \/ CheckStart(p)
         /\ seen' # seen => AwaitPps(p) \/ ReadClock(p) \/ Compare(p)
<1>1. ConnectBoard(p) \/ NeedsPlugins(p) \/ Program(p) => Then
  BY DEF ConnectBoard, NeedsPlugins, Program, tile_state, clocks, times
<1>2. LookUp(p) \/ ReturnEarly(p) \/ Firmware_(p) => Then
  BY DEF LookUp, ReturnEarly, Firmware_, tile_state, clocks, times
<1>3. SetRegisters(p) => Then
  BY DEF SetRegisters, clocks, times
<1>4. AwaitPps(p) => Then
  BY DEF AwaitPps, tile_state, clocks
<1>5. ReadClock(p) => Then
  BY DEF ReadClock, tile_state, clocks
<1>6. SetClock(p) => Then
  BY DEF SetClock, tile_state, times
<1>7. SetSampling(p) => Then
  BY DEF SetSampling, clocks, times
<1>8. Compare(p) => Then
  <2>1. Compare(p) => UNCHANGED <<tile_state, clocks, tpm>>
    BY DEF Compare
  <2> QED
    BY <2>1 DEF tile_state, clocks
<1>9. StartAt(p) => Then
  BY DEF StartAt, tile_state, times
<1>10. CheckStart(p) => Then
  BY DEF CheckStart, tile_state, clocks
<1>11. Map \/ Join \/ Branch \/ CheckStatus => Then
  BY DEF Map, Join, Branch, CheckStatus, tile_state, clocks, times
<1>12. slips' = slips /\ config' = config
  BY DEF Run, given
<1> QED
  BY <1>1, <1>2, <1>3, <1>4, <1>5, <1>6, <1>7, <1>8, <1>9, <1>10, <1>11, <1>12 DEF Run

\* A process of the pool changes its own tile only.
LEMMA PoolFrame ==
  ASSUME Types, Control, NEW t \in Tiles, Run(t), NEW u \in Tiles, u # t
  PROVE  /\ Object(u)' = Object(u) /\ programmed'[u] = programmed[u] /\ initialised'[u] = initialised[u]
         /\ \A f \in FpgasOf(u) : clock'[f] = clock[f]
         /\ held'[u] = held[u]
<1>1. steps[t] # <<>>
  BY PoolRun
<1>2. /\ Doing(t).do \in PoolPlainKinds \cup PoolTileKinds \cup PoolFpgaKinds
      /\ Doing(t).do \in PoolTileKinds => Doing(t).tile = t
      /\ Doing(t).do \in PoolFpgaKinds => Doing(t).fpga \in FpgasOf(t)
  BY <1>1, PoolDoing
<1>3. /\ programmed \in [Tiles -> BOOLEAN] /\ initialised \in [Tiles -> BOOLEAN]
      /\ clock \in [Fpgas -> Int] /\ held \in [Processes -> SUBSET Int] /\ DOMAIN tpm = Tpms
  BY DEF Types, BringUpTypeOK
<1>4. u \in Processes /\ t \in Processes
  BY CallerOrTile
<1>5. Object(u)' = Object(u)
  <2>1. CASE tpm' = tpm
    BY <2>1 DEF Object
  <2>2. CASE ConnectBoard(t)
    <3>1. Doing(t).tile = t
      BY <1>2, <2>2, DoesWhat DEF PoolTileKinds
    <3>2. PICK o : tpm' = [tpm EXCEPT ![<<t, t>>] = o]
      BY <2>2, <3>1 DEF ConnectBoard
    <3>3. <<u, u>> \in Tpms /\ <<u, u>> # <<t, t>>
      BY <1>4 DEF Tpms
    <3> QED
      BY <1>3, <3>2, <3>3 DEF Object
  <2> QED
    BY <2>1, <2>2, OnlyThen
<1>6. programmed'[u] = programmed[u] /\ initialised'[u] = initialised[u]
  <2>1. CASE programmed' = programmed /\ initialised' = initialised
    BY <2>1
  <2>2. CASE Program(t)
    <3>1. \/ UNCHANGED <<programmed, initialised>>
          \/ IsAt(t, "download")
      BY <2>2 DEF Program
    <3>2. CASE IsAt(t, "download")
      <4>1. Doing(t).tile = t
        BY <1>2, <3>2 DEF IsAt, PoolTileKinds
      <4>2. /\ \/ programmed' = programmed \/ \E b : programmed' = [programmed EXCEPT ![t] = b]
            /\ \/ initialised' = initialised \/ \E b : initialised' = [initialised EXCEPT ![t] = b]
        BY <2>2, <4>1 DEF Program
      <4> QED
        BY <1>3, <4>2
    <3> QED
      BY <3>1, <3>2
  <2>3. CASE SetRegisters(t)
    <3>1. \/ UNCHANGED <<programmed, initialised>>
          \/ IsAt(t, "initialised") /\ programmed' = programmed
             /\ initialised' = [initialised EXCEPT ![Doing(t).tile] = TRUE]
      BY <2>3 DEF SetRegisters
    <3>2. IsAt(t, "initialised") => Doing(t).tile = t
      BY <1>2 DEF IsAt, PoolTileKinds
    <3> QED
      BY <1>3, <3>1, <3>2
  <2> QED
    BY <2>1, <2>2, <2>3, OnlyThen
<1>7. ASSUME NEW f \in FpgasOf(u)
      PROVE  clock'[f] = clock[f]
  <2>1. CASE clock' = clock
    BY <2>1
  <2>2. CASE SetClock(t)
    <3>1. Doing(t).fpga \in FpgasOf(t)
      BY <1>2, <2>2, DoesWhat DEF PoolFpgaKinds
    <3>2. PICK time : clock' = [clock EXCEPT ![Doing(t).fpga] = time]
      BY <2>2 DEF SetClock
    <3>3. f \in Fpgas /\ f # Doing(t).fpga
      BY <1>7, <3>1, FpgasOfTile
    <3> QED
      BY <1>3, <3>2, <3>3
  <2> QED
    BY <2>1, <2>2, OnlyThen
<1>8. held'[u] = held[u]
  <2>1. CASE held' = held
    BY <2>1
  <2>2. CASE AwaitPps(t) \/ ReadClock(t)
    <3>1. held' = held \/ \E h : held' = [held EXCEPT ![t] = h]
      BY <2>2 DEF AwaitPps, ReadClock
    <3> QED
      BY <1>3, <1>4, <3>1
  <2>3. CASE Compare(t) \/ CheckStart(t)
    <3>1. held' = held \/ \E h : held' = [held EXCEPT ![t] = h]
      <4>1. CASE Compare(t)
        <5>1. \/ IsAt(t, "compare_two") /\ held' = [held EXCEPT ![t] = {}]
              \/ IsAt(t, "compare_delays")
              \/ IsAt(t, "compare_all")
          BY <4>1 DEF Compare
        <5> QED
          BY <5>1, PoolDoesNot
      <4>2. CASE CheckStart(t)
        BY <4>2, PoolDoesNot DEF CheckStart
      <4> QED
        BY <2>3, <4>1, <4>2
    <3> QED
      BY <1>3, <1>4, <3>1
  <2> QED
    BY <2>1, <2>2, <2>3, OnlyThen
<1> QED
  BY <1>5, <1>6, <1>7, <1>8

\* What is prepared stays so, when nothing of it changes.
LEMMA PreparedSame ==
  ASSUME NEW u \in Tiles, Prepared(u), steps'[u] = steps[u], result'[u] = result[u],
         slips' >= slips, slips \in Nat, slips' \in Nat,
         Connecting(steps[Caller])' => Connecting(steps[Caller]),
         Object(u)' = Object(u), programmed'[u] = programmed[u], initialised'[u] = initialised[u],
         \/ ~Connecting(steps[Caller])'
         \/ \A f \in FpgasOf(u) : clock'[f] = clock[f],
         \/ result[u] \in {"running", "ok"}
         \/ Comes(steps[Caller], Kinds({"join"})) => Comes(steps'[Caller], Kinds({"join"}))
  PROVE  Prepared(u)'
<1>1. Going(u) => Going(u)'
  <2>1. InTime(u) => InTime(u)'
    <3>1. slips' = 0 => slips = 0
      OBVIOUS
    <3> QED
      BY <3>1 DEF InTime
  <2> QED
    BY <2>1 DEF Going
<1>2. Doomed(u) => Doomed(u)'
  BY DEF Doomed
<1>3. Objects(u) => Objects(u)'
  BY DEF Objects
<1>4. Initialising(steps[u]) => Initialising(steps[u])'
  BY DEF Initialising
<1> QED
  BY <1>1, <1>2, <1>3, <1>4 DEF Prepared

LEMMA JoinedEmpty ==
  ASSUME NEW a \in Seq(BringUpStep), NEW b \in Seq(BringUpStep), a \o b = <<>>
  PROVE  a = <<>> /\ b = <<>>
<1>1. Len(a) + Len(b) = Len(a \o b) /\ Len(a) \in Nat /\ Len(b) \in Nat
  BY Joined
<1>2. Len(a \o b) = 0
  <2>1. Len(<<>>) = 0
    OBVIOUS
  <2> QED
    BY <2>1
<1>3. Len(a) + Len(b) = 0
  BY <1>1, <1>2
<1>4. Len(a) = 0 /\ Len(b) = 0
  BY <1>1, <1>3
<1> QED
  BY <1>4, EmptySeq

\* The process goes on, or tries again; at its last step it looks for a plug-in.
LEMMA StepPrepared ==
  ASSUME Types, Control, NEW t \in Tiles, steps[t] # <<>>, Prepared(t),
         NEW a \in Seq(Kinds(SyncKinds)), a # <<>> => Doing(t).do = "compare_two",
         steps'[t] = a \o Tail(steps[t]), result'[t] = ResultOf(a \o Tail(steps[t])),
         Objects(t)', Doomed(t) => Doomed(t)', Going(t) => Going(t)',
         Doing(t).do = "needs" => Object(t).on /\ Doing(t).names \subseteq Object(t).plugins
  PROVE  Prepared(t)'
<1> DEFINE s == steps[t]
<1> DEFINE r == Tail(s)
<1>1. s \in Seq(BringUpStep) /\ s # <<>> /\ r \in Seq(BringUpStep) /\ Doing(t) = Head(s) /\ result[t] = "running"
  BY PoolDoing DEF Doing
<1>2. Initialising(s) /\ (Doomed(t) \/ Going(t))
  BY <1>1 DEF Prepared
<1>3. Initialising(r) /\ (r = <<>> => Head(s).do = "needs" /\ "tpm_integrator" \in Head(s).names)
  BY <1>1, <1>2, InitialisingGoesOn
<1>4. a \in Seq(BringUpStep)
  BY OfKinds
<1>5. CASE a \o r # <<>>
  <2>1. result'[t] = "running"
    BY <1>5 DEF ResultOf
  <2>2. Initialising(a \o r)
    <3>1. CASE a = <<>>
      <4>1. a \o r = r
        BY <1>1, <3>1
      <4> QED
        BY <1>3, <4>1
    <3>2. CASE a # <<>>
      <4>1. r # <<>>
        BY <1>1, <1>3, <3>2
      <4> QED
        BY <1>1, <1>3, <4>1, InitialisingMore
    <3> QED
      BY <3>1, <3>2
  <2>3. Initialising(steps[t])'
    BY <2>2 DEF Initialising
  <2> QED
    BY <1>2, <2>1, <2>3 DEF Prepared
<1>6. CASE a \o r = <<>>
  <2>1. a = <<>> /\ r = <<>>
    BY <1>1, <1>4, <1>6, JoinedEmpty
  <2>2. Head(s).do = "needs" /\ "tpm_integrator" \in Head(s).names
    BY <1>3, <2>1
  <2>3. Object(t).on /\ "tpm_integrator" \in Object(t).plugins
    BY <1>1, <2>2
  <2>4. Going(t)'
    BY <1>2, <2>3 DEF Doomed
  <2>5. result'[t] = "ok"
    BY <1>6 DEF ResultOf
  <2> QED
    BY <2>4, <2>5 DEF Prepared
<1> QED
  BY <1>5, <1>6

\* A step that neither makes nor loses the object of the tile.
LEMMA PreparedStep ==
  ASSUME Types, Control, NEW t \in Tiles, steps[t] # <<>>, Prepared(t),
         NEW a \in Seq(Kinds(SyncKinds)), a # <<>> => Doing(t).do = "compare_two",
         steps'[t] = a \o Tail(steps[t]), result'[t] = ResultOf(a \o Tail(steps[t])),
         Doing(t).do \notin {"instance", "connect"}, Object(t)' = Object(t),
         Doing(t).do = "needs" => Object(t).on /\ Doing(t).names \subseteq Object(t).plugins,
         programmed'[t] = programmed[t], Doing(t).do = "return_unless_programmed" => programmed[t],
         initialised[t] \/ Doing(t).do = "initialised" => initialised'[t],
         slips' = slips, Connecting(steps[Caller])' => Connecting(steps[Caller]),
         \A f \in FpgasOf(t) :
           slips = 0 /\ Connecting(steps[Caller]) /\ (clock[f] = 0 \/ Doing(t) \in SetOf(f)) => clock'[f] = 0
  PROVE  Prepared(t)'
<1> DEFINE s == steps[t]
<1> DEFINE r == Tail(s)
<1> DEFINE q == a \o r
<1>1. s \in Seq(BringUpStep) /\ s # <<>> /\ r \in Seq(BringUpStep) /\ Doing(t) = Head(s) /\ result[t] = "running"
      /\ Doing(t) \in BringUpStep
  BY PoolDoing DEF Doing
<1>2. a \in Seq(BringUpStep)
  BY OfKinds
<1>3. \A X : Comes(q, X) <=> Comes(a, X) \/ Comes(r, X)
  BY <1>1, <1>2, ComesJoined
<1>4. \A X : Comes(s, X) <=> Doing(t) \in X \/ Comes(r, X)
  BY <1>1, ComesInTail
<1>5. \A D : Doing(t) \in Kinds(D) <=> Doing(t).do \in D
  BY <1>1 DEF Kinds
<1>6. /\ ~Comes(a, Kinds({"connect", "instance"})) /\ ~Comes(a, Kinds({"return_if_internal_pps"}))
  <2>1. SyncKinds \cap {"connect", "instance"} = {} /\ SyncKinds \cap {"return_if_internal_pps"} = {}
    BY DEF SyncKinds
  <2> QED
    BY <2>1, NoSuchKind
<1> HIDE DEF q, r, s
<1>7. steps'[t] = q
  BY DEF q, r, s
<1>8. Objects(t)'
  <2>1. Objects(t)
    BY <1>1 DEF Prepared, s
  <2>2. Comes(s, Kinds({"instance"})) => Comes(q, Kinds({"instance"}))
    BY <1>3, <1>4, <1>5
  <2>3. Comes(q, Kinds({"return_if_internal_pps"})) => Comes(s, Kinds({"return_if_internal_pps"}))
    BY <1>3, <1>4, <1>6
  <2> QED
    BY <1>7, <2>1, <2>2, <2>3 DEF Objects, s
<1>9. Doomed(t) => Doomed(t)'
  <2>1. Comes(q, Kinds({"connect", "instance"})) => Comes(s, Kinds({"connect", "instance"}))
    BY <1>3, <1>4, <1>6
  <2> QED
    BY <1>7, <2>1 DEF Doomed, s
<1>10. ASSUME Going(t)
       PROVE  Going(t)'
  <2>1. initialised[t] \/ Comes(s, Kinds({"initialised"}))
    BY <1>10 DEF Going, s
  <2>2. initialised'[t] \/ Comes(q, Kinds({"initialised"}))
    BY <1>3, <1>4, <1>5, <2>1
  <2>3. programmed[t] \/ Comes(s, Kinds({"return_unless_programmed"}))
    BY <1>10 DEF Going, s
  <2>4. programmed'[t] \/ Comes(q, Kinds({"return_unless_programmed"}))
    BY <1>3, <1>4, <1>5, <2>3
  <2>5. InTime(t)'
    <3>1. ASSUME slips = 0, Connecting(steps[Caller]), NEW f \in FpgasOf(t)
          PROVE  clock'[f] = 0 \/ Comes(q, SetOf(f))
      <4>1. clock[f] = 0 \/ Comes(s, SetOf(f))
        BY <1>10, <3>1 DEF Going, InTime, s
      <4> QED
        BY <1>3, <1>4, <3>1, <4>1
    <3> QED
      BY <1>7, <3>1 DEF InTime
  <2> QED
    BY <1>7, <2>2, <2>4, <2>5 DEF Going
<1>11. steps'[t] = a \o Tail(steps[t]) /\ result'[t] = ResultOf(a \o Tail(steps[t]))
  OBVIOUS
<1> QED
  BY <1>8, <1>9, <1>10, <1>11, StepPrepared

LEMMA PoolMoved ==
  ASSUME Types, Control, NEW t \in Tiles, Run(t), NEW q, NEW r, Moves(t, q, r)
  PROVE  /\ steps'[t] = q /\ result'[t] = r
         /\ \A u \in Tiles \ {t} : steps'[u] = steps[u] /\ result'[u] = result[u]
         /\ steps'[Caller] = steps[Caller] /\ Comes(steps[Caller], Kinds({"join"}))
         /\ Connecting(steps[Caller])' <=> Connecting(steps[Caller])
         /\ config' = config /\ slips' = slips /\ outcome' = outcome /\ properly_formed' = properly_formed
<1>1. steps[t] # <<>> /\ held'[Caller] = held[Caller] /\ seen'[Caller] = seen[Caller]
      /\ properly_formed' = properly_formed
  BY PoolRun
<1>2. config' = config /\ slips' = slips
  BY OnlyThen
<1>3. /\ steps'[t] = q /\ result'[t] = r /\ steps'[Caller] = steps[Caller]
      /\ \A u \in Tiles \ {t} : steps'[u] = steps[u] /\ result'[u] = result[u]
  BY <1>1, <1>2, PoolControl
<1>4. Connecting(steps[Caller])' <=> Connecting(steps[Caller])
  BY <1>2, <1>3, FormSame
<1>5. Comes(steps[Caller], Kinds({"join"}))
  <2>1. IsAt(Caller, "join")
    BY <1>1, PoolDoing
  <2>2. steps[Caller] # <<>> /\ Head(steps[Caller]).do = "join"
    BY <2>1 DEF IsAt, Doing
  <2>3. steps[Caller] \in Seq(BringUpStep) /\ Head(steps[Caller]) \in BringUpStep
    BY <2>2, CallerOrTile, StepAfter DEF Control
  <2>4. Head(steps[Caller]) \in Kinds({"join"})
    BY <2>2, <2>3 DEF Kinds
  <2> QED
    BY <2>2, <2>3, <2>4, ComesInTail
<1>6. outcome' = outcome
  BY DEF Moves
<1> QED
  BY <1>1, <1>2, <1>3, <1>4, <1>5, <1>6

LEMMA PreparedFailed ==
  ASSUME Types, Control, NEW t \in Tiles, Run(t), Raises(t) \/ (LookUp(t) /\ ~GoesOn(t))
  PROVE  Prepared(t)'
<1>1. steps[t] # <<>>
  BY PoolRun
<1>2. PICK r \in {"failed", "raised"} : Moves(t, <<>>, r)
  BY <1>1, PoolEnds DEF LookUp
<1>3. result'[t] = r /\ Comes(steps'[Caller], Kinds({"join"}))
  BY <1>2, PoolMoved
<1> QED
  BY <1>3 DEF Prepared

LEMMA PoolWent ==
  ASSUME Types, Control, NEW t \in Tiles, Run(t), GoesOn(t)
  PROVE  /\ <<>> \in Seq(Kinds(SyncKinds)) /\ steps[t] # <<>>
         /\ steps'[t] = <<>> \o Tail(steps[t]) /\ result'[t] = ResultOf(<<>> \o Tail(steps[t]))
<1>1. steps[t] # <<>>
  BY PoolRun
<1>2. Moves(t, Tail(steps[t]), ResultOf(Tail(steps[t])))
  BY <1>1, PoolGoesOn
<1>3. steps'[t] = Tail(steps[t]) /\ result'[t] = ResultOf(Tail(steps[t]))
  BY <1>2, PoolMoved
<1>4. Tail(steps[t]) \in Seq(BringUpStep)
  BY <1>1, PoolDoing
<1>5. <<>> \o Tail(steps[t]) = Tail(steps[t])
  BY <1>4
<1> QED
  BY <1>1, <1>3, <1>5

\* A new object, or that of a board that is connected
LEMMA PreparedObject ==
  ASSUME Types, Control, NEW t \in Tiles, Run(t), Prepared(t), Doing(t).do \in {"instance", "connect"}
  PROVE  Prepared(t)'
<1> DEFINE s == steps[t]
<1> DEFINE r == Tail(s)
<1>1. s \in Seq(BringUpStep) /\ s # <<>> /\ r \in Seq(BringUpStep) /\ Doing(t) = Head(s) /\ result[t] = "running"
      /\ Doing(t) \in BringUpStep /\ Doing(t).tile = t
  <2>1. s # <<>>
    BY PoolRun
  <2> QED
    BY <2>1, PoolDoing DEF Doing, PoolTileKinds
<1>2. ConnectBoard(t) /\ IsAt(t, Doing(t).do)
  BY <1>1, RunIs DEF IsAt
<1>3. CASE Raises(t)
  <2>1. Raises(t) \/ (LookUp(t) /\ ~GoesOn(t))
    BY <1>3
  <2> QED
    BY <2>1, PreparedFailed, Zenon
<1>4. CASE GoesOn(t)
  <2>1. PICK o : tpm' = [tpm EXCEPT ![<<t, t>>] = o]
    BY <1>1, <1>2 DEF ConnectBoard
  <2>2. <<t, t>> \in DOMAIN tpm
    BY CallerOrTile DEF Types, BringUpTypeOK, Tpms
  <2>3. /\ Doing(t).do = "instance" => Object(t)' = Unconnected
        /\ Doing(t).do = "connect" =>
             Object(t)' = Unconnected \/ (Object(t)'.plugins # {} => programmed[t])
    <3>1. \/ IsAt(t, "connect") /\
             tpm' = [tpm EXCEPT ![<<t, t>>] =
               [on |-> TRUE,
                plugins |-> IF Doing(t).plugins /\ programmed[t] THEN load_plugin(board[t]) ELSE {}]]
          \/ tpm' = [tpm EXCEPT ![<<t, t>>] = Unconnected]
      BY <1>1, <1>2 DEF ConnectBoard
    <3>2. CASE tpm' = [tpm EXCEPT ![<<t, t>>] = Unconnected]
      BY <2>2, <3>2 DEF Object
    <3>3. CASE IsAt(t, "connect") /\
             tpm' = [tpm EXCEPT ![<<t, t>>] =
               [on |-> TRUE,
                plugins |-> IF Doing(t).plugins /\ programmed[t] THEN load_plugin(board[t]) ELSE {}]]
      BY <2>2, <3>3 DEF Object, IsAt
    <3> QED
      BY <3>1, <3>2, <3>3
  <2>4. UNCHANGED <<programmed, initialised, clock>>
    BY <1>2 DEF ConnectBoard, tile_state, clocks
  <2>5. \A X : Comes(s, X) <=> Doing(t) \in X \/ Comes(r, X)
    BY <1>1, ComesInTail
  <2>6. \A D : Doing(t) \in Kinds(D) <=> Doing(t).do \in D
    BY <1>1 DEF Kinds
  <2>7. Initialising(s)
    BY <1>1 DEF Prepared
  <2>8. Doing(t).do = "connect" => ~Comes(r, Kinds({"return_if_internal_pps"}))
    BY <1>1, <2>7, InitialisingGoesOn
  <2>9. /\ <<>> \in Seq(Kinds(SyncKinds))
        /\ steps'[t] = <<>> \o Tail(steps[t]) /\ result'[t] = ResultOf(<<>> \o Tail(steps[t]))
    BY <1>4, PoolWent
  <2>10. steps'[t] = r
    BY <1>1, <2>9
  <2> HIDE DEF r, s
  <2>11. Objects(t)'
    BY <1>1, <2>3, <2>4, <2>8, <2>10 DEF Objects, Unconnected
  <2>12. ~Doomed(t)
    BY <2>5, <2>6 DEF Doomed, s
  <2>13. ASSUME Going(t)
         PROVE  Going(t)'
    <3>1. \A D : D \in {{"initialised"}, {"return_unless_programmed"}} => (Comes(s, Kinds(D)) => Comes(r, Kinds(D)))
      BY <2>5, <2>6
    <3>2. \A f \in FpgasOf(t) : Comes(s, SetOf(f)) => Comes(r, SetOf(f))
      <4>1. \A f \in FpgasOf(t) : Doing(t) \notin SetOf(f)
        BY DEF SetOf, OfFpga
      <4> QED
        BY <2>5, <4>1
    <3>3. slips' = slips /\ (Connecting(steps[Caller])' => Connecting(steps[Caller]))
      <4>1. Moves(t, Tail(steps[t]), ResultOf(Tail(steps[t])))
        BY <1>1, <1>4, PoolGoesOn DEF s
      <4> QED
        BY <4>1, PoolMoved
    <3> QED
      BY <2>4, <2>10, <2>13, <3>1, <3>2, <3>3 DEF Going, InTime, s
  <2> QED
    BY <1>1, <2>9, <2>11, <2>12, <2>13, StepPrepared DEF s
<1> QED
  BY <1>1, <1>2, <1>3, <1>4 DEF ConnectBoard

\* The function returns early, and the exception is still to come.
LEMMA PreparedEarly ==
  ASSUME Types, Control, NEW t \in Tiles, Run(t), Prepared(t), Returns(t),
         Doing(t).do \in {"return_unless_programmed", "return_if_internal_pps"},
         Doing(t).do = "return_unless_programmed" => ~programmed[t]
  PROVE  Prepared(t)'
<1> DEFINE s == steps[t]
<1> DEFINE r == Tail(s)
<1>1. s \in Seq(BringUpStep) /\ s # <<>> /\ r \in Seq(BringUpStep) /\ Doing(t) = Head(s) /\ result[t] = "running"
      /\ Doing(t) \in BringUpStep
  <2>1. s # <<>>
    BY PoolRun
  <2> QED
    BY <2>1, PoolDoing DEF Doing
<1>2. Doing(t).do \in EarlyKinds
  BY DEF EarlyKinds
<1>3. PICK q :
        /\ Moves(t, q, "running") /\ q # <<>> /\ Head(q).do = "end"
        /\ \A X, Y : NoneAfter(s, X, Y) => NoneAfter(q, X, Y)
        /\ \A X : Comes(q, X) => Comes(s, X)
        /\ q[Len(q)] = s[Len(s)]
  BY <1>1, <1>2, PoolReturns
<1>4. steps'[t] = q /\ result'[t] = "running"
  BY <1>3, PoolMoved
<1>5. q \in Seq(BringUpStep)
  <2> DEFINE K == PoolSteps(t)
  <2>1. K \subseteq BringUpStep
    BY DEF PoolSteps
  <2>2. q \in Seq(K)
    BY <1>3 DEF Moves
  <2> HIDE DEF K
  <2> QED
    BY <2>1, <2>2
<1>6. Initialising(s) /\ Objects(t)
  BY <1>1 DEF Prepared
<1>7. Initialising(q) /\ ~Comes(q, Kinds({"connect", "instance"}))
  BY <1>1, <1>3, <1>5, <1>6, InitialisingFromEnd
<1>8. ~Comes(s, Kinds({"instance"}))
  <2>1. ~Comes(r, Kinds({"instance"}))
    <3>1. Kinds({"instance"}) \subseteq Kinds({"connect", "instance"})
      BY DEF Kinds
    <3>2. /\ Head(s).do \in {"end", "return_unless_programmed"} => ~Comes(r, Kinds({"connect", "instance"}))
          /\ Head(s).do = "return_if_internal_pps" => ~Comes(r, Kinds({"instance"}))
      BY <1>1, <1>6, InitialisingGoesOn
    <3> QED
      BY <1>1, <3>1, <3>2, ComesMore
  <2>2. Head(s) \notin Kinds({"instance"})
    BY <1>1 DEF Kinds
  <2> QED
    BY <1>1, <2>1, <2>2, ComesInTail
<1>9. Doing(t).do = "return_if_internal_pps" => Comes(s, Kinds({"return_if_internal_pps"}))
  <2>1. Doing(t).do = "return_if_internal_pps" => Head(s) \in Kinds({"return_if_internal_pps"})
    BY <1>1 DEF Kinds
  <2> QED
    BY <1>1, <2>1, ComesInTail
<1>10. Object(t)' = Object(t) /\ programmed'[t] = programmed[t]
  <2>1. ReturnEarly(t)
    BY <1>2, RunIs
  <2> QED
    BY <2>1 DEF ReturnEarly, tile_state, Object
<1> HIDE DEF r, s
<1>11. /\ Object(t).plugins # {} => programmed[t]
       /\ Comes(s, Kinds({"return_if_internal_pps"})) => ~Object(t).on
  BY <1>6, <1>8 DEF Objects, s
<1>12. Objects(t)'
  BY <1>3, <1>4, <1>10, <1>11 DEF Objects
<1>13. Doomed(t)'
  BY <1>4, <1>7, <1>9, <1>10, <1>11 DEF Doomed
<1>14. Initialising(steps[t])'
  BY <1>4, <1>7 DEF Initialising
<1> QED
  BY <1>4, <1>12, <1>13, <1>14 DEF Prepared

\* How a step of such a process ends
LEMMA PoolMoves ==
  ASSUME Types, Control, NEW t \in Tiles, Run(t), Doing(t).do \notin {"instance", "connect", "download"},
         ~config.pps_delay_far
  PROVE  \/ /\ GoesOn(t)
            /\ Doing(t).do = "needs" => Object(t).on /\ Doing(t).names \subseteq Object(t).plugins
            /\ Doing(t).do = "return_unless_programmed" => programmed[t]
         \/ Raises(t)
         \/ LookUp(t) /\ ~GoesOn(t)
         \/ /\ Returns(t) /\ Doing(t).do \in {"return_unless_programmed", "return_if_internal_pps"}
            /\ Doing(t).do = "return_unless_programmed" => ~programmed[t]
         \/ /\ IsAt(t, "compare_two") /\ Doing(t).do = "compare_two"
            /\ \E equal \in BOOLEAN : Proceeds(t, AfterTwoCompared(equal, Doing(t).tile, Doing(t).attempt))
<1>1. steps[t] # <<>> /\ (\A do : IsAt(t, do) <=> Doing(t).do = do)
  BY PoolRun DEF IsAt
<1>2. /\ Doing(t).do \in PoolPlainKinds \cup PoolTileKinds \cup PoolFpgaKinds
      /\ Doing(t).do \in PoolTileKinds => Doing(t).tile = t
  BY <1>1, PoolDoing
<1>3. CASE Doing(t).do \in {"needs", "needs_board"}
  <2>1. NeedsPlugins(t) /\ Doing(t).tile = t
    BY <1>2, <1>3, RunIs DEF PoolTileKinds
  <2>2. ThisTpm(t) = Object(t)
    BY <2>1 DEF ThisTpm, Object
  <2> QED
    BY <1>1, <1>3, <2>1, <2>2 DEF NeedsPlugins
<1>4. CASE Doing(t).do \in {"bitfile", "write_cpld"}
  <2>1. Program(t)
    BY <1>4, RunIs
  <2> QED
    BY <1>1, <1>4, <2>1 DEF Program
<1>5. CASE Doing(t).do = "lookup"
  <2>1. LookUp(t)
    BY <1>5, RunIs
  <2> QED
    BY <1>5, <2>1 DEF LookUp
<1>6. CASE Doing(t).do \in EarlyKinds \cup {"end"}
  <2>1. ReturnEarly(t)
    BY <1>6, RunIs
  <2>2. Doing(t).do \in EarlyKinds => Doing(t).do \in PoolTileKinds \/ Doing(t).do = "return_if_internal_pps"
    BY DEF EarlyKinds, PoolTileKinds
  <2>3. Doing(t).do = "return_unless_programmed" => Doing(t).tile = t
    BY <1>2, <2>2 DEF EarlyKinds
  <2> QED
    BY <1>1, <1>6, <2>1, <2>3 DEF ReturnEarly, EarlyKinds
<1>7. CASE Doing(t).do \in {"start_jesd", "start_ddr", "check_ddr"}
  <2>1. Firmware_(t)
    BY <1>7, RunIs
  <2> QED
    BY <1>1, <1>7, <2>1 DEF Firmware_
<1>8. CASE Doing(t).do \in {"set_id", "initialised"}
  <2>1. SetRegisters(t)
    BY <1>8, RunIs
  <2> QED
    BY <1>8, <2>1 DEF SetRegisters
<1>9. CASE Doing(t).do = "await_pps"
  <2>1. AwaitPps(t)
    BY <1>9, RunIs
  <2> QED
    BY <1>9, <2>1 DEF AwaitPps
<1>10. CASE Doing(t).do \in {"read_utc", "read_clock", "set_clock", "sampling"}
  <2>1. ReadClock(t) \/ SetClock(t) \/ SetSampling(t)
    BY <1>10, RunIs
  <2> QED
    BY <1>10, <2>1 DEF ReadClock, SetClock, SetSampling
<1>11. CASE Doing(t).do = "compare_two"
  <2>1. Compare(t) /\ IsAt(t, "compare_two") /\ ~IsAt(t, "compare_delays") /\ ~IsAt(t, "compare_all")
    BY <1>1, <1>11, RunIs
  <2> QED
    BY <1>11, <2>1 DEF Compare
<1>12. \/ Doing(t).do \in {"needs", "needs_board"}
       \/ Doing(t).do \in {"bitfile", "write_cpld"}
       \/ Doing(t).do = "lookup"
       \/ Doing(t).do \in EarlyKinds \cup {"end"}
       \/ Doing(t).do \in {"start_jesd", "start_ddr", "check_ddr"}
       \/ Doing(t).do \in {"set_id", "initialised"}
       \/ Doing(t).do = "await_pps"
       \/ Doing(t).do \in {"read_utc", "read_clock", "set_clock", "sampling"}
       \/ Doing(t).do = "compare_two"
  <2> DEFINE d == Doing(t).do
  <2>1. d \notin {"instance", "connect", "download"} /\ d \in PoolPlainKinds \cup PoolTileKinds \cup PoolFpgaKinds
    BY <1>2
  <2> HIDE DEF d
  <2>2. \/ d \in {"needs", "needs_board"}
        \/ d \in {"bitfile", "write_cpld"}
        \/ d = "lookup"
        \/ d \in EarlyKinds \cup {"end"}
        \/ d \in {"start_jesd", "start_ddr", "check_ddr"}
        \/ d \in {"set_id", "initialised"}
        \/ d = "await_pps"
        \/ d \in {"read_utc", "read_clock", "set_clock", "sampling"}
        \/ d = "compare_two"
    BY <2>1 DEF PoolPlainKinds, PoolTileKinds, PoolFpgaKinds, EarlyKinds
  <2> QED
    BY <2>2 DEF d
<1> QED
  BY <1>3, <1>4, <1>5, <1>6, <1>7, <1>8, <1>9, <1>10, <1>11, <1>12

LEMMA PreparedOfProcess ==
  ASSUME Types, Control, Current, NEW t \in Tiles, Run(t), Prepared(t), ~config.pps_delay_far
  PROVE  Prepared(t)'
<1> DEFINE d == Doing(t).do
<1>1. steps[t] # <<>> /\ (\A do : IsAt(t, do) <=> d = do)
  BY PoolRun DEF IsAt
<1>2. /\ d \in PoolPlainKinds \cup PoolTileKinds \cup PoolFpgaKinds
      /\ d \in PoolTileKinds => Doing(t).tile = t
      /\ d \in PoolFpgaKinds => Doing(t).fpga \in FpgasOf(t)
      /\ Doing(t) \in BringUpStep /\ steps[t] \in Seq(BringUpStep) /\ Doing(t) = Head(steps[t])
      /\ result[t] = "running"
  BY <1>1, PoolDoing DEF Doing
<1>3. d # "download"
  <2>1. Initialising(steps[t])
    BY <1>2 DEF Prepared
  <2> QED
    BY <1>1, <1>2, <2>1, InitialisingGoesOn
<1>4. CASE d \in {"instance", "connect"}
  BY <1>4, PreparedObject
<1>5. CASE d \notin {"instance", "connect"}
  <2>1. Object(t)' = Object(t)
    <3>1. ~ConnectBoard(t)
      BY <1>5, DoesWhat
    <3> QED
      BY <3>1, OnlyThen DEF Object
  <2>2. /\ programmed' = programmed
        /\ initialised[t] \/ d = "initialised" => initialised'[t]
    <3>1. CASE Program(t)
      <4>1. UNCHANGED <<programmed, initialised>>
        BY <1>1, <1>3, <3>1 DEF Program
      <4>2. d # "initialised"
        BY <3>1, DoesWhat
      <4> QED
        BY <4>1, <4>2
    <3>2. CASE SetRegisters(t)
      <4>1. initialised \in [Tiles -> BOOLEAN]
        BY DEF Types, BringUpTypeOK
      <4>2. d = "initialised" => Doing(t).tile = t
        BY <1>2 DEF PoolTileKinds
      <4>3. programmed' = programmed
            /\ (initialised' = initialised \/ initialised' = [initialised EXCEPT ![Doing(t).tile] = TRUE])
            /\ (d = "initialised" => initialised' = [initialised EXCEPT ![Doing(t).tile] = TRUE])
        BY <1>1, <3>2 DEF SetRegisters
      <4> QED
        BY <4>1, <4>2, <4>3
    <3>3. CASE programmed' = programmed /\ initialised' = initialised /\ d # "initialised"
      BY <3>3
    <3>4. d = "initialised" => SetRegisters(t)
      BY RunIs
    <3> QED
      BY <3>1, <3>2, <3>3, <3>4, OnlyThen
  <2>3. ASSUME NEW f \in FpgasOf(t), slips = 0, clock[f] = 0 \/ Doing(t) \in SetOf(f)
        PROVE  clock'[f] = 0
    <3>1. f \in Fpgas /\ clock \in [Fpgas -> Int]
      BY FpgasOfTile DEF Types, BringUpTypeOK
    <3>2. CASE d = "set_clock"
      <4>1. SetClock(t)
        BY <3>2, RunIs
      <4>2. PICK time \in held[t] : clock' = [clock EXCEPT ![Doing(t).fpga] = time]
        BY <4>1 DEF SetClock
      <4>3. ~Waits(t)
        BY <1>1, <3>2 DEF Waits
      <4>4. time = 0
        BY <2>3, <4>2, <4>3 DEF Current
      <4>5. Doing(t) \in SetOf(f) => Doing(t).fpga = f
        BY DEF SetOf, OfFpga
      <4> QED
        BY <2>3, <3>1, <4>2, <4>4, <4>5
    <3>3. CASE d # "set_clock"
      <4>1. Doing(t) \notin SetOf(f)
        BY <3>3 DEF SetOf, OfFpga
      <4>2. clock' = clock
        BY <3>3, DoesWhat, OnlyThen
      <4> QED
        BY <2>3, <4>1, <4>2
    <3> QED
      BY <3>2, <3>3
  <2>4. slips' = slips /\ (Connecting(steps[Caller])' => Connecting(steps[Caller]))
    <3>1. PICK q : \E r : Moves(t, q, r)
      BY PoolRun
    <3> QED
      BY <3>1, PoolMoved
  <2>5. ASSUME NEW a \in Seq(Kinds(SyncKinds)), a # <<>> => d = "compare_two",
               steps'[t] = a \o Tail(steps[t]), result'[t] = ResultOf(a \o Tail(steps[t])),
               d = "needs" => Object(t).on /\ Doing(t).names \subseteq Object(t).plugins,
               d = "return_unless_programmed" => programmed[t]
        PROVE  Prepared(t)'
    BY <1>1, <1>5, <2>1, <2>2, <2>3, <2>4, <2>5, PreparedStep
  <2>6. CASE /\ GoesOn(t)
             /\ d = "needs" => Object(t).on /\ Doing(t).names \subseteq Object(t).plugins
             /\ d = "return_unless_programmed" => programmed[t]
    BY <2>5, <2>6, PoolWent
  <2>7. CASE Raises(t) \/ (LookUp(t) /\ ~GoesOn(t))
    BY <2>7, PreparedFailed, Zenon
  <2>8. CASE /\ Returns(t) /\ d \in {"return_unless_programmed", "return_if_internal_pps"}
             /\ d = "return_unless_programmed" => ~programmed[t]
    BY <2>8, PreparedEarly
  <2>9. CASE /\ IsAt(t, "compare_two") /\ d = "compare_two"
             /\ \E equal \in BOOLEAN : Proceeds(t, AfterTwoCompared(equal, Doing(t).tile, Doing(t).attempt))
    <3>1. PICK equal \in BOOLEAN : Proceeds(t, AfterTwoCompared(equal, Doing(t).tile, Doing(t).attempt))
      BY <2>9
    <3> DEFINE a == AfterTwoCompared(equal, Doing(t).tile, Doing(t).attempt)
    <3>2. a \in Seq(PoolSteps(t)) /\ ~Comes(a, Kinds(EarlyKinds)) /\ a \in Seq(Of(t, SyncKinds))
      BY <2>9, TwoCompared
    <3>3. Proceeds(t, a)
      BY <3>1
    <3> HIDE DEF a
    <3>4. Moves(t, a \o Tail(steps[t]), ResultOf(a \o Tail(steps[t])))
      BY <1>1, <3>2, <3>3, PoolProceeds
    <3>5. steps'[t] = a \o Tail(steps[t]) /\ result'[t] = ResultOf(a \o Tail(steps[t]))
      BY <3>4, PoolMoved
    <3>6. a \in Seq(Kinds(SyncKinds))
      BY <3>2, PoolSequence
    <3> QED
      BY <2>5, <2>9, <3>5, <3>6
  <2> QED
    BY <1>3, <1>5, <2>6, <2>7, <2>8, <2>9, PoolMoves
<1> QED
  BY <1>4, <1>5

LEMMA PreparedInPool ==
  ASSUME Types, Control, Current, TilesPrepared, ~config.pps_delay_far, NEW t \in Tiles, Run(t)
  PROVE  TilesPrepared'
<1>1. PICK q : \E r : Moves(t, q, r)
  BY PoolRun
<1>2. /\ \A u \in Tiles \ {t} : steps'[u] = steps[u] /\ result'[u] = result[u]
      /\ steps'[Caller] = steps[Caller]
      /\ Connecting(steps[Caller])' <=> Connecting(steps[Caller])
      /\ config' = config /\ slips' = slips /\ outcome' = outcome /\ properly_formed' = properly_formed
  BY <1>1, PoolMoved
<1> SUFFICES ASSUME \A u \in Tiles : Prepared(u), NEW u \in Tiles
             PROVE  Prepared(u)'
  BY <1>2 DEF TilesPrepared
<1>3. CASE u = t
  BY <1>3, PreparedOfProcess
<1>4. CASE u # t
  <2>1. /\ Object(u)' = Object(u) /\ programmed'[u] = programmed[u] /\ initialised'[u] = initialised[u]
        /\ \A f \in FpgasOf(u) : clock'[f] = clock[f]
    BY <1>4, PoolFrame
  <2>2. slips \in Nat /\ slips' \in Nat /\ slips' >= slips
    BY <1>2 DEF Types, BringUpTypeOK
  <2> QED
    BY <1>2, <1>4, <2>1, <2>2, PreparedSame
<1> QED
  BY <1>3, <1>4

LEMMA CurrentInPool ==
  ASSUME Types, Control, Current, NEW t \in Tiles, Run(t)
  PROVE  Current'
<1>1. PICK q : \E r : Moves(t, q, r)
  BY PoolRun
<1>2. /\ \A u \in Tiles \ {t} : steps'[u] = steps[u] /\ slips' = slips
  BY <1>1, PoolMoved
<1>3. slips' = slips
  BY OnlyThen
<1> SUFFICES ASSUME slips = 0, NEW u \in Tiles
             PROVE  Waits(u)' \/ held'[u] \subseteq {0}
  BY <1>3 DEF Current
<1>4. CASE u # t
  <2>1. held'[u] = held[u] /\ (Waits(u)' <=> Waits(u))
    BY <1>2, <1>4, PoolFrame DEF Waits, IsAt, Doing
  <2> QED
    BY <2>1 DEF Current
<1>5. CASE u = t
  <2>1. held \in [Processes -> SUBSET Int] /\ t \in Processes
    BY CallerOrTile DEF Types, BringUpTypeOK
  <2>2. CASE AwaitPps(t)
    <3>1. held' = [held EXCEPT ![t] = {}]
      BY <2>2 DEF AwaitPps
    <3> QED
      BY <1>5, <2>1, <3>1
  <2>3. CASE held' = held /\ ~AwaitPps(t)
    <3>1. ~Waits(t)
      <4>1. ~IsAt(t, "await_started")
        BY PoolDoesNot
      <4>2. ~IsAt(t, "await_pps")
        BY <2>3, RunIs DEF IsAt
      <4> QED
        BY <4>1, <4>2 DEF Waits
    <3> QED
      BY <1>5, <2>3, <3>1 DEF Current
  <2>4. CASE ReadClock(t) /\ held' # held
    <3>1. held' = [held EXCEPT ![t] = {0}]
      <4>1. ~IsAt(t, "hold_clock")
        BY PoolDoesNot
      <4> QED
        BY <2>4, <4>1 DEF ReadClock
    <3> QED
      BY <1>5, <2>1, <3>1
  <2>5. CASE Compare(t)
    <3>1. held' = [held EXCEPT ![t] = {}]
      <4>1. \/ IsAt(t, "compare_two") /\ held' = [held EXCEPT ![t] = {}]
            \/ IsAt(t, "compare_delays")
            \/ IsAt(t, "compare_all")
        BY <2>5 DEF Compare
      <4> QED
        BY <4>1, PoolDoesNot
    <3> QED
      BY <1>5, <2>1, <3>1
  <2>6. ~CheckStart(t)
    BY PoolDoesNot DEF CheckStart
  <2> QED
    BY <2>2, <2>3, <2>4, <2>5, <2>6, OnlyThen
<1> QED
  BY <1>4, <1>5

LEMMA PreparedPps ==
  ASSUME Types, TilesPrepared, Pps
  PROVE  TilesPrepared'
<1>1. UNCHANGED <<config, steps, result, tpm, programmed, initialised, clock, properly_formed, outcome>>
  BY DEF Pps, given, control, station, tile_state
<1>2. slips \in Nat /\ slips' \in Nat /\ slips' >= slips
  BY DEF Types, BringUpTypeOK, Pps
<1>3. Connecting(steps[Caller])' <=> Connecting(steps[Caller])
  BY <1>1, FormSame
<1>4. ASSUME NEW u \in Tiles, Prepared(u)
      PROVE  Prepared(u)'
  <2>1. Object(u)' = Object(u)
    BY <1>1 DEF Object
  <2> QED
    BY <1>1, <1>2, <1>3, <1>4, <2>1, PreparedSame
<1> QED
  BY <1>1, <1>4 DEF TilesPrepared

LEMMA CurrentPps ==
  ASSUME Types, Current, Pps
  PROVE  Current'
<1> SUFFICES ASSUME slips' = 0, NEW u \in Tiles
             PROVE  Waits(u)' \/ held'[u] \subseteq {0}
  BY DEF Current
<1>1. slips = 0 /\ \A p \in Processes : ~Counts(p)
  <2>1. slips \in Nat
    BY DEF Types, BringUpTypeOK
  <2> QED
    BY <2>1 DEF Pps
<1>2. Waits(u)' <=> Waits(u)
  BY DEF Pps, control, Waits, IsAt, Doing
<1>3. u \in Processes
  BY CallerOrTile
<1>4. CASE ~Waits(u)
  <2>1. held[u] = {}
    BY <1>1, <1>3, <1>4 DEF Counts
  <2>2. held'[u] = {Lasting(time) : time \in held[u]}
    BY <1>3 DEF Pps
  <2> QED
    BY <2>1, <2>2
<1> QED
  BY <1>2, <1>4

LEMMA CurrentCaller ==
  ASSUME Types, Control, Current, Run(Caller)
  PROVE  Current'
<1>1. \A t \in Tiles : steps[t] = <<>>
  BY CallerAlone
<1>2. slips' = slips
  BY OnlyThen
<1> SUFFICES ASSUME slips = 0, NEW u \in Tiles
             PROVE  held'[u] \subseteq {0}
  BY <1>2 DEF Current
<1>3. held[u] \subseteq {0}
  <2>1. ~Waits(u)
    BY <1>1 DEF Waits, IsAt
  <2> QED
    BY <2>1 DEF Current
<1>4. held' = held \/ \E h : held' = [held EXCEPT ![Caller] = h]
  <2>1. AwaitPps(Caller) \/ ReadClock(Caller) \/ CheckStart(Caller) =>
          held' = held \/ \E h : held' = [held EXCEPT ![Caller] = h]
    BY DEF AwaitPps, ReadClock, CheckStart
  <2>2. Compare(Caller) => held' = held \/ \E h : held' = [held EXCEPT ![Caller] = h]
    <3>1. Compare(Caller) =>
            \/ held' = [held EXCEPT ![Caller] = {}]
            \/ UNCHANGED held
            \/ \E equal \in BOOLEAN : held' = [held EXCEPT ![Caller] = IF equal THEN {} ELSE @]
      BY DEF Compare
    <3> QED
      BY <3>1
  <2> QED
    BY <2>1, <2>2, OnlyThen
<1>5. held \in [Processes -> SUBSET Int] /\ u \in Processes /\ u # Caller
  BY CallerOrTile DEF Types, BringUpTypeOK
<1> QED
  BY <1>3, <1>4, <1>5

LEMMA PreparedInConnecting ==
  ASSUME Types, Control, TilesPrepared, Run(Caller), Connecting(steps[Caller])
  PROVE  TilesPrepared'
<1> DEFINE s == steps[Caller]
<1> DEFINE x == Doing(Caller)
<1> DEFINE r == Tail(s)
<1>1. s # <<>> /\ s \in Seq(BringUpStep) /\ r \in Seq(BringUpStep) /\ x = Head(s) /\ x \in BringUpStep
      /\ Caller \in DOMAIN steps /\ outcome = "none"
  <2>1. s # <<>>
    BY CallerAlone
  <2> QED
    BY <2>1, CallerDoing, CallerOrTile DEF Control
<1>2. config' = config /\ slips' = slips /\ slips \in Nat
  BY OnlyThen DEF Types, BringUpTypeOK
<1>3. /\ x.do = "form" => r = <<>>
      /\ x.do # "form" => Connecting(r)
      /\ x.do = "map" => Head(r) = Step("join")
  BY <1>1, ConnectingGoesOn
<1>4. \A u \in Tiles : u # Caller /\ u \in Processes
  BY CallerOrTile
<1>5. \A X : Comes(s, X) <=> x \in X \/ Comes(r, X)
  BY <1>1, ComesInTail
<1>6. \A do, kind : x.do = do /\ do # "map" => x \notin MapOf(kind)
  BY DEF MapOf
<1>7. UNCHANGED <<programmed, initialised, clock>> /\ \A u \in Tiles : Object(u)' = Object(u)
  <2>1. CASE ConnectBoard(Caller)
    <3>1. PICK o : tpm' = [tpm EXCEPT ![<<Caller, x.tile>>] = o]
      BY <2>1 DEF ConnectBoard
    <3>2. \A u \in Tiles : <<u, u>> \in DOMAIN tpm /\ <<u, u>> # <<Caller, x.tile>>
      BY <1>4 DEF Types, BringUpTypeOK, Tpms
    <3> QED
      BY <2>1, <3>1, <3>2 DEF ConnectBoard, tile_state, clocks, Object
  <2>2. CASE Map \/ Join \/ Branch
    BY <2>2 DEF Map, Join, Branch, tile_state, clocks, Object
  <2> QED
    BY <2>1, <2>2, ConnectingMoves
<1> SUFFICES ASSUME config.initialise, properly_formed', outcome' \in {"none", "returned"},
                    ~Comes(steps'[Caller], MapOf("initialise")), NEW u \in Tiles
             PROVE  Prepared(u)'
  BY <1>2 DEF TilesPrepared
\* nothing but the station's own program goes on
<1>8. ASSUME properly_formed, ~Comes(s, MapOf("initialise")), steps'[u] = steps[u], result'[u] = result[u],
             Connecting(steps[Caller])' => Connecting(steps[Caller]),
             \/ result[u] \in {"running", "ok"}
             \/ Comes(steps[Caller], Kinds({"join"})) => Comes(steps'[Caller], Kinds({"join"}))
      PROVE  Prepared(u)'
  <2>1. Prepared(u)
    BY <1>1, <1>8 DEF TilesPrepared
  <2>2. slips' >= slips /\ slips' \in Nat
    BY <1>2
  <2> QED
    BY <1>2, <1>7, <1>8, <2>1, <2>2, PreparedSame
<1>9. ~Raises(Caller)
  BY DEF Raises, Ends
<1>10. CASE IsAt(Caller, "connect") /\ ConnectBoard(Caller) /\ GoesOn(Caller)
  <2>1. x.do = "connect" /\ properly_formed' = properly_formed
    BY <1>10 DEF IsAt, ConnectBoard
  <2>2. steps' = [steps EXCEPT ![Caller] = r] /\ result' = result
    BY <1>1, <1>10, CallerProceeds
  <2>3. steps'[Caller] = r /\ steps'[u] = steps[u]
    BY <1>1, <1>4, <2>2
  <2>4. x \notin MapOf("initialise") /\ x \notin Kinds({"join"})
    BY <1>6, <2>1 DEF Kinds
  <2> QED
    BY <1>5, <1>8, <2>1, <2>2, <2>3, <2>4
<1>11. CASE IsAt(Caller, "join") /\ Join
  <2>1. x.do = "join" /\ GoesOn(Caller) /\ properly_formed /\ AllResults
    BY <1>9, <1>11 DEF IsAt, Join
  <2>2. steps' = [steps EXCEPT ![Caller] = r] /\ result' = result
    BY <1>1, <2>1, CallerProceeds
  <2>3. steps'[Caller] = r /\ steps'[u] = steps[u]
    BY <1>1, <1>4, <2>2
  <2>4. x \notin MapOf("initialise")
    BY <1>6, <2>1
  <2>5. result[u] = "ok"
    BY <2>1 DEF AllResults
  <2> QED
    BY <1>5, <1>8, <2>1, <2>2, <2>3, <2>4, <2>5
<1>12. CASE IsAt(Caller, "form") /\ Branch
  <2>1. x.do = "form" /\ properly_formed' = properly_formed /\ Proceeds(Caller, AfterConnected)
    BY <1>12 DEF IsAt, Branch
  <2>2. steps' = [steps EXCEPT ![Caller] = AfterConnected \o r] /\ result' = result
    BY <1>1, <2>1, CallerProceeds
  <2>3. steps'[u] = steps[u] /\ result'[u] = result[u]
    BY <1>1, <1>4, <2>2
  <2>4. x \notin MapOf("initialise") /\ x \notin Kinds({"join"}) /\ \A X : ~Comes(r, X)
    <3>1. r = <<>> /\ x \notin MapOf("initialise") /\ x \notin Kinds({"join"})
      BY <1>3, <1>6, <2>1 DEF Kinds
    <3>2. \A X : ~Comes(<<>>, X)
      BY DEF Comes
    <3> QED
      BY <3>1, <3>2
  <2> QED
    BY <1>5, <1>8, <2>1, <2>3, <2>4
<1>13. CASE IsAt(Caller, "map") /\ Map
  <2>1. x.do = "map" /\ properly_formed /\ properly_formed' = properly_formed
    <3>1. properly_formed' = properly_formed
      BY <1>13 DEF Map
    <3> QED
      BY <1>13, <3>1 DEF IsAt
  <2> DEFINE kind == x.of
  <2>2. kind \in {"program_cpld", "program", "initialise"} /\ x \in MapOf(kind)
    BY <1>1, <2>1, MapOfStep
  <2>3. /\ steps' = [p \in Processes |-> IF p = Caller THEN r ELSE PoolProgram(kind, p)]
        /\ result' = [t \in Tiles |-> "running"]
    BY <1>9, <1>13, <2>1 DEF Map
  <2>4. steps'[Caller] = r /\ steps'[u] = PoolProgram(kind, u) /\ result'[u] = "running"
    BY <1>4, <2>3, CallerOrTile
  <2>5. kind = "initialise"
    <3>1. ASSUME kind # "initialise" PROVE FALSE
      <4>1. x \in OtherMaps
        BY <1>1, <2>1, <3>1 DEF OtherMaps, Kinds, MapOf
      <4>2. Leads(s, OtherMaps, MapOf("initialise"))
        BY DEF Connecting
      <4>3. Comes(r, MapOf("initialise"))
        BY <1>1, <4>1, <4>2, LeadsInTail
      <4> QED
        BY <2>4, <4>3
    <3> QED
      BY <3>1
  <2> DEFINE q == PoolProgram(kind, u)
  <2>6. ToInitialise(q, u)
    BY <2>5, PoolPrograms
  <2> HIDE DEF q
  <2>7. steps'[u] = q
    BY <2>4 DEF q
  <2>8. Initialising(steps[u])' /\ Objects(u)'
    BY <2>6, <2>7 DEF ToInitialise, Initialising, Objects
  <2>9. Going(u)'
    BY <2>6, <2>7 DEF ToInitialise, Going, InTime
  <2> QED
    BY <2>4, <2>8, <2>9 DEF Prepared
<1> QED
  BY <1>10, <1>11, <1>12, <1>13, ConnectingMoves

LEMMA FormationStays ==
  ASSUME Types, Control, Run(Caller), Formation(steps[Caller])
  PROVE  /\ Formation(steps[Caller])' /\ ~Connecting(steps[Caller])' /\ result' = result
         /\ \A u \in Tiles : steps'[u] = steps[u]
<1>1. steps[Caller] # <<>> /\ Caller \in DOMAIN steps /\ Tail(steps[Caller]) \in Seq(BringUpStep)
      /\ \A u \in Tiles : u # Caller /\ u \in DOMAIN steps
  <2>1. steps[Caller] # <<>>
    BY CallerAlone
  <2> QED
    BY <2>1, CallerDoing, CallerOrTile DEF Control
<1>2. config' = config
  BY OnlyThen
<1>3. ASSUME NEW q, steps' = [steps EXCEPT ![Caller] = q], Formation(q), result' = result
      PROVE  /\ Formation(steps[Caller])' /\ ~Connecting(steps[Caller])' /\ result' = result
             /\ \A u \in Tiles : steps'[u] = steps[u]
  <2>1. steps'[Caller] = q /\ \A u \in Tiles : steps'[u] = steps[u]
    BY <1>1, <1>3
  <2>2. ~Connecting(q)
    BY <1>3, FormationOrNot
  <2>3. Formation(steps[Caller])' /\ ~Connecting(steps[Caller])'
    BY <1>2, <1>3, <2>1, <2>2 DEF Formation, Connecting
  <2> QED
    BY <1>3, <2>1, <2>3
<1>4. Formation(<<>>) /\ Formation(Tail(steps[Caller]))
  BY <1>1, FormationGoesOn
<1>5. CASE GoesOn(Caller)
  BY <1>1, <1>3, <1>4, <1>5, CallerProceeds
<1>6. CASE Raises(Caller) \/ Ends(Caller, "exit")
  BY <1>1, <1>3, <1>4, <1>6, CallerProceeds
<1>7. CASE (IsAt(Caller, "compare_delays") \/ IsAt(Caller, "compare_all")) /\ Compare(Caller)
  <2>1. PICK more :
          /\ Proceeds(Caller, more)
          /\ \/ /\ IsAt(Caller, "compare_delays")
                /\ \E synced \in BOOLEAN : more = AfterDelaysCompared(synced, delay[1], Doing(Caller).attempt)
             \/ /\ IsAt(Caller, "compare_all")
                /\ \E equal \in BOOLEAN : more = AfterAllCompared(equal, Doing(Caller).attempt)
    BY <1>7 DEF Compare, IsAt
  <2> DEFINE q == more \o Tail(steps[Caller])
  <2>2. Formation(q)
    BY <2>1, ComparedGoesOn
  <2>3. steps' = [steps EXCEPT ![Caller] = q] /\ result' = result
    BY <1>1, <2>1, CallerProceeds
  <2> HIDE DEF q
  <2> QED
    BY <1>3, <2>2, <2>3
<1> QED
  BY <1>5, <1>6, <1>7, FormingMoves

LEMMA PreparedInForming ==
  ASSUME Types, Control, TilesPrepared, Run(Caller), Formation(steps[Caller])
  PROVE  TilesPrepared'
<1>1. config' = config /\ slips' = slips /\ slips \in Nat
  BY OnlyThen DEF Types, BringUpTypeOK
<1> SUFFICES ASSUME config.initialise, properly_formed', outcome' \in {"none", "returned"}, NEW u \in Tiles
             PROVE  Prepared(u)'
  BY <1>1 DEF TilesPrepared
<1>2. /\ steps[Caller] \in Seq(Kinds(FormKinds)) /\ outcome = "none" /\ properly_formed' = properly_formed
      /\ Doing(Caller).do \in FormKinds
  BY FormingIs
<1>3. ~Comes(steps[Caller], Kinds({"join"})) /\ ~Comes(steps[Caller], MapOf("initialise"))
  <2>1. FormKinds \cap {"join"} = {} /\ FormKinds \cap {"map"} = {}
    BY DEF FormKinds
  <2>2. ~Comes(steps[Caller], Kinds({"join"})) /\ ~Comes(steps[Caller], Kinds({"map"}))
    BY <1>2, <2>1, NoSuchKind
  <2>3. MapOf("initialise") \subseteq Kinds({"map"})
    BY StepSets
  <2> QED
    BY <2>2, <2>3, ComesMore
<1>4. Prepared(u)
  BY <1>2, <1>3 DEF TilesPrepared
<1>5. result[u] \in {"running", "ok"}
  BY <1>3, <1>4 DEF Prepared
<1>6. ~Connecting(steps[Caller])' /\ result' = result /\ steps'[u] = steps[u]
  BY FormationStays
<1>7. UNCHANGED <<programmed, initialised>> /\ Object(u)' = Object(u)
  <2>1. ~ConnectBoard(Caller) /\ ~Program(Caller) /\ ~SetRegisters(Caller)
    BY <1>2, DoesWhat DEF FormKinds
  <2> QED
    BY <2>1, OnlyThen DEF Object
<1> QED
  BY <1>1, <1>4, <1>5, <1>6, <1>7, PreparedSame

LEMMA PreparedNext ==
  ASSUME Types, Control, Current, TilesPrepared, ~config.pps_delay_far, NEW p \in Processes, Run(p)
  PROVE  TilesPrepared' /\ Current'
<1>1. CASE p = Caller
  <2>1. Connecting(steps[Caller]) \/ Formation(steps[Caller])
    BY DEF Control
  <2> QED
    BY <1>1, <2>1, PreparedInForming, PreparedInConnecting, CurrentCaller
<1>2. CASE p \in Tiles
  BY <1>2, PreparedInPool, CurrentInPool
<1> QED
  BY <1>1, <1>2, CallerOrTile

LEMMA PreparedAtLast == ASSUME Types, Control, TilesPrepared PROVE FormedIsInitialised
<1> SUFFICES ASSUME Formed, config.initialise, NEW t \in Tiles
             PROVE  programmed[t] /\ initialised[t]
  BY DEF FormedIsInitialised
<1>1. steps[Caller] = <<>>
  BY DEF Formed, Control
<1>2. \A X : ~Comes(<<>>, X)
  BY DEF Comes
<1>3. Prepared(t)
  BY <1>1, <1>2 DEF TilesPrepared, Formed
<1>4. steps[t] = <<>>
  BY <1>1 DEF Control, IsAt
<1>5. result[t] # "running"
  BY <1>4 DEF Control
<1>6. result[t] = "ok"
  BY <1>1, <1>2, <1>3, <1>5 DEF Prepared
<1> QED
  BY <1>2, <1>3, <1>4, <1>6 DEF Prepared, Going

LEMMA PreparedAtFirst == BringUpInit => TilesPrepared /\ Current
<1> SUFFICES ASSUME BringUpInit PROVE TilesPrepared /\ Current
  OBVIOUS
<1>1. steps[Caller] = connect
  BY CallerOrTile DEF BringUpInit
<1>2. TilesPrepared
  BY <1>1, ConnectProgram DEF TilesPrepared
<1>3. Current
  BY CallerOrTile DEF BringUpInit, Current
<1> QED
  BY <1>2, <1>3
-----------------------------------------------------------------------------
(* The clocks                                                               *)

LEMMA LeadsTo ==
  ASSUME NEW s, NEW X, NEW Y, NEW Z, Leads(s, X, Y), Z \subseteq X, Comes(s, Z)
  PROVE  Comes(s, Y)
BY DEF Leads, Comes

\* what is still to come, in the forming of a station
LEMMA OrderOf ==
  ASSUME NEW s, InOrder(s)
  PROVE  /\ Comes(s, Kinds({"hold_clock"})) => Comes(s, Kinds({"check_start"}))
         /\ Comparing(s) => Comes(s, Kinds({"hold_clock"}))
         /\ Setting(s) => Comes(s, Kinds({"hold_clock"}))
         /\ \A f \in Fpgas : Comes(s, StartOf(f)) => Comes(s, Kinds({"check_start"}))
         /\ Comes(s, Kinds({"check_start"})) => Comes(s, Kinds({"await_started"}))
<1>1. /\ Leads(s, Kinds({"await_pps", "compare_delays", "compare_all", "set_clock"}), Kinds({"hold_clock"}))
      /\ Leads(s, Kinds({"hold_clock", "start_at"}), Kinds({"check_start"}))
      /\ Leads(s, Kinds({"check_start"}), Kinds({"await_started"}))
  BY DEF InOrder
<1>2. /\ Kinds({"hold_clock"}) \subseteq Kinds({"hold_clock", "start_at"})
      /\ Kinds({"start_at"}) \subseteq Kinds({"hold_clock", "start_at"})
      /\ Kinds({"compare_all"}) \subseteq Kinds({"await_pps", "compare_delays", "compare_all", "set_clock"})
      /\ Kinds({"set_clock"}) \subseteq Kinds({"await_pps", "compare_delays", "compare_all", "set_clock"})
  BY DEF Kinds
<1>3. \A f \in Fpgas : StartOf(f) \subseteq Kinds({"start_at"})
  BY StepSets
<1>4. Comes(s, Kinds({"hold_clock"})) => Comes(s, Kinds({"check_start"}))
  BY <1>1, <1>2, LeadsTo
<1>5. (Comparing(s) \/ Setting(s)) => Comes(s, Kinds({"hold_clock"}))
  BY <1>1, <1>2, LeadsTo DEF Comparing, Setting
<1>6. \A f \in Fpgas : Comes(s, StartOf(f)) => Comes(s, Kinds({"check_start"}))
  <2> TAKE f \in Fpgas
  <2>1. StartOf(f) \subseteq Kinds({"hold_clock", "start_at"})
    BY <1>2, <1>3
  <2> QED
    BY <1>1, <2>1, LeadsTo
<1>7. Comes(s, Kinds({"check_start"})) => Comes(s, Kinds({"await_started"}))
  BY <1>1, LeadsTo
<1> QED
  BY <1>4, <1>5, <1>6, <1>7

\* the station, when it is being formed, and its step
LEMMA FormingDoes ==
  ASSUME Types, Control, Clocks, Starts, Forming, Run(Caller), NEW s, s = steps[Caller]
  PROVE  /\ s \in Seq(BringUpStep) /\ s # <<>> /\ Doing(Caller) = Head(s) /\ Tail(s) \in Seq(Kinds(FormKinds))
         /\ Tail(s) \in Seq(BringUpStep)
         /\ InOrder(s) /\ InOrder(Tail(s)) /\ HeadInOrder(Doing(Caller), Tail(s))
         /\ Doing(Caller).do \in FormKinds /\ Doing(Caller) \in BringUpStep
         /\ \A X : Comes(s, X) <=> Doing(Caller) \in X \/ Comes(Tail(s), X)
         /\ \A D : Doing(Caller) \in Kinds(D) <=> Doing(Caller).do \in D
         /\ Awaits(s) <=> Doing(Caller).do \in {"await_pps", "await_started"}
         /\ RightTime(s, slips, clock, seen[Caller])
         /\ SameTime(s, clock, held[Caller], seen[Caller])
         /\ Announced(s, slips, clock, held[Caller], start_in, began)
         /\ Started(s, slips, ticked[Caller], start_in, began)
<1>1. Formation(steps[Caller]) /\ config.initialise
  BY DEF Forming
<1>2. /\ s \in Seq(BringUpStep) /\ s # <<>> /\ Doing(Caller) = Head(s) /\ Tail(s) \in Seq(Kinds(FormKinds))
      /\ Tail(s) \in Seq(BringUpStep)
      /\ InOrder(s) /\ InOrder(Tail(s)) /\ HeadInOrder(Doing(Caller), Tail(s))
      /\ Doing(Caller).do \in FormKinds /\ Doing(Caller) \in BringUpStep
  BY <1>1, FormingIs
<1>3. \A X : Comes(s, X) <=> Doing(Caller) \in X \/ Comes(Tail(s), X)
  BY <1>2, ComesInTail
<1>4. \A D : Doing(Caller) \in Kinds(D) <=> Doing(Caller).do \in D
  BY <1>2 DEF Kinds
<1>5. Awaits(s) <=> Doing(Caller).do \in {"await_pps", "await_started"}
  BY <1>2 DEF Awaits
<1>6. /\ RightTime(s, slips, clock, seen[Caller]) /\ SameTime(s, clock, held[Caller], seen[Caller])
      /\ Announced(s, slips, clock, held[Caller], start_in, began)
      /\ Started(s, slips, ticked[Caller], start_in, began)
  BY DEF Clocks, Starts
<1> QED
  BY <1>2, <1>3, <1>4, <1>5, <1>6

\* As long as the time of the start is still to be read, nothing of it is told.
LEMMA TooEarly ==
  ASSUME NEW s, Comes(s, Kinds({"hold_clock"})), Comes(s, Kinds({"check_start"}))
  PROVE  \A n, c, h, starts, ago : Announced(s, n, c, h, starts, ago) /\ Started(s, n, h, starts, ago)
BY DEF Announced, Started

LEMMA ClocksThen ==
  ASSUME NEW q, steps'[Caller] = q,
         RightTime(q, slips', clock', seen'[Caller]), SameTime(q, clock', held'[Caller], seen'[Caller]),
         Announced(q, slips', clock', held'[Caller], start_in', began'),
         Started(q, slips', ticked'[Caller], start_in', began')
  PROVE  Clocks' /\ Starts'
BY DEF Clocks, Starts

LEMMA NotForming == ~Forming' => Clocks' /\ Starts'
BY DEF Clocks, Starts

\* The step is not the last of a station that is formed, if it raises an exception.
LEMMA FormingGoes ==
  ASSUME Types, Control, Run(Caller), Forming, Forming'
  PROVE  /\ ~Raises(Caller) /\ ~Ends(Caller, "exit")
         /\ GoesOn(Caller) => steps'[Caller] = Tail(steps[Caller])
         /\ \A more : Proceeds(Caller, more) => steps'[Caller] = more \o Tail(steps[Caller])
         /\ slips' = slips
<1>1. steps[Caller] # <<>> /\ Caller \in DOMAIN steps
  BY CallerAlone, CallerOrTile DEF Control
<1>2. outcome' \in {"none", "returned"}
  BY DEF Forming
<1>3. ~Raises(Caller) /\ ~Ends(Caller, "exit")
  BY <1>2 DEF Raises, Ends
<1>4. GoesOn(Caller) => steps' = [steps EXCEPT ![Caller] = Tail(steps[Caller])]
  BY <1>1, CallerProceeds
<1>5. \A more : Proceeds(Caller, more) => steps' = [steps EXCEPT ![Caller] = more \o Tail(steps[Caller])]
  BY <1>1, CallerProceeds
<1>6. slips' = slips
  BY OnlyThen
<1> QED
  BY <1>1, <1>3, <1>4, <1>5, <1>6

\* a step with no clock
LEMMA ClocksOther ==
  ASSUME Types, Control, Clocks, Starts, Run(Caller), Forming, Forming',
         Doing(Caller).do \in {"needs", "sampling", "check_arp", "needs_programmed"}
  PROVE  Clocks' /\ Starts'
<1> DEFINE s == steps[Caller]
<1> DEFINE x == Doing(Caller)
<1> DEFINE r == Tail(s)
<1>1. /\ \A X : Comes(s, X) <=> x \in X \/ Comes(r, X)
      /\ \A D : x \in Kinds(D) <=> x.do \in D
      /\ Awaits(s) <=> x.do \in {"await_pps", "await_started"}
      /\ RightTime(s, slips, clock, seen[Caller])
      /\ SameTime(s, clock, held[Caller], seen[Caller])
      /\ Announced(s, slips, clock, held[Caller], start_in, began)
      /\ Started(s, slips, ticked[Caller], start_in, began)
  BY FormingDoes
<1>2. GoesOn(Caller) /\ UNCHANGED <<clock, start_in, began, held, seen, ticked>>
  <2>1. CASE x.do = "sampling"
    <3>1. SetSampling(Caller)
      BY <2>1, RunIs
    <3> QED
      BY <3>1, FormingGoes DEF SetSampling, clocks, times
  <2>2. CASE x.do \in {"needs", "needs_programmed"}
    <3>1. NeedsPlugins(Caller)
      BY <2>2, RunIs
    <3>2. GoesOn(Caller) \/ Raises(Caller)
      BY <3>1 DEF NeedsPlugins
    <3> QED
      BY <3>1, <3>2, FormingGoes DEF NeedsPlugins, clocks, times
  <2>3. CASE x.do = "check_arp"
    <3>1. Firmware_(Caller)
      BY <2>3, RunIs
    <3> QED
      BY <3>1, FormingGoes DEF Firmware_, clocks, times
  <2> QED
    BY <2>1, <2>2, <2>3
<1>3. steps'[Caller] = r /\ slips' = slips
  BY <1>2, FormingGoes
<1>4. x.do \in {"needs", "sampling", "check_arp", "needs_programmed"}
  OBVIOUS
<1> HIDE DEF r, s, x
<1>5. /\ \A D : D \in {{"compare_all"}, {"set_clock"}, {"hold_clock"}, {"check_start"}, {"await_started"}} =>
           (Comes(s, Kinds(D)) <=> Comes(r, Kinds(D)))
      /\ ~Awaits(s)
  BY <1>1, <1>4
<1>6. \A f \in Fpgas : /\ Comes(s, ReadOf(f)) <=> Comes(r, ReadOf(f))
                       /\ Comes(s, SetOf(f)) <=> Comes(r, SetOf(f))
                       /\ Comes(s, StartOf(f)) <=> Comes(r, StartOf(f))
  <2> TAKE f \in Fpgas
  <2>1. x \notin ReadOf(f) /\ x \notin SetOf(f) /\ x \notin StartOf(f)
    BY <1>4 DEF ReadOf, SetOf, StartOf, OfFpga
  <2> QED
    BY <1>1, <2>1
<1>7. <<1, 1>> \in Fpgas
  BY CallerOrTile
<1>8. (Comparing(s) <=> Comparing(r)) /\ (Setting(s) <=> Setting(r))
  BY <1>5 DEF Comparing, Setting
<1>9. RightTime(r, slips, clock, seen[Caller])
  BY <1>1, <1>5, <1>8 DEF RightTime
<1>10. SameTime(r, clock, held[Caller], seen[Caller])
  BY <1>1, <1>6, <1>7, <1>8 DEF SameTime
<1>11. Announced(r, slips, clock, held[Caller], start_in, began)
  BY <1>1, <1>5, <1>6 DEF Announced
<1>12. Started(r, slips, ticked[Caller], start_in, began)
  BY <1>1, <1>5 DEF Started
<1> QED
  BY <1>2, <1>3, <1>9, <1>10, <1>11, <1>12, ClocksThen

\* before the clocks are read
LEMMA ClocksBefore ==
  ASSUME Types, Control, Clocks, Starts, Run(Caller), Forming, Forming',
         Doing(Caller).do \in {"await_pps", "compare_delays"}
  PROVE  Clocks' /\ Starts'
<1> DEFINE s == steps[Caller]
<1> DEFINE x == Doing(Caller)
<1> DEFINE r == Tail(s)
<1>1. /\ \A X : Comes(s, X) <=> x \in X \/ Comes(r, X)
      /\ \A D : x \in Kinds(D) <=> x.do \in D
      /\ RightTime(s, slips, clock, seen[Caller])
      /\ SameTime(s, clock, held[Caller], seen[Caller])
      /\ HeadInOrder(x, r) /\ InOrder(r) /\ x \in BringUpStep /\ r \in Seq(BringUpStep)
      /\ r \in Seq(Kinds(FormKinds))
  BY FormingDoes
<1>2. \E more \in Seq(Kinds({"sampling", "await_pps", "compare_delays"})) :
        /\ steps'[Caller] = more \o r
        /\ seen'[Caller] = {}
        /\ UNCHANGED clock
  <2>1. seen \in [Processes -> SUBSET Int] /\ Caller \in Processes
    BY CallerOrTile DEF Types, BringUpTypeOK
  <2>2. CASE x.do = "await_pps"
    <3>1. AwaitPps(Caller)
      BY <2>2, RunIs
    <3>2. GoesOn(Caller) /\ seen' = [seen EXCEPT ![Caller] = {}] /\ UNCHANGED clock
      BY <3>1, FormingGoes DEF AwaitPps, clocks
    <3>3. steps'[Caller] = r
      BY <3>2, FormingGoes
    <3>4. <<>> \o r = r /\ <<>> \in Seq(Kinds({"sampling", "await_pps", "compare_delays"}))
      BY <1>1
    <3> QED
      BY <2>1, <3>2, <3>3, <3>4
  <2>3. CASE x.do = "compare_delays"
    <3>1. Compare(Caller) /\ IsAt(Caller, "compare_delays") /\ ~IsAt(Caller, "compare_two") /\ ~IsAt(Caller, "compare_all")
      BY <2>3, RunIs, CallerAlone DEF IsAt
    <3>2. PICK synced \in BOOLEAN : Proceeds(Caller, AfterDelaysCompared(synced, delay[1], x.attempt))
      BY <3>1 DEF Compare
    <3> DEFINE a == AfterDelaysCompared(synced, delay[1], x.attempt)
    <3>3. seen' = [seen EXCEPT ![Caller] = {}] /\ UNCHANGED clock
      <4>1. seen' = [seen EXCEPT ![Caller] = {}] /\ UNCHANGED clocks
        BY <3>1 DEF Compare
      <4> QED
        BY <4>1 DEF clocks
    <3>4. steps'[Caller] = a \o r
      BY <3>2, FormingGoes
    <3>5. a \in Seq(Kinds({"sampling", "await_pps", "compare_delays"}))
      <4>1. CASE synced
        <5>1. a = <<>>
          BY <4>1 DEF AfterDelaysCompared
        <5> QED
          BY <5>1
      <4>2. CASE ~synced
        <5>1. x.attempt \in Nat
          BY <1>1, <2>3, AttemptOfStep
        <5>2. x = [do |-> "compare_delays", attempt |-> x.attempt]
          <6>1. x \in [do : {"compare_delays", "compare_all"}, attempt : Nat]
            BY <1>1, <2>3 DEF BringUpStep, Plain, AboutTile, AboutFpga
          <6> QED
            BY <2>3, <6>1
        <5>3. a = AfterDelaysCompared(FALSE, delay[1], x.attempt)
          BY <4>2 DEF AfterDelaysCompared
        <5>4. delay[1] \in Int
          BY CallerOrTile DEF Types, BringUpTypeOK
        <5> QED
          BY <1>1, <5>1, <5>2, <5>3, <5>4, MoreSampling
      <4> QED
        BY <4>1, <4>2
    <3> QED
      BY <2>1, <3>3, <3>4, <3>5
  <2> QED
    BY <2>2, <2>3
<1>3. PICK a \in Seq(Kinds({"sampling", "await_pps", "compare_delays"})) :
        /\ steps'[Caller] = a \o r
        /\ seen'[Caller] = {}
        /\ UNCHANGED clock
  BY <1>2
<1> DEFINE q == a \o r
<1>4. x.do \in {"await_pps", "compare_delays"}
  OBVIOUS
<1>5. a \in Seq(BringUpStep) /\ ~Comes(a, Kinds({"compare_all"})) /\ ~Comes(a, Kinds({"set_clock"}))
  <2>1. /\ {"sampling", "await_pps", "compare_delays"} \cap {"compare_all"} = {}
        /\ {"sampling", "await_pps", "compare_delays"} \cap {"set_clock"} = {}
    OBVIOUS
  <2> QED
    BY <2>1, OfKinds
<1>6. \A X : Comes(q, X) <=> Comes(a, X) \/ Comes(r, X)
  BY <1>1, <1>5, ComesJoined
<1>7. slips' = slips
  BY OnlyThen
<1> HIDE DEF q, r, s, x
<1>8. (Comparing(q) <=> Comparing(s)) /\ ~Setting(q) /\ ~Setting(s)
  BY <1>1, <1>4, <1>5, <1>6 DEF Comparing, Setting, HeadInOrder
<1>9. /\ Comes(q, Kinds({"hold_clock"})) /\ Comes(q, Kinds({"check_start"}))
      /\ \A f \in Fpgas : Comes(q, ReadOf(f))
  <2>1. Comes(r, Kinds({"hold_clock"})) /\ \A f \in Fpgas : Comes(r, ReadOf(f))
    BY <1>1, <1>4 DEF HeadInOrder
  <2>2. Comes(r, Kinds({"check_start"}))
    BY <1>1, <2>1, OrderOf
  <2> QED
    BY <1>6, <2>1, <2>2
<1>10. steps'[Caller] = q /\ seen'[Caller] = {} /\ clock' = clock
  BY <1>3 DEF q
<1>11. RightTime(q, slips, clock, {})
  BY <1>1, <1>8 DEF RightTime
<1>12. \A h : SameTime(q, clock, h, {})
  BY <1>1, <1>8, <1>9, CallerOrTile DEF SameTime
<1> QED
  BY <1>7, <1>9, <1>10, <1>11, <1>12, TooEarly, ClocksThen

\* The clock is held that tells the start.
LEMMA ClocksHold ==
  ASSUME Types, Control, Clocks, Starts, Run(Caller), Forming, Forming', Doing(Caller).do = "hold_clock"
  PROVE  Clocks' /\ Starts'
<1> DEFINE s == steps[Caller]
<1> DEFINE x == Doing(Caller)
<1> DEFINE r == Tail(s)
<1> DEFINE f1 == x.fpga
<1>1. /\ \A X : Comes(s, X) <=> x \in X \/ Comes(r, X)
      /\ \A D : x \in Kinds(D) <=> x.do \in D
      /\ Awaits(s) <=> x.do \in {"await_pps", "await_started"}
      /\ RightTime(s, slips, clock, seen[Caller])
      /\ SameTime(s, clock, held[Caller], seen[Caller])
      /\ HeadInOrder(x, r) /\ InOrder(r) /\ x \in BringUpStep /\ x.do = "hold_clock"
  BY FormingDoes
<1>2. ReadClock(Caller) /\ IsAt(Caller, "hold_clock")
  BY RunIs, CallerAlone DEF IsAt
<1>3. GoesOn(Caller) /\ held' = [held EXCEPT ![Caller] = {clock[f1]}] /\ UNCHANGED <<seen, clock, ticked>>
  BY <1>2 DEF ReadClock, IsAt, clocks
<1>4. held \in [Processes -> SUBSET Int] /\ Caller \in Processes /\ clock \in [Fpgas -> Int]
      /\ slips \in Nat /\ <<1, 1>> \in Fpgas
  BY CallerOrTile DEF Types, BringUpTypeOK
<1>5. f1 \in Fpgas
  <2>1. "hold_clock" \in AboutFpga
    BY DEF AboutFpga
  <2> QED
    BY <1>1, <2>1, TileOfStep
<1>6. held'[Caller] = {clock[f1]}
  BY <1>3, <1>4
<1>7. steps'[Caller] = r /\ slips' = slips
  BY <1>3, FormingGoes
<1> HIDE DEF s, x, r, f1
<1>8. (Comparing(r) <=> Comparing(s)) /\ ~Setting(r) /\ ~Setting(s) /\ ~Awaits(s)
  BY <1>1 DEF Comparing, Setting, HeadInOrder
<1>9. \A f \in Fpgas : Comes(s, ReadOf(f)) <=> Comes(r, ReadOf(f))
  <2> TAKE f \in Fpgas
  <2>1. x \notin ReadOf(f)
    BY <1>1 DEF ReadOf, OfFpga
  <2> QED
    BY <1>1, <2>1
<1>10. RightTime(r, slips, clock, seen[Caller])
  BY <1>1, <1>8 DEF RightTime
<1>11. SameTime(r, clock, held'[Caller], seen[Caller])
  BY <1>1, <1>4, <1>8, <1>9 DEF SameTime
<1>12. \A starts, ago : Announced(r, slips, clock, held'[Caller], starts, ago)
  <2> SUFFICES ASSUME ~Comes(r, Kinds({"hold_clock"})), NEW starts, NEW ago
               PROVE  Announced(r, slips, clock, held'[Caller], starts, ago)
    BY DEF Announced
  <2>1. ~Comparing(s)
    BY <1>1, <1>8, OrderOf
  <2>2. Together(clock)
    BY <1>1, <1>8, <2>1 DEF SameTime
  <2>3. clock[f1] = clock[<<1, 1>>] /\ clock[f1] \in Int
    BY <1>4, <1>5, <2>2 DEF Together
  <2>4. clock[f1] + StartDelay - clock[<<1, 1>>] = StartDelay
    BY <2>3 DEF StartDelay
  <2>5. StartDelay - slips <= StartDelay
    BY <1>4 DEF StartDelay
  <2>6. \A f \in Fpgas : Comes(r, StartOf(f))
    BY <1>1 DEF HeadInOrder
  <2> QED
    BY <1>6, <2>3, <2>4, <2>5, <2>6 DEF Announced
<1>13. \A waited, starts, ago : Started(r, slips, waited, starts, ago)
  BY <1>1 DEF HeadInOrder, Started
<1> QED
  BY <1>3, <1>7, <1>10, <1>11, <1>12, <1>13, ClocksThen

\* A clock is read, to be compared.
LEMMA ClocksRead ==
  ASSUME Types, Control, Clocks, Starts, Run(Caller), Forming, Forming', Doing(Caller).do = "read_clock"
  PROVE  Clocks' /\ Starts'
<1> DEFINE s == steps[Caller]
<1> DEFINE x == Doing(Caller)
<1> DEFINE r == Tail(s)
<1> DEFINE f1 == x.fpga
<1>1. /\ \A X : Comes(s, X) <=> x \in X \/ Comes(r, X)
      /\ \A D : x \in Kinds(D) <=> x.do \in D
      /\ Awaits(s) <=> x.do \in {"await_pps", "await_started"}
      /\ RightTime(s, slips, clock, seen[Caller])
      /\ SameTime(s, clock, held[Caller], seen[Caller])
      /\ Announced(s, slips, clock, held[Caller], start_in, began)
      /\ Started(s, slips, ticked[Caller], start_in, began)
      /\ HeadInOrder(x, r) /\ x \in BringUpStep /\ x.do = "read_clock"
  BY FormingDoes
<1>2. ReadClock(Caller) /\ IsAt(Caller, "read_clock")
  BY RunIs, CallerAlone DEF IsAt
<1>3. GoesOn(Caller) /\ seen' = [seen EXCEPT ![Caller] = @ \cup {clock[f1]}]
      /\ UNCHANGED <<held, clock, start_in, began, ticked>>
  BY <1>2 DEF ReadClock, IsAt, clocks
<1>4. seen \in [Processes -> SUBSET Int] /\ Caller \in Processes /\ clock \in [Fpgas -> Int]
  BY CallerOrTile DEF Types, BringUpTypeOK
<1>5. x = OfFpga("read_clock", f1) /\ f1 \in Fpgas
  <2>1. "read_clock" \in AboutFpga
    BY DEF AboutFpga
  <2> QED
    BY <1>1, <2>1, TileOfStep
<1>6. seen'[Caller] = seen[Caller] \cup {clock[f1]}
  BY <1>3, <1>4
<1>7. steps'[Caller] = r /\ slips' = slips
  BY <1>3, FormingGoes
<1> DEFINE w == seen[Caller] \cup {clock[f1]}
<1> HIDE DEF s, x, r, f1
<1>8. /\ \A D : D \in {{"compare_all"}, {"set_clock"}, {"hold_clock"}, {"check_start"}, {"await_started"}} =>
           (Comes(s, Kinds(D)) <=> Comes(r, Kinds(D)))
      /\ ~Awaits(s)
  BY <1>1
<1>9. \A f \in Fpgas : /\ Comes(s, ReadOf(f)) <=> f = f1 \/ Comes(r, ReadOf(f))
                       /\ Comes(s, StartOf(f)) <=> Comes(r, StartOf(f))
  <2> TAKE f \in Fpgas
  <2>1. x \in ReadOf(f) <=> f = f1
    BY <1>5 DEF ReadOf, OfFpga
  <2>2. x \notin StartOf(f)
    BY <1>1 DEF StartOf, OfFpga
  <2> QED
    BY <1>1, <2>1, <2>2
<1>10. (Comparing(r) <=> Comparing(s)) /\ ~Setting(r) /\ ~Setting(s)
  BY <1>1, <1>8 DEF Comparing, Setting, HeadInOrder
<1>11. RightTime(r, slips, clock, w)
  BY <1>1, <1>5, <1>8, <1>10 DEF RightTime
<1>12. SameTime(r, clock, held[Caller], w)
  <2>1. w # {}
    OBVIOUS
  <2>2. ASSUME Comparing(s), \A f \in Fpgas : Comes(s, ReadOf(f)) \/ clock[f] \in seen[Caller], NEW f \in Fpgas
        PROVE  Comes(r, ReadOf(f)) \/ clock[f] \in w
    BY <1>9, <2>2
  <2> QED
    BY <1>1, <1>10, <2>1, <2>2 DEF SameTime
<1>13. Announced(r, slips, clock, held[Caller], start_in, began)
  BY <1>1, <1>8, <1>9 DEF Announced
<1>14. Started(r, slips, ticked[Caller], start_in, began)
  BY <1>1, <1>8 DEF Started
<1> QED
  BY <1>3, <1>6, <1>7, <1>11, <1>12, <1>13, <1>14, ClocksThen

\* A clock is set to the time that is held, which all are set to.
LEMMA ClocksSet ==
  ASSUME Types, Control, Clocks, Starts, Run(Caller), Forming, Forming', Doing(Caller).do = "set_clock"
  PROVE  Clocks' /\ Starts'
<1> DEFINE s == steps[Caller]
<1> DEFINE x == Doing(Caller)
<1> DEFINE r == Tail(s)
<1> DEFINE f1 == x.fpga
<1>1. /\ \A X : Comes(s, X) <=> x \in X \/ Comes(r, X)
      /\ \A D : x \in Kinds(D) <=> x.do \in D
      /\ RightTime(s, slips, clock, seen[Caller])
      /\ SameTime(s, clock, held[Caller], seen[Caller])
      /\ HeadInOrder(x, r) /\ InOrder(r) /\ x \in BringUpStep /\ x.do = "set_clock"
  BY FormingDoes
<1>2. SetClock(Caller)
  BY RunIs
<1>3. PICK time \in held[Caller] : clock' = [clock EXCEPT ![f1] = time]
  BY <1>2 DEF SetClock
<1>4. GoesOn(Caller) /\ UNCHANGED <<held, seen>>
  BY <1>2 DEF SetClock, times
<1>5. held \in [Processes -> SUBSET Int] /\ Caller \in Processes /\ clock \in [Fpgas -> Int]
  BY CallerOrTile DEF Types, BringUpTypeOK
<1>6. x = OfFpga("set_clock", f1) /\ f1 \in Fpgas
  <2>1. "set_clock" \in AboutFpga
    BY DEF AboutFpga
  <2> QED
    BY <1>1, <2>1, TileOfStep
<1>7. steps'[Caller] = r /\ slips' = slips
  BY <1>4, FormingGoes
<1> HIDE DEF s, x, r, f1
<1>8. Setting(s) /\ slips # 0
  BY <1>1 DEF Setting, RightTime
<1>9. \A f \in Fpgas : /\ Comes(s, SetOf(f)) <=> f = f1 \/ Comes(r, SetOf(f))
                       /\ Comes(s, ReadOf(f)) <=> Comes(r, ReadOf(f))
  <2> TAKE f \in Fpgas
  <2>1. x \in SetOf(f) <=> f = f1
    BY <1>6 DEF SetOf, OfFpga
  <2>2. x \notin ReadOf(f)
    BY <1>1 DEF ReadOf, OfFpga
  <2> QED
    BY <1>1, <2>1, <2>2
<1>10. Comparing(r) <=> Comparing(s)
  BY <1>1 DEF Comparing
<1>11. PICK h \in Int : held[Caller] \subseteq {h} /\ \A f \in Fpgas : Comes(s, SetOf(f)) \/ clock[f] = h
  BY <1>1, <1>8 DEF SameTime
<1>12. \A f \in Fpgas : Comes(r, SetOf(f)) \/ clock'[f] = h
  BY <1>3, <1>5, <1>6, <1>9, <1>11
<1>13. Setting(r) \/ Together(clock')
  <2> SUFFICES ASSUME ~Setting(r) PROVE Together(clock')
    OBVIOUS
  <2>1. ASSUME NEW f \in Fpgas PROVE ~Comes(r, SetOf(f))
    BY StepSets DEF Setting, Comes
  <2> QED
    BY <1>12, <2>1 DEF Together
<1>14. <<1, 1>> \in Fpgas
  BY CallerOrTile
<1>15. RightTime(r, slips, clock', seen[Caller])
  BY <1>8 DEF RightTime
<1>16. SameTime(r, clock', held[Caller], seen[Caller])
  <2>1. Comparing(r) => Comes(r, ReadOf(<<1, 1>>)) \/ seen[Caller] # {}
    BY <1>1, <1>9, <1>10, <1>14 DEF SameTime
  <2>2. Setting(r) => \E g \in Int : held[Caller] \subseteq {g} /\ \A f \in Fpgas : Comes(r, SetOf(f)) \/ clock'[f] = g
    BY <1>11, <1>12
  <2> QED
    BY <1>13, <2>1, <2>2 DEF SameTime
<1>17. Comes(r, Kinds({"hold_clock"})) /\ Comes(r, Kinds({"check_start"}))
  BY <1>1, OrderOf DEF HeadInOrder
<1>18. held'[Caller] = held[Caller] /\ seen'[Caller] = seen[Caller]
  BY <1>4
<1>19. RightTime(r, slips', clock', seen'[Caller]) /\ SameTime(r, clock', held'[Caller], seen'[Caller])
  BY <1>7, <1>15, <1>16, <1>18
<1> QED
  BY <1>7, <1>17, <1>19, TooEarly, ClocksThen

\* The clocks were read: they are the same, or will be set.
LEMMA ClocksCompared ==
  ASSUME Types, Control, Clocks, Starts, Run(Caller), Forming, Forming', Doing(Caller).do = "compare_all"
  PROVE  Clocks' /\ Starts'
<1> DEFINE s == steps[Caller]
<1> DEFINE x == Doing(Caller)
<1> DEFINE r == Tail(s)
<1> DEFINE equal == Cardinality(seen[Caller]) = 1
<1>1. /\ \A X : Comes(s, X) <=> x \in X \/ Comes(r, X)
      /\ \A D : x \in Kinds(D) <=> x.do \in D
      /\ Awaits(s) <=> x.do \in {"await_pps", "await_started"}
      /\ RightTime(s, slips, clock, seen[Caller])
      /\ SameTime(s, clock, held[Caller], seen[Caller])
      /\ HeadInOrder(x, r) /\ InOrder(r) /\ x \in BringUpStep /\ x.do = "compare_all"
      /\ r \in Seq(Kinds(FormKinds)) /\ r \in Seq(BringUpStep)
  BY FormingDoes
<1>2. Compare(Caller) /\ ~IsAt(Caller, "compare_two") /\ ~IsAt(Caller, "compare_delays")
  BY RunIs DEF IsAt
<1>3. /\ Proceeds(Caller, AfterAllCompared(equal, x.attempt))
      /\ held' = [held EXCEPT ![Caller] = IF equal THEN {} ELSE @]
      /\ seen' = [seen EXCEPT ![Caller] = {}]
      /\ UNCHANGED clocks
  BY <1>2 DEF Compare
<1>4. held \in [Processes -> SUBSET Int] /\ seen \in [Processes -> SUBSET Int] /\ Caller \in Processes
      /\ IsFiniteSet(seen[Caller]) /\ \A a, b \in held[Caller] : a = b
  BY CallerOrTile DEF Types, BringUpTypeOK
<1>5. held'[Caller] = (IF equal THEN {} ELSE held[Caller]) /\ seen'[Caller] = {} /\ clock' = clock
  BY <1>3, <1>4 DEF clocks
<1>6. steps'[Caller] = AfterAllCompared(equal, x.attempt) \o r /\ slips' = slips
  BY <1>3, FormingGoes
<1>7. x.attempt \in Nat
  BY <1>1, AttemptOfStep
<1>8. <<1, 1>> \in Fpgas
  BY CallerOrTile
<1> HIDE DEF s, x, r
<1>9. /\ ~Setting(s) /\ ~Setting(r) /\ Comparing(s) /\ ~Awaits(s)
      /\ Comes(r, Kinds({"hold_clock"}))
  BY <1>1 DEF Comparing, Setting, HeadInOrder
<1>10. Comes(r, Kinds({"check_start"}))
  BY <1>1, <1>9, OrderOf
<1>11. ~Comparing(r) /\ \A f \in Fpgas : ~Comes(s, ReadOf(f))
  <2>1. ~Comes(r, Kinds({"compare_all", "read_clock"}))
    BY <1>1 DEF HeadInOrder
  <2>2. ~Comparing(r) /\ ~Comes(r, Kinds({"read_clock"}))
    BY <2>1 DEF Comparing, Comes, Kinds
  <2> SUFFICES ASSUME NEW f \in Fpgas PROVE ~Comes(s, ReadOf(f))
    BY <2>2
  <2>3. ~Comes(r, ReadOf(f))
    BY <2>2, StepSets DEF Comes
  <2>4. x \notin ReadOf(f)
    BY <1>1 DEF ReadOf, OfFpga
  <2> QED
    BY <1>1, <2>3, <2>4
<1>12. seen[Caller] # {} /\ (slips = 0 => seen[Caller] \subseteq {0})
  BY <1>1, <1>8, <1>9, <1>11 DEF SameTime, RightTime
<1>13. CASE equal
  <2>1. \E time : seen[Caller] = {time}
    BY <1>4, <1>13, FS_Singleton
  <2>2. Together(clock)
    <3>1. CASE Together(clock)
      BY <3>1
    <3>2. CASE \A f \in Fpgas : clock[f] \in seen[Caller]
      BY <2>1, <3>2 DEF Together
    <3> QED
      BY <1>1, <1>9, <1>11, <3>1, <3>2 DEF SameTime
  <2>3. steps'[Caller] = r /\ held'[Caller] = {}
    <3>1. AfterAllCompared(equal, x.attempt) = <<>>
      BY <1>13 DEF AfterAllCompared
    <3> QED
      BY <1>1, <1>5, <1>6, <1>13, <3>1
  <2>4. RightTime(r, slips, clock, {})
    BY <1>1, <1>9 DEF RightTime
  <2>5. SameTime(r, clock, {}, {})
    BY <1>9, <1>11, <2>2 DEF SameTime
  <2> QED
    BY <1>5, <1>6, <1>9, <1>10, <2>3, <2>4, <2>5, TooEarly, ClocksThen
<1>14. CASE ~equal
  <2> DEFINE a == AfterAllCompared(FALSE, x.attempt)
  <2> DEFINE q == a \o r
  <2>1. /\ a \in Seq(Kinds({"set_clock"} \cup TimeKinds))
        /\ \A f \in Fpgas : Comes(a, SetOf(f))
        /\ Comes(a, Kinds({"compare_all"})) => \A f \in Fpgas : Comes(a, ReadOf(f))
    BY <1>1, <1>7, MoreTime
  <2>2. a \in Seq(BringUpStep)
    BY <2>1, OfKinds
  <2>3. steps'[Caller] = q /\ held'[Caller] = held[Caller]
    <3>1. AfterAllCompared(equal, x.attempt) = a
      BY <1>14 DEF AfterAllCompared
    <3> QED
      BY <1>5, <1>6, <1>14, <3>1
  <2>4. \A X : Comes(q, X) <=> Comes(a, X) \/ Comes(r, X)
    BY <1>1, <2>2, ComesJoined
  <2> HIDE DEF a, q
  <2>5. slips # 0
    <3>1. slips = 0 => seen[Caller] = {0}
      BY <1>12
    <3>2. Cardinality({0}) = 1
      BY FS_Singleton
    <3> QED
      BY <1>14, <3>1, <3>2
  <2>6. Setting(q) /\ (Comparing(q) => Comes(q, ReadOf(<<1, 1>>)))
    <3>1. Comes(a, Kinds({"set_clock"}))
      BY <1>8, <2>1, StepSets DEF Comes
    <3> QED
      BY <1>8, <1>11, <2>1, <2>4, <3>1 DEF Setting, Comparing
  <2>7. \E h \in Int : held[Caller] \subseteq {h}
    <3>1. CASE held[Caller] = {}
      BY <3>1
    <3>2. CASE held[Caller] # {}
      BY <1>4, <3>2
    <3> QED
      BY <3>1, <3>2
  <2>8. \A f \in Fpgas : Comes(q, SetOf(f))
    BY <2>1, <2>4
  <2>9. RightTime(q, slips, clock, {})
    BY <2>5 DEF RightTime
  <2>10. SameTime(q, clock, held[Caller], {})
    BY <2>6, <2>7, <2>8 DEF SameTime
  <2>11. Comes(q, Kinds({"hold_clock"})) /\ Comes(q, Kinds({"check_start"}))
    BY <1>9, <1>10, <2>4
  <2> QED
    BY <1>5, <1>6, <2>3, <2>9, <2>10, <2>11, TooEarly, ClocksThen
<1> QED
  BY <1>13, <1>14

\* The start is told to an FPGA, in time: the clocks are the same, and at most one second
\* has passed since the time was read.
LEMMA StartTold ==
  ASSUME Types, Control, Clocks, Starts, Run(Caller), Forming, Forming', Doing(Caller).do = "start_at",
         MaxSlips <= 1
  PROVE  Clocks' /\ Starts'
<1> DEFINE s == steps[Caller]
<1> DEFINE x == Doing(Caller)
<1> DEFINE r == Tail(s)
<1> DEFINE f1 == x.fpga
<1>1. /\ \A X : Comes(s, X) <=> x \in X \/ Comes(r, X)
      /\ \A D : x \in Kinds(D) <=> x.do \in D
      /\ Awaits(s) <=> x.do \in {"await_pps", "await_started"}
      /\ RightTime(s, slips, clock, seen[Caller])
      /\ SameTime(s, clock, held[Caller], seen[Caller])
      /\ Announced(s, slips, clock, held[Caller], start_in, began)
      /\ HeadInOrder(x, r) /\ InOrder(s) /\ x \in BringUpStep /\ x.do = "start_at"
  BY FormingDoes
<1>2. StartAt(Caller)
  BY RunIs
<1>3. /\ GoesOn(Caller) /\ UNCHANGED <<clock, held, seen, ticked>>
      /\ \E time \in held[Caller] :
           LET left == time + StartDelay - clock[f1]
           IN /\ start_in' = [start_in EXCEPT ![f1] = IF left > 0 THEN left ELSE Never]
              /\ began' \in {[began EXCEPT ![f1] = since] : since \in IF left > 0 THEN {Never} ELSE {Never, 0}}
  BY <1>2 DEF StartAt, times
<1>4. /\ clock \in [Fpgas -> Int] /\ start_in \in [Fpgas -> Int] /\ began \in [Fpgas -> Int]
      /\ slips \in Nat /\ slips <= 1 /\ <<1, 1>> \in Fpgas
  BY CallerOrTile DEF Types, BringUpTypeOK
<1>5. x = OfFpga("start_at", f1) /\ f1 \in Fpgas
  <2>1. "start_at" \in AboutFpga
    BY DEF AboutFpga
  <2> QED
    BY <1>1, <2>1, TileOfStep
<1>6. steps'[Caller] = r /\ slips' = slips
  BY <1>3, FormingGoes
<1> HIDE DEF s, x, r, f1
<1>7. /\ \A D : D \in {{"compare_all"}, {"set_clock"}, {"hold_clock"}, {"check_start"}} =>
           (Comes(s, Kinds(D)) <=> Comes(r, Kinds(D)))
      /\ ~Awaits(s)
  BY <1>1
<1>8. \A f \in Fpgas : /\ Comes(s, ReadOf(f)) <=> Comes(r, ReadOf(f))
                       /\ Comes(s, SetOf(f)) <=> Comes(r, SetOf(f))
                       /\ Comes(s, StartOf(f)) <=> f = f1 \/ Comes(r, StartOf(f))
  <2> TAKE f \in Fpgas
  <2>1. x \notin ReadOf(f) /\ x \notin SetOf(f)
    BY <1>1 DEF ReadOf, SetOf, OfFpga
  <2>2. x \in StartOf(f) <=> f = f1
    BY <1>5 DEF StartOf, OfFpga
  <2> QED
    BY <1>1, <2>1, <2>2
<1>9. (Comparing(s) <=> Comparing(r)) /\ (Setting(s) <=> Setting(r))
  BY <1>7 DEF Comparing, Setting
<1>10. RightTime(r, slips, clock, seen[Caller])
  BY <1>1, <1>7, <1>9 DEF RightTime
<1>11. SameTime(r, clock, held[Caller], seen[Caller])
  BY <1>1, <1>4, <1>8, <1>9 DEF SameTime
<1>12. Comes(r, Kinds({"check_start"})) /\ Comes(s, Kinds({"check_start"}))
  BY <1>1, <1>7 DEF HeadInOrder
<1>13. Started(r, slips, ticked[Caller], start_in', began')
  BY <1>12 DEF Started
<1>14. Announced(r, slips, clock, held[Caller], start_in', began')
  <2> SUFFICES ASSUME ~Comes(r, Kinds({"hold_clock"}))
               PROVE  Announced(r, slips, clock, held[Caller], start_in', began')
    BY DEF Announced
  <2>1. Together(clock)
    <3>1. ~Comes(s, Kinds({"hold_clock"}))
      BY <1>7
    <3>2. ~Comparing(s) /\ ~Setting(s)
      BY <1>1, <3>1, OrderOf
    <3> QED
      BY <1>1, <3>2 DEF SameTime
  <2>2. PICK h \in Int :
          /\ held[Caller] = {h} /\ StartDelay - slips <= h + StartDelay - clock[<<1, 1>>]
          /\ \A f \in Fpgas :
               Comes(s, StartOf(f)) \/ StartsIn(start_in[f], began[f], h + StartDelay - clock[<<1, 1>>])
    BY <1>1, <1>7, <1>12 DEF Announced
  <2> DEFINE left == h + StartDelay - clock[<<1, 1>>]
  <2>3. h + StartDelay - clock[f1] = left
    BY <1>4, <1>5, <2>1 DEF Together
  <2>4. left \in Int /\ left > 0
    BY <1>4, <2>2 DEF StartDelay
  <2>5. start_in' = [start_in EXCEPT ![f1] = left] /\ began' = [began EXCEPT ![f1] = Never]
    BY <1>3, <2>2, <2>3, <2>4
  <2>6. ASSUME NEW f \in Fpgas
        PROVE  Comes(r, StartOf(f)) \/ StartsIn(start_in'[f], began'[f], left)
    <3>1. CASE f = f1
      <4>1. start_in'[f] = left /\ began'[f] = Never
        BY <1>4, <1>5, <2>5, <3>1
      <4> QED
        BY <2>4, <4>1 DEF StartsIn
    <3>2. CASE f # f1
      <4>1. start_in'[f] = start_in[f] /\ began'[f] = began[f]
        BY <1>4, <2>5, <3>2
      <4> QED
        BY <1>8, <2>2, <3>2, <4>1
    <3> QED
      BY <3>1, <3>2
  <2> QED
    BY <2>2, <2>6 DEF Announced
<1> QED
  BY <1>3, <1>6, <1>10, <1>11, <1>13, <1>14, ClocksThen

\* All were told the start.
LEMMA StartChecked ==
  ASSUME Types, Control, Clocks, Starts, Run(Caller), Forming, Forming', Doing(Caller).do = "check_start"
  PROVE  Clocks' /\ Starts'
<1> DEFINE s == steps[Caller]
<1> DEFINE x == Doing(Caller)
<1> DEFINE r == Tail(s)
<1>1. /\ \A X : Comes(s, X) <=> x \in X \/ Comes(r, X)
      /\ \A D : x \in Kinds(D) <=> x.do \in D
      /\ RightTime(s, slips, clock, seen[Caller])
      /\ SameTime(s, clock, held[Caller], seen[Caller])
      /\ Announced(s, slips, clock, held[Caller], start_in, began)
      /\ HeadInOrder(x, r) /\ InOrder(r) /\ InOrder(s) /\ x \in BringUpStep /\ x.do = "check_start"
  BY FormingDoes
<1>2. CheckStart(Caller) /\ IsAt(Caller, "check_start") /\ ~IsAt(Caller, "await_started")
  BY RunIs, CallerAlone DEF IsAt
<1>3. GoesOn(Caller) /\ UNCHANGED <<clock, start_in, began, seen, ticked>>
  BY <1>2, FormingGoes DEF CheckStart, clocks
<1>4. /\ clock \in [Fpgas -> Int] /\ slips \in Nat /\ ticked[Caller] \in Nat /\ <<1, 1>> \in Fpgas
  BY CallerOrTile DEF Types, BringUpTypeOK, MaxPolls
<1>5. steps'[Caller] = r /\ slips' = slips
  BY <1>3, FormingGoes
<1> HIDE DEF s, x, r
<1>6. ~Comes(r, Kinds({"check_start"})) /\ Comes(r, Kinds({"await_started"})) /\ Comes(s, Kinds({"check_start"}))
  BY <1>1 DEF HeadInOrder
<1>7. /\ ~Comes(r, Kinds({"hold_clock"})) /\ ~Comparing(r) /\ ~Setting(r)
      /\ \A f \in Fpgas : ~Comes(r, StartOf(f))
  BY <1>1, <1>6, OrderOf
<1>8. ~Comes(s, Kinds({"hold_clock"}))
  BY <1>1, <1>7
<1>9. ~Comparing(s) /\ ~Setting(s)
  BY <1>1, <1>8, OrderOf
<1>10. RightTime(r, slips, clock, seen[Caller])
  BY <1>1, <1>7 DEF RightTime
<1>11. \A h : SameTime(r, clock, h, seen[Caller])
  BY <1>1, <1>7, <1>9 DEF SameTime
<1>12. \A h : Announced(r, slips, clock, h, start_in, began)
  BY <1>6 DEF Announced
<1>13. Started(r, slips, ticked[Caller], start_in, began)
  <2>1. PICK h \in Int :
          /\ StartDelay - slips <= h + StartDelay - clock[<<1, 1>>]
          /\ \A f \in Fpgas :
               Comes(s, StartOf(f)) \/ StartsIn(start_in[f], began[f], h + StartDelay - clock[<<1, 1>>])
    BY <1>1, <1>6, <1>8 DEF Announced
  <2> DEFINE left == h + StartDelay - clock[<<1, 1>>]
  <2>2. left \in Int /\ StartDelay - slips <= left + ticked[Caller]
    BY <1>4, <2>1 DEF StartDelay
  <2>3. ASSUME NEW f \in Fpgas PROVE StartsIn(start_in[f], began[f], left)
    <3>1. x \notin StartOf(f)
      BY <1>1 DEF StartOf, OfFpga
    <3> QED
      BY <1>1, <1>7, <2>1, <3>1
  <2> HIDE DEF left
  <2> QED
    BY <1>6, <2>2, <2>3 DEF Started
<1> QED
  BY <1>3, <1>5, <1>10, <1>11, <1>12, <1>13, ClocksThen

\* All have started.
LEMMA StartAwaited ==
  ASSUME Types, Control, Clocks, Starts, Run(Caller), Forming, Forming', Doing(Caller).do = "await_started"
  PROVE  Clocks' /\ Starts'
<1> DEFINE s == steps[Caller]
<1> DEFINE x == Doing(Caller)
<1> DEFINE r == Tail(s)
<1>1. /\ \A X : Comes(s, X) <=> x \in X \/ Comes(r, X)
      /\ \A D : x \in Kinds(D) <=> x.do \in D
      /\ RightTime(s, slips, clock, seen[Caller])
      /\ SameTime(s, clock, held[Caller], seen[Caller])
      /\ Started(s, slips, ticked[Caller], start_in, began)
      /\ HeadInOrder(x, r) /\ InOrder(r) /\ x \in BringUpStep /\ x.do = "await_started"
  BY FormingDoes
<1>2. CheckStart(Caller) /\ IsAt(Caller, "await_started") /\ ~IsAt(Caller, "check_start")
  BY RunIs, CallerAlone DEF IsAt
<1>3. /\ GoesOn(Caller) /\ (\A f \in Fpgas : began[f] # Never)
      /\ UNCHANGED <<clock, start_in, began, seen, held>>
  BY <1>2, FormingGoes DEF CheckStart, clocks
<1>4. slips \in Nat /\ ticked[Caller] \in Nat /\ ticked[Caller] <= MaxPolls /\ <<1, 1>> \in Fpgas
  BY CallerOrTile DEF Types, BringUpTypeOK, MaxPolls
<1>5. steps'[Caller] = r /\ slips' = slips
  BY <1>3, FormingGoes
<1> HIDE DEF s, x, r
<1>6. ~Comes(r, Kinds({"await_started"})) /\ ~Comparing(r)
  <2>1. ~Comes(r, Kinds({"await_started", "compare_all"}))
    BY <1>1 DEF HeadInOrder
  <2> QED
    BY <2>1 DEF Comparing, Comes, Kinds
<1>7. ~Comes(r, Kinds({"check_start"}))
  BY <1>1, <1>6, OrderOf
<1>8. ~Setting(r)
  BY <1>1, <1>7, OrderOf
<1>9. ~Comparing(s) /\ ~Setting(s) /\ ~Comes(s, Kinds({"check_start"})) /\ Comes(s, Kinds({"await_started"}))
  BY <1>1, <1>6, <1>7, <1>8 DEF Comparing, Setting
<1>10. RightTime(r, slips, clock, seen[Caller])
  BY <1>1, <1>6, <1>8 DEF RightTime
<1>11. SameTime(r, clock, held[Caller], seen[Caller])
  BY <1>1, <1>6, <1>8, <1>9 DEF SameTime
<1>12. Announced(r, slips, clock, held[Caller], start_in, began)
  BY <1>7 DEF Announced
<1>13. \A n : Started(r, slips, n, start_in, began)
  <2>1. PICK left \in Int :
          /\ \A f \in Fpgas : StartsIn(start_in[f], began[f], left)
          /\ StartDelay - slips <= left + ticked[Caller]
    BY <1>1, <1>9 DEF Started
  <2>2. left <= 0
    BY <1>3, <1>4, <2>1 DEF StartsIn
  <2>3. StartDelay - MaxPolls - slips <= left
    BY <1>4, <2>1 DEF StartDelay, MaxPolls
  <2> QED
    BY <1>6, <2>1, <2>2, <2>3 DEF Started
<1> QED
  BY <1>3, <1>5, <1>10, <1>11, <1>12, <1>13, ClocksThen

\* All tiles were initialised, when the station is about to be formed.
LEMMA ClocksFormed ==
  ASSUME Types, Control, TilesPrepared, Run(Caller), Connecting(steps[Caller]), IsAt(Caller, "form"), Branch,
         properly_formed, config.initialise
  PROVE  Clocks' /\ Starts'
<1> DEFINE s == steps[Caller]
<1> DEFINE q == Form
<1>1. s # <<>> /\ s \in Seq(BringUpStep) /\ Doing(Caller) = Head(s) /\ Caller \in DOMAIN steps /\ outcome = "none"
  BY CallerAlone, CallerDoing, CallerOrTile DEF Control
<1>2. Head(s).do = "form" /\ Tail(s) = <<>>
  <2>1. Head(s).do = "form"
    BY <1>1 DEF IsAt
  <2> QED
    BY <1>1, <2>1, ConnectingGoesOn
<1>3. \A X : Comes(s, X) => Head(s) \in X
  <2>1. \A X : ~Comes(<<>>, X)
    BY DEF Comes
  <2> QED
    BY <1>1, <1>2, <2>1, ComesInTail
<1>4. ~Comes(s, MapOf("initialise")) /\ ~Comes(s, Kinds({"join"}))
  BY <1>2, <1>3 DEF MapOf, Kinds
<1>5. ASSUME slips = 0, NEW f \in Fpgas PROVE clock[f] = 0
  <2>1. PICK t \in Tiles : f \in FpgasOf(t)
    BY DEF Fpgas, FpgasOf, Tiles
  <2>2. Prepared(t)
    BY <1>1, <1>4 DEF TilesPrepared
  <2>3. steps[t] = <<>> /\ result[t] # "running"
    BY CallerAlone DEF Control
  <2>4. Going(t)
    BY <1>4, <2>2, <2>3 DEF Prepared
  <2>5. ~Comes(steps[t], SetOf(f))
    BY <2>3 DEF Comes
  <2> QED
    BY <1>5, <2>1, <2>4, <2>5 DEF Going, InTime
<1>6. ToForm(q)
  BY FormProgram
<1>7. steps'[Caller] = q /\ slips' = slips /\ clock' = clock /\ seen'[Caller] = {}
  <2>1. Proceeds(Caller, q) /\ UNCHANGED <<clocks, times>>
    BY DEF Branch, AfterConnected
  <2>2. q \in Seq(BringUpStep)
    BY <1>6, OfKinds DEF ToForm
  <2>3. q \o Tail(s) = q
    <3> HIDE DEF q
    <3>1. q \o <<>> = q
      BY <2>2
    <3> QED
      BY <1>2, <3>1
  <2>4. steps' = [steps EXCEPT ![Caller] = q]
    BY <1>1, <2>1, <2>3, CallerProceeds
  <2>5. seen[Caller] = {}
    BY DEF Control
  <2> QED
    BY <1>1, <2>1, <2>4, <2>5, OnlyThen DEF clocks, times
<1> HIDE DEF q
<1>8. Comparing(q) /\ ~Setting(q) /\ Comes(q, Kinds({"hold_clock"})) /\ Comes(q, Kinds({"check_start"}))
      /\ \A f \in Fpgas : Comes(q, ReadOf(f))
  BY <1>6 DEF ToForm, Comparing, Setting
<1>9. RightTime(q, slips, clock, {})
  BY <1>5, <1>8 DEF RightTime
<1>10. \A h : SameTime(q, clock, h, {})
  BY <1>8, CallerOrTile DEF SameTime
<1> QED
  BY <1>7, <1>8, <1>9, <1>10, TooEarly, ClocksThen

\* Until then, there is no station.
LEMMA NoneYet ==
  ASSUME Types, Control, Run(Caller), Connecting(steps[Caller]),
         ~(IsAt(Caller, "form") /\ Branch /\ properly_formed /\ config.initialise)
  PROVE  ~Forming'
<1> DEFINE s == steps[Caller]
<1>1. s # <<>> /\ s \in Seq(BringUpStep) /\ Tail(s) \in Seq(BringUpStep) /\ Doing(Caller) = Head(s)
      /\ Caller \in DOMAIN steps
  BY CallerAlone, CallerDoing, CallerOrTile DEF Control
<1>2. config' = config
  BY OnlyThen
<1>3. /\ Head(s).do # "form" => Connecting(Tail(s))
      /\ Head(s).do = "map" => Head(Tail(s)) = Step("join")
  BY <1>1, ConnectingGoesOn
<1>4. ASSUME NEW q, steps'[Caller] = q, Connecting(q), q \in Seq(BringUpStep)
      PROVE  ~Forming'
  <2>1. ~Formation(q)
    BY <1>4, FormationOrNot
  <2>2. ~Formation(steps[Caller])'
    BY <1>2, <1>4, <2>1 DEF Formation
  <2> QED
    BY <2>2 DEF Forming
<1>5. CASE Raises(Caller)
  <2>1. outcome' = "raised"
    BY <1>1, <1>5, CallerProceeds
  <2> QED
    BY <2>1 DEF Forming
<1>6. CASE GoesOn(Caller) /\ Head(s).do # "form"
  <2>1. steps'[Caller] = Tail(s)
    BY <1>1, <1>6, CallerProceeds
  <2> QED
    BY <1>1, <1>3, <1>4, <1>6, <2>1
<1>7. CASE IsAt(Caller, "connect") /\ ConnectBoard(Caller) /\ GoesOn(Caller)
  BY <1>1, <1>6, <1>7 DEF IsAt
<1>8. CASE IsAt(Caller, "map") /\ Map
  <2>1. Head(s).do = "map"
    BY <1>1, <1>8 DEF IsAt
  <2>2. Connecting(Tail(s)) /\ Tail(s) # <<>> /\ Head(Tail(s)).do # "form"
    BY <1>3, <2>1 DEF Connecting, Step
  <2>3. Connecting(Tail(Tail(s))) /\ Tail(Tail(s)) \in Seq(BringUpStep)
    BY <1>1, <2>2, ConnectingGoesOn, StepAfter
  <2>4. \/ Raises(Caller)
        \/ steps'[Caller] = Tail(s)
        \/ steps'[Caller] = Tail(Tail(s))
    <3>1. Caller \in Processes
      BY CallerOrTile
    <3> QED
      BY <1>1, <1>8, <3>1 DEF Map
  <2> QED
    BY <1>1, <1>4, <1>5, <2>2, <2>3, <2>4
<1>9. CASE IsAt(Caller, "join") /\ Join
  <2>1. Head(s).do # "form" /\ (Raises(Caller) \/ GoesOn(Caller))
    BY <1>1, <1>9 DEF Join, IsAt
  <2> QED
    BY <1>5, <1>6, <2>1
<1>10. CASE IsAt(Caller, "form") /\ Branch
  <2>1. ~(properly_formed' /\ config.initialise')
    BY <1>2, <1>10 DEF Branch
  <2> QED
    BY <2>1 DEF Forming
<1> QED
  BY <1>7, <1>8, <1>9, <1>10, ConnectingMoves

LEMMA ClocksInConnecting ==
  ASSUME Types, Control, TilesPrepared, Run(Caller), Connecting(steps[Caller])
  PROVE  Clocks' /\ Starts'
BY NoneYet, NotForming, ClocksFormed

LEMMA ClocksInPool ==
  ASSUME Types, Control, NEW t \in Tiles, Run(t)
  PROVE  Clocks' /\ Starts'
<1>1. steps[t] # <<>>
  BY PoolRun
<1>2. PICK q : \E r : Moves(t, q, r)
  BY PoolRun
<1>3. config' = config /\ steps'[Caller] = steps[Caller]
  <2>1. t # Caller /\ Caller \in Processes
    BY CallerOrTile
  <2>2. steps' = [steps EXCEPT ![t] = q]
    BY <1>2 DEF Moves
  <2> QED
    BY <2>1, <2>2 DEF Run, given, Control
<1>4. ~Formation(steps[Caller])
  <2>1. IsAt(Caller, "join")
    BY <1>1, PoolDoing
  <2>2. steps[Caller] # <<>> /\ Doing(Caller).do = "join"
    BY <2>1 DEF IsAt
  <2>3. "join" \notin FormKinds \cup {"check_status"}
    BY DEF FormKinds
  <2> QED
    BY <2>2, <2>3, FormationOrNot DEF Doing
<1>5. ~Forming'
  BY <1>3, <1>4, FormSame DEF Forming
<1> QED
  BY <1>5, NotForming

LEMMA ClocksInForming ==
  ASSUME Types, Control, Clocks, Starts, Run(Caller), Formation(steps[Caller]), MaxSlips <= 1
  PROVE  Clocks' /\ Starts'
<1> SUFFICES ASSUME Forming' PROVE Clocks' /\ Starts'
  BY NotForming
<1>1. config' = config /\ config.initialise
  BY OnlyThen DEF Forming
<1>2. outcome = "none" /\ properly_formed' = properly_formed /\ Doing(Caller).do \in FormKinds
  BY <1>1, FormingIs
<1>3. Forming
  BY <1>1, <1>2 DEF Forming
<1>4. CASE Doing(Caller).do \in {"needs", "sampling", "check_arp", "needs_programmed"}
  BY <1>3, <1>4, ClocksOther
<1>5. CASE Doing(Caller).do \in {"await_pps", "compare_delays"}
  BY <1>3, <1>5, ClocksBefore
<1>6. CASE Doing(Caller).do \in {"hold_clock", "read_clock", "set_clock", "compare_all"}
  BY <1>3, <1>6, ClocksHold, ClocksRead, ClocksSet, ClocksCompared
<1>7. CASE Doing(Caller).do \in {"start_at", "check_start", "await_started"}
  BY <1>3, <1>7, StartTold, StartChecked, StartAwaited
<1> QED
  BY <1>2, <1>4, <1>5, <1>6, <1>7 DEF FormKinds

LEMMA StartsNearer ==
  ASSUME Pps, NEW f \in Fpgas, NEW left \in Int, StartsIn(start_in[f], began[f], left)
  PROVE  StartsIn(start_in'[f], began'[f], left - 1)
<1>1. /\ start_in'[f] = (IF start_in[f] > 1 THEN start_in[f] - 1 ELSE Never)
      /\ began'[f] = (IF start_in[f] = 1 THEN 0 ELSE IF began[f] = Never THEN Never ELSE began[f] + 1)
  BY DEF Pps
<1>2. CASE left > 1
  <2>1. start_in[f] = left /\ began[f] = Never
    BY <1>2 DEF StartsIn
  <2> QED
    BY <1>1, <1>2, <2>1 DEF StartsIn
<1>3. CASE left = 1
  <2>1. start_in[f] = 1
    BY <1>3 DEF StartsIn
  <2>2. start_in'[f] = Never /\ began'[f] = 0
    BY <1>1, <2>1
  <2>3. -(left - 1) = 1 - left
    OBVIOUS
  <2>4. ~(left - 1 > 0) /\ 1 - left = 0
    BY <1>3
  <2> QED
    BY <2>2, <2>3, <2>4 DEF StartsIn
<1>4. CASE left <= 0
  <2>1. start_in[f] = Never /\ began[f] = -left
    BY <1>4 DEF StartsIn
  <2> QED
    BY <1>1, <1>4, <2>1 DEF StartsIn, Never
<1> QED
  BY <1>2, <1>3, <1>4

\* A second passes: at most the first time while the clocks are in use, which were right then.
LEMMA SecondPasses ==
  ASSUME Types, Control, Clocks, Forming, Pps, MaxSlips <= 1, NEW s, s = steps[Caller]
  PROVE  /\ slips \in Nat
         /\ held'[Caller] = {Lasting(time) : time \in held[Caller]}
         /\ seen'[Caller] = {Lasting(time) : time \in seen[Caller]}
         /\ ticked[Caller] \in Nat /\ ticked'[Caller] \in Nat
         /\ \/ slips' = slips + 1 /\ slips = 0 /\ ticked'[Caller] >= ticked[Caller]
            \/ /\ slips' = slips /\ Awaits(s)
               /\ ticked'[Caller] = ticked[Caller] + 1
<1>1. slips \in Nat /\ ticked[Caller] \in 0 .. MaxPolls /\ Caller \in Processes
      /\ MaxSlips \in Nat
  BY CallerOrTile DEF Types, BringUpTypeOK
<1>2. /\ held'[Caller] = {Lasting(time) : time \in held[Caller]}
      /\ seen'[Caller] = {Lasting(time) : time \in seen[Caller]}
      /\ ticked'[Caller] = (IF Waits(Caller) /\ ticked[Caller] < MaxPolls THEN ticked[Caller] + 1 ELSE ticked[Caller])
  BY <1>1 DEF Pps
<1>3. slips' <= MaxSlips /\ slips' = IF \E p \in Processes : Counts(p) THEN slips + 1 ELSE slips
  BY DEF Pps
<1>4. slips' = slips + 1 => slips = 0
  BY <1>1, <1>3
<1>5. Waits(Caller) <=> Awaits(s)
  BY DEF Waits, IsAt, Awaits, Doing
<1>6. \A t \in Tiles : ~Waits(t)
  <2> TAKE t \in Tiles
  <2>1. ~IsAt(Caller, "join")
    <3>1. Formation(s)
      BY DEF Forming
    <3>2. "join" \notin FormKinds \cup {"check_status"}
      BY DEF FormKinds
    <3> QED
      BY <3>1, <3>2, FormationOrNot DEF IsAt, Doing
  <2>2. steps[t] = <<>>
    BY <2>1 DEF Control
  <2> QED
    BY <2>2 DEF Waits, IsAt
<1>7. ASSUME ~\E p \in Processes : Counts(p)
      PROVE  Waits(Caller) /\ ticked[Caller] < MaxPolls
  <2>1. PICK p \in Processes : Waits(p) /\ ticked[p] < MaxPolls
    BY <1>7 DEF Pps
  <2> QED
    BY <1>6, <2>1, CallerOrTile
<1>8. slips' = slips + 1 \/ (slips' = slips /\ Waits(Caller) /\ ticked[Caller] < MaxPolls)
  BY <1>3, <1>7
<1>9. ticked'[Caller] \in Nat /\ ticked'[Caller] >= ticked[Caller]
  BY <1>1, <1>2 DEF MaxPolls
<1>10. \/ slips' = slips + 1 /\ slips = 0 /\ ticked'[Caller] >= ticked[Caller]
       \/ slips' = slips /\ Awaits(s) /\ ticked'[Caller] = ticked[Caller] + 1
  BY <1>2, <1>4, <1>5, <1>8, <1>9
<1> QED
  BY <1>1, <1>2, <1>5, <1>9, <1>10

LEMMA ClocksPps ==
  ASSUME Types, Control, Clocks, Starts, Pps, MaxSlips <= 1
  PROVE  Clocks' /\ Starts'
<1> DEFINE s == steps[Caller]
<1>1. UNCHANGED <<steps, config, outcome, properly_formed, clock>>
  BY DEF Pps, control, given, station
<1> SUFFICES ASSUME Forming PROVE Clocks' /\ Starts'
  <2>1. Forming' <=> Forming
    BY <1>1, FormSame DEF Forming
  <2> QED
    BY <2>1, NotForming
<1>2. /\ RightTime(s, slips, clock, seen[Caller]) /\ SameTime(s, clock, held[Caller], seen[Caller])
      /\ Announced(s, slips, clock, held[Caller], start_in, began)
      /\ Started(s, slips, ticked[Caller], start_in, began)
  BY DEF Clocks, Starts
<1>3. s \in Seq(Kinds(FormKinds)) /\ InOrder(s) /\ s \in Seq(BringUpStep)
  <2>1. s \in Seq(Kinds(FormKinds)) /\ InOrder(s)
    BY DEF Forming, Formation
  <2> QED
    BY <2>1, OfKinds
<1> HIDE DEF s
<1>4. /\ slips \in Nat
      /\ held'[Caller] = {Lasting(time) : time \in held[Caller]}
      /\ seen'[Caller] = {Lasting(time) : time \in seen[Caller]}
      /\ ticked[Caller] \in Nat /\ ticked'[Caller] \in Nat
      /\ \/ slips' = slips + 1 /\ slips = 0 /\ ticked'[Caller] >= ticked[Caller]
         \/ slips' = slips /\ Awaits(s) /\ ticked'[Caller] = ticked[Caller] + 1
  BY SecondPasses DEF s
<1>5. ASSUME Awaits(s)
      PROVE  /\ ~Setting(s)
             /\ Head(s).do = "await_pps" =>
                  /\ Comes(s, Kinds({"hold_clock"})) /\ Comes(s, Kinds({"check_start"}))
                  /\ \A f \in Fpgas : Comes(s, ReadOf(f))
             /\ Head(s).do = "await_started" =>
                  /\ ~Comparing(s) /\ ~Comes(s, Kinds({"check_start"})) /\ Comes(s, Kinds({"await_started"}))
  <2> DEFINE r == Tail(s)
  <2> DEFINE x == Head(s)
  <2>1. s # <<>> /\ x.do \in {"await_pps", "await_started"}
    BY <1>5 DEF Awaits
  <2>2. InOrder(r) /\ HeadInOrder(x, r)
    BY <1>3, <2>1, InOrderTail
  <2>3. \A X : Comes(s, X) <=> x \in X \/ Comes(r, X)
    BY <1>3, <2>1, ComesInTail
  <2>4. x \in BringUpStep
    BY <1>3, <2>1
  <2>5. \A D : x \in Kinds(D) <=> x.do \in D
    BY <2>4 DEF Kinds
  <2> HIDE DEF r, x
  <2>6. ~Setting(s)
    BY <2>1, <2>2, <2>3, <2>5 DEF Setting, HeadInOrder
  <2>7. ASSUME x.do = "await_pps"
        PROVE  /\ Comes(s, Kinds({"hold_clock"})) /\ Comes(s, Kinds({"check_start"}))
               /\ \A f \in Fpgas : Comes(s, ReadOf(f))
    <3>1. Comes(s, Kinds({"hold_clock"})) /\ \A f \in Fpgas : Comes(s, ReadOf(f))
      BY <2>2, <2>3, <2>7 DEF HeadInOrder
    <3> QED
      BY <1>3, <3>1, OrderOf
  <2>8. ASSUME x.do = "await_started"
        PROVE  ~Comparing(s) /\ ~Comes(s, Kinds({"check_start"})) /\ Comes(s, Kinds({"await_started"}))
    <3>1. ~Comes(r, Kinds({"await_started", "compare_all"}))
      BY <2>2, <2>8 DEF HeadInOrder
    <3>2. ~Comes(r, Kinds({"await_started"})) /\ ~Comes(r, Kinds({"compare_all"}))
      BY <3>1 DEF Comes, Kinds
    <3>3. ~Comes(r, Kinds({"check_start"}))
      BY <2>2, <3>2, OrderOf
    <3> QED
      BY <2>3, <2>5, <2>8, <3>2, <3>3 DEF Comparing
  <2> QED
    BY <2>6, <2>7, <2>8 DEF x
<1>6. slips' = slips + 1 => Together(clock) /\ ~Setting(s)
  BY <1>2, <1>4 DEF RightTime, Together
<1>7. slips' = slips => Awaits(s)
  BY <1>4
<1>8. ~Setting(s)
  BY <1>4, <1>5, <1>6
<1>9. RightTime(s, slips', clock, seen'[Caller])
  <2> SUFFICES ASSUME slips' = 0 PROVE RightTime(s, slips', clock, seen'[Caller])
    BY DEF RightTime
  <2>1. slips = 0 /\ Awaits(s)
    BY <1>4
  <2> QED
    BY <1>2, <1>8, <2>1 DEF RightTime
<1>10. SameTime(s, clock, held'[Caller], seen'[Caller])
  <2>1. Comparing(s) => Comes(s, ReadOf(<<1, 1>>)) \/ seen'[Caller] # {}
    <3>1. seen[Caller] # {} => seen'[Caller] # {}
      BY <1>4
    <3> QED
      BY <1>2, <3>1 DEF SameTime
  <2>2. \/ Together(clock)
        \/ Comparing(s) /\ \A f \in Fpgas : Comes(s, ReadOf(f)) \/ clock[f] \in seen'[Caller]
    <3>1. CASE slips' = slips + 1
      BY <1>6, <3>1
    <3>2. CASE slips' = slips
      <4>1. Comparing(s) => Head(s).do = "await_pps"
        BY <1>5, <1>7, <3>2 DEF Awaits
      <4>2. Comparing(s) => \A f \in Fpgas : Comes(s, ReadOf(f))
        BY <1>5, <1>7, <3>2, <4>1
      <4> QED
        BY <1>2, <1>8, <4>2 DEF SameTime
    <3> QED
      BY <1>4, <3>1, <3>2
  <2> QED
    BY <1>8, <2>1, <2>2 DEF SameTime
<1>11. Announced(s, slips', clock, held'[Caller], start_in', began')
  <2> SUFFICES ASSUME ~Comes(s, Kinds({"hold_clock"})), Comes(s, Kinds({"check_start"}))
               PROVE  Announced(s, slips', clock, held'[Caller], start_in', began')
    BY DEF Announced
  <2>1. ~Awaits(s)
    BY <1>5 DEF Awaits
  <2>2. slips' = slips + 1
    BY <1>4, <2>1
  <2>3. PICK h \in Int :
          /\ held[Caller] = {h} /\ StartDelay - slips <= h + StartDelay - clock[<<1, 1>>]
          /\ \A f \in Fpgas :
               Comes(s, StartOf(f)) \/ StartsIn(start_in[f], began[f], h + StartDelay - clock[<<1, 1>>])
    BY <1>2 DEF Announced
  <2>4. clock[<<1, 1>>] \in Int
    BY CallerOrTile DEF Types, BringUpTypeOK
  <2>5. held'[Caller] = {h - 1}
    BY <1>4, <2>3 DEF Lasting
  <2>6. h - 1 + StartDelay - clock[<<1, 1>>] = (h + StartDelay - clock[<<1, 1>>]) - 1
        /\ h + StartDelay - clock[<<1, 1>>] \in Int
    BY <2>4 DEF StartDelay
  <2>7. StartDelay - slips' <= h - 1 + StartDelay - clock[<<1, 1>>]
    BY <1>4, <2>2, <2>3, <2>4 DEF StartDelay
  <2>8. \A f \in Fpgas :
          Comes(s, StartOf(f)) \/ StartsIn(start_in'[f], began'[f], h - 1 + StartDelay - clock[<<1, 1>>])
    BY <2>3, <2>6, StartsNearer
  <2> QED
    BY <2>5, <2>7, <2>8 DEF Announced
<1>12. Started(s, slips', ticked'[Caller], start_in', began')
  <2> SUFFICES ASSUME ~Comes(s, Kinds({"check_start"}))
               PROVE  Started(s, slips', ticked'[Caller], start_in', began')
    BY DEF Started
  <2>1. PICK left \in Int :
          /\ \A f \in Fpgas : StartsIn(start_in[f], began[f], left)
          /\ IF Comes(s, Kinds({"await_started"}))
               THEN StartDelay - slips <= left + ticked[Caller]
               ELSE left <= 0 /\ StartDelay - MaxPolls - slips <= left
    BY <1>2 DEF Started
  <2>2. \A f \in Fpgas : StartsIn(start_in'[f], began'[f], left - 1)
    BY <2>1, StartsNearer
  <2>3. Comes(s, Kinds({"await_started"})) => StartDelay - slips' <= (left - 1) + ticked'[Caller]
    BY <1>4, <2>1 DEF StartDelay
  <2>4. ~Comes(s, Kinds({"await_started"})) =>
          left - 1 <= 0 /\ StartDelay - MaxPolls - slips' <= left - 1
    <3>1. ~Comes(s, Kinds({"await_started"})) => ~Awaits(s)
      BY <1>5 DEF Awaits
    <3> QED
      BY <1>4, <2>1, <3>1 DEF StartDelay, MaxPolls
  <2>5. left - 1 \in Int
    OBVIOUS
  <2> QED
    BY <2>2, <2>3, <2>4, <2>5 DEF Started
<1>13. steps'[Caller] = s
  BY <1>1 DEF s
<1>14. RightTime(s, slips', clock', seen'[Caller]) /\ SameTime(s, clock', held'[Caller], seen'[Caller])
       /\ Announced(s, slips', clock', held'[Caller], start_in', began')
  BY <1>1, <1>9, <1>10, <1>11
<1> QED
  BY <1>12, <1>13, <1>14, ClocksThen
-----------------------------------------------------------------------------
(* What is formed                                                           *)

\* ... it prepares the tiles, as long as no tile is far from its time, ...
PreparedInvariant == config \in Configs /\ TilesPrepared /\ Current

\* While a station is being formed, the process of each tile is initialising it, has done so,
\* or is going to raise an exception (TilesPrepared), and uses the right time until a second
\* passes at a bad moment (Current).
THEOREM PreparedStays ==
  ASSUME \A c \in Configs : ~c.pps_delay_far
  PROVE  BringUpSpec => []PreparedInvariant
<1>1. BringUpInit => PreparedInvariant
  BY PreparedAtFirst DEF PreparedInvariant, BringUpInit
<1>2. BringUpInvariant /\ PreparedInvariant /\ [BringUpNext]_bringUpVars => PreparedInvariant'
  <2> SUFFICES ASSUME BringUpInvariant, PreparedInvariant, [BringUpNext]_bringUpVars
               PROVE  PreparedInvariant'
    OBVIOUS
  <2>1. Types /\ Control /\ TilesPrepared /\ Current /\ config \in Configs
    BY DEF BringUpInvariant, PreparedInvariant
  <2>2. CASE \E p \in Processes : Run(p)
    <3>1. PICK p \in Processes : Run(p)
      BY <2>2
    <3>2. TilesPrepared' /\ Current'
      BY <2>1, <3>1, PreparedNext
    <3>3. config' = config
      BY <3>1, OnlyThen
    <3> QED
      BY <2>1, <3>2, <3>3 DEF PreparedInvariant
  <2>3. CASE Pps
    <3>1. TilesPrepared' /\ Current'
      BY <2>1, <2>3, PreparedPps, CurrentPps
    <3>2. config' = config
      BY <2>3 DEF Pps, given
    <3> QED
      BY <2>1, <3>1, <3>2 DEF PreparedInvariant
  <2>4. CASE UNCHANGED bringUpVars
    <3>1. UNCHANGED <<config, steps, result, tpm, programmed, initialised, clock, properly_formed, outcome,
                      slips, held>>
      BY <2>4 DEF bringUpVars, given, tile_state, clocks, control, times, station
    <3>2. slips \in Nat
      BY <2>1 DEF Types, BringUpTypeOK
    <3>3. ASSUME NEW u \in Tiles, Prepared(u)
          PROVE  Prepared(u)'
      <4>1. Connecting(steps[Caller])' <=> Connecting(steps[Caller])
        BY <3>1, FormSame
      <4>2. Object(u)' = Object(u)
        BY <3>1 DEF Object
      <4> QED
        BY <3>1, <3>2, <3>3, <4>1, <4>2, PreparedSame
    <3>4. TilesPrepared'
      BY <2>1, <3>1, <3>3 DEF TilesPrepared
    <3>5. \A u \in Tiles : Waits(u)' <=> Waits(u)
      BY <3>1 DEF Waits, IsAt, Doing
    <3>6. Current'
      BY <2>1, <3>1, <3>5 DEF Current
    <3> QED
      BY <2>1, <3>1, <3>4, <3>6 DEF PreparedInvariant
  <2> QED
    BY <2>2, <2>3, <2>4 DEF BringUpNext
<1> QED
  BY <1>1, <1>2, BringUpStays, PTL DEF BringUpSpec

\* A station that is formed and was to be initialised consists of tiles that are programmed
\* and were initialised, whichever processes of the pool fail or raise (Station.connect), where
\* no PPS delay is out of range.
THEOREM FormedOfInitialised ==
  ASSUME \A c \in Configs : ~c.pps_delay_far
  PROVE  BringUpSpec => []FormedIsInitialised
<1>1. BringUpInvariant /\ PreparedInvariant => FormedIsInitialised
  BY PreparedAtLast DEF BringUpInvariant, PreparedInvariant
<1> QED
  BY <1>1, BringUpStays, PreparedStays, PTL

\* ... and brings their clocks to one time, from which they start.
LEMMA TogetherAtLast == ASSUME Types, Control, Clocks, Starts, MaxSlips <= 1 PROVE StartTogether
<1> SUFFICES ASSUME Formed, config.initialise
             PROVE  \E since \in 0 .. MaxPolls : \A f \in Fpgas : began[f] = since
  BY DEF StartTogether
<1>1. steps[Caller] = <<>>
  BY DEF Formed, Control
<1>2. Forming
  BY <1>1, FormationEmpty DEF Forming, Formed
<1>3. \A X : ~Comes(<<>>, X)
  BY DEF Comes
<1>4. Started(<<>>, slips, ticked[Caller], start_in, began)
  BY <1>1, <1>2 DEF Starts
<1>5. PICK left \in Int :
        /\ \A f \in Fpgas : StartsIn(start_in[f], began[f], left)
        /\ left <= 0 /\ StartDelay - MaxPolls - slips <= left
  BY <1>3, <1>4 DEF Started
<1>6. slips \in 0 .. 1
  BY DEF Types, BringUpTypeOK
<1>7. -left \in 0 .. MaxPolls
  BY <1>5, <1>6 DEF StartDelay, MaxPolls
<1>8. \A f \in Fpgas : began[f] = -left
  BY <1>5 DEF StartsIn
<1> QED
  BY <1>7, <1>8

ClocksInvariant == Clocks /\ Starts

\* While a station is being formed its clocks are right until a second passes at a bad moment;
\* after it they are compared, and set to one time if they differ (Clocks).  All FPGAs are
\* told to start at one time, which has not come when the last is told (Starts).
THEOREM ClocksStay ==
  ASSUME \A c \in Configs : ~c.pps_delay_far, MaxSlips <= 1
  PROVE  BringUpSpec => []ClocksInvariant
<1>1. BringUpInit => ClocksInvariant
  <2> SUFFICES ASSUME BringUpInit PROVE ClocksInvariant
    OBVIOUS
  <2>1. steps[Caller] = connect
    BY CallerOrTile DEF BringUpInit
  <2>2. ~Formation(connect)
    BY ConnectProgram, FormationOrNot
  <2> QED
    BY <2>1, <2>2 DEF ClocksInvariant, Clocks, Starts, Forming
<1>2. BringUpInvariant /\ PreparedInvariant /\ ClocksInvariant /\ [BringUpNext]_bringUpVars => ClocksInvariant'
  <2> SUFFICES ASSUME BringUpInvariant, PreparedInvariant, ClocksInvariant, [BringUpNext]_bringUpVars
               PROVE  ClocksInvariant'
    OBVIOUS
  <2>1. Types /\ Control /\ TilesPrepared /\ Clocks /\ Starts
    BY DEF BringUpInvariant, PreparedInvariant, ClocksInvariant
  <2>2. CASE \E p \in Processes : Run(p)
    <3>1. PICK p \in Processes : Run(p)
      BY <2>2
    <3>2. CASE p = Caller
      <4>1. Connecting(steps[Caller]) \/ Formation(steps[Caller])
        BY <2>1 DEF Control
      <4> QED
        BY <2>1, <3>1, <3>2, <4>1, ClocksInConnecting, ClocksInForming DEF ClocksInvariant
    <3>3. CASE p \in Tiles
      BY <2>1, <3>1, <3>3, ClocksInPool DEF ClocksInvariant
    <3> QED
      BY <3>2, <3>3, CallerOrTile
  <2>3. CASE Pps
    BY <2>1, <2>3, ClocksPps DEF ClocksInvariant
  <2>4. CASE UNCHANGED bringUpVars
    <3>1. UNCHANGED <<config, steps, clock, start_in, began, held, seen, ticked, slips, properly_formed, outcome>>
      BY <2>4 DEF bringUpVars, given, clocks, control, times, station
    <3>2. Forming' <=> Forming
      BY <3>1, FormSame DEF Forming
    <3> QED
      BY <2>1, <3>1, <3>2 DEF ClocksInvariant, Clocks, Starts
  <2> QED
    BY <2>2, <2>3, <2>4 DEF BringUpNext
<1> QED
  BY <1>1, <1>2, BringUpStays, PreparedStays, PTL DEF BringUpSpec

\* All FPGAs of a station that is formed and was to be initialised start at one PPS, although
\* each is set and told in its turn, if a second passes at a bad moment once at most.
THEOREM FormedStartTogether ==
  ASSUME \A c \in Configs : ~c.pps_delay_far, MaxSlips <= 1
  PROVE  BringUpSpec => []StartTogether
<1>1. BringUpInvariant /\ ClocksInvariant => StartTogether
  BY TogetherAtLast DEF BringUpInvariant, ClocksInvariant
<1> QED
  BY <1>1, BringUpStays, ClocksStay, PTL
=============================================================================
