----------------------- MODULE StationSession_proofs -------------------------
(***************************************************************************)
(* What holds of a station at work, for any number of tiles, any delay,    *)
(* any firmware and any commands that are used together: no command but    *)
(* one of narrow band data leaves a request that came too late, success    *)
(* means that all FPGAs were told by the time, for one time, and a          *)
(* beamformer runs in both FPGAs of a tile or in none.                     *)
(*                                                                         *)
(* What is to be done of a command is a suffix of its calls, with what is  *)
(* done about a request or a start that fails put in.  The proofs need of  *)
(* it which step comes after which (Shape), which goes over to the rest;   *)
(* and the rest only as a set: of the steps of the call that goes on, on   *)
(* which depends what its tile may be asked next (Asking, Beaming), and of *)
(* all steps, on which depends what the caller is told (Telling).          *)
(***************************************************************************)
EXTENDS StationSession, SequenceTheorems, FiniteSetTheorems, TLAPS

USE StationAssumption

\* the steps that are about an FPGA, or a tile
FpgaSteps ==
  {"set", "write_time", "apply_sync_delay", "single_channel_on", "single_channel_off", "ddc_on",
   "ddc_off", "clear_request", "abort"}
TileDoings == {"await_no_request", "check_only", "leave_if_running", "check_started"}
Durations == {Forever, 1}

StepType ==
  [do : {"await_none", "read_time", "check_later", "check_passed"}]
    \cup [do : FpgaSteps, fpga : Fpgas]
    \cup [do : {"request", "clear_flag"}, fpga : Fpgas, mode : DataModes]
    \cup [do : {"start_beam"}, fpga : Fpgas, duration : Durations]
    \cup [do : TileDoings, tile : 1 .. NofTiles]
    \cup [do : {"check_flag"}, tile : 1 .. NofTiles, mode : DataModes, checked : SUBSET Fpgas]

CallType == Seq(StepType) \ {<<>>}

\* Is there such a step among these?
Has(S, do) == \E s \in S : s.do = do
OfF(S, do, f) == \E s \in S : s.do = do /\ s.fpga = f
OfT(S, do, t) == \E s \in S : s.do = do /\ s.tile = t

Clears == {"clear_request", "clear_flag"}
Tells == {"check_later", "check_passed", "check_started"}
Writes == {"write_time", "request", "start_beam"}
Prepares == {"request", "ddc_on", "ddc_off"}

HasTell(S) == \E s \in S : s.do \in Tells
WritesTo(S, f) == \E s \in S : s.do \in Writes /\ s.fpga = f
PreparesFor(S, f) == \E s \in S : s.do \in Prepares /\ s.fpga = f
ChecksOf(S, f) == {s \in S : s.do = "check_flag" /\ f \in s.checked}
ToClear(S, f, m) == \E s \in S : s.do = "clear_flag" /\ s.fpga = f /\ s.mode = m

\* those of the beamformer
BeamTile(s) == IF s.do \in {"abort", "start_beam"} THEN s.fpga[1] ELSE s.tile
BeamSteps == {"abort", "start_beam", "check_started", "leave_if_running"}

\* b may come later than a, in the same call and in another
Across(a, b) ==
  /\ a.do \in {"read_time", "apply_sync_delay"} \cup Writes => b.do # "read_time"
  /\ a.do = "request" => ~(b.do = "apply_sync_delay" /\ b.fpga = a.fpga)

\* ... in the same call
Allowed(a, b) ==
  /\ Across(a, b)
  /\ a.do \notin Tells \cup {"check_flag"}
  /\ a.do \in Clears <=> b.do \in Clears
  /\ a.do \in {"read_time"} \cup Prepares => b.do # "await_no_request"
  /\ a.do = "request" => ~(b.do \in Prepares /\ b.fpga = a.fpga)
  /\ a.do \in BeamSteps /\ b.do \in BeamSteps => BeamTile(a) = BeamTile(b)
  /\ a.do = "leave_if_running" => b.do # "check_flag"
  /\ a.do \in {"start_beam", "abort"} =>
       /\ b.do # "leave_if_running"
       /\ b.do = "start_beam" => a.do = "start_beam" /\ a.duration = b.duration
       /\ b.do = "abort" => a.do = "abort"
       /\ b.do = a.do => a.fpga = <<a.fpga[1], 1>> /\ b.fpga = <<a.fpga[1], 2>>
  /\ a.do = "abort" => b.do # "check_started"

InOrder(c) == \A i, j \in 1 .. Len(c) : i < j => Allowed(c[i], c[j])

\* A call from its beginning on: what is asked for is waited for first, checked or of a
\* narrow band, and what a beamformer is told both FPGAs are told.
CheckedRequest(S, s) ==
  /\ \E c \in ChecksOf(S, s.fpga) : c.mode = s.mode
  /\ ~OfF(S, "ddc_on", s.fpga)

NarrowRequest(S, s) ==
  /\ s.mode = "channelized_mode"
  /\ ~OfT(S, "check_flag", s.fpga[1])
  /\ ~OfF(S, "ddc_off", s.fpga)

StartsBoth(S, s) ==
  /\ OfT(S, "check_started", s.fpga[1])
  /\ s.fpga = <<s.fpga[1], 1>> => OfF(S, "start_beam", <<s.fpga[1], 2>>)

WholeStep(S, s) ==
  /\ s.do \notin Clears
  /\ s.do \in Prepares => OfT(S, "await_no_request", s.fpga[1])
  /\ s.do = "check_flag" => s.checked \subseteq FpgasOf(s.tile) /\ OfT(S, "await_no_request", s.tile)
  /\ s.do = "request" =>
       \/ CheckedRequest(S, s) /\ (s.mode = "channelized_mode" => OfF(S, "ddc_off", s.fpga))
       \/ NarrowRequest(S, s) /\ OfF(S, "ddc_on", s.fpga)
  /\ s.do = "start_beam" => StartsBoth(S, s)
  /\ s.do = "check_started" => OfF(S, "start_beam", <<s.tile, 1>>)
  /\ s.do = "abort" => OfF(S, "abort", <<s.fpga[1], 1>>) /\ OfF(S, "abort", <<s.fpga[1], 2>>)

Whole(S) == \A s \in S : WholeStep(S, s)

\* steps of one call, and of a later one
Between(A, B) ==
  /\ \A a \in A, b \in B : Across(a, b)
  /\ HasTell(A) /\ (\E b \in B : b.do \in Writes \cup {"read_time"}) => HasTell(B)

Shape(cs) ==
  /\ cs \in Seq(CallType)
  /\ \A i \in 1 .. Len(cs) : InOrder(cs[i])
  /\ \A i \in 2 .. Len(cs) : Whole(Range(cs[i]))
  /\ \A i, k \in 1 .. Len(cs) : i < k => Between(Range(cs[i]), Range(cs[k]))

StepsOf(cs) == UNION {Range(cs[i]) : i \in 1 .. Len(cs)}

\* the steps of the first of them, which goes on
Current(cs) == IF cs = <<>> THEN {} ELSE Range(Head(cs))
Now == Current(calls)

Types ==
  /\ flagged \in BOOLEAN /\ holding \in BOOLEAN
  /\ request \in [Fpgas -> SUBSET DataModes]
  /\ late \in [Fpgas -> BOOLEAN]
  /\ invalid \in [Fpgas -> SUBSET DataModes]
  /\ single \in [Fpgas -> BOOLEAN] /\ ddc \in [Fpgas -> BOOLEAN]
  /\ time_left \in [Fpgas -> Passed .. Delay]
  /\ beam \in [Fpgas -> [wait : 0 .. Delay, run : {0} \cup Durations]]
  /\ concerned \in SUBSET Fpgas
  /\ due \in Passed .. Delay
  /\ refused \in BOOLEAN /\ asked \in BOOLEAN
  /\ told \in {"nothing", "ok", "failed"}
  /\ written \in [Fpgas -> Passed .. Delay]

\* a request of narrow band data that came too late
Narrow(f) == late[f] /\ ddc[f] /\ "channelized_mode" \in request[f]

\* what was asked of an FPGA, with S to be done of the call that goes on
AskedOf(S, f) ==
  /\ late[f] => request[f] # {}
  /\ \A m, n \in request[f] : m = n
  /\ \A m \in invalid[f] :
       /\ flagged
       /\ late[f] \/ ToClear(S, f, m)
       /\ Narrow(f) \/ ToClear(S, f, m) \/ \E c \in ChecksOf(S, f) : c.mode = m
  /\ late[f] =>
       \/ Narrow(f)
       \/ OfF(S, "clear_request", f)
       \/ \E c \in ChecksOf(S, f) : IF flagged THEN c.mode \in invalid[f] ELSE due <= 0
  /\ Narrow(f) /\ (OfF(S, "clear_request", f) \/ OfT(S, "check_flag", f[1])) =>
       OfT(S, "await_no_request", f[1])
  /\ PreparesFor(S, f) \/ (Has(S, "read_time") /\ ChecksOf(S, f) # {}) =>
       OfT(S, "await_no_request", f[1]) \/ (request[f] = {} /\ invalid[f] = {})

\* what is going to be asked, and checked
ToAsk(S, s) ==
  /\ s.do = "check_flag" => s.checked \subseteq FpgasOf(s.tile)
  /\ s.do = "request" =>
       \/ /\ CheckedRequest(S, s)
          /\ s.mode = "channelized_mode" => OfF(S, "ddc_off", s.fpga) \/ ~ddc[s.fpga]
       \/ NarrowRequest(S, s) /\ (OfF(S, "ddc_on", s.fpga) \/ ddc[s.fpga])

Asking(S) ==
  /\ \A f \in Fpgas : AskedOf(S, f)
  /\ \A s \in S : ToAsk(S, s)

\* what the beamformers of a tile were told, with S to be done of the call that goes on
BeamOf(S, t) ==
  LET b1 == beam[<<t, 1>>]
      b2 == beam[<<t, 2>>]
  IN /\ ~OfT(S, "check_started", t) /\ ~OfF(S, "abort", <<t, 2>>) => b1 = b2
     /\ OfF(S, "abort", <<t, 1>>) => OfF(S, "abort", <<t, 2>>)
     /\ OfF(S, "abort", <<t, 2>>) /\ ~OfF(S, "abort", <<t, 1>>) => b1 = Off
     /\ OfT(S, "check_started", t) =>
          /\ OfF(S, "start_beam", <<t, 1>>) => b1 = b2
          /\ Has(S, "read_time") => OfF(S, "start_beam", <<t, 1>>)
          /\ due > 0 /\ ~refused /\ ~OfF(S, "start_beam", <<t, 1>>) =>
               /\ ~OfF(S, "start_beam", <<t, 2>>) => b1 = b2
               /\ \A s \in S : s.do = "start_beam" => b1 = [wait |-> due, run |-> s.duration]

ToBeam(S, s) ==
  /\ s.do = "start_beam" => StartsBoth(S, s)
  /\ s.do = "leave_if_running" => \A t \in 1 .. NofTiles : beam[<<t, 1>>] = beam[<<t, 2>>]

Beaming(S) ==
  /\ \A t \in 1 .. NofTiles : BeamOf(S, t)
  /\ \A s \in S : ToBeam(S, s)

\* what is told, with S to be done of the command
Telling(S) ==
  /\ \A s \in S : s.do = "request" => s.fpga \in concerned
  /\ Has(S, "request") \/ asked =>
       \A f \in concerned :
         OfF(S, "apply_sync_delay", f) \/ (~Has(S, "read_time") /\ time_left[f] = due)
  /\ HasTell(S) =>
       \A f \in concerned :
         WritesTo(S, f) \/ (~Has(S, "read_time") /\ written[f] >= due)
  /\ ~HasTell(S) /\ told = "ok" =>
       /\ \A s \in S : s.do \notin Writes \cup {"read_time"}
       /\ \A f \in concerned : InTime(written[f])
  /\ Has(S, "leave_if_running") => ~Has(S, "request") /\ ~asked
  /\ Has(S, "check_later") => concerned = Fpgas

SessionInv ==
  /\ Types /\ Shape(calls) /\ Asking(Now) /\ Beaming(Now) /\ Telling(StepsOf(calls))
-----------------------------------------------------------------------------
(* Sequences of steps, and of calls                                         *)

\* What is known of the rest of a sequence.
LEMMA TailFacts ==
  ASSUME NEW T, NEW s \in Seq(T), s # <<>>
  PROVE  /\ Tail(s) \in Seq(T)
         /\ Len(s) \in Nat \ {0}
         /\ Len(Tail(s)) = Len(s) - 1
         /\ Head(s) = s[1] /\ s[1] \in T
         /\ \A i \in 1 .. Len(s) - 1 : Tail(s)[i] = s[i + 1]
  BY HeadTailProperties, LenProperties, EmptySeq, ElementOfSeq

LEMMA RangeFacts ==
  ASSUME NEW T, NEW s \in Seq(T)
  PROVE  /\ \A x : x \in Range(s) <=> \E i \in 1 .. Len(s) : x = s[i]
         /\ Range(s) \subseteq T
         /\ Len(s) \in Nat
         /\ Range(s) = {} <=> s = <<>>
<1>1. Len(s) \in Nat /\ DOMAIN s = 1 .. Len(s) /\ \A i \in 1 .. Len(s) : s[i] \in T
  BY LenProperties, ElementOfSeq
<1>2. \A x : x \in Range(s) <=> \E i \in 1 .. Len(s) : x = s[i]
  BY <1>1 DEF Range
<1>3. s # <<>> => 1 \in 1 .. Len(s)
  BY <1>1, EmptySeq
<1>4. s = <<>> => Len(s) = 0
  BY EmptySeq
<1>5. Range(s) \subseteq T
  BY <1>1, <1>2
<1>6. s # <<>> => Range(s) # {}
  BY <1>2, <1>3
<1>7. s = <<>> => Range(s) = {}
  BY <1>1, <1>2, <1>4
<1> QED  BY <1>1, <1>2, <1>5, <1>6, <1>7

\* The steps of a sequence are its first and those of the rest.
LEMMA RangeOfTail ==
  ASSUME NEW T, NEW s \in Seq(T), s # <<>>
  PROVE  Range(s) = {Head(s)} \cup Range(Tail(s))
<1> DEFINE n == Len(s)  r == Tail(s)
<1>1. /\ r \in Seq(T) /\ n \in Nat \ {0} /\ Len(r) = n - 1 /\ Head(s) = s[1]
      /\ \A i \in 1 .. n - 1 : r[i] = s[i + 1]
  BY TailFacts
<1>2. /\ \A x : x \in Range(s) <=> \E i \in 1 .. n : x = s[i]
      /\ \A x : x \in Range(r) <=> \E i \in 1 .. n - 1 : x = r[i]
  <2>1. \A x : x \in Range(r) <=> \E i \in 1 .. Len(r) : x = r[i]
    BY <1>1, RangeFacts
  <2> QED  BY <1>1, <2>1, RangeFacts
<1> HIDE DEF n, r
<1>3. ASSUME NEW i \in 1 .. n
      PROVE  s[i] = s[1] \/ \E j \in 1 .. n - 1 : s[i] = r[j]
  <2>1. CASE i = 1
    BY <2>1
  <2>2. CASE i # 1
    <3>1. i - 1 \in 1 .. n - 1 /\ (i - 1) + 1 = i
      BY <1>1, <2>2
    <3> QED  BY <1>1, <3>1
  <2> QED  BY <2>1, <2>2
<1>4. \A j \in 1 .. n - 1 : j + 1 \in 1 .. n /\ r[j] = s[j + 1]
  BY <1>1
<1>5. 1 \in 1 .. n
  BY <1>1
<1>6. \A x : x \in Range(s) <=> x = s[1] \/ x \in Range(r)
  <2>1. ASSUME NEW x \in Range(s)
        PROVE  x = s[1] \/ x \in Range(r)
    <3>1. PICK i \in 1 .. n : x = s[i]
      BY <1>2
    <3>2. x = s[1] \/ \E j \in 1 .. n - 1 : x = r[j]
      BY <1>3, <3>1
    <3> QED  BY <1>2, <3>2
  <2>2. \A x \in Range(r) : x \in Range(s)
    BY <1>2, <1>4, Zenon
  <2>3. s[1] \in Range(s)
    BY <1>2, <1>5, Zenon
  <2> QED  BY <2>1, <2>2, <2>3
<1>7. Range(s) = {s[1]} \cup Range(r)
  BY <1>6
<1>8. Head(s) = s[1]
  BY <1>1
<1> QED  BY <1>7, <1>8 DEF r

LEMMA RangeOfConcat ==
  ASSUME NEW T, NEW s \in Seq(T), NEW t \in Seq(T)
  PROVE  s \o t \in Seq(T) /\ Range(s \o t) = Range(s) \cup Range(t)
<1> DEFINE u == s \o t  m == Len(s)  n == Len(t)
<1>1. /\ u \in Seq(T) /\ Len(u) = m + n /\ m \in Nat /\ n \in Nat
      /\ \A i \in 1 .. m + n : u[i] = IF i <= m THEN s[i] ELSE t[i - m]
  BY ConcatProperties, LenProperties
<1>2. /\ \A x : x \in Range(u) <=> \E i \in 1 .. m + n : x = u[i]
      /\ \A x : x \in Range(s) <=> \E i \in 1 .. m : x = s[i]
      /\ \A x : x \in Range(t) <=> \E i \in 1 .. n : x = t[i]
  <2>1. \A x : x \in Range(u) <=> \E i \in 1 .. Len(u) : x = u[i]
    BY <1>1, RangeFacts
  <2> QED  BY <1>1, <2>1, RangeFacts
<1> HIDE DEF u, m, n
<1>3. ASSUME NEW i \in 1 .. m + n
      PROVE  (\E j \in 1 .. m : u[i] = s[j]) \/ \E j \in 1 .. n : u[i] = t[j]
  <2>1. CASE i <= m
    BY <1>1, <2>1
  <2>2. CASE ~(i <= m)
    <3>1. i - m \in 1 .. n
      BY <1>1, <2>2
    <3> QED  BY <1>1, <2>2, <3>1
  <2> QED  BY <2>1, <2>2
<1>4. ASSUME NEW j \in 1 .. m
      PROVE  j \in 1 .. m + n /\ u[j] = s[j]
  BY <1>1
<1>5. ASSUME NEW j \in 1 .. n
      PROVE  m + j \in 1 .. m + n /\ u[m + j] = t[j]
  <2>1. m + j \in 1 .. m + n /\ ~(m + j <= m) /\ (m + j) - m = j
    BY <1>1
  <2> QED  BY <1>1, <2>1
<1>6. Range(u) = Range(s) \cup Range(t)
  BY <1>2, <1>3, <1>4, <1>5
<1> QED  BY <1>1, <1>6 DEF u

\* What is in order stays so when the first step is done.
LEMMA OrderOfTail ==
  ASSUME NEW c \in CallType, InOrder(c)
  PROVE  /\ Tail(c) \in Seq(StepType) /\ InOrder(Tail(c))
         /\ \A b \in Range(Tail(c)) : Allowed(Head(c), b)
<1> DEFINE n == Len(c)  r == Tail(c)
<1>1. /\ r \in Seq(StepType) /\ n \in Nat \ {0} /\ Len(r) = n - 1 /\ Head(c) = c[1]
      /\ \A i \in 1 .. n - 1 : r[i] = c[i + 1]
  BY TailFacts DEF CallType
<1>2. \A i, j \in 1 .. n : i < j => Allowed(c[i], c[j])
  BY DEF InOrder
<1>3. \A x : x \in Range(r) <=> \E i \in 1 .. n - 1 : x = r[i]
  <2>1. \A x : x \in Range(r) <=> \E i \in 1 .. Len(r) : x = r[i]
    BY <1>1, RangeFacts
  <2> QED  BY <1>1, <2>1
<1> HIDE DEF n, r
<1>4. ASSUME NEW i \in 1 .. n - 1, NEW j \in 1 .. n - 1, i < j
      PROVE  Allowed(r[i], r[j])
  <2>1. i + 1 \in 1 .. n /\ j + 1 \in 1 .. n /\ i + 1 < j + 1
    BY <1>1, <1>4
  <2>2. Allowed(c[i + 1], c[j + 1])
    BY <1>2, <2>1
  <2> QED  BY <1>1, <2>2
<1>5. InOrder(r)
  BY <1>1, <1>4 DEF InOrder
<1>6. ASSUME NEW i \in 1 .. n - 1
      PROVE  Allowed(c[1], r[i])
  <2>1. i + 1 \in 1 .. n /\ 1 \in 1 .. n /\ 1 < i + 1
    BY <1>1
  <2> QED  BY <1>1, <1>2, <2>1
<1> QED  BY <1>1, <1>3, <1>5, <1>6 DEF r

\* Two sequences in order, all steps of one of which may come before those of the other.
LEMMA OrderOfConcat ==
  ASSUME NEW s \in Seq(StepType), NEW t \in Seq(StepType), InOrder(s), InOrder(t),
         \A a \in Range(s), b \in Range(t) : Allowed(a, b)
  PROVE  InOrder(s \o t)
<1> DEFINE u == s \o t  m == Len(s)  n == Len(t)
<1>1. /\ u \in Seq(StepType) /\ Len(u) = m + n /\ m \in Nat /\ n \in Nat
      /\ \A i \in 1 .. m + n : u[i] = IF i <= m THEN s[i] ELSE t[i - m]
  BY ConcatProperties, LenProperties
<1>2. /\ \A x : x \in Range(s) <=> \E i \in 1 .. m : x = s[i]
      /\ \A x : x \in Range(t) <=> \E i \in 1 .. n : x = t[i]
  BY <1>1, RangeFacts
<1>3. /\ \A i, j \in 1 .. m : i < j => Allowed(s[i], s[j])
      /\ \A i, j \in 1 .. n : i < j => Allowed(t[i], t[j])
  BY DEF InOrder
<1> HIDE DEF u, m, n
<1>4. ASSUME NEW i \in 1 .. m + n, NEW j \in 1 .. m + n, i < j
      PROVE  Allowed(u[i], u[j])
  <2>1. CASE j <= m
    <3>1. i \in 1 .. m /\ j \in 1 .. m
      BY <1>1, <1>4, <2>1
    <3> QED  BY <1>1, <1>3, <1>4, <2>1, <3>1
  <2>2. CASE i <= m /\ ~(j <= m)
    <3>1. i \in 1 .. m /\ j - m \in 1 .. n
      BY <1>1, <1>4, <2>2
    <3>2. s[i] \in Range(s) /\ t[j - m] \in Range(t)
      BY <1>2, <3>1
    <3> QED  BY <1>1, <2>2, <3>2
  <2>3. CASE ~(i <= m)
    <3>1. i - m \in 1 .. n /\ j - m \in 1 .. n /\ i - m < j - m /\ ~(j <= m)
      BY <1>1, <1>4, <2>3
    <3> QED  BY <1>1, <1>3, <2>3, <3>1
  <2> QED  BY <1>1, <1>4, <2>1, <2>2, <2>3
<1> QED  BY <1>1, <1>4 DEF u, InOrder

\* the steps of the calls after the first
Later(cs) == StepsOf(Tail(cs))

\* of which no step may come before these
Harmless(S) == \A a \in S : a.do \in Clears \cup {"abort"}

LEMMA StepsFacts ==
  ASSUME NEW cs \in Seq(CallType)
  PROVE  /\ Len(cs) \in Nat
         /\ \A i \in 1 .. Len(cs) : cs[i] \in CallType /\ cs[i] \in Seq(StepType) /\ cs[i] # <<>>
         /\ \A x : x \in StepsOf(cs) <=> \E i \in 1 .. Len(cs) : x \in Range(cs[i])
         /\ StepsOf(cs) \subseteq StepType
<1>1. Len(cs) \in Nat /\ \A i \in 1 .. Len(cs) : cs[i] \in CallType
  BY LenProperties, ElementOfSeq
<1>2. \A i \in 1 .. Len(cs) : cs[i] \in Seq(StepType) /\ cs[i] # <<>>
  BY <1>1 DEF CallType
<1>3. \A x : x \in StepsOf(cs) <=> \E i \in 1 .. Len(cs) : x \in Range(cs[i])
  BY DEF StepsOf
<1>4. \A i \in 1 .. Len(cs) : Range(cs[i]) \subseteq StepType
  BY <1>2, RangeFacts
<1> QED  BY <1>1, <1>2, <1>3, <1>4

LEMMA FirstCall ==
  ASSUME NEW cs, Shape(cs), cs # <<>>
  PROVE  /\ Head(cs) = cs[1] /\ cs[1] \in CallType /\ InOrder(cs[1])
         /\ Len(cs) \in Nat \ {0} /\ Len(Tail(cs)) = Len(cs) - 1
         /\ Tail(cs) \in Seq(CallType)
         /\ \A i \in 1 .. Len(cs) - 1 : Tail(cs)[i] = cs[i + 1]
         /\ \A x : x \in Later(cs) <=> \E k \in 2 .. Len(cs) : x \in Range(cs[k])
         /\ StepsOf(cs) = Range(cs[1]) \cup Later(cs)
         /\ Current(cs) = Range(cs[1])
         /\ Later(cs) \subseteq StepType
<1> DEFINE n == Len(cs)  r == Tail(cs)
<1>1. cs \in Seq(CallType) /\ \A i \in 1 .. n : InOrder(cs[i])
  BY DEF Shape
<1>2. /\ r \in Seq(CallType) /\ n \in Nat \ {0} /\ Len(r) = n - 1 /\ Head(cs) = cs[1]
      /\ cs[1] \in CallType /\ \A i \in 1 .. n - 1 : r[i] = cs[i + 1]
  BY <1>1, TailFacts
<1>3. /\ \A x : x \in StepsOf(cs) <=> \E i \in 1 .. n : x \in Range(cs[i])
      /\ \A x : x \in StepsOf(r) <=> \E i \in 1 .. n - 1 : x \in Range(r[i])
      /\ StepsOf(r) \subseteq StepType
  <2>1. \A x : x \in StepsOf(r) <=> \E i \in 1 .. Len(r) : x \in Range(r[i])
    BY <1>2, StepsFacts
  <2> QED  BY <1>1, <1>2, <2>1, StepsFacts
<1>4. 1 \in 1 .. n /\ InOrder(cs[1])
  BY <1>1, <1>2
<1> HIDE DEF n, r
<1>5. \A x : x \in StepsOf(r) <=> \E k \in 2 .. n : x \in Range(cs[k])
  <2>1. ASSUME NEW x, x \in StepsOf(r)
        PROVE  \E k \in 2 .. n : x \in Range(cs[k])
    <3>1. PICK i \in 1 .. n - 1 : x \in Range(r[i])
      BY <1>3, <2>1
    <3>2. i + 1 \in 2 .. n /\ x \in Range(cs[i + 1])
      BY <1>2, <3>1
    <3> QED  BY <3>2
  <2>2. ASSUME NEW x, NEW k \in 2 .. n, x \in Range(cs[k])
        PROVE  x \in StepsOf(r)
    <3>1. k - 1 \in 1 .. n - 1 /\ (k - 1) + 1 = k
      BY <1>2
    <3>2. x \in Range(r[k - 1])
      BY <1>2, <2>2, <3>1
    <3> QED  BY <1>3, <3>1, <3>2
  <2> QED  BY <2>1, <2>2
<1>6. StepsOf(cs) = Range(cs[1]) \cup StepsOf(r)
  <2>1. ASSUME NEW x, NEW i \in 1 .. n, x \in Range(cs[i])
        PROVE  x \in Range(cs[1]) \/ \E k \in 2 .. n : x \in Range(cs[k])
    <3>1. i = 1 \/ i \in 2 .. n
      BY <1>2
    <3> QED  BY <2>1, <3>1
  <2>2. \A k \in 2 .. n : k \in 1 .. n
    BY <1>2
  <2>3. \A x \in StepsOf(cs) : x \in Range(cs[1]) \cup StepsOf(r)
    BY <1>3, <1>5, <2>1
  <2>4. \A x \in Range(cs[1]) \cup StepsOf(r) : x \in StepsOf(cs)
    BY <1>3, <1>4, <1>5, <2>2
  <2> QED  BY <2>3, <2>4
<1>7. Current(cs) = Range(cs[1])
  BY <1>2 DEF Current
<1> QED  BY <1>2, <1>3, <1>4, <1>5, <1>6, <1>7 DEF n, r, Later

\* What is known of the first step.
LEMMA FirstStep ==
  ASSUME NEW cs, Shape(cs), cs # <<>>
  PROVE  LET a == Head(Head(cs))
             r == Tail(Head(cs))
         IN /\ a \in StepType /\ r \in Seq(StepType) /\ InOrder(r)
            /\ Range(r) \subseteq StepType /\ Later(cs) \subseteq StepType
            /\ Current(cs) = {a} \cup Range(r)
            /\ StepsOf(cs) = ({a} \cup Range(r)) \cup Later(cs)
            /\ \A b \in Range(r) : Allowed(a, b)
            /\ \A b \in Range(r) \cup Later(cs) : Across(a, b)
            /\ (\E b \in Later(cs) : b.do \in Writes \cup {"read_time"}) /\ a.do \in Tells =>
                 HasTell(Later(cs))
<1> DEFINE c == cs[1]  a == Head(c)  r == Tail(c)
<1>1. /\ Head(cs) = c /\ c \in CallType /\ InOrder(c) /\ Len(cs) \in Nat \ {0}
      /\ \A x : x \in Later(cs) <=> \E k \in 2 .. Len(cs) : x \in Range(cs[k])
      /\ StepsOf(cs) = Range(c) \cup Later(cs)
      /\ Current(cs) = Range(c) /\ Later(cs) \subseteq StepType
  BY FirstCall
<1>2. c \in Seq(StepType) /\ c # <<>>
  BY <1>1 DEF CallType
<1>3. r \in Seq(StepType) /\ InOrder(r) /\ \A b \in Range(r) : Allowed(a, b)
  BY <1>1, OrderOfTail
<1>4. Range(c) = {a} \cup Range(r) /\ a \in StepType
  BY <1>2, RangeOfTail, TailFacts
<1>5. Range(r) \subseteq StepType
  BY <1>3, RangeFacts
<1>6. \A k \in 2 .. Len(cs) : Between(Range(c), Range(cs[k]))
  <2>1. ASSUME NEW k \in 2 .. Len(cs)
        PROVE  Between(Range(c), Range(cs[k]))
    <3>1. k \in 1 .. Len(cs) /\ 1 \in 1 .. Len(cs) /\ 1 < k
      BY <1>1
    <3> QED  BY <3>1 DEF Shape
  <2> QED  BY <2>1
<1>7. a \in Range(c)
  BY <1>4
<1> HIDE DEF c, a, r
<1>8. \A b \in Later(cs) : Across(a, b)
  BY <1>1, <1>6, <1>7 DEF Between
<1>9. \A b \in Range(r) : Across(a, b)
  BY <1>3 DEF Allowed
<1>10. ASSUME NEW b \in Later(cs), b.do \in Writes \cup {"read_time"}, a.do \in Tells
       PROVE  HasTell(Later(cs))
  <2>1. PICK k \in 2 .. Len(cs) : b \in Range(cs[k])
    BY <1>1
  <2>2. HasTell(Range(c))
    BY <1>7, <1>10 DEF HasTell
  <2>3. HasTell(Range(cs[k]))
    BY <1>6, <1>10, <2>1, <2>2 DEF Between
  <2> QED  BY <1>1, <2>3 DEF HasTell
<1> QED
  BY <1>1, <1>3, <1>4, <1>5, <1>8, <1>9, <1>10 DEF a, r

\* What is left when the first call has these steps yet, of which there may be none.
LEMMA RestOfCalls ==
  ASSUME NEW cs, Shape(cs), cs # <<>>, NEW s \in Seq(StepType), InOrder(s),
         Range(s) \subseteq Range(Tail(Head(cs))) \/ Harmless(Range(s)),
         NEW ds, ds = IF s = <<>> THEN Tail(cs) ELSE [cs EXCEPT ![1] = s]
  PROVE  /\ Shape(ds)
         /\ StepsOf(ds) = Range(s) \cup Later(cs)
         /\ \/ Current(ds) = Range(s)
            \/ s = <<>> /\ Range(s) = {} /\ Whole(Current(ds)) /\ Current(ds) \subseteq StepType
<1> DEFINE n == Len(cs)  r == Tail(cs)
<1>1. /\ Head(cs) = cs[1] /\ cs[1] \in CallType /\ n \in Nat \ {0} /\ Len(r) = n - 1
      /\ r \in Seq(CallType) /\ \A i \in 1 .. n - 1 : r[i] = cs[i + 1]
      /\ \A x : x \in Later(cs) <=> \E k \in 2 .. n : x \in Range(cs[k])
  BY FirstCall
<1>2. /\ cs \in Seq(CallType)
      /\ \A i \in 1 .. n : InOrder(cs[i])
      /\ \A i \in 2 .. n : Whole(Range(cs[i]))
      /\ \A i, k \in 1 .. n : i < k => Between(Range(cs[i]), Range(cs[k]))
  BY DEF Shape
<1>3. CASE s = <<>>
  <2>1. ds = r /\ Range(s) = {}
    BY <1>3, RangeFacts
  <2>2. StepsOf(ds) = Range(s) \cup Later(cs)
    BY <2>1 DEF Later
  <2> HIDE DEF n, r
  <2>3. ASSUME NEW i \in 1 .. n - 1
        PROVE  InOrder(r[i]) /\ Whole(Range(r[i]))
    <3>1. i + 1 \in 1 .. n /\ i + 1 \in 2 .. n /\ r[i] = cs[i + 1]
      BY <1>1
    <3> QED  BY <1>2, <3>1
  <2>4. ASSUME NEW i \in 1 .. n - 1, NEW k \in 1 .. n - 1, i < k
        PROVE  Between(Range(r[i]), Range(r[k]))
    <3>1. i + 1 \in 1 .. n /\ k + 1 \in 1 .. n /\ i + 1 < k + 1
      BY <1>1, <2>4
    <3> QED  BY <1>1, <1>2, <3>1
  <2>5. Shape(r)
    <3>1. \A i \in 2 .. Len(r) : i \in 1 .. n - 1
      BY <1>1
    <3> QED  BY <1>1, <2>3, <2>4, <3>1 DEF Shape
  <2>6. Whole(Current(r)) /\ Current(r) \subseteq StepType
    <3>1. CASE r = <<>>
      BY <3>1 DEF Current, Whole
    <3>2. CASE r # <<>>
      <4>1. Current(r) = Range(r[1]) /\ r[1] \in CallType /\ Len(r) \in Nat \ {0}
        BY <2>5, <3>2, FirstCall
      <4>2. 1 \in 1 .. n - 1
        BY <1>1, <4>1
      <4>3. r[1] \in Seq(StepType)
        BY <4>1 DEF CallType
      <4> QED  BY <2>3, <4>1, <4>2, <4>3, RangeFacts
    <3> QED  BY <3>1, <3>2
  <2> QED  BY <1>3, <2>1, <2>2, <2>5, <2>6
<1>4. CASE s # <<>>
  <2>1. ds = [cs EXCEPT ![1] = s] /\ s \in CallType
    BY <1>4 DEF CallType
  <2>2. /\ ds \in Seq(CallType) /\ Len(ds) = n /\ ds[1] = s /\ 1 \in 1 .. n
        /\ \A i \in 2 .. n : ds[i] = cs[i]
    <3>1. 1 \in 1 .. n
      BY <1>1
    <3>2. /\ ds \in Seq(CallType) /\ Len(ds) = n
          /\ \A i \in 1 .. n : ds[i] = IF i = 1 THEN s ELSE cs[i]
      BY <1>2, <2>1, <3>1, ExceptSeq
    <3>3. \A i \in 2 .. n : i \in 1 .. n /\ i # 1
      BY <1>1
    <3> HIDE DEF n
    <3> QED  BY <3>1, <3>2, <3>3
  <2>3. \A i \in 1 .. n : i = 1 \/ i \in 2 .. n
    BY <1>1
  <2>4. ASSUME NEW k \in 2 .. n
        PROVE  Between(Range(s), Range(cs[k]))
    <3>1. Between(Range(cs[1]), Range(cs[k]))
      <4>1. k \in 1 .. n /\ 1 \in 1 .. n /\ 1 < k
        BY <1>1
      <4> QED  BY <1>2, <4>1
    <3>2. CASE Range(s) \subseteq Range(Tail(Head(cs)))
      <4>1. Range(Tail(Head(cs))) \subseteq Range(cs[1])
        BY <1>1, RangeOfTail DEF CallType
      <4> QED  BY <3>1, <3>2, <4>1 DEF Between, HasTell
    <3>3. CASE Harmless(Range(s))
      <4>1. \A a \in Range(s) : a.do \notin {"read_time", "apply_sync_delay"} \cup Writes \cup Tells
        BY <3>3 DEF Harmless, Clears, Tells, Writes
      <4> QED  BY <4>1 DEF Between, HasTell, Across, Writes
    <3> QED  BY <3>2, <3>3
  <2>5. ASSUME NEW i \in 1 .. n, NEW k \in 1 .. n, i < k
        PROVE  Between(Range(ds[i]), Range(ds[k]))
    <3>1. k \in 2 .. n
      BY <1>1, <2>5
    <3>2. CASE i = 1
      BY <2>2, <2>4, <3>1, <3>2
    <3>3. CASE i \in 2 .. n
      BY <1>2, <2>2, <2>5, <3>1, <3>3
    <3> QED  BY <2>3, <3>2, <3>3
  <2>6. \A i \in 1 .. n : InOrder(ds[i])
    BY <1>2, <2>2, <2>3
  <2>7. \A i \in 2 .. n : Whole(Range(ds[i]))
    BY <1>2, <2>2
  <2>8. Shape(ds)
    BY <2>2, <2>5, <2>6, <2>7 DEF Shape
  <2>9. ds # <<>>
    BY <1>1, <2>2, EmptySeq
  <2>10. /\ Current(ds) = Range(s) /\ StepsOf(ds) = Range(s) \cup Later(ds)
         /\ \A x : x \in Later(ds) <=> \E k \in 2 .. n : x \in Range(ds[k])
    BY <2>2, <2>8, <2>9, FirstCall
  <2>11. \A x : x \in Later(ds) <=> x \in Later(cs)
    BY <1>1, <2>2, <2>10
  <2>12. Later(ds) = Later(cs)
    BY <2>11
  <2> QED  BY <2>8, <2>10, <2>12
<1> QED  BY <1>3, <1>4

-----------------------------------------------------------------------------
(* A step is done                                                          *)

LEMMA StepFields ==
  ASSUME NEW s \in StepType
  PROVE  /\ s.do \in FpgaSteps \cup {"request", "clear_flag", "start_beam"} => s.fpga \in Fpgas
         /\ s.do \in {"request", "clear_flag", "check_flag"} => s.mode \in DataModes
         /\ s.do = "start_beam" => s.duration \in Durations
         /\ s.do \in TileDoings \cup {"check_flag"} => s.tile \in 1 .. NofTiles
         /\ s.do = "check_flag" => s.checked \subseteq Fpgas
<1>1. CASE s \in [do : {"await_none", "read_time", "check_later", "check_passed"}]
  BY <1>1 DEF FpgaSteps, TileDoings
<1>2. CASE s \in [do : FpgaSteps, fpga : Fpgas]
  BY <1>2 DEF FpgaSteps, TileDoings
<1>3. CASE s \in [do : {"request", "clear_flag"}, fpga : Fpgas, mode : DataModes]
  BY <1>3 DEF FpgaSteps, TileDoings
<1>4. CASE s \in [do : {"start_beam"}, fpga : Fpgas, duration : Durations]
  BY <1>4 DEF FpgaSteps, TileDoings
<1>5. CASE s \in [do : TileDoings, tile : 1 .. NofTiles]
  BY <1>5 DEF FpgaSteps, TileDoings
<1>6. CASE s \in [do : {"check_flag"}, tile : 1 .. NofTiles, mode : DataModes,
                  checked : SUBSET Fpgas]
  BY <1>6 DEF FpgaSteps, TileDoings
<1> QED  BY <1>1, <1>2, <1>3, <1>4, <1>5, <1>6 DEF StepType

LEMMA FpgaFacts ==
  /\ \A f \in Fpgas : /\ f = <<f[1], 1>> \/ f = <<f[1], 2>>
                      /\ f[1] \in 1 .. NofTiles
                      /\ f \in FpgasOf(f[1])
  /\ \A t \in 1 .. NofTiles :
       /\ <<t, 1>> \in Fpgas /\ <<t, 2>> \in Fpgas /\ <<t, 1>> # <<t, 2>>
       /\ <<t, 1>>[1] = t /\ <<t, 2>>[1] = t
       /\ FpgasOf(t) \subseteq Fpgas
       /\ \A f \in FpgasOf(t) : f[1] = t
BY DEF Fpgas, FpgasOf

\* The first step of the call, what follows in it, and in those after it
Doing(a, R, L) ==
  /\ a \in StepType /\ R \subseteq StepType /\ L \subseteq StepType
  /\ Types /\ Asking({a} \cup R) /\ Beaming({a} \cup R) /\ Telling(({a} \cup R) \cup L)
  /\ \A b \in R : Allowed(a, b)
  /\ \A b \in R \cup L : Across(a, b)
  /\ (\E b \in L : b.do \in Writes \cup {"read_time"}) /\ a.do \in Tells => HasTell(L)

Done(R, L) == Types /\ Asking(R) /\ Beaming(R) /\ Telling(R \cup L)

\* A step on which depends nothing of this
LEMMA DropAsking ==
  ASSUME NEW a \in StepType, NEW R \in SUBSET StepType, Asking({a} \cup R),
         a.do \notin Clears \cup {"check_flag", "await_no_request", "ddc_on", "ddc_off"}
  PROVE  Asking(R)
<1>1. /\ \A do \in Clears \cup {"await_no_request", "ddc_off"} : a.do # do
      /\ a.do # "ddc_on" /\ a.do # "check_flag" /\ a.do # "clear_flag" /\ a.do # "clear_request"
  BY DEF Clears
<1>2. /\ \A f : ChecksOf({a} \cup R, f) = ChecksOf(R, f)
      /\ \A t : OfT({a} \cup R, "await_no_request", t) <=> OfT(R, "await_no_request", t)
      /\ \A t : OfT({a} \cup R, "check_flag", t) <=> OfT(R, "check_flag", t)
      /\ \A f : OfF({a} \cup R, "clear_request", f) <=> OfF(R, "clear_request", f)
      /\ \A f : OfF({a} \cup R, "ddc_on", f) <=> OfF(R, "ddc_on", f)
      /\ \A f : OfF({a} \cup R, "ddc_off", f) <=> OfF(R, "ddc_off", f)
      /\ \A f, m : ToClear({a} \cup R, f, m) <=> ToClear(R, f, m)
      /\ \A f : PreparesFor(R, f) => PreparesFor({a} \cup R, f)
      /\ Has(R, "read_time") => Has({a} \cup R, "read_time")
  BY <1>1 DEF ChecksOf, OfT, OfF, ToClear, PreparesFor, Has
<1>3. \A f \in Fpgas : AskedOf(R, f)
  BY <1>2 DEF Asking, AskedOf
<1>4. \A s \in R : ToAsk(R, s)
  BY <1>2 DEF Asking, ToAsk, CheckedRequest, NarrowRequest
<1> QED  BY <1>3, <1>4 DEF Asking

LEMMA DropBeaming ==
  ASSUME NEW a \in StepType, NEW R \in SUBSET StepType, Beaming({a} \cup R),
         a.do \notin {"start_beam", "check_started", "abort"}
  PROVE  Beaming(R)
<1>2. /\ \A t : OfT({a} \cup R, "check_started", t) <=> OfT(R, "check_started", t)
      /\ \A f : OfF({a} \cup R, "abort", f) <=> OfF(R, "abort", f)
      /\ \A f : OfF({a} \cup R, "start_beam", f) <=> OfF(R, "start_beam", f)
      /\ Has(R, "read_time") => Has({a} \cup R, "read_time")
  BY DEF OfT, OfF, Has
<1>3. \A t \in 1 .. NofTiles : BeamOf(R, t)
  BY <1>2 DEF Beaming, BeamOf
<1>4. \A s \in R : ToBeam(R, s)
  BY <1>2 DEF Beaming, ToBeam, StartsBoth
<1> QED  BY <1>3, <1>4 DEF Beaming

LEMMA DropTelling ==
  ASSUME NEW a \in StepType, NEW R \in SUBSET StepType, NEW L \in SUBSET StepType,
         Telling(({a} \cup R) \cup L),
         a.do \notin Tells \cup Writes \cup {"apply_sync_delay"}
  PROVE  Telling(R \cup L)
<1> DEFINE S == ({a} \cup R) \cup L
<1>2. /\ HasTell(S) <=> HasTell(R \cup L)
      /\ \A f : OfF(S, "apply_sync_delay", f) <=> OfF(R \cup L, "apply_sync_delay", f)
      /\ \A f : WritesTo(S, f) <=> WritesTo(R \cup L, f)
      /\ \A do : Has(R \cup L, do) => Has(S, do)
      /\ \A s : s \in R \cup L => s \in S
      /\ Has(S, "request") <=> Has(R \cup L, "request")
  BY DEF HasTell, OfF, WritesTo, Has, Writes
<1>3. Telling(S)
  OBVIOUS
<1> HIDE DEF S
<1> QED  BY <1>2, <1>3 DEF Telling

LEMMA AskingStays ==
  ASSUME NEW S \in SUBSET StepType, Asking(S), UNCHANGED <<flagged, request, late, invalid, ddc, due>>
  PROVE  Asking(S)'
BY DEF Asking, AskedOf, ToAsk, Narrow, CheckedRequest, NarrowRequest

LEMMA BeamingStays ==
  ASSUME NEW S \in SUBSET StepType, Beaming(S), UNCHANGED <<beam, due, refused>>
  PROVE  Beaming(S)'
BY DEF Beaming, BeamOf, ToBeam, StartsBoth

LEMMA TellingStays ==
  ASSUME NEW S \in SUBSET StepType, Telling(S),
         UNCHANGED <<concerned, asked, time_left, due, told, written>>
  PROVE  Telling(S)'
BY DEF Telling, InTime

\* the step this and what follows, none of which is done yet
LEMMA Parts ==
  ASSUME NEW a, NEW R, NEW L, Doing(a, R, L)
  PROVE  /\ a \in StepType /\ R \in SUBSET StepType /\ L \in SUBSET StepType
         /\ Types /\ Asking({a} \cup R) /\ Beaming({a} \cup R) /\ Telling(({a} \cup R) \cup L)
         /\ R \cup L \in SUBSET StepType
BY DEF Doing

LEMMA DoneQuiet ==
  ASSUME NEW a, NEW R, NEW L, Doing(a, R, L),
         a.do \in {"await_none", "set", "check_only"},
         UNCHANGED <<fixed, registers, beam, local>>
  PROVE  Done(R, L)'
<1>1. Asking(R) /\ Beaming(R) /\ Telling(R \cup L)
  BY Parts, DropAsking, DropBeaming, DropTelling DEF Clears, Tells, Writes
<1>2. Asking(R)' /\ Beaming(R)' /\ Telling(R \cup L)'
  BY <1>1, Parts, AskingStays, BeamingStays, TellingStays DEF fixed, registers, local
<1>3. Types'
  BY Parts DEF Types, fixed, registers, local
<1> QED  BY <1>2, <1>3 DEF Done

LEMMA DoneAwaitNoRequest ==
  ASSUME NEW a, NEW R, NEW L, Doing(a, R, L), a.do = "await_no_request",
         \A f \in FpgasOf(a.tile) : request[f] = {},
         UNCHANGED <<fixed, registers, beam, local>>
  PROVE  Done(R, L)'
<1> DEFINE S == {a} \cup R
<1>0. /\ a \in StepType /\ R \in SUBSET StepType /\ L \in SUBSET StepType
      /\ Types /\ Asking(S) /\ Beaming(S) /\ Telling(S \cup L) /\ R \cup L \in SUBSET StepType
  BY Parts
<1>1. Beaming(R) /\ Telling(R \cup L)
  BY <1>0, DropBeaming, DropTelling DEF Tells, Writes
<1>2. /\ \A f : ChecksOf(S, f) = ChecksOf(R, f)
      /\ \A t : t # a.tile =>
                  (OfT(S, "await_no_request", t) <=> OfT(R, "await_no_request", t))
      /\ \A t : OfT(S, "check_flag", t) <=> OfT(R, "check_flag", t)
      /\ \A do, f : OfF(R, do, f) => OfF(S, do, f)
      /\ \A f : OfF(S, "clear_request", f) <=> OfF(R, "clear_request", f)
      /\ \A f : OfF(S, "ddc_on", f) <=> OfF(R, "ddc_on", f)
      /\ \A f : OfF(S, "ddc_off", f) <=> OfF(R, "ddc_off", f)
      /\ \A f, m : ~ToClear(S, f, m)
      /\ \A f, m : ~ToClear(R, f, m)
      /\ \A f : PreparesFor(R, f) => PreparesFor(S, f)
      /\ Has(R, "read_time") => Has(S, "read_time")
  <2>1. \A s \in S : s.do \notin Clears
    BY DEF Doing, Allowed, Clears
  <2> QED  BY <2>1 DEF ChecksOf, OfT, OfF, ToClear, PreparesFor, Has, Clears, Prepares
<1> HIDE DEF S
<1>3. ASSUME NEW f \in Fpgas
      PROVE  AskedOf(R, f)
  <2>1. AskedOf(S, f)
    BY <1>0 DEF Asking
  <2>2. CASE f[1] # a.tile
    BY <1>2, <2>1, <2>2 DEF AskedOf
  <2>3. CASE f[1] = a.tile
    <3>1. request[f] = {}
      BY <2>3, FpgaFacts
    <3>2. ~late[f] /\ ~Narrow(f)
      BY <2>1, <3>1 DEF AskedOf, Narrow
    <3>3. invalid[f] = {}
      BY <1>2, <2>1, <3>2 DEF AskedOf
    <3> QED  BY <2>1, <3>1, <3>2, <3>3 DEF AskedOf
  <2> QED  BY <2>2, <2>3
<1>4. \A s \in R : ToAsk(R, s)
  <2>1. \A s \in R : s \in S
    BY DEF S
  <2> QED  BY <1>0, <1>2, <2>1 DEF Asking, ToAsk, CheckedRequest, NarrowRequest
<1>5. Asking(R)
  BY <1>3, <1>4 DEF Asking
<1>6. Asking(R)' /\ Beaming(R)' /\ Telling(R \cup L)'
  BY <1>0, <1>1, <1>5, AskingStays, BeamingStays, TellingStays DEF fixed, registers, local
<1>7. Types'
  BY <1>0 DEF Types, fixed, registers, local
<1> QED  BY <1>6, <1>7 DEF Done

LEMMA DoneReadTime ==
  ASSUME NEW a, NEW R, NEW L, Doing(a, R, L), a.do = "read_time",
         due' = Delay,
         UNCHANGED <<fixed, registers, beam, concerned, refused, told, asked, written>>
  PROVE  Done(R, L)'
<1> DEFINE S == {a} \cup R
<1>0. /\ a \in StepType /\ R \in SUBSET StepType /\ L \in SUBSET StepType
      /\ Types /\ Asking(S) /\ Beaming(S) /\ Telling(S \cup L) /\ R \cup L \in SUBSET StepType
  BY Parts
<1>1. Asking(R) /\ Beaming(R) /\ Telling(R \cup L)
  BY <1>0, DropAsking, DropBeaming, DropTelling DEF Clears, Tells, Writes
<1>2. /\ Has(S, "read_time") /\ Has(S \cup L, "read_time")
      /\ ~Has(R, "read_time") /\ ~Has(R \cup L, "read_time")
  BY DEF Has, Doing, Across
<1>3. /\ \A f : ChecksOf(S, f) = ChecksOf(R, f)
      /\ \A t : ~OfT(S, "await_no_request", t)
  BY DEF ChecksOf, OfT, Doing, Allowed
<1>4. \A t : /\ OfT(S, "check_started", t) <=> OfT(R, "check_started", t)
             /\ \A f : OfF(S, "start_beam", f) <=> OfF(R, "start_beam", f)
  BY DEF OfT, OfF
<1> HIDE DEF S
<1>5. ASSUME NEW f \in Fpgas
      PROVE  AskedOf(R, f)'
  <2>1. AskedOf(S, f) /\ AskedOf(R, f)
    BY <1>0, <1>1 DEF Asking
  <2>2. CASE ChecksOf(R, f) = {}
    BY <2>1, <2>2 DEF AskedOf, Narrow, fixed, registers
  <2>3. CASE ChecksOf(R, f) # {}
    <3>1. request[f] = {} /\ invalid[f] = {}
      BY <1>2, <1>3, <2>1, <2>3 DEF AskedOf
    <3>2. ~late[f]
      BY <2>1, <3>1 DEF AskedOf
    <3> QED  BY <2>1, <3>1, <3>2 DEF AskedOf, Narrow, fixed, registers
  <2> QED  BY <2>2, <2>3
<1>6. \A s \in R : ToAsk(R, s)'
  BY <1>1 DEF Asking, ToAsk, CheckedRequest, NarrowRequest, registers
<1>7. ASSUME NEW t \in 1 .. NofTiles
      PROVE  BeamOf(R, t)'
  BY <1>0, <1>1, <1>2, <1>4 DEF Beaming, BeamOf
<1>8. \A s \in R : ToBeam(R, s)'
  BY <1>1 DEF Beaming, ToBeam, StartsBoth
<1>9. Telling(R \cup L)'
  <2>1. HasTell(R \cup L) => HasTell(S \cup L)
    BY DEF HasTell, S
  <2>2. HasTell(S \cup L) => HasTell(R \cup L)
    BY DEF HasTell, S, Tells
  <2>3. \A f : WritesTo(S \cup L, f) => WritesTo(R \cup L, f)
    BY DEF WritesTo, S, Writes
  <2>4. \A f : OfF(S \cup L, "apply_sync_delay", f) => OfF(R \cup L, "apply_sync_delay", f)
    BY DEF OfF, S
  <2>5. Has(S \cup L, "request") <=> Has(R \cup L, "request")
    BY DEF Has, S
  <2>6. ~(~HasTell(R \cup L) /\ told = "ok")
    <3>1. a \in S \cup L
      BY DEF S
    <3> QED  BY <1>0, <2>2, <3>1 DEF Telling
  <2> QED
    BY <1>0, <1>1, <1>2, <2>1, <2>2, <2>3, <2>4, <2>5, <2>6 DEF Telling
<1>10. Types'
  <2>1. Delay \in Passed .. Delay
    BY DEF Passed
  <2> QED  BY <1>0, <2>1 DEF Types, fixed, registers
<1> QED  BY <1>5, <1>6, <1>7, <1>8, <1>9, <1>10 DEF Done, Asking, Beaming

\* The time is written to an FPGA.
LEMMA ToldInTime ==
  ASSUME NEW a, NEW R, NEW L, Doing(a, R, L), a.do \in Writes, a.fpga \in Fpgas,
         written' = [written EXCEPT ![a.fpga] = due],
         UNCHANGED <<concerned, due, told>>, Types,
         time_left' = time_left,
         (asked' = asked) \/ (a.do = "request" /\ asked' = TRUE)
  PROVE  Telling(R \cup L)'
<1> DEFINE S == ({a} \cup R) \cup L  Q == R \cup L
<1>1. Telling(S) /\ a \in S
  BY Parts
<1>2. /\ \A b \in Q : Across(a, b)
      /\ ~Has(Q, "read_time")
  BY DEF Doing, Across, Has
<1>3. /\ HasTell(S) <=> HasTell(Q)
      /\ \A f : f # a.fpga /\ WritesTo(S, f) => WritesTo(Q, f)
      /\ \A f : OfF(S, "apply_sync_delay", f) => OfF(Q, "apply_sync_delay", f)
      /\ \A do : Has(Q, do) => Has(S, do)
      /\ a.do = "request" => Has(S, "request")
      /\ Q \subseteq S
  BY DEF HasTell, WritesTo, OfF, Has, Writes, Tells
<1>4. HasTell(S) \/ told # "ok"
  BY <1>1 DEF Telling
<1> HIDE DEF S, Q
<1>5. \A s \in Q : s.do = "request" => s.fpga \in concerned
  BY <1>1, <1>3 DEF Telling
<1>6. Has(Q, "request") \/ asked' =>
        \A f \in concerned : OfF(Q, "apply_sync_delay", f) \/ time_left[f] = due
  BY <1>1, <1>3 DEF Telling, Types
<1>7. \A f \in Fpgas : written'[f] = IF f = a.fpga THEN due ELSE written[f]
  BY DEF Types
<1>8. HasTell(Q) => \A f \in concerned : WritesTo(Q, f) \/ written'[f] >= due
  <2>1. SUFFICES ASSUME HasTell(Q), NEW f \in concerned, ~WritesTo(Q, f)
                 PROVE  written'[f] >= due
    OBVIOUS
  <2>2. f \in Fpgas
    BY DEF Types
  <2>3. CASE f = a.fpga
    BY <1>7, <2>1, <2>2, <2>3 DEF Types
  <2>4. CASE f # a.fpga
    BY <1>1, <1>3, <1>7, <2>1, <2>2, <2>4 DEF Telling
  <2> QED  BY <2>3, <2>4
<1>9. Has(Q, "leave_if_running") => ~Has(Q, "request") /\ ~asked'
  BY <1>1, <1>3 DEF Telling, Types
<1>10. Has(Q, "check_later") => concerned = Fpgas
  BY <1>1, <1>3 DEF Telling
<1> QED
  BY <1>2, <1>3, <1>4, <1>5, <1>6, <1>8, <1>9, <1>10 DEF Telling, Q

LEMMA DoneWrite ==
  ASSUME NEW a, NEW R, NEW L, Doing(a, R, L), a.do = "write_time",
         written' = [written EXCEPT ![a.fpga] = due],
         UNCHANGED <<fixed, registers, beam, concerned, due, refused, told, asked>>
  PROVE  Done(R, L)'
<1>1. Asking(R) /\ Beaming(R)
  BY Parts, DropAsking, DropBeaming DEF Clears
<1>2. a.fpga \in Fpgas
  BY Parts, StepFields DEF FpgaSteps
<1>3. Asking(R)' /\ Beaming(R)'
  BY <1>1, Parts, AskingStays, BeamingStays DEF fixed, registers
<1>4. Telling(R \cup L)'
  <2>1. (asked' = asked) \/ (a.do = "request" /\ asked' = TRUE)
    OBVIOUS
  <2> QED  BY <1>2, <2>1, Parts, ToldInTime DEF Writes, registers
<1>5. Types'
  BY <1>2, Parts DEF Types, fixed, registers
<1> QED  BY <1>3, <1>4, <1>5 DEF Done

LEMMA DoneApplySyncDelay ==
  ASSUME NEW a, NEW R, NEW L, Doing(a, R, L), a.do = "apply_sync_delay",
         time_left' = [time_left EXCEPT ![a.fpga] = due],
         UNCHANGED <<fixed, request, late, invalid, single, ddc, beam, local>>
  PROVE  Done(R, L)'
<1> DEFINE S == ({a} \cup R) \cup L  Q == R \cup L
<1>1. Asking(R) /\ Beaming(R)
  BY Parts, DropAsking, DropBeaming DEF Clears
<1>2. a.fpga \in Fpgas /\ concerned \subseteq Fpgas
  BY Parts, StepFields DEF FpgaSteps, Types
<1>3. Asking(R)' /\ Beaming(R)'
  BY <1>1, Parts, AskingStays, BeamingStays DEF fixed, local
<1>4. Telling(S)
  BY Parts
<1>5. ~Has(Q, "read_time")
  BY DEF Doing, Across, Has
<1>6. /\ HasTell(S) <=> HasTell(Q)
      /\ \A f : WritesTo(S, f) <=> WritesTo(Q, f)
      /\ \A f : f # a.fpga /\ OfF(S, "apply_sync_delay", f) => OfF(Q, "apply_sync_delay", f)
      /\ \A do : Has(Q, do) => Has(S, do)
      /\ Q \subseteq S
  BY DEF HasTell, WritesTo, OfF, Has, Writes, Tells
<1> HIDE DEF S, Q
<1>7. \A f \in Fpgas : time_left'[f] = IF f = a.fpga THEN due ELSE time_left[f]
  BY Parts DEF Types
<1>8. Telling(Q)'
  BY <1>2, <1>4, <1>5, <1>6, <1>7 DEF Telling, InTime, local
<1>9. Types'
  BY <1>2, Parts DEF Types, fixed, local
<1> QED  BY <1>3, <1>8, <1>9 DEF Done, Q

LEMMA DoneSingle ==
  ASSUME NEW a, NEW R, NEW L, Doing(a, R, L),
         a.do \in {"single_channel_on", "single_channel_off"},
         single' = [single EXCEPT ![a.fpga] = a.do = "single_channel_on"],
         UNCHANGED <<fixed, request, late, invalid, ddc, time_left, beam, local>>
  PROVE  Done(R, L)'
<1>1. Asking(R) /\ Beaming(R) /\ Telling(R \cup L)
  BY Parts, DropAsking, DropBeaming, DropTelling DEF Clears, Tells, Writes
<1>2. Asking(R)' /\ Beaming(R)' /\ Telling(R \cup L)'
  BY <1>1, Parts, AskingStays, BeamingStays, TellingStays DEF fixed, local
<1>3. a.fpga \in Fpgas
  BY Parts, StepFields DEF FpgaSteps
<1>4. Types'
  BY <1>3, Parts DEF Types, fixed, local
<1> QED  BY <1>2, <1>4 DEF Done

LEMMA DoneDdc ==
  ASSUME NEW a, NEW R, NEW L, Doing(a, R, L), a.do \in {"ddc_on", "ddc_off"},
         ddc' = [ddc EXCEPT ![a.fpga] = a.do = "ddc_on"],
         UNCHANGED <<fixed, request, late, invalid, single, time_left, beam, local>>
  PROVE  Done(R, L)'
<1> DEFINE S == {a} \cup R  g == a.fpga
<1>0. /\ a \in StepType /\ R \in SUBSET StepType /\ L \in SUBSET StepType
      /\ Types /\ Asking(S) /\ Beaming(S) /\ Telling(S \cup L) /\ R \cup L \in SUBSET StepType
  BY Parts
<1>1. Beaming(R) /\ Telling(R \cup L)
  BY <1>0, DropBeaming, DropTelling DEF Tells, Writes
<1>2. Beaming(R)' /\ Telling(R \cup L)'
  BY <1>0, <1>1, BeamingStays, TellingStays DEF local
<1>3. g \in Fpgas /\ \A f \in Fpgas : ddc'[f] = IF f = g THEN a.do = "ddc_on" ELSE ddc[f]
  BY <1>0, StepFields DEF FpgaSteps, Types
<1>4. /\ \A f : ChecksOf(S, f) = ChecksOf(R, f)
      /\ \A do, t : do \notin {"ddc_on", "ddc_off"} => (OfT(S, do, t) <=> OfT(R, do, t))
      /\ \A do, f : do \notin {"ddc_on", "ddc_off"} => (OfF(S, do, f) <=> OfF(R, do, f))
      /\ \A do, f : OfF(R, do, f) => OfF(S, do, f)
      /\ \A do, f : f # g => (OfF(S, do, f) <=> OfF(R, do, f))
      /\ a.do = "ddc_on" => OfF(S, "ddc_on", g) /\ \A f : OfF(S, "ddc_off", f) <=> OfF(R, "ddc_off", f)
      /\ a.do = "ddc_off" => OfF(S, "ddc_off", g) /\ \A f : OfF(S, "ddc_on", f) <=> OfF(R, "ddc_on", f)
      /\ \A f, m : ToClear(S, f, m) <=> ToClear(R, f, m)
      /\ \A f : PreparesFor(R, f) => PreparesFor(S, f)
      /\ PreparesFor(S, g)
      /\ Has(R, "read_time") => Has(S, "read_time")
      /\ \A s \in R : s \in S
  BY DEF ChecksOf, OfT, OfF, ToClear, PreparesFor, Has, Prepares
<1>5. ~OfT(S, "await_no_request", g[1])
  BY DEF OfT, Doing, Allowed, Prepares
<1> HIDE DEF S, g
<1>6. ASSUME NEW f \in Fpgas
      PROVE  AskedOf(R, f)'
  <2>1. AskedOf(S, f)
    BY <1>0 DEF Asking
  <2>2. CASE f = g
    <3>1. request[f] = {} /\ invalid[f] = {}
      BY <1>4, <1>5, <2>1, <2>2 DEF AskedOf
    <3>2. ~late[f]
      BY <2>1, <3>1 DEF AskedOf
    <3> QED  BY <3>1, <3>2 DEF AskedOf, Narrow, fixed, local
  <2>3. CASE f # g
    <3>1. Narrow(f)' <=> Narrow(f)
      BY <1>3, <2>3 DEF Narrow
    <3>2. /\ \A t : OfT(S, "await_no_request", t) <=> OfT(R, "await_no_request", t)
          /\ \A t : OfT(S, "check_flag", t) <=> OfT(R, "check_flag", t)
          /\ OfF(S, "clear_request", f) <=> OfF(R, "clear_request", f)
      BY <1>4
    <3> QED  BY <1>4, <2>1, <2>3, <3>1, <3>2 DEF AskedOf, fixed, local
  <2> QED  BY <2>2, <2>3
<1>7. ASSUME NEW s \in R
      PROVE  ToAsk(R, s)'
  <2>1. ToAsk(S, s)
    BY <1>0, <1>4 DEF Asking
  <2>2. CASE s.do # "request"
    BY <2>1, <2>2 DEF ToAsk
  <2>3. CASE s.do = "request"
    <3>1. s.fpga \in Fpgas
      BY <1>0, <2>3, StepFields
    <3>2. \A f : OfT(S, "check_flag", f) <=> OfT(R, "check_flag", f)
      BY <1>4
    <3>3. CASE /\ CheckedRequest(S, s)
               /\ s.mode = "channelized_mode" => OfF(S, "ddc_off", s.fpga) \/ ~ddc[s.fpga]
      <4>1. CheckedRequest(R, s)
        BY <1>4, <3>3 DEF CheckedRequest
      <4>2. a.do = "ddc_on" => s.fpga # g
        BY <1>4, <3>3 DEF CheckedRequest
      <4>3. s.mode = "channelized_mode" => OfF(R, "ddc_off", s.fpga) \/ ~ddc'[s.fpga]
        BY <1>3, <1>4, <3>1, <3>3, <4>2
      <4> QED  BY <2>1, <2>3, <4>1, <4>3 DEF ToAsk
    <3>4. CASE NarrowRequest(S, s) /\ (OfF(S, "ddc_on", s.fpga) \/ ddc[s.fpga])
      <4>1. NarrowRequest(R, s)
        BY <1>4, <3>2, <3>4 DEF NarrowRequest
      <4>2. OfF(R, "ddc_on", s.fpga) \/ ddc'[s.fpga]
        BY <1>3, <1>4, <3>1, <3>4 DEF NarrowRequest
      <4> QED  BY <2>1, <2>3, <4>1, <4>2 DEF ToAsk
    <3> QED  BY <2>1, <2>3, <3>3, <3>4 DEF ToAsk
  <2> QED  BY <2>2, <2>3
<1>8. Types'
  BY <1>0, <1>3 DEF Types, fixed, local, g
<1> QED  BY <1>2, <1>6, <1>7, <1>8 DEF Done, Asking

LEMMA DoneRequest ==
  ASSUME NEW a, NEW R, NEW L, Doing(a, R, L), a.do = "request",
         NEW passed, passed = (time_left[a.fpga] <= 0),
         request' = [request EXCEPT ![a.fpga] = @ \cup {a.mode}],
         late' = [late EXCEPT ![a.fpga] = passed],
         invalid' = [invalid EXCEPT ![a.fpga] = IF passed /\ flagged THEN @ \cup {a.mode} ELSE @],
         written' = [written EXCEPT ![a.fpga] = time_left[a.fpga]],
         asked' = TRUE,
         UNCHANGED <<fixed, single, ddc, time_left, beam, concerned, due, refused, told>>
  PROVE  Done(R, L)'
<1> DEFINE S == {a} \cup R  g == a.fpga  m == a.mode
<1>0. /\ a \in StepType /\ R \in SUBSET StepType /\ L \in SUBSET StepType
      /\ Types /\ Asking(S) /\ Beaming(S) /\ Telling(S \cup L) /\ R \cup L \in SUBSET StepType
  BY Parts
<1>1. Beaming(R)'
  <2>1. Beaming(R)
    BY <1>0, DropBeaming
  <2> QED  BY <1>0, <2>1, BeamingStays
<1>2. g \in Fpgas /\ m \in DataModes
  BY <1>0, StepFields
<1>3. /\ \A f : ChecksOf(S, f) = ChecksOf(R, f)
      /\ \A do, t : OfT(S, do, t) /\ do # "request" => OfT(R, do, t)
      /\ \A do, t : OfT(R, do, t) => OfT(S, do, t)
      /\ \A do, f : OfF(S, do, f) /\ do # "request" => OfF(R, do, f)
      /\ \A do, f : OfF(R, do, f) => OfF(S, do, f)
      /\ \A f, n : ToClear(S, f, n) <=> ToClear(R, f, n)
      /\ \A f : PreparesFor(R, f) => PreparesFor(S, f)
      /\ PreparesFor(S, g)
      /\ \A s \in R : s \in S
      /\ a \in S
  BY DEF ChecksOf, OfT, OfF, ToClear, PreparesFor, Has, Prepares
<1>4. /\ ~OfT(S, "await_no_request", g[1])
      /\ ~PreparesFor(R, g)
      /\ ~OfF(R, "ddc_on", g) /\ ~OfF(R, "ddc_off", g)
      /\ ~Has(R, "read_time")
      /\ ~OfF(R, "clear_request", g)
      /\ ~OfF(S \cup L, "apply_sync_delay", g)
      /\ \A s \in R : s.do = "request" => s.fpga # g
  BY DEF OfT, OfF, Has, PreparesFor, Doing, Allowed, Across, Prepares, Writes, Clears
<1>5. Has(S \cup L, "request")
  BY DEF Has
<1> HIDE DEF S, g, m
<1>6. g \in concerned /\ time_left[g] = due /\ concerned \subseteq Fpgas
  <2>1. a \in S \cup L
    BY <1>3
  <2> QED  BY <1>0, <1>4, <1>5, <2>1 DEF Telling, Types, g
<1>7. AskedOf(S, g) /\ ToAsk(S, a)
  BY <1>0, <1>2, <1>3 DEF Asking
<1>8. request[g] = {} /\ invalid[g] = {}
  BY <1>3, <1>4, <1>7 DEF AskedOf
<1>9. /\ request'[g] = {m} /\ late'[g] = passed
      /\ invalid'[g] = IF passed /\ flagged THEN {m} ELSE {}
      /\ \A f \in Fpgas : f # g => /\ request'[f] = request[f]
                                   /\ late'[f] = late[f]
                                   /\ invalid'[f] = invalid[f]
  BY <1>0, <1>2, <1>8 DEF Types, g, m
<1>10. passed => due <= 0
  BY <1>6 DEF g
<1>11. \/ (\E c \in ChecksOf(R, g) : c.mode = m) /\ (m = "channelized_mode" => ~ddc[g])
       \/ m = "channelized_mode" /\ ddc[g] /\ ~OfT(R, "check_flag", g[1])
  <2>1. CASE CheckedRequest(S, a) /\ (m = "channelized_mode" => OfF(S, "ddc_off", g) \/ ~ddc[g])
    BY <1>3, <1>4, <2>1 DEF CheckedRequest, g, m
  <2>2. CASE NarrowRequest(S, a) /\ (OfF(S, "ddc_on", g) \/ ddc[g])
    BY <1>3, <1>4, <2>2 DEF NarrowRequest, g, m
  <2> QED  BY <1>7, <2>1, <2>2 DEF ToAsk, g, m
<1>12. ASSUME NEW f \in Fpgas
       PROVE  AskedOf(R, f)'
  <2>1. CASE f # g
    <3>1. AskedOf(S, f)
      BY <1>0 DEF Asking
    <3>2. Narrow(f)' <=> Narrow(f)
      BY <1>9, <2>1 DEF Narrow
    <3>3. /\ \A t : OfT(S, "await_no_request", t) <=> OfT(R, "await_no_request", t)
          /\ \A t : OfT(S, "check_flag", t) <=> OfT(R, "check_flag", t)
          /\ OfF(S, "clear_request", f) <=> OfF(R, "clear_request", f)
      BY <1>3
    <3> QED  BY <1>3, <1>4, <1>9, <2>1, <3>1, <3>2, <3>3 DEF AskedOf, fixed
  <2>2. CASE f = g
    <3>1. Narrow(g)' <=> passed /\ ddc[g] /\ m = "channelized_mode"
      BY <1>9 DEF Narrow
    <3>2. (late[g] => request[g] # {})' /\ (\A k, n \in request[g] : k = n)'
      BY <1>9
    <3>3. ASSUME NEW n \in invalid'[g]
          PROVE  flagged' /\ late'[g] /\ (Narrow(g)' \/ \E c \in ChecksOf(R, g) : c.mode = n)
      BY <1>9, <1>11, <3>1, <3>3 DEF fixed
    <3>4. ASSUME late'[g]
          PROVE  Narrow(g)' \/ \E c \in ChecksOf(R, g) : IF flagged' THEN c.mode \in invalid'[g] ELSE due' <= 0
      <4>1. passed
        BY <1>9, <3>4
      <4>2. CASE flagged
        BY <1>9, <1>11, <3>1, <4>1, <4>2 DEF fixed
      <4>3. CASE ~flagged
        BY <1>10, <1>11, <3>1, <4>1, <4>3 DEF fixed
      <4> QED  BY <4>2, <4>3
    <3>5. ~(Narrow(g)' /\ (OfF(R, "clear_request", g) \/ OfT(R, "check_flag", g[1])))
      BY <1>4, <1>11, <3>1
    <3>6. ~(PreparesFor(R, g) \/ (Has(R, "read_time") /\ ChecksOf(R, g) # {}))
      BY <1>4
    <3> HIDE DEF Narrow
    <3> QED  BY <2>2, <3>2, <3>3, <3>4, <3>5, <3>6 DEF AskedOf
  <2> QED  BY <2>1, <2>2
<1>13. ASSUME NEW s \in R
       PROVE  ToAsk(R, s)'
  <2>1. ToAsk(S, s)
    BY <1>0, <1>3 DEF Asking
  <2>2. /\ \A t : OfT(S, "check_flag", t) <=> OfT(R, "check_flag", t)
        /\ \A f : OfF(S, "ddc_on", f) <=> OfF(R, "ddc_on", f)
        /\ \A f : OfF(S, "ddc_off", f) <=> OfF(R, "ddc_off", f)
    BY <1>3
  <2>3. /\ CheckedRequest(S, s) <=> CheckedRequest(R, s)
        /\ NarrowRequest(S, s) <=> NarrowRequest(R, s)
    BY <1>3, <2>2 DEF CheckedRequest, NarrowRequest
  <2> QED  BY <2>1, <2>2, <2>3 DEF ToAsk
<1>14. Telling(R \cup L)'
  <2>1. written' = [written EXCEPT ![a.fpga] = due]
    BY <1>6 DEF g
  <2> QED  BY <1>0, <1>2, <2>1, ToldInTime DEF Writes, g
<1>15. Types'
  <2>1. request' \in [Fpgas -> SUBSET DataModes] /\ invalid' \in [Fpgas -> SUBSET DataModes]
    BY <1>0, <1>2 DEF Types, g, m
  <2>2. late' \in [Fpgas -> BOOLEAN]
    BY <1>0, <1>2 DEF Types, g
  <2>3. written' \in [Fpgas -> Passed .. Delay]
    BY <1>0, <1>2 DEF Types, g
  <2> QED  BY <1>0, <2>1, <2>2, <2>3 DEF Types, fixed
<1> QED  BY <1>1, <1>12, <1>13, <1>14, <1>15 DEF Done, Asking

\* After a check, and what is told of it, the call is over.
LEMMA LastOfCall ==
  ASSUME NEW a, NEW R, NEW L, Doing(a, R, L), a.do \in Tells \cup {"check_flag"}
  PROVE  R = {}
BY DEF Doing, Allowed

LEMMA DoneCheckValid ==
  ASSUME NEW a, NEW R, NEW L, Doing(a, R, L), a.do = "check_flag",
         IF flagged THEN \A f \in a.checked : a.mode \notin invalid[f] ELSE due > 0,
         UNCHANGED <<fixed, registers, beam, local>>
  PROVE  Done(R, L)'
<1> DEFINE S == {a} \cup R
<1>0. /\ a \in StepType /\ R \in SUBSET StepType /\ L \in SUBSET StepType
      /\ Types /\ Asking(S) /\ Beaming(S) /\ Telling(S \cup L) /\ R \cup L \in SUBSET StepType
      /\ R = {}
  BY Parts, LastOfCall
<1>1. Beaming(R) /\ Telling(R \cup L)
  BY <1>0, DropBeaming, DropTelling DEF Tells, Writes
<1>2. /\ \A c, f : c \in ChecksOf(S, f) => c = a /\ f \in a.checked
      /\ \A f, m : ~ToClear(S, f, m)
      /\ \A f : ~OfF(S, "clear_request", f)
      /\ \A f : ~PreparesFor(R, f) /\ ~OfF(R, "clear_request", f)
      /\ \A t : ~OfT(R, "check_flag", t)
      /\ ~Has(R, "read_time")
  BY <1>0 DEF ChecksOf, ToClear, OfF, OfT, PreparesFor, Has
<1> HIDE DEF S
<1>3. ASSUME NEW f \in Fpgas
      PROVE  AskedOf(R, f)
  <2>1. AskedOf(S, f)
    BY <1>0 DEF Asking
  <2>2. ASSUME NEW m \in invalid[f]
        PROVE  flagged /\ late[f] /\ Narrow(f)
    BY <1>2, <2>1 DEF AskedOf
  <2>3. late[f] => Narrow(f)
    <3>1. ~\E c \in ChecksOf(S, f) : IF flagged THEN c.mode \in invalid[f] ELSE due <= 0
      BY <1>0, <1>2 DEF Types, Passed
    <3> QED  BY <1>2, <2>1, <3>1 DEF AskedOf
  <2> QED  BY <1>2, <2>1, <2>2, <2>3 DEF AskedOf
<1>4. Asking(R)
  BY <1>0, <1>3 DEF Asking
<1>5. Asking(R)' /\ Beaming(R)' /\ Telling(R \cup L)'
  BY <1>0, <1>1, <1>4, AskingStays, BeamingStays, TellingStays DEF fixed, registers, local
<1>6. Types'
  BY <1>0 DEF Types, fixed, registers, local
<1> QED  BY <1>5, <1>6 DEF Done

\* The request of the tile and the flags that were checked are to be cleared.
ClearsTile(Q, c, fl) ==
  /\ Q \subseteq StepType
  /\ \A s \in Q : /\ s.do \in Clears
                  /\ s.do = "clear_request" => s.fpga \in FpgasOf(c.tile)
  /\ \A f \in FpgasOf(c.tile) :
       /\ OfF(Q, "clear_request", f)
       /\ fl /\ f \in c.checked => ToClear(Q, f, c.mode)

LEMMA DoneCheckInvalid ==
  ASSUME NEW a, NEW R, NEW L, Doing(a, R, L), a.do = "check_flag",
         NEW Q, ClearsTile(Q, a, flagged),
         UNCHANGED <<fixed, registers, beam, local>>
  PROVE  Done(Q, L)'
<1> DEFINE S == {a} \cup R
<1>0. /\ a \in StepType /\ R \in SUBSET StepType /\ L \in SUBSET StepType
      /\ Types /\ Asking(S) /\ Beaming(S) /\ Telling(S \cup L) /\ R \cup L \in SUBSET StepType
      /\ R = {} /\ Q \in SUBSET StepType /\ Q \cup L \in SUBSET StepType
      /\ \A s \in Q : s.do \in Clears
  BY Parts, LastOfCall DEF ClearsTile
<1>1. Beaming(R) /\ Telling(R \cup L)
  BY <1>0, DropBeaming, DropTelling DEF Tells, Writes
<1>2. Beaming(Q)
  <2>1. \A do : do \notin Clears => \A t : ~OfT(Q, do, t) /\ ~OfF(Q, do, t) /\ ~Has(Q, do)
    BY <1>0 DEF OfT, OfF, Has
  <2>2. /\ \A t : ~OfT(R, "check_started", t)
        /\ \A f : ~OfF(R, "abort", f)
    BY <1>0 DEF OfT, OfF
  <2>3. /\ \A t : ~OfT(Q, "check_started", t)
        /\ \A f : ~OfF(Q, "abort", f)
    BY <2>1 DEF Clears
  <2>4. \A t \in 1 .. NofTiles : BeamOf(Q, t)
    BY <1>1, <2>2, <2>3 DEF Beaming, BeamOf
  <2>5. \A s \in Q : ToBeam(Q, s)
    BY <1>0 DEF Clears, ToBeam
  <2> QED  BY <2>4, <2>5 DEF Beaming
<1>3. Telling(Q \cup L)
  <2>1. /\ HasTell(R \cup L) <=> HasTell(Q \cup L)
        /\ \A f : OfF(R \cup L, "apply_sync_delay", f) <=> OfF(Q \cup L, "apply_sync_delay", f)
        /\ \A f : WritesTo(R \cup L, f) <=> WritesTo(Q \cup L, f)
        /\ \A do \in {"request", "read_time", "leave_if_running", "check_later"} : Has(R \cup L, do) <=> Has(Q \cup L, do)
        /\ \A s \in Q \cup L : s \in R \cup L \/ s.do \notin Writes \cup {"read_time"}
        /\ \A s \in Q \cup L : s.do = "request" => s \in R \cup L
    BY <1>0 DEF HasTell, OfF, WritesTo, Has, Clears, Writes, Tells
  <2> QED  BY <1>1, <2>1 DEF Telling
<1>4. /\ \A c, f : c \in ChecksOf(S, f) => c = a /\ f \in a.checked
      /\ \A f, m : ~ToClear(S, f, m)
      /\ \A f : ~OfF(S, "clear_request", f)
      /\ \A t : ~OfT(S, "await_no_request", t)
      /\ OfT(S, "check_flag", a.tile)
      /\ \A f : ~PreparesFor(Q, f)
      /\ \A f : ChecksOf(Q, f) = {}
      /\ \A t : ~OfT(Q, "check_flag", t)
      /\ a.checked \subseteq FpgasOf(a.tile)
  <2>1. a \in S
    OBVIOUS
  <2> QED
    BY <1>0, <2>1 DEF ChecksOf, ToClear, OfF, OfT, PreparesFor, Clears, Prepares, Asking, ToAsk
<1> HIDE DEF S
<1>5. ASSUME NEW f \in Fpgas
      PROVE  AskedOf(Q, f)
  <2>1. AskedOf(S, f)
    BY <1>0 DEF Asking
  <2>2. f[1] = a.tile => ~Narrow(f)
    BY <1>4, <2>1 DEF AskedOf
  <2>3. OfF(Q, "clear_request", f) => f[1] = a.tile
    <3>1. a.tile \in 1 .. NofTiles
      BY <1>0, StepFields
    <3>2. OfF(Q, "clear_request", f) => f \in FpgasOf(a.tile)
      BY DEF ClearsTile, OfF
    <3> QED  BY <3>1, <3>2, FpgaFacts
  <2>4. ASSUME NEW m \in invalid[f]
        PROVE  flagged /\ late[f] /\ (Narrow(f) \/ ToClear(Q, f, m))
    BY <1>4, <2>1 DEF AskedOf, ClearsTile
  <2>5. late[f] => Narrow(f) \/ OfF(Q, "clear_request", f)
    BY <1>4, <2>1 DEF AskedOf, ClearsTile
  <2> QED  BY <1>4, <2>1, <2>2, <2>3, <2>4, <2>5 DEF AskedOf
<1>6. Asking(Q)
  BY <1>0, <1>5 DEF Asking, ToAsk, Clears
<1>7. Asking(Q)' /\ Beaming(Q)' /\ Telling(Q \cup L)'
  BY <1>0, <1>2, <1>3, <1>6, AskingStays, BeamingStays, TellingStays DEF fixed, registers, local
<1>8. Types'
  BY <1>0 DEF Types, fixed, registers, local
<1> QED  BY <1>7, <1>8 DEF Done

LEMMA DoneClearRequest ==
  ASSUME NEW a, NEW R, NEW L, Doing(a, R, L), a.do = "clear_request",
         request' = [request EXCEPT ![a.fpga] = {}],
         late' = [late EXCEPT ![a.fpga] = FALSE],
         UNCHANGED <<fixed, invalid, single, ddc, time_left, beam, local>>
  PROVE  Done(R, L)'
<1> DEFINE S == {a} \cup R  g == a.fpga
<1>0. /\ a \in StepType /\ R \in SUBSET StepType /\ L \in SUBSET StepType
      /\ Types /\ Asking(S) /\ Beaming(S) /\ Telling(S \cup L) /\ R \cup L \in SUBSET StepType
  BY Parts
<1>1. Beaming(R) /\ Telling(R \cup L)
  BY <1>0, DropBeaming, DropTelling DEF Tells, Writes
<1>2. Beaming(R)' /\ Telling(R \cup L)'
  BY <1>0, <1>1, BeamingStays, TellingStays DEF local
<1>3. g \in Fpgas
  BY <1>0, StepFields DEF FpgaSteps
<1>4. \A s \in S : s.do \in Clears
  BY DEF Doing, Allowed, Clears
<1>5. /\ \A f : ChecksOf(S, f) = {} /\ ChecksOf(R, f) = {}
      /\ \A t : ~OfT(S, "await_no_request", t) /\ ~OfT(R, "check_flag", t)
      /\ \A f : ~PreparesFor(R, f)
      /\ \A f, m : ToClear(S, f, m) <=> ToClear(R, f, m)
      /\ \A f : OfF(R, "clear_request", f) => OfF(S, "clear_request", f)
      /\ \A f : f # g /\ OfF(S, "clear_request", f) => OfF(R, "clear_request", f)
      /\ OfF(S, "clear_request", g)
  BY <1>4 DEF ChecksOf, OfT, OfF, PreparesFor, ToClear, Clears, Prepares
<1>6. /\ request'[g] = {} /\ late'[g] = FALSE
      /\ \A f \in Fpgas : f # g => request'[f] = request[f] /\ late'[f] = late[f]
  BY <1>0, <1>3 DEF Types, g
<1> HIDE DEF S, g
<1>7. ASSUME NEW f \in Fpgas
      PROVE  AskedOf(R, f)'
  <2>1. AskedOf(S, f)
    BY <1>0 DEF Asking
  <2>2. CASE f = g
    <3>1. ~Narrow(f)
      BY <1>5, <2>1, <2>2 DEF AskedOf
    <3>2. \A m \in invalid[f] : flagged /\ ToClear(R, f, m)
      BY <1>5, <2>1, <3>1 DEF AskedOf
    <3> QED  BY <1>5, <1>6, <2>2, <3>2 DEF AskedOf, Narrow, fixed, local
  <2>3. CASE f # g
    <3>1. Narrow(f)' <=> Narrow(f)
      BY <1>6, <2>3 DEF Narrow
    <3> QED  BY <1>5, <1>6, <2>1, <2>3, <3>1 DEF AskedOf, fixed, local
  <2> QED  BY <2>2, <2>3
<1>8. Asking(R)'
  <2>1. \A s \in R : s.do \in Clears
    BY <1>4 DEF S
  <2> QED  BY <1>7, <2>1 DEF Asking, ToAsk, Clears
<1>9. Types'
  BY <1>0, <1>3 DEF Types, fixed, local, g
<1> QED  BY <1>2, <1>8, <1>9 DEF Done

LEMMA DoneClearFlag ==
  ASSUME NEW a, NEW R, NEW L, Doing(a, R, L), a.do = "clear_flag",
         invalid' = [invalid EXCEPT ![a.fpga] = @ \ {a.mode}],
         UNCHANGED <<fixed, request, late, single, ddc, time_left, beam, local>>
  PROVE  Done(R, L)'
<1> DEFINE S == {a} \cup R  g == a.fpga
<1>0. /\ a \in StepType /\ R \in SUBSET StepType /\ L \in SUBSET StepType
      /\ Types /\ Asking(S) /\ Beaming(S) /\ Telling(S \cup L) /\ R \cup L \in SUBSET StepType
  BY Parts
<1>1. Beaming(R) /\ Telling(R \cup L)
  BY <1>0, DropBeaming, DropTelling DEF Tells, Writes
<1>2. Beaming(R)' /\ Telling(R \cup L)'
  BY <1>0, <1>1, BeamingStays, TellingStays DEF local
<1>3. g \in Fpgas
  BY <1>0, StepFields
<1>4. \A s \in S : s.do \in Clears
  BY DEF Doing, Allowed, Clears
<1>5. /\ \A f : ChecksOf(S, f) = {} /\ ChecksOf(R, f) = {}
      /\ \A t : ~OfT(S, "await_no_request", t) /\ ~OfT(R, "check_flag", t)
      /\ \A f : ~PreparesFor(R, f)
      /\ \A f, m : ToClear(S, f, m) => ToClear(R, f, m) \/ (f = g /\ m = a.mode)
      /\ \A f : OfF(R, "clear_request", f) <=> OfF(S, "clear_request", f)
  BY <1>4 DEF ChecksOf, OfT, OfF, PreparesFor, ToClear, Clears, Prepares
<1>6. \A f \in Fpgas : invalid'[f] = IF f = g THEN invalid[g] \ {a.mode} ELSE invalid[f]
  BY <1>0, <1>3 DEF Types, g
<1> HIDE DEF S, g
<1>7. ASSUME NEW f \in Fpgas
      PROVE  AskedOf(R, f)'
  <2>1. AskedOf(S, f)
    BY <1>0 DEF Asking
  <2>2. Narrow(f)' <=> Narrow(f)
    BY DEF Narrow
  <2>3. ASSUME NEW m \in invalid'[f]
        PROVE  flagged /\ (late[f] \/ ToClear(R, f, m)) /\ (Narrow(f) \/ ToClear(R, f, m))
    <3>1. m \in invalid[f] /\ ~(f = g /\ m = a.mode)
      BY <1>6, <2>3
    <3> QED  BY <1>5, <2>1, <3>1 DEF AskedOf
  <2> QED  BY <1>5, <2>1, <2>2, <2>3 DEF AskedOf, fixed, local
<1>8. Asking(R)'
  <2>1. \A s \in R : s.do \in Clears
    BY <1>4 DEF S
  <2> QED  BY <1>7, <2>1 DEF Asking, ToAsk, Clears
<1>9. Types'
  BY <1>0, <1>3 DEF Types, fixed, local, g
<1> QED  BY <1>2, <1>8, <1>9 DEF Done

LEMMA DoneTell ==
  ASSUME NEW a, NEW R, NEW L, Doing(a, R, L), a.do \in Tells,
         told' \in {"ok", "failed"},
         told' = "ok" => due > 0 \/ (a.do = "check_later" /\ due = 0),
         UNCHANGED <<concerned, due, asked, written, time_left>>
  PROVE  Telling(L)'
<1> DEFINE S == ({a} \cup R) \cup L
<1>0. Telling(S) /\ R = {} /\ a \in S
  BY Parts, LastOfCall
<1>1. /\ HasTell(S)
      /\ \A f : WritesTo(S, f) <=> WritesTo(L, f)
      /\ \A f : OfF(S, "apply_sync_delay", f) <=> OfF(L, "apply_sync_delay", f)
      /\ \A do : do \notin Tells => (Has(S, do) <=> Has(L, do))
      /\ L \subseteq S
  BY <1>0 DEF HasTell, WritesTo, OfF, Has, Tells, Writes
<1>2. ~HasTell(L) => \A s \in L : s.do \notin Writes \cup {"read_time"}
  BY DEF Doing
<1>3. /\ Has(S, "read_time") <=> Has(L, "read_time")
      /\ Has(S, "request") <=> Has(L, "request")
      /\ Has(S, "leave_if_running") <=> Has(L, "leave_if_running")
      /\ Has(L, "check_later") => Has(S, "check_later")
      /\ a.do = "check_later" => Has(S, "check_later")
  BY <1>0, <1>1 DEF Tells, Has
<1> HIDE DEF S
<1>4. ASSUME ~HasTell(L), told' = "ok", NEW f \in concerned
      PROVE  InTime(written[f])
  <2>1. ~WritesTo(L, f)
    BY <1>2, <1>4 DEF WritesTo
  <2>2. written[f] >= due
    BY <1>0, <1>1, <1>4, <2>1 DEF Telling
  <2>3. due = 0 => concerned = Fpgas
    BY <1>0, <1>3, <1>4 DEF Telling
  <2>4. due \in Int /\ written[f] \in Int
    <3>1. Types
      BY Parts
    <3> QED  BY <1>4, <3>1 DEF Types, Passed
  <2> QED  BY <1>4, <2>2, <2>3, <2>4 DEF InTime
<1>5. ~HasTell(L) /\ told' = "ok" => \A f \in concerned : InTime(written[f])'
  BY <1>4 DEF InTime
<1> QED  BY <1>0, <1>1, <1>2, <1>3, <1>5 DEF Telling

LEMMA DoneTellTime ==
  ASSUME NEW a, NEW R, NEW L, Doing(a, R, L), a.do \in {"check_later", "check_passed"},
         told' \in {"ok", "failed"},
         told' = "ok" => due > 0 \/ (a.do = "check_later" /\ due = 0),
         UNCHANGED <<fixed, registers, beam, concerned, due, refused, asked, written>>
  PROVE  Done(R, L)'
<1>0. R = {}
  BY LastOfCall DEF Tells
<1>1. Asking(R) /\ Beaming(R)
  BY Parts, DropAsking, DropBeaming DEF Clears
<1>2. Asking(R)' /\ Beaming(R)'
  BY <1>1, Parts, AskingStays, BeamingStays DEF fixed, registers
<1>3. Telling(R \cup L)'
  <2>1. Telling(L)'
    BY DoneTell DEF Tells, registers
  <2>2. R \cup L = L
    BY <1>0
  <2> QED  BY <2>1, <2>2
<1>4. Types'
  BY Parts DEF Types, fixed, registers
<1> QED  BY <1>2, <1>3, <1>4 DEF Done

LEMMA DoneLeave ==
  ASSUME NEW a, NEW R, NEW L, Doing(a, R, L), a.do = "leave_if_running",
         told' = "failed",
         UNCHANGED <<fixed, registers, beam, concerned, due, refused, asked, written>>
  PROVE  Done({}, {})'
<1> DEFINE S == {a} \cup R
<1>0. /\ a \in StepType /\ R \in SUBSET StepType /\ L \in SUBSET StepType
      /\ Types /\ Asking(S) /\ Beaming(S) /\ Telling(S \cup L) /\ a \in S
  BY Parts
<1>1. /\ \A f : ChecksOf(S, f) = {}
      /\ \A f, m : ~ToClear(S, f, m)
      /\ \A f : ~OfF(S, "clear_request", f)
      /\ \A f : ~PreparesFor({}, f) /\ ~OfF({}, "clear_request", f)
      /\ \A t : ~OfT({}, "check_flag", t) /\ ~OfT({}, "check_started", t)
      /\ \A f : ~OfF({}, "abort", f)
      /\ ~Has({}, "read_time")
  <2>1. \A s \in S : s.do \notin Clears \cup {"check_flag"}
    BY DEF Doing, Allowed, Clears
  <2> QED  BY <2>1 DEF ChecksOf, ToClear, OfF, OfT, Has, PreparesFor, Clears
<1>2. Has(S \cup L, "leave_if_running")
  BY DEF Has
<1> HIDE DEF S
<1>3. Asking({})
  <2>1. \A f \in Fpgas : AskedOf(S, f)
    BY <1>0 DEF Asking
  <2>2. \A f \in Fpgas : AskedOf({}, f)
    BY <1>1, <2>1 DEF AskedOf
  <2> QED  BY <2>2 DEF Asking
<1>4. Beaming({})
  <2>1. \A t \in 1 .. NofTiles : beam[<<t, 1>>] = beam[<<t, 2>>]
    BY <1>0 DEF Beaming, ToBeam
  <2> QED  BY <1>1, <2>1 DEF Beaming, BeamOf
<1>5. ~asked
  BY <1>0, <1>2 DEF Telling
<1>6. Telling({} \cup {})'
  BY <1>5 DEF Telling, Has, HasTell
<1>7. Asking({})' /\ Beaming({})'
  BY <1>3, <1>4, AskingStays, BeamingStays DEF fixed, registers
<1>8. Types'
  BY <1>0 DEF Types, fixed, registers
<1> QED  BY <1>6, <1>7, <1>8 DEF Done

LEMMA DoneNotLeaving ==
  ASSUME NEW a, NEW R, NEW L, Doing(a, R, L), a.do = "leave_if_running",
         UNCHANGED <<fixed, registers, beam, local>>
  PROVE  Done(R, L)'
<1>1. Asking(R) /\ Beaming(R) /\ Telling(R \cup L)
  BY Parts, DropAsking, DropBeaming, DropTelling DEF Clears, Tells, Writes
<1>2. Asking(R)' /\ Beaming(R)' /\ Telling(R \cup L)'
  BY <1>1, Parts, AskingStays, BeamingStays, TellingStays DEF fixed, registers, local
<1>3. Types'
  BY Parts DEF Types, fixed, registers, local
<1> QED  BY <1>2, <1>3 DEF Done

LEMMA DoneStartBeam ==
  ASSUME NEW a, NEW R, NEW L, Doing(a, R, L), a.do = "start_beam",
         \/ /\ beam' = [beam EXCEPT ![a.fpga] = [wait |-> IF due > 0 THEN due ELSE 0,
                                                 run |-> a.duration]]
            /\ UNCHANGED refused
         \/ due <= 0 /\ UNCHANGED <<beam, refused>>
         \/ refused' = TRUE /\ UNCHANGED beam,
         written' = [written EXCEPT ![a.fpga] = due],
         UNCHANGED <<fixed, registers, concerned, due, told, asked>>
  PROVE  Done(R, L)'
<1> DEFINE S == {a} \cup R  g == a.fpga  t == a.fpga[1]
<1>0. /\ a \in StepType /\ R \in SUBSET StepType /\ L \in SUBSET StepType
      /\ Types /\ Asking(S) /\ Beaming(S) /\ Telling(S \cup L) /\ R \cup L \in SUBSET StepType
      /\ a \in S
  BY Parts
<1>1. /\ g \in Fpgas /\ a.duration \in Durations /\ t \in 1 .. NofTiles
      /\ g = <<t, 1>> \/ g = <<t, 2>>
      /\ \A i \in 1 .. NofTiles : /\ <<i, 1>> \in Fpgas /\ <<i, 2>> \in Fpgas
                                  /\ i # t => <<i, 1>> # g /\ <<i, 2>> # g
      /\ <<t, 1>> # <<t, 2>>
  BY <1>0, StepFields, FpgaFacts
<1>2. Asking(R)'
  BY <1>0, DropAsking, AskingStays DEF Clears, fixed, registers
<1>3. Telling(R \cup L)'
  <2>1. (asked' = asked) \/ (a.do = "request" /\ asked' = TRUE)
    OBVIOUS
  <2> QED  BY <1>0, <1>1, <2>1, ToldInTime DEF Writes, registers
<1>4. /\ \A f \in Fpgas : f # g => beam'[f] = beam[f]
      /\ due > 0 /\ ~refused' => ~refused /\ beam'[g] = [wait |-> due, run |-> a.duration]
      /\ beam' \in [Fpgas -> [wait : 0 .. Delay, run : {0} \cup Durations]]
      /\ refused' \in BOOLEAN
  <2>1. due \in Passed .. Delay
    BY <1>0 DEF Types
  <2>2. [wait |-> IF due > 0 THEN due ELSE 0, run |-> a.duration]
          \in [wait : 0 .. Delay, run : {0} \cup Durations]
    BY <1>1, <2>1 DEF Passed
  <2>3. beam \in [Fpgas -> [wait : 0 .. Delay, run : {0} \cup Durations]] /\ refused \in BOOLEAN
    BY <1>0 DEF Types
  <2>4. CASE /\ beam' = [beam EXCEPT ![g] = [wait |-> IF due > 0 THEN due ELSE 0, run |-> a.duration]]
             /\ UNCHANGED refused
    BY <1>1, <2>2, <2>3, <2>4
  <2>5. CASE due <= 0 /\ UNCHANGED <<beam, refused>>
    <3>1. ~(due > 0)
      BY <2>1, <2>5 DEF Passed
    <3> QED  BY <2>3, <2>5, <3>1
  <2>6. CASE refused' = TRUE /\ UNCHANGED beam
    BY <2>3, <2>6
  <2> QED  BY <2>4, <2>5, <2>6
<1>5. Types'
  <2>1. written' \in [Fpgas -> Passed .. Delay]
    BY <1>0, <1>1 DEF Types, g
  <2> QED  BY <1>0, <1>4, <2>1 DEF Types, fixed, registers
<1>6. /\ OfT(S, "check_started", t)
      /\ g = <<t, 1>> => OfF(S, "start_beam", <<t, 2>>)
  BY <1>0 DEF Beaming, ToBeam, StartsBoth, g, t
<1>7. /\ \A b \in R : b.do = "start_beam" => g = <<t, 1>> /\ b.fpga = <<t, 2>> /\ b.duration = a.duration
      /\ \A b \in R : b.do \notin {"abort", "leave_if_running", "read_time"}
      /\ \A b \in R : b.do = "check_started" => b.tile = t
  <2>1. ASSUME NEW b \in R
        PROVE  Allowed(a, b) /\ Across(a, b)
    BY DEF Doing
  <2>2. ASSUME NEW b \in R
        PROVE  b.do \notin {"abort", "leave_if_running", "read_time"}
    BY <2>1 DEF Allowed, Across, Writes
  <2>3. ASSUME NEW b \in R, b.do = "check_started"
        PROVE  b.tile = t
    BY <2>1, <2>3 DEF Allowed, BeamSteps, BeamTile
  <2>4. ASSUME NEW b \in R, b.do = "start_beam"
        PROVE  g = <<t, 1>> /\ b.fpga = <<t, 2>> /\ b.duration = a.duration
    <3>1. b.fpga[1] = t
      BY <2>1, <2>4 DEF Allowed, BeamSteps, BeamTile
    <3> QED  BY <2>1, <2>4, <3>1 DEF Allowed
  <2> QED  BY <2>2, <2>3, <2>4
<1>8. /\ \A i : OfT(S, "check_started", i) <=> OfT(R, "check_started", i)
      /\ \A i : OfT(R, "check_started", i) => i = t
      /\ \A f : ~OfF(S, "abort", f) /\ ~OfF(R, "abort", f)
      /\ ~OfF(R, "start_beam", <<t, 1>>)
      /\ OfF(S, "start_beam", g)
      /\ \A f : OfF(S, "start_beam", f) => f = g \/ OfF(R, "start_beam", f)
      /\ ~Has(R, "read_time")
      /\ g = <<t, 2>> => ~OfF(S, "start_beam", <<t, 1>>)
  BY <1>1, <1>7 DEF OfT, OfF, Has
<1> HIDE DEF S, g, t
<1>9. ASSUME NEW i \in 1 .. NofTiles
      PROVE  BeamOf(R, i)'
  <2>1. BeamOf(S, i)
    BY <1>0 DEF Beaming
  <2>2. CASE i # t
    <3>1. beam[<<i, 1>>] = beam[<<i, 2>>]
      BY <1>8, <2>1, <2>2 DEF BeamOf
    <3>2. beam'[<<i, 1>>] = beam'[<<i, 2>>]
      BY <1>1, <1>4, <2>2, <3>1
    <3> QED  BY <1>8, <2>2, <3>2 DEF BeamOf
  <2>3. CASE i = t /\ g = <<t, 1>>
    <3>1. OfF(R, "start_beam", <<t, 2>>)
      BY <1>1, <1>6, <1>8, <2>3
    <3>2. due > 0 /\ ~refused' =>
            \A s \in R : s.do = "start_beam" => beam'[<<t, 1>>] = [wait |-> due, run |-> s.duration]
      BY <1>4, <1>7, <2>3
    <3>3. OfT(R, "check_started", t)
      BY <1>6, <1>8
    <3> QED  BY <1>8, <2>3, <3>1, <3>2, <3>3 DEF BeamOf
  <2>4. CASE i = t /\ g = <<t, 2>>
    <3>1. OfT(R, "check_started", t) /\ OfT(S, "check_started", t)
      BY <1>6, <1>8
    <3>2. due > 0 /\ ~refused => beam[<<t, 1>>] = [wait |-> due, run |-> a.duration]
      BY <1>0, <1>8, <2>1, <2>4, <3>1 DEF BeamOf
    <3>3. due > 0 /\ ~refused' => beam'[<<t, 1>>] = beam'[<<t, 2>>]
      BY <1>1, <1>4, <2>4, <3>2
    <3>4. \A s \in R : s.do # "start_beam"
      BY <1>1, <1>7, <2>4
    <3> QED  BY <1>8, <2>4, <3>1, <3>3, <3>4 DEF BeamOf
  <2> QED  BY <1>1, <2>2, <2>3, <2>4
<1>10. ASSUME NEW s \in R
       PROVE  ToBeam(R, s)'
  <2>1. s \in S
    BY DEF S
  <2>2. ToBeam(S, s)
    BY <1>0, <2>1 DEF Beaming
  <2>3. s.do = "start_beam" => s.fpga = <<t, 2>> /\ s.fpga[1] = t
    BY <1>7
  <2>4. s.do = "start_beam" => StartsBoth(R, s)
    BY <1>1, <1>6, <1>8, <2>3 DEF StartsBoth
  <2> QED  BY <1>7, <2>4 DEF ToBeam, StartsBoth
<1> QED  BY <1>2, <1>3, <1>5, <1>9, <1>10 DEF Done, Beaming

LEMMA DoneStarted ==
  ASSUME NEW a, NEW R, NEW L, Doing(a, R, L), a.do = "check_started",
         due > 0, ~refused, told' = "ok",
         UNCHANGED <<fixed, registers, beam, concerned, due, refused, asked, written>>
  PROVE  Done(R, L)'
<1> DEFINE S == {a} \cup R
<1>0. /\ a \in StepType /\ Types /\ Asking(S) /\ Beaming(S) /\ R = {} /\ R \in SUBSET StepType
  BY Parts, LastOfCall DEF Tells
<1>1. Asking(R)'
  BY <1>0, DropAsking, AskingStays DEF Clears, fixed, registers
<1>2. /\ \A f : ~OfF(S, "start_beam", f) /\ ~OfF(S, "abort", f)
      /\ \A f : ~OfF(R, "abort", f)
      /\ \A t : ~OfT(R, "check_started", t)
  BY <1>0 DEF OfF, OfT
<1> HIDE DEF S
<1>3. ASSUME NEW t \in 1 .. NofTiles
      PROVE  BeamOf(R, t)
  <2>1. beam[<<t, 1>>] = beam[<<t, 2>>]
    BY <1>0, <1>2 DEF Beaming, BeamOf
  <2> QED  BY <1>2, <2>1 DEF BeamOf
<1>4. Beaming(R)'
  BY <1>0, <1>3, BeamingStays DEF Beaming
<1>5. Telling(R \cup L)'
  <2>2. Telling(L)'
    BY DoneTell DEF Tells, registers
  <2>3. R \cup L = L
    BY <1>0
  <2> QED  BY <2>2, <2>3
<1>6. Types'
  BY <1>0 DEF Types, fixed, registers
<1> QED  BY <1>1, <1>4, <1>5, <1>6 DEF Done

\* Both FPGAs of the tile are to be stopped.
Stops(Q, t) == Q = {OfFpga("abort", <<t, 1>>), OfFpga("abort", <<t, 2>>)}

LEMMA DoneNotStarted ==
  ASSUME NEW a, NEW R, NEW L, Doing(a, R, L), a.do = "check_started",
         NEW Q, Stops(Q, a.tile), told' = "failed",
         UNCHANGED <<fixed, registers, beam, concerned, due, refused, asked, written>>
  PROVE  Done(Q, L)'
<1> DEFINE S == {a} \cup R
<1>0. /\ a \in StepType /\ Types /\ Asking(S) /\ Beaming(S) /\ R = {} /\ R \in SUBSET StepType
      /\ L \in SUBSET StepType
  BY Parts, LastOfCall DEF Tells
<1>1. /\ a.tile \in 1 .. NofTiles
      /\ \A s : s \in Q <=> s = OfFpga("abort", <<a.tile, 1>>) \/ s = OfFpga("abort", <<a.tile, 2>>)
      /\ \A s \in Q : s.do = "abort" /\ s \in StepType
  BY <1>0, StepFields, FpgaFacts DEF Stops, OfFpga, StepType, FpgaSteps, TileDoings
<1>2. Asking(R)
  BY <1>0, DropAsking DEF Clears
<1>3. Asking(Q)
  <2>1. /\ \A f : ChecksOf(Q, f) = ChecksOf(R, f)
        /\ \A do, t : do # "abort" => ~OfT(Q, do, t) /\ ~OfT(R, do, t)
        /\ \A do, f : do # "abort" => ~OfF(Q, do, f) /\ ~OfF(R, do, f)
        /\ \A f, m : ~ToClear(Q, f, m) /\ ~ToClear(R, f, m)
        /\ \A f : ~PreparesFor(Q, f)
        /\ ~Has(Q, "read_time")
    BY <1>0, <1>1 DEF ChecksOf, OfT, OfF, ToClear, PreparesFor, Has, Prepares
  <2>2. ~OfT(Q, "check_flag", 1) /\ \A f : ~OfF(Q, "clear_request", f) /\ ~OfF(R, "clear_request", f)
    BY <2>1
  <2>3. \A t : ~OfT(Q, "check_flag", t)
    BY <2>1
  <2>4. \A f \in Fpgas : AskedOf(Q, f)
    BY <1>2, <2>1, <2>2, <2>3 DEF Asking, AskedOf
  <2> QED  BY <1>1, <2>4 DEF Asking, ToAsk
<1>4. Asking(Q)'
  BY <1>1, <1>3, AskingStays DEF fixed, registers
<1>5. /\ \A t : OfT(S, "check_started", t) => t = a.tile
      /\ \A f : ~OfF(S, "abort", f)
      /\ \A t : ~OfT(Q, "check_started", t)
      /\ OfF(Q, "abort", <<a.tile, 1>>) /\ OfF(Q, "abort", <<a.tile, 2>>)
      /\ \A t : OfF(Q, "abort", <<t, 1>>) => t = a.tile
      /\ \A t : OfF(Q, "abort", <<t, 2>>) => t = a.tile
  <2>1. \A s \in S : s = a
    BY <1>0
  <2>2. OfFpga("abort", <<a.tile, 1>>) \in Q /\ OfFpga("abort", <<a.tile, 2>>) \in Q
    BY <1>1
  <2>3. \A f : OfF(Q, "abort", f) => f = <<a.tile, 1>> \/ f = <<a.tile, 2>>
    BY <1>1 DEF OfF, OfFpga
  <2> QED  BY <1>1, <2>1, <2>2, <2>3 DEF OfT, OfF, OfFpga
<1> HIDE DEF S
<1>6. ASSUME NEW t \in 1 .. NofTiles
      PROVE  BeamOf(Q, t)
  <2>1. CASE t = a.tile
    BY <1>5, <2>1 DEF BeamOf
  <2>2. CASE t # a.tile
    <3>1. beam[<<t, 1>>] = beam[<<t, 2>>]
      BY <1>0, <1>5, <2>2 DEF Beaming, BeamOf
    <3> QED  BY <1>5, <2>2, <3>1 DEF BeamOf
  <2> QED  BY <2>1, <2>2
<1>7. Beaming(Q)'
  <2>1. Beaming(Q)
    BY <1>1, <1>6 DEF Beaming, ToBeam
  <2> QED  BY <1>1, <2>1, BeamingStays
<1>8. Telling(Q \cup L)'
  <2>1. Telling(L)'
    BY DoneTell DEF Tells, registers
  <2>2. /\ HasTell(L) <=> HasTell(Q \cup L)
        /\ \A f : OfF(L, "apply_sync_delay", f) <=> OfF(Q \cup L, "apply_sync_delay", f)
        /\ \A f : WritesTo(L, f) <=> WritesTo(Q \cup L, f)
        /\ \A do \in {"request", "read_time", "leave_if_running", "check_later"} : Has(L, do) <=> Has(Q \cup L, do)
        /\ \A s \in Q \cup L : s \in L \/ s.do \notin Writes \cup {"read_time"}
        /\ \A s \in Q \cup L : s.do = "request" => s \in L
    BY <1>1 DEF HasTell, OfF, WritesTo, Has, Writes, Tells
  <2> QED  BY <2>1, <2>2 DEF Telling
<1>9. Types'
  BY <1>0 DEF Types, fixed, registers
<1> QED  BY <1>4, <1>7, <1>8, <1>9 DEF Done

LEMMA DoneAbort ==
  ASSUME NEW a, NEW R, NEW L, Doing(a, R, L), a.do = "abort",
         beam' = [beam EXCEPT ![a.fpga] = Off],
         UNCHANGED <<fixed, registers, local>>
  PROVE  Done(R, L)'
<1> DEFINE S == {a} \cup R  g == a.fpga  t == a.fpga[1]
<1>0. /\ a \in StepType /\ R \in SUBSET StepType /\ L \in SUBSET StepType
      /\ Types /\ Asking(S) /\ Beaming(S) /\ Telling(S \cup L) /\ R \cup L \in SUBSET StepType
      /\ a \in S
  BY Parts
<1>1. /\ g \in Fpgas /\ t \in 1 .. NofTiles
      /\ g = <<t, 1>> \/ g = <<t, 2>>
      /\ \A i \in 1 .. NofTiles : /\ <<i, 1>> \in Fpgas /\ <<i, 2>> \in Fpgas
                                  /\ i # t => <<i, 1>> # g /\ <<i, 2>> # g
      /\ \A i : i # t => <<i, 1>> # g /\ <<i, 2>> # g
      /\ <<t, 1>> # <<t, 2>>
  BY <1>0, StepFields, FpgaFacts DEF FpgaSteps
<1>2. Asking(R)'
  BY <1>0, DropAsking, AskingStays DEF Clears, fixed, registers, local
<1>3. Telling(R \cup L)'
  BY <1>0, DropTelling, TellingStays DEF Tells, Writes, registers, local
<1>4. \A f \in Fpgas : beam'[f] = IF f = g THEN Off ELSE beam[f]
  BY <1>0, <1>1 DEF Types, g
<1>5. Types'
  <2>1. Off \in [wait : 0 .. Delay, run : {0} \cup Durations]
    BY DEF Off
  <2> QED  BY <1>0, <1>1, <2>1 DEF Types, fixed, registers, local
<1>6. /\ \A b \in R : b.do = "abort" => g = <<t, 1>> /\ b.fpga = <<t, 2>>
      /\ \A b \in R : b.do \notin {"start_beam", "check_started", "leave_if_running"}
  <2>1. ASSUME NEW b \in R
        PROVE  Allowed(a, b)
    BY DEF Doing
  <2>2. ASSUME NEW b \in R
        PROVE  b.do \notin {"start_beam", "check_started", "leave_if_running"}
    BY <2>1 DEF Allowed
  <2>3. ASSUME NEW b \in R, b.do = "abort"
        PROVE  g = <<t, 1>> /\ b.fpga = <<t, 2>>
    <3>1. b.fpga[1] = t
      BY <2>1, <2>3 DEF Allowed, BeamSteps, BeamTile
    <3> QED  BY <2>1, <2>3, <3>1 DEF Allowed
  <2> QED  BY <2>2, <2>3
<1>7. /\ \A i : ~OfT(S, "check_started", i) /\ ~OfT(R, "check_started", i)
      /\ \A f : OfF(S, "abort", f) <=> f = g \/ OfF(R, "abort", f)
      /\ \A f : OfF(R, "abort", f) => g = <<t, 1>> /\ f = <<t, 2>>
  BY <1>6 DEF OfT, OfF
<1> HIDE DEF S, g, t
<1>8. ASSUME NEW i \in 1 .. NofTiles
      PROVE  BeamOf(R, i)'
  <2>1. BeamOf(S, i)
    BY <1>0 DEF Beaming
  <2>2. CASE i # t
    <3>1. ~OfF(S, "abort", <<i, 2>>) /\ ~OfF(R, "abort", <<i, 2>>) /\ ~OfF(R, "abort", <<i, 1>>)
      BY <1>1, <1>7, <2>2
    <3>2. beam[<<i, 1>>] = beam[<<i, 2>>]
      BY <1>7, <2>1, <3>1 DEF BeamOf
    <3>3. beam'[<<i, 1>>] = beam'[<<i, 2>>]
      BY <1>1, <1>4, <2>2, <3>2
    <3> QED  BY <1>7, <3>1, <3>3 DEF BeamOf
  <2>3. CASE i = t /\ g = <<t, 1>>
    <3>1. OfF(R, "abort", <<t, 2>>) /\ ~OfF(R, "abort", <<t, 1>>)
      BY <1>1, <1>7, <2>1, <2>3 DEF BeamOf
    <3>2. beam'[<<t, 1>>] = Off
      BY <1>1, <1>4, <2>3
    <3> QED  BY <1>7, <2>3, <3>1, <3>2 DEF BeamOf
  <2>4. CASE i = t /\ g = <<t, 2>>
    <3>1. \A f : ~OfF(R, "abort", f)
      BY <1>1, <1>7, <2>4
    <3>2. beam[<<t, 1>>] = Off
      BY <1>1, <1>7, <2>1, <2>4, <3>1 DEF BeamOf
    <3>3. beam'[<<t, 1>>] = beam'[<<t, 2>>]
      BY <1>1, <1>4, <2>4, <3>2
    <3> QED  BY <1>7, <2>4, <3>1, <3>3 DEF BeamOf
  <2> QED  BY <1>1, <2>2, <2>3, <2>4
<1>9. \A s \in R : ToBeam(R, s)'
  BY <1>6 DEF ToBeam
<1> QED  BY <1>2, <1>3, <1>5, <1>8, <1>9 DEF Done, Beaming

\* A call that begins when nothing of the one before it is left
LEMMA NewCall ==
  ASSUME NEW S \in SUBSET StepType, Whole(S), Asking({})', Beaming({})'
  PROVE  Asking(S)' /\ Beaming(S)'
<1>1. /\ \A f : ~OfF({}, "clear_request", f) /\ ChecksOf({}, f) = {}
      /\ \A f, m : ~ToClear({}, f, m)
      /\ \A f : ~OfF({}, "abort", f)
      /\ \A t : ~OfT({}, "check_started", t)
  BY DEF OfF, OfT, ChecksOf, ToClear
<1>2. \A s \in S : WholeStep(S, s)
  BY DEF Whole
<1>3. ASSUME NEW f \in Fpgas
      PROVE  AskedOf(S, f)'
  <2>1. AskedOf({}, f)'
    BY DEF Asking
  <2>2. \A m \in invalid'[f] : flagged' /\ late'[f] /\ Narrow(f)'
    BY <1>1, <2>1 DEF AskedOf
  <2>3. late'[f] => Narrow(f)'
    BY <1>1, <2>1 DEF AskedOf
  <2>4. ~OfF(S, "clear_request", f)
    BY <1>2 DEF OfF, WholeStep, Clears
  <2>5. OfT(S, "check_flag", f[1]) => OfT(S, "await_no_request", f[1])
    BY <1>2 DEF OfT, WholeStep
  <2>6. PreparesFor(S, f) => OfT(S, "await_no_request", f[1])
    BY <1>2 DEF PreparesFor, WholeStep
  <2>7. ChecksOf(S, f) # {} => OfT(S, "await_no_request", f[1])
    <3>1. SUFFICES ASSUME NEW c \in S, c.do = "check_flag", f \in c.checked
                   PROVE  OfT(S, "await_no_request", f[1])
      BY DEF ChecksOf
    <3>2. c.checked \subseteq FpgasOf(c.tile) /\ OfT(S, "await_no_request", c.tile)
      BY <1>2, <3>1 DEF WholeStep
    <3>3. c.tile \in 1 .. NofTiles
      BY <3>1, StepFields
    <3>4. f \in FpgasOf(c.tile)
      BY <3>1, <3>2
    <3>5. f[1] = c.tile
      BY <3>3, <3>4, FpgaFacts
    <3> QED  BY <3>2, <3>5
  <2> QED  BY <2>1, <2>2, <2>3, <2>4, <2>5, <2>6, <2>7 DEF AskedOf
<1>4. \A s \in S : ToAsk(S, s)'
  BY <1>2 DEF WholeStep, ToAsk
<1>5. ASSUME NEW t \in 1 .. NofTiles
      PROVE  beam'[<<t, 1>>] = beam'[<<t, 2>>]
  BY <1>1, <1>5 DEF Beaming, BeamOf
<1>6. ASSUME NEW t \in 1 .. NofTiles
      PROVE  BeamOf(S, t)'
  <2>1. /\ OfF(S, "abort", <<t, 1>>) => OfF(S, "abort", <<t, 2>>)
        /\ OfF(S, "abort", <<t, 2>>) => OfF(S, "abort", <<t, 1>>)
    <3>1. <<t, 1>>[1] = t /\ <<t, 2>>[1] = t
      OBVIOUS
    <3>2. ASSUME NEW s \in S, s.do = "abort"
          PROVE  OfF(S, "abort", <<s.fpga[1], 1>>) /\ OfF(S, "abort", <<s.fpga[1], 2>>)
      BY <1>2, <3>2 DEF WholeStep
    <3>3. ASSUME NEW f, OfF(S, "abort", f)
          PROVE  OfF(S, "abort", <<f[1], 1>>) /\ OfF(S, "abort", <<f[1], 2>>)
      BY <3>2, <3>3 DEF OfF
    <3> HIDE DEF OfF
    <3> QED  BY <3>1, <3>3
  <2>2. OfT(S, "check_started", t) => OfF(S, "start_beam", <<t, 1>>)
    BY <1>2 DEF OfT, WholeStep
  <2> QED  BY <1>5, <2>1, <2>2 DEF BeamOf
<1>7. \A s \in S : ToBeam(S, s)'
  BY <1>2, <1>5 DEF WholeStep, ToBeam
<1> QED  BY <1>3, <1>4, <1>6, <1>7 DEF Asking, Beaming

LEMMA FirstIsDone ==
  ASSUME SessionInv, calls # <<>>, NEW a, a = This, NEW r, r = Tail(Head(calls)),
         NEW L, L = Later(calls)
  PROVE  /\ Doing(a, Range(r), L)
         /\ r \in Seq(StepType) /\ InOrder(r)
<1>1. Shape(calls)
  BY DEF SessionInv
<1>2. /\ a \in StepType /\ r \in Seq(StepType) /\ InOrder(r)
      /\ Range(r) \subseteq StepType /\ L \subseteq StepType
      /\ Current(calls) = {a} \cup Range(r)
      /\ StepsOf(calls) = ({a} \cup Range(r)) \cup L
      /\ \A b \in Range(r) : Allowed(a, b)
      /\ \A b \in Range(r) \cup L : Across(a, b)
      /\ (\E b \in L : b.do \in Writes \cup {"read_time"}) /\ a.do \in Tells => HasTell(L)
  BY <1>1, FirstStep DEF This
<1> QED  BY <1>2 DEF SessionInv, Doing, Now

\* When a step is done, the next is the first of what follows, or of the next call.
LEMMA GoesOn ==
  ASSUME SessionInv, calls # <<>>, NEW s \in Seq(StepType), InOrder(s),
         Range(s) \subseteq Range(Tail(Head(calls))) \/ Harmless(Range(s)),
         NEW L, L = Later(calls), Then(s), Done(Range(s), L)'
  PROVE  SessionInv'
<1>1. PICK ds : ds = calls'
  OBVIOUS
<1>2. ds = IF s = <<>> THEN Tail(calls) ELSE [calls EXCEPT ![1] = s]
  BY <1>1 DEF Then
<1>3. Shape(calls)
  BY DEF SessionInv
<1>4. /\ Shape(ds)
      /\ StepsOf(ds) = Range(s) \cup L
      /\ \/ Current(ds) = Range(s)
         \/ Range(s) = {} /\ Whole(Current(ds)) /\ Current(ds) \subseteq StepType
  BY <1>2, <1>3, RestOfCalls
<1>5. Types' /\ Asking(Range(s))' /\ Beaming(Range(s))' /\ Telling(Range(s) \cup L)'
  BY DEF Done
<1>6. Asking(Current(ds))' /\ Beaming(Current(ds))'
  <2>1. CASE Current(ds) = Range(s)
    BY <1>5, <2>1
  <2>2. CASE Range(s) = {} /\ Whole(Current(ds)) /\ Current(ds) \subseteq StepType
    <3>1. Asking({})' /\ Beaming({})'
      BY <1>5, <2>2
    <3>2. Current(ds) \in SUBSET StepType /\ Whole(Current(ds))
      BY <2>2
    <3> QED  BY <3>1, <3>2, NewCall
  <2> QED  BY <1>4, <2>1, <2>2
<1>7. Telling(StepsOf(ds))'
  BY <1>4, <1>5
<1> QED  BY <1>1, <1>4, <1>5, <1>6, <1>7 DEF SessionInv, Now
-----------------------------------------------------------------------------
(* Sequences of steps                                                      *)

\* These are the steps, in an order they may come in.
Is(c, S) == c \in Seq(StepType) /\ InOrder(c) /\ Range(c) = S

LEMMA IsNone == Is(<<>>, {})
<1>1. <<>> \in Seq(StepType) /\ Len(<<>>) = 0
  BY EmptySeq
<1>2. Range(<<>>) = {}
  BY <1>1, RangeFacts
<1>3. \A i \in 1 .. 0 : FALSE
  OBVIOUS
<1> QED  BY <1>1, <1>2, <1>3 DEF Is, InOrder

LEMMA IsOne ==
  ASSUME NEW s \in StepType
  PROVE  Is(<<s>>, {s})
<1> DEFINE c == <<s>>
<1>1. c \in Seq(StepType) /\ Len(c) = 1 /\ c[1] = s
  OBVIOUS
<1> HIDE DEF c
<1>2. \A i \in 1 .. 1 : i = 1
  OBVIOUS
<1>3. \A x : x \in Range(c) <=> x = s
  BY <1>1, <1>2, RangeFacts
<1>4. InOrder(c)
  BY <1>1 DEF InOrder
<1> QED  BY <1>1, <1>3, <1>4 DEF Is, c

LEMMA IsBoth ==
  ASSUME NEW c, NEW A, NEW d, NEW B, Is(c, A), Is(d, B), \A a \in A, b \in B : Allowed(a, b)
  PROVE  Is(c \o d, A \cup B)
BY RangeOfConcat, OrderOfConcat DEF Is

LEMMA IsType ==
  ASSUME NEW c, NEW S, Is(c, S)
  PROVE  S \subseteq StepType /\ (c = <<>> <=> S = {})
BY RangeFacts DEF Is

\* What is put in when a request is found invalid.
LEMMA ClearsAreShort ==
  ASSUME NEW a \in StepType, a.do = "check_flag", a.checked \subseteq FpgasOf(a.tile),
         NEW fl \in BOOLEAN
  PROVE  \E Q : /\ Is(Tile!AfterInvalid(a.tile, a.mode, a.checked, fl), Q)
                /\ ClearsTile(Q, a, fl)
                /\ Harmless(Q)
<1> DEFINE t == a.tile  m == a.mode
           r(i) == OfFpga("clear_request", <<t, i>>)
           x(i) == [do |-> "clear_flag", fpga |-> <<t, i>>, mode |-> m]
           flag(i) == IF fl /\ <<t, i>> \in a.checked THEN {x(i)} ELSE {}
           one(i) == IF <<t, i>> \in a.checked THEN <<x(i)>> ELSE <<>>
           flags == IF fl THEN one(1) \o one(2) ELSE <<>>
<1>1. /\ t \in 1 .. NofTiles /\ m \in DataModes
      /\ <<t, 1>> \in Fpgas /\ <<t, 2>> \in Fpgas
  BY StepFields, FpgaFacts
<1>2. /\ \A i \in {1, 2} : r(i) \in StepType /\ x(i) \in StepType
      /\ \A i \in {1, 2} : r(i).do = "clear_request" /\ r(i).fpga = <<t, i>>
      /\ \A i \in {1, 2} : x(i).do = "clear_flag" /\ x(i).fpga = <<t, i>> /\ x(i).mode = m
  BY <1>1 DEF StepType, OfFpga, FpgaSteps
<1>3. Tile!AfterInvalid(t, m, a.checked, fl) = (<<r(1)>> \o <<r(2)>>) \o flags
  BY DEF Tile!AfterInvalid, Tile!clear_lmc_data_request, Tile!ForBoth, Tile!ForAsked,
         Tile!clear_timestamp_invalid_flag_register, Tile!Firmware!clear_lmc_data_request,
         Tile!Firmware!OfFpga, OfFpga
<1> HIDE DEF r, x, t, m
<1>4. \A a1, b \in StepType : a1.do \in Clears /\ b.do \in Clears => Allowed(a1, b)
  BY DEF Allowed, Across, Clears, Tells, Prepares, Writes, BeamSteps
<1>5. Is(<<r(1)>> \o <<r(2)>>, {r(1)} \cup {r(2)})
  <2>1. Is(<<r(1)>>, {r(1)}) /\ Is(<<r(2)>>, {r(2)}) /\ Allowed(r(1), r(2))
    BY <1>2, <1>4, IsOne DEF Clears
  <2> QED  BY <2>1, IsBoth
<1>6. Is(one(1), IF <<t, 1>> \in a.checked THEN {x(1)} ELSE {})
  BY <1>2, IsOne, IsNone
<1>7. Is(one(2), IF <<t, 2>> \in a.checked THEN {x(2)} ELSE {})
  BY <1>2, IsOne, IsNone
<1> HIDE DEF one
<1>8. Is(flags, flag(1) \cup flag(2))
  <2>1. Allowed(x(1), x(2))
    BY <1>2, <1>4 DEF Clears
  <2>2. CASE fl
    BY <1>6, <1>7, <2>1, <2>2, IsBoth
  <2>3. CASE ~fl
    BY <2>3, IsNone
  <2> QED  BY <2>2, <2>3
<1> DEFINE Q == ({r(1)} \cup {r(2)}) \cup (flag(1) \cup flag(2))
<1>9. /\ \A s \in flag(1) \cup flag(2) : s = x(1) \/ s = x(2)
      /\ \A i \in {1, 2} : fl /\ <<t, i>> \in a.checked => x(i) \in Q
      /\ r(1) \in Q /\ r(2) \in Q
      /\ \A s \in Q : s = r(1) \/ s = r(2) \/ s = x(1) \/ s = x(2)
  OBVIOUS
<1> HIDE DEF flags, flag
<1>10. Is((<<r(1)>> \o <<r(2)>>) \o flags, Q)
  <2>1. \A p \in {r(1)} \cup {r(2)}, q \in flag(1) \cup flag(2) : Allowed(p, q)
    BY <1>2, <1>4, <1>9 DEF Clears
  <2> QED  BY <1>5, <1>8, <2>1, IsBoth
<1> HIDE DEF Q
<1>11. \A f \in FpgasOf(t) : f = <<t, 1>> \/ f = <<t, 2>>
  BY DEF FpgasOf
<1>12. ClearsTile(Q, a, fl)
  <2>1. Q \subseteq StepType
    BY <1>10, IsType
  <2>2. \A s \in Q : s.do \in Clears
    BY <1>2, <1>9 DEF Clears
  <2>3. \A s \in Q : s.do = "clear_request" => s.fpga \in FpgasOf(t)
    BY <1>2, <1>9 DEF FpgasOf
  <2>4. \A f \in FpgasOf(t) : OfF(Q, "clear_request", f)
    BY <1>2, <1>9, <1>11 DEF OfF
  <2>5. \A f \in FpgasOf(t) : fl /\ f \in a.checked => ToClear(Q, f, m)
    BY <1>2, <1>9, <1>11 DEF ToClear
  <2> QED  BY <2>1, <2>2, <2>3, <2>4, <2>5 DEF ClearsTile, t, m
<1>13. Harmless(Q)
  BY <1>12 DEF Harmless, ClearsTile
<1> QED  BY <1>3, <1>10, <1>12, <1>13 DEF t, m

\* What is put in when a beamformer did not start.
LEMMA StopsAreShort ==
  ASSUME NEW t \in 1 .. NofTiles
  PROVE  \E Q : Is(Tile!AfterNotStarted(t), Q) /\ Stops(Q, t) /\ Harmless(Q)
<1> DEFINE p(i) == OfFpga("abort", <<t, i>>)
           Q == {p(1)} \cup {p(2)}
<1>1. /\ \A i \in {1, 2} : p(i) \in StepType /\ p(i).do = "abort" /\ p(i).fpga = <<t, i>>
  BY FpgaFacts DEF StepType, FpgaSteps, OfFpga
<1>2. Tile!AfterNotStarted(t) = <<p(1)>> \o <<p(2)>>
  BY DEF Tile!AfterNotStarted, Tile!stop_beamformer, Tile!ForBoth, Tile!OfFpga, OfFpga
<1>3. Stops(Q, t)
  BY DEF Stops
<1> HIDE DEF p
<1>4. Allowed(p(1), p(2))
  <2>1. p(1).fpga[1] = t /\ p(2).fpga[1] = t
    BY <1>1
  <2> QED  BY <1>1, <2>1 DEF Allowed, Across, Clears, Tells, Prepares, Writes, BeamSteps, BeamTile
<1>5. Is(<<p(1)>> \o <<p(2)>>, Q)
  BY <1>1, <1>4, IsOne, IsBoth
<1>6. Harmless(Q)
  BY <1>1 DEF Harmless
<1> QED  BY <1>2, <1>3, <1>5, <1>6
-----------------------------------------------------------------------------
(* The steps of the thread                                                 *)

LEMMA NoSteps ==
  ASSUME NEW s \in Seq(StepType), Range(s) = {}
  PROVE  s = <<>>
BY RangeFacts

LEMMA MainStep ==
  ASSUME SessionInv, Main, NEW a, a = This, NEW r, r = Tail(Head(calls)),
         NEW L, L = Later(calls)
  PROVE  SessionInv'
<1>0. calls # <<>> /\ UNCHANGED fixed
  BY DEF Main, AwaitNone, AwaitNoRequest, ReadTheTime, Write, Set, ApplySyncDelay, SetMode,
         SetRequest, CheckFlag, CheckOnly, ClearRequest, ClearFlag, Tell, LeaveIfRunning,
         StartBeam, CheckStarted, Abort, AtStep
<1>1. Doing(a, Range(r), L) /\ r \in Seq(StepType) /\ InOrder(r)
  BY <1>0, FirstIsDone
<1>2. ASSUME GoOn, Done(Range(r), L)'
      PROVE  SessionInv'
  BY <1>0, <1>1, <1>2, GoesOn DEF GoOn
<1>3. CASE AwaitNone \/ Set \/ CheckOnly
  <2>1. /\ a.do \in {"await_none", "set", "check_only"} /\ GoOn
        /\ UNCHANGED <<fixed, registers, beam, local>>
    BY <1>0, <1>3 DEF AwaitNone, Set, CheckOnly, AtStep
  <2> QED  BY <1>1, <1>2, <2>1, DoneQuiet
<1>4. CASE AwaitNoRequest
  <2>1. /\ a.do = "await_no_request" /\ GoOn /\ \A f \in FpgasOf(a.tile) : request[f] = {}
        /\ UNCHANGED <<fixed, registers, beam, local>>
    BY <1>0, <1>4 DEF AwaitNoRequest, AtStep
  <2> QED  BY <1>1, <1>2, <2>1, DoneAwaitNoRequest
<1>5. CASE ReadTheTime
  <2>1. /\ a.do = "read_time" /\ GoOn /\ due' = Delay
        /\ UNCHANGED <<fixed, registers, beam, concerned, refused, told, asked, written>>
    BY <1>0, <1>5 DEF ReadTheTime, AtStep
  <2> QED  BY <1>1, <1>2, <2>1, DoneReadTime
<1>6. CASE Write
  <2>1. /\ a.do = "write_time" /\ GoOn /\ written' = [written EXCEPT ![a.fpga] = due]
        /\ UNCHANGED <<fixed, registers, beam, concerned, due, refused, told, asked>>
    BY <1>0, <1>6 DEF Write, AtStep
  <2> QED  BY <1>1, <1>2, <2>1, DoneWrite
<1>7. CASE ApplySyncDelay
  <2>1. /\ a.do = "apply_sync_delay" /\ GoOn /\ time_left' = [time_left EXCEPT ![a.fpga] = due]
        /\ UNCHANGED <<fixed, request, late, invalid, single, ddc, beam, local>>
    BY <1>0, <1>7 DEF ApplySyncDelay, AtStep
  <2> QED  BY <1>1, <1>2, <2>1, DoneApplySyncDelay
<1>8. CASE SetMode
  <2>1. GoOn /\ UNCHANGED <<fixed, request, late, invalid, time_left, beam, local>>
    BY <1>0, <1>8 DEF SetMode
  <2>2. CASE /\ a.do \in {"single_channel_on", "single_channel_off"}
             /\ single' = [single EXCEPT ![a.fpga] = a.do = "single_channel_on"]
             /\ UNCHANGED ddc
    BY <1>1, <1>2, <2>1, <2>2, DoneSingle
  <2>3. CASE /\ a.do \in {"ddc_on", "ddc_off"}
             /\ ddc' = [ddc EXCEPT ![a.fpga] = a.do = "ddc_on"]
             /\ UNCHANGED single
    BY <1>1, <1>2, <2>1, <2>3, DoneDdc
  <2> QED  BY <1>8, <2>2, <2>3 DEF SetMode, AtStep
<1>9. CASE SetRequest
  <2>1. PICK passed : passed = (time_left[a.fpga] <= 0)
    OBVIOUS
  <2>2. /\ a.do = "request" /\ GoOn
        /\ request' = [request EXCEPT ![a.fpga] = @ \cup {a.mode}]
        /\ late' = [late EXCEPT ![a.fpga] = passed]
        /\ invalid' = [invalid EXCEPT ![a.fpga] = IF passed /\ flagged THEN @ \cup {a.mode} ELSE @]
        /\ written' = [written EXCEPT ![a.fpga] = time_left[a.fpga]]
        /\ asked' = TRUE
        /\ UNCHANGED <<fixed, single, ddc, time_left, beam, concerned, due, refused, told>>
    BY <1>0, <1>9, <2>1 DEF SetRequest, AtStep
  <2> QED  BY <1>1, <1>2, <2>1, <2>2, DoneRequest
<1>10. CASE CheckFlag
  <2>1. a.do = "check_flag" /\ UNCHANGED <<fixed, registers, beam, local>>
    BY <1>0, <1>10 DEF CheckFlag, AtStep
  <2>2. CASE IsValid
    <3>1. GoOn /\ IF flagged THEN \A f \in a.checked : a.mode \notin invalid[f] ELSE due > 0
      BY <1>10, <2>2 DEF CheckFlag, IsValid
    <3> QED  BY <1>1, <1>2, <2>1, <3>1, DoneCheckValid
  <2>3. CASE ~IsValid
    <3>1. PICK fl : fl = flagged
      OBVIOUS
    <3>2. /\ a \in StepType /\ fl \in BOOLEAN /\ Asking({a} \cup Range(r)) /\ r = <<>>
      <4>1. Range(r) = {}
        BY <1>1, <2>1, LastOfCall
      <4>2. r = <<>>
        BY <1>1, <4>1, NoSteps
      <4>3. a \in StepType /\ Types /\ Asking({a} \cup Range(r))
        BY <1>1, Parts
      <4> QED  BY <3>1, <4>2, <4>3 DEF Types
    <3>3. a.checked \subseteq FpgasOf(a.tile)
      <4>1. ToAsk({a} \cup Range(r), a)
        BY <3>2 DEF Asking
      <4> QED  BY <2>1, <4>1 DEF ToAsk
    <3> DEFINE inserted == Tile!AfterInvalid(a.tile, a.mode, a.checked, fl)
    <3>4. PICK Q : Is(inserted, Q) /\ ClearsTile(Q, a, fl) /\ Harmless(Q)
      BY <2>1, <3>2, <3>3, ClearsAreShort
    <3>5. Then(inserted \o r)
      BY <1>10, <2>3, <3>1 DEF CheckFlag
    <3> HIDE DEF inserted
    <3>6. inserted \o r = inserted
      BY <3>2, <3>4, ConcatEmptySeq DEF Is
    <3>7. Done(Q, L)'
      BY <1>1, <2>1, <3>1, <3>4, DoneCheckInvalid
    <3>8. PICK s : s = inserted
      OBVIOUS
    <3>9. s \in Seq(StepType) /\ InOrder(s) /\ Range(s) = Q /\ Then(s)
      BY <3>4, <3>5, <3>6, <3>8 DEF Is
    <3> QED  BY <1>0, <3>4, <3>7, <3>9, GoesOn
  <2> QED  BY <2>2, <2>3
<1>11. CASE ClearRequest
  <2>1. /\ a.do = "clear_request" /\ GoOn
        /\ request' = [request EXCEPT ![a.fpga] = {}]
        /\ late' = [late EXCEPT ![a.fpga] = FALSE]
        /\ UNCHANGED <<fixed, invalid, single, ddc, time_left, beam, local>>
    BY <1>0, <1>11 DEF ClearRequest, AtStep
  <2> QED  BY <1>1, <1>2, <2>1, DoneClearRequest
<1>12. CASE ClearFlag
  <2>1. /\ a.do = "clear_flag" /\ GoOn
        /\ invalid' = [invalid EXCEPT ![a.fpga] = @ \ {a.mode}]
        /\ UNCHANGED <<fixed, request, late, single, ddc, time_left, beam, local>>
    BY <1>0, <1>12 DEF ClearFlag, AtStep
  <2> QED  BY <1>1, <1>2, <2>1, DoneClearFlag
<1>13. CASE Tell
  <2>1. /\ a.do \in {"check_later", "check_passed"} /\ GoOn
        /\ UNCHANGED <<fixed, registers, beam, concerned, due, refused, asked, written>>
    BY <1>0, <1>13 DEF Tell, AtStep
  <2>2. CASE a.do = "check_later"
    <3>1. told' = IF due >= 0 /\ told # "failed" THEN "ok" ELSE "failed"
      BY <1>13, <2>2 DEF Tell
    <3>2. due \in Passed .. Delay
      BY <1>1, Parts DEF Types
    <3>3. /\ told' \in {"ok", "failed"}
          /\ told' = "ok" => due > 0 \/ (a.do = "check_later" /\ due = 0)
      BY <2>2, <3>1, <3>2 DEF Passed
    <3> QED  BY <1>1, <1>2, <2>1, <3>3, DoneTellTime
  <2>3. CASE a.do = "check_passed"
    <3>1. told' = IF due > 0 /\ told # "failed" THEN "ok" ELSE "failed"
      BY <1>13, <2>3 DEF Tell
    <3>2. told' \in {"ok", "failed"} /\ (told' = "ok" => due > 0)
      BY <3>1
    <3> QED  BY <1>1, <1>2, <2>1, <3>2, DoneTellTime
  <2> QED  BY <2>1, <2>2, <2>3
<1>14. CASE LeaveIfRunning
  <2>1. a.do = "leave_if_running"
        /\ UNCHANGED <<fixed, registers, beam, concerned, due, refused, asked, written>>
    BY <1>0, <1>14 DEF LeaveIfRunning, AtStep
  <2>2. CASE calls' = <<>> /\ told' = "failed"
    <3>1. Done({}, {})'
      BY <1>1, <2>1, <2>2, DoneLeave
    <3>2. /\ Shape(<<>>) /\ Current(<<>>) = {} /\ StepsOf(<<>>) = {}
      <4>1. <<>> \in Seq(CallType) /\ Len(<<>>) = 0
        BY EmptySeq
      <4>2. \A i : i \notin 1 .. 0 /\ i \notin 2 .. 0
        OBVIOUS
      <4> QED  BY <4>1, <4>2 DEF Shape, Current, StepsOf
    <3> QED  BY <2>2, <3>1, <3>2 DEF Done, SessionInv, Now
  <2>3. CASE GoOn /\ UNCHANGED told
    <3>1. UNCHANGED <<fixed, registers, beam, local>>
      BY <2>1, <2>3 DEF local
    <3> QED  BY <1>1, <1>2, <2>1, <2>3, <3>1, DoneNotLeaving
  <2> QED  BY <1>14, <2>2, <2>3 DEF LeaveIfRunning
<1>15. CASE StartBeam
  <2>1. /\ a.do = "start_beam" /\ GoOn
        /\ \/ /\ beam' = [beam EXCEPT ![a.fpga] = [wait |-> IF due > 0 THEN due ELSE 0,
                                                   run |-> a.duration]]
              /\ UNCHANGED refused
           \/ due <= 0 /\ UNCHANGED <<beam, refused>>
           \/ refused' = TRUE /\ UNCHANGED beam
        /\ written' = [written EXCEPT ![a.fpga] = due]
        /\ UNCHANGED <<fixed, registers, concerned, due, told, asked>>
    BY <1>0, <1>15 DEF StartBeam, AtStep
  <2> QED  BY <1>1, <1>2, <2>1, DoneStartBeam
<1>16. CASE CheckStarted
  <2>1. /\ a.do = "check_started"
        /\ UNCHANGED <<fixed, registers, beam, concerned, due, refused, asked, written>>
    BY <1>0, <1>16 DEF CheckStarted, AtStep
  <2>2. CASE due > 0 /\ ~refused
    <3>1. told' = "ok" /\ GoOn
      BY <1>16, <2>2 DEF CheckStarted
    <3> QED  BY <1>1, <1>2, <2>1, <2>2, <3>1, DoneStarted
  <2>3. CASE ~(due > 0 /\ ~refused)
    <3> DEFINE inserted == Tile!AfterNotStarted(a.tile)
    <3>1. told' = "failed" /\ Then(inserted \o r)
      BY <1>16, <2>3 DEF CheckStarted
    <3>2. a.tile \in 1 .. NofTiles /\ r = <<>>
      <4>1. Range(r) = {} /\ a \in StepType
        BY <1>1, <2>1, LastOfCall, Parts DEF Tells
      <4>2. a.tile \in 1 .. NofTiles
        BY <2>1, <4>1, StepFields DEF TileDoings
      <4>3. r = <<>>
        BY <1>1, <4>1, NoSteps
      <4> QED  BY <4>2, <4>3
    <3>3. PICK Q : Is(inserted, Q) /\ Stops(Q, a.tile) /\ Harmless(Q)
      BY <3>2, StopsAreShort
    <3> HIDE DEF inserted
    <3>4. inserted \o r = inserted
      BY <3>2, <3>3, ConcatEmptySeq DEF Is
    <3>5. Done(Q, L)'
      BY <1>1, <2>1, <3>1, <3>3, DoneNotStarted
    <3>6. PICK s : s = inserted
      OBVIOUS
    <3>7. s \in Seq(StepType) /\ InOrder(s) /\ Range(s) = Q /\ Then(s)
      BY <3>1, <3>3, <3>4, <3>6 DEF Is
    <3> QED  BY <1>0, <3>3, <3>5, <3>7, GoesOn
  <2> QED  BY <2>2, <2>3
<1>17. CASE Abort
  <2>1. /\ a.do = "abort" /\ GoOn /\ beam' = [beam EXCEPT ![a.fpga] = Off]
        /\ UNCHANGED <<fixed, registers, local>>
    BY <1>0, <1>17 DEF Abort, AtStep
  <2> QED  BY <1>1, <1>2, <2>1, DoneAbort
<1> QED
  BY <1>3, <1>4, <1>5, <1>6, <1>7, <1>8, <1>9, <1>10, <1>11, <1>12, <1>13, <1>14, <1>15, <1>16,
     <1>17 DEF Main
-----------------------------------------------------------------------------
(* The FPGAs                                                               *)

LEMMA ServedStep ==
  ASSUME SessionInv, NEW g \in Fpgas, Served(g)
  PROVE  SessionInv'
<1> DEFINE S == Now
<1>1. Types /\ Shape(calls) /\ Asking(S) /\ Beaming(S) /\ Telling(StepsOf(calls))
  BY DEF SessionInv
<1>2. PICK Q : Q = Now
  OBVIOUS
<1>3. PICK T : T = StepsOf(calls)
  OBVIOUS
<1>4. /\ ~late[g] /\ request' = [request EXCEPT ![g] = {}]
      /\ UNCHANGED <<fixed, late, invalid, single, ddc, time_left, beam, calls, local>>
  BY DEF Served
<1>5. \A f \in Fpgas : request'[f] = IF f = g THEN {} ELSE request[f]
  BY <1>1, <1>4 DEF Types
<1>6. ASSUME NEW f \in Fpgas
      PROVE  AskedOf(Q, f)'
  <2>1. AskedOf(Q, f)
    BY <1>1, <1>2 DEF Asking
  <2>2. Narrow(f)' <=> Narrow(f)
    BY <1>4, <1>5 DEF Narrow
  <2> HIDE DEF Narrow
  <2>3. CASE f = g
    BY <1>4, <1>5, <2>1, <2>2, <2>3 DEF AskedOf, fixed, local
  <2>4. CASE f # g
    BY <1>4, <1>5, <2>1, <2>2, <2>4 DEF AskedOf, fixed, local
  <2> QED  BY <2>3, <2>4
<1>7. \A s \in Q : ToAsk(Q, s)'
  BY <1>1, <1>2, <1>4 DEF Asking, ToAsk
<1>8. Beaming(Q)'
  BY <1>1, <1>2, <1>4 DEF Beaming, BeamOf, ToBeam, local
<1>9. Telling(T)'
  BY <1>1, <1>3, <1>4 DEF Telling, InTime, local
<1>10. Types'
  BY <1>1, <1>4 DEF Types, fixed, local
<1>11. calls' = calls /\ Now' = Q /\ StepsOf(calls)' = T
  BY <1>2, <1>3, <1>4 DEF Now
<1> QED
  BY <1>1, <1>6, <1>7, <1>8, <1>9, <1>10, <1>11 DEF SessionInv, Asking

LEMMA LessFacts ==
  \A n \in Passed .. Delay : /\ Less(n) \in Passed .. Delay
                             /\ n <= 0 => Less(n) <= 0
                             /\ Less(n) <= n
                             /\ Less(n) > 0 => n > 0 /\ Less(n) = n - 1
BY DEF Less, Passed

LEMMA GoesFacts ==
  ASSUME NEW b \in [wait : 0 .. Delay, run : {0} \cup Durations]
  PROVE  /\ Goes(b) \in [wait : 0 .. Delay, run : {0} \cup Durations]
         /\ b = Off => Goes(b) = Off
         /\ b.wait > 0 => Goes(b) = [wait |-> b.wait - 1, run |-> b.run]
<1>1. b.wait \in 0 .. Delay /\ b.run \in {0, Forever, 1} /\ b = [wait |-> b.wait, run |-> b.run]
  BY DEF Durations
<1>2. CASE b.wait > 0
  <2>1. Goes(b) = [b EXCEPT !.wait = @ - 1] /\ b # Off
    BY <1>2 DEF Goes, Off
  <2>2. Goes(b) = [wait |-> b.wait - 1, run |-> b.run]
    BY <1>1, <2>1
  <2> QED  BY <1>1, <1>2, <2>1, <2>2
<1>3. CASE b.wait = 0
  <2>1. Goes(b) = IF b.run = 1 THEN Off ELSE b
    BY <1>1, <1>3 DEF Goes, Forever
  <2> QED  BY <1>3, <2>1 DEF Off
<1> QED  BY <1>1, <1>2, <1>3

LEMMA TickStep ==
  ASSUME SessionInv, Tick
  PROVE  SessionInv'
<1>1. Types /\ Shape(calls) /\ Asking(Now) /\ Beaming(Now) /\ Telling(StepsOf(calls))
  BY DEF SessionInv
<1>2. PICK Q : Q = Now
  OBVIOUS
<1>3. PICK T : T = StepsOf(calls)
  OBVIOUS
<1>4. /\ due' = Less(due)
      /\ time_left' = [f \in Fpgas |-> Less(time_left[f])]
      /\ beam' = [f \in Fpgas |-> Goes(beam[f])]
      /\ UNCHANGED <<fixed, request, late, invalid, single, ddc, calls, concerned, refused,
                     told, asked, written>>
  BY DEF Tick
<1>5. /\ due \in Passed .. Delay /\ due' \in Passed .. Delay
      /\ due <= 0 => due' <= 0
      /\ due' <= due
      /\ due' > 0 => due > 0 /\ due' = due - 1
  BY <1>1, <1>4, LessFacts DEF Types
<1>6. \A f \in Fpgas : /\ time_left'[f] = Less(time_left[f])
                       /\ time_left'[f] \in Passed .. Delay
                       /\ beam'[f] = Goes(beam[f])
                       /\ beam[f] \in [wait : 0 .. Delay, run : {0} \cup Durations]
  BY <1>1, <1>4, LessFacts DEF Types
<1>7. Types'
  <2>1. time_left' \in [Fpgas -> Passed .. Delay]
    BY <1>4, <1>6
  <2>2. beam' \in [Fpgas -> [wait : 0 .. Delay, run : {0} \cup Durations]]
    BY <1>4, <1>6, GoesFacts
  <2> QED  BY <1>1, <1>4, <1>5, <2>1, <2>2 DEF Types, fixed
<1>8. ASSUME NEW f \in Fpgas
      PROVE  AskedOf(Q, f)'
  <2>1. AskedOf(Q, f)
    BY <1>1, <1>2 DEF Asking
  <2>2. Narrow(f)' <=> Narrow(f)
    BY <1>4 DEF Narrow
  <2> HIDE DEF Narrow
  <2> QED  BY <1>4, <1>5, <2>1, <2>2 DEF AskedOf, fixed
<1>9. \A s \in Q : ToAsk(Q, s)'
  BY <1>1, <1>2, <1>4 DEF Asking, ToAsk
<1>10. ASSUME NEW t \in 1 .. NofTiles
       PROVE  BeamOf(Q, t)'
  <2> DEFINE b1 == beam[<<t, 1>>]  b2 == beam[<<t, 2>>]
  <2>1. BeamOf(Q, t)
    BY <1>1, <1>2 DEF Beaming
  <2>2. <<t, 1>> \in Fpgas /\ <<t, 2>> \in Fpgas
    BY FpgaFacts
  <2>3. beam'[<<t, 1>>] = Goes(b1) /\ beam'[<<t, 2>>] = Goes(b2)
    BY <1>6, <2>2
  <2>4. b1 = Off => Goes(b1) = Off
    BY <1>6, <2>2, GoesFacts
  <2>5. ASSUME NEW d, due' > 0, b1 = [wait |-> due, run |-> d]
        PROVE  Goes(b1) = [wait |-> due', run |-> d]
    <3>1. b1.wait = due /\ b1.run = d
      BY <2>5
    <3>2. Goes(b1) = [wait |-> b1.wait - 1, run |-> b1.run]
      BY <1>5, <1>6, <2>2, <2>5, <3>1, GoesFacts
    <3> QED  BY <1>5, <2>5, <3>1, <3>2
  <2>6. b1 = b2 => beam'[<<t, 1>>] = beam'[<<t, 2>>]
    BY <2>3
  <2> HIDE DEF b1, b2
  <2>7. /\ ~OfT(Q, "check_started", t) /\ ~OfF(Q, "abort", <<t, 2>>) => b1 = b2
        /\ OfF(Q, "abort", <<t, 1>>) => OfF(Q, "abort", <<t, 2>>)
        /\ OfF(Q, "abort", <<t, 2>>) /\ ~OfF(Q, "abort", <<t, 1>>) => b1 = Off
        /\ OfT(Q, "check_started", t) =>
             /\ OfF(Q, "start_beam", <<t, 1>>) => b1 = b2
             /\ Has(Q, "read_time") => OfF(Q, "start_beam", <<t, 1>>)
             /\ due > 0 /\ ~refused /\ ~OfF(Q, "start_beam", <<t, 1>>) =>
                  /\ ~OfF(Q, "start_beam", <<t, 2>>) => b1 = b2
                  /\ \A s \in Q : s.do = "start_beam" => b1 = [wait |-> due, run |-> s.duration]
    BY <2>1 DEF BeamOf, b1, b2
  <2>8. ASSUME OfT(Q, "check_started", t), due' > 0, ~refused', ~OfF(Q, "start_beam", <<t, 1>>)
        PROVE  /\ ~OfF(Q, "start_beam", <<t, 2>>) => beam'[<<t, 1>>] = beam'[<<t, 2>>]
               /\ \A s \in Q : s.do = "start_beam" =>
                    beam'[<<t, 1>>] = [wait |-> due', run |-> s.duration]
    BY <1>4, <1>5, <2>3, <2>5, <2>6, <2>7, <2>8
  <2> QED  BY <2>3, <2>4, <2>6, <2>7, <2>8 DEF BeamOf
<1>11. \A s \in Q : ToBeam(Q, s)'
  <2>1. ASSUME NEW t \in 1 .. NofTiles, beam[<<t, 1>>] = beam[<<t, 2>>]
        PROVE  beam'[<<t, 1>>] = beam'[<<t, 2>>]
    BY <1>6, <2>1, FpgaFacts
  <2> QED  BY <1>1, <1>2, <2>1 DEF Beaming, ToBeam, StartsBoth
<1>12. Telling(T)'
  <2>1. \A f \in concerned : f \in Fpgas
    BY <1>1 DEF Types
  <2>2. \A f \in concerned : time_left[f] = due => time_left'[f] = due'
    BY <1>4, <1>6, <2>1
  <2>3. \A f \in concerned : written[f] >= due => written'[f] >= due'
    BY <1>1, <1>4, <1>5, <2>1 DEF Types, Passed
  <2>4. \A f \in concerned : InTime(written[f]) => InTime(written[f])'
    BY <1>4 DEF InTime
  <2> QED  BY <1>1, <1>3, <1>4, <1>5, <2>2, <2>3, <2>4 DEF Telling
<1>13. calls' = calls /\ Now' = Q /\ StepsOf(calls)' = T
  BY <1>2, <1>3, <1>4 DEF Now
<1> QED
  BY <1>1, <1>7, <1>8, <1>9, <1>10, <1>11, <1>12, <1>13 DEF SessionInv, Asking, Beaming
-----------------------------------------------------------------------------
(* Commands                                                                *)

\* Calls that may be made one after the other
Plan(cs) ==
  /\ cs \in Seq(CallType)
  /\ \A i \in 1 .. Len(cs) : InOrder(cs[i]) /\ Whole(Range(cs[i]))
  /\ \A i, k \in 1 .. Len(cs) : i < k => Between(Range(cs[i]), Range(cs[k]))

\* ... and are a command for these FPGAs
Fits(S, fs) ==
  /\ \A s \in S : s.do = "request" => s.fpga \in fs
  /\ Has(S, "request") => \A f \in fs : OfF(S, "apply_sync_delay", f)
  /\ HasTell(S) => \A f \in fs : WritesTo(S, f)
  /\ Has(S, "leave_if_running") => ~Has(S, "request")
  /\ Has(S, "check_later") => fs = Fpgas

LEMMA PlanShape ==
  ASSUME NEW cs, Plan(cs)
  PROVE  Shape(cs) /\ Whole(Current(cs)) /\ Current(cs) \subseteq StepType
<1>1. cs \in Seq(CallType) /\ Len(cs) \in Nat
  BY LenProperties DEF Plan
<1>2. \A i \in 2 .. Len(cs) : i \in 1 .. Len(cs)
  BY <1>1
<1>3. Shape(cs)
  BY <1>1, <1>2 DEF Plan, Shape
<1>4. CASE cs = <<>>
  BY <1>3, <1>4 DEF Current, Whole
<1>5. CASE cs # <<>>
  <2>1. Current(cs) = Range(cs[1]) /\ cs[1] \in CallType /\ 1 \in 1 .. Len(cs)
    BY <1>3, <1>5, FirstCall
  <2>2. Range(cs[1]) \subseteq StepType
    BY <2>1, RangeFacts DEF CallType
  <2> QED  BY <1>3, <2>1, <2>2 DEF Plan
<1> QED  BY <1>3, <1>4, <1>5

LEMMA PlanOne ==
  ASSUME NEW c, NEW S, Is(c, S), c # <<>>, Whole(S)
  PROVE  Plan(<<c>>) /\ StepsOf(<<c>>) = S
<1> DEFINE cs == <<c>>
<1>1. c \in CallType /\ InOrder(c) /\ Range(c) = S
  BY DEF Is, CallType
<1>2. cs \in Seq(CallType) /\ Len(cs) = 1 /\ cs[1] = c
  BY <1>1
<1> HIDE DEF cs
<1>3. \A i \in 1 .. 1 : i = 1
  OBVIOUS
<1>4. 1 \in 1 .. 1
  OBVIOUS
<1>5. Plan(cs)
  BY <1>1, <1>2, <1>3 DEF Plan
<1>6. \A x : x \in StepsOf(cs) <=> x \in S
  BY <1>1, <1>2, <1>3, <1>4, StepsFacts
<1> QED  BY <1>5, <1>6 DEF cs

LEMMA PlanBoth ==
  ASSUME NEW cs, NEW ds, Plan(cs), Plan(ds),
         \A a \in StepsOf(cs), b \in StepsOf(ds) : Across(a, b),
         HasTell(StepsOf(cs)) => \A b \in StepsOf(ds) : b.do \notin Writes \cup {"read_time"}
  PROVE  Plan(cs \o ds) /\ StepsOf(cs \o ds) = StepsOf(cs) \cup StepsOf(ds)
<1> DEFINE es == cs \o ds  m == Len(cs)  n == Len(ds)
<1>1. cs \in Seq(CallType) /\ ds \in Seq(CallType)
  BY DEF Plan
<1>2. /\ es \in Seq(CallType) /\ Len(es) = m + n /\ m \in Nat /\ n \in Nat
      /\ \A i \in 1 .. m + n : es[i] = IF i <= m THEN cs[i] ELSE ds[i - m]
  BY <1>1, ConcatProperties, LenProperties
<1>3. /\ \A x : x \in StepsOf(cs) <=> \E i \in 1 .. m : x \in Range(cs[i])
      /\ \A x : x \in StepsOf(ds) <=> \E i \in 1 .. n : x \in Range(ds[i])
      /\ \A x : x \in StepsOf(es) <=> \E i \in 1 .. m + n : x \in Range(es[i])
  <2>1. \A x : x \in StepsOf(es) <=> \E i \in 1 .. Len(es) : x \in Range(es[i])
    BY <1>2, StepsFacts
  <2> QED  BY <1>1, <1>2, <2>1, StepsFacts
<1>4. /\ \A i \in 1 .. m : InOrder(cs[i]) /\ Whole(Range(cs[i]))
      /\ \A i \in 1 .. n : InOrder(ds[i]) /\ Whole(Range(ds[i]))
      /\ \A i, k \in 1 .. m : i < k => Between(Range(cs[i]), Range(cs[k]))
      /\ \A i, k \in 1 .. n : i < k => Between(Range(ds[i]), Range(ds[k]))
  BY DEF Plan
<1> HIDE DEF es, m, n
<1>5. \A i \in 1 .. m + n : \/ i \in 1 .. m /\ es[i] = cs[i]
                            \/ i > m /\ i - m \in 1 .. n /\ es[i] = ds[i - m]
  BY <1>2
<1>6. \A i \in 1 .. m + n : InOrder(es[i]) /\ Whole(Range(es[i]))
  BY <1>4, <1>5
<1>7. ASSUME NEW i \in 1 .. m, NEW k \in 1 .. n
      PROVE  Between(Range(cs[i]), Range(ds[k]))
  <2>1. Range(cs[i]) \subseteq StepsOf(cs) /\ Range(ds[k]) \subseteq StepsOf(ds)
    BY <1>3
  <2>2. HasTell(Range(cs[i])) => HasTell(StepsOf(cs))
    BY <2>1 DEF HasTell
  <2> QED  BY <2>1, <2>2 DEF Between
<1>8. ASSUME NEW i \in 1 .. m + n, NEW k \in 1 .. m + n, i < k
      PROVE  Between(Range(es[i]), Range(es[k]))
  <2>1. CASE i \in 1 .. m /\ es[i] = cs[i] /\ k \in 1 .. m /\ es[k] = cs[k]
    BY <1>4, <1>8, <2>1
  <2>2. CASE i \in 1 .. m /\ es[i] = cs[i] /\ k - m \in 1 .. n /\ es[k] = ds[k - m]
    BY <1>7, <2>2
  <2>3. CASE i > m /\ i - m \in 1 .. n /\ es[i] = ds[i - m] /\ k - m \in 1 .. n /\ es[k] = ds[k - m]
    <3>1. i - m < k - m
      BY <1>2, <1>8
    <3> QED  BY <1>4, <2>3, <3>1
  <2>4. ~(i > m /\ k \in 1 .. m)
    BY <1>2, <1>8
  <2> QED  BY <1>5, <2>1, <2>2, <2>3, <2>4
<1>9. Plan(es)
  BY <1>2, <1>6, <1>8 DEF Plan
<1>10. StepsOf(es) = StepsOf(cs) \cup StepsOf(ds)
  <2>1. ASSUME NEW x, x \in StepsOf(es)
        PROVE  x \in StepsOf(cs) \cup StepsOf(ds)
    BY <1>3, <1>5, <2>1
  <2>2. ASSUME NEW x, x \in StepsOf(cs)
        PROVE  x \in StepsOf(es)
    <3>1. PICK i \in 1 .. m : x \in Range(cs[i])
      BY <1>3, <2>2
    <3>2. i \in 1 .. m + n /\ i <= m
      BY <1>2
    <3> QED  BY <1>2, <1>3, <3>1, <3>2
  <2>3. ASSUME NEW x, x \in StepsOf(ds)
        PROVE  x \in StepsOf(es)
    <3>1. PICK i \in 1 .. n : x \in Range(ds[i])
      BY <1>3, <2>3
    <3>2. m + i \in 1 .. m + n /\ ~(m + i <= m) /\ (m + i) - m = i
      BY <1>2
    <3>3. es[m + i] = ds[i]
      BY <1>2, <3>2
    <3> QED  BY <1>3, <3>1, <3>2, <3>3
  <2> QED  BY <2>1, <2>2, <2>3
<1> QED  BY <1>9, <1>10 DEF es

\* A call to every tile
LEMMA PlanCalls ==
  ASSUME NEW cs, cs \in [1 .. NofTiles -> CallType],
         \A t \in 1 .. NofTiles : InOrder(cs[t]) /\ Whole(Range(cs[t])),
         \A t, u \in 1 .. NofTiles : t < u => Between(Range(cs[t]), Range(cs[u]))
  PROVE  /\ Plan(cs)
         /\ \A x : x \in StepsOf(cs) <=> \E t \in 1 .. NofTiles : x \in Range(cs[t])
<1>1. cs \in Seq(CallType) /\ Len(cs) = NofTiles
  OBVIOUS
<1>2. Plan(cs)
  BY <1>1 DEF Plan
<1>3. \A x : x \in StepsOf(cs) <=> \E t \in 1 .. NofTiles : x \in Range(cs[t])
  BY <1>1, StepsFacts
<1> QED  BY <1>2, <1>3

\* A call to a tile that does what is to be done at the time that was read before it
Working(c, t, kind) ==
  /\ c \in CallType /\ InOrder(c) /\ Whole(Range(c))
  /\ \A s \in Range(c) :
       /\ s.do \notin {"read_time", "leave_if_running"}
       /\ s.do \in {"request", "apply_sync_delay"} => s.fpga \in FpgasOf(t)
  /\ \A f \in FpgasOf(t) :
       /\ WritesTo(Range(c), f)
       /\ kind = "asks" => OfF(Range(c), "apply_sync_delay", f)
  /\ kind # "asks" => ~Has(Range(c), "request")
  /\ HasTell(Range(c)) <=> kind = "tells"

\* ... to every tile
AllWorking(cs, kind) ==
  /\ cs \in [1 .. NofTiles -> CallType]
  /\ \A t \in 1 .. NofTiles : Working(cs[t], t, kind)

LEMMA PlanWorking ==
  ASSUME NEW cs, NEW kind, AllWorking(cs, kind)
  PROVE  /\ Plan(cs) /\ Fits(StepsOf(cs), Fpgas)
         /\ \A f \in Fpgas : WritesTo(StepsOf(cs), f)
         /\ \A s \in StepsOf(cs) : s.do \notin {"read_time", "leave_if_running"}
         /\ HasTell(StepsOf(cs)) => kind = "tells"
<1> DEFINE S == StepsOf(cs)
<1>1. ASSUME NEW t \in 1 .. NofTiles, NEW u \in 1 .. NofTiles, t < u
      PROVE  Between(Range(cs[t]), Range(cs[u]))
  <2>1. Working(cs[t], t, kind) /\ Working(cs[u], u, kind)
    BY DEF AllWorking
  <2>2. \A f \in FpgasOf(t), g \in FpgasOf(u) : f # g
    <3>1. t # u
      BY <1>1
    <3> QED  BY <3>1 DEF FpgasOf
  <2>3. \A a \in Range(cs[t]), b \in Range(cs[u]) : Across(a, b)
    BY <2>1, <2>2 DEF Working, Across
  <2> QED  BY <2>1, <2>3 DEF Between, Working
<1>2. /\ cs \in [1 .. NofTiles -> CallType]
      /\ \A t \in 1 .. NofTiles : InOrder(cs[t]) /\ Whole(Range(cs[t]))
  BY DEF AllWorking, Working
<1>3. Plan(cs) /\ \A x : x \in S <=> \E t \in 1 .. NofTiles : x \in Range(cs[t])
  BY <1>1, <1>2, PlanCalls
<1> HIDE DEF S
<1>4. \A s \in S : s.do \notin {"read_time", "leave_if_running"}
  BY <1>3 DEF AllWorking, Working
<1>5. \A f \in Fpgas : f[1] \in 1 .. NofTiles /\ f \in FpgasOf(f[1])
  BY FpgaFacts
<1>6. \A t \in 1 .. NofTiles : Range(cs[t]) \subseteq S
  BY <1>3
<1>7. \A f \in Fpgas : /\ WritesTo(S, f)
                       /\ kind = "asks" => OfF(S, "apply_sync_delay", f)
  <2>1. ASSUME NEW f \in Fpgas
        PROVE  /\ WritesTo(Range(cs[f[1]]), f)
               /\ kind = "asks" => OfF(Range(cs[f[1]]), "apply_sync_delay", f)
    BY <1>5 DEF AllWorking, Working
  <2> QED  BY <1>5, <1>6, <2>1 DEF WritesTo, OfF
<1>8. kind # "asks" => ~Has(S, "request")
  BY <1>3 DEF AllWorking, Working, Has
<1>9. \A s \in S : s.do = "request" => s.fpga \in Fpgas
  BY <1>3, FpgaFacts DEF AllWorking, Working
<1>10. ~Has(S, "leave_if_running")
  BY <1>4 DEF Has
<1>11. Fits(S, Fpgas)
  BY <1>7, <1>8, <1>9, <1>10 DEF Fits
<1>12. HasTell(S) => kind = "tells"
  BY <1>3 DEF AllWorking, Working, HasTell
<1> QED  BY <1>3, <1>4, <1>7, <1>11, <1>12 DEF S

\* The time is read, all tiles are told, and the caller
LEMMA PlanTimed ==
  ASSUME NEW cs, NEW kind, AllWorking(cs, kind)
  PROVE  /\ Plan(<<ReadTime>> \o cs) /\ Fits(StepsOf(<<ReadTime>> \o cs), Fpgas)
         /\ kind # "tells" =>
              /\ Plan((<<ReadTime>> \o cs) \o <<SuccessUnlessLater>>)
              /\ Fits(StepsOf((<<ReadTime>> \o cs) \o <<SuccessUnlessLater>>), Fpgas)
<1> DEFINE rd == <<ReadTime>>  ck == <<SuccessUnlessLater>>  S == StepsOf(cs)
           a == Step("read_time")  b == Step("check_later")
<1>1. /\ Plan(cs) /\ Fits(S, Fpgas)
      /\ \A f \in Fpgas : WritesTo(S, f)
      /\ \A s \in S : s.do \notin {"read_time", "leave_if_running"}
      /\ HasTell(S) => kind = "tells"
  BY PlanWorking
<1>2. a \in StepType /\ a.do = "read_time" /\ b \in StepType /\ b.do = "check_later"
  BY DEF StepType, Step
<1> HIDE DEF a, b
<1>3. /\ Is(ReadTime, {a}) /\ ReadTime # <<>>
      /\ Is(SuccessUnlessLater, {b}) /\ SuccessUnlessLater # <<>>
  <2>1. Is(<<a>>, {a}) /\ Is(<<b>>, {b})
    BY <1>2, IsOne
  <2>2. <<a>> # <<>> /\ <<b>> # <<>>
    OBVIOUS
  <2> QED  BY <2>1, <2>2 DEF ReadTime, SuccessUnlessLater, a, b
<1>4. Whole({a}) /\ Whole({b})
  BY <1>2 DEF Whole, WholeStep, Clears, Prepares
<1>5. Plan(rd) /\ StepsOf(rd) = {a} /\ Plan(ck) /\ StepsOf(ck) = {b}
  BY <1>3, <1>4, PlanOne
<1> HIDE DEF rd, ck, S
<1>6. Plan(rd \o cs) /\ StepsOf(rd \o cs) = {a} \cup S
  <2>1. \A x \in StepsOf(rd), y \in StepsOf(cs) : Across(x, y)
    BY <1>1, <1>2, <1>5 DEF Across, S
  <2>2. ~HasTell(StepsOf(rd))
    BY <1>2, <1>5 DEF HasTell, Tells
  <2>3. Plan(rd \o cs) /\ StepsOf(rd \o cs) = StepsOf(rd) \cup StepsOf(cs)
    BY <1>1, <1>5, <2>1, <2>2, PlanBoth
  <2> QED  BY <1>5, <2>3 DEF S
<1>7. Fits({a} \cup S, Fpgas)
  BY <1>1, <1>2 DEF Fits, Has, HasTell, OfF, WritesTo
<1>8. ASSUME kind # "tells"
      PROVE  /\ Plan((rd \o cs) \o ck)
             /\ Fits(StepsOf((rd \o cs) \o ck), Fpgas)
  <2>1. \A x \in StepsOf(rd \o cs), y \in StepsOf(ck) : Across(x, y)
    BY <1>2, <1>5, <1>6 DEF Across
  <2>2. ~HasTell(StepsOf(rd \o cs))
    BY <1>1, <1>2, <1>6, <1>8 DEF HasTell, Tells
  <2>3. /\ Plan((rd \o cs) \o ck)
        /\ StepsOf((rd \o cs) \o ck) = StepsOf(rd \o cs) \cup StepsOf(ck)
    BY <1>5, <1>6, <2>1, <2>2, PlanBoth
  <2>4. Fits(({a} \cup S) \cup {b}, Fpgas)
    BY <1>1, <1>2 DEF Fits, Has, OfF, WritesTo
  <2> QED  BY <1>5, <1>6, <2>3, <2>4
<1> QED  BY <1>6, <1>7, <1>8 DEF rd, ck

\* Calls that neither ask, start, stop nor tell
LightDo == {"set", "single_channel_off", "await_none"}
Light(S) == \A s \in S : s.do \in LightDo

LEMMA LightFacts ==
  ASSUME NEW S, Light(S)
  PROVE  /\ Whole(S) /\ ~HasTell(S)
         /\ \A a \in S : \A b : b.do \in LightDo => Allowed(a, b)
         /\ \A a \in S : \A b : Across(a, b)
BY DEF Light, LightDo, Whole, WholeStep, Clears, Prepares, HasTell, Tells, Allowed, Across,
       Writes, BeamSteps

LEMMA PlanLight ==
  ASSUME NEW cs, cs \in [1 .. NofTiles -> CallType],
         \A t \in 1 .. NofTiles : InOrder(cs[t]) /\ Light(Range(cs[t]))
  PROVE  Plan(cs) /\ Light(StepsOf(cs)) /\ Fits(StepsOf(cs), Fpgas)
<1>1. \A t \in 1 .. NofTiles : Whole(Range(cs[t])) /\ ~HasTell(Range(cs[t]))
  BY LightFacts
<1>2. \A t, u \in 1 .. NofTiles : Between(Range(cs[t]), Range(cs[u]))
  BY <1>1, LightFacts DEF Between
<1>3. Plan(cs) /\ \A x : x \in StepsOf(cs) <=> \E t \in 1 .. NofTiles : x \in Range(cs[t])
  BY <1>1, <1>2, PlanCalls
<1>4. Light(StepsOf(cs))
  BY <1>3 DEF Light
<1>5. Fits(StepsOf(cs), Fpgas)
  BY <1>4 DEF Fits, Light, LightDo, Has, HasTell, Tells
<1> QED  BY <1>3, <1>4, <1>5

LEMMA LightBefore ==
  ASSUME NEW cs, NEW ds, Plan(cs), Light(StepsOf(cs)), Plan(ds)
  PROVE  /\ Plan(cs \o ds)
         /\ Light(StepsOf(ds)) => Light(StepsOf(cs \o ds))
         /\ \A fs : Fits(StepsOf(ds), fs) => Fits(StepsOf(cs \o ds), fs)
<1> DEFINE A == StepsOf(cs)  B == StepsOf(ds)
<1>1. ~HasTell(A) /\ \A a \in A, b \in B : Across(a, b)
  BY LightFacts
<1>2. Plan(cs \o ds) /\ StepsOf(cs \o ds) = A \cup B
  BY <1>1, PlanBoth
<1> HIDE DEF A, B
<1>3. /\ Has(A \cup B, "request") <=> Has(B, "request")
      /\ Has(A \cup B, "leave_if_running") <=> Has(B, "leave_if_running")
      /\ Has(A \cup B, "check_later") <=> Has(B, "check_later")
      /\ HasTell(A \cup B) <=> HasTell(B)
      /\ \A s \in A : s.do # "request"
  BY DEF Light, LightDo, Has, HasTell, Tells, A
<1>4. ASSUME NEW fs, Fits(B, fs)
      PROVE  Fits(A \cup B, fs)
  BY <1>3, <1>4 DEF Fits, OfF, WritesTo
<1>5. Light(B) => Light(A \cup B)
  BY DEF Light, A
<1> QED  BY <1>2, <1>4, <1>5 DEF A, B
-----------------------------------------------------------------------------
(* The calls that set, and those that write a time                         *)

\* a call to a tile that is a command
TileFits(c, t) ==
  /\ c \in CallType /\ InOrder(c) /\ Whole(Range(c))
  /\ Fits(Range(c), FpgasOf(t))

LightCall(c) == c \in CallType /\ InOrder(c) /\ Light(Range(c))

LEMMA LightTileFits ==
  ASSUME NEW c, NEW t, LightCall(c)
  PROVE  TileFits(c, t)
<1>1. c \in CallType /\ InOrder(c) /\ Light(Range(c)) /\ Whole(Range(c)) /\ ~HasTell(Range(c))
  BY LightFacts DEF LightCall
<1>2. Fits(Range(c), FpgasOf(t))
  BY <1>1 DEF Fits, Light, LightDo, Has
<1> QED  BY <1>1, <1>2 DEF TileFits

LEMMA TwoLight ==
  ASSUME NEW a \in StepType, NEW b \in StepType, a.do \in LightDo, b.do \in LightDo
  PROVE  LightCall(<<a>> \o <<b>>)
<1>1. Light({a}) /\ Light({a} \cup {b})
  BY DEF Light
<1>2. \A x \in {a}, y \in {b} : Allowed(x, y)
  BY <1>1, LightFacts
<1>3. Is(<<a>> \o <<b>>, {a} \cup {b})
  BY <1>2, IsOne, IsBoth
<1>4. <<a>> \o <<b>> # <<>>
  BY <1>3, IsType
<1> QED  BY <1>1, <1>3, <1>4 DEF LightCall, Is, CallType

LEMMA SetSteps ==
  ASSUME NEW t \in 1 .. NofTiles, NEW do \in {"set", "single_channel_off"}
  PROVE  LightCall(<<OfFpga(do, <<t, 1>>)>> \o <<OfFpga(do, <<t, 2>>)>>)
<1>1. /\ OfFpga(do, <<t, 1>>) \in StepType /\ OfFpga(do, <<t, 1>>).do \in LightDo
      /\ OfFpga(do, <<t, 2>>) \in StepType /\ OfFpga(do, <<t, 2>>).do \in LightDo
  BY FpgaFacts DEF OfFpga, StepType, FpgaSteps, LightDo
<1> QED  BY <1>1, TwoLight

LEMMA SetCalls ==
  ASSUME NEW t \in 1 .. NofTiles
  PROVE  /\ LightCall(Tile!stop_data_transmission(t))
         /\ LightCall(Tile!set_multi_channel_tx(t))
         /\ LightCall(Tile!set_multi_channel_dst_ip(t))
         /\ LightCall(Tile!stop_multi_channel_tx(t))
         /\ LightCall(Tile!set_pointing_delay(t))
         /\ LightCall(Tile!load_antenna_tapering(t))
         /\ LightCall(Tile!load_beam_angle(t))
         /\ LightCall(Tile!load_calibration_coefficients(t, 0)
                        \o Tile!load_calibration_coefficients(t, 8))
<1> DEFINE on(do) == <<OfFpga(do, <<t, 1>>)>> \o <<OfFpga(do, <<t, 2>>)>>
<1>1. LightCall(on("set")) /\ LightCall(on("single_channel_off"))
  BY SetSteps
<1>2. Tile!stop_data_transmission(t) = on("single_channel_off")
  BY DEF Tile!stop_data_transmission, Tile!ForBoth, Tile!Firmware!stop_channelised_data_continuous,
         Tile!Firmware!OfFpga, OfFpga
<1>3. /\ Tile!set_multi_channel_tx(t) = on("set")
      /\ Tile!set_multi_channel_dst_ip(t) = on("set")
      /\ Tile!stop_multi_channel_tx(t) = on("set")
      /\ Tile!set_pointing_delay(t) = on("set")
      /\ Tile!load_antenna_tapering(t) = on("set")
      /\ Tile!load_beam_angle(t) = on("set")
  BY DEF Tile!set_multi_channel_tx, Tile!set_multi_channel_dst_ip, Tile!stop_multi_channel_tx,
         Tile!set_pointing_delay, Tile!load_antenna_tapering, Tile!load_beam_angle,
         Tile!ForBoth, Tile!SetAtOnce, Tile!OfFpga, OfFpga
<1>4. Tile!load_calibration_coefficients(t, 0) \o Tile!load_calibration_coefficients(t, 8)
        = on("set")
  <2>1. (0 < 8) /\ ~(8 < 8)
    OBVIOUS
  <2>2. Tile!fpgas(t)[1] = <<t, 1>> /\ Tile!fpgas(t)[2] = <<t, 2>>
    BY DEF Tile!fpgas
  <2> QED  BY <2>1, <2>2 DEF Tile!load_calibration_coefficients, Tile!SetAtOnce, Tile!OfFpga, OfFpga
<1> HIDE DEF on
<1> QED  BY <1>1, <1>2, <1>3, <1>4

\* The time is read, if no one gives it, and written to both FPGAs of a tile.
LEMMA WriteSteps ==
  ASSUME NEW t \in 1 .. NofTiles
  PROVE  LET w1 == OfFpga("write_time", <<t, 1>>)
             w2 == OfFpga("write_time", <<t, 2>>)
             r == Step("read_time")
             p == Step("check_passed")
             both == <<w1>> \o <<w2>>
         IN /\ Is(both, {w1} \cup {w2})
            /\ Is(<<r>> \o both, {r} \cup ({w1} \cup {w2}))
            /\ Is(both \o <<p>>, ({w1} \cup {w2}) \cup {p})
            /\ Is((<<r>> \o both) \o <<p>>, ({r} \cup ({w1} \cup {w2})) \cup {p})
            /\ w1.do = "write_time" /\ w1.fpga = <<t, 1>>
            /\ w2.do = "write_time" /\ w2.fpga = <<t, 2>>
            /\ r.do = "read_time" /\ p.do = "check_passed"
<1> DEFINE w1 == OfFpga("write_time", <<t, 1>>)
           w2 == OfFpga("write_time", <<t, 2>>)
           r == Step("read_time")
           p == Step("check_passed")
           both == <<w1>> \o <<w2>>
<1>1. /\ w1 \in StepType /\ w2 \in StepType /\ r \in StepType /\ p \in StepType
      /\ w1.do = "write_time" /\ w1.fpga = <<t, 1>>
      /\ w2.do = "write_time" /\ w2.fpga = <<t, 2>>
      /\ r.do = "read_time" /\ p.do = "check_passed"
  BY FpgaFacts DEF OfFpga, Step, StepType, FpgaSteps
<1> HIDE DEF w1, w2, r, p
<1>2. /\ \A x \in {w1}, y \in {w2} : Allowed(x, y)
      /\ \A x \in {r}, y \in {w1} \cup {w2} : Allowed(x, y)
      /\ \A x \in {w1} \cup {w2}, y \in {p} : Allowed(x, y)
      /\ \A x \in {r} \cup ({w1} \cup {w2}), y \in {p} : Allowed(x, y)
  BY <1>1 DEF Allowed, Across, Tells, Clears, Prepares, Writes, BeamSteps
<1>3. Is(<<w1>>, {w1}) /\ Is(<<w2>>, {w2}) /\ Is(<<r>>, {r}) /\ Is(<<p>>, {p})
  BY <1>1, IsOne
<1>4. Is(both, {w1} \cup {w2})
  BY <1>2, <1>3, IsBoth
<1> HIDE DEF both
<1>5. Is(<<r>> \o both, {r} \cup ({w1} \cup {w2})) /\ Is(both \o <<p>>, ({w1} \cup {w2}) \cup {p})
  BY <1>2, <1>3, <1>4, IsBoth
<1>6. Is((<<r>> \o both) \o <<p>>, ({r} \cup ({w1} \cup {w2})) \cup {p})
  BY <1>2, <1>3, <1>5, IsBoth
<1> QED  BY <1>1, <1>4, <1>5, <1>6 DEF w1, w2, r, p, both

\* steps of which each writes a time to both FPGAs of a tile, reads it or tells
TimesOnly(S, t) ==
  /\ \A s \in S : /\ s.do \in {"read_time", "write_time", "check_passed"}
                  /\ s.do = "write_time" => s.fpga \in FpgasOf(t)
  /\ \A f \in FpgasOf(t) : WritesTo(S, f)

LEMMA TimesFit ==
  ASSUME NEW t \in 1 .. NofTiles, NEW c, NEW S, Is(c, S), TimesOnly(S, t)
  PROVE  /\ TileFits(c, t)
         /\ ~Has(S, "read_time") /\ ~HasTell(S) => Working(c, t, "writes")
         /\ ~Has(S, "read_time") /\ HasTell(S) => Working(c, t, "tells")
<1>1. <<t, 1>> \in FpgasOf(t)
  BY DEF FpgasOf
<1>2. S # {}
  BY <1>1 DEF TimesOnly, WritesTo
<1>3. c \in CallType /\ InOrder(c) /\ Range(c) = S
  BY <1>2, IsType DEF Is, CallType
<1>4. /\ Whole(S) /\ ~Has(S, "request") /\ ~Has(S, "leave_if_running")
      /\ ~Has(S, "check_later")
  BY DEF TimesOnly, Whole, WholeStep, Clears, Prepares, Has
<1>5. \A f \in FpgasOf(t) : WritesTo(S, f)
  BY DEF TimesOnly
<1>6. TileFits(c, t)
  <2>1. \A s \in S : s.do # "request"
    BY DEF TimesOnly
  <2> QED  BY <1>3, <1>4, <1>5, <2>1 DEF TileFits, Fits
<1>7. ASSUME ~Has(S, "read_time")
      PROVE  /\ ~HasTell(S) => Working(c, t, "writes")
             /\ HasTell(S) => Working(c, t, "tells")
  <2>1. \A s \in S : s.do \notin {"read_time", "leave_if_running", "request", "apply_sync_delay"}
    BY <1>7 DEF TimesOnly, Has
  <2> QED  BY <1>3, <1>4, <1>5, <2>1 DEF Working
<1> QED  BY <1>6, <1>7

LEMMA WriteCalls ==
  ASSUME NEW t \in 1 .. NofTiles
  PROVE  /\ Working(ForBoth(t, WriteTime), t, "writes")
         /\ Working(Tile!start_multi_channel_tx(t, TRUE), t, "tells")
         /\ TileFits(Tile!start_multi_channel_tx(t, FALSE), t)
         /\ TileFits(Tile!load_pointing_delay(t), t)
         /\ TileFits(Tile!switch_calibration_bank(t), t)
         /\ TileFits(Tile!synchronised_beamformer_coefficients(t, FALSE), t)
         /\ TileFits(Tile!test_generator_set_tone(t), t)
         /\ TileFits(Tile!test_generator_disable_tone(t), t)
         /\ TileFits(Tile!test_generator_set_noise(t), t)
<1> DEFINE w1 == OfFpga("write_time", <<t, 1>>)
           w2 == OfFpga("write_time", <<t, 2>>)
           r == Step("read_time")
           p == Step("check_passed")
           both == <<w1>> \o <<w2>>
           W == {w1} \cup {w2}
<1>1. /\ Is(both, W)
      /\ Is(<<r>> \o both, {r} \cup W)
      /\ Is(both \o <<p>>, W \cup {p})
      /\ Is((<<r>> \o both) \o <<p>>, ({r} \cup W) \cup {p})
      /\ w1.do = "write_time" /\ w1.fpga = <<t, 1>>
      /\ w2.do = "write_time" /\ w2.fpga = <<t, 2>>
      /\ r.do = "read_time" /\ p.do = "check_passed"
  BY WriteSteps
<1>2. /\ ForBoth(t, WriteTime) = both
      /\ Tile!ForBoth(t, Tile!WriteTime) = both
  BY DEF ForBoth, WriteTime, Tile!ForBoth, Tile!WriteTime, Tile!OfFpga, OfFpga
<1>3. Tile!ReadTime = <<r>> /\ Tile!SuccessUnlessPassed = <<p>>
  BY DEF Tile!ReadTime, Tile!SuccessUnlessPassed, Tile!Step, Step
<1> HIDE DEF both, r, p
<1>4. <<>> \o both = both
  BY <1>1, ConcatEmptySeq DEF Is
<1>5. /\ Tile!start_multi_channel_tx(t, TRUE) = both \o <<p>>
      /\ Tile!start_multi_channel_tx(t, FALSE) = (<<r>> \o both) \o <<p>>
  BY <1>2, <1>3, <1>4 DEF Tile!start_multi_channel_tx
<1>6. /\ Tile!load_pointing_delay(t) = <<r>> \o both
      /\ Tile!switch_calibration_bank(t) = <<r>> \o both
      /\ Tile!synchronised_beamformer_coefficients(t, FALSE) = <<r>> \o both
      /\ Tile!test_generator_set_tone(t) = <<r>> \o both
      /\ Tile!test_generator_disable_tone(t) = <<r>> \o both
      /\ Tile!test_generator_set_noise(t) = <<r>> \o both
  BY <1>2, <1>3 DEF Tile!load_pointing_delay, Tile!switch_calibration_bank,
     Tile!synchronised_beamformer_coefficients, Tile!test_generator_set_tone,
     Tile!test_generator_disable_tone, Tile!test_generator_set_noise,
     Tile!current_tile_beamformer_frame
<1> HIDE DEF w1, w2
<1>7. \A f \in FpgasOf(t) : f = <<t, 1>> \/ f = <<t, 2>>
  BY DEF FpgasOf
<1>8. <<t, 1>> \in FpgasOf(t) /\ <<t, 2>> \in FpgasOf(t)
  BY DEF FpgasOf
<1>9. /\ TimesOnly(W, t) /\ TimesOnly({r} \cup W, t) /\ TimesOnly(W \cup {p}, t)
      /\ TimesOnly(({r} \cup W) \cup {p}, t)
  <2>1. \A S : w1 \in S /\ w2 \in S => \A f \in FpgasOf(t) : WritesTo(S, f)
    BY <1>1, <1>7 DEF WritesTo, Writes
  <2> QED  BY <1>1, <1>8, <2>1 DEF TimesOnly
<1>10. /\ ~Has(W, "read_time") /\ ~HasTell(W)
       /\ ~Has(W \cup {p}, "read_time") /\ HasTell(W \cup {p})
  BY <1>1 DEF Has, HasTell, Tells
<1> HIDE DEF W
<1>11. Working(both, t, "writes") /\ Working(both \o <<p>>, t, "tells")
  BY <1>1, <1>9, <1>10, TimesFit
<1>12. TileFits(<<r>> \o both, t) /\ TileFits((<<r>> \o both) \o <<p>>, t)
  BY <1>1, <1>9, TimesFit
<1> QED  BY <1>2, <1>5, <1>6, <1>11, <1>12
-----------------------------------------------------------------------------
(* The calls that ask for data                                             *)

\* what an FPGA is told, in the mode and, of channels, of a narrow band or not
BodyFor(B, f, mode, ddcdo, given) ==
  /\ \A s \in B : /\ s.do \in {"single_channel_on", "single_channel_off", "request", ddcdo}
                  /\ s.fpga = f
                  /\ s.do = "request" => s.mode = mode
  /\ f \in given => OfF(B, "request", f)
  /\ f \notin given => B = {}
  /\ f \in given /\ mode = "channelized_mode" => OfF(B, ddcdo, f)

\* and how it is checked
CheckFor(k, t, mode, ddcdo, given) ==
  \/ /\ ddcdo = "ddc_off"
     /\ k.do = "check_flag" /\ k.tile = t /\ k.mode = mode /\ k.checked = given
  \/ ddcdo = "ddc_on" /\ mode = "channelized_mode" /\ k.do = "check_only"

\* what there is of a call for data
DataSteps(S, t, mode, ddcdo, given) ==
  /\ S \subseteq StepType
  /\ \A s \in S :
       /\ s.do \in {"single_channel_on", "single_channel_off", "await_no_request", "read_time",
                    "apply_sync_delay", "ddc_on", "ddc_off", "request", "check_flag", "check_only"}
       /\ s.do \in {"ddc_on", "ddc_off"} => s.do = ddcdo
       /\ s.do \in {"ddc_on", "ddc_off", "request"} => s.fpga \in given
       /\ s.do = "apply_sync_delay" => s.fpga \in FpgasOf(t)
       /\ s.do = "request" => s.mode = mode
       /\ s.do = "check_flag" => s.tile = t /\ s.checked = given /\ ddcdo = "ddc_off"
  /\ OfT(S, "await_no_request", t)
  /\ \A f \in FpgasOf(t) : OfF(S, "apply_sync_delay", f)
  /\ \A f \in given : OfF(S, "request", f)
  /\ mode = "channelized_mode" => \A f \in given : OfF(S, ddcdo, f)
  /\ ddcdo = "ddc_off" => \E s \in S : s.do = "check_flag" /\ s.mode = mode /\ s.checked = given
  /\ ddcdo = "ddc_on" => mode = "channelized_mode"

LEMMA DataFits ==
  ASSUME NEW t \in 1 .. NofTiles, NEW mode, NEW ddcdo \in {"ddc_on", "ddc_off"},
         NEW given \in SUBSET FpgasOf(t), NEW c, NEW S, Is(c, S),
         DataSteps(S, t, mode, ddcdo, given)
  PROVE  /\ TileFits(c, t)
         /\ ~Has(S, "read_time") /\ given = FpgasOf(t) => Working(c, t, "asks")
<1>1. c \in CallType /\ InOrder(c) /\ Range(c) = S
  <2>1. S # {}
    BY DEF DataSteps, OfT
  <2> QED  BY <2>1, IsType DEF Is, CallType
<1>2. \A f \in FpgasOf(t) : f[1] = t
  BY FpgaFacts
<1>3. ASSUME NEW s \in S
      PROVE  WholeStep(S, s)
  <2>1. /\ s.do \in {"single_channel_on", "single_channel_off", "await_no_request", "read_time",
                     "apply_sync_delay", "ddc_on", "ddc_off", "request", "check_flag", "check_only"}
        /\ s.do \in Prepares => s.fpga \in given
        /\ s.do = "request" => s.mode = mode
        /\ s.do = "check_flag" => s.tile = t /\ s.checked = given
        /\ OfT(S, "await_no_request", t)
    BY DEF DataSteps, Prepares
  <2>2. s.do \notin Clears
    BY <2>1 DEF Clears
  <2>3. s.do \in Prepares => OfT(S, "await_no_request", s.fpga[1])
    BY <1>2, <2>1
  <2>4. s.do = "check_flag" => s.checked \subseteq FpgasOf(s.tile) /\ OfT(S, "await_no_request", s.tile)
    BY <2>1
  <2>5. ASSUME s.do = "request"
        PROVE  \/ CheckedRequest(S, s) /\ (s.mode = "channelized_mode" => OfF(S, "ddc_off", s.fpga))
               \/ NarrowRequest(S, s) /\ OfF(S, "ddc_on", s.fpga)
    <3>1. s.fpga \in given /\ s.mode = mode
      BY <2>1, <2>5 DEF Prepares
    <3>2. CASE ddcdo = "ddc_off"
      <4>1. \E k \in ChecksOf(S, s.fpga) : k.mode = s.mode
        BY <3>1, <3>2 DEF DataSteps, ChecksOf
      <4>2. ~OfF(S, "ddc_on", s.fpga)
        BY <3>2 DEF DataSteps, OfF
      <4>3. s.mode = "channelized_mode" => OfF(S, "ddc_off", s.fpga)
        BY <3>1, <3>2 DEF DataSteps
      <4> QED  BY <4>1, <4>2, <4>3 DEF CheckedRequest
    <3>3. CASE ddcdo = "ddc_on"
      <4>1. s.mode = "channelized_mode" /\ OfF(S, "ddc_on", s.fpga)
        BY <3>1, <3>3 DEF DataSteps
      <4>2. ~OfF(S, "ddc_off", s.fpga) /\ ~OfT(S, "check_flag", s.fpga[1])
        BY <3>3 DEF DataSteps, OfF, OfT
      <4> QED  BY <4>1, <4>2 DEF NarrowRequest
    <3> QED  BY <3>2, <3>3
  <2>6. s.do \notin {"start_beam", "check_started", "abort"}
    BY <2>1
  <2> QED  BY <2>2, <2>3, <2>4, <2>5, <2>6 DEF WholeStep
<1>4. Whole(S)
  BY <1>3 DEF Whole
<1>5. /\ ~HasTell(S) /\ ~Has(S, "leave_if_running") /\ ~Has(S, "check_later")
      /\ \A s \in S : s.do \in {"request", "apply_sync_delay"} => s.fpga \in FpgasOf(t)
      /\ \A f \in FpgasOf(t) : OfF(S, "apply_sync_delay", f)
      /\ \A s \in S : s.do # "leave_if_running"
  BY DEF DataSteps, HasTell, Tells, Has
<1>6. Fits(S, FpgasOf(t))
  BY <1>5 DEF Fits
<1>7. ASSUME ~Has(S, "read_time"), given = FpgasOf(t)
      PROVE  Working(c, t, "asks")
  <2>1. \A f \in FpgasOf(t) : WritesTo(S, f)
    BY <1>7 DEF DataSteps, OfF, WritesTo, Writes
  <2>2. \A s \in S : s.do \notin {"read_time", "leave_if_running"}
    BY <1>5, <1>7 DEF Has
  <2> QED  BY <1>1, <1>4, <1>5, <2>1, <2>2 DEF Working
<1> QED  BY <1>1, <1>4, <1>6, <1>7 DEF TileFits

\* The call begins with what is done for every kind of data.
LEMMA BeforeData ==
  ASSUME NEW t \in 1 .. NofTiles, NEW rd, NEW T, Is(rd, T), \A s \in T : s.do = "read_time"
  PROVE  \E P : /\ Is(Tile!stop_data_transmission(t)
                        \o ((<<OfTile("await_no_request", t)>> \o rd)
                              \o Tile!ForBoth(t, Tile!fpga_apply_sync_delay)), P)
                /\ \A s \in P :
                     /\ s.do \in {"single_channel_off", "await_no_request", "read_time",
                                  "apply_sync_delay"}
                     /\ s.do = "apply_sync_delay" => s.fpga \in FpgasOf(t)
                /\ Has(P, "read_time") => T # {}
                /\ OfT(P, "await_no_request", t)
                /\ \A f \in FpgasOf(t) : OfF(P, "apply_sync_delay", f)
<1> DEFINE x1 == OfFpga("single_channel_off", <<t, 1>>)
           x2 == OfFpga("single_channel_off", <<t, 2>>)
           a1 == OfFpga("apply_sync_delay", <<t, 1>>)
           a2 == OfFpga("apply_sync_delay", <<t, 2>>)
           w == OfTile("await_no_request", t)
           stops == <<x1>> \o <<x2>>
           delays == <<a1>> \o <<a2>>
           sync == (<<w>> \o rd) \o delays
<1>1. /\ x1 \in StepType /\ x2 \in StepType /\ a1 \in StepType /\ a2 \in StepType /\ w \in StepType
      /\ x1.do = "single_channel_off" /\ x2.do = "single_channel_off"
      /\ a1.do = "apply_sync_delay" /\ a2.do = "apply_sync_delay"
      /\ a1.fpga = <<t, 1>> /\ a2.fpga = <<t, 2>>
      /\ w.do = "await_no_request" /\ w.tile = t
  BY FpgaFacts DEF OfFpga, OfTile, StepType, FpgaSteps, TileDoings
<1>2. Tile!stop_data_transmission(t) = stops
  BY DEF Tile!stop_data_transmission, Tile!ForBoth, Tile!Firmware!stop_channelised_data_continuous,
         Tile!Firmware!OfFpga, OfFpga
<1>3. Tile!ForBoth(t, Tile!fpga_apply_sync_delay) = delays
  BY DEF Tile!ForBoth, Tile!fpga_apply_sync_delay, Tile!OfFpga, OfFpga
<1> HIDE DEF x1, x2, a1, a2, w
<1>4. Is(<<x1>>, {x1}) /\ Is(<<x2>>, {x2}) /\ Is(<<a1>>, {a1}) /\ Is(<<a2>>, {a2}) /\ Is(<<w>>, {w})
  BY <1>1, IsOne
<1>5. /\ \A p \in {x1}, q \in {x2} : Allowed(p, q)
      /\ \A p \in {a1}, q \in {a2} : Allowed(p, q)
      /\ \A p \in {w}, q \in T : Allowed(p, q)
      /\ \A p \in {w} \cup T, q \in {a1} \cup {a2} : Allowed(p, q)
      /\ \A p \in {x1} \cup {x2}, q \in ({w} \cup T) \cup ({a1} \cup {a2}) : Allowed(p, q)
  BY <1>1 DEF Allowed, Across, Tells, Clears, Prepares, Writes, BeamSteps
<1>6. Is(stops, {x1} \cup {x2}) /\ Is(delays, {a1} \cup {a2}) /\ Is(<<w>> \o rd, {w} \cup T)
  BY <1>4, <1>5, IsBoth
<1> HIDE DEF stops, delays
<1>7. Is(sync, ({w} \cup T) \cup ({a1} \cup {a2}))
  BY <1>5, <1>6, IsBoth
<1> HIDE DEF sync
<1> DEFINE P == ({x1} \cup {x2}) \cup (({w} \cup T) \cup ({a1} \cup {a2}))
<1>8. Is(stops \o sync, P)
  BY <1>5, <1>6, <1>7, IsBoth
<1>9. \A s : s \in P <=> s \in {x1, x2, w, a1, a2} \/ s \in T
  OBVIOUS
<1> HIDE DEF P
<1>10. \A f \in FpgasOf(t) : f = <<t, 1>> \/ f = <<t, 2>>
  BY DEF FpgasOf
<1>11. <<t, 1>> \in FpgasOf(t) /\ <<t, 2>> \in FpgasOf(t)
  BY DEF FpgasOf
<1>12. /\ \A s \in P :
            /\ s.do \in {"single_channel_off", "await_no_request", "read_time", "apply_sync_delay"}
            /\ s.do = "apply_sync_delay" => s.fpga \in FpgasOf(t)
       /\ Has(P, "read_time") => T # {}
  BY <1>1, <1>9, <1>11 DEF Has
<1>13. /\ OfT(P, "await_no_request", t)
       /\ \A f \in FpgasOf(t) : OfF(P, "apply_sync_delay", f)
  BY <1>1, <1>9, <1>10 DEF OfT, OfF
<1> QED  BY <1>2, <1>3, <1>8, <1>12, <1>13 DEF sync, w

DataCommand(t, rd, b1, b2, k) ==
  ((Tile!stop_data_transmission(t)
      \o ((<<OfTile("await_no_request", t)>> \o rd)
            \o Tile!ForBoth(t, Tile!fpga_apply_sync_delay)))
   \o (b1 \o b2)) \o <<k>>

LEMMA DataCall ==
  ASSUME NEW t \in 1 .. NofTiles, NEW mode, NEW ddcdo \in {"ddc_on", "ddc_off"},
         NEW given \in SUBSET FpgasOf(t),
         NEW rd, NEW T, Is(rd, T), \A s \in T : s.do = "read_time",
         NEW b1, NEW B1, Is(b1, B1), BodyFor(B1, <<t, 1>>, mode, ddcdo, given),
         NEW b2, NEW B2, Is(b2, B2), BodyFor(B2, <<t, 2>>, mode, ddcdo, given),
         NEW k \in StepType, CheckFor(k, t, mode, ddcdo, given)
  PROVE  /\ TileFits(DataCommand(t, rd, b1, b2, k), t)
         /\ T = {} /\ given = FpgasOf(t) => Working(DataCommand(t, rd, b1, b2, k), t, "asks")
<1> DEFINE c == DataCommand(t, rd, b1, b2, k)
<1> DEFINE front == Tile!stop_data_transmission(t)
                      \o ((<<OfTile("await_no_request", t)>> \o rd)
                            \o Tile!ForBoth(t, Tile!fpga_apply_sync_delay))
<1>1. PICK P : /\ Is(front, P)
               /\ \A s \in P :
                    /\ s.do \in {"single_channel_off", "await_no_request", "read_time",
                                 "apply_sync_delay"}
                    /\ s.do = "apply_sync_delay" => s.fpga \in FpgasOf(t)
               /\ Has(P, "read_time") => T # {}
               /\ OfT(P, "await_no_request", t)
               /\ \A f \in FpgasOf(t) : OfF(P, "apply_sync_delay", f)
  BY BeforeData
<1> HIDE DEF front
<1>2. /\ \A s \in B1 \cup B2 :
           /\ s.do \in {"single_channel_on", "single_channel_off", "request", ddcdo}
           /\ s.do = "request" => s.mode = mode
      /\ \A s \in B1 : s.fpga = <<t, 1>> /\ s.fpga \in given
      /\ \A s \in B2 : s.fpga = <<t, 2>> /\ s.fpga \in given
  BY DEF BodyFor
<1>3. k.do \in {"check_flag", "check_only"} /\ <<t, 1>> # <<t, 2>>
  BY DEF CheckFor
<1>4. /\ \A p \in B1, q \in B2 : Allowed(p, q)
      /\ \A p \in P, q \in B1 \cup B2 : Allowed(p, q)
      /\ \A p \in P \cup (B1 \cup B2), q \in {k} : Allowed(p, q)
  <2>1. \A p \in B1, q \in B2 : p.fpga # q.fpga
    BY <1>2, <1>3
  <2>2. \A p \in B1, q \in B2 : Allowed(p, q)
    BY <1>2, <2>1 DEF Allowed, Across, Tells, Clears, Prepares, Writes, BeamSteps
  <2>3. \A p \in P, q \in B1 \cup B2 : Allowed(p, q)
    BY <1>1, <1>2 DEF Allowed, Across, Tells, Clears, Prepares, Writes, BeamSteps
  <2>4. \A p \in P, q \in {k} : Allowed(p, q)
    BY <1>1, <1>3 DEF Allowed, Across, Tells, Clears, Prepares, Writes, BeamSteps
  <2>5. \A p \in B1 \cup B2, q \in {k} : Allowed(p, q)
    BY <1>2, <1>3 DEF Allowed, Across, Tells, Clears, Prepares, Writes, BeamSteps
  <2> QED  BY <2>2, <2>3, <2>4, <2>5
<1>5. Is(b1 \o b2, B1 \cup B2)
  BY <1>4, IsBoth
<1>6. Is(front \o (b1 \o b2), P \cup (B1 \cup B2))
  BY <1>1, <1>4, <1>5, IsBoth
<1> DEFINE S == (P \cup (B1 \cup B2)) \cup {k}
<1>7. Is(c, S)
  BY <1>4, <1>6, IsOne, IsBoth DEF front, DataCommand
<1>8. \A s : s \in S <=> s \in P \/ s \in B1 \/ s \in B2 \/ s = k
  OBVIOUS
<1> HIDE DEF S, c
<1>9. \A f \in FpgasOf(t) : f = <<t, 1>> \/ f = <<t, 2>>
  BY DEF FpgasOf
<1>10. DataSteps(S, t, mode, ddcdo, given)
  <2>1. S \subseteq StepType
    BY <1>7, IsType
  <2>2. ASSUME NEW s \in S
        PROVE  /\ s.do \in {"single_channel_on", "single_channel_off", "await_no_request",
                            "read_time", "apply_sync_delay", "ddc_on", "ddc_off", "request",
                            "check_flag", "check_only"}
               /\ s.do \in {"ddc_on", "ddc_off"} => s.do = ddcdo
               /\ s.do \in {"ddc_on", "ddc_off", "request"} => s.fpga \in given
               /\ s.do = "apply_sync_delay" => s.fpga \in FpgasOf(t)
               /\ s.do = "request" => s.mode = mode
               /\ s.do = "check_flag" => s.tile = t /\ s.checked = given /\ ddcdo = "ddc_off"
    <3>1. CASE s \in P
      BY <1>1, <3>1
    <3>2. CASE s \in B1 \/ s \in B2
      BY <1>2, <3>2
    <3>3. CASE s = k
      BY <3>3 DEF CheckFor
    <3> QED  BY <1>8, <3>1, <3>2, <3>3
  <2>3. OfT(S, "await_no_request", t) /\ \A f \in FpgasOf(t) : OfF(S, "apply_sync_delay", f)
    BY <1>1, <1>8 DEF OfT, OfF
  <2>4. \A do : /\ OfF(B1, do, <<t, 1>>) => OfF(S, do, <<t, 1>>)
                /\ OfF(B2, do, <<t, 2>>) => OfF(S, do, <<t, 2>>)
    BY <1>8 DEF OfF
  <2>5. \A f \in given : OfF(S, "request", f)
    BY <1>9, <2>4 DEF BodyFor
  <2>6. mode = "channelized_mode" => \A f \in given : OfF(S, ddcdo, f)
    BY <1>9, <2>4 DEF BodyFor
  <2>7. /\ ddcdo = "ddc_off" => \E s \in S : s.do = "check_flag" /\ s.mode = mode /\ s.checked = given
        /\ ddcdo = "ddc_on" => mode = "channelized_mode"
    BY <1>8 DEF CheckFor
  <2> QED  BY <2>1, <2>2, <2>3, <2>5, <2>6, <2>7 DEF DataSteps
<1>11. T = {} => ~Has(S, "read_time")
  BY <1>1, <1>2, <1>3, <1>8 DEF Has
<1> QED  BY <1>7, <1>10, <1>11, DataFits DEF c

LEMMA ThreeSteps ==
  ASSUME NEW x, NEW y, NEW q
  PROVE  (<<x>> \o <<y>>) \o <<q>> = <<x, y, q>>
<1> DEFINE T == {x, y, q}
           u == <<x>> \o <<y>>
           v == u \o <<q>>
           w == <<x, y, q>>
<1>1. /\ <<x>> \in Seq(T) /\ <<y>> \in Seq(T) /\ <<q>> \in Seq(T)
      /\ Len(<<q>>) = 1 /\ <<q>>[1] = q
      /\ w \in Seq(T) /\ Len(w) = 3 /\ w[1] = x /\ w[2] = y /\ w[3] = q
  OBVIOUS
<1>2. u \in Seq(T) /\ Len(u) = 2 /\ u[1] = x /\ u[2] = y
  BY <1>1, ConcatProperties
<1> HIDE DEF T, u
<1>3. v \in Seq(T) /\ Len(v) = 3 /\ v[1] = x /\ v[2] = y /\ v[3] = q
  <2>1. /\ v \in Seq(T) /\ Len(v) = 2 + 1
        /\ \A i \in 1 .. 2 + 1 : v[i] = IF i <= 2 THEN u[i] ELSE <<q>>[i - 2]
    BY <1>1, <1>2, ConcatProperties
  <2> HIDE DEF v
  <2>2. v[1] = u[1] /\ v[2] = u[2] /\ v[3] = <<q>>[1]
    BY <2>1
  <2> QED  BY <1>1, <1>2, <2>1, <2>2
<1> HIDE DEF v, w
<1>4. \A i \in 1 .. 3 : i = 1 \/ i = 2 \/ i = 3
  OBVIOUS
<1>5. \A i \in 1 .. Len(v) : v[i] = w[i]
  BY <1>1, <1>3, <1>4
<1>6. v = w
  BY <1>1, <1>3, <1>5, SeqEqual
<1> QED  BY <1>6 DEF v, u, w

\* What an FPGA is told for data that are not channels
LEMMA RequestBody ==
  ASSUME NEW t \in 1 .. NofTiles, NEW f \in FpgasOf(t), NEW given \in SUBSET FpgasOf(t),
         f \in given, NEW mode \in {"raw_adc_mode", "beamformed_mode"}
  PROVE  LET q == Request(f, mode)
         IN Is(<<q>>, {q}) /\ BodyFor({q}, f, mode, "ddc_off", given)
<1> DEFINE q == Request(f, mode)
<1>1. f \in Fpgas
  BY FpgaFacts
<1>2. q \in StepType /\ q.do = "request" /\ q.fpga = f /\ q.mode = mode
  BY <1>1 DEF Request, StepType, DataModes
<1> HIDE DEF q
<1>3. Is(<<q>>, {q})
  BY <1>2, IsOne
<1>4. BodyFor({q}, f, mode, "ddc_off", given)
  BY <1>2 DEF BodyFor, OfF
<1> QED  BY <1>3, <1>4 DEF q

\* ... and for channels
LEMMA ChannelBody ==
  ASSUME NEW t \in 1 .. NofTiles, NEW f \in FpgasOf(t), NEW on, NEW ddcdo,
         on \in {"single_channel_on", "single_channel_off"}, ddcdo \in {"ddc_on", "ddc_off"}
  PROVE  \E B : /\ Is(<<OfFpga(on, f), OfFpga(ddcdo, f), Request(f, "channelized_mode")>>, B)
                /\ BodyFor(B, f, "channelized_mode", ddcdo, FpgasOf(t))
<1> DEFINE x == OfFpga(on, f)
           y == OfFpga(ddcdo, f)
           q == Request(f, "channelized_mode")
           B == ({x} \cup {y}) \cup {q}
<1>1. f \in Fpgas
  BY FpgaFacts
<1>2. /\ x \in StepType /\ x.do = on /\ x.fpga = f
      /\ y \in StepType /\ y.do = ddcdo /\ y.fpga = f
      /\ q \in StepType /\ q.do = "request" /\ q.fpga = f /\ q.mode = "channelized_mode"
  BY <1>1 DEF OfFpga, Request, StepType, FpgaSteps, DataModes
<1> HIDE DEF x, y, q
<1>3. Is(<<x>>, {x}) /\ Is(<<y>>, {y}) /\ Is(<<q>>, {q})
  BY <1>2, IsOne
<1>4. /\ \A a \in {x}, b \in {y} : Allowed(a, b)
      /\ \A a \in {x} \cup {y}, b \in {q} : Allowed(a, b)
  BY <1>2 DEF Allowed, Across, Tells, Clears, Prepares, Writes, BeamSteps
<1>5. Is(<<x>> \o <<y>>, {x} \cup {y})
  BY <1>3, <1>4, IsBoth
<1>6. Is((<<x>> \o <<y>>) \o <<q>>, B)
  BY <1>3, <1>4, <1>5, IsBoth
<1>7. (<<x>> \o <<y>>) \o <<q>> = <<x, y, q>>
  BY ThreeSteps
<1>8. BodyFor(B, f, "channelized_mode", ddcdo, FpgasOf(t))
  <2>1. /\ x.do \in {"single_channel_on", "single_channel_off", "request", ddcdo}
        /\ x.do # "request" /\ y.do # "request"
    BY <1>2
  <2>2. \A s \in B : s = x \/ s = y \/ s = q
    OBVIOUS
  <2>3. OfF(B, "request", f) /\ OfF(B, ddcdo, f)
    BY <1>2 DEF OfF
  <2> HIDE DEF B
  <2> QED  BY <1>2, <2>1, <2>2, <2>3 DEF BodyFor
<1> QED  BY <1>6, <1>7, <1>8 DEF x, y, q

\* The data commands of a tile: with the time that the station gives to all of them, and
\* with the time that the tile reads.
LEMMA ReadOrGiven ==
  \E T : Is(Tile!ReadTime, T) /\ T # {} /\ \A s \in T : s.do = "read_time"
<1> DEFINE r == Step("read_time")
<1>1. Tile!ReadTime = <<r>> /\ r \in StepType /\ r.do = "read_time"
  BY DEF Tile!ReadTime, Tile!Step, Step, StepType
<1> HIDE DEF r
<1>2. Is(Tile!ReadTime, {r})
  BY <1>1, IsOne
<1> QED  BY <1>1, <1>2

LEMMA RequestCalls ==
  ASSUME NEW t \in 1 .. NofTiles, NEW mode \in {"raw_adc_mode", "beamformed_mode"},
         NEW rd, NEW T, Is(rd, T), \A s \in T : s.do = "read_time",
         NEW c, c = DataCommand(t, rd, <<Request(<<t, 1>>, mode)>>, <<Request(<<t, 2>>, mode)>>,
                                Check(t, mode, FpgasOf(t)))
  PROVE  /\ TileFits(c, t)
         /\ T = {} => Working(c, t, "asks")
<1> DEFINE q1 == Request(<<t, 1>>, mode)
           q2 == Request(<<t, 2>>, mode)
           k == Check(t, mode, FpgasOf(t))
<1>1. <<t, 1>> \in FpgasOf(t) /\ <<t, 2>> \in FpgasOf(t) /\ FpgasOf(t) \in SUBSET FpgasOf(t)
  BY DEF FpgasOf
<1>2. /\ Is(<<q1>>, {q1}) /\ BodyFor({q1}, <<t, 1>>, mode, "ddc_off", FpgasOf(t))
      /\ Is(<<q2>>, {q2}) /\ BodyFor({q2}, <<t, 2>>, mode, "ddc_off", FpgasOf(t))
  BY <1>1, RequestBody
<1>3. k \in StepType /\ CheckFor(k, t, mode, "ddc_off", FpgasOf(t))
  <2>1. FpgasOf(t) \subseteq Fpgas
    BY FpgaFacts
  <2> QED  BY <2>1 DEF Check, StepType, DataModes, CheckFor
<1>4. c = DataCommand(t, rd, <<q1>>, <<q2>>, k)
  OBVIOUS
<1> HIDE DEF q1, q2, k
<1> QED  BY <1>1, <1>2, <1>3, <1>4, DataCall

LEMMA ChannelCalls ==
  ASSUME NEW t \in 1 .. NofTiles, NEW on, NEW ddcdo,
         on \in {"single_channel_on", "single_channel_off"}, ddcdo \in {"ddc_on", "ddc_off"},
         NEW rd, NEW T, Is(rd, T), \A s \in T : s.do = "read_time",
         NEW k, k = IF ddcdo = "ddc_off" THEN Check(t, "channelized_mode", FpgasOf(t))
                                         ELSE OfTile("check_only", t),
         NEW c,
         c = DataCommand(t, rd,
               <<OfFpga(on, <<t, 1>>), OfFpga(ddcdo, <<t, 1>>),
                 Request(<<t, 1>>, "channelized_mode")>>,
               <<OfFpga(on, <<t, 2>>), OfFpga(ddcdo, <<t, 2>>),
                 Request(<<t, 2>>, "channelized_mode")>>, k)
  PROVE  /\ TileFits(c, t)
         /\ T = {} => Working(c, t, "asks")
<1> DEFINE b1 == <<OfFpga(on, <<t, 1>>), OfFpga(ddcdo, <<t, 1>>),
                   Request(<<t, 1>>, "channelized_mode")>>
           b2 == <<OfFpga(on, <<t, 2>>), OfFpga(ddcdo, <<t, 2>>),
                   Request(<<t, 2>>, "channelized_mode")>>
<1>1. <<t, 1>> \in FpgasOf(t) /\ <<t, 2>> \in FpgasOf(t) /\ FpgasOf(t) \in SUBSET FpgasOf(t)
  BY DEF FpgasOf
<1>2. \A f \in FpgasOf(t) :
        \E B : /\ Is(<<OfFpga(on, f), OfFpga(ddcdo, f), Request(f, "channelized_mode")>>, B)
              /\ BodyFor(B, f, "channelized_mode", ddcdo, FpgasOf(t))
  BY ChannelBody
<1>3. /\ \E B : Is(b1, B) /\ BodyFor(B, <<t, 1>>, "channelized_mode", ddcdo, FpgasOf(t))
      /\ \E B : Is(b2, B) /\ BodyFor(B, <<t, 2>>, "channelized_mode", ddcdo, FpgasOf(t))
  BY <1>1, <1>2, Zenon
<1>4. k \in StepType /\ CheckFor(k, t, "channelized_mode", ddcdo, FpgasOf(t))
  <2>1. FpgasOf(t) \subseteq Fpgas
    BY FpgaFacts
  <2>2. CASE ddcdo = "ddc_off"
    BY <2>1, <2>2 DEF Check, StepType, DataModes, CheckFor
  <2>3. CASE ddcdo = "ddc_on"
    BY <2>3 DEF OfTile, StepType, TileDoings, CheckFor
  <2> QED  BY <2>2, <2>3
<1>5. c = DataCommand(t, rd, b1, b2, k)
  OBVIOUS
<1> HIDE DEF b1, b2
<1>6. PICK B1 : Is(b1, B1) /\ BodyFor(B1, <<t, 1>>, "channelized_mode", ddcdo, FpgasOf(t))
  BY <1>3
<1>7. PICK B2 : Is(b2, B2) /\ BodyFor(B2, <<t, 2>>, "channelized_mode", ddcdo, FpgasOf(t))
  BY <1>3
<1> QED  BY <1>1, <1>4, <1>5, <1>6, <1>7, DataCall

\* A command of a tile for data that are not channels
LEMMA RequestCommands ==
  ASSUME NEW t \in 1 .. NofTiles, NEW given \in BOOLEAN, NEW rd,
         rd = IF given THEN <<>> ELSE Tile!ReadTime
  PROVE  /\ \A sync \in BOOLEAN :
              Tile!send_raw_data(t, given, sync, FpgasOf(t))
                = DataCommand(t, rd, <<Request(<<t, 1>>, "raw_adc_mode")>>,
                              <<Request(<<t, 2>>, "raw_adc_mode")>>,
                              Check(t, "raw_adc_mode", FpgasOf(t)))
         /\ Tile!send_beam_data(t, given)
              = DataCommand(t, rd, <<Request(<<t, 1>>, "beamformed_mode")>>,
                            <<Request(<<t, 2>>, "beamformed_mode")>>,
                            Check(t, "beamformed_mode", FpgasOf(t)))
<1>1. <<t, 1>> \in FpgasOf(t) /\ <<t, 2>> \in FpgasOf(t)
  BY DEF FpgasOf
<1>2. /\ Tile!Check(t, "raw_adc_mode", FpgasOf(t)) = Check(t, "raw_adc_mode", FpgasOf(t))
      /\ Tile!Check(t, "beamformed_mode", FpgasOf(t)) = Check(t, "beamformed_mode", FpgasOf(t))
      /\ Tile!FpgasOf(t) = FpgasOf(t)
  BY DEF Tile!Check, Check, Tile!FpgasOf, FpgasOf
<1>3. Tile!synchronised_data_operation(t, given)
        = (<<OfTile("await_no_request", t)>> \o rd) \o Tile!ForBoth(t, Tile!fpga_apply_sync_delay)
  BY DEF Tile!synchronised_data_operation, Tile!OfTile, OfTile
<1>4. ASSUME NEW sync \in BOOLEAN
      PROVE  Tile!ForAsked(t, FpgasOf(t),
                 LAMBDA f : IF sync THEN Tile!Firmware!send_raw_data_synchronised(f)
                                    ELSE Tile!Firmware!send_raw_data(f))
               = <<Request(<<t, 1>>, "raw_adc_mode")>> \o <<Request(<<t, 2>>, "raw_adc_mode")>>
  BY <1>1 DEF Tile!ForAsked, Tile!Firmware!send_raw_data_synchronised,
     Tile!Firmware!send_raw_data, Tile!Firmware!Request, Request
<1>5. ASSUME NEW sync \in BOOLEAN
      PROVE  Tile!send_raw_data(t, given, sync, FpgasOf(t))
               = DataCommand(t, rd, <<Request(<<t, 1>>, "raw_adc_mode")>>,
                             <<Request(<<t, 2>>, "raw_adc_mode")>>,
                             Check(t, "raw_adc_mode", FpgasOf(t)))
  BY <1>2, <1>3, <1>4 DEF Tile!send_raw_data, DataCommand,
     Tile!select_method_to_check_valid_synchronised_data_request
<1>6. Tile!ForBoth(t, Tile!Firmware!send_beam_data)
        = <<Request(<<t, 1>>, "beamformed_mode")>> \o <<Request(<<t, 2>>, "beamformed_mode")>>
  BY DEF Tile!ForBoth, Tile!Firmware!send_beam_data, Tile!Firmware!Request, Request
<1>7. Tile!send_beam_data(t, given)
        = DataCommand(t, rd, <<Request(<<t, 1>>, "beamformed_mode")>>,
                      <<Request(<<t, 2>>, "beamformed_mode")>>,
                      Check(t, "beamformed_mode", FpgasOf(t)))
  BY <1>2, <1>3, <1>6 DEF Tile!send_beam_data, DataCommand,
     Tile!select_method_to_check_valid_synchronised_data_request
<1> QED  BY <1>5, <1>7

\* ... and for channels
LEMMA ChannelCommands ==
  ASSUME NEW t \in 1 .. NofTiles, NEW given \in BOOLEAN, NEW rd,
         rd = IF given THEN <<>> ELSE Tile!ReadTime
  PROVE  LET body(f, on, ddcdo) ==
               <<OfFpga(on, f), OfFpga(ddcdo, f), Request(f, "channelized_mode")>>
             check == Check(t, "channelized_mode", FpgasOf(t))
         IN /\ Tile!send_channelised_data(t, given)
                 = DataCommand(t, rd, body(<<t, 1>>, "single_channel_off", "ddc_off"),
                               body(<<t, 2>>, "single_channel_off", "ddc_off"), check)
            /\ Tile!send_channelised_data_continuous(t, given)
                 = DataCommand(t, rd, body(<<t, 1>>, "single_channel_on", "ddc_off"),
                               body(<<t, 2>>, "single_channel_on", "ddc_off"), check)
            /\ Tile!send_channelised_data_narrowband(t, given)
                 = DataCommand(t, rd, body(<<t, 1>>, "single_channel_on", "ddc_on"),
                               body(<<t, 2>>, "single_channel_on", "ddc_on"),
                               OfTile("check_only", t))
<1> DEFINE body(f, on, ddcdo) ==
             <<OfFpga(on, f), OfFpga(ddcdo, f), Request(f, "channelized_mode")>>
           check == Check(t, "channelized_mode", FpgasOf(t))
<1>1. /\ Tile!Check(t, "channelized_mode", Tile!FpgasOf(t)) = check
      /\ Tile!check_synchronised_data_operation(t) = <<OfTile("check_only", t)>>
  BY DEF Tile!Check, Check, Tile!FpgasOf, FpgasOf, Tile!check_synchronised_data_operation,
         Tile!OfTile, OfTile
<1>2. Tile!synchronised_data_operation(t, given)
        = (<<OfTile("await_no_request", t)>> \o rd) \o Tile!ForBoth(t, Tile!fpga_apply_sync_delay)
  BY DEF Tile!synchronised_data_operation, Tile!OfTile, OfTile
<1>3. /\ Tile!ForBoth(t, Tile!Firmware!send_channelised_data)
           = body(<<t, 1>>, "single_channel_off", "ddc_off")
               \o body(<<t, 2>>, "single_channel_off", "ddc_off")
      /\ Tile!ForBoth(t, Tile!Firmware!send_channelised_data_continuous)
           = body(<<t, 1>>, "single_channel_on", "ddc_off")
               \o body(<<t, 2>>, "single_channel_on", "ddc_off")
      /\ Tile!ForBoth(t, Tile!Firmware!send_channelised_data_narrowband)
           = body(<<t, 1>>, "single_channel_on", "ddc_on")
               \o body(<<t, 2>>, "single_channel_on", "ddc_on")
  BY DEF Tile!ForBoth, Tile!Firmware!send_channelised_data,
     Tile!Firmware!send_channelised_data_continuous, Tile!Firmware!send_channelised_data_narrowband,
     Tile!Firmware!OfFpga, OfFpga, Tile!Firmware!Request, Request
<1> HIDE DEF body, check
<1>4. Tile!send_channelised_data(t, given)
        = DataCommand(t, rd, body(<<t, 1>>, "single_channel_off", "ddc_off"),
                      body(<<t, 2>>, "single_channel_off", "ddc_off"), check)
  BY <1>1, <1>2, <1>3 DEF Tile!send_channelised_data, DataCommand,
     Tile!select_method_to_check_valid_synchronised_data_request
<1>5. Tile!send_channelised_data_continuous(t, given)
        = DataCommand(t, rd, body(<<t, 1>>, "single_channel_on", "ddc_off"),
                      body(<<t, 2>>, "single_channel_on", "ddc_off"), check)
  BY <1>1, <1>2, <1>3 DEF Tile!send_channelised_data_continuous, DataCommand,
     Tile!select_method_to_check_valid_synchronised_data_request
<1>6. Tile!send_channelised_data_narrowband(t, given)
        = DataCommand(t, rd, body(<<t, 1>>, "single_channel_on", "ddc_on"),
                      body(<<t, 2>>, "single_channel_on", "ddc_on"), OfTile("check_only", t))
  BY <1>1, <1>2, <1>3 DEF Tile!send_channelised_data_narrowband, DataCommand
<1> QED  BY <1>4, <1>5, <1>6 DEF body, check

\* With the time that the station gives to all of them
LEMMA DataCalls ==
  ASSUME NEW t \in 1 .. NofTiles
  PROVE  /\ Working(Tile!send_raw_data(t, TRUE, FALSE, FpgasOf(t)), t, "asks")
         /\ Working(Tile!send_raw_data_synchronised(t, TRUE), t, "asks")
         /\ Working(Tile!send_channelised_data(t, TRUE), t, "asks")
         /\ Working(Tile!send_beam_data(t, TRUE), t, "asks")
         /\ Working(Tile!send_channelised_data_continuous(t, TRUE), t, "asks")
         /\ Working(Tile!send_channelised_data_narrowband(t, TRUE), t, "asks")
<1> DEFINE b(f, on, ddcdo) ==
             <<OfFpga(on, f), OfFpga(ddcdo, f), Request(f, "channelized_mode")>>
           k(ddcdo) == IF ddcdo = "ddc_off" THEN Check(t, "channelized_mode", FpgasOf(t))
                                            ELSE OfTile("check_only", t)
           no == <<>>
           raw == DataCommand(t, no, <<Request(<<t, 1>>, "raw_adc_mode")>>,
                              <<Request(<<t, 2>>, "raw_adc_mode")>>,
                              Check(t, "raw_adc_mode", FpgasOf(t)))
           beamed == DataCommand(t, no, <<Request(<<t, 1>>, "beamformed_mode")>>,
                                 <<Request(<<t, 2>>, "beamformed_mode")>>,
                                 Check(t, "beamformed_mode", FpgasOf(t)))
           channels(on, ddcdo) ==
             DataCommand(t, no, b(<<t, 1>>, on, ddcdo), b(<<t, 2>>, on, ddcdo), k(ddcdo))
<1>1. Is(no, {}) /\ \A s \in {} : s.do = "read_time"
  BY IsNone
<1>2. Working(raw, t, "asks") /\ Working(beamed, t, "asks")
  BY <1>1, RequestCalls
<1>3. ASSUME NEW on \in {"single_channel_on", "single_channel_off"},
             NEW ddcdo \in {"ddc_on", "ddc_off"}
      PROVE  Working(channels(on, ddcdo), t, "asks")
  BY <1>1, ChannelCalls
<1>4. /\ Tile!send_raw_data(t, TRUE, FALSE, FpgasOf(t)) = raw
      /\ Tile!send_raw_data(t, TRUE, TRUE, FpgasOf(t)) = raw
      /\ Tile!send_beam_data(t, TRUE) = beamed
  BY RequestCommands
<1>5. /\ Tile!send_channelised_data(t, TRUE) = channels("single_channel_off", "ddc_off")
      /\ Tile!send_channelised_data_continuous(t, TRUE) = channels("single_channel_on", "ddc_off")
      /\ Tile!send_channelised_data_narrowband(t, TRUE) = channels("single_channel_on", "ddc_on")
  BY ChannelCommands
<1>6. Tile!send_raw_data_synchronised(t, TRUE) = Tile!send_raw_data(t, TRUE, TRUE, FpgasOf(t))
  BY DEF Tile!send_raw_data_synchronised, Tile!FpgasOf, FpgasOf
<1> HIDE DEF channels, raw, beamed
<1> QED  BY <1>2, <1>3, <1>4, <1>5, <1>6

\* ... and with that which the tile reads
LEMMA DataTileCommands ==
  ASSUME NEW t \in 1 .. NofTiles
  PROVE  /\ TileFits(Tile!send_raw_data_synchronised(t, FALSE), t)
         /\ TileFits(Tile!send_channelised_data(t, FALSE), t)
         /\ TileFits(Tile!send_channelised_data_continuous(t, FALSE), t)
<1> DEFINE b(f, on, ddcdo) ==
             <<OfFpga(on, f), OfFpga(ddcdo, f), Request(f, "channelized_mode")>>
           k(ddcdo) == IF ddcdo = "ddc_off" THEN Check(t, "channelized_mode", FpgasOf(t))
                                            ELSE OfTile("check_only", t)
           rd == Tile!ReadTime
           raw == DataCommand(t, rd, <<Request(<<t, 1>>, "raw_adc_mode")>>,
                              <<Request(<<t, 2>>, "raw_adc_mode")>>,
                              Check(t, "raw_adc_mode", FpgasOf(t)))
           channels(on, ddcdo) ==
             DataCommand(t, rd, b(<<t, 1>>, on, ddcdo), b(<<t, 2>>, on, ddcdo), k(ddcdo))
<1>1. PICK T : Is(rd, T) /\ \A s \in T : s.do = "read_time"
  BY ReadOrGiven
<1>2. TileFits(raw, t)
  BY <1>1, RequestCalls
<1>3. ASSUME NEW on \in {"single_channel_on", "single_channel_off"},
             NEW ddcdo \in {"ddc_on", "ddc_off"}
      PROVE  TileFits(channels(on, ddcdo), t)
  BY <1>1, ChannelCalls
<1>4. Tile!send_raw_data(t, FALSE, TRUE, FpgasOf(t)) = raw
  BY RequestCommands
<1>5. /\ Tile!send_channelised_data(t, FALSE) = channels("single_channel_off", "ddc_off")
      /\ Tile!send_channelised_data_continuous(t, FALSE) = channels("single_channel_on", "ddc_off")
  BY ChannelCommands
<1>6. Tile!send_raw_data_synchronised(t, FALSE) = Tile!send_raw_data(t, FALSE, TRUE, FpgasOf(t))
  BY DEF Tile!send_raw_data_synchronised, Tile!FpgasOf, FpgasOf
<1> HIDE DEF channels, raw
<1> QED  BY <1>2, <1>3, <1>4, <1>5, <1>6

\* Of a single FPGA
LEMMA RawOfOne ==
  ASSUME NEW t \in 1 .. NofTiles
  PROVE  TileFits(Tile!send_raw_data(t, FALSE, FALSE, {<<t, 1>>}), t)
<1> DEFINE given == {<<t, 1>>}
           q == Request(<<t, 1>>, "raw_adc_mode")
           k == Check(t, "raw_adc_mode", given)
           rd == Tile!ReadTime
<1>1. <<t, 1>> \in FpgasOf(t) /\ given \in SUBSET FpgasOf(t) /\ <<t, 1>> \in given
      /\ <<t, 2>> \notin given /\ given \subseteq Fpgas
  BY FpgaFacts DEF FpgasOf
<1>2. PICK T : Is(rd, T) /\ \A s \in T : s.do = "read_time"
  BY ReadOrGiven
<1>3. Is(<<q>>, {q}) /\ BodyFor({q}, <<t, 1>>, "raw_adc_mode", "ddc_off", given)
  BY <1>1, RequestBody
<1>4. Is(<<>>, {}) /\ BodyFor({}, <<t, 2>>, "raw_adc_mode", "ddc_off", given)
  BY <1>1, IsNone DEF BodyFor
<1>5. k \in StepType /\ CheckFor(k, t, "raw_adc_mode", "ddc_off", given)
  BY <1>1 DEF Check, StepType, DataModes, CheckFor
<1>6. Tile!synchronised_data_operation(t, FALSE)
        = (<<OfTile("await_no_request", t)>> \o rd) \o Tile!ForBoth(t, Tile!fpga_apply_sync_delay)
  BY DEF Tile!synchronised_data_operation, Tile!OfTile, OfTile
<1>7. Tile!ForAsked(t, given,
          LAMBDA f : IF FALSE THEN Tile!Firmware!send_raw_data_synchronised(f)
                              ELSE Tile!Firmware!send_raw_data(f))
        = <<q>> \o <<>>
  BY <1>1 DEF Tile!ForAsked, Tile!Firmware!send_raw_data, Tile!Firmware!Request, Request
<1>8. Tile!Check(t, "raw_adc_mode", given) = k
  BY DEF Tile!Check, Check
<1>9. Tile!send_raw_data(t, FALSE, FALSE, given) = DataCommand(t, rd, <<q>>, <<>>, k)
  BY <1>6, <1>7, <1>8 DEF Tile!send_raw_data, DataCommand,
     Tile!select_method_to_check_valid_synchronised_data_request
<1> HIDE DEF q, k, given
<1>10. TileFits(DataCommand(t, rd, <<q>>, <<>>, k), t)
  BY <1>1, <1>2, <1>3, <1>4, <1>5, DataCall
<1> QED  BY <1>9, <1>10 DEF given
-----------------------------------------------------------------------------
(* The calls to the beamformer                                             *)

LEMMA StopCall ==
  ASSUME NEW t \in 1 .. NofTiles
  PROVE  TileFits(Tile!stop_beamformer(t), t)
<1> DEFINE p1 == OfFpga("abort", <<t, 1>>)
           p2 == OfFpga("abort", <<t, 2>>)
           S == {p1} \cup {p2}
<1>1. /\ p1 \in StepType /\ p1.do = "abort" /\ p1.fpga = <<t, 1>> /\ p1.fpga[1] = t
      /\ p2 \in StepType /\ p2.do = "abort" /\ p2.fpga = <<t, 2>> /\ p2.fpga[1] = t
  BY FpgaFacts DEF StepType, FpgaSteps, OfFpga
<1>2. Tile!stop_beamformer(t) = <<p1>> \o <<p2>>
  BY DEF Tile!stop_beamformer, Tile!ForBoth, Tile!OfFpga, OfFpga
<1> HIDE DEF p1, p2
<1>3. \A a \in {p1}, b \in {p2} : Allowed(a, b)
  BY <1>1 DEF Allowed, Across, Clears, Tells, Prepares, Writes, BeamSteps, BeamTile
<1>4. Is(<<p1>> \o <<p2>>, S)
  BY <1>1, <1>3, IsOne, IsBoth
<1>5. <<p1>> \o <<p2>> # <<>>
  BY <1>4, IsType
<1>6. OfF(S, "abort", <<t, 1>>) /\ OfF(S, "abort", <<t, 2>>) /\ \A s \in S : s = p1 \/ s = p2
  BY <1>1 DEF OfF
<1> HIDE DEF S
<1>7. Whole(S)
  BY <1>1, <1>6 DEF Whole, WholeStep, Clears, Prepares
<1>8. Fits(S, FpgasOf(t))
  BY <1>1, <1>6 DEF Fits, Has, HasTell, Tells
<1> QED  BY <1>2, <1>4, <1>5, <1>7, <1>8 DEF TileFits, Is, CallType

LEMMA StartCall ==
  ASSUME NEW t \in 1 .. NofTiles, NEW duration \in Durations
  PROVE  TileFits(Tile!start_beamformer(t, duration), t)
<1> DEFINE l == OfTile("leave_if_running", t)
           r == Step("read_time")
           s1 == [do |-> "start_beam", fpga |-> <<t, 1>>, duration |-> duration]
           s2 == [do |-> "start_beam", fpga |-> <<t, 2>>, duration |-> duration]
           k == OfTile("check_started", t)
           A == {l} \cup {r}
           B == {s1} \cup {s2}
           S == (A \cup B) \cup {k}
<1>1. /\ l \in StepType /\ l.do = "leave_if_running" /\ l.tile = t
      /\ r \in StepType /\ r.do = "read_time"
      /\ s1 \in StepType /\ s1.do = "start_beam" /\ s1.fpga = <<t, 1>> /\ s1.duration = duration
      /\ s2 \in StepType /\ s2.do = "start_beam" /\ s2.fpga = <<t, 2>> /\ s2.duration = duration
      /\ k \in StepType /\ k.do = "check_started" /\ k.tile = t
  BY FpgaFacts DEF StepType, TileDoings, OfTile, Step
<1>2. Tile!start_beamformer(t, duration) = ((<<l>> \o <<r>>) \o (<<s1>> \o <<s2>>)) \o <<k>>
  BY DEF Tile!start_beamformer, Tile!current_station_beamformer_frame, Tile!ReadTime,
         Tile!ForBoth, Tile!OfTile, OfTile, Tile!Step, Step
<1> HIDE DEF l, r, s1, s2, k
<1>3. s1.fpga[1] = t /\ s2.fpga[1] = t
  BY <1>1
<1>4. \A a \in {l}, b \in {r} : Allowed(a, b)
  BY <1>1 DEF Allowed, Across, Clears, Tells, Prepares, Writes, BeamSteps
<1>5. \A a \in {s1}, b \in {s2} : Allowed(a, b)
  BY <1>1, <1>3 DEF Allowed, Across, Clears, Tells, Prepares, Writes, BeamSteps, BeamTile
<1>6. \A a \in A, b \in B : Allowed(a, b)
  BY <1>1, <1>3 DEF Allowed, Across, Clears, Tells, Prepares, Writes, BeamSteps, BeamTile
<1>7. \A a \in A \cup B, b \in {k} : Allowed(a, b)
  BY <1>1, <1>3 DEF Allowed, Across, Clears, Tells, Prepares, Writes, BeamSteps, BeamTile
<1>8. Is(<<l>>, {l}) /\ Is(<<r>>, {r}) /\ Is(<<s1>>, {s1}) /\ Is(<<s2>>, {s2}) /\ Is(<<k>>, {k})
  BY <1>1, IsOne
<1>9. Is(<<l>> \o <<r>>, A) /\ Is(<<s1>> \o <<s2>>, B)
  BY <1>4, <1>5, <1>8, IsBoth
<1>10. \A x \in S : x = l \/ x = r \/ x = s1 \/ x = s2 \/ x = k
  OBVIOUS
<1>11. s1 \in S /\ s2 \in S /\ k \in S
  OBVIOUS
<1> HIDE DEF A, B
<1>12. Is((<<l>> \o <<r>>) \o (<<s1>> \o <<s2>>), A \cup B)
  BY <1>6, <1>9, IsBoth
<1>13. Is(((<<l>> \o <<r>>) \o (<<s1>> \o <<s2>>)) \o <<k>>, S)
  BY <1>7, <1>8, <1>12, IsBoth
<1>14. ((<<l>> \o <<r>>) \o (<<s1>> \o <<s2>>)) \o <<k>> # <<>>
  BY <1>11, <1>13, IsType
<1> HIDE DEF S
<1>15. /\ OfF(S, "start_beam", <<t, 1>>) /\ OfF(S, "start_beam", <<t, 2>>)
       /\ OfT(S, "check_started", t)
  BY <1>1, <1>11 DEF OfF, OfT
<1>16. Whole(S)
  <2>1. \A x \in S : x.do = "start_beam" => x.fpga[1] = t
    BY <1>1, <1>3, <1>10
  <2>2. \A x \in S : x.do = "start_beam" => StartsBoth(S, x)
    BY <1>15, <2>1 DEF StartsBoth
  <2>3. \A x \in S : x.do = "check_started" => x.tile = t
    BY <1>1, <1>10
  <2>4. \A x \in S : x.do \in {"leave_if_running", "read_time", "start_beam", "check_started"}
    BY <1>1, <1>10
  <2> QED  BY <1>15, <2>2, <2>3, <2>4 DEF Whole, WholeStep, Clears, Prepares
<1>17. Fits(S, FpgasOf(t))
  <2>1. \A x \in S : x.do \notin {"request", "check_later"}
    BY <1>1, <1>10
  <2>2. \A f \in FpgasOf(t) : WritesTo(S, f)
    BY <1>1, <1>11 DEF WritesTo, Writes, FpgasOf
  <2> QED  BY <2>1, <2>2 DEF Fits, Has
<1> QED  BY <1>2, <1>13, <1>14, <1>16, <1>17 DEF TileFits, Is, CallType
-----------------------------------------------------------------------------
(* The commands of the station                                             *)

Good(cs) == Plan(cs) /\ Fits(StepsOf(cs), Fpgas)

\* the tiles get data, or a time, to act at
LEMMA DataGood ==
  ASSUME NEW cs, AllWorking(cs, "asks")
  PROVE  /\ Good(_wait_available \o Synchronised(cs))
         /\ Good((stop_data_transmission(tiles) \o _wait_available) \o Synchronised(cs))
<1> DEFINE w == Step("await_none")
           wait == <<<<w>>>>
           sync == (<<ReadTime>> \o cs) \o <<SuccessUnlessLater>>
           stop == [t \in 1 .. NofTiles |-> Tile!stop_data_transmission(t)]
<1>1. Plan(sync) /\ Fits(StepsOf(sync), Fpgas)
  BY PlanTimed
<1>2. w \in StepType /\ w.do = "await_none"
  BY DEF StepType, Step
<1>3. _wait_available = wait /\ Synchronised(cs) = sync /\ stop_data_transmission(tiles) = stop
  BY DEF _wait_available, Synchronised, stop_data_transmission, Calls, tiles
<1> HIDE DEF w
<1>4. Light({w})
  BY <1>2 DEF Light, LightDo
<1>5. Is(<<w>>, {w}) /\ <<w>> # <<>> /\ Whole({w})
  BY <1>2, <1>4, IsOne, LightFacts
<1>6. Plan(wait) /\ Light(StepsOf(wait))
  BY <1>4, <1>5, PlanOne
<1> HIDE DEF wait, sync
<1>7. Plan(stop) /\ Light(StepsOf(stop))
  <2>1. \A t \in 1 .. NofTiles : LightCall(Tile!stop_data_transmission(t))
    BY SetCalls
  <2>2. stop \in [1 .. NofTiles -> CallType]
    BY <2>1 DEF LightCall
  <2>3. \A t \in 1 .. NofTiles : InOrder(stop[t]) /\ Light(Range(stop[t]))
    BY <2>1 DEF LightCall
  <2> HIDE DEF stop
  <2> QED  BY <2>2, <2>3, PlanLight
<1> HIDE DEF stop
<1>8. Good(wait \o sync)
  BY <1>1, <1>6, LightBefore DEF Good
<1>9. Plan(stop \o wait) /\ Light(StepsOf(stop \o wait))
  BY <1>6, <1>7, LightBefore
<1>10. Good((stop \o wait) \o sync)
  BY <1>1, <1>9, LightBefore DEF Good
<1> QED  BY <1>3, <1>8, <1>10

LEMMA DataCommandsAreGood ==
  /\ Good(send_raw_data(tiles))
  /\ Good(send_raw_data_synchronised(tiles))
  /\ Good(send_channelised_data(tiles))
  /\ Good(send_beam_data(tiles))
  /\ Good(send_channelised_data_continuous(tiles))
  /\ Good(send_channelised_data_narrowband(tiles))
<1> DEFINE N == 1 .. NofTiles
           raw == [t \in N |-> Tile!send_raw_data(t, TRUE, FALSE, FpgasOf(t))]
           together == [t \in N |-> Tile!send_raw_data_synchronised(t, TRUE)]
           burst == [t \in N |-> Tile!send_channelised_data(t, TRUE)]
           beamed == [t \in N |-> Tile!send_beam_data(t, TRUE)]
           continuous == [t \in N |-> Tile!send_channelised_data_continuous(t, TRUE)]
           narrow == [t \in N |-> Tile!send_channelised_data_narrowband(t, TRUE)]
<1>1. ASSUME NEW c, c \in {raw, together, burst, beamed, continuous, narrow}
      PROVE  AllWorking(c, "asks")
  <2>1. /\ \A t \in N : Working(raw[t], t, "asks")
        /\ \A t \in N : Working(together[t], t, "asks")
        /\ \A t \in N : Working(burst[t], t, "asks")
        /\ \A t \in N : Working(beamed[t], t, "asks")
        /\ \A t \in N : Working(continuous[t], t, "asks")
        /\ \A t \in N : Working(narrow[t], t, "asks")
    BY DataCalls
  <2>2. \A t \in N : Working(c[t], t, "asks")
    BY <1>1, <2>1
  <2>3. c = [t \in N |-> c[t]]
    BY <1>1
  <2>4. \A t \in N : c[t] \in CallType
    BY <2>2 DEF Working
  <2>5. c \in [N -> CallType]
    BY <2>3, <2>4
  <2> QED  BY <2>2, <2>5 DEF AllWorking
<1>2. /\ send_raw_data(tiles) = _wait_available \o Synchronised(raw)
      /\ send_raw_data_synchronised(tiles) = _wait_available \o Synchronised(together)
      /\ send_channelised_data(tiles) = _wait_available \o Synchronised(burst)
      /\ send_beam_data(tiles) = _wait_available \o Synchronised(beamed)
      /\ send_channelised_data_continuous(tiles)
           = (stop_data_transmission(tiles) \o _wait_available) \o Synchronised(continuous)
      /\ send_channelised_data_narrowband(tiles)
           = (stop_data_transmission(tiles) \o _wait_available) \o Synchronised(narrow)
  BY DEF send_raw_data, send_raw_data_synchronised, send_channelised_data, send_beam_data,
         send_channelised_data_continuous, send_channelised_data_narrowband, Calls, tiles
<1> HIDE DEF raw, together, burst, beamed, continuous, narrow
<1> QED  BY <1>1, <1>2, DataGood

LEMMA WritesAreGood ==
  /\ Good(switch_calibration_banks(tiles))
  /\ Good(calibrate_station(tiles))
  /\ Good(load_pointing_delay(tiles))
  /\ Good(test_generator_set_tone(tiles))
  /\ Good(test_generator_disable_tone(tiles))
  /\ Good(test_generator_set_noise(tiles))
  /\ Good(start_multi_channel_tx(tiles))
<1> DEFINE N == 1 .. NofTiles
           times == [t \in N |-> ForBoth(t, WriteTime)]
           starts == [t \in N |-> Tile!start_multi_channel_tx(t, TRUE)]
           loads == [t \in N |-> Tile!load_calibration_coefficients(t, 0)
                                   \o Tile!load_calibration_coefficients(t, 8)]
           timed == (<<ReadTime>> \o times) \o <<SuccessUnlessLater>>
<1>1. AllWorking(times, "writes") /\ AllWorking(starts, "tells")
  <2>1. \A t \in N : Working(times[t], t, "writes") /\ Working(starts[t], t, "tells")
    BY WriteCalls
  <2>2. \A t \in N : times[t] \in CallType /\ starts[t] \in CallType
    BY <2>1 DEF Working
  <2>3. times \in [N -> CallType] /\ starts \in [N -> CallType]
    BY <2>2
  <2> HIDE DEF times, starts
  <2> QED  BY <2>1, <2>3 DEF AllWorking
<1>2. Plan(loads) /\ Light(StepsOf(loads))
  <2>1. \A t \in N : LightCall(loads[t])
    BY SetCalls
  <2>2. loads \in [N -> CallType]
    BY <2>1 DEF LightCall
  <2> HIDE DEF loads
  <2>3. \A t \in N : InOrder(loads[t]) /\ Light(Range(loads[t]))
    BY <2>1 DEF LightCall
  <2> QED  BY <2>2, <2>3, PlanLight
<1>3. Tile!current_tile_beamformer_frame = ReadTime
  BY DEF Tile!current_tile_beamformer_frame, Tile!ReadTime, ReadTime, Tile!Step, Step
<1>4. /\ AtOneTime(tiles) = times
      /\ start_multi_channel_tx(tiles) = <<ReadTime>> \o starts
  BY DEF AtOneTime, start_multi_channel_tx, Calls, tiles
<1>5. Calls(tiles, LAMBDA t : Tile!load_calibration_coefficients(t, 0)
                                \o Tile!load_calibration_coefficients(t, 8)) = loads
  BY DEF Calls, tiles
<1> HIDE DEF times, starts, loads
<1>6. /\ switch_calibration_banks(tiles) = timed
      /\ load_pointing_delay(tiles) = timed
      /\ test_generator_set_tone(tiles) = timed
      /\ test_generator_disable_tone(tiles) = timed
      /\ test_generator_set_noise(tiles) = timed
  BY <1>3, <1>4 DEF switch_calibration_banks, load_pointing_delay, test_generator_set_tone,
     test_generator_disable_tone, test_generator_set_noise
<1>7. calibrate_station(tiles) = loads \o timed
  BY <1>5, <1>6 DEF calibrate_station
<1>8. Good(timed) /\ Good(<<ReadTime>> \o starts)
  BY <1>1, PlanTimed DEF Good
<1>9. Good(loads \o timed)
  <2> HIDE DEF timed
  <2> QED  BY <1>2, <1>8, LightBefore DEF Good
<1> QED  BY <1>4, <1>6, <1>7, <1>8, <1>9

LEMMA SetsAreGood ==
  /\ Good(stop_data_transmission(tiles))
  /\ Good(set_multi_channel_tx(tiles))
  /\ Good(set_multi_channel_dst_ip(tiles))
  /\ Good(stop_multi_channel_tx(tiles))
<1> DEFINE N == 1 .. NofTiles
           stop == [t \in N |-> Tile!stop_data_transmission(t)]
           set == [t \in N |-> Tile!set_multi_channel_tx(t)]
           dst == [t \in N |-> Tile!set_multi_channel_dst_ip(t)]
           off == [t \in N |-> Tile!stop_multi_channel_tx(t)]
<1>1. ASSUME NEW c, c \in {stop, set, dst, off}
      PROVE  Good(c)
  <2>1. /\ \A t \in N : LightCall(stop[t])
        /\ \A t \in N : LightCall(set[t])
        /\ \A t \in N : LightCall(dst[t])
        /\ \A t \in N : LightCall(off[t])
    BY SetCalls
  <2>2. \A t \in N : LightCall(c[t])
    BY <1>1, <2>1
  <2>3. c = [t \in N |-> c[t]]
    BY <1>1
  <2>4. \A t \in N : c[t] \in CallType /\ InOrder(c[t]) /\ Light(Range(c[t]))
    BY <2>2 DEF LightCall
  <2>5. c \in [N -> CallType]
    BY <2>3, <2>4
  <2> QED  BY <2>4, <2>5, PlanLight DEF Good
<1>2. /\ stop_data_transmission(tiles) = stop
      /\ set_multi_channel_tx(tiles) = set
      /\ set_multi_channel_dst_ip(tiles) = dst
      /\ stop_multi_channel_tx(tiles) = off
  BY DEF stop_data_transmission, set_multi_channel_tx, set_multi_channel_dst_ip,
         stop_multi_channel_tx, Calls, tiles
<1> HIDE DEF stop, set, dst, off
<1> QED  BY <1>1, <1>2

\* Whatever is commanded
LEMMA StationCommandsAreGood ==
  ASSUME NEW name \in DOMAIN StationCommand
  PROVE  Good(StationCommand[name])
<1>1. DOMAIN StationCommand =
        {"send_raw_data", "send_raw_data_synchronised", "send_channelised_data", "send_beam_data",
         "send_channelised_data_continuous", "send_channelised_data_narrowband",
         "stop_data_transmission", "set_multi_channel_tx", "set_multi_channel_dst_ip",
         "start_multi_channel_tx", "stop_multi_channel_tx", "switch_calibration_banks",
         "calibrate_station", "load_pointing_delay", "test_generator_set_tone",
         "test_generator_disable_tone", "test_generator_set_noise"}
  BY DEF StationCommand
<1>2. /\ StationCommand["send_raw_data"] = send_raw_data(tiles)
      /\ StationCommand["send_raw_data_synchronised"] = send_raw_data_synchronised(tiles)
      /\ StationCommand["send_channelised_data"] = send_channelised_data(tiles)
      /\ StationCommand["send_beam_data"] = send_beam_data(tiles)
      /\ StationCommand["send_channelised_data_continuous"] = send_channelised_data_continuous(tiles)
      /\ StationCommand["send_channelised_data_narrowband"] = send_channelised_data_narrowband(tiles)
  BY DEF StationCommand
<1>3. /\ StationCommand["stop_data_transmission"] = stop_data_transmission(tiles)
      /\ StationCommand["set_multi_channel_tx"] = set_multi_channel_tx(tiles)
      /\ StationCommand["set_multi_channel_dst_ip"] = set_multi_channel_dst_ip(tiles)
      /\ StationCommand["start_multi_channel_tx"] = start_multi_channel_tx(tiles)
      /\ StationCommand["stop_multi_channel_tx"] = stop_multi_channel_tx(tiles)
  BY DEF StationCommand
<1>4. /\ StationCommand["switch_calibration_banks"] = switch_calibration_banks(tiles)
      /\ StationCommand["calibrate_station"] = calibrate_station(tiles)
      /\ StationCommand["load_pointing_delay"] = load_pointing_delay(tiles)
      /\ StationCommand["test_generator_set_tone"] = test_generator_set_tone(tiles)
      /\ StationCommand["test_generator_disable_tone"] = test_generator_disable_tone(tiles)
      /\ StationCommand["test_generator_set_noise"] = test_generator_set_noise(tiles)
  BY DEF StationCommand
<1>5. CASE name \in {"send_raw_data", "send_raw_data_synchronised", "send_channelised_data",
                     "send_beam_data", "send_channelised_data_continuous",
                     "send_channelised_data_narrowband"}
  BY <1>2, <1>5, DataCommandsAreGood
<1>6. CASE name \in {"stop_data_transmission", "set_multi_channel_tx", "set_multi_channel_dst_ip",
                     "start_multi_channel_tx", "stop_multi_channel_tx"}
  BY <1>3, <1>6, SetsAreGood, WritesAreGood
<1>7. CASE name \in {"switch_calibration_banks", "calibrate_station", "load_pointing_delay",
                     "test_generator_set_tone", "test_generator_disable_tone",
                     "test_generator_set_noise"}
  BY <1>4, <1>7, WritesAreGood
<1> QED  BY <1>1, <1>5, <1>6, <1>7

LEMMA TileCommandsAreGood ==
  ASSUME NEW t \in 1 .. NofTiles, NEW name \in DOMAIN TileCommand(t)
  PROVE  Plan(<<TileCommand(t)[name]>>) /\ Fits(StepsOf(<<TileCommand(t)[name]>>), FpgasOf(t))
<1> DEFINE C == TileCommand(t)
<1>1. DOMAIN C =
        {"tile_send_raw_data", "tile_send_raw_data_synchronised", "tile_send_channelised_data",
         "tile_send_channelised_data_continuous", "start_beamformer", "start_beamformer_duration",
         "stop_beamformer", "tile_start_multi_channel_tx", "set_pointing_delay",
         "load_antenna_tapering", "load_beam_angle", "tile_load_pointing_delay",
         "switch_calibration_bank", "synchronised_beamformer_coefficients",
         "tile_test_generator_set_tone", "tile_test_generator_disable_tone",
         "tile_test_generator_set_noise"}
  BY DEF TileCommand
<1>2. /\ C["tile_send_raw_data"] = Tile!send_raw_data(t, FALSE, FALSE, {<<t, 1>>})
      /\ C["tile_send_raw_data_synchronised"] = Tile!send_raw_data_synchronised(t, FALSE)
      /\ C["tile_send_channelised_data"] = Tile!send_channelised_data(t, FALSE)
      /\ C["tile_send_channelised_data_continuous"] = Tile!send_channelised_data_continuous(t, FALSE)
      /\ C["start_beamformer"] = Tile!start_beamformer(t, Forever)
      /\ C["start_beamformer_duration"] = Tile!start_beamformer(t, 1)
      /\ C["stop_beamformer"] = Tile!stop_beamformer(t)
  BY DEF TileCommand
<1>3. /\ C["tile_start_multi_channel_tx"] = Tile!start_multi_channel_tx(t, FALSE)
      /\ C["set_pointing_delay"] = Tile!set_pointing_delay(t)
      /\ C["load_antenna_tapering"] = Tile!load_antenna_tapering(t)
      /\ C["load_beam_angle"] = Tile!load_beam_angle(t)
      /\ C["tile_load_pointing_delay"] = Tile!load_pointing_delay(t)
  BY DEF TileCommand
<1>4. /\ C["switch_calibration_bank"] = Tile!switch_calibration_bank(t)
      /\ C["synchronised_beamformer_coefficients"]
           = Tile!synchronised_beamformer_coefficients(t, FALSE)
      /\ C["tile_test_generator_set_tone"] = Tile!test_generator_set_tone(t)
      /\ C["tile_test_generator_disable_tone"] = Tile!test_generator_disable_tone(t)
      /\ C["tile_test_generator_set_noise"] = Tile!test_generator_set_noise(t)
  BY DEF TileCommand
<1> HIDE DEF C
<1>5. TileFits(C[name], t)
  <2>1. CASE name \in {"tile_send_raw_data", "tile_send_raw_data_synchronised",
                       "tile_send_channelised_data", "tile_send_channelised_data_continuous"}
    BY <1>2, <2>1, RawOfOne, DataTileCommands
  <2>2. CASE name \in {"start_beamformer", "start_beamformer_duration", "stop_beamformer"}
    BY <1>2, <2>2, StartCall, StopCall DEF Durations
  <2>3. CASE name \in {"set_pointing_delay", "load_antenna_tapering", "load_beam_angle"}
    BY <1>3, <2>3, SetCalls, LightTileFits
  <2>4. CASE name \in {"tile_start_multi_channel_tx", "tile_load_pointing_delay"}
    BY <1>3, <2>4, WriteCalls
  <2>5. CASE name \in {"switch_calibration_bank", "synchronised_beamformer_coefficients",
                       "tile_test_generator_set_tone", "tile_test_generator_disable_tone",
                       "tile_test_generator_set_noise"}
    BY <1>4, <2>5, WriteCalls
  <2>6. name \in DOMAIN C
    BY DEF C
  <2> QED  BY <1>1, <2>1, <2>2, <2>3, <2>4, <2>5, <2>6
<1> DEFINE c == C[name]
<1>6. c \in CallType /\ InOrder(c) /\ Whole(Range(c)) /\ Fits(Range(c), FpgasOf(t))
  BY <1>5 DEF TileFits
<1> HIDE DEF c
<1>7. Is(c, Range(c)) /\ c # <<>>
  BY <1>6 DEF Is, CallType
<1>8. Plan(<<c>>) /\ StepsOf(<<c>>) = Range(c)
  BY <1>6, <1>7, PlanOne
<1> QED  BY <1>6, <1>8 DEF c, C
-----------------------------------------------------------------------------
(* The invariant                                                           *)

LEMMA BeginStep ==
  ASSUME SessionInv, NEW command, NEW fs \in SUBSET Fpgas, Begin(command, fs),
         Plan(command), Fits(StepsOf(command), fs)
  PROVE  SessionInv'
<1>1. /\ calls = <<>> /\ calls' = command /\ concerned' = fs /\ due' = Passed
      /\ refused' = FALSE /\ told' = "nothing" /\ asked' = FALSE
      /\ written' = [f \in Fpgas |-> Passed]
      /\ UNCHANGED <<flagged, holding, commands, request, late, invalid, single, ddc, time_left, beam>>
  BY DEF Begin, fixed, registers
<1>2. Types /\ Asking({}) /\ Beaming({})
  BY <1>1 DEF SessionInv, Now, Current
<1>3. Types'
  <2>1. Passed \in Passed .. Delay
    BY DEF Passed
  <2> QED  BY <1>1, <1>2, <2>1 DEF Types
<1>4. Asking({})'
  <2>1. /\ \A f : ~OfF({}, "clear_request", f) /\ ChecksOf({}, f) = {} /\ ~PreparesFor({}, f)
        /\ \A f, m : ~ToClear({}, f, m)
        /\ \A t : ~OfT({}, "check_flag", t)
    BY DEF OfF, OfT, ChecksOf, ToClear, PreparesFor
  <2>2. \A f \in Fpgas : Narrow(f)' <=> Narrow(f)
    BY <1>1 DEF Narrow
  <2>3. ASSUME NEW f \in Fpgas
        PROVE  AskedOf({}, f)'
    <3>1. AskedOf({}, f)
      BY <1>2 DEF Asking
    <3> QED  BY <1>1, <2>1, <2>2, <3>1 DEF AskedOf
  <2> QED  BY <2>3 DEF Asking
<1>5. Beaming({})'
  <2>1. /\ \A f : ~OfF({}, "abort", f) /\ ~OfF({}, "start_beam", f)
        /\ \A t : ~OfT({}, "check_started", t)
    BY DEF OfF, OfT
  <2>2. ASSUME NEW t \in 1 .. NofTiles
        PROVE  BeamOf({}, t)'
    <3>1. BeamOf({}, t)
      BY <1>2 DEF Beaming
    <3> QED  BY <1>1, <2>1, <3>1 DEF BeamOf
  <2> QED  BY <2>2 DEF Beaming
<1>6. Shape(command) /\ Whole(Current(command)) /\ Current(command) \in SUBSET StepType
  BY PlanShape
<1>7. Asking(Current(command))' /\ Beaming(Current(command))'
  BY <1>4, <1>5, <1>6, NewCall
<1>8. Telling(StepsOf(command))'
  BY <1>1 DEF Telling, Fits, Has
<1> QED  BY <1>1, <1>3, <1>6, <1>7, <1>8 DEF SessionInv, Now

LEMMA InitInv == Init => SessionInv
<1> SUFFICES ASSUME Init PROVE SessionInv
  OBVIOUS
<1>1. /\ calls = <<>> /\ concerned = {} /\ due = Passed /\ refused = FALSE /\ told = "nothing"
      /\ asked = FALSE /\ written = [f \in Fpgas |-> Passed]
      /\ request = [f \in Fpgas |-> {}] /\ late = [f \in Fpgas |-> FALSE]
      /\ invalid = [f \in Fpgas |-> {}] /\ single = [f \in Fpgas |-> FALSE]
      /\ ddc = [f \in Fpgas |-> FALSE] /\ time_left = [f \in Fpgas |-> Passed]
      /\ beam = [f \in Fpgas |-> Off]
      /\ flagged \in BOOLEAN /\ holding \in BOOLEAN
  BY DEF Init
<1>2. Types
  <2>1. Passed \in Passed .. Delay
    BY DEF Passed
  <2>2. Off \in [wait : 0 .. Delay, run : {0} \cup Durations]
    BY DEF Off
  <2> QED  BY <1>1, <2>1, <2>2 DEF Types
<1>3. /\ \A f : ~OfF({}, "clear_request", f) /\ ChecksOf({}, f) = {} /\ ~PreparesFor({}, f)
      /\ \A f : ~OfF({}, "abort", f)
      /\ \A t : ~OfT({}, "check_started", t) /\ ~OfT({}, "check_flag", t)
  BY DEF OfF, OfT, ChecksOf, PreparesFor
<1>4. Asking({})
  <2>1. ASSUME NEW f \in Fpgas
        PROVE  AskedOf({}, f)
    BY <1>1, <1>3 DEF AskedOf, Narrow
  <2> QED  BY <2>1 DEF Asking
<1>5. Beaming({})
  <2>1. ASSUME NEW t \in 1 .. NofTiles
        PROVE  BeamOf({}, t)
    <3>1. beam[<<t, 1>>] = beam[<<t, 2>>]
      BY <1>1, FpgaFacts
    <3> QED  BY <1>3, <3>1 DEF BeamOf
  <2> QED  BY <2>1 DEF Beaming
<1>6. Telling({})
  BY <1>1 DEF Telling, Has, HasTell
<1>7. Shape(<<>>) /\ StepsOf(<<>>) = {}
  <2>1. <<>> \in Seq(CallType) /\ Len(<<>>) = 0
    BY EmptySeq
  <2>2. \A i \in 1 .. 0 : FALSE
    OBVIOUS
  <2>3. \A i \in 2 .. 0 : FALSE
    OBVIOUS
  <2> QED  BY <2>1, <2>2, <2>3 DEF Shape, StepsOf
<1> QED  BY <1>1, <1>2, <1>4, <1>5, <1>6, <1>7 DEF SessionInv, Now, Current

LEMMA NextInv == SessionInv /\ [Next]_vars => SessionInv'
<1> SUFFICES ASSUME SessionInv, [Next]_vars PROVE SessionInv'
  OBVIOUS
<1>1. CASE CommandStation
  <2>1. PICK name \in DOMAIN StationCommand : Begin(StationCommand[name], Fpgas)
    BY <1>1 DEF CommandStation
  <2>2. Plan(StationCommand[name]) /\ Fits(StepsOf(StationCommand[name]), Fpgas)
    BY StationCommandsAreGood DEF Good
  <2> QED  BY <2>1, <2>2, BeginStep
<1>2. CASE CommandTile
  <2> PICK t \in 1 .. NofTiles : \E name \in DOMAIN TileCommand(t) :
               Begin(<<TileCommand(t)[name]>>, FpgasOf(t))
    BY <1>2 DEF CommandTile
  <2>1. PICK name \in DOMAIN TileCommand(t) : Begin(<<TileCommand(t)[name]>>, FpgasOf(t))
    OBVIOUS
  <2>2. /\ Plan(<<TileCommand(t)[name]>>)
        /\ Fits(StepsOf(<<TileCommand(t)[name]>>), FpgasOf(t))
    BY TileCommandsAreGood
  <2>3. FpgasOf(t) \in SUBSET Fpgas
    BY FpgaFacts
  <2> QED  BY <2>1, <2>2, <2>3, BeginStep
<1>3. CASE Main
  <2>1. PICK a, r, L : a = This /\ r = Tail(Head(calls)) /\ L = Later(calls)
    OBVIOUS
  <2> QED  BY <1>3, <2>1, MainStep
<1>4. CASE Tick
  BY <1>4, TickStep
<1>5. CASE \E f \in Fpgas : Served(f)
  BY <1>5, ServedStep
<1>6. CASE UNCHANGED vars
  <2>1. /\ UNCHANGED <<flagged, holding, commands, request, late, invalid, single, ddc, time_left>>
        /\ UNCHANGED <<beam, calls, concerned, due, refused, told, asked, written>>
    BY <1>6 DEF vars, fixed, registers, local
  <2>2. Types' /\ Shape(calls)' /\ Telling(StepsOf(calls))'
    <3>1. Types'
      BY <2>1 DEF SessionInv, Types
    <3>2. Shape(calls)'
      BY <2>1 DEF SessionInv
    <3>3. Telling(StepsOf(calls))'
      BY <2>1 DEF SessionInv, Telling, InTime
    <3> QED  BY <3>1, <3>2, <3>3
  <2>3. Asking(Now)'
    <3>1. Asking(Now)
      BY DEF SessionInv
    <3>2. Now' = Now
      BY <2>1 DEF Now
    <3>3. ASSUME NEW f \in Fpgas, AskedOf(Now, f)
          PROVE  AskedOf(Now, f)'
      BY <2>1, <3>2, <3>3 DEF AskedOf, Narrow
    <3>4. ASSUME NEW s \in Now, ToAsk(Now, s)
          PROVE  ToAsk(Now, s)'
      BY <2>1, <3>2, <3>4 DEF ToAsk
    <3> QED  BY <3>1, <3>2, <3>3, <3>4 DEF Asking
  <2>4. Beaming(Now)'
    <3>1. Beaming(Now)
      BY DEF SessionInv
    <3>2. Now' = Now
      BY <2>1 DEF Now
    <3>3. ASSUME NEW t \in 1 .. NofTiles, BeamOf(Now, t)
          PROVE  BeamOf(Now, t)'
      BY <2>1, <3>2, <3>3 DEF BeamOf
    <3>4. ASSUME NEW s \in Now, ToBeam(Now, s)
          PROVE  ToBeam(Now, s)'
      BY <2>1, <3>2, <3>4 DEF ToBeam
    <3> QED  BY <3>1, <3>2, <3>3, <3>4 DEF Beaming
  <2> QED  BY <2>2, <2>3, <2>4 DEF SessionInv
<1> QED  BY <1>1, <1>2, <1>3, <1>4, <1>5, <1>6 DEF Next

\* What is to be done of a command, and what the FPGAs were asked and the beamformers told,
\* fit together at every step of the thread, of the firmware and of time: the requests of
\* tile.py and station.py, their checks and what is cleared when they fail.
THEOREM SessionInvariant == Spec => []SessionInv
<1> QED  BY InitInv, NextInv, PTL DEF Spec

\* At rest nothing is left to be done.
LEMMA NothingToDo ==
  ASSUME SessionInv, AtRest
  PROVE  Asking({}) /\ Beaming({}) /\ Telling({}) /\ Types
<1>1. calls = <<>>
  BY DEF AtRest
<1>2. Now = {}
  BY <1>1 DEF Now, Current
<1>3. StepsOf(calls) = {}
  <2>1. Len(<<>>) = 0
    BY EmptySeq
  <2>2. \A i \in 1 .. 0 : FALSE
    OBVIOUS
  <2> QED  BY <1>1, <2>1, <2>2 DEF StepsOf
<1> QED  BY <1>2, <1>3 DEF SessionInv

\* No command of the station or of a tile but one of narrow band data, which tile.py does not
\* check, leaves a request that came too late or the flag of one, whatever the delay, the
\* firmware and the commands that went before.
THEOREM NothingIsLeftLate == Spec => []NoneLeftLate
<1>1. SessionInv => NoneLeftLate
  <2> SUFFICES ASSUME SessionInv, AtRest, NEW f \in Fpgas, late[f] \/ invalid[f] # {}
               PROVE  ddc[f]
    BY DEF NoneLeftLate
  <2>1. AskedOf({}, f)
    BY NothingToDo DEF Asking
  <2>2. /\ ~OfF({}, "clear_request", f) /\ ChecksOf({}, f) = {}
        /\ \A m : ~ToClear({}, f, m)
    BY DEF OfF, ChecksOf, ToClear
  <2>3. late[f]
    BY <2>1, <2>2 DEF AskedOf
  <2>4. Narrow(f)
    BY <2>1, <2>2, <2>3 DEF AskedOf
  <2> QED  BY <2>4 DEF Narrow
<1> QED  BY <1>1, SessionInvariant, PTL

\* When a command says that all went well, every FPGA it was for was told for one time what to
\* do: before the frame of that time, of a command to one tile, and of one to the station no
\* later than in that frame, which the comparison with t1 in station.py still lets pass.
THEOREM SuccessIsTogether == Spec => []WellIsTogether
<1>1. SessionInv => WellIsTogether
  <2> SUFFICES ASSUME SessionInv, AtRest, told = "ok"
               PROVE  /\ \A f \in concerned : InTime(written[f])
                      /\ asked => \A f, g \in concerned : time_left[f] = time_left[g]
    BY DEF WellIsTogether
  <2>1. Telling({})
    BY NothingToDo
  <2>2. ~HasTell({}) /\ \A f : ~OfF({}, "apply_sync_delay", f)
    BY DEF HasTell, OfF
  <2>3. \A f \in concerned : InTime(written[f])
    BY <2>1, <2>2 DEF Telling
  <2>4. asked => \A f \in concerned : time_left[f] = due
    BY <2>1, <2>2 DEF Telling
  <2> QED  BY <2>3, <2>4
<1> QED  BY <1>1, SessionInvariant, PTL

\* The station beamformer of tile.py starts, runs and ends in both FPGAs of a tile or in none,
\* whichever of them refuses, however late the start and whatever comes in between.
THEOREM BeamInBothOrNone == Spec => []BothOrNone
<1>1. SessionInv => BothOrNone
  <2> SUFFICES ASSUME SessionInv, AtRest, NEW t \in 1 .. NofTiles
               PROVE  beam[<<t, 1>>] = beam[<<t, 2>>]
    BY DEF BothOrNone
  <2>1. BeamOf({}, t)
    BY NothingToDo DEF Beaming
  <2>2. ~OfT({}, "check_started", t) /\ ~OfF({}, "abort", <<t, 2>>)
    BY DEF OfT, OfF
  <2> QED  BY <2>1, <2>2 DEF BeamOf
<1> QED  BY <1>1, SessionInvariant, PTL

\* An FPGA has at most one request, which has come in time or too late; the times that are
\* counted back stay in their range.
THEOREM TypeCorrect == Spec => []TypeOK
<1>1. SessionInv => TypeOK
  <2> SUFFICES ASSUME SessionInv PROVE TypeOK
    OBVIOUS
  <2>1. Types /\ Asking(Now)
    BY DEF SessionInv
  <2>2. ASSUME NEW f \in Fpgas
        PROVE  /\ beam[f].wait \in 0 .. Delay
               /\ Cardinality(request[f]) <= 1
               /\ late[f] => request[f] # {}
    <3>1. beam[f] \in [wait : 0 .. Delay, run : {0} \cup Durations]
      BY <2>1 DEF Types
    <3>2. AskedOf(Now, f)
      BY <2>1 DEF Asking
    <3>3. late[f] => request[f] # {}
      BY <3>2 DEF AskedOf
    <3>4. \A m, n \in request[f] : m = n
      BY <3>2 DEF AskedOf
    <3>5. request[f] = {} \/ \E m : request[f] = {m}
      BY <3>4
    <3>6. Cardinality(request[f]) <= 1
      <4> DEFINE R == request[f]
      <4>1. CASE R = {}
        <5>1. Cardinality(R) = 0
          BY <4>1, FS_EmptySet
        <5> QED  BY <5>1
      <4>2. CASE \E m : R = {m}
        <5>1. Cardinality(R) = 1
          BY <4>2, FS_Singleton, Zenon
        <5> HIDE DEF R
        <5>2. Cardinality(R) <= 1
          BY <5>1
        <5> QED  BY <5>2 DEF R
      <4> QED  BY <3>5, <4>1, <4>2
    <3> QED  BY <3>1, <3>3, <3>6
  <2> QED  BY <2>1, <2>2 DEF Types, TypeOK
<1> QED  BY <1>1, SessionInvariant, PTL
=============================================================================
