--------------------------- MODULE Receiver_proofs ---------------------------
(***************************************************************************)
(* Proofs about DaqSession, a data acquisition receiver of either version, *)
(* for any set of modes and any configuration, however many buffers come   *)
(* and operations there are: the type of its state, that running_consumers *)
(* agrees with the library between operations, that a stop_daq that        *)
(* succeeds stops everything, that the functions ignore the first two      *)
(* buffers, and that what comes while the main thread rests is filed.      *)
(*                                                                         *)
(* The steps the main thread has to do are any suffix of what one of the   *)
(* operations is made of, with the steps of stop or start functions put    *)
(* before it.  The proofs need little of that: which step may follow which *)
(* (WellFormed), and that goes over from a sequence to its tail, and from  *)
(* two sequences to the one after the other.                               *)
(*                                                                         *)
(* Proofs about StationBuffer, the buffers of the library's station beam   *)
(* consumer, for every ring size, buffer length and stream, and that it    *)
(* implements the safety part of BufferPipeline.  TypeCorrect holds at any *)
(* pace; the other theorems assume that the bounded wait of write_data     *)
(* never runs out (Pace # "overrun").                                      *)
(***************************************************************************)
EXTENDS DaqSession, StationPipeline, SequenceTheorems, FiniteSetTheorems, TLAPS

-----------------------------------------------------------------------------
(* The session of a receiver: what its steps are                           *)

\* the slot of the persisters a mode's callback uses, and the modes whose callbacks use the
\* sampling time
SlotOf(m) == IF m = "CONTINUOUS_CHANNEL_DATA" THEN "CHANNEL_DATA" ELSE m
Timed == DaqModes \ {"RAW_DATA", "ANTENNA_BUFFER"}

\* steps that raise no exception, and steps about one mode that is in use
Quiet == {"running", "manager", "no_manager", "sampling_time", "external", "no_external"}
OfMode == Quiet \cup {"start_consumer", "stop_consumer", "not_running"}

\* the steps of stop_daq only
Stopping == {"forget_timestamps", "forget_ignored", "stop_running", "stop_receiver"}

\* and the others
Others ==
  {"start", "raise", "check_directory", "apply", "get_ip_address", "remove_locks",
   "load_library", "start_receiver", "add_receiver_ports"}

Doings == OfMode \cup Stopping \cup Others
StepType == [do : Doings, mode : DaqModes \cup {All}, slot : DaqModes \cup {All}]

\* After step i of s a file manager is made for the slot, or the sampling time is set for
\* the mode, with no exception before that.
ManagerComes(s, i, slot) ==
  \E k \in i + 1 .. Len(s) :
    /\ s[k].do = "manager" /\ s[k].slot = slot
    /\ \A j \in i + 1 .. k - 1 : s[j].do \in Quiet

SamplingComes(s, i, m) ==
  \E k \in i + 1 .. Len(s) :
    /\ s[k].do = "sampling_time" /\ s[k].mode = m
    /\ \A j \in i + 1 .. k - 1 : s[j].do \in Quiet

\* step i of s, and then step j, with the same mode
Follows(s, i, first, j, second) ==
  s[i].do = first /\ s[j].do = second /\ s[i].mode = s[j].mode

\* what steps there are about the modes M, and which step comes after which
WellFormed(M, s) ==
  /\ s \in Seq(StepType)
  /\ \A i \in 1 .. Len(s) :
       /\ s[i].do \in OfMode => s[i].mode \in M
       /\ s[i].do = "start_consumer" =>
            /\ i < Len(s) /\ Follows(s, i, "start_consumer", i + 1, "running")
            /\ ManagerComes(s, i, SlotOf(s[i].mode))
       /\ s[i].do = "stop_consumer" =>
            i < Len(s) /\ Follows(s, i, "stop_consumer", i + 1, "not_running")
       /\ s[i].do = "no_manager" =>
            i < Len(s) /\ s[i + 1].do = "manager" /\ s[i + 1].slot = s[i].slot
  /\ \A i \in 2 .. Len(s) :
       /\ s[i].do = "running" => Follows(s, i - 1, "start_consumer", i, "running")
       /\ s[i].do = "not_running" => Follows(s, i - 1, "stop_consumer", i, "not_running")
       /\ s[i].do = "start_consumer" /\ s[i].mode \in Timed =>
            \/ SamplingComes(s, i, s[i].mode)
            \/ Follows(s, i - 1, "sampling_time", i, "start_consumer")

\* that needs nothing before it
Complete(M, s) ==
  /\ WellFormed(M, s)
  /\ s # <<>> =>
       /\ s[1].do \notin {"running", "not_running"}
       /\ s[1].do = "start_consumer" /\ s[1].mode \in Timed => SamplingComes(s, 1, s[1].mode)

\* what is left of the version's stop_daq: the receiver is stopped last, after the
\* consumers and, by the functions, the count of what is ignored
StopDaqShape(v, s) ==
  /\ s # <<>>
  /\ \A i \in 1 .. Len(s) :
       /\ s[i].do \in Stopping \cup {"no_external", "stop_consumer", "not_running"}
       /\ s[i].do = "stop_receiver" <=> i = Len(s)
  /\ \A i \in 2 .. Len(s) :
       /\ s[i].do = "stop_receiver" =>
            s[i - 1].do = (IF v = "functions" THEN "forget_ignored" ELSE "stop_running")
       /\ v = "functions" /\ s[i].do = "forget_ignored" => s[i - 1].do = "stop_running"

NoStopDaq(s) == \A i \in 1 .. Len(s) : s[i].do \notin Stopping
-----------------------------------------------------------------------------
(* The invariant                                                            *)

Types ==
  /\ version \in {"functions", "class"}
  /\ modes \in SUBSET DaqModes
  /\ options \in [write_to_disk : BOOLEAN, together : BOOLEAN, threshold : BOOLEAN]
  /\ loaded \in {"no", "half", "all"}
  /\ library \in [modes -> {"off", "on", "stopping"}]
  /\ receiver \in BOOLEAN /\ directory \in BOOLEAN
  /\ running \in [modes -> BOOLEAN]
  /\ persisters \in [modes \cup {"CHANNEL_DATA"} -> modes \cup {NoMode}]
  /\ sampling_time \in [modes -> BOOLEAN]
  /\ external \in [modes -> BOOLEAN]
  /\ timestamps \in [modes -> Nat]
  /\ ignored \in [modes -> 0 .. 2]
  /\ main \in [op : {"none", "populate", "script", "start", "stop", "stop_daq"},
               steps : Seq(StepType)]
  /\ callback \in [modes -> [at : {"idle", "remember", "ingest", "external", "call"},
                             time : Nat, ops : Int]]
  /\ ops \in Nat
  /\ buffers \in [modes -> Nat]
  /\ since \in [modes -> Nat]
  /\ last \in [modes -> [time : Nat, under : Nat, slot : DaqModes \cup {NoMode},
                         manager : DaqModes \cup {NoMode}, sampled : BOOLEAN]]

\* Only buffers that came are remembered, handled and filed.
Bounds ==
  \A m \in modes :
    /\ buffers[m] <= MaxBuffers[m] /\ since[m] <= buffers[m]
    /\ timestamps[m] <= buffers[m] /\ callback[m].time <= buffers[m] /\ last[m].time <= buffers[m]

Programs ==
  /\ main.op = "none" => main.steps = <<>>
  /\ WellFormed(modes, main.steps)
  /\ IF main.op = "stop_daq" THEN StopDaqShape(version, main.steps) ELSE NoStopDaq(main.steps)

\* the step the main thread is at, and its mode
AtStepOf(do, m) == main.steps # <<>> /\ main.steps[1].do = do /\ main.steps[1].mode = m

\* The flag and the library agree, but for the step before the flag is set.
Agrees(m) ==
  /\ AtStepOf("running", m) => ~running[m] /\ library[m] = "on"
  /\ AtStepOf("not_running", m) => running[m] /\ library[m] = "off"
  /\ ~AtStepOf("running", m) /\ ~AtStepOf("not_running", m) =>
       /\ running[m] <=> library[m] # "off"
       /\ library[m] = "stopping" => AtStepOf("stop_consumer", m)

\* The library calls back nobody whose consumer it has stopped.
NoCallbackWhenOff(m) == library[m] = "off" => callback[m].at = "idle"

\* Once stop_daq has stopped the consumers that run, they stay off to its end.
StopDaqState ==
  main.op = "stop_daq" =>
    /\ receiver
    /\ \/ main.steps[1].do = "stop_receiver"
       \/ version = "functions" /\ main.steps[1].do = "forget_ignored"
       => \A m \in modes : library[m] = "off"
    /\ version = "functions" /\ main.steps[1].do = "stop_receiver" =>
         \A m \in modes : ignored[m] = 0

\* Of the buffers since the last stop_daq, no fewer than are counted have been ignored.
Ignoring ==
  version = "functions" => \A m \in modes : Persisting(m).ignore =>
    /\ ignored[m] <= buffers[m] - since[m]
    /\ callback[m].time \notin since[m] + 1 .. since[m] + 2
    /\ last[m].time \notin since[m] + 1 .. since[m] + 2

\* A consumer that is on has what its callback needs, or will have before an exception.
Equipped(m) ==
  library[m] # "off" =>
    /\ persisters[SlotOf(m)] # NoMode \/ ManagerComes(main.steps, 0, SlotOf(m))
    /\ m \in Timed => sampling_time[m] \/ SamplingComes(main.steps, 0, m)

ReadyToStart ==
  main.steps # <<>> /\ main.steps[1].do = "start_consumer" /\ main.steps[1].mode \in Timed =>
    sampling_time[main.steps[1].mode] \/ SamplingComes(main.steps, 1, main.steps[1].mode)

\* A callback that came while the main thread rested finds what it looked up before.
Undisturbed(m) ==
  /\ callback[m].ops <= ops
  /\ callback[m].at # "idle" => callback[m].time > 0
  /\ callback[m].at # "idle" /\ callback[m].ops = ops =>
       /\ main.op = "none"
       /\ callback[m].at = "ingest" /\ Persisting(m).first => timestamps[m] # NoTime
       /\ callback[m].at = "call" => external[m]

SessionInv ==
  /\ Types /\ Bounds /\ Programs /\ StopDaqState /\ Ignoring /\ ReadyToStart
  /\ \A m \in modes : Agrees(m) /\ NoCallbackWhenOff(m) /\ Equipped(m) /\ Undisturbed(m)
-----------------------------------------------------------------------------
(* Sequences                                                                *)

\* What is known of the rest of a sequence.
LEMMA TailFacts ==
  ASSUME NEW T, NEW s \in Seq(T), s # <<>>
  PROVE  /\ Tail(s) \in Seq(T)
         /\ Len(s) \in Nat \ {0}
         /\ Len(Tail(s)) = Len(s) - 1
         /\ Head(s) = s[1] /\ s[1] \in T
         /\ \A i \in 1 .. Len(s) - 1 : Tail(s)[i] = s[i + 1]
  BY HeadTailProperties, LenProperties, EmptySeq, ElementOfSeq

\* What is known of two sequences, one after the other.
LEMMA ConcatFacts ==
  ASSUME NEW T, NEW s \in Seq(T), NEW t \in Seq(T)
  PROVE  /\ s \o t \in Seq(T)
         /\ Len(s) \in Nat /\ Len(t) \in Nat
         /\ Len(s \o t) = Len(s) + Len(t)
         /\ \A i \in 1 .. Len(s) : (s \o t)[i] = s[i]
         /\ \A i \in 1 .. Len(t) : (s \o t)[Len(s) + i] = t[i]
  BY ConcatProperties, LenProperties

\* A sequence is two others, one after the other, if it has their elements.
LEMMA ConcatIs ==
  ASSUME NEW T, NEW s \in Seq(T), NEW t \in Seq(T), NEW u \in Seq(T),
         Len(u) = Len(s) + Len(t),
         \A i \in 1 .. Len(s) : u[i] = s[i],
         \A i \in 1 .. Len(t) : u[Len(s) + i] = t[i]
  PROVE  s \o t = u
<1>1. s \o t \in Seq(T) /\ Len(s) \in Nat /\ Len(t) \in Nat /\ Len(s \o t) = Len(u)
  BY ConcatFacts
<1>2. ASSUME NEW i \in 1 .. Len(s \o t)
      PROVE  (s \o t)[i] = u[i]
  <2>1. CASE i \in 1 .. Len(s)
    BY <2>1, ConcatFacts
  <2>2. CASE i \notin 1 .. Len(s)
    <3>1. PICK j \in 1 .. Len(t) : i = Len(s) + j
      <4>1. i - Len(s) \in 1 .. Len(t) /\ i = Len(s) + (i - Len(s))
        BY <1>1, <2>2
      <4> QED  BY <4>1
    <3> QED  BY <3>1, ConcatFacts
  <2> QED  BY <2>1, <2>2
<1> QED  BY <1>1, <1>2, SeqEqual

\* One step after one, two, three, four and five others
LEMMA TwoSteps ==
  ASSUME NEW T, NEW a \in T, NEW b \in T
  PROVE  <<a>> \o <<b>> = <<a, b>>
<1> DEFINE s == <<a>>  t == <<b>>  u == <<a, b>>
<1>1. s \in Seq(T) /\ t \in Seq(T) /\ u \in Seq(T)
  OBVIOUS
<1>2. Len(s) = 1 /\ Len(t) = 1 /\ Len(u) = 2
  OBVIOUS
<1>3. \A i \in 1 .. Len(s) : u[i] = s[i]
  BY <1>2
<1>4. \A i \in 1 .. Len(t) : u[Len(s) + i] = t[i]
  BY <1>2
<1>5. Len(u) = Len(s) + Len(t)
  BY <1>2
<1> HIDE DEF s, t, u
<1>6. s \o t = u
  BY <1>1, <1>3, <1>4, <1>5, ConcatIs
<1> QED  BY <1>6 DEF s, t, u

LEMMA ThreeSteps ==
  ASSUME NEW T, NEW a \in T, NEW b \in T, NEW c \in T
  PROVE  <<a, b>> \o <<c>> = <<a, b, c>>
<1> DEFINE s == <<a, b>>  t == <<c>>  u == <<a, b, c>>
<1>1. s \in Seq(T) /\ t \in Seq(T) /\ u \in Seq(T)
  OBVIOUS
<1>2. Len(s) = 2 /\ Len(t) = 1 /\ Len(u) = 3
  OBVIOUS
<1>3. \A i \in 1 .. Len(s) : u[i] = s[i]
  BY <1>2
<1>4. \A i \in 1 .. Len(t) : u[Len(s) + i] = t[i]
  BY <1>2
<1>5. Len(u) = Len(s) + Len(t)
  BY <1>2
<1> HIDE DEF s, t, u
<1>6. s \o t = u
  BY <1>1, <1>3, <1>4, <1>5, ConcatIs
<1> QED  BY <1>6 DEF s, t, u

LEMMA TwoAfterOne ==
  ASSUME NEW T, NEW a \in T, NEW b \in T, NEW c \in T
  PROVE  <<a>> \o <<b, c>> = <<a, b, c>>
<1> DEFINE s == <<a>>  t == <<b, c>>  u == <<a, b, c>>
<1>1. s \in Seq(T) /\ t \in Seq(T) /\ u \in Seq(T)
  OBVIOUS
<1>2. Len(s) = 1 /\ Len(t) = 2 /\ Len(u) = 3
  OBVIOUS
<1>3. \A i \in 1 .. Len(s) : u[i] = s[i]
  BY <1>2
<1>4. \A i \in 1 .. Len(t) : u[Len(s) + i] = t[i]
  BY <1>2
<1>5. Len(u) = Len(s) + Len(t)
  BY <1>2
<1> HIDE DEF s, t, u
<1>6. s \o t = u
  BY <1>1, <1>3, <1>4, <1>5, ConcatIs
<1> QED  BY <1>6 DEF s, t, u

LEMMA FourSteps ==
  ASSUME NEW T, NEW a \in T, NEW b \in T, NEW c \in T, NEW d \in T
  PROVE  <<a, b, c>> \o <<d>> = <<a, b, c, d>>
<1> DEFINE s == <<a, b, c>>  t == <<d>>  u == <<a, b, c, d>>
<1>1. s \in Seq(T) /\ t \in Seq(T) /\ u \in Seq(T)
  OBVIOUS
<1>2. Len(s) = 3 /\ Len(t) = 1 /\ Len(u) = 4
  OBVIOUS
<1>3. \A i \in 1 .. Len(s) : u[i] = s[i]
  BY <1>2
<1>4. \A i \in 1 .. Len(t) : u[Len(s) + i] = t[i]
  BY <1>2
<1>5. Len(u) = Len(s) + Len(t)
  BY <1>2
<1> HIDE DEF s, t, u
<1>6. s \o t = u
  BY <1>1, <1>3, <1>4, <1>5, ConcatIs
<1> QED  BY <1>6 DEF s, t, u

LEMMA FiveSteps ==
  ASSUME NEW T, NEW a \in T, NEW b \in T, NEW c \in T, NEW d \in T, NEW e \in T
  PROVE  <<a, b, c, d>> \o <<e>> = <<a, b, c, d, e>>
<1> DEFINE s == <<a, b, c, d>>  t == <<e>>  u == <<a, b, c, d, e>>
<1>1. s \in Seq(T) /\ t \in Seq(T) /\ u \in Seq(T)
  OBVIOUS
<1>2. Len(s) = 4 /\ Len(t) = 1 /\ Len(u) = 5
  OBVIOUS
<1>3. \A i \in 1 .. Len(s) : u[i] = s[i]
  BY <1>2
<1>4. \A i \in 1 .. Len(t) : u[Len(s) + i] = t[i]
  BY <1>2
<1>5. Len(u) = Len(s) + Len(t)
  BY <1>2
<1> HIDE DEF s, t, u
<1>6. s \o t = u
  BY <1>1, <1>3, <1>4, <1>5, ConcatIs
<1> QED  BY <1>6 DEF s, t, u

LEMMA SixSteps ==
  ASSUME NEW T, NEW a \in T, NEW b \in T, NEW c \in T, NEW d \in T, NEW e \in T, NEW f \in T
  PROVE  <<a, b, c, d, e>> \o <<f>> = <<a, b, c, d, e, f>>
<1> DEFINE s == <<a, b, c, d, e>>  t == <<f>>  u == <<a, b, c, d, e, f>>
<1>1. s \in Seq(T) /\ t \in Seq(T) /\ u \in Seq(T)
  OBVIOUS
<1>2. Len(s) = 5 /\ Len(t) = 1 /\ Len(u) = 6
  OBVIOUS
<1>3. \A i \in 1 .. Len(s) : u[i] = s[i]
  BY <1>2
<1>4. \A i \in 1 .. Len(t) : u[Len(s) + i] = t[i]
  BY <1>2
<1>5. Len(u) = Len(s) + Len(t)
  BY <1>2
<1> HIDE DEF s, t, u
<1>6. s \o t = u
  BY <1>1, <1>3, <1>4, <1>5, ConcatIs
<1> QED  BY <1>6 DEF s, t, u

-----------------------------------------------------------------------------
(* What the operations are made of                                          *)

\* the kinds of start functions
Untimed(m, callback_step) ==
  <<Do("start_consumer", m), Do("running", m), Do("manager", m), Do(callback_step, m)>>
Burst(m) ==
  <<Do("start_consumer", m), Do("running", m), Do("manager", m), Do("sampling_time", m),
    Do("external", m)>>
Continuous(m) ==
  <<Do("sampling_time", m), Do("start_consumer", m), Do("running", m),
    [Do("manager", m) EXCEPT !.slot = "CHANNEL_DATA"], Do("external", m)>>
Replacing(m) ==
  <<Do("start_consumer", m), Do("running", m), Do("no_manager", m), Do("manager", m),
    Do("sampling_time", m), Do("external", m)>>

\* What Do makes is a step.
LEMMA DoType ==
  ASSUME NEW step \in Doings, NEW m \in DaqModes \cup {All}
  PROVE  /\ Do(step, m) \in StepType
         /\ Do(step, m).do = step /\ Do(step, m).mode = m /\ Do(step, m).slot = m
  BY DEF Do, StepType

\* What the functions that start a consumer are, written out: without a sampling time,
LEMMA UntimedFunction ==
  ASSUME NEW m \in DaqModes, NEW x \in Doings
  PROVE  start_consumer(m) \o SetManager(m) \o <<Do(x, m)>> = Untimed(m, x)
<1> DEFINE a == Do("start_consumer", m)  b == Do("running", m)  c == Do("manager", m)
           d == Do(x, m)
<1>1. a \in StepType /\ b \in StepType /\ c \in StepType /\ d \in StepType
  BY DoType DEF Doings, OfMode, Quiet
<1> HIDE DEF a, b, c, d
<1>2. <<a, b>> \o <<c>> = <<a, b, c>> /\ <<a, b, c>> \o <<d>> = <<a, b, c, d>>
  BY <1>1, ThreeSteps, FourSteps
<1>3. <<a, b>> \o <<c>> \o <<d>> = <<a, b, c, d>>
  BY <1>2
<1> QED  BY <1>3 DEF a, b, c, d, start_consumer, SetManager, Untimed

\* with the sampling time after the file manager,
LEMMA BurstFunction ==
  ASSUME NEW m \in DaqModes
  PROVE  start_consumer(m) \o SetManager(m) \o SetSamplingTime(m) \o SetExternal(m) = Burst(m)
<1> DEFINE a == Do("start_consumer", m)  b == Do("running", m)  c == Do("manager", m)
           d == Do("sampling_time", m)  e == Do("external", m)
<1>1. a \in StepType /\ b \in StepType /\ c \in StepType /\ d \in StepType /\ e \in StepType
  BY DoType DEF Doings, OfMode, Quiet
<1> HIDE DEF a, b, c, d, e
<1>2. /\ <<a, b>> \o <<c>> = <<a, b, c>> /\ <<a, b, c>> \o <<d>> = <<a, b, c, d>>
      /\ <<a, b, c, d>> \o <<e>> = <<a, b, c, d, e>>
  BY <1>1, ThreeSteps, FourSteps, FiveSteps
<1>3. <<a, b>> \o <<c>> \o <<d>> \o <<e>> = <<a, b, c, d, e>>
  BY <1>2
<1> QED  BY <1>3 DEF a, b, c, d, e, start_consumer, SetManager, SetSamplingTime, SetExternal, Burst

\* with the sampling time first and the burst consumer's slot,
LEMMA ContinuousFunction ==
  ASSUME NEW m \in DaqModes
  PROVE  SetSamplingTime(m) \o start_consumer(m) \o SetManagerIn(m, "CHANNEL_DATA") \o SetExternal(m)
           = Continuous(m)
<1> DEFINE a == Do("sampling_time", m)  b == Do("start_consumer", m)  c == Do("running", m)
           d == [Do("manager", m) EXCEPT !.slot = "CHANNEL_DATA"]  e == Do("external", m)
<1>1. a \in StepType /\ b \in StepType /\ c \in StepType /\ d \in StepType /\ e \in StepType
  BY DoType DEF Doings, OfMode, Quiet, StepType, DaqModes
<1> HIDE DEF a, b, c, d, e
<1>2. /\ <<a>> \o <<b, c>> = <<a, b, c>> /\ <<a, b, c>> \o <<d>> = <<a, b, c, d>>
      /\ <<a, b, c, d>> \o <<e>> = <<a, b, c, d, e>>
  BY <1>1, TwoAfterOne, FourSteps, FiveSteps
<1>3. <<a>> \o <<b, c>> \o <<d>> \o <<e>> = <<a, b, c, d, e>>
  BY <1>2
<1> QED  BY <1>3 DEF a, b, c, d, e, start_consumer, SetManagerIn, SetSamplingTime, SetExternal, Continuous

\* and with no file manager for a moment.
LEMMA ReplacingFunction ==
  ASSUME NEW m \in DaqModes
  PROVE  start_consumer(m) \o <<Do("no_manager", m)>> \o SetManager(m) \o SetSamplingTime(m)
           \o SetExternal(m) = Replacing(m)
<1> DEFINE a == Do("start_consumer", m)  b == Do("running", m)  c == Do("no_manager", m)
           d == Do("manager", m)  e == Do("sampling_time", m)  f == Do("external", m)
<1>1. /\ a \in StepType /\ b \in StepType /\ c \in StepType
      /\ d \in StepType /\ e \in StepType /\ f \in StepType
  BY DoType DEF Doings, OfMode, Quiet
<1> HIDE DEF a, b, c, d, e, f
<1>2. /\ <<a, b>> \o <<c>> = <<a, b, c>> /\ <<a, b, c>> \o <<d>> = <<a, b, c, d>>
      /\ <<a, b, c, d>> \o <<e>> = <<a, b, c, d, e>>
      /\ <<a, b, c, d, e>> \o <<f>> = <<a, b, c, d, e, f>>
  BY <1>1, ThreeSteps, FourSteps, FiveSteps, SixSteps
<1>3. <<a, b>> \o <<c>> \o <<d>> \o <<e>> \o <<f>> = <<a, b, c, d, e, f>>
  BY <1>2
<1> QED  BY <1>3 DEF a, b, c, d, e, f, start_consumer, SetManager, SetSamplingTime, SetExternal, Replacing

\* Every start function is of one of the kinds, with the sampling time where it is used.
LEMMA StartKinds ==
  ASSUME NEW m \in DaqModes
  PROVE  \/ \E x \in {"external", "no_external"} :
              m \notin Timed /\ SlotOf(m) = m /\ StartSteps(m) = Untimed(m, x)
         \/ SlotOf(m) = m /\ StartSteps(m) = Burst(m)
         \/ SlotOf(m) = "CHANNEL_DATA" /\ StartSteps(m) = Continuous(m)
         \/ SlotOf(m) = m /\ StartSteps(m) = Replacing(m)
<1>1. CASE m = "RAW_DATA"
  <2>1. StartSteps(m) = start_consumer(m) \o SetManager(m) \o <<Do("external", m)>>
    BY <1>1 DEF StartSteps, start_functions, _start_functions, start_raw_data_consumer,
         _start_raw_data_consumer, SetExternal
  <2>2. StartSteps(m) = Untimed(m, "external")
    BY <2>1, UntimedFunction DEF Doings, OfMode, Quiet
  <2> QED  BY <1>1, <2>2 DEF Timed, SlotOf
<1>2. CASE m = "ANTENNA_BUFFER"
  <2>1. CASE version = "functions"
    <3>1. StartSteps(m) = start_consumer(m) \o SetManager(m) \o <<Do("external", m)>>
      BY <1>2, <2>1 DEF StartSteps, start_functions, start_antenna_buffer_data_consumer, SetExternal
    <3>2. StartSteps(m) = Untimed(m, "external")
      BY <3>1, UntimedFunction DEF Doings, OfMode, Quiet
    <3> QED  BY <1>2, <3>2 DEF Timed, SlotOf
  <2>2. CASE version # "functions"
    <3>1. StartSteps(m) = start_consumer(m) \o SetManager(m) \o <<Do("no_external", m)>>
      BY <1>2, <2>2 DEF StartSteps, _start_functions, _start_antenna_buffer_data_consumer
    <3>2. StartSteps(m) = Untimed(m, "no_external")
      BY <3>1, UntimedFunction DEF Doings, OfMode, Quiet
    <3> QED  BY <1>2, <3>2 DEF Timed, SlotOf
  <2> QED  BY <2>1, <2>2
<1>3. CASE m = "CONTINUOUS_CHANNEL_DATA"
  <2>1. StartSteps(m) = SetSamplingTime(m) \o start_consumer(m) \o SetManagerIn(m, "CHANNEL_DATA")
                          \o SetExternal(m)
    BY <1>3 DEF StartSteps, start_functions, _start_functions, start_continuous_channel_data_consumer,
         _start_continuous_channel_data_consumer
  <2> QED  BY <1>3, <2>1, ContinuousFunction DEF SlotOf
<1>4. CASE m = "INTEGRATED_BEAM_DATA"
  <2>1. StartSteps(m) = start_consumer(m) \o <<Do("no_manager", m)>> \o SetManager(m)
                          \o SetSamplingTime(m) \o SetExternal(m)
    BY <1>4 DEF StartSteps, start_functions, _start_functions, start_integrated_beam_data_consumer,
         _start_integrated_beam_data_consumer
  <2> QED  BY <1>4, <2>1, ReplacingFunction DEF SlotOf
<1>5. CASE m \in {"CHANNEL_DATA", "BEAM_DATA", "INTEGRATED_CHANNEL_DATA", "STATION_BEAM_DATA",
                  "CORRELATOR_DATA"}
  <2>1. StartSteps(m) = start_consumer(m) \o SetManager(m) \o SetSamplingTime(m) \o SetExternal(m)
    <3>1. CASE m = "CHANNEL_DATA"
      BY <3>1 DEF StartSteps, start_functions, _start_functions, start_channel_data_consumer,
           _start_channel_data_consumer
    <3>2. CASE m = "BEAM_DATA"
      BY <3>2 DEF StartSteps, start_functions, _start_functions, start_beam_data_consumer,
           _start_beam_data_consumer
    <3>3. CASE m = "INTEGRATED_CHANNEL_DATA"
      BY <3>3 DEF StartSteps, start_functions, _start_functions, start_integrated_channel_data_consumer,
           _start_integrated_channel_data_consumer
    <3>4. CASE m = "STATION_BEAM_DATA"
      BY <3>4 DEF StartSteps, start_functions, _start_functions, start_station_beam_data_consumer,
           _start_station_beam_data_consumer
    <3>5. CASE m = "CORRELATOR_DATA"
      BY <3>5 DEF StartSteps, start_functions, _start_functions, start_correlator,
           _start_correlator
    <3> QED  BY <1>5, <3>1, <3>2, <3>3, <3>4, <3>5
  <2> QED  BY <1>5, <2>1, BurstFunction DEF SlotOf
<1> QED  BY <1>1, <1>2, <1>3, <1>4, <1>5 DEF DaqModes

\* Each is complete.
LEMMA UntimedComplete ==
  ASSUME NEW M \in SUBSET DaqModes, NEW m \in M, NEW x \in {"external", "no_external"}, m \notin Timed, SlotOf(m) = m
  PROVE  Complete(M, Untimed(m, x)) /\ NoStopDaq(Untimed(m, x))
<1> DEFINE s == Untimed(m, x)
<1>1. s \in Seq(StepType) /\ Len(s) = 4
  BY DoType DEF Do, Untimed, StepType, Doings, OfMode, Quiet, DaqModes
<1>2. /\ s[1].do = "start_consumer" /\ s[1].mode = m
      /\ s[2].do = "running" /\ s[2].mode = m
      /\ s[3].do = "manager" /\ s[3].mode = m /\ s[3].slot = m
      /\ s[4].do = x /\ s[4].mode = m
  BY DEF Do, Untimed
<1> HIDE DEF s
<1>3. ManagerComes(s, 1, SlotOf(m))
  <2>1. 3 \in 1 + 1 .. Len(s) /\ s[3].do = "manager" /\ s[3].slot = SlotOf(m)
    BY <1>1, <1>2
  <2>2. \A j \in 1 + 1 .. 3 - 1 : s[j].do \in Quiet
    BY <1>2 DEF Quiet
  <2> QED  BY <2>1, <2>2 DEF ManagerComes
<1>5. WellFormed(M, s)
  <2>1. ASSUME NEW i \in 1 .. Len(s)
        PROVE  /\ s[i].do \in OfMode => s[i].mode \in M
               /\ s[i].do = "start_consumer" =>
                    /\ i < Len(s) /\ Follows(s, i, "start_consumer", i + 1, "running")
                    /\ ManagerComes(s, i, SlotOf(s[i].mode))
               /\ s[i].do = "stop_consumer" =>
                    i < Len(s) /\ Follows(s, i, "stop_consumer", i + 1, "not_running")
               /\ s[i].do = "no_manager" =>
                    i < Len(s) /\ s[i + 1].do = "manager" /\ s[i + 1].slot = s[i].slot
    <3>1. i = 1 \/ i = 2 \/ i = 3 \/ i = 4
      BY <1>1
    <3> QED  BY <1>1, <1>2, <1>3, <3>1 DEF Follows
  <2>2. ASSUME NEW i \in 2 .. Len(s)
        PROVE  /\ s[i].do = "running" => Follows(s, i - 1, "start_consumer", i, "running")
               /\ s[i].do = "not_running" => Follows(s, i - 1, "stop_consumer", i, "not_running")
               /\ s[i].do = "start_consumer" /\ s[i].mode \in Timed =>
                    \/ SamplingComes(s, i, s[i].mode)
                    \/ Follows(s, i - 1, "sampling_time", i, "start_consumer")
    <3>1. i = 2 \/ i = 3 \/ i = 4
      BY <1>1
    <3> QED  BY <1>1, <1>2, <3>1 DEF Follows
  <2> QED  BY <1>1, <2>1, <2>2 DEF WellFormed
<1>6. Complete(M, s)
  BY <1>2, <1>5 DEF Complete
<1>7. NoStopDaq(s)
  <2>1. ASSUME NEW i \in 1 .. Len(s)
        PROVE  s[i].do \notin Stopping
    <3>1. i = 1 \/ i = 2 \/ i = 3 \/ i = 4
      BY <1>1
    <3> QED  BY <1>2, <3>1 DEF Stopping
  <2> QED  BY <2>1 DEF NoStopDaq
<1> QED  BY <1>6, <1>7 DEF s

LEMMA BurstComplete ==
  ASSUME NEW M \in SUBSET DaqModes, NEW m \in M, SlotOf(m) = m
  PROVE  Complete(M, Burst(m)) /\ NoStopDaq(Burst(m))
<1> DEFINE s == Burst(m)
<1>1. s \in Seq(StepType) /\ Len(s) = 5
  BY DoType DEF Do, Burst, StepType, Doings, OfMode, Quiet, DaqModes
<1>2. /\ s[1].do = "start_consumer" /\ s[1].mode = m
      /\ s[2].do = "running" /\ s[2].mode = m
      /\ s[3].do = "manager" /\ s[3].mode = m /\ s[3].slot = m
      /\ s[4].do = "sampling_time" /\ s[4].mode = m
      /\ s[5].do = "external" /\ s[5].mode = m
  BY DEF Do, Burst
<1> HIDE DEF s
<1>3. ManagerComes(s, 1, SlotOf(m))
  <2>1. 3 \in 1 + 1 .. Len(s) /\ s[3].do = "manager" /\ s[3].slot = SlotOf(m)
    BY <1>1, <1>2
  <2>2. \A j \in 1 + 1 .. 3 - 1 : s[j].do \in Quiet
    BY <1>2 DEF Quiet
  <2> QED  BY <2>1, <2>2 DEF ManagerComes
<1>4. SamplingComes(s, 1, m)
  <2>1. 4 \in 1 + 1 .. Len(s) /\ s[4].do = "sampling_time" /\ s[4].mode = m
    BY <1>1, <1>2
  <2>2. \A j \in 1 + 1 .. 4 - 1 : s[j].do \in Quiet
    BY <1>2 DEF Quiet
  <2> QED  BY <2>1, <2>2 DEF SamplingComes
<1>5. WellFormed(M, s)
  <2>1. ASSUME NEW i \in 1 .. Len(s)
        PROVE  /\ s[i].do \in OfMode => s[i].mode \in M
               /\ s[i].do = "start_consumer" =>
                    /\ i < Len(s) /\ Follows(s, i, "start_consumer", i + 1, "running")
                    /\ ManagerComes(s, i, SlotOf(s[i].mode))
               /\ s[i].do = "stop_consumer" =>
                    i < Len(s) /\ Follows(s, i, "stop_consumer", i + 1, "not_running")
               /\ s[i].do = "no_manager" =>
                    i < Len(s) /\ s[i + 1].do = "manager" /\ s[i + 1].slot = s[i].slot
    <3>1. i = 1 \/ i = 2 \/ i = 3 \/ i = 4 \/ i = 5
      BY <1>1
    <3> QED  BY <1>1, <1>2, <1>3, <3>1 DEF Follows
  <2>2. ASSUME NEW i \in 2 .. Len(s)
        PROVE  /\ s[i].do = "running" => Follows(s, i - 1, "start_consumer", i, "running")
               /\ s[i].do = "not_running" => Follows(s, i - 1, "stop_consumer", i, "not_running")
               /\ s[i].do = "start_consumer" /\ s[i].mode \in Timed =>
                    \/ SamplingComes(s, i, s[i].mode)
                    \/ Follows(s, i - 1, "sampling_time", i, "start_consumer")
    <3>1. i = 2 \/ i = 3 \/ i = 4 \/ i = 5
      BY <1>1
    <3> QED  BY <1>1, <1>2, <3>1 DEF Follows
  <2> QED  BY <1>1, <2>1, <2>2 DEF WellFormed
<1>6. Complete(M, s)
  BY <1>2, <1>4, <1>5 DEF Complete
<1>7. NoStopDaq(s)
  <2>1. ASSUME NEW i \in 1 .. Len(s)
        PROVE  s[i].do \notin Stopping
    <3>1. i = 1 \/ i = 2 \/ i = 3 \/ i = 4 \/ i = 5
      BY <1>1
    <3> QED  BY <1>2, <3>1 DEF Stopping
  <2> QED  BY <2>1 DEF NoStopDaq
<1> QED  BY <1>6, <1>7 DEF s

LEMMA ContinuousComplete ==
  ASSUME NEW M \in SUBSET DaqModes, NEW m \in M, SlotOf(m) = "CHANNEL_DATA"
  PROVE  Complete(M, Continuous(m)) /\ NoStopDaq(Continuous(m))
<1> DEFINE s == Continuous(m)
<1>1. s \in Seq(StepType) /\ Len(s) = 5
  BY DoType DEF Do, Continuous, StepType, Doings, OfMode, Quiet, DaqModes
<1>2. /\ s[1].do = "sampling_time" /\ s[1].mode = m
      /\ s[2].do = "start_consumer" /\ s[2].mode = m
      /\ s[3].do = "running" /\ s[3].mode = m
      /\ s[4].do = "manager" /\ s[4].mode = m /\ s[4].slot = "CHANNEL_DATA"
      /\ s[5].do = "external" /\ s[5].mode = m
  BY DEF Do, Continuous
<1> HIDE DEF s
<1>3. ManagerComes(s, 2, SlotOf(m))
  <2>1. 4 \in 2 + 1 .. Len(s) /\ s[4].do = "manager" /\ s[4].slot = SlotOf(m)
    BY <1>1, <1>2
  <2>2. \A j \in 2 + 1 .. 4 - 1 : s[j].do \in Quiet
    BY <1>2 DEF Quiet
  <2> QED  BY <2>1, <2>2 DEF ManagerComes
<1>5. WellFormed(M, s)
  <2>1. ASSUME NEW i \in 1 .. Len(s)
        PROVE  /\ s[i].do \in OfMode => s[i].mode \in M
               /\ s[i].do = "start_consumer" =>
                    /\ i < Len(s) /\ Follows(s, i, "start_consumer", i + 1, "running")
                    /\ ManagerComes(s, i, SlotOf(s[i].mode))
               /\ s[i].do = "stop_consumer" =>
                    i < Len(s) /\ Follows(s, i, "stop_consumer", i + 1, "not_running")
               /\ s[i].do = "no_manager" =>
                    i < Len(s) /\ s[i + 1].do = "manager" /\ s[i + 1].slot = s[i].slot
    <3>1. i = 1 \/ i = 2 \/ i = 3 \/ i = 4 \/ i = 5
      BY <1>1
    <3> QED  BY <1>1, <1>2, <1>3, <3>1 DEF Follows
  <2>2. ASSUME NEW i \in 2 .. Len(s)
        PROVE  /\ s[i].do = "running" => Follows(s, i - 1, "start_consumer", i, "running")
               /\ s[i].do = "not_running" => Follows(s, i - 1, "stop_consumer", i, "not_running")
               /\ s[i].do = "start_consumer" /\ s[i].mode \in Timed =>
                    \/ SamplingComes(s, i, s[i].mode)
                    \/ Follows(s, i - 1, "sampling_time", i, "start_consumer")
    <3>1. i = 2 \/ i = 3 \/ i = 4 \/ i = 5
      BY <1>1
    <3> QED  BY <1>1, <1>2, <3>1 DEF Follows
  <2> QED  BY <1>1, <2>1, <2>2 DEF WellFormed
<1>6. Complete(M, s)
  BY <1>2, <1>5 DEF Complete
<1>7. NoStopDaq(s)
  <2>1. ASSUME NEW i \in 1 .. Len(s)
        PROVE  s[i].do \notin Stopping
    <3>1. i = 1 \/ i = 2 \/ i = 3 \/ i = 4 \/ i = 5
      BY <1>1
    <3> QED  BY <1>2, <3>1 DEF Stopping
  <2> QED  BY <2>1 DEF NoStopDaq
<1> QED  BY <1>6, <1>7 DEF s

LEMMA ReplacingComplete ==
  ASSUME NEW M \in SUBSET DaqModes, NEW m \in M, SlotOf(m) = m
  PROVE  Complete(M, Replacing(m)) /\ NoStopDaq(Replacing(m))
<1> DEFINE s == Replacing(m)
<1>1. s \in Seq(StepType) /\ Len(s) = 6
  BY DoType DEF Do, Replacing, StepType, Doings, OfMode, Quiet, DaqModes
<1>2. /\ s[1].do = "start_consumer" /\ s[1].mode = m
      /\ s[2].do = "running" /\ s[2].mode = m
      /\ s[3].do = "no_manager" /\ s[3].mode = m /\ s[3].slot = m
      /\ s[4].do = "manager" /\ s[4].mode = m /\ s[4].slot = m
      /\ s[5].do = "sampling_time" /\ s[5].mode = m
      /\ s[6].do = "external" /\ s[6].mode = m
  BY DEF Do, Replacing
<1> HIDE DEF s
<1>3. ManagerComes(s, 1, SlotOf(m))
  <2>1. 4 \in 1 + 1 .. Len(s) /\ s[4].do = "manager" /\ s[4].slot = SlotOf(m)
    BY <1>1, <1>2
  <2>2. \A j \in 1 + 1 .. 4 - 1 : s[j].do \in Quiet
    BY <1>2 DEF Quiet
  <2> QED  BY <2>1, <2>2 DEF ManagerComes
<1>4. SamplingComes(s, 1, m)
  <2>1. 5 \in 1 + 1 .. Len(s) /\ s[5].do = "sampling_time" /\ s[5].mode = m
    BY <1>1, <1>2
  <2>2. \A j \in 1 + 1 .. 5 - 1 : s[j].do \in Quiet
    BY <1>2 DEF Quiet
  <2> QED  BY <2>1, <2>2 DEF SamplingComes
<1>5. WellFormed(M, s)
  <2>1. ASSUME NEW i \in 1 .. Len(s)
        PROVE  /\ s[i].do \in OfMode => s[i].mode \in M
               /\ s[i].do = "start_consumer" =>
                    /\ i < Len(s) /\ Follows(s, i, "start_consumer", i + 1, "running")
                    /\ ManagerComes(s, i, SlotOf(s[i].mode))
               /\ s[i].do = "stop_consumer" =>
                    i < Len(s) /\ Follows(s, i, "stop_consumer", i + 1, "not_running")
               /\ s[i].do = "no_manager" =>
                    i < Len(s) /\ s[i + 1].do = "manager" /\ s[i + 1].slot = s[i].slot
    <3>1. i = 1 \/ i = 2 \/ i = 3 \/ i = 4 \/ i = 5 \/ i = 6
      BY <1>1
    <3> QED  BY <1>1, <1>2, <1>3, <3>1 DEF Follows
  <2>2. ASSUME NEW i \in 2 .. Len(s)
        PROVE  /\ s[i].do = "running" => Follows(s, i - 1, "start_consumer", i, "running")
               /\ s[i].do = "not_running" => Follows(s, i - 1, "stop_consumer", i, "not_running")
               /\ s[i].do = "start_consumer" /\ s[i].mode \in Timed =>
                    \/ SamplingComes(s, i, s[i].mode)
                    \/ Follows(s, i - 1, "sampling_time", i, "start_consumer")
    <3>1. i = 2 \/ i = 3 \/ i = 4 \/ i = 5 \/ i = 6
      BY <1>1
    <3> QED  BY <1>1, <1>2, <3>1 DEF Follows
  <2> QED  BY <1>1, <2>1, <2>2 DEF WellFormed
<1>6. Complete(M, s)
  BY <1>2, <1>4, <1>5 DEF Complete
<1>7. NoStopDaq(s)
  <2>1. ASSUME NEW i \in 1 .. Len(s)
        PROVE  s[i].do \notin Stopping
    <3>1. i = 1 \/ i = 2 \/ i = 3 \/ i = 4 \/ i = 5 \/ i = 6
      BY <1>1
    <3> QED  BY <1>2, <3>1 DEF Stopping
  <2> QED  BY <2>1 DEF NoStopDaq
<1> QED  BY <1>6, <1>7 DEF s

\* Every function that starts a consumer sets what its callback needs.
LEMMA StartComplete ==
  ASSUME NEW M \in SUBSET DaqModes, NEW m \in M
  PROVE  Complete(M, StartSteps(m)) /\ NoStopDaq(StartSteps(m))
<1>1. m \in DaqModes
  OBVIOUS
<1> QED  BY <1>1, StartKinds, UntimedComplete, BurstComplete, ContinuousComplete, ReplacingComplete

\* Every function that stops a consumer has three steps.
LEMMA StopComplete ==
  ASSUME NEW M \in SUBSET DaqModes, NEW m \in M
  PROVE  /\ Complete(M, StopSteps(m))
         /\ NoStopDaq(StopSteps(m))
         /\ Len(StopSteps(m)) = 3
         /\ StopSteps(m)[1].do = "no_external" /\ StopSteps(m)[2].do = "stop_consumer"
         /\ StopSteps(m)[3].do = "not_running"
<1> DEFINE s == <<Do("no_external", m), Do("stop_consumer", m), Do("not_running", m)>>
<1>1. StopSteps(m) = s
  <2>1. StopSteps(m) = stop_consumer(m)
    <3>1. m \in DaqModes
      OBVIOUS
    <3>2. CASE version = "functions"
      BY <3>1, <3>2 DEF DaqModes, StopSteps, stop_functions, stop_raw_data_consumer,
         stop_channel_data_consumer, stop_beam_data_consumer, stop_continuous_channel_data_consumer,
         stop_integrated_beam_data_consumer, stop_integrated_channel_data_consumer,
         stop_station_beam_data_consumer, stop_correlator, stop_antenna_buffer_data_consumer
    <3>3. CASE version # "functions"
      BY <3>1, <3>3 DEF DaqModes, StopSteps, _stop_functions, _stop_raw_data_consumer,
         _stop_channel_data_consumer, _stop_beam_data_consumer, _stop_continuous_channel_data_consumer,
         _stop_integrated_beam_data_consumer, _stop_integrated_channel_data_consumer,
         _stop_station_beam_data_consumer, _stop_correlator, _stop_antenna_buffer_consumer
    <3> QED  BY <3>2, <3>3
  <2> QED  BY <2>1 DEF stop_consumer
<1>2. s \in Seq(StepType) /\ Len(s) = 3
  BY DoType DEF Do, StepType, Doings, OfMode, Quiet
<1>3. /\ s[1].do = "no_external" /\ s[1].mode = m
      /\ s[2].do = "stop_consumer" /\ s[2].mode = m
      /\ s[3].do = "not_running" /\ s[3].mode = m
  BY DEF Do
<1> HIDE DEF s
<1>4. WellFormed(M, s)
  <2>1. ASSUME NEW i \in 1 .. Len(s)
        PROVE  /\ s[i].do \in OfMode => s[i].mode \in M
               /\ s[i].do = "start_consumer" =>
                    /\ i < Len(s) /\ Follows(s, i, "start_consumer", i + 1, "running")
                    /\ ManagerComes(s, i, SlotOf(s[i].mode))
               /\ s[i].do = "stop_consumer" =>
                    i < Len(s) /\ Follows(s, i, "stop_consumer", i + 1, "not_running")
               /\ s[i].do = "no_manager" =>
                    i < Len(s) /\ s[i + 1].do = "manager" /\ s[i + 1].slot = s[i].slot
    <3>1. i = 1 \/ i = 2 \/ i = 3
      BY <1>2
    <3> QED  BY <1>2, <1>3, <3>1 DEF Follows
  <2>2. ASSUME NEW i \in 2 .. Len(s)
        PROVE  /\ s[i].do = "running" => Follows(s, i - 1, "start_consumer", i, "running")
               /\ s[i].do = "not_running" => Follows(s, i - 1, "stop_consumer", i, "not_running")
               /\ s[i].do = "start_consumer" /\ s[i].mode \in Timed =>
                    \/ SamplingComes(s, i, s[i].mode)
                    \/ Follows(s, i - 1, "sampling_time", i, "start_consumer")
    <3>1. i = 2 \/ i = 3
      BY <1>2
    <3> QED  BY <1>2, <1>3, <3>1 DEF Follows
  <2> QED  BY <1>2, <2>1, <2>2 DEF WellFormed
<1>5. Complete(M, s)
  BY <1>3, <1>4 DEF Complete
<1>6. NoStopDaq(s)
  <2>1. ASSUME NEW i \in 1 .. Len(s)
        PROVE  s[i].do \notin Stopping
    <3>1. i = 1 \/ i = 2 \/ i = 3
      BY <1>2
    <3> QED  BY <1>3, <3>1 DEF Stopping
  <2> QED  BY <2>1 DEF NoStopDaq
<1> QED  BY <1>1, <1>2, <1>3, <1>5, <1>6

\* What is made of none of the steps that follow one another
OtherType == [do : Others \cup Stopping, mode : DaqModes \cup {All}, slot : DaqModes \cup {All}]

\* Nothing is asked of steps that are about no mode.
LEMMA OthersComplete ==
  ASSUME NEW M, NEW s \in Seq(OtherType)
  PROVE  Complete(M, s)
<1>1. s \in Seq(StepType)
  <2>1. OtherType \subseteq StepType
    BY DEF OtherType, StepType, Doings
  <2> QED  BY <2>1, SeqMonotonic
<1>2. Len(s) \in Nat
  BY LenProperties
<1>3. \A i \in 1 .. Len(s) : s[i].do \in Others \cup Stopping
  <2>1. \A i \in 1 .. Len(s) : s[i] \in OtherType
    BY ElementOfSeq
  <2> QED  BY <2>1 DEF OtherType
<1>4. \A i \in 1 .. Len(s) : s[i].do \notin OfMode
  BY <1>3 DEF OfMode, Quiet, Others, Stopping
<1>5. WellFormed(M, s)
  <2>1. ASSUME NEW i \in 1 .. Len(s)
        PROVE  s[i].do \notin {"start_consumer", "stop_consumer", "no_manager", "running", "not_running"}
    BY <1>4 DEF OfMode, Quiet
  <2>2. \A i \in 2 .. Len(s) : i \in 1 .. Len(s)
    OBVIOUS
  <2>3. \A i \in 1 .. Len(s) :
           /\ s[i].do # "start_consumer" /\ s[i].do # "stop_consumer" /\ s[i].do # "no_manager"
           /\ s[i].do # "running" /\ s[i].do # "not_running"
    BY <2>1
  <2> QED  BY <1>1, <1>4, <2>2, <2>3 DEF WellFormed
<1>6. s # <<>> => 1 \in 1 .. Len(s)
  BY <1>2, EmptySeq
<1>7. s # <<>> => s[1].do \notin {"running", "not_running", "start_consumer"}
  BY <1>4, <1>6 DEF OfMode, Quiet
<1> QED  BY <1>5, <1>7 DEF Complete

LEMMA OtherPrograms ==
  ASSUME NEW M, NEW s \in Seq([do : Others, mode : DaqModes \cup {All}, slot : DaqModes \cup {All}])
  PROVE  Complete(M, s) /\ NoStopDaq(s)
<1> DEFINE T == [do : Others, mode : DaqModes \cup {All}, slot : DaqModes \cup {All}]
<1>1. s \in Seq(OtherType)
  <2>1. T \subseteq OtherType
    BY DEF OtherType
  <2> QED  BY <2>1, SeqMonotonic
<1>2. \A i \in 1 .. Len(s) : s[i].do \in Others
  <2>1. \A i \in 1 .. Len(s) : s[i] \in T
    BY ElementOfSeq
  <2> QED  BY <2>1
<1>3. NoStopDaq(s)
  BY <1>2 DEF NoStopDaq, Others, Stopping
<1> QED  BY <1>1, <1>3, OthersComplete

LEMMA OtherStep ==
  ASSUME NEW step \in Others, NEW m \in DaqModes \cup {All}
  PROVE  Do(step, m) \in [do : Others, mode : DaqModes \cup {All}, slot : DaqModes \cup {All}]
  BY DEF Do

\* The operations that the main thread may begin.
LEMMA PopulateComplete ==
  ASSUME NEW M
  PROVE  /\ Complete(M, populate_configuration) /\ NoStopDaq(populate_configuration)
         /\ Complete(M, _populate_configuration) /\ NoStopDaq(_populate_configuration)
<1> DEFINE T == [do : Others, mode : DaqModes \cup {All}, slot : DaqModes \cup {All}]
           a == Do("check_directory", All)  b == Do("apply", All)  c == Do("get_ip_address", All)
<1>1. a \in T /\ b \in T /\ c \in T
  BY OtherStep DEF Others
<1>2. /\ populate_configuration = <<a, b>> \o <<c>>
      /\ _populate_configuration = <<b, a>> \o <<c>>
  BY DEF populate_configuration, _populate_configuration, get_ip_address, _get_ip_address
<1> HIDE DEF a, b, c, T
<1>3. <<a, b>> \in Seq(T) /\ <<b, a>> \in Seq(T) /\ <<c>> \in Seq(T)
  BY <1>1
<1>4. populate_configuration \in Seq(T) /\ _populate_configuration \in Seq(T)
  BY <1>2, <1>3, ConcatProperties
<1> QED  BY <1>4, OtherPrograms DEF T

LEMMA StartDaqComplete ==
  ASSUME NEW M, NEW given \in Seq(DaqModes), NEW callbacks_match \in BOOLEAN
  PROVE  /\ _start_daq(given, callbacks_match) \in
              Seq([do : Others, mode : DaqModes \cup {All}, slot : DaqModes \cup {All}])
         /\ Complete(M, _start_daq(given, callbacks_match))
         /\ NoStopDaq(_start_daq(given, callbacks_match))
<1> DEFINE T == [do : Others, mode : DaqModes \cup {All}, slot : DaqModes \cup {All}]
<1>1. DOMAIN given = 1 .. Len(given) /\ Len(given) \in Nat
  BY LenProperties
<1>2. ASSUME NEW i \in 1 .. Len(given)
      PROVE  Do(IF callbacks_match \/ given[i] = "ANTENNA_BUFFER" THEN "start" ELSE "raise", given[i]) \in T
  <2>1. given[i] \in DaqModes \cup {All}
    BY ElementOfSeq
  <2>2. (IF callbacks_match \/ given[i] = "ANTENNA_BUFFER" THEN "start" ELSE "raise") \in Others
    BY DEF Others
  <2> QED  BY <2>1, <2>2, OtherStep
<1>3. _start_daq(given, callbacks_match) \in Seq(T)
  BY <1>1, <1>2, IsASeq DEF _start_daq
<1> QED  BY <1>3, OtherPrograms

LEMMA ScriptComplete ==
  ASSUME NEW M
  PROVE  Complete(M, script) /\ NoStopDaq(script) /\ Complete(M, _script) /\ NoStopDaq(_script)
<1> DEFINE T == [do : Others, mode : DaqModes \cup {All}, slot : DaqModes \cup {All}]
           a == Do("remove_locks", All)  b == Do("load_library", All)
           c == Do("start_receiver", All)  d == Do("add_receiver_ports", All)
<1>1. a \in T /\ b \in T /\ c \in T /\ d \in T
  BY OtherStep DEF Others
<1>2. /\ initialise_daq = <<a>> \o <<b>> \o <<c>> \o <<d>>
      /\ _initialise_daq = <<a>> \o <<b>> \o <<c>> \o <<d>>
  BY DEF initialise_daq, _initialise_daq, initialise_library, call_start_receiver, call_add_receiver_port
<1>3. initialise_daq \in Seq(T) /\ _initialise_daq \in Seq(T)
  <2> HIDE DEF a, b, c, d, T
  <2>1. <<a>> \in Seq(T) /\ <<b>> \in Seq(T) /\ <<c>> \in Seq(T) /\ <<d>> \in Seq(T)
    BY <1>1
  <2>2. <<a>> \o <<b>> \in Seq(T)
    BY <2>1, ConcatProperties
  <2>3. <<a>> \o <<b>> \o <<c>> \in Seq(T)
    BY <2>1, <2>2, ConcatProperties
  <2>4. <<a>> \o <<b>> \o <<c>> \o <<d>> \in Seq(T)
    BY <2>1, <2>3, ConcatProperties
  <2> QED  BY <1>2, <2>4
<1>4. start_order \in Seq(DaqModes) /\ _modes_to_start \in Seq(DaqModes)
  BY DEF start_order, _modes_to_start, DaqModes
<1>5. [i \in DOMAIN start_order |-> Do("start", start_order[i])] \in Seq(T)
  <2>1. DOMAIN start_order = 1 .. Len(start_order) /\ Len(start_order) \in Nat
    BY <1>4, LenProperties
  <2>2. \A i \in 1 .. Len(start_order) : start_order[i] \in DaqModes \cup {All}
    BY <1>4, ElementOfSeq
  <2>3. \A i \in 1 .. Len(start_order) : Do("start", start_order[i]) \in T
    BY <2>2, OtherStep DEF Others
  <2> QED  BY <2>1, <2>3, IsASeq
<1>6. _start_daq(_modes_to_start, TRUE) \in Seq(T)
  BY <1>4, StartDaqComplete
<1>7. script \in Seq(T) /\ _script \in Seq(T)
  BY <1>3, <1>5, <1>6, ConcatProperties DEF script, _script
<1> QED  BY <1>7, OtherPrograms

LEMMA StopDaqComplete ==
  ASSUME NEW M
  PROVE  /\ Complete(M, stop_daq) /\ StopDaqShape("functions", stop_daq)
         /\ stop_daq[1].do = "forget_timestamps"
         /\ Complete(M, _stop_daq) /\ StopDaqShape("class", _stop_daq)
         /\ _stop_daq[1].do = "forget_ignored"
<1> DEFINE a == Do("forget_timestamps", All)  b == Do("stop_running", All)
           c == Do("forget_ignored", All)  d == Do("stop_receiver", All)
           s == <<a, b, c, d>>  t == <<c, a, b, d>>
<1>1. a \in OtherType /\ b \in OtherType /\ c \in OtherType /\ d \in OtherType
  BY DEF Do, OtherType, Stopping
<1>2. /\ a.do = "forget_timestamps" /\ b.do = "stop_running" /\ c.do = "forget_ignored"
      /\ d.do = "stop_receiver"
  BY DEF Do
<1>3. stop_daq = <<a, b, c>> \o <<d>> /\ _stop_daq = <<c, a, b>> \o <<d>>
  BY DEF stop_daq, _stop_daq, call_stop_receiver
<1> HIDE DEF a, b, c, d
<1>4. stop_daq = s /\ _stop_daq = t
  BY <1>1, <1>3, FourSteps
<1>5. s \in Seq(OtherType) /\ t \in Seq(OtherType)
  BY <1>1
<1>6. Len(s) = 4 /\ s[1] = a /\ s[2] = b /\ s[3] = c /\ s[4] = d /\ s # <<>>
  OBVIOUS
<1>7. Len(t) = 4 /\ t[1] = c /\ t[2] = a /\ t[3] = b /\ t[4] = d /\ t # <<>>
  OBVIOUS
<1> HIDE DEF s, t
<1>8. StopDaqShape("functions", s)
  <2>1. ASSUME NEW i \in 1 .. Len(s)
        PROVE  i = 1 \/ i = 2 \/ i = 3 \/ i = 4
    BY <1>6
  <2>2. \A i \in 1 .. Len(s) :
          /\ s[i].do \in Stopping \cup {"no_external", "stop_consumer", "not_running"}
          /\ s[i].do = "stop_receiver" <=> i = Len(s)
    BY <1>2, <1>6, <2>1 DEF Stopping
  <2>3. \A i \in 2 .. Len(s) :
          /\ s[i].do = "stop_receiver" => s[i - 1].do = "forget_ignored"
          /\ s[i].do = "forget_ignored" => s[i - 1].do = "stop_running"
    BY <1>2, <1>6, <2>1
  <2> QED  BY <1>6, <2>2, <2>3 DEF StopDaqShape
<1>9. StopDaqShape("class", t)
  <2>1. ASSUME NEW i \in 1 .. Len(t)
        PROVE  i = 1 \/ i = 2 \/ i = 3 \/ i = 4
    BY <1>7
  <2>2. \A i \in 1 .. Len(t) :
          /\ t[i].do \in Stopping \cup {"no_external", "stop_consumer", "not_running"}
          /\ t[i].do = "stop_receiver" <=> i = Len(t)
    BY <1>2, <1>7, <2>1 DEF Stopping
  <2>3. \A i \in 2 .. Len(t) : t[i].do = "stop_receiver" => t[i - 1].do = "stop_running"
    BY <1>2, <1>7, <2>1
  <2> QED  BY <1>7, <2>2, <2>3 DEF StopDaqShape
<1>10. Complete(M, s) /\ Complete(M, t)
  BY <1>5, OthersComplete
<1> QED  BY <1>2, <1>4, <1>6, <1>7, <1>8, <1>9, <1>10
-----------------------------------------------------------------------------
(* What is left when a step is done, and when steps are put before others   *)

\* What comes in a sequence comes in another that has it, further on or back.
LEMMA ComesShifted ==
  ASSUME NEW s \in Seq(StepType), NEW u \in Seq(StepType), NEW d \in Int, NEW i \in Nat,
         \A k \in i + 1 .. Len(s) : k + d \in 1 .. Len(u) /\ u[k + d] = s[k],
         NEW x
  PROVE  /\ ManagerComes(s, i, x) => ManagerComes(u, i + d, x)
         /\ SamplingComes(s, i, x) => SamplingComes(u, i + d, x)
<1>1. Len(s) \in Nat /\ Len(u) \in Nat
  BY LenProperties
<1>2. ASSUME NEW k \in i + 1 .. Len(s), \A j \in i + 1 .. k - 1 : s[j].do \in Quiet
      PROVE  /\ k + d \in (i + d) + 1 .. Len(u) /\ u[k + d] = s[k]
             /\ \A j \in (i + d) + 1 .. (k + d) - 1 : u[j].do \in Quiet
  <2>1. k + d \in (i + d) + 1 .. Len(u) /\ u[k + d] = s[k]
    BY <1>1
  <2>2. ASSUME NEW j \in (i + d) + 1 .. (k + d) - 1
        PROVE  u[j].do \in Quiet
    <3>1. PICK l \in i + 1 .. k - 1 : j = l + d
      <4>1. j - d \in i + 1 .. k - 1 /\ j = (j - d) + d
        BY <1>1
      <4> QED  BY <4>1
    <3>2. l \in i + 1 .. Len(s)
      BY <1>1
    <3>3. u[j] = s[l]
      BY <3>1, <3>2
    <3> QED  BY <1>2, <3>3
  <2> QED  BY <2>1, <2>2
<1>3. ManagerComes(s, i, x) => ManagerComes(u, i + d, x)
  BY <1>2 DEF ManagerComes
<1>4. SamplingComes(s, i, x) => SamplingComes(u, i + d, x)
  BY <1>2 DEF SamplingComes
<1> QED  BY <1>3, <1>4

\* What comes after the first step comes when it has been done.
LEMMA ComesInTail ==
  ASSUME NEW s \in Seq(StepType), s # <<>>, NEW i \in Nat, NEW x
  PROVE  /\ ManagerComes(s, i + 1, x) => ManagerComes(Tail(s), i, x)
         /\ SamplingComes(s, i + 1, x) => SamplingComes(Tail(s), i, x)
<1>1. /\ Tail(s) \in Seq(StepType) /\ Len(s) \in Nat /\ Len(Tail(s)) = Len(s) - 1
      /\ \A k \in 1 .. Len(s) - 1 : Tail(s)[k] = s[k + 1]
  BY TailFacts
<1>2. \A k \in (i + 1) + 1 .. Len(s) : k + (-1) \in 1 .. Len(Tail(s)) /\ Tail(s)[k + (-1)] = s[k]
  BY <1>1
<1>3. (i + 1) + (-1) = i /\ i + 1 \in Nat /\ -1 \in Int
  OBVIOUS
<1> QED  BY <1>1, <1>2, <1>3, ComesShifted

\* What is left of a well-formed sequence is well-formed, and it is complete unless the step
\* that was done has another that must follow it.
LEMMA TailWellFormed ==
  ASSUME NEW M \in SUBSET DaqModes, NEW s, WellFormed(M, s), s # <<>>
  PROVE  /\ WellFormed(M, Tail(s))
         /\ s[1].do \notin {"start_consumer", "stop_consumer", "sampling_time"} =>
              Complete(M, Tail(s))
<1> DEFINE t == Tail(s)
<1>1. /\ s \in Seq(StepType) /\ t \in Seq(StepType)
      /\ Len(s) \in Nat \ {0} /\ Len(t) = Len(s) - 1
      /\ \A i \in 1 .. Len(s) - 1 : t[i] = s[i + 1]
  BY TailFacts DEF WellFormed
<1>2. \A i \in Nat : \A x : /\ ManagerComes(s, i + 1, x) => ManagerComes(t, i, x)
                            /\ SamplingComes(s, i + 1, x) => SamplingComes(t, i, x)
  BY <1>1, ComesInTail
<1> HIDE DEF t
<1>3. ASSUME NEW i \in 1 .. Len(t)
      PROVE  /\ t[i].do \in OfMode => t[i].mode \in M
             /\ t[i].do = "start_consumer" =>
                  /\ i < Len(t) /\ Follows(t, i, "start_consumer", i + 1, "running")
                  /\ ManagerComes(t, i, SlotOf(t[i].mode))
             /\ t[i].do = "stop_consumer" =>
                  i < Len(t) /\ Follows(t, i, "stop_consumer", i + 1, "not_running")
             /\ t[i].do = "no_manager" =>
                  i < Len(t) /\ t[i + 1].do = "manager" /\ t[i + 1].slot = t[i].slot
  <2>1. i + 1 \in 1 .. Len(s) /\ t[i] = s[i + 1] /\ i \in Nat
    BY <1>1
  <2>2. i + 1 < Len(s) => i < Len(t) /\ t[i + 1] = s[i + 1 + 1]
    BY <1>1
  <2>3. /\ s[i + 1].do \in OfMode => s[i + 1].mode \in M
        /\ s[i + 1].do = "start_consumer" =>
             /\ i + 1 < Len(s) /\ Follows(s, i + 1, "start_consumer", i + 1 + 1, "running")
             /\ ManagerComes(s, i + 1, SlotOf(s[i + 1].mode))
        /\ s[i + 1].do = "stop_consumer" =>
             i + 1 < Len(s) /\ Follows(s, i + 1, "stop_consumer", i + 1 + 1, "not_running")
        /\ s[i + 1].do = "no_manager" =>
             i + 1 < Len(s) /\ s[i + 1 + 1].do = "manager" /\ s[i + 1 + 1].slot = s[i + 1].slot
    BY <2>1 DEF WellFormed
  <2>4. ManagerComes(s, i + 1, SlotOf(t[i].mode)) => ManagerComes(t, i, SlotOf(t[i].mode))
    BY <1>2, <2>1
  <2> QED  BY <2>1, <2>2, <2>3, <2>4 DEF Follows
<1>4. ASSUME NEW i \in 1 .. Len(t)
      PROVE  /\ t[i] = s[i + 1] /\ i \in Nat
             /\ t[i].do = "running" => Follows(s, i, "start_consumer", i + 1, "running")
             /\ t[i].do = "not_running" => Follows(s, i, "stop_consumer", i + 1, "not_running")
             /\ t[i].do = "start_consumer" /\ t[i].mode \in Timed =>
                  \/ SamplingComes(t, i, t[i].mode)
                  \/ Follows(s, i, "sampling_time", i + 1, "start_consumer")
  <2>1. i + 1 \in 2 .. Len(s) /\ (i + 1) - 1 = i /\ t[i] = s[i + 1] /\ i \in Nat
    BY <1>1
  <2>2. \A k \in 2 .. Len(s) :
          /\ s[k].do = "running" => Follows(s, k - 1, "start_consumer", k, "running")
          /\ s[k].do = "not_running" => Follows(s, k - 1, "stop_consumer", k, "not_running")
          /\ s[k].do = "start_consumer" /\ s[k].mode \in Timed =>
               \/ SamplingComes(s, k, s[k].mode)
               \/ Follows(s, k - 1, "sampling_time", k, "start_consumer")
    BY DEF WellFormed
  <2>3. /\ s[i + 1].do = "running" => Follows(s, (i + 1) - 1, "start_consumer", i + 1, "running")
        /\ s[i + 1].do = "not_running" => Follows(s, (i + 1) - 1, "stop_consumer", i + 1, "not_running")
        /\ s[i + 1].do = "start_consumer" /\ s[i + 1].mode \in Timed =>
             \/ SamplingComes(s, i + 1, s[i + 1].mode)
             \/ Follows(s, (i + 1) - 1, "sampling_time", i + 1, "start_consumer")
    BY <2>1, <2>2
  <2>4. SamplingComes(s, i + 1, t[i].mode) => SamplingComes(t, i, t[i].mode)
    BY <1>2, <2>1
  <2> QED  BY <2>1, <2>3, <2>4
<1>5. ASSUME NEW i \in 2 .. Len(t)
      PROVE  /\ t[i].do = "running" => Follows(t, i - 1, "start_consumer", i, "running")
             /\ t[i].do = "not_running" => Follows(t, i - 1, "stop_consumer", i, "not_running")
             /\ t[i].do = "start_consumer" /\ t[i].mode \in Timed =>
                  \/ SamplingComes(t, i, t[i].mode)
                  \/ Follows(t, i - 1, "sampling_time", i, "start_consumer")
  <2>1. i \in 1 .. Len(t) /\ t[i - 1] = s[i] /\ t[i] = s[i + 1]
    BY <1>1
  <2> QED  BY <1>4, <2>1 DEF Follows
<1>6. WellFormed(M, t)
  BY <1>1, <1>3, <1>5 DEF WellFormed
<1>7. s[1].do \notin {"start_consumer", "stop_consumer", "sampling_time"} /\ t # <<>> =>
        /\ t[1].do \notin {"running", "not_running"}
        /\ t[1].do = "start_consumer" /\ t[1].mode \in Timed => SamplingComes(t, 1, t[1].mode)
  <2>1. t # <<>> => 1 \in 1 .. Len(t)
    BY <1>1, EmptySeq
  <2> QED  BY <1>4, <2>1 DEF Follows
<1> QED  BY <1>6, <1>7 DEF Complete, t

\* A complete sequence may be put after any well-formed one.
LEMMA ConcatWellFormed ==
  ASSUME NEW M \in SUBSET DaqModes, NEW s, NEW t, WellFormed(M, s), Complete(M, t)
  PROVE  /\ WellFormed(M, s \o t)
         /\ Complete(M, s) => Complete(M, s \o t)
<1> DEFINE u == s \o t
           n == Len(s)
<1>1. /\ s \in Seq(StepType) /\ t \in Seq(StepType) /\ u \in Seq(StepType)
      /\ n \in Nat /\ Len(t) \in Nat /\ Len(u) = n + Len(t)
      /\ \A i \in 1 .. n : u[i] = s[i]
      /\ \A i \in 1 .. Len(t) : u[n + i] = t[i]
  BY ConcatFacts DEF WellFormed, Complete
<1> HIDE DEF u
<1>2. ASSUME NEW i \in Nat, NEW x
      PROVE  /\ ManagerComes(s, i, x) => ManagerComes(u, i, x)
             /\ SamplingComes(s, i, x) => SamplingComes(u, i, x)
  <2>1. \A k \in i + 1 .. Len(s) : k + 0 \in 1 .. Len(u) /\ u[k + 0] = s[k]
    BY <1>1
  <2>2. i + 0 = i /\ 0 \in Int
    OBVIOUS
  <2> QED  BY <1>1, <2>1, <2>2, ComesShifted
<1>3. ASSUME NEW i \in Nat, NEW x
      PROVE  /\ ManagerComes(t, i, x) => ManagerComes(u, n + i, x)
             /\ SamplingComes(t, i, x) => SamplingComes(u, n + i, x)
  <2>1. \A k \in i + 1 .. Len(t) : k + n \in 1 .. Len(u) /\ u[k + n] = t[k]
    BY <1>1
  <2>2. i + n = n + i /\ n \in Int
    BY <1>1
  <2> QED  BY <1>1, <2>1, <2>2, ComesShifted
<1>4. ASSUME NEW i \in 1 .. Len(u)
      PROVE  i \in 1 .. n \/ \E j \in 1 .. Len(t) : i = n + j
  <2>1. i \in 1 .. n \/ (i - n \in 1 .. Len(t) /\ i = n + (i - n))
    BY <1>1
  <2> QED  BY <2>1
<1>5. WellFormed(M, t)
  BY DEF Complete
<1>6. ASSUME NEW i \in 1 .. Len(u)
      PROVE  /\ u[i].do \in OfMode => u[i].mode \in M
             /\ u[i].do = "start_consumer" =>
                  /\ i < Len(u) /\ Follows(u, i, "start_consumer", i + 1, "running")
                  /\ ManagerComes(u, i, SlotOf(u[i].mode))
             /\ u[i].do = "stop_consumer" =>
                  i < Len(u) /\ Follows(u, i, "stop_consumer", i + 1, "not_running")
             /\ u[i].do = "no_manager" =>
                  i < Len(u) /\ u[i + 1].do = "manager" /\ u[i + 1].slot = u[i].slot
  <2>1. CASE i \in 1 .. n
    <3>1. u[i] = s[i] /\ i \in Nat
      BY <1>1, <2>1
    <3>2. i < n => i < Len(u) /\ u[i + 1] = s[i + 1]
      <4>1. ASSUME i < n
            PROVE  i < Len(u) /\ u[i + 1] = s[i + 1]
        <5>1. i + 1 \in 1 .. n
          BY <1>1, <2>1, <4>1
        <5> QED  BY <1>1, <4>1, <5>1
      <4> QED  BY <4>1
    <3>3. /\ s[i].do \in OfMode => s[i].mode \in M
          /\ s[i].do = "start_consumer" =>
               /\ i < n /\ Follows(s, i, "start_consumer", i + 1, "running")
               /\ ManagerComes(s, i, SlotOf(s[i].mode))
          /\ s[i].do = "stop_consumer" =>
               i < n /\ Follows(s, i, "stop_consumer", i + 1, "not_running")
          /\ s[i].do = "no_manager" =>
               i < n /\ s[i + 1].do = "manager" /\ s[i + 1].slot = s[i].slot
      BY <2>1 DEF WellFormed
    <3> QED  BY <1>2, <3>1, <3>2, <3>3 DEF Follows
  <2>2. ASSUME NEW j \in 1 .. Len(t), i = n + j
        PROVE  /\ u[i].do \in OfMode => u[i].mode \in M
               /\ u[i].do = "start_consumer" =>
                    /\ i < Len(u) /\ Follows(u, i, "start_consumer", i + 1, "running")
                    /\ ManagerComes(u, i, SlotOf(u[i].mode))
               /\ u[i].do = "stop_consumer" =>
                    i < Len(u) /\ Follows(u, i, "stop_consumer", i + 1, "not_running")
               /\ u[i].do = "no_manager" =>
                    i < Len(u) /\ u[i + 1].do = "manager" /\ u[i + 1].slot = u[i].slot
    <3>1. u[i] = t[j] /\ j \in Nat
      BY <1>1, <2>2
    <3>2. j < Len(t) => i < Len(u) /\ u[i + 1] = t[j + 1]
      <4>1. ASSUME j < Len(t)
            PROVE  i < Len(u) /\ u[i + 1] = t[j + 1]
        <5>1. j + 1 \in 1 .. Len(t) /\ i + 1 = n + (j + 1)
          BY <1>1, <2>2, <4>1
        <5> QED  BY <1>1, <2>2, <4>1, <5>1
      <4> QED  BY <4>1
    <3>3. /\ t[j].do \in OfMode => t[j].mode \in M
          /\ t[j].do = "start_consumer" =>
               /\ j < Len(t) /\ Follows(t, j, "start_consumer", j + 1, "running")
               /\ ManagerComes(t, j, SlotOf(t[j].mode))
          /\ t[j].do = "stop_consumer" =>
               j < Len(t) /\ Follows(t, j, "stop_consumer", j + 1, "not_running")
          /\ t[j].do = "no_manager" =>
               j < Len(t) /\ t[j + 1].do = "manager" /\ t[j + 1].slot = t[j].slot
      BY <1>5 DEF WellFormed
    <3>4. ManagerComes(t, j, SlotOf(t[j].mode)) => ManagerComes(u, i, SlotOf(u[i].mode))
      BY <1>3, <2>2, <3>1
    <3> QED  BY <3>1, <3>2, <3>3, <3>4 DEF Follows
  <2> QED  BY <1>4, <2>1, <2>2
<1>7. ASSUME NEW i \in 2 .. Len(u)
      PROVE  /\ u[i].do = "running" => Follows(u, i - 1, "start_consumer", i, "running")
             /\ u[i].do = "not_running" => Follows(u, i - 1, "stop_consumer", i, "not_running")
             /\ u[i].do = "start_consumer" /\ u[i].mode \in Timed =>
                  \/ SamplingComes(u, i, u[i].mode)
                  \/ Follows(u, i - 1, "sampling_time", i, "start_consumer")
  <2>1. CASE i \in 2 .. n
    <3>1. u[i] = s[i] /\ u[i - 1] = s[i - 1] /\ i \in Nat
      BY <1>1, <2>1
    <3>2. /\ s[i].do = "running" => Follows(s, i - 1, "start_consumer", i, "running")
          /\ s[i].do = "not_running" => Follows(s, i - 1, "stop_consumer", i, "not_running")
          /\ s[i].do = "start_consumer" /\ s[i].mode \in Timed =>
               \/ SamplingComes(s, i, s[i].mode)
               \/ Follows(s, i - 1, "sampling_time", i, "start_consumer")
      BY <2>1 DEF WellFormed
    <3> QED  BY <1>2, <3>1, <3>2 DEF Follows
  <2>2. CASE i = n + 1
    <3>1. 1 \in 1 .. Len(t) /\ u[i] = t[1] /\ t # <<>>
      <4>1. 1 \in 1 .. Len(t)
        BY <1>1, <2>2
      <4> QED  BY <1>1, <2>2, <4>1, EmptySeq
    <3>2. /\ t[1].do \notin {"running", "not_running"}
          /\ t[1].do = "start_consumer" /\ t[1].mode \in Timed => SamplingComes(t, 1, t[1].mode)
      BY <3>1 DEF Complete
    <3>3. SamplingComes(t, 1, t[1].mode) => SamplingComes(u, i, u[i].mode)
      BY <1>3, <2>2, <3>1
    <3> QED  BY <3>1, <3>2, <3>3
  <2>3. ASSUME NEW j \in 2 .. Len(t), i = n + j
        PROVE  /\ u[i].do = "running" => Follows(u, i - 1, "start_consumer", i, "running")
               /\ u[i].do = "not_running" => Follows(u, i - 1, "stop_consumer", i, "not_running")
               /\ u[i].do = "start_consumer" /\ u[i].mode \in Timed =>
                    \/ SamplingComes(u, i, u[i].mode)
                    \/ Follows(u, i - 1, "sampling_time", i, "start_consumer")
    <3>1. u[i] = t[j] /\ u[i - 1] = t[j - 1] /\ j \in Nat
      <4>1. j \in Nat /\ j \in 1 .. Len(t) /\ j - 1 \in 1 .. Len(t) /\ i - 1 = n + (j - 1)
        BY <1>1, <2>3
      <4>2. u[n + j] = t[j]
        BY <1>1, <4>1
      <4>3. u[n + (j - 1)] = t[j - 1]
        BY <1>1, <4>1
      <4> QED  BY <2>3, <4>1, <4>2, <4>3
    <3>2. /\ t[j].do = "running" => Follows(t, j - 1, "start_consumer", j, "running")
          /\ t[j].do = "not_running" => Follows(t, j - 1, "stop_consumer", j, "not_running")
          /\ t[j].do = "start_consumer" /\ t[j].mode \in Timed =>
               \/ SamplingComes(t, j, t[j].mode)
               \/ Follows(t, j - 1, "sampling_time", j, "start_consumer")
      BY <1>5 DEF WellFormed
    <3>3. SamplingComes(t, j, t[j].mode) => SamplingComes(u, i, u[i].mode)
      BY <1>3, <2>3, <3>1
    <3> QED  BY <3>1, <3>2, <3>3 DEF Follows
  <2>4. i \in 2 .. n \/ i = n + 1 \/ \E j \in 2 .. Len(t) : i = n + j
    <3>1. i \in 2 .. n \/ i = n + 1 \/ (i - n \in 2 .. Len(t) /\ i = n + (i - n))
      BY <1>1
    <3> QED  BY <3>1
  <2> QED  BY <2>1, <2>2, <2>3, <2>4
<1>8. WellFormed(M, u)
  BY <1>1, <1>6, <1>7 DEF WellFormed
<1>9. ASSUME Complete(M, s), u # <<>>
      PROVE  /\ u[1].do \notin {"running", "not_running"}
             /\ u[1].do = "start_consumer" /\ u[1].mode \in Timed => SamplingComes(u, 1, u[1].mode)
  <2>1. CASE s = <<>>
    <3>1. u = t
      BY <1>1, <2>1, ConcatEmptySeq DEF u
    <3> QED  BY <1>9, <3>1 DEF Complete
  <2>2. CASE s # <<>>
    <3>1. 1 \in 1 .. n /\ u[1] = s[1]
      <4>1. 1 \in 1 .. n
        BY <1>1, <2>2, EmptySeq
      <4> QED  BY <1>1, <4>1
    <3> QED  BY <1>2, <1>9, <2>2, <3>1 DEF Complete
  <2> QED  BY <2>1, <2>2
<1> QED  BY <1>8, <1>9 DEF Complete, u

\* What is left of a stop_daq.
LEMMA StopDaqTail ==
  ASSUME NEW v, NEW s \in Seq(StepType), StopDaqShape(v, s)
  PROVE  /\ s[1].do = "stop_receiver" => Tail(s) = <<>>
         /\ s[1].do # "stop_receiver" =>
              /\ StopDaqShape(v, Tail(s))
              /\ Tail(s)[1].do = "stop_receiver" =>
                   s[1].do = (IF v = "functions" THEN "forget_ignored" ELSE "stop_running")
              /\ v = "functions" /\ Tail(s)[1].do = "forget_ignored" => s[1].do = "stop_running"
<1> DEFINE t == Tail(s)
<1>1. /\ t \in Seq(StepType) /\ Len(s) \in Nat \ {0} /\ Len(t) = Len(s) - 1
      /\ \A i \in 1 .. Len(s) - 1 : t[i] = s[i + 1]
  BY TailFacts DEF StopDaqShape
<1>2. \A i \in 1 .. Len(s) :
        /\ s[i].do \in Stopping \cup {"no_external", "stop_consumer", "not_running"}
        /\ s[i].do = "stop_receiver" <=> i = Len(s)
  BY DEF StopDaqShape
<1>3. \A i \in 2 .. Len(s) :
        /\ s[i].do = "stop_receiver" =>
             s[i - 1].do = (IF v = "functions" THEN "forget_ignored" ELSE "stop_running")
        /\ v = "functions" /\ s[i].do = "forget_ignored" => s[i - 1].do = "stop_running"
  BY DEF StopDaqShape
<1> HIDE DEF t
<1>4. 1 \in 1 .. Len(s)
  BY <1>1
<1>5. CASE s[1].do = "stop_receiver"
  <2>1. Len(t) = 0
    BY <1>1, <1>2, <1>4, <1>5
  <2>2. t = <<>>
    BY <1>1, <2>1, EmptySeq
  <2> QED  BY <1>5, <2>2 DEF t
<1>6. CASE s[1].do # "stop_receiver"
  <2>1. 1 # Len(s)
    BY <1>2, <1>4, <1>6
  <2>2. 2 \in 2 .. Len(s) /\ 1 \in 1 .. Len(t) /\ t[1] = s[2] /\ 2 - 1 = 1
    BY <1>1, <2>1
  <2>3. t # <<>>
    BY <1>1, <2>2, EmptySeq
  <2>4. ASSUME NEW i \in 1 .. Len(t)
        PROVE  /\ t[i].do \in Stopping \cup {"no_external", "stop_consumer", "not_running"}
               /\ t[i].do = "stop_receiver" <=> i = Len(t)
    <3>1. i + 1 \in 1 .. Len(s) /\ t[i] = s[i + 1] /\ (i = Len(t) <=> i + 1 = Len(s))
      BY <1>1
    <3> QED  BY <1>2, <3>1
  <2>5. ASSUME NEW i \in 2 .. Len(t)
        PROVE  /\ t[i].do = "stop_receiver" =>
                    t[i - 1].do = (IF v = "functions" THEN "forget_ignored" ELSE "stop_running")
               /\ v = "functions" /\ t[i].do = "forget_ignored" => t[i - 1].do = "stop_running"
    <3>1. i + 1 \in 2 .. Len(s) /\ t[i] = s[i + 1] /\ t[i - 1] = s[i] /\ (i + 1) - 1 = i
      BY <1>1
    <3> QED  BY <1>3, <3>1
  <2>6. StopDaqShape(v, t)
    BY <2>3, <2>4, <2>5 DEF StopDaqShape
  <2>7. /\ t[1].do = "stop_receiver" =>
             s[1].do = (IF v = "functions" THEN "forget_ignored" ELSE "stop_running")
        /\ v = "functions" /\ t[1].do = "forget_ignored" => s[1].do = "stop_running"
    BY <1>3, <2>2
  <2> QED  BY <1>6, <2>6, <2>7 DEF t
<1> QED  BY <1>5, <1>6

\* stop_running puts the steps that stop a consumer before itself.
LEMMA StopDaqConcat ==
  ASSUME NEW v, NEW M \in SUBSET DaqModes, NEW m \in M,
         NEW s \in Seq(StepType), StopDaqShape(v, s), s[1].do = "stop_running"
  PROVE  StopDaqShape(v, StopSteps(m) \o s) /\ (StopSteps(m) \o s)[1].do = "no_external"
<1> DEFINE p == StopSteps(m)
           u == p \o s
<1>1. /\ p \in Seq(StepType) /\ Len(p) = 3
      /\ p[1].do = "no_external" /\ p[2].do = "stop_consumer" /\ p[3].do = "not_running"
  BY StopComplete DEF Complete, WellFormed
<1> HIDE DEF p
<1>2. /\ u \in Seq(StepType) /\ Len(s) \in Nat /\ Len(u) = 3 + Len(s)
      /\ \A i \in 1 .. 3 : u[i] = p[i]
      /\ \A i \in 1 .. Len(s) : u[3 + i] = s[i]
  <2>0. p \in Seq(StepType)
    BY <1>1
  <2>1. /\ u \in Seq(StepType) /\ Len(s) \in Nat /\ Len(u) = Len(p) + Len(s)
        /\ \A i \in 1 .. Len(p) : u[i] = p[i]
        /\ \A i \in 1 .. Len(s) : u[Len(p) + i] = s[i]
    BY <2>0, ConcatFacts
  <2> HIDE DEF u
  <2> QED  BY <1>1, <2>1
<1> HIDE DEF u
<1>3. Len(s) # 0
  BY EmptySeq DEF StopDaqShape
<1>4. ASSUME NEW i \in 1 .. Len(u)
      PROVE  i = 1 \/ i = 2 \/ i = 3 \/ \E j \in 1 .. Len(s) : i = 3 + j
  <2>1. i = 1 \/ i = 2 \/ i = 3 \/ (i - 3 \in 1 .. Len(s) /\ i = 3 + (i - 3))
    BY <1>2
  <2> QED  BY <2>1
<1>5. u[1] = p[1] /\ u[2] = p[2] /\ u[3] = p[3]
  BY <1>2
<1>6. u # <<>>
  BY <1>2, EmptySeq
<1>7. ASSUME NEW i \in 1 .. Len(u)
      PROVE  /\ u[i].do \in Stopping \cup {"no_external", "stop_consumer", "not_running"}
             /\ u[i].do = "stop_receiver" <=> i = Len(u)
  <2>1. CASE i \in {1, 2, 3}
    BY <1>1, <1>2, <1>3, <1>5, <2>1
  <2>2. ASSUME NEW j \in 1 .. Len(s), i = 3 + j
        PROVE  /\ u[i].do \in Stopping \cup {"no_external", "stop_consumer", "not_running"}
               /\ u[i].do = "stop_receiver" <=> i = Len(u)
    <3>1. u[i] = s[j] /\ (i = Len(u) <=> j = Len(s))
      BY <1>2, <2>2
    <3> QED  BY <3>1 DEF StopDaqShape
  <2> QED  BY <1>4, <2>1, <2>2
<1>8. ASSUME NEW i \in 2 .. Len(u)
      PROVE  /\ u[i].do = "stop_receiver" =>
                  u[i - 1].do = (IF v = "functions" THEN "forget_ignored" ELSE "stop_running")
             /\ v = "functions" /\ u[i].do = "forget_ignored" => u[i - 1].do = "stop_running"
  <2>1. CASE i \in {2, 3}
    BY <1>1, <1>5, <2>1
  <2>2. CASE i = 4
    <3>1. u[i] = s[1]
      <4>1. 1 \in 1 .. Len(s) /\ i = 3 + 1
        BY <1>2, <1>3, <2>2
      <4> QED  BY <1>2, <4>1
    <3> QED  BY <3>1
  <2>3. ASSUME NEW j \in 2 .. Len(s), i = 3 + j
        PROVE  /\ u[i].do = "stop_receiver" =>
                    u[i - 1].do = (IF v = "functions" THEN "forget_ignored" ELSE "stop_running")
               /\ v = "functions" /\ u[i].do = "forget_ignored" => u[i - 1].do = "stop_running"
    <3>1. u[i] = s[j] /\ u[i - 1] = s[j - 1]
      <4>1. j \in 1 .. Len(s) /\ j - 1 \in 1 .. Len(s) /\ i - 1 = 3 + (j - 1)
        BY <1>2, <2>3
      <4> QED  BY <1>2, <2>3, <4>1
    <3> QED  BY <3>1 DEF StopDaqShape
  <2>4. i \in {2, 3} \/ i = 4 \/ \E j \in 2 .. Len(s) : i = 3 + j
    <3>1. i \in {2, 3} \/ i = 4 \/ (i - 3 \in 2 .. Len(s) /\ i = 3 + (i - 3))
      BY <1>2
    <3> QED  BY <3>1
  <2> QED  BY <2>1, <2>2, <2>3, <2>4
<1>9. StopDaqShape(v, u)
  BY <1>6, <1>7, <1>8 DEF StopDaqShape
<1> QED  BY <1>1, <1>5, <1>9 DEF u, p

LEMMA NoStopDaqKept ==
  ASSUME NEW s \in Seq(StepType), NEW t \in Seq(StepType), NoStopDaq(s), NoStopDaq(t)
  PROVE  NoStopDaq(s \o t) /\ (s # <<>> => NoStopDaq(Tail(s)))
<1>1. /\ Len(s) \in Nat /\ Len(t) \in Nat
      /\ Len(s \o t) = Len(s) + Len(t)
      /\ \A i \in 1 .. Len(s) : (s \o t)[i] = s[i]
      /\ \A i \in 1 .. Len(t) : (s \o t)[Len(s) + i] = t[i]
  BY ConcatFacts
<1>2. ASSUME NEW i \in 1 .. Len(s \o t)
      PROVE  (s \o t)[i].do \notin Stopping
  <2>1. i \in 1 .. Len(s) \/ (i - Len(s) \in 1 .. Len(t) /\ i = Len(s) + (i - Len(s)))
    BY <1>1
  <2>2. CASE i \in 1 .. Len(s)
    BY <1>1, <2>2 DEF NoStopDaq
  <2>3. ASSUME NEW j \in 1 .. Len(t), i = Len(s) + j
        PROVE  (s \o t)[i].do \notin Stopping
    BY <1>1, <2>3 DEF NoStopDaq
  <2> QED  BY <2>1, <2>2, <2>3
<1>3. ASSUME s # <<>>, NEW i \in 1 .. Len(Tail(s))
      PROVE  Tail(s)[i].do \notin Stopping
  <2>1. Tail(s)[i] = s[i + 1] /\ i + 1 \in 1 .. Len(s)
    BY <1>1, <1>3, TailFacts
  <2> QED  BY <2>1 DEF NoStopDaq
<1> QED  BY <1>2, <1>3 DEF NoStopDaq
-----------------------------------------------------------------------------
(* The main thread goes on                                                  *)

\* The step that the main thread is at.
LEMMA HeadFacts ==
  ASSUME SessionInv, NEW d, AtStep(d)
  PROVE  /\ main.op # "none" /\ modes \in SUBSET DaqModes
         /\ main.steps \in Seq(StepType) /\ main.steps # <<>>
         /\ 1 \in 1 .. Len(main.steps) /\ main.steps[1] \in StepType
         /\ Step = main.steps[1] /\ main.steps[1].do = d
         /\ d \in OfMode => main.steps[1].mode \in modes
<1>1. /\ main.op # "none" /\ modes \in SUBSET DaqModes
      /\ main.steps \in Seq(StepType) /\ main.steps # <<>>
      /\ WellFormed(modes, main.steps)
  BY DEF SessionInv, Types, Programs, AtStep
<1>2. /\ Len(main.steps) \in Nat \ {0} /\ Head(main.steps) = main.steps[1]
      /\ main.steps[1] \in StepType
  BY <1>1, TailFacts
<1>3. 1 \in 1 .. Len(main.steps) /\ Step = main.steps[1] /\ main.steps[1].do = d
  BY <1>2 DEF AtStep, Step
<1> QED  BY <1>1, <1>2, <1>3 DEF WellFormed

MainType ==
  main \in [op : {"none", "populate", "script", "start", "stop", "stop_daq"}, steps : Seq(StepType)]

LEMMA ContinueFacts ==
  ASSUME SessionInv, main.op # "none", NEW t \in Seq(StepType), Continue(t)
  PROVE  /\ MainType' /\ main'.steps = t
         /\ main'.op = IF t = <<>> THEN "none" ELSE main.op
  BY DEF SessionInv, Types, Continue, MainType

\* The main thread has done a step and goes on.
LEMMA GoOnFacts ==
  ASSUME SessionInv, NEW d, AtStep(d), GoOn, UNCHANGED fixed
  PROVE  /\ MainType' /\ Programs' /\ main'.steps = Tail(main.steps)
         /\ main'.op \in {"none", main.op}
         /\ d \notin {"start_consumer", "stop_consumer", "sampling_time"} =>
              Complete(modes, main'.steps)
         /\ main'.op = "stop_daq" =>
              /\ d # "stop_receiver" /\ d \notin Others
              /\ main'.steps[1].do = "stop_receiver" =>
                   d = (IF version = "functions" THEN "forget_ignored" ELSE "stop_running")
              /\ version = "functions" /\ main'.steps[1].do = "forget_ignored" => d = "stop_running"
<1> DEFINE s == main.steps
           t == Tail(main.steps)
<1>1. /\ main.op # "none" /\ modes \in SUBSET DaqModes /\ s \in Seq(StepType) /\ s # <<>>
      /\ s[1].do = d /\ 1 \in 1 .. Len(s)
  BY HeadFacts
<1>2. t \in Seq(StepType)
  BY <1>1, TailFacts
<1>3. Continue(t)
  BY DEF GoOn
<1>4. MainType' /\ main'.steps = t /\ main'.op = IF t = <<>> THEN "none" ELSE main.op
  BY <1>1, <1>2, <1>3, ContinueFacts
<1>5. WellFormed(modes, s)
  BY DEF SessionInv, Programs
<1>6. /\ WellFormed(modes, t)
      /\ d \notin {"start_consumer", "stop_consumer", "sampling_time"} => Complete(modes, t)
  BY <1>1, <1>5, TailWellFormed
<1>7. version' = version /\ modes' = modes
  BY DEF fixed
<1>8. NoStopDaq(<<>>)
  BY DEF NoStopDaq
<1>9. CASE main.op = "stop_daq"
  <2>1. StopDaqShape(version, s)
    BY <1>9 DEF SessionInv, Programs
  <2>2. /\ d = "stop_receiver" => t = <<>>
        /\ d # "stop_receiver" =>
              /\ StopDaqShape(version, t)
              /\ t[1].do = "stop_receiver" =>
                   d = (IF version = "functions" THEN "forget_ignored" ELSE "stop_running")
              /\ version = "functions" /\ t[1].do = "forget_ignored" => d = "stop_running"
    BY <1>1, <2>1, StopDaqTail
  <2>3. d \notin Others
    BY <1>1, <2>1 DEF StopDaqShape, Stopping, Others
  <2>4. Programs'
    <3>1. CASE t = <<>>
      <4>1. main'.op = "none" /\ main'.steps = <<>> /\ main'.op # "stop_daq"
        BY <1>4, <3>1
      <4>2. WellFormed(modes', main'.steps) /\ NoStopDaq(main'.steps)
        BY <1>4, <1>6, <1>7, <1>8, <3>1
      <4> QED  BY <4>1, <4>2 DEF Programs
    <3>2. CASE t # <<>>
      <4>1. main'.op = "stop_daq" /\ StopDaqShape(version', main'.steps)
        BY <1>4, <1>7, <1>9, <2>2, <3>2
      <4>2. WellFormed(modes', main'.steps)
        BY <1>4, <1>6, <1>7
      <4> QED  BY <4>1, <4>2 DEF Programs
    <3> QED  BY <3>1, <3>2
  <2> QED  BY <1>4, <1>6, <1>9, <2>2, <2>3, <2>4
<1>10. CASE main.op # "stop_daq"
  <2>1. NoStopDaq(s)
    BY <1>10 DEF SessionInv, Programs
  <2>2. NoStopDaq(t)
    BY <1>1, <1>2, <2>1, NoStopDaqKept
  <2>3. Programs'
    <3>1. main'.op # "stop_daq" /\ (main'.op = "none" => main'.steps = <<>>)
      BY <1>1, <1>4, <1>10
    <3>2. WellFormed(modes', main'.steps) /\ NoStopDaq(main'.steps)
      BY <1>4, <1>6, <1>7, <2>2
    <3> QED  BY <3>1, <3>2 DEF Programs
  <2> QED  BY <1>4, <1>6, <1>10, <2>3
<1> QED  BY <1>9, <1>10

\* The main thread raises: nothing is left to do.
LEMMA RaiseFacts ==
  ASSUME SessionInv, main.op # "none", Raise, UNCHANGED fixed
  PROVE  /\ MainType' /\ Programs' /\ StopDaqState'
         /\ main'.steps = <<>> /\ main'.op = "none"
         /\ Complete(modes, main'.steps)
<1>1. <<>> \in Seq(StepType) /\ <<>> \in Seq(OtherType)
  OBVIOUS
<1>2. MainType' /\ main'.steps = <<>> /\ main'.op = "none"
  BY <1>1, ContinueFacts DEF Raise
<1>3. Complete(modes, <<>>)
  BY <1>1, OthersComplete
<1>4. NoStopDaq(<<>>)
  BY DEF NoStopDaq
<1>5. version' = version /\ modes' = modes
  BY DEF fixed
<1>6. Programs'
  BY <1>2, <1>3, <1>4, <1>5 DEF Programs, Complete
<1>7. StopDaqState'
  BY <1>2 DEF StopDaqState
<1> QED  BY <1>2, <1>3, <1>6, <1>7

\* between two functions that start or stop a consumer
Calm(m) == library[m] # "stopping" /\ (running[m] <=> library[m] = "on")
Provided(m) ==
  library[m] # "off" => persisters[SlotOf(m)] # NoMode /\ (m \in Timed => sampling_time[m])

\* Nothing comes after a step that may raise.
LEMMA NothingComes ==
  ASSUME NEW s \in Seq(StepType), s = <<>> \/ s[1].do \notin Quiet, NEW x
  PROVE  ~ManagerComes(s, 0, x) /\ ~SamplingComes(s, 0, x)
<1>1. ASSUME NEW k \in 0 + 1 .. Len(s), s[k].do \in Quiet, \A j \in 0 + 1 .. k - 1 : s[j].do \in Quiet
      PROVE  FALSE
  <2>1. Len(s) \in Nat /\ s # <<>>
    BY LenProperties, EmptySeq
  <2>2. CASE k = 1
    BY <1>1, <2>1, <2>2
  <2>3. CASE k # 1
    <3>1. 1 \in 0 + 1 .. k - 1
      BY <2>1, <2>3
    <3> QED  BY <1>1, <2>1, <3>1
  <2> QED  BY <2>2, <2>3
<1>2. "manager" \in Quiet /\ "sampling_time" \in Quiet
  BY DEF Quiet
<1> QED  BY <1>1, <1>2 DEF ManagerComes, SamplingComes

\* Between two functions the flags are true and consumers that are on have what they need,
LEMMA CalmBetween ==
  ASSUME SessionInv, main.steps = <<>> \/ main.steps[1].do \notin OfMode
  PROVE  \A m \in modes : Calm(m) /\ Provided(m)
<1> TAKE m \in modes
<1>1. Agrees(m) /\ Equipped(m) /\ main.steps \in Seq(StepType) /\ library[m] \in {"off", "on", "stopping"}
  BY DEF SessionInv, Types
<1>2. /\ ~AtStepOf("running", m) /\ ~AtStepOf("not_running", m) /\ ~AtStepOf("stop_consumer", m)
  BY DEF AtStepOf, OfMode, Quiet
<1>3. main.steps = <<>> \/ main.steps[1].do \notin Quiet
  BY DEF OfMode
<1>4. Calm(m)
  BY <1>1, <1>2 DEF Agrees, Calm
<1>5. ~ManagerComes(main.steps, 0, SlotOf(m)) /\ ~SamplingComes(main.steps, 0, m)
  BY <1>1, <1>3, NothingComes
<1> QED  BY <1>1, <1>4, <1>5 DEF Equipped, Provided

\* and that stays so while the consumers are left alone.
LEMMA BetweenFunctions ==
  ASSUME SessionInv, main.steps = <<>> \/ main.steps[1].do \notin OfMode,
         UNCHANGED <<modes, library, running, persisters, sampling_time>>,
         Complete(modes, main'.steps)
  PROVE  ReadyToStart' /\ \A m \in modes' : Agrees(m)' /\ Equipped(m)'
<1>1. ReadyToStart'
  BY DEF Complete, ReadyToStart
<1>2. ASSUME NEW m \in modes
      PROVE  Agrees(m)' /\ Equipped(m)'
  <2>1. Calm(m) /\ Provided(m) /\ library[m] \in {"off", "on", "stopping"}
    BY CalmBetween DEF SessionInv, Types
  <2>2. ~AtStepOf("running", m)' /\ ~AtStepOf("not_running", m)'
    BY DEF AtStepOf, Complete
  <2>3. Agrees(m)'
    BY <2>1, <2>2 DEF Calm, Agrees
  <2>4. Equipped(m)'
    BY <2>1 DEF Provided, Equipped
  <2> QED  BY <2>3, <2>4
<1> QED  BY <1>1, <1>2

\* The main thread does nothing to what came while it rested.
LEMMA MainUndisturbed ==
  ASSUME SessionInv, main.op # "none", UNCHANGED <<fixed, callback, ops>>
  PROVE  \A m \in modes' : Undisturbed(m)'
<1>1. ASSUME NEW m \in modes
      PROVE  Undisturbed(m)'
  <2>1. Undisturbed(m)
    BY DEF SessionInv
  <2> QED  BY <2>1 DEF Undisturbed
<1> QED  BY <1>1 DEF fixed

\* Most steps of a stop_daq say nothing about the consumers.
LEMMA StopDaqGoesOn ==
  ASSUME SessionInv, NEW d, AtStep(d), GoOn, UNCHANGED fixed,
         receiver' = receiver \/ d \in Others, d \notin {"forget_ignored", "stop_running"}
  PROVE  StopDaqState'
<1>1. /\ main'.op \in {"none", main.op}
      /\ main'.op = "stop_daq" =>
           /\ d # "stop_receiver" /\ d \notin Others
           /\ main'.steps[1].do = "stop_receiver" =>
                d = (IF version = "functions" THEN "forget_ignored" ELSE "stop_running")
           /\ version = "functions" /\ main'.steps[1].do = "forget_ignored" => d = "stop_running"
  BY GoOnFacts
<1>2. version' = version
  BY DEF fixed
<1>3. ASSUME main'.op = "stop_daq"
      PROVE  receiver'
  BY <1>1, <1>3 DEF SessionInv, StopDaqState
<1>4. ASSUME main'.op = "stop_daq"
      PROVE  main'.steps[1].do # "stop_receiver"
             /\ ~(version = "functions" /\ main'.steps[1].do = "forget_ignored")
  BY <1>1, <1>4
<1> QED  BY <1>2, <1>3, <1>4 DEF StopDaqState

\* What a step of the main thread has no part in.
LEMMA RestKept ==
  ASSUME SessionInv, UNCHANGED <<fixed, callback, buffers, since, last>>
  PROVE  /\ timestamps' = timestamps => Bounds'
         /\ ignored' = ignored => Ignoring'
         /\ library' = library => \A m \in modes' : NoCallbackWhenOff(m)'
<1>1. version' = version /\ modes' = modes /\ options' = options
  BY DEF fixed
<1>2. timestamps' = timestamps => Bounds'
  BY <1>1 DEF SessionInv, Bounds
<1>3. \A m : Persisting(m)' = Persisting(m)
  BY <1>1 DEF Persisting
<1>4. ignored' = ignored => Ignoring'
  BY <1>1, <1>3 DEF SessionInv, Ignoring
<1>5. library' = library => \A m \in modes' : NoCallbackWhenOff(m)'
  BY <1>1 DEF SessionInv, NoCallbackWhenOff
<1> QED  BY <1>2, <1>4, <1>5

\* Between functions that start or stop a consumer there may be an exception, or the next
\* function may come.
LEMMA OtherSteps ==
  ASSUME SessionInv, NEW d \in Others, AtStep(d),
         UNCHANGED <<fixed, callback, ops>>, UNCHANGED history,
         UNCHANGED <<library, running, persisters, sampling_time, external, timestamps, ignored>>,
         loaded' \in {"no", "half", "all"}, receiver' \in BOOLEAN, directory' \in BOOLEAN,
         \/ GoOn
         \/ Raise
         \/ /\ d = "start" /\ Step.mode \in modes
            /\ Continue(StartSteps(Step.mode) \o Tail(main.steps))
  PROVE  SessionInv'
<1>1. /\ main.op # "none" /\ modes \in SUBSET DaqModes
      /\ main.steps \in Seq(StepType) /\ main.steps # <<>>
      /\ 1 \in 1 .. Len(main.steps) /\ Step = main.steps[1] /\ main.steps[1].do = d
  BY HeadFacts
<1>2. d \notin OfMode /\ d \notin Stopping
  BY DEF Others, OfMode, Quiet, Stopping
<1>3. UNCHANGED fixed /\ modes' = modes /\ version' = version
  BY DEF fixed
<1>4. MainType' /\ Programs' /\ Complete(modes, main'.steps) /\ main'.op # "stop_daq"
  <2>1. CASE GoOn
    BY <1>2, <1>3, <2>1, GoOnFacts DEF OfMode, Quiet
  <2>2. CASE Raise
    BY <1>1, <1>3, <2>2, RaiseFacts
  <2>3. CASE Step.mode \in modes /\ Continue(StartSteps(Step.mode) \o Tail(main.steps))
    <3> DEFINE p == StartSteps(Step.mode)
               t == Tail(main.steps)
               u == p \o t
    <3>1. Complete(modes, p) /\ NoStopDaq(p) /\ p \in Seq(StepType)
      BY <1>1, <2>3, StartComplete DEF Complete, WellFormed
    <3>2. main.op # "stop_daq" /\ NoStopDaq(main.steps)
      <4>1. main.op = "stop_daq" => main.steps[1].do \notin Others
        BY <1>1 DEF SessionInv, Programs, StopDaqShape, Stopping, Others
      <4> QED  BY <1>1, <4>1 DEF SessionInv, Programs
    <3>3. Complete(modes, t) /\ t \in Seq(StepType) /\ NoStopDaq(t)
      <4>1. Complete(modes, t)
        BY <1>1, <1>2, TailWellFormed DEF SessionInv, Programs, OfMode, Quiet
      <4>2. t \in Seq(StepType)
        BY <1>1, TailFacts
      <4> QED  BY <1>1, <3>2, <4>1, <4>2, NoStopDaqKept
    <3>4. u \in Seq(StepType)
      BY <3>1, <3>3, ConcatProperties
    <3>5. Complete(modes, u)
      BY <1>1, <3>1, <3>3, ConcatWellFormed DEF Complete
    <3>6. NoStopDaq(u)
      BY <3>1, <3>3, NoStopDaqKept
    <3> HIDE DEF u
    <3>7. MainType' /\ main'.steps = u /\ main'.op = IF u = <<>> THEN "none" ELSE main.op
      BY <1>1, <2>3, <3>4, ContinueFacts DEF u
    <3>8. main'.op # "stop_daq" /\ (main'.op = "none" => main'.steps = <<>>)
      BY <1>1, <3>2, <3>7
    <3>9. WellFormed(modes', main'.steps) /\ NoStopDaq(main'.steps)
      BY <1>3, <3>5, <3>6, <3>7 DEF Complete
    <3>10. Programs'
      BY <3>8, <3>9 DEF Programs
    <3> QED  BY <3>5, <3>7, <3>8, <3>10
  <2> QED  BY <2>1, <2>2, <2>3
<1>5. ReadyToStart' /\ \A m \in modes' : Agrees(m)' /\ Equipped(m)'
  BY <1>1, <1>2, <1>3, <1>4, BetweenFunctions
<1>6. \A m \in modes' : Undisturbed(m)'
  BY <1>1, MainUndisturbed
<1>7. Bounds' /\ Ignoring' /\ \A m \in modes' : NoCallbackWhenOff(m)'
  BY RestKept DEF history
<1>8. StopDaqState'
  BY <1>4 DEF StopDaqState
<1>9. Types'
  BY <1>4 DEF SessionInv, Types, MainType, fixed, history
<1> QED  BY <1>4, <1>5, <1>6, <1>7, <1>8, <1>9 DEF SessionInv

\* The steps between functions, one by one.
LEMMA StartModeStep ==
  ASSUME SessionInv, StartMode, UNCHANGED <<fixed, callback, ops>>
  PROVE  SessionInv'
<1>1. "start" \in Others /\ AtStep("start")
  BY DEF StartMode, Others
<1>2. loaded \in {"no", "half", "all"} /\ receiver \in BOOLEAN /\ directory \in BOOLEAN
  BY DEF SessionInv, Types
<1> QED  BY <1>1, <1>2, OtherSteps DEF StartMode, state, history

LEMMA RaiseExceptionStep ==
  ASSUME SessionInv, RaiseException, UNCHANGED <<fixed, callback, ops>>
  PROVE  SessionInv'
<1>1. "raise" \in Others /\ AtStep("raise")
  BY DEF RaiseException, Others
<1>2. loaded \in {"no", "half", "all"} /\ receiver \in BOOLEAN /\ directory \in BOOLEAN
  BY DEF SessionInv, Types
<1> QED  BY <1>1, <1>2, OtherSteps DEF RaiseException, state, history

LEMMA CheckDirectoryStep ==
  ASSUME SessionInv, CheckDirectory, UNCHANGED <<fixed, callback, ops>>
  PROVE  SessionInv'
<1>1. "check_directory" \in Others /\ AtStep("check_directory") /\ (GoOn \/ Raise)
  BY DEF CheckDirectory, Others
<1>2. loaded \in {"no", "half", "all"} /\ receiver \in BOOLEAN /\ directory \in BOOLEAN
  BY DEF SessionInv, Types
<1> QED  BY <1>1, <1>2, OtherSteps DEF CheckDirectory, state, history

LEMMA ApplyStep ==
  ASSUME SessionInv, Apply, UNCHANGED <<fixed, callback, ops>>
  PROVE  SessionInv'
<1>1. "apply" \in Others /\ AtStep("apply") /\ GoOn /\ directory' \in BOOLEAN
  BY DEF Apply, Others
<1>2. loaded \in {"no", "half", "all"} /\ receiver \in BOOLEAN
  BY DEF SessionInv, Types
<1> QED  BY <1>1, <1>2, OtherSteps DEF Apply, history

LEMMA RemoveLocksStep ==
  ASSUME SessionInv, RemoveLocks, UNCHANGED <<fixed, callback, ops>>
  PROVE  SessionInv'
<1>1. "remove_locks" \in Others /\ AtStep("remove_locks")
  BY DEF RemoveLocks, Others
<1>2. loaded \in {"no", "half", "all"} /\ receiver \in BOOLEAN /\ directory \in BOOLEAN
  BY DEF SessionInv, Types
<1> QED  BY <1>1, <1>2, OtherSteps DEF RemoveLocks, state, history

LEMMA LoadLibraryStep ==
  ASSUME SessionInv, LoadLibrary, UNCHANGED <<fixed, callback, ops>>
  PROVE  SessionInv'
<1>1. "load_library" \in Others /\ AtStep("load_library") /\ (GoOn \/ Raise)
  BY DEF LoadLibrary, Others
<1>2. loaded \in {"no", "half", "all"} /\ receiver \in BOOLEAN /\ directory \in BOOLEAN
  BY DEF SessionInv, Types
<1>3. loaded' \in {"no", "half", "all"}
  BY <1>2 DEF LoadLibrary
<1> QED  BY <1>1, <1>2, <1>3, OtherSteps DEF LoadLibrary, history

LEMMA GetIpAddressStep ==
  ASSUME SessionInv, GetIpAddress, UNCHANGED <<fixed, callback, ops>>
  PROVE  SessionInv'
<1>1. "get_ip_address" \in Others /\ AtStep("get_ip_address")
  BY DEF GetIpAddress, Others
<1>2. loaded \in {"no", "half", "all"} /\ receiver \in BOOLEAN /\ directory \in BOOLEAN
  BY DEF SessionInv, Types
<1> QED  BY <1>1, <1>2, OtherSteps DEF GetIpAddress, state, history

LEMMA StartReceiverStep ==
  ASSUME SessionInv, StartReceiver, UNCHANGED <<fixed, callback, ops>>
  PROVE  SessionInv'
<1>1. "start_receiver" \in Others /\ AtStep("start_receiver") /\ (GoOn \/ Raise) /\ receiver' \in BOOLEAN
  BY DEF StartReceiver, Others
<1>2. loaded \in {"no", "half", "all"} /\ directory \in BOOLEAN
  BY DEF SessionInv, Types
<1> QED  BY <1>1, <1>2, OtherSteps DEF StartReceiver, history

LEMMA AddReceiverPortsStep ==
  ASSUME SessionInv, AddReceiverPorts, UNCHANGED <<fixed, callback, ops>>
  PROVE  SessionInv'
<1>1. "add_receiver_ports" \in Others /\ AtStep("add_receiver_ports")
  BY DEF AddReceiverPorts, Others
<1>2. loaded \in {"no", "half", "all"} /\ receiver \in BOOLEAN /\ directory \in BOOLEAN
  BY DEF SessionInv, Types
<1> QED  BY <1>1, <1>2, OtherSteps DEF AddReceiverPorts, state, history
-----------------------------------------------------------------------------
(* The steps of a function that starts or stops a consumer                  *)

\* What comes is the first step, or comes after it.
LEMMA HeadComes ==
  ASSUME NEW s \in Seq(StepType), s # <<>>, NEW x
  PROVE  /\ ManagerComes(s, 0, x) =>
              (s[1].do = "manager" /\ s[1].slot = x) \/ ManagerComes(Tail(s), 0, x)
         /\ SamplingComes(s, 0, x) =>
              (s[1].do = "sampling_time" /\ s[1].mode = x) \/ SamplingComes(Tail(s), 0, x)
<1>1. Len(s) \in Nat
  BY LenProperties
<1>2. ASSUME NEW k \in 0 + 1 .. Len(s), \A j \in 0 + 1 .. k - 1 : s[j].do \in Quiet, k # 1
      PROVE  k \in 1 + 1 .. Len(s) /\ \A j \in 1 + 1 .. k - 1 : s[j].do \in Quiet
  <2>1. k \in 1 + 1 .. Len(s)
    BY <1>1, <1>2
  <2>2. \A j \in 1 + 1 .. k - 1 : j \in 0 + 1 .. k - 1
    BY <1>1
  <2> QED  BY <1>2, <2>1, <2>2
<1>3. ManagerComes(s, 0, x) => (s[1].do = "manager" /\ s[1].slot = x) \/ ManagerComes(s, 1, x)
  BY <1>2 DEF ManagerComes
<1>4. SamplingComes(s, 0, x) => (s[1].do = "sampling_time" /\ s[1].mode = x) \/ SamplingComes(s, 1, x)
  BY <1>2 DEF SamplingComes
<1>5. 0 \in Nat /\ 0 + 1 = 1
  OBVIOUS
<1> QED  BY <1>3, <1>4, <1>5, ComesInTail

\* The step after the first.
LEMMA NextStep ==
  ASSUME NEW M \in SUBSET DaqModes, NEW s, WellFormed(M, s), s # <<>>, NEW t, t = Tail(s)
  PROVE  /\ t # <<>> /\ t[1].do = "running" => s[1].do = "start_consumer" /\ t[1].mode = s[1].mode
         /\ t # <<>> /\ t[1].do = "not_running" =>
              s[1].do = "stop_consumer" /\ t[1].mode = s[1].mode
         /\ t # <<>> /\ t[1].do = "start_consumer" /\ t[1].mode \in Timed =>
              SamplingComes(t, 1, t[1].mode) \/ (s[1].do = "sampling_time" /\ t[1].mode = s[1].mode)
         /\ s[1].do = "start_consumer" =>
              /\ t # <<>> /\ t[1].do = "running" /\ t[1].mode = s[1].mode
              /\ ManagerComes(t, 0, SlotOf(s[1].mode))
              /\ SamplingComes(s, 1, s[1].mode) => SamplingComes(t, 0, s[1].mode)
         /\ s[1].do = "stop_consumer" =>
              t # <<>> /\ t[1].do = "not_running" /\ t[1].mode = s[1].mode
         /\ s[1].do = "no_manager" => ManagerComes(t, 0, s[1].slot)
<1>1. /\ s \in Seq(StepType) /\ t \in Seq(StepType)
      /\ Len(s) \in Nat \ {0} /\ Len(t) = Len(s) - 1
      /\ \A i \in 1 .. Len(s) - 1 : t[i] = s[i + 1]
  BY TailFacts DEF WellFormed
<1>2. 1 < Len(s) => t # <<>> /\ t[1] = s[2]
  <2>1. ASSUME 1 < Len(s)
        PROVE  t # <<>> /\ t[1] = s[2]
    <3>1. Len(s) \in Nat /\ Len(t) = Len(s) - 1
      BY <1>1
    <3>2. 1 \in 1 .. Len(s) - 1 /\ Len(t) # 0 /\ 1 + 1 = 2
      BY <2>1, <3>1
    <3>3. t[1] = s[1 + 1]
      BY <1>1, <3>2
    <3>4. t # <<>>
      BY <3>2, EmptySeq
    <3> QED  BY <3>2, <3>3, <3>4
  <2> QED  BY <2>1
<1>3. t # <<>> => 1 < Len(s)
  BY <1>1, EmptySeq
<1>4. 1 \in 1 .. Len(s) /\ 1 \in Nat /\ 1 + 1 = 2 /\ 2 - 1 = 1 /\ 0 \in Nat /\ 0 + 1 = 1
  BY <1>1
<1>5. 1 < Len(s) => 2 \in 2 .. Len(s)
  BY <1>1
<1>6. ASSUME 1 < Len(s)
      PROVE  /\ s[2].do = "running" => Follows(s, 1, "start_consumer", 2, "running")
             /\ s[2].do = "not_running" => Follows(s, 1, "stop_consumer", 2, "not_running")
             /\ s[2].do = "start_consumer" /\ s[2].mode \in Timed =>
                  \/ SamplingComes(s, 2, s[2].mode)
                  \/ Follows(s, 1, "sampling_time", 2, "start_consumer")
  <2>1. \A i \in 2 .. Len(s) :
          /\ s[i].do = "running" => Follows(s, i - 1, "start_consumer", i, "running")
          /\ s[i].do = "not_running" => Follows(s, i - 1, "stop_consumer", i, "not_running")
          /\ s[i].do = "start_consumer" /\ s[i].mode \in Timed =>
               \/ SamplingComes(s, i, s[i].mode)
               \/ Follows(s, i - 1, "sampling_time", i, "start_consumer")
    BY DEF WellFormed
  <2>2. 2 \in 2 .. Len(s)
    BY <1>5, <1>6
  <2>3. /\ s[2].do = "running" => Follows(s, 2 - 1, "start_consumer", 2, "running")
        /\ s[2].do = "not_running" => Follows(s, 2 - 1, "stop_consumer", 2, "not_running")
        /\ s[2].do = "start_consumer" /\ s[2].mode \in Timed =>
             \/ SamplingComes(s, 2, s[2].mode)
             \/ Follows(s, 2 - 1, "sampling_time", 2, "start_consumer")
    BY <2>1, <2>2
  <2> QED  BY <1>4, <2>3
<1>7. /\ s[1].do = "start_consumer" =>
           /\ 1 < Len(s) /\ Follows(s, 1, "start_consumer", 2, "running")
           /\ ManagerComes(s, 1, SlotOf(s[1].mode))
      /\ s[1].do = "stop_consumer" => 1 < Len(s) /\ Follows(s, 1, "stop_consumer", 2, "not_running")
      /\ s[1].do = "no_manager" => 1 < Len(s) /\ s[2].do = "manager" /\ s[2].slot = s[1].slot
  BY <1>4 DEF WellFormed
<1>8. \A x : /\ ManagerComes(s, 1, x) => ManagerComes(t, 0, x)
             /\ SamplingComes(s, 1, x) => SamplingComes(t, 0, x)
             /\ SamplingComes(s, 2, x) => SamplingComes(t, 1, x)
  BY <1>1, <1>4, ComesInTail
<1>9. ASSUME 1 < Len(s), s[2].do = "manager"
      PROVE  ManagerComes(t, 0, s[2].slot)
  <2>1. 1 \in 0 + 1 .. Len(t)
    BY <1>1, <1>9
  <2>2. ASSUME NEW j \in 0 + 1 .. 1 - 1
        PROVE  FALSE
    OBVIOUS
  <2> QED  BY <1>2, <1>9, <2>1, <2>2 DEF ManagerComes
<1> QED  BY <1>2, <1>3, <1>6, <1>7, <1>8, <1>9 DEF Follows

\* What such a step leaves alone.
LEMMA ModeSteps ==
  ASSUME SessionInv, NEW d \in OfMode, AtStep(d), GoOn,
         UNCHANGED <<fixed, callback, ops>>, UNCHANGED history,
         UNCHANGED <<loaded, receiver, directory, timestamps, ignored>>
  PROVE  /\ MainType' /\ Programs' /\ Bounds' /\ StopDaqState' /\ Ignoring'
         /\ \A m \in modes' : Undisturbed(m)'
         /\ library' = library => \A m \in modes' : NoCallbackWhenOff(m)'
         /\ main'.steps = Tail(main.steps)
         /\ main.steps[1].mode \in modes /\ Step = main.steps[1] /\ main.steps[1].do = d
<1>1. /\ main.op # "none" /\ main.steps[1].mode \in modes
      /\ Step = main.steps[1] /\ main.steps[1].do = d
  BY HeadFacts
<1>2. UNCHANGED fixed
  OBVIOUS
<1>3. d \notin {"forget_ignored", "stop_running"}
  BY DEF OfMode, Quiet
<1>4. MainType' /\ Programs' /\ main'.steps = Tail(main.steps)
  BY <1>2, GoOnFacts
<1>5. StopDaqState'
  BY <1>2, <1>3, StopDaqGoesOn
<1>6. \A m \in modes' : Undisturbed(m)'
  BY <1>1, MainUndisturbed
<1>7. Bounds' /\ Ignoring' /\ (library' = library => \A m \in modes' : NoCallbackWhenOff(m)')
  BY RestKept DEF history
<1> QED  BY <1>1, <1>4, <1>5, <1>6, <1>7

\* A step that sets the flag, the file manager, the sampling time or the callback.
LEMMA QuietSteps ==
  ASSUME SessionInv, NEW d \in Quiet \cup {"not_running"}, AtStep(d), GoOn,
         UNCHANGED <<fixed, callback, ops>>, UNCHANGED history,
         UNCHANGED <<loaded, library, receiver, directory, timestamps, ignored>>,
         running' \in [modes -> BOOLEAN], sampling_time' \in [modes -> BOOLEAN],
         external' \in [modes -> BOOLEAN],
         persisters' \in [modes \cup {"CHANNEL_DATA"} -> modes \cup {NoMode}],
         \A m \in modes : IF d = "running" /\ Step.mode = m THEN running'[m]
                          ELSE IF d = "not_running" /\ Step.mode = m THEN ~running'[m]
                          ELSE running'[m] = running[m],
         \A m \in modes : sampling_time[m] \/ (d = "sampling_time" /\ Step.mode = m) => sampling_time'[m],
         \A x \in modes \cup {"CHANNEL_DATA"} :
           IF d = "manager" /\ Step.slot = x THEN persisters'[x] # NoMode
           ELSE ~(d = "no_manager" /\ Step.slot = x) => persisters'[x] = persisters[x]
  PROVE  SessionInv'
<1> DEFINE s == main.steps
           t == Tail(main.steps)
<1>1. d \in OfMode
  BY DEF OfMode
<1>2. /\ MainType' /\ Programs' /\ Bounds' /\ StopDaqState' /\ Ignoring'
      /\ \A m \in modes' : Undisturbed(m)' /\ NoCallbackWhenOff(m)'
      /\ main'.steps = t /\ s[1].mode \in modes /\ Step = s[1] /\ s[1].do = d
  BY <1>1, ModeSteps
<1>3. modes' = modes /\ version' = version /\ options' = options
  BY DEF fixed
<1>4. /\ s \in Seq(StepType) /\ s # <<>> /\ WellFormed(modes, s) /\ modes \in SUBSET DaqModes
  BY HeadFacts DEF SessionInv, Programs
<1>5. d \notin {"start_consumer", "stop_consumer"}
  BY DEF Quiet
<1>6. /\ t = <<>> \/ t[1].do \notin {"running", "not_running"}
      /\ t # <<>> /\ t[1].do = "start_consumer" /\ t[1].mode \in Timed =>
           SamplingComes(t, 1, t[1].mode) \/ (d = "sampling_time" /\ t[1].mode = s[1].mode)
      /\ d = "no_manager" => ManagerComes(t, 0, s[1].slot)
  <2>1. t = Tail(s)
    OBVIOUS
  <2> HIDE DEF s, t
  <2>2. /\ t # <<>> /\ t[1].do = "running" => s[1].do = "start_consumer" /\ t[1].mode = s[1].mode
        /\ t # <<>> /\ t[1].do = "not_running" =>
             s[1].do = "stop_consumer" /\ t[1].mode = s[1].mode
        /\ t # <<>> /\ t[1].do = "start_consumer" /\ t[1].mode \in Timed =>
             SamplingComes(t, 1, t[1].mode) \/ (s[1].do = "sampling_time" /\ t[1].mode = s[1].mode)
        /\ s[1].do = "no_manager" => ManagerComes(t, 0, s[1].slot)
    BY <1>4, <2>1, NextStep
  <2> QED  BY <1>2, <1>5, <2>2
<1>7. \A x : /\ ManagerComes(s, 0, x) => (d = "manager" /\ s[1].slot = x) \/ ManagerComes(t, 0, x)
             /\ SamplingComes(s, 0, x) => (d = "sampling_time" /\ s[1].mode = x) \/ SamplingComes(t, 0, x)
  BY <1>2, <1>4, HeadComes
<1> HIDE DEF s, t
<1>8. ReadyToStart'
  BY <1>2, <1>6 DEF ReadyToStart
<1>9. ASSUME NEW m \in modes
      PROVE  Agrees(m)' /\ Equipped(m)'
  <2>1. Agrees(m) /\ Equipped(m) /\ library[m] \in {"off", "on", "stopping"} /\ running[m] \in BOOLEAN
    BY DEF SessionInv, Types
  <2>2. ~AtStepOf("running", m)' /\ ~AtStepOf("not_running", m)'
    BY <1>2, <1>6 DEF AtStepOf
  <2>3. ~AtStepOf("stop_consumer", m)
    BY <1>2, <1>5 DEF AtStepOf, s
  <2>4. /\ AtStepOf("running", m) <=> d = "running" /\ Step.mode = m
        /\ AtStepOf("not_running", m) <=> d = "not_running" /\ Step.mode = m
    BY <1>2, <1>4 DEF AtStepOf, s
  <2>5. library[m] # "stopping" /\ (running'[m] <=> library[m] # "off")
    BY <2>1, <2>3, <2>4 DEF Agrees
  <2>6. Agrees(m)'
    BY <2>2, <2>5 DEF Agrees
  <2>7. SlotOf(m) \in modes \cup {"CHANNEL_DATA"}
    BY DEF SlotOf
  <2>8. persisters[SlotOf(m)] # NoMode \/ ManagerComes(s, 0, SlotOf(m))
          => persisters'[SlotOf(m)] # NoMode \/ ManagerComes(t, 0, SlotOf(m))
    BY <1>2, <1>6, <1>7, <2>7
  <2>9. sampling_time[m] \/ SamplingComes(s, 0, m) => sampling_time'[m] \/ SamplingComes(t, 0, m)
    BY <1>2, <1>7
  <2>10. Equipped(m)'
    BY <1>2, <2>1, <2>8, <2>9 DEF Equipped, s
  <2> QED  BY <2>6, <2>10
<1>10. Types'
  BY <1>2 DEF SessionInv, Types, MainType, fixed, history
<1> QED  BY <1>2, <1>3, <1>8, <1>9, <1>10 DEF SessionInv

\* The steps of the functions that start or stop a consumer, one by one.
LEMMA SetRunningStep ==
  ASSUME SessionInv, SetRunning, UNCHANGED <<fixed, callback, ops>>
  PROVE  SessionInv'
<1> DEFINE d == Step.do
<1>1. d \in Quiet \cup {"not_running"} /\ d \in {"running", "not_running"} /\ AtStep(d)
  BY DEF SetRunning, AtStep, Quiet
<1>2. Step.mode \in modes /\ running \in [modes -> BOOLEAN]
  <2>1. d \in OfMode
    BY <1>1 DEF OfMode
  <2> QED  BY <1>1, <2>1, HeadFacts DEF SessionInv, Types
<1>3. running' = [running EXCEPT ![Step.mode] = d = "running"]
  BY DEF SetRunning
<1> HIDE DEF d
<1>4. running' \in [modes -> BOOLEAN]
  BY <1>2, <1>3
<1>5. \A m \in modes : IF d = "running" /\ Step.mode = m THEN running'[m]
                       ELSE IF d = "not_running" /\ Step.mode = m THEN ~running'[m]
                       ELSE running'[m] = running[m]
  BY <1>1, <1>2, <1>3
<1>6. GoOn /\ UNCHANGED history
      /\ UNCHANGED <<loaded, library, receiver, directory, persisters, sampling_time, external, timestamps, ignored>>
  BY DEF SetRunning, history
<1>7. sampling_time \in [modes -> BOOLEAN] /\ external \in [modes -> BOOLEAN]
      /\ persisters \in [modes \cup {"CHANNEL_DATA"} -> modes \cup {NoMode}]
  BY DEF SessionInv, Types
<1>8. d \notin {"manager", "no_manager", "sampling_time"}
  BY <1>1
<1> QED  BY <1>1, <1>4, <1>5, <1>6, <1>7, <1>8, QuietSteps

LEMMA SetPersisterStep ==
  ASSUME SessionInv, SetPersister, UNCHANGED <<fixed, callback, ops>>
  PROVE  SessionInv'
<1> DEFINE d == Step.do
<1>1. d \in Quiet \cup {"not_running"} /\ d \in {"manager", "no_manager"} /\ AtStep(d)
  BY DEF SetPersister, AtStep, Quiet
<1>2. /\ Step.mode \in modes /\ modes \in SUBSET DaqModes
      /\ persisters \in [modes \cup {"CHANNEL_DATA"} -> modes \cup {NoMode}]
  <2>1. d \in OfMode
    BY <1>1 DEF OfMode
  <2> QED  BY <1>1, <2>1, HeadFacts DEF SessionInv, Types
<1>3. persisters' = [persisters EXCEPT ![Step.slot] = IF d = "manager" THEN Step.mode ELSE NoMode]
  BY DEF SetPersister
<1>4. Step.mode # NoMode
  BY <1>2 DEF DaqModes, NoMode
<1> HIDE DEF d
<1>5. persisters' \in [modes \cup {"CHANNEL_DATA"} -> modes \cup {NoMode}]
  BY <1>2, <1>3
<1>6. \A x \in modes \cup {"CHANNEL_DATA"} :
        IF d = "manager" /\ Step.slot = x THEN persisters'[x] # NoMode
        ELSE ~(d = "no_manager" /\ Step.slot = x) => persisters'[x] = persisters[x]
  BY <1>1, <1>2, <1>3, <1>4
<1>7. GoOn /\ UNCHANGED history
      /\ UNCHANGED <<loaded, library, receiver, directory, running, sampling_time, external, timestamps, ignored>>
  BY DEF SetPersister, history
<1>8. sampling_time \in [modes -> BOOLEAN] /\ external \in [modes -> BOOLEAN]
      /\ running \in [modes -> BOOLEAN]
  BY DEF SessionInv, Types
<1>9. d \notin {"running", "not_running", "sampling_time"}
  BY <1>1
<1> QED  BY <1>1, <1>5, <1>6, <1>7, <1>8, <1>9, QuietSteps

LEMMA SetSamplingStep ==
  ASSUME SessionInv, SetSampling, UNCHANGED <<fixed, callback, ops>>
  PROVE  SessionInv'
<1> DEFINE d == "sampling_time"
<1>1. d \in Quiet \cup {"not_running"} /\ AtStep(d)
  BY DEF SetSampling, Quiet
<1>2. sampling_time' = [sampling_time EXCEPT ![Step.mode] = TRUE]
  BY DEF SetSampling
<1>3. sampling_time \in [modes -> BOOLEAN] /\ external \in [modes -> BOOLEAN]
      /\ running \in [modes -> BOOLEAN]
      /\ persisters \in [modes \cup {"CHANNEL_DATA"} -> modes \cup {NoMode}]
  BY DEF SessionInv, Types
<1>4. /\ sampling_time' \in [modes -> BOOLEAN]
      /\ \A m \in modes : sampling_time[m] \/ (d = "sampling_time" /\ Step.mode = m) => sampling_time'[m]
  BY <1>2, <1>3
<1>5. GoOn /\ UNCHANGED history
      /\ UNCHANGED <<loaded, library, receiver, directory, running, persisters, external, timestamps, ignored>>
  BY DEF SetSampling, history
<1>6. d \notin {"running", "not_running", "manager", "no_manager"}
  OBVIOUS
<1> HIDE DEF d
<1> QED  BY <1>1, <1>3, <1>4, <1>5, <1>6, QuietSteps

LEMMA SetExternalCallbackStep ==
  ASSUME SessionInv, SetExternalCallback, UNCHANGED <<fixed, callback, ops>>
  PROVE  SessionInv'
<1> DEFINE d == Step.do
<1>1. d \in Quiet \cup {"not_running"} /\ d \in {"external", "no_external"} /\ AtStep(d)
  BY DEF SetExternalCallback, AtStep, Quiet
<1>2. external' = [external EXCEPT ![Step.mode] = d = "external"]
  BY DEF SetExternalCallback
<1> HIDE DEF d
<1>3. sampling_time \in [modes -> BOOLEAN] /\ external \in [modes -> BOOLEAN]
      /\ running \in [modes -> BOOLEAN]
      /\ persisters \in [modes \cup {"CHANNEL_DATA"} -> modes \cup {NoMode}]
  BY DEF SessionInv, Types
<1>4. external' \in [modes -> BOOLEAN]
  BY <1>2, <1>3
<1>5. GoOn /\ UNCHANGED history
      /\ UNCHANGED <<loaded, library, receiver, directory, running, persisters, sampling_time, timestamps, ignored>>
  BY DEF SetExternalCallback, history
<1>6. d \notin {"running", "not_running", "manager", "no_manager", "sampling_time"}
  BY <1>1
<1> QED  BY <1>1, <1>3, <1>4, <1>5, <1>6, QuietSteps

\* An exception of the library: nothing is on its way to be done.
LEMMA LibraryRaises ==
  ASSUME SessionInv, NEW d \in {"start_consumer", "stop_consumer"}, AtStep(d), Raise,
         d = "stop_consumer" => library[Step.mode] # "stopping",
         UNCHANGED <<fixed, callback, ops>>, UNCHANGED history, UNCHANGED state
  PROVE  SessionInv'
<1>1. /\ main.op # "none" /\ Step = main.steps[1] /\ main.steps[1].do = d
      /\ main.steps \in Seq(StepType)
  BY HeadFacts
<1>2. UNCHANGED fixed /\ modes' = modes
  BY DEF fixed
<1>3. MainType' /\ Programs' /\ StopDaqState' /\ main'.steps = <<>>
  BY <1>1, <1>2, RaiseFacts
<1>4. \A m \in modes' : Undisturbed(m)'
  BY <1>1, MainUndisturbed
<1>5. Bounds' /\ Ignoring' /\ \A m \in modes' : NoCallbackWhenOff(m)'
  BY RestKept DEF history, state
<1>6. ASSUME NEW m \in modes
      PROVE  Agrees(m)' /\ Equipped(m)'
  <2>1. Agrees(m) /\ Equipped(m)
    BY DEF SessionInv
  <2>2. ~ManagerComes(main.steps, 0, SlotOf(m)) /\ ~SamplingComes(main.steps, 0, m)
    BY <1>1, NothingComes DEF Quiet
  <2>3. AtStepOf("stop_consumer", m) => library[m] # "stopping"
    BY <1>1 DEF AtStepOf
  <2>4. /\ ~AtStepOf("running", m) /\ ~AtStepOf("not_running", m)
    BY <1>1 DEF AtStepOf
  <2>5. (running[m] <=> library[m] # "off") /\ library[m] # "stopping"
    BY <2>1, <2>3, <2>4 DEF Agrees
  <2>6. /\ ~AtStepOf("running", m)' /\ ~AtStepOf("not_running", m)'
    BY <1>3 DEF AtStepOf
  <2>7. Agrees(m)'
    BY <2>5, <2>6 DEF Agrees, state
  <2>8. Equipped(m)'
    BY <2>1, <2>2 DEF Equipped, state
  <2> QED  BY <2>7, <2>8
<1>7. ReadyToStart'
  BY <1>3 DEF ReadyToStart
<1>8. Types'
  BY <1>3 DEF SessionInv, Types, MainType, fixed, history, state
<1> QED  BY <1>2, <1>3, <1>4, <1>5, <1>6, <1>7, <1>8 DEF SessionInv

\* The library starts a consumer, or raises.
LEMMA StartConsumerStep ==
  ASSUME SessionInv, StartConsumer, UNCHANGED <<fixed, callback, ops>>
  PROVE  SessionInv'
<1> DEFINE d == "start_consumer"
           s == main.steps
           t == Tail(main.steps)
           n == main.steps[1].mode
<1>1. AtStep(d) /\ d \in OfMode
  BY DEF StartConsumer, OfMode
<1>2. UNCHANGED history
      /\ UNCHANGED <<loaded, receiver, directory, running, persisters, sampling_time, external, timestamps, ignored>>
  BY DEF StartConsumer, history
<1>3. CASE library' = library /\ Raise
  <2>1. UNCHANGED state
    BY <1>2, <1>3 DEF state
  <2> QED  BY <1>1, <1>2, <1>3, <2>1, LibraryRaises
<1>4. CASE library[Step.mode] = "off" /\ library' = [library EXCEPT ![Step.mode] = "on"] /\ GoOn
  <2>1. /\ MainType' /\ Programs' /\ Bounds' /\ StopDaqState' /\ Ignoring'
        /\ \A m \in modes' : Undisturbed(m)'
        /\ main'.steps = t /\ n \in modes /\ Step = s[1] /\ s[1].do = d
    BY <1>1, <1>2, <1>4, ModeSteps
  <2>2. modes' = modes
    BY DEF fixed
  <2>3. /\ s \in Seq(StepType) /\ s # <<>> /\ WellFormed(modes, s) /\ modes \in SUBSET DaqModes
    BY <1>1, HeadFacts DEF SessionInv, Programs
  <2>4. /\ t # <<>> /\ t[1].do = "running" /\ t[1].mode = n
        /\ ManagerComes(t, 0, SlotOf(n))
        /\ SamplingComes(s, 1, n) => SamplingComes(t, 0, n)
    <3>1. t = Tail(s)
      OBVIOUS
    <3> QED  BY <2>1, <2>3, <3>1, NextStep
  <2>5. \A x : /\ ManagerComes(s, 0, x) => ManagerComes(t, 0, x)
               /\ SamplingComes(s, 0, x) => SamplingComes(t, 0, x)
    BY <2>1, <2>3, HeadComes
  <2>6. n \in Timed => sampling_time[n] \/ SamplingComes(s, 1, n)
    BY <2>1, <2>3 DEF SessionInv, ReadyToStart
  <2>7. library \in [modes -> {"off", "on", "stopping"}] /\ running \in [modes -> BOOLEAN]
    BY DEF SessionInv, Types
  <2>8. /\ library' \in [modes -> {"off", "on", "stopping"}]
        /\ \A m \in modes : library'[m] = IF m = n THEN "on" ELSE library[m]
    BY <1>4, <2>1, <2>7
  <2>9. library[n] = "off"
    BY <1>4, <2>1
  <2> HIDE DEF s, t, n
  <2>10. ReadyToStart'
    BY <2>1, <2>4 DEF ReadyToStart
  <2>11. ASSUME NEW m \in modes
         PROVE  Agrees(m)' /\ Equipped(m)' /\ NoCallbackWhenOff(m)'
    <3>1. Agrees(m) /\ Equipped(m) /\ NoCallbackWhenOff(m) /\ running'[m] = running[m]
      BY <1>2 DEF SessionInv
    <3>2. ~AtStepOf("running", m) /\ ~AtStepOf("not_running", m) /\ ~AtStepOf("stop_consumer", m)
      BY <2>1 DEF AtStepOf, s
    <3>3. /\ AtStepOf("running", m)' <=> m = n
          /\ ~AtStepOf("not_running", m)'
      BY <2>1, <2>4 DEF AtStepOf
    <3>4. (running[m] <=> library[m] # "off") /\ library[m] # "stopping"
      BY <3>1, <3>2 DEF Agrees
    <3>5. Agrees(m)'
      <4>1. CASE m = n
        BY <2>8, <2>9, <3>1, <3>3, <3>4, <4>1 DEF Agrees
      <4>2. CASE m # n
        BY <2>8, <3>1, <3>3, <3>4, <4>2 DEF Agrees
      <4> QED  BY <4>1, <4>2
    <3>6. Equipped(m)'
      <4>1. CASE m = n
        BY <1>2, <2>1, <2>4, <2>6, <4>1 DEF Equipped
      <4>2. CASE m # n
        BY <1>2, <2>1, <2>5, <2>8, <3>1, <4>2 DEF Equipped, s
      <4> QED  BY <4>1, <4>2
    <3>7. NoCallbackWhenOff(m)'
      BY <2>8, <3>1 DEF NoCallbackWhenOff
    <3> QED  BY <3>5, <3>6, <3>7
  <2>12. Types'
    BY <1>2, <2>1, <2>8 DEF SessionInv, Types, MainType, fixed, history
  <2> QED  BY <2>1, <2>2, <2>10, <2>11, <2>12 DEF SessionInv
<1> QED  BY <1>3, <1>4 DEF StartConsumer

\* The library is asked to stop a consumer, stops it, or raises.
LEMMA StopConsumerStep ==
  ASSUME SessionInv, StopConsumer, UNCHANGED <<fixed, callback, ops>>
  PROVE  SessionInv'
<1> DEFINE d == "stop_consumer"
           s == main.steps
           t == Tail(main.steps)
           n == main.steps[1].mode
<1>1. AtStep(d) /\ d \in OfMode
  BY DEF StopConsumer, OfMode
<1>2. UNCHANGED history
      /\ UNCHANGED <<loaded, receiver, directory, running, persisters, sampling_time, external, timestamps, ignored>>
  BY DEF StopConsumer, history
<1>3. /\ s \in Seq(StepType) /\ s # <<>> /\ WellFormed(modes, s) /\ modes \in SUBSET DaqModes
      /\ n \in modes /\ Step = s[1] /\ s[1].do = d /\ main.op # "none"
  BY <1>1, HeadFacts DEF SessionInv, Programs
<1>4. library \in [modes -> {"off", "on", "stopping"}] /\ running \in [modes -> BOOLEAN]
  BY DEF SessionInv, Types
<1>5. modes' = modes /\ version' = version
  BY DEF fixed
<1>6. CASE library[Step.mode] # "stopping" /\ library' = library /\ Raise
  <2>1. UNCHANGED state
    BY <1>2, <1>6 DEF state
  <2> QED  BY <1>1, <1>2, <1>6, <2>1, LibraryRaises
<1>7. CASE library[Step.mode] = "on" /\ library' = [library EXCEPT ![Step.mode] = "stopping"]
           /\ UNCHANGED main
  <2>1. /\ library' \in [modes -> {"off", "on", "stopping"}] /\ library[n] = "on"
        /\ \A m \in modes : library'[m] = IF m = n THEN "stopping" ELSE library[m]
    BY <1>3, <1>4, <1>7
  <2>2. Bounds' /\ Ignoring'
    BY <1>2, RestKept DEF history
  <2>3. \A m \in modes' : Undisturbed(m)'
    BY <1>3, MainUndisturbed
  <2>4. Programs' /\ ReadyToStart'
    BY <1>2, <1>5, <1>7 DEF SessionInv, Programs, ReadyToStart
  <2>5. StopDaqState'
    BY <1>2, <1>3, <1>5, <1>7 DEF SessionInv, StopDaqState
  <2>6. ASSUME NEW m \in modes
        PROVE  Agrees(m)' /\ Equipped(m)' /\ NoCallbackWhenOff(m)'
    <3>1. Agrees(m) /\ Equipped(m) /\ NoCallbackWhenOff(m) /\ running'[m] = running[m]
      BY <1>2 DEF SessionInv
    <3>2. /\ ~AtStepOf("running", m) /\ ~AtStepOf("not_running", m)
          /\ AtStepOf("stop_consumer", m) <=> m = n
      BY <1>3 DEF AtStepOf
    <3>3. /\ AtStepOf("running", m)' <=> AtStepOf("running", m)
          /\ AtStepOf("not_running", m)' <=> AtStepOf("not_running", m)
          /\ AtStepOf("stop_consumer", m)' <=> AtStepOf("stop_consumer", m)
      BY <1>7 DEF AtStepOf
    <3> HIDE DEF n
    <3>4. Agrees(m)'
      BY <2>1, <3>1, <3>2, <3>3 DEF Agrees
    <3>5. Equipped(m)'
      BY <1>2, <1>7, <2>1, <3>1 DEF Equipped
    <3>6. NoCallbackWhenOff(m)'
      BY <2>1, <3>1 DEF NoCallbackWhenOff
    <3> QED  BY <3>4, <3>5, <3>6
  <2>7. Types'
    BY <1>2, <1>7, <2>1 DEF SessionInv, Types, fixed, history
  <2> QED  BY <1>5, <2>2, <2>3, <2>4, <2>5, <2>6, <2>7 DEF SessionInv
<1>8. CASE /\ library[Step.mode] = "stopping" /\ callback[Step.mode].at = "idle"
           /\ library' = [library EXCEPT ![Step.mode] = "off"]
           /\ GoOn
  <2>1. /\ MainType' /\ Programs' /\ Bounds' /\ StopDaqState' /\ Ignoring'
        /\ \A m \in modes' : Undisturbed(m)'
        /\ main'.steps = t
    BY <1>1, <1>2, <1>8, ModeSteps
  <2>2. /\ library' \in [modes -> {"off", "on", "stopping"}] /\ library[n] = "stopping"
        /\ \A m \in modes : library'[m] = IF m = n THEN "off" ELSE library[m]
        /\ callback[n].at = "idle"
    BY <1>3, <1>4, <1>8
  <2>3. t # <<>> /\ t[1].do = "not_running" /\ t[1].mode = n
    <3>1. t = Tail(s)
      OBVIOUS
    <3> QED  BY <1>3, <3>1, NextStep
  <2>4. \A x : /\ ManagerComes(s, 0, x) => ManagerComes(t, 0, x)
               /\ SamplingComes(s, 0, x) => SamplingComes(t, 0, x)
    BY <1>3, HeadComes
  <2> HIDE DEF s, t, n
  <2>5. ReadyToStart'
    BY <2>1, <2>3 DEF ReadyToStart
  <2>6. ASSUME NEW m \in modes
        PROVE  Agrees(m)' /\ Equipped(m)' /\ NoCallbackWhenOff(m)'
    <3>1. Agrees(m) /\ Equipped(m) /\ NoCallbackWhenOff(m) /\ running'[m] = running[m]
      BY <1>2 DEF SessionInv
    <3>2. /\ ~AtStepOf("running", m) /\ ~AtStepOf("not_running", m)
          /\ AtStepOf("stop_consumer", m) <=> m = n
      BY <1>3 DEF AtStepOf, s, n
    <3>3. /\ AtStepOf("not_running", m)' <=> m = n
          /\ ~AtStepOf("running", m)'
      BY <2>1, <2>3 DEF AtStepOf
    <3>4. Agrees(m)'
      <4>1. (running[m] <=> library[m] # "off") /\ (library[m] = "stopping" => m = n)
        BY <3>1, <3>2 DEF Agrees
      <4>2. CASE m = n
        BY <2>2, <3>1, <3>3, <4>1, <4>2 DEF Agrees
      <4>3. CASE m # n
        BY <2>2, <3>1, <3>3, <4>1, <4>3 DEF Agrees
      <4> QED  BY <4>2, <4>3
    <3>5. Equipped(m)'
      <4>1. CASE m = n
        BY <2>2, <4>1 DEF Equipped
      <4>2. CASE m # n
        BY <1>2, <2>1, <2>2, <2>4, <3>1, <4>2 DEF Equipped, s
      <4> QED  BY <4>1, <4>2
    <3>6. NoCallbackWhenOff(m)'
      BY <2>2, <3>1 DEF NoCallbackWhenOff
    <3> QED  BY <3>4, <3>5, <3>6
  <2>7. Types'
    BY <1>2, <2>1, <2>2 DEF SessionInv, Types, MainType, fixed, history
  <2> QED  BY <1>5, <2>1, <2>5, <2>6, <2>7 DEF SessionInv
<1> QED  BY <1>6, <1>7, <1>8 DEF StopConsumer
-----------------------------------------------------------------------------
(* The steps of stop_daq                                                    *)

\* These are steps of no other operation.
LEMMA OnlyStopDaq ==
  ASSUME SessionInv, NEW d \in Stopping, AtStep(d)
  PROVE  /\ main.op = "stop_daq" /\ StopDaqShape(version, main.steps)
         /\ Step = main.steps[1] /\ main.steps[1].do = d /\ d \notin OfMode
         /\ main.steps \in Seq(StepType) /\ main.steps # <<>> /\ modes \in SUBSET DaqModes
         /\ WellFormed(modes, main.steps) /\ Complete(modes, main.steps)
<1>1. /\ main.op # "none" /\ modes \in SUBSET DaqModes
      /\ main.steps \in Seq(StepType) /\ main.steps # <<>>
      /\ 1 \in 1 .. Len(main.steps) /\ Step = main.steps[1] /\ main.steps[1].do = d
  BY HeadFacts
<1>2. main.op = "stop_daq" /\ StopDaqShape(version, main.steps)
  BY <1>1 DEF SessionInv, Programs, NoStopDaq
<1>3. d \notin OfMode
  BY DEF Stopping, OfMode, Quiet
<1>4. WellFormed(modes, main.steps) /\ Complete(modes, main.steps)
  BY <1>1, <1>3 DEF SessionInv, Programs, Complete, OfMode, Quiet
<1> QED  BY <1>1, <1>2, <1>3, <1>4

LEMMA ForgetTimestampsStep ==
  ASSUME SessionInv, ForgetTimestamps, UNCHANGED <<fixed, callback, ops>>
  PROVE  SessionInv'
<1> DEFINE d == "forget_timestamps"
<1>1. AtStep(d) /\ d \in Stopping /\ d \notin OfMode /\ GoOn
  BY DEF ForgetTimestamps, Stopping, OfMode, Quiet
<1>2. UNCHANGED history /\ timestamps' = [m \in modes |-> NoTime]
      /\ UNCHANGED <<loaded, library, receiver, directory, running, persisters, sampling_time, external, ignored>>
  BY DEF ForgetTimestamps, history
<1>3. UNCHANGED fixed /\ modes' = modes
  BY DEF fixed
<1>4. main.op # "none" /\ main.steps[1].do = d
  BY <1>1, HeadFacts
<1>5. MainType' /\ Programs' /\ Complete(modes, main'.steps)
  BY <1>1, <1>3, GoOnFacts
<1>6. StopDaqState'
  BY <1>1, <1>2, <1>3, StopDaqGoesOn
<1>7. ReadyToStart' /\ \A m \in modes' : Agrees(m)' /\ Equipped(m)'
  BY <1>1, <1>2, <1>3, <1>4, <1>5, BetweenFunctions
<1>8. \A m \in modes' : Undisturbed(m)'
  BY <1>4, MainUndisturbed
<1>9. Ignoring' /\ \A m \in modes' : NoCallbackWhenOff(m)'
  BY <1>2, RestKept DEF history
<1>10. Bounds'
  <2>1. \A m \in modes : buffers[m] \in Nat
    BY DEF SessionInv, Types
  <2> QED  BY <1>2, <1>3, <2>1 DEF SessionInv, Bounds, history, NoTime
<1>11. Types'
  BY <1>2, <1>5 DEF SessionInv, Types, MainType, fixed, history, NoTime
<1> QED  BY <1>5, <1>6, <1>7, <1>8, <1>9, <1>10, <1>11 DEF SessionInv

LEMMA ForgetIgnoredStep ==
  ASSUME SessionInv, ForgetIgnored, UNCHANGED <<fixed, callback, ops>>
  PROVE  SessionInv'
<1> DEFINE d == "forget_ignored"
<1>1. AtStep(d) /\ d \in Stopping /\ d \notin OfMode /\ GoOn
  BY DEF ForgetIgnored, Stopping, OfMode, Quiet
<1>2. UNCHANGED history /\ ignored' = [m \in modes |-> 0]
      /\ UNCHANGED <<loaded, library, receiver, directory, running, persisters, sampling_time, external, timestamps>>
  BY DEF ForgetIgnored, history
<1>3. UNCHANGED fixed /\ modes' = modes /\ version' = version /\ options' = options
  BY DEF fixed
<1>4. main.op = "stop_daq" /\ main.steps[1].do = d
  BY <1>1, OnlyStopDaq
<1>5. /\ MainType' /\ Programs' /\ Complete(modes, main'.steps)
      /\ main'.op = "stop_daq" =>
           /\ main'.steps[1].do = "stop_receiver" => version = "functions"
           /\ ~(version = "functions" /\ main'.steps[1].do = "forget_ignored")
  BY <1>1, <1>3, GoOnFacts
<1>6. StopDaqState'
  <2>1. receiver /\ (version = "functions" => \A m \in modes : library[m] = "off")
    BY <1>4 DEF SessionInv, StopDaqState
  <2> QED  BY <1>2, <1>3, <1>5, <2>1 DEF StopDaqState
<1>7. ReadyToStart' /\ \A m \in modes' : Agrees(m)' /\ Equipped(m)'
  BY <1>1, <1>2, <1>3, <1>4, <1>5, BetweenFunctions
<1>8. \A m \in modes' : Undisturbed(m)'
  BY <1>4, MainUndisturbed
<1>9. Bounds' /\ \A m \in modes' : NoCallbackWhenOff(m)'
  BY <1>2, RestKept DEF history
<1>10. Ignoring'
  <2>1. \A m \in modes : buffers[m] \in Nat /\ since[m] \in Nat /\ since[m] <= buffers[m]
    BY DEF SessionInv, Types, Bounds
  <2>2. \A m : Persisting(m)' = Persisting(m)
    BY <1>3 DEF Persisting
  <2>3. \A m \in modes : ignored'[m] <= buffers'[m] - since'[m]
    BY <1>2, <2>1 DEF history
  <2> QED  BY <1>2, <1>3, <2>2, <2>3 DEF SessionInv, Ignoring, history
<1>11. Types'
  BY <1>2, <1>5 DEF SessionInv, Types, MainType, fixed, history
<1> QED  BY <1>5, <1>6, <1>7, <1>8, <1>9, <1>10, <1>11 DEF SessionInv

LEMMA StopReceiverStep ==
  ASSUME SessionInv, StopReceiver, UNCHANGED <<fixed, callback, ops>>
  PROVE  SessionInv'
<1> DEFINE d == "stop_receiver"
<1>1. AtStep(d) /\ d \in Stopping /\ d \notin OfMode
  BY DEF StopReceiver, Stopping, OfMode, Quiet
<1>2. UNCHANGED <<loaded, library, directory, running, persisters, sampling_time, external, timestamps, ignored, buffers, last>>
      /\ receiver' \in BOOLEAN
  BY DEF StopReceiver, SessionInv, Types
<1>3. UNCHANGED fixed /\ modes' = modes /\ version' = version /\ options' = options
  BY DEF fixed
<1>4. /\ main.op = "stop_daq" /\ main.steps[1].do = d /\ StopDaqShape(version, main.steps)
      /\ main.steps \in Seq(StepType)
  BY <1>1, OnlyStopDaq
<1>5. MainType' /\ Programs' /\ Complete(modes, main'.steps) /\ main'.op # "stop_daq"
  <2>1. CASE GoOn
    BY <1>1, <1>3, <2>1, GoOnFacts
  <2>2. CASE Raise
    BY <1>3, <1>4, <2>2, RaiseFacts
  <2> QED  BY <2>1, <2>2 DEF StopReceiver
<1>6. StopDaqState'
  BY <1>5 DEF StopDaqState
<1>7. ReadyToStart' /\ \A m \in modes' : Agrees(m)' /\ Equipped(m)'
  BY <1>1, <1>2, <1>3, <1>4, <1>5, BetweenFunctions
<1>8. \A m \in modes' : Undisturbed(m)'
  BY <1>4, MainUndisturbed
<1>9. \A m \in modes' : NoCallbackWhenOff(m)'
  BY <1>2, <1>3 DEF SessionInv, NoCallbackWhenOff
<1>10. \A m \in modes : buffers[m] \in Nat /\ callback[m].time \in Nat /\ last[m].time \in Nat
  BY DEF SessionInv, Types
<1>11. since' = since \/ since' = buffers
  BY DEF StopReceiver
<1>12. Bounds'
  <2>1. \A m \in modes : since'[m] <= buffers[m]
    BY <1>10, <1>11 DEF SessionInv, Bounds
  <2> QED  BY <1>2, <1>3, <2>1 DEF SessionInv, Bounds
<1>13. Ignoring'
  <2>1. \A m : Persisting(m)' = Persisting(m)
    BY <1>3 DEF Persisting
  <2>2. CASE since' = since
    BY <1>2, <1>3, <2>1, <2>2 DEF SessionInv, Ignoring
  <2>3. CASE since' = buffers
    <3>1. version = "functions" => \A m \in modes : ignored[m] = 0
      BY <1>4 DEF SessionInv, StopDaqState
    <3>2. ASSUME version = "functions", NEW m \in modes
          PROVE  /\ ignored'[m] <= buffers'[m] - since'[m]
                 /\ callback'[m].time \notin since'[m] + 1 .. since'[m] + 2
                 /\ last'[m].time \notin since'[m] + 1 .. since'[m] + 2
      <4>1. callback[m].time <= buffers[m] /\ last[m].time <= buffers[m]
        BY DEF SessionInv, Bounds
      <4> QED  BY <1>2, <1>10, <2>3, <3>1, <3>2, <4>1
    <3> QED  BY <1>3, <3>2 DEF Ignoring
  <2> QED  BY <1>11, <2>2, <2>3
<1>14. Types'
  BY <1>2, <1>5, <1>11 DEF SessionInv, Types, MainType, fixed
<1> QED  BY <1>5, <1>6, <1>7, <1>8, <1>9, <1>12, <1>13, <1>14 DEF SessionInv

LEMMA StopRunningStep ==
  ASSUME SessionInv, StopRunning, UNCHANGED <<fixed, callback, ops>>
  PROVE  SessionInv'
<1> DEFINE d == "stop_running"
<1>1. AtStep(d) /\ d \in Stopping /\ d \notin OfMode /\ UNCHANGED <<state, history>>
  BY DEF StopRunning, Stopping, OfMode, Quiet
<1>2. UNCHANGED fixed /\ modes' = modes /\ version' = version /\ options' = options
  BY DEF fixed
<1>3. /\ main.op = "stop_daq" /\ main.steps[1].do = d /\ StopDaqShape(version, main.steps)
      /\ main.steps \in Seq(StepType) /\ main.steps # <<>> /\ modes \in SUBSET DaqModes
      /\ WellFormed(modes, main.steps) /\ Complete(modes, main.steps)
  BY <1>1, OnlyStopDaq
<1>4. receiver /\ receiver' = receiver /\ library' = library
  BY <1>1, <1>3 DEF SessionInv, StopDaqState, state
<1>5. MainType' /\ Programs' /\ Complete(modes, main'.steps) /\ StopDaqState'
  <2>1. CASE (\A m \in modes : ~running[m]) /\ GoOn
    <3>1. /\ MainType' /\ Programs' /\ Complete(modes, main'.steps)
          /\ main'.op = "stop_daq" /\ main'.steps[1].do = "stop_receiver" => version # "functions"
      BY <1>1, <1>2, <2>1, GoOnFacts
    <3>2. \A m \in modes : library[m] = "off"
      <4>1. \A m \in modes : Calm(m) /\ library[m] \in {"off", "on", "stopping"}
        BY <1>1, <1>3, CalmBetween DEF SessionInv, Types
      <4> QED  BY <2>1, <4>1 DEF Calm
    <3>3. StopDaqState'
      BY <1>2, <1>4, <3>1, <3>2 DEF StopDaqState
    <3> QED  BY <3>1, <3>3
  <2>2. ASSUME NEW m \in modes, Continue(StopSteps(m) \o main.steps)
        PROVE  MainType' /\ Programs' /\ Complete(modes, main'.steps) /\ StopDaqState'
    <3> DEFINE u == StopSteps(m) \o main.steps
    <3>1. Complete(modes, StopSteps(m)) /\ StopSteps(m) \in Seq(StepType) /\ WellFormed(modes, StopSteps(m))
      BY <1>3, StopComplete DEF Complete, WellFormed
    <3>2. u \in Seq(StepType)
      BY <1>3, <3>1, ConcatFacts
    <3>3. Complete(modes, u) /\ WellFormed(modes, u)
      BY <1>3, <3>1, ConcatWellFormed DEF Complete
    <3>4. StopDaqShape(version, u) /\ u[1].do = "no_external"
      BY <1>3, StopDaqConcat
    <3>5. Continue(u)
      BY <2>2
    <3> HIDE DEF u
    <3>6. MainType' /\ main'.steps = u /\ main'.op = IF u = <<>> THEN "none" ELSE main.op
      BY <1>3, <3>2, <3>5, ContinueFacts
    <3>7. u # <<>>
      BY <3>4 DEF StopDaqShape
    <3>8. main'.op = "stop_daq"
      BY <1>3, <3>6, <3>7
    <3>9. Programs'
      BY <1>2, <3>3, <3>4, <3>6, <3>8 DEF Programs
    <3>10. StopDaqState'
      BY <1>4, <3>4, <3>6 DEF StopDaqState
    <3> QED  BY <3>3, <3>6, <3>9, <3>10
  <2> QED  BY <2>1, <2>2 DEF StopRunning
<1>6. ReadyToStart' /\ \A m \in modes' : Agrees(m)' /\ Equipped(m)'
  BY <1>1, <1>2, <1>3, <1>5, BetweenFunctions DEF state
<1>7. \A m \in modes' : Undisturbed(m)'
  BY <1>3, MainUndisturbed
<1>8. Bounds' /\ Ignoring' /\ \A m \in modes' : NoCallbackWhenOff(m)'
  BY <1>1, RestKept DEF history, state
<1>9. Types'
  BY <1>1, <1>5 DEF SessionInv, Types, MainType, fixed, history, state
<1> QED  BY <1>5, <1>6, <1>7, <1>8, <1>9 DEF SessionInv

\* Whatever the main thread does.
LEMMA MainStepKept ==
  ASSUME SessionInv, MainStep
  PROVE  SessionInv'
<1>1. UNCHANGED <<fixed, callback, ops>>
  BY DEF MainStep
<1>2. CASE StartMode \/ RaiseException \/ CheckDirectory \/ Apply \/ GetIpAddress \/ RemoveLocks
  BY <1>1, <1>2, StartModeStep, RaiseExceptionStep, CheckDirectoryStep, ApplyStep, GetIpAddressStep,
     RemoveLocksStep
<1>3. CASE LoadLibrary \/ StartReceiver \/ AddReceiverPorts \/ StartConsumer
  BY <1>1, <1>3, LoadLibraryStep, StartReceiverStep, AddReceiverPortsStep, StartConsumerStep
<1>4. CASE SetRunning \/ SetPersister \/ SetSampling \/ SetExternalCallback
  BY <1>1, <1>4, SetRunningStep, SetPersisterStep, SetSamplingStep, SetExternalCallbackStep
<1>5. CASE StopConsumer \/ StopRunning \/ ForgetTimestamps \/ ForgetIgnored \/ StopReceiver
  BY <1>1, <1>5, StopConsumerStep, StopRunningStep, ForgetTimestampsStep, ForgetIgnoredStep,
     StopReceiverStep
<1> QED  BY <1>2, <1>3, <1>4, <1>5 DEF MainStep
-----------------------------------------------------------------------------
(* An operation of the main thread begins                                   *)

\* An operation begins when the last has ended. From then on no callback in progress counts as
\* one that came while the main thread rested.
LEMMA BeginKept ==
  ASSUME SessionInv, NEW op \in {"populate", "script", "start", "stop", "stop_daq"}, NEW p,
         Begin(op, p), Complete(modes, p),
         IF op = "stop_daq"
           THEN /\ StopDaqShape(version, p) /\ receiver /\ p[1].do # "stop_receiver"
                /\ ~(version = "functions" /\ p[1].do = "forget_ignored")
           ELSE NoStopDaq(p)
  PROVE  SessionInv'
<1>1. /\ main.op = "none" /\ ops' = ops + 1 /\ main' = [op |-> op, steps |-> p]
      /\ UNCHANGED <<fixed, state, callback, history>>
  BY DEF Begin
<1>2. main'.op = op /\ main'.steps = p /\ op # "none"
  BY <1>1
<1>3. modes' = modes /\ version' = version /\ options' = options
  BY <1>1 DEF fixed
<1>4. p \in Seq(StepType) /\ WellFormed(modes, p) /\ main.steps = <<>>
  BY <1>1 DEF Complete, WellFormed, SessionInv, Programs
<1>5. Programs'
  BY <1>2, <1>3, <1>4 DEF Programs
<1>6. StopDaqState'
  BY <1>1, <1>2, <1>3 DEF StopDaqState, state
<1>7. ReadyToStart' /\ \A m \in modes' : Agrees(m)' /\ Equipped(m)'
  BY <1>1, <1>2, <1>3, <1>4, BetweenFunctions DEF state
<1>8. Bounds' /\ Ignoring' /\ \A m \in modes' : NoCallbackWhenOff(m)'
  BY <1>1, RestKept DEF history, state
<1>9. ASSUME NEW m \in modes
      PROVE  Undisturbed(m)'
  <2>1. /\ callback[m].ops \in Int /\ ops \in Nat /\ callback[m].ops <= ops
        /\ callback[m].at # "idle" => callback[m].time > 0
    BY DEF SessionInv, Types, Undisturbed
  <2>2. callback'[m].ops <= ops' /\ callback'[m].ops # ops'
    BY <1>1, <2>1
  <2> QED  BY <1>1, <2>1, <2>2 DEF Undisturbed
<1>10. Types'
  <2>1. ops' \in Nat
    BY <1>1 DEF SessionInv, Types
  <2> QED  BY <1>1, <1>4, <2>1 DEF SessionInv, Types, fixed, history, state
<1> QED  BY <1>3, <1>5, <1>6, <1>7, <1>8, <1>9, <1>10 DEF SessionInv

\* Any order of the modes is a finite sequence of them.
LEMMA ModesInOrder ==
  ASSUME NEW M \in SUBSET DaqModes, NEW given \in SetToSeqs(M)
  PROVE  given \in Seq(DaqModes)
<1>1. IsFiniteSet(DaqModes)
  <2>1. start_order \in Surjection(1 .. 9, DaqModes)
    <3>1. start_order \in [1 .. 9 -> DaqModes]
      BY DEF start_order, DaqModes
    <3>2. ASSUME NEW m \in DaqModes
          PROVE  \E i \in 1 .. 9 : start_order[i] = m
      <4>1. m \in {start_order[1], start_order[2], start_order[3], start_order[4], start_order[5],
                   start_order[6], start_order[7], start_order[8], start_order[9]}
        BY DEF start_order, DaqModes
      <4>2. /\ 1 \in 1 .. 9 /\ 2 \in 1 .. 9 /\ 3 \in 1 .. 9 /\ 4 \in 1 .. 9 /\ 5 \in 1 .. 9
            /\ 6 \in 1 .. 9 /\ 7 \in 1 .. 9 /\ 8 \in 1 .. 9 /\ 9 \in 1 .. 9
        OBVIOUS
      <4> QED  BY <4>1, <4>2
    <3> QED  BY <3>1, <3>2 DEF Surjection
  <2>2. IsFiniteSet(1 .. 9)
    <3>1. 1 \in Int /\ 9 \in Int
      OBVIOUS
    <3> QED  BY <3>1, FS_Interval, Zenon
  <2> QED  BY <2>1, <2>2, FS_Surjection
<1>2. Cardinality(M) \in Nat
  BY <1>1, FS_Subset, FS_CardinalityType
<1>3. given \in [1 .. Cardinality(M) -> M]
  BY DEF SetToSeqs
<1>4. given \in [1 .. Cardinality(M) -> DaqModes]
  BY <1>3
<1> QED  BY <1>2, <1>4, SeqDef

\* The operations, one by one.
LEMMA OperationKept ==
  ASSUME SessionInv, Populate \/ RunScript \/ StartOne \/ StartDaq \/ StopOne \/ StopDaq
  PROVE  SessionInv'
<1>1. modes \in SUBSET DaqModes /\ version \in {"functions", "class"}
  BY DEF SessionInv, Types
<1>2. CASE Populate
  <2>1. PICK p \in {populate_configuration, _populate_configuration} : Begin("populate", p)
    BY <1>2 DEF Populate
  <2>2. Complete(modes, p) /\ NoStopDaq(p)
    BY <2>1, PopulateComplete
  <2> QED  BY <2>1, <2>2, BeginKept
<1>3. CASE RunScript
  <2>1. PICK p \in {script, _script} : Begin("script", p)
    BY <1>3 DEF RunScript
  <2>2. Complete(modes, p) /\ NoStopDaq(p)
    BY <2>1, ScriptComplete
  <2> QED  BY <2>1, <2>2, BeginKept
<1>4. CASE StartOne
  <2>1. PICK m \in modes : Begin("start", StartSteps(m))
    BY <1>4 DEF StartOne
  <2>2. Complete(modes, StartSteps(m)) /\ NoStopDaq(StartSteps(m))
    BY <1>1, StartComplete
  <2> QED  BY <2>1, <2>2, BeginKept
<1>5. CASE StartDaq
  <2>1. PICK given \in SetToSeqs(modes), callbacks_match \in BOOLEAN :
          Begin("start", _start_daq(given, callbacks_match))
    BY <1>5 DEF StartDaq
  <2>2. given \in Seq(DaqModes)
    BY <1>1, ModesInOrder
  <2>3. Complete(modes, _start_daq(given, callbacks_match)) /\ NoStopDaq(_start_daq(given, callbacks_match))
    BY <2>2, StartDaqComplete
  <2> QED  BY <2>1, <2>3, BeginKept
<1>6. CASE StopOne
  <2>1. PICK m \in modes : Begin("stop", StopSteps(m))
    BY <1>6 DEF StopOne
  <2>2. Complete(modes, StopSteps(m)) /\ NoStopDaq(StopSteps(m))
    BY <1>1, StopComplete
  <2> QED  BY <2>1, <2>2, BeginKept
<1>7. CASE StopDaq
  <2>1. PICK p : /\ p = (IF version = "functions" THEN stop_daq ELSE _stop_daq)
                 /\ Begin("stop_daq", p) /\ receiver
    BY <1>7 DEF StopDaq
  <2>2. /\ Complete(modes, p) /\ StopDaqShape(version, p)
        /\ p[1].do = (IF version = "functions" THEN "forget_timestamps" ELSE "forget_ignored")
    <3>1. CASE version = "functions"
      BY <2>1, <3>1, StopDaqComplete
    <3>2. CASE version = "class"
      BY <2>1, <3>2, StopDaqComplete
    <3> QED  BY <1>1, <3>1, <3>2
  <2>3. p[1].do # "stop_receiver" /\ ~(version = "functions" /\ p[1].do = "forget_ignored")
    BY <2>2
  <2> QED  BY <2>1, <2>2, <2>3, BeginKept
<1> QED  BY <1>2, <1>3, <1>4, <1>5, <1>6, <1>7
-----------------------------------------------------------------------------
(* The callbacks                                                            *)

\* How the callbacks of either version persist a buffer.
LEMMA PersistingFacts ==
  ASSUME version \in {"functions", "class"},
         options \in [write_to_disk : BOOLEAN, together : BOOLEAN, threshold : BOOLEAN],
         NEW m \in DaqModes
  PROVE  /\ Persisting(m).slot = SlotOf(m) /\ SlotOf(m) \in DaqModes
         /\ Persisting(m).first => Persisting(m).remember
         /\ Persisting(m).sampled => m \in Timed
<1>1. SlotOf(m) \in DaqModes
  BY DEF SlotOf, DaqModes
<1> USE DEF Persist, Sampled, Remember, AppendToFirst, IgnoreTwo, SlotOf, Timed, DaqModes,
            Persisting, callbacks, _callbacks
<1>2. CASE m = "RAW_DATA"
  BY <1>1, <1>2 DEF raw_data_callback, _raw_data_callback
<1>3. CASE m = "CHANNEL_DATA"
  BY <1>1, <1>3 DEF channel_burst_data_callback, channel_data_callback,
     _channel_burst_data_callback, _channel_data_callback
<1>4. CASE m = "BEAM_DATA"
  BY <1>1, <1>4 DEF beam_burst_data_callback, _beam_burst_data_callback
<1>5. CASE m = "CONTINUOUS_CHANNEL_DATA"
  BY <1>1, <1>5 DEF channel_continuous_data_callback, channel_data_callback,
     _channel_continuous_data_callback, _channel_data_callback
<1>6. CASE m = "INTEGRATED_BEAM_DATA"
  BY <1>1, <1>6 DEF beam_integrated_data_callback, _beam_integrated_data_callback
<1>7. CASE m = "INTEGRATED_CHANNEL_DATA"
  BY <1>1, <1>7 DEF channel_integrated_data_callback, channel_data_callback,
     _channel_integrated_data_callback, _channel_data_callback
<1>8. CASE m = "STATION_BEAM_DATA"
  BY <1>1, <1>8 DEF station_callback, _station_callback
<1>9. CASE m = "CORRELATOR_DATA"
  BY <1>1, <1>9 DEF correlator_callback, _correlator_callback
<1>10. CASE m = "ANTENNA_BUFFER"
  BY <1>1, <1>10 DEF antenna_buffer_callback, _antenna_buffer_callback
<1> QED  BY <1>2, <1>3, <1>4, <1>5, <1>6, <1>7, <1>8, <1>9, <1>10

\* A callback changes neither what the main thread does nor what it has set.
LEMMA CallbackKeeps ==
  ASSUME SessionInv, UnchangedByCallback
  PROVE  /\ Programs' /\ ReadyToStart' /\ \A m \in modes' : Agrees(m)' /\ Equipped(m)'
         /\ ignored' = ignored => StopDaqState'
         /\ modes' = modes /\ version' = version /\ options' = options
         /\ \A m : Persisting(m)' = Persisting(m)
<1>1. /\ modes' = modes /\ version' = version /\ options' = options /\ main' = main
      /\ library' = library /\ receiver' = receiver /\ running' = running
      /\ persisters' = persisters /\ sampling_time' = sampling_time
  BY DEF UnchangedByCallback, fixed
<1>2. Programs' /\ ReadyToStart'
  BY <1>1 DEF SessionInv, Programs, ReadyToStart
<1>3. ASSUME NEW m \in modes
      PROVE  Agrees(m)' /\ Equipped(m)'
  <2>1. Agrees(m) /\ Equipped(m)
    BY DEF SessionInv
  <2>2. Agrees(m)'
    BY <1>1, <2>1 DEF Agrees, AtStepOf
  <2>3. Equipped(m)'
    BY <1>1, <2>1 DEF Equipped
  <2> QED  BY <2>2, <2>3
<1>4. ignored' = ignored => StopDaqState'
  BY <1>1 DEF SessionInv, StopDaqState
<1>5. \A m : Persisting(m)' = Persisting(m)
  BY <1>1 DEF Persisting
<1> QED  BY <1>1, <1>2, <1>3, <1>4, <1>5

CallbackType == [at : {"idle", "remember", "ingest", "external", "call"}, time : Nat, ops : Int]
FiledType == [time : Nat, under : Nat, slot : DaqModes \cup {NoMode},
              manager : DaqModes \cup {NoMode}, sampled : BOOLEAN]

\* A callback in progress goes on or returns.
LEMMA CallbackGoesOn ==
  ASSUME SessionInv, NEW m \in modes, callback[m].at # "idle",
         UnchangedByCallback, UNCHANGED <<ignored, buffers>>,
         NEW new \in CallbackType, callback' = [callback EXCEPT ![m] = new],
         new.at # "idle" => new.time = callback[m].time /\ new.ops = callback[m].ops,
         new.at = "idle" => new = Idle,
         timestamps' \in [modes -> Nat],
         \A n \in modes : timestamps'[n] # timestamps[n] =>
           n = m /\ timestamps'[n] = callback[m].time,
         new.at = "ingest" /\ Persisting(m).first => timestamps'[m] # NoTime,
         new.at = "call" => external[m],
         last' \in [modes -> FiledType],
         \A n \in modes : last'[n] # last[n] => n = m /\ last'[n].time = callback[m].time
  PROVE  SessionInv'
<1>1. /\ Programs' /\ ReadyToStart' /\ \A n \in modes' : Agrees(n)' /\ Equipped(n)'
      /\ StopDaqState' /\ modes' = modes /\ version' = version /\ options' = options
      /\ \A n : Persisting(n)' = Persisting(n)
  BY CallbackKeeps
<1>2. /\ library' = library /\ main' = main /\ ops' = ops /\ external' = external /\ since' = since
      /\ buffers' = buffers /\ ignored' = ignored
  BY DEF UnchangedByCallback
<1>3. /\ callback \in [modes -> CallbackType] /\ buffers \in [modes -> Nat]
      /\ since \in [modes -> Nat] /\ ops \in Nat /\ last \in [modes -> FiledType]
      /\ timestamps \in [modes -> Nat]
  BY DEF SessionInv, Types, CallbackType, FiledType
<1>4. callback' \in [modes -> CallbackType]
      /\ \A n \in modes : callback'[n] = IF n = m THEN new ELSE callback[n]
  BY <1>3
<1>5. \A n \in modes : callback'[n].time = callback[n].time \/ callback'[n].time = 0
  BY <1>4 DEF Idle, NoTime, CallbackType
<1>6. Bounds'
  <2>1. ASSUME NEW n \in modes
        PROVE  /\ timestamps'[n] <= buffers[n] /\ callback'[n].time <= buffers[n]
               /\ last'[n].time <= buffers[n]
    <3>1. /\ timestamps[n] <= buffers[n] /\ callback[n].time <= buffers[n]
          /\ last[n].time <= buffers[n] /\ buffers[n] \in Nat
      BY <1>3 DEF SessionInv, Bounds
    <3> QED  BY <1>5, <3>1
  <2> QED  BY <1>1, <1>2, <2>1 DEF SessionInv, Bounds
<1>7. Ignoring'
  <2>1. ASSUME version = "functions", NEW n \in modes, Persisting(n).ignore
        PROVE  /\ ignored'[n] <= buffers'[n] - since'[n]
               /\ callback'[n].time \notin since'[n] + 1 .. since'[n] + 2
               /\ last'[n].time \notin since'[n] + 1 .. since'[n] + 2
    <3>1. /\ ignored[n] <= buffers[n] - since[n]
          /\ callback[n].time \notin since[n] + 1 .. since[n] + 2
          /\ last[n].time \notin since[n] + 1 .. since[n] + 2
      BY <2>1 DEF SessionInv, Ignoring
    <3>2. since[n] \in Nat
      BY <1>3
    <3>3. 0 \notin since[n] + 1 .. since[n] + 2
      BY <3>2
    <3>4. callback'[n].time \notin since[n] + 1 .. since[n] + 2
      BY <1>5, <3>1, <3>3
    <3>5. last'[n].time \notin since[n] + 1 .. since[n] + 2
      BY <3>1
    <3> QED  BY <1>2, <3>1, <3>4, <3>5
  <2> QED  BY <1>1, <2>1 DEF Ignoring
<1>8. ASSUME NEW n \in modes
      PROVE  NoCallbackWhenOff(n)' /\ Undisturbed(n)'
  <2>1. NoCallbackWhenOff(n) /\ Undisturbed(n)
    BY DEF SessionInv
  <2>2. NoCallbackWhenOff(n)'
    BY <1>2, <1>4, <2>1 DEF NoCallbackWhenOff
  <2>3. CASE n # m
    <3>1. callback'[n] = callback[n] /\ timestamps'[n] = timestamps[n]
      BY <1>4, <2>3
    <3> QED  BY <1>1, <1>2, <2>1, <2>2, <3>1 DEF Undisturbed
  <2>4. CASE n = m
    <3>1. callback'[n] = new
      BY <1>4, <2>4
    <3>2. CASE new.at = "idle"
      <4>1. new.ops = 0 /\ new.ops <= ops
        BY <1>3, <3>2 DEF Idle
      <4> QED  BY <1>2, <2>2, <3>1, <3>2, <4>1 DEF Undisturbed
    <3>3. CASE new.at # "idle"
      BY <1>1, <1>2, <2>1, <2>2, <2>4, <3>1, <3>3 DEF Undisturbed
    <3> QED  BY <3>2, <3>3
  <2> QED  BY <2>3, <2>4
<1>9. Types'
  BY <1>4 DEF SessionInv, Types, UnchangedByCallback, fixed, CallbackType, FiledType
<1> QED  BY <1>1, <1>6, <1>7, <1>8, <1>9 DEF SessionInv

\* A step within a callback, and a callback's return.
LEMMA AtAndReturn ==
  ASSUME SessionInv, NEW m \in modes, callback[m].at # "idle",
         NEW at \in {"ingest", "external", "call"}
  PROVE  /\ At(m, at) => \E new \in CallbackType :
              /\ callback' = [callback EXCEPT ![m] = new]
              /\ new.at = at /\ new.time = callback[m].time /\ new.ops = callback[m].ops
         /\ Return(m) => \E new \in CallbackType :
              callback' = [callback EXCEPT ![m] = new] /\ new = Idle /\ new.at = "idle"
<1> DEFINE new == [callback[m] EXCEPT !.at = at]
<1>1. callback \in [modes -> CallbackType]
  BY DEF SessionInv, Types, CallbackType
<1>2. /\ new \in CallbackType /\ new.at = at /\ new.time = callback[m].time
      /\ new.ops = callback[m].ops
  BY <1>1 DEF CallbackType
<1>3. At(m, at) => callback' = [callback EXCEPT ![m] = new]
  BY DEF At
<1>4. Idle \in CallbackType /\ Idle.at = "idle"
  BY DEF Idle, CallbackType, NoTime
<1> HIDE DEF new
<1> QED  BY <1>2, <1>3, <1>4 DEF Return

\* Every step of a callback goes on, or returns.
LEMMA InCallbackKept ==
  ASSUME SessionInv, NEW m \in modes, CallbackStep(m)
  PROVE  SessionInv'
<1>1. /\ callback[m].at # "idle" /\ UnchangedByCallback /\ UNCHANGED <<ignored, buffers>>
  BY DEF CallbackStep, RememberTimestamp, Ingest, External, CallExternal, RaiseInCallback, Raises
<1>2. /\ timestamps \in [modes -> Nat] /\ last \in [modes -> FiledType]
      /\ callback \in [modes -> CallbackType] /\ modes \in SUBSET DaqModes
      /\ persisters \in [modes \cup {"CHANNEL_DATA"} -> modes \cup {NoMode}]
      /\ callback[m].time \in Nat
  BY DEF SessionInv, Types, CallbackType, FiledType
<1>3. Undisturbed(m) /\ callback[m].time > 0
  BY <1>1 DEF SessionInv, Undisturbed
<1>4. CASE RememberTimestamp(m)
  <2>1. /\ callback[m].at = "remember" /\ At(m, "ingest") /\ last' = last
        /\ timestamps' = [timestamps EXCEPT ![m] = IF @ = NoTime THEN callback[m].time ELSE @]
    BY <1>4 DEF RememberTimestamp
  <2>2. PICK new \in CallbackType :
          /\ callback' = [callback EXCEPT ![m] = new]
          /\ new.at = "ingest" /\ new.time = callback[m].time /\ new.ops = callback[m].ops
    BY <1>1, <2>1, AtAndReturn
  <2>3. /\ timestamps' \in [modes -> Nat] /\ timestamps'[m] # NoTime
        /\ \A n \in modes : timestamps'[n] # timestamps[n] =>
             n = m /\ timestamps'[n] = callback[m].time
    BY <1>2, <1>3, <2>1 DEF NoTime
  <2>4. new.at # "idle" /\ new.at # "call"
    BY <2>2
  <2> QED  BY <1>1, <1>2, <2>1, <2>2, <2>3, <2>4, CallbackGoesOn
<1>5. CASE Ingest(m)
  <2> DEFINE filed == [time |-> callback[m].time,
                       under |-> IF Persisting(m).first THEN timestamps[m] ELSE callback[m].time,
                       slot |-> Persisting(m).slot, manager |-> persisters[Persisting(m).slot],
                       sampled |-> Persisting(m).sampled => sampling_time[m]]
  <2>1. /\ At(m, "external") /\ timestamps' = timestamps
        /\ last' = [last EXCEPT ![m] = filed]
    BY <1>5 DEF Ingest
  <2>2. PICK new \in CallbackType :
          /\ callback' = [callback EXCEPT ![m] = new]
          /\ new.at = "external" /\ new.time = callback[m].time /\ new.ops = callback[m].ops
    BY <1>1, <2>1, AtAndReturn
  <2>3. filed \in FiledType /\ filed.time = callback[m].time
    <3>1. Persisting(m).slot = SlotOf(m) /\ SlotOf(m) \in DaqModes
      BY <1>2, PersistingFacts DEF SessionInv, Types
    <3>2. SlotOf(m) \in modes \cup {"CHANNEL_DATA"}
      BY DEF SlotOf
    <3>3. persisters[Persisting(m).slot] \in DaqModes \cup {NoMode}
      BY <1>2, <3>1, <3>2
    <3>4. timestamps[m] \in Nat
      BY <1>2
    <3>5. (Persisting(m).sampled => sampling_time[m]) \in BOOLEAN
      OBVIOUS
    <3> QED  BY <1>2, <3>1, <3>3, <3>4, <3>5 DEF FiledType
  <2> HIDE DEF filed
  <2>4. /\ last' \in [modes -> FiledType]
        /\ \A n \in modes : last'[n] # last[n] => n = m /\ last'[n].time = callback[m].time
    BY <1>2, <2>1, <2>3
  <2>5. new.at # "idle" /\ new.at # "call" /\ new.at # "ingest"
    BY <2>2
  <2> QED  BY <1>1, <1>2, <2>1, <2>2, <2>4, <2>5, CallbackGoesOn
<1>6. ASSUME timestamps' = timestamps, last' = last, Return(m) \/ (external[m] /\ At(m, "call"))
      PROVE  SessionInv'
  <2>1. PICK new \in CallbackType :
          /\ callback' = [callback EXCEPT ![m] = new]
          /\ \/ new = Idle /\ new.at = "idle"
             \/ /\ new.at = "call" /\ new.time = callback[m].time /\ new.ops = callback[m].ops
                /\ external[m]
    BY <1>1, <1>6, AtAndReturn
  <2>2. /\ new.at # "idle" => new.time = callback[m].time /\ new.ops = callback[m].ops
        /\ new.at = "idle" => new = Idle
        /\ new.at # "ingest" /\ (new.at = "call" => external[m])
    BY <2>1
  <2> QED  BY <1>1, <1>2, <1>6, <2>1, <2>2, CallbackGoesOn
<1>7. CASE External(m) \/ CallExternal(m) \/ RaiseInCallback(m)
  BY <1>6, <1>7 DEF External, CallExternal, RaiseInCallback
<1> QED  BY <1>4, <1>5, <1>7 DEF CallbackStep

\* A buffer comes.
LEMMA ReceiveKept ==
  ASSUME SessionInv, NEW m \in modes, Receive(m)
  PROVE  SessionInv'
<1>1. /\ library[m] = "on" /\ callback[m].at = "idle" /\ buffers[m] < MaxBuffers[m]
      /\ buffers' = [buffers EXCEPT ![m] = @ + 1] /\ UNCHANGED <<timestamps, last>>
      /\ UnchangedByCallback
  BY DEF Receive
<1>2. /\ Programs' /\ ReadyToStart' /\ \A n \in modes' : Agrees(n)' /\ Equipped(n)'
      /\ modes' = modes /\ version' = version /\ options' = options
      /\ \A n : Persisting(n)' = Persisting(n)
  BY <1>1, CallbackKeeps
<1>3. /\ library' = library /\ main' = main /\ ops' = ops /\ external' = external /\ since' = since
      /\ receiver' = receiver
  BY <1>1 DEF UnchangedByCallback
<1>4. /\ callback \in [modes -> CallbackType] /\ buffers \in [modes -> Nat]
      /\ since \in [modes -> Nat] /\ ops \in Nat /\ last \in [modes -> FiledType]
      /\ timestamps \in [modes -> Nat] /\ ignored \in [modes -> 0 .. 2]
      /\ modes \in SUBSET DaqModes
  BY DEF SessionInv, Types, CallbackType, FiledType
<1>5. /\ \A n \in modes : MaxBuffers[n] \in Nat
  BY <1>4, SessionAssumption
<1>6. /\ buffers' \in [modes -> Nat]
      /\ \A n \in modes : buffers'[n] = IF n = m THEN buffers[m] + 1 ELSE buffers[n]
  BY <1>1, <1>4
<1>7. \A n \in modes : buffers'[n] >= buffers[n] /\ buffers'[n] <= MaxBuffers[n]
  BY <1>1, <1>4, <1>5, <1>6 DEF SessionInv, Bounds
<1> DEFINE new == [at |-> IF Persisting(m).remember THEN "remember" ELSE "ingest",
                   time |-> buffers[m] + 1, ops |-> IF main.op = "none" THEN ops ELSE Busy]
<1>8. new \in CallbackType /\ new.time = buffers[m] + 1 /\ new.at \notin {"idle", "call"}
  BY <1>4 DEF CallbackType, Busy
<1>9. \/ callback' = callback /\ ignored' = ignored
      \/ callback' = callback /\ ignored[m] < 2 /\ ignored' = [ignored EXCEPT ![m] = @ + 1]
      \/ ~Ignores(m) /\ callback' = [callback EXCEPT ![m] = new] /\ ignored' = ignored
  BY DEF Receive, Ignores
<1>10. /\ ignored' \in [modes -> 0 .. 2]
       /\ \A n \in modes : n # m => ignored'[n] = ignored[n]
       /\ ignored'[m] <= ignored[m] + 1
  <2>1. ignored[m] \in 0 .. 2
    BY <1>4
  <2>2. CASE ignored' = ignored
    BY <1>4, <2>1, <2>2
  <2>3. CASE ignored[m] < 2 /\ ignored' = [ignored EXCEPT ![m] = @ + 1]
    BY <1>4, <2>1, <2>3
  <2> QED  BY <1>9, <2>2, <2>3
<1>11. /\ callback' \in [modes -> CallbackType]
       /\ \A n \in modes : callback'[n] = callback[n] \/ (~Ignores(m) /\ n = m /\ callback'[n] = new)
  <2>1. CASE callback' = callback
    BY <1>4, <2>1
  <2>2. CASE ~Ignores(m) /\ callback' = [callback EXCEPT ![m] = new]
    <3> HIDE DEF new
    <3> QED  BY <1>4, <1>8, <2>2
  <2> QED  BY <1>9, <2>1, <2>2
<1>12. Bounds'
  <2>1. ASSUME NEW n \in modes
        PROVE  /\ buffers'[n] <= MaxBuffers[n] /\ since[n] <= buffers'[n]
               /\ timestamps[n] <= buffers'[n] /\ callback'[n].time <= buffers'[n]
               /\ last[n].time <= buffers'[n]
    <3>1. /\ since[n] <= buffers[n] /\ timestamps[n] <= buffers[n]
          /\ callback[n].time <= buffers[n] /\ last[n].time <= buffers[n]
      BY DEF SessionInv, Bounds
    <3>2. /\ buffers[n] \in Nat /\ buffers'[n] \in Nat /\ since[n] \in Nat /\ timestamps[n] \in Nat
          /\ callback[n].time \in Nat /\ last[n].time \in Nat
      BY <1>4, <1>6 DEF CallbackType, FiledType
    <3>3. callback'[n].time <= buffers'[n]
      <4>1. CASE callback'[n] = callback[n]
        BY <1>7, <3>1, <3>2, <4>1
      <4>2. CASE n = m /\ callback'[n] = new
        BY <1>6, <1>8, <3>2, <4>2
      <4> QED  BY <1>11, <4>1, <4>2
    <3> QED  BY <1>7, <3>1, <3>2, <3>3
  <2> QED  BY <1>1, <1>2, <1>3, <2>1 DEF Bounds
<1>13. Ignoring'
  <2>1. ASSUME version = "functions", NEW n \in modes, Persisting(n).ignore
        PROVE  /\ ignored'[n] <= buffers'[n] - since'[n]
               /\ callback'[n].time \notin since'[n] + 1 .. since'[n] + 2
               /\ last'[n].time \notin since'[n] + 1 .. since'[n] + 2
    <3>1. /\ ignored[n] <= buffers[n] - since[n]
          /\ callback[n].time \notin since[n] + 1 .. since[n] + 2
          /\ last[n].time \notin since[n] + 1 .. since[n] + 2
      BY <2>1 DEF SessionInv, Ignoring
    <3>2. since[n] \in Nat /\ buffers[n] \in Nat /\ ignored[n] \in 0 .. 2 /\ ignored'[n] \in 0 .. 2
      BY <1>4, <1>10
    <3>3. ignored'[n] <= buffers'[n] - since[n]
      <4>1. CASE n = m
        BY <1>6, <1>10, <3>1, <3>2, <4>1
      <4>2. CASE n # m
        BY <1>6, <1>10, <3>1, <4>2
      <4> QED  BY <4>1, <4>2
    <3>4. callback'[n].time \notin since[n] + 1 .. since[n] + 2
      <4>1. CASE callback'[n] = callback[n]
        BY <3>1, <4>1
      <4>2. CASE ~Ignores(m) /\ n = m /\ callback'[n] = new
        <5>1. ignored[n] = 2
          BY <2>1, <3>2, <4>2 DEF Ignores
        <5>2. callback'[n].time = buffers[n] + 1
          BY <1>8, <4>2
        <5> QED  BY <3>1, <3>2, <5>1, <5>2
      <4> QED  BY <1>11, <4>1, <4>2
    <3> QED  BY <1>1, <1>3, <3>1, <3>3, <3>4
  <2> QED  BY <1>2, <2>1 DEF Ignoring
<1>14. StopDaqState'
  <2>1. main.op = "stop_daq" /\ version = "functions" => main.steps[1].do # "stop_receiver"
    BY <1>1 DEF SessionInv, StopDaqState
  <2> QED  BY <1>2, <1>3, <2>1 DEF SessionInv, StopDaqState
<1>15. ASSUME NEW n \in modes
       PROVE  NoCallbackWhenOff(n)' /\ Undisturbed(n)'
  <2>1. NoCallbackWhenOff(n) /\ Undisturbed(n)
    BY DEF SessionInv
  <2>2. CASE callback'[n] = callback[n]
    BY <1>1, <1>2, <1>3, <2>1, <2>2 DEF NoCallbackWhenOff, Undisturbed
  <2>3. CASE n = m /\ callback'[n] = new
    <3>1. NoCallbackWhenOff(n)'
      BY <1>1, <1>3, <2>3 DEF NoCallbackWhenOff
    <3>2. /\ new.ops <= ops /\ (new.ops = ops => main.op = "none") /\ new.time > 0
      BY <1>4 DEF Busy
    <3>3. new.at = "ingest" => ~Persisting(m).first
      BY <1>4, PersistingFacts DEF SessionInv, Types
    <3> HIDE DEF new
    <3> QED  BY <1>2, <1>3, <1>8, <2>3, <3>1, <3>2, <3>3 DEF Undisturbed
  <2> QED  BY <1>11, <2>2, <2>3
<1>16. Types'
  BY <1>1, <1>6, <1>10, <1>11 DEF SessionInv, Types, UnchangedByCallback, fixed, CallbackType, FiledType
<1> QED  BY <1>2, <1>12, <1>13, <1>14, <1>15, <1>16 DEF SessionInv
-----------------------------------------------------------------------------
(* The invariant holds                                                      *)

\* The invariant holds when nothing has been done,
LEMMA SessionStarts == SessionInit => SessionInv
<1> SUFFICES ASSUME SessionInit
             PROVE  SessionInv
  OBVIOUS
<1>1. main.op = "none" /\ main.steps = <<>>
  BY DEF SessionInit
<1>2. /\ version \in {"functions", "class"} /\ modes \in SUBSET DaqModes
      /\ options \in [write_to_disk : BOOLEAN, together : BOOLEAN, threshold : BOOLEAN]
      /\ \A m \in modes : MaxBuffers[m] \in Nat
  BY SessionAssumption DEF SessionInit
<1>3. Types
  <2>1. <<>> \in Seq(StepType)
    OBVIOUS
  <2>2. main \in [op : {"none", "populate", "script", "start", "stop", "stop_daq"},
                  steps : Seq(StepType)]
    BY <2>1 DEF SessionInit
  <2>3. callback \in [modes -> [at : {"idle", "remember", "ingest", "external", "call"},
                                time : Nat, ops : Int]]
    BY DEF SessionInit, Idle, NoTime
  <2>4. last \in [modes -> [time : Nat, under : Nat, slot : DaqModes \cup {NoMode},
                            manager : DaqModes \cup {NoMode}, sampled : BOOLEAN]]
    BY DEF SessionInit, NotFiled, NoTime
  <2>5. /\ library \in [modes -> {"off", "on", "stopping"}]
        /\ persisters \in [modes \cup {"CHANNEL_DATA"} -> modes \cup {NoMode}]
        /\ timestamps \in [modes -> Nat] /\ ignored \in [modes -> 0 .. 2]
    BY DEF SessionInit, NoTime
  <2> QED  BY <1>2, <2>2, <2>3, <2>4, <2>5 DEF Types, SessionInit
<1>4. Bounds
  BY <1>2 DEF Bounds, SessionInit, Idle, NotFiled, NoTime
<1>5. Programs
  <2>1. <<>> \in Seq(OtherType)
    OBVIOUS
  <2>2. WellFormed(modes, <<>>)
    BY <2>1, OthersComplete DEF Complete
  <2>3. NoStopDaq(<<>>)
    BY DEF NoStopDaq
  <2> QED  BY <1>1, <2>2, <2>3 DEF Programs
<1>6. StopDaqState /\ ReadyToStart
  BY <1>1 DEF StopDaqState, ReadyToStart
<1>7. Ignoring
  BY DEF Ignoring, SessionInit, Idle, NotFiled, NoTime
<1>8. ASSUME NEW m \in modes
      PROVE  Agrees(m) /\ NoCallbackWhenOff(m) /\ Equipped(m) /\ Undisturbed(m)
  <2>1. library[m] = "off" /\ ~running[m] /\ callback[m] = Idle /\ ops = 0
    BY DEF SessionInit
  <2> QED  BY <1>1, <2>1 DEF Agrees, NoCallbackWhenOff, Equipped, Undisturbed, AtStepOf, Idle
<1> QED  BY <1>3, <1>4, <1>5, <1>6, <1>7, <1>8 DEF SessionInv

LEMMA SessionStutters ==
  ASSUME SessionInv, UNCHANGED sessionVars
  PROVE  SessionInv'
<1>1. /\ UNCHANGED <<version, modes, options, loaded, library, receiver, directory, running>>
      /\ UNCHANGED <<persisters, sampling_time, external, timestamps, ignored, main, callback>>
      /\ UNCHANGED <<ops, buffers, since, last>>
  BY DEF sessionVars, fixed, state, history
<1>2. Types' /\ Bounds' /\ Programs' /\ StopDaqState' /\ ReadyToStart'
  BY <1>1 DEF SessionInv, Types, Bounds, Programs, StopDaqState, ReadyToStart
<1>3. \A m : Persisting(m)' = Persisting(m)
  BY <1>1 DEF Persisting
<1>4. Ignoring'
  BY <1>1, <1>3 DEF SessionInv, Ignoring
<1>5. ASSUME NEW m \in modes
      PROVE  Agrees(m)' /\ NoCallbackWhenOff(m)' /\ Equipped(m)' /\ Undisturbed(m)'
  BY <1>1, <1>3 DEF SessionInv, Agrees, AtStepOf, NoCallbackWhenOff, Equipped, Undisturbed
<1> QED  BY <1>1, <1>2, <1>4, <1>5 DEF SessionInv

\* and every step keeps it.
LEMMA SessionGoesOn == SessionInv /\ [SessionNext]_sessionVars => SessionInv'
  BY OperationKept, MainStepKept, ReceiveKept, InCallbackKept, SessionStutters DEF SessionNext

\* The inductive invariant of a session, from which the others follow: it says, beside them,
\* of what form the steps are that the main thread still has to do, and that what a callback
\* needs is there or comes before an exception may.
THEOREM SessionInvariant == SessionSpec => []SessionInv
  BY SessionStarts, SessionGoesOn, PTL DEF SessionSpec
-----------------------------------------------------------------------------
(* What follows                                                             *)

\* The type of the state, for any modes, configurations and bounds: of the threads'
\* places, of the consumers, and that no timestamp is remembered or handled of a buffer
\* that has not come.
THEOREM SessionTypes == SessionSpec => []SessionTypeOK
<1>1. SessionInv => SessionTypeOK
  <2> SUFFICES ASSUME SessionInv
               PROVE  SessionTypeOK
    OBVIOUS
  <2>1. Types /\ Bounds /\ modes \in SUBSET DaqModes
    BY DEF SessionInv, Types
  <2>2. \A m \in modes : timestamps[m] \in 0 .. MaxBuffers[m]
    <3>1. \A m \in modes : /\ timestamps[m] \in Nat /\ buffers[m] \in Nat /\ MaxBuffers[m] \in Nat
                           /\ timestamps[m] <= buffers[m] /\ buffers[m] <= MaxBuffers[m]
      BY <2>1, SessionAssumption DEF Types, Bounds
    <3> QED  BY <3>1
  <2>3. \A m \in modes : /\ callback[m].at \in {"idle", "remember", "ingest", "external", "call"}
                         /\ callback[m].time \in 0 .. buffers[m]
    BY <2>1 DEF Types, Bounds
  <2> QED  BY <2>1, <2>2, <2>3 DEF Types, SessionTypeOK
<1> QED  BY <1>1, SessionInvariant, PTL

\* When the main thread rests, running_consumers has exactly the consumers that run in the
\* library, after whatever exceptions of the library there have been.
THEOREM FlagsAreTrue == SessionSpec => []RunningIsLibrary
<1>1. SessionInv => RunningIsLibrary
  <2> SUFFICES ASSUME SessionInv, main.op = "none"
               PROVE  \A m \in modes : running[m] <=> library[m] = "on"
    BY DEF RunningIsLibrary
  <2>1. main.steps = <<>>
    BY DEF SessionInv, Programs
  <2> QED  BY <2>1, CalmBetween DEF Calm
<1> QED  BY <1>1, SessionInvariant, PTL

\* The functions file neither of the first two buffers after a stop_daq, in the modes whose
\* callbacks ignore them.
THEOREM FirstTwoAreIgnored == SessionSpec => []FirstTwoIgnored
<1>1. SessionInv => FirstTwoIgnored
  BY DEF SessionInv, Ignoring, FirstTwoIgnored
<1> QED  BY <1>1, SessionInvariant, PTL

\* What comes while the main thread rests meets no exception and has its sampling time.
THEOREM RestingIsQuiet == SessionSpec => []QuietlyFiled
<1>1. SessionInv => QuietlyFiled
  <2> SUFFICES ASSUME SessionInv, NEW m \in modes, callback[m].at # "idle", callback[m].ops = ops
               PROVE  ~Raises(m) /\ (Persisting(m).sampled => sampling_time[m])
    BY DEF QuietlyFiled
  <2>1. /\ main.op = "none"
        /\ callback[m].at = "ingest" /\ Persisting(m).first => timestamps[m] # NoTime
        /\ callback[m].at = "call" => external[m]
    BY DEF SessionInv, Undisturbed
  <2>2. main.steps = <<>>
    BY <2>1 DEF SessionInv, Programs
  <2>3. Provided(m) /\ library[m] # "off"
    BY <2>2, CalmBetween DEF SessionInv, NoCallbackWhenOff
  <2>4. Persisting(m).slot = SlotOf(m) /\ (Persisting(m).sampled => m \in Timed)
    BY PersistingFacts DEF SessionInv, Types
  <2>5. persisters[SlotOf(m)] # NoMode /\ (m \in Timed => sampling_time[m])
    BY <2>3 DEF Provided
  <2> QED  BY <2>1, <2>4, <2>5 DEF Raises
<1> QED  BY <1>1, SessionInvariant, PTL

\* A stop_daq that stops the receiver has stopped every consumer before, and waited for
\* its callback, however many stop_daq raised half-way before it.
THEOREM StopDaqStopsAll == SessionSpec => StopsAll
<1>1. SessionInv /\ [SessionNext]_sessionVars =>
        [main.op = "stop_daq" /\ main'.op = "none" /\ ~receiver' =>
           \A m \in modes : library'[m] = "off" /\ callback'[m].at = "idle"]_sessionVars
  <2> SUFFICES ASSUME SessionInv, [SessionNext]_sessionVars, main.op = "stop_daq", main'.op = "none", ~receiver'
               PROVE  \A m \in modes : library'[m] = "off" /\ callback'[m].at = "idle"
    OBVIOUS
  <2>1. receiver /\ receiver' # receiver
    BY DEF SessionInv, StopDaqState
  <2>2. StopReceiver /\ UNCHANGED callback
    <3>1. ~UNCHANGED sessionVars
      BY <2>1 DEF sessionVars, state
    <3>2. ~(Populate \/ RunScript \/ StartOne \/ StartDaq \/ StopOne \/ StopDaq)
      BY DEF Populate, RunScript, StartOne, StartDaq, StopOne, StopDaq, Begin
    <3>3. ASSUME NEW m \in modes, Receive(m) \/ CallbackStep(m)
          PROVE  FALSE
      <4>1. UnchangedByCallback
        BY <3>3 DEF Receive, CallbackStep, RememberTimestamp, Ingest, External, CallExternal, RaiseInCallback
      <4> QED  BY <2>1, <4>1 DEF UnchangedByCallback
    <3>4. MainStep
      BY <3>1, <3>2, <3>3 DEF SessionNext
    <3>5. ~(StartMode \/ RaiseException \/ CheckDirectory \/ Apply \/ GetIpAddress \/ RemoveLocks)
      BY <2>1 DEF StartMode, RaiseException, CheckDirectory, Apply, GetIpAddress, RemoveLocks, state
    <3>6. ~(LoadLibrary \/ AddReceiverPorts \/ StartConsumer \/ SetRunning \/ SetPersister \/ SetSampling)
      BY <2>1 DEF LoadLibrary, AddReceiverPorts, StartConsumer, SetRunning, SetPersister, SetSampling, state
    <3>7. ~(SetExternalCallback \/ StopConsumer \/ StopRunning \/ ForgetTimestamps \/ ForgetIgnored)
      BY <2>1 DEF SetExternalCallback, StopConsumer, StopRunning, ForgetTimestamps, ForgetIgnored, state
    <3>8. ~StartReceiver
      <4>1. SUFFICES ASSUME AtStep("start_receiver")
                     PROVE  FALSE
        BY DEF StartReceiver
      <4>2. 1 \in 1 .. Len(main.steps) /\ main.steps[1].do = "start_receiver"
        BY <4>1, HeadFacts
      <4>3. StopDaqShape(version, main.steps)
        BY DEF SessionInv, Programs
      <4> QED  BY <4>2, <4>3 DEF StopDaqShape, Stopping
    <3> QED  BY <3>4, <3>5, <3>6, <3>7, <3>8 DEF MainStep
  <2>3. AtStep("stop_receiver") /\ library' = library
    BY <2>2 DEF StopReceiver
  <2>4. main.steps[1].do = "stop_receiver"
    BY <2>3, HeadFacts
  <2>5. \A m \in modes : library[m] = "off"
    BY <2>4 DEF SessionInv, StopDaqState
  <2>6. \A m \in modes : callback[m].at = "idle"
    BY <2>5 DEF SessionInv, NoCallbackWhenOff
  <2> QED  BY <2>2, <2>3, <2>5, <2>6
<1> QED  BY <1>1, SessionInvariant, PTL DEF SessionSpec, StopsAll

-----------------------------------------------------------------------------
(* The cursor arithmetic of the ring, for every ring size                   *)

\* A cursor of the ring stays in the ring, whichever way the code moves it.
LEMMA SlotsClosed ==
  ASSUME NEW i \in Slots
  PROVE  Succ(i) \in Slots /\ Pred(i) \in Slots /\ Pred2(i) \in Slots
  BY NofBuffersAssumption DEF Slots, Succ, Pred, Pred2

\* Moving on and looking back cancel out.
LEMMA PredSucc ==
  ASSUME NEW i \in Slots
  PROVE  Pred(Succ(i)) = i /\ Succ(Pred(i)) = i
  BY NofBuffersAssumption DEF Slots, Succ, Pred

\* Positions ahead of a cursor: a number below the ring's size that tells slots
\* apart and is 0 for the cursor's own slot.
LEMMA AheadRange ==
  ASSUME NEW c \in Slots, NEW i \in Slots
  PROVE  Ahead(c, i) \in 0 .. NofBuffers - 1 /\ (Ahead(c, i) = 0 <=> i = c)
  BY NofBuffersAssumption DEF Slots, Ahead

\* Two slots at the same position, seen from one cursor, are the same slot.
LEMMA AheadInjective ==
  ASSUME NEW c \in Slots, NEW i \in Slots, NEW j \in Slots, Ahead(c, i) = Ahead(c, j)
  PROVE  i = j
  BY NofBuffersAssumption DEF Slots, Ahead

\* The slot after i is one further ahead, unless it is the cursor's own slot,
\* and then i is the last slot of the ring as the cursor sees it.
LEMMA AheadSucc ==
  ASSUME NEW c \in Slots, NEW i \in Slots
  PROVE  /\ Succ(i) # c => Ahead(c, Succ(i)) = Ahead(c, i) + 1
         /\ Succ(i) = c <=> Ahead(c, i) = NofBuffers - 1
  BY NofBuffersAssumption DEF Slots, Ahead, Succ

\* One slot back is one position less, for every slot but the cursor's.
LEMMA AheadPred ==
  ASSUME NEW c \in Slots, NEW i \in Slots, i # c
  PROVE  Ahead(c, Pred(i)) = Ahead(c, i) - 1
  BY NofBuffersAssumption DEF Slots, Ahead, Pred

\* The slot two before i is two positions less, once i is two ahead.
LEMMA AheadPred2 ==
  ASSUME NEW c \in Slots, NEW i \in Slots
  PROVE  /\ Ahead(c, i) >= 2 => Ahead(c, Pred2(i)) + 2 = Ahead(c, i)
         /\ Ahead(c, i) < 2 => Ahead(c, Pred2(i)) > Ahead(c, i)
  BY NofBuffersAssumption DEF Slots, Ahead, Pred2

\* When the cursor moves on, its old slot becomes the last one and every other
\* slot comes one position closer.
LEMMA AheadAdvance ==
  ASSUME NEW c \in Slots, NEW i \in Slots
  PROVE  Ahead(Succ(c), i) = IF i = c THEN NofBuffers - 1 ELSE Ahead(c, i) - 1
  BY NofBuffersAssumption DEF Slots, Ahead, Succ

-----------------------------------------------------------------------------

USE NofBuffersAssumption, StationAssumption

-----------------------------------------------------------------------------
(* Type correctness                                                         *)

\* The ring starts empty, with its cursors inside it.
LEMMA InitType == Init => TypeOK
<1>1. 0 \in Slots /\ 0 \in Nat
  BY DEF Slots
<1>2. \A f : f = [i \in Slots |-> {}] => f \in [Slots -> SUBSET Nat]
  OBVIOUS
<1>3. QED
  BY <1>1, <1>2, Zenon DEF Init, TypeOK

\* Adding a packet to a slot (process_data) keeps the shape of the contents.
LEMMA ProcessDataType ==
  ASSUME TypeOK, NEW i \in Slots, NEW pc \in Nat, ProcessData(i, pc)
  PROVE  /\ integrators' \in [Slots -> SUBSET Nat]
         /\ read_samples' \in [Slots -> SUBSET Nat]
  BY DEF ProcessData, TypeOK

\* A packet that write_data stores at once, or ignores, keeps the types.
LEMMA WriteType ==
  ASSUME TypeOK, NEW pc \in 1 .. MaxCounter, WriteData(pc)
  PROVE  TypeOK'
<1>1. pc \in Nat /\ newest' \in Nat
  BY DEF WriteData, WriteFirst, WriteLate, WriteCurrent, IgnoreBeyondNext,
         CrossBoundary, Arrives, TypeOK
<1>2. CASE WriteFirst(pc)
  BY <1>1, <1>2, ProcessDataType DEF WriteFirst, writer, reader, TypeOK
<1>3. CASE WriteLate(pc)
  <2>1. Pred(producer) \in Slots
    BY SlotsClosed DEF TypeOK
  <2>2. QED
    BY <1>1, <1>3, <2>1, ProcessDataType DEF WriteLate, data, writer, reader, TypeOK
<1>4. CASE WriteCurrent(pc)
  BY <1>1, <1>4, ProcessDataType DEF WriteCurrent, writer, reader, TypeOK
<1>5. CASE IgnoreBeyondNext(pc)
  BY <1>1, <1>5 DEF IgnoreBeyondNext, ring, data, writer, reader, TypeOK
<1>6. CASE CrossBoundary(pc)
  BY <1>1, <1>6, SlotsClosed DEF CrossBoundary, Publish, data, reader, TypeOK
<1>7. QED
  BY <1>2, <1>3, <1>4, <1>5, <1>6 DEF WriteData

\* Claiming the next slot at a boundary keeps the types.
LEMMA ClaimType ==
  ASSUME TypeOK, ClaimSlot
  PROVE  TypeOK'
  BY DEF ClaimSlot, NextIndex, reader, TypeOK

\* The steps of read_buffer and release_buffer keep the types.
LEMMA PersisterType ==
  ASSUME TypeOK, Persister
  PROVE  TypeOK'
<1>1. CASE ReadBuffer
  BY <1>1 DEF ReadBuffer, ring, data, writer, TypeOK
<1>2. CASE ReleaseIndex
  BY <1>2 DEF ReleaseIndex, data, writer, TypeOK
<1>3. CASE ReleaseIntegrators
  BY <1>3 DEF ReleaseIntegrators, writer, TypeOK
<1>4. CASE ReleaseAdvance
  BY <1>4, SlotsClosed DEF ReleaseAdvance, writer, TypeOK
<1>5. CASE PersisterStops
  BY <1>5 DEF PersisterStops, ring, data, writer, TypeOK
<1>6. QED
  BY <1>1, <1>2, <1>3, <1>4, <1>5 DEF Persister

\* At any pace, and for every ring size, buffer length and stream, the cursors
\* stay in the ring and every slot keeps well formed contents: the two threads
\* may disturb each other's data but never the shape of the ring.
THEOREM TypeCorrect == Spec => []TypeOK
<1>1. TypeOK /\ [Next]_vars => TypeOK'
  <2> SUFFICES ASSUME TypeOK, [Next]_vars PROVE TypeOK'
    OBVIOUS
  <2>1. ASSUME NEW pc \in 1 .. MaxCounter, WriteData(pc) PROVE TypeOK'
    BY <2>1, WriteType
  <2>2. CASE ClaimSlot
    BY <2>2, ClaimType
  <2>3. CASE Persister
    BY <2>3, PersisterType
  <2>4. CASE CleanUp
    BY <2>4 DEF CleanUp, ring, data, writer, reader, TypeOK
  <2>5. CASE UNCHANGED vars
    BY <2>5 DEF vars, ring, data, writer, reader, TypeOK
  <2>6. QED
    BY <2>1, <2>2, <2>3, <2>4, <2>5 DEF Next, Terminated
<1>2. QED
  BY <1>1, InitType, PTL DEF Spec

-----------------------------------------------------------------------------
(* The ring when the persister keeps up: KeepUpInv is inductive             *)

\* What the other lemmas use of TypeOK: the sizes of the ring and the positions in it.
LEMMA RingShape ==
  ASSUME TypeOK
  PROVE  /\ Bottom \in Slots /\ Top \in Slots
         /\ \A i \in Slots : Depth(i) \in 0 .. NofBuffers - 1
         /\ \A i \in Slots : index[i] \in Nat
  BY SlotsClosed, AheadRange DEF TypeOK, Bottom, Top, Depth

\* In the empty ring no slot is in use, so the row of buffers is empty.
LEMMA InitKeepUp == Init => KeepUpInv
<1> SUFFICES ASSUME Init PROVE KeepUpInv
  OBVIOUS
<1>1. TypeOK
  BY InitType
<1>2. NotStartedInv
  BY DEF Init, NotStartedInv, waiting
<1>3. ~Started
  BY <1>1, <1>2, RingShape DEF Started, NotStartedInv
<1>4. QED
  BY <1>1, <1>2, <1>3 DEF KeepUpInv

\* A step that leaves every index and ready flag, the cursors and both threads'
\* places alone leaves the shape of the ring alone.
LEMMA DataStep ==
  ASSUME KeepUpInv, TypeOK', UNCHANGED <<index, ready, writer, reader>>
  PROVE  KeepUpInv'
<1>1. /\ Bottom' = Bottom /\ Top' = Top /\ waiting' = waiting
      /\ InCallback' = InCallback
  BY DEF Bottom, Top, waiting, InCallback, writer, reader
<1>2. \A i : Depth(i)' = Depth(i)
  BY <1>1 DEF Depth
<1>3. Started' = Started
  BY <1>1 DEF Started
<1>4. CASE Started
  <2>1. OccupiedInv'
    BY <1>1, <1>2, <1>4 DEF KeepUpInv, OccupiedInv
  <2>2. ReadyInv'
    BY <1>1, <1>2, <1>4 DEF KeepUpInv, ReadyInv, reader
  <2>3. PersisterInv'
    BY <1>1, <1>2, <1>4 DEF KeepUpInv, PersisterInv, reader
  <2>4. WaitInv'
    BY <1>1, <1>4 DEF KeepUpInv, WaitInv, writer
  <2>5. QED
    BY <1>3, <1>4, <2>1, <2>2, <2>3, <2>4 DEF KeepUpInv
<1>5. CASE ~Started
  <2>1. NotStartedInv'
    BY <1>1, <1>5 DEF KeepUpInv, NotStartedInv, writer, reader
  <2>2. QED
    BY <1>3, <1>5, <2>1 DEF KeepUpInv
<1>6. QED
  BY <1>4, <1>5

\* The first packet opens slot Top, which is the only one in use.
LEMMA FirstStep ==
  ASSUME KeepUpInv, NEW pc \in 1 .. MaxCounter, WriteFirst(pc), TypeOK'
  PROVE  KeepUpInv'
<1>1. TypeOK /\ pc \in Nat /\ pc # 0 /\ producer \in Slots
  BY DEF KeepUpInv, TypeOK
<1>2. ~waiting /\ Top = producer /\ NotStartedInv
  BY DEF WriteFirst, Arrives, Top, Started, IsOpen, KeepUpInv
<1>3. /\ ~waiting' /\ Top' = producer /\ Bottom' = producer
      /\ UNCHANGED <<ready, writer, reader>>
  BY <1>2 DEF WriteFirst, writer, reader, Top, Bottom, waiting, NotStartedInv
<1>4. \A i \in Slots : index'[i] = IF i = producer THEN pc ELSE 0
  BY <1>1, <1>2 DEF WriteFirst, NotStartedInv, TypeOK
<1>5. \A i \in Slots : Depth(i)' \in Nat /\ (Depth(i)' = 0 <=> i = producer)
  BY <1>1, <1>3, AheadRange DEF Depth
<1>6. Started'
  BY <1>1, <1>3, <1>4 DEF Started
<1>7. OccupiedInv'
  BY <1>1, <1>3, <1>4, <1>5 DEF OccupiedInv
<1>8. ReadyInv'
  BY <1>2, <1>3 DEF ReadyInv, NotStartedInv
<1>9. PersisterInv' /\ WaitInv'
  BY <1>2, <1>3 DEF PersisterInv, WaitInv, NotStartedInv, InCallback, reader
<1>10. QED
  BY <1>6, <1>7, <1>8, <1>9 DEF KeepUpInv

\* At a boundary the buffer before the previous one becomes ready, if there is
\* one; the ring is not otherwise changed until the next slot is claimed.
LEMMA CrossStep ==
  ASSUME KeepUpInv, NEW pc \in 1 .. MaxCounter, CrossBoundary(pc), TypeOK'
  PROVE  KeepUpInv'
<1>1. TypeOK /\ producer \in Slots /\ Bottom \in Slots /\ Pred2(producer) \in Slots
  BY RingShape, SlotsClosed DEF KeepUpInv, TypeOK
<1>2. ~waiting /\ Top = producer /\ Started
  BY DEF CrossBoundary, Arrives, Top, Started, IsOpen
<1>3. waiting' /\ Top' = Top /\ Bottom' = Bottom /\ UNCHANGED <<index, reader>>
  BY <1>1, <1>2, PredSucc DEF CrossBoundary, waiting, Top, Bottom, reader
<1>4. \A i : Depth(i)' = Depth(i)
  BY <1>3 DEF Depth
<1>5. OccupiedInv /\ ReadyInv /\ PersisterInv
  BY <1>2 DEF KeepUpInv
<1>6. index[Pred2(producer)] # 0 => Depth(Pred2(producer)) + 2 <= Depth(Top)
  <2>1. Depth(Top) < 2 => Depth(Pred2(producer)) > Depth(Top)
    BY <1>1, <1>2, AheadPred2 DEF Depth
  <2>2. Depth(Top) >= 2 => Depth(Pred2(producer)) + 2 <= Depth(Top)
    BY <1>1, <1>2, AheadPred2, RingShape DEF Depth
  <2>3. Depth(Top) \in Nat
    BY <1>1, <1>2, RingShape
  <2>4. QED
    BY <1>1, <1>5, <2>1, <2>2, <2>3 DEF OccupiedInv
<1>7. Started'
  BY <1>2, <1>3 DEF Started
<1>8. OccupiedInv'
  BY <1>3, <1>4, <1>5 DEF OccupiedInv
<1>9. ReadyInv'
  BY <1>3, <1>4, <1>5, <1>6 DEF ReadyInv, reader, CrossBoundary, Publish
<1>10. PersisterInv'
  BY <1>3, <1>4, <1>5 DEF PersisterInv, InCallback, reader, CrossBoundary, Publish
<1>11. WaitInv'
  BY <1>2, <1>3 DEF CrossBoundary, WaitInv
<1>12. QED
  BY <1>7, <1>8, <1>9, <1>10, <1>11 DEF KeepUpInv

\* A slot is claimed only once it is free, and then extends the row of slots in
\* use by one.
LEMMA ClaimStep ==
  ASSUME KeepUpInv, ClaimSlot, Pace # "overrun", TypeOK'
  PROVE  KeepUpInv'
<1>1. /\ TypeOK /\ producer \in Slots /\ Pred(producer) \in Slots
      /\ Bottom \in Slots
  BY RingShape, SlotsClosed DEF KeepUpInv, TypeOK
<1>2. waiting /\ Top = Pred(producer) /\ index[producer] = 0
  BY DEF ClaimSlot, MayClaim, IsOpen, Top
<1>3. Started /\ OccupiedInv /\ ReadyInv /\ PersisterInv /\ WaitInv
  BY <1>2 DEF KeepUpInv, NotStartedInv
<1>4. \A i \in Slots : Depth(i) \in Nat /\ index[i] \in Nat
  BY <1>1, RingShape
<1>5. Depth(producer) = Depth(Top) + 1 /\ producer # Bottom
  <2>1. Depth(producer) > Depth(Top)
    BY <1>1, <1>2, <1>3, <1>4 DEF OccupiedInv
  <2>2. producer # Bottom
    BY <1>1, <1>2, <1>4, <2>1, AheadRange DEF Depth
  <2>3. QED
    BY <1>1, <1>2, <1>4, <2>2, AheadPred DEF Depth
<1>6. ~waiting' /\ Top' = producer /\ Bottom' = Bottom /\ UNCHANGED <<ready, reader>>
  BY DEF ClaimSlot, waiting, Top, Bottom, reader
<1>7. \A i : Depth(i)' = Depth(i)
  BY <1>6 DEF Depth
<1>8. \A i \in Slots : index'[i] = IF i = producer THEN index[Top] + Window
                                                  ELSE index[i]
  BY <1>1, <1>2, <1>3 DEF ClaimSlot, NextIndex, WaitInv, TypeOK
<1>9. Started'
  BY <1>1, <1>2, <1>4, <1>6, <1>8 DEF Started
<1>10. OccupiedInv'
  <2> SUFFICES ASSUME NEW i \in Slots
               PROVE  /\ Depth(i) <= Depth(producer) => index'[i] # 0
                      /\ Depth(i) < Depth(producer)
                           => index'[Succ(i)] = index'[i] + Window
                      /\ Depth(i) > Depth(producer) => index'[i] = 0
    BY <1>6, <1>7 DEF OccupiedInv
  <2>1. CASE i = producer
    BY <1>1, <1>2, <1>4, <1>8, <2>1
  <2>2. CASE i = Top
    <3>1. Succ(i) = producer /\ i # producer
      BY <1>1, <1>2, <1>4, <1>5, <2>2, PredSucc
    <3>2. QED
      BY <1>1, <1>2, <1>3, <1>4, <1>5, <1>8, <2>2, <3>1 DEF OccupiedInv
  <2>3. CASE i # producer /\ i # Top
    <3>1. Succ(i) \in Slots /\ Succ(i) # producer
      BY <1>1, <1>2, <2>3, SlotsClosed, PredSucc
    <3>2. Depth(i) # Depth(producer) /\ Depth(i) # Depth(Top)
      BY <1>1, <1>2, <2>3, AheadInjective DEF Depth
    <3>3. QED
      BY <1>1, <1>2, <1>3, <1>4, <1>5, <1>8, <2>3, <3>1, <3>2 DEF OccupiedInv
  <2>4. QED
    BY <2>1, <2>2, <2>3
<1>11. ReadyInv'
  BY <1>1, <1>2, <1>3, <1>4, <1>5, <1>6, <1>7 DEF ReadyInv, reader, TypeOK
<1>12. PersisterInv'
  <2>1. InCallback => Bottom = consumer
    BY DEF Bottom, InCallback
  <2>2. QED
    BY <1>1, <1>2, <1>3, <1>4, <1>5, <1>6, <1>7, <1>8, <2>1
       DEF PersisterInv, InCallback, reader
<1>13. WaitInv'
  BY <1>6 DEF WaitInv
<1>14. QED
  BY <1>9, <1>10, <1>11, <1>12, <1>13 DEF KeepUpInv

\* read_buffer hands out the slot at the persister's cursor, which is ready.
LEMMA ReadStep ==
  ASSUME KeepUpInv, ReadBuffer, TypeOK'
  PROVE  KeepUpInv'
<1>1. Started
  BY DEF KeepUpInv, NotStartedInv, ReadBuffer
<1>2. /\ Bottom' = Bottom /\ Top' = Top /\ waiting' = waiting /\ InCallback'
      /\ UNCHANGED <<index, ready, consumer, writer>> /\ persister' = "callback"
  BY DEF ReadBuffer, Bottom, Top, waiting, InCallback, ring, writer
<1>3. \A i : Depth(i)' = Depth(i)
  BY <1>2 DEF Depth
<1>4. Started' /\ OccupiedInv' /\ WaitInv'
  BY <1>1, <1>2, <1>3 DEF KeepUpInv, Started, OccupiedInv, WaitInv, writer
<1>5. ReadyInv'
  BY <1>1, <1>2, <1>3 DEF KeepUpInv, ReadyInv, ReadBuffer
<1>6. PersisterInv'
  BY <1>2 DEF PersisterInv, ReadBuffer
<1>7. QED
  BY <1>4, <1>5, <1>6 DEF KeepUpInv

\* Resetting its index gives the bottom slot up: every other slot comes one
\* position closer, and the next one holds the buffer that follows.
LEMMA ReleaseIndexStep ==
  ASSUME KeepUpInv, ReleaseIndex, TypeOK'
  PROVE  KeepUpInv'
<1>1. /\ TypeOK /\ consumer \in Slots /\ Bottom = consumer /\ Top \in Slots
      /\ Succ(consumer) \in Slots
  BY RingShape, SlotsClosed DEF KeepUpInv, TypeOK, ReleaseIndex, Bottom
<1>2. /\ Started /\ OccupiedInv /\ ReadyInv /\ WaitInv
      /\ consumer \in ready /\ delivered = index[consumer]
  BY DEF KeepUpInv, NotStartedInv, ReleaseIndex, PersisterInv, InCallback
<1>3. \A i \in Slots : Depth(i) \in 0 .. NofBuffers - 1 /\ index[i] \in Nat
  BY <1>1, RingShape
<1>4. Depth(consumer) = 0 /\ Depth(Top) >= 2
  <2>1. Depth(consumer) = 0
    BY <1>1, AheadRange DEF Depth
  <2>2. QED
    BY <1>1, <1>2, <1>3, <2>1 DEF ReadyInv, ReleaseIndex
<1>5. /\ Bottom' = Succ(consumer) /\ Top' = Top /\ waiting' = waiting
      /\ UNCHANGED <<ready, consumer, writer, delivered>> /\ persister' = "release"
  BY DEF ReleaseIndex, Bottom, Top, waiting, writer
<1>6. \A i \in Slots :
        Depth(i)' = IF i = consumer THEN NofBuffers - 1 ELSE Depth(i) - 1
  BY <1>1, <1>5, AheadAdvance DEF Depth
<1>7. \A i \in Slots : index'[i] = IF i = consumer THEN 0 ELSE index[i]
  BY <1>1 DEF ReleaseIndex, TypeOK
<1>8. Top # consumer
  BY <1>1, <1>3, <1>4
<1>9. Started'
  BY <1>1, <1>2, <1>5, <1>7, <1>8 DEF Started
<1>10. OccupiedInv'
  <2> SUFFICES ASSUME NEW i \in Slots
               PROVE  /\ Depth(i)' <= Depth(Top)' => index'[i] # 0
                      /\ Depth(i)' < Depth(Top)' => index'[Succ(i)] = index'[i] + Window
                      /\ Depth(i)' > Depth(Top)' => index'[i] = 0
    BY <1>5 DEF OccupiedInv
  <2>1. Depth(Top)' = Depth(Top) - 1
    BY <1>1, <1>5, <1>8, AheadAdvance DEF Depth
  <2>2. CASE i = consumer
    BY <1>1, <1>3, <1>6, <1>7, <2>1, <2>2
  <2>3. CASE i # consumer
    <3>1. Succ(i) \in Slots
      BY SlotsClosed
    <3>2. Succ(i) = consumer => Depth(i) = NofBuffers - 1
      BY <1>1, AheadSucc DEF Depth
    <3>3. QED
      BY <1>1, <1>2, <1>3, <1>6, <1>7, <2>1, <2>3, <3>1, <3>2 DEF OccupiedInv
  <2>4. QED
    BY <2>2, <2>3
<1>11. ReadyInv'
  <2>1. Depth(Top)' = Depth(Top) - 1
    BY <1>1, <1>5, <1>8, AheadAdvance DEF Depth
  <2>2. ready \subseteq Slots
    BY <1>1 DEF TypeOK
  <2>3. persister # "release"
    BY DEF ReleaseIndex
  <2>4. QED
    BY <1>2, <1>3, <1>5, <1>6, <2>1, <2>2, <2>3, <1>1 DEF ReadyInv
<1>12. PersisterInv'
  <2>1. index[Succ(consumer)] = delivered + Window
    BY <1>1, <1>2, <1>3, <1>4 DEF OccupiedInv
  <2>2. Succ(consumer) # consumer
    BY <1>1, <1>3, <1>4, AheadSucc DEF Depth
  <2>3. delivered # 0
    BY <1>1, <1>2, <1>3, <1>4 DEF OccupiedInv
  <2>4. Depth(Top)' >= 1
    BY <1>1, <1>3, <1>4, <1>5, <1>8, AheadAdvance DEF Depth
  <2>5. QED
    BY <1>1, <1>5, <1>7, <2>1, <2>2, <2>3, <2>4 DEF PersisterInv, InCallback
<1>13. WaitInv'
  BY <1>1, <1>2, <1>5, <1>7, <1>8 DEF WaitInv, writer
<1>14. QED
  BY <1>9, <1>10, <1>11, <1>12, <1>13 DEF KeepUpInv

\* The rest of release_buffer, and stopping, change neither an index nor the
\* position of any slot.
LEMMA PersisterMoves ==
  ASSUME KeepUpInv, ReleaseIntegrators \/ ReleaseAdvance \/ PersisterStops, TypeOK'
  PROVE  KeepUpInv'
<1>1. TypeOK
  BY DEF KeepUpInv
<1>2. /\ Bottom' = Bottom /\ Top' = Top /\ waiting' = waiting
      /\ ~InCallback /\ ~InCallback' /\ UNCHANGED <<index, writer, delivered>>
      /\ ready' \subseteq ready
  BY DEF ReleaseIntegrators, ReleaseAdvance, PersisterStops, Bottom, Top,
         waiting, InCallback, ring, writer
<1>3. \A i : Depth(i)' = Depth(i)
  BY <1>2 DEF Depth
<1>4. Started' = Started
  BY <1>2 DEF Started
<1>5. CASE Started
  <2>1. OccupiedInv' /\ WaitInv'
    BY <1>2, <1>3, <1>5 DEF KeepUpInv, OccupiedInv, WaitInv, writer
  <2>2. ReadyInv'
    <3>1. \A i \in ready' : ~(i = consumer /\ persister = "release")
      BY DEF ReleaseIntegrators, ReleaseAdvance, PersisterStops
    <3>2. QED
      BY <1>2, <1>3, <1>5, <3>1 DEF KeepUpInv, ReadyInv
  <2>3. PersisterInv'
    <3>1. persister' = "advance" => persister = "release"
      BY DEF ReleaseIntegrators, ReleaseAdvance, PersisterStops
    <3>2. persister' # "release"
      BY DEF ReleaseIntegrators, ReleaseAdvance, PersisterStops
    <3>3. QED
      BY <1>2, <1>3, <1>5, <3>1, <3>2 DEF KeepUpInv, PersisterInv
  <2>4. QED
    BY <1>4, <1>5, <2>1, <2>2, <2>3 DEF KeepUpInv
<1>6. CASE ~Started
  <2>1. NotStartedInv /\ PersisterStops
    BY <1>6 DEF KeepUpInv, NotStartedInv, ReleaseIntegrators, ReleaseAdvance
  <2>2. NotStartedInv'
    BY <1>2, <2>1 DEF NotStartedInv, PersisterStops, ring, writer
  <2>3. QED
    BY <1>4, <1>6, <2>2 DEF KeepUpInv
<1>7. QED
  BY <1>5, <1>6

\* Every step of either thread keeps the row of consecutive buffers.
LEMMA KeepUpStep ==
  ASSUME KeepUpInv, [Next]_vars, Pace # "overrun"
  PROVE  KeepUpInv'
<1>1. TypeOK
  BY DEF KeepUpInv
<1>2. ASSUME NEW pc \in 1 .. MaxCounter, WriteData(pc) PROVE KeepUpInv'
  <2>1. TypeOK'
    BY <1>1, <1>2, WriteType
  <2>2. CASE WriteFirst(pc)
    BY <2>1, <2>2, FirstStep
  <2>3. CASE WriteLate(pc) \/ WriteCurrent(pc) \/ IgnoreBeyondNext(pc)
    BY <2>1, <2>3, DataStep DEF WriteLate, WriteCurrent, IgnoreBeyondNext, ring
  <2>4. CASE CrossBoundary(pc)
    BY <2>1, <2>4, CrossStep
  <2>5. QED
    BY <1>2, <2>2, <2>3, <2>4 DEF WriteData
<1>3. CASE ClaimSlot
  BY <1>1, <1>3, ClaimType, ClaimStep
<1>4. CASE Persister
  <2>1. TypeOK'
    BY <1>1, <1>4, PersisterType
  <2>2. QED
    BY <1>4, <2>1, ReadStep, ReleaseIndexStep, PersisterMoves DEF Persister
<1>5. CASE CleanUp \/ UNCHANGED vars
  <2>1. UNCHANGED <<ring, writer, reader>>
    BY <1>5 DEF CleanUp, vars
  <2>2. TypeOK'
    BY <1>1, <1>5, <2>1 DEF CleanUp, vars, ring, data, writer, reader, TypeOK
  <2>3. QED
    BY <2>1, <2>2, DataStep DEF ring
<1>6. QED
  BY <1>2, <1>3, <1>4, <1>5 DEF Next, Terminated

\* The shape of the ring, for every ring size and buffer length, as long as the
\* wait for a free slot does not run out: the slots in use are a row of
\* consecutive buffers from the persister's cursor to the producer's, and only
\* slots two or more behind the one being filled are ready.
THEOREM KeepUpInvariant ==
  ASSUME Pace # "overrun"
  PROVE  Spec => []KeepUpInv
<1>1. KeepUpInv /\ [Next]_vars => KeepUpInv'
  BY KeepUpStep
<1>2. QED
  BY <1>1, InitKeepUp, PTL DEF Spec

-----------------------------------------------------------------------------
(* Consequences for what the callback sees                                  *)

\* While the callback runs, its slot is at the bottom of the ring, in use, and
\* at least two buffers behind the slot the producer opened last.
LEMMA CallbackPosition ==
  ASSUME KeepUpInv, InCallback
  PROVE  /\ Started /\ Bottom = consumer /\ consumer \in Slots
         /\ consumer \in ready /\ index[consumer] # 0
         /\ delivered = index[consumer]
         /\ Depth(consumer) = 0 /\ Depth(Top) >= 2
<1>1. TypeOK /\ Bottom = consumer /\ consumer \in Slots /\ persister # "release"
  BY DEF KeepUpInv, TypeOK, InCallback, Bottom
<1>2. Started /\ OccupiedInv /\ ReadyInv /\ PersisterInv
  BY DEF KeepUpInv, NotStartedInv, InCallback
<1>3. consumer \in ready /\ delivered = index[consumer]
  BY <1>2 DEF PersisterInv
<1>4. Depth(consumer) = 0 /\ Depth(Top) \in Nat
  BY <1>1, RingShape, AheadRange DEF Depth
<1>5. Depth(Top) >= 2
  BY <1>1, <1>2, <1>3, <1>4 DEF ReadyInv
<1>6. index[consumer] # 0
  BY <1>1, <1>2, <1>4, <1>5 DEF OccupiedInv
<1>7. QED
  BY <1>1, <1>2, <1>3, <1>4, <1>5, <1>6

\* The producer never touches the slot in the callback: it writes to the slot it
\* opened last, to the one before, or to a free slot.
LEMMA CallbackUndisturbed ==
  ASSUME KeepUpInv, [Next]_vars, Pace # "overrun", InCallback, InCallback'
  PROVE  /\ consumer \in ready'
         /\ index'[consumer] = index[consumer]
         /\ integrators'[consumer] = integrators[consumer]
         /\ read_samples'[consumer] = read_samples[consumer]
<1>1. TypeOK /\ producer \in Slots /\ Pred(producer) \in Slots
  BY SlotsClosed DEF KeepUpInv, TypeOK
<1>2. /\ Started /\ Bottom = consumer /\ consumer \in Slots
      /\ consumer \in ready /\ index[consumer] # 0
      /\ Depth(consumer) = 0 /\ Depth(Top) >= 2
  BY CallbackPosition
<1>3. ASSUME ~waiting PROVE producer # consumer /\ Pred(producer) # consumer
  <2>1. Top = producer /\ producer # consumer
    BY <1>2, <1>3 DEF Top
  <2>2. Depth(Pred(producer)) = Depth(producer) - 1
    BY <1>1, <1>2, <2>1, AheadPred DEF Depth
  <2>3. Depth(producer) \in Nat
    BY <1>1, RingShape
  <2>4. QED
    BY <1>2, <2>1, <2>2, <2>3
<1>4. ASSUME NEW pc \in 1 .. MaxCounter, WriteData(pc)
      PROVE  /\ consumer \in ready'
             /\ index'[consumer] = index[consumer]
             /\ integrators'[consumer] = integrators[consumer]
             /\ read_samples'[consumer] = read_samples[consumer]
  <2>1. ~waiting
    BY <1>4 DEF WriteData, WriteFirst, WriteLate, WriteCurrent, IgnoreBeyondNext,
                CrossBoundary, Arrives
  <2>2. producer # consumer /\ Pred(producer) # consumer
    BY <1>3, <2>1
  <2>3. CASE WriteFirst(pc)
    BY <1>2, <2>1, <2>3 DEF WriteFirst, IsOpen, Started, Top
  <2>4. CASE WriteLate(pc)
    BY <1>1, <1>2, <2>2, <2>4 DEF WriteLate, ProcessData, data, TypeOK
  <2>5. CASE WriteCurrent(pc)
    BY <1>1, <1>2, <2>2, <2>5 DEF WriteCurrent, ProcessData, TypeOK
  <2>6. CASE IgnoreBeyondNext(pc)
    BY <1>2, <2>6 DEF IgnoreBeyondNext, ring, data
  <2>7. CASE CrossBoundary(pc)
    BY <1>2, <2>7 DEF CrossBoundary, Publish, data
  <2>8. QED
    BY <1>4, <2>3, <2>4, <2>5, <2>6, <2>7 DEF WriteData
<1>5. CASE ClaimSlot
  <2>1. producer # consumer
    BY <1>2, <1>5 DEF ClaimSlot, MayClaim, IsOpen
  <2>2. QED
    BY <1>1, <1>2, <1>5, <2>1 DEF ClaimSlot, NextIndex, TypeOK
<1>6. CASE Persister
  BY <1>6 DEF Persister, ReadBuffer, ReleaseIndex, ReleaseIntegrators,
              ReleaseAdvance, PersisterStops, InCallback
<1>7. CASE CleanUp \/ UNCHANGED vars
  BY <1>2, <1>7 DEF CleanUp, vars, ring, data
<1>8. QED
  BY <1>4, <1>5, <1>6, <1>7 DEF Next, Terminated

\* For every ring size, buffer length, stream and schedule of the two threads,
\* nothing changes under the callback, although it holds no lock: it is enough
\* that the producer waits for a slot to be free before it claims it.
THEOREM CallbackIsStable ==
  ASSUME Pace # "overrun"
  PROVE  Spec => StableDuringCallback
<1>1. KeepUpInv /\ [Next]_vars
        => [InCallback /\ InCallback'
              => /\ consumer \in ready'
                 /\ index'[consumer] = index[consumer]
                 /\ integrators'[consumer] = integrators[consumer]
                 /\ read_samples'[consumer] = read_samples[consumer]]_vars
  BY CallbackUndisturbed
<1>2. QED
  BY <1>1, KeepUpInvariant, PTL DEF Spec, StableDuringCallback

\* Only read_buffer hands a buffer over, and what stands at the bottom of the
\* ring then follows what was delivered before.
LEMMA NextDelivered ==
  ASSUME KeepUpInv, Next, delivered' # delivered, delivered # 0
  PROVE  delivered' = delivered + Window
<1>1. ReadBuffer
  BY DEF Next, Terminated, WriteData, WriteFirst, WriteLate, WriteCurrent,
         IgnoreBeyondNext, CrossBoundary, ClaimSlot, Persister, ReleaseIndex,
         ReleaseIntegrators, ReleaseAdvance, PersisterStops, CleanUp, vars, reader
<1>2. Started /\ PersisterInv /\ Bottom = consumer /\ ~InCallback
  BY <1>1 DEF KeepUpInv, NotStartedInv, ReadBuffer, Bottom, InCallback
<1>3. QED
  BY <1>1, <1>2 DEF ReadBuffer, PersisterInv

\* For every ring size, buffer length and stream, the callback gets the buffers
\* one after the other: none twice, none skipped, none out of order.
THEOREM DeliveryInOrder ==
  ASSUME Pace # "overrun"
  PROVE  Spec => SuccessiveBuffers
<1>1. KeepUpInv /\ [Next]_vars
        => [delivered' # delivered /\ delivered # 0
              => delivered' = delivered + Window]_vars
  BY NextDelivered
<1>2. QED
  BY <1>1, KeepUpInvariant, PTL DEF Spec, SuccessiveBuffers

-----------------------------------------------------------------------------
(* The contents of the slots: DataInv is inductive when Pace is "ahead" and *)
(* no packet is older than the first one                                    *)

\* In the empty ring sums and counts are empty, so they agree.
LEMMA InitData == Init => DataInv
<1> SUFFICES ASSUME Init PROVE DataInv
  OBVIOUS
<1>1. KeepUpInv /\ TypeOK
  BY InitKeepUp, InitType
<1>2. /\ ~Started /\ newest = 0
      /\ \A i \in Slots : index[i] = 0 /\ integrators[i] = {} /\ read_samples[i] = {}
  BY <1>1, RingShape DEF Init, Started
<1>3. ~waiting /\ ~Releasing /\ persister # "advance"
  BY DEF Init, waiting, Releasing
<1>4. ContentsInv /\ CleanInv /\ AheadInv /\ FirstInv
  BY <1>2, <1>3 DEF ContentsInv, CleanInv, AheadInv, FirstInv
<1>5. QED
  BY <1>1, <1>4 DEF DataInv

\* While only one slot is in use nothing has been delivered, and that slot
\* starts at the first packet.
LEMMA LoneSlot ==
  ASSUME DataInv, Started, Depth(Top) = 0
  PROVE  index[Top] = First
<1>1. TypeOK /\ PersisterInv /\ ReadyInv
  BY DEF DataInv, KeepUpInv
<1>2. Bottom \in Slots /\ Top \in Slots
  BY <1>1, RingShape
<1>3. Top = Bottom
  BY <1>2, AheadRange DEF Depth
<1>4. ~InCallback
  BY CallbackPosition DEF DataInv
<1>5. delivered = 0
  BY <1>1, <1>4 DEF PersisterInv
<1>6. QED
  BY <1>3, <1>5 DEF DataInv, FirstInv

\* Adding a packet of its span to a slot in use keeps the contents well formed.
LEMMA ProcessDataContents ==
  ASSUME DataInv, Started, NEW i \in Slots, NEW pc \in Nat, ProcessData(i, pc),
         index[i] # 0, pc \in index[i] .. index[i] + Window,
         UNCHANGED <<index, ready, writer, reader>>, KeepUpInv'
  PROVE  DataInv'
<1>1. TypeOK /\ \A j \in Slots : index[j] \in Nat
  BY RingShape DEF DataInv, KeepUpInv
<1>2. /\ \A j \in Slots : integrators'[j] =
             IF j = i THEN integrators[j] \cup {pc} ELSE integrators[j]
      /\ \A j \in Slots : read_samples'[j] =
             IF j = i THEN read_samples[j] \cup {pc} ELSE read_samples[j]
  BY <1>1 DEF ProcessData, TypeOK
<1>3. ContentsInv'
  BY <1>1, <1>2 DEF DataInv, ContentsInv
<1>4. persister = "advance" => consumer # i
  BY DEF DataInv, AheadInv, Releasing
<1>5. CleanInv'
  BY <1>1, <1>2, <1>4 DEF DataInv, CleanInv, Releasing, reader, TypeOK
<1>6. AheadInv'
  BY DEF DataInv, AheadInv, waiting, Releasing, writer, reader
<1>7. Top' = Top /\ Bottom' = Bottom
  BY DEF Top, Bottom, waiting, writer, reader
<1>8. FirstInv'
  BY <1>7 DEF DataInv, FirstInv, Started, reader
<1>9. QED
  BY <1>3, <1>5, <1>6, <1>8 DEF DataInv

\* write_data's steps add a packet to sums and counts alike, and only to the slot of
\* its span, to the next one's start, or to none.
LEMMA WriteContents ==
  ASSUME DataInv, NEW pc \in 1 .. MaxCounter, WriteData(pc), KeepUpInv',
         Pace = "ahead", ~EarlierThanFirst
  PROVE  DataInv'
<1>1. /\ TypeOK /\ pc \in Nat /\ pc # 0 /\ producer \in Slots
      /\ Pred(producer) \in Slots /\ KeepUpInv
      /\ \A j \in Slots : index[j] \in Nat
  BY SlotsClosed DEF DataInv, KeepUpInv, TypeOK
<1>2. ~waiting /\ Top = producer
  BY DEF WriteData, WriteFirst, WriteLate, WriteCurrent, IgnoreBeyondNext,
         CrossBoundary, Arrives, Top
<1>3. pc >= First /\ (newest = 0 => pc = First)
  BY <1>1 DEF WriteData, WriteFirst, WriteLate, WriteCurrent, IgnoreBeyondNext,
              CrossBoundary, Arrives
<1>4. IsOpen <=> Started
  BY <1>2 DEF IsOpen, Started
<1>5. CASE WriteFirst(pc)
  <2>1. /\ ~Started /\ newest = 0 /\ pc = First /\ NotStartedInv
    BY <1>1, <1>3, <1>4, <1>5 DEF WriteFirst, DataInv, FirstInv, KeepUpInv
  <2>2. /\ consumer = producer /\ ~Releasing
        /\ \A j \in Slots : index[j] = 0 /\ integrators[j] = {} /\ read_samples[j] = {}
    BY <2>1 DEF NotStartedInv, Releasing, DataInv, CleanInv
  <2>3. UNCHANGED <<ready, writer, reader>>
    BY <1>5 DEF WriteFirst
  <2>4. \A j \in Slots :
          /\ index'[j] = IF j = producer THEN pc ELSE 0
          /\ integrators'[j] = IF j = producer THEN {pc} ELSE {}
          /\ read_samples'[j] = IF j = producer THEN {pc} ELSE {}
    BY <1>1, <1>5, <2>2 DEF WriteFirst, ProcessData, TypeOK
  <2>5. ContentsInv'
    BY <1>1, <2>4 DEF ContentsInv
  <2>6. ~Releasing' /\ ~waiting' /\ Top' = producer /\ Bottom' = producer
    BY <1>2, <2>2, <2>3 DEF Releasing, waiting, writer, reader, Top, Bottom
  <2>7. CleanInv' /\ AheadInv'
    BY <2>4, <2>6, <1>1 DEF CleanInv, AheadInv, Releasing
  <2>8. FirstInv'
    BY <1>1, <2>1, <2>4, <2>6 DEF FirstInv, Started
  <2>9. QED
    BY <2>5, <2>7, <2>8 DEF DataInv
<1>6. CASE WriteLate(pc)
  <2>1. UNCHANGED <<index, ready, writer, reader>> /\ Started
    BY <1>4, <1>6 DEF WriteLate
  <2>2. CASE IsOlderThan(Pred(producer), pc)
    <3>1. UNCHANGED <<integrators, read_samples>>
      BY <1>6, <2>2 DEF WriteLate, data
    <3>2. ContentsInv' /\ CleanInv'
      BY <2>1, <3>1 DEF DataInv, ContentsInv, CleanInv, Releasing, reader
    <3>3. AheadInv' /\ FirstInv'
      BY <2>1 DEF DataInv, AheadInv, FirstInv, Started, waiting, Releasing, Top,
                  Bottom, writer, reader
    <3>4. QED
      BY <3>2, <3>3 DEF DataInv
  <2>3. CASE ~IsOlderThan(Pred(producer), pc)
    <3>1. index[Pred(producer)] <= pc /\ pc < index[producer]
      BY <1>1, <1>6, <2>3 DEF WriteLate, IsOlderThan, Offset
    <3>2. Depth(producer) # 0
      BY <1>1, <1>2, <1>3, <2>1, <3>1, LoneSlot
    <3>3. /\ Depth(Pred(producer)) = Depth(producer) - 1
          /\ Depth(producer) \in Nat
      <4>1. Bottom \in Slots /\ producer # Bottom
        BY <1>1, <3>2, RingShape, AheadRange DEF Depth
      <4>2. QED
        BY <1>1, <4>1, AheadPred, RingShape DEF Depth
    <3>4. /\ index[Pred(producer)] # 0
          /\ index[producer] = index[Pred(producer)] + Window
      BY <1>1, <1>2, <2>1, <3>3, PredSucc DEF KeepUpInv, OccupiedInv
    <3>5. ProcessData(Pred(producer), pc)
      BY <1>6, <2>3 DEF WriteLate
    <3>6. QED
      BY <1>1, <2>1, <3>1, <3>4, <3>5, ProcessDataContents
  <2>4. QED
    BY <2>2, <2>3
<1>7. CASE WriteCurrent(pc)
  <2>1. UNCHANGED <<index, ready, writer, reader>> /\ Started /\ ProcessData(producer, pc)
    BY <1>4, <1>7 DEF WriteCurrent
  <2>2. index[producer] # 0 /\ pc \in index[producer] .. index[producer] + Window
    BY <1>1, <1>7 DEF WriteCurrent, IsOpen, Offset
  <2>3. QED
    BY <1>1, <2>1, <2>2, ProcessDataContents
<1>8. CASE IgnoreBeyondNext(pc)
  <2>1. UNCHANGED ring /\ UNCHANGED <<writer, reader>> /\ Started
    BY <1>4, <1>8 DEF IgnoreBeyondNext
  <2>2. ContentsInv' /\ CleanInv' /\ AheadInv' /\ FirstInv'
    BY <2>1 DEF DataInv, ContentsInv, CleanInv, AheadInv, FirstInv, Started,
                waiting, Releasing, Top, Bottom, ring, data, writer, reader
  <2>3. QED
    BY <2>2 DEF DataInv
<1>9. CASE CrossBoundary(pc)
  <2>1. /\ UNCHANGED <<index, integrators, read_samples, reader>> /\ Started
        /\ producer' = Succ(producer) /\ packet_counter' = pc
        /\ current_index' = index[producer] /\ Succ(producer) # consumer
    BY <1>4, <1>9 DEF CrossBoundary, data
  <2>2. pc \in index[producer] + Window .. index[producer] + 2 * Window
    BY <1>1, <1>9 DEF CrossBoundary, IsBeyondNext, Offset
  <2>3. waiting' /\ Top' = Top /\ Bottom' = Bottom
    BY <1>1, <1>2, <2>1, PredSucc DEF waiting, Top, Bottom, reader
  <2>4. ContentsInv' /\ CleanInv'
    BY <2>1 DEF DataInv, ContentsInv, CleanInv, Releasing, reader
  <2>5. AheadInv' /\ FirstInv'
    BY <2>1, <2>2, <2>3 DEF DataInv, AheadInv, FirstInv, Started, Releasing, reader
  <2>6. QED
    BY <2>4, <2>5 DEF DataInv
<1>10. QED
  BY <1>5, <1>6, <1>7, <1>8, <1>9 DEF WriteData

\* A claimed slot starts clean: its counts are reset and its sums were released.
LEMMA ClaimContents ==
  ASSUME DataInv, ClaimSlot, KeepUpInv', Pace = "ahead"
  PROVE  DataInv'
<1>1. /\ TypeOK /\ producer \in Slots /\ waiting /\ index[producer] = 0
      /\ \A j \in Slots : index[j] \in Nat
  BY DEF DataInv, KeepUpInv, TypeOK, ClaimSlot, MayClaim, IsOpen
<1>2. Started /\ producer # consumer
  BY <1>1 DEF DataInv, KeepUpInv, NotStartedInv, AheadInv
<1>3. integrators[producer] = {}
  BY <1>1, <1>2 DEF DataInv, CleanInv
<1>4. \A j \in Slots :
        /\ index'[j] = IF j = producer THEN current_index + Window ELSE index[j]
        /\ integrators'[j] = IF j = producer THEN {packet_counter} ELSE integrators[j]
        /\ read_samples'[j] = IF j = producer THEN {packet_counter} ELSE read_samples[j]
  BY <1>1, <1>3 DEF ClaimSlot, NextIndex, TypeOK
<1>5. ~waiting' /\ UNCHANGED reader /\ Top' = producer /\ Bottom' = Bottom
  BY DEF ClaimSlot, waiting, Top, Bottom, reader
<1>6. ContentsInv'
  <2>1. packet_counter \in current_index + Window .. current_index + 2 * Window
    BY <1>1 DEF DataInv, AheadInv
  <2>2. current_index \in Nat
    BY <1>1 DEF TypeOK
  <2>3. QED
    BY <1>1, <1>4, <2>1, <2>2 DEF DataInv, ContentsInv
<1>7. CleanInv' /\ AheadInv'
  BY <1>1, <1>2, <1>4, <1>5 DEF DataInv, CleanInv, AheadInv, Releasing, reader, TypeOK
<1>8. FirstInv'
  <2>1. Bottom \in Slots /\ Bottom # producer
    <3>1. Depth(Bottom) = 0 /\ Depth(Top) \in Nat /\ Bottom \in Slots
      BY <1>1, RingShape, AheadRange DEF Depth
    <3>2. index[Bottom] # 0
      BY <1>2, <3>1 DEF DataInv, KeepUpInv, OccupiedInv
    <3>3. QED
      BY <1>1, <3>1, <3>2
  <2>2. Started'
    BY <1>1, <1>4, <1>5 DEF Started, TypeOK
  <2>3. QED
    BY <1>2, <1>4, <1>5, <2>1, <2>2 DEF DataInv, FirstInv, reader
<1>9. QED
  BY <1>6, <1>7, <1>8 DEF DataInv

\* While a slot is released its sums and counts may differ; then both are empty.
LEMMA PersisterContents ==
  ASSUME DataInv, Persister, KeepUpInv'
  PROVE  DataInv'
<1>1. /\ TypeOK /\ consumer \in Slots /\ KeepUpInv
      /\ \A j \in Slots : index[j] \in Nat
  BY DEF DataInv, KeepUpInv, TypeOK
<1>2. UNCHANGED <<producer, packet_counter, current_index, newest>> /\ waiting' = waiting
      /\ Top' = Top
  BY DEF Persister, ReadBuffer, ReleaseIndex, ReleaseIntegrators, ReleaseAdvance,
         PersisterStops, writer, waiting, Top
<1>3. CASE ReadBuffer
  <2>1. UNCHANGED <<index, integrators, read_samples, consumer>> /\ Started
        /\ persister' = "callback" /\ delivered' = index[consumer]
    BY <1>1, <1>3 DEF ReadBuffer, ring, data, KeepUpInv, NotStartedInv
  <2>2. index[consumer] # 0
    <3>1. Bottom = consumer /\ OccupiedInv
      BY <1>1, <1>3, <2>1 DEF Bottom, ReadBuffer, KeepUpInv
    <3>2. Depth(consumer) = 0 /\ Depth(Top) \in Nat
      BY <1>1, <3>1, RingShape, AheadRange DEF Depth
    <3>3. QED
      BY <1>1, <3>1, <3>2 DEF OccupiedInv
  <2>3. ContentsInv' /\ CleanInv' /\ AheadInv' /\ FirstInv'
    BY <1>2, <1>3, <2>1, <2>2
       DEF ReadBuffer, DataInv, ContentsInv, CleanInv, AheadInv, FirstInv, Started,
           Releasing
  <2>4. QED
    BY <2>3 DEF DataInv
<1>4. CASE ReleaseIndex
  <2>1. /\ UNCHANGED <<integrators, read_samples, consumer, delivered>>
        /\ persister' = "release" /\ InCallback
    BY <1>4 DEF ReleaseIndex, data, InCallback
  <2>2. \A j \in Slots : index'[j] = IF j = consumer THEN 0 ELSE index[j]
    BY <1>1, <1>4 DEF ReleaseIndex, TypeOK
  <2>3. delivered # 0 /\ Top # consumer /\ Started /\ Top \in Slots
    BY <1>1, CallbackPosition, <2>1, RingShape
  <2>4. Started'
    BY <1>2, <2>2, <2>3 DEF Started
  <2>5. ContentsInv' /\ CleanInv' /\ AheadInv' /\ FirstInv'
    BY <1>1, <1>2, <2>1, <2>2, <2>3, <2>4
       DEF DataInv, ContentsInv, CleanInv, AheadInv, FirstInv, Releasing
  <2>6. QED
    BY <2>5 DEF DataInv
<1>5. CASE ReleaseIntegrators
  <2>1. /\ UNCHANGED <<index, read_samples, consumer, delivered>>
        /\ persister = "release" /\ persister' = "advance" /\ Bottom' = Bottom
    BY <1>5 DEF ReleaseIntegrators, Bottom
  <2>2. \A j \in Slots : integrators'[j] = IF j = consumer THEN {} ELSE integrators[j]
    BY <1>1, <1>5 DEF ReleaseIntegrators, TypeOK
  <2>3. index[consumer] = 0
    BY <2>1 DEF DataInv, AheadInv, Releasing
  <2>4. ContentsInv' /\ CleanInv' /\ AheadInv' /\ FirstInv'
    BY <1>1, <1>2, <2>1, <2>2, <2>3
       DEF DataInv, ContentsInv, CleanInv, AheadInv, FirstInv, Started, Releasing
  <2>5. QED
    BY <2>4 DEF DataInv
<1>6. CASE ReleaseAdvance
  <2>1. /\ UNCHANGED <<index, integrators, delivered>> /\ consumer' = Succ(consumer)
        /\ persister = "advance" /\ persister' = "read" /\ Bottom' = Bottom
        /\ Succ(consumer) \in Slots
    BY <1>1, <1>6, SlotsClosed DEF ReleaseAdvance, Bottom
  <2>2. \A j \in Slots : read_samples'[j] = IF j = consumer THEN {} ELSE read_samples[j]
    BY <1>1, <1>6 DEF ReleaseAdvance, TypeOK
  <2>3. index[consumer] = 0 /\ integrators[consumer] = {}
    BY <2>1 DEF DataInv, AheadInv, CleanInv, Releasing
  <2>4. ContentsInv' /\ CleanInv' /\ FirstInv'
    BY <1>1, <1>2, <2>1, <2>2, <2>3
       DEF DataInv, ContentsInv, CleanInv, FirstInv, Started, Releasing
  <2>5. waiting => producer # Succ(consumer)
    <3>1. SUFFICES ASSUME waiting, producer = Succ(consumer) PROVE FALSE
      OBVIOUS
    <3>2. Top = consumer
      BY <1>1, <3>1, PredSucc DEF Top
    <3>3. QED
      BY <1>1, <2>3, <3>1, <3>2 DEF KeepUpInv, NotStartedInv, Started
  <2>6. AheadInv'
    BY <1>2, <2>1, <2>5 DEF DataInv, AheadInv, Releasing
  <2>7. QED
    BY <2>4, <2>6 DEF DataInv
<1>7. CASE PersisterStops
  <2>1. /\ UNCHANGED <<index, integrators, read_samples, consumer, delivered>>
        /\ persister = "read" /\ persister' = "stopped" /\ Bottom' = Bottom
    BY <1>7 DEF PersisterStops, ring, data, Bottom
  <2>2. ContentsInv' /\ CleanInv' /\ AheadInv' /\ FirstInv'
    BY <1>2, <2>1 DEF DataInv, ContentsInv, CleanInv, AheadInv, FirstInv, Started,
                      Releasing
  <2>3. QED
    BY <2>2 DEF DataInv
<1>8. QED
  BY <1>3, <1>4, <1>5, <1>6, <1>7 DEF Persister

\* Every step of either thread keeps the contents well formed.
LEMMA DataInvStep ==
  ASSUME DataInv, [Next]_vars, Pace = "ahead", ~EarlierThanFirst
  PROVE  DataInv'
<1>1. KeepUpInv'
  BY KeepUpStep DEF DataInv
<1>2. ASSUME NEW pc \in 1 .. MaxCounter, WriteData(pc) PROVE DataInv'
  BY <1>1, <1>2, WriteContents
<1>3. CASE ClaimSlot
  BY <1>1, <1>3, ClaimContents
<1>4. CASE Persister
  BY <1>1, <1>4, PersisterContents
<1>5. CASE CleanUp \/ UNCHANGED vars
  <2>1. UNCHANGED ring /\ UNCHANGED <<writer, reader, newest>>
    BY <1>5 DEF CleanUp, vars
  <2>2. ContentsInv' /\ CleanInv' /\ AheadInv' /\ FirstInv'
    BY <2>1 DEF DataInv, ContentsInv, CleanInv, AheadInv, FirstInv, Started,
                waiting, Releasing, Top, Bottom, ring, data, writer, reader
  <2>3. QED
    BY <1>1, <2>2 DEF DataInv
<1>6. QED
  BY <1>2, <1>3, <1>4, <1>5 DEF Next, Terminated

\* For every ring size, buffer length and stream that starts with its oldest
\* packet, when the producer stays off the slot the persister is on, what the
\* callback gets is a mean: the sums of a buffer and the counts they are divided
\* by come from the same packets, all of the buffer's span or one too far.
THEOREM CallbackGetsMean ==
  ASSUME Pace = "ahead", ~EarlierThanFirst
  PROVE  Spec => []CallbackData
<1>1. DataInv /\ [Next]_vars => DataInv'
  BY DataInvStep
<1>2. DataInv => CallbackData
  BY CallbackPosition DEF DataInv, ContentsInv, CallbackData
<1>3. QED
  BY <1>1, <1>2, InitData, PTL DEF Spec
-----------------------------------------------------------------------------
(* The ring is a pipeline                                                   *)

\* Lengths of buffers in a row add up, and more buffers are not shorter.
LEMMA Spans ==
  ASSUME NEW n \in Nat
  PROVE  /\ Span(n) \in Nat /\ Span(0) = 0
         /\ Span(n + 1) = Span(n) + Window
  BY DEF Span

\* A longer row of buffers spans no fewer packets.
LEMMA SpanMonotone ==
  ASSUME NEW m \in Nat, NEW n \in Nat, m <= n
  PROVE  Span(m) <= Span(n)
<1>1. n - m \in Nat /\ (n - m) * Window \in Nat
  OBVIOUS
<1>2. n * Window = m * Window + (n - m) * Window
  BY <1>1
<1>3. QED
  BY <1>1, <1>2 DEF Span

\* The empty ring shows an empty pipeline.
LEMMA InitPipeline == Init => PipelineInv
  BY InitKeepUp, RingShape DEF Init, PipelineInv, Started, KeepUpInv

\* Steps that change neither an index nor a cursor nor what is begun: ready may
\* lose slots and the persister may move between places where it holds none.
LEMMA StillStep ==
  ASSUME PipelineInv, KeepUpInv', UNCHANGED <<index, writer>>, Bottom' = Bottom,
         ready' \subseteq ready,
         \A i \in ready' : i = consumer /\ persister = "release"
                             => i = consumer' /\ persister' = "release"
  PROVE  PipelineInv'
<1>1. Top' = Top /\ waiting' = waiting
  BY DEF Top, waiting, writer
<1>2. \A i : Depth(i)' = Depth(i)
  BY DEF Depth
<1>3. Started' = Started /\ Begun' = Begun
  BY <1>1, <1>2 DEF Started, Begun
<1>4. ASSUME Started PROVE LevelInv'
  BY <1>1, <1>2, <1>4 DEF PipelineInv, LevelInv
<1>5. ASSUME Started PROVE LagInv'
  BY <1>1, <1>2, <1>3, <1>5 DEF PipelineInv, LagInv
<1>6. QED
  BY <1>3, <1>4, <1>5 DEF PipelineInv

\* WriteFirst opens the only slot in use.
LEMMA FirstLevel ==
  ASSUME PipelineInv, KeepUpInv', NEW pc \in 1 .. MaxCounter, WriteFirst(pc)
  PROVE  PipelineInv' /\ index'[Bottom'] = pc /\ Filling' = pc /\ Filling = 0
<1>1. /\ TypeOK /\ pc \in Nat /\ producer \in Slots /\ ~waiting /\ ~Started
      /\ NotStartedInv /\ Top = producer
  BY DEF PipelineInv, KeepUpInv, TypeOK, WriteFirst, Arrives, Started, Top, IsOpen
<1>2. /\ ~waiting' /\ Top' = producer /\ Bottom' = producer
      /\ UNCHANGED <<ready, producer>>
  BY <1>1 DEF WriteFirst, writer, reader, waiting, Top, Bottom, NotStartedInv
<1>3. index'[producer] = pc
  BY <1>1 DEF WriteFirst, TypeOK
<1>4. \A i \in Slots : Depth(i)' \in Nat /\ (Depth(i)' = 0 <=> i = producer)
  BY <1>1, <1>2, AheadRange DEF Depth
<1>5. LevelInv'
  <2>1. Depth(Top)' = 0
    BY <1>1, <1>2, <1>4
  <2>2. Span(0) = 0 /\ pc + 0 = pc
    BY <1>1, Spans
  <2>3. QED
    BY <1>2, <1>3, <1>4, <2>1, <2>2 DEF LevelInv
<1>6. LagInv'
  BY <1>1, <1>2 DEF LagInv, NotStartedInv
<1>7. Filling = 0 /\ Filling' = pc
  BY <1>1, <1>2, <1>3 DEF Filling, NotStartedInv
<1>8. QED
  BY <1>2, <1>3, <1>5, <1>6, <1>7 DEF PipelineInv

\* A boundary begins the next buffer, which the ring has room for, and publishes
\* the one three before it.
LEMMA CrossLevel ==
  ASSUME PipelineInv, KeepUpInv', NEW pc \in 1 .. MaxCounter, CrossBoundary(pc)
  PROVE  /\ PipelineInv' /\ index'[Bottom'] = index[Bottom]
         /\ Filling # 0 /\ Filling' = Filling + Window
         /\ Filling' <= index[Bottom] + Span(NofBuffers)
<1>1. /\ TypeOK /\ producer \in Slots /\ Bottom \in Slots
      /\ Pred2(producer) \in Slots /\ index[Bottom] \in Nat
  BY RingShape, SlotsClosed DEF PipelineInv, KeepUpInv, TypeOK
<1>2. ~waiting /\ Top = producer /\ Started
  BY DEF CrossBoundary, Arrives, Top, Started, IsOpen
<1>3. /\ waiting' /\ Top' = Top /\ Bottom' = Bottom /\ UNCHANGED <<index, reader>>
      /\ current_index' = index[producer]
  BY <1>1, <1>2, PredSucc DEF CrossBoundary, waiting, Top, Bottom, reader
<1>4. \A i : Depth(i)' = Depth(i)
  BY <1>3 DEF Depth
<1>5. Depth(Top) \in 0 .. NofBuffers - 1
  BY <1>1, <1>2, RingShape
<1>6. LevelInv /\ LagInv /\ OccupiedInv
  BY <1>2 DEF PipelineInv, KeepUpInv
<1>7. index[Pred2(producer)] # 0 => Depth(Pred2(producer)) + 2 <= Depth(Top)
  BY <1>1, <1>2, <1>5, <1>6, AheadPred2, RingShape DEF OccupiedInv, Depth
<1>8. LagInv'
  <2>1. /\ ready' = IF index[Pred2(producer)] # 0 THEN ready \cup {Pred2(producer)}
                                                 ELSE ready
        /\ consumer' = consumer /\ persister' = persister
    BY <1>3 DEF CrossBoundary, Publish, reader
  <2>2. Begun = Depth(Top) /\ Begun' = Depth(Top) + 1
    BY <1>2, <1>3, <1>4 DEF Begun
  <2>3. \A i \in Slots : Depth(i) \in Nat
    BY <1>1, RingShape
  <2>4. ready \subseteq Slots
    BY <1>1 DEF TypeOK
  <2>5. QED
    BY <1>1, <1>4, <1>5, <1>6, <1>7, <2>1, <2>2, <2>3, <2>4 DEF LagInv
<1>9. LevelInv'
  BY <1>3, <1>4, <1>6 DEF LevelInv
<1>10. Filling = index[Top] /\ Filling' = index[Top] + Window /\ Filling # 0
  BY <1>2, <1>3 DEF Filling, Started
<1>11. Filling' <= index[Bottom] + Span(NofBuffers)
  <2>1. index[Top] = index[Bottom] + Span(Depth(Top))
    BY <1>1, <1>2, <1>5, <1>6 DEF LevelInv
  <2>2. Span(Depth(Top) + 1) = Span(Depth(Top)) + Window
    BY <1>5, Spans
  <2>3. Span(Depth(Top) + 1) <= Span(NofBuffers)
    BY <1>5, SpanMonotone
  <2>4. Span(Depth(Top)) \in Nat /\ Span(NofBuffers) \in Nat
    BY <1>5, Spans
  <2>5. QED
    BY <1>1, <1>10, <2>1, <2>2, <2>3, <2>4
<1>12. QED
  BY <1>3, <1>8, <1>9, <1>10, <1>11 DEF PipelineInv

\* Claiming the slot changes nothing that the pipeline shows.
LEMMA ClaimLevel ==
  ASSUME PipelineInv, KeepUpInv', ClaimSlot, Pace # "overrun"
  PROVE  PipelineInv' /\ index'[Bottom'] = index[Bottom] /\ Filling' = Filling
<1>1. /\ TypeOK /\ producer \in Slots /\ Pred(producer) \in Slots
      /\ Bottom \in Slots /\ index[Bottom] \in Nat
  BY RingShape, SlotsClosed DEF PipelineInv, KeepUpInv, TypeOK
<1>2. waiting /\ Top = Pred(producer) /\ index[producer] = 0
  BY DEF ClaimSlot, MayClaim, IsOpen, Top
<1>3. Started /\ OccupiedInv /\ WaitInv /\ LevelInv /\ LagInv
  BY <1>2 DEF PipelineInv, KeepUpInv, NotStartedInv
<1>4. \A i \in Slots : Depth(i) \in Nat /\ index[i] \in Nat
  BY <1>1, RingShape
<1>5. Depth(producer) = Depth(Top) + 1 /\ producer # Bottom
  <2>1. Depth(producer) > Depth(Top)
    BY <1>1, <1>2, <1>3, <1>4 DEF OccupiedInv
  <2>2. producer # Bottom
    BY <1>1, <1>2, <1>4, <2>1, AheadRange DEF Depth
  <2>3. QED
    BY <1>1, <1>2, <1>4, <2>2, AheadPred DEF Depth
<1>6. ~waiting' /\ Top' = producer /\ Bottom' = Bottom /\ UNCHANGED <<ready, producer, reader>>
  BY DEF ClaimSlot, waiting, Top, Bottom, reader
<1>7. \A i : Depth(i)' = Depth(i)
  BY <1>6 DEF Depth
<1>8. \A i \in Slots : index'[i] = IF i = producer THEN index[Top] + Window
                                                  ELSE index[i]
  BY <1>1, <1>2, <1>3 DEF ClaimSlot, NextIndex, WaitInv, TypeOK
<1>9. LevelInv'
  <2> SUFFICES ASSUME NEW i \in Slots, Depth(i) <= Depth(producer)
               PROVE  index'[i] = index[Bottom] + Span(Depth(i))
    BY <1>1, <1>5, <1>6, <1>7, <1>8 DEF LevelInv
  <2>1. CASE i = producer
    <3>1. index[Top] = index[Bottom] + Span(Depth(Top))
      BY <1>1, <1>2, <1>3, <1>4 DEF LevelInv
    <3>2. Span(Depth(producer)) = Span(Depth(Top)) + Window
      BY <1>1, <1>2, <1>4, <1>5, Spans
    <3>3. Span(Depth(Top)) \in Nat
      BY <1>1, <1>2, <1>4, Spans
    <3>4. QED
      BY <1>1, <1>8, <2>1, <3>1, <3>2, <3>3
  <2>2. CASE i # producer
    <3>1. Depth(i) # Depth(producer)
      BY <1>1, <2>2, AheadInjective DEF Depth
    <3>2. Depth(i) <= Depth(Top)
      BY <1>1, <1>2, <1>4, <1>5, <3>1
    <3>3. QED
      BY <1>3, <1>8, <2>2, <3>2 DEF LevelInv
  <2>3. QED
    BY <2>1, <2>2
<1>10. LagInv'
  BY <1>1, <1>2, <1>3, <1>4, <1>5, <1>6, <1>7 DEF LagInv, Begun, reader
<1>11. Filling' = Filling
  BY <1>1, <1>2, <1>3, <1>6, <1>8 DEF Filling, WaitInv
<1>12. QED
  BY <1>1, <1>5, <1>6, <1>8, <1>9, <1>10, <1>11 DEF PipelineInv

\* Releasing the bottom slot moves the bottom on by one buffer.
LEMMA ReleaseLevel ==
  ASSUME PipelineInv, KeepUpInv', ReleaseIndex
  PROVE  /\ PipelineInv' /\ index'[Bottom'] = index[Bottom] + Window
         /\ Filling' = Filling
<1>1. /\ TypeOK /\ consumer \in Slots /\ Succ(consumer) \in Slots /\ Top \in Slots
      /\ \A i \in Slots : Depth(i) \in 0 .. NofBuffers - 1 /\ index[i] \in Nat
  BY RingShape, SlotsClosed DEF PipelineInv, KeepUpInv, TypeOK
<1>2. /\ InCallback /\ Started /\ Bottom = consumer /\ Depth(consumer) = 0
      /\ Depth(Top) >= 2
  BY CallbackPosition DEF PipelineInv, ReleaseIndex, InCallback
<1>3. OccupiedInv /\ WaitInv /\ LevelInv /\ LagInv /\ ready \subseteq Slots
  BY <1>1, <1>2 DEF PipelineInv, KeepUpInv, TypeOK
<1>4. /\ Bottom' = Succ(consumer) /\ Top' = Top /\ waiting' = waiting
      /\ UNCHANGED <<ready, consumer, writer>> /\ persister' = "release"
      /\ persister # "release"
  BY DEF ReleaseIndex, Bottom, Top, waiting, writer
<1>5. \A i \in Slots : index'[i] = IF i = consumer THEN 0 ELSE index[i]
  BY <1>1 DEF ReleaseIndex, TypeOK
<1>6. \A i \in Slots :
        Depth(i)' = IF i = consumer THEN NofBuffers - 1 ELSE Depth(i) - 1
  BY <1>1, <1>2, <1>4, AheadAdvance DEF Depth
<1>7. Depth(Top)' = Depth(Top) - 1 /\ Top # consumer
  BY <1>1, <1>2, <1>4, AheadAdvance DEF Depth
<1>8. Succ(consumer) # consumer /\ index[Succ(consumer)] = index[consumer] + Window
  BY <1>1, <1>2, <1>3, AheadSucc DEF Depth, OccupiedInv
<1>9. LevelInv'
  <2> SUFFICES ASSUME NEW i \in Slots, Depth(i)' <= Depth(Top) - 1
               PROVE  index'[i] = index'[Succ(consumer)] + Span(Depth(i)')
    BY <1>4, <1>7 DEF LevelInv
  <2>1. i # consumer
    BY <1>1, <1>6
  <2>2. Depth(i)' = Depth(i) - 1 /\ Depth(i) - 1 \in Nat
    BY <1>1, <1>2, <1>6, <2>1, AheadRange DEF Depth
  <2>3. index[i] = index[consumer] + Span(Depth(i))
    BY <1>1, <1>2, <1>3, <2>2 DEF LevelInv
  <2>4. Span(Depth(i)) = Span(Depth(i) - 1) + Window
    <3>1. Span((Depth(i) - 1) + 1) = Span(Depth(i) - 1) + Window
      BY <2>2, Spans
    <3>2. QED
      BY <1>1, <3>1
  <2>5. Span(Depth(i) - 1) \in Nat
    BY <2>2, Spans
  <2>6. QED
    BY <1>1, <1>5, <1>8, <2>1, <2>2, <2>3, <2>4, <2>5
<1>10. LagInv'
  BY <1>1, <1>2, <1>3, <1>4, <1>6, <1>7 DEF LagInv, Begun
<1>11. Filling' = Filling
  <2>1. ~waiting => producer # consumer
    BY <1>2, <1>7 DEF Top
  <2>2. QED
    BY <1>1, <1>4, <1>5, <2>1 DEF Filling, writer, TypeOK
<1>12. QED
  BY <1>1, <1>2, <1>4, <1>5, <1>8, <1>9, <1>10, <1>11 DEF PipelineInv

\* Every step of either thread keeps the levels the pipeline is read from.
LEMMA PipelineInvStep ==
  ASSUME PipelineInv, [Next]_vars, Pace # "overrun"
  PROVE  PipelineInv'
<1>1. KeepUpInv' /\ TypeOK
  BY KeepUpStep DEF PipelineInv, KeepUpInv
<1>2. ASSUME NEW pc \in 1 .. MaxCounter, WriteData(pc) PROVE PipelineInv'
  <2>1. CASE WriteFirst(pc)
    BY <1>1, <2>1, FirstLevel
  <2>2. CASE WriteLate(pc) \/ WriteCurrent(pc) \/ IgnoreBeyondNext(pc)
    <3>1. UNCHANGED <<index, ready, writer, reader>>
      BY <2>2 DEF WriteLate, WriteCurrent, IgnoreBeyondNext, ring
    <3>2. QED
      BY <1>1, <3>1, StillStep DEF reader, Bottom
  <2>3. CASE CrossBoundary(pc)
    BY <1>1, <2>3, CrossLevel
  <2>4. QED
    BY <1>2, <2>1, <2>2, <2>3 DEF WriteData
<1>3. CASE ClaimSlot
  BY <1>1, <1>3, ClaimLevel
<1>4. CASE Persister
  <2>1. CASE ReleaseIndex
    BY <1>1, <2>1, ReleaseLevel
  <2>2. CASE ReadBuffer \/ ReleaseIntegrators \/ ReleaseAdvance \/ PersisterStops
    <3>1. UNCHANGED <<index, writer>> /\ Bottom' = Bottom /\ ready' \subseteq ready
      BY <2>2 DEF ReadBuffer, ReleaseIntegrators, ReleaseAdvance, PersisterStops,
                  Bottom, ring
    <3>2. \A i \in ready' : ~(i = consumer /\ persister = "release")
      BY <2>2 DEF ReadBuffer, ReleaseIntegrators, ReleaseAdvance, PersisterStops
    <3>3. QED
      BY <1>1, <3>1, <3>2, StillStep
  <2>3. QED
    BY <1>4, <2>1, <2>2 DEF Persister
<1>5. CASE CleanUp \/ UNCHANGED vars
  <2>1. UNCHANGED <<index, ready, writer, reader>>
    BY <1>5 DEF CleanUp, vars, ring
  <2>2. QED
    BY <1>1, <2>1, StillStep DEF reader, Bottom
<1>6. QED
  BY <1>2, <1>3, <1>4, <1>5 DEF Next, Terminated

\* Every step of the two threads is a step of the pipeline or leaves it alone.
LEMMA StepRefines ==
  ASSUME PipelineInv, [Next]_vars, Pace # "overrun"
  PROVE  [Pipeline!Next]_(Pipeline!vars)
<1>1. KeepUpInv' /\ PipelineInv' /\ TypeOK /\ Bottom \in Slots /\ index[Bottom] \in Nat
  BY KeepUpStep, PipelineInvStep, RingShape DEF PipelineInv, KeepUpInv
<1> DEFINE Seen == <<Filling, index[Bottom], InCallback, stop_thread>>
<1>2. ASSUME UNCHANGED Seen PROVE [Pipeline!Next]_(Pipeline!vars)
  BY <1>2 DEF Pipeline!vars
<1>3. ASSUME NEW pc \in 1 .. MaxCounter, WriteData(pc)
      PROVE  [Pipeline!Next]_(Pipeline!vars)
  <2>1. stop_thread' = stop_thread /\ InCallback' = InCallback
    BY <1>3 DEF WriteData, WriteFirst, WriteLate, WriteCurrent, IgnoreBeyondNext,
                CrossBoundary, reader, InCallback
  <2>2. CASE WriteFirst(pc)
    <3>1. pc \in Nat \ {0}
      OBVIOUS
    <3>2. Pipeline!Begin
      BY <1>1, <2>1, <2>2, <3>1, FirstLevel DEF Pipeline!Begin
    <3>3. QED
      BY <3>2 DEF Pipeline!Next
  <2>3. CASE WriteLate(pc) \/ WriteCurrent(pc) \/ IgnoreBeyondNext(pc)
    <3>1. UNCHANGED <<index, writer, reader>>
      BY <2>3 DEF WriteLate, WriteCurrent, IgnoreBeyondNext, ring
    <3>2. UNCHANGED Seen
      BY <2>1, <3>1 DEF Filling, Bottom, waiting, writer, reader
    <3>3. QED
      BY <1>2, <3>2
  <2>4. CASE CrossBoundary(pc)
    <3>1. Pipeline!Advance
      BY <1>1, <2>1, <2>4, CrossLevel DEF Pipeline!Advance, Span
    <3>2. QED
      BY <3>1 DEF Pipeline!Next
  <2>5. QED
    BY <1>3, <2>2, <2>3, <2>4 DEF WriteData
<1>4. CASE ClaimSlot
  <2>1. UNCHANGED Seen
    BY <1>1, <1>4, ClaimLevel DEF ClaimSlot, reader, InCallback
  <2>2. QED
    BY <1>2, <2>1
<1>5. CASE ReadBuffer
  <2>1. /\ ~stop_thread /\ ~InCallback /\ InCallback' /\ Bottom = consumer
        /\ UNCHANGED <<index, writer, consumer, stop_thread>> /\ Bottom' = Bottom
        /\ Started /\ persister = "read"
    BY <1>5 DEF ReadBuffer, InCallback, Bottom, ring, PipelineInv, KeepUpInv, NotStartedInv
  <2>2. Filling' = Filling /\ index'[Bottom'] = index[Bottom]
    BY <2>1 DEF Filling, waiting, writer
  <2>3. LevelInv /\ WaitInv /\ 3 <= Begun
    <3>1. Depth(consumer) = 0
      BY <1>1, <2>1, AheadRange DEF Depth
    <3>2. consumer \in ready /\ LagInv
      BY <1>5, <2>1 DEF PipelineInv, ReadBuffer
    <3>3. QED
      BY <1>1, <2>1, <3>1, <3>2 DEF LagInv, PipelineInv, KeepUpInv
  <2>4. Filling = index[Bottom] + Span(Begun)
    <3>1. Depth(Top) \in Nat /\ Top \in Slots
      BY <1>1, RingShape
    <3>2. index[Top] = index[Bottom] + Span(Depth(Top))
      BY <2>3, <3>1 DEF LevelInv
    <3>3. Span(Depth(Top)) \in Nat /\ Span(Depth(Top) + 1) = Span(Depth(Top)) + Window
      BY <3>1, Spans
    <3>4. CASE waiting
      BY <1>1, <2>3, <3>2, <3>3, <3>4 DEF Filling, Begun, WaitInv
    <3>5. CASE ~waiting
      BY <3>2, <3>5 DEF Filling, Begun, Top
    <3>6. QED
      BY <3>4, <3>5
  <2>5. Begun \in Nat
    BY <1>1, RingShape DEF Begun
  <2>6. Span(3) <= Span(Begun) /\ Span(3) \in Nat /\ Span(Begun) \in Nat
    BY <2>3, <2>5, SpanMonotone, Spans
  <2>7. index[Bottom] + 3 * Window <= Filling
    BY <1>1, <2>4, <2>6 DEF Span
  <2>8. Pipeline!Take
    BY <2>1, <2>2, <2>7 DEF Pipeline!Take
  <2>9. QED
    BY <2>8 DEF Pipeline!Next, Pipeline!Reader
<1>6. CASE ReleaseIndex
  <2>1. InCallback /\ ~InCallback' /\ stop_thread' = stop_thread
    BY <1>6 DEF ReleaseIndex, InCallback
  <2>2. Pipeline!Return
    BY <1>1, <1>6, <2>1, ReleaseLevel DEF Pipeline!Return
  <2>3. QED
    BY <2>2 DEF Pipeline!Next, Pipeline!Reader
<1>7. CASE ReleaseIntegrators \/ ReleaseAdvance \/ PersisterStops
  <2>1. UNCHANGED <<index, writer, stop_thread>> /\ Bottom' = Bottom /\ InCallback' = InCallback
    BY <1>7 DEF ReleaseIntegrators, ReleaseAdvance, PersisterStops, ring, Bottom,
                InCallback
  <2>2. UNCHANGED Seen
    BY <2>1 DEF Filling, waiting, writer
  <2>3. QED
    BY <1>2, <2>2
<1>8. CASE CleanUp
  <2>1. UNCHANGED <<Filling, index[Bottom], InCallback>>
    BY <1>8 DEF CleanUp, Filling, Bottom, waiting, InCallback, ring, writer, reader
  <2>2. Pipeline!Stop
    BY <1>8, <2>1 DEF CleanUp, Pipeline!Stop
  <2>3. QED
    BY <2>2 DEF Pipeline!Next
<1>9. CASE UNCHANGED vars
  <2>1. UNCHANGED Seen
    BY <1>9 DEF vars, Filling, Bottom, waiting, InCallback, ring, writer, reader
  <2>2. QED
    BY <1>2, <2>1
<1>10. QED
  BY <1>3, <1>4, <1>5, <1>6, <1>7, <1>8, <1>9 DEF Next, Terminated, Persister

\* The empty ring is the pipeline's initial state.
LEMMA InitRefines == Init => Pipeline!Init
<1> SUFFICES ASSUME Init PROVE Pipeline!Init
  OBVIOUS
<1>1. 0 \in Slots /\ Bottom = 0 /\ ~waiting
  BY DEF Init, Slots, Bottom, waiting
<1>2. QED
  BY <1>1 DEF Init, Filling, InCallback, Pipeline!Init

\* For every ring size, buffer length and stream, the two threads implement the
\* pipeline: buffers are taken in order, at the lag, once each, and the stream
\* never gets further ahead of the reader than the ring has slots.
THEOREM StationRefinesPipeline ==
  ASSUME Pace # "overrun"
  PROVE  Spec => RefinesPipeline
<1>1. PipelineInv /\ [Next]_vars => PipelineInv'
  BY PipelineInvStep
<1>2. PipelineInv /\ [Next]_vars => [Pipeline!Next]_(Pipeline!vars)
  BY StepRefines
<1>3. QED
  BY <1>1, <1>2, InitPipeline, InitRefines, PTL
     DEF Spec, RefinesPipeline, Pipeline!Spec
=============================================================================
