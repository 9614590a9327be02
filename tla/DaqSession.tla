----------------------------- MODULE DaqSession -----------------------------
(***************************************************************************)
(* A data acquisition receiver at work: the main thread starts and stops   *)
(* consumers, while each consumer's thread in the library calls back with  *)
(* a buffer at a time.  Between two steps of the one, any of the others    *)
(* may run: callbacks read file managers, timestamps, sampling times and   *)
(* external callbacks, which the main thread changes one by one.           *)
(*                                                                         *)
(* There are two versions of the receiver, the functions of                *)
(* daq_receiver.py and the class of daq_receiver_interface.py.  Continuous *)
(* channel data come from one tile.                                        *)
(***************************************************************************)
EXTENDS DaqReceiver, DaqInterface, Integers

CONSTANTS
  Versions,   \* a subset of {"functions", "class"}
  Groups,     \* sets of modes that are used together
  Options,    \* configurations: [write_to_disk, together, threshold : BOOLEAN]
  MaxBuffers, \* bound on the buffers of each mode
  MaxOps      \* bound on the operations of the main thread

ASSUME SessionAssumption ==
  /\ Versions \subseteq {"functions", "class"}
  /\ Groups \subseteq SUBSET DaqModes
  /\ Options \subseteq [write_to_disk : BOOLEAN, together : BOOLEAN, threshold : BOOLEAN]
  /\ MaxBuffers \in [DaqModes -> Nat]
  /\ MaxOps \in Nat

VARIABLES
  version, modes, options,  \* fixed
  loaded,        \* has the library been loaded, or only the half without the consumers?
  library,       \* external: of each mode "off", "on", or "stopping"
  receiver,      \* external: has the library's receiver been started?
  directory,     \* of conf: does it exist?
  running,       \* running_consumers
  persisters,    \* the mode each slot's file manager was made for, NoMode if none
  sampling_time, \* has it been set?
  external,      \* external_callbacks: is there one?
  timestamps,    \* the first timestamp each mode remembers, NoTime if none
  ignored,       \* cont_data_dumped, _buffer_counter
  main,          \* the operation of the main thread, and the steps to do
  callback,      \* where each callback is, the timestamp of its buffer, and (history)
                 \* the operations there had been when it came, Busy during one
  ops,           \* operations begun
  buffers,       \* buffers received; a buffer's number is its timestamp
  since,         \* history: of these, before stop_daq last ended
  last           \* history: the last buffer that was filed

fixed == <<version, modes, options>>

state == <<loaded, library, receiver, directory, running, persisters, sampling_time, external, timestamps, ignored>>

history == <<buffers, since, last>>

sessionVars == <<fixed, state, main, callback, ops, history>>

NoMode == "NO_MODE"
NoTime == 0
Busy == -1
Idle == [at |-> "idle", time |-> NoTime, ops |-> 0]
NotFiled == [time |-> NoTime, under |-> NoTime, slot |-> NoMode, manager |-> NoMode, sampled |-> FALSE]

Persisting(m) ==
  IF version = "functions" THEN callbacks(options)[m] ELSE _callbacks(options)[m]

StartSteps(m) == IF version = "functions" THEN start_functions[m] ELSE _start_functions[m]

StopSteps(m) == IF version = "functions" THEN stop_functions[m] ELSE _stop_functions[m]

SessionInit ==
  /\ version \in Versions
  /\ modes \in Groups
  /\ options \in Options
  /\ loaded = "no"
  /\ library = [m \in modes |-> "off"]
  /\ receiver = FALSE
  /\ directory = TRUE
  /\ running = [m \in modes |-> FALSE]
  /\ persisters = [m \in modes \cup {"CHANNEL_DATA"} |-> NoMode]
  /\ sampling_time = [m \in modes |-> FALSE]
  /\ external = [m \in modes |-> FALSE]
  /\ timestamps = [m \in modes |-> NoTime]
  /\ ignored = [m \in modes |-> 0]
  /\ main = [op |-> "none", steps |-> <<>>]
  /\ callback = [m \in modes |-> Idle]
  /\ ops = 0
  /\ buffers = [m \in modes |-> 0]
  /\ since = [m \in modes |-> 0]
  /\ last = [m \in modes |-> NotFiled]
-----------------------------------------------------------------------------
(* The main thread                                                          *)

Begin(op, steps) ==
  /\ main.op = "none"
  /\ ops < MaxOps
  /\ ops' = ops + 1
  /\ main' = [op |-> op, steps |-> steps]
  /\ UNCHANGED <<fixed, state, callback, history>>

\* the receiver is not configured or initialised when it is running
Populate ==
  /\ ~receiver
  /\ Begin("populate", IF version = "functions" THEN populate_configuration
                                                ELSE _populate_configuration)

RunScript ==
  /\ ~receiver
  /\ Begin("script", IF version = "functions" THEN script ELSE _script)

StartOne == \E m \in modes : Begin("start", StartSteps(m))

StopOne == \E m \in modes : running[m] /\ Begin("stop", StopSteps(m))

\* any order of the modes, with callbacks for all or not
StartDaq ==
  /\ version = "class"
  /\ \E given \in SetToSeqs(modes), callbacks_match \in BOOLEAN :
       Begin("start", _start_daq(given, callbacks_match))

StopDaq ==
  /\ receiver
  /\ Begin("stop_daq", IF version = "functions" THEN stop_daq ELSE _stop_daq)

Step == Head(main.steps)

AtStep(step) == main.op # "none" /\ main.steps # <<>> /\ Step.do = step

Continue(steps) ==
  main' = [main EXCEPT !.steps = steps, !.op = IF steps = <<>> THEN "none" ELSE @]

GoOn == Continue(Tail(main.steps))

\* an exception: the rest is not done
Raise == Continue(<<>>)

\* the function of a mode, if that was asked for
StartMode ==
  /\ AtStep("start")
  /\ IF Step.mode \in modes THEN Continue(StartSteps(Step.mode) \o Tail(main.steps)) ELSE GoOn
  /\ UNCHANGED <<state, history>>

RaiseException == AtStep("raise") /\ Raise /\ UNCHANGED <<state, history>>

CheckDirectory ==
  /\ AtStep("check_directory")
  /\ IF version = "functions"
       THEN \/ GoOn       \* the directory that is given
            \/ Raise
       ELSE IF directory THEN GoOn ELSE Raise
  /\ UNCHANGED <<state, history>>

\* the directory that is given, of which the functions know that it exists
Apply ==
  /\ AtStep("apply")
  /\ IF version = "functions" THEN directory' = TRUE ELSE directory' \in BOOLEAN
  /\ GoOn
  /\ UNCHANGED <<loaded, library, receiver, running, persisters, sampling_time, external, timestamps, ignored, history>>

\* the locks of FileAccess
RemoveLocks == AtStep("remove_locks") /\ GoOn /\ UNCHANGED <<state, history>>

\* Done once: when it raises half-way the library is there, and it is not tried again.
LoadLibrary ==
  /\ AtStep("load_library")
  /\ \/ loaded # "no" /\ loaded' = loaded /\ GoOn
     \/ loaded = "no" /\ loaded' = "all" /\ GoOn
     \/ loaded = "no" /\ loaded' \in {"no", "half"} /\ Raise
  /\ UNCHANGED <<library, receiver, directory, running, persisters, sampling_time, external, timestamps, ignored, history>>

\* the functions have no path of the consumers' library then; the class has a default
HasConsumers == loaded = "all" \/ version = "class"

StartReceiver ==
  /\ AtStep("start_receiver")
  /\ \/ receiver' = TRUE /\ GoOn
     \/ receiver' = FALSE /\ Raise
  /\ UNCHANGED <<loaded, library, directory, running, persisters, sampling_time, external, timestamps, ignored, history>>

\* the address of an interface that is not there
GetIpAddress == AtStep("get_ip_address") /\ (GoOn \/ Raise) /\ UNCHANGED <<state, history>>

\* with the receiver started, a port may be refused
AddReceiverPorts == AtStep("add_receiver_ports") /\ (GoOn \/ Raise) /\ UNCHANGED <<state, history>>

\* the library refuses without a receiver, a consumer that has been started, and for
\* reasons of its own
StartConsumer ==
  /\ AtStep("start_consumer")
  /\ \/ /\ HasConsumers /\ receiver /\ library[Step.mode] = "off"
        /\ library' = [library EXCEPT ![Step.mode] = "on"]
        /\ GoOn
     \/ library' = library /\ Raise
  /\ UNCHANGED <<loaded, receiver, directory, running, persisters, sampling_time, external, timestamps, ignored, history>>

SetRunning ==
  /\ AtStep("running") \/ AtStep("not_running")
  /\ running' = [running EXCEPT ![Step.mode] = Step.do = "running"]
  /\ GoOn
  /\ UNCHANGED <<loaded, library, receiver, directory, persisters, sampling_time, external, timestamps, ignored, history>>

SetPersister ==
  /\ AtStep("manager") \/ AtStep("no_manager")
  /\ persisters' = [persisters EXCEPT ![Step.slot] = IF Step.do = "manager" THEN Step.mode ELSE NoMode]
  /\ GoOn
  /\ UNCHANGED <<loaded, library, receiver, directory, running, sampling_time, external, timestamps, ignored, history>>

SetSampling ==
  /\ AtStep("sampling_time")
  /\ sampling_time' = [sampling_time EXCEPT ![Step.mode] = TRUE]
  /\ GoOn
  /\ UNCHANGED <<loaded, library, receiver, directory, running, persisters, external, timestamps, ignored, history>>

SetExternalCallback ==
  /\ AtStep("external") \/ AtStep("no_external")
  /\ external' = [external EXCEPT ![Step.mode] = Step.do = "external"]
  /\ GoOn
  /\ UNCHANGED <<loaded, library, receiver, directory, running, persisters, sampling_time, timestamps, ignored, history>>

\* the library lets the callback in progress end, or refuses
StopConsumer ==
  /\ AtStep("stop_consumer")
  /\ \/ /\ library[Step.mode] = "on"
        /\ library' = [library EXCEPT ![Step.mode] = "stopping"]
        /\ UNCHANGED main
     \/ library[Step.mode] # "stopping" /\ library' = library /\ Raise
     \/ /\ library[Step.mode] = "stopping" /\ callback[Step.mode].at = "idle"
        /\ library' = [library EXCEPT ![Step.mode] = "off"]
        /\ GoOn
  /\ UNCHANGED <<loaded, receiver, directory, running, persisters, sampling_time, external, timestamps, ignored, history>>

\* one after the other
StopRunning ==
  /\ AtStep("stop_running")
  /\ IF \A m \in modes : ~running[m] THEN GoOn
     ELSE \E m \in modes : running[m] /\ Continue(StopSteps(m) \o main.steps)
  /\ UNCHANGED <<state, history>>

ForgetTimestamps ==
  /\ AtStep("forget_timestamps")
  /\ timestamps' = [m \in modes |-> NoTime]
  /\ GoOn
  /\ UNCHANGED <<loaded, library, receiver, directory, running, persisters, sampling_time, external, ignored, history>>

ForgetIgnored ==
  /\ AtStep("forget_ignored")
  /\ ignored' = [m \in modes |-> 0]
  /\ GoOn
  /\ UNCHANGED <<loaded, library, receiver, directory, running, persisters, sampling_time, external, timestamps, history>>

StopReceiver ==
  /\ AtStep("stop_receiver")
  /\ \/ receiver' = FALSE /\ since' = buffers /\ GoOn
     \/ UNCHANGED <<receiver, since>> /\ Raise
  /\ UNCHANGED <<loaded, library, directory, running, persisters, sampling_time, external, timestamps, ignored, buffers, last>>

MainStep ==
  /\ \/ StartMode \/ RaiseException \/ CheckDirectory \/ Apply \/ GetIpAddress \/ RemoveLocks
     \/ LoadLibrary \/ StartReceiver \/ AddReceiverPorts \/ StartConsumer
     \/ SetRunning \/ SetPersister \/ SetSampling \/ SetExternalCallback
     \/ StopConsumer \/ StopRunning \/ ForgetTimestamps \/ ForgetIgnored \/ StopReceiver
  /\ UNCHANGED <<fixed, callback, ops>>
-----------------------------------------------------------------------------
(* The callbacks, in threads of the library                                 *)

UnchangedByCallback ==
  UNCHANGED <<fixed, loaded, library, receiver, directory, running, persisters, sampling_time, external, main, ops, since>>

At(m, at) == callback' = [callback EXCEPT ![m].at = at]

Return(m) == callback' = [callback EXCEPT ![m] = Idle]

\* the first two buffers of continuous channel and station data
Ignores(m) == Persisting(m).ignore /\ ignored[m] < 2

Receive(m) ==
  /\ library[m] = "on"
  /\ callback[m].at = "idle"
  /\ buffers[m] < MaxBuffers[m]
  /\ buffers' = [buffers EXCEPT ![m] = @ + 1]
  /\ IF ~options.write_to_disk
       THEN UNCHANGED <<callback, ignored>>
       ELSE IF Ignores(m)
         THEN ignored' = [ignored EXCEPT ![m] = @ + 1] /\ UNCHANGED callback
         ELSE /\ UNCHANGED ignored
              /\ \/ callback' = [callback EXCEPT ![m] =
                                   [at |-> IF Persisting(m).remember THEN "remember" ELSE "ingest",
                                    time |-> buffers[m] + 1,
                                    ops |-> IF main.op = "none" THEN ops ELSE Busy]]
                 \/ Persisting(m).threshold /\ UNCHANGED callback
  /\ UNCHANGED <<timestamps, last>>
  /\ UnchangedByCallback

RememberTimestamp(m) ==
  /\ callback[m].at = "remember"
  /\ timestamps' = [timestamps EXCEPT ![m] = IF @ = NoTime THEN callback[m].time ELSE @]
  /\ At(m, "ingest")
  /\ UNCHANGED <<ignored, buffers, last>>
  /\ UnchangedByCallback

\* A KeyError, of persisters or timestamps, goes no further than the callback.
Raises(m) ==
  LET how == Persisting(m) IN
  \/ callback[m].at = "ingest" /\ persisters[how.slot] = NoMode
  \/ callback[m].at = "ingest" /\ how.first /\ timestamps[m] = NoTime
  \/ callback[m].at = "call" /\ ~external[m]

RaiseInCallback(m) ==
  /\ Raises(m)
  /\ Return(m)
  /\ UNCHANGED <<ignored, timestamps, buffers, last>>
  /\ UnchangedByCallback

Ingest(m) ==
  /\ callback[m].at = "ingest" /\ ~Raises(m)
  /\ LET how == Persisting(m) IN
     last' = [last EXCEPT ![m] =
       [time |-> callback[m].time,
        under |-> IF how.first THEN timestamps[m] ELSE callback[m].time,
        slot |-> how.slot, manager |-> persisters[how.slot],
        sampled |-> how.sampled => sampling_time[m]]]
  /\ At(m, "external")
  /\ UNCHANGED <<ignored, timestamps, buffers>>
  /\ UnchangedByCallback

\* if there is an external callback it is called: looked up once more
External(m) ==
  /\ callback[m].at = "external"
  /\ IF external[m] THEN At(m, "call") ELSE Return(m)
  /\ UNCHANGED <<ignored, timestamps, buffers, last>>
  /\ UnchangedByCallback

CallExternal(m) ==
  /\ callback[m].at = "call" /\ ~Raises(m)
  /\ Return(m)
  /\ UNCHANGED <<ignored, timestamps, buffers, last>>
  /\ UnchangedByCallback

CallbackStep(m) ==
  RememberTimestamp(m) \/ Ingest(m) \/ External(m) \/ CallExternal(m) \/ RaiseInCallback(m)

SessionNext ==
  \/ Populate \/ RunScript \/ StartOne \/ StartDaq \/ StopOne \/ StopDaq
  \/ MainStep
  \/ \E m \in modes : Receive(m) \/ CallbackStep(m)

SessionSpec == SessionInit /\ [][SessionNext]_sessionVars

\* Threads go on with what they have begun.
FairSession ==
  /\ SessionSpec /\ WF_sessionVars(MainStep)
  /\ \A m \in DaqModes : WF_sessionVars(m \in modes /\ CallbackStep(m))
-----------------------------------------------------------------------------
(* Properties                                                               *)

\* Threads are at one of their steps; of the file managers only that of bursts is shared.
SessionTypeOK ==
  /\ loaded \in {"no", "half", "all"}
  /\ library \in [modes -> {"off", "on", "stopping"}]
  /\ running \in [modes -> BOOLEAN]
  /\ persisters \in [modes \cup {"CHANNEL_DATA"} -> modes \cup {NoMode}]
  /\ \A m \in modes : timestamps[m] \in 0 .. MaxBuffers[m]
  /\ ignored \in [modes -> 0 .. 2]
  /\ main.op \in {"none", "populate", "script", "start", "stop", "stop_daq"}
  /\ \A m \in modes :
       /\ callback[m].at \in {"idle", "remember", "ingest", "external", "call"}
       /\ callback[m].time \in 0 .. buffers[m]

\* When the main thread is done with an operation, whether it succeeded or raised,
\* running_consumers has exactly the consumers that are running in the library: none
\* runs that stop_daq would leave running.
RunningIsLibrary ==
  main.op = "none" => \A m \in modes : running[m] <=> library[m] = "on"

\* A stop_daq that succeeds leaves no consumer running and no callback in progress, also
\* when an earlier one raised half-way and it is the retry.
StopsAll ==
  [][main.op = "stop_daq" /\ main'.op = "none" /\ ~receiver' =>
       \A m \in modes : library'[m] = "off" /\ callback'[m].at = "idle"]_sessionVars

\* "Ignore first two buffers": the functions file neither of the first two that come
\* after a stop_daq, however often a consumer is stopped and started on its own, and
\* whatever stop_daq raised before.
FirstTwoIgnored ==
  version = "functions" =>
    \A m \in modes : Persisting(m).ignore => last[m].time \notin since[m] + 1 .. since[m] + 2

\* What the same comment in the class would mean; a callback that overtakes its stop_daq
\* is counted for the next session.
FirstTwoIgnoredByClass ==
  version = "class" =>
    \A m \in modes : Persisting(m).ignore => last[m].time \notin since[m] + 1 .. since[m] + 2

\* A buffer that comes when the main thread is at rest, and is filed before it does
\* anything, meets no exception and has its sampling time, after whatever exceptions in
\* starting and stopping there have been.
QuietlyFiled ==
  \A m \in modes : callback[m].at # "idle" /\ callback[m].ops = ops =>
    /\ ~Raises(m)
    /\ Persisting(m).sampled => sampling_time[m]

\* A buffer is filed by the file manager that was made for its consumer.
EachItsManager ==
  \A m \in modes : last[m] # NotFiled => last[m].manager = m

\* "otherwise we'd end up creating a different file per callback": what is filed after
\* stop_daq has ended is not filed under a timestamp from before it.
FreshFile ==
  \A m \in modes : last[m].time > since[m] => last[m].under > since[m]

\* "Append integrated data in the same file" or, if not, in a file of its own.
OwnFile ==
  \A m \in modes : ~Persisting(m).append => last[m].under = last[m].time

\* The configuration that is in force names a directory that exists, after a
\* populate_configuration that raised as well.
DirectoryExists == main.op = "none" => directory

\* "Number of callback should match number of daq_modes. Ignoring callbacks."
CallbacksIgnored == ~AtStep("raise")

\* Every buffer that is filed has its sampling time.
AlwaysSampled == \A m \in modes : last[m] = NotFiled \/ last[m].sampled
=============================================================================
