# Verification of forward-epics-to-kafka

TLA+ models of the forwarder, the TLC runs that check them on small instances
and the TLAPS proofs of their safety properties for every instance. Source paths below
are relative to the repository (`src/Forwarder.cpp` is the C++ file of that
name); `PROJECT.json` gives the lines behind each definition.

## 1. The system

The forwarder subscribes to EPICS process variables (PVs), turns every update
into a FlatBuffer and sends it to Kafka topics. It is told what to forward by a
streams file and by JSON commands from a Kafka topic.

| Part | State | Operations | Hard because |
|---|---|---|---|
| `Streams`, `Stream`, `ConversionPath` | list of `shared_ptr<Stream>`, per stream an output queue and conversion paths, per path a `transit` counter | `add`, `stopChannel`, `clearStreams`, `checkStreamStatus`, `fillConversionQueue`, destructors | destructors wait for packets in transit, in whichever thread drops the last pointer, sometimes under a mutex |
| `ConversionWorker`, `ConversionScheduler` | a queue per worker, `do_run`, the shared round-robin index `sid` | `run`, `fill`, `stop` | the size check, the access and the advance of `sid` are separate critical sections |
| `Forwarder` (main thread) | run flag, converter registry, the above | `addMapping`, `pushConverterToStream`, commands, main loop, shutdown | commands interleave with workers and the status thread; mappings fail half way |
| `ConfigParser`, `CommandHandler` | converter index of one document | parsing, `add`, `stop_channel`, `stop_all`, `exit` | generated names meet names of earlier commands |
| `KafkaW::Producer`, `ProducerTopic`, delivery callback | messages owned by librdkafka, statistics | `produce`, `poll`, `dr_cb`, destructor | who frees a message; callbacks run in any thread that polls; bounded wait in the destructor |
| EPICS client (`EpicsClientMonitor`, requesters) | connection state, channel, monitor, cached update | connection, monitor and value callbacks, periodic repetition, `stop` | callbacks race with set-up, stop and the timer; update objects are shared with the converter |
| Run control (`Timer`, `StatusReporter`, `MetricsReporter`, signals) | run flag, two timer threads, two reporter threads | `raiseForwardingFlag`, `start`, `waitForStop`, reports, `~Forwarder` | cancel against re-arm, signal against exit command, joins, an exception at the start |
| Converters (`f142`, `TdcTime`) | `TdcTime`: a static counter | `create` | types of every width and sign, signed times in unsigned arithmetic; the counter is shared by all threads without a lock |
| Fake client, EPICS factories | callbacks of the timers, a reference count | `generateFakePVUpdate`, `EpicsClientFactoryInit` | clients are kept by streams and by callbacks and destroyed in any thread |
| `KafkaW::Consumer`, `Listener` | assigned partitions and offsets | `addTopic`, `poll` | commands arrive during set-up; every broker query may fail |
| options, logging | see section 8 | | |

How they interact: EPICS threads put updates into a stream's output queue; a
worker (under the scheduler's `mx`, the forwarder's `streams_mutex` and, for
each access, the list's `StreamsMutex`) moves them into its own queue as one
packet per path, then converts and emits them without locks; emitting calls
librdkafka. The main thread handles commands and polls Kafka. The status thread
erases streams whose client is in error. All of them share the stream list.

## 2. Modules

| Module | Models | Extends / used by |
|---|---|---|
| `UpdatePipe` | abstract: what a conversion path promises (each update at most once, none invented, optionally in order and without gap) | refined by `ForwarderCore` |
| `ForwarderCore` | streams, paths, workers, scheduler, stop and exit, status thread | the core |
| `MCForwarderCore` | instances for TLC | extends `ForwarderCore` |
| `ForwarderCoreProofs` | proofs: locks, life of streams and paths, counters | extends `ForwarderCore` |
| `ForwarderPipeProofs` | proofs: conservation of updates, refinement of `UpdatePipe` | extends `ForwarderCoreProofs` |
| `KafkaProducer` | ownership of messages, delivery callbacks, statistics, `~Producer` | |
| `EpicsMonitor`, `MCEpicsMonitor` | one EPICS client, the cached value, the alarm fields of f142 | |
| `Mapping`, `MCMapping` | configuration to paths: names, registry, partial failures; clients, callbacks, factories; the walk for the status document | |
| `RunControl` | run flag, timers, reporters, `forward_epics_to_kafka` from its start to the end of `main` | |
| `CommandListener` | command topic to command handler: watermarks, assignment, polling | |
| `EpicsTime` | seconds and nanoseconds as uint64 | used by both converters |
| `TdcTime` | TdcTime converter and its counter | extends `EpicsTime` |
| `F142` | f142 converter: types, values, timestamp, alarm fields; the update the fake client makes | extends `EpicsTime` |
| `Converters`, `MCConverters` | conversion threads that serve paths of both schemas | extends `TdcTime`, `F142` |
| `MainLoop` | what the main thread drives from its loop, part by part | extends `KafkaProducer`, `RunControl`, `CommandListener` |
| `KafkaProducerProofs`, `EpicsMonitorProofs`, `MappingProofs`, `RunControlProofs`, `CommandListenerProofs`, `ConvertersProofs` | proofs | each extends the module it is named after |

Variables bear the names of the members they stand for. Operators whose name
ends in `_Something` after the name of another are deliberately wrong forms of
it (a dropped guard, a missing reset); each property has one that breaks it.

**ForwarderCore.** A step is what a thread does between two points at which
another thread can tell the difference. `fill` is seven steps (`Loop`,
`CheckSize`, `LockStreams`, `ResetSid`, `GetStream`, `FillOne`/`FillDone`,
`DropStream`, `NextStream`), because `streams.size()`, `streams[sid]` and the
release of the temporary `shared_ptr` are separate. `StreamsMutex` is a
variable only where it is held across steps, that is while `stopChannel`,
`clearStreams` or `checkStreamStatus` run destructors; elsewhere it is a guard.
`reap[t]` are the streams whose destructor thread `t` is executing;
`DestroyPath` is the exit of the loop in `~ConversionPath`. `marked` are the
packets with a stream pointer, whose destruction decrements `transit`.
`streams[sid]` out of range sets `fault`: nothing catches the exception, so the
process ends. The shutdown is `Exit`, `StopWorker`
per worker, `Shutdown`.

Both queues are `moodycamel::ConcurrentQueue`s, which are FIFO per enqueueing
thread only. A worker's queue is filled by that worker alone, so it is a
sequence. A stream's output queue is filled by EPICS threads and by the PV
update timer, so it has no order of its own: an update of `ForwarderCore` is its
turn, the n-th to be dequeued, and nothing is said about which of the waiting
updates has that turn. What order the queue can choose is the matter of
`EpicsMonitor`. The null update and the failure of `enqueue` (no memory) that
`fillConversionQueue` tests for do not occur: `emitWithoutCaching` enqueues what
it has dereferenced before.

**KafkaProducer.** librdkafka accepts a message or refuses it (full, too large,
other), later has a report, hands reports to the thread that polls. `produce`
is poll, enqueue, account. `QueueMax` and `MaxPolls` stand for 100000 and 80.

**EpicsMonitor.** Connection callbacks are the state change, the start or stop
of the monitor (under the lock of the implementation), and the status event;
callbacks of other threads may come in between. Updates are numbers whose alarm
is a message and a severity, or absent; a PV may come back with or without an
alarm field, unlike before; reading an alarm the cached update does not have
sets `nullAlarm`, and the process ends. `EmitQueue` knows the thread of each
entry: `Publish` takes the oldest entry of any thread, so entries overtake those
of other threads (`overtaken`). `stop` comes from a command once the client is
set up, or from `checkStreamStatus` at any time after an error. `shown` is what
a reader of the topic believes: the alarm of the last message that had alarm
fields.

**Mapping.** A document is a sequence of streams with converters; JSON and URI
syntax are reduced to valid or not. Streams are listed, dying (erased, still
referred to) or gone; converter instances live as long as a path has them.
A topic parses or not, and one that parses can be created or not (`Creatable`):
then converter and producer are made and registered before the exception.
`NewStream` is `addStream` with the callbacks and the client's count for the
factories; a client lives as long as its stream or a callback that captured its
`shared_ptr`. A client without a provider counts and stops counting within one
step of the main thread. `getStatusJson` begins a walk over the paths of a
stream and `StatusDone` ends it; both are under `StreamsMutex`, which is free
when `walk` is `NoWalk`.

**RunControl.** The flag is a set of bits changed by load and
compare-exchange, which may fail without a reason (`compare_exchange_weak`).
`LeaveLoop` leaves out `conversion_workers_clear` and `clearStreams`: whether
they return is the matter of `ForwarderCore`. A timer thread is `Fire`, `Callbacks`, `Rearm`. The options
may ask for either timer, both or none. `FailStatus` is the exception of the
status topic: it leaves `forward_epics_to_kafka`, whose locals stop the metrics
reporter, and `main` then destroys the Forwarder.

**CommandListener.** The topic is a sequence of messages per partition that
others append to. `queryWatermarks` leaves the offset open when the query fails
(the code reads an uninitialised variable), and `poll` leaves open whether a
command is valid: a payload without a final zero byte may not be read intact.

**MainLoop.** The producer, the run control and the listener share no variable
in these models (the exit command is an input of `RunControl` and an end of
`CommandListener`), so one run explores them side by side: a behaviour follows
one of them, and the others are over from the start.

**TdcTime, F142, Converters.** `SequenceNumber++` is a load and a store. The
nanoseconds in a second and the ranges of the integers are scaled down, keeping
their order: with `Width` values for 64 bits there are `Width/2`, `/4` and
`/8` for 32, 16 and 8 bits, and storing a value in a field is reduction modulo
its range. Reals are integers of which a float keeps the even ones. A PV is a
record of the kind and type of its value field, the value, the time, the set of
fields it has, and `AlarmStatusChanged`. A builder has the name of the type it
has room for. `create` of f142 keeps the PV it came from in `LogData`, so that a
property can compare the two; a subfield of `alarm` or `timeStamp` that it looks
up and that is not there sets `crashed`, and the process ends.

## 3. Runs

| Run | Instance | Shows |
|---|---|---|
| `core_serve` | 1 worker, 2 channels (2 + 1 converters), 2 updates each, room for 3 packets, mappings may fail | refinement of the FIFO pipe (order of dequeueing); conservation of updates; no exception; every update is forwarded; exit ends with everything destroyed |
| `core_race` | 2 workers, 2 Stream objects of one channel (stop, add again), `stop_channel`, `stop_all`, client errors | no use of a destroyed path, exact counters, conservation, refinement of the pipe, and the inductive invariant of the proofs on all reachable states |
| `stop_deadlock` (violation) | 1 worker, 1 stream, 2 converters | `stop_channel` need not return |
| `producer_own` (violation) | 1 sender | `produce` reads `Msg->Size` of a message a callback may have deleted |
| `monitor` | two callback threads (symmetric), 3 updates, 1 tick, 2 connection changes, any order the queue may choose | one monitor at most, none after stop; monitor and reported state follow the connection unless connection callbacks overlap; the reader's alarm status is right unless an entry overtook another or the PV changed its structure |
| `alarm_severity` (violation) | 2 updates with one message and two severities | a change of severity alone is published as "no change" |
| `mapping` | streams file and 2 of 7 commands, with failing ones, a missing provider, topics that cannot be created, two servers, any choice of timers | one stream per channel, sharing by name, schema as configured; each topic and schema served once, on the server named first; factories run while needed; nobody changes the paths under the status walk but the `addMapping` that was at work on them |
| `mapping_names` (violation) | two commands with one unnamed converter each | the second is encoded with the schema of the first |
| `mapping_servers` (violation) | one command with a topic on two servers | only the first server gets the updates |
| `main_loop` | producer: 2 senders, 3 messages, queue of 2, 2 polls; run control: exit command and a signal, with and without status topic, any timers, a start that may fail; listener: 2 partitions with up to 2 messages, 1 of them from before the start | freed exactly once, statistics add up, nothing leaks, `~Producer` returns also if reports never come, and gives up only after its last poll; no stop reason lost, one late round of each timer at most, return, no `std::terminate`, status reports recur; commands from before the start are not repeated, later ones reach the handler whatever earlier ones threw |
| `converters` | 2 workers, TdcTime arrays of length 0 to 4, every f142 type with its whole range, arrays of its edge values up to length 2, all times, any fields missing, fake updates | no number of a message left out, timestamps of the pairs; f142 keeps value and time |
| `tdc_threads` (violation) | 2 workers, one array | two messages with the same sequence counter |

Why the bounds suffice for these questions: two updates and two converters make
a batch whose last packets are counted and whose first are not, and with
`FillLimit = 3` (2^32-1 in the code) the queue fills in the middle of a batch.
Two Stream objects of the same channel are what stop-and-add-again needs, two
workers what an order or a shared `sid` needs. Three messages against a queue of
two reach the full queue with a callback under way. Deadlock is checked in all
runs except where the modelled part ends by itself after its bounded inputs
(`monitor`, `alarm_severity`, `mapping*`, `converters`, `tdc_threads`) or where the program can
hang (`core_race`, `stop_deadlock`).

### What the violations show

* `stop_deadlock`: `Streams::stopChannel` holds `StreamsMutex` while
  `~ConversionPath` waits for `transit = 0`. The worker that has the counted
  packet is still inside `fill` and needs `StreamsMutex` for `streams.size()`.
* `producer_own`: `ProducerTopic::produce` uses the message after librdkafka
  took it over.
* `alarm_severity`: `alarmMessageChanged` compares messages, not severities.
* `mapping_names`: `ConverterIndex` starts at 0 in every command and the
  registry is searched by name only.
* `mapping_servers`: `Stream::addConverter` compares topic and schema of two
  paths, not their brokers; the documentation promises several servers.
* `tdc_threads`: `SequenceNumber++` is not atomic; the documentation asks
  converters to be thread safe. What remains with any number of threads is
  `NoGaps`.

Other behaviours of the same models, which no run lists because a passing run
of the same property states the condition under which it holds:

* `NoTerminate` needs the absence of stops: a stop between the comparison of
  `sid` and `streams[sid]` makes `at()` throw in a worker (`Streams.h:63`).
* `ExitCompletes` needs it too: a worker left with the last `shared_ptr` waits
  in `~ConversionPath` for packets in its own queue (`ConversionWorker.cpp:83`).
* `ImplementsFifoPipe` needs one conversion thread (the default): with two,
  two updates of a PV can be emitted in either order.
* `ConnectionFollowed` needs connection callbacks that have not overlapped,
  `NoOldCommand` a successful query of the watermarks; both say so.
* `EndsCleanly` needs a start that succeeds or no timers: if the status topic
  cannot be created, `~Forwarder` destroys timers whose threads run
  (`Forwarder.cpp:167`), which is `std::terminate`.
* `WalkUndisturbed` excepts the stream that `addMapping` is adding converters
  to: `getStatusJson` reads `ConversionPaths` while `addConverter` appends,
  without a common mutex (`Stream.cpp:178`).
* `StatusShown` needs a queue in which no entry overtakes one of another
  thread. If the timer repeats an update of status A, EPICS sends two of status
  B (the first with alarm fields), and the repetition is dequeued between those
  two, the reader ends with A. It also needs a PV that keeps its structure: one
  that comes back without its alarm field keeps the status it had.

Ends of the process that the models have and no property is about, since the
code has no condition to check against: an alarm field read through a null
pointer when a PV comes back with one it did not have
(`EpicsClientMonitor.cpp:77`, `nullAlarm`); a `timeStamp` or `alarm` without the
subfields f142 looks up (`f142.cpp:383`, `DataFromPVStruct.cpp:54`, `crashed`).
With both timers configured the streams have fake clients, and the callback for
periodic updates calls a null pointer (`Forwarder.cpp:291`; the other callback
is guarded, `:279`).

## 4. Fairness

* `ForwarderCore`: weak fairness of each thread's steps. Strong fairness of
  taking `mx` and `streams_mutex`: `std::mutex` promises none, but a worker
  sleeps between rounds without a lock, so a waiting thread finds it free again
  and again. Nothing is assumed about commands, updates or client errors.
* `KafkaProducer`: threads go on and the main loop polls. Whether librdkafka
  ever reports a message is open (`DestroyReturns` holds without); `AllFreed`
  has it as a premise, as `message.timeout.ms` promises. Whether a delivery
  succeeds is open.
* `RunControl`: threads go on, timers expire, a raiser that has begun goes on,
  and its `compare_exchange_weak` does not fail for ever while it could succeed
  (strong fairness of the success). Whether anybody raises the flag is open.
* `CommandListener`: the main thread goes on, librdkafka delivers what is in an
  assigned partition.

`EpicsMonitor`, `Mapping` and the converters have safety properties only.

## 5. Proofs

Every invariant that a passing run checks, and both refinements, are theorems:
they hold for every value of the constants (any number of threads, streams,
messages, updates, commands, ...), from the named assumptions of the modules
and the hypotheses that a theorem states. Each is proved from an inductive
invariant: the initial states satisfy it, one lemma per conjunct shows that
every step keeps it, and the property follows.

### The core (`ForwarderCoreProofs`, `ForwarderPipeProofs`)

From `ThreadsAssumption`, `StreamsAssumption`, `BoundsAssumption` and
`InputsAssumption` (names are distinct, converters are numbers, bounds are
natural numbers):

| Theorem | States | Hypotheses |
|---|---|---|
| `TypeCorrect` | `[](TypeOK /\ LockInv)` | |
| `PathsStayAlive`, `TransitIsExact` | `[]PathAlive`, `[]TransitExact` | |
| `InductiveInvariant`, `NoUpdateLost` | `[]IInv`, `[]NothingLost` | |
| `CoreImplementsPipe` | `ImplementsPipe` | |
| `OneWorkerImplementsFifoPipe` | `ImplementsFifoPipe` | one worker |
| `ServingNeverTerminates` | `[]NoTerminate` | nothing is stopped or fails |

`PathAlive` is not inductive. `fillConversionQueue` counts only the last packet
of a batch in `transit`, and only after all packets are queued, so the other
packets are protected indirectly. `SafeInv`, the first part of `IInv`, says how:

* `LockInv`: where each thread holds which mutex, hence at most one thread has
  a stream outside the list;
* `LifeInv`: a stream is in the list at most once, and one being destroyed is
  neither in the list nor held;
* `PacketInv`: a packet exists in one place;
* `GuardInv`: behind every packet, in the same queue, is one of the same path
  that is counted, or will be when the running `fillConversionQueue` returns
  (and then the worker's pointer keeps the stream alive);
* `MarkInv`: `transit[p]` is the number of counted packets of `p`, and no
  counted packet has a destroyed path.

Since a queue is drained in order, a packet leaves before its guard; since
`~ConversionPath` waits for zero, no path is destroyed while a guard exists.

Conservation adds `TakeInv` (nothing is dequeued that was not delivered; a
worker looks at `do_run` only with an empty queue) and `PlaceInv` (each
dequeued update is, on each path, queued or emitted, never both). With them a
step of the core is a step of `UpdatePipe` or a stutter: `EmitPacket` is the
pipe's output, since what is emitted waited and had not been sent. For the FIFO
pipe, `QueueOrder` says that a queue has the updates of a path in order, and
with one worker `SentOrder` follows. `NoTerminate` rests on `ServeInv`: without
stops the list only grows until the workers have ended.

### The other components

| Theorems | State | Hypotheses | Rest on |
|---|---|---|---|
| `ProducerTypes`, `MessagesFreedOnce`, `StatisticsAddUp` | `TypeOK`, `FreedOnce`, `StatsAddUp` | | `OwnInv`: librdkafka has a message in one place; its owner is one sender until it is accepted, then librdkafka until the callback |
| `StopReasonsKept`, `OneLateRoundOnly`, `EndsCleanlyAlways` | `ReasonsKept`, `OneLateRound`, `EndsCleanly` | | `ControlInv`: a thread inside the callbacks has not been late; which threads have ended at each point of `forward_epics_to_kafka` |
| `MonitorTypes`, `AtMostOneMonitor`, `ConnectionIsFollowed`, `StatusIsShown` | `TypeOK`, `OneMonitor`, `ConnectionFollowed`, `StatusShown` | | `ClientInv`: the callback under way carries the client's state; as long as nothing has overtaken, the queue is a chain in which each update carries its alarm or has the status of the one before, and whose last is the cached update |
| `OldCommandsSkipped` | `NoOldCommand` | | `ListenerInv`: offsets and positions never lie before the old end |
| `ChannelsForwardedOnce`, `WalksUndisturbed`, `FactoriesAlwaysServe`, `ConvertersShared` | `OneStreamPerChannel`, `WalkUndisturbed`, `FactoriesServe`, `SharedByName` | | `MapInv`: `Count` is the number of clients that exist, kept by streams or callbacks; the registry has the instance of every named path and no instance twice |
| `SchemasHonoured` | `SchemaHonoured` | `NamesAgree` | `SchemaInv`: the registered instance of a name has the schema of the name |
| `AllDestinationsServed` | `DestinationsServed` | `NamesAgree` | `DestInv`: of the stream that `addMapping` is busy with, the converters before `convs` are served by the first of their topic and schema; paths are distinct and all asked for |
| `TdcTimesOrdered` | `TimesOrdered` | | `TdcInv`, and that valid times do not wrap around |
| `TdcNumbersWithoutGaps` | `NoGaps` | | `GapInv`: every number below `SequenceNumber`, below a loaded value or below a sent number has been sent |
| `TdcCountersConsecutive` | `Consecutive` | one worker, at most `Width` updates | `CountInv`: `SequenceNumber` is the number of messages |
| `F142ValuesKept`, `F142TimesKept` | `ValueKept`, `TimeKept` | | `F142Inv`; `FitScalar`: the builder of a type has room for its values; `Remainder` |

The hypotheses are those of section 3: each is met by the instance of the
passing run, and without it TLC has a counterexample. The exception
is `TdcCountersConsecutive`, which complements `tdc_threads`: it needs the one
worker that is the default, and no passing run has that instance. `NamesAgree`: a name
stands for one schema in all documents (what `mapping_names` violates: the
generated names of two commands are the same). In `Mapping`, `SettingsAssumption` says that documents are
sequences of streams with sequences of converters; nothing else is assumed
about them. In the converters, `Second` and `Width` are any numbers
(`F142Assumption`: `Width` is a multiple of 16 and at least 32, so that 8 bits
have room for the booleans), hence also 10^9 and 2^64. `F142ValuesKept` is about
the PVs of `Fields`, whose arrays are short; the lemma `ArrayKept` it rests on
is about arrays of any length.

Only model-checked: the liveness properties `UpdatesForwarded`,
`ExitCompletes`, `AllFreed`, `DestroyReturns`, `ExitReturns`, `StatusRecurs`
and `CommandsReachHandler` (fairness is outside the prover's reach), and the six
violations.

## 6. Properties by hazard

`PROJECT.json` lists the hazards with their lines. In short: use after free of
paths and messages (`PathAlive`, `TransitExact`, `FreedOnce`, `AliveWhileUsed`),
hangs (`StopReturns`, `ExitCompletes`, `ExitReturns`, `DestroyReturns`), threads
and factories that outlive or miss their owner (`EndsCleanly`, `FactoriesServe`),
races on the paths (`WalkUndisturbed`), lost, doubled or
reordered updates (`NothingLost`, `ImplementsPipe`, `ImplementsFifoPipe`,
`UpdatesForwarded`), exceptions in threads (`NoTerminate`), wrong alarms
(`StatusShown`, `SeverityShown`), wrong values
(`ValueKept`, `TimeKept`, `TimesOrdered`, `Consecutive`, `NoGaps`), misdirected
converters (`SharedByName`, `SchemaHonoured`, `DestinationsServed`,
`ServersServed`), stale connections
(`OneMonitor`, `ConnectionFollowed`), lost stop reasons and timers
(`ReasonsKept`, `OneLateRound`, `StatusRecurs`), repeated or missed commands
(`NoOldCommand`, `CommandsReachHandler`).

## 7. Plan

Done: the modules of section 2, and proofs of all invariants and refinements
that the runs check. What could follow:

1. the conditions of section 3 as theorems about the models, where they are
   only hypotheses now: for instance that two workers keep the order of the
   updates of a path within each queue (`QueueOrder` is proved already);
2. the component invariants at their interfaces: that what `EpicsMonitor`
   publishes is what `ForwarderCore` takes as `produced`, and what it emits is
   what `KafkaProducer` accepts.

## 8. Not modelled

* librdkafka, EPICS pvAccess and asio are external: what the code sees of them
  is modelled nondeterministically.
* Byte counters and queue-length statistics, ServiceID, log lines, and the
  contents of status and metrics documents: no decision depends on them.
* JSON and URI syntax: valid or invalid only. (A topic without a host is valid
  syntax and read as a host, so the default broker of `createTopicURI` is never
  used; the models take topics with a host, as the documentation asks for.)
* Options, logging, CURL/Influx reporting: input and output without state.
* `RangeSet` / `SeqDataEmitted`: never written in this version.
* `Statistics` of f142: counted, never read.
* The growth of the queue of a stopped client that a callback keeps: unbounded,
  so no finite instance shows more than the callback itself.
* EPICS callbacks after `destroy()`, and a signal that interrupts another thread
  while `main` destroys the `SignalHandler`: they depend on what EPICS promises
  and on the signal masks of its threads.
