-------------------------------- MODULE Mapping --------------------------------
(***************************************************************************)
(* From configuration to conversion paths: ConfigParser names the          *)
(* converters of an add command (or of the streams file), the command      *)
(* handler adds one mapping after the other, Forwarder::addMapping creates *)
(* the stream and pushes its converters, which are shared by name through  *)
(* weak pointers. Streams are erased by commands of the main thread and,   *)
(* at any moment, by the status thread; an erased stream is destroyed      *)
(* later, when its last shared_ptr and its packets in transit are gone.    *)
(* The EPICS client of a stream is kept by the stream and by the callbacks *)
(* of the timers (what they call is not modelled here), and every client   *)
(* of EPICS counts for the EPICS client factories. The status thread walks over the paths of the streams for    *)
(* its documents.                                                          *)
(*                                                                         *)
(* Names, topics, hosts and schemas are members of small sets. A stream    *)
(* object is its position in stream, a converter instance its position in  *)
(* schema.                                                                 *)
(***************************************************************************)
EXTENDS Integers, Sequences, FiniteSets

CONSTANTS
  Config,       \* stream settings of the streams file
  Commands,     \* add commands that may arrive: sequences of stream settings
  Channels,     \* channel names
  Schemas,      \* schemas in the SchemaRegistry
  Topics,       \* topics that URI::parse accepts
  Creatable,    \* those of them for which a topic handle can be created
  Unnamed,      \* a converter without "name" in the JSON
  NoName,       \* a converter with the empty name
  Providers,    \* channel providers that EPICS has
  TimerChoices, \* the sets of timers the options may ask for
  MaxCommands   \* bound: commands that arrive

TimerNames == {"PVUpdateTimer", "GenerateFakePVUpdateTimer"}

ASSUME MappingAssumption ==
  /\ MaxCommands \in Nat /\ TimerChoices \subseteq SUBSET TimerNames
  /\ Creatable \subseteq Topics

\* A document is a sequence of streams, each with a sequence of converters.
Documents == Commands \cup {Config}
IsSeq(s) == s \in Seq({s[k] : k \in DOMAIN s})
ASSUME SettingsAssumption ==
  \A cmd \in Documents :
    /\ IsSeq(cmd)
    /\ \A s \in DOMAIN cmd : "converter" \in DOMAIN cmd[s] /\ IsSeq(cmd[s].converter)

VARIABLES
  phase,     \* "setup": the constructor is running, "run": the main loop
  todo,      \* stream settings the command (or the constructor) still has
  convs,     \* converter settings addMapping still has to push
  current,   \* the stream of addMapping, 0 if none
  stream,    \* every Stream object made so far
  converters,\* Forwarder::converters: name to (weak) instance
  schema,    \* the schema of every Converter instance made so far
  ProducersByHost, \* InstanceSet: hosts with a producer
  commands,  \* commands received
  timers,    \* the timers there are
  Callbacks, \* of each timer: the streams whose clients its lambdas hold
  Count,     \* EpicsClientFactoryInit::Count
  factories, \* the EPICS client factories: "started" or "stopped"
  walk       \* the stream whose paths getStatusJson walks over

clientVars == <<timers, Callbacks, Count, factories>>
vars == <<phase, todo, convs, current, stream, converters, schema,
          ProducersByHost, commands, clientVars, walk>>

\* A host has one producer, made when its first topic is.
createProducerTopic(hosts) == ProducersByHost' = ProducersByHost \cup hosts
NoWalk == [at |-> 0]
\* Streams::StreamsMutex is free: the walk below holds it.
ListFree == walk = NoWalk
AutoName(k) == [auto |-> TRUE, n |-> k]
Listed == {n \in 1..Len(stream) : stream[n].state = "listed"}
Alive(i) == \E n \in 1..Len(stream) : \E k \in 1..Len(stream[n].paths) :
              stream[n].paths[k].conv = i

\* Mutant: every converter without a name gets the same name.
Numbered_Restarts(cmd) ==
  [s \in 1..Len(cmd) |->
    [cmd[s] EXCEPT !.converter = [k \in 1..Len(@) |->
      IF @[k].name = Unnamed THEN [@[k] EXCEPT !.name = AutoName(0)] ELSE @[k]]]]

\* extractStreamInfo: ConverterIndex counts the unnamed converters of one
\* document from 0.
UnnamedPlaces(cmd) ==
  UNION {{s} \X {k \in 1..Len(cmd[s].converter) : cmd[s].converter[k].name = Unnamed} :
         s \in 1..Len(cmd)}
ConverterIndex(cmd, s, k) ==
  Cardinality({p \in UnnamedPlaces(cmd) : p[1] < s \/ (p[1] = s /\ p[2] < k)})
NamedConverters(cmd, s) ==
  [k \in 1..Len(cmd[s].converter) |->
    IF cmd[s].converter[k].name = Unnamed
      THEN [cmd[s].converter[k] EXCEPT !.name = AutoName(ConverterIndex(cmd, s, k))]
      ELSE cmd[s].converter[k]]
Numbered(cmd) ==
  [s \in 1..Len(cmd) |-> [cmd[s] EXCEPT !.converter = NamedConverters(cmd, s)]]

Init ==
  /\ phase = "setup"
  /\ todo = Numbered(Config)
  /\ convs = <<>> /\ current = 0
  /\ stream = <<>>
  /\ converters = <<>> /\ schema = <<>>
  /\ ProducersByHost = {}
  /\ commands = 0
  /\ timers \in TimerChoices
  /\ Callbacks = [t \in timers |-> {}]
  /\ Count = 0 /\ factories = "stopped"
  /\ walk = NoWalk
-----------------------------------------------------------------------------
(* EPICS clients.                                                          *)

Fake == "GenerateFakePVUpdateTimer" \in timers
\* Every lambda has a copy of the shared_ptr to the client of its stream,
\* whatever the dynamic_cast of it gives, and no lambda is ever removed.
AddCallbacks(n) == Callbacks' = [t \in timers |-> Callbacks[t] \cup {n}]
Kept(n) == \E t \in timers : n \in Callbacks[t]

\* The constructor of EpicsClientFactoryInit; a fake client has none.
FactoryInit ==
  IF Fake THEN UNCHANGED <<Count, factories>>
  ELSE Count' = Count + 1 /\ factories' = IF Count = 0 THEN "started" ELSE factories

\* Mutant: the factories are stopped one client too early.
FactoryExit_Early ==
  /\ Count' = Count - 1
  /\ factories' = IF Count - 1 <= 1 THEN "stopped" ELSE factories
\* Its destructor.
FactoryExit ==
  /\ Count' = Count - 1
  /\ factories' = IF Count - 1 <= 0 THEN "stopped" ELSE factories
-----------------------------------------------------------------------------
(* addMapping.                                                             *)

\* The constructor of the client fails if there is no provider.
Connects(s) == Fake \/ s.provider \in Providers

\* addStream and the callbacks: the stream is in the list, its client runs.
NewStream(s) ==
  /\ ListFree /\ current = 0 /\ Connects(s)
  /\ stream' = Append(stream, [channel |-> s.channel, state |-> "listed",
                               asked |-> s.converter, complete |-> FALSE,
                               paths |-> <<>>])
  /\ AddCallbacks(Len(stream'))
  /\ FactoryInit

\* The producer for the connection status takes the topic of the first
\* converter; then the converters are pushed.
StatusTopic(s) == {s.converter[k] : k \in {1} \cap (1..Len(s.converter))}
BeginPush(s) ==
  /\ \A c \in StatusTopic(s) : c.topic \in Creatable
  /\ current' = Len(stream')
  /\ convs' = s.converter
  /\ todo' = Tail(todo)
  /\ createProducerTopic({c.host : c \in StatusTopic(s)})
  /\ UNCHANGED <<phase, converters, schema, commands, timers, walk>>

\* Mutant: an existing stream for the channel is not looked for.
AddStream_NoCheck ==
  todo # <<>> /\ NewStream(Head(todo)) /\ BeginPush(Head(todo))

AddStream ==
  /\ todo # <<>>
  /\ \A n \in Listed : stream[n].channel # Head(todo).channel
  /\ NewStream(Head(todo))
  /\ BeginPush(Head(todo))

\* An exception ends addMapping. The constructor goes on with its next
\* stream, a command is given up.
Abandon(rest) ==
  /\ todo' = IF phase = "setup" THEN rest ELSE <<>>
  /\ convs' = <<>>
  /\ current' = 0

\* "Stream already exists".
AddExisting ==
  /\ ListFree /\ current = 0 /\ todo # <<>>
  /\ \E n \in Listed : stream[n].channel = Head(todo).channel
  /\ Abandon(Tail(todo))
  /\ UNCHANGED <<phase, stream, converters, schema, ProducersByHost, commands,
                 clientVars, walk>>

\* "could not initialize": the client goes, and with it its count for the
\* factories.
AddNoProvider ==
  /\ ListFree /\ current = 0 /\ todo # <<>>
  /\ \A n \in Listed : stream[n].channel # Head(todo).channel
  /\ ~ Connects(Head(todo))
  /\ Abandon(Tail(todo))
  /\ UNCHANGED <<phase, stream, converters, schema, ProducersByHost, commands,
                 clientVars, walk>>

\* No status producer for the topic of the first converter: the stream is in
\* the list already and stays there without converters. If the topic parses,
\* the producer of its host is made before the topic fails.
AddBadTopic ==
  /\ todo # <<>>
  /\ \A n \in Listed : stream[n].channel # Head(todo).channel
  /\ NewStream(Head(todo))
  /\ \E c \in StatusTopic(Head(todo)) : c.topic \notin Creatable
  /\ createProducerTopic({c.host : c \in {d \in StatusTopic(Head(todo)) : d.topic \in Topics}})
  /\ Abandon(Tail(todo))
  /\ UNCHANGED <<phase, converters, schema, commands, timers, walk>>

Registered(c) == c.schema \in Schemas
createTopicURI(c) == c.topic \in Topics
Usable(c) == Registered(c) /\ createTopicURI(c)

\* The converter instance for c: the one of that name if it still exists.
Found(c) == c.name # NoName /\ c.name \in DOMAIN converters /\ Alive(converters[c.name])
Instance(c) == IF Found(c) THEN converters[c.name] ELSE Len(schema) + 1
Register(c, i) == [x \in DOMAIN converters \cup {c.name} |->
                     IF x = c.name THEN i ELSE converters[x]]

\* pushConverterToStream up to the topic, with the registry of converters
\* becoming reg.
MakeConverter(c, reg) ==
  /\ current # 0 /\ convs # <<>> /\ Usable(c)
  /\ schema' = IF Found(c) THEN schema ELSE Append(schema, c.schema)
  /\ converters' = reg
  /\ createProducerTopic({c.host})

\* addConverter, with dup saying whether the path is one the stream has.
PushWith(c, reg, dup) ==
  /\ MakeConverter(c, reg) /\ c.topic \in Creatable
  /\ stream' = [stream EXCEPT ![current].paths =
                  IF dup THEN @ ELSE Append(@, [asked |-> c, conv |-> Instance(c)])]
  /\ convs' = Tail(convs)
  /\ UNCHANGED <<phase, todo, current, commands, clientVars, walk>>

\* addConverter: two paths of a stream are the same if topic and schema of
\* their converters are; the broker is not looked at.
CurrentPaths == {stream[current].paths[k] : k \in 1..Len(stream[current].paths)}
Same(c, p) == p.asked.topic = c.topic /\ schema[p.conv] = schema'[Instance(c)]

\* Mutants: a converter that replaces an expired one is not stored; a path
\* to the same topic is a duplicate whatever its schema.
PushConverter_NotStored ==
  LET c == Head(convs) IN
  PushWith(c, IF c.name = NoName \/ c.name \in DOMAIN converters THEN converters
              ELSE Register(c, Instance(c)), \E p \in CurrentPaths : Same(c, p))
PushConverter_TopicOnly ==
  LET c == Head(convs) IN
  PushWith(c, IF c.name = NoName THEN converters ELSE Register(c, Instance(c)),
           \E p \in CurrentPaths : p.asked.topic = c.topic)

\* pushConverterToStream, as a whole: a named converter is registered.
Registry(c) == IF c.name = NoName THEN converters ELSE Register(c, Instance(c))
PushConverter ==
  LET c == Head(convs) IN
  PushWith(c, Registry(c), \E p \in CurrentPaths : Same(c, p))

\* The topic cannot be created: converter and producer are made by then, and
\* the registry keeps the name of a new converter, which is gone again.
PushNoTopic ==
  LET c == Head(convs) IN
  /\ MakeConverter(c, Registry(c)) /\ c.topic \notin Creatable
  /\ Abandon(todo)
  /\ UNCHANGED <<phase, stream, commands, clientVars, walk>>

\* pushConverterToStream throws for an unknown schema or a bad topic.
PushFails ==
  /\ current # 0 /\ convs # <<>> /\ ~ Usable(Head(convs))
  /\ Abandon(todo)
  /\ UNCHANGED <<phase, stream, converters, schema, ProducersByHost, commands,
                 clientVars, walk>>

Added ==
  /\ current # 0 /\ convs = <<>>
  /\ stream' = [stream EXCEPT ![current].complete = TRUE]
  /\ current' = 0
  /\ UNCHANGED <<phase, todo, convs, converters, schema, ProducersByHost, commands,
                 clientVars, walk>>
-----------------------------------------------------------------------------
(* Commands and the other threads.                                         *)

Idle == current = 0 /\ todo = <<>>
Receive == phase = "run" /\ Idle /\ commands < MaxCommands /\ commands' = commands + 1

\* The constructor is through.
Start ==
  /\ phase = "setup" /\ Idle
  /\ phase' = "run"
  /\ UNCHANGED <<todo, convs, current, stream, converters, schema,
                 ProducersByHost, commands, clientVars, walk>>

handleCommandAdd(cmd) ==
  /\ Receive
  /\ todo' = Numbered(cmd)
  /\ UNCHANGED <<phase, convs, current, stream, converters, schema,
                 ProducersByHost, clientVars, walk>>

\* Mutant: streams are erased without StreamsMutex.
Erase_Unlocked(S) ==
  stream' = [n \in 1..Len(stream) |->
               IF n \in S THEN [stream[n] EXCEPT !.state = "dying"] ELSE stream[n]]
Erase(S) ==
  ListFree /\ stream' = [n \in 1..Len(stream) |->
               IF n \in S THEN [stream[n] EXCEPT !.state = "dying"] ELSE stream[n]]

handleCommandStopChannel(channel) ==
  /\ Receive
  /\ Erase({n \in Listed : stream[n].channel = channel})
  /\ UNCHANGED <<phase, todo, convs, current, converters, schema,
                 ProducersByHost, clientVars, walk>>

handleCommandStopAll ==
  /\ Receive
  /\ Erase(Listed)
  /\ UNCHANGED <<phase, todo, convs, current, converters, schema,
                 ProducersByHost, clientVars, walk>>

\* checkStreamStatus, on the status thread: any stream may have failed.
checkStreamStatus(n) ==
  /\ phase = "run" /\ n \in Listed
  /\ Erase({n})
  /\ UNCHANGED <<phase, todo, convs, current, converters, schema,
                 ProducersByHost, commands, clientVars, walk>>

\* getStreamStatuses, on the status thread: under StreamsMutex, getStatusJson
\* of one stream after the other walks over its ConversionPaths, without
\* ConversionPathsMutex. (The walks over other streams change nothing here.)
getStatusJson(n) ==
  /\ phase = "run" /\ ListFree /\ n \in Listed
  /\ walk' = [at |-> n, paths |-> stream[n].paths, adding |-> current = n]
  /\ UNCHANGED <<phase, todo, convs, current, stream, converters, schema,
                 ProducersByHost, commands, clientVars>>

StatusDone ==
  /\ walk # NoWalk
  /\ walk' = NoWalk
  /\ UNCHANGED <<phase, todo, convs, current, stream, converters, schema,
                 ProducersByHost, commands, clientVars>>

\* The last shared_ptr to an erased stream is gone, and ~Stream is through.
\* The client goes with it, unless a callback keeps it.
DestroyStream(n) ==
  /\ stream[n].state = "dying" /\ current # n
  /\ stream' = [stream EXCEPT ![n].state = "gone", ![n].paths = <<>>]
  /\ IF Fake \/ Kept(n)
       THEN UNCHANGED <<Count, factories>>
       ELSE FactoryExit
  /\ UNCHANGED <<phase, todo, convs, current, converters, schema,
                 ProducersByHost, commands, timers, Callbacks, walk>>

Next ==
  \/ AddStream \/ AddExisting \/ AddNoProvider \/ AddBadTopic 
  \/ PushConverter \/ PushNoTopic \/ PushFails \/ Added
  \/ Start
  \/ \E cmd \in Commands : handleCommandAdd(cmd)
  \/ \E channel \in Channels : handleCommandStopChannel(channel)
  \/ handleCommandStopAll
  \/ \E n \in 1..Len(stream) : checkStreamStatus(n) \/ getStatusJson(n) \/ DestroyStream(n)
  \/ StatusDone

Spec == Init /\ [][Next]_vars
-----------------------------------------------------------------------------
\* A channel is forwarded by one stream at most.
OneStreamPerChannel ==
  \A n, m \in Listed : stream[n].channel = stream[m].channel => n = m

AllPaths == UNION {{stream[n].paths[k] : k \in 1..Len(stream[n].paths)} : n \in 1..Len(stream)}

\* Sharing by name: two converters that exist at the same time under one
\* name are one instance, and an instance serves one name only. Streams come
\* and go in between, erased ones may still be waiting for destruction.
SharedByName ==
  \A p, q \in AllPaths :
    p.asked.name # NoName /\ q.asked.name # NoName =>
      (p.asked.name = q.asked.name <=> p.conv = q.conv)

\* Every path encodes with the schema that was configured for it.
SchemaHonoured == \A p \in AllPaths : schema[p.conv] = p.asked.schema

SameTarget(a, b) == a.topic = b.topic /\ a.schema = b.schema
\* No converter before the k-th has its topic and schema.
NamedFirst(cs, k) == \A l \in 1..(k - 1) : ~ SameTarget(cs[l], cs[k])

\* A stream that was added without an error has one path for each topic and
\* schema configured for it, to the server that was named first for them.
DestinationsServed ==
  \A n \in Listed : stream[n].complete =>
    LET cs == stream[n].asked
        ps == stream[n].paths
    IN \A k \in 1..Len(cs) :
         LET P == {j \in 1..Len(ps) : SameTarget(ps[j].asked, cs[k])} IN
         /\ Cardinality(P) = 1
         /\ NamedFirst(cs, k) => \A j \in P : ps[j].asked = cs[k]

\* What the documentation of the "stream" command says: an EPICS PV can be
\* sent to several topics or servers. A stream that was added without an
\* error sends to every topic on every server configured for it. (It does
\* not: addConverter takes a topic on another server for the same.)
ServersServed ==
  \A n \in Listed : stream[n].complete =>
    LET cs == stream[n].asked
        ps == stream[n].paths
    IN \A k \in 1..Len(cs) : \E j \in 1..Len(ps) :
         ps[j].asked.host = cs[k].host /\ ps[j].asked.topic = cs[k].topic

\* The factories run as long as a stream has a client of EPICS, whichever
\* threads create and destroy them. Without the timer for periodic updates
\* no client outlives its stream, so the factories stop with the last one.
FactoriesServe ==
  LET C == {n \in 1..Len(stream) : ~ Fake /\ stream[n].state # "gone"} IN
  /\ C # {} => factories = "started"
  /\ timers = {} => Count = Cardinality(C) /\ (C = {} => factories = "stopped")

\* A status document shows a stream as it is: while getStatusJson walks over
\* the paths, without their mutex, nobody adds or destroys one, except the
\* addMapping that had not finished with the stream when the walk began.
WalkUndisturbed ==
  walk # NoWalk /\ ~ walk.adding => stream[walk.at].paths = walk.paths
=============================================================================
