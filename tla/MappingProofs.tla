---------------------------- MODULE MappingProofs ----------------------------
(* Proofs about streams, shared converters, EPICS clients and the status    *)
(* thread, for all configurations and commands and any number of them.      *)
EXTENDS Mapping, SequenceTheorems, FiniteSetTheorems, TLAPS

USE MappingAssumption
    DEF vars, clientVars

\* The stream settings and the converter settings that addMapping can get.
Settings == UNION {{Numbered(cmd)[s] : s \in 1..Len(cmd)} : cmd \in Documents}
Convs == UNION {{st.converter[k] : k \in 1..Len(st.converter)} : st \in Settings}

\* extractStreamInfo gives a sequence of stream settings.
LEMMA NumberedType ==
  ASSUME NEW cmd \in Documents
  PROVE  Numbered(cmd) \in Seq(Settings)
<1> DEFINE N == Numbered(cmd)
<1>1. IsSeq(cmd)
  BY SettingsAssumption
<1>2. Len(cmd) \in Nat
  BY <1>1 DEF IsSeq
<1>3. N = [s \in 1..Len(cmd) |-> N[s]]
  BY Zenon DEF Numbered
<1>4. \A s \in 1..Len(cmd) : N[s] \in Settings
  BY DEF Settings
<1> HIDE DEF N
<1>5. N \in [1..Len(cmd) -> Settings]
  BY <1>3, <1>4
<1>6. N \in Seq(Settings)
  BY <1>2, <1>5
<1> QED BY <1>6 DEF N

\* The converters of a stream are a sequence.
LEMMA SettingType ==
  ASSUME NEW st \in Settings
  PROVE  st.converter \in Seq(Convs)
<1>0. PICK cmd \in Documents : \E s \in 1..Len(cmd) : st = Numbered(cmd)[s]
  BY DEF Settings
<1>1. PICK s \in 1..Len(cmd) : st = Numbered(cmd)[s]
  BY <1>0
<1>2. /\ IsSeq(cmd) /\ s \in DOMAIN cmd
  BY <1>1, SettingsAssumption DEF IsSeq
<1>3. "converter" \in DOMAIN cmd[s] /\ IsSeq(cmd[s].converter)
  BY <1>2, SettingsAssumption
<1> DEFINE cs == cmd[s].converter
<1>4. Len(cs) \in Nat
  BY <1>3 DEF IsSeq
<1>5. st.converter = NamedConverters(cmd, s)
  BY <1>1, <1>3, Zenon DEF Numbered
<1> HIDE DEF cs
<1>6. Len(st.converter) = Len(cs) /\ st.converter \in [1..Len(cs) -> {st.converter[k] : k \in 1..Len(cs)}]
  <2> DEFINE f == NamedConverters(cmd, s)
  <2>1. f = [k \in 1..Len(cs) |-> f[k]]
    BY Zenon DEF NamedConverters, cs
  <2> HIDE DEF f
  <2>2. Len(f) = Len(cs) /\ f \in [1..Len(cs) -> {f[k] : k \in 1..Len(cs)}]
    BY <1>4, <2>1
  <2> QED BY <1>5, <2>2 DEF f
<1>7. \A k \in 1..Len(cs) : st.converter[k] \in Convs
  BY <1>6 DEF Convs
<1>8. st.converter \in [1..Len(cs) -> Convs]
  BY <1>6, <1>7
<1> QED BY <1>4, <1>8
-----------------------------------------------------------------------------
Paths == [asked : Convs, conv : Nat]
Streams == [channel : {st.channel : st \in Settings}, state : {"listed", "dying", "gone"},
            asked : Seq(Convs), complete : BOOLEAN, paths : Seq(Paths)]
SchemaNames == {c.schema : c \in Convs}

MapTypes ==
  /\ todo \in Seq(Settings) /\ convs \in Seq(Convs)
  /\ stream \in Seq(Streams)
  /\ current \in 0..Len(stream)
  /\ schema \in Seq(SchemaNames)
  /\ \A x \in DOMAIN converters : converters[x] \in 1..Len(schema)
  /\ \A n \in 1..Len(stream) : \A k \in 1..Len(stream[n].paths) :
       stream[n].paths[k].conv \in 1..Len(schema)
  /\ timers \in TimerChoices
  /\ Callbacks \in [timers -> SUBSET Nat]

\* What the types say of the streams.
LEMMA TypeFacts ==
  ASSUME MapTypes
  PROVE  /\ Len(stream) \in Nat /\ Len(schema) \in Nat /\ current \in 0..Len(stream)
         /\ \A n \in 1..Len(stream) :
              /\ stream[n] \in Streams /\ stream[n].paths \in Seq(Paths)
              /\ Len(stream[n].paths) \in Nat /\ stream[n].asked \in Seq(Convs)
              /\ stream[n].state \in {"listed", "dying", "gone"}
              /\ stream[n].complete \in BOOLEAN
<1>1. /\ Len(stream) \in Nat /\ Len(schema) \in Nat /\ current \in 0..Len(stream)
      /\ \A n \in 1..Len(stream) : stream[n] \in Streams
  BY DEF MapTypes
<1>2. \A r \in Streams : /\ r.paths \in Seq(Paths) /\ Len(r.paths) \in Nat
                         /\ r.asked \in Seq(Convs) /\ r.complete \in BOOLEAN
                         /\ r.state \in {"listed", "dying", "gone"}
  BY DEF Streams
<1> QED BY <1>1, <1>2

\* addStream appends to the streams.
LEMMA NewStreamEffect ==
  ASSUME MapTypes, NEW s \in Settings, NewStream(s)
  PROVE  /\ stream' \in Seq(Streams) /\ Len(stream') = Len(stream) + 1
         /\ \A n \in 1..Len(stream) : stream'[n] = stream[n]
         /\ stream'[Len(stream) + 1] = [channel |-> s.channel, state |-> "listed",
                                        asked |-> s.converter, complete |-> FALSE, paths |-> <<>>]
<1> DEFINE new == [channel |-> s.channel, state |-> "listed", asked |-> s.converter,
                   complete |-> FALSE, paths |-> <<>>]
<1>1. new \in Streams
  BY SettingType DEF Streams
<1>2. stream' = Append(stream, new) /\ stream \in Seq(Streams)
  BY DEF NewStream, MapTypes
<1> HIDE DEF new
<1>3. /\ stream' \in Seq(Streams) /\ Len(stream') = Len(stream) + 1
      /\ \A n \in 1..Len(stream) : stream'[n] = stream[n]
      /\ stream'[Len(stream) + 1] = new
  BY <1>1, <1>2, AppendProperties
<1> QED BY <1>3 DEF new

\* The instance that a converter gets and what becomes of the registry of
\* schemas.
LEMMA InstanceEffect ==
  ASSUME MapTypes, NEW c \in Convs,
         schema' = IF Found(c) THEN schema ELSE Append(schema, c.schema)
  PROVE  /\ schema' \in Seq(SchemaNames) /\ Len(schema') \in Nat /\ Len(schema) <= Len(schema')
         /\ Instance(c) \in 1..Len(schema')
         /\ \A i \in 1..Len(schema) : schema'[i] = schema[i]
         /\ Found(c) => /\ c.name # NoName /\ c.name \in DOMAIN converters
                        /\ Instance(c) = converters[c.name] /\ schema' = schema
         /\ ~ Found(c) => Instance(c) = Len(schema) + 1 /\ schema'[Instance(c)] = c.schema
<1>1. schema \in Seq(SchemaNames) /\ c.schema \in SchemaNames /\ Len(schema) \in Nat
  BY DEF MapTypes, SchemaNames
<1>2. CASE Found(c)
  BY <1>1, <1>2 DEF Found, Instance, MapTypes
<1>3. CASE ~ Found(c)
  <2>1. /\ schema' \in Seq(SchemaNames) /\ Len(schema') = Len(schema) + 1
        /\ \A i \in 1..Len(schema) : schema'[i] = schema[i]
        /\ schema'[Len(schema) + 1] = c.schema
    BY <1>1, <1>3, AppendProperties
  <2> QED BY <1>1, <1>3, <2>1 DEF Instance
<1> QED BY <1>2, <1>3

\* pushConverterToStream changes the paths of the current stream only.
LEMMA PushEffect ==
  ASSUME MapTypes, NEW c, c = Head(convs), NEW reg, NEW dup \in BOOLEAN, PushWith(c, reg, dup)
  PROVE  /\ c \in Convs /\ convs' \in Seq(Convs) /\ current \in 1..Len(stream)
         /\ schema' = IF Found(c) THEN schema ELSE Append(schema, c.schema)
         /\ stream' \in Seq(Streams) /\ Len(stream') = Len(stream)
         /\ \A n \in 1..Len(stream) :
              /\ n # current => stream'[n] = stream[n]
              /\ stream'[n].channel = stream[n].channel /\ stream'[n].state = stream[n].state
              /\ stream'[n].asked = stream[n].asked /\ stream'[n].complete = stream[n].complete
         /\ stream'[current].paths = IF dup THEN stream[current].paths
                ELSE Append(stream[current].paths, [asked |-> c, conv |-> Instance(c)])
<1>1. /\ convs \in Seq(Convs) /\ convs # <<>> /\ current # 0
      /\ stream \in Seq(Streams) /\ current \in 1..Len(stream)
      /\ convs' = Tail(convs)
      /\ schema' = IF Found(c) THEN schema ELSE Append(schema, c.schema)
      /\ stream' = [stream EXCEPT ![current].paths =
                      IF dup THEN @ ELSE Append(@, [asked |-> c, conv |-> Instance(c)])]
  BY DEF PushWith, MakeConverter, MapTypes
<1>2. c \in Convs /\ convs' \in Seq(Convs)
  BY <1>1, HeadTailProperties
<1>3. Instance(c) \in Nat
  BY <1>1, <1>2, InstanceEffect
<1> DEFINE path == [asked |-> c, conv |-> Instance(c)]
           p == IF dup THEN stream[current].paths ELSE Append(stream[current].paths, path)
<1>4. path \in Paths
  BY <1>2, <1>3 DEF Paths
<1>5. p \in Seq(Paths)
  <2> HIDE DEF path
  <2>1. stream[current].paths \in Seq(Paths)
    BY <1>1, TypeFacts
  <2> QED BY <1>4, <2>1, AppendProperties
<1>6. stream' = [stream EXCEPT ![current].paths = p]
  BY <1>1
<1> HIDE DEF p, path
<1> DEFINE e == [stream[current] EXCEPT !.paths = p]
<1>a. stream[current] \in Streams /\ Len(stream) \in Nat
  BY <1>1
<1>b. /\ e \in Streams /\ e.channel = stream[current].channel /\ e.state = stream[current].state
      /\ e.asked = stream[current].asked /\ e.complete = stream[current].complete /\ e.paths = p
  BY <1>5, <1>a DEF Streams
<1>c. stream' = [stream EXCEPT ![current] = e]
  BY <1>6
<1> HIDE DEF e
<1>d. stream' \in Seq(Streams) /\ Len(stream') = Len(stream)
  <2>1. stream \in Seq(Streams) /\ current \in 1..Len(stream) /\ e \in Streams
    BY <1>1, <1>b
  <2> QED BY <2>1, <1>c, ExceptSeq
<1>e. stream'[current] = e /\ \A n \in 1..Len(stream) : n # current => stream'[n] = stream[n]
  BY <1>1, <1>b, <1>c
<1>8. /\ \A n \in 1..Len(stream) :
          /\ stream'[n].channel = stream[n].channel /\ stream'[n].state = stream[n].state
          /\ stream'[n].asked = stream[n].asked /\ stream'[n].complete = stream[n].complete
      /\ stream'[current].paths = p
  BY <1>b, <1>e
<1> QED BY <1>1, <1>2, <1>d, <1>e, <1>8 DEF p, path

\* Erasing streams changes their state only.
LEMMA EraseEffect ==
  ASSUME MapTypes, NEW S, Erase(S)
  PROVE  /\ stream' \in Seq(Streams) /\ Len(stream') = Len(stream)
         /\ \A n \in 1..Len(stream) :
              /\ stream'[n].channel = stream[n].channel /\ stream'[n].paths = stream[n].paths
              /\ stream'[n].asked = stream[n].asked /\ stream'[n].complete = stream[n].complete
              /\ stream'[n].state = IF n \in S THEN "dying" ELSE stream[n].state
<1>1. stream \in Seq(Streams) /\ Len(stream) \in Nat
  BY DEF MapTypes
<1>2. stream' = [n \in 1..Len(stream) |->
                  IF n \in S THEN [stream[n] EXCEPT !.state = "dying"] ELSE stream[n]]
  BY DEF Erase
<1>3. \A n \in 1..Len(stream) : stream[n] \in Streams
  BY <1>1
<1>4. \A n \in 1..Len(stream) :
        /\ stream'[n] \in Streams
        /\ stream'[n].channel = stream[n].channel /\ stream'[n].paths = stream[n].paths
        /\ stream'[n].asked = stream[n].asked /\ stream'[n].complete = stream[n].complete
        /\ stream'[n].state = IF n \in S THEN "dying" ELSE stream[n].state
  BY <1>2, <1>3 DEF Streams
<1>5. stream' \in [1..Len(stream) -> Streams]
  BY <1>2, <1>4
<1>6. stream' \in Seq(Streams) /\ Len(stream') = Len(stream)
  BY <1>1, <1>5
<1> QED BY <1>4, <1>6

\* The destruction of a stream takes its paths away.
LEMMA DestroyEffect ==
  ASSUME MapTypes, NEW m \in 1..Len(stream), DestroyStream(m)
  PROVE  /\ stream' \in Seq(Streams) /\ Len(stream') = Len(stream)
         /\ \A n \in 1..Len(stream) : n # m => stream'[n] = stream[n]
         /\ stream'[m].state = "gone" /\ stream'[m].paths = <<>>
         /\ stream'[m].channel = stream[m].channel /\ stream'[m].asked = stream[m].asked
<1>1. stream \in Seq(Streams) /\ stream[m] \in Streams /\ Len(stream) \in Nat
  BY DEF MapTypes
<1>2. stream' = [stream EXCEPT ![m].state = "gone", ![m].paths = <<>>]
  BY DEF DestroyStream
<1> DEFINE e == [stream[m] EXCEPT !.state = "gone", !.paths = <<>>]
<1>a. /\ e \in Streams /\ e.channel = stream[m].channel /\ e.asked = stream[m].asked
      /\ e.state = "gone" /\ e.paths = <<>>
  <2> DEFINE none == <<>>
  <2>1. none \in Seq(Paths)
    OBVIOUS
  <2> HIDE DEF none
  <2>2. LET f == [stream[m] EXCEPT !.state = "gone", !.paths = none]
        IN  f \in Streams /\ f.channel = stream[m].channel /\ f.asked = stream[m].asked /\ f.state = "gone" /\ f.paths = none
    BY <1>1, <2>1 DEF Streams
  <2> QED BY <2>2 DEF none
<1>b. stream' = [stream EXCEPT ![m] = e]
  BY <1>1, <1>2
<1> HIDE DEF e
<1>3. stream' \in Seq(Streams) /\ Len(stream') = Len(stream)
  BY <1>1, <1>a, <1>b, ExceptSeq
<1>4. stream'[m] = e /\ \A n \in 1..Len(stream) : n # m => stream'[n] = stream[n]
  BY <1>1, <1>b
<1> QED BY <1>3, <1>4, <1>a

\* The end of addMapping marks the stream.
LEMMA AddedEffect ==
  ASSUME MapTypes, Added
  PROVE  /\ current \in 1..Len(stream)
         /\ stream' \in Seq(Streams) /\ Len(stream') = Len(stream)
         /\ \A n \in 1..Len(stream) :
              /\ stream'[n].channel = stream[n].channel /\ stream'[n].paths = stream[n].paths
              /\ stream'[n].asked = stream[n].asked /\ stream'[n].state = stream[n].state
              /\ n # current => stream'[n].complete = stream[n].complete
<1>1. stream \in Seq(Streams) /\ current \in 1..Len(stream)
  BY DEF MapTypes, Added
<1>2. stream' = [stream EXCEPT ![current].complete = TRUE]
  BY DEF Added
<1> DEFINE e == [stream[current] EXCEPT !.complete = TRUE]
<1>a. stream[current] \in Streams /\ Len(stream) \in Nat
  BY <1>1
<1>b. /\ e \in Streams /\ e.channel = stream[current].channel /\ e.state = stream[current].state
      /\ e.asked = stream[current].asked /\ e.paths = stream[current].paths
  BY <1>a DEF Streams
<1>c. stream' = [stream EXCEPT ![current] = e]
  BY <1>2
<1> HIDE DEF e
<1>3. stream' \in Seq(Streams) /\ Len(stream') = Len(stream)
  BY <1>1, <1>b, <1>c, ExceptSeq
<1>4. stream'[current] = e /\ \A n \in 1..Len(stream) : n # current => stream'[n] = stream[n]
  BY <1>1, <1>c
<1> QED BY <1>1, <1>3, <1>4, <1>b

\* The steps that leave streams, converters and clients alone, and the three
\* ways of erasing streams.
Quiet ==
  /\ UNCHANGED <<stream, converters, schema, clientVars>>
  /\ UNCHANGED <<convs, current>> \/ (convs' = <<>> /\ current' = 0)
  /\ todo' \in {todo, <<>>} \/ (todo # <<>> /\ todo' = Tail(todo))
       \/ \E cmd \in Commands : todo' = Numbered(cmd)
  /\ walk' \in {walk, NoWalk} \/ \E n \in 1..Len(stream) : getStatusJson(n)
EraseStep(S) ==
  /\ S \subseteq Listed /\ Erase(S)
  /\ UNCHANGED <<todo, convs, current, converters, schema, clientVars, walk>>

\* Every step is one of these.
LEMMA StepKinds ==
  ASSUME [Next]_vars
  PROVE  \/ Quiet \/ AddStream \/ AddBadTopic \/ PushConverter \/ PushNoTopic \/ Added
         \/ \E S : EraseStep(S)
         \/ \E n \in 1..Len(stream) : DestroyStream(n)
<1>1. ASSUME AddExisting PROVE Quiet
  BY <1>1 DEF AddExisting, Abandon, Quiet
<1>2. ASSUME AddNoProvider PROVE Quiet
  BY <1>2 DEF AddNoProvider, Abandon, Quiet
<1>3. ASSUME PushFails PROVE Quiet
  BY <1>3 DEF PushFails, Abandon, Quiet
<1>4. ASSUME Start PROVE Quiet
  BY <1>4 DEF Start, Quiet
<1>5. ASSUME NEW cmd \in Commands, handleCommandAdd(cmd) PROVE Quiet
  BY <1>5 DEF handleCommandAdd, Quiet
<1>6. ASSUME StatusDone PROVE Quiet
  BY <1>6 DEF StatusDone, Quiet
<1>7. ASSUME NEW n \in 1..Len(stream), getStatusJson(n) PROVE Quiet
  <2>1. UNCHANGED <<stream, converters, schema, clientVars, convs, current, todo>>
    BY <1>7 DEF getStatusJson
  <2> QED BY <1>7, <2>1 DEF Quiet
<1>8. ASSUME UNCHANGED vars PROVE Quiet
  BY <1>8 DEF Quiet
<1>9. ASSUME NEW channel \in Channels, handleCommandStopChannel(channel) PROVE \E S : EraseStep(S)
  <2>1. EraseStep({n \in Listed : stream[n].channel = channel})
    BY <1>9 DEF handleCommandStopChannel, EraseStep
  <2> QED BY <2>1
<1>10. ASSUME handleCommandStopAll PROVE \E S : EraseStep(S)
  BY <1>10 DEF handleCommandStopAll, EraseStep
<1>11. ASSUME NEW n \in 1..Len(stream), checkStreamStatus(n) PROVE \E S : EraseStep(S)
  <2>1. EraseStep({n})
    BY <1>11 DEF checkStreamStatus, EraseStep
  <2> QED BY <2>1
<1> QED BY <1>1, <1>2, <1>3, <1>4, <1>5, <1>6, <1>7, <1>8, <1>9, <1>10, <1>11 DEF Next

\* The types hold before the first stream.
LEMMA InitTypes == Init => MapTypes
<1> SUFFICES ASSUME Init PROVE MapTypes
  OBVIOUS
<1>1. todo \in Seq(Settings)
  BY NumberedType DEF Init, Documents
<1>2. /\ convs = <<>> /\ stream = <<>> /\ schema = <<>> /\ converters = <<>> /\ current = 0
      /\ timers \in TimerChoices /\ Callbacks = [t \in timers |-> {}]
  BY DEF Init
<1>3. Callbacks \in [timers -> SUBSET Nat]
  BY <1>2
<1>4. /\ convs \in Seq(Convs) /\ stream \in Seq(Streams) /\ schema \in Seq(SchemaNames)
      /\ Len(stream) = 0 /\ DOMAIN converters = {}
  BY <1>2
<1> QED BY <1>1, <1>2, <1>3, <1>4 DEF MapTypes

\* Adding a stream keeps the types, whether or not its converters follow.
LEMMA AddTypes ==
  ASSUME MapTypes, todo # <<>>, NewStream(Head(todo)), UNCHANGED <<converters, schema, timers>>,
         todo' = Tail(todo) \/ todo' = <<>>, convs' = Head(todo).converter \/ convs' = <<>>,
         current' \in {0, Len(stream')}
  PROVE  MapTypes'
<1> DEFINE s == Head(todo)
<1>1. s \in Settings /\ todo' \in Seq(Settings)
  <2>1. todo \in Seq(Settings)
    BY DEF MapTypes
  <2>2. Head(todo) \in Settings /\ Tail(todo) \in Seq(Settings)
    BY <2>1, HeadTailProperties
  <2>3. <<>> \in Seq(Settings)
    OBVIOUS
  <2> QED BY <2>2, <2>3
<1>2. /\ stream' \in Seq(Streams) /\ Len(stream') = Len(stream) + 1
      /\ \A n \in 1..Len(stream) : stream'[n] = stream[n]
      /\ stream'[Len(stream) + 1] = [channel |-> s.channel, state |-> "listed",
                                     asked |-> s.converter, complete |-> FALSE, paths |-> <<>>]
  BY <1>1, NewStreamEffect
<1>3. s.converter \in Seq(Convs) /\ convs' \in Seq(Convs)
  <2>1. s.converter \in Seq(Convs)
    BY <1>1, SettingType
  <2>2. <<>> \in Seq(Convs)
    OBVIOUS
  <2> QED BY <2>1, <2>2
<1> HIDE DEF s
<1>4. /\ Callbacks' = [t \in timers |-> Callbacks[t] \cup {Len(stream')}]
      /\ Callbacks \in [timers -> SUBSET Nat] /\ Len(stream) \in Nat
  BY DEF NewStream, AddCallbacks, MapTypes
<1>7. Callbacks' \in [timers' -> SUBSET Nat]
  BY <1>2, <1>4
<1>8. \A n \in 1..Len(stream') : n \in 1..Len(stream) \/ (n = Len(stream) + 1 /\ stream'[n].paths = <<>>)
  BY <1>2, <1>4
<1>9. \A n \in 1..Len(stream') : \A k \in 1..Len(stream'[n].paths) :
        stream'[n].paths[k].conv \in 1..Len(schema)
  BY <1>2, <1>8 DEF MapTypes
<1>10. current' \in 0..Len(stream')
  BY <1>2, <1>4
<1> QED BY <1>1, <1>2, <1>3, <1>7, <1>9, <1>10 DEF MapTypes

\* Every step keeps the types.
LEMMA NextTypes == MapTypes /\ [Next]_vars => MapTypes'
<1> SUFFICES ASSUME MapTypes, [Next]_vars PROVE MapTypes'
  OBVIOUS
<1>1. ASSUME Quiet PROVE MapTypes'
  <2>1. todo' \in Seq(Settings)
    <3>1. todo \in Seq(Settings) /\ <<>> \in Seq(Settings)
      BY DEF MapTypes
    <3>2. todo # <<>> => Tail(todo) \in Seq(Settings)
      BY <3>1, HeadTailProperties
    <3>3. \A cmd \in Commands : Numbered(cmd) \in Seq(Settings)
      BY NumberedType DEF Documents
    <3> QED BY <1>1, <3>1, <3>2, <3>3 DEF Quiet
  <2>2. convs' \in Seq(Convs) /\ current' \in 0..Len(stream)
    <3>1. convs \in Seq(Convs) /\ <<>> \in Seq(Convs) /\ current \in 0..Len(stream) /\ 0 \in 0..Len(stream)
      BY DEF MapTypes
    <3> QED BY <1>1, <3>1 DEF Quiet
  <2> QED BY <1>1, <2>1, <2>2 DEF Quiet, MapTypes
<1>2. ASSUME AddStream PROVE MapTypes'
  BY <1>2, AddTypes DEF AddStream, BeginPush
<1>3. ASSUME AddBadTopic PROVE MapTypes'
  BY <1>3, AddTypes DEF AddBadTopic, Abandon
<1>4. ASSUME PushConverter PROVE MapTypes'
  <2> DEFINE c == Head(convs)
             reg == Registry(c)
             dup == \E p \in CurrentPaths : Same(c, p)
  <2>1. PushWith(c, reg, dup) /\ dup \in BOOLEAN
    BY <1>4 DEF PushConverter
  <2> HIDE DEF dup
  <2>2. /\ c \in Convs /\ convs' \in Seq(Convs) /\ current \in 1..Len(stream)
        /\ schema' = IF Found(c) THEN schema ELSE Append(schema, c.schema)
        /\ stream' \in Seq(Streams) /\ Len(stream') = Len(stream)
        /\ \A n \in 1..Len(stream) : n # current => stream'[n] = stream[n]
        /\ stream'[current].paths = IF dup THEN stream[current].paths
              ELSE Append(stream[current].paths, [asked |-> c, conv |-> Instance(c)])
    BY <2>1, PushEffect
  <2>3. /\ schema' \in Seq(SchemaNames) /\ Instance(c) \in 1..Len(schema')
        /\ Len(schema') \in Nat /\ Len(schema) <= Len(schema')
    BY <2>2, InstanceEffect
  <2>4. \A i \in 1..Len(schema) : i \in 1..Len(schema')
    BY <2>3, TypeFacts
  <2>5. UNCHANGED <<todo, current, timers, Callbacks>> /\ converters' = reg
    BY <2>1 DEF PushWith, MakeConverter
  <2>6. \A x \in DOMAIN converters' : converters'[x] \in 1..Len(schema')
    BY <2>3, <2>4, <2>5 DEF MapTypes, Registry, Register
  <2>7. \A k \in 1..Len(stream'[current].paths) : stream'[current].paths[k].conv \in 1..Len(schema')
    <3> DEFINE ps == stream[current].paths
               path == [asked |-> c, conv |-> Instance(c)]
    <3>1. /\ ps \in Seq(Paths) /\ Len(ps) \in Nat
          /\ \A k \in 1..Len(ps) : ps[k].conv \in 1..Len(schema')
      BY <2>2, <2>4, TypeFacts DEF MapTypes
    <3>2. path \in Paths /\ path.conv \in 1..Len(schema')
      BY <2>2, <2>3 DEF Paths
    <3> HIDE DEF ps, path
    <3>3. /\ Len(Append(ps, path)) = Len(ps) + 1 /\ Append(ps, path)[Len(ps) + 1] = path
          /\ \A k \in 1..Len(ps) : Append(ps, path)[k] = ps[k]
      BY <3>1, <3>2, AppendProperties
    <3>4. \A k \in 1..Len(Append(ps, path)) : k \in 1..Len(ps) \/ k = Len(ps) + 1
      BY <3>1, <3>3
    <3>5. \A k \in 1..Len(Append(ps, path)) : Append(ps, path)[k].conv \in 1..Len(schema')
      BY <3>1, <3>2, <3>3, <3>4
    <3>6. stream'[current].paths \in {ps, Append(ps, path)}
      BY <2>2 DEF ps, path
    <3> QED BY <3>1, <3>5, <3>6
  <2>8. \A n \in 1..Len(stream') : \A k \in 1..Len(stream'[n].paths) :
          stream'[n].paths[k].conv \in 1..Len(schema')
    BY <2>2, <2>4, <2>7 DEF MapTypes
  <2> QED BY <2>2, <2>3, <2>5, <2>6, <2>8 DEF MapTypes
<1>4a. ASSUME PushNoTopic PROVE MapTypes'
  <2> DEFINE c == Head(convs)
  <2>1. MakeConverter(c, Registry(c)) /\ Abandon(todo) /\ UNCHANGED <<stream, timers, Callbacks>>
    BY <1>4a DEF PushNoTopic
  <2>2. /\ c \in Convs /\ schema' = IF Found(c) THEN schema ELSE Append(schema, c.schema)
        /\ converters' = Registry(c)
    BY <2>1, HeadTailProperties DEF MakeConverter, MapTypes
  <2>3. /\ schema' \in Seq(SchemaNames) /\ Instance(c) \in 1..Len(schema')
        /\ Len(schema') \in Nat /\ Len(schema) <= Len(schema')
    BY <2>2, InstanceEffect
  <2>4. \A i \in 1..Len(schema) : i \in 1..Len(schema')
    BY <2>3, TypeFacts
  <2>5. \A x \in DOMAIN converters' : converters'[x] \in 1..Len(schema')
    BY <2>2, <2>3, <2>4 DEF MapTypes, Registry, Register
  <2>6. todo' \in Seq(Settings) /\ convs' \in Seq(Convs) /\ current' \in 0..Len(stream')
    <3>1. todo \in Seq(Settings) /\ <<>> \in Seq(Settings) /\ <<>> \in Seq(Convs) /\ 0 \in 0..Len(stream)
      BY DEF MapTypes
    <3> QED BY <2>1, <3>1 DEF Abandon
  <2>7. \A n \in 1..Len(stream') : \A k \in 1..Len(stream'[n].paths) :
          stream'[n].paths[k].conv \in 1..Len(schema')
    BY <2>1, <2>4 DEF MapTypes
  <2> QED BY <2>1, <2>3, <2>5, <2>6, <2>7 DEF MapTypes
<1>5. ASSUME Added PROVE MapTypes'
  <2>1. UNCHANGED <<todo, convs, converters, schema, timers, Callbacks>> /\ current' = 0
    BY <1>5 DEF Added
  <2>2. 0 \in 0..Len(stream')
    BY <1>5, AddedEffect, TypeFacts
  <2> QED BY <1>5, <2>1, <2>2, AddedEffect DEF MapTypes
<1>6. ASSUME NEW S, EraseStep(S) PROVE MapTypes'
  <2>1. UNCHANGED <<todo, convs, current, converters, schema, timers, Callbacks>> /\ Erase(S)
    BY <1>6 DEF EraseStep
  <2> QED BY <2>1, EraseEffect DEF MapTypes
<1>7. ASSUME NEW n \in 1..Len(stream), DestroyStream(n) PROVE MapTypes'
  <2>1. UNCHANGED <<todo, convs, current, converters, schema, timers, Callbacks>>
    BY <1>7 DEF DestroyStream
  <2>2. /\ stream' \in Seq(Streams) /\ Len(stream') = Len(stream)
        /\ \A m \in 1..Len(stream) : m # n => stream'[m] = stream[m]
        /\ stream'[n].paths = <<>>
    BY <1>7, DestroyEffect
  <2>3. \A m \in 1..Len(stream') : \A k \in 1..Len(stream'[m].paths) :
          stream'[m].paths[k].conv \in 1..Len(schema')
    BY <2>1, <2>2 DEF MapTypes
  <2> QED BY <2>1, <2>2, <2>3 DEF MapTypes
<1> QED BY <1>1, <1>2, <1>3, <1>4, <1>4a, <1>5, <1>6, <1>7, StepKinds
-----------------------------------------------------------------------------
(* Streams and the walk of the status thread.                              *)

\* Only addMapping adds to the list, and a stream keeps its channel.
LEMMA ListedNext ==
  ASSUME MapTypes, [Next]_vars, ~ AddStream, ~ AddBadTopic
  PROVE  /\ Len(stream') = Len(stream) /\ Listed' \subseteq Listed
         /\ \A n \in 1..Len(stream) : stream'[n].channel = stream[n].channel
<1>1. ASSUME Quiet \/ PushNoTopic PROVE stream' = stream
  BY <1>1 DEF Quiet, PushNoTopic
<1>2. ASSUME PushConverter
      PROVE  /\ Len(stream') = Len(stream)
             /\ \A n \in 1..Len(stream) : stream'[n].state = stream[n].state /\ stream'[n].channel = stream[n].channel
  <2>1. PICK reg : \E dup \in BOOLEAN : PushWith(Head(convs), reg, dup)
    BY <1>2 DEF PushConverter
  <2> QED BY <2>1, PushEffect
<1>3. ASSUME NEW S, EraseStep(S)
      PROVE  /\ Len(stream') = Len(stream)
             /\ \A n \in 1..Len(stream) : /\ stream'[n].channel = stream[n].channel
                                          /\ stream'[n].state \in {stream[n].state, "dying"}
  BY <1>3, EraseEffect DEF EraseStep
<1>4. ASSUME NEW m \in 1..Len(stream), DestroyStream(m)
      PROVE  /\ Len(stream') = Len(stream)
             /\ \A n \in 1..Len(stream) : /\ stream'[n].channel = stream[n].channel
                                          /\ stream'[n].state \in {stream[n].state, "gone"}
  BY <1>4, DestroyEffect
<1>5. ASSUME Added
      PROVE  /\ Len(stream') = Len(stream)
             /\ \A n \in 1..Len(stream) : stream'[n].state = stream[n].state /\ stream'[n].channel = stream[n].channel
  BY <1>5, AddedEffect
<1> QED BY <1>1, <1>2, <1>3, <1>4, <1>5, StepKinds DEF Listed

\* Every step keeps one stream per channel.
LEMMA NextOneStream == MapTypes /\ OneStreamPerChannel /\ [Next]_vars => OneStreamPerChannel'
<1> SUFFICES ASSUME MapTypes, OneStreamPerChannel, [Next]_vars PROVE OneStreamPerChannel'
  OBVIOUS
<1>1. CASE AddStream \/ AddBadTopic
  <2> DEFINE s == Head(todo)
  <2>1. /\ todo # <<>> /\ NewStream(s) /\ \A n \in Listed : stream[n].channel # s.channel
        /\ s \in Settings
    BY <1>1, HeadTailProperties DEF AddStream, AddBadTopic, MapTypes
  <2>2. /\ Len(stream') = Len(stream) + 1 /\ Len(stream) \in Nat
        /\ \A n \in 1..Len(stream) : stream'[n] = stream[n]
        /\ stream'[Len(stream) + 1].channel = s.channel
    <3>1. s \in Settings /\ NewStream(s)
      BY <2>1
    <3> HIDE DEF s
    <3>2. stream'[Len(stream) + 1] = [channel |-> s.channel, state |-> "listed",
                                     asked |-> s.converter, complete |-> FALSE, paths |-> <<>>]
      BY <3>1, NewStreamEffect
    <3>3. /\ Len(stream') = Len(stream) + 1 /\ Len(stream) \in Nat
          /\ \A n \in 1..Len(stream) : stream'[n] = stream[n]
      BY <3>1, NewStreamEffect, TypeFacts
    <3> QED BY <3>2, <3>3
  <2>3. \A n \in Listed' : (n \in Listed /\ stream'[n] = stream[n]) \/ n = Len(stream) + 1
    BY <2>2 DEF Listed
  <2> QED BY <2>1, <2>2, <2>3 DEF OneStreamPerChannel
<1>2. CASE ~ AddStream /\ ~ AddBadTopic
  BY <1>2, ListedNext DEF OneStreamPerChannel, Listed
<1> QED BY <1>1, <1>2

\* The status thread walks over a stream that is in the list; the addMapping
\* that may disturb it is the one the walk has marked.
WalkInv ==
  walk # NoWalk =>
    /\ walk.at \in Listed
    /\ ~ walk.adding => current # walk.at /\ stream[walk.at].paths = walk.paths

\* Every step keeps the walk of the status thread safe.
LEMMA NextWalk == MapTypes /\ WalkInv /\ [Next]_vars => WalkInv'
<1> SUFFICES ASSUME MapTypes, WalkInv, [Next]_vars, walk' # NoWalk
             PROVE  /\ walk'.at \in Listed'
                    /\ ~ walk'.adding => current' # walk'.at /\ stream'[walk'.at].paths = walk'.paths
  BY DEF WalkInv, NoWalk
<1>1. CASE Quiet
  <2>1. CASE \E n \in 1..Len(stream) : getStatusJson(n)
    <3>1. PICK n \in 1..Len(stream) : getStatusJson(n)
      BY <2>1
    <3>2. stream' = stream /\ current' = current /\ n \in Listed
      BY <3>1 DEF getStatusJson
    <3>3. walk' = [at |-> n, paths |-> stream[n].paths, adding |-> current = n]
      BY <3>1 DEF getStatusJson
    <3>4. walk'.at = n /\ walk'.paths = stream[n].paths
      BY <3>3
    <3>5. walk'.adding <=> current = n
      BY <3>3, Zenon
    <3>6. Listed' = Listed
      BY <3>2, Zenon DEF Listed
    <3> QED BY <3>2, <3>4, <3>5, <3>6, Zenon
  <2>2. CASE walk' = walk
    <3>1. /\ walk.at \in Listed /\ UNCHANGED stream /\ current' \in {current, 0}
          /\ ~ walk.adding => current # walk.at /\ stream[walk.at].paths = walk.paths
      BY <1>1, <2>2 DEF Quiet, WalkInv
    <3>2. walk.at # 0
      BY <3>1, TypeFacts DEF Listed
    <3> QED BY <2>2, <3>1, <3>2 DEF Listed
  <2> QED BY <1>1, <2>1, <2>2 DEF Quiet
<1>2. ASSUME NewStream(Head(todo)), UNCHANGED walk PROVE FALSE
  BY <1>2 DEF NewStream, ListFree
<1>3. CASE AddStream \/ AddBadTopic
  BY <1>2, <1>3 DEF AddStream, AddBadTopic, BeginPush
<1>4. ASSUME walk' = walk, current' \in {0, current}, Len(stream') = Len(stream),
             walk.at \in Listed => stream'[walk.at].state = "listed",
             walk.at \in Listed /\ current # walk.at => stream'[walk.at].paths = stream[walk.at].paths
      PROVE  /\ walk'.at \in Listed'
             /\ ~ walk'.adding => current' # walk'.at /\ stream'[walk'.at].paths = walk'.paths
  <2>1. /\ walk.at \in Listed
        /\ ~ walk.adding => current # walk.at /\ stream[walk.at].paths = walk.paths
    BY <1>4 DEF WalkInv
  <2>2. walk.at # 0
    BY <2>1, TypeFacts DEF Listed
  <2> QED BY <1>4, <2>1, <2>2 DEF Listed
<1>5. CASE PushConverter
  <2>1. PICK reg : \E dup \in BOOLEAN : PushWith(Head(convs), reg, dup)
    BY <1>5 DEF PushConverter
  <2>2. /\ Len(stream') = Len(stream)
        /\ \A n \in 1..Len(stream) : /\ n # current => stream'[n] = stream[n]
                                     /\ stream'[n].state = stream[n].state
    BY <2>1, PushEffect
  <2>3. UNCHANGED <<walk, current>>
    BY <2>1 DEF PushWith
  <2> QED BY <1>4, <2>2, <2>3 DEF Listed
<1>5a. CASE PushNoTopic
  <2>1. UNCHANGED <<stream, walk>> /\ current' = 0
    BY <1>5a DEF PushNoTopic, Abandon
  <2> QED BY <1>4, <2>1 DEF Listed
<1>6. CASE Added
  <2>1. walk' = walk /\ current' = 0
    BY <1>6 DEF Added
  <2> QED BY <1>4, <1>6, <2>1, AddedEffect DEF Listed
<1>7. ASSUME NEW S, EraseStep(S) PROVE FALSE
  BY <1>7 DEF EraseStep, Erase, ListFree
<1>8. ASSUME NEW m \in 1..Len(stream), DestroyStream(m)
      PROVE  /\ walk'.at \in Listed'
             /\ ~ walk'.adding => current' # walk'.at /\ stream'[walk'.at].paths = walk'.paths
  <2>1. UNCHANGED <<walk, current>> /\ m \notin Listed
    BY <1>8 DEF DestroyStream, Listed
  <2>2. Len(stream') = Len(stream) /\ \A n \in 1..Len(stream) : n # m => stream'[n] = stream[n]
    BY <1>8, DestroyEffect
  <2> QED BY <1>4, <2>1, <2>2 DEF Listed
<1> QED BY <1>1, <1>3, <1>5, <1>5a, <1>6, <1>7, <1>8, StepKinds
-----------------------------------------------------------------------------
(* The EPICS clients, the callbacks of the timers and the factories.       *)

\* A step creates a stream with its callbacks or leaves the callbacks alone.
LEMMA CallSteps ==
  ASSUME MapTypes, [Next]_vars
  PROVE  /\ timers' = timers
         /\ \/ UNCHANGED Callbacks /\ Len(stream') = Len(stream)
            \/ \E s \in Settings : NewStream(s)
<1>1. CASE AddStream \/ AddBadTopic
  <2>1. todo # <<>> /\ todo \in Seq(Settings) /\ NewStream(Head(todo)) /\ timers' = timers
    BY <1>1 DEF AddStream, AddBadTopic, BeginPush, MapTypes
  <2> QED BY <2>1, HeadTailProperties
<1>2. CASE ~ (AddStream \/ AddBadTopic)
  <2>1. UNCHANGED <<timers, Callbacks>>
    BY <1>2, StepKinds DEF Quiet, PushConverter, PushWith, PushNoTopic, Added, EraseStep, DestroyStream
  <2> QED BY <1>2, <2>1, ListedNext
<1> QED BY <1>1, <1>2

\* A callback keeps the client of its own stream only.
LEMMA KeptNext ==
  ASSUME MapTypes, [Next]_vars, NEW n \in 1..Len(stream)
  PROVE  Kept(n)' <=> Kept(n)
<1>0. timers' = timers
  BY CallSteps
<1>1. CASE UNCHANGED Callbacks
  BY <1>0, <1>1 DEF Kept
<1>2. ASSUME NEW s \in Settings, NewStream(s) PROVE Kept(n)' <=> Kept(n)
  <2>0. Len(stream') = Len(stream) + 1 /\ Len(stream) \in Nat
    BY <1>2, NewStreamEffect, TypeFacts
  <2>1. n # Len(stream')
    BY <2>0
  <2>2. Callbacks' = [t \in timers |-> Callbacks[t] \cup {Len(stream')}]
    BY <1>2 DEF NewStream, AddCallbacks
  <2> QED BY <1>0, <2>1, <2>2 DEF Kept
<1> QED BY <1>1, <1>2, CallSteps

\* The factories are counted for every client of EPICS that exists.
ClientLives(n) == stream[n].state # "gone" \/ Kept(n)
Clients == {n \in 1..Len(stream) : ~ Fake /\ ClientLives(n)}
FactInv ==
  /\ Count = Cardinality(Clients)
  /\ factories = IF Count = 0 THEN "stopped" ELSE "started"

\* There are finitely many clients.
LEMMA ClientsFinite == ASSUME MapTypes PROVE IsFiniteSet(Clients) /\ Cardinality(Clients) \in Nat
<1>1. IsFiniteSet(1..Len(stream)) /\ Clients \subseteq 1..Len(stream)
  BY TypeFacts, FS_Interval DEF Clients
<1> QED BY <1>1, FS_Subset, FS_CardinalityType

\* Clients, by its members, before and after a step.
LEMMA ClientIff ==
  ASSUME NEW n
  PROVE  /\ n \in Clients <=> /\ n \in 1..Len(stream) /\ ~ Fake
                              /\ stream[n].state # "gone" \/ Kept(n)
         /\ n \in Clients' <=> /\ n \in 1..Len(stream') /\ ~ Fake'
                               /\ stream'[n].state # "gone" \/ Kept(n)'
BY DEF Clients, ClientLives

\* A step that destroys no stream and creates none leaves the clients alone.
LEMMA ClientsSame ==
  ASSUME MapTypes, [Next]_vars, Len(stream') = Len(stream),
         \A n \in 1..Len(stream) : stream'[n].state = "gone" <=> stream[n].state = "gone"
  PROVE  Clients' = Clients
<1>1. Fake' <=> Fake
  BY CallSteps DEF Fake
<1>2. \A n \in 1..Len(stream) : Kept(n)' <=> Kept(n)
  BY KeptNext
<1>3. ASSUME NEW n PROVE n \in Clients' <=> n \in Clients
  BY <1>1, <1>2, ClientIff
<1> QED BY <1>3

\* Every step keeps the count of the factories.
LEMMA NextFact == MapTypes /\ FactInv /\ [Next]_vars => FactInv'
<1> SUFFICES ASSUME MapTypes, FactInv, [Next]_vars PROVE FactInv'
  OBVIOUS
<1>0. /\ IsFiniteSet(Clients) /\ Count \in Nat /\ Count = Cardinality(Clients)
      /\ factories = IF Count = 0 THEN "stopped" ELSE "started"
  BY ClientsFinite DEF FactInv
<1>1. Fake' <=> Fake
  BY CallSteps DEF Fake
<1>2. \A n \in 1..Len(stream) : Kept(n)' <=> Kept(n)
  BY KeptNext
<1>3. ASSUME UNCHANGED <<Count, factories>>, Clients' = Clients PROVE FactInv'
  BY <1>3 DEF FactInv
<1>4. CASE AddStream \/ AddBadTopic
  <2> DEFINE s == Head(todo)
             l == Len(stream) + 1
  <2>1. s \in Settings /\ NewStream(s)
    BY <1>4, HeadTailProperties DEF AddStream, AddBadTopic, MapTypes
  <2>2. /\ Len(stream') = l /\ Len(stream) \in Nat
        /\ \A n \in 1..Len(stream) : stream'[n] = stream[n]
        /\ stream'[l] = [channel |-> s.channel, state |-> "listed",
                         asked |-> s.converter, complete |-> FALSE, paths |-> <<>>]
    BY <2>1, NewStreamEffect, TypeFacts
  <2>3. stream'[l].state = "listed" /\ l \notin Clients
    BY <2>2 DEF Clients
  <2>4. \A n \in 1..Len(stream') : n \in 1..Len(stream) \/ n = l
    BY <2>2
  <2>5. CASE Fake
    <3>1. Clients' = Clients
      BY <1>1, <2>5, ClientIff
    <3> QED BY <1>3, <2>1, <2>5, <3>1 DEF NewStream, FactoryInit
  <2>6. CASE ~ Fake
    <3>1. ASSUME NEW n PROVE n \in Clients' <=> n \in Clients \cup {l}
      <4>1. l \in 1..Len(stream')
        BY <2>2
      <4>2. CASE n \in 1..Len(stream)
        <5>1. n # l /\ n \in 1..Len(stream') /\ stream'[n] = stream[n]
          BY <2>2, <4>2
        <5> QED BY <1>1, <1>2, <4>2, <5>1, ClientIff
      <4>3. CASE n \notin 1..Len(stream)
        BY <1>1, <2>3, <2>4, <2>6, <4>1, <4>3, ClientIff
      <4> QED BY <4>2, <4>3
    <3>2. Clients' = Clients \cup {l}
      BY <3>1
    <3>3. Cardinality(Clients') = Count + 1
      BY <1>0, <2>3, <3>2, FS_AddElement
    <3>4. Count' = Count + 1 /\ factories' = IF Count = 0 THEN "started" ELSE factories
      BY <2>1, <2>6 DEF NewStream, FactoryInit
    <3> QED BY <1>0, <3>3, <3>4 DEF FactInv
  <2> QED BY <2>5, <2>6
<1>5. ASSUME NEW m \in 1..Len(stream), DestroyStream(m) PROVE FactInv'
  <2>1. /\ Len(stream') = Len(stream) /\ stream'[m].state = "gone"
        /\ \A n \in 1..Len(stream) : n # m => stream'[n] = stream[n]
    BY <1>5, DestroyEffect
  <2>2. stream[m].state = "dying"
    BY <1>5 DEF DestroyStream
  <2>3. CASE Fake \/ Kept(m)
    <3>1. ASSUME NEW n PROVE n \in Clients' <=> n \in Clients
      BY <1>1, <1>2, <2>1, <2>2, <2>3, ClientIff
    <3>2. Clients' = Clients
      BY <3>1
    <3> QED BY <1>3, <1>5, <2>3, <3>2 DEF DestroyStream
  <2>4. CASE ~ Fake /\ ~ Kept(m)
    <3>1. ASSUME NEW n PROVE n \in Clients' <=> n \in Clients \ {m}
      BY <1>1, <1>2, <2>1, <2>2, <2>4, ClientIff
    <3>2. Clients' = Clients \ {m} /\ m \in Clients
      BY <2>2, <2>4, <3>1, ClientIff
    <3>3. Cardinality(Clients') = Count - 1 /\ Count # 0
      <4>1. Cardinality(Clients \ {m}) = Count - 1
        BY <1>0, <3>2, FS_RemoveElement
      <4>2. Count # 0
        BY <1>0, <3>2, FS_EmptySet
      <4> QED BY <3>2, <4>1, <4>2
    <3>4. Count' = Count - 1 /\ factories' = IF Count - 1 <= 0 THEN "stopped" ELSE factories
      BY <1>5, <2>4 DEF DestroyStream, FactoryExit
    <3> QED BY <1>0, <3>3, <3>4 DEF FactInv
  <2> QED BY <2>3, <2>4
<1>6. ASSUME Quiet \/ PushNoTopic PROVE FactInv'
  <2>1. UNCHANGED <<stream, Count, factories>>
    BY <1>6 DEF Quiet, PushNoTopic
  <2> QED BY <1>3, <2>1, ClientsSame
<1>7. ASSUME PushConverter PROVE FactInv'
  <2>1. PICK reg : \E dup \in BOOLEAN : PushWith(Head(convs), reg, dup)
    BY <1>7 DEF PushConverter
  <2>2. UNCHANGED <<Count, factories>>
    BY <2>1 DEF PushWith
  <2>3. Len(stream') = Len(stream) /\ \A n \in 1..Len(stream) : stream'[n].state = stream[n].state
    BY <2>1, PushEffect
  <2> QED BY <1>3, <2>2, <2>3, ClientsSame
<1>8. ASSUME Added PROVE FactInv'
  <2>1. UNCHANGED <<Count, factories>>
    BY <1>8 DEF Added
  <2>2. Len(stream') = Len(stream) /\ \A n \in 1..Len(stream) : stream'[n].state = stream[n].state
    BY <1>8, AddedEffect
  <2> QED BY <1>3, <2>1, <2>2, ClientsSame
<1>9. ASSUME NEW S, EraseStep(S) PROVE FactInv'
  <2>1. UNCHANGED <<Count, factories>> /\ Erase(S) /\ S \subseteq Listed
    BY <1>9 DEF EraseStep
  <2>2. /\ Len(stream') = Len(stream)
        /\ \A n \in 1..Len(stream) : stream'[n].state = "gone" <=> stream[n].state = "gone"
    BY <2>1, EraseEffect DEF Listed
  <2> QED BY <1>3, <2>1, <2>2, ClientsSame
<1> QED BY <1>4, <1>5, <1>6, <1>7, <1>8, <1>9, StepKinds
-----------------------------------------------------------------------------
(* Converters shared by name.                                              *)

\* The members of a union of the paths of streams.
LEMMA UnionOfPaths ==
  ASSUME NEW f, NEW l, NEW p
  PROVE  p \in UNION {{f[n].paths[k] : k \in 1..Len(f[n].paths)} : n \in 1..l} <=>
           \E n \in 1..l : \E k \in 1..Len(f[n].paths) : p = f[n].paths[k]
<1> DEFINE P(n) == {f[n].paths[k] : k \in 1..Len(f[n].paths)}
<1>1. \A n : p \in P(n) <=> \E k \in 1..Len(f[n].paths) : p = f[n].paths[k]
  OBVIOUS
<1> HIDE DEF P
<1>2. p \in UNION {P(n) : n \in 1..l} <=> \E n \in 1..l : p \in P(n)
  OBVIOUS
<1>3. p \in UNION {P(n) : n \in 1..l} <=> \E n \in 1..l : \E k \in 1..Len(f[n].paths) : p = f[n].paths[k]
  BY <1>1, <1>2
<1> QED BY <1>3 DEF P

\* AllPaths, by its members, before and after a step.
LEMMA PathIff ==
  ASSUME NEW p
  PROVE  /\ p \in AllPaths <=> \E n \in 1..Len(stream) : \E k \in 1..Len(stream[n].paths) :
                               p = stream[n].paths[k]
         /\ p \in AllPaths' <=> \E n \in 1..Len(stream') : \E k \in 1..Len(stream'[n].paths) :
                               p = stream'[n].paths[k]
BY UnionOfPaths DEF AllPaths

\* A path has converter settings and an instance that was made.
LEMMA PathType ==
  ASSUME MapTypes, NEW p \in AllPaths
  PROVE  p \in Paths /\ p.asked \in Convs /\ p.conv \in 1..Len(schema)
<1>1. PICK n \in 1..Len(stream) : \E k \in 1..Len(stream[n].paths) : p = stream[n].paths[k]
  BY PathIff
<1>2. PICK k \in 1..Len(stream[n].paths) : p = stream[n].paths[k]
  BY <1>1
<1>3. p \in Paths
  BY <1>2, TypeFacts
<1> QED BY <1>2, <1>3 DEF MapTypes, Paths

\* An instance is alive if a path has it.
LEMMA AliveIff == ASSUME NEW i PROVE Alive(i) <=> \E p \in AllPaths : p.conv = i
BY PathIff DEF Alive

\* Paths and converters come from pushConverterToStream only.
LEMMA PathsNext ==
  ASSUME MapTypes, [Next]_vars, ~ PushConverter, ~ PushNoTopic
  PROVE  AllPaths' \subseteq AllPaths /\ UNCHANGED <<converters, schema>>
<1>0. UNCHANGED <<converters, schema>>
  BY StepKinds DEF Quiet, AddStream, BeginPush, AddBadTopic, Added, EraseStep, DestroyStream
<1>1. ASSUME NEW n \in 1..Len(stream')
      PROVE  stream'[n].paths = <<>> \/ (n \in 1..Len(stream) /\ stream'[n].paths = stream[n].paths)
  <2>1. CASE AddStream \/ AddBadTopic
    <3> DEFINE s == Head(todo)
    <3>1. s \in Settings /\ NewStream(s)
      BY <2>1, HeadTailProperties DEF AddStream, AddBadTopic, MapTypes
    <3>2. /\ Len(stream') = Len(stream) + 1 /\ Len(stream) \in Nat
          /\ \A m \in 1..Len(stream) : stream'[m] = stream[m]
          /\ stream'[Len(stream) + 1] = [channel |-> s.channel, state |-> "listed",
                                         asked |-> s.converter, complete |-> FALSE, paths |-> <<>>]
      BY <3>1, NewStreamEffect, TypeFacts
    <3>3. stream'[Len(stream) + 1].paths = <<>>
      BY <3>2
    <3>4. n \in 1..Len(stream) \/ n = Len(stream) + 1
      BY <3>2
    <3> QED BY <3>2, <3>3, <3>4
  <2>2. CASE Quiet
    BY <2>2 DEF Quiet
  <2>3. CASE Added
    BY <2>3, AddedEffect
  <2>4. ASSUME NEW S, EraseStep(S)
        PROVE  n \in 1..Len(stream) /\ stream'[n].paths = stream[n].paths
    BY <2>4, EraseEffect DEF EraseStep
  <2>5. ASSUME NEW m \in 1..Len(stream), DestroyStream(m)
        PROVE  stream'[n].paths = <<>> \/ (n \in 1..Len(stream) /\ stream'[n].paths = stream[n].paths)
    BY <2>5, DestroyEffect
  <2> QED BY <2>1, <2>2, <2>3, <2>4, <2>5, StepKinds
<1>2. ASSUME NEW p \in AllPaths' PROVE p \in AllPaths
  <2>1. PICK n \in 1..Len(stream') : \E k \in 1..Len(stream'[n].paths) : p = stream'[n].paths[k]
    BY PathIff
  <2>2. stream'[n].paths # <<>>
    BY <2>1
  <2> QED BY <1>1, <2>1, <2>2, PathIff
<1> QED BY <1>0, <1>2

\* pushConverterToStream adds one path at most, also if the topic cannot be
\* created.
LEMMA PathsPush ==
  ASSUME MapTypes, PushConverter \/ PushNoTopic, NEW c, c = Head(convs)
  PROVE  /\ c \in Convs
         /\ converters' = IF c.name = NoName THEN converters ELSE Register(c, Instance(c))
         /\ schema' = IF Found(c) THEN schema ELSE Append(schema, c.schema)
         /\ \A p \in AllPaths' : p \in AllPaths \/ p = [asked |-> c, conv |-> Instance(c)]
<1>1. CASE PushConverter
  <2> DEFINE reg == Registry(c)
             dup == \E p \in CurrentPaths : Same(c, p)
             path == [asked |-> c, conv |-> Instance(c)]
  <2>1. PushWith(c, reg, dup) /\ dup \in BOOLEAN
    BY <1>1 DEF PushConverter
  <2>2. converters' = reg
    BY <2>1 DEF PushWith, MakeConverter
  <2> HIDE DEF dup
  <2>3. /\ c \in Convs /\ current \in 1..Len(stream)
        /\ schema' = IF Found(c) THEN schema ELSE Append(schema, c.schema)
        /\ Len(stream') = Len(stream)
        /\ \A n \in 1..Len(stream) : n # current => stream'[n] = stream[n]
        /\ stream'[current].paths = IF dup THEN stream[current].paths
              ELSE Append(stream[current].paths, path)
    BY <2>1, PushEffect
  <2>4. path \in Paths
    BY <2>3, InstanceEffect DEF Paths
  <2> HIDE DEF path, reg
  <2>5. ASSUME NEW p \in AllPaths' PROVE p \in AllPaths \/ p = path
    <3>1. PICK n \in 1..Len(stream') : \E k \in 1..Len(stream'[n].paths) : p = stream'[n].paths[k]
      BY PathIff
    <3>2. PICK k \in 1..Len(stream'[n].paths) : p = stream'[n].paths[k]
      BY <3>1
    <3>3. CASE stream'[n].paths = stream[n].paths
      BY <2>3, <3>2, <3>3, PathIff
    <3>4. CASE n = current /\ stream'[n].paths = Append(stream[n].paths, path)
      <4> DEFINE ps == stream[n].paths
      <4>1. ps \in Seq(Paths) /\ Len(ps) \in Nat /\ n \in 1..Len(stream)
        BY <2>3, TypeFacts
      <4>2. /\ Len(Append(ps, path)) = Len(ps) + 1 /\ Append(ps, path)[Len(ps) + 1] = path
            /\ \A j \in 1..Len(ps) : Append(ps, path)[j] = ps[j]
        BY <2>4, <4>1, AppendProperties
      <4>3. k \in 1..Len(ps) \/ k = Len(ps) + 1
        BY <3>2, <3>4, <4>1, <4>2
      <4>4. CASE k \in 1..Len(ps)
        <5>1. p = stream[n].paths[k]
          BY <3>2, <3>4, <4>2, <4>4
        <5> QED BY <4>1, <4>4, <5>1, PathIff
      <4>5. CASE k = Len(ps) + 1
        BY <3>2, <3>4, <4>2, <4>5
      <4> QED BY <4>3, <4>4, <4>5
    <3> QED BY <2>3, <3>3, <3>4
  <2> QED BY <2>2, <2>3, <2>5 DEF path, reg, Registry
<1>2. CASE PushNoTopic
  <2>1. MakeConverter(c, Registry(c)) /\ UNCHANGED stream
    BY <1>2 DEF PushNoTopic
  <2>2. c \in Convs
    BY <2>1, HeadTailProperties DEF MakeConverter, MapTypes
  <2>3. AllPaths' = AllPaths
    BY <2>1 DEF AllPaths
  <2> QED BY <2>1, <2>2, <2>3 DEF MakeConverter, Registry
<1> QED BY <1>1, <1>2

\* The registry knows the instance of every named path, and an instance has
\* one name.
NameInv ==
  /\ \A p \in AllPaths : p.asked.name # NoName =>
       p.asked.name \in DOMAIN converters /\ converters[p.asked.name] = p.conv
  /\ \A x, y \in DOMAIN converters : converters[x] = converters[y] => x = y

\* Every step keeps registry and paths in agreement.
LEMMA NextName == MapTypes /\ NameInv /\ [Next]_vars => NameInv'
<1> SUFFICES ASSUME MapTypes, NameInv, [Next]_vars PROVE NameInv'
  OBVIOUS
<1>1. CASE ~ (PushConverter \/ PushNoTopic)
  BY <1>1, PathsNext DEF NameInv
<1>2. CASE PushConverter \/ PushNoTopic
  <2> DEFINE c == Head(convs)
             i == Instance(c)
             path == [asked |-> c, conv |-> i]
  <2>1. /\ c \in Convs /\ converters' = IF c.name = NoName THEN converters ELSE Register(c, i)
        /\ schema' = IF Found(c) THEN schema ELSE Append(schema, c.schema)
        /\ \A p \in AllPaths' : p \in AllPaths \/ p = path
    BY <1>2, PathsPush
  <2>2. /\ Found(c) => c.name # NoName /\ c.name \in DOMAIN converters /\ i = converters[c.name]
        /\ ~ Found(c) => i = Len(schema) + 1
    BY <2>1, InstanceEffect
  <2>3. ~ Found(c) /\ c.name # NoName => \A p \in AllPaths : p.asked.name # c.name
    BY AliveIff DEF Found, NameInv
  <2>4. \A x \in DOMAIN converters : converters[x] \in 1..Len(schema) /\ Len(schema) \in Nat
    BY TypeFacts DEF MapTypes
  <2>5. path.asked = c /\ path.conv = i
    OBVIOUS
  <2> HIDE DEF c, i, path
  <2>6. CASE c.name = NoName
    <3>1. converters' = converters
      BY <2>1, <2>6
    <3> QED BY <2>1, <2>5, <2>6, <3>1 DEF NameInv
  <2>7. CASE c.name # NoName
    <3>1. /\ DOMAIN converters' = DOMAIN converters \cup {c.name} /\ converters'[c.name] = i
          /\ \A x \in DOMAIN converters : x # c.name => converters'[x] = converters[x]
      BY <2>1, <2>7 DEF Register
    <3>2. CASE Found(c)
      <4>1. DOMAIN converters' = DOMAIN converters /\ \A x \in DOMAIN converters : converters'[x] = converters[x]
        BY <2>2, <3>1, <3>2
      <4>2. \A p \in AllPaths' : p.asked.name # NoName =>
              p.asked.name \in DOMAIN converters' /\ converters'[p.asked.name] = p.conv
        BY <2>1, <2>2, <2>5, <3>2, <4>1 DEF NameInv
      <4> QED BY <4>1, <4>2 DEF NameInv
    <3>3. CASE ~ Found(c)
      <4>1. i = Len(schema) + 1 /\ \A x \in DOMAIN converters : converters[x] # i
        BY <2>2, <2>4, <3>3
      <4>2. \A p \in AllPaths' : p.asked.name # NoName =>
              p.asked.name \in DOMAIN converters' /\ converters'[p.asked.name] = p.conv
        BY <2>1, <2>3, <2>5, <2>7, <3>1, <3>3 DEF NameInv
      <4>3. \A x, y \in DOMAIN converters' : converters'[x] = converters'[y] => x = y
        BY <3>1, <4>1 DEF NameInv
      <4> QED BY <4>2, <4>3 DEF NameInv
    <3> QED BY <3>2, <3>3
  <2> QED BY <2>6, <2>7
<1> QED BY <1>1, <1>2

\* A name stands for one schema in all the documents.
NamesAgree == \A c, d \in Convs : c.name = d.name /\ c.name # NoName => c.schema = d.schema

\* The registered instance of a name has the schema that goes with the name.
SchemaInv ==
  /\ \A x \in DOMAIN converters : \A c \in Convs :
       c.name = x /\ x # NoName => schema[converters[x]] = c.schema
  /\ SchemaHonoured

\* The instance that a converter gets has the schema asked for.
LEMMA PushedSchema ==
  ASSUME MapTypes, SchemaInv, NEW c \in Convs,
         schema' = IF Found(c) THEN schema ELSE Append(schema, c.schema)
  PROVE  schema'[Instance(c)] = c.schema
<1>1. /\ Found(c) => /\ c.name # NoName /\ c.name \in DOMAIN converters
                     /\ Instance(c) = converters[c.name] /\ schema' = schema
      /\ ~ Found(c) => Instance(c) = Len(schema) + 1 /\ schema'[Instance(c)] = c.schema
  BY InstanceEffect
<1>2. CASE Found(c)
  BY <1>1, <1>2 DEF SchemaInv
<1> QED BY <1>1, <1>2

\* If names agree, every step keeps the schemas of the registry.
LEMMA NextSchema ==
  ASSUME NamesAgree
  PROVE  MapTypes /\ SchemaInv /\ [Next]_vars => SchemaInv'
<1> SUFFICES ASSUME MapTypes, SchemaInv, [Next]_vars PROVE SchemaInv'
  OBVIOUS
<1>1. CASE ~ (PushConverter \/ PushNoTopic)
  BY <1>1, PathsNext DEF SchemaInv, SchemaHonoured
<1>2. CASE PushConverter \/ PushNoTopic
  <2> DEFINE c == Head(convs)
             i == Instance(c)
             path == [asked |-> c, conv |-> i]
  <2>1. /\ c \in Convs /\ converters' = IF c.name = NoName THEN converters ELSE Register(c, i)
        /\ schema' = IF Found(c) THEN schema ELSE Append(schema, c.schema)
        /\ \A p \in AllPaths' : p \in AllPaths \/ p = path
    BY <1>2, PathsPush
  <2>2. \A j \in 1..Len(schema) : schema'[j] = schema[j]
    BY <2>1, InstanceEffect
  <2>3. schema'[i] = c.schema
    BY <2>1, PushedSchema
  <2>4. path.asked = c /\ path.conv = i
    OBVIOUS
  <2> HIDE DEF c, i, path
  <2>5. SchemaHonoured'
    <3>1. ASSUME NEW p \in AllPaths' PROVE schema'[p.conv] = p.asked.schema
      <4>1. CASE p \in AllPaths
        BY <2>2, <4>1, PathType DEF SchemaInv, SchemaHonoured
      <4>2. CASE p = path
        BY <2>3, <2>4, <4>2
      <4> QED BY <2>1, <4>1, <4>2
    <3> QED BY <3>1 DEF SchemaHonoured
  <2>6. ASSUME NEW x \in DOMAIN converters', NEW d \in Convs, d.name = x, x # NoName
        PROVE  schema'[converters'[x]] = d.schema
    <3>1. CASE c.name # NoName /\ x = c.name
      <4>1. converters'[x] = i
        BY <2>1, <3>1 DEF Register
      <4>2. d.schema = c.schema
        BY <2>1, <2>6, <3>1 DEF NamesAgree
      <4> QED BY <2>3, <4>1, <4>2
    <3>2. CASE ~ (c.name # NoName /\ x = c.name)
      <4>1. x \in DOMAIN converters /\ converters'[x] = converters[x]
        BY <2>1, <3>2 DEF Register
      <4>2. converters[x] \in 1..Len(schema)
        BY <4>1 DEF MapTypes
      <4>3. schema[converters[x]] = d.schema
        BY <2>6, <4>1 DEF SchemaInv
      <4> QED BY <2>2, <4>1, <4>2, <4>3
    <3> QED BY <3>1, <3>2
  <2> QED BY <2>5, <2>6 DEF SchemaInv
<1> QED BY <1>1, <1>2
-----------------------------------------------------------------------------
(* The destinations of a stream.                                           *)

Serves(ps, a) == \E j \in 1..Len(ps) : SameTarget(ps[j].asked, a)
Known(ps, cs) ==
  \A j \in 1..Len(ps) : \E k \in 1..Len(cs) : ps[j].asked = cs[k] /\ NamedFirst(cs, k)
Distinct(ps) == \A i, j \in 1..Len(ps) : SameTarget(ps[i].asked, ps[j].asked) => i = j

\* The paths of a stream are distinct and each is the first that was
\* configured for its topic and schema; those of a stream that addMapping
\* has finished serve all that was configured.
GoodStream(s) ==
  /\ s.asked \in {st.converter : st \in Settings}
  /\ Known(s.paths, s.asked) /\ Distinct(s.paths)
  /\ s.state # "gone" /\ s.complete => \A k \in 1..Len(s.asked) : Serves(s.paths, s.asked[k])

\* Of the stream that addMapping is busy with, convs is still to be done.
DestInv ==
  /\ \A n \in 1..Len(stream) : GoodStream(stream[n])
  /\ current # 0 =>
       LET a == stream[current].asked IN
       /\ Len(convs) <= Len(a)
       /\ \A k \in 1..Len(convs) : convs[k] = a[Len(a) - Len(convs) + k]
       /\ \A k \in 1..(Len(a) - Len(convs)) : Serves(stream[current].paths, a[k])

\* A stream that keeps its paths and settings is as good as before.
LEMMA StillGood ==
  ASSUME NEW s, NEW t, GoodStream(s), t.asked = s.asked, t.paths = s.paths,
         t.complete => s.complete, t.state # "gone" => s.state # "gone"
  PROVE  GoodStream(t)
BY DEF GoodStream

\* A path to a new destination.
LEMMA AppendPath ==
  ASSUME NEW ps \in Seq(Paths), NEW path \in Paths, NEW cs,
         ~ Serves(ps, path.asked), Known(ps, cs), Distinct(ps),
         \E k \in 1..Len(cs) : path.asked = cs[k] /\ NamedFirst(cs, k)
  PROVE  LET qs == Append(ps, path) IN
         /\ Known(qs, cs) /\ Distinct(qs) /\ Serves(qs, path.asked)
         /\ \A a : Serves(ps, a) => Serves(qs, a)
<1> DEFINE qs == Append(ps, path)
<1>1. /\ Len(ps) \in Nat /\ Len(qs) = Len(ps) + 1 /\ qs[Len(ps) + 1] = path
      /\ \A j \in 1..Len(ps) : qs[j] = ps[j]
  BY AppendProperties
<1> HIDE DEF qs
<1>2. /\ \A j \in 1..Len(qs) : j \in 1..Len(ps) \/ j = Len(ps) + 1
      /\ \A j \in 1..Len(ps) : j \in 1..Len(qs)
      /\ Len(ps) + 1 \in 1..Len(qs)
  BY <1>1
<1>3. Known(qs, cs)
  BY <1>1, <1>2 DEF Known
<1>4. Distinct(qs)
  BY <1>1, <1>2 DEF Distinct, Serves, SameTarget
<1>5. Serves(qs, path.asked) /\ \A a : Serves(ps, a) => Serves(qs, a)
  BY <1>1, <1>2 DEF Serves, SameTarget
<1> QED BY <1>3, <1>4, <1>5 DEF qs

\* addConverter recognises a destination that the stream has by topic and
\* schema.
LEMMA DuplicateIff ==
  ASSUME MapTypes, SchemaInv, NEW c \in Convs, current \in 1..Len(stream),
         schema' = IF Found(c) THEN schema ELSE Append(schema, c.schema)
  PROVE  (\E p \in CurrentPaths : Same(c, p)) <=> Serves(stream[current].paths, c)
<1>1. schema'[Instance(c)] = c.schema
  BY PushedSchema
<1>2. \A k \in 1..Len(stream[current].paths) :
        schema[stream[current].paths[k].conv] = stream[current].paths[k].asked.schema
  <2>1. \A k \in 1..Len(stream[current].paths) : stream[current].paths[k] \in AllPaths
    BY PathIff
  <2> QED BY <2>1 DEF SchemaInv, SchemaHonoured
<1>3. \A p : p \in CurrentPaths <=> \E k \in 1..Len(stream[current].paths) : p = stream[current].paths[k]
  BY DEF CurrentPaths
<1>4. \A k \in 1..Len(stream[current].paths) :
        Same(c, stream[current].paths[k]) <=> SameTarget(stream[current].paths[k].asked, c)
  BY <1>1, <1>2 DEF Same, SameTarget
<1> QED BY <1>3, <1>4 DEF Serves

\* Every step keeps the progress of addMapping and the paths of a stream.
LEMMA NextDest == MapTypes /\ SchemaInv /\ DestInv /\ [Next]_vars => DestInv'
<1> SUFFICES ASSUME MapTypes, SchemaInv, DestInv, [Next]_vars PROVE DestInv'
  OBVIOUS
<1>0. \A n \in 1..Len(stream) : GoodStream(stream[n])
  BY DEF DestInv
<1>1. ASSUME Quiet \/ PushNoTopic PROVE DestInv'
  BY <1>1 DEF Quiet, PushNoTopic, Abandon, DestInv
<1>2. CASE AddStream \/ AddBadTopic
  <2> DEFINE s == Head(todo)
             l == Len(stream) + 1
  <2>1. s \in Settings /\ NewStream(s)
    BY <1>2, HeadTailProperties DEF AddStream, AddBadTopic, MapTypes
  <2>2. /\ Len(stream') = l /\ Len(stream) \in Nat
        /\ \A n \in 1..Len(stream) : stream'[n] = stream[n]
        /\ stream'[l] = [channel |-> s.channel, state |-> "listed",
                         asked |-> s.converter, complete |-> FALSE, paths |-> <<>>]
    BY <2>1, NewStreamEffect, TypeFacts
  <2>3. s.converter \in Seq(Convs) /\ Len(s.converter) \in Nat
    BY <2>1, SettingType
  <2>4. current' = 0 \/ (current' = l /\ convs' = s.converter)
    BY <1>2, <2>2 DEF AddStream, BeginPush, AddBadTopic, Abandon
  <2>5. /\ stream'[l].asked = s.converter /\ stream'[l].paths = <<>> /\ ~ stream'[l].complete
    BY <2>2
  <2> HIDE DEF s
  <2>6. GoodStream(stream'[l])
    BY <2>1, <2>5 DEF GoodStream, Known, Distinct
  <2>7. \A n \in 1..Len(stream') : n \in 1..Len(stream) \/ n = l
    BY <2>2
  <2>8. \A n \in 1..Len(stream') : GoodStream(stream'[n])
    BY <1>0, <2>2, <2>6, <2>7
  <2>9. \A k \in 1..Len(s.converter) : s.converter[k] = s.converter[Len(s.converter) - Len(s.converter) + k]
    BY <2>3
  <2>10. 1..(Len(s.converter) - Len(s.converter)) = {}
    BY <2>3
  <2> HIDE DEF l
  <2> QED BY <2>3, <2>4, <2>5, <2>8, <2>9, <2>10 DEF DestInv
<1>3. CASE PushConverter
  <2> DEFINE c == Head(convs)
             dup == \E p \in CurrentPaths : Same(c, p)
             path == [asked |-> c, conv |-> Instance(c)]
             ps == stream[current].paths
             a == stream[current].asked
  <2>1. \E reg : PushWith(c, reg, dup) /\ dup \in BOOLEAN
    BY <1>3 DEF PushConverter
  <2>2. UNCHANGED current /\ convs # <<>> /\ convs' = Tail(convs) /\ convs \in Seq(Convs)
    BY <2>1 DEF PushWith, MakeConverter, MapTypes
  <2> HIDE DEF dup
  <2>3. /\ c \in Convs /\ current \in 1..Len(stream)
        /\ schema' = IF Found(c) THEN schema ELSE Append(schema, c.schema)
        /\ Len(stream') = Len(stream)
        /\ \A n \in 1..Len(stream) :
             /\ n # current => stream'[n] = stream[n]
             /\ stream'[n].state = stream[n].state
             /\ stream'[n].asked = stream[n].asked /\ stream'[n].complete = stream[n].complete
        /\ stream'[current].paths = IF dup THEN ps ELSE Append(ps, path)
    BY <2>1, PushEffect
  <2>4. dup <=> Serves(ps, c)
    BY <2>3, DuplicateIff DEF dup
  <2>5. path \in Paths /\ path.asked = c
    BY <2>3, InstanceEffect DEF Paths
  <2>6. /\ ps \in Seq(Paths) /\ a \in Seq(Convs) /\ Len(a) \in Nat /\ Len(convs) \in Nat \ {0}
        /\ Len(convs) <= Len(a) /\ current # 0
        /\ \A k \in 1..Len(convs) : convs[k] = a[Len(a) - Len(convs) + k]
        /\ \A k \in 1..(Len(a) - Len(convs)) : Serves(ps, a[k])
        /\ GoodStream(stream[current])
    <3>1. current # 0 /\ ps \in Seq(Paths) /\ a \in Seq(Convs) /\ GoodStream(stream[current])
      BY <1>0, <2>3, TypeFacts
    <3>2. Len(convs) \in Nat \ {0} /\ Len(a) \in Nat
      BY <2>2, <3>1
    <3> QED BY <3>1, <3>2 DEF DestInv
  <2> DEFINE i == Len(a) - Len(convs) + 1
             qs == stream'[current].paths
  <2>7. i \in 1..Len(a) /\ c = a[i]
    <3>1. 1 \in 1..Len(convs) /\ c = convs[1]
      BY <2>2, <2>6
    <3>2. c = a[i]
      BY <2>6, <3>1
    <3>3. i \in 1..Len(a)
      BY <2>6
    <3> QED BY <3>2, <3>3
  <2>8. /\ Known(qs, a) /\ Distinct(qs) /\ Serves(qs, c) /\ \A b : Serves(ps, b) => Serves(qs, b)
    <3>1. Known(ps, a) /\ Distinct(ps)
      BY <2>6 DEF GoodStream
    <3>2. CASE dup
      BY <2>3, <2>4, <3>1, <3>2
    <3>3. CASE ~ dup
      <4>1. qs = Append(ps, path)
        BY <2>3, <3>3
      <4>2. ~ Serves(ps, path.asked) /\ \E k \in 1..Len(a) : path.asked = a[k] /\ NamedFirst(a, k)
        <5>1. ASSUME NEW l \in 1..(i - 1), SameTarget(a[l], a[i]) PROVE FALSE
          <6>1. l \in 1..(Len(a) - Len(convs))
            BY <2>6
          <6>2. Serves(ps, a[l])
            BY <2>6, <6>1
          <6>3. Serves(ps, a[i])
            BY <5>1, <6>2 DEF Serves, SameTarget
          <6> QED BY <2>4, <2>7, <3>3, <6>3
        <5>2. NamedFirst(a, i)
          BY <5>1 DEF NamedFirst
        <5> QED BY <2>4, <2>5, <2>7, <3>3, <5>2
      <4> HIDE DEF path, ps, a, qs
      <4>3. /\ Known(Append(ps, path), a) /\ Distinct(Append(ps, path)) /\ Serves(Append(ps, path), path.asked)
            /\ \A b : Serves(ps, b) => Serves(Append(ps, path), b)
        BY <2>5, <2>6, <3>1, <4>2, AppendPath
      <4> QED BY <2>5, <4>1, <4>3
    <3> QED BY <3>2, <3>3
  <2>9. GoodStream(stream'[current])
    BY <2>3, <2>6, <2>8 DEF GoodStream
  <2>10. \A n \in 1..Len(stream') : GoodStream(stream'[n])
    BY <1>0, <2>3, <2>9
  <2>11. /\ Len(convs') = Len(convs) - 1 /\ \A k \in 1..Len(convs') : convs'[k] = convs[k + 1]
    BY <2>2, HeadTailProperties
  <2>12. stream'[current].asked = a
    BY <2>3
  <2> HIDE DEF c, a, ps, qs, path
  <2>a. /\ Len(a) \in Nat /\ Len(convs) \in Nat /\ Len(convs) # 0
        /\ Len(convs) <= Len(a) /\ Len(convs') = Len(convs) - 1
    BY <2>6, <2>11
  <2>13. ASSUME NEW k \in 1..Len(convs') PROVE convs'[k] = a[Len(a) - Len(convs') + k]
    <3>1. /\ k + 1 \in 1..Len(convs)
          /\ Len(a) - Len(convs) + (k + 1) = Len(a) - Len(convs') + k
      BY <2>a
    <3>2. convs[k + 1] = a[Len(a) - Len(convs) + (k + 1)]
      BY <2>6, <3>1
    <3> QED BY <2>11, <3>1, <3>2
  <2>14. ASSUME NEW k \in 1..(Len(a) - Len(convs')) PROVE Serves(qs, a[k])
    <3>1. k \in 1..(Len(a) - Len(convs)) \/ k = i
      BY <2>a
    <3> QED BY <2>6, <2>7, <2>8, <3>1
  <2>15. Len(convs') <= Len(a)
    BY <2>6, <2>11
  <2> QED BY <2>2, <2>10, <2>12, <2>13, <2>14, <2>15 DEF DestInv, qs
<1>4. CASE Added
  <2>1. /\ current \in 1..Len(stream) /\ Len(stream') = Len(stream)
        /\ \A n \in 1..Len(stream) :
             /\ stream'[n].paths = stream[n].paths /\ stream'[n].asked = stream[n].asked
             /\ stream'[n].state = stream[n].state
             /\ n # current => stream'[n].complete = stream[n].complete
    BY <1>4, AddedEffect
  <2>2. current' = 0 /\ convs = <<>>
    BY <1>4 DEF Added
  <2>3. \A k \in 1..Len(stream[current].asked) : Serves(stream[current].paths, stream[current].asked[k])
    <3> DEFINE a == stream[current].asked
    <3>1. current # 0 /\ a \in Seq(Convs)
      BY <2>1, TypeFacts
    <3>2. Len(convs) = 0 /\ Len(a) - Len(convs) = Len(a)
      BY <2>2, <3>1
    <3> QED BY <3>1, <3>2 DEF DestInv
  <2>4. \A n \in 1..Len(stream) : GoodStream(stream'[n])
    BY <1>0, <2>1, <2>3 DEF GoodStream
  <2> QED BY <2>1, <2>2, <2>4 DEF DestInv
<1>5. ASSUME NEW S, EraseStep(S) PROVE DestInv'
  <2>1. Erase(S) /\ S \subseteq Listed /\ UNCHANGED <<convs, current>>
    BY <1>5 DEF EraseStep
  <2>2. /\ Len(stream') = Len(stream)
        /\ \A n \in 1..Len(stream) :
             /\ stream'[n].paths = stream[n].paths /\ stream'[n].asked = stream[n].asked
             /\ stream'[n].complete = stream[n].complete
             /\ stream'[n].state # "gone" => stream[n].state # "gone"
    BY <2>1, EraseEffect DEF Listed
  <2>3. \A n \in 1..Len(stream) : GoodStream(stream'[n])
    BY <1>0, <2>2, StillGood
  <2>4. current # 0 => current \in 1..Len(stream)
    BY TypeFacts
  <2> QED BY <2>1, <2>2, <2>3, <2>4 DEF DestInv
<1>6. ASSUME NEW m \in 1..Len(stream), DestroyStream(m) PROVE DestInv'
  <2>1. /\ Len(stream') = Len(stream)
        /\ \A n \in 1..Len(stream) : n # m => stream'[n] = stream[n]
        /\ stream'[m].state = "gone" /\ stream'[m].paths = <<>> /\ stream'[m].asked = stream[m].asked
    BY <1>6, DestroyEffect
  <2>2. UNCHANGED <<convs, current>> /\ current # m
    BY <1>6 DEF DestroyStream
  <2>3. GoodStream(stream'[m])
    BY <1>0, <2>1 DEF GoodStream, Known, Distinct
  <2>4. current # 0 => current \in 1..Len(stream)
    BY TypeFacts
  <2> QED BY <1>0, <2>1, <2>2, <2>3, <2>4 DEF DestInv
<1> QED BY <1>1, <1>2, <1>3, <1>4, <1>5, <1>6, StepKinds
-----------------------------------------------------------------------------
(* The theorems.                                                           *)

\* What holds whatever the documents say and whichever timers there are.
MapInv == MapTypes /\ OneStreamPerChannel /\ WalkInv /\ FactInv /\ NameInv

\* The invariant holds before the first stream.
LEMMA InitMap == Init => MapInv
<1> SUFFICES ASSUME Init PROVE MapInv
  OBVIOUS
<1>1. MapTypes
  BY InitTypes
<1>2. /\ stream = <<>> /\ Len(stream) = 0 /\ converters = <<>> /\ walk = NoWalk
      /\ Count = 0 /\ factories = "stopped"
  BY DEF Init
<1>3. OneStreamPerChannel /\ WalkInv
  BY <1>2 DEF OneStreamPerChannel, Listed, WalkInv
<1>5. FactInv
  <2>1. Clients = {}
    BY <1>2 DEF Clients
  <2> QED BY <1>2, <2>1, FS_EmptySet DEF FactInv
<1>6. NameInv
  <2>1. DOMAIN converters = {}
    BY <1>2
  <2>2. \A p : p \notin AllPaths
    BY <1>2, PathIff
  <2> QED BY <2>1, <2>2 DEF NameInv
<1> QED BY <1>1, <1>3, <1>5, <1>6 DEF MapInv

\* The inductive invariant: streams, walks, the count of the
\* factories and the registry of converters agree with each other under
\* every interleaving of addMapping, commands and the status thread.
THEOREM MappingInvariant == Spec => []MapInv
<1>1. Init => MapInv
  BY InitMap
<1>2. MapInv /\ [Next]_vars => MapInv'
  BY NextTypes, NextOneStream, NextWalk, NextFact, NextName DEF MapInv
<1> QED BY <1>1, <1>2, PTL DEF Spec

\* Streams::getStreams never has two streams of one channel: addMapping looks
\* for an existing one and nobody but the main thread adds any.
THEOREM ChannelsForwardedOnce == Spec => []OneStreamPerChannel
<1>1. MapInv => OneStreamPerChannel
  BY DEF MapInv
<1> QED BY <1>1, MappingInvariant, PTL

\* While Stream::getStatusJson walks over the paths without their mutex, they
\* change only if addMapping was busy with the stream when the walk began.
THEOREM WalksUndisturbed == Spec => []WalkUndisturbed
<1>1. MapInv => WalkUndisturbed
  BY DEF MapInv, WalkInv, WalkUndisturbed
<1> QED BY <1>1, MappingInvariant, PTL

\* EpicsClientFactoryInit: the factories run while a stream has a client of
\* EPICS, and without timers they stop with the last stream.
THEOREM FactoriesAlwaysServe == Spec => []FactoriesServe
<1> DEFINE C == {n \in 1..Len(stream) : ~ Fake /\ stream[n].state # "gone"}
<1>1. ASSUME MapInv PROVE FactoriesServe
  <2>1. MapTypes /\ FactInv
    BY <1>1 DEF MapInv
  <2>2. C \subseteq Clients /\ IsFiniteSet(Clients)
    BY <2>1, ClientsFinite DEF Clients, ClientLives
  <2>3. ASSUME C # {} PROVE factories = "started"
    <3>1. Clients # {}
      BY <2>2, <2>3
    <3>2. Cardinality(Clients) # 0
      BY <2>2, <3>1, FS_EmptySet
    <3> QED BY <2>1, <3>2 DEF FactInv
  <2>4. ASSUME timers = {} PROVE Count = Cardinality(C) /\ (C = {} => factories = "stopped")
    <3>1. \A n : ~ Kept(n)
      BY <2>4 DEF Kept
    <3>2. C = Clients
      BY <3>1 DEF Clients, ClientLives
    <3> QED BY <2>1, <3>2, FS_EmptySet DEF FactInv
  <2> HIDE DEF C
  <2>5. /\ C # {} => factories = "started"
        /\ timers = {} => Count = Cardinality(C) /\ (C = {} => factories = "stopped")
    BY <2>3, <2>4
  <2> QED BY <2>5 DEF FactoriesServe, C
<1> QED BY <1>1, MappingInvariant, PTL

\* Converters under one name that exist at the same time are one instance,
\* and an instance has one name, although the registry of the Forwarder
\* holds weak pointers only.
THEOREM ConvertersShared == Spec => []SharedByName
<1>1. ASSUME MapInv PROVE SharedByName
  <2>1. NameInv
    BY <1>1 DEF MapInv
  <2> QED BY <2>1 DEF NameInv, SharedByName
<1> QED BY <1>1, MappingInvariant, PTL

\* The part that needs a hypothesis about the documents holds first too.
LEMMA InitSchemaDest == Init => SchemaInv /\ DestInv
<1> SUFFICES ASSUME Init PROVE SchemaInv /\ DestInv
  OBVIOUS
<1>1. stream = <<>> /\ Len(stream) = 0 /\ DOMAIN converters = {} /\ current = 0
  BY DEF Init
<1>2. \A p : p \notin AllPaths
  BY <1>1, PathIff
<1> QED BY <1>1, <1>2 DEF SchemaInv, SchemaHonoured, DestInv

\* If a name stands for one schema in all the documents, every path encodes
\* with the schema configured for it: a converter found by its name is never
\* one of another schema. (The run mapping_names shows what happens if not.)
THEOREM SchemasHonoured ==
  ASSUME NamesAgree
  PROVE  Spec => []SchemaHonoured
<1>1. Init => MapTypes /\ SchemaInv
  BY InitTypes, InitSchemaDest
<1>2. MapTypes /\ SchemaInv /\ [Next]_vars => (MapTypes /\ SchemaInv)'
  BY NextTypes, NextSchema
<1>3. SchemaInv => SchemaHonoured
  BY DEF SchemaInv
<1> QED BY <1>1, <1>2, <1>3, PTL DEF Spec

\* A finished stream has one path for every destination.
LEMMA ServedOnce ==
  ASSUME MapTypes, DestInv
  PROVE  DestinationsServed
<1>1. SUFFICES ASSUME NEW n \in Listed, stream[n].complete, NEW k \in 1..Len(stream[n].asked)
      PROVE  LET cs == stream[n].asked
                 ps == stream[n].paths
                 P == {j \in 1..Len(ps) : SameTarget(ps[j].asked, cs[k])}
             IN /\ Cardinality(P) = 1
                /\ NamedFirst(cs, k) => \A j \in P : ps[j].asked = cs[k]
  BY DEF DestinationsServed
<1> DEFINE cs == stream[n].asked
           ps == stream[n].paths
           P == {j \in 1..Len(ps) : SameTarget(ps[j].asked, cs[k])}
<1>2. n \in 1..Len(stream) /\ stream[n].state = "listed" /\ GoodStream(stream[n])
  BY DEF Listed, DestInv
<1>3. Known(ps, cs) /\ Distinct(ps) /\ Serves(ps, cs[k]) /\ Len(cs) \in Nat
  BY <1>1, <1>2, TypeFacts DEF GoodStream
<1>4. PICK j \in 1..Len(ps) : SameTarget(ps[j].asked, cs[k])
  BY <1>3 DEF Serves
<1>5. P = {j}
  <2>1. j \in P
    BY <1>4
  <2>2. ASSUME NEW i \in P PROVE i = j
    <3>1. i \in 1..Len(ps) /\ SameTarget(ps[i].asked, ps[j].asked)
      BY <1>4, <2>2 DEF SameTarget
    <3> QED BY <1>3, <1>4, <3>1 DEF Distinct
  <2> QED BY <2>1, <2>2
<1>6. Cardinality(P) = 1
  BY <1>5, FS_Singleton
<1>7. ASSUME NamedFirst(cs, k) PROVE ps[j].asked = cs[k]
  <2>1. PICK l \in 1..Len(cs) : ps[j].asked = cs[l] /\ NamedFirst(cs, l)
    BY <1>3, <1>4 DEF Known
  <2>2. SameTarget(cs[l], cs[k]) /\ SameTarget(cs[k], cs[l])
    BY <1>4, <2>1 DEF SameTarget
  <2>3. l \notin 1..(k - 1) /\ k \notin 1..(l - 1)
    BY <1>7, <2>1, <2>2 DEF NamedFirst
  <2>4. l = k
    BY <1>3, <2>3
  <2> QED BY <2>1, <2>4
<1> QED BY <1>5, <1>6, <1>7

\* If names agree, a stream that addMapping has finished without an error has
\* exactly one path for every topic and schema configured for it, to the
\* server that was named first, through any shared converters and however
\* commands, failing topics and erasures came in between.
THEOREM AllDestinationsServed ==
  ASSUME NamesAgree
  PROVE  Spec => []DestinationsServed
<1>1. Init => MapTypes /\ SchemaInv /\ DestInv
  BY InitTypes, InitSchemaDest
<1>2. MapTypes /\ SchemaInv /\ DestInv /\ [Next]_vars => (MapTypes /\ SchemaInv /\ DestInv)'
  BY NextTypes, NextSchema, NextDest
<1>3. MapTypes /\ DestInv => DestinationsServed
  BY ServedOnce
<1> QED BY <1>1, <1>2, <1>3, PTL DEF Spec
=============================================================================
