------------------------- MODULE EpicsMonitorProofs -------------------------
(* Proofs about the EPICS client, for any number of callback threads,       *)
(* updates, timer ticks and connection changes and any alarms.              *)
EXTENDS EpicsMonitor, SequenceTheorems, TLAPS

USE MonitorAssumption, NoneAssumption
    DEF vars, connVars, emitVars, mainVars, pubVars, changeVars

\* The updates and their flags are sequences; what a callback still has to
\* emit and what was published are updates that have arrived.
Shape ==
  /\ TypeOK
  /\ monitor \in 0..monitors
  /\ alarm \in Seq(Alarms \cup {NoField})
  /\ AlarmStatusChanged \in Seq(BOOLEAN)
  /\ EmitQueue \in Seq(Nat)
  /\ producers \in Seq(Callers \cup {Timer}) /\ overtaken \in BOOLEAN
  /\ Updates \in [Callers -> Seq(Nat)]
  /\ \A c \in Callers : \A i \in 1..Len(Updates[c]) : Updates[c][i] \in 1..Len(alarm)
  /\ \A c \in Callers : pc[c] = "emit" => Updates[c] # <<>>
  /\ nullAlarm \in BOOLEAN /\ overlapped \in BOOLEAN /\ hasAlarm \in BOOLEAN
  /\ out \in 1..Len(alarm) \/ out = None
  /\ shown \in Shown \/ shown = None

\* The one monitor; after stop there is no channel to create another one.
MonitorInv == OneMonitor /\ (stopped => ~ channel)

\* As long as connection callbacks do not overlap, the one under way carries
\* the state the client is in, and the monitor follows that state once the
\* callback is past it.
FollowInv ==
  /\ \A c \in Callers : arg[c] # None <=> pc[c] \in {"monitoring", "report"}
  /\ main = "setup" => reported = None
  /\ ~ overlapped =>
       /\ \A c, d \in Callers : arg[c] # None /\ arg[d] # None => c = d
       /\ \A c \in Callers : arg[c] # None => arg[c] = ConnectionState
       /\ (\A c \in Callers : pc[c] # "monitoring") => (monitor # 0 => ConnectionState = "CONNECTED")
       /\ Idle => (reported # None => reported = ConnectionState)

SameStatus(x, y) == getAlarmStatus(alarm[x]) = getAlarmStatus(alarm[y])

\* The queue as a chain behind the last published update: an entry carries
\* its alarm, or its status is that of the entry before it; the last entry
\* is the cached update that the next one will be compared with. An entry that
\* overtakes another one breaks the chain.
ChainInv ==
  ~ Restructured /\ ~ overtaken =>
    /\ CachedUpdate = 0 => EmitQueue = <<>> /\ out = None
    /\ CachedUpdate # 0 => IF EmitQueue = <<>> THEN out = CachedUpdate
                                              ELSE EmitQueue[Len(EmitQueue)] = CachedUpdate
    /\ \A i \in 2..Len(EmitQueue) :
         AlarmStatusChanged[EmitQueue[i]] \/ SameStatus(EmitQueue[i - 1], EmitQueue[i])
    /\ EmitQueue # <<>> =>
         \/ AlarmStatusChanged[EmitQueue[1]]
         \/ out # None /\ SameStatus(out, EmitQueue[1])
    /\ StatusShown

ClientInv == Shape /\ MonitorInv /\ FollowInv /\ ChainInv
-----------------------------------------------------------------------------
(* What the steps do to the updates.                                       *)

\* The updates of one monitor event are a sequence.
LEMMA NewIsSeq ==
  ASSUME NEW S, NEW n \in 1..2, NEW new \in [1..n -> S]
  PROVE  new \in Seq(S) /\ Len(new) = n
OBVIOUS

\* Appending a sequence keeps the one before.
LEMMA ConcatKeeps ==
  ASSUME NEW S, NEW s \in Seq(S), NEW t \in Seq(S)
  PROVE  /\ s \o t \in Seq(S) /\ Len(s \o t) = Len(s) + Len(t)
         /\ \A i \in 1..Len(s) : (s \o t)[i] = s[i]
BY ConcatProperties

\* Taking an entry out of a queue leaves the others.
LEMMA RemoveAtKeeps ==
  ASSUME NEW S, NEW s \in Seq(S), NEW i \in 1..Len(s)
  PROVE  /\ RemoveAt(s, i) \in Seq(S) /\ Len(RemoveAt(s, i)) = Len(s) - 1
         /\ \A k \in 1..(Len(s) - 1) : RemoveAt(s, i)[k] = IF k < i THEN s[k] ELSE s[k + 1]
         /\ \A k \in 1..(Len(s) - 1) : RemoveAt(s, i)[k] \in {s[j] : j \in 1..Len(s)}
<1> DEFINE a == SubSeq(s, 1, i - 1)
           b == SubSeq(s, i + 1, Len(s))
<1>1. /\ a \in Seq(S) /\ Len(a) = i - 1 /\ \A k \in 1..(i - 1) : a[k] = s[k]
      /\ b \in Seq(S) /\ Len(b) = Len(s) - i /\ \A k \in 1..(Len(s) - i) : b[k] = s[i + k]
  BY SubSeqProperties
<1> HIDE DEF a, b
<1>2. /\ a \o b \in Seq(S) /\ Len(a \o b) = Len(s) - 1
      /\ \A k \in 1..(Len(s) - 1) : (a \o b)[k] = IF k < i THEN s[k] ELSE s[k + 1]
  <2>1. /\ a \o b \in Seq(S) /\ Len(a \o b) = Len(a) + Len(b)
        /\ \A k \in 1..(Len(a) + Len(b)) : (a \o b)[k] = IF k <= Len(a) THEN a[k] ELSE b[k - Len(a)]
    BY <1>1, ConcatProperties
  <2>2. Len(s) \in Nat /\ i \in Nat /\ Len(a) + Len(b) = Len(s) - 1
    BY <1>1
  <2>3. ASSUME NEW k \in 1..(Len(s) - 1), k < i PROVE (a \o b)[k] = s[k]
    BY <1>1, <2>1, <2>2, <2>3
  <2>4. ASSUME NEW k \in 1..(Len(s) - 1), ~ (k < i) PROVE (a \o b)[k] = s[k + 1]
    <3>1. k - (i - 1) \in 1..(Len(s) - i) /\ i + (k - (i - 1)) = k + 1 /\ ~ (k <= i - 1)
      BY <2>2, <2>4
    <3>2. (a \o b)[k] = b[k - (i - 1)]
      BY <1>1, <2>1, <2>2, <3>1
    <3>3. b[k - (i - 1)] = s[i + (k - (i - 1))]
      BY <1>1, <3>1
    <3> QED BY <3>1, <3>2, <3>3
  <2> QED BY <2>1, <2>2, <2>3, <2>4
<1>3. \A k \in 1..(Len(s) - 1) : (IF k < i THEN s[k] ELSE s[k + 1]) \in {s[j] : j \in 1..Len(s)}
  OBVIOUS
<1> QED BY <1>2, <1>3 DEF RemoveAt, a, b

\* New updates come behind those that have arrived, which stay as they are.
LEMMA ArriveEffect ==
  ASSUME Shape, NEW c \in Callers, NEW new \in Seq(Alarms \cup {NoField}),
         Len(new) \in 1..2, monitorEvent(c, new)
  PROVE  /\ alarm' \in Seq(Alarms \cup {NoField})
         /\ AlarmStatusChanged' \in Seq(BOOLEAN)
         /\ Len(alarm') = Len(alarm) + Len(new)
         /\ Len(AlarmStatusChanged') = Len(alarm')
         /\ \A i \in 1..Len(alarm) : /\ alarm'[i] = alarm[i]
                                     /\ AlarmStatusChanged'[i] = AlarmStatusChanged[i]
         /\ Updates' \in [Callers -> Seq(Nat)]
         /\ Updates'[c] # <<>>
         /\ \A i \in 1..Len(Updates'[c]) : Updates'[c][i] \in 1..Len(alarm')
<1> DEFINE flags == [i \in 1..Len(new) |-> FALSE]
           numbers == [i \in 1..Len(new) |-> Len(alarm) + i]
<1>1. /\ alarm \in Seq(Alarms \cup {NoField}) /\ AlarmStatusChanged \in Seq(BOOLEAN)
      /\ Len(AlarmStatusChanged) = Len(alarm) /\ Updates \in [Callers -> Seq(Nat)]
      /\ Len(alarm) \in Nat
  BY DEF Shape, TypeOK
<1>2. /\ alarm' = alarm \o new /\ AlarmStatusChanged' = AlarmStatusChanged \o flags
      /\ Updates' = [Updates EXCEPT ![c] = numbers]
  BY DEF monitorEvent
<1>3. flags \in Seq(BOOLEAN) /\ Len(flags) = Len(new)
  OBVIOUS
<1>4. numbers \in Seq(Nat) /\ Len(numbers) = Len(new)
  BY <1>1
<1>5. \A i \in 1..Len(numbers) : numbers[i] \in 1..(Len(alarm) + Len(new))
  BY <1>1, <1>4
<1>6. /\ alarm' \in Seq(Alarms \cup {NoField})
      /\ Len(alarm') = Len(alarm) + Len(new)
      /\ \A i \in 1..Len(alarm) : alarm'[i] = alarm[i]
  BY <1>1, <1>2, ConcatProperties
<1>7. /\ AlarmStatusChanged' \in Seq(BOOLEAN)
      /\ Len(AlarmStatusChanged') = Len(alarm')
      /\ \A i \in 1..Len(alarm) : AlarmStatusChanged'[i] = AlarmStatusChanged[i]
  <2> HIDE DEF flags
  <2>1. /\ AlarmStatusChanged \o flags \in Seq(BOOLEAN)
        /\ Len(AlarmStatusChanged \o flags) = Len(AlarmStatusChanged) + Len(flags)
        /\ \A i \in 1..Len(AlarmStatusChanged) :
             (AlarmStatusChanged \o flags)[i] = AlarmStatusChanged[i]
    BY <1>1, <1>3, ConcatKeeps, ZenonT(40)
  <2> QED BY <1>1, <1>2, <1>3, <1>6, <2>1, Zenon
<1>8. /\ Updates' \in [Callers -> Seq(Nat)] /\ Updates'[c] = numbers
  <2> HIDE DEF numbers
  <2> QED BY <1>1, <1>2, <1>4
<1>9. numbers # <<>>
  BY <1>4
<1> HIDE DEF numbers, flags
<1> QED BY <1>5, <1>6, <1>7, <1>8, <1>9

\* The next update of the caller becomes the cached one and goes to the end of
\* the queue; flags are set, never cleared.
LEMMA EmitEffect ==
  ASSUME Shape, NEW c \in Callers, NEW changed \in BOOLEAN, EmitAs(c, changed),
         NEW u, u = Head(Updates[c])
  PROVE  /\ u \in 1..Len(alarm) /\ CachedUpdate' = u
         /\ EmitQueue' \in Seq(Nat) /\ Len(EmitQueue') = Len(EmitQueue) + 1
         /\ \A i \in 1..Len(EmitQueue) : EmitQueue'[i] = EmitQueue[i]
         /\ EmitQueue'[Len(EmitQueue) + 1] = u
         /\ producers' \in Seq(Callers \cup {Timer}) /\ Len(producers') = Len(EmitQueue')
         /\ AlarmStatusChanged' \in Seq(BOOLEAN)
         /\ Len(AlarmStatusChanged') = Len(AlarmStatusChanged)
         /\ \A i \in 1..Len(alarm) : AlarmStatusChanged[i] => AlarmStatusChanged'[i]
         /\ changed => AlarmStatusChanged'[u]
         /\ Updates' \in [Callers -> Seq(Nat)]
         /\ \A i \in 1..Len(Updates'[c]) : Updates'[c][i] \in 1..Len(alarm)
         /\ pc'[c] = "emit" => Updates'[c] # <<>>
<1>1. /\ EmitQueue \in Seq(Nat) /\ AlarmStatusChanged \in Seq(BOOLEAN)
      /\ Len(AlarmStatusChanged) = Len(alarm) /\ Updates \in [Callers -> Seq(Nat)]
      /\ Len(alarm) \in Nat /\ Updates[c] \in Seq(Nat) /\ Updates[c] # <<>>
      /\ \A i \in 1..Len(Updates[c]) : Updates[c][i] \in 1..Len(alarm)
      /\ pc \in [Callers -> {"idle", "monitoring", "report", "emit"}]
      /\ producers \in Seq(Callers \cup {Timer}) /\ Len(producers) = Len(EmitQueue)
  BY DEF Shape, TypeOK, EmitAs
<1>2. /\ Tail(Updates[c]) \in Seq(Nat)
      /\ \A i \in 1..Len(Tail(Updates[c])) : Tail(Updates[c])[i] \in 1..Len(alarm)
      /\ u = Updates[c][1] /\ u \in 1..Len(alarm)
  BY <1>1, HeadTailProperties
<1>3. /\ EmitQueue' = Append(EmitQueue, u) /\ CachedUpdate' = u
      /\ producers' = Append(producers, c)
      /\ AlarmStatusChanged' = [AlarmStatusChanged EXCEPT ![u] = @ \/ changed]
      /\ Updates' = [Updates EXCEPT ![c] = Tail(@)]
      /\ pc' = [pc EXCEPT ![c] = IF Tail(Updates[c]) = <<>> THEN "idle" ELSE "emit"]
  BY DEF EmitAs, emitWithoutCaching
<1>4. Updates' \in [Callers -> Seq(Nat)] /\ Updates'[c] = Tail(Updates[c])
  BY <1>1, <1>2, <1>3
<1>5. pc'[c] = "emit" => Updates'[c] # <<>>
  BY <1>1, <1>3, <1>4
<1>6. /\ EmitQueue' \in Seq(Nat) /\ Len(EmitQueue') = Len(EmitQueue) + 1
      /\ \A i \in 1..Len(EmitQueue) : EmitQueue'[i] = EmitQueue[i]
      /\ EmitQueue'[Len(EmitQueue) + 1] = u
  BY <1>1, <1>2, <1>3, AppendProperties
<1>7. /\ AlarmStatusChanged' \in Seq(BOOLEAN)
      /\ Len(AlarmStatusChanged') = Len(AlarmStatusChanged)
  BY <1>1, <1>2, <1>3
<1>8. /\ \A i \in 1..Len(alarm) : AlarmStatusChanged[i] => AlarmStatusChanged'[i]
      /\ changed => AlarmStatusChanged'[u]
  BY <1>1, <1>2, <1>3
<1>9. producers' \in Seq(Callers \cup {Timer}) /\ Len(producers') = Len(EmitQueue')
  BY <1>1, <1>3, <1>6, AppendProperties
<1> QED BY <1>2, <1>3, <1>4, <1>5, <1>6, <1>7, <1>8, <1>9
-----------------------------------------------------------------------------
\* The client's invariant holds when the client has been made.
LEMMA InitClient == Init => ClientInv
<1> SUFFICES ASSUME Init PROVE ClientInv
  OBVIOUS
<1>1. Len(alarm) = 0 /\ Len(EmitQueue) = 0
  BY DEF Init
<1>2. Shape
  <2>1. TypeOK
    <3>1. Len(producers) = Len(EmitQueue)
      BY DEF Init
    <3>2. /\ CachedUpdate \in 0..Len(alarm) /\ Len(AlarmStatusChanged) = Len(alarm)
          /\ \A i \in 1..Len(EmitQueue) : EmitQueue[i] \in 1..Len(alarm)
      BY <1>1 DEF Init
    <3>3. /\ monitor \in Nat /\ monitors \in Nat
          /\ live \subseteq 1..monitors /\ started \subseteq 1..monitors
      BY DEF Init
    <3> QED BY <3>1, <3>2, <3>3 DEF Init, TypeOK, States
  <2>2. /\ alarm \in Seq(Alarms \cup {NoField}) /\ AlarmStatusChanged \in Seq(BOOLEAN)
        /\ EmitQueue \in Seq(Nat) /\ Updates \in [Callers -> Seq(Nat)]
        /\ producers \in Seq(Callers \cup {Timer}) /\ Len(producers) = 0
    BY DEF Init
  <2>3. \A c \in Callers : Updates[c] = <<>> /\ pc[c] = "idle"
    BY DEF Init
  <2>4. \A c \in Callers : \A i \in 1..Len(Updates[c]) : Updates[c][i] \in 1..Len(alarm)
    BY <2>3
  <2>5. monitor \in 0..monitors
    BY DEF Init
  <2> QED BY <2>1, <2>2, <2>3, <2>4, <2>5 DEF Init, Shape
<1>3. MonitorInv /\ FollowInv
  BY DEF Init, MonitorInv, OneMonitor, FollowInv
<1>4. ChainInv
  BY <1>1 DEF Init, ChainInv, StatusShown
<1> QED BY <1>2, <1>3, <1>4 DEF ClientInv

\* The updates, when a step leaves them alone.
LEMMA QuietShape ==
  ASSUME Shape, TypeOK', monitor' \in 0..monitors', overlapped' \in BOOLEAN,
         UNCHANGED <<Updates, alarm, AlarmStatusChanged, CachedUpdate, nullAlarm, EmitQueue,
                     producers, pubVars>>,
         hasAlarm' \in BOOLEAN,
         \A c \in Callers : pc'[c] = "emit" => pc[c] = "emit"
  PROVE  Shape'
BY DEF Shape

\* Every callback, timer and destruction keeps the types of the client.
LEMMA NextShape == Shape /\ [Next]_vars => Shape'
<1> SUFFICES ASSUME Shape, [Next]_vars PROVE Shape'
  OBVIOUS
<1>0. TypeOK /\ monitor \in 0..monitors /\ hasAlarm \in BOOLEAN /\ overlapped \in BOOLEAN
  BY DEF Shape
<1>1. ASSUME NEW c \in Callers, NEW new \in States, StateChange(c, new) PROVE Shape'
  <2>1. TypeOK'
    BY <1>0, <1>1 DEF StateChange, TypeOK
  <2>2. overlapped' \in BOOLEAN
    BY <1>0, <1>1 DEF StateChange
  <2>3. \A d \in Callers : pc'[d] = "emit" => pc[d] = "emit"
    BY <1>0, <1>1 DEF StateChange, TypeOK
  <2> QED BY <1>0, <1>1, <2>1, <2>2, <2>3, QuietShape DEF StateChange
<1>2. ASSUME NEW c \in Callers, monitoringStart(c) \/ monitoringStop(c) PROVE Shape'
  <2>1. /\ monitors' \in Nat /\ monitor' \in 0..monitors'
        /\ live' \subseteq 1..monitors' /\ 1..monitors \subseteq 1..monitors'
    <3>0. monitors \in Nat /\ live \subseteq 1..monitors
      BY <1>0 DEF TypeOK
    <3>1. CASE monitors' = monitors + 1 /\ monitor' = monitors' /\ live' = (live \ {monitor}) \cup {monitor'}
      <4>1. \A i \in 1..monitors : i \in 1..monitors'
        BY <3>0, <3>1
      <4>2. monitors' \in Nat /\ monitor' \in 0..monitors' /\ monitor' \in 1..monitors'
        BY <3>0, <3>1
      <4>3. \A i \in live' : i \in live \/ i = monitor'
        BY <3>1
      <4> QED BY <3>0, <4>1, <4>2, <4>3
    <3>2. CASE monitors' = monitors /\ monitor' \in {0, monitor} /\ live' \subseteq live
      BY <1>0, <3>2 DEF TypeOK
    <3> QED BY <1>2, <3>1, <3>2 DEF monitoringStart, monitoringStop
  <2>2. MonitoringDone(c)
    BY <1>2 DEF monitoringStart, monitoringStop
  <2>3. TypeOK'
    BY <1>0, <2>1, <2>2 DEF MonitoringDone, TypeOK
  <2>4. \A d \in Callers : pc'[d] = "emit" => pc[d] = "emit"
    BY <1>0, <2>2 DEF MonitoringDone, TypeOK
  <2> QED BY <1>0, <2>1, <2>2, <2>3, <2>4, QuietShape DEF MonitoringDone
<1>3. ASSUME NEW c \in Callers, ReportState(c) PROVE Shape'
  <2>1. TypeOK'
    BY <1>0, <1>3 DEF ReportState, TypeOK
  <2>2. \A d \in Callers : pc'[d] = "emit" => pc[d] = "emit"
    BY <1>0, <1>3 DEF ReportState, TypeOK
  <2> QED BY <1>0, <1>3, <2>1, <2>2, QuietShape DEF ReportState
<1>4. ASSUME NEW c \in Callers, NEW result \in {"ok", "warning", "failed"}, monitorConnect(c, result)
      PROVE  Shape'
  <2>1. PICK m \in live : started' = IF result = "ok" THEN started \cup {m} ELSE started
    BY <1>4 DEF monitorConnect
  <2>2. TypeOK'
    BY <1>0, <1>4, <2>1 DEF monitorConnect, NewStructure, TypeOK
  <2>3. hasAlarm' \in BOOLEAN
    BY <1>0, <1>4 DEF monitorConnect, NewStructure
  <2> QED BY <1>0, <1>4, <2>2, <2>3, QuietShape DEF monitorConnect, NewStructure
<1>5. ASSUME NEW c \in Callers, NEW n \in 1..2, NEW new \in [1..n -> Alarms \cup {NoField}],
             monitorEvent(c, new)
      PROVE  Shape'
  <2>1. new \in Seq(Alarms \cup {NoField}) /\ Len(new) \in 1..2
    BY NewIsSeq
  <2>2. /\ alarm' \in Seq(Alarms \cup {NoField})
        /\ AlarmStatusChanged' \in Seq(BOOLEAN)
        /\ Len(alarm') = Len(alarm) + Len(new)
        /\ Len(AlarmStatusChanged') = Len(alarm')
        /\ Updates' \in [Callers -> Seq(Nat)]
        /\ Updates'[c] # <<>>
        /\ \A i \in 1..Len(Updates'[c]) : Updates'[c][i] \in 1..Len(alarm')
    BY <1>5, <2>1, ArriveEffect
  <2>3. Len(alarm) \in Nat /\ Len(alarm') \in Nat /\ 1..Len(alarm) \subseteq 1..Len(alarm')
    BY <2>1, <2>2 DEF Shape
  <2>4. TypeOK'
    BY <1>0, <1>5, <2>2, <2>3 DEF monitorEvent, TypeOK
  <2>5. \A d \in Callers \ {c} : Updates'[d] = Updates[d] /\ pc'[d] = pc[d]
    BY <1>0, <1>5 DEF monitorEvent, TypeOK, Shape
  <2> QED BY <1>5, <2>2, <2>3, <2>4, <2>5 DEF monitorEvent, Shape
<1>6. ASSUME NEW c \in Callers, NEW changed \in BOOLEAN, EmitAs(c, changed) PROVE Shape'
  <2> DEFINE u == Head(Updates[c])
  <2>1. /\ u \in 1..Len(alarm) /\ CachedUpdate' = u
        /\ EmitQueue' \in Seq(Nat) /\ Len(EmitQueue') = Len(EmitQueue) + 1
        /\ \A i \in 1..Len(EmitQueue) : EmitQueue'[i] = EmitQueue[i]
        /\ EmitQueue'[Len(EmitQueue) + 1] = u
        /\ producers' \in Seq(Callers \cup {Timer}) /\ Len(producers') = Len(EmitQueue')
        /\ AlarmStatusChanged' \in Seq(BOOLEAN)
        /\ Len(AlarmStatusChanged') = Len(AlarmStatusChanged)
        /\ Updates' \in [Callers -> Seq(Nat)]
        /\ \A i \in 1..Len(Updates'[c]) : Updates'[c][i] \in 1..Len(alarm)
        /\ pc'[c] = "emit" => Updates'[c] # <<>>
    BY <1>6, EmitEffect
  <2> HIDE DEF u
  <2>2. \A i \in 1..Len(EmitQueue') : EmitQueue'[i] \in 1..Len(alarm)
    <3>1. /\ Len(EmitQueue) \in Nat
          /\ \A i \in 1..Len(EmitQueue) : EmitQueue[i] \in 1..Len(alarm)
      BY <1>0 DEF TypeOK, Shape
    <3>2. \A i \in 1..Len(EmitQueue') : i \in 1..Len(EmitQueue) \/ i = Len(EmitQueue) + 1
      BY <2>1, <3>1
    <3> QED BY <2>1, <3>1, <3>2
  <2>3. TypeOK'
    <3>1. pc' \in [Callers -> {"idle", "monitoring", "report", "emit"}]
      BY <1>0, <1>6 DEF EmitAs, TypeOK
    <3>2. /\ CachedUpdate' \in 0..Len(alarm') /\ Len(AlarmStatusChanged') = Len(alarm')
          /\ \A i \in 1..Len(EmitQueue') : EmitQueue'[i] \in 1..Len(alarm')
      <4>1. alarm' = alarm /\ Len(alarm) \in Nat /\ Len(AlarmStatusChanged) = Len(alarm)
        BY <1>0, <1>6 DEF EmitAs, TypeOK, Shape
      <4> QED BY <2>1, <2>2, <4>1
    <3> QED BY <1>0, <1>6, <2>1, <3>1, <3>2 DEF EmitAs, TypeOK
  <2>4. \A d \in Callers \ {c} : Updates'[d] = Updates[d] /\ pc'[d] = pc[d]
    BY <1>0, <1>6 DEF EmitAs, TypeOK, Shape
  <2>5. nullAlarm' \in BOOLEAN
    BY <1>6 DEF EmitAs
  <2> QED BY <1>6, <2>1, <2>3, <2>4, <2>5, SMTT(40) DEF EmitAs, Shape
<1>7. ASSUME emitCachedValue PROVE Shape'
  <2>1. CASE CachedUpdate = 0
    BY <1>7, <2>1 DEF emitCachedValue, Shape, TypeOK
  <2>2. CASE CachedUpdate # 0
    <3>1. /\ EmitQueue' = Append(EmitQueue, CachedUpdate) /\ CachedUpdate \in 1..Len(alarm)
          /\ AlarmStatusChanged' = [AlarmStatusChanged EXCEPT ![CachedUpdate] = TRUE]
      BY <1>0, <1>7, <2>2 DEF emitCachedValue, emitWithoutCaching, TypeOK, Shape
    <3>2. /\ EmitQueue' \in Seq(Nat)
          /\ \A i \in 1..Len(EmitQueue') : EmitQueue'[i] \in 1..Len(alarm)
      BY <1>0, <3>1, AppendProperties DEF TypeOK, Shape
    <3>4. producers' \in Seq(Callers \cup {Timer}) /\ Len(producers') = Len(EmitQueue')
      <4>1. /\ producers \in Seq(Callers \cup {Timer}) /\ EmitQueue \in Seq(Nat)
            /\ Len(producers) = Len(EmitQueue) /\ producers' = Append(producers, Timer)
        BY <1>0, <1>7, <2>2 DEF emitCachedValue, emitWithoutCaching, TypeOK, Shape
      <4> QED BY <3>1, <4>1, AppendProperties
    <3>3. AlarmStatusChanged' \in Seq(BOOLEAN) /\ Len(AlarmStatusChanged') = Len(alarm)
      BY <1>0, <3>1 DEF TypeOK, Shape
    <3> QED BY <1>0, <1>7, <3>2, <3>3, <3>4 DEF emitCachedValue, Shape, TypeOK
  <2> QED BY <2>1, <2>2
<1>8. ASSUME NEW i \in 1..Len(EmitQueue), Publish(i) PROVE Shape'
  <2>0. /\ EmitQueue \in Seq(Nat) /\ producers \in Seq(Callers \cup {Timer})
        /\ Len(producers) = Len(EmitQueue) /\ overtaken \in BOOLEAN
        /\ \A j \in 1..Len(EmitQueue) : EmitQueue[j] \in 1..Len(alarm)
    BY DEF Shape, TypeOK
  <2>1. /\ EmitQueue[i] \in 1..Len(alarm) /\ EmitQueue' \in Seq(Nat)
        /\ Len(EmitQueue') = Len(EmitQueue) - 1
        /\ \A k \in 1..Len(EmitQueue') : EmitQueue'[k] \in 1..Len(alarm)
    <3>1. /\ EmitQueue' \in Seq(Nat) /\ Len(EmitQueue') = Len(EmitQueue) - 1
          /\ \A k \in 1..Len(EmitQueue') : EmitQueue'[k] \in {EmitQueue[j] : j \in 1..Len(EmitQueue)}
      BY <1>8, <2>0, RemoveAtKeeps DEF Publish
    <3> QED BY <2>0, <3>1
  <2>2. producers' \in Seq(Callers \cup {Timer}) /\ Len(producers') = Len(producers) - 1
    BY <1>8, <2>0, RemoveAtKeeps DEF Publish
  <2>3. TypeOK'
    BY <1>0, <1>8, <2>0, <2>1, <2>2 DEF Publish, TypeOK
  <2>4. out' \in 1..Len(alarm') /\ overtaken' \in BOOLEAN
    BY <1>8, <2>1 DEF Publish
  <2>5. alarm[EmitQueue[i]] \in Alarms \cup {NoField}
    BY <2>1 DEF Shape
  <2>6. shown' \in Shown \/ shown' = None
    BY <1>8, <2>5 DEF Publish, Shape, Shown, Alarms, getAlarmStatus, getAlarmSeverity
  <2> QED BY <1>8, <2>1, <2>2, <2>3, <2>4, <2>6 DEF Publish, Shape
<1>9. ASSUME setProducer \/ stop PROVE Shape'
  <2>1. TypeOK' /\ monitor' \in 0..monitors'
    <3>1. CASE setProducer
      BY <1>0, <3>1 DEF setProducer, TypeOK
    <3>2. CASE stop
      <4>1. /\ monitor' = 0 /\ live' \subseteq live /\ channel' = FALSE /\ stopped' = TRUE
            /\ UNCHANGED <<main, ConnectionState, started, monitors, pc, arg, emitVars, status_>>
        BY <3>2 DEF stop
      <4>2. /\ monitor' \in Nat /\ monitors' \in Nat /\ monitor' \in 0..monitors'
            /\ live' \subseteq 1..monitors' /\ started' \subseteq 1..monitors'
        BY <1>0, <4>1 DEF TypeOK
      <4> QED BY <1>0, <4>1, <4>2 DEF TypeOK
    <3> QED BY <1>9, <3>1, <3>2
  <2> QED BY <1>0, <1>9, <2>1, QuietShape DEF setProducer, stop
<1>10. CASE UNCHANGED vars
  BY <1>10 DEF Shape, TypeOK
<1>11. ASSUME NEW c \in Callers, emit(c) PROVE Shape'
  <2>1. PICK changed \in BOOLEAN : EmitAs(c, changed)
    BY <1>11 DEF emit, alarmMessageChanged
  <2> QED BY <1>6, <2>1
<1> QED BY <1>1, <1>2, <1>3, <1>4, <1>5, <1>7, <1>8, <1>9, <1>10, <1>11 DEF Next
-----------------------------------------------------------------------------
(* The monitor and the connection state.                                   *)

\* ... the one monitor,
LEMMA NextMonitor == Shape /\ MonitorInv /\ [Next]_vars => MonitorInv'
<1> SUFFICES ASSUME Shape, MonitorInv, [Next]_vars PROVE MonitorInv'
  OBVIOUS
<1>0. /\ monitors \in Nat /\ channel \in BOOLEAN /\ live = {monitor} \ {0}
      /\ stopped => monitor = 0 /\ ~ channel
  BY DEF Shape, TypeOK, MonitorInv, OneMonitor
<1>1. ASSUME UNCHANGED <<channel, monitor, live, stopped>> PROVE MonitorInv'
  BY <1>1 DEF MonitorInv, OneMonitor
<1>2. ASSUME NEW c \in Callers, monitoringStart(c) PROVE MonitorInv'
  <2>1. UNCHANGED <<channel, stopped>>
    BY <1>2 DEF monitoringStart, MonitoringDone
  <2>2. CASE UNCHANGED <<monitor, live>>
    BY <1>1, <2>1, <2>2
  <2>3. CASE channel /\ monitors' = monitors + 1 /\ monitor' = monitors'
             /\ live' = (live \ {monitor}) \cup {monitor'}
    <3>1. monitor' # 0 /\ live \ {monitor} = {}
      BY <1>0, <2>3
    <3>2. live' = {monitor'} \ {0}
      BY <2>3, <3>1
    <3> QED BY <1>0, <2>1, <2>3, <3>2 DEF MonitorInv, OneMonitor
  <2>4. CASE channel /\ monitor' = 0 /\ live' = live \ {monitor}
    <3>1. live' = {monitor'} \ {0}
      BY <1>0, <2>4
    <3> QED BY <1>0, <2>1, <2>4, <3>1 DEF MonitorInv, OneMonitor
  <2> QED BY <1>2, <2>2, <2>3, <2>4 DEF monitoringStart
<1>3. ASSUME monitor' = 0, live' = live \ {monitor}, stopped' = stopped \/ ~ channel', channel' \in {channel, FALSE}
      PROVE  MonitorInv'
  <2>1. live' = {monitor'} \ {0}
    BY <1>0, <1>3
  <2>2. stopped' => ~ channel'
    BY <1>0, <1>3
  <2> QED BY <1>3, <2>1, <2>2 DEF MonitorInv, OneMonitor
<1>4. ASSUME NEW c \in Callers, monitoringStop(c) PROVE MonitorInv'
  BY <1>3, <1>4 DEF monitoringStop, MonitoringDone
<1>5. ASSUME stop PROVE MonitorInv'
  BY <1>3, <1>5 DEF stop
<1>6. ASSUME setProducer PROVE MonitorInv'
  BY <1>0, <1>6 DEF setProducer, MonitorInv, OneMonitor
<1>7. ASSUME NEW c \in Callers, NEW new \in States, StateChange(c, new) PROVE MonitorInv'
  BY <1>1, <1>7 DEF StateChange
<1>8. ASSUME NEW c \in Callers, ReportState(c) \/ emit(c) PROVE MonitorInv'
  BY <1>1, <1>8 DEF ReportState, emit, EmitAs
<1>9. ASSUME NEW c \in Callers, NEW result, monitorConnect(c, result) PROVE MonitorInv'
  BY <1>1, <1>9 DEF monitorConnect
<1>10. ASSUME NEW c \in Callers, NEW new, monitorEvent(c, new) PROVE MonitorInv'
  BY <1>1, <1>10 DEF monitorEvent
<1>11. ASSUME emitCachedValue \/ UNCHANGED vars PROVE MonitorInv'
  BY <1>1, <1>11 DEF emitCachedValue
<1>12. ASSUME NEW i, Publish(i) PROVE MonitorInv'
  BY <1>1, <1>12 DEF Publish
<1> QED BY <1>2, <1>4, <1>5, <1>6, <1>7, <1>8, <1>9, <1>10, <1>11, <1>12 DEF Next

\* ... the connection status,
LEMMA NextFollow == Shape /\ FollowInv /\ [Next]_vars => FollowInv'
<1> SUFFICES ASSUME Shape, FollowInv, [Next]_vars PROVE FollowInv'
  OBVIOUS
<1>0. /\ pc \in [Callers -> {"idle", "monitoring", "report", "emit"}]
      /\ arg \in [Callers -> States \cup {None}] /\ overlapped \in BOOLEAN
  BY DEF Shape, TypeOK
<1>1. ASSUME UNCHANGED <<ConnectionState, monitor, arg, reported, main, overlapped>>,
             \A c \in Callers : pc'[c] = pc[c] \/ {pc[c], pc'[c]} \subseteq {"idle", "emit"}
      PROVE  FollowInv'
  BY <1>1 DEF FollowInv, Idle
<1>2. ASSUME NEW c \in Callers, NEW new \in States, StateChange(c, new) PROVE FollowInv'
  <2>1. /\ pc'[c] = "monitoring" /\ arg'[c] = new /\ new # None /\ ConnectionState' = new
        /\ \A d \in Callers \ {c} : pc'[d] = pc[d] /\ arg'[d] = arg[d]
        /\ overlapped' <=> overlapped \/ \E d \in Callers : arg[d] # None
        /\ UNCHANGED <<reported, main>>
    BY <1>0, <1>2 DEF StateChange
  <2> QED BY <2>1 DEF FollowInv, Idle
<1>3. ASSUME NEW c \in Callers, monitoringStart(c) \/ monitoringStop(c) PROVE FollowInv'
  <2>1. /\ pc[c] = "monitoring" /\ pc'[c] = "report"
        /\ \A d \in Callers \ {c} : pc'[d] = pc[d]
        /\ monitor' # 0 => arg[c] = "CONNECTED"
        /\ UNCHANGED <<ConnectionState, arg, reported, main, overlapped>>
    BY <1>0, <1>3 DEF monitoringStart, monitoringStop, MonitoringDone
  <2> QED BY <2>1 DEF FollowInv, Idle
<1>4. ASSUME NEW c \in Callers, ReportState(c) PROVE FollowInv'
  <2>1. /\ pc[c] = "report" /\ pc'[c] = "idle" /\ arg'[c] = None
        /\ \A d \in Callers \ {c} : pc'[d] = pc[d] /\ arg'[d] = arg[d]
        /\ reported' = IF main = "setup" THEN reported ELSE arg[c]
        /\ UNCHANGED <<ConnectionState, monitor, main, overlapped>>
    BY <1>0, <1>4 DEF ReportState
  <2> QED BY <2>1 DEF FollowInv, Idle
<1>5. ASSUME setProducer \/ stop PROVE FollowInv'
  <2>1. /\ monitor' \in {monitor, 0} /\ (main' = "setup" => main = "setup")
        /\ UNCHANGED <<ConnectionState, pc, arg, reported, overlapped>>
    BY <1>5 DEF setProducer, stop
  <2> QED BY <2>1 DEF FollowInv, Idle
<1>6. ASSUME NEW c \in Callers, emit(c) PROVE FollowInv'
  <2>1. \A d \in Callers : pc'[d] = pc[d] \/ {pc[d], pc'[d]} \subseteq {"idle", "emit"}
    BY <1>0, <1>6 DEF emit, EmitAs
  <2> QED BY <1>1, <1>6, <2>1 DEF emit, EmitAs
<1>7. ASSUME NEW c \in Callers, NEW result, monitorConnect(c, result) PROVE FollowInv'
  BY <1>1, <1>7 DEF monitorConnect
<1>8. ASSUME NEW c \in Callers, NEW new, monitorEvent(c, new) PROVE FollowInv'
  <2>1. \A d \in Callers : pc'[d] = pc[d] \/ {pc[d], pc'[d]} \subseteq {"idle", "emit"}
    BY <1>0, <1>8 DEF monitorEvent
  <2> QED BY <1>1, <1>8, <2>1 DEF monitorEvent
<1>9. ASSUME emitCachedValue \/ UNCHANGED vars PROVE FollowInv'
  BY <1>1, <1>9 DEF emitCachedValue
<1>10. ASSUME NEW i, Publish(i) PROVE FollowInv'
  BY <1>1, <1>10 DEF Publish
<1> QED BY <1>2, <1>3, <1>4, <1>5, <1>6, <1>7, <1>8, <1>9, <1>10 DEF Next
-----------------------------------------------------------------------------
(* Alarms.                                                                 *)

\* An update that has arrived keeps its alarm.
LEMMA AlarmsStay ==
  ASSUME Shape, [Next]_vars
  PROVE  /\ Len(alarm') \in Nat /\ Len(alarm) <= Len(alarm')
         /\ \A i \in 1..Len(alarm) : alarm'[i] = alarm[i]
<1>0. Len(alarm) \in Nat
  BY DEF Shape
<1>1. ASSUME NEW c \in Callers, NEW n \in 1..2, NEW new \in [1..n -> Alarms \cup {NoField}],
             monitorEvent(c, new)
      PROVE  /\ Len(alarm') \in Nat /\ Len(alarm) <= Len(alarm')
             /\ \A i \in 1..Len(alarm) : alarm'[i] = alarm[i]
  <2>1. new \in Seq(Alarms \cup {NoField}) /\ Len(new) \in 1..2
    BY NewIsSeq
  <2>2. /\ Len(alarm') = Len(alarm) + Len(new)
        /\ \A i \in 1..Len(alarm) : alarm'[i] = alarm[i]
    BY <1>1, <2>1, ArriveEffect
  <2> QED BY <1>0, <2>1, <2>2
<1>2. \/ UNCHANGED alarm
      \/ \E c \in Callers, n \in 1..2 : \E new \in [1..n -> Alarms \cup {NoField}] : monitorEvent(c, new)
  BY DEF Next, StateChange, monitoringStart, monitoringStop, MonitoringDone, ReportState,
         monitorConnect, NewStructure, emit, EmitAs, emitCachedValue, Publish, setProducer, stop
<1> QED BY <1>0, <1>1, <1>2

\* A channel that had another structure is remembered as such.
LEMMA RestructuredStays ==
  ASSUME Shape, [Next]_vars, Restructured
  PROVE  Restructured'
<1>1. PICK i \in 1..Len(alarm), j \in 1..Len(alarm) : alarm[i] = NoField /\ alarm[j] # NoField
  BY DEF Restructured
<1>2. /\ i \in 1..Len(alarm') /\ j \in 1..Len(alarm')
      /\ alarm'[i] = alarm[i] /\ alarm'[j] = alarm[j]
  BY AlarmsStay DEF Shape
<1> QED BY <1>1, <1>2 DEF Restructured

\* Of two updates of a PV that keeps its structure, the same message is the
\* same status.
LEMMA SameMessageSameStatus ==
  ASSUME ~ Restructured, NEW x \in 1..Len(alarm), NEW y \in 1..Len(alarm),
         alarm[y] = NoField \/ alarm[y].message = alarm[x].message
  PROVE  SameStatus(x, y)
<1>1. alarm[x] = NoField <=> alarm[y] = NoField
  BY DEF Restructured
<1>2. CASE alarm[y] = NoField
  BY <1>1, <1>2 DEF SameStatus
<1>3. CASE alarm[y] # NoField
  BY <1>1, <1>3 DEF SameStatus, getAlarmStatus
<1> QED BY <1>2, <1>3

\* An update put behind the queue continues the chain.
LEMMA ChainAppend ==
  ASSUME Shape, ChainInv, ~ Restructured, ~ overtaken, NEW u \in 1..Len(alarm),
         EmitQueue' \in Seq(Nat), Len(EmitQueue') = Len(EmitQueue) + 1,
         \A i \in 1..Len(EmitQueue) : EmitQueue'[i] = EmitQueue[i],
         EmitQueue'[Len(EmitQueue) + 1] = u,
         CachedUpdate' = u, UNCHANGED <<alarm, pubVars>>,
         \A i \in 1..Len(alarm) : AlarmStatusChanged[i] => AlarmStatusChanged'[i],
         AlarmStatusChanged'[u] \/ (CachedUpdate # 0 /\ SameStatus(CachedUpdate, u))
  PROVE  ChainInv'
<1>0. /\ EmitQueue \in Seq(Nat) /\ Len(EmitQueue) \in Nat
      /\ \A i \in 1..Len(EmitQueue) : EmitQueue[i] \in 1..Len(alarm)
  BY DEF Shape, TypeOK
<1>1. CachedUpdate' # 0 /\ EmitQueue' # <<>> /\ EmitQueue'[Len(EmitQueue')] = CachedUpdate'
  BY <1>0
<1>2. StatusShown'
  BY DEF ChainInv, StatusShown, Restructured
<1>3. /\ \A x, y : SameStatus(x, y)' <=> SameStatus(x, y)
  BY DEF SameStatus
<1>4. ASSUME NEW i \in 2..Len(EmitQueue')
      PROVE  AlarmStatusChanged'[EmitQueue'[i]] \/ SameStatus(EmitQueue'[i - 1], EmitQueue'[i])
  <2>1. CASE i \in 2..Len(EmitQueue)
    <3>0. i \in 1..Len(EmitQueue) /\ i - 1 \in 1..Len(EmitQueue)
      BY <1>0, <2>1
    <3>1. /\ EmitQueue'[i] = EmitQueue[i] /\ EmitQueue'[i - 1] = EmitQueue[i - 1]
          /\ EmitQueue[i] \in 1..Len(alarm)
      BY <1>0, <3>0
    <3> QED BY <2>1, <3>1 DEF ChainInv
  <2>2. CASE i = Len(EmitQueue) + 1
    <3>0. i - 1 = Len(EmitQueue) /\ Len(EmitQueue) \in 1..Len(EmitQueue)
      BY <1>0, <2>2
    <3>1. EmitQueue # <<>> /\ EmitQueue'[i] = u /\ EmitQueue'[i - 1] = EmitQueue[Len(EmitQueue)]
      BY <1>0, <2>2, <3>0
    <3>2. CachedUpdate # 0 => EmitQueue'[i - 1] = CachedUpdate
      BY <3>1 DEF ChainInv
    <3> QED BY <3>1, <3>2
  <2> QED BY <1>0, <2>1, <2>2
<1>5. \/ AlarmStatusChanged'[EmitQueue'[1]]
      \/ out # None /\ SameStatus(out, EmitQueue'[1])
  <2>1. CASE EmitQueue = <<>>
    <3>1. EmitQueue'[1] = u
      BY <2>1
    <3>2. CachedUpdate # 0 => out = CachedUpdate /\ out # None
      BY <2>1 DEF ChainInv, Shape, TypeOK
    <3> QED BY <3>1, <3>2
  <2>2. CASE EmitQueue # <<>>
    <3>1. EmitQueue'[1] = EmitQueue[1] /\ EmitQueue[1] \in 1..Len(alarm)
      BY <1>0, <2>2
    <3> QED BY <2>2, <3>1 DEF ChainInv
  <2> QED BY <2>1, <2>2
<1> QED BY <1>1, <1>2, <1>3, <1>4, <1>5 DEF ChainInv

\* The oldest of all entries is published: its status is shown, because it comes with
\* its alarm or repeats the status of the entry before it.
LEMMA ChainPublish ==
  ASSUME Shape, ChainInv, ~ Restructured, ~ overtaken,
         1 \in 1..Len(EmitQueue), Publish(1)
  PROVE  ChainInv'
<1>0. /\ EmitQueue \in Seq(Nat) /\ Len(EmitQueue) \in Nat /\ EmitQueue # <<>>
      /\ \A i \in 1..Len(EmitQueue) : EmitQueue[i] \in 1..Len(alarm)
  BY DEF Shape, TypeOK, Publish
<1>1. /\ out' = EmitQueue[1] /\ UNCHANGED <<alarm, AlarmStatusChanged, CachedUpdate>>
      /\ EmitQueue' \in Seq(Nat) /\ Len(EmitQueue') = Len(EmitQueue) - 1
      /\ \A i \in 1..Len(EmitQueue') : EmitQueue'[i] = EmitQueue[i + 1]
      /\ out' # None
  <2>1. /\ out' = EmitQueue[1] /\ UNCHANGED <<alarm, AlarmStatusChanged, CachedUpdate>>
        /\ EmitQueue' = RemoveAt(EmitQueue, 1)
    BY DEF Publish
  <2>2. /\ EmitQueue' \in Seq(Nat) /\ Len(EmitQueue') = Len(EmitQueue) - 1
        /\ \A k \in 1..(Len(EmitQueue) - 1) : EmitQueue'[k] = IF k < 1 THEN EmitQueue[k] ELSE EmitQueue[k + 1]
    BY <1>0, <2>1, RemoveAtKeeps
  <2>3. \A k \in 1..Len(EmitQueue') : EmitQueue'[k] = EmitQueue[k + 1]
    BY <1>0, <2>2
  <2>4. out' # None
    BY <1>0, <2>1
  <2> QED BY <2>1, <2>2, <2>3, <2>4
<1>2. StatusShown'
  <2>1. CASE AlarmStatusChanged[EmitQueue[1]]
    <3>1. /\ shown' = [status |-> getAlarmStatus(alarm[EmitQueue[1]]),
                       severity |-> getAlarmSeverity(alarm[EmitQueue[1]])]
      BY <1>0, <2>1 DEF Publish
    <3>3. shown'.status = getAlarmStatus(alarm'[out'])
      BY <1>1, <3>1
    <3>4. shown' # None
      <4>1. alarm[EmitQueue[1]] \in Alarms \cup {NoField}
        BY <1>0 DEF Shape
      <4>2. shown' \in Shown
        BY <3>1, <4>1 DEF Shown, Alarms, getAlarmStatus, getAlarmSeverity
      <4> QED BY <4>2
    <3> QED BY <3>3, <3>4 DEF StatusShown
  <2>2. CASE ~ AlarmStatusChanged[EmitQueue[1]]
    <3>1. shown' = shown
      BY <1>0, <2>2 DEF Publish
    <3>2. out # None /\ SameStatus(out, EmitQueue[1]) /\ StatusShown
      BY <1>0, <2>2 DEF ChainInv
    <3> QED BY <1>1, <3>1, <3>2 DEF StatusShown, SameStatus
  <2> QED BY <2>1, <2>2
<1>3. \A x, y : SameStatus(x, y)' <=> SameStatus(x, y)
  BY <1>1 DEF SameStatus
<1>4. CachedUpdate # 0 /\ EmitQueue[Len(EmitQueue)] = CachedUpdate
  BY <1>0 DEF ChainInv
<1>5. IF EmitQueue' = <<>> THEN out' = CachedUpdate ELSE EmitQueue'[Len(EmitQueue')] = CachedUpdate
  BY <1>0, <1>1, <1>4
<1>6. \A i \in 2..Len(EmitQueue) :
        AlarmStatusChanged[EmitQueue[i]] \/ SameStatus(EmitQueue[i - 1], EmitQueue[i])
  BY DEF ChainInv
<1>7. ASSUME NEW i \in 2..Len(EmitQueue')
      PROVE  AlarmStatusChanged[EmitQueue'[i]] \/ SameStatus(EmitQueue'[i - 1], EmitQueue'[i])
  <2>1. /\ i + 1 \in 2..Len(EmitQueue) /\ EmitQueue'[i] = EmitQueue[i + 1]
        /\ EmitQueue'[i - 1] = EmitQueue[(i + 1) - 1]
    <3>1. /\ i \in 1..Len(EmitQueue') /\ i - 1 \in 1..Len(EmitQueue')
          /\ i + 1 \in 2..Len(EmitQueue) /\ (i - 1) + 1 = (i + 1) - 1
      BY <1>0, <1>1
    <3> QED BY <1>1, <3>1
  <2> QED BY <1>6, <2>1
<1>8. EmitQueue' # <<>> => AlarmStatusChanged[EmitQueue'[1]] \/ SameStatus(out', EmitQueue'[1])
  <2>1. SUFFICES ASSUME EmitQueue' # <<>>
                 PROVE  AlarmStatusChanged[EmitQueue'[1]] \/ SameStatus(out', EmitQueue'[1])
    OBVIOUS
  <2>2. 2 \in 2..Len(EmitQueue) /\ EmitQueue'[1] = EmitQueue[2] /\ out' = EmitQueue[2 - 1]
    BY <1>0, <1>1, <2>1
  <2> QED BY <1>6, <2>2
<1> QED BY <1>1, <1>2, <1>3, <1>4, <1>5, <1>7, <1>8 DEF ChainInv

\* ... and the chain from the last update to the status shown.
LEMMA NextChain == Shape /\ ChainInv /\ [Next]_vars => ChainInv'
<1> SUFFICES ASSUME Shape, ChainInv, [Next]_vars, ~ Restructured', ~ overtaken' PROVE ChainInv'
  BY DEF ChainInv
<1>0. ~ Restructured /\ ~ overtaken
  <2>1. ~ overtaken
    BY DEF Next, StateChange, monitoringStart, monitoringStop, MonitoringDone, ReportState, monitorConnect,
           monitorEvent, emit, EmitAs, emitCachedValue, Publish, setProducer, stop
  <2> QED BY <2>1, RestructuredStays
<1>1. ASSUME UNCHANGED <<alarm, AlarmStatusChanged, CachedUpdate, EmitQueue, pubVars>> PROVE ChainInv'
  BY <1>1 DEF ChainInv, Restructured, SameStatus, StatusShown
<1>2. ASSUME NEW c \in Callers, NEW n \in 1..2, NEW new \in [1..n -> Alarms \cup {NoField}],
             monitorEvent(c, new)
      PROVE  ChainInv'
  <2>1. new \in Seq(Alarms \cup {NoField}) /\ Len(new) \in 1..2
    BY NewIsSeq
  <2>2. \A i \in 1..Len(alarm) : alarm'[i] = alarm[i] /\ AlarmStatusChanged'[i] = AlarmStatusChanged[i]
    BY <1>2, <2>1, ArriveEffect
  <2>3. UNCHANGED <<CachedUpdate, EmitQueue, pubVars>>
    BY <1>2 DEF monitorEvent
  <2>4. /\ \A i \in 1..Len(EmitQueue) : EmitQueue[i] \in 1..Len(alarm)
        /\ Len(EmitQueue) \in Nat /\ (EmitQueue # <<>> => 1 \in 1..Len(EmitQueue))
        /\ (out # None => out \in 1..Len(alarm))
    <3>1. /\ EmitQueue \in Seq(Nat) /\ (out # None => out \in 1..Len(alarm))
          /\ \A i \in 1..Len(EmitQueue) : EmitQueue[i] \in 1..Len(alarm)
      BY DEF Shape, TypeOK
    <3> QED BY <3>1
  <2>5. \A x, y \in 1..Len(alarm) : SameStatus(x, y)' <=> SameStatus(x, y)
    BY <2>2 DEF SameStatus
  <2>6. StatusShown'
    BY <1>0, <2>2, <2>3, <2>4 DEF ChainInv, StatusShown
  <2>7. ASSUME NEW i \in 2..Len(EmitQueue)
        PROVE  (AlarmStatusChanged[EmitQueue[i]] \/ SameStatus(EmitQueue[i - 1], EmitQueue[i]))'
    <3>1. i \in 1..Len(EmitQueue) /\ i - 1 \in 1..Len(EmitQueue)
      BY <2>4
    <3>2. EmitQueue[i] \in 1..Len(alarm) /\ EmitQueue[i - 1] \in 1..Len(alarm)
      BY <2>4, <3>1
    <3>3. AlarmStatusChanged[EmitQueue[i]] \/ SameStatus(EmitQueue[i - 1], EmitQueue[i])
      BY <1>0 DEF ChainInv
    <3> QED BY <2>2, <2>3, <2>5, <3>2, <3>3
  <2>8. EmitQueue # <<>> =>
          AlarmStatusChanged'[EmitQueue[1]] \/ (out # None /\ SameStatus(out, EmitQueue[1])')
    <3>1. SUFFICES ASSUME EmitQueue # <<>>
                   PROVE  AlarmStatusChanged'[EmitQueue[1]] \/ (out # None /\ SameStatus(out, EmitQueue[1])')
      OBVIOUS
    <3>2. EmitQueue[1] \in 1..Len(alarm)
      BY <2>4, <3>1
    <3>3. AlarmStatusChanged[EmitQueue[1]] \/ (out # None /\ SameStatus(out, EmitQueue[1]))
      BY <1>0, <3>1 DEF ChainInv
    <3>4. CASE AlarmStatusChanged[EmitQueue[1]]
      BY <2>2, <3>2, <3>4
    <3>5. CASE out # None /\ SameStatus(out, EmitQueue[1])
      BY <2>3, <2>4, <2>5, <3>2, <3>5 DEF SameStatus
    <3> QED BY <3>3, <3>4, <3>5
  <2>9. /\ CachedUpdate = 0 => EmitQueue = <<>> /\ out = None
        /\ CachedUpdate # 0 => IF EmitQueue = <<>> THEN out = CachedUpdate
                                                  ELSE EmitQueue[Len(EmitQueue)] = CachedUpdate
    BY <1>0 DEF ChainInv
  <2> QED BY <2>3, <2>6, <2>7, <2>8, <2>9 DEF ChainInv, SameStatus
<1>3. ASSUME NEW c \in Callers, emit(c) PROVE ChainInv'
  <2> DEFINE u == Head(Updates[c])
             changed == IF CachedUpdate = 0 THEN TRUE ELSE alarmMessageChanged(u)
  <2>1. EmitAs(c, changed) /\ changed \in BOOLEAN
    BY <1>3 DEF emit, alarmMessageChanged
  <2>2. changed \/ (CachedUpdate # 0 /\ ~ alarmMessageChanged(u))
    OBVIOUS
  <2> HIDE DEF changed
  <2>3. /\ u \in 1..Len(alarm) /\ CachedUpdate' = u
        /\ EmitQueue' \in Seq(Nat) /\ Len(EmitQueue') = Len(EmitQueue) + 1
        /\ \A i \in 1..Len(EmitQueue) : EmitQueue'[i] = EmitQueue[i]
        /\ EmitQueue'[Len(EmitQueue) + 1] = u
        /\ \A i \in 1..Len(alarm) : AlarmStatusChanged[i] => AlarmStatusChanged'[i]
        /\ changed => AlarmStatusChanged'[u]
    BY <2>1, EmitEffect
  <2>4. UNCHANGED <<alarm, pubVars>>
    BY <2>1 DEF EmitAs
  <2> HIDE DEF u
  <2>5. CachedUpdate # 0 /\ ~ alarmMessageChanged(u) => SameStatus(CachedUpdate, u)
    <3>1. SUFFICES ASSUME CachedUpdate # 0, ~ alarmMessageChanged(u) PROVE SameStatus(CachedUpdate, u)
      OBVIOUS
    <3>2. CachedUpdate \in 1..Len(alarm)
      BY <3>1 DEF Shape, TypeOK
    <3> QED BY <1>0, <2>3, <3>1, <3>2, SameMessageSameStatus DEF alarmMessageChanged
  <2>6. AlarmStatusChanged'[u] \/ (CachedUpdate # 0 /\ SameStatus(CachedUpdate, u))
    BY <2>2, <2>3, <2>5
  <2> QED BY <1>0, <2>3, <2>4, <2>6, ChainAppend
<1>4. ASSUME emitCachedValue PROVE ChainInv'
  <2>1. CASE CachedUpdate = 0
    BY <1>1, <1>4, <2>1 DEF emitCachedValue
  <2>2. CASE CachedUpdate # 0
    <3>1. /\ EmitQueue' = Append(EmitQueue, CachedUpdate) /\ CachedUpdate \in 1..Len(alarm)
          /\ AlarmStatusChanged' = [AlarmStatusChanged EXCEPT ![CachedUpdate] = TRUE]
          /\ UNCHANGED <<alarm, CachedUpdate, pubVars>>
      BY <1>4, <2>2 DEF emitCachedValue, emitWithoutCaching, TypeOK, Shape
    <3>2. EmitQueue \in Seq(Nat) /\ CachedUpdate \in Nat
      BY <3>1 DEF Shape
    <3>3. /\ EmitQueue' \in Seq(Nat) /\ Len(EmitQueue') = Len(EmitQueue) + 1
          /\ \A i \in 1..Len(EmitQueue) : EmitQueue'[i] = EmitQueue[i]
          /\ EmitQueue'[Len(EmitQueue) + 1] = CachedUpdate
      BY <3>1, <3>2, AppendProperties
    <3>4. /\ \A i \in 1..Len(alarm) : AlarmStatusChanged[i] => AlarmStatusChanged'[i]
          /\ AlarmStatusChanged'[CachedUpdate]
      BY <3>1 DEF Shape, TypeOK
    <3> QED BY <1>0, <3>1, <3>3, <3>4, ChainAppend
  <2> QED BY <2>1, <2>2
<1>5. ASSUME NEW i \in 1..Len(EmitQueue), Publish(i) PROVE ChainInv'
  <2>1. ~ (i > 1)
    BY <1>5 DEF Publish
  <2>2. i = 1
    BY <2>1 DEF Shape
  <2> QED BY <1>0, <1>5, <2>2, ChainPublish
<1>6. ASSUME NEW c \in Callers, NEW new, StateChange(c, new) PROVE ChainInv'
  BY <1>1, <1>6 DEF StateChange
<1>7. ASSUME NEW c \in Callers, monitoringStart(c) \/ monitoringStop(c) \/ ReportState(c) PROVE ChainInv'
  BY <1>1, <1>7 DEF monitoringStart, monitoringStop, MonitoringDone, ReportState
<1>8. ASSUME NEW c \in Callers, NEW result, monitorConnect(c, result) PROVE ChainInv'
  BY <1>1, <1>8 DEF monitorConnect, NewStructure
<1>9. ASSUME setProducer \/ stop \/ UNCHANGED vars PROVE ChainInv'
  BY <1>1, <1>9 DEF setProducer, stop
<1> QED BY <1>2, <1>3, <1>4, <1>5, <1>6, <1>7, <1>8, <1>9 DEF Next
-----------------------------------------------------------------------------
\* ClientInv holds in every state: the types, the one monitor, the callbacks
\* of the connection and the chain of queued updates.
THEOREM ClientInvariant == Spec => []ClientInv
<1>1. ClientInv /\ [Next]_vars => ClientInv'
  BY NextShape, NextMonitor, NextFollow, NextChain DEF ClientInv
<1> QED BY <1>1, InitClient, PTL DEF Spec

\* The client's state keeps its types: in particular the cached update and
\* every entry of the queue are updates that arrived.
THEOREM MonitorTypes == Spec => []TypeOK
<1>1. ClientInv => TypeOK
  BY DEF ClientInv, Shape
<1> QED BY <1>1, ClientInvariant, PTL

\* Whatever the order of the connection callbacks of any number of EPICS
\* threads, there is at most one monitor, the one the client can destroy, and
\* none after stop.
THEOREM AtMostOneMonitor == Spec => []OneMonitor
<1>1. ClientInv => OneMonitor
  BY DEF ClientInv, MonitorInv
<1> QED BY <1>1, ClientInvariant, PTL

\* Between connection callbacks that did not overlap, the monitor and the last
\* event sent to Kafka follow the connection state.
THEOREM ConnectionIsFollowed == Spec => []ConnectionFollowed
<1>1. ClientInv => ConnectionFollowed
  <2> SUFFICES ASSUME FollowInv PROVE ConnectionFollowed
    BY DEF ClientInv
  <2>1. Idle => \A c \in Callers : pc[c] # "monitoring"
    BY DEF FollowInv, Idle
  <2> QED BY <2>1 DEF FollowInv, ConnectionFollowed
<1> QED BY <1>1, ClientInvariant, PTL

\* Leaving the alarm out of a message does not mislead its reader about the
\* status, however the timer repeats updates and sets flags of queued ones: as
\* long as no entry of the queue overtakes one of another thread, the status
\* last shown is that of the update last published.
THEOREM StatusIsShown == Spec => []StatusShown
<1>1. ClientInv => StatusShown
  BY DEF ClientInv, ChainInv, StatusShown
<1> QED BY <1>1, ClientInvariant, PTL
=============================================================================
