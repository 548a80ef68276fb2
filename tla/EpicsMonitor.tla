----------------------------- MODULE EpicsMonitor -----------------------------
(***************************************************************************)
(* One EPICS client (EpicsClientMonitor, EpicsClientMonitorImpl) with the  *)
(* callbacks EPICS makes into it (ChannelRequester, FwdMonitorRequester),  *)
(* the timer that repeats the cached value, the main thread that sets it   *)
(* up and stops it, and the f142 converter that reads AlarmStatusChanged   *)
(* when the update leaves the queue.                                       *)
(*                                                                         *)
(* EPICS is external: it reports connection states and delivers updates to *)
(* a started monitor, in the threads Callers. An update is its number; its *)
(* value is left out, its alarm is a message and a severity.               *)
(*                                                                         *)
(* The queue is a moodycamel::ConcurrentQueue, drained by one conversion   *)
(* thread: it keeps the order of the entries of each enqueueing thread,    *)
(* but an entry may overtake older ones of other threads.                  *)
(***************************************************************************)
EXTENDS Integers, Sequences, FiniteSets, SequencesExt

CONSTANTS
  Callers,       \* EPICS threads that make callbacks
  Timer,         \* the thread of the PV update timer
  Messages,      \* alarm messages a PV may carry
  KnownMessages, \* those that name an AlarmStatus of the f142 schema
  Severities,    \* EPICS alarm severities a PV may carry
  None,          \* nothing reported, nothing published
  MaxUpdates,    \* bound: updates EPICS delivers
  MaxPeriodic,   \* bound: ticks of the PV update timer
  MaxChanges     \* bound: connection state changes

ASSUME MonitorAssumption ==
  /\ Timer \notin Callers
  /\ KnownMessages \subseteq Messages
  /\ MaxUpdates \in Nat /\ MaxPeriodic \in Nat /\ MaxChanges \in Nat

VARIABLES
  ConnectionState, \* EpicsClientMonitor::ConnectionState
  channel,         \* whether Impl->channel is set
  monitor,         \* Impl->monitor: number of the monitor, 0 if null
  live,            \* monitors created and not destroyed
  started,         \* monitors that monitorConnect has started
  monitors,        \* monitors created so far
  pc, arg,         \* what each caller is doing, and the state it was given
  hasAlarm,        \* whether the structure the PV has now has an alarm field
  Updates,         \* local of monitorEvent: what is still to be emitted
  alarm,           \* alarm of each update, in the order of arrival
  AlarmStatusChanged, \* the flag of each update
  CachedUpdate,    \* number of the cached update, 0 if null
  nullAlarm,       \* an alarm field that is not there was dereferenced
  EmitQueue,       \* shared pointers to updates, in the order of enqueueing
  producers,       \* the thread that enqueued each entry of EmitQueue
  main,            \* "setup" (no status producer yet) or "running"
  stopped,         \* stop() has been called
  status_,         \* EpicsClientMonitor::status_
  reported,        \* the connection state last sent to Kafka
  out,             \* the update last published as an f142 message
  shown,           \* alarm a reader of the topic believes in
  periodics, changes, \* how much of the bounds is used up
  overlapped,      \* history: two connection callbacks have overlapped
  overtaken        \* history: an entry of EmitQueue has overtaken another

connVars == <<ConnectionState, channel, monitor, live, started, monitors>>
emitVars == <<hasAlarm, Updates, alarm, AlarmStatusChanged, CachedUpdate,
              nullAlarm, EmitQueue, producers>>
pubVars == <<out, shown, overtaken>>
changeVars == <<changes, overlapped>>
mainVars == <<main, stopped>>
vars == <<connVars, pc, arg, emitVars, mainVars, status_, reported, pubVars,
          periodics, changeVars>>

\* createChannelConnectionState; anything else EPICS may report is UNKNOWN.
States == {"NEVER_CONNECTED", "CONNECTED", "DISCONNECTED", "DESTROYED", "UNKNOWN"}
NoField == [message |-> "absent", severity |-> "absent"]
Alarms == [message : Messages, severity : Severities]
Shown == [status : Messages \cup {"UDF", "NO_ALARM"},
          severity : {"MINOR", "MAJOR", "INVALID", "NO_ALARM"}]

ASSUME NoneAssumption == None \notin States /\ None \notin Nat /\ None \notin Shown

\* getAlarmStatus: the AlarmStatus with the name of the message, UDF if there
\* is none, NO_ALARM if the PV has no alarm field.
getAlarmStatus(a) ==
  CASE a = NoField -> "NO_ALARM"
    [] a.message \in KnownMessages -> a.message
    [] OTHER -> "UDF"

\* getAlarmSeverity.
getAlarmSeverity(a) ==
  CASE a.severity = "minorAlarm" -> "MINOR"
    [] a.severity = "majorAlarm" -> "MAJOR"
    [] a.severity \in {"invalidAlarm", "undefinedAlarm"} -> "INVALID"
    [] OTHER -> "NO_ALARM"

Init ==
  /\ ConnectionState = "NEVER_CONNECTED"
  /\ channel = TRUE
  /\ monitor = 0 /\ live = {} /\ started = {} /\ monitors = 0
  /\ pc = [c \in Callers |-> "idle"]
  /\ arg = [c \in Callers |-> None]
  /\ Updates = [c \in Callers |-> <<>>]
  /\ alarm = <<>> /\ AlarmStatusChanged = <<>>
  /\ hasAlarm = TRUE /\ nullAlarm = FALSE
  /\ CachedUpdate = 0 /\ EmitQueue = <<>> /\ producers = <<>>
  /\ main = "setup" /\ stopped = FALSE /\ status_ = 0
  /\ reported = None /\ out = None /\ shown = None
  /\ periodics = 0 /\ changes = 0 /\ overlapped = FALSE /\ overtaken = FALSE
-----------------------------------------------------------------------------
(* Connection state changes.                                               *)

\* handleConnectionStateChange: the new state is stored without a lock. (A
\* callback without a channel is logged by channelStateChange and changes
\* nothing.)
StateChange(c, new) ==
  /\ pc[c] = "idle" /\ changes < MaxChanges
  /\ changes' = changes + 1
  /\ overlapped' = (overlapped \/ \E d \in Callers : arg[d] # None)
  /\ ConnectionState' = new
  /\ arg' = [arg EXCEPT ![c] = new]
  /\ pc' = [pc EXCEPT ![c] = "monitoring"]
  /\ UNCHANGED <<channel, monitor, live, started, monitors, emitVars, mainVars,
                 status_, reported, pubVars, periodics>>

MonitoringDone(c) ==
  /\ pc' = [pc EXCEPT ![c] = "report"]
  /\ UNCHANGED <<ConnectionState, channel, started, arg, emitVars, mainVars,
                 status_, reported, pubVars, periodics, changeVars>>

\* monitoringStart: nothing without a channel; otherwise the old monitor is
\* destroyed and a new one created, which may fail.
monitoringStart(c) ==
  /\ pc[c] = "monitoring" /\ arg[c] = "CONNECTED"
  /\ \/ /\ ~ channel
        /\ UNCHANGED <<monitor, live, monitors>>
     \/ /\ channel
        /\ monitors' = monitors + 1
        /\ monitor' = monitors'
        /\ live' = (live \ {monitor}) \cup {monitor'}
     \/ /\ channel
        /\ monitor' = 0
        /\ live' = live \ {monitor}
        /\ UNCHANGED monitors
  /\ MonitoringDone(c)

\* Mutant: the monitor is kept when the channel disconnects.
monitoringStop_OnlyDestroyed(c) ==
  /\ pc[c] = "monitoring" /\ arg[c] # "CONNECTED"
  /\ IF arg[c] = "DESTROYED"
       THEN monitor' = 0 /\ live' = live \ {monitor}
       ELSE UNCHANGED <<monitor, live>>
  /\ UNCHANGED monitors
  /\ MonitoringDone(c)

monitoringStop(c) ==
  /\ pc[c] = "monitoring" /\ arg[c] # "CONNECTED"
  /\ monitor' = 0
  /\ live' = live \ {monitor}
  /\ UNCHANGED monitors
  /\ MonitoringDone(c)

\* The event goes to Kafka if there is a ConnectionStatusProducer.
ReportState(c) ==
  /\ pc[c] = "report"
  /\ reported' = IF main = "setup" THEN reported ELSE arg[c]
  /\ arg' = [arg EXCEPT ![c] = None]
  /\ pc' = [pc EXCEPT ![c] = "idle"]
  /\ UNCHANGED <<connVars, emitVars, mainVars, status_, pubVars, periodics, changeVars>>
-----------------------------------------------------------------------------
(* Updates.                                                                *)

\* The PV may come back with another structure.
NewStructure(result) ==
  /\ hasAlarm' \in IF result = "ok" THEN BOOLEAN ELSE {hasAlarm}
  /\ UNCHANGED <<Updates, alarm, AlarmStatusChanged, CachedUpdate, nullAlarm, EmitQueue,
                 producers>>

\* Mutant: errors add up.
monitorConnect_Accumulates(c, result) ==
  /\ pc[c] = "idle" /\ \E m \in live : m \notin started
  /\ LET m == CHOOSE m \in live : m \notin started IN
       started' = IF result = "ok" THEN started \cup {m} ELSE started
  /\ status_' = IF result = "failed" THEN status_ - 1 ELSE status_
  /\ NewStructure(result)
  /\ UNCHANGED <<ConnectionState, channel, monitor, live, monitors, pc, arg,
                 mainVars, reported, pubVars, periodics, changeVars>>

\* FwdMonitorRequester::monitorConnect: started if the status is OK, left
\* alone if it is a success with a warning, an error of the client otherwise.
monitorConnect(c, result) ==
  /\ pc[c] = "idle" /\ \E m \in live : m \notin started
  /\ LET m == CHOOSE m \in live : m \notin started IN
       started' = IF result = "ok" THEN started \cup {m} ELSE started
  /\ status_' = IF result = "failed" THEN -1 ELSE status_
  /\ NewStructure(result)
  /\ UNCHANGED <<ConnectionState, channel, monitor, live, monitors, pc, arg,
                 mainVars, reported, pubVars, periodics, changeVars>>

\* FwdMonitorRequester::monitorEvent: all waiting elements are copied, then
\* emitted.
monitorEvent(c, new) ==
  /\ pc[c] = "idle" /\ live \cap started # {}
  /\ Len(alarm) + Len(new) <= MaxUpdates
  /\ \A i \in 1..Len(new) : hasAlarm <=> new[i] # NoField
  /\ alarm' = alarm \o new
  /\ AlarmStatusChanged' = AlarmStatusChanged \o [i \in 1..Len(new) |-> FALSE]
  /\ Updates' = [Updates EXCEPT ![c] = [i \in 1..Len(new) |-> Len(alarm) + i]]
  /\ pc' = [pc EXCEPT ![c] = "emit"]
  /\ UNCHANGED <<connVars, arg, hasAlarm, CachedUpdate, nullAlarm, EmitQueue,
                 producers, mainVars, status_, reported, pubVars, periodics, changeVars>>

\* Only the message is compared, not the severity.
alarmMessageChanged(u) ==
  alarm[u] # NoField /\ alarm[u].message # alarm[CachedUpdate].message

\* emitWithoutCaching: thread t enqueues update u.
emitWithoutCaching(t, u) ==
  /\ EmitQueue' = Append(EmitQueue, u)
  /\ producers' = Append(producers, t)

\* emit with the flag set to TRUE if changed. The alarm of a cached update
\* that has none is read through a null pointer, which ends the process.
EmitAs(c, changed) ==
  LET u == Head(Updates[c]) IN
  /\ pc[c] = "emit"
  /\ AlarmStatusChanged' = [AlarmStatusChanged EXCEPT ![u] = @ \/ changed]
  /\ nullAlarm' = (CachedUpdate # 0 /\ alarm[u] # NoField /\ alarm[CachedUpdate] = NoField)
  /\ CachedUpdate' = u
  /\ emitWithoutCaching(c, u)
  /\ Updates' = [Updates EXCEPT ![c] = Tail(@)]
  /\ pc' = [pc EXCEPT ![c] = IF Tail(Updates[c]) = <<>> THEN "idle" ELSE "emit"]
  /\ UNCHANGED <<connVars, arg, hasAlarm, alarm, mainVars, status_, reported, pubVars,
                 periodics, changeVars>>

\* Mutant: the severities are compared, not the messages.
emit_ComparesSeverity(c) ==
  LET u == Head(Updates[c])
      changed == CachedUpdate = 0 \/ alarm[u].severity # alarm[CachedUpdate].severity
  IN EmitAs(c, changed)

\* EpicsClientMonitor::emit, under CachedUpdateMutex.
emit(c) ==
  LET u == Head(Updates[c])
      changed == IF CachedUpdate = 0 THEN TRUE ELSE alarmMessageChanged(u)
  IN EmitAs(c, changed)

\* EpicsClientMonitor::emitCachedValue, from the timer, also after stop: the
\* callback keeps the client.
emitCachedValue ==
  /\ periodics < MaxPeriodic
  /\ periodics' = periodics + 1
  /\ IF CachedUpdate = 0
       THEN UNCHANGED <<AlarmStatusChanged, EmitQueue, producers>>
       ELSE /\ AlarmStatusChanged' = [AlarmStatusChanged EXCEPT ![CachedUpdate] = TRUE]
            /\ emitWithoutCaching(Timer, CachedUpdate)
  /\ UNCHANGED <<connVars, pc, arg, hasAlarm, Updates, alarm, CachedUpdate, nullAlarm,
                 mainVars, status_, reported, pubVars, changeVars>>

\* The conversion thread dequeues entry i, the oldest one of its thread; f142
\* Converter::create puts the alarm into the message only if the flag is set
\* by now.
Publish(i) ==
  LET u == EmitQueue[i]
      a == alarm[u]
      full == AlarmStatusChanged[u]
  IN
  /\ \A j \in 1..(i - 1) : producers[j] # producers[i]
  /\ EmitQueue' = RemoveAt(EmitQueue, i)
  /\ producers' = RemoveAt(producers, i)
  /\ overtaken' = (overtaken \/ i > 1)
  /\ out' = u
  /\ shown' = IF full THEN [status |-> getAlarmStatus(a), severity |-> getAlarmSeverity(a)]
                      ELSE shown
  /\ UNCHANGED <<connVars, pc, arg, hasAlarm, Updates, alarm, AlarmStatusChanged,
                 CachedUpdate, nullAlarm, mainVars, status_, reported, periodics, changeVars>>
-----------------------------------------------------------------------------
(* The main thread.                                                        *)

\* addMapping, after the client was created: setProducer and setServiceID.
setProducer ==
  /\ main = "setup"
  /\ main' = "running"
  /\ UNCHANGED <<stopped, connVars, pc, arg, emitVars, status_, reported, pubVars,
                 periodics, changeVars>>

\* A stop command finds the stream once addMapping is done with it, the
\* status thread as soon as it has an error (checkStreamStatus), also in the
\* middle of addMapping.
MayStop == ~ stopped /\ (main = "running" \/ status_ < 0)

\* Mutant: the channel pointer is kept.
stop_KeepsChannel ==
  /\ MayStop
  /\ stopped' = TRUE
  /\ live' = live \ {monitor}
  /\ monitor' = 0
  /\ UNCHANGED <<main, ConnectionState, channel, started, monitors, pc, arg,
                 emitVars, status_, reported, pubVars, periodics, changeVars>>

\* EpicsClientMonitorImpl::stop.
stop ==
  /\ MayStop
  /\ stopped' = TRUE
  /\ live' = live \ {monitor}
  /\ monitor' = 0
  /\ channel' = FALSE
  /\ UNCHANGED <<main, ConnectionState, started, monitors, pc, arg, emitVars,
                 status_, reported, pubVars, periodics, changeVars>>

\* A null pointer that was dereferenced ends the process.
Next ==
  /\ ~ nullAlarm
  /\ \/ \E c \in Callers :
          \/ \E new \in States : StateChange(c, new)
          \/ monitoringStart(c) \/ monitoringStop(c) \/ ReportState(c)
          \/ \E result \in {"ok", "warning", "failed"} : monitorConnect(c, result)
          \/ \E new \in UNION {[1..n -> Alarms \cup {NoField}] : n \in 1..2} : monitorEvent(c, new)
          \/ emit(c)
     \/ \E i \in 1..Len(EmitQueue) : Publish(i)
     \/ emitCachedValue \/ setProducer \/ stop

Spec == Init /\ [][Next]_vars
-----------------------------------------------------------------------------
Idle == \A c \in Callers : arg[c] = None

\* Types of the client's state.
TypeOK ==
  /\ ConnectionState \in States
  /\ channel \in BOOLEAN
  /\ monitor \in Nat /\ monitors \in Nat
  /\ live \subseteq 1..monitors /\ started \subseteq 1..monitors
  /\ pc \in [Callers -> {"idle", "monitoring", "report", "emit"}]
  /\ arg \in [Callers -> States \cup {None}]
  /\ CachedUpdate \in 0..Len(alarm)
  /\ Len(AlarmStatusChanged) = Len(alarm)
  /\ \A i \in 1..Len(EmitQueue) : EmitQueue[i] \in 1..Len(alarm)
  /\ Len(producers) = Len(EmitQueue)
  /\ main \in {"setup", "running"} /\ stopped \in BOOLEAN
  /\ status_ \in {0, -1}

\* There is never more than the one monitor the client knows of, whatever
\* the order of connection callbacks, and after stop there is none and none
\* comes back, although a CONNECTED callback may have been under way.
OneMonitor ==
  /\ live = {monitor} \ {0}
  /\ stopped => monitor = 0

\* As long as connection callbacks have not overlapped: whenever none is
\* running, a monitor exists only on a connected channel, and the last event
\* sent to Kafka, if any, is the state the client is in, with updates, the
\* timer, the set-up and stop at any moment.
ConnectionFollowed ==
  ~ overlapped /\ Idle =>
    /\ monitor # 0 => ConnectionState = "CONNECTED"
    /\ reported # None => reported = ConnectionState

\* The PV came back with or without an alarm field, unlike before.
Restructured ==
  \E i, j \in 1..Len(alarm) : alarm[i] = NoField /\ alarm[j] # NoField

\* A message without alarm fields means "no change". What a reader derives
\* from that is right as long as no entry of the queue has overtaken one of
\* another thread: the status it believes in is the status of the last update
\* published, although flags are set on updates already queued and the timer
\* repeats updates between those of EPICS. (A PV that comes back without its
\* alarm field keeps the status it had.)
StatusShown ==
  out # None /\ ~ Restructured /\ ~ overtaken =>
    shown # None /\ shown.status = getAlarmStatus(alarm[out])

\* The same for the severity.
SeverityShown ==
  out # None => shown # None /\ shown.severity = getAlarmSeverity(alarm[out])
=============================================================================
