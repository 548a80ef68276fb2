------------------------------ MODULE RunControl ------------------------------
(***************************************************************************)
(* Starting and stopping the threads around the core: the run flag raised  *)
(* by the exit command and by signals (raiseForwardingFlag), the main loop *)
(* of forward_epics_to_kafka, the two update timers (Timer) and the two    *)
(* reporters that run a timer loop of their own (StatusReporter,           *)
(* MetricsReporter), up to the destructor of the Forwarder, also after an  *)
(* exception at the start.                                                 *)
(*                                                                         *)
(* asio is external: run() executes the handler of a timer that expired or *)
(* was cancelled, and returns when nothing is pending or stop() was        *)
(* called. The workers and streams are the matter of ForwarderCore.        *)
(***************************************************************************)
EXTENDS Integers, FiniteSets

CONSTANTS
  Signals,      \* deliveries of SIGINT or SIGTERM
  Exit          \* the exit command

ASSUME ControlAssumption == Exit \notin Signals

Raisers == Signals \cup {Exit}
Reporters == {"metrics", "status"}
TimerNames == {"PVUpdateTimer", "GenerateFakePVUpdateTimer"}

VARIABLES
  ForwardingRunFlag, \* set of raised bits: {} is RUN
  raise,     \* each raiser: "ready", "loaded", "retry", "done"
  Expect,    \* local of raiseForwardingFlag
  main,      \* where main() and forward_epics_to_kafka are
  timers,    \* the timers the options ask for
  joined,    \* timers whose thread has been joined
  Running,   \* Timer::Running
  wait,      \* AsioTimer: "none", "armed", "due" (expired or cancelled)
  timer,     \* a timer thread: "none", "run", "callbacks", "rearm", "exit"
  late,      \* rounds of callbacks after Running was reset
  report,    \* each reporter thread: "none", "armed", "report", "exit"
  IOStopped, \* reporters whose IO.stop() was called
  StatusTopic \* whether a status topic is configured

flagVars == <<ForwardingRunFlag, raise, Expect>>
timerVars == <<timers, joined, Running, wait, timer, late>>
reportVars == <<report, IOStopped, StatusTopic>>
controlVars == <<flagVars, main, timerVars, reportVars>>

Reason(r) == IF r = Exit THEN "STOP" ELSE "STOP_DUE_TO_SIGNAL"

ControlNew ==
  /\ ForwardingRunFlag = {}
  /\ raise = [r \in Raisers |-> "ready"]
  /\ Expect = [r \in Raisers |-> {}]
  /\ timers \in SUBSET TimerNames
  /\ joined = {}
  /\ Running = [t \in TimerNames |-> FALSE]
  /\ wait = [t \in TimerNames |-> "none"]
  /\ timer = [t \in TimerNames |-> "none"]
  /\ late = [t \in TimerNames |-> 0]
  /\ report = [r \in Reporters |-> "none"]
  /\ IOStopped = {}
  /\ StatusTopic \in BOOLEAN
ControlInit == ControlNew /\ main = "start"
-----------------------------------------------------------------------------
(* The run flag. The exit command is handled by the main thread inside its *)
(* loop; a signal may interrupt any thread at any point as long as the     *)
(* SignalHandler of main() exists.                                         *)

Handled == {"returned", "unwound", "gone", "terminated"}

LoadFlag(r) ==
  /\ raise[r] = "ready" \/ raise[r] = "retry"
  /\ main \notin Handled /\ (r = Exit => main = "loop")
  /\ Expect' = [Expect EXCEPT ![r] = ForwardingRunFlag]
  /\ raise' = [raise EXCEPT ![r] = "loaded"]
  /\ UNCHANGED <<ForwardingRunFlag, main, timerVars, reportVars>>

\* Mutant: a plain store of the new value.
CompareExchange_Stores(r) ==
  /\ raise[r] = "loaded"
  /\ ForwardingRunFlag' = Expect[r] \cup {Reason(r)}
  /\ raise' = [raise EXCEPT ![r] = "done"]
  /\ UNCHANGED <<Expect, main, timerVars, reportVars>>

\* compare_exchange_weak, and another round if it failed: since the flag has
\* changed, or without a reason.
CompareExchange(r) ==
  /\ raise[r] = "loaded"
  /\ \/ /\ ForwardingRunFlag = Expect[r]
        /\ ForwardingRunFlag' = Expect[r] \cup {Reason(r)}
        /\ raise' = [raise EXCEPT ![r] = "done"]
     \/ /\ raise' = [raise EXCEPT ![r] = "retry"]
        /\ UNCHANGED ForwardingRunFlag
  /\ UNCHANGED <<Expect, main, timerVars, reportVars>>

\* The exit command is through before the main loop goes on.
Busy == raise[Exit] \in {"loaded", "retry"}
-----------------------------------------------------------------------------
(* forward_epics_to_kafka.                                                 *)

\* The timers and the metrics reporter start.
Begin ==
  /\ main = "start"
  /\ main' = "topic"
  /\ Running' = [t \in TimerNames |-> t \in timers]
  /\ wait' = [t \in TimerNames |-> IF t \in timers THEN "armed" ELSE "none"]
  /\ timer' = [t \in TimerNames |-> IF t \in timers THEN "run" ELSE "none"]
  /\ report' = [report EXCEPT !["metrics"] = "armed"]
  /\ UNCHANGED <<flagVars, timers, joined, late, IOStopped, StatusTopic>>

\* The status topic, if one is configured, and the status reporter.
OpenStatus ==
  /\ main = "topic"
  /\ report' = [report EXCEPT !["status"] = "armed"]
  /\ main' = "loop"
  /\ UNCHANGED <<flagVars, timerVars, IOStopped, StatusTopic>>

\* The topic cannot be created: the exception leaves the function, which
\* stops only what its locals own, the metrics reporter.
FailStatus ==
  /\ main = "topic" /\ StatusTopic
  /\ main' = "unwind"
  /\ UNCHANGED <<flagVars, timerVars, reportVars>>

\* Mutant: only the exit command is looked for.
LeaveLoop_OnlyStop ==
  /\ main = "loop" /\ ~ Busy /\ "STOP" \in ForwardingRunFlag
  /\ main' = "stop_timers"
  /\ UNCHANGED <<flagVars, timerVars, reportVars>>

LeaveLoop ==
  /\ main = "loop" /\ ~ Busy /\ ForwardingRunFlag # {}
  /\ main' = "stop_timers"
  /\ UNCHANGED <<flagVars, timerVars, reportVars>>

\* The timer to be stopped next: the one for real updates first.
Stopping == IF "PVUpdateTimer" \in timers \ joined
              THEN "PVUpdateTimer" ELSE "GenerateFakePVUpdateTimer"

\* Timer::waitForStop: reset Running, cancel, join.
ResetRunning ==
  /\ main = "stop_timers" /\ timers \ joined # {}
  /\ Running' = [Running EXCEPT ![Stopping] = FALSE]
  /\ main' = "cancel"
  /\ UNCHANGED <<flagVars, timers, joined, wait, timer, late, reportVars>>

CancelTimer ==
  /\ main = "cancel"
  /\ wait' = [wait EXCEPT ![Stopping] = IF @ = "armed" THEN "due" ELSE @]
  /\ main' = "join_timer"
  /\ UNCHANGED <<flagVars, timers, joined, Running, timer, late, reportVars>>

JoinTimer ==
  /\ main = "join_timer" /\ timer[Stopping] = "exit"
  /\ joined' = joined \cup {Stopping}
  /\ main' = "stop_timers"
  /\ UNCHANGED <<flagVars, timers, Running, wait, timer, late, reportVars>>

\* Mutant: only the first timer is waited for.
TimersStopped_First ==
  /\ main = "stop_timers" /\ (joined # {} \/ timers = {})
  /\ main' = "stop_status"
  /\ UNCHANGED <<flagVars, timerVars, reportVars>>

TimersStopped ==
  /\ main = "stop_timers" /\ timers \ joined = {}
  /\ main' = "stop_status"
  /\ UNCHANGED <<flagVars, timerVars, reportVars>>

\* ~StatusReporter, then ~MetricsReporter: stop the loop and join.
StopReporter(r, from, to) ==
  /\ main = from
  /\ IOStopped' = IOStopped \cup {r}
  /\ main' = to
  /\ UNCHANGED <<flagVars, timerVars, report, StatusTopic>>

JoinReporter(r, from, to) ==
  /\ main = from /\ report[r] = "exit"
  /\ main' = to
  /\ UNCHANGED <<flagVars, timerVars, reportVars>>

\* ~Forwarder, after the return or in main() after the exception: a Timer
\* whose thread has not been joined calls std::terminate.
DestroyForwarder ==
  /\ main \in {"returned", "unwound"}
  /\ main' = IF timers \ joined = {} THEN "gone" ELSE "terminated"
  /\ UNCHANGED <<flagVars, timerVars, reportVars>>
-----------------------------------------------------------------------------
(* The timer threads and the reporter threads.                             *)

Expire(t) ==
  /\ wait[t] = "armed"
  /\ wait' = [wait EXCEPT ![t] = "due"]
  /\ UNCHANGED <<flagVars, main, timers, joined, Running, timer, late, reportVars>>

\* Mutant: Running is not looked at.
Fire_IgnoresRunning(t) ==
  /\ timer[t] = "run" /\ wait[t] = "due"
  /\ wait' = [wait EXCEPT ![t] = "none"]
  /\ timer' = [timer EXCEPT ![t] = "callbacks"]
  /\ UNCHANGED <<flagVars, main, timers, joined, Running, late, reportVars>>

\* executeCallbacks up to the callbacks; without a new wait run() returns.
Fire(t) ==
  /\ timer[t] = "run" /\ wait[t] = "due"
  /\ wait' = [wait EXCEPT ![t] = "none"]
  /\ timer' = [timer EXCEPT ![t] = IF Running[t] THEN "callbacks" ELSE "exit"]
  /\ UNCHANGED <<flagVars, main, timers, joined, Running, late, reportVars>>

\* The callbacks run, under CallbacksMutex.
Callbacks(t) ==
  /\ timer[t] = "callbacks"
  /\ late' = [late EXCEPT ![t] = IF Running[t] THEN @ ELSE @ + 1]
  /\ timer' = [timer EXCEPT ![t] = "rearm"]
  /\ UNCHANGED <<flagVars, main, timers, joined, Running, wait, reportVars>>

\* expires_at and async_wait.
Rearm(t) ==
  /\ timer[t] = "rearm"
  /\ wait' = [wait EXCEPT ![t] = "armed"]
  /\ timer' = [timer EXCEPT ![t] = "run"]
  /\ UNCHANGED <<flagVars, main, timers, joined, Running, late, reportVars>>

BeginReport(r) ==
  /\ report[r] = "armed" /\ r \notin IOStopped
  /\ report' = [report EXCEPT ![r] = "report"]
  /\ UNCHANGED <<flagVars, main, timerVars, IOStopped, StatusTopic>>

\* Mutant: the report does not arm the timer again.
ReportDone_NotRearmed(r) ==
  /\ report[r] = "report"
  /\ report' = [report EXCEPT ![r] = "exit"]
  /\ UNCHANGED <<flagVars, main, timerVars, IOStopped, StatusTopic>>

\* reportStatus returns without a new wait if there is no status topic.
ReportDone(r) ==
  /\ report[r] = "report"
  /\ report' = [report EXCEPT ![r] =
                  IF r = "status" /\ ~ StatusTopic THEN "exit" ELSE "armed"]
  /\ UNCHANGED <<flagVars, main, timerVars, IOStopped, StatusTopic>>

\* run() returns after stop().
ReporterExit(r) ==
  /\ report[r] = "armed" /\ r \in IOStopped
  /\ report' = [report EXCEPT ![r] = "exit"]
  /\ UNCHANGED <<flagVars, main, timerVars, IOStopped, StatusTopic>>
-----------------------------------------------------------------------------
MainThread ==
  \/ Begin \/ OpenStatus \/ FailStatus
  \/ LeaveLoop \/ ResetRunning \/ CancelTimer \/ JoinTimer \/ TimersStopped
  \/ StopReporter("status", "stop_status", "join_status")
  \/ JoinReporter("status", "join_status", "stop_metrics")
  \/ StopReporter("metrics", "stop_metrics", "join_metrics")
  \/ JoinReporter("metrics", "join_metrics", "returned")
  \/ StopReporter("metrics", "unwind", "unwind_metrics")
  \/ JoinReporter("metrics", "unwind_metrics", "unwound")
  \/ DestroyForwarder
TimerThread(t) == Fire(t) \/ Callbacks(t) \/ Rearm(t)
Reporter(r) == BeginReport(r) \/ ReportDone(r) \/ ReporterExit(r)
Raise(r) == LoadFlag(r) \/ CompareExchange(r)
Ended == main \in {"gone", "terminated"}

ControlNext ==
  \/ /\ ~ Ended
     /\ \/ MainThread
        \/ \E t \in TimerNames : TimerThread(t) \/ Expire(t)
        \/ \E r \in Reporters : Reporter(r)
        \/ \E r \in Raisers : Raise(r)
  \/ Ended /\ UNCHANGED controlVars

ControlSpec == ControlInit /\ [][ControlNext]_controlVars

\* Threads keep running and timers expire; a raiser that has begun goes on,
\* and compare_exchange_weak does not fail for ever without a reason.
\* Whether a signal or an exit command comes is open.
ControlFairness ==
  /\ WF_controlVars(~ Ended /\ MainThread)
  /\ \A t \in TimerNames :
       WF_controlVars(~ Ended /\ TimerThread(t)) /\ WF_controlVars(~ Ended /\ Expire(t))
  /\ \A r \in Reporters : WF_controlVars(~ Ended /\ Reporter(r))
  /\ \A r \in Raisers :
       /\ WF_controlVars(~ Ended /\ raise[r] # "ready" /\ Raise(r))
       /\ SF_controlVars(~ Ended /\ CompareExchange(r) /\ raise'[r] = "done")
-----------------------------------------------------------------------------
\* No stop reason is lost: whoever raised a flag finds it raised from then
\* on, also when a signal comes while the exit command is being handled.
ReasonsKept ==
  \A r \in Raisers : raise[r] = "done" => Reason(r) \in ForwardingRunFlag

\* After waitForStop has begun, the callbacks (which put updates into the
\* queues of streams already cleared) run at most once more, even if the
\* cancel comes between the callbacks and the new wait.
OneLateRound == \A t \in TimerNames : late[t] <= 1

\* Every thread has ended before the object it belongs to is destroyed, so
\* that the process does not end in std::terminate: neither after a stop nor
\* after a start that failed while no timer was running.
EndsCleanly ==
  /\ main = "gone" =>
       /\ \A t \in TimerNames : timer[t] \in {"none", "exit"}
       /\ \A r \in Reporters : report[r] \in {"none", "exit"}
  /\ main = "terminated" => report["status"] = "none" /\ timers # {}

\* Any stop reason ends forward_epics_to_kafka: the timers and both
\* reporters are joined and the Forwarder is destroyed. So does a failed
\* start.
ExitReturns ==
  /\ (main = "loop" /\ ForwardingRunFlag # {}) ~> (main = "gone")
  /\ (main = "unwind") ~> Ended

\* With a status topic, the status of the streams is checked again and again
\* as long as the main loop runs.
StatusRecurs ==
  StatusTopic => []<>(report["status"] = "report" \/ main # "loop")
=============================================================================
