-------------------------- MODULE RunControlProofs --------------------------
(* Proofs about stopping the program, for any number of signals and any     *)
(* choice of timers.                                                        *)
EXTENDS RunControl, TLAPS

USE ControlAssumption DEF controlVars, flagVars, timerVars, reportVars, TimerNames, Reporters, Raisers

\* The functions of the state keep their domains; a flag is a set of reasons.
Shape ==
  /\ raise \in [Raisers -> {"ready", "loaded", "retry", "done"}]
  /\ Expect \in [Raisers -> SUBSET {"STOP", "STOP_DUE_TO_SIGNAL"}]
  /\ ForwardingRunFlag \subseteq {"STOP", "STOP_DUE_TO_SIGNAL"}
  /\ timers \subseteq TimerNames /\ joined \subseteq TimerNames
  /\ Running \in [TimerNames -> BOOLEAN]
  /\ timer \in [TimerNames -> {"none", "run", "callbacks", "rearm", "exit"}]
  /\ late \in [TimerNames -> Nat]
  /\ report \in [Reporters -> {"none", "armed", "report", "exit"}]
  /\ StatusTopic \in BOOLEAN

\* A timer thread enters the callbacks only while Running is set, so it has
\* not been late yet when it is inside them.
LateInv ==
  /\ main = "start" => \A t \in TimerNames : late[t] = 0
  /\ \A t \in TimerNames : Running[t] \/ timer[t] = "callbacks" => late[t] = 0
  /\ OneLateRound

\* Which threads have ended at which point of forward_epics_to_kafka.
EndInv ==
  /\ \A t \in TimerNames : t \notin timers => timer[t] = "none"
  /\ \A t \in joined : timer[t] = "exit"
  /\ main = "start" => joined = {} /\ \A t \in TimerNames : timer[t] = "none"
  /\ main \in {"stop_status", "join_status", "stop_metrics", "join_metrics", "returned"}
       => timers \subseteq joined
  /\ main \in {"start", "topic", "unwind", "unwind_metrics", "unwound", "terminated"}
       => report["status"] = "none"
  /\ main \in {"stop_metrics", "join_metrics", "returned"} => report["status"] = "exit"
  /\ main \in {"returned", "unwound"} => report["metrics"] = "exit"
  /\ EndsCleanly

ControlInv == Shape /\ ReasonsKept /\ LateInv /\ EndInv

\* The invariant holds before the Forwarder is started.
LEMMA InitControl == ControlInit => ControlInv
BY DEF ControlInit, ControlNew, ControlInv, Shape, ReasonsKept, LateInv, OneLateRound, EndInv, EndsCleanly

\* Every step keeps the inductive invariant. A raised flag only grows, since
\* compare_exchange fails when the flag has changed since it was read.
LEMMA NextControl == ControlInv /\ [ControlNext]_controlVars => ControlInv'
<1> SUFFICES ASSUME ControlInv, [ControlNext]_controlVars PROVE ControlInv'
  OBVIOUS
<1>0. Shape /\ ReasonsKept /\ LateInv /\ EndInv
  BY DEF ControlInv
<1>1. ASSUME NEW r \in Raisers, LoadFlag(r) PROVE ControlInv'
  <2>1. Shape'
    BY <1>0, <1>1 DEF LoadFlag, Shape
  <2>2. ReasonsKept'
    BY <1>0, <1>1 DEF LoadFlag, Shape, ReasonsKept, Reason
  <2>3. LateInv'
    BY <1>0, <1>1 DEF LoadFlag, Shape, LateInv, OneLateRound
  <2>4. EndInv'
    BY <1>0, <1>1 DEF LoadFlag, Shape, EndInv, EndsCleanly
  <2> QED BY <2>1, <2>2, <2>3, <2>4 DEF ControlInv
<1>2. ASSUME NEW r \in Raisers, CompareExchange(r) PROVE ControlInv'
  <2>1. Shape'
    BY <1>0, <1>2 DEF CompareExchange, Reason, Shape
  <2>2. ReasonsKept'
    BY <1>0, <1>2 DEF CompareExchange, Reason, Shape, ReasonsKept
  <2>3. LateInv'
    BY <1>0, <1>2 DEF CompareExchange, Reason, Shape, LateInv, OneLateRound
  <2>4. EndInv'
    BY <1>0, <1>2 DEF CompareExchange, Reason, Shape, EndInv, EndsCleanly
  <2> QED BY <2>1, <2>2, <2>3, <2>4 DEF ControlInv
<1>3. ASSUME Begin PROVE ControlInv'
  <2>1. Shape'
    BY <1>0, <1>3 DEF Begin, Shape
  <2>2. ReasonsKept'
    BY <1>0, <1>3 DEF Begin, Shape, ReasonsKept, Reason
  <2>3. LateInv'
    BY <1>0, <1>3 DEF Begin, Shape, LateInv, OneLateRound
  <2>4. EndInv'
    BY <1>0, <1>3 DEF Begin, Shape, EndInv, EndsCleanly
  <2> QED BY <2>1, <2>2, <2>3, <2>4 DEF ControlInv
<1>4. ASSUME OpenStatus PROVE ControlInv'
  <2>1. Shape'
    BY <1>0, <1>4 DEF OpenStatus, Shape
  <2>2. ReasonsKept'
    BY <1>0, <1>4 DEF OpenStatus, Shape, ReasonsKept, Reason
  <2>3. LateInv'
    BY <1>0, <1>4 DEF OpenStatus, Shape, LateInv, OneLateRound
  <2>4. EndInv'
    BY <1>0, <1>4 DEF OpenStatus, Shape, EndInv, EndsCleanly
  <2> QED BY <2>1, <2>2, <2>3, <2>4 DEF ControlInv
<1>5. ASSUME FailStatus PROVE ControlInv'
  <2>1. Shape'
    BY <1>0, <1>5 DEF FailStatus, Shape
  <2>2. ReasonsKept'
    BY <1>0, <1>5 DEF FailStatus, Shape, ReasonsKept, Reason
  <2>3. LateInv'
    BY <1>0, <1>5 DEF FailStatus, Shape, LateInv, OneLateRound
  <2>4. EndInv'
    BY <1>0, <1>5 DEF FailStatus, Shape, EndInv, EndsCleanly
  <2> QED BY <2>1, <2>2, <2>3, <2>4 DEF ControlInv
<1>6. ASSUME LeaveLoop PROVE ControlInv'
  <2>1. Shape'
    BY <1>0, <1>6 DEF LeaveLoop, Shape
  <2>2. ReasonsKept'
    BY <1>0, <1>6 DEF LeaveLoop, Shape, ReasonsKept, Reason
  <2>3. LateInv'
    BY <1>0, <1>6 DEF LeaveLoop, Shape, LateInv, OneLateRound
  <2>4. EndInv'
    BY <1>0, <1>6 DEF LeaveLoop, Shape, EndInv, EndsCleanly
  <2> QED BY <2>1, <2>2, <2>3, <2>4 DEF ControlInv
<1>7. ASSUME ResetRunning PROVE ControlInv'
  <2>1. Shape'
    BY <1>0, <1>7 DEF ResetRunning, Stopping, Shape
  <2>2. ReasonsKept'
    BY <1>0, <1>7 DEF ResetRunning, Stopping, Shape, ReasonsKept, Reason
  <2>3. LateInv'
    BY <1>0, <1>7 DEF ResetRunning, Stopping, Shape, LateInv, OneLateRound
  <2>4. EndInv'
    BY <1>0, <1>7 DEF ResetRunning, Stopping, Shape, EndInv, EndsCleanly
  <2> QED BY <2>1, <2>2, <2>3, <2>4 DEF ControlInv
<1>8. ASSUME CancelTimer PROVE ControlInv'
  <2>1. Shape'
    BY <1>0, <1>8 DEF CancelTimer, Shape
  <2>2. ReasonsKept'
    BY <1>0, <1>8 DEF CancelTimer, Shape, ReasonsKept, Reason
  <2>3. LateInv'
    BY <1>0, <1>8 DEF CancelTimer, Shape, LateInv, OneLateRound
  <2>4. EndInv'
    BY <1>0, <1>8 DEF CancelTimer, Shape, EndInv, EndsCleanly
  <2> QED BY <2>1, <2>2, <2>3, <2>4 DEF ControlInv
<1>9. ASSUME JoinTimer PROVE ControlInv'
  <2>1. Shape'
    BY <1>0, <1>9 DEF JoinTimer, Stopping, Shape
  <2>2. ReasonsKept'
    BY <1>0, <1>9 DEF JoinTimer, Stopping, Shape, ReasonsKept, Reason
  <2>3. LateInv'
    BY <1>0, <1>9 DEF JoinTimer, Stopping, Shape, LateInv, OneLateRound
  <2>4. EndInv'
    BY <1>0, <1>9 DEF JoinTimer, Stopping, Shape, EndInv, EndsCleanly
  <2> QED BY <2>1, <2>2, <2>3, <2>4 DEF ControlInv
<1>10. ASSUME TimersStopped PROVE ControlInv'
  <2>1. Shape'
    BY <1>0, <1>10 DEF TimersStopped, Shape
  <2>2. ReasonsKept'
    BY <1>0, <1>10 DEF TimersStopped, Shape, ReasonsKept, Reason
  <2>3. LateInv'
    BY <1>0, <1>10 DEF TimersStopped, Shape, LateInv, OneLateRound
  <2>4. EndInv'
    BY <1>0, <1>10 DEF TimersStopped, Shape, EndInv, EndsCleanly
  <2> QED BY <2>1, <2>2, <2>3, <2>4 DEF ControlInv
<1>11. ASSUME \/ StopReporter("status", "stop_status", "join_status")
             \/ StopReporter("metrics", "stop_metrics", "join_metrics")
             \/ StopReporter("metrics", "unwind", "unwind_metrics") PROVE ControlInv'
  <2>1. Shape'
    BY <1>0, <1>11 DEF StopReporter, Shape
  <2>2. ReasonsKept'
    BY <1>0, <1>11 DEF StopReporter, Shape, ReasonsKept, Reason
  <2>3. LateInv'
    BY <1>0, <1>11 DEF StopReporter, Shape, LateInv, OneLateRound
  <2>4. EndInv'
    BY <1>0, <1>11 DEF StopReporter, Shape, EndInv, EndsCleanly
  <2> QED BY <2>1, <2>2, <2>3, <2>4 DEF ControlInv
<1>12. ASSUME \/ JoinReporter("status", "join_status", "stop_metrics")
             \/ JoinReporter("metrics", "join_metrics", "returned")
             \/ JoinReporter("metrics", "unwind_metrics", "unwound") PROVE ControlInv'
  <2>1. Shape'
    BY <1>0, <1>12 DEF JoinReporter, Shape
  <2>2. ReasonsKept'
    BY <1>0, <1>12 DEF JoinReporter, Shape, ReasonsKept, Reason
  <2>3. LateInv'
    BY <1>0, <1>12 DEF JoinReporter, Shape, LateInv, OneLateRound
  <2>4. EndInv'
    BY <1>0, <1>12 DEF JoinReporter, Shape, EndInv, EndsCleanly
  <2> QED BY <2>1, <2>2, <2>3, <2>4 DEF ControlInv
<1>13. ASSUME DestroyForwarder PROVE ControlInv'
  <2>1. Shape'
    BY <1>0, <1>13 DEF DestroyForwarder, Shape
  <2>2. ReasonsKept'
    BY <1>0, <1>13 DEF DestroyForwarder, Shape, ReasonsKept, Reason
  <2>3. LateInv'
    BY <1>0, <1>13 DEF DestroyForwarder, Shape, LateInv, OneLateRound
  <2>4. EndInv'
    BY <1>0, <1>13 DEF DestroyForwarder, Shape, EndInv, EndsCleanly
  <2> QED BY <2>1, <2>2, <2>3, <2>4 DEF ControlInv
<1>14. ASSUME NEW t \in TimerNames, Expire(t) PROVE ControlInv'
  <2>1. Shape'
    BY <1>0, <1>14 DEF Expire, Shape
  <2>2. ReasonsKept'
    BY <1>0, <1>14 DEF Expire, Shape, ReasonsKept, Reason
  <2>3. LateInv'
    BY <1>0, <1>14 DEF Expire, Shape, LateInv, OneLateRound
  <2>4. EndInv'
    BY <1>0, <1>14 DEF Expire, Shape, EndInv, EndsCleanly
  <2> QED BY <2>1, <2>2, <2>3, <2>4 DEF ControlInv
<1>15. ASSUME NEW t \in TimerNames, Fire(t) PROVE ControlInv'
  <2>1. Shape'
    BY <1>0, <1>15 DEF Fire, Shape
  <2>2. ReasonsKept'
    BY <1>0, <1>15 DEF Fire, Shape, ReasonsKept, Reason
  <2>3. LateInv'
    BY <1>0, <1>15 DEF Fire, Shape, LateInv, OneLateRound
  <2>4. EndInv'
    BY <1>0, <1>15 DEF Fire, Shape, EndInv, EndsCleanly
  <2> QED BY <2>1, <2>2, <2>3, <2>4 DEF ControlInv
<1>16. ASSUME NEW t \in TimerNames, Callbacks(t) PROVE ControlInv'
  <2>1. Shape'
    BY <1>0, <1>16 DEF Callbacks, Shape
  <2>2. ReasonsKept'
    BY <1>0, <1>16 DEF Callbacks, Shape, ReasonsKept, Reason
  <2>3. LateInv'
    <3>1. late[t] = 0
      BY <1>0, <1>16 DEF Callbacks, LateInv
    <3>2. /\ late' = [late EXCEPT ![t] = IF Running[t] THEN 0 ELSE 1]
          /\ timer' = [timer EXCEPT ![t] = "rearm"]
          /\ UNCHANGED <<main, Running>>
      BY <1>16, <3>1 DEF Callbacks
    <3>3. main # "start"
      BY <1>0, <1>16 DEF Callbacks, EndInv
    <3> QED BY <1>0, <3>1, <3>2, <3>3 DEF Shape, LateInv, OneLateRound
  <2>4. EndInv'
    BY <1>0, <1>16 DEF Callbacks, Shape, EndInv, EndsCleanly
  <2> QED BY <2>1, <2>2, <2>3, <2>4 DEF ControlInv
<1>17. ASSUME NEW t \in TimerNames, Rearm(t) PROVE ControlInv'
  <2>1. Shape'
    BY <1>0, <1>17 DEF Rearm, Shape
  <2>2. ReasonsKept'
    BY <1>0, <1>17 DEF Rearm, Shape, ReasonsKept, Reason
  <2>3. LateInv'
    BY <1>0, <1>17 DEF Rearm, Shape, LateInv, OneLateRound
  <2>4. EndInv'
    BY <1>0, <1>17 DEF Rearm, Shape, EndInv, EndsCleanly
  <2> QED BY <2>1, <2>2, <2>3, <2>4 DEF ControlInv
<1>18. ASSUME NEW r \in Reporters, BeginReport(r) PROVE ControlInv'
  <2>1. Shape'
    BY <1>0, <1>18 DEF BeginReport, Shape
  <2>2. ReasonsKept'
    BY <1>0, <1>18 DEF BeginReport, Shape, ReasonsKept, Reason
  <2>3. LateInv'
    BY <1>0, <1>18 DEF BeginReport, Shape, LateInv, OneLateRound
  <2>4. EndInv'
    BY <1>0, <1>18 DEF BeginReport, Shape, EndInv, EndsCleanly
  <2> QED BY <2>1, <2>2, <2>3, <2>4 DEF ControlInv
<1>19. ASSUME NEW r \in Reporters, ReportDone(r) PROVE ControlInv'
  <2>1. Shape'
    BY <1>0, <1>19 DEF ReportDone, Shape
  <2>2. ReasonsKept'
    BY <1>0, <1>19 DEF ReportDone, Shape, ReasonsKept, Reason
  <2>3. LateInv'
    BY <1>0, <1>19 DEF ReportDone, Shape, LateInv, OneLateRound
  <2>4. EndInv'
    BY <1>0, <1>19 DEF ReportDone, Shape, EndInv, EndsCleanly
  <2> QED BY <2>1, <2>2, <2>3, <2>4 DEF ControlInv
<1>20. ASSUME NEW r \in Reporters, ReporterExit(r) PROVE ControlInv'
  <2>1. Shape'
    BY <1>0, <1>20 DEF ReporterExit, Shape
  <2>2. ReasonsKept'
    BY <1>0, <1>20 DEF ReporterExit, Shape, ReasonsKept, Reason
  <2>3. LateInv'
    BY <1>0, <1>20 DEF ReporterExit, Shape, LateInv, OneLateRound
  <2>4. EndInv'
    BY <1>0, <1>20 DEF ReporterExit, Shape, EndInv, EndsCleanly
  <2> QED BY <2>1, <2>2, <2>3, <2>4 DEF ControlInv
<1>21. ASSUME UNCHANGED controlVars PROVE ControlInv'
  <2>1. Shape'
    BY <1>0, <1>21 DEF Shape
  <2>2. ReasonsKept'
    BY <1>0, <1>21 DEF Shape, ReasonsKept, Reason
  <2>3. LateInv'
    BY <1>0, <1>21 DEF Shape, LateInv, OneLateRound
  <2>4. EndInv'
    BY <1>0, <1>21 DEF Shape, EndInv, EndsCleanly
  <2> QED BY <2>1, <2>2, <2>3, <2>4 DEF ControlInv
<1> QED
  BY <1>1, <1>2, <1>3, <1>4, <1>5, <1>6, <1>7, <1>8, <1>9, <1>10, <1>11, <1>12, <1>13, <1>14, <1>15, <1>16, <1>17, <1>18, <1>19, <1>20, <1>21
  DEF ControlNext, MainThread, TimerThread, Reporter, Raise

\* The inductive invariant of the run control.
THEOREM ControlInvariant == ControlSpec => []ControlInv
BY InitControl, NextControl, PTL DEF ControlSpec

\* No stop reason is lost, for any number of signals that interrupt each
\* other and the exit command between the load and the compare-exchange.
THEOREM StopReasonsKept == ControlSpec => []ReasonsKept
<1>1. ControlInv => ReasonsKept
  BY DEF ControlInv
<1> QED BY <1>1, ControlInvariant, PTL

\* The callbacks of a timer run at most once after waitForStop has begun,
\* wherever the timer thread is when Running is reset.
THEOREM OneLateRoundOnly == ControlSpec => []OneLateRound
<1>1. ControlInv => OneLateRound
  BY DEF ControlInv, LateInv
<1> QED BY <1>1, ControlInvariant, PTL

\* When the Forwarder is destroyed all its threads have ended; std::terminate
\* is met only after a start that failed with timers configured.
THEOREM EndsCleanlyAlways == ControlSpec => []EndsCleanly
<1>1. ControlInv => EndsCleanly
  BY DEF ControlInv, EndInv
<1> QED BY <1>1, ControlInvariant, PTL
=============================================================================
