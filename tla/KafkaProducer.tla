---------------------------- MODULE KafkaProducer ----------------------------
(***************************************************************************)
(* Handing messages to librdkafka: KafkaOutput::emit, ProducerTopic and    *)
(* Producer, with the delivery callback that frees a message, the polling  *)
(* of the main loop (InstanceSet::poll) and the wait in ~Producer.         *)
(*                                                                         *)
(* Senders are the threads that produce (conversion workers, the status    *)
(* thread, EPICS callbacks); every produce polls first, so a delivery      *)
(* callback runs in any of them. librdkafka itself is external: it accepts *)
(* or refuses a message, at some time has a delivery report for it, and    *)
(* hands out all waiting reports to the thread that polls.                 *)
(***************************************************************************)
EXTENDS Integers, FiniteSets

CONSTANTS
  Senders,    \* threads that call ProducerTopic::produce
  Main,       \* the thread that calls InstanceSet::poll and ~Producer
  Messages,   \* ProducerMessage objects
  None,       \* no message
  QueueMax,   \* queue.buffering.max.messages: 100000, a small bound here
  MaxPolls    \* NumberOfIterations in ~Producer: 80, a small bound here

Threads == Senders \cup {Main}
Counters == {"produced", "local_queue_full", "msg_too_large", "produce_fail",
             "produce_cb", "produce_cb_fail"}

ASSUME ProducerAssumption ==
  /\ Main \notin Senders /\ None \notin Messages
  /\ QueueMax \in Nat \ {0} /\ MaxPolls \in Nat
  /\ IsFiniteSet(Messages) /\ IsFiniteSet(Senders)

VARIABLES
  pc,       \* where each thread is
  held,     \* the unique_ptr<ProducerMessage> of each sender
  result,   \* what RdKafka::Producer::produce returned to each sender
  queued,   \* librdkafka: accepted, no delivery report yet
  reports,  \* librdkafka: delivery report waits for a poll
  batch,    \* librdkafka: reports a poll call has taken and not yet served
  frees,    \* how often each message was deleted
  Stats,    \* ProducerStats
  polls,    \* iterations of the loop in ~Producer
  phase     \* "run", "destroy" (inside ~Producer), "destroyed"

producerVars == <<pc, held, result, queued, reports, batch, frees, Stats, polls, phase>>

\* outq_len(): messages whose delivery callback has not finished.
InFlight == queued \cup reports \cup UNION {batch[t] : t \in Threads}
Free(m) == frees' = [frees EXCEPT ![m] = @ + 1]
Count(c) == Stats' = [Stats EXCEPT ![c] = @ + 1]
Fresh(m) == m \notin InFlight /\ frees[m] = 0 /\ \A t \in Senders : held[t] # m

ProducerNew ==
  /\ pc = [t \in Threads |-> "idle"]
  /\ held = [t \in Senders |-> None]
  /\ result = [t \in Senders |-> "none"]
  /\ queued = {} /\ reports = {}
  /\ batch = [t \in Threads |-> {}]
  /\ frees = [m \in Messages |-> 0]
  /\ Stats = [c \in Counters |-> 0]
  /\ polls = 0
ProducerInit == ProducerNew /\ phase = "run"
-----------------------------------------------------------------------------
\* KafkaOutput::emit takes over the converted message and calls produce.
Emit(t, m) ==
  /\ phase = "run" /\ pc[t] = "idle" /\ Fresh(m)
  /\ held' = [held EXCEPT ![t] = m]
  /\ pc' = [pc EXCEPT ![t] = "poll"]
  /\ UNCHANGED <<result, queued, reports, batch, frees, Stats, polls, phase>>

\* RdKafka poll: takes all reports that are waiting.
TakeReports(t) ==
  /\ batch' = [batch EXCEPT ![t] = reports]
  /\ reports' = {}
  /\ pc' = [pc EXCEPT ![t] = "serve"]

\* The non-blocking poll at the start of Producer::produce.
PollFirst(t) ==
  /\ pc[t] = "poll"
  /\ TakeReports(t)
  /\ UNCHANGED <<held, result, queued, frees, Stats, polls, phase>>

\* Mutant: failed deliveries are not freed.
DeliveryCallback_LeaksFailed(t, m, ok) ==
  /\ pc[t] = "serve" /\ m \in batch[t]
  /\ batch' = [batch EXCEPT ![t] = @ \ {m}]
  /\ Count(IF ok THEN "produce_cb" ELSE "produce_cb_fail")
  /\ IF ok THEN Free(m) ELSE UNCHANGED frees
  /\ UNCHANGED <<pc, held, result, queued, reports, polls, phase>>

\* ProducerDeliveryCb::dr_cb, in whichever thread polls.
DeliveryCallback(t, m, ok) ==
  /\ pc[t] = "serve" /\ m \in batch[t]
  /\ batch' = [batch EXCEPT ![t] = @ \ {m}]
  /\ Count(IF ok THEN "produce_cb" ELSE "produce_cb_fail")
  /\ Free(m)
  /\ UNCHANGED <<pc, held, result, queued, reports, polls, phase>>

\* The poll returns.
PollDone(t) ==
  /\ pc[t] = "serve" /\ batch[t] = {}
  /\ pc' = [pc EXCEPT ![t] = IF t = Main THEN "idle" ELSE "enqueue"]
  /\ UNCHANGED <<held, result, queued, reports, batch, frees, Stats, polls, phase>>

\* RdKafka::Producer::produce: from the moment of acceptance the delivery
\* report can come.
Enqueue(t) ==
  /\ pc[t] = "enqueue"
  /\ \/ /\ Cardinality(InFlight) < QueueMax
        /\ result' = [result EXCEPT ![t] = "ok"]
        /\ queued' = queued \cup {held[t]}
     \/ /\ Cardinality(InFlight) >= QueueMax
        /\ result' = [result EXCEPT ![t] = "full"]
        /\ UNCHANGED queued
     \/ /\ \E r \in {"too_large", "error"} : result' = [result EXCEPT ![t] = r]
        /\ UNCHANGED queued
  /\ pc' = [pc EXCEPT ![t] = "result"]
  /\ UNCHANGED <<held, reports, batch, frees, Stats, polls, phase>>

\* The message is no longer the caller's; r says which counter to raise.
Returned(t, r) ==
  /\ pc[t] = "result"
  /\ Count(CASE r = "ok" -> "produced"
             [] r = "full" -> "local_queue_full"
             [] r = "too_large" -> "msg_too_large"
             [] OTHER -> "produce_fail")
  /\ held' = [held EXCEPT ![t] = None]
  /\ result' = [result EXCEPT ![t] = "none"]
  /\ pc' = [pc EXCEPT ![t] = "idle"]
  /\ UNCHANGED <<queued, reports, batch, polls, phase>>

\* Mutants: Msg.release() is forgotten; an accepted message is not counted
\* when the queue is full by then.
Account_NoRelease(t) == Returned(t, result[t]) /\ Free(held[t])
Account_WrongCounter(t) ==
  /\ Returned(t, IF Cardinality(InFlight) < QueueMax THEN result[t] ELSE "full")
  /\ IF result[t] = "ok" THEN UNCHANGED frees ELSE Free(held[t])

\* The rest of ProducerTopic::produce: counts the result, reads Msg->Size
\* when it was accepted, and then releases the unique_ptr; otherwise the
\* unique_ptr frees the message.
Account(t) ==
  /\ Returned(t, result[t])
  /\ IF result[t] = "ok" THEN UNCHANGED frees ELSE Free(held[t])

\* librdkafka: the broker acknowledged the message, or it failed.
Report(m) ==
  /\ m \in queued /\ phase # "destroyed"
  /\ queued' = queued \ {m}
  /\ reports' = reports \cup {m}
  /\ UNCHANGED <<pc, held, result, batch, frees, Stats, polls, phase>>

\* InstanceSet::poll -> Producer::poll, in the main loop.
MainPoll ==
  /\ phase = "run" /\ pc[Main] = "idle"
  /\ TakeReports(Main)
  /\ UNCHANGED <<held, result, queued, frees, Stats, polls, phase>>

\* The last reference to the Producer goes; the senders are gone by then.
BeginDestroy ==
  /\ phase = "run" /\ \A t \in Threads : pc[t] = "idle"
  /\ phase' = "destroy"
  /\ UNCHANGED <<pc, held, result, queued, reports, batch, frees, Stats, polls>>

\* Mutant: the number of iterations is not limited.
DestroyPoll_Unbounded ==
  /\ phase = "destroy" /\ pc[Main] = "idle"
  /\ InFlight # {}
  /\ polls' = polls + 1
  /\ TakeReports(Main)
  /\ UNCHANGED <<held, result, queued, frees, Stats, phase>>

\* Mutant: the iterations are not counted.
DestroyPoll_Uncounted ==
  /\ phase = "destroy" /\ pc[Main] = "idle"
  /\ polls < MaxPolls /\ InFlight # {}
  /\ TakeReports(Main)
  /\ UNCHANGED <<held, result, queued, frees, Stats, polls, phase>>

\* One iteration of the loop in ~Producer.
DestroyPoll ==
  /\ phase = "destroy" /\ pc[Main] = "idle"
  /\ polls < MaxPolls /\ InFlight # {}
  /\ polls' = polls + 1
  /\ TakeReports(Main)
  /\ UNCHANGED <<held, result, queued, frees, Stats, phase>>

\* ~Producer leaves its loop; what is still in flight is never freed.
EndDestroy ==
  /\ phase = "destroy" /\ pc[Main] = "idle"
  /\ InFlight = {} \/ polls = MaxPolls
  /\ phase' = "destroyed"
  /\ UNCHANGED <<pc, held, result, queued, reports, batch, frees, Stats, polls>>

Done == phase = "destroyed" /\ UNCHANGED producerVars

Poll(t) ==
  \/ \E m \in Messages, ok \in BOOLEAN : DeliveryCallback(t, m, ok)
  \/ PollDone(t)
Produce(t) == PollFirst(t) \/ Enqueue(t) \/ Account(t)

ProducerNext ==
  \/ \E t \in Senders, m \in Messages : Emit(t, m)
  \/ \E t \in Senders : Produce(t)
  \/ \E t \in Threads : Poll(t)
  \/ \E m \in Messages : Report(m)
  \/ MainPoll \/ BeginDestroy \/ DestroyPoll \/ EndDestroy \/ Done

ProducerSpec == ProducerInit /\ [][ProducerNext]_producerVars

\* Threads keep running and the main loop keeps polling. Whether librdkafka
\* ever has a delivery report is open.
ProducerFairness ==
  /\ \A t \in Senders : WF_producerVars(Produce(t))
  /\ \A t \in Threads : WF_producerVars(Poll(t))
  /\ WF_producerVars(MainPoll)
  /\ WF_producerVars(DestroyPoll) /\ WF_producerVars(EndDestroy)
-----------------------------------------------------------------------------
\* Types of the producer's state and counters.
TypeOK ==
  /\ pc \in [Threads -> {"idle", "poll", "serve", "enqueue", "result"}]
  /\ held \in [Senders -> Messages \cup {None}]
  /\ result \in [Senders -> {"none", "ok", "full", "too_large", "error"}]
  /\ queued \subseteq Messages /\ reports \subseteq Messages
  /\ batch \in [Threads -> SUBSET Messages]
  /\ frees \in [Messages -> Nat]
  /\ Stats \in [Counters -> Nat]
  /\ polls \in 0..MaxPolls
  /\ phase \in {"run", "destroy", "destroyed"}

\* Whose message it is: a message is deleted at most once, by the delivery
\* callback or by the unique_ptr of produce, and never while librdkafka
\* still refers to it.
FreedOnce ==
  \A m \in Messages : frees[m] <= 1 /\ (m \in InFlight => frees[m] = 0)

Accepted == {t \in Senders : pc[t] = "result" /\ result[t] = "ok"}

\* The producer statistics add up at every moment: every accepted message
\* is counted as produced (or about to be) and is either in flight or
\* counted by a delivery callback.
StatsAddUp ==
  Stats["produced"] + Cardinality(Accepted)
    = Stats["produce_cb"] + Stats["produce_cb_fail"] + Cardinality(InFlight)

\* ~Producer returns, although delivery reports may never come, and it
\* leaves messages behind only after its last poll.
DestroyReturns ==
  (phase = "destroy") ~> (phase = "destroyed" /\ (InFlight = {} \/ polls = MaxPolls))

\* No leak: a message that produce was called with is freed in the end, if
\* librdkafka has a delivery report for it in the end (message.timeout.ms),
\* unless ~Producer gives it up.
AllFreed ==
  \A m \in Messages :
    []<>(m \notin queued) =>
      ((\E t \in Senders : held[t] = m) ~> (frees[m] > 0 \/ phase = "destroyed"))

\* A message is alive as long as ProducerTopic::produce uses it.
AliveWhileUsed == \A t \in Accepted : frees[held[t]] = 0
=============================================================================
