------------------------- MODULE KafkaProducerProofs -------------------------
(* Proofs about who owns a Kafka message and about the producer statistics, *)
(* for every number of senders and messages, any queue limit and any number *)
(* of polls in ~Producer.                                                   *)
EXTENDS KafkaProducer, FiniteSetTheorems, TLAPS

\* A thread has taken reports only while it serves them; a sender owns a
\* message from the call of produce to its return, and a result only in
\* between.
ThreadInv ==
  /\ pc[Main] \in {"idle", "serve"}
  /\ \A t \in Threads : batch[t] # {} => pc[t] = "serve"
  /\ \A t \in Senders : /\ pc[t] = "idle" <=> held[t] = None
                        /\ pc[t] = "result" <=> result[t] # "none"

\* librdkafka holds a message in one place only.
PlacesInv ==
  /\ queued \cap reports = {}
  /\ \A t \in Threads : batch[t] \cap (queued \cup reports) = {}
  /\ \A t, u \in Threads : t # u => batch[t] \cap batch[u] = {}

\* A message has one owner: the unique_ptr of one sender until librdkafka
\* accepts it, then librdkafka until its delivery callback.
OwnerInv ==
  /\ \A t, u \in Senders : held[t] = held[u] /\ held[t] # None => t = u
  /\ \A t \in Senders : held[t] # None /\ result[t] # "ok" =>
       held[t] \notin InFlight /\ frees[held[t]] = 0
  /\ FreedOnce

OwnInv == TypeOK /\ ThreadInv /\ PlacesInv /\ OwnerInv

USE ProducerAssumption DEF Threads

\* Nobody owns a message at first.
LEMMA InitOwn == ProducerInit => OwnInv
<1> SUFFICES ASSUME ProducerInit PROVE OwnInv
  OBVIOUS
<1>1. TypeOK /\ ThreadInv /\ PlacesInv
  BY DEF ProducerInit, ProducerNew, TypeOK, ThreadInv, PlacesInv
<1>2. InFlight = {}
  BY DEF ProducerInit, ProducerNew, InFlight
<1> QED BY <1>1, <1>2 DEF ProducerInit, ProducerNew, OwnInv, OwnerInv, FreedOnce

\* What is in flight, step by step.
LEMMA FlightIff ==
  ASSUME NEW m
  PROVE  /\ m \in InFlight <=> m \in queued \/ m \in reports \/ \E t \in Threads : m \in batch[t]
         /\ m \in InFlight' <=> m \in queued' \/ m \in reports' \/ \E t \in Threads : m \in batch'[t]
BY DEF InFlight

\* Taking the waiting reports moves them and changes nothing else.
LEMMA TakeSame ==
  ASSUME OwnInv, NEW t \in Threads, pc[t] # "serve", TakeReports(t), queued' = queued
  PROVE  /\ InFlight' = InFlight /\ PlacesInv'
         /\ reports' \subseteq Messages /\ batch' \in [Threads -> SUBSET Messages]
         /\ \A u \in Threads : batch'[u] # {} => pc'[u] = "serve"
<1>0. TypeOK /\ ThreadInv /\ PlacesInv
  BY DEF OwnInv
<1>1. /\ batch[t] = {} /\ reports' = {} /\ batch'[t] = reports
      /\ \A u \in Threads \ {t} : batch'[u] = batch[u] /\ pc'[u] = pc[u]
      /\ pc'[t] = "serve"
      /\ batch' \in [Threads -> SUBSET Messages]
  BY <1>0 DEF TakeReports, TypeOK, ThreadInv
<1>2. \A m : m \in InFlight' <=> m \in InFlight
  BY <1>1, FlightIff
<1>3. PlacesInv'
  BY <1>0, <1>1 DEF PlacesInv
<1>4. \A u \in Threads : batch'[u] # {} => pc'[u] = "serve"
  BY <1>0, <1>1 DEF ThreadInv
<1> QED BY <1>1, <1>2, <1>3, <1>4

\* Every step keeps the types and the ownership of the messages.
LEMMA NextOwn == OwnInv /\ [ProducerNext]_producerVars => OwnInv'
<1> SUFFICES ASSUME OwnInv, [ProducerNext]_producerVars PROVE OwnInv'
  OBVIOUS
<1>0. TypeOK /\ ThreadInv /\ PlacesInv /\ OwnerInv
  BY DEF OwnInv
<1>1. ASSUME NEW t \in Senders, NEW m \in Messages, Emit(t, m) PROVE OwnInv'
  <2>1. TypeOK' /\ ThreadInv'
    BY <1>0, <1>1 DEF Emit, TypeOK, ThreadInv
  <2>2. PlacesInv' /\ InFlight' = InFlight /\ FreedOnce'
    BY <1>0, <1>1 DEF Emit, PlacesInv, InFlight, OwnerInv, FreedOnce
  <2>3. OwnerInv'
    BY <1>0, <1>1, <2>2 DEF Emit, Fresh, OwnerInv, TypeOK
  <2> QED BY <2>1, <2>2, <2>3 DEF OwnInv
<1>2. ASSUME NEW t \in Threads, pc[t] # "serve", TakeReports(t), pc[t] \in {"poll", "idle"},
             pc[t] = "idle" => t = Main, polls' \in 0..MaxPolls,
             UNCHANGED <<held, result, queued, frees, Stats, phase>>
      PROVE  OwnInv'
  <2>1. /\ InFlight' = InFlight /\ PlacesInv'
        /\ reports' \subseteq Messages /\ batch' \in [Threads -> SUBSET Messages]
        /\ \A u \in Threads : batch'[u] # {} => pc'[u] = "serve"
    BY <1>2, TakeSame
  <2>2. pc' = [pc EXCEPT ![t] = "serve"]
    BY <1>2 DEF TakeReports
  <2>3. TypeOK'
    BY <1>0, <1>2, <2>1, <2>2 DEF TypeOK
  <2>4. ThreadInv'
    BY <1>0, <1>2, <2>1, <2>2 DEF ThreadInv, TypeOK
  <2>5. OwnerInv'
    BY <1>0, <1>2, <2>1 DEF OwnerInv, FreedOnce
  <2> QED BY <2>1, <2>3, <2>4, <2>5 DEF OwnInv
<1>3. ASSUME NEW t \in Senders, PollFirst(t) PROVE OwnInv'
  BY <1>0, <1>2, <1>3 DEF PollFirst, TypeOK
<1>4. ASSUME MainPoll PROVE OwnInv'
  BY <1>0, <1>2, <1>4 DEF MainPoll, TypeOK
<1>5. ASSUME DestroyPoll PROVE OwnInv'
  <2>1. polls + 1 \in 0..MaxPolls
    BY <1>0, <1>5 DEF DestroyPoll, TypeOK
  <2> QED BY <1>2, <1>5, <2>1 DEF DestroyPoll
<1>6. ASSUME NEW t \in Threads, NEW m \in Messages, NEW ok \in BOOLEAN, DeliveryCallback(t, m, ok)
      PROVE  OwnInv'
  <2>1. /\ pc[t] = "serve" /\ m \in batch[t]
        /\ batch' = [batch EXCEPT ![t] = batch[t] \ {m}]
        /\ frees' = [frees EXCEPT ![m] = frees[m] + 1]
        /\ UNCHANGED <<pc, held, result, queued, reports, polls, phase>>
    BY <1>6 DEF DeliveryCallback, Free
  <2>2. /\ batch'[t] = batch[t] \ {m} /\ \A u \in Threads \ {t} : batch'[u] = batch[u]
        /\ batch' \in [Threads -> SUBSET Messages]
    BY <1>0, <2>1 DEF TypeOK
  <2>3. frees[m] = 0 /\ m \in InFlight
    BY <1>0, <2>1 DEF OwnerInv, FreedOnce, InFlight
  <2>4. /\ frees'[m] = 1 /\ \A x \in Messages \ {m} : frees'[x] = frees[x]
        /\ frees' \in [Messages -> Nat]
    BY <1>0, <2>1, <2>3 DEF TypeOK
  <2>5. Stats' \in [Counters -> Nat]
    <3>1. PICK c \in Counters : Stats' = [Stats EXCEPT ![c] = Stats[c] + 1]
      BY <1>6 DEF DeliveryCallback, Count, Counters
    <3>2. Stats[c] + 1 \in Nat
      <4>1. Stats[c] \in Nat
        BY <1>0 DEF TypeOK
      <4> QED BY <4>1
    <3> QED BY <1>0, <3>1, <3>2 DEF TypeOK
  <2>6. \A x : x \in InFlight' <=> x \in InFlight /\ x # m
    <3>1. m \notin queued /\ m \notin reports /\ \A u \in Threads \ {t} : m \notin batch[u]
      BY <1>0, <2>1 DEF PlacesInv
    <3> QED BY <2>1, <2>2, <3>1, FlightIff
  <2>7. TypeOK'
    BY <1>0, <2>1, <2>2, <2>4, <2>5 DEF TypeOK
  <2>8. ThreadInv' /\ PlacesInv'
    BY <1>0, <2>1, <2>2 DEF ThreadInv, PlacesInv
  <2>9. OwnerInv'
    <3>1. FreedOnce'
      BY <1>0, <2>3, <2>4, <2>6 DEF OwnerInv, FreedOnce
    <3>2. \A u \in Senders : held[u] # None /\ result[u] # "ok" =>
            held[u] \notin InFlight' /\ frees'[held[u]] = 0
      BY <1>0, <2>3, <2>4, <2>6 DEF OwnerInv, TypeOK
    <3> QED BY <1>0, <2>1, <3>1, <3>2 DEF OwnerInv
  <2> QED BY <2>7, <2>8, <2>9 DEF OwnInv
<1>7. ASSUME NEW t \in Threads, PollDone(t) PROVE OwnInv'
  <2>1. TypeOK'
    BY <1>0, <1>7 DEF PollDone, TypeOK
  <2>2. ThreadInv'
    BY <1>0, <1>7 DEF PollDone, TypeOK, ThreadInv
  <2>3. PlacesInv' /\ OwnerInv'
    BY <1>0, <1>7 DEF PollDone, PlacesInv, OwnerInv, InFlight, FreedOnce
  <2> QED BY <2>1, <2>2, <2>3 DEF OwnInv
<1>8. ASSUME NEW t \in Senders, Enqueue(t) PROVE OwnInv'
  <2>0. /\ pc[t] = "enqueue" /\ pc' = [pc EXCEPT ![t] = "result"]
        /\ UNCHANGED <<held, reports, batch, frees, Stats, polls, phase>>
    BY <1>8 DEF Enqueue
  <2>1. held[t] \in Messages /\ result[t] = "none"
    BY <1>0, <2>0 DEF ThreadInv, TypeOK
  <2>2. held[t] \notin InFlight /\ frees[held[t]] = 0
    BY <1>0, <2>1 DEF OwnerInv
  <2>3. PICK r \in {"ok", "full", "too_large", "error"} :
          /\ result' = [result EXCEPT ![t] = r]
          /\ queued' = IF r = "ok" THEN queued \cup {held[t]} ELSE queued
    BY <1>8 DEF Enqueue
  <2>4. \A m : m \in InFlight' <=> m \in InFlight \/ (r = "ok" /\ m = held[t])
    BY <2>0, <2>3, FlightIff
  <2>5. TypeOK' /\ ThreadInv'
    BY <1>0, <2>0, <2>1, <2>3 DEF TypeOK, ThreadInv
  <2>6. PlacesInv'
    <3>1. held[t] \notin reports /\ \A u \in Threads : held[t] \notin batch[u]
      BY <2>2, FlightIff
    <3> QED BY <1>0, <2>0, <2>3, <3>1 DEF PlacesInv
  <2>7. OwnerInv'
    <3>1. FreedOnce'
      BY <1>0, <2>0, <2>2, <2>4 DEF OwnerInv, FreedOnce
    <3>2. ASSUME NEW u \in Senders, held[u] # None, result'[u] # "ok"
          PROVE  held[u] \notin InFlight' /\ frees[held[u]] = 0
      <4>1. result[u] # "ok"
        BY <2>1, <2>3, <3>2, <1>0 DEF TypeOK
      <4>2. held[u] \notin InFlight /\ frees[held[u]] = 0
        BY <1>0, <3>2, <4>1 DEF OwnerInv
      <4>3. CASE r = "ok"
        <5>1. u # t
          BY <1>0, <2>3, <3>2, <4>3 DEF TypeOK
        <5> QED BY <1>0, <2>1, <2>4, <4>2, <5>1 DEF OwnerInv
      <4>4. CASE r # "ok"
        BY <2>4, <4>2, <4>4
      <4> QED BY <4>3, <4>4
    <3> QED BY <1>0, <2>0, <3>1, <3>2 DEF OwnerInv
  <2> QED BY <2>5, <2>6, <2>7 DEF OwnInv
<1>9. ASSUME NEW t \in Senders, Account(t) PROVE OwnInv'
  <2>1. /\ pc[t] = "result"
        /\ held' = [held EXCEPT ![t] = None]
        /\ result' = [result EXCEPT ![t] = "none"]
        /\ pc' = [pc EXCEPT ![t] = "idle"]
        /\ UNCHANGED <<queued, reports, batch, polls, phase>>
        /\ frees' = IF result[t] = "ok" THEN frees ELSE [frees EXCEPT ![held[t]] = frees[held[t]] + 1]
    BY <1>9 DEF Account, Returned, Free
  <2>2. held[t] \in Messages /\ result[t] # "none"
    BY <1>0, <2>1 DEF ThreadInv, TypeOK
  <2>3. Stats' \in [Counters -> Nat]
    <3>1. PICK c \in Counters : Stats' = [Stats EXCEPT ![c] = Stats[c] + 1]
      BY <1>9 DEF Account, Returned, Count, Counters
    <3>2. Stats[c] + 1 \in Nat
      <4>1. Stats[c] \in Nat
        BY <1>0 DEF TypeOK
      <4> QED BY <4>1
    <3> QED BY <1>0, <3>1, <3>2 DEF TypeOK
  <2>4. InFlight' = InFlight /\ PlacesInv'
    BY <1>0, <2>1 DEF InFlight, PlacesInv
  <2>5. /\ frees' \in [Messages -> Nat]
        /\ \A x \in Messages \ {held[t]} : frees'[x] = frees[x]
        /\ result[t] # "ok" => frees'[held[t]] = 1 /\ held[t] \notin InFlight
        /\ result[t] = "ok" => frees' = frees
    BY <1>0, <2>1, <2>2 DEF TypeOK, OwnerInv
  <2>6. TypeOK'
    BY <1>0, <2>1, <2>3, <2>5 DEF TypeOK
  <2>7. ThreadInv'
    BY <1>0, <2>1 DEF TypeOK, ThreadInv
  <2>8. FreedOnce'
    BY <1>0, <2>2, <2>4, <2>5 DEF OwnerInv, FreedOnce
  <2>9. OwnerInv'
    <3>1. \A u \in Senders \ {t} : held'[u] = held[u] /\ result'[u] = result[u]
      BY <1>0, <2>1 DEF TypeOK
    <3>2. held'[t] = None
      BY <1>0, <2>1 DEF TypeOK
    <3>3. \A u \in Senders \ {t} : held[u] # None => held[u] \in Messages \ {held[t]}
      BY <1>0, <2>2 DEF TypeOK, OwnerInv
    <3> QED BY <1>0, <2>4, <2>5, <2>8, <3>1, <3>2, <3>3 DEF OwnerInv
  <2> QED BY <2>4, <2>6, <2>7, <2>9 DEF OwnInv
<1>10. ASSUME NEW m \in Messages, Report(m) PROVE OwnInv'
  <2>1. \A x : x \in InFlight' <=> x \in InFlight
    BY <1>10, FlightIff DEF Report
  <2>2. TypeOK' /\ ThreadInv'
    BY <1>0, <1>10 DEF Report, TypeOK, ThreadInv
  <2>3. PlacesInv'
    BY <1>0, <1>10 DEF Report, PlacesInv
  <2>4. OwnerInv'
    BY <1>0, <1>10, <2>1 DEF Report, OwnerInv, FreedOnce
  <2> QED BY <2>2, <2>3, <2>4 DEF OwnInv
<1>11. ASSUME BeginDestroy \/ EndDestroy \/ Done \/ UNCHANGED producerVars PROVE OwnInv'
  <2>1. /\ UNCHANGED <<pc, held, result, queued, reports, batch, frees, Stats, polls>>
        /\ phase' \in {"run", "destroy", "destroyed"}
    BY <1>0, <1>11 DEF BeginDestroy, EndDestroy, Done, producerVars, TypeOK
  <2>2. TypeOK'
    BY <1>0, <2>1 DEF TypeOK
  <2>3. ThreadInv' /\ PlacesInv' /\ OwnerInv'
    BY <1>0, <2>1 DEF ThreadInv, PlacesInv, OwnerInv, InFlight, FreedOnce
  <2> QED BY <2>2, <2>3 DEF OwnInv
<1> QED
  BY <1>1, <1>3, <1>4, <1>5, <1>6, <1>7, <1>8, <1>9, <1>10, <1>11
  DEF ProducerNext, Produce, Poll

\* The types of the producer's state hold in every reachable state.
THEOREM ProducerTypes == ProducerSpec => []TypeOK
<1>1. OwnInv => TypeOK
  BY DEF OwnInv
<1> QED BY <1>1, InitOwn, NextOwn, PTL DEF ProducerSpec

\* No double delete and no delete under librdkafka's feet: whichever thread
\* serves the delivery callback and whatever librdkafka answers, a message
\* is deleted at most once and never while it is in flight.
THEOREM MessagesFreedOnce == ProducerSpec => []FreedOnce
<1>1. OwnInv => FreedOnce
  BY DEF OwnInv, OwnerInv
<1> QED BY <1>1, InitOwn, NextOwn, PTL DEF ProducerSpec

\* The sets that the statistics count are finite.
LEMMA SizesFinite ==
  ASSUME TypeOK
  PROVE  /\ IsFiniteSet(InFlight) /\ Cardinality(InFlight) \in Nat
         /\ IsFiniteSet(Accepted) /\ Cardinality(Accepted) \in Nat
         /\ \A c \in Counters : Stats[c] \in Nat
<1>1. InFlight \subseteq Messages
  BY DEF InFlight, TypeOK
<1>2. Accepted \subseteq Senders
  BY DEF Accepted
<1>3. IsFiniteSet(InFlight) /\ IsFiniteSet(Accepted)
  BY <1>1, <1>2, FS_Subset
<1> QED BY <1>3, FS_CardinalityType DEF TypeOK

\* Every step keeps the balance of the statistics.
LEMMA NextStats == OwnInv /\ StatsAddUp /\ [ProducerNext]_producerVars => StatsAddUp'
<1> SUFFICES ASSUME OwnInv, StatsAddUp, [ProducerNext]_producerVars PROVE StatsAddUp'
  OBVIOUS
<1>0. TypeOK /\ ThreadInv /\ PlacesInv /\ OwnerInv
  BY DEF OwnInv
<1>a. /\ IsFiniteSet(InFlight) /\ Cardinality(InFlight) \in Nat
      /\ IsFiniteSet(Accepted) /\ Cardinality(Accepted) \in Nat
      /\ Stats["produced"] \in Nat /\ Stats["produce_cb"] \in Nat
      /\ Stats["produce_cb_fail"] \in Nat
  BY <1>0, SizesFinite DEF Counters
\* steps that neither accept nor complete a message
<1>1. ASSUME InFlight' = InFlight, Accepted' = Accepted, Stats' = Stats PROVE StatsAddUp'
  BY <1>1 DEF StatsAddUp
<1>2. ASSUME NEW t \in Senders, NEW m \in Messages, Emit(t, m) PROVE StatsAddUp'
  <2>1. Accepted' = Accepted
    BY <1>0, <1>2 DEF Emit, Accepted, TypeOK
  <2> QED BY <1>1, <1>2, <2>1 DEF Emit, InFlight
<1>3. ASSUME NEW t \in Threads, TakeReports(t), pc[t] \in {"poll", "idle"},
             UNCHANGED <<held, result, queued, frees, Stats, phase>>
      PROVE  StatsAddUp'
  <2>1. InFlight' = InFlight
    BY <1>3, TakeSame
  <2>2. Accepted' = Accepted
    BY <1>0, <1>3 DEF TakeReports, Accepted, TypeOK
  <2> QED BY <1>1, <1>3, <2>1, <2>2
<1>4. ASSUME \/ \E t \in Senders : PollFirst(t)
             \/ MainPoll \/ DestroyPoll
      PROVE  StatsAddUp'
  BY <1>3, <1>4 DEF PollFirst, MainPoll, DestroyPoll
\* a delivery callback: one message less in flight, one more counted
<1>5. ASSUME NEW t \in Threads, NEW m \in Messages, NEW ok \in BOOLEAN, DeliveryCallback(t, m, ok)
      PROVE  StatsAddUp'
  <2>1. /\ m \in batch[t]
        /\ batch' = [batch EXCEPT ![t] = batch[t] \ {m}]
        /\ Stats' = [Stats EXCEPT ![IF ok THEN "produce_cb" ELSE "produce_cb_fail"] = @ + 1]
        /\ UNCHANGED <<pc, result, queued, reports>>
    BY <1>5 DEF DeliveryCallback, Count
  <2>2. InFlight' = InFlight \ {m} /\ m \in InFlight
    <3>1. m \notin queued /\ m \notin reports /\ \A u \in Threads \ {t} : m \notin batch[u]
      BY <1>0, <2>1 DEF PlacesInv
    <3>2. batch'[t] = batch[t] \ {m} /\ \A u \in Threads \ {t} : batch'[u] = batch[u]
      BY <1>0, <2>1 DEF TypeOK
    <3>3. \A x : x \in InFlight' <=> x \in InFlight /\ x # m
      BY <2>1, <3>1, <3>2, FlightIff
    <3> QED BY <2>1, <3>3, FlightIff
  <2>3. Cardinality(InFlight') = Cardinality(InFlight) - 1
    BY <1>a, <2>2, FS_RemoveElement
  <2>4. Accepted' = Accepted
    BY <2>1 DEF Accepted
  <2>5. /\ Stats'["produced"] = Stats["produced"]
        /\ Stats'["produce_cb"] + Stats'["produce_cb_fail"]
             = Stats["produce_cb"] + Stats["produce_cb_fail"] + 1
    <3>1. CASE ok
      BY <1>0, <1>a, <2>1, <3>1 DEF TypeOK, Counters
    <3>2. CASE ~ ok
      BY <1>0, <1>a, <2>1, <3>2 DEF TypeOK, Counters
    <3> QED BY <3>1, <3>2
  <2>6. /\ Stats'["produce_cb"] \in Nat /\ Stats'["produce_cb_fail"] \in Nat
    BY <1>0, <1>a, <2>1 DEF TypeOK, Counters
  <2> QED BY <1>a, <2>3, <2>4, <2>5, <2>6 DEF StatsAddUp
<1>6. ASSUME NEW t \in Threads, PollDone(t) PROVE StatsAddUp'
  <2>1. Accepted' = Accepted
    BY <1>0, <1>6 DEF PollDone, Accepted, TypeOK
  <2> QED BY <1>1, <1>6, <2>1 DEF PollDone, InFlight
\* acceptance: one message more in flight, one more sender about to count it
<1>7. ASSUME NEW t \in Senders, Enqueue(t) PROVE StatsAddUp'
  <2>0. /\ pc[t] = "enqueue" /\ pc' = [pc EXCEPT ![t] = "result"]
        /\ UNCHANGED <<reports, batch, Stats>>
    BY <1>7 DEF Enqueue
  <2>1. held[t] \notin InFlight
    BY <1>0, <2>0 DEF ThreadInv, OwnerInv
  <2>2. CASE result' = [result EXCEPT ![t] = "ok"] /\ queued' = queued \cup {held[t]}
    <3>1. \A m : m \in InFlight' <=> m \in InFlight \/ m = held[t]
      BY <2>0, <2>2, FlightIff
    <3>2. InFlight' = InFlight \cup {held[t]}
      BY <3>1
    <3>3. Accepted' = Accepted \cup {t} /\ t \notin Accepted
      BY <1>0, <2>0, <2>2 DEF Accepted, TypeOK
    <3>4. Cardinality(InFlight') = Cardinality(InFlight) + 1
      BY <1>a, <2>1, <3>2, FS_AddElement
    <3>5. Cardinality(Accepted') = Cardinality(Accepted) + 1
      BY <1>a, <3>3, FS_AddElement
    <3> QED BY <1>a, <2>0, <3>4, <3>5 DEF StatsAddUp
  <2>3. CASE queued' = queued /\ \E r \in {"full", "too_large", "error"} : result' = [result EXCEPT ![t] = r]
    <3>1. InFlight' = InFlight
      BY <2>0, <2>3 DEF InFlight
    <3>2. Accepted' = Accepted
      BY <1>0, <2>0, <2>3 DEF Accepted, TypeOK
    <3> QED BY <1>1, <2>0, <3>1, <3>2
  <2> QED BY <1>7, <2>2, <2>3 DEF Enqueue
\* the sender counts what became of its message
<1>8. ASSUME NEW t \in Senders, Account(t) PROVE StatsAddUp'
  <2>1. /\ pc[t] = "result"
        /\ result' = [result EXCEPT ![t] = "none"]
        /\ pc' = [pc EXCEPT ![t] = "idle"]
        /\ UNCHANGED <<queued, reports, batch>>
    BY <1>8 DEF Account, Returned
  <2>2. InFlight' = InFlight
    BY <2>1 DEF InFlight
  <2>3. CASE result[t] = "ok"
    <3>1. Accepted' = Accepted \ {t} /\ t \in Accepted
      BY <1>0, <2>1, <2>3 DEF Accepted, TypeOK
    <3>2. Cardinality(Accepted') = Cardinality(Accepted) - 1
      BY <1>a, <3>1, FS_RemoveElement
    <3>3. Stats' = [Stats EXCEPT !["produced"] = @ + 1]
      BY <1>8, <2>3 DEF Account, Returned, Count
    <3>4. /\ Stats'["produced"] = Stats["produced"] + 1
          /\ Stats'["produce_cb"] = Stats["produce_cb"]
          /\ Stats'["produce_cb_fail"] = Stats["produce_cb_fail"]
      BY <1>0, <3>3 DEF TypeOK, Counters
    <3> QED BY <1>a, <2>2, <3>2, <3>4 DEF StatsAddUp
  <2>4. CASE result[t] # "ok"
    <3>1. Accepted' = Accepted
      BY <1>0, <2>1, <2>4 DEF Accepted, TypeOK
    <3>2. PICK c \in {"local_queue_full", "msg_too_large", "produce_fail"} :
            Stats' = [Stats EXCEPT ![c] = @ + 1]
      BY <1>8, <2>4 DEF Account, Returned, Count
    <3>3. /\ Stats'["produced"] = Stats["produced"]
          /\ Stats'["produce_cb"] = Stats["produce_cb"]
          /\ Stats'["produce_cb_fail"] = Stats["produce_cb_fail"]
      BY <1>0, <3>2 DEF TypeOK, Counters
    <3> QED BY <2>2, <3>1, <3>3 DEF StatsAddUp
  <2> QED BY <2>3, <2>4
<1>9. ASSUME NEW m \in Messages, Report(m) PROVE StatsAddUp'
  <2>1. \A x : x \in InFlight' <=> x \in InFlight
    BY <1>9, FlightIff DEF Report
  <2>2. InFlight' = InFlight
    BY <2>1
  <2> QED BY <1>1, <1>9, <2>2 DEF Report, Accepted
<1>10. ASSUME BeginDestroy \/ EndDestroy \/ Done \/ UNCHANGED producerVars PROVE StatsAddUp'
  BY <1>1, <1>10 DEF BeginDestroy, EndDestroy, Done, producerVars, InFlight, Accepted
<1> QED
  BY <1>2, <1>4, <1>5, <1>6, <1>7, <1>8, <1>9, <1>10 DEF ProducerNext, Produce, Poll

\* The producer statistics balance at every moment: what was accepted is in
\* flight or was counted by a delivery callback, although the callback may
\* run before the sender has counted the message as produced.
THEOREM StatisticsAddUp == ProducerSpec => []StatsAddUp
<1>1. ProducerInit => StatsAddUp
  <2> SUFFICES ASSUME ProducerInit PROVE StatsAddUp
    OBVIOUS
  <2>1. InFlight = {} /\ Accepted = {}
    BY DEF ProducerInit, ProducerNew, InFlight, Accepted
  <2>2. Stats["produced"] = 0 /\ Stats["produce_cb"] = 0 /\ Stats["produce_cb_fail"] = 0
    BY DEF ProducerInit, ProducerNew, Counters
  <2> QED BY <2>1, <2>2, FS_EmptySet DEF StatsAddUp
<1> QED BY <1>1, InitOwn, NextOwn, NextStats, PTL DEF ProducerSpec
=============================================================================
