------------------------ MODULE CommandListenerProofs ------------------------
(* Proofs about the offsets at which the command listener starts, for any   *)
(* number of partitions and messages.                                       *)
EXTENDS CommandListener, SequenceTheorems, TLAPS

USE ListenerAssumption

\* Partitions are numbered.
LEMMA PartitionsNat == PartitionIDs \subseteq Nat
BY DEF PartitionIDs

ListenerTypes ==
  /\ log \in [PartitionIDs -> Seq(Kinds)]
  /\ stage \in {"metadata", "query", "loop", "stopped", "threw"}
  /\ next \in Nat \ {0} /\ assigned \in BOOLEAN
  /\ offset \in [PartitionIDs -> Nat] /\ position \in [PartitionIDs -> Nat]
  /\ handled \in [PartitionIDs -> SUBSET Nat]
  /\ old \in [PartitionIDs -> Nat]
  /\ known \subseteq PartitionIDs

\* The offsets are set before the partitions are assigned, each once, and
\* never lie before the end the partition had when the program started;
\* delivery goes on from there.
OffsetInv ==
  /\ \A p \in PartitionIDs : old[p] <= Len(log[p])
  /\ \A p \in known : p < next
  /\ stage = "metadata" => known = {}
  /\ stage = "query" => \A p \in known : offset[p] >= old[p]
  /\ assigned => stage \notin {"metadata", "query"}
  /\ ~ assigned => \A p \in PartitionIDs : handled[p] = {}
  /\ assigned => \A p \in known : position[p] >= old[p]

ListenerInv == ListenerTypes /\ OffsetInv /\ NoOldCommand

\* The listener's invariant holds when the forwarder is started.
LEMMA InitListener == ListenerInit => ListenerInv
<1> SUFFICES ASSUME ListenerInit PROVE ListenerInv
  OBVIOUS
<1>1. \A n \in 0..Earlier : \A s \in [1..n -> {"command"}] : s \in Seq(Kinds) /\ Len(s) = n
  BY DEF Kinds
<1>2. \A p \in PartitionIDs : log[p] \in Seq(Kinds) /\ Len(log[p]) \in Nat
  BY <1>1 DEF ListenerInit, ListenerNew
<1>3. ListenerTypes
  <2>1. log \in [PartitionIDs -> Seq(Kinds)]
    BY <1>2 DEF ListenerInit, ListenerNew
  <2>2. old \in [PartitionIDs -> Nat]
    BY <1>2 DEF ListenerInit, ListenerNew
  <2>3. handled \in [PartitionIDs -> SUBSET Nat]
    BY DEF ListenerInit, ListenerNew
  <2>4. offset \in [PartitionIDs -> Nat] /\ position \in [PartitionIDs -> Nat]
    BY DEF ListenerInit, ListenerNew
  <2>5. known \subseteq PartitionIDs /\ next \in Nat \ {0} /\ assigned \in BOOLEAN /\ stage = "metadata"
    <3>1. known = {} /\ next = 1 /\ assigned = FALSE /\ stage = "metadata"
      BY DEF ListenerInit, ListenerNew
    <3>2. 1 \in Nat \ {0}
      OBVIOUS
    <3> QED BY <3>1, <3>2, Zenon
  <2> QED BY <2>1, <2>2, <2>3, <2>4, <2>5 DEF ListenerTypes
<1>4. \A p \in PartitionIDs : handled[p] = {} /\ old[p] = Len(log[p])
  BY DEF ListenerInit, ListenerNew
<1>5. OffsetInv
  BY <1>2, <1>4 DEF ListenerInit, ListenerNew, OffsetInv
<1>6. NoOldCommand
  BY DEF ListenerInit, ListenerNew, NoOldCommand
<1> QED BY <1>3, <1>5, <1>6 DEF ListenerInv

\* Every step of the broker, addTopic, poll and the handler keeps it.
LEMMA NextListener == ListenerInv /\ [ListenerNext]_listenerVars => ListenerInv'
<1> SUFFICES ASSUME ListenerInv, [ListenerNext]_listenerVars PROVE ListenerInv'
  OBVIOUS
<1>0. ListenerTypes /\ OffsetInv /\ NoOldCommand
  BY DEF ListenerInv
<1>1. ASSUME NEW p \in PartitionIDs, NEW kind \in Kinds, Send(p, kind) PROVE ListenerInv'
  <2>1. /\ log' = [log EXCEPT ![p] = Append(@, kind)]
        /\ UNCHANGED <<old, stage, next, offset, assigned, position, handled, seen, known>>
    BY <1>1 DEF Send
  <2>2. /\ Append(log[p], kind) \in Seq(Kinds)
        /\ Len(log[p]) \in Nat /\ Len(Append(log[p], kind)) = Len(log[p]) + 1
    BY <1>0, AppendProperties DEF ListenerTypes
  <2>3. ListenerTypes'
    BY <1>0, <2>1, <2>2 DEF ListenerTypes
  <2>4. \A q \in PartitionIDs : old[q] <= Len(log'[q])
    <3>1. \A q \in PartitionIDs : old[q] \in Nat /\ old[q] <= Len(log[q])
      BY <1>0 DEF ListenerTypes, OffsetInv
    <3>2. \A q \in PartitionIDs \ {p} : log'[q] = log[q]
      BY <1>0, <2>1 DEF ListenerTypes
    <3>3. log'[p] = Append(log[p], kind)
      BY <1>0, <2>1 DEF ListenerTypes
    <3>4. old[p] <= Len(log'[p])
      BY <2>2, <3>1, <3>3
    <3> QED BY <3>1, <3>2, <3>4
  <2>5. OffsetInv' /\ NoOldCommand'
    BY <1>0, <2>1, <2>4 DEF OffsetInv, NoOldCommand
  <2> QED BY <2>3, <2>5 DEF ListenerInv
<1>2. ASSUME findTopic PROVE ListenerInv'
  BY <1>0, <1>2 DEF findTopic, brokerVars, ListenerInv, ListenerTypes, OffsetInv, NoOldCommand
<1>3. ASSUME queryWatermarks PROVE ListenerInv'
  <2>1. /\ next \in PartitionIDs /\ next' = next + 1 /\ stage = "query"
        /\ UNCHANGED <<log, old, stage, assigned, position, handled>>
    BY <1>0, <1>3 DEF queryWatermarks, brokerVars, ListenerTypes, PartitionIDs
  <2>2. PICK High \in Nat : /\ offset' = [offset EXCEPT ![next] = High]
                            /\ \/ known' = known \cup {next} /\ High = Len(log[next])
                               \/ known' = known
    <3>1. Len(log[next]) \in Nat /\ MaxLog + 1 \in Nat
      BY <1>0, <2>1 DEF ListenerTypes
    <3>2. 0..(MaxLog + 1) \subseteq Nat
      BY <3>1
    <3> QED BY <1>3, <3>1, <3>2 DEF queryWatermarks
  <2>3. ListenerTypes'
    <3>1. offset' \in [PartitionIDs -> Nat] /\ known' \subseteq PartitionIDs
      BY <1>0, <2>1, <2>2 DEF ListenerTypes
    <3>2. next' \in Nat \ {0}
      BY <1>0, <2>1 DEF ListenerTypes
    <3> QED BY <1>0, <2>1, <3>1, <3>2 DEF ListenerTypes
  <2>4. ~ assigned
    BY <1>0, <2>1 DEF OffsetInv
  <2>5. \A q \in known' : q < next' /\ offset'[q] >= old[q]
    <3>1. /\ known \subseteq PartitionIDs /\ next \in Nat
          /\ \A q \in known : q \in Nat /\ q < next /\ offset[q] >= old[q]
      BY <1>0, <2>1, PartitionsNat DEF ListenerTypes, OffsetInv
    <3>2. ASSUME NEW q \in known PROVE q < next' /\ offset'[q] >= old[q]
      <4>1. q # next
        BY <3>1
      <4>2. offset'[q] = offset[q]
        BY <1>0, <2>2, <3>1, <4>1 DEF ListenerTypes
      <4>3. q < next + 1
        BY <3>1
      <4> QED BY <2>1, <3>1, <4>2, <4>3
    <3>3. offset'[next] = High
      BY <1>0, <2>1, <2>2 DEF ListenerTypes
    <3>4. next < next' /\ (High = Len(log[next]) => offset'[next] >= old[next])
      BY <1>0, <2>1, <3>1, <3>3 DEF OffsetInv, ListenerTypes
    <3> QED BY <2>2, <3>2, <3>4
  <2>6. OffsetInv'
    BY <1>0, <2>1, <2>4, <2>5 DEF OffsetInv
  <2>7. NoOldCommand'
    BY <1>0, <2>1, <2>3, <2>4 DEF OffsetInv, NoOldCommand, ListenerTypes
  <2> QED BY <1>0, <2>1, <2>3, <2>6, <2>7 DEF ListenerInv
<1>4. ASSUME assign PROVE ListenerInv'
  <2>1. /\ stage = "query" /\ UNCHANGED <<log, old, next, handled, known>>
        /\ offset' = [p \in PartitionIDs |-> 0]
    BY <1>4 DEF assign, brokerVars
  <2>2. ~ assigned /\ \A p \in PartitionIDs : handled[p] = {}
    BY <1>0, <2>1 DEF OffsetInv
  <2>3. NoOldCommand'
    BY <1>0, <2>1, <2>2 DEF NoOldCommand, ListenerTypes
  <2>4. CASE stage' = "threw" /\ UNCHANGED <<assigned, position>>
    <3>1. ListenerTypes' /\ OffsetInv'
      BY <1>0, <2>1, <2>2, <2>4 DEF ListenerTypes, OffsetInv
    <3> QED BY <2>3, <3>1 DEF ListenerInv
  <2>5. CASE /\ stage' = "loop" /\ assigned' = TRUE
             /\ position' = [p \in PartitionIDs |->
                               IF offset[p] <= Len(log[p]) THEN offset[p] ELSE Len(log[p])]
    <3>1. \A p \in PartitionIDs : Len(log[p]) \in Nat
      BY <1>0 DEF ListenerTypes
    <3>2. ListenerTypes'
      BY <1>0, <2>1, <2>5, <3>1 DEF ListenerTypes
    <3>3. \A p \in known : position'[p] >= old[p]
      BY <1>0, <2>1, <2>5, <3>1 DEF ListenerTypes, OffsetInv
    <3>4. OffsetInv'
      BY <1>0, <2>1, <2>5, <3>3 DEF OffsetInv
    <3> QED BY <2>3, <3>2, <3>4 DEF ListenerInv
  <2> QED BY <1>4, <2>4, <2>5 DEF assign
<1>5. ASSUME NEW p \in PartitionIDs, NEW valid \in BOOLEAN, poll(p, valid) PROVE ListenerInv'
  <2> DEFINE pos == position[p] + 1
  <2>1. /\ assigned /\ stage = "loop" /\ position[p] \in Nat
        /\ position' = [position EXCEPT ![p] = pos]
        /\ UNCHANGED <<log, old, next, offset, assigned, known>>
        /\ stage' \in {stage, "stopped"}
    BY <1>0, <1>5 DEF poll, brokerVars, ConfigCallback, ListenerTypes
  <2>2. pos \in Nat /\ pos > position[p]
    BY <2>1
  <2> HIDE DEF pos
  <2>3. /\ position' \in [PartitionIDs -> Nat] /\ position'[p] = pos
        /\ \A q \in PartitionIDs \ {p} : position'[q] = position[q]
    BY <1>0, <2>1, <2>2 DEF ListenerTypes
  <2>4. handled' = handled \/ handled' = [handled EXCEPT ![p] = @ \cup {pos}]
    BY <1>5, <2>3 DEF poll
  <2>5. handled' \in [PartitionIDs -> SUBSET Nat]
        /\ \A q \in PartitionIDs : \A i \in handled'[q] : i \in handled[q] \/ (q = p /\ i = pos)
    BY <1>0, <2>2, <2>4 DEF ListenerTypes
  <2>6. ListenerTypes'
    BY <1>0, <2>1, <2>3, <2>5 DEF ListenerTypes
  <2>7. p \in known => position[p] >= old[p] /\ old[p] \in Nat
    BY <1>0, <2>1 DEF ListenerTypes, OffsetInv
  <2>8. p \in known => pos > old[p]
    BY <2>1, <2>2, <2>7
  <2>9. \A q \in known : position'[q] >= old[q]
    <3>1. p \in known => position'[p] >= old[p]
      BY <2>2, <2>3, <2>7, <2>8
    <3>2. \A q \in known \ {p} : position'[q] >= old[q]
      BY <1>0, <2>1, <2>3 DEF ListenerTypes, OffsetInv
    <3> QED BY <3>1, <3>2
  <2>10. OffsetInv'
    BY <1>0, <2>1, <2>9 DEF OffsetInv
  <2>11. NoOldCommand'
    BY <1>0, <2>1, <2>5, <2>8 DEF NoOldCommand, ListenerTypes
  <2> QED BY <2>6, <2>10, <2>11 DEF ListenerInv
<1>6. CASE UNCHANGED listenerVars
  BY <1>0, <1>6 DEF listenerVars, brokerVars, ListenerInv, ListenerTypes, OffsetInv, NoOldCommand
<1> QED BY <1>1, <1>2, <1>3, <1>4, <1>5, <1>6 DEF ListenerNext

\* The inductive invariant of the consumer and the command listener: no
\* known partition is assigned or read from before the end it had at the
\* start, under any failures of the queries.
THEOREM ListenerInvariant == ListenerSpec => []ListenerInv
BY InitListener, NextListener, PTL DEF ListenerSpec

\* A forwarder that is started anew carries out no command that was in the
\* topic before, in every partition whose watermarks could be queried: what
\* Consumer::addTopic assigns is never before the end the partition had.
THEOREM OldCommandsSkipped == ListenerSpec => []NoOldCommand
<1>1. ListenerInv => NoOldCommand
  BY DEF ListenerInv
<1> QED BY <1>1, ListenerInvariant, PTL
=============================================================================
