------------------------- MODULE ForwarderCoreProofs -------------------------
(* Proofs about the forwarding core, for every number of workers, streams, *)
(* converters and updates.                                                 *)
EXTENDS ForwarderCore, FiniteSetTheorems, SequenceTheorems, TLAPS

USE DEF vars, listVars, fillVars, flowVars, mainVars, clientVars

\* The paths of a stream are among the paths the model knows.
LEMMA PathsOfInPaths ==
  ASSUME TypeOK, NEW s \in Streams
  PROVE  PathsOf(s) \subseteq Paths
<1> SUFFICES ASSUME NEW i \in 1..npaths[s]
             PROVE  <<s, i>> \in Paths
  BY DEF PathsOf
<1>1. i \in 1..Converters[s]
  BY StreamsAssumption DEF TypeOK
<1>2. <<s, i>> \in {s} \X (1..Converters[s])
  BY <1>1
<1> QED
  BY <1>2 DEF Paths

\* A path is a stream and the number of one of its converters.
LEMMA PathStream ==
  ASSUME NEW p \in Paths
  PROVE  p[1] \in Streams /\ p = <<p[1], p[2]>>
BY DEF Paths

\* Removing one element of a sequence gives a sequence.
LEMMA WithoutSeq ==
  ASSUME NEW S, NEW q \in Seq(S), NEW i \in 1..Len(q)
  PROVE  /\ Without(q, i) \in Seq(S)
         /\ Len(Without(q, i)) = Len(q) - 1
         /\ \A j \in 1..(Len(q) - 1) : Without(q, i)[j] = IF j < i THEN q[j] ELSE q[j + 1]
<1>1. Len(q) - 1 \in Nat
  OBVIOUS
<1>2. \A j \in 1..(Len(q) - 1) : (IF j < i THEN q[j] ELSE q[j + 1]) \in S
  OBVIOUS
<1>3. Without(q, i) \in [1..(Len(q) - 1) -> S]
  BY <1>2 DEF Without
<1> QED
  BY <1>1, <1>3 DEF Without

\* The empty hand of a worker is no packet.
LEMMA NoPacketIsNone == NoPacket \notin Packets
BY DEF NoPacket, Packets

\* The packets that one dequeued update becomes.
LEMMA BatchSeq ==
  ASSUME TypeOK, NEW s \in Streams, NEW n \in Nat \ {0}
  PROVE  [i \in 1..npaths[s] |-> <<<<s, i>>, n>>] \in Seq(Packets)
<1>1. \A i \in 1..npaths[s] : <<s, i>> \in Paths
  BY PathsOfInPaths DEF PathsOf
<1>2. npaths[s] \in Nat
  BY DEF TypeOK
<1> QED
  BY <1>1, <1>2 DEF Packets

\* The type invariant and the lock discipline hold initially.
LEMMA InitType == Init => TypeOK /\ LockInv
<1> SUFFICES ASSUME Init PROVE TypeOK /\ LockInv
  OBVIOUS
<1>1. TypeOK
  <2>1. npaths \in [Streams -> Nat] /\ \A s \in Streams : npaths[s] <= Converters[s]
    BY StreamsAssumption DEF Init
  <2>2. queue \in [Workers -> Seq(Packets)] /\ emitted \in [Paths -> Seq(Nat \ {0})]
    BY DEF Init
  <2>3. hand \in [Workers -> Packets \cup {NoPacket}]
    BY DEF Init
  <2>4. pc \in [Workers -> WorkerPCs]
    BY DEF Init, WorkerPCs
  <2>5. StreamPointers \in Seq(Streams)
    BY DEF Init
  <2> QED
    BY <2>1, <2>2, <2>3, <2>4, <2>5 DEF Init, TypeOK
<1>2. LockInv
  BY ThreadsAssumption, StreamsAssumption DEF Init, LockInv, Threads, Filling
<1> QED BY <1>1, <1>2

\* Every step keeps the types and the lock discipline.
LEMMA NextType == TypeOK /\ LockInv /\ [Next]_vars => TypeOK' /\ LockInv'
<1> SUFFICES ASSUME TypeOK, LockInv, [Next]_vars
             PROVE  TypeOK' /\ LockInv'
  OBVIOUS
<1> USE ThreadsAssumption, StreamsAssumption DEF Threads
<1>1. ASSUME NEW s \in Streams, AddStream(s) PROVE TypeOK' /\ LockInv'
  <2>1. TypeOK'
    BY <1>1, SMTT(40) DEF AddStream, TypeOK
  <2>2. LockInv'
    BY <1>1 DEF AddStream, TypeOK, LockInv, Filling
  <2> QED BY <2>1, <2>2
<1>2. ASSUME adding # NoStream, NEW n \in 0..Converters[adding], AddConverters(n)
      PROVE  TypeOK' /\ LockInv'
  <2>0. n \in Nat /\ adding \in Streams /\ Converters[adding] \in Nat
    BY <1>2 DEF TypeOK
  <2>1. npaths' \in [Streams -> Nat] /\ \A s \in Streams : npaths'[s] <= Converters[s]
    BY <1>2, <2>0 DEF AddConverters, TypeOK
  <2>2. {<<adding, i>> : i \in 1..n} \subseteq Paths
    <3> SUFFICES ASSUME NEW i \in 1..n PROVE <<adding, i>> \in Paths
      OBVIOUS
    <3>1. <<adding, i>> \in {adding} \X (1..Converters[adding])
      BY <2>0
    <3> QED BY <3>1, <2>0 DEF Paths
  <2>3. dead' \subseteq Paths
    BY <1>2, <2>2 DEF AddConverters, TypeOK
  <2>4. TypeOK'
    BY <1>2, <2>1, <2>3 DEF AddConverters, TypeOK
  <2>5. LockInv'
    BY <1>2 DEF AddConverters, TypeOK, LockInv, Filling
  <2> QED BY <2>4, <2>5
<1>3. ASSUME Start PROVE TypeOK' /\ LockInv'
  <2>1. TypeOK'
    BY <1>3 DEF Start, TypeOK, WorkerPCs
  <2>2. LockInv'
    BY <1>3 DEF Start, TypeOK, LockInv, Filling
  <2> QED BY <2>1, <2>2
<1>4. ASSUME NEW i \in 1..Size, StopChannel(i) PROVE TypeOK' /\ LockInv'
  <2>1. StreamPointers' \in Seq(Streams)
    BY <1>4, WithoutSeq DEF StopChannel, TypeOK, Size
  <2>2. StreamPointers[i] \in Streams
    BY <1>4 DEF TypeOK, Size
  <2>3. reap' \in [Threads -> SUBSET Streams]
    BY <1>4, <2>2, SMTT(40) DEF StopChannel, TypeOK
  <2>4. TypeOK'
    BY <1>4, <2>1, <2>3 DEF StopChannel, TypeOK
  <2>5. LockInv'
    BY <1>4 DEF StopChannel, LockInv
  <2> QED BY <2>4, <2>5
<1>5. ASSUME NEW to \in {"stopping", "clearing"}, ClearStreams(to) PROVE TypeOK' /\ LockInv'
  <2>a. clientUp' \subseteq Streams
    BY <1>5 DEF ClearStreams, TypeOK
  <2>b. reap' \in [Threads -> SUBSET Streams]
    <3> DEFINE R == {s \in Streams : InList(s) /\ ~ Held(s)}
    <3>1. R \in SUBSET Streams
      OBVIOUS
    <3>2. reap' = [reap EXCEPT ![Main] = @ \cup R]
      BY <1>5 DEF ClearStreams
    <3> HIDE DEF R
    <3> QED BY <3>1, <3>2 DEF TypeOK
  <2>0. /\ clientUp' \subseteq Streams
        /\ reap' \in [Threads -> SUBSET Streams]
        /\ StreamPointers' \in Seq(Streams)
        /\ main' \in {"stopping", "clearing"}
    BY <1>5, <2>a, <2>b DEF ClearStreams
  <2>1. TypeOK'
    BY <1>5, <2>0 DEF ClearStreams, TypeOK
  <2>2. LockInv'
    BY <1>5 DEF ClearStreams, LockInv
  <2> QED BY <2>1, <2>2
<1>6. ASSUME EraseDone PROVE TypeOK' /\ LockInv'
  BY <1>6 DEF EraseDone, TypeOK, LockInv
<1>7. ASSUME Exit PROVE TypeOK' /\ LockInv'
  BY <1>7 DEF Exit, TypeOK, LockInv
<1>8. ASSUME NEW w \in Workers, StopWorker(w) PROVE TypeOK' /\ LockInv'
  BY <1>8 DEF StopWorker, TypeOK, LockInv
<1>9. ASSUME NEW i \in 1..Size, EraseFailed(i) PROVE TypeOK' /\ LockInv'
  <2>1. StreamPointers' \in Seq(Streams)
    BY <1>9, WithoutSeq DEF EraseFailed, TypeOK, Size
  <2>2. StreamPointers[i] \in Streams
    BY <1>9 DEF TypeOK, Size
  <2>3. reap' \in [Threads -> SUBSET Streams]
    BY <1>9, <2>2 DEF EraseFailed, TypeOK
  <2>4. TypeOK'
    BY <1>9, <2>1, <2>3 DEF EraseFailed, TypeOK
  <2>5. LockInv'
    BY <1>9 DEF EraseFailed, LockInv
  <2> QED BY <2>4, <2>5
<1>10. ASSUME StatusChecked PROVE TypeOK' /\ LockInv'
  BY <1>10 DEF StatusChecked, TypeOK, LockInv
<1>11. ASSUME NEW s \in Streams, Update(s) PROVE TypeOK' /\ LockInv'
  <2>1. produced' \in [Streams -> Nat]
    <3>1. produced[s] + 1 \in Nat
      <4>1. produced[s] \in Nat
        BY DEF TypeOK
      <4> QED BY <4>1
    <3>2. produced' = [produced EXCEPT ![s] = produced[s] + 1]
      BY <1>11 DEF Update
    <3> QED BY <3>1, <3>2 DEF TypeOK
  <2>2. TypeOK'
    BY <1>11, <2>1, ZenonT(40) DEF Update, TypeOK
  <2>3. LockInv'
    BY <1>11 DEF Update, LockInv
  <2> QED BY <2>2, <2>3
<1>12. ASSUME NEW s \in Streams, ClientError(s) PROVE TypeOK' /\ LockInv'
  BY <1>12, SMTT(40) DEF ClientError, TypeOK, LockInv
<1>13. ASSUME NEW t \in Threads, NEW p \in Paths, DestroyPath(t, p) PROVE TypeOK' /\ LockInv'
  BY <1>13, SMTT(40) DEF DestroyPath, TypeOK, LockInv
<1>14. ASSUME NEW w \in Workers, Loop(w) PROVE TypeOK' /\ LockInv'
  <2>1. TypeOK'
    BY <1>14, ZenonT(40) DEF Loop, Goto, TypeOK, WorkerPCs
  <2>2. LockInv'
    <3>1. CASE pc' = [pc EXCEPT ![w] = "done"] /\ mx' = mx
      BY <1>14, <3>1 DEF Loop, TypeOK, LockInv, Filling
    <3>2. CASE pc' = [pc EXCEPT ![w] = "drain"] /\ mx' = mx
      BY <1>14, <3>2 DEF Loop, TypeOK, LockInv, Filling
    <3>3. CASE mx = NoOne /\ mx' = w /\ pc' = [pc EXCEPT ![w] = "size"]
      BY <1>14, <3>3 DEF Loop, TypeOK, LockInv, Filling
    <3> QED BY <1>14, <3>1, <3>2, <3>3 DEF Loop, Goto
  <2> QED BY <2>1, <2>2
<1>15. ASSUME NEW w \in Workers, CheckSize(w) PROVE TypeOK' /\ LockInv'
  <2>1. TypeOK'
    BY <1>15 DEF CheckSize, Goto, TypeOK, WorkerPCs
  <2>2. LockInv'
    <3>1. CASE pc' = [pc EXCEPT ![w] = "drain"] /\ mx' = NoOne
      BY <1>15, <3>1 DEF CheckSize, TypeOK, LockInv, Filling
    <3>2. CASE pc' = [pc EXCEPT ![w] = "lock"] /\ mx' = mx
      BY <1>15, <3>2 DEF CheckSize, TypeOK, LockInv, Filling
    <3> QED BY <1>15, <3>1, <3>2 DEF CheckSize, Goto
  <2> QED BY <2>1, <2>2
<1>16. ASSUME NEW w \in Workers, LockStreams(w) PROVE TypeOK' /\ LockInv'
  <2>1. TypeOK'
    BY <1>16 DEF LockStreams, Goto, TypeOK, WorkerPCs
  <2>2. LockInv'
    BY <1>16 DEF LockStreams, Goto, TypeOK, LockInv, Filling
  <2> QED BY <2>1, <2>2
<1>17. ASSUME NEW w \in Workers, ResetSid(w) PROVE TypeOK' /\ LockInv'
  <2>1. TypeOK'
    BY <1>17, BoundsAssumption DEF ResetSid, Goto, TypeOK, WorkerPCs, Size
  <2>2. LockInv'
    BY <1>17 DEF ResetSid, Goto, TypeOK, LockInv, Filling
  <2> QED BY <2>1, <2>2
<1>18. ASSUME NEW w \in Workers, GetStream(w) PROVE TypeOK' /\ LockInv'
  <2>1. CASE sid < Size
    <3> DEFINE s == StreamPointers[sid + 1]
    <3>1. s \in Streams
      <4>1. StreamPointers \in Seq(Streams) /\ sid \in Nat
        BY DEF TypeOK
      <4>2. sid + 1 \in 1..Len(StreamPointers)
        BY <2>1, <4>1 DEF Size
      <4> QED BY <4>1, <4>2
    <3> HIDE DEF s
    <3>2. /\ cur' = [cur EXCEPT ![w] = s]
          /\ budget' = [budget EXCEPT ![w] = produced[s] - taken[s]]
      BY <1>18, <2>1 DEF GetStream, s
    <3>a. /\ UNCHANGED <<StreamPointers, StreamsMutex, streams_mutex, mx, sid, sid0, room,
                         do_run, produced, taken, queue, hand, emitted, transit, marked,
                         main, adding, created, npaths, clientUp, failed, reap, dead, fault>>
          /\ last' = [last EXCEPT ![w] = 0]
          /\ pc' = [pc EXCEPT ![w] = "fill"]
          /\ pc[w] = "get"
      BY <1>18, <2>1 DEF GetStream, Goto
    <3>b. /\ cur' \in [Workers -> Streams \cup {NoStream}]
          /\ last' \in [Workers -> Nat]
          /\ pc' \in [Workers -> WorkerPCs]
      BY <3>1, <3>2, <3>a DEF TypeOK, WorkerPCs
    <3>c. budget' \in [Workers -> Int]
      <4>1. produced[s] \in Nat /\ taken[s] \in Nat
        BY <3>1 DEF TypeOK
      <4>2. produced[s] - taken[s] \in Int
        BY <4>1
      <4> QED BY <4>2, <3>2 DEF TypeOK
    <3>3. TypeOK'
      BY <3>a, <3>b, <3>c, ZenonT(40) DEF TypeOK
    <3>4. LockInv'
      BY <3>a, <3>1, <3>2 DEF TypeOK, LockInv, Filling
    <3> QED BY <3>3, <3>4
  <2>2. CASE ~ (sid < Size)
    BY <1>18, <2>2 DEF GetStream, TypeOK, LockInv
  <2> QED BY <2>1, <2>2
<1>19. ASSUME NEW w \in Workers, FillOne(w) PROVE TypeOK' /\ LockInv'
  <2>1. cur[w] \in Streams
    BY <1>19 DEF FillOne, LockInv, TypeOK
  <2>2. taken[cur[w]] + 1 \in Nat \ {0}
    <3>1. taken[cur[w]] \in Nat
      BY <2>1 DEF TypeOK
    <3> QED BY <3>1
  <2>3. queue' \in [Workers -> Seq(Packets)]
    <3> DEFINE batch == [i \in 1..npaths[cur[w]] |-> <<<<cur[w], i>>, taken[cur[w]] + 1>>]
    <3>1. batch \in Seq(Packets)
      BY <2>1, <2>2, BatchSeq
    <3>2. queue' = [queue EXCEPT ![w] = queue[w] \o batch]
      BY <1>19 DEF FillOne
    <3> HIDE DEF batch
    <3>3. queue \in [Workers -> Seq(Packets)]
      BY DEF TypeOK
    <3> QED BY <3>1, <3>2, <3>3
  <2>4. room' \in [Workers -> Nat] /\ budget' \in [Workers -> Int]
    <3>1. /\ room[w] \in Nat /\ npaths[cur[w]] \in Nat /\ room[w] >= npaths[cur[w]]
          /\ budget[w] \in Int
      BY <1>19, <2>1 DEF FillOne, MayDequeue, TypeOK
    <3>2. room[w] - npaths[cur[w]] \in Nat /\ budget[w] - 1 \in Int
      BY <3>1
    <3>3. /\ room' = [room EXCEPT ![w] = room[w] - npaths[cur[w]]]
          /\ budget' = [budget EXCEPT ![w] = budget[w] - 1]
      BY <1>19 DEF FillOne
    <3> QED BY <3>2, <3>3 DEF TypeOK
  <2>5. TypeOK'
    BY <1>19, <2>1, <2>2, <2>3, <2>4, ZenonT(40) DEF FillOne, TypeOK
  <2>6. LockInv'
    BY <1>19 DEF FillOne, LockInv
  <2> QED BY <2>5, <2>6
<1>20. ASSUME NEW w \in Workers, FillDone(w) PROVE TypeOK' /\ LockInv'
  <2>1. cur[w] \in Streams
    BY <1>20 DEF FillDone, LockInv, TypeOK
  <2>2. marked' \subseteq Packets
    <3>1. CASE last[w] = 0
      BY <1>20, <3>1 DEF FillDone, TypeOK
    <3>2. CASE last[w] # 0
      <4>1. last[w] \in Nat \ {0} /\ PathsOf(cur[w]) \subseteq Paths
        BY <3>2, <2>1, PathsOfInPaths DEF TypeOK
      <4>2. marked' = marked \cup {<<p, last[w]>> : p \in PathsOf(cur[w])}
        BY <1>20, <3>2 DEF FillDone
      <4>3. \A p \in PathsOf(cur[w]) : <<p, last[w]>> \in Packets
        BY <4>1 DEF Packets
      <4> QED BY <4>2, <4>3 DEF TypeOK
    <3> QED BY <3>1, <3>2
  <2>3. transit' \in [Paths -> Int]
    BY <1>20 DEF FillDone, TypeOK
  <2>4. TypeOK'
    <3>1. /\ pc' \in [Workers -> WorkerPCs]
          /\ budget' \in [Workers -> Int]
          /\ last' \in [Workers -> Nat]
      BY <1>20, SMTT(40) DEF FillDone, Goto, TypeOK, WorkerPCs
    <3> QED BY <1>20, <2>2, <2>3, <3>1, ZenonT(40) DEF FillDone, TypeOK
  <2>5. LockInv'
    BY <1>20 DEF FillDone, Goto, TypeOK, LockInv, Filling
  <2> QED BY <2>4, <2>5
<1>21. ASSUME NEW w \in Workers, DropStream(w) PROVE TypeOK' /\ LockInv'
  <2>1. cur[w] \in Streams
    BY <1>21 DEF DropStream, LockInv, TypeOK
  <2>2. TypeOK'
    <3>1. /\ pc' \in [Workers -> WorkerPCs]
          /\ cur' \in [Workers -> Streams \cup {NoStream}]
      BY <1>21 DEF DropStream, Goto, TypeOK, WorkerPCs
    <3>2. reap' \in [Threads -> SUBSET Streams] /\ clientUp' \subseteq Streams
      <4>1. \/ reap' = reap /\ clientUp' = clientUp
            \/ reap' = [reap EXCEPT ![w] = @ \cup {cur[w]}] /\ clientUp' = clientUp \ {cur[w]}
        BY <1>21 DEF DropStream
      <4>2. {cur[w]} \in SUBSET Streams
        BY <2>1
      <4>3. clientUp' \subseteq Streams
        BY <4>1 DEF TypeOK
      <4>4. reap' \in [Threads -> SUBSET Streams]
        <5>1. CASE reap' = reap
          BY <5>1 DEF TypeOK
        <5>2. CASE reap' = [reap EXCEPT ![w] = @ \cup {cur[w]}]
          <6>1. reap[w] \cup {cur[w]} \in SUBSET Streams
            BY <4>2 DEF TypeOK
          <6> QED BY <5>2, <6>1 DEF TypeOK
        <5> QED BY <4>1, <5>1, <5>2
      <4> QED BY <4>3, <4>4
    <3> QED BY <1>21, <3>1, <3>2, ZenonT(40) DEF DropStream, TypeOK
  <2>3. LockInv'
    BY <1>21 DEF DropStream, Goto, TypeOK, LockInv, Filling
  <2> QED BY <2>2, <2>3
<1>22. ASSUME NEW w \in Workers, NextStream(w) PROVE TypeOK' /\ LockInv'
  <2>1. TypeOK'
    <3>1. sid' \in Nat
      BY <1>22 DEF NextStream, TypeOK
    <3>2. reap' \in [Threads -> SUBSET Streams]
      BY <1>22 DEF NextStream, TypeOK
    <3>3. /\ pc' \in [Workers -> WorkerPCs]
          /\ sid0' \in [Workers -> Nat] /\ room' \in [Workers -> Nat]
          /\ mx' \in Workers \cup {NoOne} /\ streams_mutex' \in Workers \cup {Main, NoOne}
      <4>1. CASE /\ pc' = [pc EXCEPT ![w] = "drain"] /\ mx' = NoOne /\ streams_mutex' = NoOne
                 /\ sid0' = [sid0 EXCEPT ![w] = 0] /\ room' = [room EXCEPT ![w] = 0]
        BY <4>1 DEF TypeOK, WorkerPCs
      <4>2. CASE pc' = [pc EXCEPT ![w] = "get"] /\ UNCHANGED <<mx, streams_mutex, sid0, room>>
        BY <4>2 DEF TypeOK, WorkerPCs
      <4> QED BY <1>22, <4>1, <4>2 DEF NextStream, Goto
    <3> QED BY <1>22, <3>1, <3>2, <3>3 DEF NextStream, TypeOK
  <2>2. LockInv'
    BY <1>22, SMTT(40) DEF NextStream, Goto, TypeOK, LockInv, Filling
  <2> QED BY <2>1, <2>2
<1>23. ASSUME NEW w \in Workers, EmitPacket(w) PROVE TypeOK' /\ LockInv'
  <2>1. Head(queue[w]) \in Packets /\ Tail(queue[w]) \in Seq(Packets)
    <3>1. queue[w] \in Seq(Packets) /\ queue[w] # <<>>
      BY <1>23 DEF EmitPacket, TypeOK
    <3> QED BY <3>1, HeadTailProperties
  <2>2. Head(queue[w])[1] \in Paths /\ Head(queue[w])[2] \in Nat \ {0}
    BY <2>1 DEF Packets
  <2>3. emitted' \in [Paths -> Seq(Nat \ {0})]
    <3>1. emitted \in [Paths -> Seq(Nat \ {0})]
      BY DEF TypeOK
    <3>2. emitted' = [emitted EXCEPT ![Head(queue[w])[1]] = Append(@, Head(queue[w])[2])]
      BY <1>23 DEF EmitPacket
    <3>3. Append(emitted[Head(queue[w])[1]], Head(queue[w])[2]) \in Seq(Nat \ {0})
      <4>1. emitted[Head(queue[w])[1]] \in Seq(Nat \ {0})
        BY <3>1, <2>2, Zenon
      <4> QED BY <4>1, <2>2, AppendProperties
    <3> QED BY <3>1, <3>2, <3>3, <2>2, ZenonT(40)
  <2>4. TypeOK'
    BY <1>23, <2>1, <2>3, ZenonT(40) DEF EmitPacket, Goto, TypeOK, WorkerPCs
  <2>5. LockInv'
    BY <1>23, <2>1, NoPacketIsNone DEF EmitPacket, Goto, TypeOK, LockInv, Filling
  <2> QED BY <2>4, <2>5
<1>24. ASSUME NEW w \in Workers, DestroyPacket(w) PROVE TypeOK' /\ LockInv'
  <2>1. transit' \in [Paths -> Int] /\ marked' \subseteq Packets
    <3>1. CASE hand[w] \in marked
      <4>1. hand[w][1] \in Paths
        BY <3>1 DEF TypeOK, Packets
      <4> QED BY <1>24, <3>1, <4>1, SMTT(40) DEF DestroyPacket, TypeOK
    <3>2. CASE hand[w] \notin marked
      BY <1>24, <3>2 DEF DestroyPacket, TypeOK
    <3> QED BY <3>1, <3>2
  <2>2. TypeOK'
    BY <1>24, <2>1, ZenonT(40) DEF DestroyPacket, Goto, TypeOK, WorkerPCs
  <2>3. LockInv'
    BY <1>24 DEF DestroyPacket, Goto, TypeOK, LockInv, Filling
  <2> QED BY <2>2, <2>3
<1>25. ASSUME NEW w \in Workers, Drained(w) PROVE TypeOK' /\ LockInv'
  <2>1. TypeOK'
    BY <1>25, ZenonT(40) DEF Drained, Goto, TypeOK, WorkerPCs
  <2>2. LockInv'
    BY <1>25 DEF Drained, Goto, TypeOK, LockInv, Filling
  <2> QED BY <2>1, <2>2
<1>26. CASE UNCHANGED vars
  BY <1>26 DEF TypeOK, LockInv
<1> QED
  BY <1>1, <1>2, <1>3, <1>4, <1>5, <1>6, <1>7, <1>8, <1>9, <1>10, <1>11, <1>12,
     <1>13, <1>14, <1>15, <1>16, <1>17, <1>18, <1>19, <1>20, <1>21, <1>22,
     <1>23, <1>24, <1>25, <1>26
  DEF Next, WorkerStep, MainStep, Command, StatusStep, Epics, Ended,
      StopAllChannels, Shutdown

\* The state of the core always has its types; used by every other proof.
THEOREM TypeCorrect == Spec => [](TypeOK /\ LockInv)
BY InitType, NextType, PTL DEF Spec
-----------------------------------------------------------------------------
\* Erasing the i-th of distinct elements removes exactly that element.
LEMMA WithoutDistinct ==
  ASSUME NEW S, NEW q \in Seq(S), NEW i \in 1..Len(q),
         \A a, b \in 1..Len(q) : q[a] = q[b] => a = b
  PROVE  LET r == Without(q, i) IN
         /\ \A a \in 1..Len(r) : r[a] # q[i] /\ \E b \in 1..Len(q) : r[a] = q[b]
         /\ \A a, b \in 1..Len(r) : r[a] = r[b] => a = b
<1> DEFINE r == Without(q, i)
<1>1. /\ Len(r) = Len(q) - 1
      /\ \A j \in 1..(Len(q) - 1) : r[j] = IF j < i THEN q[j] ELSE q[j + 1]
  BY WithoutSeq
<1> HIDE DEF r
<1>2. ASSUME NEW a \in 1..Len(r)
      PROVE  r[a] # q[i] /\ \E b \in 1..Len(q) : r[a] = q[b]
  <2>1. CASE a < i
    BY <2>1, <1>1
  <2>2. CASE ~ (a < i)
    <3>1. r[a] = q[a + 1] /\ a + 1 \in 1..Len(q) /\ a + 1 # i
      BY <2>2, <1>1
    <3> QED BY <3>1
  <2> QED BY <2>1, <2>2
<1>3. ASSUME NEW a \in 1..Len(r), NEW b \in 1..Len(r), r[a] = r[b]
      PROVE  a = b
  <2> DEFINE f(x) == IF x < i THEN x ELSE x + 1
  <2>1. f(a) \in 1..Len(q) /\ f(b) \in 1..Len(q)
    BY <1>1
  <2>2. r[a] = q[f(a)] /\ r[b] = q[f(b)]
    BY <1>1
  <2>3. f(a) = f(b)
    BY <1>3, <2>1, <2>2
  <2> QED BY <2>3
<1> QED BY <1>2, <1>3 DEF r

\* The variables that the life of streams and paths depends on.
lifeVars == <<StreamPointers, created, adding, cur, reap, dead, npaths>>

\* Steps that leave the streams alone keep the life of streams and paths.
LEMMA LifeUnchanged ==
  LifeInv /\ UNCHANGED lifeVars => LifeInv'
BY DEF lifeVars, LifeInv, InList, Held, Size

\* While addMapping or a worker's fill holds streams_mutex, no other thread
\* has a shared_ptr of its own.
LEMMA SoleHolder ==
  ASSUME TypeOK, LockInv
  PROVE  /\ adding # NoStream => \A w \in Workers : cur[w] = NoStream
         /\ \A w, v \in Workers : cur[w] # NoStream /\ cur[v] # NoStream => w = v
         /\ \A w \in Workers : pc[w] \in {"get", "fill", "drop", "next"} =>
              /\ adding = NoStream
              /\ \A v \in Workers \ {w} : cur[v] = NoStream
BY ThreadsAssumption, ZenonT(40) DEF TypeOK, LockInv, Filling, Threads

\* No stream and no path exist at first.
LEMMA InitLife == Init => LifeInv
BY StreamsAssumption DEF Init, LifeInv, Size, InList, Held

\* Every step keeps what is known of the life of streams and paths.
LEMMA NextLife == TypeOK /\ LockInv /\ LifeInv /\ [Next]_vars => LifeInv'
<1> SUFFICES ASSUME TypeOK, LockInv, LifeInv, [Next]_vars
             PROVE  LifeInv'
  OBVIOUS
<1> USE ThreadsAssumption, StreamsAssumption
<1>a. /\ StreamPointers \in Seq(Streams)
      /\ \A i, j \in 1..Len(StreamPointers) : StreamPointers[i] = StreamPointers[j] => i = j
  BY DEF TypeOK, LifeInv, Size
<1>1. ASSUME NEW s \in Streams, AddStream(s) PROVE LifeInv'
  <2>1. /\ StreamPointers' = Append(StreamPointers, s)
        /\ created' = created \cup {s} /\ s \notin created
        /\ adding = NoStream /\ adding' = s
        /\ UNCHANGED <<cur, reap, dead, npaths>>
    BY <1>1 DEF AddStream
  <2>2. /\ Len(StreamPointers') = Len(StreamPointers) + 1
        /\ StreamPointers'[Len(StreamPointers) + 1] = s
        /\ \A i \in 1..Len(StreamPointers) : StreamPointers'[i] = StreamPointers[i]
    BY <2>1, <1>a
  <2>3. \A x \in Streams : InList(x)' => InList(x) \/ x = s
    BY <2>2, <1>a DEF InList, Size
  <2>4. \A x \in Streams : Held(x)' => Held(x) \/ x = s
    BY <2>1 DEF Held
  <2>5. /\ \A i \in 1..Size' : StreamPointers'[i] \in created'
        /\ \A i, j \in 1..Size' : StreamPointers'[i] = StreamPointers'[j] => i = j
    BY <2>1, <2>2, <1>a DEF LifeInv, Size
  <2>6. \A x \in Streams : Held(x)' => x \in created'
    BY <2>1, <2>4 DEF LifeInv
  <2>7. \A t \in Threads : \A x \in reap'[t] : x \in created' /\ ~ InList(x)' /\ ~ Held(x)'
    BY <2>1, <2>3, <2>4 DEF LifeInv, TypeOK
  <2>8. \A p \in dead' : p[1] \in created' /\ ~ InList(p[1])' /\ ~ Held(p[1])'
    BY <2>1, <2>3, <2>4, PathStream DEF LifeInv, TypeOK
  <2>9. \A x \in Streams : (x \notin created' \/ adding' = x) => npaths'[x] = 0
    BY <2>1 DEF LifeInv
  <2> QED BY <2>5, <2>6, <2>7, <2>8, <2>9 DEF LifeInv
<1>2. ASSUME adding # NoStream, NEW n \in 0..Converters[adding], AddConverters(n)
      PROVE  LifeInv'
  <2>0. adding \in Streams /\ adding \in created
    BY <1>2 DEF TypeOK, LifeInv, Held
  <2>1. /\ npaths' = [npaths EXCEPT ![adding] = n] /\ adding' = NoStream
        /\ UNCHANGED <<StreamPointers, created, cur, reap>>
    BY <1>2 DEF AddConverters
  <2>2. \A x \in Streams : ~ Held(x)'
    BY <2>1, <1>2, SoleHolder DEF Held
  <2>3. \A x \in Streams : InList(x)' <=> InList(x)
    BY <2>1 DEF InList, Size
  <2>4. \A p \in dead' : p[1] \in created /\ ~ InList(p[1])
    <3>1. CASE InList(adding)
      BY <1>2, <3>1 DEF AddConverters, LifeInv
    <3>2. CASE ~ InList(adding)
      <4>1. dead' = dead \cup {<<adding, i>> : i \in 1..n}
        BY <1>2, <3>2 DEF AddConverters
      <4> QED BY <4>1, <3>2, <2>0 DEF LifeInv
    <3> QED BY <3>1, <3>2
  <2>5. \A p \in dead' : p[1] \in Streams
    BY <2>4 DEF TypeOK
  <2>6. \A x \in Streams : (x \notin created' \/ adding' = x) => npaths'[x] = 0
    BY <2>0, <2>1 DEF LifeInv, TypeOK
  <2>7. \A t \in Threads : \A x \in reap'[t] : x \in created' /\ ~ InList(x)' /\ ~ Held(x)'
    BY <2>1, <2>2, <2>3 DEF LifeInv, TypeOK
  <2>8. \A p \in dead' : p[1] \in created' /\ ~ InList(p[1])' /\ ~ Held(p[1])'
    BY <2>1, <2>2, <2>3, <2>4, <2>5
  <2>9. /\ \A i \in 1..Size' : StreamPointers'[i] \in created'
        /\ \A i, j \in 1..Size' : StreamPointers'[i] = StreamPointers'[j] => i = j
    BY <2>1 DEF LifeInv, Size
  <2> QED BY <2>2, <2>6, <2>7, <2>8, <2>9 DEF LifeInv
<1>3. ASSUME NEW i \in 1..Size, NEW t \in {Main, Status},
             StreamPointers' = Without(StreamPointers, i),
             \/ reap' = [reap EXCEPT ![t] = @ \cup {StreamPointers[i]}] /\ ~ Held(StreamPointers[i])
             \/ reap' = reap,
             UNCHANGED <<created, adding, cur, dead, npaths>>
      PROVE  LifeInv'
  <2>0. PICK s \in Streams : s = StreamPointers[i]
    BY <1>a DEF Size
  <2>1. s \in Streams /\ s \in created /\ InList(s)
    BY <1>a, <2>0 DEF Size, LifeInv, InList
  <2>2. /\ \A a \in 1..Size' : StreamPointers'[a] # s /\ \E b \in 1..Size : StreamPointers'[a] = StreamPointers[b]
        /\ \A a, b \in 1..Size' : StreamPointers'[a] = StreamPointers'[b] => a = b
    <3>1. i \in 1..Len(StreamPointers)
      BY DEF Size
    <3> DEFINE q == StreamPointers
               r == Without(q, i)
    <3>2. /\ \A a \in 1..Len(r) : r[a] # q[i] /\ \E b \in 1..Len(q) : r[a] = q[b]
          /\ \A a, b \in 1..Len(r) : r[a] = r[b] => a = b
      BY <3>1, <1>a, WithoutDistinct
    <3>3. StreamPointers' = r
      BY <1>3
    <3> HIDE DEF r
    <3> QED BY <3>2, <3>3, <2>0 DEF Size
  <2>3. ~ InList(s)' /\ \A x \in Streams : InList(x)' => InList(x)
    BY <2>2 DEF InList
  <2>4. \A x \in Streams : Held(x)' <=> Held(x)
    BY <1>3 DEF Held
  <2>5. \A a \in 1..Size' : StreamPointers'[a] \in created'
    BY <1>3, <2>2 DEF LifeInv
  <2>6. \A u \in Threads : \A x \in reap'[u] : x \in Streams /\ x \in created' /\ ~ InList(x)' /\ ~ Held(x)'
    <3> SUFFICES ASSUME NEW u \in Threads, NEW x \in reap'[u]
                 PROVE  x \in Streams /\ x \in created' /\ ~ InList(x)' /\ ~ Held(x)'
      OBVIOUS
    <3>1. CASE x \in reap[u]
      BY <3>1, <1>3, <2>3, <2>4 DEF LifeInv, TypeOK
    <3>2. CASE x \notin reap[u]
      <4>1. x = s /\ ~ Held(s)
        <5>1. reap' = [reap EXCEPT ![t] = @ \cup {s}] /\ ~ Held(s)
          BY <1>3, <3>2, <2>0
        <5>2. reap'[u] \subseteq reap[u] \cup {s}
          BY <5>1 DEF TypeOK
        <5> QED BY <5>1, <5>2, <3>2
      <4> QED BY <4>1, <2>1, <2>3, <2>4, <1>3
    <3> QED BY <3>1, <3>2
  <2>7. \A p \in dead' : p[1] \in created' /\ ~ InList(p[1])' /\ ~ Held(p[1])'
    BY <1>3, <2>3, <2>4, PathStream DEF LifeInv, TypeOK
  <2>8. \A x \in Streams : Held(x)' => x \in created'
    BY <1>3, <2>4 DEF LifeInv
  <2>9. \A x \in Streams : (x \notin created' \/ adding' = x) => npaths'[x] = 0
    BY <1>3 DEF LifeInv
  <2> QED BY <2>2, <2>5, <2>6, <2>7, <2>8, <2>9 DEF LifeInv
<1>4. ASSUME NEW i \in 1..Size, StopChannel(i) PROVE LifeInv'
  <2>1. /\ StreamPointers' = Without(StreamPointers, i)
        /\ \/ reap' = [reap EXCEPT ![Main] = @ \cup {StreamPointers[i]}] /\ ~ Held(StreamPointers[i])
           \/ reap' = reap
        /\ UNCHANGED <<created, adding, cur, dead, npaths>>
    BY <1>4 DEF StopChannel
  <2> QED BY <2>1, <1>3
<1>5. ASSUME NEW i \in 1..Size, EraseFailed(i) PROVE LifeInv'
  <2>1. CASE Held(StreamPointers[i])
    <3>1. /\ StreamPointers' = Without(StreamPointers, i)
          /\ reap' = reap
          /\ UNCHANGED <<created, adding, cur, dead, npaths>>
      BY <1>5, <2>1 DEF EraseFailed, TypeOK
    <3> QED BY <3>1, <1>3
  <2>2. CASE ~ Held(StreamPointers[i])
    <3>1. /\ StreamPointers' = Without(StreamPointers, i)
          /\ reap' = [reap EXCEPT ![Status] = @ \cup {StreamPointers[i]}]
          /\ UNCHANGED <<created, adding, cur, dead, npaths>>
      BY <1>5, <2>2 DEF EraseFailed
    <3> QED BY <3>1, <2>2, <1>3
  <2> QED BY <2>1, <2>2
<1>6. ASSUME NEW to \in {"stopping", "clearing"}, ClearStreams(to) PROVE LifeInv'
  <2> DEFINE R == {s \in Streams : InList(s) /\ ~ Held(s)}
  <2>1. /\ StreamPointers' = <<>>
        /\ reap' = [reap EXCEPT ![Main] = @ \cup R]
        /\ UNCHANGED <<created, adding, cur, dead, npaths>>
    BY <1>6 DEF ClearStreams
  <2>2. \A x \in R : x \in Streams /\ x \in created /\ ~ Held(x)
    BY DEF LifeInv, InList
  <2> HIDE DEF R
  <2>3. Size' = 0 /\ \A x \in Streams : ~ InList(x)'
    BY <2>1 DEF InList, Size
  <2>4. \A x \in Streams : Held(x)' <=> Held(x)
    BY <2>1 DEF Held
  <2>5. \A u \in Threads : \A x \in reap'[u] : x \in Streams /\ x \in created' /\ ~ InList(x)' /\ ~ Held(x)'
    <3> SUFFICES ASSUME NEW u \in Threads, NEW x \in reap'[u]
                 PROVE  x \in Streams /\ x \in created /\ ~ Held(x)
      BY <2>1, <2>3, <2>4
    <3>1. x \in reap[u] \/ x \in R
      BY <2>1 DEF TypeOK
    <3> QED BY <3>1, <2>2 DEF LifeInv, TypeOK
  <2>6. \A p \in dead' : p[1] \in created' /\ ~ InList(p[1])' /\ ~ Held(p[1])'
    BY <2>1, <2>3, <2>4, PathStream DEF LifeInv, TypeOK
  <2>7. \A x \in Streams : Held(x)' => x \in created'
    BY <2>1, <2>4 DEF LifeInv
  <2>8. \A x \in Streams : (x \notin created' \/ adding' = x) => npaths'[x] = 0
    BY <2>1 DEF LifeInv
  <2> QED BY <2>3, <2>5, <2>6, <2>7, <2>8 DEF LifeInv
<1>7. ASSUME NEW t \in Threads, reap' = [reap EXCEPT ![t] = {}],
             UNCHANGED <<StreamPointers, created, adding, cur, dead, npaths>>
      PROVE  LifeInv'
  <2>1. \A u \in Threads : reap'[u] \subseteq reap[u]
    BY <1>7 DEF TypeOK
  <2> QED BY <2>1, <1>7 DEF LifeInv, InList, Held, Size
<1>8. ASSUME NEW t \in Threads, NEW p \in Paths, DestroyPath(t, p) PROVE LifeInv'
  <2>1. /\ dead' = dead \cup {p} /\ p[1] \in reap[t]
        /\ UNCHANGED <<StreamPointers, created, adding, cur, reap, npaths>>
    BY <1>8 DEF DestroyPath
  <2>2. p[1] \in created /\ ~ InList(p[1]) /\ ~ Held(p[1])
    BY <2>1 DEF LifeInv
  <2> QED BY <2>1, <2>2 DEF LifeInv, InList, Held, Size
<1>9. ASSUME NEW w \in Workers, GetStream(w) PROVE LifeInv'
  <2>1. CASE sid < Size
    <3> DEFINE s == StreamPointers[sid + 1]
    <3>1. s \in Streams /\ s \in created /\ InList(s)
      <4>1. sid + 1 \in 1..Size
        BY <2>1, <1>a DEF TypeOK, Size
      <4> QED BY <4>1, <1>a DEF LifeInv, InList, Size
    <3>2. /\ cur' = [cur EXCEPT ![w] = s]
          /\ UNCHANGED <<StreamPointers, created, adding, reap, dead, npaths>>
      BY <1>9, <2>1 DEF GetStream
    <3> HIDE DEF s
    <3>3. \A x \in Streams : Held(x)' => Held(x) \/ x = s
      BY <3>2 DEF Held, TypeOK
    <3>4. \A x \in Streams : InList(x)' <=> InList(x)
      BY <3>2 DEF InList, Size
    <3>5. \A u \in Threads : \A x \in reap'[u] : x \in created' /\ ~ InList(x)' /\ ~ Held(x)'
      BY <3>1, <3>2, <3>3, <3>4 DEF LifeInv, TypeOK
    <3>6. \A p \in dead' : p[1] \in created' /\ ~ InList(p[1])' /\ ~ Held(p[1])'
      BY <3>1, <3>2, <3>3, <3>4, PathStream DEF LifeInv, TypeOK
    <3>7. \A x \in Streams : Held(x)' => x \in created'
      BY <3>1, <3>2, <3>3 DEF LifeInv
    <3>8. /\ \A i \in 1..Size' : StreamPointers'[i] \in created'
          /\ \A i, j \in 1..Size' : StreamPointers'[i] = StreamPointers'[j] => i = j
      BY <3>2 DEF LifeInv, Size
    <3>9. \A x \in Streams : (x \notin created' \/ adding' = x) => npaths'[x] = 0
      BY <3>2 DEF LifeInv
    <3> QED BY <3>5, <3>6, <3>7, <3>8, <3>9 DEF LifeInv
  <2>2. CASE ~ (sid < Size)
    BY <1>9, <2>2, LifeUnchanged DEF GetStream, lifeVars
  <2> QED BY <2>1, <2>2
<1>10. ASSUME NEW w \in Workers, DropStream(w) PROVE LifeInv'
  <2> DEFINE s == cur[w]
  <2>0. s \in Streams /\ s \in created /\ Held(s)
    BY <1>10 DEF DropStream, LockInv, TypeOK, LifeInv, Held
  <2>1. /\ cur' = [cur EXCEPT ![w] = NoStream]
        /\ \/ reap' = reap
           \/ reap' = [reap EXCEPT ![w] = @ \cup {s}] /\ ~ InList(s)
        /\ UNCHANGED <<StreamPointers, created, adding, dead, npaths>>
    BY <1>10 DEF DropStream
  <2>2. adding = NoStream /\ \A v \in Workers \ {w} : cur[v] = NoStream
    BY <1>10, SoleHolder DEF DropStream
  <2>3. \A x \in Streams : ~ Held(x)'
    BY <2>1, <2>2 DEF Held, TypeOK
  <2> HIDE DEF s
  <2>4. \A x \in Streams : InList(x)' <=> InList(x)
    BY <2>1 DEF InList, Size
  <2>5. \A u \in Threads : \A x \in reap'[u] : x \in Streams /\ x \in created' /\ ~ InList(x)' /\ ~ Held(x)'
    <3> SUFFICES ASSUME NEW u \in Threads, NEW x \in reap'[u]
                 PROVE  x \in Streams /\ x \in created /\ ~ InList(x)
      BY <2>1, <2>3, <2>4
    <3>1. x \in reap[u] \/ (x = s /\ ~ InList(s))
      <4>1. CASE reap' = reap
        BY <4>1
      <4>2. CASE reap' = [reap EXCEPT ![w] = @ \cup {s}] /\ ~ InList(s)
        BY <4>2 DEF TypeOK
      <4> QED BY <2>1, <4>1, <4>2
    <3> QED BY <3>1, <2>0 DEF LifeInv, TypeOK
  <2>6. \A p \in dead' : p[1] \in created' /\ ~ InList(p[1])' /\ ~ Held(p[1])'
    BY <2>1, <2>3, <2>4, PathStream DEF LifeInv, TypeOK
  <2>7. /\ \A i \in 1..Size' : StreamPointers'[i] \in created'
        /\ \A i, j \in 1..Size' : StreamPointers'[i] = StreamPointers'[j] => i = j
        /\ \A x \in Streams : (x \notin created' \/ adding' = x) => npaths'[x] = 0
    BY <2>1 DEF LifeInv, Size
  <2> QED BY <2>3, <2>5, <2>6, <2>7 DEF LifeInv
<1>11. ASSUME NEW w \in Workers, NextStream(w) PROVE LifeInv'
  <2>1. /\ reap' = [reap EXCEPT ![w] = {}]
        /\ UNCHANGED <<StreamPointers, created, adding, cur, dead, npaths>>
    BY <1>11 DEF NextStream
  <2> QED BY <2>1, <1>7 DEF Threads
<1>12. ASSUME EraseDone PROVE LifeInv'
  <2>1. /\ reap' = [reap EXCEPT ![Main] = {}]
        /\ UNCHANGED <<StreamPointers, created, adding, cur, dead, npaths>>
    BY <1>12 DEF EraseDone
  <2> QED BY <2>1, <1>7 DEF Threads
<1>13. ASSUME StatusChecked PROVE LifeInv'
  <2>1. /\ reap' = [reap EXCEPT ![Status] = {}]
        /\ UNCHANGED <<StreamPointers, created, adding, cur, dead, npaths>>
    BY <1>13 DEF StatusChecked
  <2> QED BY <2>1, <1>7 DEF Threads
<1>14. ASSUME NEW w \in Workers,
              \/ StopWorker(w) \/ Loop(w) \/ CheckSize(w) \/ LockStreams(w) \/ ResetSid(w)
              \/ FillOne(w) \/ FillDone(w) \/ EmitPacket(w) \/ DestroyPacket(w) \/ Drained(w)
       PROVE  UNCHANGED lifeVars
  BY <1>14 DEF lifeVars, StopWorker, Loop, CheckSize, LockStreams, ResetSid, FillOne,
     FillDone, EmitPacket, DestroyPacket, Drained
<1>15. ASSUME \/ Start \/ Exit \/ UNCHANGED vars
              \/ \E s \in Streams : Update(s) \/ ClientError(s)
       PROVE  UNCHANGED lifeVars
  BY <1>15 DEF lifeVars, Start, Exit, Update, ClientError
<1> QED
  BY <1>1, <1>2, <1>4, <1>5, <1>6, <1>8, <1>9, <1>10, <1>11, <1>12,
     <1>13, <1>14, <1>15, LifeUnchanged
  DEF Next, WorkerStep, MainStep, Command, StatusStep, Epics, Ended,
      StopAllChannels, Shutdown
-----------------------------------------------------------------------------
FlowInv == PacketInv /\ GuardInv /\ MarkInv

\* Packets are packets: their two components have their types.
LEMMA KnownPackets ==
  ASSUME TypeOK
  PROVE  /\ Known \subseteq Packets
         /\ \A k \in Packets : k[1] \in Paths /\ k[2] \in Nat \ {0} /\ k = <<k[1], k[2]>>
         /\ \A w \in Workers : \A j \in 1..Len(queue[w]) :
              queue[w][j] \in Known /\ queue[w][j] \in Packets
         /\ \A w \in Workers : hand[w] # NoPacket => hand[w] \in Known /\ hand[w] \in Packets
<1>1. \A w \in Workers : \A j \in 1..Len(queue[w]) : queue[w][j] \in Packets
  BY DEF TypeOK
<1>2. \A w \in Workers : hand[w] # NoPacket => hand[w] \in Packets
  BY DEF TypeOK
<1>3. \A w \in Workers : Carried(w) \subseteq Packets
  BY <1>1, <1>2 DEF Carried, InQueue
<1>4. Known \subseteq Packets
  BY <1>3 DEF Known
<1>5. \A k \in Packets : k[1] \in Paths /\ k[2] \in Nat \ {0} /\ k = <<k[1], k[2]>>
  BY DEF Packets
<1>6. \A w \in Workers : Carried(w) \subseteq Known
  BY DEF Known
<1>7. \A w \in Workers : \A j \in 1..Len(queue[w]) : queue[w][j] \in Carried(w)
  BY DEF Carried, InQueue
<1>8. \A w \in Workers : hand[w] # NoPacket => hand[w] \in Carried(w)
  BY DEF Carried
<1> QED BY <1>1, <1>2, <1>4, <1>5, <1>6, <1>7, <1>8

\* A step that moves no packet and marks nothing keeps the packet invariants.
LEMMA QuietStep ==
  ASSUME FlowInv,
         UNCHANGED <<queue, hand, marked, taken, npaths, transit, dead>>,
         \A w \in Workers : Marking(w)' <=> Marking(w),
         \A w \in Workers : Marking(w) => cur'[w] = cur[w] /\ last'[w] = last[w]
  PROVE  FlowInv'
<1>1. \A w \in Workers : Carried(w)' = Carried(w) /\ InQueue(w)' = InQueue(w)
  BY DEF Carried, InQueue
<1>2. Known' = Known
  BY <1>1 DEF Known
<1>3. \A s : PathsOf(s)' = PathsOf(s)
  BY DEF PathsOf
<1>4. PacketInv'
  <2>1. \A k \in Known' : k[1] \in PathsOf(k[1][1])' /\ k[2] <= taken'[k[1][1]]
    BY <1>2, <1>3 DEF FlowInv, PacketInv
  <2> QED BY <2>1 DEF FlowInv, PacketInv
<1>5. \A w \in Workers : \A m : Guards(w, m)' <=> Guards(w, m)
  BY DEF Guards
<1>6. GuardInv'
  BY <1>5 DEF FlowInv, GuardInv
<1>7. \A p : Counted(p)' = Counted(p)
  BY DEF Counted
<1>8. MarkInv'
  <2>1. \A p \in Paths : IsFiniteSet(Counted(p)') /\ transit'[p] = Cardinality(Counted(p)')
    BY <1>7 DEF FlowInv, MarkInv
  <2>2. \A w \in Workers : Marking(w)' =>
          /\ last'[w] <= taken'[cur'[w]]
          /\ \A p \in PathsOf(cur[w])' : <<p, last'[w]>> \in InQueue(w)'
          /\ \A k \in marked' : ~ (k[1][1] = cur'[w] /\ k[2] = last'[w])
    <3> SUFFICES ASSUME NEW w \in Workers, Marking(w)'
                 PROVE  /\ last'[w] <= taken'[cur'[w]]
                        /\ \A p \in PathsOf(cur[w])' : <<p, last'[w]>> \in InQueue(w)'
                        /\ \A k \in marked' : ~ (k[1][1] = cur'[w] /\ k[2] = last'[w])
      OBVIOUS
    <3>1. Marking(w) /\ cur'[w] = cur[w] /\ last'[w] = last[w]
      OBVIOUS
    <3>2. PathsOf(cur[w])' = PathsOf(cur[w])
      BY <3>1 DEF PathsOf
    <3> QED BY <3>1, <3>2, <1>1 DEF FlowInv, MarkInv
  <2>3. marked' \subseteq Known' /\ \A k \in marked' : k[1] \notin dead'
    BY <1>2 DEF FlowInv, MarkInv
  <2> QED BY <2>1, <2>2, <2>3 DEF MarkInv
<1> QED BY <1>4, <1>6, <1>8 DEF FlowInv

\* A path that ~ConversionPath sees with transit 0 has no marked packet.
LEMMA ZeroTransit ==
  ASSUME MarkInv, NEW p \in Paths, transit[p] = 0
  PROVE  \A k \in marked : k[1] # p
<1>1. Counted(p) = {}
  BY FS_EmptySet DEF MarkInv
<1> QED BY <1>1 DEF Counted

\* The destruction of a path waits for its transit counter, so it leaves the
\* flow of packets alone.
LEMMA DestroyPathFlow ==
  ASSUME TypeOK, FlowInv, NEW t \in Threads, NEW p \in Paths, DestroyPath(t, p)
  PROVE  FlowInv'
<1>1. /\ transit[p] = 0 /\ dead' = dead \cup {p}
      /\ UNCHANGED <<queue, hand, marked, taken, npaths, transit, pc, cur, last>>
  BY DEF DestroyPath
<1>2. \A k \in marked : k[1] \notin dead'
  BY <1>1, ZeroTransit DEF FlowInv, MarkInv
<1>3. PacketInv' /\ GuardInv'
  BY <1>1 DEF FlowInv, PacketInv, GuardInv, Known, Carried, InQueue, PathsOf, Guards, Marking
<1>4. MarkInv'
  <2>1. Known' = Known /\ \A q : Counted(q)' = Counted(q)
    BY <1>1 DEF Known, Carried, InQueue, Counted
  <2>2. \A w \in Workers : /\ Marking(w)' <=> Marking(w)
                          /\ InQueue(w)' = InQueue(w)
                          /\ PathsOf(cur[w])' = PathsOf(cur[w])
    BY <1>1 DEF Marking, InQueue, PathsOf
  <2> QED BY <1>1, <1>2, <2>1, <2>2 DEF FlowInv, MarkInv
<1> QED BY <1>3, <1>4 DEF FlowInv

\* Converters are added only to a stream that has had none, so no packet of
\* the stream exists yet.
LEMMA AddConvertersFlow ==
  ASSUME TypeOK, LockInv, LifeInv, FlowInv,
         adding # NoStream, NEW n \in 0..Converters[adding], AddConverters(n)
  PROVE  FlowInv'
<1>1. /\ npaths' = [npaths EXCEPT ![adding] = n]
      /\ dead' \subseteq dead \cup {<<adding, i>> : i \in 1..n}
      /\ UNCHANGED <<queue, hand, marked, taken, transit, pc, cur, last>>
  BY DEF AddConverters
<1>2. adding \in Streams /\ npaths[adding] = 0
  BY DEF TypeOK, LifeInv
<1>3. PathsOf(adding) = {}
  BY <1>2 DEF PathsOf
<1>4. \A s \in Streams : s # adding => PathsOf(s)' = PathsOf(s)
  BY <1>1, <1>2 DEF PathsOf, TypeOK
<1>5. /\ Known' = Known
      /\ \A q : Counted(q)' = Counted(q)
      /\ \A w \in Workers : Marking(w)' <=> Marking(w)
      /\ \A w \in Workers : \A m : Guards(w, m)' <=> Guards(w, m)
      /\ \A w \in Workers : InQueue(w)' = InQueue(w)
  BY <1>1 DEF Known, Carried, InQueue, Counted, Marking, Guards
<1>6. \A k \in Known : k[1][1] \in Streams /\ k[1][1] # adding
  <2>1. \A k \in Known : k[1] \in PathsOf(k[1][1])
    BY DEF FlowInv, PacketInv
  <2>2. \A k \in Known : k[1][1] \in Streams
    BY KnownPackets, PathStream
  <2> QED BY <2>1, <2>2, <1>3
<1>7. PacketInv'
  <2>1. \A k \in Known' : k[1] \in PathsOf(k[1][1])' /\ k[2] <= taken'[k[1][1]]
    BY <1>1, <1>4, <1>5, <1>6 DEF FlowInv, PacketInv
  <2> QED BY <2>1, <1>1 DEF FlowInv, PacketInv
<1>8. GuardInv'
  BY <1>1, <1>5 DEF FlowInv, GuardInv
<1>9. \A w \in Workers : ~ Marking(w)
  BY SoleHolder DEF LockInv, Marking
<1>10. \A k \in marked' : k[1] \notin dead'
  <2> SUFFICES ASSUME NEW k \in marked PROVE k[1] \notin dead'
    BY <1>1
  <2>1. k[1] \notin dead /\ k \in Known
    BY DEF FlowInv, MarkInv
  <2>2. k[1][1] # adding
    BY <2>1, <1>6
  <2> QED BY <2>1, <2>2, <1>1
<1>11. MarkInv'
  <2>1. \A p \in Paths : IsFiniteSet(Counted(p)') /\ transit'[p] = Cardinality(Counted(p)')
    BY <1>1, <1>5 DEF FlowInv, MarkInv
  <2>2. marked' \subseteq Known'
    BY <1>1, <1>5 DEF FlowInv, MarkInv
  <2> QED BY <2>1, <2>2, <1>5, <1>9, <1>10 DEF MarkInv
<1> QED BY <1>7, <1>8, <1>11 DEF FlowInv

\* fillConversionQueue dequeues one update and queues a packet per path.
LEMMA FillOneFlow ==
  ASSUME TypeOK, LockInv, LifeInv, FlowInv, NEW w \in Workers, FillOne(w)
  PROVE  FlowInv'
<1>1. PICK s \in Streams : s = cur[w]
  BY DEF FillOne, LockInv, TypeOK
<1>2. PICK n \in Nat \ {0} : n = taken[s] + 1
  <2>1. taken[s] \in Nat
    BY DEF TypeOK
  <2> QED BY <2>1
<1>3. PICK N \in Nat : N = npaths[s]
  BY DEF TypeOK
<1>4. PICK L \in Nat : L = Len(queue[w])
  BY DEF TypeOK
<1> DEFINE batch == [i \in 1..N |-> <<<<s, i>>, n>>]
<1>5. /\ pc[w] = "fill" /\ queue[w] \in Seq(Packets)
      /\ taken' = [taken EXCEPT ![s] = n]
      /\ queue' = [queue EXCEPT ![w] = queue[w] \o batch]
      /\ last' = [last EXCEPT ![w] = n]
      /\ UNCHANGED <<pc, cur, hand, marked, transit, npaths, dead>>
  BY <1>1, <1>2, <1>3 DEF FillOne, TypeOK
<1>6. batch \in Seq(Packets)
  BY <1>1, <1>3, BatchSeq
<1>7. /\ Len(queue'[w]) = L + N
      /\ \A j \in 1..L : queue'[w][j] = queue[w][j]
      /\ \A i \in 1..N : queue'[w][L + i] = <<<<s, i>>, n>>
      /\ \A j \in 1..(L + N) : j \notin 1..L => \E i \in 1..N : j = L + i
  <2>1. queue'[w] = queue[w] \o batch
    BY <1>5 DEF TypeOK
  <2>2. Len(batch) = N
    OBVIOUS
  <2>3. \A j \in 1..(L + N) : j \notin 1..L => \E i \in 1..N : j = L + i
    <3> SUFFICES ASSUME NEW j \in 1..(L + N), j \notin 1..L PROVE \E i \in 1..N : j = L + i
      OBVIOUS
    <3>1. j - L \in 1..N /\ j = L + (j - L)
      OBVIOUS
    <3> QED BY <3>1
  <2>4. \A i \in 1..N : batch[i] = <<<<s, i>>, n>>
    OBVIOUS
  <2> HIDE DEF batch
  <2>5. /\ Len(queue[w] \o batch) = L + N
        /\ \A j \in 1..L : (queue[w] \o batch)[j] = queue[w][j]
        /\ \A i \in 1..N : (queue[w] \o batch)[L + i] = batch[i]
    <3>1. /\ Len(queue[w] \o batch) = L + N
          /\ \A j \in 1..(L + N) : (queue[w] \o batch)[j] =
               IF j <= L THEN queue[w][j] ELSE batch[j - L]
      <4>1. queue[w] \in Seq(Packets) /\ batch \in Seq(Packets)
        BY <1>5, <1>6
      <4>2. /\ Len(queue[w] \o batch) = Len(queue[w]) + Len(batch)
            /\ \A j \in 1..(Len(queue[w]) + Len(batch)) : (queue[w] \o batch)[j] =
                 IF j <= Len(queue[w]) THEN queue[w][j] ELSE batch[j - Len(queue[w])]
        BY <4>1, ConcatProperties, ZenonT(40)
      <4> QED BY <1>4, <2>2, <4>2
    <3>2. \A i \in 1..N : L + i \in 1..(L + N) /\ ~ (L + i <= L) /\ (L + i) - L = i
      OBVIOUS
    <3>3. \A j \in 1..L : j \in 1..(L + N) /\ j <= L
      OBVIOUS
    <3> QED BY <3>1, <3>2, <3>3
  <2> QED BY <2>1, <2>3, <2>4, <2>5
<1> HIDE DEF batch
<1>8. /\ \A v \in Workers \ {w} : queue'[v] = queue[v] /\ last'[v] = last[v]
      /\ last'[w] = n
      /\ \A x \in Streams : taken'[x] = IF x = s THEN n ELSE taken[x]
      /\ Marking(w)'
      /\ \A v \in Workers \ {w} : ~ Marking(v) /\ ~ Marking(v)'
  <2>1. \A v \in Workers \ {w} : pc[v] # "fill"
    BY <1>5 DEF LockInv, Filling
  <2> QED BY <1>5, <2>1 DEF TypeOK, Marking
<1>9. \A x : PathsOf(x)' = PathsOf(x)
  BY <1>5 DEF PathsOf
\* every packet is an old one or a new one
<1>10. \A v \in Workers : \A j \in 1..Len(queue'[v]) :
          \/ j \in 1..Len(queue[v]) /\ queue'[v][j] = queue[v][j]
          \/ v = w /\ \E i \in 1..N : j = L + i /\ queue'[v][j] = <<<<s, i>>, n>>
  <2> SUFFICES ASSUME NEW v \in Workers, NEW j \in 1..Len(queue'[v])
               PROVE  \/ j \in 1..Len(queue[v]) /\ queue'[v][j] = queue[v][j]
                      \/ v = w /\ \E i \in 1..N : j = L + i /\ queue'[v][j] = <<<<s, i>>, n>>
    OBVIOUS
  <2>1. CASE v # w
    BY <2>1, <1>8
  <2>2. CASE v = w /\ j \in 1..L
    BY <2>2, <1>4, <1>7
  <2>3. CASE v = w /\ j \notin 1..L
    <3>1. PICK i \in 1..N : j = L + i
      BY <2>3, <1>7
    <3> QED BY <2>3, <3>1, <1>7
  <2> QED BY <2>1, <2>2, <2>3
<1>11. \A k \in Known : ~ (k[1][1] = s /\ k[2] = n)
  <2>1. \A k \in Known : k[2] <= taken[k[1][1]]
    BY DEF FlowInv, PacketInv
  <2>2. taken[s] \in Nat
    BY DEF TypeOK
  <2> QED BY <2>1, <2>2, <1>2
<1>12. Known' \subseteq Known \cup {<<<<s, i>>, n>> : i \in 1..N}
  <2>1. \A v \in Workers : InQueue(v)' \subseteq InQueue(v) \cup {<<<<s, i>>, n>> : i \in 1..N}
    BY <1>10 DEF InQueue
  <2> QED BY <2>1, <1>5 DEF Known, Carried
<1>13. Known \subseteq Known'
  <2>1. \A v \in Workers : \A j \in 1..Len(queue[v]) : j \in 1..Len(queue'[v]) /\ queue'[v][j] = queue[v][j]
    BY <1>4, <1>7, <1>8
  <2>2. \A v \in Workers : InQueue(v) \subseteq InQueue(v)'
    BY <2>1 DEF InQueue
  <2> QED BY <2>2, <1>5 DEF Known, Carried
<1>14. PacketInv'
  <2>1. ASSUME NEW k \in Known' PROVE k[1] \in PathsOf(k[1][1])' /\ k[2] <= taken'[k[1][1]]
    <3>1. CASE k \in Known
      <4>1. k[1] \in PathsOf(k[1][1]) /\ k[2] <= taken[k[1][1]]
        BY <3>1 DEF FlowInv, PacketInv
      <4>2. k[1][1] \in Streams /\ k[2] \in Nat
        BY <3>1, KnownPackets, PathStream
      <4>3. taken[k[1][1]] <= taken'[k[1][1]] /\ taken[k[1][1]] \in Nat /\ taken'[k[1][1]] \in Nat
        <5>1. taken[k[1][1]] \in Nat /\ taken[s] \in Nat
          BY <4>2 DEF TypeOK
        <5>2. CASE k[1][1] = s
          BY <5>1, <5>2, <1>2, <1>8
        <5>3. CASE k[1][1] # s
          BY <5>1, <5>3, <4>2, <1>8
        <5> QED BY <5>2, <5>3
      <4> QED BY <4>1, <4>2, <4>3, <1>9
    <3>2. CASE k \notin Known
      <4>1. PICK i \in 1..N : k = <<<<s, i>>, n>>
        BY <3>2, <1>12
      <4> QED BY <4>1, <1>3, <1>5, <1>8 DEF PathsOf
    <3> QED BY <3>1, <3>2
  <2>2. ASSUME NEW u \in Workers, NEW v \in Workers,
               NEW i \in 1..Len(queue'[u]), NEW j \in 1..Len(queue'[v]),
               queue'[u][i] = queue'[v][j]
        PROVE  u = v /\ i = j
    <3>1. CASE i \in 1..Len(queue[u]) /\ j \in 1..Len(queue[v]) /\ queue'[u][i] = queue[u][i] /\ queue'[v][j] = queue[v][j]
      <4>1. queue[u][i] = queue[v][j]
        BY <2>2, <3>1
      <4> QED BY <3>1, <4>1 DEF FlowInv, PacketInv
    <3>2. CASE /\ u = w /\ \E a \in 1..N : i = L + a /\ queue'[u][i] = <<<<s, a>>, n>>
               /\ v = w /\ \E a \in 1..N : j = L + a /\ queue'[v][j] = <<<<s, a>>, n>>
      BY <2>2, <3>2
    <3>3. CASE /\ i \in 1..Len(queue[u]) /\ queue'[u][i] = queue[u][i]
               /\ \E a \in 1..N : queue'[v][j] = <<<<s, a>>, n>>
      <4>1. queue[u][i] \in Known
        BY <3>3, KnownPackets
      <4> QED BY <2>2, <3>3, <4>1, <1>11
    <3>4. CASE /\ j \in 1..Len(queue[v]) /\ queue'[v][j] = queue[v][j]
               /\ \E a \in 1..N : queue'[u][i] = <<<<s, a>>, n>>
      <4>1. queue[v][j] \in Known
        BY <3>4, KnownPackets
      <4>2. PICK a \in 1..N : queue[v][j] = <<<<s, a>>, n>>
        BY <2>2, <3>4
      <4> QED BY <4>1, <4>2, <1>11
    <3> QED BY <3>1, <3>2, <3>3, <3>4, <1>10
  <2>3. ASSUME NEW u \in Workers, NEW v \in Workers, NEW j \in 1..Len(queue'[v])
        PROVE  hand'[u] # queue'[v][j]
    <3>1. CASE j \in 1..Len(queue[v]) /\ queue'[v][j] = queue[v][j]
      BY <3>1, <1>5 DEF FlowInv, PacketInv
    <3>2. CASE \E a \in 1..N : queue'[v][j] = <<<<s, a>>, n>>
      <4>1. hand[u] = NoPacket \/ hand[u] \in Known
        BY KnownPackets
      <4>2. PICK a \in 1..N : queue'[v][j] = <<<<s, a>>, n>>
        BY <3>2
      <4>3. <<<<s, a>>, n>> \notin Known
        BY <4>2, <1>11
      <4>4. <<<<s, a>>, n>> # NoPacket
        BY DEF NoPacket
      <4>5. hand'[u] = hand[u]
        BY <1>5
      <4> QED BY <4>1, <4>2, <4>3, <4>4, <4>5
    <3> QED BY <3>1, <3>2, <1>10
  <2>4. \A u, v \in Workers : hand'[u] = hand'[v] /\ hand'[u] # NoPacket => u = v
    BY <1>5 DEF FlowInv, PacketInv
  <2> QED BY <2>1, <2>2, <2>3, <2>4 DEF PacketInv
<1>15. GuardInv'
  <2>1. ASSUME NEW v \in Workers \ {w}, NEW m
        PROVE  Guards(v, m)' <=> Guards(v, m)
    BY <1>5, <1>8 DEF Guards
  <2>2. ASSUME NEW v \in Workers \ {w}
        PROVE  /\ \A j \in 1..Len(queue'[v]) : \E m \in j..Len(queue'[v]) :
                    queue'[v][m][1] = queue'[v][j][1] /\ Guards(v, m)'
               /\ hand'[v] # NoPacket => \/ hand'[v] \in marked'
                                       \/ \E m \in 1..Len(queue'[v]) :
                                            queue'[v][m][1] = hand'[v][1] /\ Guards(v, m)'
    BY <2>1, <1>5, <1>8 DEF FlowInv, GuardInv
  <2>3. \A i \in 1..N : Guards(w, L + i)' /\ queue'[w][L + i][1] = <<s, i>>
    <3> SUFFICES ASSUME NEW i \in 1..N
                 PROVE  Guards(w, L + i)' /\ queue'[w][L + i][1] = <<s, i>>
      OBVIOUS
    <3>1. queue'[w][L + i] = <<<<s, i>>, n>>
      BY <1>7
    <3>2. Marking(w)' /\ last'[w] = n /\ cur'[w] = s
      BY <1>1, <1>5, <1>8
    <3> QED BY <3>1, <3>2 DEF Guards
  <2>4. ASSUME NEW j \in 1..Len(queue'[w])
        PROVE  \E m \in j..Len(queue'[w]) : queue'[w][m][1] = queue'[w][j][1] /\ Guards(w, m)'
    <3>1. CASE j \in 1..L
      <4>1. PICK m \in j..L : queue[w][m][1] = queue[w][j][1] /\ Guards(w, m)
        BY <3>1, <1>4 DEF FlowInv, GuardInv
      <4>2. m \in 1..L /\ queue'[w][m] = queue[w][m] /\ queue'[w][j] = queue[w][j]
        BY <3>1, <1>7
      <4>3. CASE queue[w][m] \in marked
        <5>1. Guards(w, m)' /\ queue'[w][m][1] = queue'[w][j][1]
          BY <4>1, <4>2, <4>3, <1>5 DEF Guards
        <5>2. m \in j..Len(queue'[w])
          BY <1>7, <4>1
        <5> QED BY <5>1, <5>2
      <4>4. CASE queue[w][m][1][1] = cur[w]
        <5>1. queue[w][m][1] \in PathsOf(s)
          BY <4>2, <4>4, <1>1, <1>4, KnownPackets DEF FlowInv, PacketInv
        <5>2. PICK i \in 1..N : queue[w][m][1] = <<s, i>>
          BY <5>1, <1>3 DEF PathsOf
        <5>3. queue'[w][L + i][1] = queue'[w][j][1] /\ Guards(w, L + i)'
          BY <5>2, <2>3, <4>1, <4>2
        <5>4. L + i \in j..Len(queue'[w])
          BY <1>7, <3>1
        <5> QED BY <5>3, <5>4
      <4> QED BY <4>1, <4>3, <4>4 DEF Guards
    <3>2. CASE j \notin 1..L
      <4>1. PICK i \in 1..N : j = L + i
        BY <3>2, <1>7
      <4>2. j \in j..Len(queue'[w])
        BY <1>7
      <4> QED BY <4>1, <4>2, <2>3
    <3> QED BY <3>1, <3>2
  <2>5. hand'[w] = NoPacket
    BY <1>5 DEF LockInv
  <2> QED BY <2>2, <2>4, <2>5, SMTT(40) DEF GuardInv
<1>16. MarkInv'
  <2>1. marked' \subseteq Known'
    BY <1>5, <1>13 DEF FlowInv, MarkInv
  <2>2. \A p \in Paths : IsFiniteSet(Counted(p)') /\ transit'[p] = Cardinality(Counted(p)')
    BY <1>5 DEF FlowInv, MarkInv, Counted
  <2>3. \A k \in marked' : k[1] \notin dead'
    BY <1>5 DEF FlowInv, MarkInv
  <2>4. last'[w] <= taken'[cur'[w]]
    BY <1>1, <1>5, <1>8
  <2>5. \A p \in PathsOf(cur[w])' : <<p, last'[w]>> \in InQueue(w)'
    <3> SUFFICES ASSUME NEW i \in 1..N PROVE <<<<s, i>>, n>> \in InQueue(w)'
      BY <1>1, <1>3, <1>5, <1>8 DEF PathsOf
    <3>1. L + i \in 1..Len(queue'[w]) /\ queue'[w][L + i] = <<<<s, i>>, n>>
      <4>1. Len(queue'[w]) = L + N
        BY <1>7
      <4>2. L + i \in 1..(L + N)
        OBVIOUS
      <4> QED BY <4>1, <4>2, <1>7
    <3> QED BY <3>1 DEF InQueue
  <2>6. \A k \in marked' : ~ (k[1][1] = cur'[w] /\ k[2] = last'[w])
    BY <1>1, <1>5, <1>8, <1>11 DEF FlowInv, MarkInv
  <2> QED BY <2>1, <2>2, <2>3, <2>4, <2>5, <2>6, <1>8 DEF MarkInv
<1> QED BY <1>14, <1>15, <1>16 DEF FlowInv

\* fillConversionQueue marks the last packet of each path and counts it.
LEMMA FillDoneFlow ==
  ASSUME TypeOK, LockInv, LifeInv, FlowInv, NEW w \in Workers, FillDone(w)
  PROVE  FlowInv'
<1>1. PICK s \in Streams : s = cur[w]
  BY DEF FillDone, LockInv, TypeOK
<1>2. /\ pc[w] = "fill" /\ pc' = [pc EXCEPT ![w] = "drop"]
      /\ last' = [last EXCEPT ![w] = 0]
      /\ UNCHANGED <<cur, queue, hand, taken, npaths, dead>>
  BY DEF FillDone, Goto
<1>3. /\ ~ Marking(w)'
      /\ \A v \in Workers \ {w} : ~ Marking(v) /\ ~ Marking(v)'
  <2>1. \A v \in Workers \ {w} : pc[v] # "fill"
    BY <1>2 DEF LockInv, Filling
  <2> QED BY <1>2, <2>1 DEF TypeOK, Marking
<1>4. CASE last[w] = 0
  <2>1. marked' = marked /\ transit' = transit
    <3>1. marked' = marked
      BY <1>4 DEF FillDone
    <3>2. transit' = [p \in Paths |-> transit[p]]
      BY <1>4 DEF FillDone
    <3> QED BY <3>1, <3>2 DEF TypeOK
  <2>2. \A v \in Workers : ~ Marking(v) /\ ~ Marking(v)'
    BY <1>3, <1>4 DEF Marking
  <2> QED BY <2>1, <2>2, <1>2, QuietStep
<1>5. CASE last[w] # 0
  <2>1. PICK n \in Nat \ {0} : n = last[w]
    BY <1>5 DEF TypeOK
  <2>2. /\ marked' = marked \cup {<<p, n>> : p \in PathsOf(s)}
        /\ transit' = [p \in Paths |-> IF p \in PathsOf(s) THEN transit[p] + 1 ELSE transit[p]]
    BY <1>1, <1>5, <2>1 DEF FillDone
  <2>3. /\ \A p \in PathsOf(s) : <<p, n>> \in InQueue(w)
        /\ \A k \in marked : ~ (k[1][1] = s /\ k[2] = n)
    BY <1>1, <1>2, <1>5, <2>1 DEF FlowInv, MarkInv, Marking
  <2>4. /\ Known' = Known
        /\ \A x : PathsOf(x)' = PathsOf(x)
    BY <1>2 DEF Known, Carried, InQueue, PathsOf
  <2>5. PathsOf(s) \subseteq Paths /\ \A p \in PathsOf(s) : p[1] = s
    BY PathsOfInPaths DEF PathsOf
  <2>6. PacketInv'
    <3>1. \A k \in Known' : k[1] \in PathsOf(k[1][1])' /\ k[2] <= taken'[k[1][1]]
      BY <1>2, <2>4 DEF FlowInv, PacketInv
    <3> QED BY <3>1, <1>2 DEF FlowInv, PacketInv
  <2>7. \A v \in Workers : \A m \in 1..Len(queue[v]) : Guards(v, m) => Guards(v, m)'
    <3> SUFFICES ASSUME NEW v \in Workers, NEW m \in 1..Len(queue[v]), Guards(v, m)
                 PROVE  queue[v][m] \in marked'
      BY <1>2 DEF Guards
    <3>1. CASE queue[v][m] \in marked
      BY <3>1, <2>2
    <3>2. CASE queue[v][m] \notin marked
      <4>1. v = w /\ queue[v][m][1][1] = s /\ queue[v][m][2] = n
        BY <3>2, <1>1, <1>3, <2>1 DEF Guards
      <4>2. queue[v][m] \in Known /\ queue[v][m] = <<queue[v][m][1], queue[v][m][2]>>
        BY KnownPackets
      <4>3. queue[v][m][1] \in PathsOf(s)
        BY <4>1, <4>2 DEF FlowInv, PacketInv
      <4>4. queue[v][m] = <<queue[v][m][1], n>>
        BY <4>1, <4>2
      <4> QED BY <4>3, <4>4, <2>2
    <3> QED BY <3>1, <3>2
  <2>8. GuardInv'
    <3> SUFFICES ASSUME NEW v \in Workers
                 PROVE  /\ \A j \in 1..Len(queue[v]) : \E m \in j..Len(queue[v]) :
                             queue[v][m][1] = queue[v][j][1] /\ Guards(v, m)'
                        /\ hand[v] # NoPacket => \/ hand[v] \in marked'
                                               \/ \E m \in 1..Len(queue[v]) :
                                                   queue[v][m][1] = hand[v][1] /\ Guards(v, m)'
      BY <1>2 DEF GuardInv
    <3>1. ASSUME NEW j \in 1..Len(queue[v])
          PROVE  \E m \in j..Len(queue[v]) : queue[v][m][1] = queue[v][j][1] /\ Guards(v, m)'
      <4>1. PICK m \in j..Len(queue[v]) : queue[v][m][1] = queue[v][j][1] /\ Guards(v, m)
        BY DEF FlowInv, GuardInv
      <4>2. m \in 1..Len(queue[v])
        BY DEF TypeOK
      <4> QED BY <4>1, <4>2, <2>7
    <3>2. hand[v] \in marked => hand[v] \in marked'
      BY <2>2
    <3> QED BY <3>1, <3>2, <2>7 DEF FlowInv, GuardInv
  <2>9. ASSUME NEW p \in Paths
        PROVE  IsFiniteSet(Counted(p)') /\ transit'[p] = Cardinality(Counted(p)')
    <3>1. IsFiniteSet(Counted(p)) /\ transit[p] = Cardinality(Counted(p))
      BY DEF FlowInv, MarkInv
    <3>2. CASE p \in PathsOf(s)
      <4>1. Counted(p)' = Counted(p) \cup {<<p, n>>}
        BY <3>2, <2>2 DEF Counted
      <4>2. <<p, n>> \notin Counted(p)
        BY <3>2, <2>3, <2>5 DEF Counted
      <4>3. transit'[p] = transit[p] + 1
        BY <3>2, <2>2
      <4> QED BY <3>1, <4>1, <4>2, <4>3, FS_AddElement
    <3>3. CASE p \notin PathsOf(s)
      <4>1. Counted(p)' = Counted(p)
        BY <3>3, <2>2 DEF Counted
      <4>2. transit'[p] = transit[p]
        BY <3>3, <2>2
      <4> QED BY <3>1, <4>1, <4>2
    <3> QED BY <3>2, <3>3
  <2>10. marked' \subseteq Known'
    BY <2>2, <2>3, <2>4 DEF FlowInv, MarkInv, Known, Carried
  <2>11. \A k \in marked' : k[1] \notin dead'
    <3>1. \A p \in PathsOf(s) : p \notin dead
      BY <1>1, <2>5 DEF LifeInv, Held
    <3> QED BY <3>1, <1>2, <2>2 DEF FlowInv, MarkInv
  <2>12. \A v \in Workers : ~ Marking(v)'
    BY <1>3
  <2>13. MarkInv'
    BY <2>9, <2>10, <2>11, <2>12 DEF MarkInv
  <2> QED BY <2>6, <2>8, <2>13 DEF FlowInv
<1> QED BY <1>4, <1>5

\* A worker takes the first packet of its queue in its hands.
LEMMA EmitPacketFlow ==
  ASSUME TypeOK, LockInv, FlowInv, NEW w \in Workers, EmitPacket(w)
  PROVE  FlowInv'
<1>1. PICK L \in Nat \ {0} : L = Len(queue[w])
  BY DEF EmitPacket, TypeOK
<1>2. PICK h \in Packets : h = queue[w][1]
  BY <1>1, KnownPackets
<1>3. /\ pc[w] = "drain" /\ pc' = [pc EXCEPT ![w] = "packet"]
      /\ hand[w] = NoPacket
      /\ hand' = [hand EXCEPT ![w] = h]
      /\ queue' = [queue EXCEPT ![w] = Tail(queue[w])]
      /\ UNCHANGED <<cur, last, taken, npaths, dead, marked, transit>>
  BY <1>1, <1>2 DEF EmitPacket, Goto, LockInv, TypeOK
<1>4. /\ Len(queue'[w]) = L - 1
      /\ \A j \in 1..(L - 1) : queue'[w][j] = queue[w][j + 1] /\ j + 1 \in 1..L
      /\ \A v \in Workers \ {w} : queue'[v] = queue[v] /\ hand'[v] = hand[v]
      /\ hand'[w] = h
  <2>1. queue[w] \in Seq(Packets) /\ queue[w] # <<>>
    BY DEF EmitPacket, TypeOK
  <2>2. /\ Len(Tail(queue[w])) = L - 1
        /\ \A j \in 1..(L - 1) : Tail(queue[w])[j] = queue[w][j + 1]
    BY <2>1, <1>1, HeadTailProperties
  <2>3. \A j \in 1..(L - 1) : j + 1 \in 1..L
    OBVIOUS
  <2>4. queue'[w] = Tail(queue[w])
    BY <1>3 DEF TypeOK
  <2> QED BY <1>3, <2>2, <2>3, <2>4 DEF TypeOK
<1>5. \A v \in Workers : (Marking(v)' <=> Marking(v)) /\ ~ Marking(w)
  BY <1>3 DEF Marking, TypeOK
<1>6. \A v \in Workers : \A j \in 1..Len(queue'[v]) : \E i \in 1..Len(queue[v]) :
        queue'[v][j] = queue[v][i] /\ i = (IF v = w THEN j + 1 ELSE j)
  BY <1>1, <1>4
<1>7. Known' = Known
  <2>1. \A v \in Workers \ {w} : Carried(v)' = Carried(v)
    BY <1>4 DEF Carried, InQueue
  <2>2. InQueue(w) = InQueue(w)' \cup {h}
    <3>1. \A i \in 1..L : i = 1 \/ (i - 1 \in 1..(L - 1) /\ queue[w][i] = queue'[w][i - 1])
      BY <1>4
    <3>2. ASSUME NEW k \in InQueue(w), k # h PROVE k \in InQueue(w)'
      <4>1. PICK i \in 1..L : k = queue[w][i]
        BY <3>2, <1>1 DEF InQueue
      <4>2. i - 1 \in 1..(L - 1) /\ k = queue'[w][i - 1]
        BY <4>1, <3>1, <3>2, <1>2
      <4> QED BY <4>2, <1>4 DEF InQueue
    <3>3. InQueue(w)' \subseteq InQueue(w)
      BY <1>1, <1>4 DEF InQueue
    <3>4. h \in InQueue(w)
      BY <1>1, <1>2 DEF InQueue
    <3> QED BY <3>2, <3>3, <3>4
  <2>3. h # NoPacket
    BY NoPacketIsNone
  <2>4. Carried(w)' = Carried(w)
    BY <1>3, <1>4, <2>2, <2>3 DEF Carried
  <2> QED BY <2>1, <2>4 DEF Known
<1>8. \A x : PathsOf(x)' = PathsOf(x)
  BY <1>3 DEF PathsOf
<1>9. PacketInv'
  <2>1. \A k \in Known' : k[1] \in PathsOf(k[1][1])' /\ k[2] <= taken'[k[1][1]]
    BY <1>3, <1>7, <1>8 DEF FlowInv, PacketInv
  <2>2. ASSUME NEW u \in Workers, NEW v \in Workers,
               NEW i \in 1..Len(queue'[u]), NEW j \in 1..Len(queue'[v]),
               queue'[u][i] = queue'[v][j]
        PROVE  u = v /\ i = j
    <3>1. PICK a \in 1..Len(queue[u]) : queue'[u][i] = queue[u][a] /\ a = (IF u = w THEN i + 1 ELSE i)
      BY <1>6
    <3>2. PICK b \in 1..Len(queue[v]) : queue'[v][j] = queue[v][b] /\ b = (IF v = w THEN j + 1 ELSE j)
      BY <1>6
    <3>0. queue[u][a] = queue[v][b]
      BY <2>2, <3>1, <3>2
    <3>3. u = v /\ a = b
      BY <3>0 DEF FlowInv, PacketInv
    <3> QED BY <3>1, <3>2, <3>3
  <2>3. ASSUME NEW u \in Workers, NEW v \in Workers, NEW j \in 1..Len(queue'[v])
        PROVE  hand'[u] # queue'[v][j]
    <3>1. PICK b \in 1..Len(queue[v]) : queue'[v][j] = queue[v][b] /\ b = (IF v = w THEN j + 1 ELSE j)
      BY <1>6
    <3>2. CASE u # w
      BY <3>1, <3>2, <1>4 DEF FlowInv, PacketInv
    <3>3. CASE u = w
      <4>1. hand'[u] = queue[w][1] /\ 1 \in 1..Len(queue[w])
        BY <3>3, <1>1, <1>2, <1>4
      <4>2. ~ (v = w /\ b = 1)
        BY <3>1
      <4> QED BY <4>1, <4>2, <3>1 DEF FlowInv, PacketInv
    <3> QED BY <3>2, <3>3
  <2>4. ASSUME NEW u \in Workers, NEW v \in Workers, hand'[u] = hand'[v], hand'[u] # NoPacket
        PROVE  u = v
    <3>1. \A x \in Workers : hand[x] # h
      BY <1>1, <1>2 DEF FlowInv, PacketInv
    <3>2. CASE u # w /\ v # w
      <4>1. hand[u] = hand[v] /\ hand[u] # NoPacket
        BY <2>4, <3>2, <1>4
      <4> QED BY <4>1 DEF FlowInv, PacketInv
    <3>3. CASE u = w \/ v = w
      BY <2>4, <3>1, <3>3, <1>4
    <3> QED BY <3>2, <3>3
  <2> QED BY <2>1, <2>2, <2>3, <2>4 DEF PacketInv
<1>10. \A v \in Workers \ {w} : \A m : Guards(v, m)' <=> Guards(v, m)
  BY <1>3, <1>4, <1>5 DEF Guards
<1>11. \A m \in 1..L : Guards(w, m) <=> queue[w][m] \in marked
  BY <1>5 DEF Guards
<1>12. \A m \in 1..(L - 1) : Guards(w, m)' <=> queue'[w][m] \in marked
  BY <1>3, <1>5 DEF Guards
\* the guard of a packet moves one position forward
<1>13. ASSUME NEW j \in 1..L
      PROVE  \/ j = 1 /\ queue[w][1] \in marked
             \/ \E m \in 1..(L - 1) : m >= j - 1 /\ queue'[w][m][1] = queue[w][j][1] /\ Guards(w, m)'
  <2>1. PICK m \in j..L : queue[w][m][1] = queue[w][j][1] /\ Guards(w, m)
    BY <1>1 DEF FlowInv, GuardInv
  <2>2. m \in 1..L /\ queue[w][m] \in marked
    <3>1. m \in 1..L
      OBVIOUS
    <3> QED BY <3>1, <2>1, <1>11
  <2>3. CASE m = 1
    <3>1. j = 1
      BY <2>3
    <3> QED BY <3>1, <2>2, <2>3
  <2>4. CASE m # 1
    <3>1. m - 1 \in 1..(L - 1) /\ m - 1 >= j - 1 /\ (m - 1) + 1 = m
      BY <2>2, <2>4
    <3>2. queue'[w][m - 1] = queue[w][m]
      BY <3>1, <1>4
    <3>3. Guards(w, m - 1)'
      BY <3>1, <3>2, <2>2, <1>12
    <3>4. queue'[w][m - 1][1] = queue[w][j][1]
      BY <3>2, <2>1
    <3> QED BY <3>1, <3>3, <3>4
  <2> QED BY <2>3, <2>4
<1>14. GuardInv'
  <2>1. ASSUME NEW v \in Workers \ {w}
        PROVE  /\ \A j \in 1..Len(queue'[v]) : \E m \in j..Len(queue'[v]) :
                    queue'[v][m][1] = queue'[v][j][1] /\ Guards(v, m)'
               /\ hand'[v] # NoPacket => \/ hand'[v] \in marked'
                                       \/ \E m \in 1..Len(queue'[v]) :
                                            queue'[v][m][1] = hand'[v][1] /\ Guards(v, m)'
    BY <1>3, <1>4, <1>10 DEF FlowInv, GuardInv
  <2>2. ASSUME NEW j \in 1..(L - 1)
        PROVE  \E m \in j..(L - 1) : queue'[w][m][1] = queue'[w][j][1] /\ Guards(w, m)'
    <3>1. PICK i \in 1..L : i = j + 1
      OBVIOUS
    <3>2. queue'[w][j] = queue[w][i] /\ i # 1
      BY <3>1, <1>4
    <3>3. PICK m \in 1..(L - 1) : m >= i - 1 /\ queue'[w][m][1] = queue[w][i][1] /\ Guards(w, m)'
      BY <3>2, <1>13
    <3>4. m \in j..(L - 1)
      BY <3>1, <3>3
    <3> QED BY <3>2, <3>3, <3>4
  <2>3. \/ hand'[w] \in marked'
        \/ \E m \in 1..(L - 1) : queue'[w][m][1] = hand'[w][1] /\ Guards(w, m)'
    <3>1. 1 \in 1..L /\ hand'[w] = queue[w][1]
      BY <1>1, <1>2, <1>4
    <3>2. CASE queue[w][1] \in marked
      BY <3>1, <3>2, <1>3
    <3>3. CASE queue[w][1] \notin marked
      <4>1. PICK m \in 1..(L - 1) : queue'[w][m][1] = queue[w][1][1] /\ Guards(w, m)'
        BY <3>1, <3>3, <1>13
      <4> QED BY <4>1, <3>1
    <3> QED BY <3>2, <3>3
  <2>4. /\ \A j \in 1..Len(queue'[w]) : \E m \in j..Len(queue'[w]) :
             queue'[w][m][1] = queue'[w][j][1] /\ Guards(w, m)'
        /\ hand'[w] # NoPacket => \/ hand'[w] \in marked'
                                \/ \E m \in 1..Len(queue'[w]) :
                                     queue'[w][m][1] = hand'[w][1] /\ Guards(w, m)'
    BY <2>2, <2>3, <1>4
  <2> SUFFICES ASSUME NEW v \in Workers
               PROVE  /\ \A j \in 1..Len(queue'[v]) : \E m \in j..Len(queue'[v]) :
                           queue'[v][m][1] = queue'[v][j][1] /\ Guards(v, m)'
                      /\ hand'[v] # NoPacket => \/ hand'[v] \in marked'
                                              \/ \E m \in 1..Len(queue'[v]) :
                                                   queue'[v][m][1] = hand'[v][1] /\ Guards(v, m)'
    BY DEF GuardInv
  <2>5. CASE v = w
    BY <2>4, <2>5
  <2>6. CASE v # w
    BY <2>1, <2>6
  <2> QED BY <2>5, <2>6
<1>15. MarkInv'
  <2>1. \A p \in Paths : IsFiniteSet(Counted(p)') /\ transit'[p] = Cardinality(Counted(p)')
    BY <1>3 DEF FlowInv, MarkInv, Counted
  <2>2. marked' \subseteq Known' /\ \A k \in marked' : k[1] \notin dead'
    BY <1>3, <1>7 DEF FlowInv, MarkInv
  <2>3. ASSUME NEW v \in Workers, Marking(v)'
        PROVE  /\ last'[v] <= taken'[cur'[v]]
               /\ \A p \in PathsOf(cur[v])' : <<p, last'[v]>> \in InQueue(v)'
               /\ \A k \in marked' : ~ (k[1][1] = cur'[v] /\ k[2] = last'[v])
    <3>1. Marking(v) /\ v # w
      BY <2>3, <1>5
    <3>2. InQueue(v)' = InQueue(v) /\ PathsOf(cur[v])' = PathsOf(cur[v])
      BY <3>1, <1>3, <1>4 DEF InQueue, PathsOf
    <3> QED BY <3>1, <3>2, <1>3 DEF FlowInv, MarkInv
  <2> QED BY <2>1, <2>2, <2>3 DEF MarkInv
<1> QED BY <1>9, <1>14, <1>15 DEF FlowInv

\* ~ConversionWorkPacket gives back the transit count its packet carries; no
\* other packet relied on it.
LEMMA DestroyPacketFlow ==
  ASSUME TypeOK, LockInv, FlowInv, NEW w \in Workers, DestroyPacket(w)
  PROVE  FlowInv'
<1>1. PICK h \in Packets : h = hand[w] /\ h # NoPacket
  BY KnownPackets DEF DestroyPacket, LockInv
<1>2. /\ pc[w] = "packet" /\ pc' = [pc EXCEPT ![w] = "drain"]
      /\ hand' = [hand EXCEPT ![w] = NoPacket]
      /\ UNCHANGED <<queue, cur, last, taken, npaths, dead>>
      /\ marked' = marked \ {h}
  BY <1>1 DEF DestroyPacket, Goto
<1>3. /\ hand'[w] = NoPacket
      /\ \A v \in Workers \ {w} : hand'[v] = hand[v] /\ hand[v] # h
      /\ \A v \in Workers : \A j \in 1..Len(queue[v]) : queue[v][j] # h
  BY <1>1, <1>2, SMTT(40) DEF FlowInv, PacketInv, TypeOK
<1>4. \A v \in Workers : (Marking(v)' <=> Marking(v)) /\ InQueue(v)' = InQueue(v)
  BY <1>2 DEF Marking, TypeOK, InQueue
<1>5. \A x : PathsOf(x)' = PathsOf(x)
  BY <1>2 DEF PathsOf
<1>6. Known' \subseteq Known /\ Known \ {h} \subseteq Known'
  <2>1. \A v \in Workers : Carried(v)' \subseteq Carried(v) /\ Carried(v) \ {h} \subseteq Carried(v)'
    BY <1>1, <1>3, <1>4 DEF Carried
  <2> QED BY <2>1 DEF Known
<1>7. PacketInv'
  <2>1. \A k \in Known' : k[1] \in PathsOf(k[1][1])' /\ k[2] <= taken'[k[1][1]]
    BY <1>2, <1>5, <1>6 DEF FlowInv, PacketInv
  <2>2. ASSUME NEW u \in Workers, NEW v \in Workers, NEW j \in 1..Len(queue'[v])
        PROVE  hand'[u] # queue'[v][j]
    <3>1. queue'[v][j] \in Packets /\ queue'[v][j] = queue[v][j]
      BY <1>2, KnownPackets
    <3>2. CASE u = w
      BY <3>1, <3>2, <1>3, NoPacketIsNone
    <3>3. CASE u # w
      BY <3>1, <3>3, <1>2, <1>3 DEF FlowInv, PacketInv
    <3> QED BY <3>2, <3>3
  <2>3. \A u, v \in Workers : hand'[u] = hand'[v] /\ hand'[u] # NoPacket => u = v
    BY <1>3 DEF FlowInv, PacketInv
  <2>4. \A u, v \in Workers : \A i \in 1..Len(queue'[u]) : \A j \in 1..Len(queue'[v]) :
          queue'[u][i] = queue'[v][j] => u = v /\ i = j
    BY <1>2 DEF FlowInv, PacketInv
  <2> QED BY <2>1, <2>2, <2>3, <2>4 DEF PacketInv
<1>8. \A v \in Workers : \A m \in 1..Len(queue[v]) : Guards(v, m) => Guards(v, m)'
  BY <1>2, <1>3, <1>4 DEF Guards
<1>9. GuardInv'
  <2> SUFFICES ASSUME NEW v \in Workers
               PROVE  /\ \A j \in 1..Len(queue[v]) : \E m \in j..Len(queue[v]) :
                           queue[v][m][1] = queue[v][j][1] /\ Guards(v, m)'
                      /\ hand'[v] # NoPacket => \/ hand'[v] \in marked'
                                              \/ \E m \in 1..Len(queue[v]) :
                                                  queue[v][m][1] = hand'[v][1] /\ Guards(v, m)'
    BY <1>2 DEF GuardInv
  <2>1. ASSUME NEW j \in 1..Len(queue[v])
        PROVE  \E m \in j..Len(queue[v]) : queue[v][m][1] = queue[v][j][1] /\ Guards(v, m)'
    <3>1. PICK m \in j..Len(queue[v]) : queue[v][m][1] = queue[v][j][1] /\ Guards(v, m)
      BY DEF FlowInv, GuardInv
    <3>2. m \in 1..Len(queue[v])
      BY DEF TypeOK
    <3> QED BY <3>1, <3>2, <1>8
  <2>2. ASSUME hand'[v] # NoPacket
        PROVE  \/ hand'[v] \in marked'
               \/ \E m \in 1..Len(queue[v]) : queue[v][m][1] = hand'[v][1] /\ Guards(v, m)'
    <3>1. hand'[v] = hand[v] /\ hand[v] # h
      BY <2>2, <1>3
    <3> QED BY <2>2, <3>1, <1>2, <1>8 DEF FlowInv, GuardInv
  <2> QED BY <2>1, <2>2
<1>10. ASSUME NEW p \in Paths
      PROVE  IsFiniteSet(Counted(p)') /\ transit'[p] = Cardinality(Counted(p)')
  <2>1. IsFiniteSet(Counted(p)) /\ transit[p] = Cardinality(Counted(p))
    BY DEF FlowInv, MarkInv
  <2>2. CASE h \in marked /\ h[1] = p
    <3>1. Counted(p)' = Counted(p) \ {h} /\ h \in Counted(p)
      BY <2>2, <1>2 DEF Counted
    <3>2. transit'[p] = transit[p] - 1
      BY <2>2, <1>1 DEF DestroyPacket, TypeOK
    <3> QED BY <2>1, <3>1, <3>2, FS_RemoveElement
  <2>3. CASE ~ (h \in marked /\ h[1] = p)
    <3>1. Counted(p)' = Counted(p)
      BY <2>3, <1>2 DEF Counted
    <3>2. transit'[p] = transit[p]
      BY <2>3, <1>1 DEF DestroyPacket, TypeOK
    <3> QED BY <2>1, <3>1, <3>2
  <2> QED BY <2>2, <2>3
<1>11. MarkInv'
  <2>1. marked' \subseteq Known' /\ \A k \in marked' : k[1] \notin dead'
    BY <1>2, <1>6 DEF FlowInv, MarkInv
  <2>2. ASSUME NEW v \in Workers, Marking(v)'
        PROVE  /\ last'[v] <= taken'[cur'[v]]
               /\ \A p \in PathsOf(cur[v])' : <<p, last'[v]>> \in InQueue(v)'
               /\ \A k \in marked' : ~ (k[1][1] = cur'[v] /\ k[2] = last'[v])
    <3>1. PathsOf(cur[v])' = PathsOf(cur[v])
      BY <1>2 DEF PathsOf
    <3> QED BY <2>2, <3>1, <1>2, <1>4 DEF FlowInv, MarkInv
  <2> QED BY <2>1, <2>2, <1>10 DEF MarkInv
<1> QED BY <1>7, <1>9, <1>11 DEF FlowInv

\* No packet exists at first.
LEMMA InitFlow == Init => FlowInv
<1> SUFFICES ASSUME Init PROVE FlowInv
  OBVIOUS
<1>1. \A w \in Workers : queue[w] = <<>> /\ hand[w] = NoPacket /\ pc[w] = "new" /\ Len(queue[w]) = 0
  BY DEF Init
<1>2. marked = {} /\ dead = {}
  BY DEF Init
<1>3. Known = {}
  BY <1>1 DEF Known, Carried, InQueue
<1>4. PacketInv /\ GuardInv
  BY <1>1, <1>3 DEF PacketInv, GuardInv
<1>5. \A p \in Paths : IsFiniteSet(Counted(p)) /\ transit[p] = Cardinality(Counted(p))
  <2>1. \A p \in Paths : Counted(p) = {} /\ transit[p] = 0
    BY DEF Init, Counted
  <2> QED BY <2>1, FS_EmptySet
<1>6. MarkInv
  BY <1>1, <1>2, <1>5 DEF MarkInv, Marking
<1> QED BY <1>4, <1>6 DEF FlowInv

\* Every step keeps the packet invariants.
LEMMA NextFlow ==
  TypeOK /\ LockInv /\ LifeInv /\ FlowInv /\ [Next]_vars => FlowInv'
<1> SUFFICES ASSUME TypeOK, LockInv, LifeInv, FlowInv, [Next]_vars
             PROVE  FlowInv'
  OBVIOUS
<1> USE ThreadsAssumption, StreamsAssumption
<1>1. ASSUME NEW w \in Workers, NEW l \in WorkerPCs \ {"fill"},
             pc[w] # "fill", pc' = [pc EXCEPT ![w] = l],
             \A v \in Workers \ {w} : cur'[v] = cur[v],
             UNCHANGED <<last, queue, hand, marked, taken, npaths, transit, dead>>
      PROVE  FlowInv'
  <2>1. \A v \in Workers : Marking(v)' <=> Marking(v)
    BY <1>1 DEF Marking, TypeOK
  <2>2. \A v \in Workers : Marking(v) => cur'[v] = cur[v]
    BY <1>1 DEF Marking
  <2> QED BY <1>1, <2>1, <2>2, QuietStep
<1>2. ASSUME UNCHANGED <<pc, cur, last, queue, hand, marked, taken, npaths, transit, dead>>
      PROVE  FlowInv'
  BY <1>2, QuietStep DEF Marking
<1>3. ASSUME NEW w \in Workers, Loop(w) PROVE FlowInv'
  <2>1. PICK l \in {"done", "drain", "size"} : pc' = [pc EXCEPT ![w] = l]
    BY <1>3 DEF Loop, Goto
  <2> QED BY <1>1, <1>3, <2>1 DEF Loop, WorkerPCs
<1>4. ASSUME NEW w \in Workers, CheckSize(w) PROVE FlowInv'
  <2>1. PICK l \in {"drain", "lock"} : pc' = [pc EXCEPT ![w] = l]
    BY <1>4 DEF CheckSize, Goto
  <2> QED BY <1>1, <1>4, <2>1 DEF CheckSize, WorkerPCs
<1>5. ASSUME NEW w \in Workers, LockStreams(w) PROVE FlowInv'
  BY <1>1, <1>5 DEF LockStreams, Goto, WorkerPCs
<1>6. ASSUME NEW w \in Workers, ResetSid(w) PROVE FlowInv'
  BY <1>1, <1>6 DEF ResetSid, Goto, WorkerPCs
<1>7. ASSUME NEW w \in Workers, GetStream(w) PROVE FlowInv'
  <2>1. CASE sid < Size
    <3>1. /\ pc[w] = "get" /\ pc' = [pc EXCEPT ![w] = "fill"]
          /\ last' = [last EXCEPT ![w] = 0]
          /\ \A v \in Workers \ {w} : cur'[v] = cur[v]
          /\ UNCHANGED <<queue, hand, marked, taken, npaths, transit, dead>>
      BY <1>7, <2>1 DEF GetStream, Goto, TypeOK
    <3>2. ~ Marking(w) /\ ~ Marking(w)'
      BY <3>1 DEF Marking, TypeOK
    <3>3. \A v \in Workers \ {w} : (Marking(v)' <=> Marking(v)) /\ last'[v] = last[v]
      BY <3>1 DEF Marking, TypeOK
    <3> QED BY <3>1, <3>2, <3>3, QuietStep
  <2>2. CASE ~ (sid < Size)
    BY <1>2, <1>7, <2>2 DEF GetStream
  <2> QED BY <2>1, <2>2
<1>8. ASSUME NEW w \in Workers, DropStream(w) PROVE FlowInv'
  <2>1. \A v \in Workers \ {w} : cur'[v] = cur[v]
    BY <1>8 DEF DropStream, TypeOK
  <2> QED BY <1>1, <1>8, <2>1 DEF DropStream, Goto, WorkerPCs
<1>9. ASSUME NEW w \in Workers, NextStream(w) PROVE FlowInv'
  <2>1. PICK l \in {"drain", "get"} : pc' = [pc EXCEPT ![w] = l]
    BY <1>9 DEF NextStream, Goto
  <2> QED BY <1>1, <1>9, <2>1 DEF NextStream, WorkerPCs
<1>10. ASSUME NEW w \in Workers, Drained(w) PROVE FlowInv'
  BY <1>1, <1>10 DEF Drained, Goto, WorkerPCs
<1>11. ASSUME NEW w \in Workers, FillOne(w) \/ FillDone(w) \/ EmitPacket(w) \/ DestroyPacket(w)
      PROVE  FlowInv'
  BY <1>11, FillOneFlow, FillDoneFlow, EmitPacketFlow, DestroyPacketFlow
<1>12. ASSUME Start PROVE FlowInv'
  <2>1. \A w \in Workers : ~ Marking(w) /\ ~ Marking(w)'
    BY <1>12 DEF Start, LockInv, Marking
  <2> QED BY <1>12, <2>1, QuietStep DEF Start
<1>13. ASSUME adding # NoStream, NEW n \in 0..Converters[adding], AddConverters(n)
      PROVE  FlowInv'
  BY <1>13, AddConvertersFlow
<1>14. ASSUME NEW t \in Threads, NEW p \in Paths, DestroyPath(t, p) PROVE FlowInv'
  BY <1>14, DestroyPathFlow
<1>15. ASSUME \/ EraseDone \/ Exit \/ StatusChecked \/ UNCHANGED vars
              \/ \E w \in Workers : StopWorker(w)
              \/ \E to \in {"stopping", "clearing"} : ClearStreams(to)
              \/ \E i \in 1..Size : StopChannel(i) \/ EraseFailed(i)
              \/ \E s \in Streams : AddStream(s) \/ Update(s) \/ ClientError(s)
       PROVE  UNCHANGED <<pc, cur, last, queue, hand, marked, taken, npaths, transit, dead>>
  BY <1>15 DEF EraseDone, Exit, StatusChecked, StopWorker, ClearStreams, StopChannel,
     EraseFailed, AddStream, Update, ClientError
<1> QED
  BY <1>2, <1>3, <1>4, <1>5, <1>6, <1>7, <1>8, <1>9, <1>10, <1>11, <1>12, <1>13, <1>14, <1>15
  DEF Next, WorkerStep, MainStep, Command, StatusStep, Epics, Ended,
      StopAllChannels, Shutdown

\* The part of the inductive invariant that memory safety needs holds in
\* every state the forwarding core reaches.
THEOREM SafetyInvariant == Spec => []SafeInv
<1>1. Init => SafeInv
  BY InitType, InitLife, InitFlow DEF SafeInv, FlowInv
<1>2. SafeInv /\ [Next]_vars => SafeInv'
  BY NextType, NextLife, NextFlow DEF SafeInv, FlowInv
<1> QED BY <1>1, <1>2, PTL DEF Spec

\* No use after free: a path is destroyed only when no worker still has a
\* packet for it and no fillConversionQueue is running on its stream, for
\* any number of worker threads, streams, converters and updates and any
\* fill limit.
THEOREM PathsStayAlive == Spec => []PathAlive
<1>1. SafeInv => PathAlive
  <2> SUFFICES ASSUME SafeInv, NEW w \in Workers
               PROVE  /\ \A k \in Carried(w) : k[1] \notin dead
                      /\ cur[w] # NoStream => PathsOf(cur[w]) \cap dead = {}
    BY DEF PathAlive
  <2>0. TypeOK /\ LockInv /\ LifeInv /\ PacketInv /\ GuardInv /\ MarkInv
    BY DEF SafeInv
  <2>1. ASSUME cur[w] # NoStream PROVE \A p \in PathsOf(cur[w]) : p \notin dead /\ p[1] = cur[w]
    <3>1. \A p \in PathsOf(cur[w]) : p[1] = cur[w]
      BY DEF PathsOf
    <3>2. Held(cur[w])
      BY DEF Held
    <3> QED BY <2>0, <3>1, <3>2 DEF LifeInv
  <2>2. ASSUME NEW m \in 1..Len(queue[w]), Guards(w, m) PROVE queue[w][m][1] \notin dead
    <3>1. CASE queue[w][m] \in marked
      BY <2>0, <3>1 DEF MarkInv
    <3>2. CASE Marking(w) /\ queue[w][m][1][1] = cur[w]
      <4>1. cur[w] # NoStream
        BY <2>0, <3>2 DEF Marking, LockInv
      <4>2. queue[w][m][1] \in PathsOf(cur[w])
        BY <2>0, <3>2, KnownPackets DEF PacketInv
      <4> QED BY <2>1, <4>1, <4>2
    <3> QED BY <2>2, <3>1, <3>2 DEF Guards
  <2>3. ASSUME NEW j \in 1..Len(queue[w]) PROVE queue[w][j][1] \notin dead
    <3>1. PICK m \in j..Len(queue[w]) : queue[w][m][1] = queue[w][j][1] /\ Guards(w, m)
      BY <2>0 DEF GuardInv
    <3>2. m \in 1..Len(queue[w])
      BY <2>0 DEF TypeOK
    <3> QED BY <3>1, <3>2, <2>2
  <2>4. ASSUME hand[w] # NoPacket PROVE hand[w][1] \notin dead
    <3>1. CASE hand[w] \in marked
      BY <2>0, <3>1 DEF MarkInv
    <3>2. CASE \E m \in 1..Len(queue[w]) : queue[w][m][1] = hand[w][1] /\ Guards(w, m)
      BY <3>2, <2>2
    <3> QED BY <2>0, <2>4, <3>1, <3>2 DEF GuardInv
  <2>5. \A k \in Carried(w) : k[1] \notin dead
    BY <2>3, <2>4 DEF Carried, InQueue
  <2> QED BY <2>1, <2>5
<1> QED BY <1>1, SafetyInvariant, PTL

\* The transit counter of every path equals the number of packets that will
\* decrement it, so ~ConversionPath neither returns early nor waits for a
\* packet that no longer exists.
THEOREM TransitIsExact == Spec => []TransitExact
<1>1. SafeInv => TransitExact
  BY DEF SafeInv, MarkInv, TransitExact, Known
<1> QED BY <1>1, SafetyInvariant, PTL
-----------------------------------------------------------------------------
\* While no stream is removed under the workers: a worker past the size check
\* finds a stream, and the index it reads with is inside the list. The list
\* is emptied only after all workers have returned.
ServeInv ==
  /\ fault = "none" /\ failed = {} /\ main # "stopping"
  /\ main \in {"clearing", "stopped"} => \A w \in Workers : pc[w] = "done"
  /\ \A w \in Workers : pc[w] \in Filling \ {"size"} => Size > 0
  /\ \A w \in Workers : pc[w] = "get" => sid < Size

\* If no stream stops or fails, the list of streams only grows, and no worker
\* is in the middle of a list that has become shorter.
LEMMA NextServe ==
  ASSUME Stoppable = {}, StopAll = FALSE, Failing = {}
  PROVE  TypeOK /\ LockInv /\ ServeInv /\ [Next]_vars => ServeInv'
<1> SUFFICES ASSUME TypeOK, LockInv, ServeInv, [Next]_vars PROVE ServeInv'
  OBVIOUS
<1>0. Size \in Nat /\ sid \in Nat
  BY DEF TypeOK, Size
\* a worker that neither changes sid nor starts to read the list
<1>1. ASSUME NEW w \in Workers, NEW l \in WorkerPCs \ {"get"},
             l \in Filling \ {"size"} => Size > 0,
             pc[w] # "done", pc' = [pc EXCEPT ![w] = l],
             \A v \in Workers \ {w} : pc[v] = "get" => sid' = sid,
             UNCHANGED <<StreamPointers, main, failed, fault>>
      PROVE  ServeInv'
  <2>1. Size' = Size
    BY <1>1 DEF Size
  <2> QED BY <1>1, <2>1 DEF ServeInv, TypeOK
<1>2. ASSUME NEW w \in Workers, Loop(w) PROVE ServeInv'
  <2>1. PICK l \in {"done", "drain", "size"} : pc' = [pc EXCEPT ![w] = l]
    BY <1>2 DEF Loop, Goto
  <2> QED BY <1>1, <1>2, <2>1 DEF Loop, WorkerPCs, Filling
<1>3. ASSUME NEW w \in Workers, CheckSize(w) PROVE ServeInv'
  <2>1. \/ pc' = [pc EXCEPT ![w] = "drain"]
        \/ Size # 0 /\ pc' = [pc EXCEPT ![w] = "lock"]
    BY <1>3 DEF CheckSize, Goto
  <2> QED BY <1>0, <1>1, <1>3, <2>1 DEF CheckSize, WorkerPCs, Filling
<1>4. ASSUME NEW w \in Workers, LockStreams(w) PROVE ServeInv'
  <2>1. Size > 0
    BY <1>4 DEF LockStreams, ServeInv, Filling
  <2> QED BY <1>1, <1>4, <2>1 DEF LockStreams, Goto, WorkerPCs, Filling
\* a worker that picks the next index to read with
<1>5. ASSUME NEW w \in Workers, pc[w] \in {"reset", "next"},
             NEW l \in {"get", "drain"}, pc' = [pc EXCEPT ![w] = l],
             sid' \in Nat, sid' < Size,
             UNCHANGED <<StreamPointers, main, failed, fault>>
      PROVE  ServeInv'
  <2>1. Size' = Size
    BY <1>5 DEF Size
  <2>2. Size > 0
    BY <1>5 DEF ServeInv, Filling
  <2> QED BY <1>0, <1>5, <2>1, <2>2 DEF ServeInv, TypeOK
<1>6. ASSUME NEW w \in Workers, ResetSid(w) PROVE ServeInv'
  <2>1. Size > 0
    BY <1>6 DEF ResetSid, ServeInv, Filling
  <2>2. sid' \in Nat /\ sid' < Size
    BY <1>0, <1>6, <2>1 DEF ResetSid
  <2> QED BY <1>5, <1>6, <2>2 DEF ResetSid, Goto
<1>7. ASSUME NEW w \in Workers, NextStream(w) PROVE ServeInv'
  <2>1. Size > 0
    BY <1>7 DEF NextStream, ServeInv, Filling
  <2>2. sid' \in Nat /\ sid' < Size
    BY <1>0, <1>7, <2>1 DEF NextStream
  <2>3. PICK l \in {"get", "drain"} : pc' = [pc EXCEPT ![w] = l]
    BY <1>7 DEF NextStream, Goto
  <2> QED BY <1>5, <1>7, <2>2, <2>3 DEF NextStream
<1>8. ASSUME NEW w \in Workers, GetStream(w) PROVE ServeInv'
  <2>1. sid < Size /\ Size > 0
    BY <1>8 DEF GetStream, ServeInv, Filling
  <2> QED BY <1>1, <1>8, <2>1 DEF GetStream, Goto, WorkerPCs
<1>9. ASSUME NEW w \in Workers, FillOne(w) PROVE ServeInv'
  BY <1>9 DEF FillOne, ServeInv, Size
<1>10. ASSUME NEW w \in Workers, FillDone(w) \/ DropStream(w) PROVE ServeInv'
  <2>1. Size > 0
    BY <1>10 DEF FillDone, DropStream, ServeInv, Filling
  <2> QED BY <1>1, <1>10, <2>1 DEF FillDone, DropStream, Goto, WorkerPCs
<1>11. ASSUME NEW w \in Workers, EmitPacket(w) \/ DestroyPacket(w) \/ Drained(w) PROVE ServeInv'
  BY <1>1, <1>11 DEF EmitPacket, DestroyPacket, Drained, Goto, WorkerPCs, Filling
<1>12. ASSUME NEW s \in Streams, AddStream(s) PROVE ServeInv'
  <2>1. Size' = Size + 1
    BY <1>12 DEF AddStream, Size, TypeOK
  <2> QED BY <1>0, <1>12, <2>1 DEF AddStream, ServeInv
<1>13. ASSUME Start PROVE ServeInv'
  BY <1>13 DEF Start, ServeInv, Filling
<1>14. ASSUME EraseDone PROVE ServeInv'
  <2>1. main' = "stopped" /\ main = "clearing"
    BY <1>14 DEF EraseDone, ServeInv
  <2> QED BY <1>14, <2>1 DEF EraseDone, ServeInv, Size
<1>15. ASSUME Shutdown PROVE ServeInv'
  <2>1. \A w \in Workers : pc'[w] = "done"
    BY <1>15 DEF Shutdown, ClearStreams
  <2> QED BY <1>15, <2>1 DEF Shutdown, ClearStreams, ServeInv, Filling
<1>16. ASSUME Exit PROVE ServeInv'
  BY <1>16 DEF Exit, ServeInv, Size
<1>17. ~ (\E i \in 1..Size : StopChannel(i)) /\ ~ StopAllChannels
       /\ ~ (\E i \in 1..Size : EraseFailed(i)) /\ ~ (\E s \in Streams : ClientError(s))
  BY DEF StopChannel, StopAllChannels, EraseFailed, ClientError, ServeInv
<1>18. ASSUME \/ StatusChecked \/ UNCHANGED vars
              \/ \E w \in Workers : StopWorker(w)
              \/ adding # NoStream /\ \E n \in 0..Converters[adding] : AddConverters(n)
              \/ \E s \in Streams : Update(s)
              \/ \E t \in Threads, p \in Paths : DestroyPath(t, p)
       PROVE  ServeInv'
  <2>1. UNCHANGED <<StreamPointers, sid, pc, main, failed, fault>>
    BY <1>18 DEF StatusChecked, StopWorker, AddConverters, Update, DestroyPath
  <2> QED BY <2>1 DEF ServeInv, Size
<1> QED
  BY <1>2, <1>3, <1>4, <1>6, <1>7, <1>8, <1>9, <1>10, <1>11, <1>12, <1>13, <1>14, <1>15,
     <1>16, <1>17, <1>18
  DEF Next, WorkerStep, MainStep, Command, StatusStep, Epics, Ended

\* No exception leaves a worker thread as long as no command and no EPICS
\* error removes a stream while the workers run: streams[sid] is then always
\* inside the list, for any number of workers, although they do not hold
\* StreamsMutex between computing sid and using it. (With removals the
\* invariant fails: the list may shrink between the two.)
THEOREM ServingNeverTerminates ==
  ASSUME Stoppable = {}, StopAll = FALSE, Failing = {}
  PROVE  Spec => []NoTerminate
<1>1. Init => ServeInv
  BY DEF Init, ServeInv, Filling
<1>2. TypeOK /\ LockInv /\ ServeInv /\ [Next]_vars => ServeInv'
  BY NextServe
<1>3. ServeInv => NoTerminate
  BY DEF ServeInv, NoTerminate, Terminated
<1> QED BY <1>1, <1>2, <1>3, TypeCorrect, PTL DEF Spec
=============================================================================
