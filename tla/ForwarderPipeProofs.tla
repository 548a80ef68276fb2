------------------------- MODULE ForwarderPipeProofs -------------------------
(* Proofs about what goes through the forwarding core: no dequeued update   *)
(* is lost or sent twice on a path, and the core implements UpdatePipe.     *)
EXTENDS ForwarderCoreProofs

USE DEF vars, listVars, fillVars, flowVars, mainVars, clientVars

\* The elements of a sequence.
Elems(q) == {q[j] : j \in 1..Len(q)}

\* The elements of a concatenation.
LEMMA ElemsConcat ==
  ASSUME NEW S, NEW q \in Seq(S), NEW r \in Seq(S)
  PROVE  Elems(q \o r) = Elems(q) \cup Elems(r)
<1> DEFINE c == q \o r
<1>1. /\ Len(c) = Len(q) + Len(r) /\ Len(q) \in Nat /\ Len(r) \in Nat
      /\ \A j \in 1..(Len(q) + Len(r)) : c[j] = IF j <= Len(q) THEN q[j] ELSE r[j - Len(q)]
  BY ConcatProperties
<1> HIDE DEF c
<1>2. ASSUME NEW j \in 1..Len(c) PROVE c[j] \in Elems(q) \cup Elems(r)
  <2>1. CASE j <= Len(q)
    <3>1. j \in 1..Len(q) /\ c[j] = q[j]
      BY <1>1, <2>1
    <3> QED BY <3>1 DEF Elems
  <2>2. CASE ~ (j <= Len(q))
    <3>1. j - Len(q) \in 1..Len(r) /\ c[j] = r[j - Len(q)]
      BY <1>1, <2>2
    <3> QED BY <3>1 DEF Elems
  <2> QED BY <2>1, <2>2
<1>3. ASSUME NEW j \in 1..Len(q) PROVE q[j] \in Elems(c)
  <2>1. j \in 1..Len(c) /\ c[j] = q[j]
    BY <1>1
  <2> QED BY <2>1 DEF Elems
<1>4. ASSUME NEW j \in 1..Len(r) PROVE r[j] \in Elems(c)
  <2>1. j + Len(q) \in 1..Len(c) /\ ~ (j + Len(q) <= Len(q)) /\ (j + Len(q)) - Len(q) = j
    BY <1>1
  <2>2. c[j + Len(q)] = r[j]
    BY <1>1, <2>1
  <2> QED BY <2>1, <2>2 DEF Elems
<1> QED BY <1>2, <1>3, <1>4 DEF Elems, c

\* The elements after an Append.
LEMMA ElemsAppend ==
  ASSUME NEW S, NEW q \in Seq(S), NEW e \in S
  PROVE  /\ Elems(Append(q, e)) = Elems(q) \cup {e}
         /\ Len(Append(q, e)) = Len(q) + 1
         /\ Append(q, e)[Len(q) + 1] = e
         /\ \A j \in 1..Len(q) : Append(q, e)[j] = q[j]
<1>1. /\ Len(Append(q, e)) = Len(q) + 1 /\ Len(q) \in Nat
      /\ \A j \in 1..Len(q) : Append(q, e)[j] = q[j]
      /\ Append(q, e)[Len(q) + 1] = e
  BY AppendProperties
<1>2. \A j \in 1..(Len(q) + 1) : j \in 1..Len(q) \/ j = Len(q) + 1
  BY <1>1
<1>3. \A j \in 1..Len(q) : j \in 1..(Len(q) + 1)
  BY <1>1
<1>4. Len(q) + 1 \in 1..(Len(q) + 1)
  BY <1>1
<1> QED BY <1>1, <1>2, <1>3, <1>4 DEF Elems

\* Dequeueing takes the first element, and no other when all are different.
LEMMA ElemsTail ==
  ASSUME NEW S, NEW q \in Seq(S), q # <<>>,
         \A i, j \in 1..Len(q) : q[i] = q[j] => i = j
  PROVE  Elems(Tail(q)) = Elems(q) \ {q[1]} /\ q[1] \in Elems(q)
<1>1. /\ Len(q) \in Nat \ {0} /\ Len(Tail(q)) = Len(q) - 1
      /\ \A j \in 1..(Len(q) - 1) : Tail(q)[j] = q[j + 1]
  BY HeadTailProperties
<1>2. ASSUME NEW j \in 1..Len(Tail(q)) PROVE Tail(q)[j] \in Elems(q) /\ Tail(q)[j] # q[1]
  <2>1. j + 1 \in 1..Len(q) /\ 1 \in 1..Len(q) /\ j + 1 # 1 /\ Tail(q)[j] = q[j + 1]
    BY <1>1
  <2> QED BY <2>1 DEF Elems
<1>3. ASSUME NEW i \in 1..Len(q), q[i] # q[1] PROVE q[i] \in Elems(Tail(q))
  <2>1. i - 1 \in 1..(Len(q) - 1) /\ (i - 1) + 1 = i
    BY <1>1, <1>3
  <2>2. i - 1 \in 1..Len(Tail(q)) /\ Tail(q)[i - 1] = q[i]
    BY <1>1, <2>1
  <2> QED BY <2>2 DEF Elems
<1>4. 1 \in 1..Len(q)
  BY <1>1
<1> QED BY <1>2, <1>3, <1>4 DEF Elems

\* An update waits on a path when some worker's queue holds its packet.
LEMMA WaitingIff ==
  TypeOK => \A p, n : n \in Waiting(p) <=> \E w \in Workers : <<p, n>> \in InQueue(w)
<1> SUFFICES ASSUME TypeOK, NEW p, NEW n
             PROVE  n \in Waiting(p) <=> \E w \in Workers : <<p, n>> \in InQueue(w)
  OBVIOUS
<1>1. \A w \in Workers : \A k \in InQueue(w) : k = <<k[1], k[2]>>
  BY KnownPackets DEF InQueue
<1>2. ASSUME n \in Waiting(p) PROVE \E w \in Workers : <<p, n>> \in InQueue(w)
  <2> DEFINE Q == UNION {InQueue(w) : w \in Workers}
  <2>1. PICK k \in {x \in Q : x[1] = p} : n = k[2]
    BY <1>2 DEF Waiting
  <2>2. k \in Q /\ k[1] = p
    BY <2>1
  <2>3. PICK w \in Workers : k \in InQueue(w)
    BY <2>2
  <2> QED BY <2>1, <2>2, <2>3, <1>1
<1>3. ASSUME NEW w \in Workers, <<p, n>> \in InQueue(w) PROVE n \in Waiting(p)
  BY <1>3 DEF Waiting
<1> QED BY <1>2, <1>3

\* An update waits if it is in a queue, also after a step.
LEMMA WaitingIffNext ==
  TypeOK' => \A p, n : n \in Waiting(p)' <=> \E w \in Workers : <<p, n>> \in InQueue(w)'
<1>1. TypeOK' => (\A p, n : n \in Waiting(p) <=> \E w \in Workers : <<p, n>> \in InQueue(w))'
  BY WaitingIff, PTL
<1> QED BY <1>1

\* A step that moves no packet leaves every update where it is.
LEMMA QuietPlaces ==
  ASSUME PlaceInv, UNCHANGED <<queue, emitted, taken, npaths>>
  PROVE  PlaceInv'
<1>1. \A w \in Workers : InQueue(w)' = InQueue(w)
  BY DEF InQueue
<1>2. ASSUME NEW p \in Paths
      PROVE  /\ Waiting(p)' = Waiting(p) /\ Sent(p)' = Sent(p)
             /\ PathsOf(p[1])' = PathsOf(p[1])
  BY <1>1 DEF Waiting, Sent, PathsOf
<1> QED BY <1>2 DEF PlaceInv

\* fillConversionQueue dequeues one update and queues a packet per path.
LEMMA FillOnePlaces ==
  ASSUME TypeOK, LockInv, PacketInv, PlaceInv, NEW w \in Workers, FillOne(w), TypeOK'
  PROVE  PlaceInv'
<1>1. PICK s \in Streams : s = cur[w]
  BY DEF FillOne, LockInv, TypeOK
<1>2. PICK n \in Nat \ {0} : n = taken[s] + 1 /\ taken[s] \in Nat
  <2>1. taken[s] \in Nat
    BY DEF TypeOK
  <2> QED BY <2>1
<1> DEFINE batch == [i \in 1..npaths[s] |-> <<<<s, i>>, n>>]
<1>3. /\ taken' = [taken EXCEPT ![s] = n]
      /\ queue' = [queue EXCEPT ![w] = queue[w] \o batch]
      /\ UNCHANGED <<emitted, npaths>>
      /\ queue[w] \in Seq(Packets)
  BY <1>1, <1>2 DEF FillOne, TypeOK
<1>4. batch \in Seq(Packets) /\ Elems(batch) = {<<p, n>> : p \in PathsOf(s)}
  <2>1. Len(batch) = npaths[s] /\ npaths[s] \in Nat
    BY DEF TypeOK
  <2> QED BY <2>1, <1>1, BatchSeq DEF Elems, PathsOf
<1> HIDE DEF batch
<1>5. /\ InQueue(w)' = InQueue(w) \cup {<<p, n>> : p \in PathsOf(s)}
      /\ \A v \in Workers \ {w} : InQueue(v)' = InQueue(v)
  <2>1. queue'[w] = queue[w] \o batch
    BY <1>3 DEF TypeOK
  <2>2. Elems(queue'[w]) = Elems(queue[w]) \cup Elems(batch)
    BY <2>1, <1>3, <1>4, ElemsConcat
  <2>3. \A v \in Workers \ {w} : queue'[v] = queue[v]
    BY <1>3 DEF TypeOK
  <2> QED BY <2>2, <2>3, <1>4 DEF InQueue, Elems
<1>6. ASSUME NEW p \in Paths
      PROVE  Waiting(p)' = IF p \in PathsOf(s) THEN Waiting(p) \cup {n} ELSE Waiting(p)
  <2>1. ASSUME NEW m PROVE m \in Waiting(p)' <=> m \in Waiting(p) \/ (p \in PathsOf(s) /\ m = n)
    <3>1. m \in Waiting(p) <=> \E v \in Workers : <<p, m>> \in InQueue(v)
      BY WaitingIff
    <3>2. m \in Waiting(p)' <=> \E v \in Workers : <<p, m>> \in InQueue(v)'
      BY WaitingIffNext
    <3>3. <<p, m>> \in {<<q, n>> : q \in PathsOf(s)} <=> p \in PathsOf(s) /\ m = n
      OBVIOUS
    <3> QED BY <3>1, <3>2, <3>3, <1>5
  <2> QED BY <2>1
<1>7. \A p : PathsOf(p)' = PathsOf(p)
  BY <1>3 DEF PathsOf
<1>8. \A p \in Paths : Sent(p)' = Sent(p)
  BY <1>3 DEF Sent
<1>9. ASSUME NEW p \in Paths, p \in PathsOf(p[1])
      PROVE  Waiting(p)' \cup Sent(p)' = 1..taken'[p[1]] /\ Waiting(p)' \cap Sent(p)' = {}
  <2>1. Waiting(p) \cup Sent(p) = 1..taken[p[1]] /\ Waiting(p) \cap Sent(p) = {}
    BY <1>9 DEF PlaceInv
  <2>2. CASE p[1] = s
    <3>1. p \in PathsOf(s) /\ taken'[p[1]] = n
      BY <1>3, <1>9, <2>2 DEF TypeOK
    <3>2. 1..n = 1..taken[s] \cup {n} /\ n \notin 1..taken[s]
      BY <1>2
    <3> QED BY <3>1, <3>2, <2>1, <2>2, <1>6, <1>8
  <2>3. CASE p[1] # s
    <3>1. p \notin PathsOf(s)
      BY <2>3 DEF PathsOf
    <3>2. taken'[p[1]] = taken[p[1]]
      BY <2>3, <1>3, PathStream DEF TypeOK
    <3> QED BY <3>1, <3>2, <2>1, <1>6, <1>8
  <2> QED BY <2>2, <2>3
<1> QED BY <1>7, <1>9 DEF PlaceInv

\* What EmitPacket does, in terms of the packet h it takes.
LEMMA EmitEffect ==
  ASSUME TypeOK, PacketInv, NEW w \in Workers, EmitPacket(w)
  PROVE  \E h \in Packets :
           /\ h = queue[w][1] /\ h \in InQueue(w) /\ h \in Known
           /\ queue' = [queue EXCEPT ![w] = Tail(queue[w])]
           /\ queue[w] \in Seq(Packets) /\ queue[w] # <<>>
           /\ emitted' = [emitted EXCEPT ![h[1]] = Append(emitted[h[1]], h[2])]
           /\ InQueue(w)' = InQueue(w) \ {h}
           /\ \A v \in Workers \ {w} : InQueue(v)' = InQueue(v) /\ h \notin InQueue(v)
           /\ \A p \in Paths : Sent(p)' = IF p = h[1] THEN Sent(p) \cup {h[2]} ELSE Sent(p)
<1>1. queue[w] \in Seq(Packets) /\ queue[w] # <<>>
  BY DEF EmitPacket, TypeOK
<1>2. 1 \in 1..Len(queue[w])
  BY <1>1
<1>3. PICK h \in Packets : h = queue[w][1] /\ h \in Known /\ h[1] \in Paths /\ h[2] \in Nat \ {0}
  BY <1>2, KnownPackets
<1>4. /\ queue' = [queue EXCEPT ![w] = Tail(queue[w])]
      /\ emitted' = [emitted EXCEPT ![h[1]] = Append(emitted[h[1]], h[2])]
  BY <1>1, <1>3 DEF EmitPacket
<1>5. Elems(Tail(queue[w])) = Elems(queue[w]) \ {h} /\ h \in Elems(queue[w])
  <2>1. \A i, j \in 1..Len(queue[w]) : queue[w][i] = queue[w][j] => i = j
    BY DEF PacketInv
  <2> QED BY <2>1, <1>1, <1>3, ElemsTail
<1>6. InQueue(w)' = InQueue(w) \ {h} /\ h \in InQueue(w)
  <2>1. queue'[w] = Tail(queue[w])
    BY <1>4 DEF TypeOK
  <2> QED BY <2>1, <1>5 DEF InQueue, Elems
<1>7. \A v \in Workers \ {w} : InQueue(v)' = InQueue(v)
  BY <1>4 DEF InQueue, TypeOK
<1>8. \A v \in Workers \ {w} : h \notin InQueue(v)
  BY <1>2, <1>3 DEF InQueue, PacketInv
<1>9. ASSUME NEW p \in Paths
      PROVE  Sent(p)' = IF p = h[1] THEN Sent(p) \cup {h[2]} ELSE Sent(p)
  <2>1. CASE p = h[1]
    <3>1. emitted[p] \in Seq(Nat \ {0})
      BY DEF TypeOK
    <3>2. emitted'[p] = Append(emitted[p], h[2])
      BY <2>1, <1>3, <1>4 DEF TypeOK
    <3>3. Elems(emitted'[p]) = Elems(emitted[p]) \cup {h[2]}
      BY <3>1, <3>2, <1>3, ElemsAppend
    <3> QED BY <3>3, <2>1 DEF Sent, Elems
  <2>2. CASE p # h[1]
    <3>1. emitted'[p] = emitted[p]
      BY <2>2, <1>4 DEF TypeOK
    <3> QED BY <3>1, <2>2 DEF Sent
  <2> QED BY <2>1, <2>2
<1> QED BY <1>1, <1>3, <1>4, <1>6, <1>7, <1>8, <1>9

\* The emitted packet was waiting on its path and has not been emitted yet.
LEMMA EmitPlaces ==
  ASSUME TypeOK, PacketInv, PlaceInv, NEW w \in Workers, EmitPacket(w), TypeOK'
  PROVE  PlaceInv'
<1>1. PICK h \in Packets :
           /\ h \in InQueue(w) /\ h \in Known
           /\ InQueue(w)' = InQueue(w) \ {h}
           /\ \A v \in Workers \ {w} : InQueue(v)' = InQueue(v) /\ h \notin InQueue(v)
           /\ \A p \in Paths : Sent(p)' = IF p = h[1] THEN Sent(p) \cup {h[2]} ELSE Sent(p)
  BY EmitEffect
<1>2. h = <<h[1], h[2]>>
  BY KnownPackets
<1>3. UNCHANGED <<taken, npaths>>
  BY DEF EmitPacket
<1>4. ASSUME NEW p \in Paths
      PROVE  Waiting(p)' = IF p = h[1] THEN Waiting(p) \ {h[2]} ELSE Waiting(p)
  <2>1. ASSUME NEW m PROVE m \in Waiting(p)' <=> m \in Waiting(p) /\ <<p, m>> # h
    <3>1. m \in Waiting(p) <=> \E v \in Workers : <<p, m>> \in InQueue(v)
      BY WaitingIff
    <3>2. m \in Waiting(p)' <=> \E v \in Workers : <<p, m>> \in InQueue(v)'
      BY WaitingIffNext
    <3>3. \A v \in Workers : <<p, m>> \in InQueue(v)' <=> <<p, m>> \in InQueue(v) /\ <<p, m>> # h
      BY <1>1
    <3> QED BY <3>1, <3>2, <3>3
  <2>2. \A m : <<p, m>> = h <=> p = h[1] /\ m = h[2]
    BY <1>2
  <2> QED BY <2>1, <2>2
<1>5. h[2] \in Waiting(h[1]) /\ h[1] \in Paths
  BY <1>1, <1>2, WaitingIff, KnownPackets
<1>6. \A x : PathsOf(x)' = PathsOf(x)
  BY <1>3 DEF PathsOf
<1>7. ASSUME NEW p \in Paths, p \in PathsOf(p[1])
      PROVE  Waiting(p)' \cup Sent(p)' = 1..taken'[p[1]] /\ Waiting(p)' \cap Sent(p)' = {}
  <2>1. Waiting(p) \cup Sent(p) = 1..taken[p[1]] /\ Waiting(p) \cap Sent(p) = {}
    BY <1>7 DEF PlaceInv
  <2> QED BY <2>1, <1>1, <1>3, <1>4, <1>5
<1> QED BY <1>6, <1>7 DEF PlaceInv

\* A stream gets its paths before anything is dequeued from it.
LEMMA AddConvertersPlaces ==
  ASSUME TypeOK, LifeInv, PacketInv, TakeInv, PlaceInv,
         adding # NoStream, NEW n \in 0..Converters[adding], AddConverters(n)
  PROVE  PlaceInv'
<1>1. /\ npaths' = [npaths EXCEPT ![adding] = n]
      /\ UNCHANGED <<queue, emitted, taken>>
  BY DEF AddConverters
<1>2. adding \in Streams /\ npaths[adding] = 0
  BY DEF TypeOK, LifeInv
<1>3. \A w \in Workers : InQueue(w)' = InQueue(w)
  BY <1>1 DEF InQueue
<1>4. \A p \in Paths : Waiting(p)' = Waiting(p) /\ Sent(p)' = Sent(p)
  BY <1>1, <1>3 DEF Waiting, Sent
<1>5. ASSUME NEW p \in Paths, p[1] = adding
      PROVE  Waiting(p) = {} /\ Sent(p) = {} /\ taken[adding] = 0
  <2>1. Waiting(p) = {}
    <3> SUFFICES ASSUME NEW m, NEW w \in Workers, <<p, m>> \in InQueue(w) PROVE FALSE
      BY WaitingIff
    <3>1. <<p, m>> \in Known
      BY DEF Known, Carried
    <3>2. p \in PathsOf(p[1])
      BY <3>1 DEF PacketInv
    <3> QED BY <3>2, <1>2, <1>5 DEF PathsOf
  <2>2. emitted[p] = <<>> /\ taken[adding] = 0
    BY <1>2, <1>5 DEF TakeInv
  <2> QED BY <2>1, <2>2 DEF Sent
<1>6. ASSUME NEW p \in Paths, p \in PathsOf(p[1])'
      PROVE  Waiting(p)' \cup Sent(p)' = 1..taken'[p[1]] /\ Waiting(p)' \cap Sent(p)' = {}
  <2>1. CASE p[1] = adding
    BY <2>1, <1>1, <1>4, <1>5
  <2>2. CASE p[1] # adding
    <3>1. p \in PathsOf(p[1])
      BY <1>1, <1>6, <2>2, PathStream DEF PathsOf, TypeOK
    <3> QED BY <3>1, <1>1, <1>4 DEF PlaceInv
  <2> QED BY <2>1, <2>2
<1> QED BY <1>6 DEF PlaceInv

\* Every step keeps each dequeued update in one place per path.
LEMMA NextPlaces ==
  SafeInv /\ TakeInv /\ PlaceInv /\ [Next]_vars => PlaceInv'
<1> SUFFICES ASSUME SafeInv, TakeInv, PlaceInv, [Next]_vars PROVE PlaceInv'
  OBVIOUS
<1>0. TypeOK /\ LockInv /\ LifeInv /\ PacketInv /\ TypeOK'
  BY NextType DEF SafeInv
<1>1. ASSUME NEW w \in Workers, FillOne(w) PROVE PlaceInv'
  BY <1>0, <1>1, FillOnePlaces
<1>2. ASSUME NEW w \in Workers, EmitPacket(w) PROVE PlaceInv'
  BY <1>0, <1>2, EmitPlaces
<1>3. ASSUME adding # NoStream, NEW n \in 0..Converters[adding], AddConverters(n)
      PROVE  PlaceInv'
  BY <1>0, <1>3, AddConvertersPlaces
<1>4. ASSUME \/ \E w \in Workers :
                  \/ Loop(w) \/ CheckSize(w) \/ LockStreams(w) \/ ResetSid(w)
                  \/ GetStream(w) \/ FillDone(w) \/ DropStream(w) \/ NextStream(w)
                  \/ DestroyPacket(w) \/ Drained(w) \/ StopWorker(w)
             \/ Start \/ EraseDone \/ Exit \/ StatusChecked \/ UNCHANGED vars
             \/ \E to \in {"stopping", "clearing"} : ClearStreams(to)
             \/ \E i \in 1..Size : StopChannel(i) \/ EraseFailed(i)
             \/ \E s \in Streams : AddStream(s) \/ Update(s) \/ ClientError(s)
             \/ \E t \in Threads, p \in Paths : DestroyPath(t, p)
      PROVE  UNCHANGED <<queue, emitted, taken, npaths>>
  BY <1>4 DEF Loop, CheckSize, LockStreams, ResetSid, GetStream, FillDone, DropStream,
     NextStream, DestroyPacket, Drained, StopWorker, Start, EraseDone, Exit, StatusChecked,
     ClearStreams, StopChannel, EraseFailed, AddStream, Update, ClientError, DestroyPath
<1> QED
  BY <1>1, <1>2, <1>3, <1>4, QuietPlaces
  DEF Next, WorkerStep, MainStep, Command, StatusStep, Epics, Ended,
      StopAllChannels, Shutdown

\* Every step keeps what fillConversionQueue relies on.
LEMMA NextTake ==
  SafeInv /\ TakeInv /\ [Next]_vars => TakeInv'
<1> SUFFICES ASSUME SafeInv, TakeInv, [Next]_vars PROVE TakeInv'
  OBVIOUS
<1>0. TypeOK /\ LockInv /\ LifeInv /\ PacketInv
  BY DEF SafeInv
<1> USE <1>0, ThreadsAssumption, StreamsAssumption
\* a worker that moves no update and does not start to fill
<1>1. ASSUME NEW w \in Workers, NEW l \in WorkerPCs \ {"fill", "new"},
             pc' = [pc EXCEPT ![w] = l],
             l \in {"loop", "done"} => queue[w] = <<>>,
             \A v \in Workers \ {w} : cur'[v] = cur[v] /\ budget'[v] = budget[v],
             UNCHANGED <<queue, emitted, taken, produced, created, adding>>
      PROVE  TakeInv'
  <2>1. \A v \in Workers : pc'[v] = "fill" => budget'[v] <= produced'[cur'[v]] - taken'[cur'[v]]
    BY <1>1 DEF TakeInv, TypeOK
  <2> QED BY <1>1, <2>1 DEF TakeInv, TypeOK
<1>2. ASSUME UNCHANGED <<pc, cur, budget, queue, emitted, taken, produced, created, adding>>
      PROVE  TakeInv'
  BY <1>2 DEF TakeInv
<1>3. ASSUME NEW w \in Workers, Loop(w) PROVE TakeInv'
  <2>1. PICK l \in {"done", "drain", "size"} : pc' = [pc EXCEPT ![w] = l]
    BY <1>3 DEF Loop, Goto
  <2>2. queue[w] = <<>>
    BY <1>3 DEF Loop, TakeInv
  <2> QED BY <1>1, <1>3, <2>1, <2>2 DEF Loop, WorkerPCs
<1>4. ASSUME NEW w \in Workers, CheckSize(w) PROVE TakeInv'
  <2>1. PICK l \in {"drain", "lock"} : pc' = [pc EXCEPT ![w] = l]
    BY <1>4 DEF CheckSize, Goto
  <2> QED BY <1>1, <1>4, <2>1 DEF CheckSize, WorkerPCs
<1>5. ASSUME NEW w \in Workers, LockStreams(w) PROVE TakeInv'
  BY <1>1, <1>5 DEF LockStreams, Goto, WorkerPCs
<1>6. ASSUME NEW w \in Workers, ResetSid(w) PROVE TakeInv'
  BY <1>1, <1>6 DEF ResetSid, Goto, WorkerPCs
<1>7. ASSUME NEW w \in Workers, GetStream(w) PROVE TakeInv'
  <2>1. CASE sid < Size
    <3> DEFINE s == StreamPointers[sid + 1]
    <3>1. s \in Streams
      <4>1. StreamPointers \in Seq(Streams) /\ sid \in Nat
        BY DEF TypeOK
      <4>2. sid + 1 \in 1..Len(StreamPointers)
        BY <2>1, <4>1 DEF Size
      <4> QED BY <4>1, <4>2
    <3> HIDE DEF s
    <3>2. /\ cur' = [cur EXCEPT ![w] = s]
          /\ budget' = [budget EXCEPT ![w] = produced[s] - taken[s]]
          /\ pc' = [pc EXCEPT ![w] = "fill"] /\ pc[w] = "get"
          /\ UNCHANGED <<queue, emitted, taken, produced, created, adding>>
      BY <1>7, <2>1 DEF GetStream, Goto, s
    <3>3. produced[s] \in Nat /\ taken[s] \in Nat
      BY <3>1 DEF TypeOK
    <3>4. \A v \in Workers : pc'[v] = "fill" => budget'[v] <= produced'[cur'[v]] - taken'[cur'[v]]
      <4> SUFFICES ASSUME NEW v \in Workers, pc'[v] = "fill"
                   PROVE  budget'[v] <= produced'[cur'[v]] - taken'[cur'[v]]
        OBVIOUS
      <4>1. CASE v = w
        <5>1. budget'[v] = produced[s] - taken[s] /\ cur'[v] = s
          BY <4>1, <3>2 DEF TypeOK
        <5> QED BY <5>1, <3>2, <3>3
      <4>2. CASE v # w
        <5>1. budget'[v] = budget[v] /\ cur'[v] = cur[v] /\ pc'[v] = pc[v]
          BY <4>2, <3>2 DEF TypeOK
        <5> QED BY <5>1, <3>2 DEF TakeInv
      <4> QED BY <4>1, <4>2
    <3> QED BY <3>2, <3>4 DEF TakeInv, TypeOK
  <2>2. CASE ~ (sid < Size)
    BY <1>2, <1>7, <2>2 DEF GetStream
  <2> QED BY <2>1, <2>2
<1>8. ASSUME NEW w \in Workers, FillOne(w) PROVE TakeInv'
  <2>1. PICK s \in Streams : s = cur[w]
    BY <1>8 DEF FillOne, LockInv, TypeOK
  <2>2. taken[s] \in Nat /\ produced[s] \in Nat /\ budget[w] \in Int
    BY <2>1 DEF TypeOK
  <2>3. /\ pc[w] = "fill" /\ budget[w] > 0
        /\ taken' = [taken EXCEPT ![s] = taken[s] + 1]
        /\ budget' = [budget EXCEPT ![w] = budget[w] - 1]
        /\ UNCHANGED <<pc, cur, emitted, produced, created, adding>>
        /\ \A v \in Workers \ {w} : queue'[v] = queue[v]
    BY <1>8, <2>1 DEF FillOne, MayDequeue, TypeOK
  <2>4. budget[w] <= produced[s] - taken[s]
    BY <2>1, <2>3 DEF TakeInv
  <2>5. /\ taken'[s] = taken[s] + 1 /\ taken'[s] <= produced[s]
        /\ \A x \in Streams \ {s} : taken'[x] = taken[x]
    <3>1. taken'[s] = taken[s] + 1 /\ \A x \in Streams \ {s} : taken'[x] = taken[x]
      BY <2>3 DEF TypeOK
    <3> QED BY <3>1, <2>2, <2>3, <2>4
  <2>6. \A v \in Workers : pc[v] = "fill" => v = w
    BY <2>3 DEF LockInv, Filling
  <2>7. \A v \in Workers : pc'[v] = "fill" => budget'[v] <= produced'[cur'[v]] - taken'[cur'[v]]
    <3>1. budget'[w] = budget[w] - 1
      BY <2>3 DEF TypeOK
    <3>2. budget[w] - 1 <= produced[s] - (taken[s] + 1)
      BY <2>2, <2>4
    <3> QED BY <3>1, <3>2, <2>1, <2>3, <2>5, <2>6
  <2>8. s \in created /\ adding # s
    BY <2>1, <2>3, SoleHolder DEF LifeInv, Held
  <2>9. \A x \in Streams : taken'[x] <= produced'[x]
    BY <2>3, <2>5 DEF TakeInv
  <2>10. \A x \in Streams : (x \notin created' \/ adding' = x) =>
          taken'[x] = 0 /\ \A p \in Paths : p[1] = x => emitted'[p] = <<>>
    BY <2>3, <2>5, <2>8 DEF TakeInv
  <2>11. \A v \in Workers : pc'[v] \in {"new", "loop", "done"} => queue'[v] = <<>>
    BY <2>3 DEF TakeInv
  <2> QED BY <2>7, <2>9, <2>10, <2>11 DEF TakeInv
<1>9. ASSUME NEW w \in Workers, FillDone(w) PROVE TakeInv'
  <2>1. \A v \in Workers \ {w} : budget'[v] = budget[v]
    BY <1>9 DEF FillDone, TypeOK
  <2> QED BY <1>1, <1>9, <2>1 DEF FillDone, Goto, WorkerPCs
<1>10. ASSUME NEW w \in Workers, DropStream(w) PROVE TakeInv'
  <2>1. \A v \in Workers \ {w} : cur'[v] = cur[v]
    BY <1>10 DEF DropStream, TypeOK
  <2> QED BY <1>1, <1>10, <2>1 DEF DropStream, Goto, WorkerPCs
<1>11. ASSUME NEW w \in Workers, NextStream(w) PROVE TakeInv'
  <2>1. PICK l \in {"drain", "get"} : pc' = [pc EXCEPT ![w] = l]
    BY <1>11 DEF NextStream, Goto
  <2> QED BY <1>1, <1>11, <2>1 DEF NextStream, WorkerPCs
<1>12. ASSUME NEW w \in Workers, Drained(w) \/ DestroyPacket(w) PROVE TakeInv'
  <2>1. CASE Drained(w)
    BY <1>1, <2>1 DEF Drained, Goto, WorkerPCs
  <2>2. CASE DestroyPacket(w)
    BY <1>1, <2>2 DEF DestroyPacket, Goto, WorkerPCs
  <2> QED BY <1>12, <2>1, <2>2
<1>13. ASSUME NEW w \in Workers, EmitPacket(w) PROVE TakeInv'
  <2>1. PICK h \in Packets :
          h \in Known /\ emitted' = [emitted EXCEPT ![h[1]] = Append(emitted[h[1]], h[2])]
    BY <1>13, EmitEffect
  <2>2. /\ pc[w] = "drain" /\ pc' = [pc EXCEPT ![w] = "packet"]
        /\ \A v \in Workers \ {w} : queue'[v] = queue[v]
        /\ UNCHANGED <<taken, produced, created, adding, cur, budget>>
    BY <1>13 DEF EmitPacket, Goto, TypeOK
  <2>3. h[1][1] \in created /\ adding # h[1][1] /\ h[1] \in Paths
    <3>1. h[1] \in PathsOf(h[1][1]) /\ h[1] \in Paths
      BY <2>1, KnownPackets DEF PacketInv
    <3>2. h[1][1] \in Streams /\ npaths[h[1][1]] # 0
      BY <3>1, PathStream DEF PathsOf
    <3> QED BY <3>1, <3>2 DEF LifeInv
  <2>4. \A p \in Paths : p[1] # h[1][1] => emitted'[p] = emitted[p]
    BY <2>1, <2>3 DEF TypeOK
  <2>5. \A x \in Streams : (x \notin created' \/ adding' = x) =>
          taken'[x] = 0 /\ \A p \in Paths : p[1] = x => emitted'[p] = <<>>
    BY <2>2, <2>3, <2>4 DEF TakeInv
  <2>6. \A v \in Workers : pc'[v] \in {"new", "loop", "done"} => queue'[v] = <<>>
    BY <2>2 DEF TakeInv, TypeOK
  <2>7. \A v \in Workers : pc'[v] = "fill" => budget'[v] <= produced'[cur'[v]] - taken'[cur'[v]]
    BY <2>2 DEF TakeInv, TypeOK
  <2> QED BY <2>2, <2>5, <2>6, <2>7 DEF TakeInv
<1>14. ASSUME Start PROVE TakeInv'
  <2>1. \A w \in Workers : pc[w] = "new" /\ queue[w] = <<>>
    BY <1>14 DEF Start, LockInv, TakeInv
  <2> QED BY <1>14, <2>1 DEF Start, TakeInv
<1>15. ASSUME adding # NoStream, NEW n \in 0..Converters[adding], AddConverters(n)
      PROVE  TakeInv'
  BY <1>15 DEF AddConverters, TakeInv
<1>16. ASSUME NEW s \in Streams, AddStream(s) PROVE TakeInv'
  BY <1>16 DEF AddStream, TakeInv
<1>17. ASSUME NEW s \in Streams, Update(s) PROVE TakeInv'
  <2>1. /\ produced' = [produced EXCEPT ![s] = produced[s] + 1]
        /\ UNCHANGED <<pc, cur, budget, queue, emitted, taken, created, adding>>
    BY <1>17 DEF Update
  <2>2. \A x \in Streams : produced[x] \in Nat /\ taken[x] \in Nat /\ produced'[x] \in Nat
                           /\ produced[x] <= produced'[x]
    <3>1. \A x \in Streams : produced[x] \in Nat /\ taken[x] \in Nat
      BY DEF TypeOK
    <3>2. \A x \in Streams : produced'[x] = IF x = s THEN produced[x] + 1 ELSE produced[x]
      BY <2>1 DEF TypeOK
    <3> QED BY <3>1, <3>2
  <2>3. \A x \in Streams : taken'[x] <= produced'[x]
    BY <2>1, <2>2 DEF TakeInv
  <2>4. ASSUME NEW w \in Workers, pc[w] = "fill"
        PROVE  budget[w] <= produced'[cur[w]] - taken[cur[w]]
    <3>1. cur[w] \in Streams /\ budget[w] \in Int
      BY <2>4 DEF LockInv, TypeOK
    <3>2. budget[w] <= produced[cur[w]] - taken[cur[w]]
      BY <2>4 DEF TakeInv
    <3> QED BY <3>1, <3>2, <2>2
  <2> QED BY <2>1, <2>3, <2>4 DEF TakeInv
<1>18. ASSUME \/ EraseDone \/ Exit \/ StatusChecked \/ UNCHANGED vars
              \/ \E w \in Workers : StopWorker(w)
              \/ \E to \in {"stopping", "clearing"} : ClearStreams(to)
              \/ \E i \in 1..Size : StopChannel(i) \/ EraseFailed(i)
              \/ \E s \in Streams : ClientError(s)
              \/ \E t \in Threads, p \in Paths : DestroyPath(t, p)
      PROVE   UNCHANGED <<pc, cur, budget, queue, emitted, taken, produced, created, adding>>
  BY <1>18 DEF EraseDone, Exit, StatusChecked, StopWorker, ClearStreams, StopChannel,
     EraseFailed, ClientError, DestroyPath
<1> QED
  BY <1>2, <1>3, <1>4, <1>5, <1>6, <1>7, <1>8, <1>9, <1>10, <1>11, <1>12, <1>13, <1>14,
     <1>15, <1>16, <1>17, <1>18
  DEF Next, WorkerStep, MainStep, Command, StatusStep, Epics, Ended,
      StopAllChannels, Shutdown

\* Nothing is taken or placed at first.
LEMMA InitTake == Init => TakeInv /\ PlaceInv
<1> SUFFICES ASSUME Init PROVE TakeInv /\ PlaceInv
  OBVIOUS
<1>1. TakeInv
  BY DEF Init, TakeInv
<1>2. \A p \in Paths : p \notin PathsOf(p[1])
  BY PathStream DEF Init, PathsOf
<1> QED BY <1>1, <1>2 DEF PlaceInv

\* The inductive invariant holds in every state the forwarding core reaches.
THEOREM InductiveInvariant == Spec => []IInv
<1>1. Init => TakeInv /\ PlaceInv
  BY InitTake
<1>2. SafeInv /\ TakeInv /\ PlaceInv /\ [Next]_vars => TakeInv' /\ PlaceInv'
  BY NextTake, NextPlaces
<1>3. SafeInv /\ TakeInv /\ PlaceInv => IInv
  BY DEF IInv
<1> QED BY <1>1, <1>2, <1>3, SafetyInvariant, PTL DEF Spec

\* Conservation: an update dequeued from a stream is, for every converter of
\* the stream, either in exactly one worker's queue or emitted, whatever
\* commands, errors and shutdowns interleave with the workers, and a worker
\* thread that has returned leaves nothing behind.
THEOREM NoUpdateLost == Spec => []NothingLost
<1>1. IInv => NothingLost
  <2> SUFFICES ASSUME IInv PROVE NothingLost
    OBVIOUS
  <2>0. TypeOK /\ LockInv /\ TakeInv /\ PlaceInv
    BY DEF IInv, SafeInv
  <2>1. ASSUME NEW s \in Streams, NEW p \in PathsOf(s)
        PROVE  Waiting(p) \cup Sent(p) = 1..taken[s] /\ Waiting(p) \cap Sent(p) = {}
    <3>1. p \in Paths /\ p[1] = s
      BY <2>0, PathsOfInPaths DEF PathsOf
    <3> QED BY <2>0, <3>1 DEF PlaceInv
  <2>2. ASSUME NEW w \in Workers, pc[w] = "done" PROVE Carried(w) = {}
    <3>1. queue[w] = <<>> /\ hand[w] = NoPacket
      BY <2>0, <2>2 DEF TakeInv, LockInv
    <3> QED BY <3>1 DEF Carried, InQueue
  <2> QED BY <2>1, <2>2 DEF NothingLost
<1> QED BY <1>1, InductiveInvariant, PTL
-----------------------------------------------------------------------------
(* Refinement: the forwarding core as a pipe per conversion path.          *)

\* The steps of the core that a user of the pipe can see.
LEMMA VisibleSteps ==
  ASSUME [Next]_vars
  PROVE  \/ UNCHANGED <<produced, emitted>>
         \/ \E s \in Streams : Update(s)
         \/ \E w \in Workers : EmitPacket(w)
<1>1. ASSUME NEW w \in Workers, WorkerStep(w), ~ EmitPacket(w)
      PROVE  UNCHANGED <<produced, emitted>>
  BY <1>1 DEF WorkerStep, Loop, CheckSize, LockStreams, ResetSid, GetStream, FillOne,
     FillDone, DropStream, NextStream, DestroyPacket, Drained
<1>2. ASSUME MainStep PROVE UNCHANGED <<produced, emitted>>
  BY <1>2 DEF MainStep, AddConverters, Start, EraseDone, StopWorker, Shutdown, ClearStreams
<1>3. ASSUME Command PROVE UNCHANGED <<produced, emitted>>
  BY <1>3 DEF Command, AddStream, StopChannel, StopAllChannels, ClearStreams, Exit
<1>4. ASSUME StatusStep PROVE UNCHANGED <<produced, emitted>>
  BY <1>4 DEF StatusStep, EraseFailed, StatusChecked
<1>5. ASSUME NEW s \in Streams, ClientError(s) PROVE UNCHANGED <<produced, emitted>>
  BY <1>5 DEF ClientError
<1>6. ASSUME NEW d \in Threads, NEW p \in Paths, DestroyPath(d, p)
      PROVE  UNCHANGED <<produced, emitted>>
  BY <1>6 DEF DestroyPath
<1>7. ASSUME Ended \/ UNCHANGED vars PROVE UNCHANGED <<produced, emitted>>
  BY <1>7 DEF Ended
<1> QED BY <1>1, <1>2, <1>3, <1>4, <1>5, <1>6, <1>7 DEF Next, Epics

\* What ConversionPath::emit is called with: an update that the client of
\* the stream delivered and that has not left on this path before.
LEMMA EmitDelivers ==
  ASSUME IInv, NEW w \in Workers, EmitPacket(w)
  PROVE  \E p \in Paths : \E n \in 1..produced[p[1]] :
           /\ n \in Waiting(p) /\ n \notin Sent(p)
           /\ p \in PathsOf(p[1])
           /\ queue[w][1] = <<p, n>>
           /\ emitted' = [emitted EXCEPT ![p] = Append(emitted[p], n)]
           /\ UNCHANGED produced
<1>0. TypeOK /\ PacketInv /\ TakeInv /\ PlaceInv
  BY DEF IInv, SafeInv
<1>1. PICK h \in Packets :
           /\ h = queue[w][1] /\ h \in InQueue(w) /\ h \in Known
           /\ emitted' = [emitted EXCEPT ![h[1]] = Append(emitted[h[1]], h[2])]
  BY <1>0, EmitEffect
<1>2. /\ h[1] \in Paths /\ h[2] \in Nat \ {0} /\ h = <<h[1], h[2]>>
      /\ h[1] \in PathsOf(h[1][1]) /\ h[2] <= taken[h[1][1]]
  BY <1>0, <1>1, KnownPackets DEF PacketInv
<1>3. h[1][1] \in Streams
  BY <1>2, PathStream
<1>4. h[2] \in 1..produced[h[1][1]]
  <2>1. /\ taken[h[1][1]] \in Nat /\ produced[h[1][1]] \in Nat
        /\ taken[h[1][1]] <= produced[h[1][1]]
    BY <1>0, <1>3 DEF TypeOK, TakeInv
  <2> QED BY <2>1, <1>2
<1>5. h[2] \in Waiting(h[1])
  BY <1>0, <1>1, <1>2, WaitingIff, ZenonT(40)
<1>6. h[2] \notin Sent(h[1])
  BY <1>0, <1>2, <1>5 DEF PlaceInv
<1>7. UNCHANGED produced
  BY DEF EmitPacket
<1> QED BY <1>1, <1>2, <1>4, <1>5, <1>6, <1>7

\* The forwarding core implements the abstract pipe, for any number of
\* workers: every update leaves a path at most once, none is invented, and
\* commands, EPICS errors, shutdown and std::terminate are stutters.
THEOREM CoreImplementsPipe == Spec => ImplementsPipe
<1>1. Init => Pipe!Init
  BY DEF Init, Pipe!Init
<1>2. IInv /\ [Next]_vars => [Pipe!Next]_<<produced, emitted>>
  <2> SUFFICES ASSUME IInv, [Next]_vars PROVE [Pipe!Next]_<<produced, emitted>>
    OBVIOUS
  <2>1. ASSUME NEW s \in Streams, Update(s) PROVE Pipe!Next
    BY <2>1 DEF Update, Pipe!Next, Pipe!Produce
  <2>2. ASSUME NEW w \in Workers, EmitPacket(w) PROVE Pipe!Next
    <3>0. PICK p \in Paths : \E n \in 1..produced[p[1]] :
             /\ n \notin Sent(p)
             /\ emitted' = [emitted EXCEPT ![p] = Append(emitted[p], n)]
             /\ UNCHANGED produced
      BY <2>2, EmitDelivers
    <3>1. PICK n \in 1..produced[p[1]] :
             /\ n \notin Sent(p)
             /\ emitted' = [emitted EXCEPT ![p] = Append(emitted[p], n)]
             /\ UNCHANGED produced
      BY <3>0
    <3>2. Pipe!Deliver(p)
      BY <3>1 DEF Pipe!Deliver, Pipe!Sent, Sent
    <3> QED BY <3>2 DEF Pipe!Next
  <2> QED BY <2>1, <2>2, VisibleSteps
<1> QED BY <1>1, <1>2, InductiveInvariant, PTL DEF Spec, ImplementsPipe, Pipe!Spec

\* A worker's queue holds the updates of a path in the order in which they
\* were dequeued.
QueueOrder ==
  \A w \in Workers : \A i, j \in 1..Len(queue[w]) :
    i < j /\ queue[w][i][1] = queue[w][j][1] => queue[w][i][2] < queue[w][j][2]

\* The updates left each path in order and without a gap.
SentOrder ==
  \A p \in Paths : \A i \in 1..Len(emitted[p]) : emitted[p][i] = i

\* Every step keeps the updates of a path in order within a queue.
LEMMA NextQueueOrder ==
  IInv /\ QueueOrder /\ [Next]_vars => QueueOrder'
<1> SUFFICES ASSUME IInv, QueueOrder, [Next]_vars PROVE QueueOrder'
  OBVIOUS
<1>0. TypeOK /\ LockInv /\ PacketInv
  BY DEF IInv, SafeInv
<1>1. ASSUME NEW w \in Workers, FillOne(w) PROVE QueueOrder'
  <2>1. PICK s \in Streams : s = cur[w]
    BY <1>0, <1>1 DEF FillOne, LockInv, TypeOK
  <2>2. PICK n \in Nat \ {0} : n = taken[s] + 1 /\ taken[s] \in Nat
    <3>1. taken[s] \in Nat
      BY <1>0 DEF TypeOK
    <3> QED BY <3>1
  <2> DEFINE batch == [i \in 1..npaths[s] |-> <<<<s, i>>, n>>]
             q == queue[w]
  <2>a. npaths[s] \in Nat
    BY <1>0 DEF TypeOK
  <2>b. Len(batch) = npaths[s]
    BY <2>a
  <2>c. batch \in Seq(Packets)
    BY <1>0, BatchSeq
  <2>3. batch \in Seq(Packets) /\ Len(batch) = npaths[s] /\ npaths[s] \in Nat
    BY <2>a, <2>b, <2>c
  <2>4. \A i \in 1..npaths[s] : batch[i] = <<<<s, i>>, n>>
    OBVIOUS
  <2>5. queue' = [queue EXCEPT ![w] = q \o batch] /\ q \in Seq(Packets)
    BY <1>0, <1>1, <2>1, <2>2 DEF FillOne, TypeOK
  <2> HIDE DEF batch, q
  <2>6. /\ Len(q \o batch) = Len(q) + Len(batch) /\ Len(q) \in Nat
        /\ \A j \in 1..(Len(q) + Len(batch)) :
             (q \o batch)[j] = IF j <= Len(q) THEN q[j] ELSE batch[j - Len(q)]
    <3>1. q \in Seq(Packets) /\ batch \in Seq(Packets)
      BY <2>3, <2>5
    <3>2. Len(q) \in Nat
      BY <3>1, LenProperties
    <3> QED BY <3>1, <3>2, ConcatProperties, ZenonT(40)
  <2>7. ASSUME NEW i \in 1..Len(q \o batch), NEW j \in 1..Len(q \o batch),
               i < j, (q \o batch)[i][1] = (q \o batch)[j][1]
        PROVE  (q \o batch)[i][2] < (q \o batch)[j][2]
    <3>1. CASE j <= Len(q)
      <4>1. /\ i \in 1..Len(q) /\ j \in 1..Len(q)
            /\ (q \o batch)[i] = q[i] /\ (q \o batch)[j] = q[j]
        BY <2>6, <2>7, <3>1
      <4> QED BY <4>1, <2>7 DEF QueueOrder, q
    <3>2. CASE i <= Len(q) /\ ~ (j <= Len(q))
      <4>1. i \in 1..Len(q) /\ (q \o batch)[i] = q[i]
        BY <2>6, <3>2
      <4>2. j - Len(q) \in 1..npaths[s] /\ (q \o batch)[j] = batch[j - Len(q)]
        BY <2>3, <2>6, <3>2
      <4>3. (q \o batch)[j] = <<<<s, j - Len(q)>>, n>>
        BY <4>2, <2>4
      <4>4. q[i][1][1] = s
        BY <4>1, <4>3, <2>7
      <4>5. q[i] \in Known /\ q[i] \in Packets
        BY <1>0, <4>1, KnownPackets DEF q
      <4>6. q[i][2] <= taken[s] /\ q[i][2] \in Nat
        BY <1>0, <4>4, <4>5, KnownPackets DEF PacketInv
      <4> QED BY <4>1, <4>3, <4>6, <2>2
    <3>3. CASE ~ (i <= Len(q)) /\ ~ (j <= Len(q))
      <4>1. /\ i - Len(q) \in 1..npaths[s] /\ (q \o batch)[i] = batch[i - Len(q)]
            /\ j - Len(q) \in 1..npaths[s] /\ (q \o batch)[j] = batch[j - Len(q)]
        BY <2>3, <2>6, <3>3, SMTT(40)
      <4>2. <<s, i - Len(q)>> = <<s, j - Len(q)>>
        BY <4>1, <2>4, <2>7
      <4>3. i = j
        BY <4>2, <2>6
      <4> QED BY <4>3, <2>7
    <3> QED BY <3>1, <3>2, <3>3, <2>6, <2>7
  <2>8. queue'[w] = q \o batch /\ \A v \in Workers \ {w} : queue'[v] = queue[v]
    BY <1>0, <2>5 DEF TypeOK
  <2> QED BY <2>7, <2>8 DEF QueueOrder, q
<1>2. ASSUME NEW w \in Workers, EmitPacket(w) PROVE QueueOrder'
  <2>1. /\ queue' = [queue EXCEPT ![w] = Tail(queue[w])]
        /\ queue[w] \in Seq(Packets) /\ queue[w] # <<>>
    BY <1>0, <1>2 DEF EmitPacket, TypeOK
  <2>2. queue'[w] = Tail(queue[w]) /\ \A v \in Workers \ {w} : queue'[v] = queue[v]
    BY <1>0, <2>1 DEF TypeOK
  <2>3. /\ Len(queue[w]) \in Nat \ {0} /\ Len(queue'[w]) = Len(queue[w]) - 1
        /\ \A j \in 1..(Len(queue[w]) - 1) : queue'[w][j] = queue[w][j + 1]
    <3> DEFINE q == queue[w]
    <3>1. q \in Seq(Packets) /\ q # <<>>
      BY <2>1
    <3> HIDE DEF q
    <3>2. /\ Len(q) \in Nat \ {0} /\ Len(Tail(q)) = Len(q) - 1
          /\ \A j \in 1..(Len(q) - 1) : Tail(q)[j] = q[j + 1]
      BY <3>1, HeadTailProperties
    <3> QED BY <3>2, <2>2 DEF q
  <2>4. ASSUME NEW i \in 1..Len(queue'[w]), NEW j \in 1..Len(queue'[w]),
               i < j, queue'[w][i][1] = queue'[w][j][1]
        PROVE  queue'[w][i][2] < queue'[w][j][2]
    <3>1. /\ i + 1 \in 1..Len(queue[w]) /\ j + 1 \in 1..Len(queue[w]) /\ i + 1 < j + 1
          /\ queue'[w][i] = queue[w][i + 1] /\ queue'[w][j] = queue[w][j + 1]
      BY <2>3, <2>4, SMTT(40)
    <3> QED BY <3>1, <2>4 DEF QueueOrder
  <2> QED BY <2>2, <2>4 DEF QueueOrder
<1>3. ASSUME queue' = queue PROVE QueueOrder'
  BY <1>3 DEF QueueOrder
<1>4. ASSUME NEW w \in Workers, WorkerStep(w), ~ EmitPacket(w), ~ FillOne(w)
      PROVE  queue' = queue
  BY <1>4 DEF WorkerStep, Loop, CheckSize, LockStreams, ResetSid, GetStream,
     FillDone, DropStream, NextStream, DestroyPacket, Drained
<1>5. ASSUME MainStep \/ Command \/ StatusStep \/ Epics \/ Ended \/ UNCHANGED vars
      PROVE  queue' = queue
  BY <1>5 DEF MainStep, AddConverters, Start, EraseDone, StopWorker, Shutdown, ClearStreams,
     Command, AddStream, StopChannel, StopAllChannels, Exit, StatusStep, EraseFailed,
     StatusChecked, Epics, Update, ClientError, Ended
<1>6. ASSUME NEW d \in Threads, NEW p \in Paths, DestroyPath(d, p)
      PROVE  queue' = queue
  BY <1>6 DEF DestroyPath
<1> QED BY <1>1, <1>2, <1>3, <1>4, <1>5, <1>6 DEF Next

\* With one worker, the packet at the front of the queue is the next update
\* of its path.
LEMMA FrontIsNext ==
  ASSUME IInv, QueueOrder, SentOrder, NEW w, Workers = {w},
         NEW p \in Paths, NEW n \in Nat \ {0},
         p \in PathsOf(p[1]), queue[w][1] = <<p, n>>, n \in Waiting(p), n \notin Sent(p)
  PROVE  n = Len(emitted[p]) + 1
<1>0. TypeOK /\ PlaceInv /\ emitted[p] \in Seq(Nat \ {0}) /\ taken[p[1]] \in Nat
  BY PathStream DEF IInv, SafeInv, TypeOK
<1>1. PICK m \in Nat \ {0} : m = Len(emitted[p]) + 1
  BY <1>0
<1>2. \A x \in 1..(m - 1) : x \in Sent(p)
  BY <1>0, <1>1 DEF SentOrder, Sent
<1>3. m \notin Sent(p)
  BY <1>0, <1>1 DEF SentOrder, Sent
<1>4. n \in 1..taken[p[1]] /\ m <= n
  <2>1. n \in 1..taken[p[1]]
    BY <1>0 DEF PlaceInv
  <2>2. ~ (n \in 1..(m - 1))
    BY <1>2
  <2> QED BY <2>1, <2>2, <1>0
<1>5. m \in Waiting(p)
  <2>1. m \in 1..taken[p[1]]
    BY <1>0, <1>4
  <2> QED BY <2>1, <1>0, <1>3 DEF PlaceInv
<1>6. PICK j \in 1..Len(queue[w]) : queue[w][j] = <<p, m>>
  <2>1. <<p, m>> \in InQueue(w)
    BY <1>0, <1>5, WaitingIff
  <2> QED BY <2>1 DEF InQueue
<1>7. CASE j = 1
  BY <1>1, <1>6, <1>7
<1>8. CASE j # 1
  <2>1. 1 \in 1..Len(queue[w]) /\ 1 < j
    BY <1>8
  <2>2. queue[w][1][1] = queue[w][j][1] /\ queue[w][1][2] = n /\ queue[w][j][2] = m
    BY <1>6
  <2>3. n < m
    BY <2>1, <2>2 DEF QueueOrder
  <2> QED BY <2>3, <1>4
<1> QED BY <1>7, <1>8

\* With one worker, every step keeps the messages of a path in order.
LEMMA NextSentOrder ==
  ASSUME NEW w0, Workers = {w0}
  PROVE  IInv /\ QueueOrder /\ SentOrder /\ [Next]_vars => SentOrder'
<1> SUFFICES ASSUME IInv, QueueOrder, SentOrder, [Next]_vars PROVE SentOrder'
  OBVIOUS
<1>1. ASSUME NEW w \in Workers, EmitPacket(w) PROVE SentOrder'
  <2>0. PICK p \in Paths : \E n \in 1..produced[p[1]] :
           /\ n \in Waiting(p) /\ n \notin Sent(p)
           /\ p \in PathsOf(p[1])
           /\ queue[w][1] = <<p, n>>
           /\ emitted' = [emitted EXCEPT ![p] = Append(emitted[p], n)]
    BY <1>1, EmitDelivers
  <2>1. PICK n \in 1..produced[p[1]] :
           /\ n \in Waiting(p) /\ n \notin Sent(p)
           /\ p \in PathsOf(p[1])
           /\ queue[w][1] = <<p, n>>
           /\ emitted' = [emitted EXCEPT ![p] = Append(emitted[p], n)]
    BY <2>0
  <2>2. produced[p[1]] \in Nat /\ emitted[p] \in Seq(Nat \ {0}) /\ emitted \in [Paths -> Seq(Nat \ {0})]
    BY PathStream DEF IInv, SafeInv, TypeOK
  <2>3. n \in Nat \ {0} /\ w = w0
    BY <2>2
  <2>4. n = Len(emitted[p]) + 1
    BY <2>1, <2>3, FrontIsNext
  <2>5. emitted'[p] = Append(emitted[p], n) /\ \A q \in Paths \ {p} : emitted'[q] = emitted[q]
    BY <2>1, <2>2
  <2>6. \A i \in 1..Len(emitted'[p]) : emitted'[p][i] = i
    <3>1. /\ Len(emitted'[p]) = Len(emitted[p]) + 1 /\ Len(emitted[p]) \in Nat
          /\ \A i \in 1..Len(emitted[p]) : emitted'[p][i] = emitted[p][i]
          /\ emitted'[p][Len(emitted[p]) + 1] = n
      BY <2>2, <2>3, <2>5, ElemsAppend, SMTT(40)
    <3> QED BY <3>1, <2>4 DEF SentOrder
  <2> QED BY <2>5, <2>6 DEF SentOrder
<1>2. ASSUME emitted' = emitted PROVE SentOrder'
  BY <1>2 DEF SentOrder
<1>3. ASSUME NEW s \in Streams, Update(s) PROVE emitted' = emitted
  BY <1>3 DEF Update
<1> QED BY <1>1, <1>2, <1>3, VisibleSteps

\* With one conversion thread the updates of a stream leave every path in the
\* order in which fillConversionQueue dequeued them from the stream's output
\* queue, without a gap and without a repetition: no batch, partial fill or
\* shutdown changes an order. (Which update the output queue hands out next is
\* no part of it: with several enqueueing threads that is open.)
THEOREM OneWorkerImplementsFifoPipe ==
  ASSUME NEW w0, Workers = {w0}
  PROVE  Spec => ImplementsFifoPipe
<1>1. Init => FifoPipe!Init /\ QueueOrder /\ SentOrder
  BY DEF Init, FifoPipe!Init, QueueOrder, SentOrder
<1>2. IInv /\ QueueOrder /\ SentOrder /\ [Next]_vars => QueueOrder' /\ SentOrder'
  BY NextQueueOrder, NextSentOrder
<1>3. IInv /\ QueueOrder /\ SentOrder /\ [Next]_vars => [FifoPipe!Next]_<<produced, emitted>>
  <2> SUFFICES ASSUME IInv, QueueOrder, SentOrder, [Next]_vars
               PROVE  [FifoPipe!Next]_<<produced, emitted>>
    OBVIOUS
  <2>1. ASSUME NEW s \in Streams, Update(s) PROVE FifoPipe!Next
    BY <2>1 DEF Update, FifoPipe!Next, FifoPipe!Produce
  <2>2. ASSUME NEW w \in Workers, EmitPacket(w) PROVE FifoPipe!Next
    <3>0. PICK p \in Paths : \E n \in 1..produced[p[1]] :
             /\ n \in Waiting(p) /\ n \notin Sent(p) /\ p \in PathsOf(p[1])
             /\ queue[w][1] = <<p, n>>
             /\ emitted' = [emitted EXCEPT ![p] = Append(emitted[p], n)]
             /\ UNCHANGED produced
      BY <2>2, EmitDelivers
    <3>1. PICK n \in 1..produced[p[1]] :
             /\ n \in Waiting(p) /\ n \notin Sent(p) /\ p \in PathsOf(p[1])
             /\ queue[w][1] = <<p, n>>
             /\ emitted' = [emitted EXCEPT ![p] = Append(emitted[p], n)]
             /\ UNCHANGED produced
      BY <3>0
    <3>2. n \in Nat \ {0} /\ w = w0
      <4>1. produced[p[1]] \in Nat
        BY PathStream DEF IInv, SafeInv, TypeOK
      <4> QED BY <4>1
    <3>3. n = Len(emitted[p]) + 1
      BY <3>1, <3>2, FrontIsNext
    <3>4. FifoPipe!Deliver(p)
      BY <3>1, <3>3 DEF FifoPipe!Deliver, FifoPipe!Sent, Sent
    <3> QED BY <3>4 DEF FifoPipe!Next
  <2> QED BY <2>1, <2>2, VisibleSteps
<1> QED
  BY <1>1, <1>2, <1>3, InductiveInvariant, PTL DEF Spec, ImplementsFifoPipe, FifoPipe!Spec
=============================================================================
